---------------------------- MODULE ProcessTable ----------------------------
(***************************************************************************)
(* The scheduler's process table (src/battousai/scheduler.py): one         *)
(* descriptor per agent, one FIFO deque per priority level, and the        *)
(* operations that move a descriptor between states.                       *)
(*                                                                         *)
(* The table has two clients, each a module of its own: Scheduler, which   *)
(* adds Scheduler.tick, and Kernel, which walks the queues itself and      *)
(* never calls Scheduler.tick.                                             *)
(*                                                                         *)
(* A process that is not in Scheduler._all has the state "ABSENT".  The    *)
(* statistics (ticks_run, total_scheduled, ...) and wait_for, which no     *)
(* code reads, are left out.  No code assigns AgentState.BLOCKED.          *)
(***************************************************************************)
EXTENDS Integers, Sequences, SequencesExt

CONSTANTS
  Ids,            \* the agent ids a run may use
  NumPriorities,  \* Scheduler.NUM_PRIORITIES
  Slice,          \* time_slice of each process
  None            \* Python's None

ASSUME NumPrioritiesAssumption == NumPriorities \in Nat \ {0}
ASSUME SliceAssumption == Slice \in [Ids -> Nat \ {0}]
ASSUME NoneAssumption == None \notin Ids

VARIABLES
  state,      \* ProcessDescriptor.state
  priority,   \* ProcessDescriptor.priority
  remaining,  \* ProcessDescriptor.remaining_ticks
  yields,     \* the processes whose yield_requested flag is set
  queues,     \* Scheduler._queues
  running     \* Scheduler._running

table == <<state, priority, remaining, yields, queues, running>>

Priorities == 0 .. NumPriorities - 1

\* max(0, min(9, p)): priorities outside the range are clamped, not refused.
Clamp(p) == IF p < 0 THEN 0
            ELSE IF p \in Priorities THEN p ELSE NumPriorities - 1

\* What callers pass as a priority: the range and one value beyond each end.
PriorityArgs == -1 .. NumPriorities

ProcStates == {"ABSENT", "READY", "RUNNING", "WAITING", "TERMINATED"}

known == {i \in Ids : state[i] # "ABSENT"}

InQueue(i, p) == \E k \in DOMAIN queues[p] : queues[p][k] = i

\* deque.remove(proc) on the queue of the process's own priority; a process
\* that is not there (ValueError) changes nothing.
Dequeued(i) == [queues EXCEPT ![priority[i]] = RemoveFirst(@, i)]

TableTypeOK ==
  /\ state \in [Ids -> ProcStates]
  /\ priority \in [Ids -> Priorities]
  /\ remaining \in [Ids -> Int]
  /\ yields \subseteq Ids
  /\ queues \in [Priorities -> Seq(Ids)]
  /\ running \in Ids \cup {None}

TableInit ==
  /\ state = [i \in Ids |-> "ABSENT"]
  /\ priority = [i \in Ids |-> 0]
  /\ remaining = [i \in Ids |-> Slice[i]]
  /\ yields = {}
  /\ queues = [p \in Priorities |-> <<>>]
  /\ running = None

-----------------------------------------------------------------------------

(* An operation on an unknown id returns early; the kernel, the only caller  *)
(* of add_process, never reuses an id that is still in the table.            *)

AddProcess(i, p) ==
  /\ i \notin known
  /\ state' = [state EXCEPT ![i] = "READY"]
  /\ priority' = [priority EXCEPT ![i] = Clamp(p)]
  /\ remaining' = [remaining EXCEPT ![i] = Slice[i]]
  /\ yields' = yields \ {i}
  /\ queues' = [queues EXCEPT ![Clamp(p)] = Append(@, i)]
  /\ UNCHANGED running

\* What remove, block and terminate share: the process leaves its queue and
\* stops being the running one.
LeaveCPU(i) ==
  /\ queues' = Dequeued(i)
  /\ running' = IF running = i THEN None ELSE running

RemoveProcess(i) ==
  /\ i \in known
  /\ state' = [state EXCEPT ![i] = "ABSENT"]
  /\ LeaveCPU(i)
  /\ UNCHANGED <<priority, remaining, yields>>

BlockProcess(i) ==
  /\ i \in known
  /\ state' = [state EXCEPT ![i] = "WAITING"]
  /\ LeaveCPU(i)
  /\ UNCHANGED <<priority, remaining, yields>>

TerminateProcess(i) ==
  /\ i \in known
  /\ state' = [state EXCEPT ![i] = "TERMINATED"]
  /\ LeaveCPU(i)
  /\ UNCHANGED <<priority, remaining, yields>>

\* ProcessDescriptor.reset_slice
ResetSlice(i) ==
  /\ remaining' = [remaining EXCEPT ![i] = Slice[i]]
  /\ yields' = yields \ {i}

\* Mutant of UnblockProcess: the process is READY but not queued.
UnblockWithoutQueue(i) ==
  /\ state[i] = "WAITING"
  /\ state' = [state EXCEPT ![i] = "READY"]
  /\ ResetSlice(i)
  /\ UNCHANGED <<priority, queues, running>>

UnblockProcess(i) ==
  /\ state[i] = "WAITING"
  /\ state' = [state EXCEPT ![i] = "READY"]
  /\ ResetSlice(i)
  /\ queues' = [queues EXCEPT ![priority[i]] = Append(@, i)]
  /\ UNCHANGED <<priority, running>>

\* Mutant of Reprioritize: the process stays in its old queue as well.
ReprioritizeTwice(i, p) ==
  /\ i \in known
  /\ priority' = [priority EXCEPT ![i] = Clamp(p)]
  /\ queues' = IF state[i] = "READY"
               THEN [queues EXCEPT ![Clamp(p)] = Append(@, i)]
               ELSE queues
  /\ UNCHANGED <<state, remaining, yields, running>>

Reprioritize(i, p) ==
  /\ i \in known
  /\ priority' = [priority EXCEPT ![i] = Clamp(p)]
  /\ queues' = IF state[i] = "READY"
               THEN [Dequeued(i) EXCEPT ![Clamp(p)] = Append(@, i)]
               ELSE Dequeued(i)
  /\ UNCHANGED <<state, remaining, yields, running>>

\* ProcessDescriptor.yield_cpu, reached through the yield_cpu system call
YieldCpu(i) ==
  /\ i \in known
  /\ yields' = yields \cup {i}
  /\ UNCHANGED <<state, priority, remaining, queues, running>>
=============================================================================
