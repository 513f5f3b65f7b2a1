------------------------------ MODULE Scheduler ------------------------------
(***************************************************************************)
(* Scheduler as a component of its own: the process table driven by        *)
(* Scheduler.tick, which elects, preempts and rotates, interleaved with    *)
(* any caller's use of the public operations.                              *)
(***************************************************************************)
EXTENDS ProcessTable, FiniteSets

VARIABLE picked  \* what the last call of tick returned

vars == <<table, picked>>

-----------------------------------------------------------------------------
(* The first loop of tick drops TERMINATED processes from every queue.      *)
ToRemove(q) == {k \in DOMAIN q : state[q[k]] = "TERMINATED"}

Kept(q) == SelectSeq(q, LAMBDA i : state[i] # "TERMINATED")

Swept == [p \in Priorities |->
            IF ToRemove(queues[p]) = {} THEN queues[p] ELSE Kept(queues[p])]

\* Where the first READY process of a queue stands, if there is one.
ReadyAt(q) == {k \in DOMAIN q : state[q[k]] = "READY"}

\* _pick_next pops the entries in front of the first READY one.
DropStale(q) == IF ReadyAt(q) = {} THEN <<>>
                ELSE SubSeq(q, Min(ReadyAt(q)), Len(q))

ReadyLevels == {p \in Priorities : ReadyAt(Swept[p]) # {}}

\* Mutant of NextProc: last in, first out.
NewestProc == Last(Swept[Min(ReadyLevels)])

\* The highest-priority READY process: the head of the best level.
NextProc == Head(DropStale(Swept[Min(ReadyLevels)]))

\* The queues as _pick_next leaves them: levels below the best are not looked at.
Cleaned == [p \in Priorities |->
              IF ReadyLevels = {} \/ p <= Min(ReadyLevels)
              THEN DropStale(Swept[p]) ELSE Swept[p]]

\* Nobody is READY: the running process, if any, is put back to READY.
TickIdle ==
  /\ ReadyLevels = {}
  /\ state' = IF running = None THEN state
              ELSE [state EXCEPT ![running] = "READY"]
  /\ queues' = Cleaned
  /\ running' = None
  /\ picked' = None
  /\ UNCHANGED <<priority, remaining, yields>>

\* A strictly better process preempts the running one.
Preempts == running # None /\ priority[NextProc] < priority[running]

\* The preempted process goes to the front of its queue and keeps its slice.
QueuesAfterPreemption ==
  IF Preempts THEN [Cleaned EXCEPT ![priority[running]] = <<running>> \o @]
  ELSE Cleaned

\* The running process goes on unless there is none or it was preempted.
Continues == running # None /\ ~Preempts /\ state[running] = "RUNNING"

Elected == IF Continues THEN running ELSE NextProc

\* Mutant of Rotated: the process goes back to the front.
RotatedToFront(q, i) == [q EXCEPT ![priority[i]] = <<i>> \o @]

Rotated(q, i) == [q EXCEPT ![priority[i]] = Append(@, i)]

\* The elected process runs; at the end of its slice, or when it asked to
\* yield, it rotates to the back of its queue.
TickRun ==
  /\ ReadyLevels # {}
  /\ LET i == Elected
         q == IF Continues THEN Cleaned
              ELSE [QueuesAfterPreemption EXCEPT ![priority[i]] = RemoveFirst(@, i)]
         over == remaining[i] - 1 <= 0 \/ i \in yields
         preempted == [state EXCEPT ![IF Preempts THEN running ELSE i] = "READY"]
     IN /\ picked' = i
        /\ IF over
           THEN /\ state' = [preempted EXCEPT ![i] = "READY"]
                /\ ResetSlice(i)
                /\ queues' = Rotated(q, i)
                /\ running' = None
           ELSE /\ state' = [preempted EXCEPT ![i] = "RUNNING"]
                /\ remaining' = [remaining EXCEPT ![i] = @ - 1]
                /\ queues' = q
                /\ running' = i
                /\ UNCHANGED yields
  /\ UNCHANGED priority

Tick == TickIdle \/ TickRun

-----------------------------------------------------------------------------
(* The public operations, called between two ticks.                         *)

Call(i) ==
  /\ \/ \E p \in PriorityArgs : AddProcess(i, p)
     \/ RemoveProcess(i)
     \/ BlockProcess(i)
     \/ UnblockProcess(i)
     \/ TerminateProcess(i)
     \/ \E p \in PriorityArgs : Reprioritize(i, p)
     \/ YieldCpu(i)
  /\ UNCHANGED picked

Init == TableInit /\ picked = None

Next == Tick \/ \E i \in Ids : Call(i)

Spec == Init /\ [][Next]_vars

\* The event loop keeps ticking; callers owe nothing.
Fairness == WF_vars(Tick)

-----------------------------------------------------------------------------
(* Properties.                                                              *)
(***************************************************************************)
(* A process stands in at most one queue, at one place, only in the queue  *)
(* of its current priority, and only while READY; and the process in the   *)
(* running slot is the only one that is RUNNING.  Every operation moves    *)
(* descriptors between deques by hand (scheduler.py:117-217, 256-298), so  *)
(* a forgotten remove or a remove from the wrong deque after a change of   *)
(* priority would break it.                                                *)
(***************************************************************************)
QueueDiscipline ==
  /\ \A p \in Priorities : IsInjective(queues[p])
  /\ \A i \in Ids, p \in Priorities :
       InQueue(i, p) => p = priority[i] /\ state[i] = "READY"
  /\ \A i \in Ids : state[i] = "RUNNING" <=> running = i

\* i stands before j in q.
Before(q, i, j) == \E m, n \in DOMAIN q : m < n /\ q[m] = i /\ q[n] = j

(***************************************************************************)
(* A tick lets nobody overtake: it gives the CPU to no process while a     *)
(* strictly better one is READY in a queue; of two processes queued at the *)
(* same level the first is elected before the second, also when the level  *)
(* was swept, preempted into or rotated in the same tick; and the process  *)
(* that is preempted keeps its remaining ticks and is the next of its      *)
(* level.                                                                  *)
(***************************************************************************)
NoOvertaking ==
  [][Tick =>
       /\ \A i \in Ids : InQueue(i, priority[i]) =>
            picked' # None /\ priority[picked'] <= priority[i]
       /\ \A p \in Priorities, i, j \in Ids :
            Before(queues[p], i, j) /\ picked' # i =>
              picked' # j /\ Before(queues'[p], i, j)
       /\ \A i \in Ids :
            running = i /\ picked' \notin {i, None} /\ state'[i] = "READY" =>
              /\ Head(queues'[priority[i]]) = i
              /\ remaining'[i] = remaining[i]]_vars

(***************************************************************************)
(* Round robin starves nobody at the highest level: a process queued there *)
(* is eventually elected, or a caller takes it out of that queue, whatever *)
(* the other operations do meanwhile, provided that callers stop sending   *)
(* it to the back of the queue, which is what reprioritizing a process to  *)
(* the level it already has does.                                          *)
(***************************************************************************)
TopLevelRuns ==
  \A i \in Ids :
    <>[][~Reprioritize(i, 0)]_vars =>
      (InQueue(i, 0) ~> (picked = i \/ ~InQueue(i, 0)))
=============================================================================
