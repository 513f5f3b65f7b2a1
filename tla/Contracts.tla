------------------------------- MODULE Contracts -------------------------------
(***************************************************************************)
(* ContractMonitor and SafetyEnvelope of src/battousai/contracts.py.  In a *)
(* tick the monitor thinks first and then the agents act, each action      *)
(* asking the envelope.  Whether a condition holds is chosen at each check.*)
(***************************************************************************)
EXTENDS Naturals, FiniteSets, Sequences, SequencesExt

CONSTANTS
  Parties,
  Policies,      \* per agent: the policies of the conditions of its contract
  Limits,        \* per metric: max_..._per_tick
  MaxAgents,     \* max_total_agents
  MaxKernelTick  \* bound on ticks

Kinds == {"invariant", "postcondition", "precondition"}
Metrics == {"messages", "mem_writes", "tool_calls", "spawns"}

ContractsAssumption ==
  /\ Policies \in [Parties -> [Kinds -> SUBSET {"WARN", "BLOCK", "KILL"}]]
  /\ Limits \in [Metrics -> Nat]
  /\ MaxAgents \in Nat /\ MaxKernelTick \in Nat

VARIABLES
  kernelTick,   \* of the kernel
  alive,        \* agents of the kernel
  contracts,    \* keys of _contracts, in order
  blocked,      \* _blocked_agents
  ranLast,      \* _agents_ran_last_tick
  thought,      \* whether the monitor had its turn in this tick
  currentTick,  \* _current_tick of the envelope, 0 for -1
  counters,     \* _tick_counters
  failedNow,    \* history: agents whose precondition failed in this tick
  done          \* history: what the envelope let agents do in this tick

contractMonitor == <<contracts, blocked, ranLast>>
envelope == <<currentTick, counters>>
contracting == <<kernelTick, alive, thought, contractMonitor, envelope, failedNow, done>>

NoCounts == [a \in Parties |-> [m \in Metrics |-> 0]]

-----------------------------------------------------------------------------
(* ContractMonitor                                                          *)

RegisterContract(a) ==
  /\ contracts' = IF a \in ToSet(contracts) THEN contracts ELSE Append(contracts, a)
  /\ UNCHANGED <<kernelTick, alive, thought, blocked, ranLast, envelope, failedNow,
                 done>>

UnregisterContract(a) ==
  /\ contracts' = Remove(contracts, a)
  /\ UNCHANGED <<kernelTick, alive, thought, blocked, ranLast, envelope, failedNow,
                 done>>

ClearBlock(a) ==
  /\ blocked' = blocked \ {a}
  /\ UNCHANGED <<kernelTick, alive, thought, contracts, ranLast, envelope, failedNow,
                 done>>

\* How the checks of an agent end: a failed one may kill it, a failed
\* precondition may block it, other failures are only logged.
Outcomes(a) ==
  LET checks == IF a \in ranLast THEN Kinds ELSE Kinds \ {"postcondition"} IN
    {"passed"}
      \cup (IF \E k \in checks : "KILL" \in Policies[a][k] THEN {"killed"} ELSE {})
      \cup (IF "BLOCK" \in Policies[a]["precondition"] THEN {"blocked"} ELSE {})

\* Mutant of KeptBlocks: blocks are dropped only when all agents could be checked.
KeptBlocksIfAbandoned(abandoned) == IF abandoned THEN blocked ELSE {}

\* The blocks of earlier ticks that a think leaves.
KeptBlocks(abandoned) == {}

\* A killed agent ends the think with an exception: the agents after it are
\* not checked and _agents_ran_last_tick stays as it was.
MonitorThink ==
  /\ ~thought
  /\ thought' = TRUE
  /\ LET known == SelectSeq(contracts, LAMBDA a : a \in alive) IN
       \E outcome \in [ToSet(known) -> UNION {Outcomes(a) : a \in Parties}] :
         LET deaths == {i \in DOMAIN known : outcome[known[i]] = "killed"}
             dead == {i \in deaths : \A j \in deaths : i <= j}
             seen == {known[i] : i \in {i \in DOMAIN known : \A d \in dead : i < d}}
             stopped == {a \in seen : outcome[a] = "blocked"}
         IN /\ \A a \in ToSet(known) : outcome[a] \in Outcomes(a)
            /\ alive' = alive \ {known[d] : d \in dead}
            /\ failedNow' = stopped
            /\ blocked' = KeptBlocks(dead # {}) \cup stopped
            /\ ranLast' = IF dead = {} THEN seen \ stopped ELSE ranLast
  /\ UNCHANGED <<kernelTick, contracts, envelope, done>>

-----------------------------------------------------------------------------
(* SafetyEnvelope                                                           *)

\* _reset_tick: the counters a call in this tick sees.
Counters == IF currentTick = kernelTick THEN counters ELSE NoCounts

\* _increment, if the call is allowed, and the action that follows.
CountAction(a, metric, allowed) ==
  LET more(c) == IF allowed THEN [c EXCEPT ![a][metric] = @ + 1] ELSE c IN
    /\ thought
    /\ a \in alive
    /\ currentTick' = kernelTick
    /\ counters' = more(Counters)
    /\ done' = more(done)
    /\ UNCHANGED <<kernelTick, thought, contractMonitor, failedNow>>

Within(a, metric) == Counters[a][metric] < Limits[metric]

CheckSendMessage(a) ==
  CountAction(a, "messages", Within(a, "messages")) /\ UNCHANGED alive

CheckWriteMemory(a) ==
  CountAction(a, "mem_writes", Within(a, "mem_writes")) /\ UNCHANGED alive

CheckToolCall(a) ==
  \E forbidden \in BOOLEAN :
    CountAction(a, "tool_calls", ~forbidden /\ Within(a, "tool_calls")) /\ UNCHANGED alive

\* total_agents is the number of live agents; one more follows.
CheckSpawnAgent(a, child) ==
  LET allowed == Cardinality(alive) < MaxAgents /\ Within(a, "spawns") IN
    /\ child \notin alive
    /\ CountAction(a, "spawns", allowed)
    /\ alive' = IF allowed THEN alive \cup {child} ELSE alive

\* A file is too large or not: only the tick of the envelope changes.
CheckFileWrite(a) == CountAction(a, "messages", FALSE) /\ UNCHANGED alive

-----------------------------------------------------------------------------
NextTick ==
  /\ kernelTick < MaxKernelTick
  /\ kernelTick' = kernelTick + 1
  /\ thought' = FALSE
  /\ failedNow' = {}
  /\ done' = NoCounts
  /\ UNCHANGED <<alive, contractMonitor, envelope>>

ContractInit ==
  /\ kernelTick = 1
  /\ alive \in SUBSET Parties
  /\ thought = FALSE
  /\ contracts = << >> /\ blocked = {} /\ ranLast = {} /\ failedNow = {}
  /\ currentTick = 0 /\ counters = NoCounts /\ done = NoCounts

ContractNext ==
  \/ NextTick \/ MonitorThink
  \/ \E a \in Parties :
       \/ RegisterContract(a) \/ UnregisterContract(a) \/ ClearBlock(a)
       \/ CheckSendMessage(a) \/ CheckWriteMemory(a) \/ CheckToolCall(a)
       \/ CheckFileWrite(a)
       \/ \E child \in Parties : CheckSpawnAgent(a, child)

ContractSpec == ContractInit /\ [][ContractNext]_contracting

-----------------------------------------------------------------------------
(***************************************************************************)
(* Nothing of an earlier tick counts.  Once the monitor had its turn, also *)
(* one that ended early because an agent was killed, only agents that      *)
(* failed in this tick are blocked; and no agent does more of anything in  *)
(* a tick than the envelope allows, although the counters are cleared only *)
(* by the first call of a tick, which may be that of another agent.        *)
(***************************************************************************)
TickIsFresh ==
  /\ thought => blocked \subseteq failedNow
  /\ \A a \in Parties, m \in Metrics : done[a][m] <= Limits[m]
  /\ currentTick = kernelTick => counters = done
=============================================================================
