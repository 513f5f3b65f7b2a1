----------------------------- MODULE KernelProofs -----------------------------
(***************************************************************************)
(* Proofs about Kernel, for every number of agents, priorities and ticks.  *)
(***************************************************************************)
EXTENDS Kernel, QueueLemmas

-----------------------------------------------------------------------------
(* The process table.                                                       *)

\* A clamped priority is a priority.
LEMMA ClampType == \A p \in Int : Clamp(p) \in Priorities
BY NumPrioritiesAssumption DEF Clamp, Priorities

\* Leaving a queue keeps the queues well typed, moves nobody into a queue,
\* and takes nobody but i out of one.
LEMMA DequeuedFacts ==
  ASSUME TableTypeOK, NEW i \in Ids
  PROVE  /\ Dequeued(i) \in [Priorities -> Seq(Ids)]
         /\ \A j, p : p \in Priorities /\ Elem(j, Dequeued(i)[p]) => InQueue(j, p)
         /\ \A j, p : p \in Priorities /\ InQueue(j, p) /\ j # i
                        => Elem(j, Dequeued(i)[p])
<1> DEFINE q == queues[priority[i]]
<1>1. priority[i] \in Priorities /\ q \in Seq(Ids) /\ queues \in [Priorities -> Seq(Ids)]
  BY DEF TableTypeOK
<1>2. /\ RemoveFirst(q, i) \in Seq(Ids)
      /\ \A x : Elem(x, RemoveFirst(q, i)) => Elem(x, q)
      /\ \A x : Elem(x, q) /\ x # i => Elem(x, RemoveFirst(q, i))
  BY <1>1, RemoveFirstFacts
<1>3. Dequeued(i) = [queues EXCEPT ![priority[i]] = RemoveFirst(q, i)]
  BY DEF Dequeued
<1>4. \A j, p : InQueue(j, p) <=> Elem(j, queues[p])
  BY DEF InQueue, Elem
<1> HIDE DEF q
<1>5. Dequeued(i) \in [Priorities -> Seq(Ids)]
  BY <1>1, <1>2, <1>3
<1>6. \A p \in Priorities :
        Dequeued(i)[p] = IF p = priority[i] THEN RemoveFirst(q, i) ELSE queues[p]
  BY <1>1, <1>3
<1> QED BY <1>2, <1>4, <1>5, <1>6 DEF q

\* The queues after i joined the queue of priority p.
Joined(qs, p, i) == [qs EXCEPT ![p] = Append(@, i)]

\* Joining a queue keeps everybody where they are.
LEMMA JoinedFacts ==
  ASSUME NEW qs \in [Priorities -> Seq(Ids)], NEW p \in Priorities, NEW i \in Ids
  PROVE  /\ Joined(qs, p, i) \in [Priorities -> Seq(Ids)]
         /\ Elem(i, Joined(qs, p, i)[p])
         /\ \A j, r : r \in Priorities /\ Elem(j, qs[r]) => Elem(j, Joined(qs, p, i)[r])
<1> DEFINE new == Joined(qs, p, i)
<1>1. /\ Append(qs[p], i) \in Seq(Ids)
      /\ \A x : Elem(x, Append(qs[p], i)) <=> Elem(x, qs[p]) \/ x = i
  BY AppendFacts
<1>2. new \in [Priorities -> Seq(Ids)]
  BY <1>1 DEF Joined
<1>3. \A r \in Priorities :
        new[r] = IF r = p THEN Append(qs[p], i) ELSE qs[r]
  BY <1>1 DEF Joined
<1> QED BY <1>1, <1>2, <1>3

\* Every operation of the table keeps it well typed.
LEMMA TableOperations ==
  ASSUME TableTypeOK, NEW i \in Ids, NEW p \in PriorityArgs,
         \/ AddProcess(i, p) \/ BlockProcess(i) \/ UnblockProcess(i)
         \/ TerminateProcess(i) \/ Reprioritize(i, p) \/ YieldCpu(i)
  PROVE  TableTypeOK'
<1>1. Clamp(p) \in Priorities
  BY ClampType, NumPrioritiesAssumption DEF PriorityArgs
<1>2. Dequeued(i) \in [Priorities -> Seq(Ids)]
  BY DequeuedFacts
<1>3. priority[i] \in Priorities /\ queues \in [Priorities -> Seq(Ids)]
  BY DEF TableTypeOK
<1>4. Slice[i] \in Int
  BY SliceAssumption
<1>5. CASE AddProcess(i, p)
  <2>1. queues' \in [Priorities -> Seq(Ids)]
    <3>1. queues' = Joined(queues, Clamp(p), i)
      BY <1>5 DEF AddProcess, Joined
    <3> QED BY <1>1, <1>3, <3>1, JoinedFacts
  <2> QED BY <1>1, <1>4, <1>5, <2>1 DEF AddProcess, TableTypeOK, ProcStates
<1>6. CASE BlockProcess(i)
  BY <1>2, <1>6 DEF BlockProcess, LeaveCPU, TableTypeOK, ProcStates
<1>7. CASE UnblockProcess(i)
  <2>1. queues' \in [Priorities -> Seq(Ids)]
    <3>1. queues' = Joined(queues, priority[i], i)
      BY <1>7 DEF UnblockProcess, Joined
    <3> QED BY <1>3, <3>1, JoinedFacts
  <2> QED BY <1>4, <1>7, <2>1 DEF UnblockProcess, ResetSlice, TableTypeOK, ProcStates
<1>8. CASE TerminateProcess(i)
  BY <1>2, <1>8 DEF TerminateProcess, LeaveCPU, TableTypeOK, ProcStates
<1>9. CASE Reprioritize(i, p)
  <2>1. queues' \in [Priorities -> Seq(Ids)]
    <3>1. queues' \in {Joined(Dequeued(i), Clamp(p), i), Dequeued(i)}
      BY <1>9 DEF Reprioritize, Joined
    <3> QED BY <1>1, <1>2, <3>1, JoinedFacts
  <2> QED BY <1>1, <1>9, <2>1 DEF Reprioritize, TableTypeOK
<1>10. CASE YieldCpu(i)
  BY <1>10 DEF YieldCpu, TableTypeOK
<1> QED BY <1>5, <1>6, <1>7, <1>8, <1>9, <1>10

-----------------------------------------------------------------------------
(* Type correctness.                                                        *)

LEMMA TypeInit == Init => TypeOK
<1> SUFFICES ASSUME Init PROVE TypeOK
  OBVIOUS
<1> USE NumPrioritiesAssumption, SliceAssumption, MaxTicksAssumption
<1>1. TableTypeOK
  BY DEF Init, TableInit, TableTypeOK, ProcStates, Priorities
<1>2. born \in [Ids -> 0 .. MaxTicks]
  BY DEF Init
<1>3. stack \in Seq(Frame) /\ todo \in Seq(Ids)
  BY DEF Init
<1>4. now \in 0 .. MaxTicks /\ budget \in 0 .. MaxTicks
  BY DEF Init
<1> QED BY <1>1, <1>2, <1>3, <1>4 DEF Init, TypeOK

LEMMA TypeNext == TypeOK /\ [Next]_vars => TypeOK'
<1> SUFFICES ASSUME TypeOK, [Next]_vars PROVE TypeOK'
  OBVIOUS
<1> USE MaxTicksAssumption, IdsAssumption
<1>table. TableTypeOK
  BY DEF TypeOK
<1>frame. ASSUME UNCHANGED table PROVE TableTypeOK'
  BY <1>table, <1>frame DEF table, TableTypeOK
<1>pop. stack # <<>> => Tail(stack) \in Seq(Frame) /\ Head(stack) \in Frame
  BY DEF TypeOK
<1>push. ASSUME NEW h \in {"on_spawn", "on_terminate"}, NEW i \in Ids, Push(h, i)
         PROVE  stack' \in Seq(Frame)
  <2>1. [hook |-> h, of |-> i] \in Frame
    BY DEF Frame
  <2>2. <<[hook |-> h, of |-> i]>> \in Seq(Frame)
    BY <2>1
  <2> QED BY <1>push, <2>2 DEF Push, TypeOK
<1>next. todo # <<>> => Tail(todo) \in Seq(Ids) /\ Head(todo) \in Ids
  BY DEF TypeOK
<1>1. CASE SpawnConstructorFails
  BY <1>1, <1>frame DEF SpawnConstructorFails, TypeOK, loopVars
<1>2. CASE SpawnMkdirFails
  BY <1>2, <1>frame DEF SpawnMkdirFails, TypeOK, loopVars
<1>3. CASE Spawn
  <2>1. Fresh \in Ids /\ Fresh \in Nat
    BY <1>3 DEF Spawn
  <2>2. TableTypeOK'
    BY <1>3, <1>table, <2>1, TableOperations DEF Spawn
  <2>3. stack' \in Seq(Frame)
    BY <1>3, <1>push, <2>1 DEF Spawn
  <2> QED BY <1>3, <2>1, <2>2, <2>3 DEF Spawn, TypeOK, loopVars
<1>4. CASE SpawnReturn
  BY <1>4, <1>frame, <1>pop DEF SpawnReturn, TypeOK, kernelVars, loopVars
<1>5. CASE KillReturn
  <2> DEFINE i == Head(stack).of
  <2>1. i \in Ids
    BY <1>5, <1>pop DEF KillReturn, Frame
  <2>2. TableTypeOK'
    <3>1. 0 \in PriorityArgs
      BY NumPrioritiesAssumption DEF PriorityArgs
    <3> QED BY <1>5, <1>table, <2>1, <3>1, TableOperations DEF KillReturn
  <2>3. killCount' \in Nat
    BY <1>5 DEF KillReturn, KillCountAfter, TypeOK
  <2>4. stack' \in Seq(Frame)
    BY <1>5, <1>pop DEF KillReturn
  <2> QED BY <1>5, <2>2, <2>3, <2>4 DEF KillReturn, Release, TypeOK, loopVars
<1>6. ASSUME NEW i \in Ids, Kill(i) PROVE TypeOK'
  BY <1>6, <1>frame, <1>push DEF Kill, TypeOK, kernelVars, loopVars
<1>7. ASSUME NEW i \in Ids, WriteFile(i) PROVE TypeOK'
  BY <1>7, <1>frame DEF WriteFile, TypeOK, loopVars
<1>8. ASSUME NEW i \in Ids, SchedulerCall(i) PROVE TypeOK'
  <2>1. TableTypeOK'
    <3>1. 0 \in PriorityArgs
      BY NumPrioritiesAssumption DEF PriorityArgs
    <3> QED BY <1>8, <1>table, <3>1, TableOperations DEF SchedulerCall
  <2> QED BY <1>8, <2>1 DEF SchedulerCall, TypeOK, kernelVars, loopVars
<1>9. CASE Yield
  <2>1. Caller \in Ids
    BY <1>9, <1>pop DEF Yield, InAgent, Caller, TypeOK, Frame
  <2>2. TableTypeOK'
    <3>1. 0 \in PriorityArgs
      BY NumPrioritiesAssumption DEF PriorityArgs
    <3> QED BY <1>9, <1>table, <2>1, <3>1, TableOperations DEF Yield
  <2> QED BY <1>9, <2>2 DEF Yield, TypeOK, kernelVars, loopVars
<1>10. CASE Halt
  BY <1>10, <1>frame DEF Halt, TypeOK, loopVars
<1>11. ASSUME NEW n \in 1 .. MaxTicks, Run(n) PROVE TypeOK'
  BY <1>11, <1>frame DEF Run, TypeOK, loopVars
<1>12. CASE RunBreak
  BY <1>12, <1>frame DEF RunBreak, TypeOK, loopVars
<1>13. CASE TickBegin
  <2>1. IsFiniteSet(Ready) /\ Ready \subseteq Ids
    BY FS_Interval, FS_Subset DEF Ready
  <2>2. todo' \in SetToSeqs(Ready)
    BY <1>13 DEF TickBegin, ReadyOrders
  <2>3. todo' \in Seq(Ready)
    BY <2>1, <2>2, SetToSeqsFacts
  <2>4. todo' \in Seq(Ids)
    BY <2>1, <2>3, SequencesOverSubset
  <2> QED BY <1>13, <1>frame, <2>4 DEF TickBegin, TypeOK
<1>14. CASE Skip
  BY <1>14, <1>frame, <1>next DEF Skip, RestOfTick, TypeOK, kernelVars
<1>15. CASE Dispatch
  <2>1. TableTypeOK'
    <3>1. /\ state' = [state EXCEPT ![Head(todo)] = "RUNNING"]
          /\ remaining' = [remaining EXCEPT ![Head(todo)] = remaining[Head(todo)] - 1]
          /\ Head(todo) \in Ids
          /\ UNCHANGED <<priority, yields, queues, running>>
      BY <1>15, <1>next DEF Dispatch
    <3>2. remaining[Head(todo)] \in Int
      BY <1>table, <3>1 DEF TableTypeOK
    <3> QED BY <1>table, <3>1, <3>2 DEF TableTypeOK, ProcStates
  <2> QED BY <1>15, <1>next, <2>1 DEF Dispatch, RestOfTick, TypeOK, kernelVars
<1>16. CASE ThinkReturn
  <2>1. current \in Ids
    BY <1>16 DEF ThinkReturn, TypeOK
  <2>2. Dequeued(current) \in [Priorities -> Seq(Ids)]
    BY <1>table, <2>1, DequeuedFacts
  <2>3. Slice[current] \in Int
    BY <2>1, SliceAssumption
  <2>4. TableTypeOK'
    BY <1>16, <1>table, <2>1, <2>2, <2>3
       DEF ThinkReturn, ResetSlice, TableTypeOK, ProcStates, table
  <2> QED BY <1>16, <2>4 DEF ThinkReturn, TypeOK, kernelVars
<1>17. CASE Collect
  BY <1>17, <1>frame DEF Collect, Release, TypeOK
<1>18. CASE UNCHANGED vars
  BY <1>18, <1>frame DEF vars, kernelVars, loopVars, TypeOK
<1> QED
  BY <1>1, <1>2, <1>3, <1>4, <1>5, <1>6, <1>7, <1>8, <1>9, <1>10, <1>11, <1>12,
     <1>13, <1>14, <1>15, <1>16, <1>17, <1>18 DEF Next

(***************************************************************************)
(* Every variable keeps its type: the kernel's tables, the remaining       *)
(* agents of a tick and the stack of hooks are always well formed.         *)
(***************************************************************************)
THEOREM TypeCorrect == Spec => []TypeOK
BY TypeInit, TypeNext, PTL DEF Spec

-----------------------------------------------------------------------------
(* Live agents and their resources, whatever scheduler operations agents   *)
(* and host call: no assumption on HostCalls and AgentCalls is used here.  *)

\* Ids beyond the counter have never been used: without it, spawn_agent could
\* meet the mailbox of an older agent.
UsedIds == \A i \in known \cup mailboxes : i <= counter

\* The agent whose think() runs has a descriptor, also after it was killed.
ThinkerKnown == current # None => current \in known

ResourceInv ==
  TypeOK /\ ResourcesMatch /\ UsedIds /\ ThinkerKnown /\ KillsCounted

\* Only AddProcess changes which processes are known.
LEMMA KnownFacts ==
  ASSUME TableTypeOK, NEW i \in Ids
  PROVE  /\ \A p : AddProcess(i, p) => known' = known \cup {i}
         /\ \/ BlockProcess(i) \/ UnblockProcess(i) \/ TerminateProcess(i)
            \/ YieldCpu(i) \/ \E p \in PriorityArgs : Reprioritize(i, p)
            => known' = known
<1> USE DEF TableTypeOK, known
<1>1. ASSUME NEW p, AddProcess(i, p) PROVE known' = known \cup {i}
  BY <1>1 DEF AddProcess
<1>2. ASSUME BlockProcess(i) PROVE known' = known
  BY <1>2 DEF BlockProcess
<1>3. ASSUME UnblockProcess(i) PROVE known' = known
  BY <1>3 DEF UnblockProcess
<1>4. ASSUME TerminateProcess(i) PROVE known' = known
  BY <1>4 DEF TerminateProcess
<1>5. ASSUME YieldCpu(i) PROVE known' = known
  BY <1>5 DEF YieldCpu
<1>6. ASSUME NEW p \in PriorityArgs, Reprioritize(i, p) PROVE known' = known
  BY <1>6 DEF Reprioritize
<1> QED BY <1>1, <1>2, <1>3, <1>4, <1>5, <1>6

\* Sets of agents are finite, so they can be counted.
LEMMA AgentSetsFinite ==
  ASSUME NEW S, S \subseteq Ids
  PROVE  IsFiniteSet(S) /\ Cardinality(S) \in Nat
<1>1. IsFiniteSet(Ids)
  BY IdsAssumption, FS_Interval
<1>2. IsFiniteSet(S)
  BY <1>1, FS_Subset
<1> QED BY <1>2, FS_CardinalityType

\* A step that changes neither the agents nor their resources.
LEMMA ResourcesKept ==
  ASSUME ResourceInv, TypeOK', known' = known,
         UNCHANGED <<agents, mailboxes, spaces, killCount>>, counter' >= counter,
         current' = current \/ current' \in known \cup {None}
  PROVE  ResourceInv'
<1>same. /\ known' = known /\ agents' = agents /\ mailboxes' = mailboxes
         /\ spaces' = spaces /\ killCount' = killCount
  OBVIOUS
<1>1. UsedIds'
  <2>1. \A i \in known \cup mailboxes : i \in Nat
    BY IdsAssumption DEF ResourceInv, TypeOK, known
  <2>2. counter \in Nat /\ counter' \in Nat
    BY DEF ResourceInv, TypeOK
  <2>3. \A i \in known \cup mailboxes : i <= counter
    BY DEF ResourceInv, UsedIds
  <2>4. \A i \in known \cup mailboxes : i <= counter'
    BY <2>1, <2>2, <2>3
  <2> QED BY <2>4, <1>same DEF UsedIds
<1>2. ResourcesMatch'
  BY <1>same DEF ResourceInv, ResourcesMatch
<1>3. ThinkerKnown'
  BY <1>same DEF ResourceInv, ThinkerKnown
<1>4. KillsCounted'
  BY <1>same DEF ResourceInv, KillsCounted
<1> QED BY <1>1, <1>2, <1>3, <1>4 DEF ResourceInv

LEMMA ResourceInit == Init => ResourceInv
<1> SUFFICES ASSUME Init PROVE ResourceInv
  OBVIOUS
<1>1. known = {}
  BY DEF Init, TableInit, known
<1>2. Cardinality({}) = 0
  BY FS_EmptySet
<1>3. ResourcesMatch /\ UsedIds /\ ThinkerKnown
  BY <1>1 DEF Init, ResourcesMatch, UsedIds, ThinkerKnown
<1>4. KillsCounted
  BY <1>1, <1>2 DEF Init, KillsCounted
<1> QED BY <1>3, <1>4, TypeInit DEF ResourceInv

LEMMA ResourceNext == ResourceInv /\ [Next]_vars => ResourceInv'
<1> SUFFICES ASSUME ResourceInv, [Next]_vars PROVE ResourceInv'
  OBVIOUS
<1>type. TypeOK /\ TypeOK' /\ TableTypeOK
  BY TypeNext DEF ResourceInv, TypeOK
<1>nat. counter \in Nat /\ \A i \in known \cup mailboxes : i \in Nat
  BY <1>type, IdsAssumption DEF TypeOK, known
<1>kept. ASSUME UNCHANGED state PROVE known' = known
  BY <1>kept DEF known
<1>frame. stack # <<>> => Head(stack).of \in Ids
  <2>1. stack # <<>> => Head(stack) \in Frame
    BY <1>type DEF TypeOK
  <2> QED BY <2>1 DEF Frame
<1>1. CASE SpawnConstructorFails
  BY <1>1, <1>type, <1>kept, <1>nat, ResourcesKept
     DEF SpawnConstructorFails, Fresh, table, loopVars
<1>2. CASE SpawnMkdirFails
  <2>1. known' = known /\ counter' = counter + 1
    BY <1>2, <1>kept DEF SpawnMkdirFails, Fresh, table
  <2>2. Fresh \notin known /\ Fresh \notin mailboxes
    BY <1>nat DEF ResourceInv, UsedIds, Fresh
  <2>3. ResourcesMatch' /\ UsedIds' /\ ThinkerKnown' /\ KillsCounted'
    BY <1>2, <1>nat, <2>1, <2>2
       DEF SpawnMkdirFails, ResourceInv, ResourcesMatch, UsedIds, ThinkerKnown,
           loopVars, KillsCounted, Fresh
  <2> QED BY <1>type, <2>3 DEF ResourceInv
<1>3. CASE Spawn
  <2>1. Fresh \in Ids /\ Fresh = counter + 1 /\ counter' = Fresh
    BY <1>3 DEF Spawn, Fresh
  <2>2. known' = known \cup {Fresh}
    BY <1>3, <1>type, <2>1, KnownFacts DEF Spawn
  <2>3. Fresh \notin known /\ Fresh \notin mailboxes
    BY <1>nat DEF ResourceInv, UsedIds, Fresh
  <2>4. ResourcesMatch' /\ UsedIds' /\ ThinkerKnown'
    BY <1>3, <1>nat, <2>1, <2>2, <2>3
       DEF Spawn, ResourceInv, ResourcesMatch, UsedIds, ThinkerKnown, loopVars
  <2>5. Fresh \notin agents
    BY <2>3 DEF ResourceInv, ResourcesMatch
  <2>6. /\ Cardinality(agents \cup {Fresh}) = Cardinality(agents) + 1
        /\ Cardinality(known \cup {Fresh}) = Cardinality(known) + 1
        /\ Cardinality(agents) \in Nat /\ Cardinality(known) \in Nat
    <3>1. IsFiniteSet(agents) /\ IsFiniteSet(known)
      BY <1>type, AgentSetsFinite DEF TypeOK, known
    <3> QED BY <2>3, <2>5, <3>1, FS_AddElement, FS_CardinalityType
  <2>7. KillsCounted'
    BY <1>3, <1>type, <2>2, <2>6 DEF Spawn, KillsCounted, ResourceInv, TypeOK
  <2> QED BY <1>type, <2>4, <2>7 DEF ResourceInv
<1>4. CASE SpawnReturn
  BY <1>4, <1>type, <1>kept, <1>nat, ResourcesKept DEF SpawnReturn, table, kernelVars, loopVars
<1>5. CASE KillReturn
  <2> DEFINE i == Head(stack).of
  <2>1. i \in Ids /\ known' = known /\ agents' = agents \ {i}
    BY <1>5, <1>type, <1>frame, KnownFacts DEF KillReturn
  <2>2. ResourcesMatch' /\ UsedIds' /\ ThinkerKnown'
    BY <1>5, <2>1 DEF KillReturn, Release, ResourceInv, ResourcesMatch, UsedIds, ThinkerKnown, loopVars
  <2>3. /\ Cardinality(agents \ {i}) = IF i \in agents THEN Cardinality(agents) - 1
                                      ELSE Cardinality(agents)
        /\ Cardinality(agents) \in Nat /\ Cardinality(known) \in Nat
    <3>1. IsFiniteSet(agents) /\ IsFiniteSet(known)
      BY <1>type, AgentSetsFinite DEF TypeOK, known
    <3> QED BY <3>1, FS_RemoveElement, FS_CardinalityType
  <2>4. KillsCounted'
    <3>1. killCount \in Nat /\ killCount' = IF i \in agents THEN killCount + 1 ELSE killCount
      BY <1>5, <1>type DEF KillReturn, KillCountAfter, TypeOK
    <3> QED BY <2>1, <2>3, <3>1 DEF KillsCounted, ResourceInv
  <2> QED BY <1>type, <2>2, <2>4 DEF ResourceInv
<1>6. ASSUME NEW i \in Ids, Kill(i) PROVE ResourceInv'
  BY <1>6, <1>type, <1>kept, <1>nat, ResourcesKept DEF Kill, table, kernelVars, loopVars
<1>7. ASSUME NEW i \in Ids, WriteFile(i) PROVE ResourceInv'
  BY <1>7, <1>type, <1>kept, <1>nat, ResourcesKept DEF WriteFile, table, loopVars
<1>8. ASSUME NEW i \in Ids, SchedulerCall(i) PROVE ResourceInv'
  BY <1>8, <1>type, <1>nat, KnownFacts, ResourcesKept DEF SchedulerCall, kernelVars, loopVars
<1>9. CASE Yield
  <2>1. Caller \in Ids
    BY <1>9, <1>type, <1>frame DEF Yield, InAgent, Caller, TypeOK
  <2> QED BY <1>9, <1>type, <1>nat, <2>1, KnownFacts, ResourcesKept DEF Yield, kernelVars, loopVars
<1>10. CASE Halt
  BY <1>10, <1>type, <1>kept, <1>nat, ResourcesKept DEF Halt, table, loopVars
<1>11. ASSUME NEW n \in 1 .. MaxTicks, Run(n) PROVE ResourceInv'
  BY <1>11, <1>type, <1>kept, <1>nat, ResourcesKept DEF Run, table, loopVars
<1>12. CASE RunBreak
  BY <1>12, <1>type, <1>kept, <1>nat, ResourcesKept DEF RunBreak, table, loopVars
<1>13. CASE TickBegin
  BY <1>13, <1>type, <1>kept, <1>nat, ResourcesKept DEF TickBegin, table, loopVars
<1>14. CASE Skip
  BY <1>14, <1>type, <1>kept, <1>nat, ResourcesKept DEF Skip, RestOfTick, table, kernelVars, loopVars
<1>15. CASE Dispatch
  <2>1. known' = known
    BY <1>15, <1>type DEF Dispatch, known, TableTypeOK, ResourceInv, ResourcesMatch
  <2>2. current' \in known
    BY <1>15 DEF Dispatch, ResourceInv, ResourcesMatch
  <2> QED BY <1>15, <1>type, <1>nat, <2>1, <2>2, ResourcesKept DEF Dispatch, kernelVars
<1>16. CASE ThinkReturn
  <2>1. known' = known
    <3>1. current \in known
      BY <1>16 DEF ThinkReturn, ResourceInv, ThinkerKnown
    <3> QED BY <1>16, <1>type, <3>1 DEF ThinkReturn, known, TableTypeOK, table
  <2> QED BY <1>16, <1>type, <1>nat, <2>1, ResourcesKept DEF ThinkReturn, kernelVars
<1>17. CASE Collect
  <2> DEFINE gone == {i \in agents : state[i] = "TERMINATED"}
  <2>1. known' = known
    BY <1>17, <1>kept DEF Collect, table
  <2>2. ResourcesMatch' /\ UsedIds' /\ ThinkerKnown'
    BY <1>17, <2>1 DEF Collect, Release, ResourceInv, ResourcesMatch, UsedIds, ThinkerKnown, loopVars
  <2>3. /\ Cardinality(agents \ gone) <= Cardinality(agents)
        /\ Cardinality(agents \ gone) \in Nat
        /\ Cardinality(agents) \in Nat /\ Cardinality(known) \in Nat
    <3>1. IsFiniteSet(agents) /\ IsFiniteSet(known) /\ agents \ gone \in SUBSET agents
      BY <1>type, AgentSetsFinite DEF TypeOK, known
    <3>2. IsFiniteSet(agents \ gone)
      BY <3>1, FS_Subset
    <3> QED BY <3>1, <3>2, FS_Subset, FS_CardinalityType
  <2>4. KillsCounted'
    <3>1. killCount \in Nat /\ killCount' = killCount /\ agents' = agents \ gone
      BY <1>17, <1>type DEF Collect, TypeOK
    <3> QED BY <2>1, <2>3, <3>1 DEF KillsCounted, ResourceInv
  <2> QED BY <1>type, <2>2, <2>4 DEF ResourceInv
<1>18. CASE UNCHANGED vars
  BY <1>18, <1>type, <1>kept, <1>nat, ResourcesKept DEF vars, kernelVars, table, loopVars
<1> QED
  BY <1>1, <1>2, <1>3, <1>4, <1>5, <1>6, <1>7, <1>8, <1>9, <1>10, <1>11, <1>12,
     <1>13, <1>14, <1>15, <1>16, <1>17, <1>18 DEF Next

LEMMA ResourceInvariant == Spec => []ResourceInv
BY ResourceInit, ResourceNext, PTL DEF Spec

(***************************************************************************)
(* The ids in _agents are exactly the scheduled ids with a mailbox, and    *)
(* mailboxes and memory spaces go together, under any nesting of hooks.    *)
(***************************************************************************)
THEOREM ResourcesAlwaysMatch == Spec => []ResourcesMatch
BY ResourceInvariant, PTL DEF ResourceInv

(***************************************************************************)
(* No kill is counted twice, under any nesting of hooks.                   *)
(***************************************************************************)
THEOREM KillsAlwaysCounted == Spec => []KillsCounted
BY ResourceInvariant, PTL DEF ResourceInv

-----------------------------------------------------------------------------
(* The loop of tick(), whatever scheduler operations agents and host call. *)

\* Nobody is left to be met twice, or is met before the tick after its spawn.
LoopInv ==
  /\ ~inTick => todo = <<>> /\ thought = {}
  /\ \A j, k \in DOMAIN todo : todo[j] = todo[k] => j = k
  /\ \A i : Elem(i, todo) => i \notin thought /\ i \in known /\ born[i] < now
  /\ \A i \in thought : i \in known /\ born[i] < now
  /\ \A i \in Ids : born[i] <= now

\* The snapshot lists each READY process once.
LEMMA SnapshotFacts ==
  ASSUME NEW s \in ReadyOrders
  PROVE  /\ s \in Seq(Ids)
         /\ \A j, k \in DOMAIN s : s[j] = s[k] => j = k
         /\ \A i : Elem(i, s) <=> i \in Ready
<1>1. IsFiniteSet(Ready) /\ Ready \subseteq Ids
  BY AgentSetsFinite DEF Ready
<1>2. s \in SetToSeqs(Ready)
  BY DEF ReadyOrders
<1>3. s \in Seq(Ready)
  BY <1>1, <1>2, SetToSeqsFacts
<1>4. s \in Seq(Ids)
  BY <1>1, <1>3, SequencesOverSubset
<1> QED BY <1>1, <1>2, <1>4, SetToSeqsFacts

\* A step that leaves the loop, the clock and the known processes alone.
LEMMA LoopKept ==
  ASSUME LoopInv, known' = known,
         UNCHANGED <<inTick, todo, thought, born, now>>
  PROVE  LoopInv'
BY DEF LoopInv, Elem

LEMMA LoopNext == ResourceInv /\ LoopInv /\ [Next]_vars => LoopInv'
<1> SUFFICES ASSUME ResourceInv, LoopInv, [Next]_vars PROVE LoopInv'
  OBVIOUS
<1>type. TypeOK /\ TypeOK' /\ TableTypeOK /\ born \in [Ids -> Int] /\ now \in Int
  <2>1. TypeOK /\ TypeOK'
    BY TypeNext DEF ResourceInv
  <2>2. TableTypeOK /\ now \in 0 .. MaxTicks /\ born \in [Ids -> 0 .. MaxTicks]
    BY <2>1 DEF TypeOK
  <2>3. now \in Int /\ born \in [Ids -> Int]
    BY <2>2, MaxTicksAssumption
  <2> QED BY <2>1, <2>2, <2>3
<1>nat. counter \in Nat /\ \A i \in known \cup mailboxes : i \in Nat
  BY <1>type, IdsAssumption DEF TypeOK, known
<1>kept. ASSUME UNCHANGED state PROVE known' = known
  BY <1>kept DEF known
<1>frame. stack # <<>> => Head(stack).of \in Ids
  <2>1. stack # <<>> => Head(stack) \in Frame
    BY <1>type DEF TypeOK
  <2> QED BY <2>1 DEF Frame
<1>next. todo # <<>> =>
           /\ Head(todo) \in Ids
           /\ Elem(Head(todo), todo)
           /\ ~ Elem(Head(todo), Tail(todo))
           /\ \A i : Elem(i, Tail(todo)) => Elem(i, todo)
           /\ \A j, k \in DOMAIN Tail(todo) : Tail(todo)[j] = Tail(todo)[k] => j = k
  <2>1. todo \in Seq(Ids)
    BY <1>type DEF TypeOK
  <2> QED BY <2>1, HeadTailFacts, TailOfInjective DEF LoopInv
<1>1. CASE SpawnConstructorFails
  BY <1>1, <1>kept, LoopKept DEF SpawnConstructorFails, table, loopVars
<1>2. CASE SpawnMkdirFails
  BY <1>2, <1>kept, LoopKept DEF SpawnMkdirFails, table, loopVars
<1>3. CASE Spawn
  <2>1. Fresh \in Ids /\ Fresh \notin known
    BY <1>3, <1>nat DEF Spawn, Fresh, ResourceInv, UsedIds
  <2>2. known' = known \cup {Fresh}
    BY <1>3, <1>type, <2>1, KnownFacts DEF Spawn
  <2>3. /\ \A i \in Ids : born'[i] = IF i = Fresh THEN now ELSE born[i]
        /\ now' = now /\ UNCHANGED loopVars
    BY <1>3, <1>type, <2>1 DEF Spawn
  <2>4. \A i \in known : i \in Ids /\ i # Fresh
    BY <2>1 DEF known
  <2> QED BY <1>type, <2>1, <2>2, <2>3, <2>4 DEF LoopInv, loopVars, Elem
<1>4. CASE SpawnReturn
  BY <1>4, <1>kept, LoopKept DEF SpawnReturn, table, kernelVars, loopVars
<1>5. CASE KillReturn
  BY <1>5, <1>type, <1>frame, KnownFacts, LoopKept DEF KillReturn, loopVars
<1>6. ASSUME NEW i \in Ids, Kill(i) PROVE LoopInv'
  BY <1>6, <1>kept, LoopKept DEF Kill, table, kernelVars, loopVars
<1>7. ASSUME NEW i \in Ids, WriteFile(i) PROVE LoopInv'
  BY <1>7, <1>kept, LoopKept DEF WriteFile, table, loopVars
<1>8. ASSUME NEW i \in Ids, SchedulerCall(i) PROVE LoopInv'
  BY <1>8, <1>type, KnownFacts, LoopKept DEF SchedulerCall, kernelVars, loopVars
<1>9. CASE Yield
  <2>1. Caller \in Ids
    BY <1>9, <1>type, <1>frame DEF Yield, InAgent, Caller, TypeOK
  <2> QED BY <1>9, <1>type, <2>1, KnownFacts, LoopKept DEF Yield, kernelVars, loopVars
<1>10. CASE Halt
  BY <1>10, <1>kept, LoopKept DEF Halt, table, loopVars
<1>11. ASSUME NEW n \in 1 .. MaxTicks, Run(n) PROVE LoopInv'
  BY <1>11, <1>kept, LoopKept DEF Run, table, loopVars
<1>12. CASE RunBreak
  BY <1>12, <1>kept, LoopKept DEF RunBreak, table, loopVars
<1>13. CASE TickBegin
  <2>1. /\ \A j, k \in DOMAIN todo' : todo'[j] = todo'[k] => j = k
        /\ \A i : Elem(i, todo') <=> i \in Ready
    BY <1>13, SnapshotFacts DEF TickBegin
  <2>2. /\ thought' = {} /\ inTick' = TRUE
        /\ born' = born /\ now' = now + 1 /\ state' = state
    BY <1>13 DEF TickBegin, InHost, LoopInv, table
  <2>3. \A i \in Ready : i \in known' /\ i \in Ids
    BY <2>2 DEF Ready, known
  <2>4. \A i \in Ids : born'[i] < now'
    BY <1>type, <2>2 DEF LoopInv
  <2> QED BY <1>type, <2>1, <2>2, <2>3, <2>4 DEF LoopInv, Elem
<1>14. CASE Skip
  <2>1. /\ todo # <<>> /\ todo' = Tail(todo) /\ inTick
        /\ UNCHANGED <<state, inTick, thought, born, now>>
    BY <1>14 DEF Skip, RestOfTick, InLoop, table, kernelVars
  <2>2. known' = known
    BY <1>kept, <2>1
  <2> QED BY <1>next, <2>1, <2>2 DEF LoopInv, Elem
<1>15. CASE Dispatch
  <2>1. /\ todo # <<>> /\ todo' = Tail(todo) /\ inTick
        /\ thought' = thought \cup {Head(todo)}
        /\ UNCHANGED <<inTick, born, now>>
    BY <1>15 DEF Dispatch, RestOfTick, InLoop, kernelVars
  <2>2. known' = known
    BY <1>15, <1>type DEF Dispatch, known, TableTypeOK, ResourceInv, ResourcesMatch
  <2> QED BY <1>next, <2>1, <2>2 DEF LoopInv, Elem
<1>16. CASE ThinkReturn
  <2>1. known' = known
    <3>1. current \in known
      BY <1>16 DEF ThinkReturn, ResourceInv, ThinkerKnown
    <3> QED BY <1>16, <1>type, <3>1 DEF ThinkReturn, known, TableTypeOK, table
  <2> QED BY <1>16, <2>1, LoopKept DEF ThinkReturn, kernelVars
<1>17. CASE Collect
  <2>1. /\ thought' = {} /\ todo' = todo /\ todo = <<>>
        /\ UNCHANGED <<state, born, now>>
    BY <1>17 DEF Collect, table
  <2>2. \A i : ~ Elem(i, <<>>)
    BY DEF Elem
  <2> QED BY <1>kept, <2>1, <2>2 DEF LoopInv, Elem
<1>18. CASE UNCHANGED vars
  BY <1>18, <1>kept, LoopKept DEF vars, kernelVars, loopVars, table
<1> QED
  BY <1>1, <1>2, <1>3, <1>4, <1>5, <1>6, <1>7, <1>8, <1>9, <1>10, <1>11, <1>12,
     <1>13, <1>14, <1>15, <1>16, <1>17, <1>18 DEF Next

LEMMA LoopInit == Init => LoopInv
BY DEF Init, LoopInv, Elem

LEMMA LoopInvariant == Spec => [](ResourceInv /\ LoopInv)
BY ResourceInit, ResourceNext, LoopInit, LoopNext, PTL DEF Spec

(***************************************************************************)
(* An agent spawned during a tick does not think in that tick.             *)
(***************************************************************************)
THEOREM NewcomersAlwaysWait == Spec => []NewcomersWait
<1>1. LoopInv => NewcomersWait
  BY DEF LoopInv, NewcomersWait
<1> QED BY <1>1, LoopInvariant, PTL

\* Only Dispatch calls think(), on an agent that was still to be met.
LEMMA ThinkOnce ==
  ResourceInv /\ LoopInv /\ [Next]_vars =>
    [\A i \in Ids : current' = i /\ current # i => i \notin thought]_vars
<1> SUFFICES ASSUME ResourceInv, LoopInv, [Next]_vars,
                    NEW i \in Ids, current' = i, current # i
             PROVE  i \notin thought
  OBVIOUS
<1>1. i # None
  BY NoneAssumption
<1>2. Dispatch
  BY <1>1
     DEF Next, vars, loopVars, SpawnConstructorFails, SpawnMkdirFails, Spawn,
         SpawnReturn, Kill, KillReturn, WriteFile, SchedulerCall, Yield, Halt, Run,
         RunBreak, TickBegin, Skip, ThinkReturn, Collect
<1>3. todo \in Seq(Ids) /\ todo # <<>> /\ i = Head(todo)
  BY <1>2 DEF Dispatch, ResourceInv, TypeOK
<1> QED BY <1>3, HeadTailFacts DEF LoopInv

(***************************************************************************)
(* think() is called at most once for an agent in a tick.                  *)
(***************************************************************************)
THEOREM ThinksAtMostOnce == Spec => OneThinkPerTick
BY LoopInvariant, ThinkOnce, PTL DEF Spec, OneThinkPerTick

-----------------------------------------------------------------------------
(* Agents that leave the process table to system calls: AgentCalls = {}.    *)
(* The host may still call every scheduler operation between two ticks.     *)

\* A runnable agent is in its queue; during a tick it has run, is running or is
\* still to be met.  What is left to be met is READY or was killed.
QuietInv ==
  /\ NoAgentIsLost
  /\ \A i \in agents : Elem(i, todo) => state[i] = "READY"
  /\ inTick => \A i \in agents :
        state[i] = "READY" /\ born[i] < now => i \in thought \/ Elem(i, todo)
  /\ \A i \in agents : state[i] = "RUNNING" => i = current
  /\ current # None =>
        /\ inTick
        /\ current \in thought
        /\ current \in agents => state[current] = "RUNNING"

\* An operation on one process leaves the others as they are, and leaves them
\* in their queues.
LEMMA OthersStayQueued ==
  ASSUME TableTypeOK, NEW i \in Ids, NEW p \in PriorityArgs,
         \/ AddProcess(i, p) \/ BlockProcess(i) \/ UnblockProcess(i)
         \/ TerminateProcess(i) \/ Reprioritize(i, p) \/ YieldCpu(i),
         NEW j \in Ids, j # i
  PROVE  /\ state'[j] = state[j]
         /\ Queued(j) => Queued(j)'
<1>1. /\ Clamp(p) \in Priorities
      /\ priority[i] \in Priorities /\ priority[j] \in Priorities
      /\ queues \in [Priorities -> Seq(Ids)]
  BY ClampType, NumPrioritiesAssumption DEF PriorityArgs, TableTypeOK
<1>2. /\ Dequeued(i) \in [Priorities -> Seq(Ids)]
      /\ \A r : r \in Priorities /\ InQueue(j, r) => Elem(j, Dequeued(i)[r])
  BY DequeuedFacts
<1>3. /\ \A r : InQueue(j, r) <=> Elem(j, queues[r])
      /\ \A r : InQueue(j, r)' <=> Elem(j, queues'[r])
  BY DEF InQueue, Elem
<1>4. CASE AddProcess(i, p)
  <2>1. \A r : r \in Priorities /\ Elem(j, queues[r]) => Elem(j, queues'[r])
    <3>1. queues' = Joined(queues, Clamp(p), i)
      BY <1>4 DEF AddProcess, Joined
    <3> QED BY <1>1, <3>1, JoinedFacts
  <2> QED BY <1>1, <1>3, <1>4, <2>1 DEF AddProcess, Queued, TableTypeOK
<1>5. CASE BlockProcess(i)
  BY <1>1, <1>2, <1>3, <1>5 DEF BlockProcess, LeaveCPU, Queued, TableTypeOK
<1>6. CASE UnblockProcess(i)
  <2>1. \A r : r \in Priorities /\ Elem(j, queues[r]) => Elem(j, queues'[r])
    <3>1. queues' = Joined(queues, priority[i], i)
      BY <1>6 DEF UnblockProcess, Joined
    <3> QED BY <1>1, <3>1, JoinedFacts
  <2> QED BY <1>1, <1>3, <1>6, <2>1 DEF UnblockProcess, Queued, TableTypeOK
<1>7. CASE TerminateProcess(i)
  BY <1>1, <1>2, <1>3, <1>7 DEF TerminateProcess, LeaveCPU, Queued, TableTypeOK
<1>8. CASE Reprioritize(i, p)
  <2>1. \A r : r \in Priorities /\ InQueue(j, r) => Elem(j, queues'[r])
    <3>1. CASE state[i] = "READY"
      <4>1. queues' = Joined(Dequeued(i), Clamp(p), i)
        BY <1>8, <3>1 DEF Reprioritize, Joined
      <4> QED BY <1>1, <1>2, <4>1, JoinedFacts
    <3>2. CASE state[i] # "READY"
      BY <1>2, <1>8, <3>2 DEF Reprioritize
    <3> QED BY <3>1, <3>2
  <2> QED BY <1>1, <1>3, <1>8, <2>1 DEF Reprioritize, Queued, TableTypeOK
<1>9. CASE YieldCpu(i)
  BY <1>9 DEF YieldCpu, Queued, InQueue
<1> QED BY <1>4, <1>5, <1>6, <1>7, <1>8, <1>9

\* Where the process of an operation stands afterwards.
LEMMA QueuedAfter ==
  ASSUME TableTypeOK, NEW i \in Ids, NEW p \in PriorityArgs
  PROVE  /\ AddProcess(i, p) \/ UnblockProcess(i) => Queued(i)'
         /\ Reprioritize(i, p) /\ state[i] = "READY" => Queued(i)'
<1>1. /\ Clamp(p) \in Priorities /\ priority[i] \in Priorities
      /\ queues \in [Priorities -> Seq(Ids)]
      /\ priority \in [Ids -> Priorities]
  BY ClampType, NumPrioritiesAssumption DEF PriorityArgs, TableTypeOK
<1>6. Dequeued(i) \in [Priorities -> Seq(Ids)]
  BY DequeuedFacts
<1>2. \A r : InQueue(i, r)' <=> Elem(i, queues'[r])
  BY DEF InQueue, Elem
<1>3. ASSUME AddProcess(i, p) PROVE Queued(i)'
  <2>1. Elem(i, queues'[Clamp(p)])
    <3>1. queues' = Joined(queues, Clamp(p), i)
      BY <1>3 DEF AddProcess, Joined
    <3> QED BY <1>1, <3>1, JoinedFacts
  <2> QED BY <1>1, <1>2, <1>3, <2>1 DEF AddProcess, Queued
<1>4. ASSUME UnblockProcess(i) PROVE Queued(i)'
  <2>1. Elem(i, queues'[priority[i]])
    <3>1. queues' = Joined(queues, priority[i], i)
      BY <1>4 DEF UnblockProcess, Joined
    <3> QED BY <1>1, <3>1, JoinedFacts
  <2> QED BY <1>2, <1>4, <2>1 DEF UnblockProcess, Queued
<1>5. ASSUME Reprioritize(i, p), state[i] = "READY" PROVE Queued(i)'
  <2>1. Elem(i, queues'[Clamp(p)])
    <3>1. queues' = Joined(Dequeued(i), Clamp(p), i)
      BY <1>5 DEF Reprioritize, Joined
    <3> QED BY <1>1, <1>6, <3>1, JoinedFacts
  <2> QED BY <1>1, <1>2, <1>5, <2>1 DEF Reprioritize, Queued
<1> QED BY <1>3, <1>4, <1>5

\* A step that leaves the processes, the agents and the loop alone.
LEMMA QuietKept ==
  ASSUME QuietInv,
         UNCHANGED <<agents, state, priority, queues, inTick, todo, thought,
                     current, born, now>>
  PROVE  QuietInv'
BY DEF QuietInv, NoAgentIsLost, Queued, InQueue, Elem

\* A scheduler operation of the host, between two ticks.
LEMMA HostCallKeeps ==
  ASSUME TypeOK, LoopInv, QuietInv, ~inTick, NEW i \in Ids, NEW p \in PriorityArgs,
         \/ BlockProcess(i) \/ UnblockProcess(i) \/ TerminateProcess(i)
         \/ Reprioritize(i, p),
         UNCHANGED <<kernelVars, loopVars>>
  PROVE  QuietInv'
<1>1. /\ current = None /\ current' = None /\ ~inTick' /\ agents' = agents
      /\ \A j \in agents : j \in Ids /\ state[j] # "RUNNING"
  BY NoneAssumption DEF QuietInv, kernelVars, loopVars, TypeOK
<1>2. \A j : ~ Elem(j, todo')
  BY DEF LoopInv, loopVars, Elem
<1>3. TableTypeOK
  BY DEF TypeOK
<1>4. \A j \in agents : j # i => state'[j] = state[j] /\ (Queued(j) => Queued(j)')
  BY <1>1, <1>3, OthersStayQueued
<1>5. ASSUME i \in agents, state'[i] \in {"READY", "RUNNING"} PROVE Queued(i)'
  <2>1. CASE BlockProcess(i) \/ TerminateProcess(i)
    BY <1>3, <1>5, <2>1 DEF BlockProcess, TerminateProcess, TableTypeOK
  <2>2. CASE UnblockProcess(i)
    BY <1>3, <2>2, QueuedAfter
  <2>3. CASE Reprioritize(i, p)
    <3>1. state[i] = "READY"
      BY <1>1, <1>5, <2>3 DEF Reprioritize
    <3> QED BY <1>3, <2>3, <3>1, QueuedAfter
  <2> QED BY <2>1, <2>2, <2>3
<1>6. \A j \in agents : state'[j] # "RUNNING"
  <2>1. state'[i] # "RUNNING" \/ i \notin agents
    BY <1>1, <1>3
       DEF BlockProcess, TerminateProcess, UnblockProcess, Reprioritize, TableTypeOK
  <2> QED BY <1>1, <1>4, <2>1
<1>7. NoAgentIsLost'
  BY <1>1, <1>4, <1>5 DEF NoAgentIsLost, QuietInv
<1> QED BY <1>1, <1>2, <1>6, <1>7 DEF QuietInv

\* The end of a think() puts the thinker back, blocks it or finds it killed.
LEMMA ThinkReturnKeeps ==
  ASSUME TypeOK, QuietInv, ThinkReturn
  PROVE  QuietInv'
<1>c. PICK c \in Ids : c = current
  BY DEF ThinkReturn, TypeOK
<1>1. /\ current \in Ids /\ current' = None /\ inTick /\ current \in thought
      /\ current \in agents => state[current] = "RUNNING"
      /\ UNCHANGED <<agents, born, now, inTick, todo, thought, priority>>
  BY DEF ThinkReturn, TypeOK, QuietInv, kernelVars, table
<1>2. TableTypeOK /\ \A j \in agents : j \in Ids
  BY DEF TypeOK
<1>3. /\ \A j \in Ids : j # current => state'[j] = state[j]
      /\ current \in agents => state'[current] = "READY" /\ queues' = queues
  BY <1>1, <1>2 DEF ThinkReturn, TableTypeOK, table
<1>4. \A j \in agents : j # current /\ Queued(j) => Queued(j)'
  <2>1. CASE queues' = queues
    BY <1>1, <2>1 DEF Queued, InQueue
  <2>2. CASE queues' = Dequeued(current)
    <3>1. \A j, p : p \in Priorities /\ InQueue(j, p) /\ j # current
                       => Elem(j, queues'[p])
      BY <1>1, <1>2, <2>2, DequeuedFacts
    <3>2. \A j \in agents : priority[j] \in Priorities /\ priority'[j] = priority[j]
      BY <1>1, <1>2 DEF TableTypeOK
    <3> QED BY <3>1, <3>2 DEF Queued, InQueue, Elem
  <2> QED BY <2>1, <2>2 DEF ThinkReturn, table
<1>5. c \in agents => Queued(c)'
  BY <1>c, <1>1, <1>3 DEF QuietInv, NoAgentIsLost, Queued, InQueue
<1>6. NoAgentIsLost'
  BY <1>c, <1>1, <1>2, <1>3, <1>4, <1>5 DEF NoAgentIsLost, QuietInv
<1>7. \A j \in agents : state'[j] # "RUNNING"
  BY <1>1, <1>2, <1>3 DEF QuietInv
<1>8. \A j \in agents : Elem(j, todo)' => state'[j] = "READY"
  BY <1>1, <1>2, <1>3 DEF QuietInv, Elem
<1>9. \A j \in agents : state'[j] = "READY" /\ born[j] < now =>
                          j \in thought \/ Elem(j, todo)
  BY <1>1, <1>2, <1>3 DEF QuietInv
<1> QED BY <1>1, <1>6, <1>7, <1>8, <1>9 DEF QuietInv, Elem

LEMMA QuietNext ==
  ASSUME AgentCalls = {}
  PROVE  ResourceInv /\ LoopInv /\ QuietInv /\ [Next]_vars => QuietInv'
<1> SUFFICES ASSUME ResourceInv, LoopInv, QuietInv, [Next]_vars PROVE QuietInv'
  OBVIOUS
<1>type. TypeOK /\ TableTypeOK /\ \A j \in agents : j \in Ids
  BY DEF ResourceInv, TypeOK
<1>zero. 0 \in PriorityArgs
  BY NumPrioritiesAssumption DEF PriorityArgs
<1>frame. stack # <<>> => Head(stack).of \in Ids
  <2>1. stack # <<>> => Head(stack) \in Frame
    BY <1>type DEF TypeOK
  <2> QED BY <2>1 DEF Frame
<1>next. todo # <<>> =>
           /\ Head(todo) \in Ids
           /\ ~ Elem(Head(todo), Tail(todo))
           /\ \A i : Elem(i, todo) <=> i = Head(todo) \/ Elem(i, Tail(todo))
  <2>1. todo \in Seq(Ids)
    BY <1>type DEF TypeOK
  <2> QED BY <2>1, HeadTailFacts, TailOfInjective DEF LoopInv
<1>1. CASE SpawnConstructorFails
  BY <1>1, QuietKept DEF SpawnConstructorFails, table, loopVars
<1>2. CASE SpawnMkdirFails
  BY <1>2, QuietKept DEF SpawnMkdirFails, table, loopVars
<1>3. CASE Spawn
  <2>f. PICK f \in Ids : f = Fresh
    BY <1>3 DEF Spawn
  <2>1. PICK p \in PriorityArgs : AddProcess(f, p)
    BY <1>3, <2>f DEF Spawn
  <2>2. /\ agents' = agents \cup {f}
        /\ born' = [born EXCEPT ![f] = now] /\ now' = now /\ UNCHANGED loopVars
    BY <1>3, <2>f DEF Spawn
  <2>3. /\ \A j \in agents : j # f => state'[j] = state[j] /\ (Queued(j) => Queued(j)')
        /\ Queued(f)'
        /\ state'[f] = "READY"
    <3>1. \A j \in agents : j # f => state'[j] = state[j] /\ (Queued(j) => Queued(j)')
      BY <1>type, <2>1, <2>2, OthersStayQueued
    <3>2. Queued(f)'
      BY <1>type, <2>1, <2>2, QueuedAfter
    <3> QED BY <1>type, <2>1, <2>2, <3>1, <3>2 DEF AddProcess, TableTypeOK
  <2>4. f \notin agents
    BY <2>1 DEF AddProcess, ResourceInv, ResourcesMatch
  <2>5. /\ \A j \in agents : born'[j] = born[j]
        /\ ~ (born'[f] < now')
    BY <1>type, <2>2, <2>4, MaxTicksAssumption DEF TypeOK
  <2>6. ~ Elem(f, todo) /\ current # f
    <3>1. f \notin known
      BY <2>1 DEF AddProcess
    <3> QED BY <3>1, NoneAssumption DEF LoopInv, ResourceInv, ThinkerKnown
  <2>7. NoAgentIsLost'
    BY <2>2, <2>3 DEF NoAgentIsLost, QuietInv
  <2>8. \A j \in agents' : Elem(j, todo)' => state'[j] = "READY"
    BY <2>2, <2>3 DEF QuietInv, Elem, loopVars
  <2>9. inTick => \A j \in agents' : state'[j] = "READY" /\ born'[j] < now' =>
                     j \in thought \/ Elem(j, todo)
    BY <2>2, <2>3, <2>5 DEF QuietInv
  <2>10. \A j \in agents' : state'[j] = "RUNNING" => j = current
    BY <2>2, <2>3 DEF QuietInv
  <2>11. current # None => /\ inTick /\ current \in thought
                           /\ current \in agents' => state'[current] = "RUNNING"
    BY <2>2, <2>3, <2>6 DEF QuietInv
  <2> QED BY <2>2, <2>7, <2>8, <2>9, <2>10, <2>11 DEF QuietInv, loopVars, Elem
<1>4. CASE SpawnReturn
  BY <1>4, QuietKept DEF SpawnReturn, table, kernelVars, loopVars
<1>5. CASE KillReturn
  <2> DEFINE i == Head(stack).of
  <2>1. /\ i \in Ids /\ TerminateProcess(i) /\ agents' = agents \ {i}
        /\ UNCHANGED <<born, now, inTick, todo, current, thought>>
    BY <1>5, <1>frame DEF KillReturn, loopVars
  <2> HIDE DEF i
  <2>2. \A j \in agents' : j \in agents /\ j # i
    BY <2>1
  <2>8. \A j \in agents : j # i => state'[j] = state[j] /\ (Queued(j) => Queued(j)')
    BY <1>type, <1>zero, <2>1, OthersStayQueued
  <2>3. NoAgentIsLost'
    BY <2>2, <2>8 DEF QuietInv, NoAgentIsLost
  <2>4. current # None => /\ inTick /\ current \in thought
                          /\ current \in agents' => state'[current] = "RUNNING"
    BY <2>2, <2>8 DEF QuietInv
  <2>5. \A j \in agents' : Elem(j, todo) => state'[j] = "READY"
    BY <2>2, <2>8 DEF QuietInv
  <2>6. inTick => \A j \in agents' : state'[j] = "READY" /\ born[j] < now =>
                                     j \in thought \/ Elem(j, todo)
    BY <2>2, <2>8 DEF QuietInv
  <2>7. \A j \in agents' : state'[j] = "RUNNING" => j = current
    BY <2>2, <2>8 DEF QuietInv
  <2> QED BY <2>1, <2>3, <2>4, <2>5, <2>6, <2>7 DEF QuietInv, Elem
<1>6. ASSUME NEW i \in Ids, Kill(i) PROVE QuietInv'
  BY <1>6, QuietKept DEF Kill, table, kernelVars, loopVars
<1>7. ASSUME NEW i \in Ids, WriteFile(i) PROVE QuietInv'
  BY <1>7, QuietKept DEF WriteFile, table, loopVars
<1>8. ASSUME NEW i \in Ids, SchedulerCall(i) PROVE QuietInv'
  <2>1. ~inTick
    BY <1>8 DEF SchedulerCall, Allowed, InHost
  <2> QED BY <1>8, <1>type, <1>zero, <2>1, HostCallKeeps DEF SchedulerCall
<1>9. CASE Yield
  BY <1>9, QuietKept DEF Yield, YieldCpu, kernelVars, loopVars
<1>10. CASE Halt
  BY <1>10, QuietKept DEF Halt, table, loopVars
<1>11. ASSUME NEW n \in 1 .. MaxTicks, Run(n) PROVE QuietInv'
  BY <1>11, QuietKept DEF Run, table, loopVars
<1>12. CASE RunBreak
  BY <1>12, QuietKept DEF RunBreak, table, loopVars
<1>13. CASE TickBegin
  <2>1. /\ ~inTick /\ inTick' /\ todo' \in ReadyOrders
        /\ UNCHANGED <<table, agents, current>>
    BY <1>13 DEF TickBegin, InHost
  <2>2. current = None
    BY <2>1 DEF QuietInv
  <2>3. \A j : Elem(j, todo') <=> j \in Ready
    BY <2>1, SnapshotFacts
  <2>4. \A j \in agents : state[j] = "READY" => j \in Ready
    BY <1>type DEF QuietInv, NoAgentIsLost, Ready, Queued, TableTypeOK
  <2>5. NoAgentIsLost'
    BY <2>1 DEF QuietInv, NoAgentIsLost, Queued, InQueue, table
  <2> QED BY <2>1, <2>2, <2>3, <2>4, <2>5 DEF QuietInv, Ready, Elem, table
<1>14. CASE Skip
  <2>1. /\ todo # <<>> /\ todo' = Tail(todo)
        /\ Head(todo) \notin agents \/ state[Head(todo)] = "TERMINATED"
        /\ UNCHANGED <<agents, state, priority, queues, inTick, thought, current, born, now>>
    BY <1>14 DEF Skip, RestOfTick, table, kernelVars
  <2>2. NoAgentIsLost'
    BY <2>1 DEF QuietInv, NoAgentIsLost, Queued, InQueue
  <2> QED BY <1>next, <2>1, <2>2 DEF QuietInv, Elem
<1>15. CASE Dispatch
  <2> DEFINE i == Head(todo)
  <2>1. /\ todo # <<>> /\ todo' = Tail(todo) /\ i \in agents /\ i \in Ids
        /\ inTick /\ current = None /\ current' = i
        /\ thought' = thought \cup {i}
        /\ UNCHANGED <<agents, priority, queues, inTick, born, now>>
    BY <1>15, <1>next DEF Dispatch, RestOfTick, InLoop, kernelVars
  <2>2. state' = [state EXCEPT ![i] = "RUNNING"]
    BY <1>15 DEF Dispatch
  <2>3. state[i] = "READY"
    BY <1>next, <2>1 DEF QuietInv
  <2>4. \A j \in Ids : state'[j] = IF j = i THEN "RUNNING" ELSE state[j]
    BY <1>type, <2>1, <2>2 DEF TableTypeOK
  <2>5. \A j : Elem(j, todo) <=> j = i \/ Elem(j, todo')
    BY <1>next, <2>1
  <2>6. ~ Elem(i, todo')
    BY <1>next, <2>1
  <2>7. \A j \in agents : state[j] # "RUNNING"
    BY <1>type, <2>1, NoneAssumption DEF QuietInv
  <2> HIDE DEF i
  <2>8. NoAgentIsLost'
    BY <1>type, <2>1, <2>3, <2>4 DEF QuietInv, NoAgentIsLost, Queued, InQueue
  <2>9. \A j \in agents' : Elem(j, todo') => state'[j] = "READY"
    BY <1>type, <2>1, <2>4, <2>5, <2>6 DEF QuietInv
  <2>10. \A j \in agents' : state'[j] = "READY" /\ born'[j] < now' =>
                             j \in thought' \/ Elem(j, todo')
    BY <1>type, <2>1, <2>4, <2>5 DEF QuietInv
  <2>11. \A j \in agents' : state'[j] = "RUNNING" => j = current'
    BY <1>type, <2>1, <2>4, <2>7
  <2> QED BY <2>1, <2>4, <2>8, <2>9, <2>10, <2>11 DEF QuietInv, Elem
<1>16. CASE ThinkReturn
  BY <1>16, <1>type, ThinkReturnKeeps
<1>17. CASE Collect
  <2>1. /\ agents' \subseteq agents /\ ~inTick' /\ current = None /\ current' = None
        /\ todo' = todo
        /\ UNCHANGED <<state, priority, queues>>
    BY <1>17 DEF Collect, InLoop, table
  <2> QED BY <2>1 DEF QuietInv, NoAgentIsLost, Queued, InQueue, Elem
<1>18. CASE UNCHANGED vars
  BY <1>18, QuietKept DEF vars, kernelVars, loopVars, table
<1> QED
  BY <1>1, <1>2, <1>3, <1>4, <1>5, <1>6, <1>7, <1>8, <1>9, <1>10, <1>11, <1>12,
     <1>13, <1>14, <1>15, <1>16, <1>17, <1>18 DEF Next

LEMMA QuietInit == Init => QuietInv
BY DEF Init, QuietInv, NoAgentIsLost

LEMMA QuietInvariant ==
  ASSUME AgentCalls = {}
  PROVE  Spec => [](ResourceInv /\ LoopInv /\ QuietInv)
BY ResourceInit, ResourceNext, LoopInit, LoopNext, QuietInit, QuietNext, PTL DEF Spec

(***************************************************************************)
(* If agents use only system calls, no live agent that can run is ever     *)
(* outside its queue, whatever the host does to the scheduler between two  *)
(* ticks and however spawns and kills nest.                                *)
(***************************************************************************)
THEOREM NoAgentIsEverLost ==
  ASSUME AgentCalls = {}
  PROVE  Spec => []NoAgentIsLost
<1>1. QuietInv => NoAgentIsLost
  BY DEF QuietInv
<1> QED BY <1>1, QuietInvariant, PTL

(***************************************************************************)
(* If agents use only system calls, every live READY agent that is older   *)
(* than the tick has had its think() called when the loop of tick() ends.  *)
(***************************************************************************)
THEOREM EveryAgentAlwaysThinks ==
  ASSUME AgentCalls = {}
  PROVE  Spec => []EveryAgentThinks
<1>1. QuietInv => EveryAgentThinks
  BY DEF QuietInv, EveryAgentThinks, InLoop, Elem
<1> QED BY <1>1, QuietInvariant, PTL
=============================================================================
