--------------------------- MODULE SchedulerProofs ---------------------------
(***************************************************************************)
(* Proofs about Scheduler, for every number of processes and priorities:   *)
(* the discipline of its queues, and that a tick lets nobody overtake; and *)
(* about IsolatedProcess, for any number of ticks and system calls.        *)
(***************************************************************************)
EXTENDS Scheduler, IsolatedProcess, QueueLemmas

-----------------------------------------------------------------------------
(* What happens to queues: somebody is removed, appended or put in front.   *)

\* Queues of ids, in none of which an id stands twice.
Orderly(qs) ==
  /\ qs \in [Priorities -> Seq(Ids)]
  /\ \A r \in Priorities : \A m, n \in DOMAIN qs[r] : qs[r][m] = qs[r][n] => m = n

Removed(qs, p, i) == [qs EXCEPT ![p] = RemoveFirst(@, i)]
Enqueued(qs, p, i) == [qs EXCEPT ![p] = Append(@, i)]
Pushed(qs, p, i) == [qs EXCEPT ![p] = <<i>> \o @]

\* One that is removed is gone, the others keep their order.
LEMMA RemovedOnce ==
  ASSUME NEW s \in Seq(Ids), NEW i \in Ids,
         \A m, n \in DOMAIN s : s[m] = s[n] => m = n
  PROVE  LET t == RemoveFirst(s, i) IN
         /\ t \in Seq(Ids)
         /\ \A m, n \in DOMAIN t : t[m] = t[n] => m = n
         /\ \A j : Elem(j, t) <=> Elem(j, s) /\ j # i
         /\ \A j, k : j # i /\ k # i /\ Before(s, j, k) => Before(t, j, k)
<1> DEFINE t == RemoveFirst(s, i)
<1>1. CASE ~ Elem(i, s)
  <2>1. ~ \E k \in 1 .. Len(s) : s[k] = i
    BY <1>1 DEF Elem
  <2>2. t = s
    BY <2>1, Zenon DEF RemoveFirst
  <2> QED BY <1>1, <2>2
<1>2. CASE Elem(i, s)
  <2>1. \E m \in 1 .. Len(s) :
          /\ s[m] = i
          /\ RemoveFirst(s, i) \in Seq(Ids)
          /\ Len(RemoveFirst(s, i)) = Len(s) - 1
          /\ \A k \in 1 .. Len(s) - 1 :
               RemoveFirst(s, i)[k] = IF k < m THEN s[k] ELSE s[k + 1]
    BY <1>2, RemoveFirstPositions
  <2> HIDE DEF t
  <2>2. PICK m \in 1 .. Len(s) :
          /\ s[m] = i
          /\ t \in Seq(Ids)
          /\ Len(t) = Len(s) - 1
          /\ \A k \in 1 .. Len(s) - 1 : t[k] = IF k < m THEN s[k] ELSE s[k + 1]
    BY <2>1 DEF t
  \* The place in t of the k-th element of s, if that is not removed.
  <2> DEFINE At(k) == IF k < m THEN k ELSE k - 1
             From(k) == IF k < m THEN k ELSE k + 1
  <2>3. /\ DOMAIN s = 1 .. Len(s) /\ DOMAIN t = 1 .. Len(s) - 1
        /\ Len(s) \in Nat
    BY <2>2
  <2>4. \A k \in DOMAIN t : From(k) \in DOMAIN s /\ From(k) # m /\ t[k] = s[From(k)]
    BY <2>2, <2>3
  <2>5. \A k \in DOMAIN s : k # m => At(k) \in DOMAIN t /\ t[At(k)] = s[k]
    BY <2>2, <2>3
  <2>6. \A k, l \in DOMAIN t : From(k) = From(l) => k = l
    BY <2>2, <2>3
  <2>7. \A k, l \in DOMAIN s : k # m /\ l # m /\ k < l => At(k) < At(l)
    BY <2>2, <2>3
  <2> HIDE DEF At, From
  <2>8. ASSUME NEW k \in DOMAIN t, NEW l \in DOMAIN t, t[k] = t[l]
        PROVE  k = l
    <3>1. /\ From(k) \in DOMAIN s /\ From(l) \in DOMAIN s
          /\ s[From(k)] = s[From(l)]
      BY <2>4, <2>8
    <3>2. From(k) = From(l)
      BY <3>1
    <3> QED BY <2>6, <3>2
  <2>9. ASSUME NEW j, Elem(j, t)
        PROVE  Elem(j, s) /\ j # i
    <3>1. PICK k \in DOMAIN t : t[k] = j
      BY <2>9 DEF Elem
    <3>2. From(k) \in DOMAIN s /\ From(k) # m /\ s[From(k)] = j
      BY <2>4, <3>1
    <3>3. m \in DOMAIN s /\ s[m] = i
      BY <2>2, <2>3
    <3> QED BY <3>2, <3>3 DEF Elem
  <2>10. \A j : Elem(j, s) /\ j # i => Elem(j, t)
    BY <2>2, <2>5 DEF Elem
  <2>11. ASSUME NEW j, NEW k, j # i, k # i, Before(s, j, k)
         PROVE  Before(t, j, k)
    <3>1. PICK x, y \in DOMAIN s : x < y /\ s[x] = j /\ s[y] = k
      BY <2>11 DEF Before
    <3>2. x # m /\ y # m
      BY <2>2, <2>11, <3>1
    <3> QED BY <2>5, <2>7, <3>1, <3>2 DEF Before
  <2> QED BY <2>2, <2>8, <2>9, <2>10, <2>11 DEF t
<1> QED BY <1>1, <1>2

\* One that comes to the back is behind all others, who keep their order.
LEMMA AppendedOnce ==
  ASSUME NEW s \in Seq(Ids), NEW i \in Ids, ~ Elem(i, s),
         \A m, n \in DOMAIN s : s[m] = s[n] => m = n
  PROVE  LET t == Append(s, i) IN
         /\ t \in Seq(Ids)
         /\ \A m, n \in DOMAIN t : t[m] = t[n] => m = n
         /\ \A j : Elem(j, t) <=> Elem(j, s) \/ j = i
         /\ \A j, k : Before(s, j, k) => Before(t, j, k)
<1> DEFINE t == Append(s, i)
<1>1. t \in Seq(Ids) /\ \A j : Elem(j, t) <=> Elem(j, s) \/ j = i
  BY AppendFacts
<1>2. /\ DOMAIN s = 1 .. Len(s) /\ DOMAIN t = 1 .. Len(s) + 1 /\ Len(s) \in Nat
      /\ t[Len(s) + 1] = i
      /\ \A k \in DOMAIN s : k \in DOMAIN t /\ t[k] = s[k]
  OBVIOUS
<1>3. \A k \in DOMAIN t : k \in DOMAIN s \/ k = Len(s) + 1
  BY <1>2
<1> HIDE DEF t
<1>4. \A m, n \in DOMAIN t : t[m] = t[n] => m = n
  BY <1>2, <1>3 DEF Elem
<1>5. \A j, k : Before(s, j, k) => Before(t, j, k)
  BY <1>2 DEF Before
<1> QED BY <1>1, <1>4, <1>5 DEF t

\* One that is put in front is before all others, who keep their order.
LEMMA PushedOnce ==
  ASSUME NEW s \in Seq(Ids), NEW i \in Ids, ~ Elem(i, s),
         \A m, n \in DOMAIN s : s[m] = s[n] => m = n
  PROVE  LET t == <<i>> \o s IN
         /\ t \in Seq(Ids) /\ Head(t) = i /\ t # <<>>
         /\ \A m, n \in DOMAIN t : t[m] = t[n] => m = n
         /\ \A j : Elem(j, t) <=> Elem(j, s) \/ j = i
         /\ \A j, k : Before(s, j, k) => Before(t, j, k)
<1> DEFINE t == <<i>> \o s
<1>1. /\ t \in Seq(Ids) /\ t # <<>> /\ Head(t) = t[1]
      /\ DOMAIN s = 1 .. Len(s) /\ DOMAIN t = 1 .. Len(s) + 1 /\ Len(s) \in Nat
      /\ t[1] = i
  OBVIOUS
<1>2. \A k \in DOMAIN s : k + 1 \in DOMAIN t /\ t[k + 1] = s[k]
  OBVIOUS
<1> HIDE DEF t
<1>3. \A k \in DOMAIN t : k = 1 \/ (k - 1 \in DOMAIN s /\ t[k] = s[k - 1])
  <2>1. \A k \in DOMAIN t : k = 1 \/ (k - 1 \in DOMAIN s /\ (k - 1) + 1 = k)
    BY <1>1
  <2> QED BY <1>2, <2>1
<1>4. \A m, n \in DOMAIN t : t[m] = t[n] => m = n
  <2>1. ASSUME NEW m \in DOMAIN t, NEW n \in DOMAIN t, t[m] = t[n], m # 1, n # 1
        PROVE  m = n
    <3>1. m - 1 = n - 1
      BY <1>3, <2>1
    <3> QED BY <1>1, <2>1, <3>1
  <2>2. \A m \in DOMAIN t : t[m] = i => m = 1
    BY <1>3 DEF Elem
  <2> QED BY <1>1, <2>1, <2>2
<1>5. ASSUME NEW j
      PROVE  Elem(j, t) <=> Elem(j, s) \/ j = i
  <2>1. Elem(j, s) => Elem(j, t)
    BY <1>2 DEF Elem
  <2>2. 1 \in DOMAIN t /\ t[1] = i
    BY <1>1
  <2>3. Elem(j, t) => Elem(j, s) \/ j = i
    BY <1>3, <2>2 DEF Elem
  <2> QED BY <2>1, <2>2, <2>3 DEF Elem
<1>6. ASSUME NEW j, NEW k, Before(s, j, k)
      PROVE  Before(t, j, k)
  <2>1. PICK x, y \in DOMAIN s : x < y /\ s[x] = j /\ s[y] = k
    BY <1>6 DEF Before
  <2>2. x + 1 < y + 1
    BY <1>1, <2>1
  <2> QED BY <1>2, <2>1, <2>2 DEF Before
<1> QED BY <1>1, <1>4, <1>5, <1>6 DEF t

\* Whom the queues hold and in which order, after each of the three.
Holds(new, old, p, i, there) ==
  /\ Orderly(new)
  /\ \A r \in Priorities, j \in Ids :
       Elem(j, new[r]) <=> (IF r = p /\ j = i THEN there ELSE Elem(j, old[r]))
  /\ \A r \in Priorities, j, k \in Ids :
       (r = p => there \/ (j # i /\ k # i)) /\ Before(old[r], j, k)
         => Before(new[r], j, k)

LEMMA RemovedHolds ==
  ASSUME NEW qs, Orderly(qs), NEW p \in Priorities, NEW i \in Ids
  PROVE  Holds(Removed(qs, p, i), qs, p, i, FALSE)
<1> DEFINE t == RemoveFirst(qs[p], i)
           new == Removed(qs, p, i)
<1>1. qs \in [Priorities -> Seq(Ids)] /\ qs[p] \in Seq(Ids)
  BY DEF Orderly
<1>2. /\ t \in Seq(Ids)
      /\ \A m, n \in DOMAIN t : t[m] = t[n] => m = n
      /\ \A j : Elem(j, t) <=> Elem(j, qs[p]) /\ j # i
      /\ \A j, k : j # i /\ k # i /\ Before(qs[p], j, k) => Before(t, j, k)
  BY <1>1, RemovedOnce DEF Orderly
<1>3. /\ new \in [Priorities -> Seq(Ids)]
      /\ \A r \in Priorities : new[r] = IF r = p THEN t ELSE qs[r]
  BY <1>1, <1>2 DEF Removed
<1> HIDE DEF t, new
<1>4. Orderly(new)
  BY <1>2, <1>3 DEF Orderly
<1> QED BY <1>2, <1>3, <1>4 DEF Holds, new

LEMMA EnqueuedHolds ==
  ASSUME NEW qs, Orderly(qs), NEW p \in Priorities, NEW i \in Ids, ~ Elem(i, qs[p])
  PROVE  Holds(Enqueued(qs, p, i), qs, p, i, TRUE)
<1> DEFINE t == Append(qs[p], i)
           new == Enqueued(qs, p, i)
<1>1. qs \in [Priorities -> Seq(Ids)] /\ qs[p] \in Seq(Ids)
  BY DEF Orderly
<1>2. /\ t \in Seq(Ids)
      /\ \A m, n \in DOMAIN t : t[m] = t[n] => m = n
      /\ \A j : Elem(j, t) <=> Elem(j, qs[p]) \/ j = i
      /\ \A j, k : Before(qs[p], j, k) => Before(t, j, k)
  BY <1>1, AppendedOnce DEF Orderly
<1>3. /\ new \in [Priorities -> Seq(Ids)]
      /\ \A r \in Priorities : new[r] = IF r = p THEN t ELSE qs[r]
  BY <1>1, <1>2 DEF Enqueued
<1> HIDE DEF t, new
<1>4. Orderly(new)
  BY <1>2, <1>3 DEF Orderly
<1> QED BY <1>2, <1>3, <1>4 DEF Holds, new

LEMMA PushedHolds ==
  ASSUME NEW qs, Orderly(qs), NEW p \in Priorities, NEW i \in Ids, ~ Elem(i, qs[p])
  PROVE  /\ Holds(Pushed(qs, p, i), qs, p, i, TRUE)
         /\ Head(Pushed(qs, p, i)[p]) = i
<1> DEFINE t == <<i>> \o qs[p]
           new == Pushed(qs, p, i)
<1>1. qs \in [Priorities -> Seq(Ids)] /\ qs[p] \in Seq(Ids)
  BY DEF Orderly
<1>2. /\ t \in Seq(Ids) /\ Head(t) = i
      /\ \A m, n \in DOMAIN t : t[m] = t[n] => m = n
      /\ \A j : Elem(j, t) <=> Elem(j, qs[p]) \/ j = i
      /\ \A j, k : Before(qs[p], j, k) => Before(t, j, k)
  BY <1>1, PushedOnce DEF Orderly
<1>3. /\ new \in [Priorities -> Seq(Ids)]
      /\ \A r \in Priorities : new[r] = IF r = p THEN t ELSE qs[r]
  BY <1>1, <1>2 DEF Pushed
<1> HIDE DEF t, new
<1>4. Orderly(new)
  BY <1>2, <1>3 DEF Orderly
<1> QED BY <1>2, <1>3, <1>4 DEF Holds, new

-----------------------------------------------------------------------------
(* The invariant.                                                           *)

Inv == TableTypeOK /\ QueueDiscipline

\* The discipline in the terms of the lemmas above.
LEMMA InvFacts ==
  ASSUME Inv
  PROVE  /\ Orderly(queues)
         /\ \A j \in Ids, r \in Priorities :
              Elem(j, queues[r]) => r = priority[j] /\ state[j] = "READY"
         /\ \A j, r : InQueue(j, r) <=> Elem(j, queues[r])
         /\ \A j \in Ids : priority[j] \in Priorities
<1> QED BY DEF Inv, TableTypeOK, QueueDiscipline, Orderly, IsInjective, InQueue, Elem

\* What has to be shown of the state after a step.
LEMMA InvFromParts ==
  ASSUME TableTypeOK', Orderly(queues'),
         \A j \in Ids, r \in Priorities :
           Elem(j, queues'[r]) => r = priority'[j] /\ state'[j] = "READY",
         \A j \in Ids : state'[j] = "RUNNING" <=> running' = j
  PROVE  Inv'
<1> QED BY DEF Inv, QueueDiscipline, Orderly, IsInjective, InQueue, Elem

LEMMA InvInit == Init => Inv
<1> SUFFICES ASSUME Init PROVE Inv
  OBVIOUS
<1>1. TableTypeOK
  BY NumPrioritiesAssumption, SliceAssumption
  DEF Init, TableInit, TableTypeOK, ProcStates, Priorities
<1>2. QueueDiscipline
  BY NoneAssumption, NumPrioritiesAssumption
  DEF Init, TableInit, QueueDiscipline, IsInjective, InQueue, Priorities
<1> QED BY <1>1, <1>2 DEF Inv

\* A clamped priority is a priority.
LEMMA ClampType == \A p \in Int : Clamp(p) \in Priorities
BY NumPrioritiesAssumption DEF Clamp, Priorities

-----------------------------------------------------------------------------
(* The public operations.                                                   *)

\* The queues of a process that leaves the CPU: it is in none.
LEMMA DequeuedFacts ==
  ASSUME Inv, NEW i \in Ids
  PROVE  /\ Orderly(Dequeued(i))
         /\ \A j \in Ids, r \in Priorities :
              Elem(j, Dequeued(i)[r]) <=> Elem(j, queues[r]) /\ j # i
<1>1. priority[i] \in Priorities /\ Orderly(queues)
  BY InvFacts
<1>2. Dequeued(i) = Removed(queues, priority[i], i)
  BY DEF Dequeued, Removed
<1>3. Holds(Dequeued(i), queues, priority[i], i, FALSE)
  BY <1>1, <1>2, RemovedHolds
<1> QED BY <1>3, InvFacts DEF Holds

LEMMA LeavingKeepsInv ==
  ASSUME Inv, NEW i \in Ids, NEW s \in ProcStates \ {"READY", "RUNNING"},
         state' = [state EXCEPT ![i] = s], LeaveCPU(i),
         UNCHANGED <<priority, remaining, yields>>
  PROVE  Inv'
<1>1. /\ Orderly(queues')
      /\ \A j \in Ids, r \in Priorities :
           Elem(j, queues'[r]) <=> Elem(j, queues[r]) /\ j # i
  BY DequeuedFacts DEF LeaveCPU
<1>2. TableTypeOK'
  BY <1>1 DEF Inv, TableTypeOK, Orderly, LeaveCPU
<1>3. \A j \in Ids : state'[j] = IF j = i THEN s ELSE state[j]
  BY DEF Inv, TableTypeOK
<1>4. \A j \in Ids, r \in Priorities :
        Elem(j, queues'[r]) => r = priority'[j] /\ state'[j] = "READY"
  BY <1>1, <1>3, InvFacts
<1>5. \A j \in Ids : state'[j] = "RUNNING" <=> running' = j
  BY <1>3, NoneAssumption DEF Inv, QueueDiscipline, LeaveCPU
<1> QED BY <1>1, <1>2, <1>4, <1>5, InvFromParts

LEMMA AddKeepsInv ==
  ASSUME Inv, NEW i \in Ids, NEW p \in PriorityArgs, AddProcess(i, p)
  PROVE  Inv'
<1>1. Clamp(p) \in Priorities /\ Orderly(queues)
  BY ClampType, InvFacts, NumPrioritiesAssumption DEF PriorityArgs
<1>2. state[i] = "ABSENT" /\ \A r \in Priorities : ~ Elem(i, queues[r])
  BY InvFacts DEF AddProcess, known
<1>3. queues' = Enqueued(queues, Clamp(p), i)
  BY DEF AddProcess, Enqueued
<1>4. Holds(queues', queues, Clamp(p), i, TRUE)
  BY <1>1, <1>2, <1>3, EnqueuedHolds
<1>5. TableTypeOK'
  <2>1. Slice[i] \in Int
    BY SliceAssumption
  <2> QED BY <1>1, <1>4, <2>1 DEF AddProcess, Inv, TableTypeOK, ProcStates, Holds, Orderly
<1>6. \A j \in Ids : /\ state'[j] = IF j = i THEN "READY" ELSE state[j]
                     /\ priority'[j] = IF j = i THEN Clamp(p) ELSE priority[j]
  BY DEF AddProcess, Inv, TableTypeOK
<1>7. \A j \in Ids, r \in Priorities :
        Elem(j, queues'[r]) => r = priority'[j] /\ state'[j] = "READY"
  BY <1>2, <1>4, <1>6, InvFacts DEF Holds
<1>8. \A j \in Ids : state'[j] = "RUNNING" <=> running' = j
  BY <1>2, <1>6 DEF AddProcess, Inv, QueueDiscipline
<1> QED BY <1>4, <1>5, <1>7, <1>8, InvFromParts DEF Holds

LEMMA UnblockKeepsInv ==
  ASSUME Inv, NEW i \in Ids, UnblockProcess(i)
  PROVE  Inv'
<1>1. priority[i] \in Priorities /\ Orderly(queues)
  BY InvFacts
<1>2. state[i] = "WAITING" /\ \A r \in Priorities : ~ Elem(i, queues[r])
  BY InvFacts DEF UnblockProcess
<1>3. queues' = Enqueued(queues, priority[i], i)
  BY DEF UnblockProcess, Enqueued
<1>4. Holds(queues', queues, priority[i], i, TRUE)
  BY <1>1, <1>2, <1>3, EnqueuedHolds
<1>5. TableTypeOK'
  <2>1. Slice[i] \in Int
    BY SliceAssumption
  <2> QED BY <1>1, <1>4, <2>1
          DEF UnblockProcess, ResetSlice, Inv, TableTypeOK, ProcStates, Holds, Orderly
<1>6. \A j \in Ids : state'[j] = IF j = i THEN "READY" ELSE state[j]
  BY DEF UnblockProcess, Inv, TableTypeOK
<1>7. \A j \in Ids, r \in Priorities :
        Elem(j, queues'[r]) => r = priority'[j] /\ state'[j] = "READY"
  BY <1>2, <1>4, <1>6, InvFacts DEF Holds, UnblockProcess
<1>8. \A j \in Ids : state'[j] = "RUNNING" <=> running' = j
  BY <1>2, <1>6 DEF UnblockProcess, Inv, QueueDiscipline
<1> QED BY <1>4, <1>5, <1>7, <1>8, InvFromParts DEF Holds

LEMMA ReprioritizeKeepsInv ==
  ASSUME Inv, NEW i \in Ids, NEW p \in PriorityArgs, Reprioritize(i, p)
  PROVE  Inv'
<1>1. Clamp(p) \in Priorities
  BY ClampType, NumPrioritiesAssumption DEF PriorityArgs
<1>2. /\ Orderly(Dequeued(i))
      /\ \A j \in Ids, r \in Priorities :
           Elem(j, Dequeued(i)[r]) <=> Elem(j, queues[r]) /\ j # i
  BY DequeuedFacts
<1>3. /\ Orderly(queues')
      /\ \A j \in Ids, r \in Priorities :
           Elem(j, queues'[r]) => \/ Elem(j, queues[r]) /\ j # i
                                  \/ j = i /\ r = Clamp(p) /\ state[i] = "READY"
  <2>1. CASE state[i] = "READY"
    <3>1. queues' = Enqueued(Dequeued(i), Clamp(p), i)
      BY <2>1 DEF Reprioritize, Enqueued
    <3>2. Holds(queues', Dequeued(i), Clamp(p), i, TRUE)
      BY <1>1, <1>2, <3>1, EnqueuedHolds
    <3>3. /\ Orderly(queues')
          /\ \A j \in Ids, r \in Priorities :
               Elem(j, queues'[r]) => \/ Elem(j, Dequeued(i)[r])
                                      \/ j = i /\ r = Clamp(p)
      BY <3>2 DEF Holds
    <3> QED BY <1>2, <2>1, <3>3
  <2>2. CASE state[i] # "READY"
    <3>1. queues' = Dequeued(i)
      BY <2>2 DEF Reprioritize
    <3> QED BY <1>2, <3>1
  <2> QED BY <2>1, <2>2
<1>4. TableTypeOK'
  BY <1>1, <1>3 DEF Reprioritize, Inv, TableTypeOK, Orderly
<1>5. \A j \in Ids : priority'[j] = IF j = i THEN Clamp(p) ELSE priority[j]
  BY DEF Reprioritize, Inv, TableTypeOK
<1>6. \A j \in Ids, r \in Priorities :
        Elem(j, queues'[r]) => r = priority'[j] /\ state'[j] = "READY"
  BY <1>3, <1>5, InvFacts DEF Reprioritize
<1>7. \A j \in Ids : state'[j] = "RUNNING" <=> running' = j
  BY DEF Reprioritize, Inv, QueueDiscipline
<1> QED BY <1>3, <1>4, <1>6, <1>7, InvFromParts

\* Every operation keeps the discipline.
LEMMA CallKeepsInv ==
  ASSUME Inv, NEW i \in Ids, Call(i)
  PROVE  Inv'
<1>1. ASSUME NEW p \in PriorityArgs, AddProcess(i, p) PROVE Inv'
  BY <1>1, AddKeepsInv
<1>2. CASE RemoveProcess(i)
  BY <1>2, LeavingKeepsInv DEF RemoveProcess, ProcStates
<1>3. CASE BlockProcess(i)
  BY <1>3, LeavingKeepsInv DEF BlockProcess, ProcStates
<1>4. CASE UnblockProcess(i)
  BY <1>4, UnblockKeepsInv
<1>5. CASE TerminateProcess(i)
  BY <1>5, LeavingKeepsInv DEF TerminateProcess, ProcStates
<1>6. ASSUME NEW p \in PriorityArgs, Reprioritize(i, p) PROVE Inv'
  BY <1>6, ReprioritizeKeepsInv
<1>7. CASE YieldCpu(i)
  <2>1. UNCHANGED <<state, priority, remaining, queues, running>> /\ yields' = yields \cup {i}
    BY <1>7 DEF YieldCpu
  <2> QED BY <2>1 DEF Inv, TableTypeOK, QueueDiscipline, IsInjective, InQueue
<1> QED BY <1>1, <1>2, <1>3, <1>4, <1>5, <1>6, <1>7 DEF Call

-----------------------------------------------------------------------------
(* What a tick finds: nothing to sweep and nothing stale, so that the       *)
(* process it picks is the head of the first queue that is not empty.       *)

LEMMA NoElements == \A s \in Seq(Ids) : DOMAIN s = {} <=> s = <<>>
<1> SUFFICES ASSUME NEW s \in Seq(Ids) PROVE DOMAIN s = {} <=> s = <<>>
  OBVIOUS
<1>1. DOMAIN s = 1 .. Len(s) /\ Len(s) \in Nat
  OBVIOUS
<1>2. CASE Len(s) = 0
  BY <1>1, <1>2
<1>3. CASE Len(s) # 0
  <2>1. 1 \in DOMAIN s
    BY <1>1, <1>3
  <2> QED BY <1>3, <2>1
<1> QED BY <1>2, <1>3

LEMMA NothingStale ==
  ASSUME Inv
  PROVE  /\ Cleaned = queues
         /\ \A r \in Priorities : Swept[r] = queues[r]
         /\ \A r \in Priorities : DropStale(queues[r]) = queues[r]
         /\ ReadyLevels = {r \in Priorities : queues[r] # <<>>}
<1>1. queues \in [Priorities -> Seq(Ids)]
  BY DEF Inv, TableTypeOK
<1>2. \A r \in Priorities : \A k \in DOMAIN queues[r] : state[queues[r][k]] = "READY"
  <2>1. \A r \in Priorities : \A k \in DOMAIN queues[r] :
          queues[r][k] \in Ids /\ Elem(queues[r][k], queues[r])
    BY <1>1 DEF Elem
  <2> QED BY <2>1, InvFacts
<1>3. \A r \in Priorities : ToRemove(queues[r]) = {}
  BY <1>2 DEF ToRemove
<1>4. \A r \in Priorities : Swept[r] = queues[r]
  BY <1>3 DEF Swept
<1>5. \A r \in Priorities : ReadyAt(queues[r]) = DOMAIN queues[r]
  BY <1>2 DEF ReadyAt
<1>6. ASSUME NEW r \in Priorities
      PROVE  DropStale(queues[r]) = queues[r]
  <2> DEFINE s == queues[r]
  <2>1. s \in Seq(Ids) /\ DOMAIN s = 1 .. Len(s) /\ Len(s) \in Nat
    BY <1>1
  <2>2. CASE DOMAIN s = {}
    <3>1. s = <<>>
      BY <2>1, <2>2, NoElements
    <3> QED BY <1>5, <2>2, <3>1 DEF DropStale
  <2>3. CASE DOMAIN s # {}
    <3>1. 1 \in DOMAIN s /\ DOMAIN s \subseteq Nat
      BY <2>1, <2>3
    <3>2. Min(DOMAIN s) \in DOMAIN s /\ \A y \in DOMAIN s : Min(DOMAIN s) <= y
      BY <2>3, <3>1, MinOfNaturals
    <3>3. Min(DOMAIN s) = 1
      BY <2>1, <3>1, <3>2
    <3>4. DropStale(s) = SubSeq(s, 1, Len(s))
      BY <1>5, <2>3, <3>3 DEF DropStale
    <3> QED BY <2>1, <3>4
  <2> QED BY <2>2, <2>3
<1>7. ReadyLevels = {r \in Priorities : queues[r] # <<>>}
  <2>1. \A r \in Priorities : DOMAIN queues[r] # {} <=> queues[r] # <<>>
    BY <1>1, NoElements
  <2> QED BY <1>4, <1>5, <2>1 DEF ReadyLevels
<1>8. \A r \in Priorities :
        (IF ReadyLevels = {} \/ r <= Min(ReadyLevels)
         THEN DropStale(Swept[r]) ELSE Swept[r]) = queues[r]
  BY <1>4, <1>6
<1>9. Cleaned = [r \in Priorities |-> queues[r]]
  BY <1>8 DEF Cleaned
<1> QED BY <1>1, <1>4, <1>6, <1>7, <1>9

LEMMA NextIsFirst ==
  ASSUME Inv, ReadyLevels # {}
  PROVE  /\ NextProc \in Ids
         /\ queues[priority[NextProc]] # <<>>
         /\ NextProc = Head(queues[priority[NextProc]])
         /\ Elem(NextProc, queues[priority[NextProc]])
         /\ \A r \in Priorities : queues[r] # <<>> => priority[NextProc] <= r
<1> DEFINE m == Min(ReadyLevels)
<1>1. ReadyLevels \subseteq Nat /\ ReadyLevels = {r \in Priorities : queues[r] # <<>>}
  BY NothingStale, NumPrioritiesAssumption DEF Priorities
<1>2. m \in ReadyLevels /\ \A r \in ReadyLevels : m <= r
  BY <1>1, MinOfNaturals
<1> HIDE DEF m
<1>3. m \in Priorities /\ queues[m] # <<>> /\ queues[m] \in Seq(Ids)
  BY <1>1, <1>2 DEF Inv, TableTypeOK
<1>4. NextProc = Head(queues[m])
  <2>1. Swept[m] = queues[m] /\ DropStale(queues[m]) = queues[m]
    BY <1>3, NothingStale
  <2>2. NextProc = Head(DropStale(Swept[m]))
    BY DEF NextProc, m
  <2> QED BY <2>1, <2>2
<1>5. NextProc \in Ids /\ Elem(NextProc, queues[m])
  BY <1>3, <1>4, HeadTailFacts
<1>6. priority[NextProc] = m
  BY <1>3, <1>5, InvFacts
<1> QED BY <1>1, <1>2, <1>3, <1>4, <1>5, <1>6

\* Nobody stands before the head.
LEMMA HeadIsFirst ==
  ASSUME NEW s \in Seq(Ids), s # <<>>, \A m, n \in DOMAIN s : s[m] = s[n] => m = n
  PROVE  \A j, k : Before(s, j, k) => k # Head(s)
<1>1. DOMAIN s = 1 .. Len(s) /\ Len(s) \in Nat /\ 1 \in DOMAIN s /\ Head(s) = s[1]
  OBVIOUS
<1>2. SUFFICES ASSUME NEW j, NEW k, Before(s, j, k), k = Head(s)
               PROVE  FALSE
  OBVIOUS
<1>3. PICK x, y \in DOMAIN s : x < y /\ s[x] = j /\ s[y] = k
  BY <1>2 DEF Before
<1>4. y = 1
  BY <1>1, <1>2, <1>3
<1> QED BY <1>1, <1>3, <1>4

\* The elected process is the running one or the next, and the running one
\* gives way only to a better one.
LEMMA ElectedFacts ==
  ASSUME Inv, ReadyLevels # {}
  PROVE  /\ Elected \in Ids
         /\ \A r \in Priorities : ~ Elem(running, queues[r])
         /\ Continues => Elected = running /\ ~ Preempts /\ running # None
         /\ ~ Continues => Elected = NextProc /\ (Preempts <=> running # None)
         /\ Preempts => running \in Ids /\ priority[NextProc] < priority[running]
         /\ running \in Ids => state[running] = "RUNNING"
<1>1. running \in Ids \cup {None} /\ (running \in Ids => state[running] = "RUNNING")
  BY DEF Inv, TableTypeOK, QueueDiscipline
<1>2. NextProc \in Ids
  BY NextIsFirst
<1>3. \A r \in Priorities : ~ Elem(running, queues[r])
  <2>1. CASE running \in Ids
    BY <1>1, <2>1, InvFacts
  <2>2. CASE running = None
    <3>1. \A r \in Priorities : queues[r] \in Seq(Ids)
      BY DEF Inv, TableTypeOK
    <3> QED BY <2>2, <3>1, NoneAssumption DEF Elem
  <2> QED BY <1>1, <2>1, <2>2
<1> QED BY <1>1, <1>2, <1>3, NoneAssumption DEF Elected, Continues, Preempts

\* The queues once the elected process has left them, the preempted one being
\* back in front of its own.
Waiting == IF Continues THEN Cleaned
           ELSE [QueuesAfterPreemption EXCEPT ![priority[Elected]] =
                   RemoveFirst(@, Elected)]

LEMMA WaitingFacts ==
  ASSUME Inv, ReadyLevels # {}
  PROVE  /\ Orderly(Waiting)
         /\ \A r \in Priorities, j \in Ids :
              Elem(j, Waiting[r]) <=>
                \/ Elem(j, queues[r]) /\ j # Elected
                \/ Preempts /\ j = running /\ r = priority[running]
         /\ \A r \in Priorities, j, k \in Ids :
              Before(queues[r], j, k) /\ j # Elected
                => k # Elected /\ Before(Waiting[r], j, k)
         /\ Preempts => /\ Head(Waiting[priority[running]]) = running
                        /\ priority[Elected] # priority[running]
<1> DEFINE i == Elected
           back == QueuesAfterPreemption
<1>1. /\ Orderly(queues) /\ Cleaned = queues
      /\ \A j \in Ids : priority[j] \in Priorities
  BY InvFacts, NothingStale
<1>2. \A r \in Priorities : ~ Elem(running, queues[r])
  BY ElectedFacts
<1>3. CASE Continues
  <2>1. i = running /\ ~ Preempts /\ Waiting = queues
    BY <1>1, <1>3, ElectedFacts DEF Waiting
  <2>2. ASSUME NEW r \in Priorities, NEW j \in Ids, NEW k \in Ids, Before(queues[r], j, k)
        PROVE  k # i
    <3>1. Elem(k, queues[r])
      BY <2>2 DEF Before, Elem
    <3> QED BY <1>2, <2>1, <3>1
  <2> QED BY <1>1, <1>2, <2>1, <2>2
<1>4. CASE ~ Continues
  <2> DEFINE p == priority[i]
             q == priority[running]
  <2>1. i = NextProc /\ i \in Ids /\ p \in Priorities
    BY <1>1, <1>4, ElectedFacts, NextIsFirst
  <2>2. Preempts => running \in Ids /\ q \in Priorities /\ p < q /\ running # i /\ p # q
    <3>1. Preempts => running \in Ids /\ priority[NextProc] < priority[running]
      BY ElectedFacts
    <3>2. p \in Int /\ (running \in Ids => q \in Int)
      BY <1>1, <2>1, NumPrioritiesAssumption DEF Priorities
    <3> QED BY <1>1, <2>1, <3>1, <3>2
  <2>3. /\ Orderly(back)
        /\ \A r \in Priorities, j \in Ids :
             Elem(j, back[r]) <=> \/ Elem(j, queues[r])
                                  \/ Preempts /\ j = running /\ r = q
        /\ \A r \in Priorities, j, k \in Ids :
             Before(queues[r], j, k) => Before(back[r], j, k)
        /\ Preempts => Head(back[q]) = running
    <3>1. CASE Preempts
      <4>1. back = Pushed(queues, q, running)
        BY <1>1, <3>1 DEF QueuesAfterPreemption, Pushed
      <4>2. Holds(back, queues, q, running, TRUE) /\ Head(back[q]) = running
        BY <1>1, <1>2, <2>2, <3>1, <4>1, PushedHolds
      <4> QED BY <2>2, <3>1, <4>2 DEF Holds
    <3>2. CASE ~ Preempts
      BY <1>1, <3>2 DEF QueuesAfterPreemption
    <3> QED BY <3>1, <3>2
  <2>4. Waiting = Removed(back, p, i)
    BY <1>4 DEF Waiting, Removed
  <2> HIDE DEF back, p, q
  <2>5. Holds(Waiting, back, p, i, FALSE)
    BY <2>1, <2>3, <2>4, RemovedHolds
  <2>6. ASSUME NEW r \in Priorities, NEW j \in Ids, NEW k \in Ids, Before(queues[r], j, k)
        PROVE  k # i
    <3>1. Elem(k, queues[r])
      BY <2>6 DEF Before, Elem
    <3>2. ASSUME k = i PROVE FALSE
      <4>1. r = p /\ queues[p] # <<>> /\ i = Head(queues[p])
        BY <2>1, <3>1, <3>2, InvFacts, NextIsFirst DEF p
      <4>2. queues[p] \in Seq(Ids) /\ \A m, n \in DOMAIN queues[p] :
                                        queues[p][m] = queues[p][n] => m = n
        BY <1>1, <2>1 DEF Orderly
      <4>3. k # Head(queues[p])
        BY <2>6, <4>1, <4>2, HeadIsFirst
      <4> QED BY <3>2, <4>1, <4>3
    <3> QED BY <3>2
  <2>7. \A r \in Priorities : Elem(i, queues[r]) => r = p
    BY <2>1, InvFacts DEF p
  <2>8. \A r \in Priorities, j \in Ids :
          Elem(j, Waiting[r]) <=> \/ Elem(j, queues[r]) /\ j # i
                                  \/ Preempts /\ j = running /\ r = q
    BY <2>2, <2>3, <2>5, <2>7 DEF Holds
  <2>9. \A r \in Priorities, j, k \in Ids :
          Before(queues[r], j, k) /\ j # i => k # i /\ Before(Waiting[r], j, k)
    BY <2>3, <2>5, <2>6 DEF Holds
  <2>10. Preempts => Waiting[q] = back[q]
    BY <2>2, <2>3, <2>4 DEF Removed, Orderly
  <2> QED BY <2>2, <2>3, <2>5, <2>8, <2>9, <2>10 DEF Holds, p, q
<1> QED BY <1>3, <1>4

-----------------------------------------------------------------------------
(* The steps of a tick.                                                     *)

LEMMA IdleKeepsInv ==
  ASSUME Inv, TickIdle
  PROVE  Inv'
<1>1. queues' = queues /\ running' = None /\ UNCHANGED <<priority, remaining, yields>>
  BY NothingStale DEF TickIdle
<1>2. \A j \in Ids : state'[j] = IF j = running THEN "READY" ELSE state[j]
  BY NoneAssumption DEF TickIdle, Inv, TableTypeOK
<1>3. TableTypeOK'
  BY <1>1, NoneAssumption DEF TickIdle, Inv, TableTypeOK, ProcStates
<1>4. Orderly(queues')
  BY <1>1, InvFacts
<1>5. \A j \in Ids, r \in Priorities :
        Elem(j, queues'[r]) => r = priority'[j] /\ state'[j] = "READY"
  BY <1>1, <1>2, InvFacts
<1>6. \A j \in Ids : state'[j] = "RUNNING" <=> running' = j
  BY <1>1, <1>2, NoneAssumption DEF Inv, QueueDiscipline
<1> QED BY <1>3, <1>4, <1>5, <1>6, InvFromParts

\* Whether the elected process gives the CPU back in the tick that elects it.
Over == remaining[Elected] - 1 <= 0 \/ Elected \in yields

\* The step of a tick, in the terms of the facts about the queues.
LEMMA RunStep ==
  ASSUME Inv, TickRun
  PROVE  /\ picked' = Elected /\ Elected \in Ids
         /\ priority' = priority
         /\ \A j \in Ids : state'[j] = IF j = Elected
                                       THEN (IF Over THEN "READY" ELSE "RUNNING")
                                       ELSE IF Preempts /\ j = running THEN "READY"
                                       ELSE state[j]
         /\ queues' = IF Over THEN Enqueued(Waiting, priority[Elected], Elected) ELSE Waiting
         /\ running' = IF Over THEN None ELSE Elected
         /\ \A j \in Ids : j # Elected => remaining'[j] = remaining[j]
         /\ state' \in [Ids -> ProcStates] /\ remaining' \in [Ids -> Int]
         /\ yields' \subseteq Ids
<1> DEFINE i == Elected
           preempted == [state EXCEPT ![IF Preempts THEN running ELSE i] = "READY"]
<1>1. /\ i \in Ids /\ Slice[i] \in Int
      /\ Preempts => running \in Ids
      /\ state \in [Ids -> ProcStates] /\ remaining \in [Ids -> Int] /\ yields \subseteq Ids
  BY ElectedFacts, SliceAssumption DEF TickRun, Inv, TableTypeOK
<1>2. /\ picked' = i
      /\ priority' = priority
      /\ Over => /\ state' = [preempted EXCEPT ![i] = "READY"]
                 /\ ResetSlice(i)
                 /\ queues' = Rotated(Waiting, i)
                 /\ running' = None
      /\ ~ Over => /\ state' = [preempted EXCEPT ![i] = "RUNNING"]
                   /\ remaining' = [remaining EXCEPT ![i] = @ - 1]
                   /\ queues' = Waiting
                   /\ running' = i
                   /\ yields' = yields
  BY DEF TickRun, Over, Waiting
<1>3. preempted \in [Ids -> ProcStates]
  BY <1>1 DEF ProcStates
<1>4. \A j \in Ids : preempted[j] = IF j = (IF Preempts THEN running ELSE i)
                                    THEN "READY" ELSE state[j]
  BY <1>1
<1> HIDE DEF preempted, i
<1>5. Rotated(Waiting, i) = Enqueued(Waiting, priority[i], i)
  BY DEF Rotated, Enqueued
<1>6. CASE Over
  <2>1. /\ state' = [preempted EXCEPT ![i] = "READY"]
        /\ remaining' = [remaining EXCEPT ![i] = Slice[i]]
        /\ yields' = yields \ {i}
    BY <1>2, <1>6 DEF ResetSlice
  <2>2. \A j \in Ids : state'[j] = IF j = i THEN "READY" ELSE preempted[j]
    BY <1>3, <2>1
  <2>3. /\ state' \in [Ids -> ProcStates] /\ remaining' \in [Ids -> Int]
        /\ yields' \subseteq Ids
        /\ \A j \in Ids : j # i => remaining'[j] = remaining[j]
    BY <1>1, <1>3, <2>1 DEF ProcStates
  <2> QED BY <1>1, <1>2, <1>4, <1>5, <1>6, <2>2, <2>3 DEF i
<1>7. CASE ~ Over
  <2>1. /\ state' = [preempted EXCEPT ![i] = "RUNNING"]
        /\ remaining' = [remaining EXCEPT ![i] = @ - 1]
        /\ yields' = yields
    BY <1>2, <1>7
  <2>2. \A j \in Ids : state'[j] = IF j = i THEN "RUNNING" ELSE preempted[j]
    BY <1>3, <2>1
  <2>3. /\ state' \in [Ids -> ProcStates] /\ remaining' \in [Ids -> Int]
        /\ yields' \subseteq Ids
        /\ \A j \in Ids : j # i => remaining'[j] = remaining[j]
    BY <1>1, <1>3, <2>1 DEF ProcStates
  <2> QED BY <1>1, <1>2, <1>4, <1>7, <2>2, <2>3 DEF i
<1> QED BY <1>6, <1>7

\* Where everybody stands after a tick that ran somebody.
LEMMA QueuesAfterRun ==
  ASSUME Inv, TickRun
  PROVE  /\ Orderly(queues')
         /\ \A r \in Priorities, j \in Ids :
              Elem(j, queues'[r]) =>
                \/ Elem(j, queues[r]) /\ j # Elected
                \/ Preempts /\ j = running /\ r = priority[running]
                \/ Over /\ j = Elected /\ r = priority[Elected]
         /\ \A r \in Priorities, j, k \in Ids :
              Before(queues[r], j, k) /\ j # Elected
                => k # Elected /\ Before(queues'[r], j, k)
         /\ Preempts => Head(queues'[priority[running]]) = running
<1> DEFINE i == Elected
           p == priority[i]
<1>1. ReadyLevels # {} /\ i \in Ids /\ p \in Priorities
  BY RunStep, InvFacts DEF TickRun
<1>2. /\ Orderly(Waiting)
      /\ \A r \in Priorities, j \in Ids :
           Elem(j, Waiting[r]) <=>
             \/ Elem(j, queues[r]) /\ j # i
             \/ Preempts /\ j = running /\ r = priority[running]
      /\ \A r \in Priorities, j, k \in Ids :
           Before(queues[r], j, k) /\ j # i => k # i /\ Before(Waiting[r], j, k)
      /\ Preempts => Head(Waiting[priority[running]]) = running /\ p # priority[running]
  BY <1>1, WaitingFacts
<1>3. CASE ~ Over
  <2>1. queues' = Waiting
    BY <1>3, RunStep
  <2> QED BY <1>2, <2>1
<1>4. CASE Over
  <2>1. queues' = Enqueued(Waiting, p, i)
    BY <1>4, RunStep
  <2>2. ~ Elem(i, Waiting[p])
    BY <1>1, <1>2
  <2> HIDE DEF p
  <2>3. Holds(queues', Waiting, p, i, TRUE)
    BY <1>1, <1>2, <2>1, <2>2, EnqueuedHolds
  <2>4. ASSUME Preempts
        PROVE  queues'[priority[running]] = Waiting[priority[running]]
    <3>1. priority[running] \in Priorities
      BY <1>1, <2>4, ElectedFacts, InvFacts
    <3> QED BY <1>2, <2>1, <2>4, <3>1 DEF Enqueued, Orderly
  <2>5. \A r \in Priorities, j \in Ids :
          Elem(j, queues'[r]) => \/ Elem(j, Waiting[r])
                                 \/ j = i /\ r = p
    BY <2>3 DEF Holds
  <2>6. \A r \in Priorities, j, k \in Ids :
          Before(Waiting[r], j, k) => Before(queues'[r], j, k)
    BY <2>3 DEF Holds
  <2>7. Orderly(queues')
    BY <2>3 DEF Holds
  <2> QED BY <1>2, <1>4, <2>4, <2>5, <2>6, <2>7 DEF p
<1> QED BY <1>3, <1>4

LEMMA RunKeepsInv ==
  ASSUME Inv, TickRun
  PROVE  Inv'
<1> DEFINE i == Elected
<1>1. /\ i \in Ids
      /\ priority' = priority
      /\ \A j \in Ids : state'[j] = IF j = i THEN (IF Over THEN "READY" ELSE "RUNNING")
                                    ELSE IF Preempts /\ j = running THEN "READY"
                                    ELSE state[j]
      /\ running' = IF Over THEN None ELSE i
  BY RunStep
<1>2. TableTypeOK'
  BY RunStep, QueuesAfterRun DEF Inv, TableTypeOK, Orderly
<1>3. ReadyLevels # {}
  BY DEF TickRun
<1>4. \A j \in Ids, r \in Priorities :
        Elem(j, queues'[r]) => \/ Elem(j, queues[r]) /\ j # i
                               \/ Preempts /\ j = running /\ r = priority[running]
                               \/ Over /\ j = i /\ r = priority[i]
  BY QueuesAfterRun
<1>5. running \in Ids /\ ~ Preempts => i = running
  BY <1>3, ElectedFacts, NoneAssumption
<1>6. Preempts => running # i
  <2>1. Preempts => i = NextProc
    BY <1>3, ElectedFacts
  <2>2. \A r \in Priorities : ~ Elem(running, queues[r])
    BY <1>3, ElectedFacts
  <2>3. priority[NextProc] \in Priorities /\ Elem(NextProc, queues[priority[NextProc]])
    BY <1>3, NextIsFirst, InvFacts
  <2> QED BY <2>1, <2>2, <2>3
<1>7. \A j \in Ids, r \in Priorities :
        Elem(j, queues'[r]) => r = priority'[j] /\ state'[j] = "READY"
  <2> SUFFICES ASSUME NEW j \in Ids, NEW r \in Priorities, Elem(j, queues'[r])
               PROVE  r = priority'[j] /\ state'[j] = "READY"
    OBVIOUS
  <2>1. CASE Elem(j, queues[r]) /\ j # i
    <3>1. r = priority[j] /\ state[j] = "READY"
      BY <2>1, InvFacts
    <3> QED BY <1>1, <2>1, <3>1
  <2>2. CASE Preempts /\ j = running /\ r = priority[running]
    BY <1>1, <1>6, <2>2
  <2>3. CASE Over /\ j = i /\ r = priority[i]
    BY <1>1, <2>3
  <2> QED BY <1>4, <2>1, <2>2, <2>3
<1>8. \A j \in Ids : state'[j] = "RUNNING" <=> running' = j
  <2>1. \A j \in Ids : state[j] = "RUNNING" <=> running = j
    BY DEF Inv, QueueDiscipline
  <2> QED BY <1>1, <1>5, <2>1, NoneAssumption
<1>9. Orderly(queues')
  BY QueuesAfterRun
<1> QED BY <1>2, <1>7, <1>8, <1>9, InvFromParts

\* A step of the scheduler keeps the discipline.
LEMMA InvNext == Inv /\ [Next]_vars => Inv'
<1> SUFFICES ASSUME Inv, [Next]_vars PROVE Inv'
  OBVIOUS
<1>1. CASE TickIdle
  BY <1>1, IdleKeepsInv
<1>2. CASE TickRun
  BY <1>2, RunKeepsInv
<1>3. ASSUME NEW i \in Ids, Call(i) PROVE Inv'
  BY <1>3, CallKeepsInv
<1>4. CASE UNCHANGED vars
  BY <1>4 DEF vars, table, Inv, TableTypeOK, QueueDiscipline, IsInjective, InQueue
<1> QED BY <1>1, <1>2, <1>3, <1>4 DEF Next, Tick

(***************************************************************************)
(* The queues are disciplined in every state: whatever calls and ticks     *)
(* come in any order, nobody is queued twice, at a wrong level or while    *)
(* not READY, and the running process is the one that is RUNNING.          *)
(***************************************************************************)
THEOREM AlwaysDisciplined == Spec => []QueueDiscipline
<1>1. Spec => []Inv
  BY InvInit, InvNext, PTL DEF Spec
<1>2. Inv => QueueDiscipline
  BY DEF Inv
<1> QED BY <1>1, <1>2, PTL

-----------------------------------------------------------------------------
(* Nobody is overtaken.                                                     *)

LEMMA IdleIsFair ==
  ASSUME Inv, TickIdle
  PROVE  /\ picked' = None /\ queues' = queues
         /\ \A j \in Ids, r \in Priorities : ~ InQueue(j, r)
<1>1. picked' = None /\ queues' = queues
  BY NothingStale DEF TickIdle
<1>2. \A r \in Priorities : queues[r] = <<>>
  BY NothingStale DEF TickIdle
<1> QED BY <1>1, <1>2 DEF InQueue

\* The elected process is no worse than any that is queued.
LEMMA ElectedIsBest ==
  ASSUME Inv, ReadyLevels # {}, NEW j \in Ids, InQueue(j, priority[j])
  PROVE  priority[Elected] <= priority[j]
<1>1. priority[j] \in Priorities /\ queues[priority[j]] # <<>>
  BY InvFacts DEF InQueue
<1>2. priority[NextProc] <= priority[j]
  BY <1>1, NextIsFirst
<1>3. Elected = NextProc \/ (Elected = running /\ ~ Preempts /\ running # None)
  BY ElectedFacts
<1>4. /\ \A k \in Ids : priority[k] \in Int
      /\ NextProc \in Ids /\ Elected \in Ids
  BY InvFacts, NextIsFirst, ElectedFacts, NumPrioritiesAssumption DEF Priorities
<1>5. Elected = running /\ ~ Preempts /\ running # None
        => priority[Elected] <= priority[NextProc]
  BY <1>4 DEF Preempts
<1> QED BY <1>2, <1>3, <1>4, <1>5

\* What NoOvertaking says of one step.
LEMMA TickOvertakesNobody ==
  ASSUME Inv, Tick
  PROVE  /\ \A i \in Ids : InQueue(i, priority[i]) =>
              picked' # None /\ priority[picked'] <= priority[i]
         /\ \A p \in Priorities, i, j \in Ids :
              Before(queues[p], i, j) /\ picked' # i =>
                picked' # j /\ Before(queues'[p], i, j)
         /\ \A i \in Ids :
              running = i /\ picked' \notin {i, None} /\ state'[i] = "READY" =>
                /\ Head(queues'[priority[i]]) = i
                /\ remaining'[i] = remaining[i]
<1>1. CASE TickIdle
  <2>1. \A i \in Ids : InQueue(i, priority[i]) => FALSE
    BY <1>1, IdleIsFair, InvFacts
  <2> QED BY <1>1, <2>1, IdleIsFair, NoneAssumption
<1>2. CASE TickRun
  <2>1. ReadyLevels # {} /\ picked' = Elected /\ Elected \in Ids /\ Elected # None
    BY <1>2, RunStep, NoneAssumption DEF TickRun
  <2>2. \A i \in Ids : InQueue(i, priority[i]) => priority[Elected] <= priority[i]
    BY <2>1, ElectedIsBest
  <2>3. \A p \in Priorities, i, j \in Ids :
          Before(queues[p], i, j) /\ i # Elected
            => j # Elected /\ Before(queues'[p], i, j)
    BY <1>2, QueuesAfterRun
  <2>4. ASSUME NEW i \in Ids, running = i, Elected # i
        PROVE  Head(queues'[priority[i]]) = i /\ remaining'[i] = remaining[i]
    <3>1. Preempts
      BY <2>1, <2>4, ElectedFacts, NoneAssumption
    <3> QED BY <1>2, <2>4, <3>1, QueuesAfterRun, RunStep
  <2> QED BY <2>1, <2>2, <2>3, <2>4
<1> QED BY <1>1, <1>2 DEF Tick

(***************************************************************************)
(* No tick lets anybody overtake, in the states the scheduler reaches.     *)
(***************************************************************************)
THEOREM NobodyOvertakes == Spec => NoOvertaking
<1>1. Spec => []Inv
  BY InvInit, InvNext, PTL DEF Spec
<1>2. Inv /\ Tick =>
        /\ \A i \in Ids : InQueue(i, priority[i]) =>
             picked' # None /\ priority[picked'] <= priority[i]
        /\ \A p \in Priorities, i, j \in Ids :
             Before(queues[p], i, j) /\ picked' # i =>
               picked' # j /\ Before(queues'[p], i, j)
        /\ \A i \in Ids :
             running = i /\ picked' \notin {i, None} /\ state'[i] = "READY" =>
               /\ Head(queues'[priority[i]]) = i
               /\ remaining'[i] = remaining[i]
  BY TickOvertakesNobody
<1> QED BY <1>1, <1>2, PTL DEF NoOvertaking, Spec

-----------------------------------------------------------------------------
(* IsolatedProcess: what is in the pipes.                                   *)

DownTypes == {"tick", "syscall_result", "shutdown"}
UpTypes == {"ready", "error", "syscall", "tick_done", "shutdown_ack"}
EndTypes == {"tick_done", "error"}

Downward == [type : DownTypes, n : Nat]
Upward == [type : UpTypes, n : Nat]

PipesOK ==
  /\ toChild \in Seq(Downward) /\ toParent \in Seq(Upward)
  /\ tick \in Nat /\ thinking \in Nat /\ asked \in Nat

\* No message of these types, or one, which has number n.
NoneOf(q, types) == \A i \in DOMAIN q : q[i].type \notin types

OneOf(q, types, n) ==
  \E i \in DOMAIN q : q[i].n = n /\ \A j \in DOMAIN q : q[j].type \in types <=> j = i

\* Where the two ends may be.
Flow ==
  /\ parent \in {"host", "starting", "ticking", "acking", "joining"}
  /\ child \in {"none", "booting", "listening", "thinking", "asking", "exited"}
  /\ parent \in {"ticking", "acking", "joining"} => isRunning
  /\ parent = "host" /\ ~isRunning => Dead
  /\ parent # "starting" => child # "booting"
  /\ parent = "starting" =>
       /\ late = {} /\ toChild = << >>
       /\ \/ child = "booting" /\ toParent = << >>
          \/ child = "listening" /\ toParent = <<Msg("ready", 0)>>
          \/ child = "exited"

\* The ticks on their way are new, and in order.
TicksInOrder ==
  /\ thinking <= tick
  /\ \A i \in DOMAIN toChild :
       toChild[i].type = "tick" => thinking < toChild[i].n /\ toChild[i].n <= tick
  /\ \A i, j \in DOMAIN toChild :
       i < j /\ toChild[i].type = "tick" /\ toChild[j].type = "tick" => toChild[i].n < toChild[j].n

\* A tick_done tells the truth.
EndsAreTrue ==
  \A i \in DOMAIN toParent : toParent[i].type = "tick_done" => toParent[i].n \in finished

Busy == child \in {"thinking", "asking"}

\* As long as no tick has timed out, there is one at a time: on its way to the
\* child, in the child's hands, or on its way back.
OneAtATime ==
  "tick" \notin late =>
    /\ parent \in {"host", "acking", "joining"} /\ ~Dead =>
         ~Busy /\ NoneOf(toChild, {"tick"}) /\ NoneOf(toParent, EndTypes)
    /\ parent = "ticking" =>
         /\ \A i \in DOMAIN toParent : toParent[i].type = "tick_done" => toParent[i].n = tick
         /\ ~Dead =>
              \/ ~Busy /\ OneOf(toChild, {"tick"}, tick) /\ NoneOf(toParent, EndTypes)
              \/ Busy /\ thinking = tick /\ NoneOf(toChild, {"tick"}) /\ NoneOf(toParent, EndTypes)
              \/ ~Busy /\ NoneOf(toChild, {"tick"}) /\ OneOf(toParent, EndTypes, tick)

\* As long as nothing has timed out, the two ends are in step.
InStep ==
  late = {} /\ ~Dead /\ parent # "starting" =>
    \/ /\ parent = "host" /\ child = "listening" /\ toChild = << >> /\ toParent = << >>
    \/ /\ parent \in {"acking", "joining"} /\ child = "listening"
       /\ toChild = <<Msg("shutdown", 0)>> /\ toParent = << >>
    \/ /\ parent = "ticking"
       /\ \/ /\ child = "listening" /\ toChild = <<Msg("tick", tick)>> /\ toParent = << >>
          \/ /\ child = "thinking" /\ toChild = << >> /\ toParent = << >>
          \/ /\ child = "asking"
             /\ \/ toChild = << >> /\ toParent = <<Msg("syscall", asked)>>
                \/ toChild = <<Msg("syscall_result", asked)>> /\ toParent = << >>
          \/ /\ child = "listening" /\ toChild = << >>
             /\ \E type \in EndTypes : toParent = <<Msg(type, tick)>>

IsolatedInv == PipesOK /\ Flow /\ TicksInOrder /\ EndsAreTrue /\ OneAtATime /\ InStep

LEMMA PipeAppends ==
  ASSUME NEW S, NEW s \in Seq(S), NEW e \in S
  PROVE  /\ Append(s, e) \in Seq(S) /\ Append(s, e) # << >>
         /\ Len(Append(s, e)) = Len(s) + 1 /\ Append(s, e)[Len(s) + 1] = e
         /\ DOMAIN Append(s, e) = DOMAIN s \cup {Len(s) + 1}
         /\ DOMAIN s = 1 .. Len(s) /\ Len(s) \in Nat
         /\ \A i \in DOMAIN s : Append(s, e)[i] = s[i]
OBVIOUS

LEMMA PipeTails ==
  ASSUME NEW S, NEW s \in Seq(S), s # << >>
  PROVE  /\ Tail(s) \in Seq(S) /\ Head(s) = s[1] /\ Head(s) \in S
         /\ Len(s) \in Nat \ {0} /\ DOMAIN s = 1 .. Len(s) /\ DOMAIN Tail(s) = 1 .. Len(s) - 1
         /\ \A i \in 1 .. Len(s) - 1 : Tail(s)[i] = s[i + 1]
OBVIOUS

LEMMA AppendCounts ==
  ASSUME NEW S, NEW q \in Seq(S), NEW m \in S, NEW types, NEW n
  PROVE  /\ NoneOf(q, types) /\ m.type \notin types => NoneOf(Append(q, m), types)
         /\ NoneOf(q, types) /\ m.type \in types /\ m.n = n => OneOf(Append(q, m), types, n)
         /\ OneOf(q, types, n) /\ m.type \notin types => OneOf(Append(q, m), types, n)
<1> DEFINE r == Append(q, m)
           l == Len(q)
<1>1. /\ l \in Nat /\ DOMAIN q = 1 .. l /\ DOMAIN r = DOMAIN q \cup {l + 1} /\ r[l + 1] = m
      /\ \A i \in DOMAIN q : r[i] = q[i]
  BY PipeAppends
<1>2. l + 1 \notin DOMAIN q
  BY <1>1
<1> HIDE DEF r, l
<1>3. NoneOf(q, types) /\ m.type \notin types => NoneOf(r, types)
  BY <1>1 DEF NoneOf
<1>4. NoneOf(q, types) /\ m.type \in types /\ m.n = n => OneOf(r, types, n)
  BY <1>1, <1>2 DEF NoneOf, OneOf
<1>5. ASSUME OneOf(q, types, n), m.type \notin types PROVE OneOf(r, types, n)
  <2>1. PICK i \in DOMAIN q : q[i].n = n /\ \A j \in DOMAIN q : q[j].type \in types <=> j = i
    BY <1>5 DEF OneOf
  <2>2. i \in DOMAIN r /\ r[i].n = n /\ i # l + 1
    BY <1>1, <1>2, <2>1
  <2>3. \A j \in DOMAIN r : r[j].type \in types <=> j = i
    BY <1>1, <1>5, <2>1, <2>2
  <2> QED  BY <2>2, <2>3 DEF OneOf
<1> QED  BY <1>3, <1>4, <1>5 DEF r

LEMMA TailCounts ==
  ASSUME NEW S, NEW q \in Seq(S), q # << >>, NEW types, NEW n
  PROVE  /\ NoneOf(q, types) => NoneOf(Tail(q), types) /\ Head(q).type \notin types
         /\ OneOf(q, types, n) /\ Head(q).type \in types => NoneOf(Tail(q), types) /\ Head(q).n = n
         /\ OneOf(q, types, n) /\ Head(q).type \notin types => OneOf(Tail(q), types, n)
<1> DEFINE r == Tail(q)
           l == Len(q)
           h == Head(q)
<1>1. /\ l \in Nat \ {0} /\ DOMAIN q = 1 .. l /\ DOMAIN r = 1 .. l - 1 /\ h = q[1]
      /\ \A i \in DOMAIN r : r[i] = q[i + 1]
  BY PipeTails
<1>2. 1 \in DOMAIN q /\ \A i \in DOMAIN r : i + 1 \in DOMAIN q /\ i + 1 # 1
  BY <1>1
<1> HIDE DEF r, l, h
<1>3. NoneOf(q, types) => NoneOf(r, types) /\ h.type \notin types
  BY <1>1, <1>2 DEF NoneOf
<1>4. ASSUME OneOf(q, types, n)
      PROVE  /\ h.type \in types => NoneOf(r, types) /\ h.n = n
             /\ h.type \notin types => OneOf(r, types, n)
  <2>1. PICK i \in DOMAIN q : q[i].n = n /\ \A j \in DOMAIN q : q[j].type \in types <=> j = i
    BY <1>4 DEF OneOf
  <2>2. CASE i = 1
    BY <1>1, <1>2, <2>1, <2>2 DEF NoneOf
  <2>3. CASE i # 1
    <3>1. /\ i - 1 \in DOMAIN r /\ r[i - 1] = q[i] /\ h.type \notin types
      BY <1>1, <1>2, <2>1, <2>3
    <3>2. \A j \in DOMAIN r : r[j].type \in types <=> j = i - 1
      BY <1>1, <1>2, <2>1
    <3> QED  BY <2>1, <3>1, <3>2 DEF OneOf
  <2> QED  BY <2>2, <2>3
<1> QED  BY <1>3, <1>4 DEF r, h

LEMMA TailHasNone ==
  ASSUME NEW S, NEW q \in Seq(S), q # << >>, NEW types, NoneOf(q, types)
  PROVE  NoneOf(Tail(q), types)
BY TailCounts

LEMMA PipesStart == IsolatedInit => IsolatedInv
BY DEF IsolatedInit, IsolatedInv, PipesOK, Flow, Dead, TicksInOrder, EndsAreTrue, OneAtATime,
       InStep, NoneOf, Busy

LEMMA MessagesFit ==
  /\ \A n \in Nat : Msg("tick", n) \in Downward /\ Msg("syscall_result", n) \in Downward
  /\ Msg("shutdown", 0) \in Downward
  /\ \A n \in Nat : Msg("tick_done", n) \in Upward /\ Msg("syscall", n) \in Upward
  /\ \A n \in Nat : Msg("error", n) \in Upward
  /\ Msg("ready", 0) \in Upward /\ Msg("shutdown_ack", 0) \in Upward
  /\ \A type, n : Msg(type, n).type = type /\ Msg(type, n).n = n
BY DEF Msg, Downward, Upward, DownTypes, UpTypes

\* What an action does to the pipes: nothing, or one message at one end.
LEMMA PipesKeep == PipesOK /\ IsolatedNext => PipesOK'
<1> SUFFICES ASSUME PipesOK, IsolatedNext PROVE PipesOK'
  OBVIOUS
<1>1. /\ toChild # << >> => Tail(toChild) \in Seq(Downward) /\ Head(toChild) \in Downward
      /\ toParent # << >> => Tail(toParent) \in Seq(Upward) /\ Head(toParent) \in Upward
      /\ \A m \in Downward : Append(toChild, m) \in Seq(Downward)
      /\ \A m \in Upward : Append(toParent, m) \in Seq(Upward)
      /\ << >> \in Seq(Downward) /\ << >> \in Seq(Upward)
  BY PipeTails, PipeAppends DEF PipesOK
<1>2. /\ toChild # << >> => Head(toChild).n \in Nat
      /\ toParent # << >> => Head(toParent).n \in Nat
  BY <1>1 DEF Downward, Upward
<1>3. tick \in Nat /\ thinking \in Nat /\ asked \in Nat
  BY DEF PipesOK
<1>4. CASE Start \/ Started \/ StartFails \/ TickDone \/ TickTimesOut \/ TickBreaks \/ Stop
           \/ AckOrNot \/ Joined \/ Crash
  BY <1>1, <1>4, MessagesFit DEF PipesOK, Start, Started, StartFails, TickDone, TickTimesOut, TickBreaks,
     Stop, AckOrNot, Joined, Crash
<1>5. CASE TickBegin
  BY <1>1, <1>3, <1>5, MessagesFit DEF PipesOK, TickBegin
<1>6. CASE Serve
  BY <1>1, <1>2, <1>6, MessagesFit DEF PipesOK, Serve
<1>7. CASE Boot \/ Answer \/ AnswerTimesOut \/ ThinkEnds
  BY <1>1, <1>7, MessagesFit DEF PipesOK, Boot, Answer, AnswerTimesOut, ThinkEnds
<1>8. CASE Listen
  BY <1>1, <1>2, <1>8, MessagesFit DEF PipesOK, Listen
<1>9. CASE Ask
  BY <1>1, <1>3, <1>9, MessagesFit DEF PipesOK, Ask
<1> QED  BY <1>4, <1>5, <1>6, <1>7, <1>8, <1>9 DEF IsolatedNext, Parent, Child

LEMMA FlowKeeps == PipesOK /\ Flow /\ IsolatedNext => Flow'
<1> SUFFICES ASSUME PipesOK, Flow, IsolatedNext PROVE Flow'
  OBVIOUS
<1>1. Append(<< >>, Msg("ready", 0)) = <<Msg("ready", 0)>>
  OBVIOUS
<1>2. CASE Start \/ Started \/ StartFails \/ TickDone \/ TickTimesOut \/ TickBreaks \/ Stop
  BY <1>2 DEF Flow, Dead, Start, Started, StartFails, TickDone, TickTimesOut, TickBreaks, TickEnds, Stop
<1>3. CASE AckOrNot \/ Joined \/ Crash \/ TickBegin \/ Serve
  BY <1>3 DEF Flow, Dead, AckOrNot, Joined, Crash, TickBegin, Serve, TickEnds
<1>4. CASE Boot
  BY <1>1, <1>4 DEF Flow, Dead, Boot
<1>5. CASE Listen \/ Answer \/ AnswerTimesOut \/ ThinkEnds \/ Ask
  BY <1>5 DEF Flow, Dead, Listen, Answer, AnswerTimesOut, ThinkEnds, Ask
<1> QED  BY <1>2, <1>3, <1>4, <1>5 DEF IsolatedNext, Parent, Child

LEMMA TicksStayInOrder == PipesOK /\ TicksInOrder /\ IsolatedNext => TicksInOrder'
<1> SUFFICES ASSUME PipesOK, TicksInOrder, IsolatedNext PROVE TicksInOrder'
  OBVIOUS
<1>1. /\ tick \in Nat /\ thinking \in Nat /\ toChild \in Seq(Downward)
      /\ \A i \in DOMAIN toChild : toChild[i].n \in Nat
  <2>1. \A i \in DOMAIN toChild : toChild[i] \in Downward
    BY DEF PipesOK
  <2> QED  BY <2>1 DEF PipesOK, Downward
<1>2. ASSUME UNCHANGED <<toChild, tick, thinking>> PROVE TicksInOrder'
  BY <1>2 DEF TicksInOrder
<1>3. CASE Start
  BY <1>3 DEF TicksInOrder, Start
\* A message goes to the child.
<1>4. ASSUME NEW m \in Downward, toChild' = Append(toChild, m), tick' \in Nat, tick <= tick',
             m.type = "tick" => tick < m.n /\ m.n <= tick', UNCHANGED thinking
      PROVE  TicksInOrder'
  <2>1. /\ DOMAIN toChild' = DOMAIN toChild \cup {Len(toChild) + 1}
        /\ toChild'[Len(toChild) + 1] = m /\ DOMAIN toChild = 1 .. Len(toChild)
        /\ Len(toChild) \in Nat /\ \A i \in DOMAIN toChild : toChild'[i] = toChild[i]
    BY <1>1, <1>4, PipeAppends
  <2>2. m.n \in Nat
    BY DEF Downward
  <2>3. \A i \in DOMAIN toChild' : toChild'[i].type = "tick" =>
          thinking' < toChild'[i].n /\ toChild'[i].n <= tick'
    BY <1>1, <1>4, <2>1, <2>2 DEF TicksInOrder
  <2>4. ASSUME NEW i \in DOMAIN toChild', NEW j \in DOMAIN toChild', i < j,
               toChild'[i].type = "tick", toChild'[j].type = "tick"
        PROVE  toChild'[i].n < toChild'[j].n
    <3>1. i \in DOMAIN toChild
      BY <2>1, <2>4
    <3>2. CASE j \in DOMAIN toChild
      BY <2>1, <2>4, <3>1, <3>2 DEF TicksInOrder
    <3>3. CASE j = Len(toChild) + 1
      <4>1. toChild[i].n <= tick /\ tick < m.n /\ toChild[i].n \in Nat
        BY <1>1, <1>4, <2>1, <2>4, <3>1, <3>3 DEF TicksInOrder
      <4> QED  BY <1>1, <2>1, <2>2, <3>1, <3>3, <4>1
    <3> QED  BY <2>1, <3>2, <3>3
  <2> QED  BY <1>1, <1>4, <2>3, <2>4 DEF TicksInOrder
<1>5. CASE TickBegin
  <2>1. Msg("tick", tick + 1) \in Downward /\ Msg("tick", tick + 1).n = tick + 1
    BY <1>1, MessagesFit
  <2>2. toChild' = Append(toChild, Msg("tick", tick + 1)) /\ tick' = tick + 1 /\ UNCHANGED thinking
    BY <1>5 DEF TickBegin
  <2> QED  BY <1>1, <1>4, <2>1, <2>2
<1>6. CASE Stop
  <2>1. Msg("shutdown", 0) \in Downward /\ Msg("shutdown", 0).type # "tick"
    BY MessagesFit
  <2>2. UNCHANGED <<tick, thinking>> /\ toChild' \in {toChild, Append(toChild, Msg("shutdown", 0))}
    BY <1>6 DEF Stop
  <2> QED  BY <1>1, <1>2, <1>4, <2>1, <2>2
<1>7. CASE Serve
  <2>1. toParent # << >> /\ Head(toParent).n \in Nat
    <3>1. toParent # << >> /\ Head(toParent) \in Upward
      BY <1>7, PipeTails DEF Serve, PipesOK
    <3> QED  BY <3>1 DEF Upward
  <2>2. PICK m : m = Msg("syscall_result", Head(toParent).n)
    OBVIOUS
  <2>3. m \in Downward /\ m.type # "tick"
    BY <2>1, <2>2, MessagesFit
  <2>4. UNCHANGED <<tick, thinking>> /\ toChild' \in {toChild, Append(toChild, m)}
    BY <1>7, <2>2 DEF Serve
  <2> QED  BY <1>1, <1>2, <1>4, <2>3, <2>4
\* The child takes a message.
<1>8. ASSUME toChild # << >>, toChild' = Tail(toChild), UNCHANGED tick,
             thinking' = thinking \/ (Head(toChild).type = "tick" /\ thinking' = Head(toChild).n)
      PROVE  TicksInOrder'
  <2>1. /\ Head(toChild) = toChild[1] /\ Len(toChild) \in Nat \ {0} /\ DOMAIN toChild = 1 .. Len(toChild)
        /\ DOMAIN toChild' = 1 .. Len(toChild) - 1
        /\ \A i \in DOMAIN toChild' : toChild'[i] = toChild[i + 1]
    BY <1>1, <1>8, PipeTails
  <2>2. 1 \in DOMAIN toChild /\ \A i \in DOMAIN toChild' : i + 1 \in DOMAIN toChild /\ 1 < i + 1
    BY <2>1
  <2>3. \A i, j \in DOMAIN toChild' : i < j => i + 1 < j + 1
    BY <2>1
  <2>4. \A i \in DOMAIN toChild' : toChild'[i].type = "tick" =>
          thinking' < toChild'[i].n /\ toChild'[i].n <= tick'
    BY <1>8, <2>1, <2>2 DEF TicksInOrder
  <2>5. thinking' <= tick'
    BY <1>8, <2>1, <2>2 DEF TicksInOrder
  <2>6. \A i, j \in DOMAIN toChild' :
          i < j /\ toChild'[i].type = "tick" /\ toChild'[j].type = "tick" => toChild'[i].n < toChild'[j].n
    BY <2>1, <2>2, <2>3 DEF TicksInOrder
  <2> QED  BY <2>4, <2>5, <2>6 DEF TicksInOrder
<1>9. CASE Listen \/ Answer
  <2>1. /\ toChild # << >> /\ toChild' = Tail(toChild) /\ UNCHANGED tick
        /\ thinking' = thinking \/ (Head(toChild).type = "tick" /\ thinking' = Head(toChild).n)
    <3>1. CASE Answer
      BY <3>1 DEF Answer
    <3>2. CASE Listen
      BY <3>2 DEF Listen
    <3> QED  BY <1>9, <3>1, <3>2
  <2> QED  BY <1>8, <2>1
<1>10. CASE Started \/ StartFails \/ TickDone \/ TickTimesOut \/ TickBreaks \/ AckOrNot \/ Joined
            \/ Crash \/ Boot \/ AnswerTimesOut \/ ThinkEnds \/ Ask
  BY <1>2, <1>10 DEF Started, StartFails, TickDone, TickTimesOut, TickBreaks, AckOrNot, Joined, Crash,
     Boot, AnswerTimesOut, ThinkEnds, Ask
<1> QED  BY <1>3, <1>5, <1>6, <1>7, <1>9, <1>10 DEF IsolatedNext, Parent, Child

LEMMA EndsStayTrue == PipesOK /\ EndsAreTrue /\ IsolatedNext => EndsAreTrue'
<1> SUFFICES ASSUME PipesOK, EndsAreTrue, IsolatedNext PROVE EndsAreTrue'
  OBVIOUS
<1>1. toParent \in Seq(Upward)
  BY DEF PipesOK
<1>2. ASSUME finished \subseteq finished', toParent' = toParent PROVE EndsAreTrue'
  BY <1>2 DEF EndsAreTrue
<1>3. ASSUME NEW m \in Upward, toParent' = Append(toParent, m), finished \subseteq finished',
             m.type = "tick_done" => m.n \in finished'
      PROVE  EndsAreTrue'
  <2>1. /\ DOMAIN toParent' = DOMAIN toParent \cup {Len(toParent) + 1}
        /\ toParent'[Len(toParent) + 1] = m /\ \A i \in DOMAIN toParent : toParent'[i] = toParent[i]
    BY <1>1, <1>3, PipeAppends
  <2> QED  BY <1>3, <2>1 DEF EndsAreTrue
<1>4. ASSUME toParent # << >>, toParent' = Tail(toParent), finished \subseteq finished'
      PROVE  EndsAreTrue'
  <2>1. \A i \in DOMAIN toParent' : i + 1 \in DOMAIN toParent /\ toParent'[i] = toParent[i + 1]
    BY <1>1, <1>4, PipeTails
  <2> QED  BY <1>4, <2>1 DEF EndsAreTrue
<1>5. CASE Start
  BY <1>5 DEF Start, EndsAreTrue
<1>6. CASE Started \/ TickDone \/ Serve
  BY <1>4, <1>6 DEF Started, TickDone, Serve
<1>7. CASE AckOrNot
  BY <1>2, <1>4, <1>7 DEF AckOrNot
<1>8. CASE ThinkEnds
  <2>1. thinking \in Nat
    BY DEF PipesOK
  <2>2. \/ toParent' = Append(toParent, Msg("tick_done", thinking)) /\ finished' = finished \cup {thinking}
        \/ toParent' = Append(toParent, Msg("error", thinking)) /\ finished' = finished
    BY <1>8 DEF ThinkEnds
  <2> QED  BY <1>3, <2>1, <2>2, MessagesFit
<1>9. CASE Boot
  <2>1. toParent' \in {Append(toParent, Msg("ready", 0)), Append(toParent, Msg("error", 0))}
        /\ finished' = finished
    BY <1>9 DEF Boot
  <2> QED  BY <1>3, <2>1, MessagesFit
<1>10. CASE Ask
  <2>1. asked + 1 \in Nat
    BY DEF PipesOK
  <2>2. toParent' = Append(toParent, Msg("syscall", asked + 1)) /\ finished' = finished
    BY <1>10 DEF Ask
  <2> QED  BY <1>3, <2>1, <2>2, MessagesFit
<1>11. CASE Listen
  <2>1. toParent' \in {toParent, Append(toParent, Msg("shutdown_ack", 0))} /\ finished' = finished
    BY <1>11 DEF Listen
  <2> QED  BY <1>2, <1>3, <2>1, MessagesFit
<1>12. CASE StartFails \/ TickTimesOut \/ TickBreaks \/ Joined \/ Crash \/ Answer \/ AnswerTimesOut
            \/ TickBegin \/ Stop
  BY <1>2, <1>12 DEF StartFails, TickTimesOut, TickBreaks, Joined, Crash, Answer, AnswerTimesOut,
     TickBegin, Stop
<1> QED  BY <1>5, <1>6, <1>7, <1>8, <1>9, <1>10, <1>11, <1>12 DEF IsolatedNext, Parent, Child

\* One action changes at most one end of each pipe.
LEMMA OneStaysOne ==
  ASSUME PipesOK, Flow, EndsAreTrue, TicksInOrder, OneAtATime, IsolatedNext, PipesOK', Flow'
  PROVE  OneAtATime'
<1> SUFFICES ASSUME "tick" \notin late' PROVE OneAtATime'
  BY DEF OneAtATime
<1>1. toChild \in Seq(Downward) /\ toParent \in Seq(Upward)
  BY DEF PipesOK
<1>2. CASE Start
  BY <1>2 DEF Start, OneAtATime
<1>3. CASE ~Start
  <2> SUFFICES ASSUME "tick" \notin late PROVE OneAtATime'
    <3>1. "tick" \in late => "tick" \in late'
      BY <1>3 DEF IsolatedNext, Parent, Child, Started, StartFails, TickDone, Serve, TickTimesOut,
         TickBreaks, AckOrNot, Joined, Boot, Listen, Answer, AnswerTimesOut, ThinkEnds, Ask, Crash,
         TickBegin, Stop
    <3> QED  BY <3>1
  <2> DEFINE T == {"tick"}
  <2>1. /\ parent \in {"host", "acking", "joining"} /\ ~Dead =>
             ~Busy /\ NoneOf(toChild, T) /\ NoneOf(toParent, EndTypes)
        /\ parent = "ticking" =>
             /\ \A i \in DOMAIN toParent : toParent[i].type = "tick_done" => toParent[i].n = tick
             /\ ~Dead =>
                  \/ ~Busy /\ OneOf(toChild, T, tick) /\ NoneOf(toParent, EndTypes)
                  \/ /\ Busy /\ thinking = tick
                     /\ NoneOf(toChild, T) /\ NoneOf(toParent, EndTypes)
                  \/ ~Busy /\ NoneOf(toChild, T) /\ OneOf(toParent, EndTypes, tick)
    BY DEF OneAtATime
  <2>2. ASSUME parent' = "starting" PROVE OneAtATime'
    BY <2>2 DEF OneAtATime
  <2>3. ASSUME parent' \in {"host", "acking", "joining"},
               ~Dead' => ~Busy' /\ NoneOf(toChild', T) /\ NoneOf(toParent', EndTypes)
        PROVE  OneAtATime'
    BY <2>3 DEF OneAtATime
  <2>4. ASSUME parent' = "ticking",
               \A i \in DOMAIN toParent' : toParent'[i].type = "tick_done" => toParent'[i].n = tick',
               ~Dead' =>
                  \/ ~Busy' /\ OneOf(toChild', T, tick') /\ NoneOf(toParent', EndTypes)
                  \/ /\ Busy' /\ thinking' = tick'
                     /\ NoneOf(toChild', T) /\ NoneOf(toParent', EndTypes)
                  \/ ~Busy' /\ NoneOf(toChild', T) /\ OneOf(toParent', EndTypes, tick')
        PROVE  OneAtATime'
    BY <2>4 DEF OneAtATime
  \* What waits is not about an end, or is the end.
  <2>5. /\ Msg("tick", tick + 1) \in Downward /\ Msg("tick", tick + 1).n = tick + 1
        /\ Msg("tick", tick + 1).type = "tick"
    BY MessagesFit DEF PipesOK
  <2>6. CASE TickBegin
    <3>1. /\ parent = "host" /\ ~Dead /\ parent' = "ticking" /\ UNCHANGED <<child, toParent>>
          /\ toChild' = Append(toChild, Msg("tick", tick + 1)) /\ tick' = tick + 1
      BY <2>6 DEF TickBegin
    <3>2. OneOf(toChild', T, tick + 1)
      BY <1>1, <2>1, <2>5, <3>1, AppendCounts
    <3>3. \A i \in DOMAIN toParent' : toParent'[i].type # "tick_done"
      BY <2>1, <3>1 DEF NoneOf, EndTypes
    <3> QED  BY <2>1, <2>4, <3>1, <3>2, <3>3 DEF Busy, Dead
  <2>7. CASE Started
    <3>1. /\ parent = "starting" /\ toParent # << >> /\ toParent' = Tail(toParent)
          /\ parent' = "host" /\ UNCHANGED <<child, toChild>>
      BY <2>7 DEF Started
    <3>2. ASSUME ~Dead' PROVE child = "listening" /\ toParent = <<Msg("ready", 0)>> /\ toChild = << >>
      BY <3>1, <3>2 DEF Flow, Dead
    <3>3. ASSUME ~Dead' PROVE toParent' = << >> /\ toChild' = << >>
      BY <3>1, <3>2, <3>3
    <3> QED  BY <2>3, <3>1, <3>2, <3>3 DEF NoneOf, Busy
  <2>8. CASE StartFails \/ Joined
    BY <2>3, <2>8 DEF StartFails, Joined, Dead
  <2>9. CASE TickDone
    <3>1. /\ parent = "ticking" /\ toParent # << >> /\ toParent' = Tail(toParent)
          /\ Head(toParent).type \in EndTypes /\ parent' = "host" /\ UNCHANGED <<child, toChild>>
      BY <2>9 DEF TickDone, TickEnds, EndTypes
    <3>2. ASSUME ~Dead PROVE ~Busy /\ NoneOf(toChild, T) /\ OneOf(toParent, EndTypes, tick)
      BY <1>1, <2>1, <3>1, <3>2, TailCounts
    <3>3. ASSUME ~Dead PROVE NoneOf(toParent', EndTypes)
      BY <1>1, <3>1, <3>2, <3>3, TailCounts
    <3> QED  BY <2>3, <3>1, <3>2, <3>3 DEF Busy, Dead
  \* A system call is served, or the message at the head of the pipe is lost.
  <2>10. CASE Serve
    <3>1. /\ parent = "ticking" /\ toParent # << >> /\ toParent' = Tail(toParent)
          /\ Head(toParent).type = "syscall" /\ UNCHANGED <<child, tick, thinking>>
      BY <2>10 DEF Serve
    <3>2. CASE Dead
      BY <2>3, <2>10, <3>1, <3>2 DEF Serve, TickEnds, Dead
    <3>3. CASE ~Dead
      <4>1. PICK m : m = Msg("syscall_result", Head(toParent).n)
        OBVIOUS
      <4>2. toChild' = Append(toChild, m) /\ parent' = parent
        BY <2>10, <3>3, <4>1 DEF Serve
      <4>3. Head(toParent) \in Upward
        BY <1>1, <3>1, PipeTails
      <4>4. m \in Downward /\ m.type = "syscall_result"
        <5>1. Head(toParent).n \in Nat
          BY <4>3 DEF Upward
        <5> QED  BY <4>1, <5>1, MessagesFit
      <4>5. /\ NoneOf(toChild, T) => NoneOf(toChild', T)
            /\ OneOf(toChild, T, tick) => OneOf(toChild', T, tick)
        BY <1>1, <4>2, <4>4, AppendCounts
      <4>6. /\ NoneOf(toParent, EndTypes) => NoneOf(toParent', EndTypes)
            /\ OneOf(toParent, EndTypes, tick) => OneOf(toParent', EndTypes, tick)
        <5>1. Head(toParent).type \notin EndTypes
          BY <3>1 DEF EndTypes
        <5> QED  BY <1>1, <3>1, <5>1, TailCounts
      <4>7. \A i \in DOMAIN toParent' : toParent'[i].type = "tick_done" => toParent'[i].n = tick'
        <5>1. \A i \in DOMAIN toParent' : i + 1 \in DOMAIN toParent /\ toParent'[i] = toParent[i + 1]
          BY <1>1, <3>1, PipeTails
        <5> QED  BY <2>1, <3>1, <5>1
      <4> QED  BY <2>1, <2>4, <3>1, <3>3, <4>2, <4>5, <4>6, <4>7 DEF Busy, Dead
    <3> QED  BY <3>2, <3>3
  <2>11. CASE TickTimesOut
    BY <2>11 DEF TickTimesOut
  <2>12. CASE TickBreaks
    BY <2>3, <2>12 DEF TickBreaks, TickEnds, Dead
  <2>13. CASE Stop
    <3>1. /\ parent = "host" /\ parent' \in {"acking", "joining"} /\ UNCHANGED <<child, toParent>>
          /\ ~Dead => toChild' = Append(toChild, Msg("shutdown", 0))
      BY <2>13 DEF Stop
    <3>2. NoneOf(toChild, T) => NoneOf(Append(toChild, Msg("shutdown", 0)), T)
      <4>1. Msg("shutdown", 0) \in Downward /\ Msg("shutdown", 0).type \notin T
        BY MessagesFit
      <4> QED  BY <1>1, <4>1, AppendCounts
    <3> QED  BY <2>1, <2>3, <3>1, <3>2 DEF Busy, Dead
  <2>14. CASE AckOrNot
    <3>1. /\ parent = "acking" /\ parent' = "joining" /\ UNCHANGED <<child, toChild>>
          /\ toParent' = toParent \/ (toParent # << >> /\ toParent' = Tail(toParent))
      BY <2>14 DEF AckOrNot
    <3>2. NoneOf(toParent, EndTypes) => NoneOf(toParent', EndTypes)
      BY <1>1, <3>1, TailHasNone
    <3> QED  BY <2>1, <2>3, <3>1, <3>2 DEF Busy, Dead
  <2>15. CASE Boot
    BY <2>2, <2>15 DEF Boot, Flow
  <2>16. CASE Crash
    <3>1. /\ UNCHANGED <<parent, toChild, toParent, tick, thinking>> /\ Dead'
      BY <2>16 DEF Crash, Dead
    <3> QED  BY <2>1, <3>1, <2>2, <2>3, <2>4 DEF Flow
  \* A message to the parent.
  <2>17. ASSUME NEW m \in Upward, toParent' = Append(toParent, m), parent = "ticking",
                m.type = "tick_done" => m.n = tick, UNCHANGED tick
         PROVE  \A i \in DOMAIN toParent' : toParent'[i].type = "tick_done" => toParent'[i].n = tick'
    <3>1. /\ DOMAIN toParent' = DOMAIN toParent \cup {Len(toParent) + 1}
          /\ toParent'[Len(toParent) + 1] = m
          /\ \A i \in DOMAIN toParent : toParent'[i] = toParent[i]
      BY <1>1, <2>17, PipeAppends
    <3> QED  BY <2>1, <2>17, <3>1
  <2>18. CASE Listen
    <3> DEFINE h == Head(toChild)
    <3>1. /\ child = "listening" /\ toChild # << >> /\ toChild' = Tail(toChild) /\ UNCHANGED <<parent, tick>>
          /\ ~Dead /\ ~Busy
          /\ \/ h.type = "tick" /\ child' = "thinking" /\ thinking' = h.n /\ toParent' = toParent
             \/ h.type = "syscall_result" /\ UNCHANGED <<child, thinking, toParent>>
             \/ /\ h.type = "shutdown" /\ child' = "exited"
                /\ toParent' = Append(toParent, Msg("shutdown_ack", 0))
      BY <2>18 DEF Listen, Dead, Busy
    <3>2. parent # "starting"
      BY <3>1 DEF Flow
    <3>3. /\ NoneOf(toChild, T) => NoneOf(toChild', T) /\ h.type # "tick"
          /\ OneOf(toChild, T, tick) /\ h.type = "tick" => NoneOf(toChild', T) /\ h.n = tick
          /\ OneOf(toChild, T, tick) /\ h.type # "tick" => OneOf(toChild', T, tick)
      BY <1>1, <3>1, TailCounts
    <3> HIDE DEF h
    <3>4. CASE parent # "ticking"
      <4>1. parent' \in {"host", "acking", "joining"}
        BY <3>1, <3>2, <3>4 DEF Flow
      <4>2. ~Dead' => child' = "listening" /\ toParent' = toParent /\ NoneOf(toChild', T)
        BY <2>1, <3>1, <3>3, <4>1 DEF Dead
      <4> QED  BY <2>1, <2>3, <3>1, <4>1, <4>2 DEF Busy
    <3>5. CASE parent = "ticking"
      <4>1. \A i \in DOMAIN toParent' : toParent'[i].type = "tick_done" => toParent'[i].n = tick'
        <5>1. CASE toParent' = toParent
          BY <2>1, <3>1, <3>5, <5>1
        <5>2. CASE toParent' = Append(toParent, Msg("shutdown_ack", 0))
          <6>1. Msg("shutdown_ack", 0) \in Upward /\ Msg("shutdown_ack", 0).type # "tick_done"
            BY MessagesFit
          <6> QED  BY <2>17, <3>1, <3>5, <5>2, <6>1
        <5> QED  BY <3>1, <5>1, <5>2
      <4>2. CASE h.type = "tick"
        <5>1. child' = "thinking" /\ thinking' = h.n /\ toParent' = toParent
          BY <3>1, <4>2
        <5>2. OneOf(toChild, T, tick) /\ NoneOf(toParent, EndTypes)
          BY <2>1, <3>1, <3>3, <3>5, <4>2
        <5> QED  BY <2>4, <3>1, <3>3, <3>5, <4>1, <4>2, <5>1, <5>2 DEF Busy
      <4>3. CASE h.type = "syscall_result"
        <5>1. UNCHANGED <<child, thinking, toParent>>
          BY <3>1, <4>3
        <5>2. \/ OneOf(toChild', T, tick) /\ NoneOf(toParent, EndTypes)
              \/ NoneOf(toChild', T) /\ OneOf(toParent, EndTypes, tick)
          BY <2>1, <3>1, <3>3, <3>5, <4>3
        <5> QED  BY <2>4, <3>1, <3>5, <4>1, <5>1, <5>2 DEF Busy
      <4>4. CASE h.type = "shutdown"
        <5>1. Dead'
          BY <3>1, <4>4 DEF Dead
        <5> QED  BY <2>4, <3>1, <3>5, <4>1, <5>1
      <4> QED  BY <3>1, <4>2, <4>3, <4>4
    <3> QED  BY <3>4, <3>5
  <2>19. CASE Ask \/ Answer \/ AnswerTimesOut \/ ThinkEnds
    <3>1. /\ Busy /\ ~Dead /\ UNCHANGED <<parent, tick, thinking>>
      BY <2>19 DEF Ask, Answer, AnswerTimesOut, ThinkEnds, Busy, Dead
    <3>2. parent = "ticking" /\ thinking = tick /\ NoneOf(toChild, T) /\ NoneOf(toParent, EndTypes)
      <4>1. parent # "starting"
        BY <3>1 DEF Flow, Busy
      <4> QED  BY <2>1, <3>1, <4>1 DEF Flow
    <3>3. CASE Ask
      <4>1. /\ toChild' = toChild /\ child' = "asking" /\ toParent' = Append(toParent, Msg("syscall", asked + 1))
            /\ asked + 1 \in Nat
        BY <3>3 DEF Ask, PipesOK
      <4>2. /\ Msg("syscall", asked + 1) \in Upward /\ Msg("syscall", asked + 1).type # "tick_done"
            /\ Msg("syscall", asked + 1).type \notin EndTypes
        BY <4>1, MessagesFit DEF EndTypes
      <4>3. NoneOf(toParent', EndTypes)
        BY <1>1, <3>2, <4>1, <4>2, AppendCounts
      <4>4. \A i \in DOMAIN toParent' : toParent'[i].type = "tick_done" => toParent'[i].n = tick'
        BY <2>17, <3>1, <3>2, <4>1, <4>2
      <4> QED  BY <2>4, <3>1, <3>2, <4>1, <4>3, <4>4 DEF Busy
    <3>4. CASE Answer \/ AnswerTimesOut
      <4>1. /\ child' = "thinking" /\ toParent' = toParent
            /\ toChild' = toChild \/ (toChild # << >> /\ toChild' = Tail(toChild))
        BY <3>4 DEF Answer, AnswerTimesOut
      <4>2. NoneOf(toChild', T)
        BY <1>1, <3>2, <4>1, TailHasNone
      <4> QED  BY <2>1, <2>4, <3>1, <3>2, <4>1, <4>2 DEF Busy
    <3>5. CASE ThinkEnds
      <4>1. PICK m \in {Msg("tick_done", thinking), Msg("error", thinking)} :
              toParent' = Append(toParent, m)
        BY <3>5 DEF ThinkEnds
      <4>2. m \in Upward /\ m.type \in EndTypes /\ m.n = tick
        BY <3>2, <4>1, MessagesFit DEF PipesOK, EndTypes
      <4>3. OneOf(toParent', EndTypes, tick)
        BY <1>1, <3>2, <4>1, <4>2, AppendCounts
      <4>4. toChild' = toChild /\ child' = "listening"
        BY <3>5 DEF ThinkEnds
      <4>5. \A i \in DOMAIN toParent' : toParent'[i].type = "tick_done" => toParent'[i].n = tick'
        BY <2>17, <3>1, <3>2, <4>1, <4>2
      <4> QED  BY <2>4, <3>1, <3>2, <4>3, <4>4, <4>5 DEF Busy
    <3> QED  BY <2>19, <3>3, <3>4, <3>5
  <2> QED  BY <1>3, <2>6, <2>7, <2>8, <2>9, <2>10, <2>11, <2>12, <2>13, <2>14, <2>15, <2>16, <2>18, <2>19
           DEF IsolatedNext, Parent, Child
<1> QED  BY <1>2, <1>3

\* What one message does to an empty pipe, and two ends of a pipe of one.
LEMMA ShortPipes ==
  ASSUME NEW m
  PROVE  /\ Append(<< >>, m) = <<m>> /\ Tail(<<m>>) = << >> /\ Head(<<m>>) = m /\ <<m>> # << >>
OBVIOUS

LEMMA StepsStayInStep ==
  ASSUME PipesOK, Flow, OneAtATime, InStep, IsolatedNext, PipesOK', Flow'
  PROVE  InStep'
<1> SUFFICES ASSUME late' = {}, ~Dead', parent' # "starting" PROVE InStep'
  BY DEF InStep
<1>1. CASE Start
  BY <1>1 DEF Start
<1>2. CASE Started
  <2>1. /\ parent = "starting" /\ parent' = "host" /\ toParent # << >> /\ toParent' = Tail(toParent)
        /\ UNCHANGED <<child, toChild>>
    BY <1>2 DEF Started
  <2>2. child = "listening" /\ toParent = <<Msg("ready", 0)>> /\ toChild = << >>
    BY <2>1 DEF Flow, Dead
  <2>3. toParent' = << >>
    BY <2>1, <2>2, ShortPipes
  <2> QED  BY <2>1, <2>2, <2>3 DEF InStep
<1>3. CASE StartFails \/ TickTimesOut \/ TickBreaks \/ Joined \/ AnswerTimesOut \/ Crash
  BY <1>3 DEF StartFails, TickTimesOut, TickBreaks, Joined, AnswerTimesOut, Crash, Dead
<1>4. CASE Boot
  BY <1>4 DEF Boot, Flow
<1>5. CASE TickBegin \/ TickDone \/ Serve \/ Stop \/ AckOrNot \/ Listen \/ Answer \/ ThinkEnds \/ Ask
  <2>1. late = {} /\ ~Dead /\ parent # "starting"
    <3>1. late = {} /\ ~Dead
      BY <1>5 DEF TickBegin, TickDone, Serve, Stop, AckOrNot, Listen, Answer, ThinkEnds, Ask, Dead
    <3>2. parent # "starting"
      BY <1>5 DEF TickBegin, TickDone, Serve, Stop, AckOrNot, Listen, Answer, ThinkEnds, Ask, Flow
    <3> QED  BY <3>1, <3>2
  <2>2. CASE TickBegin
    <3>1. /\ child = "listening" /\ toChild = << >> /\ toParent = << >>
      BY <2>1, <2>2 DEF InStep, TickBegin
    <3> QED  BY <2>2, <3>1, ShortPipes DEF InStep, TickBegin
  <2>3. CASE TickDone
    <3>1. PICK type \in EndTypes : /\ child = "listening" /\ toChild = << >>
                                   /\ toParent = <<Msg(type, tick)>>
      BY <2>1, <2>3, MessagesFit, ShortPipes DEF InStep, TickDone
    <3> QED  BY <2>3, <3>1, ShortPipes DEF InStep, TickDone, TickEnds
  <2>4. CASE Serve
    <3>1. /\ child = "asking" /\ toChild = << >> /\ toParent = <<Msg("syscall", asked)>>
      BY <2>1, <2>4, MessagesFit, ShortPipes DEF InStep, Serve, EndTypes
    <3>2. Head(toParent).n = asked /\ toParent' = << >>
      BY <2>4, <3>1, MessagesFit, ShortPipes DEF Serve
    <3>3. toChild' = <<Msg("syscall_result", asked)>> /\ UNCHANGED <<parent, child, asked, tick>>
          /\ parent = "ticking"
      BY <2>1, <2>4, <3>1, <3>2, ShortPipes DEF Serve
    <3> QED  BY <3>1, <3>2, <3>3 DEF InStep
  <2>5. CASE Stop
    <3>1. /\ child = "listening" /\ toChild = << >> /\ toParent = << >>
      BY <2>1, <2>5 DEF InStep, Stop
    <3> QED  BY <2>1, <2>5, <3>1, ShortPipes DEF InStep, Stop
  <2>6. CASE AckOrNot
    <3>1. child = "listening" /\ toChild = <<Msg("shutdown", 0)>> /\ toParent = << >>
      BY <2>1, <2>6 DEF InStep, AckOrNot
    <3> QED  BY <2>6, <3>1 DEF InStep, AckOrNot
  <2>7. CASE Listen
    <3>1. child = "listening" /\ toChild # << >>
      BY <2>7 DEF Listen
    <3>2. CASE toChild = <<Msg("shutdown", 0)>>
      <4>1. Head(toChild).type = "shutdown"
        BY <3>2, MessagesFit, ShortPipes
      <4> QED  BY <2>7, <4>1 DEF Listen, Dead
    <3>3. CASE parent = "ticking" /\ toChild = <<Msg("tick", tick)>> /\ toParent = << >>
      <4>1. Head(toChild).type = "tick" /\ Tail(toChild) = << >>
        BY <3>3, MessagesFit, ShortPipes
      <4> QED  BY <2>7, <3>3, <4>1 DEF Listen, InStep
    <3> QED  BY <2>1, <3>1, <3>2, <3>3 DEF InStep
  <2>8. CASE Answer
    <3>1. parent = "ticking" /\ toChild = <<Msg("syscall_result", asked)>> /\ toParent = << >>
      BY <2>1, <2>8 DEF InStep, Answer
    <3> QED  BY <2>8, <3>1, ShortPipes DEF InStep, Answer
  <2>9. CASE ThinkEnds
    <3>1. parent = "ticking" /\ toChild = << >> /\ toParent = << >>
      BY <2>1, <2>9 DEF InStep, ThinkEnds
    <3>2. thinking = tick
      <4>1. Busy
        BY <2>9 DEF ThinkEnds, Busy
      <4> QED  BY <2>1, <3>1, <4>1 DEF OneAtATime
    <3> QED  BY <2>9, <3>1, <3>2, ShortPipes DEF InStep, ThinkEnds, EndTypes
  <2>10. CASE Ask
    <3>1. parent = "ticking" /\ toChild = << >> /\ toParent = << >>
      BY <2>1, <2>10 DEF InStep, Ask
    <3> QED  BY <2>10, <3>1, ShortPipes DEF InStep, Ask
  <2> QED  BY <1>5, <2>2, <2>3, <2>4, <2>5, <2>6, <2>7, <2>8, <2>9, <2>10
<1> QED  BY <1>1, <1>2, <1>3, <1>4, <1>5 DEF IsolatedNext, Parent, Child

LEMMA IsolatedStep == IsolatedInv /\ [IsolatedNext]_isolated => IsolatedInv'
<1> SUFFICES ASSUME IsolatedInv, [IsolatedNext]_isolated PROVE IsolatedInv'
  OBVIOUS
<1>1. CASE IsolatedNext
  BY <1>1, PipesKeep, FlowKeeps, TicksStayInOrder, EndsStayTrue, OneStaysOne, StepsStayInStep
     DEF IsolatedInv
<1>2. CASE UNCHANGED isolated
  BY <1>2 DEF isolated, IsolatedInv, PipesOK, Flow, Dead, TicksInOrder, EndsAreTrue, OneAtATime,
     InStep, NoneOf, OneOf, Busy
<1> QED  BY <1>1, <1>2

(***************************************************************************)
(* start and stop of IsolatedAgentProcess, whichever waits time out and    *)
(* whenever the child dies: no child is left running behind a host that    *)
(* has been told that it stopped, or did not start.                        *)
(***************************************************************************)
THEOREM NobodyIsOrphaned == IsolatedSpec => []NoOrphan
<1>1. IsolatedInv => NoOrphan
  BY DEF IsolatedInv, Flow, NoOrphan
<1> QED  BY <1>1, PipesStart, IsolatedStep, PTL DEF IsolatedSpec

(***************************************************************************)
(* tick_with_handler and the child's _syscall, for any number of ticks and *)
(* calls: replies that nobody numbered match what was asked, as long as    *)
(* nothing timed out, and the child never thinks for a tick twice.         *)
(***************************************************************************)
THEOREM RepliesAlwaysMatch == IsolatedSpec => RepliesMatch
<1>1. ASSUME IsolatedInv, IsolatedNext, parent = "ticking", parent' = "host", outcome' = "ok",
             "tick" \notin late
      PROVE  tick \in finished
  <2>1. TickDone
    BY <1>1 DEF IsolatedNext, Start, TickBegin, Stop, Parent, Child, Started, StartFails, Serve,
       TickTimesOut, TickBreaks, AckOrNot, Joined, Boot, Listen, Answer, AnswerTimesOut, ThinkEnds, Ask,
       Crash, TickEnds
  <2>2. toParent # << >> /\ Head(toParent).type = "tick_done"
    BY <1>1, <2>1 DEF TickDone, TickEnds
  <2>3. Head(toParent) = toParent[1] /\ 1 \in DOMAIN toParent
    <3>1. toParent \in Seq(Upward)
      BY <1>1 DEF IsolatedInv, PipesOK
    <3> QED  BY <2>2, <3>1, PipeTails
  <2>4. toParent[1].n = tick /\ toParent[1].n \in finished
    BY <1>1, <2>2, <2>3 DEF IsolatedInv, OneAtATime, EndsAreTrue
  <2> QED  BY <2>4
<1>2. ASSUME IsolatedInv, IsolatedNext, child = "asking", child' = "thinking", late = {}
      PROVE  answered' = asked
  <2>1. Answer \/ AnswerTimesOut
    BY <1>2 DEF IsolatedNext, Start, TickBegin, Stop, Parent, Child, Started, StartFails, TickDone, Serve,
       TickTimesOut, TickBreaks, AckOrNot, Joined, Boot, Listen, ThinkEnds, Ask, Crash, TickEnds
  <2>2. CASE Answer
    <3>1. toChild = <<Msg("syscall_result", asked)>>
      <4>1. parent # "starting"
        BY <1>2 DEF IsolatedInv, Flow
      <4> QED  BY <1>2, <2>2, <4>1 DEF Answer, IsolatedInv, InStep, Dead
    <3>2. Head(toChild).type = "syscall_result" /\ Head(toChild).n = asked
      BY <3>1, ShortPipes, MessagesFit
    <3> QED  BY <2>2, <3>2 DEF Answer
  <2> QED  BY <2>1, <2>2 DEF AnswerTimesOut
<1>3. ASSUME IsolatedInv, IsolatedNext, child \notin {"thinking", "asking"}, child' = "thinking"
      PROVE  thinking' > thinking
  <2>1. Listen
    BY <1>3 DEF IsolatedNext, Start, TickBegin, Stop, Parent, Child, Started, StartFails, TickDone, Serve,
       TickTimesOut, TickBreaks, AckOrNot, Joined, Boot, Answer, AnswerTimesOut, ThinkEnds, Ask, Crash, TickEnds
  <2>2. toChild # << >> /\ Head(toChild).type = "tick" /\ thinking' = Head(toChild).n
    BY <1>3, <2>1 DEF Listen
  <2>3. Head(toChild) = toChild[1] /\ 1 \in DOMAIN toChild /\ Head(toChild) \in Downward
    <3>1. toChild \in Seq(Downward)
      BY <1>3 DEF IsolatedInv, PipesOK
    <3> QED  BY <2>2, <3>1, PipeTails
  <2>4. Head(toChild).n \in Nat /\ thinking \in Nat
    BY <1>3, <2>3 DEF IsolatedInv, PipesOK, Downward
  <2>5. thinking < Head(toChild).n
    BY <1>3, <2>2, <2>3 DEF IsolatedInv, TicksInOrder
  <2> QED  BY <2>2, <2>4, <2>5
<1>4. ASSUME IsolatedInv, [IsolatedNext]_isolated
      PROVE  [/\ parent = "ticking" /\ parent' = "host" /\ outcome' = "ok" /\ "tick" \notin late
                   => tick \in finished
              /\ child = "asking" /\ child' = "thinking" /\ late = {} => answered' = asked
              /\ child \notin {"thinking", "asking"} /\ child' = "thinking"
                   => thinking' > thinking]_isolated
  BY <1>1, <1>2, <1>3, <1>4
<1> QED  BY <1>4, PipesStart, IsolatedStep, PTL DEF IsolatedSpec, RepliesMatch
=============================================================================
