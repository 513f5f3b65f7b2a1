-------------------------- MODULE SupervisorProofs --------------------------
(***************************************************************************)
(* Proofs about Supervisor, for every tree of specs, every strategy and    *)
(* every limit, and about the monitors beside it: the drift monitor, the   *)
(* contracts with the safety envelope, and the property checker.           *)
(***************************************************************************)
EXTENDS Supervisor, DriftMonitor, Contracts, PropertyChecker,
        FiniteSetTheorems, SequenceTheorems, TLAPS

-----------------------------------------------------------------------------
(* Supervisor: no agent is left without its supervisor.                     *)

IdsOK ==
  /\ live \subseteq Ids
  /\ childIds \in [Ids -> [Specs -> Numbers \cup {None}]]
  /\ spawned \subseteq live /\ todo \subseteq live

\* A supervisor remembers agents of its own specs only; before its first think(),
\* or once it is gone, it remembers nobody.
Memory ==
  /\ \A s \in Ids : s \notin live \/ s \notin spawned => childIds[s] = NoChildren
  /\ \A s \in Ids, c \in Specs : childIds[s][c] # None => c \in ChildrenOf(s[1])

\* Every agent but the root is remembered by a live supervisor.
HasParent ==
  \A i \in live : i[1] = Root \/ \E s \in live : childIds[s][i[1]] = i[2]

\* No live agent is remembered twice.
OneParent ==
  \A i, r, s \in live :
    childIds[r][i[1]] = i[2] /\ childIds[s][i[1]] = i[2] => r = s

IInv == IdsOK /\ Memory /\ HasParent /\ OneParent

-----------------------------------------------------------------------------
\* What is remembered, without pairs.
LEMMA RememberedFacts ==
  ASSUME IdsOK, NEW s \in Ids, NEW names \in SUBSET Specs, NEW i \in Ids
  PROVE  i \in Remembered(s, names) <=> i[1] \in names /\ childIds[s][i[1]] = i[2]
<1>1. i = <<i[1], i[2]>> /\ i[1] \in Specs /\ i[2] \in Numbers
  BY DEF Ids
<1>2. i[2] # None
  BY <1>1, NumbersAssumption
<1>3. ASSUME i \in Remembered(s, names)
      PROVE  i[1] \in names /\ childIds[s][i[1]] = i[2]
  BY <1>3 DEF Remembered
<1>4. ASSUME i[1] \in names, childIds[s][i[1]] = i[2]
      PROVE  i \in Remembered(s, names)
  BY <1>1, <1>2, <1>4 DEF Remembered
<1>. QED  BY <1>3, <1>4

\* Whoever goes down takes along those it remembers.
LEMMA DownToFacts ==
  ASSUME NEW T
  PROVE  /\ DownTo(T) \subseteq live
         /\ T \cap live \subseteq DownTo(T)
         /\ \A s \in DownTo(T) : Remembered(s, Specs) \cap live \subseteq DownTo(T)
BY DEF DownTo

\* A supervisor does not go down with its children.
LEMMA NotItsOwnChild ==
  ASSUME IInv, NEW s \in live, NEW names \in SUBSET Specs
  PROVE  s \notin DownTo(Remembered(s, names))
<1>1. PICK depth \in [Specs -> 0 .. Cardinality(Specs)] :
         \A n \in Specs : \A c \in ChildrenOf(n) : depth[n] < depth[c]
  BY TreeAssumption
<1>2. Cardinality(Specs) \in Nat
  BY SpecsAssumption, FS_CardinalityType
<1>3. \A n \in Specs : depth[n] \in Nat
  BY <1>1, <1>2
<1> DEFINE S == {i \in live : depth[s[1]] < depth[i[1]]}
<1>4. \A i \in live : i \in Ids /\ i[1] \in Specs
  BY DEF IInv, IdsOK, Ids
<1>5. \A r \in live, i \in live, N \in SUBSET Specs :
         i \in Remembered(r, N) => i[1] \in ChildrenOf(r[1]) /\ depth[r[1]] < depth[i[1]]
  <2> TAKE r \in live, i \in live, N \in SUBSET Specs
  <2> HAVE i \in Remembered(r, N)
  <2>1. childIds[r][i[1]] = i[2]
    BY <1>4, RememberedFacts DEF IInv
  <2>2. i[2] # None
    BY <1>4, NumbersAssumption DEF Ids
  <2>3. i[1] \in ChildrenOf(r[1])
    BY <2>1, <2>2, <1>4 DEF IInv, Memory
  <2> QED  BY <2>3, <1>1, <1>4
<1>6. Remembered(s, names) \cap live \subseteq S
  BY <1>5
<1>7. \A r \in S : Remembered(r, Specs) \cap live \subseteq S
  <2> SUFFICES ASSUME NEW r \in S, NEW i \in Remembered(r, Specs) \cap live PROVE i \in S
    OBVIOUS
  <2>1. depth[s[1]] < depth[r[1]] /\ depth[r[1]] < depth[i[1]]
    BY <1>5
  <2>2. depth[s[1]] \in Nat /\ depth[r[1]] \in Nat /\ depth[i[1]] \in Nat
    BY <1>3, <1>4
  <2> QED  BY <2>1, <2>2
<1>8. S \in SUBSET live
  OBVIOUS
<1>9. s \notin S
  BY <1>3, <1>4
<1> QED  BY <1>6, <1>7, <1>8, <1>9 DEF DownTo

-----------------------------------------------------------------------------
LEMMA Initially == Init => IInv
<1> SUFFICES ASSUME Init PROVE IInv
  OBVIOUS
<1> USE DEF Init
<1>1. <<Root, 0>> \in Ids
  BY SpecsAssumption, NumbersAssumption DEF Ids
<1>2. NoChildren \in [Specs -> Numbers \cup {None}] /\ \A c \in Specs : NoChildren[c] = None
  BY DEF NoChildren
<1>3. IdsOK
  BY <1>1, <1>2 DEF IdsOK
<1>4. Memory
  BY <1>2 DEF Memory
<1>5. HasParent
  BY <1>1 DEF HasParent
<1>6. OneParent
  BY <1>1 DEF OneParent
<1> QED  BY <1>3, <1>4, <1>5, <1>6 DEF IInv

\* Agents go with everything below them.
LEMMA GoneStep ==
  ASSUME IInv, NEW Gone \in SUBSET live, NEW i \in Gone,
         \A s \in Gone : Remembered(s, Specs) \cap live \subseteq Gone,
         Replace(Gone, {}, i, NoChildren, NoRestarts),
         spawned' = spawned \ Gone, todo' = todo \ Gone
  PROVE  IInv'
<1> USE DEF IInv
<1>1. live' = live \ Gone
  BY DEF Replace
<1>2. NoChildren \in [Specs -> Numbers \cup {None}] /\ \A c \in Specs : NoChildren[c] = None
  BY DEF NoChildren
<1>3. \A j \in Ids : childIds'[j] = IF j \in Gone THEN NoChildren ELSE childIds[j]
  BY DEF Replace
<1>4. IdsOK'
  <2>1. childIds' \in [Ids -> [Specs -> Numbers \cup {None}]]
    BY <1>2 DEF IdsOK, Replace
  <2> QED  BY <2>1, <1>1 DEF IdsOK
<1>5. Memory'
  BY <1>1, <1>2, <1>3 DEF Memory, IdsOK
<1>6. HasParent'
  <2> SUFFICES ASSUME NEW j \in live', j[1] # Root
               PROVE  \E s \in live' : childIds'[s][j[1]] = j[2]
    BY DEF HasParent
  <2>1. j \in live \ Gone /\ j \in Ids /\ j[1] \in Specs
    BY <1>1 DEF IdsOK, Ids
  <2>2. PICK s \in live : childIds[s][j[1]] = j[2]
    BY <2>1 DEF HasParent
  <2>3. s \notin Gone
    BY <2>1, <2>2, RememberedFacts DEF IdsOK
  <2> QED  BY <2>2, <2>3, <1>1, <1>3 DEF IdsOK
<1>7. OneParent'
  BY <1>1, <1>3 DEF OneParent, IdsOK
<1> QED  BY <1>4, <1>5, <1>6, <1>7

\* A supervisor gets new children in the place of those that are gone.
LEMMA SpawnStep ==
  ASSUME IInv, NEW s \in live, NEW names \in SUBSET ChildrenOf(s[1]), NEW Broken,
         NEW Gone \in SUBSET live, NEW kept \in [Specs -> Numbers \cup {None}],
         NEW newRestarts,
         SpawnChildren(s, names, Broken, Gone, kept, newRestarts),
         s \notin Gone,
         \A r \in Gone : Remembered(r, Specs) \cap live \subseteq Gone,
         \A i \in live : i[1] \in names /\ childIds[s][i[1]] = i[2] => i \in Gone,
         \A c \in Specs : kept[c] = None \/ kept[c] = childIds[s][c],
         \A i \in live : childIds[s][i[1]] = i[2] /\ i[1] \notin names => kept[i[1]] = i[2],
         spawned' = (spawned \ Gone) \cup {s}, todo' = todo \ ({s} \cup Gone)
  PROVE  IInv'
<1> DEFINE names1 == names \ Broken
<1>1. PICK number \in [names1 -> Numbers] :
         /\ \A c \in names1 : number[c] \in Unused(c)
         /\ Replace(Gone, {<<c, number[c]>> : c \in names1}, s,
              [c \in Specs |-> IF c \in names1 THEN number[c]
                               ELSE IF c \in names THEN None ELSE kept[c]], newRestarts)
  BY DEF SpawnChildren
<1> DEFINE New == {<<c, number[c]>> : c \in names1}
           newIds == [c \in Specs |-> IF c \in names1 THEN number[c]
                               ELSE IF c \in names THEN None ELSE kept[c]]
<1>2. live' = (live \ Gone) \cup New
  BY <1>1 DEF Replace
<1>3. \A j \in Ids : childIds'[j] = IF j \in Gone THEN NoChildren
                                    ELSE IF j = s THEN newIds ELSE childIds[j]
  BY <1>1 DEF Replace
<1>4. NoChildren \in [Specs -> Numbers \cup {None}] /\ \A c \in Specs : NoChildren[c] = None
  BY DEF NoChildren
<1>5. s \in Ids /\ s[1] \in Specs /\ ChildrenOf(s[1]) \subseteq Specs
  BY SpecsAssumption DEF IInv, IdsOK, Ids, ChildrenOf
<1>6. \A c \in names1 : c \in Specs /\ number[c] \in Numbers /\ number[c] # None
                        /\ <<c, number[c]>> \in Ids \ live
                        /\ \A r \in live : childIds[r][c] # number[c]
  BY <1>1, <1>5, NumbersAssumption DEF Unused, Ids
<1>7. \A i \in New : i \in Ids \ live /\ i[1] \in names1 /\ i[2] = number[i[1]]
  BY <1>6
<1>8. newIds \in [Specs -> Numbers \cup {None}]
  BY <1>6
<1>9. IdsOK'
  <2>1. childIds' \in [Ids -> [Specs -> Numbers \cup {None}]]
    BY <1>1, <1>4, <1>8 DEF IInv, IdsOK, Replace
  <2>2. live' \subseteq Ids
    BY <1>2, <1>7 DEF IInv, IdsOK
  <2> QED  BY <2>1, <2>2, <1>2 DEF IInv, IdsOK
\* New agents remember nobody.
<1>10. \A i \in New : childIds'[i] = NoChildren
  BY <1>3, <1>7 DEF IInv, Memory
<1>11. \A c \in Specs : newIds[c] # None => c \in ChildrenOf(s[1])
  BY <1>5 DEF IInv, Memory
<1>12. Memory'
  <2>1. ASSUME NEW r \in Ids, r \notin live' \/ r \notin spawned' PROVE childIds'[r] = NoChildren
    BY <2>1, <1>2, <1>3, <1>10 DEF IInv, IdsOK, Memory
  <2>2. ASSUME NEW r \in Ids, NEW c \in Specs, childIds'[r][c] # None PROVE c \in ChildrenOf(r[1])
    BY <2>2, <1>3, <1>4, <1>11 DEF IInv, Memory
  <2> QED  BY <2>1, <2>2 DEF Memory
\* A child that stays is remembered as before, by its supervisor only.
<1>13. \A i \in live \ Gone, r \in live' :
          childIds'[r][i[1]] = i[2] <=> r \in live \ Gone /\ childIds[r][i[1]] = i[2]
  <2> TAKE i \in live \ Gone, r \in live'
  <2>1. i \in Ids /\ i[1] \in Specs /\ i[2] \in Numbers /\ i[2] # None
    BY NumbersAssumption DEF IInv, IdsOK, Ids
  <2>2. CASE r \in New
    BY <2>1, <2>2, <1>4, <1>7, <1>10
  <2>3. CASE r \in live \ Gone /\ r # s
    BY <2>3, <1>3 DEF IInv, IdsOK
  <2>4. CASE r = s
    <3>1. childIds'[s] = newIds
      BY <1>3, <1>5
    <3>2. CASE i[1] \in names1
      <4>1. i = <<i[1], i[2]>>
        BY <2>1 DEF Ids
      <4>2. newIds[i[1]] # i[2]
        BY <3>2, <4>1, <2>1, <1>6
      <4>3. childIds[s][i[1]] # i[2]
        BY <3>2
      <4> QED  BY <4>2, <4>3, <3>1, <2>4
    <3>3. CASE i[1] \in names \ names1
      BY <3>1, <3>3, <2>1, <2>4
    <3>4. CASE i[1] \notin names
      BY <3>1, <3>4, <2>1, <2>4
    <3> QED  BY <3>2, <3>3, <3>4
  <2> QED  BY <2>2, <2>3, <2>4, <1>2
\* A new child is remembered by the supervisor.
<1>14. \A i \in New, r \in live' : childIds'[r][i[1]] = i[2] <=> r = s
  <2> TAKE i \in New, r \in live'
  <2>1. i[1] \in names1 /\ i[1] \in Specs /\ i[2] = number[i[1]] /\ i[2] # None
    BY <1>6, <1>7
  <2>2. CASE r \in New
    BY <2>1, <2>2, <1>4, <1>7, <1>10
  <2>3. CASE r \in live \ Gone /\ r # s
    <3>1. r \in Ids /\ childIds'[r] = childIds[r]
      BY <2>3, <1>3 DEF IInv, IdsOK
    <3>2. childIds[r][i[1]] # number[i[1]]
      BY <2>1, <2>3, <1>6
    <3> QED  BY <2>1, <2>3, <3>1, <3>2
  <2>4. CASE r = s
    BY <2>1, <2>4, <1>3, <1>5
  <2> QED  BY <2>2, <2>3, <2>4, <1>2
<1>15. HasParent'
  <2> SUFFICES ASSUME NEW i \in live', i[1] # Root
               PROVE  \E r \in live' : childIds'[r][i[1]] = i[2]
    BY DEF HasParent
  <2>1. CASE i \in New
    BY <2>1, <1>2, <1>14
  <2>2. CASE i \in live \ Gone
    <3>1. i \in Ids /\ i[1] \in Specs
      BY <2>2 DEF IInv, IdsOK, Ids
    <3>2. PICK r \in live : childIds[r][i[1]] = i[2]
      BY <2>2 DEF IInv, HasParent
    <3>3. r \notin Gone
      BY <2>2, <3>1, <3>2, RememberedFacts DEF IInv, IdsOK
    <3> QED  BY <2>2, <3>2, <3>3, <1>2, <1>13
  <2> QED  BY <2>1, <2>2, <1>2
<1>16. OneParent'
  <2> SUFFICES ASSUME NEW i \in live', NEW r \in live', NEW t \in live',
                      childIds'[r][i[1]] = i[2], childIds'[t][i[1]] = i[2]
               PROVE  r = t
    BY DEF OneParent
  <2>1. CASE i \in New
    BY <2>1, <1>14
  <2>2. CASE i \in live \ Gone
    BY <2>2, <1>13 DEF IInv, OneParent
  <2> QED  BY <2>1, <2>2, <1>2
<1> QED  BY <1>9, <1>12, <1>15, <1>16 DEF IInv

LEMMA Step == IInv /\ [Next]_vars => IInv'
<1> SUFFICES ASSUME IInv, [Next]_vars PROVE IInv'
  OBVIOUS
<1>1. CASE TickBegin
  BY <1>1 DEF TickBegin, Supervisors, IInv, IdsOK, Memory, HasParent, OneParent
<1>2. ASSUME NEW i \in Ids, Exit(i) \/ Escalate(i) PROVE IInv'
  <2>1. PICK Gone : Gone = DownTo({i})
    OBVIOUS
  <2>2. i \in live
    BY <1>2 DEF Exit, Escalate, IInv, IdsOK
  <2>3. Gone \in SUBSET live /\ i \in Gone
        /\ \A s \in Gone : Remembered(s, Specs) \cap live \subseteq Gone
    BY <2>1, <2>2, DownToFacts
  <2>4. Replace(Gone, {}, i, NoChildren, NoRestarts)
        /\ spawned' = spawned \ Gone /\ todo' = todo \ Gone
    BY <1>2, <2>1 DEF Exit, Escalate
  <2> QED  BY <2>3, <2>4, GoneStep
<1>3. ASSUME NEW s \in Ids, FirstThink(s) PROVE IInv'
  <2>1. PICK Broken, newRestarts :
          SpawnChildren(s, ChildrenOf(s[1]), Broken, {}, NoChildren, newRestarts)
    BY <1>3 DEF FirstThink
  <2>2. s \in live /\ childIds[s] = NoChildren
    BY <1>3 DEF FirstThink, IInv, IdsOK, Memory
  <2>3. /\ NoChildren \in [Specs -> Numbers \cup {None}]
        /\ \A c \in Specs : NoChildren[c] = None
    BY DEF NoChildren
  <2>4. \A i \in live : childIds[s][i[1]] # i[2]
    <3> TAKE i \in live
    <3>1. i \in Specs \X Numbers
      BY DEF IInv, IdsOK, Ids
    <3>2. i[1] \in Specs /\ i[2] # None
      BY <3>1, NumbersAssumption
    <3> QED  BY <2>2, <2>3, <3>2
  <2>5. spawned' = (spawned \ {}) \cup {s} /\ todo' = todo \ ({s} \cup {})
    BY <1>3 DEF FirstThink
  <2> QED  BY <2>1, <2>2, <2>3, <2>4, <2>5, SpawnStep
<1>4. ASSUME NEW s \in Ids, Watch(s) PROVE IInv'
  <2>1. /\ \A r \in Ids : childIds'[r] = IF r = s THEN Kept(s) ELSE childIds[r]
        /\ childIds' \in [Ids -> [Specs -> Numbers \cup {None}]]
        /\ \A c \in Specs : childIds'[s][c] = IF c \in Down(s) THEN None ELSE childIds[s][c]
    BY <1>4 DEF Watch, Kept, IInv, IdsOK
  <2>2. live' = live /\ spawned' = spawned /\ todo' \subseteq todo /\ s \in live /\ s \in spawned
    BY <1>4 DEF Watch, IInv, IdsOK
  <2>3. \A i \in live, r \in live : childIds'[r][i[1]] = i[2] <=> childIds[r][i[1]] = i[2]
    <3> TAKE i \in live, r \in live
    <3>1. i = <<i[1], i[2]>> /\ i[1] \in Specs /\ i[2] # None /\ r \in Ids
      <4>1. i \in Specs \X Numbers /\ r \in Ids
        BY DEF IInv, IdsOK, Ids
      <4>2. i[2] # None
        BY <4>1, NumbersAssumption
      <4> QED  BY <4>1, <4>2
    <3>2. childIds[s][i[1]] = i[2] => i[1] \notin Down(s)
      BY <3>1 DEF Down, Up
    <3> QED  BY <2>1, <3>1, <3>2
  <2>4. IdsOK'
    BY <2>1, <2>2 DEF IInv, IdsOK
  <2>5. Memory'
    BY <2>1, <2>2 DEF IInv, Memory
  <2> QED  BY <2>2, <2>3, <2>4, <2>5 DEF IInv, HasParent, OneParent
<1>5. ASSUME NEW s \in Ids, Restart(s) PROVE IInv'
  <2>1. PICK Gone, names, kept : /\ Gone = DownTo(Remembered(s, ToRestart(s)))
                                 /\ names = ToRestart(s) /\ kept = Kept(s)
    OBVIOUS
  <2>2. PICK Broken, newRestarts : SpawnChildren(s, names, Broken, Gone, kept, newRestarts)
    BY <1>5, <2>1 DEF Restart
  <2>3. spawned' = spawned \ Gone /\ todo' = todo \ ({s} \cup Gone)
    BY <1>5, <2>1 DEF Restart
  <2>4. s \in live /\ s \in spawned /\ s[1] \in Specs
    BY <1>5 DEF Restart, IInv, IdsOK, Ids
  <2>5. names \subseteq ChildrenOf(s[1]) /\ ChildrenOf(s[1]) \subseteq Specs
    BY <2>1, <2>4, SpecsAssumption DEF ToRestart, ChildrenOf
  <2>6. s \notin Gone
    BY <2>1, <2>4, <2>5, NotItsOwnChild
  <2>7. Gone \in SUBSET live /\ \A r \in Gone : Remembered(r, Specs) \cap live \subseteq Gone
    BY <2>1, DownToFacts
  <2>8. \A i \in live : i[1] \in names /\ childIds[s][i[1]] = i[2] => i \in Gone
    <3>1. Remembered(s, names) \cap live \subseteq Gone
      BY <2>1, DownToFacts
    <3> QED  BY <3>1, <2>5, RememberedFacts DEF IInv, IdsOK
  <2>9. /\ kept \in [Specs -> Numbers \cup {None}]
        /\ \A c \in Specs : kept[c] = IF c \in Down(s) THEN None ELSE childIds[s][c]
    BY <2>1 DEF Kept, IInv, IdsOK
  <2>10. \A i \in live : childIds[s][i[1]] = i[2] => kept[i[1]] = i[2]
    <3> TAKE i \in live
    <3>1. i = <<i[1], i[2]>> /\ i[1] \in Specs
      BY DEF IInv, IdsOK, Ids
    <3>2. childIds[s][i[1]] = i[2] => i[1] \notin Down(s)
      BY <3>1 DEF Down, Up
    <3> QED  BY <2>9, <3>1, <3>2
  <2>11. spawned' = (spawned \ Gone) \cup {s}
    BY <2>3, <2>4, <2>6
  <2> QED  BY <2>2, <2>3, <2>4, <2>5, <2>6, <2>7, <2>8, <2>9, <2>10, <2>11, SpawnStep
<1>6. CASE UNCHANGED vars
  BY <1>6 DEF vars, IInv, IdsOK, Memory, HasParent, OneParent
<1> QED  BY <1>1, <1>2, <1>3, <1>4, <1>5, <1>6 DEF Next, Think

\* Whatever tree of supervisors there is, whichever agents are killed and
\* whichever spawns fail: every live agent but the root is remembered by exactly
\* one live supervisor, which will look after it.
THEOREM NeverOrphaned == Spec => []NoOrphans
<1>1. IInv => NoOrphans
  <2> SUFFICES ASSUME IInv, NEW i \in live PROVE NoOrphans!(i)
    BY DEF NoOrphans
  <2>1. live \subseteq Ids /\ i \in Ids /\ i[1] \in Specs /\ i[2] # None
    BY NumbersAssumption DEF IInv, IdsOK, Ids
  <2>2. \A s \in live : i \in Remembered(s, Specs) <=> childIds[s][i[1]] = i[2]
    BY <2>1, RememberedFacts DEF IInv
  <2>3. \A s \in live : childIds[s][i[1]] = i[2] => i[1] \in ChildrenOf(s[1])
    BY <2>1 DEF IInv, Memory
  <2>4. \A s \in live : i \in Remembered(s, ChildrenOf(s[1])) <=> childIds[s][i[1]] = i[2]
    <3> TAKE s \in live
    <3>1. ChildrenOf(s[1]) \in SUBSET Specs
      BY <2>1, SpecsAssumption DEF ChildrenOf, Ids
    <3> QED  BY <3>1, <2>1, <2>3, RememberedFacts DEF IInv
  <2>5. CASE i[1] = Root
    BY <2>1, <2>2, <2>3, <2>5, SpecsAssumption DEF Ids
  <2>6. CASE i[1] # Root
    BY <2>1, <2>2, <2>4, <2>6 DEF IInv, HasParent, OneParent
  <2> QED  BY <2>5, <2>6
<1> QED  BY Initially, Step, <1>1, PTL DEF Spec

-----------------------------------------------------------------------------
(* Supervisor: a restart replaces what the strategy names.                  *)

StrategiesOK == strategy \in [Specs -> Strategies]

LEMMA StrategiesStay == StrategiesOK /\ [Next]_vars => StrategiesOK'
<1> SUFFICES ASSUME [Next]_vars PROVE strategy' = strategy
  BY DEF StrategiesOK
<1> QED  BY DEF Next, TickBegin, Think, FirstThink, Watch, Restart, Escalate, Exit, vars

\* What a child's number becomes when its supervisor restarts.
LEMMA RestartedChildren ==
  ASSUME IInv, NEW s \in Ids, Restart(s), s \in spawned',
         NEW c \in ChildrenOf(s[1]), Up(s, c)
  PROVE  (childIds'[s][c] # childIds[s][c]) <=> c \in ToRestart(s)
<1> DEFINE names == ToRestart(s)
           Gone == DownTo(Remembered(s, ToRestart(s)))
<1>1. PICK Broken, newRestarts :
        SpawnChildren(s, names, Broken, Gone, Kept(s), newRestarts) /\ spawned' = spawned \ Gone
  BY DEF Restart
<1> HIDE DEF names, Gone
<1>2. PICK number \in [names \ Broken -> Numbers] :
         /\ \A n \in names \ Broken : number[n] \in Unused(n)
         /\ childIds' = [i \in Ids |->
              IF i \in Gone THEN NoChildren
              ELSE IF i = s THEN [n \in Specs |-> IF n \in names \ Broken THEN number[n]
                                                  ELSE IF n \in names THEN None ELSE Kept(s)[n]]
              ELSE childIds[i]]
  BY <1>1 DEF SpawnChildren, Replace
<1>3. s \notin Gone /\ s \in live /\ s[1] \in Specs /\ c \in Specs
  <2>1. s \notin Gone
    BY <1>1
  <2>2. s \in live /\ s[1] \in Specs
    BY DEF Restart, IInv, IdsOK, Ids
  <2> QED  BY <2>1, <2>2, SpecsAssumption DEF ChildrenOf
<1>4. childIds'[s][c] = IF c \in names \ Broken THEN number[c]
                        ELSE IF c \in names THEN None ELSE Kept(s)[c]
  BY <1>2, <1>3
<1>5. Kept(s)[c] = childIds[s][c] /\ childIds[s][c] # None
  BY <1>3 DEF Kept, Down, Up
<1>6. c \in names \ Broken => number[c] # childIds[s][c]
  BY <1>2, <1>3 DEF Unused
<1>7. (childIds'[s][c] # childIds[s][c]) <=> c \in names
  BY <1>4, <1>5, <1>6
<1> QED  BY <1>7 DEF names

(***************************************************************************)
(* For every tree, every strategy and every choice of failing spawns: a    *)
(* supervisor that goes on replaces exactly the children its strategy      *)
(* names.                                                                  *)
(***************************************************************************)
THEOREM StrategiesAreKept == Spec => StrategyKept
<1> DEFINE Kept1(s, c) ==
      (childIds'[s][c] # childIds[s][c])
        <=> /\ Crashed(s) # {}
            /\ CASE strategy[s[1]] = "ONE_FOR_ONE" -> FALSE
                 [] strategy[s[1]] = "ONE_FOR_ALL" -> TRUE
                 [] OTHER -> \E b \in Crashed(s) : Place(s, b) < Place(s, c)
<1>1. ASSUME IInv, StrategiesOK, Next, NEW s \in spawned \cap spawned', s \in todo \ todo',
             NEW c \in ChildrenOf(s[1]), Up(s, c)
      PROVE  Kept1(s, c)
  <2>1. s \in Ids /\ s \in live /\ s[1] \in Specs
    BY <1>1 DEF IInv, IdsOK, Ids
  <2>2. Watch(s) \/ Restart(s)
    <3>1. ~TickBegin
      BY <1>1 DEF TickBegin
    <3>2. ASSUME NEW i \in Ids, Exit(i) \/ Escalate(i) PROVE FALSE
      BY <1>1, <3>2 DEF Exit, Escalate
    <3>3. ASSUME NEW i \in Ids, FirstThink(i) PROVE FALSE
      BY <1>1, <3>3 DEF FirstThink
    <3>4. ASSUME NEW i \in Ids, Watch(i) \/ Restart(i) PROVE i = s
      BY <1>1, <3>4 DEF Watch, Restart
    <3> QED  BY <1>1, <3>1, <3>2, <3>3, <3>4 DEF Next, Think
  <2>3. CASE Watch(s)
    <3>1. Crashed(s) = {} /\ childIds'[s] = Kept(s)
      BY <1>1, <2>1, <2>3 DEF Watch, IInv, IdsOK
    <3>2. c \in Specs
      BY <2>1, SpecsAssumption DEF ChildrenOf
    <3>3. Kept(s)[c] = childIds[s][c]
      BY <1>1, <3>2 DEF Kept, Down
    <3> QED  BY <3>1, <3>3
  <2>4. CASE Restart(s)
    <3>1. (childIds'[s][c] # childIds[s][c]) <=> c \in ToRestart(s)
      BY <1>1, <2>1, <2>4, RestartedChildren
    <3>2. Crashed(s) # {} /\ c \notin Crashed(s)
      BY <1>1, <2>4 DEF Restart, Crashed, Down
    <3>3. strategy[s[1]] \in {"ONE_FOR_ONE", "ONE_FOR_ALL", "REST_FOR_ONE"}
      BY <1>1, <2>1 DEF StrategiesOK, Strategies
    <3>4. c \in ToRestart(s)
            <=> \/ strategy[s[1]] = "ONE_FOR_ALL"
                \/ /\ strategy[s[1]] = "REST_FOR_ONE"
                   /\ \E b \in Crashed(s) : Place(s, b) < Place(s, c)
      BY <1>1, <3>2 DEF ToRestart
    <3>5. CASE strategy[s[1]] = "ONE_FOR_ONE"
      BY <3>1, <3>2, <3>4, <3>5
    <3>6. CASE strategy[s[1]] = "ONE_FOR_ALL"
      BY <3>1, <3>2, <3>4, <3>6
    <3>7. CASE strategy[s[1]] = "REST_FOR_ONE"
      BY <3>1, <3>2, <3>4, <3>7
    <3> QED  BY <3>3, <3>5, <3>6, <3>7
  <2> QED  BY <2>2, <2>3, <2>4
<1>2. IInv /\ StrategiesOK /\ [Next]_vars =>
        [\A s \in spawned \cap spawned' : \A c \in ChildrenOf(s[1]) :
           Up(s, c) /\ s \in todo \ todo' => Kept1(s, c)]_vars
  BY <1>1
<1>3. Init => StrategiesOK
  BY DEF Init, StrategiesOK
<1> QED  BY Initially, Step, StrategiesStay, <1>2, <1>3, PTL DEF Spec, StrategyKept


-----------------------------------------------------------------------------
(* DriftMonitor: a check that is due is on its way.                         *)

Stages == {"idle", "counting", "due", "computing", "building", "scoring"}

DriftTypes ==
  /\ ticks \in [Monitored -> Nat] /\ lastCheck \in [Monitored -> Nat]
  /\ checked \in [Monitored -> Nat]
  /\ pc \in [Threads -> Stages] /\ at \in [Threads -> Nat]
  /\ of \in [Threads -> Monitored \cup {Unknown}]
  /\ rest \in [Threads -> SUBSET Monitored]
  /\ registered \subseteq Monitored
  /\ \A t \in Threads : pc[t] # "idle" => of[t] \in Monitored

\* A check of a for tick n or later is running.
Running(t, a, n) == of[t] = a /\ pc[t] \in {"computing", "building", "scoring"} /\ n <= at[t]

\* What _last_check_tick says was checked, or is being checked.
Stamped(a) == lastCheck[a] <= checked[a] \/ \E t \in Threads : Running(t, a, lastCheck[a])

\* Ticks that no check has seen are few, or a check of them is due or running.
Covers(t, a) == of[t] = a /\ pc[t] \in Stages \ {"idle", "counting"} /\ ticks[a] < at[t] + Interval

Covered(a) == ticks[a] < checked[a] + Interval \/ \E t \in Threads : Covers(t, a)

DriftInv == DriftTypes /\ \A a \in Monitored : Stamped(a) /\ Covered(a)

LEMMA LaterFacts ==
  ASSUME NEW m \in Nat, NEW n \in Nat
  PROVE  Later(m, n) \in Nat /\ m <= Later(m, n) /\ n <= Later(m, n)
BY DEF Later

LEMMA DriftStarts == DriftMonitorAssumption /\ DriftInit => DriftInv
BY DEF DriftMonitorAssumption, DriftInit, DriftInv, DriftTypes, Stages, Stamped, Covered

\* A thread whose check is not for the agent, or no check, supports no claim about it.
LEMMA OthersStay ==
  ASSUME DriftMonitorAssumption, DriftInv, DriftTypes', NEW a \in Monitored,
         ticks'[a] = ticks[a], lastCheck'[a] = lastCheck[a], checked[a] <= checked'[a],
         \A t \in Threads : of[t] = a /\ pc[t] \in Stages \ {"idle", "counting"} =>
           \/ of'[t] = a /\ at'[t] = at[t] /\ pc'[t] = pc[t]
           \/ /\ of'[t] = a /\ at'[t] = at[t]
              /\ pc[t] \in {"computing", "building", "scoring"}
              /\ pc'[t] \in {"computing", "building", "scoring"}
           \/ at[t] <= checked'[a]
  PROVE  Stamped(a)' /\ Covered(a)'
<1>1. /\ ticks[a] \in Nat /\ lastCheck[a] \in Nat /\ checked[a] \in Nat /\ checked'[a] \in Nat
      /\ Interval \in Nat /\ \A t \in Threads : at[t] \in Nat
  BY DEF DriftInv, DriftTypes, DriftMonitorAssumption
<1>2. Stamped(a)'
  <2>1. CASE lastCheck[a] <= checked[a]
    <3>1. lastCheck'[a] <= checked'[a]
      BY <1>1, <2>1
    <3> QED  BY <3>1 DEF Stamped
  <2>2. ASSUME NEW t \in Threads, Running(t, a, lastCheck[a]) PROVE Stamped(a)'
    <3>1. of[t] = a /\ lastCheck[a] <= at[t] /\ pc[t] \in {"computing", "building", "scoring"}
      BY <2>2 DEF Running
    <3>2. CASE at[t] <= checked'[a]
      <4>1. lastCheck'[a] <= checked'[a]
        BY <1>1, <3>1, <3>2
      <4> QED  BY <4>1 DEF Stamped
    <3>3. CASE of'[t] = a /\ at'[t] = at[t] /\ pc'[t] \in {"computing", "building", "scoring"}
      BY <3>1, <3>3 DEF Running, Stamped
    <3> QED  BY <3>1, <3>2, <3>3 DEF Stages
  <2> QED  BY <2>1, <2>2 DEF DriftInv, Stamped
<1>3. Covered(a)'
  <2>1. CASE ticks[a] < checked[a] + Interval
    <3>1. ticks'[a] < checked'[a] + Interval
      BY <1>1, <2>1
    <3> QED  BY <3>1 DEF Covered
  <2>2. ASSUME NEW t \in Threads, Covers(t, a) PROVE Covered(a)'
    <3>1. of[t] = a /\ ticks[a] < at[t] + Interval /\ pc[t] \in Stages \ {"idle", "counting"}
      BY <2>2 DEF Covers
    <3>2. CASE at[t] <= checked'[a]
      <4>1. ticks'[a] < checked'[a] + Interval
        BY <1>1, <3>1, <3>2
      <4> QED  BY <4>1 DEF Covered
    <3>3. CASE of'[t] = a /\ at'[t] = at[t] /\ pc'[t] \in Stages \ {"idle", "counting"}
      BY <3>1, <3>3 DEF Covers, Covered
    <3> QED  BY <3>1, <3>2, <3>3 DEF Stages
  <2> QED  BY <2>1, <2>2 DEF DriftInv, Covered
<1> QED  BY <1>2, <1>3


\* What the end of a check, with or without an alert, does to a thread.
LEMMA FinishFacts ==
  ASSUME DriftTypes, NEW t \in Threads, pc[t] # "idle", Finish(t), at' = at
  PROVE  /\ checked' \in [Monitored -> Nat] /\ pc' \in [Threads -> Stages]
         /\ of' \in [Threads -> Monitored \cup {Unknown}]
         /\ rest' \in [Threads -> SUBSET Monitored]
         /\ \A u \in Threads : pc'[u] # "idle" => of'[u] \in Monitored
         /\ \A a \in Monitored : checked[a] <= checked'[a]
         /\ of[t] \in Monitored /\ at[t] <= checked'[of[t]]
         /\ \A u \in Threads \ {t} : of'[u] = of[u] /\ pc'[u] = pc[u]
<1>1. of[t] \in Monitored /\ at[t] \in Nat /\ checked[of[t]] \in Nat
  BY DEF DriftTypes
<1>2. checked' = [checked EXCEPT ![of[t]] = Later(checked[of[t]], at[t])]
  BY DEF Finish
<1>3. /\ checked' \in [Monitored -> Nat] /\ checked'[of[t]] = Later(checked[of[t]], at[t])
      /\ \A a \in Monitored \ {of[t]} : checked'[a] = checked[a]
  BY <1>1, <1>2, LaterFacts DEF DriftTypes
<1>4. /\ at[t] <= checked'[of[t]]
      /\ \A a \in Monitored : checked[a] <= checked'[a]
  <2>1. at[t] <= checked'[of[t]] /\ checked[of[t]] <= checked'[of[t]]
    BY <1>1, <1>3, LaterFacts
  <2> QED  BY <1>3, <2>1 DEF DriftTypes
<1>5. CASE rest[t] = {}
  BY <1>1, <1>3, <1>4, <1>5 DEF Finish, Go, DriftTypes, Stages
<1>6. CASE rest[t] # {}
  <2>1. PICK a \in rest[t] : /\ of' = [of EXCEPT ![t] = a]
                             /\ rest' = [rest EXCEPT ![t] = rest[t] \ {a}]
                             /\ pc' = [pc EXCEPT ![t] = "computing"]
    BY <1>6 DEF Finish, Go
  <2>2. a \in Monitored /\ rest[t] \subseteq Monitored
    BY DEF DriftTypes
  <2> QED  BY <1>1, <1>3, <1>4, <2>1, <2>2 DEF DriftTypes, Stages
<1> QED  BY <1>5, <1>6

LEMMA EventIsCounted ==
  ASSUME DriftMonitorAssumption, DriftInv, NEW t \in Threads, CountEvent(t),
         NEW a \in Monitored, a = of[t]
  PROVE  DriftInv'
<1> DEFINE tick == Later(ticks[a], at[t])
           due == tick >= lastCheck[a] + Interval
<1>1. /\ a \in Monitored /\ pc[t] = "counting" /\ Interval \in Nat \ {0}
      /\ ticks[a] \in Nat /\ lastCheck[a] \in Nat /\ checked[a] \in Nat /\ at[t] \in Nat
  BY DEF CountEvent, DriftInv, DriftTypes, DriftMonitorAssumption
<1>2. tick \in Nat /\ ticks[a] <= tick
  BY <1>1, LaterFacts
<1>3. /\ ticks' = [ticks EXCEPT ![a] = tick]
      /\ lastCheck' = [lastCheck EXCEPT ![a] = lastCheck[a]]
      /\ at' = [at EXCEPT ![t] = IF due THEN tick ELSE 0]
      /\ pc' = [pc EXCEPT ![t] = IF due THEN "due" ELSE "idle"]
      /\ UNCHANGED <<of, rest, checked, registered>>
  BY DEF CountEvent, Stamp, Go, roster
<1>4. /\ ticks'[a] = tick /\ \A b \in Monitored \ {a} : ticks'[b] = ticks[b]
      /\ \A b \in Monitored : lastCheck'[b] = lastCheck[b]
      /\ \A u \in Threads \ {t} : at'[u] = at[u] /\ pc'[u] = pc[u]
      /\ due => at'[t] = tick /\ pc'[t] = "due"
  BY <1>1, <1>3 DEF DriftInv, DriftTypes
<1>5. DriftTypes'
  <2>1. /\ (IF due THEN tick ELSE 0) \in Nat
        /\ (IF due THEN "due" ELSE "idle") \in Stages
    BY <1>2 DEF Stages
  <2> HIDE DEF tick, due
  <2> QED  BY <1>1, <1>2, <1>3, <2>1 DEF DriftInv, DriftTypes
<1> HIDE DEF tick
<1>6. ASSUME NEW b \in Monitored \ {a} PROVE Stamped(b)' /\ Covered(b)'
  <2>1. \A u \in Threads : of[u] = b => u # t
    BY <1>6
  <2>2. checked[b] <= checked'[b]
    BY <1>3 DEF DriftInv, DriftTypes
  <2> HIDE DEF due
  <2> QED  BY <1>3, <1>4, <1>5, <2>1, <2>2, OthersStay
<1>7. Stamped(a)'
  <2>1. ASSUME NEW u \in Threads, Running(u, a, lastCheck[a]) PROVE Running(u, a, lastCheck[a])'
    <3>1. u # t
      BY <1>1, <2>1 DEF Running
    <3> QED  BY <1>1, <1>3, <1>4, <2>1, <3>1 DEF Running
  <2> QED  BY <1>1, <1>3, <1>4, <2>1 DEF DriftInv, Stamped
<1>8. Covered(a)'
  <2>1. CASE due
    <3>1. tick < tick + Interval
      BY <1>1, <1>2
    <3> QED  BY <1>3, <1>4, <2>1, <3>1 DEF Covered, Covers, Stages
  <2>2. CASE ~due
    <3>1. tick < lastCheck[a] + Interval
      BY <1>1, <1>2, <2>2
    <3>2. CASE lastCheck[a] <= checked[a]
      <4>1. tick < checked[a] + Interval
        BY <1>1, <1>2, <3>1, <3>2
      <4> QED  BY <1>3, <1>4, <4>1 DEF Covered
    <3>3. ASSUME NEW u \in Threads, Running(u, a, lastCheck[a]) PROVE Covered(a)'
      <4>1. /\ u # t /\ of[u] = a /\ pc[u] \in Stages \ {"idle", "counting"}
            /\ lastCheck[a] <= at[u] /\ at[u] \in Nat
        BY <1>1, <3>3 DEF Running, Stages, DriftInv, DriftTypes
      <4>2. tick < at[u] + Interval
        BY <1>1, <1>2, <3>1, <4>1
      <4> QED  BY <1>3, <1>4, <4>1, <4>2 DEF Covered, Covers
    <3> QED  BY <1>1, <3>2, <3>3 DEF DriftInv, Stamped
  <2> QED  BY <2>1, <2>2
<1>9. ASSUME NEW b \in Monitored PROVE Stamped(b)' /\ Covered(b)'
  BY <1>6, <1>7, <1>8
<1> QED  BY <1>5, <1>9 DEF DriftInv

LEMMA CheckRuns ==
  ASSUME DriftMonitorAssumption, DriftInv, NEW t \in Threads, RunCheck(t),
         NEW a \in Monitored, a = of[t]
  PROVE  DriftInv'
<1>1. a \in Monitored /\ pc[t] = "due" /\ at[t] \in Nat
  BY DEF RunCheck, DriftInv, DriftTypes
<1>2. /\ lastCheck' = [lastCheck EXCEPT ![a] = at[t]]
      /\ pc' = [pc EXCEPT ![t] = "computing"]
      /\ UNCHANGED <<ticks, at, of, rest, checked, registered>>
  BY DEF RunCheck, Go, roster
<1>3. /\ lastCheck'[a] = at[t] /\ \A b \in Monitored \ {a} : lastCheck'[b] = lastCheck[b]
      /\ pc'[t] = "computing" /\ \A u \in Threads \ {t} : pc'[u] = pc[u]
  BY <1>1, <1>2 DEF DriftInv, DriftTypes
<1>4. DriftTypes'
  BY <1>1, <1>2 DEF DriftInv, DriftTypes, Stages
<1>5. ASSUME NEW b \in Monitored \ {a} PROVE Stamped(b)' /\ Covered(b)'
  <2>1. \A u \in Threads : of[u] = b => u # t
    BY <1>5
  <2>2. checked[b] <= checked'[b]
    BY <1>2 DEF DriftInv, DriftTypes
  <2> QED  BY <1>2, <1>3, <1>4, <2>1, <2>2, OthersStay
<1>6. Stamped(a)'
  <2>1. lastCheck'[a] <= at'[t]
    BY <1>1, <1>2, <1>3
  <2> QED  BY <1>2, <1>3, <2>1 DEF Stamped, Running
<1>7. Covered(a)'
  <2>1. \A u \in Threads : Covers(u, a) => Covers(u, a)'
    BY <1>1, <1>2, <1>3 DEF Covers, Stages
  <2> QED  BY <1>1, <1>2, <2>1 DEF DriftInv, Covered
<1>8. ASSUME NEW b \in Monitored PROVE Stamped(b)' /\ Covered(b)'
  BY <1>5, <1>6, <1>7
<1> QED  BY <1>4, <1>8 DEF DriftInv

LEMMA DriftStep == DriftMonitorAssumption /\ DriftInv /\ [DriftNext]_drift => DriftInv'
<1> SUFFICES ASSUME DriftMonitorAssumption, DriftInv, [DriftNext]_drift PROVE DriftInv'
  OBVIOUS
<1>1. \A a \in Monitored : checked[a] <= checked[a]
  BY DEF DriftInv, DriftTypes
<1>2. ASSUME NEW a \in Monitored, RegisterAgent(a) \/ UnregisterAgent(a) \/ BuildBaseline(a)
      PROVE  DriftInv'
  <2>1. UNCHANGED <<ticks, lastCheck, pc, at, of, rest, checked>> /\ registered' \subseteq Monitored
    BY <1>2 DEF RegisterAgent, UnregisterAgent, BuildBaseline, clocks, thread, roster, DriftInv,
                DriftTypes
  <2>2. DriftTypes'
    BY <2>1 DEF DriftInv, DriftTypes
  <2> QED  BY <1>1, <2>1, <2>2, OthersStay DEF DriftInv
<1>3. ASSUME NEW t \in Threads, NEW a \in Monitored, NEW tick \in 1 .. MaxEventTick,
             OnEvent(t, a, tick)
      PROVE  DriftInv'
  <2>1. /\ UNCHANGED <<ticks, lastCheck, rest, checked, registered>> /\ pc[t] = "idle"
        /\ of' = [of EXCEPT ![t] = a] /\ at' = [at EXCEPT ![t] = tick]
        /\ pc' = [pc EXCEPT ![t] = IF a \in registered THEN "counting" ELSE "idle"]
    BY <1>3 DEF OnEvent, Call, Go, roster, clocks
  <2>2. DriftTypes'
    BY <2>1 DEF DriftInv, DriftTypes, Stages
  <2>3. \A u \in Threads : pc[u] # "idle" => of'[u] = of[u] /\ at'[u] = at[u] /\ pc'[u] = pc[u]
    BY <2>1 DEF DriftInv, DriftTypes
  <2> QED  BY <1>1, <2>1, <2>2, <2>3, OthersStay DEF DriftInv
<1>4. ASSUME NEW t \in Threads, CheckAll(t) PROVE DriftInv'
  <2>1. PICK a \in registered :
          /\ UNCHANGED <<ticks, lastCheck, checked, registered>> /\ pc[t] = "idle"
          /\ of' = [of EXCEPT ![t] = a] /\ at' = [at EXCEPT ![t] = 0]
          /\ pc' = [pc EXCEPT ![t] = "computing"]
          /\ rest' = [rest EXCEPT ![t] = registered \ {a}]
    BY <1>4 DEF CheckAll, Call, Go, roster, clocks
  <2>2. DriftTypes'
    BY <2>1 DEF DriftInv, DriftTypes, Stages
  <2>3. \A u \in Threads : pc[u] # "idle" => of'[u] = of[u] /\ at'[u] = at[u] /\ pc'[u] = pc[u]
    BY <2>1 DEF DriftInv, DriftTypes
  <2> QED  BY <1>1, <2>1, <2>2, <2>3, OthersStay DEF DriftInv
<1>5. ASSUME NEW t \in Threads, FindBaseline(t) \/ Build(t) PROVE DriftInv'
  <2>1. PICK where \in {"computing", "building", "scoring"} :
          /\ UNCHANGED <<ticks, lastCheck, of, at, rest, checked, registered>>
          /\ pc[t] \in {"computing", "building", "scoring"} /\ pc' = [pc EXCEPT ![t] = where]
    BY <1>5 DEF FindBaseline, Build, Go, roster, clocks
  <2>2. DriftTypes'
    BY <2>1 DEF DriftInv, DriftTypes, Stages
  <2>3. \A u \in Threads : \/ pc'[u] = pc[u]
                           \/ /\ pc[u] \in {"computing", "building", "scoring"}
                              /\ pc'[u] \in {"computing", "building", "scoring"}
    BY <2>1 DEF DriftInv, DriftTypes
  <2> QED  BY <1>1, <2>1, <2>2, <2>3, OthersStay DEF DriftInv
<1>6. ASSUME NEW t \in Threads, NothingToCompute(t) \/ NoDrift(t) \/ HandleDrift(t)
      PROVE  DriftInv'
  <2>1. /\ UNCHANGED <<ticks, lastCheck, at, registered>>
        /\ pc[t] # "idle" /\ Finish(t)
    BY <1>6 DEF NothingToCompute, NoDrift, HandleDrift, roster, clocks
  <2>2. DriftTypes'
    BY <2>1, FinishFacts DEF DriftInv, DriftTypes
  <2>3. /\ \A a \in Monitored : checked[a] <= checked'[a]
        /\ of[t] \in Monitored /\ at[t] <= checked'[of[t]]
        /\ \A u \in Threads \ {t} : of'[u] = of[u] /\ pc'[u] = pc[u]
    BY <2>1, FinishFacts DEF DriftInv
  <2> QED  BY <2>1, <2>2, <2>3, OthersStay DEF DriftInv
<1>7. CASE UNCHANGED drift
  <2>1. UNCHANGED <<ticks, lastCheck, pc, at, of, rest, checked, registered>>
    BY <1>7 DEF drift, roster, clocks, thread
  <2>2. DriftTypes'
    BY <2>1 DEF DriftInv, DriftTypes
  <2> QED  BY <1>1, <2>1, <2>2, OthersStay DEF DriftInv
<1>8. ASSUME NEW t \in Threads, CountEvent(t) \/ RunCheck(t) PROVE DriftInv'
  <2>1. of[t] \in Monitored
    BY <1>8 DEF CountEvent, RunCheck, DriftInv, DriftTypes
  <2> QED  BY <1>8, <2>1, EventIsCounted, CheckRuns
<1> QED  BY <1>2, <1>3, <1>4, <1>5, <1>6, <1>7, <1>8 DEF DriftNext

(***************************************************************************)
(* on_event and _run_check, for any number of threads and agents and any   *)
(* interval: whatever order events come in and whichever threads find the  *)
(* same check due, an agent with no call under way was checked less than   *)
(* an interval of ticks ago.                                               *)
(***************************************************************************)
THEOREM ChecksAreMade == ASSUME DriftMonitorAssumption PROVE DriftSpec => []ChecksKeepUp
<1>1. DriftInv => ChecksKeepUp
  BY DEF DriftInv, ChecksKeepUp, Covered, Covers, Stages
<1>2. DriftInit => DriftInv
  BY DriftStarts
<1>3. DriftInv /\ [DriftNext]_drift => DriftInv'
  BY DriftStep
<1> QED  BY <1>1, <1>2, <1>3, PTL DEF DriftSpec


-----------------------------------------------------------------------------
(* Contracts: nothing of an earlier tick counts.                            *)

Counts == [Parties -> [Metrics -> Nat]]

\* What the envelope would see if it were asked now is what agents did.
CountersOK ==
  /\ done \in Counts /\ counters \in Counts
  /\ kernelTick \in Nat /\ currentTick \in Nat /\ currentTick <= kernelTick
  /\ \A a \in Parties, m \in Metrics : done[a][m] <= Limits[m]
  /\ Counters = done

BlocksOK == thought => blocked \subseteq failedNow

ContractInv == CountersOK /\ BlocksOK

LEMMA NoCountsFacts ==
  NoCounts \in Counts /\ \A a \in Parties, m \in Metrics : NoCounts[a][m] = 0
BY DEF NoCounts, Counts

LEMMA CountActionKeeps ==
  ASSUME ContractsAssumption, CountersOK, NEW a \in Parties, NEW metric \in Metrics,
         NEW allowed, allowed => Within(a, metric), CountAction(a, metric, allowed)
  PROVE  CountersOK'
<1>1. done[a] \in [Metrics -> Nat] /\ done[a][metric] \in Nat /\ Counters = done
  BY DEF CountersOK, Counts
<1>2. /\ currentTick' = kernelTick /\ kernelTick' = kernelTick /\ counters' = done'
      /\ done' = IF allowed THEN [done EXCEPT ![a][metric] = done[a][metric] + 1] ELSE done
  BY <1>1 DEF CountAction
<1>3. done' \in Counts
  BY <1>1, <1>2 DEF CountersOK, Counts
<1>4. ASSUME NEW b \in Parties, NEW m \in Metrics PROVE done'[b][m] <= Limits[m]
  <2>1. CASE allowed /\ b = a /\ m = metric
    <3>1. done[a][metric] < Limits[metric] /\ Limits[metric] \in Nat
      BY <1>1, <2>1 DEF Within, ContractsAssumption
    <3>2. done'[a][metric] = done[a][metric] + 1
      BY <1>1, <1>2, <2>1 DEF CountersOK, Counts
    <3> QED  BY <1>1, <2>1, <3>1, <3>2
  <2>2. CASE ~(allowed /\ b = a /\ m = metric)
    <3>1. done'[b][m] = done[b][m]
      BY <1>1, <1>2, <2>2 DEF CountersOK, Counts
    <3> QED  BY <3>1 DEF CountersOK
  <2> QED  BY <2>1, <2>2
<1> QED  BY <1>2, <1>3, <1>4 DEF CountersOK, Counters

LEMMA ThinkKeepsBlocks ==
  ASSUME MonitorThink
  PROVE  blocked' = failedNow' /\ UNCHANGED <<kernelTick, currentTick, counters, done>>
BY DEF MonitorThink, KeptBlocks, envelope

LEMMA ContractStarts == ContractsAssumption /\ ContractInit => ContractInv
<1> SUFFICES ASSUME ContractsAssumption, ContractInit PROVE ContractInv
  OBVIOUS
<1>1. \A m \in Metrics : 0 <= Limits[m]
  BY DEF ContractsAssumption
<1> QED  BY <1>1, NoCountsFacts DEF ContractInit, ContractInv, CountersOK, BlocksOK, Counters

LEMMA ContractStep ==
  ContractsAssumption /\ ContractInv /\ [ContractNext]_contracting => ContractInv'
<1> SUFFICES ASSUME ContractsAssumption, ContractInv, [ContractNext]_contracting
             PROVE  ContractInv'
  OBVIOUS
<1>1. CASE NextTick
  <2>1. /\ kernelTick' = kernelTick + 1 /\ thought' = FALSE /\ done' = NoCounts
        /\ UNCHANGED <<currentTick, counters>>
    BY <1>1 DEF NextTick, envelope
  <2>2. kernelTick' \in Nat /\ currentTick' <= kernelTick' /\ currentTick' # kernelTick'
    BY <2>1 DEF ContractInv, CountersOK
  <2>3. \A a \in Parties, m \in Metrics : done'[a][m] <= Limits[m]
    BY <2>1, NoCountsFacts DEF ContractsAssumption
  <2>4. Counters' = done'
    BY <2>1, <2>2 DEF Counters
  <2>5. CountersOK'
    BY <2>1, <2>2, <2>3, <2>4, NoCountsFacts DEF ContractInv, CountersOK
  <2> QED  BY <2>1, <2>5 DEF ContractInv, BlocksOK
<1>2. CASE MonitorThink
  <2>1. blocked' = failedNow' /\ UNCHANGED <<kernelTick, currentTick, counters, done>>
    BY <1>2, ThinkKeepsBlocks
  <2>2. CountersOK'
    BY <2>1 DEF ContractInv, CountersOK, Counters
  <2> QED  BY <2>1, <2>2 DEF ContractInv, BlocksOK
<1>3. ASSUME NEW a \in Parties, RegisterContract(a) \/ UnregisterContract(a) \/ ClearBlock(a)
      PROVE  ContractInv'
  <2>1. /\ UNCHANGED <<kernelTick, thought, currentTick, counters, done, failedNow>>
        /\ blocked' \subseteq blocked
    BY <1>3 DEF RegisterContract, UnregisterContract, ClearBlock, envelope
  <2>2. CountersOK'
    BY <2>1 DEF ContractInv, CountersOK, Counters
  <2> QED  BY <2>1, <2>2 DEF ContractInv, BlocksOK
<1>4. ASSUME NEW a \in Parties, NEW metric \in Metrics, NEW allowed \in BOOLEAN,
             allowed => Within(a, metric), CountAction(a, metric, allowed)
      PROVE  ContractInv'
  <2>1. CountersOK'
    BY <1>4, CountActionKeeps DEF ContractInv
  <2>2. UNCHANGED <<thought, blocked, failedNow>>
    BY <1>4 DEF CountAction, contractMonitor
  <2> QED  BY <2>1, <2>2 DEF ContractInv, BlocksOK
<1>5. ASSUME NEW a \in Parties, CheckSendMessage(a) \/ CheckWriteMemory(a)
      PROVE  ContractInv'
  <2>1. \A m \in Metrics : Within(a, m) \in BOOLEAN
    BY DEF Within
  <2>2. \E m \in Metrics : CountAction(a, m, Within(a, m))
    BY <1>5 DEF CheckSendMessage, CheckWriteMemory, Metrics
  <2> QED  BY <1>4, <2>1, <2>2
<1>6. ASSUME NEW a \in Parties, CheckToolCall(a) PROVE ContractInv'
  <2>1. PICK forbidden \in BOOLEAN :
          CountAction(a, "tool_calls", ~forbidden /\ Within(a, "tool_calls"))
    BY <1>6 DEF CheckToolCall
  <2>2. (~forbidden /\ Within(a, "tool_calls")) \in BOOLEAN /\ "tool_calls" \in Metrics
    BY DEF Metrics
  <2>3. ~forbidden /\ Within(a, "tool_calls") => Within(a, "tool_calls")
    OBVIOUS
  <2> QED  BY <1>4, <2>1, <2>2, <2>3
<1>7. ASSUME NEW a \in Parties, CheckFileWrite(a) PROVE ContractInv'
  <2>1. CountAction(a, "messages", FALSE) /\ "messages" \in Metrics
    BY <1>7 DEF CheckFileWrite, Metrics
  <2> QED  BY <1>4, <2>1
<1>8. ASSUME NEW a \in Parties, NEW child \in Parties, CheckSpawnAgent(a, child)
      PROVE  ContractInv'
  <2> DEFINE allowed == Cardinality(alive) < MaxAgents /\ Within(a, "spawns")
  <2>1. CountAction(a, "spawns", allowed) /\ "spawns" \in Metrics
    BY <1>8 DEF CheckSpawnAgent, Metrics
  <2>2. allowed \in BOOLEAN /\ (allowed => Within(a, "spawns"))
    OBVIOUS
  <2> HIDE DEF allowed
  <2> QED  BY <1>4, <2>1, <2>2
<1>9. CASE UNCHANGED contracting
  <2>1. UNCHANGED <<kernelTick, thought, currentTick, counters, done, blocked, failedNow>>
    BY <1>9 DEF contracting, contractMonitor, envelope
  <2>2. CountersOK'
    BY <2>1 DEF ContractInv, CountersOK, Counters
  <2> QED  BY <2>1, <2>2 DEF ContractInv, BlocksOK
<1> QED  BY <1>1, <1>2, <1>3, <1>5, <1>6, <1>7, <1>8, <1>9 DEF ContractNext

(***************************************************************************)
(* MonitorAgent.think and SafetyEnvelope: whatever contracts and limits    *)
(* there are, also when the think of a tick is cut short, no block and no  *)
(* count of an earlier tick is left, and no agent exceeds a limit.         *)
(***************************************************************************)
THEOREM TicksAreFresh == ASSUME ContractsAssumption PROVE ContractSpec => []TickIsFresh
<1>1. ContractInv => TickIsFresh
  BY DEF ContractInv, CountersOK, BlocksOK, TickIsFresh, Counters
<1>2. ContractInit => ContractInv
  BY ContractStarts
<1>3. ContractInv /\ [ContractNext]_contracting => ContractInv'
  BY ContractStep
<1> QED  BY <1>1, <1>2, <1>3, PTL DEF ContractSpec


-----------------------------------------------------------------------------
(* PropertyChecker: the latches remember what the operators need.           *)

Observations == [tick : Nat \ {0}, p : Truths, q : Truths]

\* How property n fails at check i, by the whole history.
Fails(n, i) ==
  \/ n = "always" /\ seen[i].p # "true"
  \/ n = "never" /\ seen[i].p # "false"
  \/ /\ n = "eventually" /\ ~Held(i, "p")
     /\ seen[i].p = "false" => seen[i].tick - seen[1].tick > WithinTicks
  \/ /\ n = "until" /\ ~Held(i, "q")
     /\ seen[i].q = "false" => seen[i].p # "true"

FailedTicks(n) == {seen[i].tick : i \in {i \in DOMAIN seen : Fails(n, i)}}

LatchesOK ==
  /\ seen \in Seq(Observations)
  /\ startTick = IF seen = << >> THEN 0 ELSE seen[1].tick
  /\ satisfied \in BOOLEAN /\ (satisfied <=> Held(Len(seen), "p"))
  /\ bSatisfied \in BOOLEAN /\ (bSatisfied <=> Held(Len(seen), "q"))

CheckerInv == LatchesOK /\ \A n \in Properties : violations[n] = FailedTicks(n)

LEMMA NothingSeen ==
  ASSUME seen = << >>, startTick = 0, satisfied = FALSE, bSatisfied = FALSE,
         violations = [n \in Properties |-> {}]
  PROVE  CheckerInv
<1>1. Len(seen) = 0 /\ DOMAIN seen = {} /\ seen \in Seq(Observations)
  OBVIOUS
<1>2. ~Held(0, "p") /\ ~Held(0, "q")
  BY DEF Held
<1>3. \A n \in Properties : FailedTicks(n) = {}
  BY <1>1 DEF FailedTicks
<1>4. /\ satisfied \in BOOLEAN /\ (satisfied <=> Held(0, "p"))
      /\ bSatisfied \in BOOLEAN /\ (bSatisfied <=> Held(0, "q"))
  BY <1>2, Zenon
<1>5. LatchesOK
  BY <1>1, <1>4 DEF LatchesOK
<1>6. \A n \in Properties : violations[n] = {}
  OBVIOUS
<1> QED  BY <1>3, <1>5, <1>6 DEF CheckerInv

LEMMA CheckerStarts == CheckerInit => CheckerInv
BY NothingSeen DEF CheckerInit

LEMMA RegistrationKeeps == RegisterProperties => CheckerInv'
<1> SUFFICES ASSUME RegisterProperties PROVE CheckerInv'
  OBVIOUS
<1>1. /\ seen' = << >> /\ startTick' = 0 /\ satisfied' = FALSE /\ bSatisfied' = FALSE
      /\ violations' = [n \in Properties |-> {}]
  BY DEF RegisterProperties
<1>2. Len(seen') = 0 /\ DOMAIN seen' = {} /\ seen' \in Seq(Observations)
  BY <1>1
<1>3. ~Held(0, "p")' /\ ~Held(0, "q")'
  BY DEF Held
<1>4. \A n \in Properties : FailedTicks(n)' = {}
  BY <1>2 DEF FailedTicks
<1>5. /\ satisfied' \in BOOLEAN /\ (satisfied' <=> Held(0, "p")')
      /\ bSatisfied' \in BOOLEAN /\ (bSatisfied' <=> Held(0, "q")')
  BY <1>1, <1>3, Zenon
<1>6. LatchesOK'
  BY <1>1, <1>2, <1>5 DEF LatchesOK
<1>7. \A n \in Properties : violations'[n] = {}
  BY <1>1
<1> QED  BY <1>4, <1>6, <1>7 DEF CheckerInv

LEMMA ChecksKeep ==
  ASSUME CheckerInv, NEW tick \in Nat \ {0}, NEW p \in Truths, NEW q \in Truths,
         CheckProperties(tick, p, q), NEW l, l = Len(seen)
  PROVE  CheckerInv'
<1> DEFINE e == [tick |-> tick, p |-> p, q |-> q]
<1>1. /\ seen' = Append(seen, e) /\ e \in Observations /\ seen \in Seq(Observations)
      /\ e.tick = tick /\ e.p = p /\ e.q = q /\ e["p"] = p /\ e["q"] = q
  BY DEF CheckProperties, CheckerInv, LatchesOK, Observations
<1> HIDE DEF e
<1>2. /\ seen' \in Seq(Observations) /\ l \in Nat /\ Len(seen') = l + 1 /\ seen'[l + 1] = e
      /\ DOMAIN seen = 1 .. l /\ DOMAIN seen' = 1 .. l + 1
      /\ \A i \in 1 .. l : seen'[i] = seen[i]
  BY <1>1
<1>3. /\ seen = << >> <=> l = 0
      /\ seen' # << >>
  BY <1>1, <1>2
<1>4. \A i \in 1 .. l : (Held(i, "p")' <=> Held(i, "p")) /\ (Held(i, "q")' <=> Held(i, "q"))
  BY <1>2 DEF Held
<1>5. /\ Held(l + 1, "p")' <=> (Held(l, "p") \/ p = "true")
      /\ Held(l + 1, "q")' <=> (Held(l, "q") \/ q = "true")
  BY <1>1, <1>2 DEF Held
<1>6. /\ satisfied \in BOOLEAN /\ (satisfied <=> Held(l, "p"))
      /\ bSatisfied \in BOOLEAN /\ (bSatisfied <=> Held(l, "q"))
  BY DEF CheckerInv, LatchesOK
<1>7. startTick = IF l = 0 THEN 0 ELSE seen[1].tick
  BY <1>3 DEF CheckerInv, LatchesOK
<1>8. seen'[1].tick \in Nat \ {0} /\ (l = 0 => seen'[1].tick = tick) /\ (l # 0 => seen'[1] = seen[1])
  <2>1. seen'[1] \in Observations
    BY <1>2
  <2> QED  BY <1>1, <1>2, <2>1 DEF Observations
<1>9. LatchesOK'
  <2>1. startTick' = seen'[1].tick
    <3>1. CASE l = 0
      <4>1. ~Held(l, "p")
        BY <3>1 DEF Held
      <4> QED  BY <1>6, <1>7, <1>8, <3>1, <4>1 DEF CheckProperties
    <3>2. CASE l # 0
      BY <1>7, <1>8, <3>2 DEF CheckProperties
    <3> QED  BY <3>1, <3>2
  <2>2. /\ satisfied' \in BOOLEAN /\ (satisfied' <=> (Held(l, "p") \/ p = "true"))
        /\ bSatisfied' \in BOOLEAN /\ (bSatisfied' <=> (Held(l, "q") \/ q = "true"))
    BY <1>6, Zenon DEF CheckProperties
  <2>3. (satisfied' <=> Held(Len(seen), "p")') /\ (bSatisfied' <=> Held(Len(seen), "q")')
    BY <1>2, <1>5, <2>2
  <2> QED  BY <1>2, <1>3, <2>1, <2>2, <2>3 DEF LatchesOK
<1>10. ASSUME NEW n \in Properties, NEW i \in 1 .. l PROVE Fails(n, i)' <=> Fails(n, i)
  <2>1. seen'[i] = seen[i] /\ seen'[1] = seen[1]
    BY <1>2
  <2> QED  BY <1>4, <2>1 DEF Fails
<1>11. ASSUME NEW n \in Properties PROVE Fails(n, l + 1)' <=> n \in Failing(tick, p, q)
  <2>1. Elapsed(tick) = tick - seen'[1].tick
    <3>1. CASE l = 0
      BY <1>7, <1>8, <3>1 DEF Elapsed
    <3>2. CASE l # 0
      BY <1>7, <1>8, <3>2 DEF Elapsed
    <3> QED  BY <3>1, <3>2
  <2> QED  BY <1>1, <1>2, <1>5, <1>6, <2>1 DEF Fails, Failing, Truths
<1>12. ASSUME NEW n \in Properties PROVE violations'[n] = FailedTicks(n)'
  <2>1. violations'[n] = IF n \in Failing(tick, p, q) THEN violations[n] \cup {tick} ELSE violations[n]
    BY DEF CheckProperties
  <2>2. violations[n] = {seen[i].tick : i \in {i \in 1 .. l : Fails(n, i)}}
    BY <1>2 DEF CheckerInv, FailedTicks
  <2>3. FailedTicks(n)' = {seen'[i].tick : i \in {i \in 1 .. l + 1 : Fails(n, i)'}}
    BY <1>2 DEF FailedTicks
  <2>4. \A i \in 1 .. l : seen'[i].tick = seen[i].tick
    BY <1>2
  <2>5. seen'[l + 1].tick = tick /\ l + 1 \in 1 .. l + 1 /\ 1 .. l + 1 = (1 .. l) \cup {l + 1}
    BY <1>1, <1>2
  <2> QED  BY <1>10, <1>11, <2>1, <2>2, <2>3, <2>4, <2>5
<1> QED  BY <1>9, <1>12 DEF CheckerInv

LEMMA CheckerStep == CheckerInv /\ [CheckerNext]_checker => CheckerInv'
<1> SUFFICES ASSUME CheckerInv, [CheckerNext]_checker PROVE CheckerInv'
  OBVIOUS
<1>1. ASSUME NEW tick \in LastTick + 1 .. MaxCheckTick, NEW p \in Truths, NEW q \in Truths,
             CheckProperties(tick, p, q)
      PROVE  CheckerInv'
  <2>1. LastTick \in Nat
    <3>1. seen \in Seq(Observations)
      BY DEF CheckerInv, LatchesOK
    <3>2. CASE seen # << >>
      <4>1. seen[Len(seen)] \in Observations
        BY <3>1, <3>2
      <4> QED  BY <3>2, <4>1 DEF LastTick, Observations
    <3> QED  BY <3>2 DEF LastTick
  <2>2. tick \in Nat \ {0}
    BY <2>1
  <2> QED  BY <1>1, <2>2, ChecksKeep
<1>2. CASE UNCHANGED checker
  BY <1>2 DEF checker, CheckerInv, LatchesOK, FailedTicks, Fails, Held
<1> QED  BY <1>1, <1>2, RegistrationKeeps DEF CheckerNext

(***************************************************************************)
(* check_all and _evaluate_property, for every window and however long the *)
(* history is: what the latches decide is what the operators mean.         *)
(***************************************************************************)
THEOREM LatchesDecide == CheckerSpec => []VerdictsAgree
<1>1. ASSUME CheckerInv PROVE VerdictsAgree
  <2>1. \A n \in Properties : violations[n] = FailedTicks(n)
    BY <1>1 DEF CheckerInv
  <2>2. FailedTicks("always") = {seen[i].tick : i \in {i \in DOMAIN seen : seen[i].p # "true"}}
    BY DEF FailedTicks, Fails
  <2>3. FailedTicks("never") = {seen[i].tick : i \in {i \in DOMAIN seen : seen[i].p # "false"}}
    BY DEF FailedTicks, Fails
  <2>4. FailedTicks("eventually") =
          {seen[i].tick : i \in {i \in DOMAIN seen :
             /\ ~Held(i, "p")
             /\ seen[i].p = "false" => seen[i].tick - seen[1].tick > WithinTicks}}
    BY DEF FailedTicks, Fails
  <2>5. FailedTicks("until") =
          {seen[i].tick : i \in {i \in DOMAIN seen :
             /\ ~Held(i, "q")
             /\ seen[i].q = "false" => seen[i].p # "true"}}
    BY DEF FailedTicks, Fails
  <2> QED  BY <2>1, <2>2, <2>3, <2>4, <2>5 DEF VerdictsAgree, Properties
<1> QED  BY <1>1, CheckerStarts, CheckerStep, PTL DEF CheckerSpec

=============================================================================
