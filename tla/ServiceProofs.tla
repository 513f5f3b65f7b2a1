---------------------------- MODULE ServiceProofs ----------------------------
(***************************************************************************)
(* Proofs about the services whose small instances MCServices puts side by *)
(* side: the persistence layer with the memory manager, and capabilities.  *)
(*                                                                         *)
(* The persistence layer keeps its promise (KeepsPromise) and the limits   *)
(* of places hold (WithinLimits), for any places, keys, values, capacities *)
(* and lifetimes, and whatever a value becomes on its way through JSON, as *)
(* long as a second way changes nothing more.                              *)
(*                                                                         *)
(* Delegation never amplifies (NoAmplification), for any number of agents, *)
(* capabilities and ticks, and for every way patterns cover resources.     *)
(***************************************************************************)
EXTENDS Persistence, Capabilities, FiniteSetTheorems, SequenceTheorems, TLAPS

-----------------------------------------------------------------------------
(* Persistence                                                              *)

Stored == [Places -> [Keys -> Entry \cup {None}]]

StoresOK ==
  /\ store \in Stored
  /\ rows \in Stored
  /\ now \in 0 .. MaxTick
  /\ phase \in {"up", "saving", "down"}

\* A save in progress has still to write some of what is there, and nothing of
\* that is in the table yet.
SavingOK ==
  /\ todo \subseteq Places \X Keys
  /\ phase # "saving" => todo = {}
  /\ \A p \in Places, k \in Keys :
       <<p, k>> \in todo => store[p][k] # None /\ rows[p][k] = None

\* What is in the table has been through JSON.
RowsOK == \A p \in Places, k \in Keys : AsSeen(rows[p][k]) = rows[p][k]

IInv == StoresOK /\ SavingOK /\ RowsOK

-----------------------------------------------------------------------------
LEMMA AsStoredFacts ==
  ASSUME PersistenceAssumption, NEW e \in Entry
  PROVE  /\ AsStored(e) \in Entry
         /\ AsStored(AsStored(e)) = AsStored(e)
         /\ AsStored(e) # None /\ e # None
<1>1. /\ Json \in [Values -> Values]
      /\ \A v \in Values : Json[Json[v]] = Json[v]
      /\ None \notin Entry
  BY DEF PersistenceAssumption
<1>2. AsStored(e) = [e EXCEPT !.value = Json[e.value]]
  BY DEF AsStored
<1>3. AsStored(e) \in Entry /\ AsStored(e).value = Json[e.value]
  BY <1>1, <1>2 DEF Entry
<1>4. AsStored(AsStored(e)) = [AsStored(e) EXCEPT !.value = Json[Json[e.value]]]
  BY <1>3 DEF AsStored
<1>5. e.value \in Values
  BY DEF Entry
<1>6. AsStored(AsStored(e)) = [AsStored(e) EXCEPT !.value = Json[e.value]]
  BY <1>1, <1>4, <1>5
<1>7. [AsStored(e) EXCEPT !.value = Json[e.value]] = AsStored(e)
  BY <1>3 DEF Entry
<1> QED BY <1>1, <1>3, <1>6, <1>7

LEMMA AsSeenFacts ==
  ASSUME PersistenceAssumption, NEW e \in Entry \cup {None}
  PROVE  /\ AsSeen(e) \in Entry \cup {None}
         /\ AsSeen(AsSeen(e)) = AsSeen(e)
         /\ AsSeen(e) = None <=> e = None
         /\ e # None => AsSeen(e) = AsStored(e)
BY AsStoredFacts DEF AsSeen

LEMMA InvInit ==
  ASSUME PersistenceAssumption, Init
  PROVE  IInv
<1>1. NothingStored \in Stored
  BY DEF NothingStored, NoEntries, Stored
<1>2. MaxTick \in Nat
  BY DEF PersistenceAssumption, MemoryAssumption
<1>3. StoresOK
  BY <1>1, <1>2 DEF Init, MemoryInit, StoresOK
<1>4. SavingOK
  BY DEF Init, SavingOK
<1>5. RowsOK
  BY DEF Init, RowsOK, AsSeen, NothingStored, NoEntries
<1> QED BY <1>3, <1>4, <1>5 DEF IInv

-----------------------------------------------------------------------------
\* The memory's own operations leave an entry alone, drop it, or write one.
LEMMA MemoryStep ==
  ASSUME PersistenceAssumption, IInv, MemoryNext
  PROVE  /\ store' \in Stored /\ now' \in 0 .. MaxTick
         /\ \/ /\ outcome' \in {"none", "raised"}
               /\ \A p \in Places, k \in Keys : store'[p][k] \in {None, store[p][k]}
            \/ /\ outcome' = "written"
               /\ \E p \in Places, k \in Keys, e \in Entry : Put(p, k, e)
<1>1. store \in Stored /\ now \in 0 .. MaxTick /\ MaxTick \in Nat
  BY DEF IInv, StoresOK, PersistenceAssumption, MemoryAssumption
<1> DEFINE Forgotten == /\ outcome' \in {"none", "raised"}
                        /\ \A p \in Places, k \in Keys :
                             store'[p][k] \in {None, store[p][k]}
           Wrote == /\ outcome' = "written"
                    /\ \E p \in Places, k \in Keys, e \in Entry : Put(p, k, e)
           Goal == store' \in Stored /\ now' \in 0 .. MaxTick /\ (Forgotten \/ Wrote)
<1>2. ASSUME Raise
      PROVE  Goal
  BY <1>1, <1>2 DEF Raise
<1>3. ASSUME NEW p \in Places, NEW k \in Keys, Put(p, k, None),
             outcome' \in {"none", "raised"}, now' = now
      PROVE  Goal
  BY <1>1, <1>3 DEF Put, Stored
<1>4. ASSUME NEW p \in Places, NEW c, NEW list, Create(p, c, list)
      PROVE  Goal
  BY <1>1, <1>4 DEF Create, NoEntries, Stored
<1>5. ASSUME NEW p \in Places, NEW k \in Keys, NEW e \in Entry, WriteEntry(p, k, e)
      PROVE  Goal
  BY <1>1, <1>5 DEF WriteEntry, Put, Stored
<1>6. ASSUME NEW v \in Written, NEW life \in Lifetimes, NEW type \in Types,
             NEW a \in Callers
      PROVE  [value |-> v, type |-> type, created |-> now, ttl |-> life[2],
              owner |-> a] \in Entry
  BY <1>1 DEF Entry, PersistenceAssumption, MemoryAssumption
<1>7. ASSUME NEW a \in Agents
      PROVE  a \in Places /\ a \in Callers
  BY DEF Places, Callers
<1>8. ASSUME NEW a \in Agents, CreateAgentSpace(a)
      PROVE  Goal
  BY <1>4, <1>7, <1>8 DEF CreateAgentSpace
<1>9. ASSUME NEW a \in Agents, DeleteAgentSpace(a)
      PROVE  Goal
  BY <1>1, <1>7, <1>9 DEF DeleteAgentSpace, NoEntries, Stored
<1>10. ASSUME NEW r \in Regions, CreateSharedRegion(r)
       PROVE  Goal
  BY <1>4, <1>10 DEF CreateSharedRegion, Places
<1>11. ASSUME NEW a \in Agents, NEW k \in Keys, AgentWrite(a, k)
       PROVE  Goal
  <2>1. ASSUME NEW life \in Lifetimes
        PROVE  life[1] \in Types
    BY DEF PersistenceAssumption, MemoryAssumption, Types
  <2> QED BY <1>2, <1>5, <1>6, <1>7, <1>11, <2>1 DEF AgentWrite
<1>12. ASSUME NEW r \in Regions, NEW a \in Callers, NEW k \in Keys, SharedWrite(r, a, k)
       PROVE  Goal
  <2>1. r \in Places /\ "SHARED" \in Types
    BY DEF Places, Types
  <2> QED BY <1>2, <1>5, <1>6, <1>12, <2>1 DEF SharedWrite
<1>13. ASSUME NEW p \in Places, NEW a, NEW k \in Keys, Delete(p, a, k)
       PROVE  Goal
  BY <1>2, <1>3, <1>13 DEF Delete
<1>14. ASSUME NEW p \in Places, NEW k \in Keys, ReadExpired(p, k)
       PROVE  Goal
  BY <1>3, <1>14 DEF ReadExpired
<1>15. ASSUME GcTick
       PROVE  Goal
  BY <1>1, <1>15 DEF GcTick, Stored
<1>16. ASSUME Tick
       PROVE  Goal
  <2>1. now' \in 0 .. MaxTick
    BY <1>1, <1>16 DEF Tick
  <2> QED BY <1>1, <1>16, <2>1 DEF Tick
<1>17. ASSUME NEW a \in Agents, NEW k \in Keys, Delete(a, a, k)
       PROVE  Goal
  BY <1>7, <1>13, <1>17
<1>18. ASSUME NEW r \in Regions, NEW a \in Callers, NEW k \in Keys, Delete(r, a, k)
       PROVE  Goal
  BY <1>13, <1>18 DEF Places
<1> HIDE DEF Goal
<1>19. Goal
  BY <1>8, <1>9, <1>10, <1>11, <1>12, <1>14, <1>15, <1>16, <1>17, <1>18 DEF MemoryNext
<1> QED BY <1>19 DEF Goal
-----------------------------------------------------------------------------
LEMMA InvNext ==
  ASSUME PersistenceAssumption, IInv, [Next]_vars
  PROVE  IInv'
<1>1. /\ store \in Stored /\ rows \in Stored /\ now \in 0 .. MaxTick
      /\ MaxTick \in Nat
  BY DEF IInv, StoresOK, PersistenceAssumption, MemoryAssumption
<1>2. /\ todo \subseteq Places \X Keys
      /\ phase # "saving" => todo = {}
      /\ \A p \in Places, k \in Keys :
           <<p, k>> \in todo => store[p][k] # None /\ rows[p][k] = None
  BY DEF IInv, SavingOK
<1>3. NothingStored \in Stored
  BY DEF NothingStored, NoEntries, Stored
<1>4. CASE phase = "up" /\ MemoryNext /\ UNCHANGED <<phase, tables>>
  <2>1. store' \in Stored /\ now' \in 0 .. MaxTick
    BY <1>4, MemoryStep
  <2>2. todo = {}
    BY <1>2, <1>4
  <2> QED BY <1>1, <1>4, <2>1, <2>2 DEF IInv, StoresOK, SavingOK, RowsOK, AsSeen, AsStored, tables
<1>5. ASSUME NEW mark, BeginSave(mark)
      PROVE  IInv'
  <2>1. StoresOK'
    BY <1>1, <1>3, <1>5 DEF BeginSave, Cleared, StoresOK
  <2>2. \A p \in Places, k \in Keys :
          rows'[p][k] = None /\ (<<p, k>> \in todo' => store'[p][k] # None)
    BY <1>5 DEF BeginSave, Cleared, NothingStored, NoEntries
  <2>3. todo' \subseteq Places \X Keys /\ phase' = "saving"
    BY <1>5 DEF BeginSave
  <2> QED BY <2>1, <2>2, <2>3 DEF IInv, SavingOK, RowsOK, AsSeen
<1>6. ASSUME NEW p \in Places, NEW k \in Keys, SaveRow(p, k)
      PROVE  IInv'
  <2>1. /\ phase = "saving" /\ <<p, k>> \in todo
        /\ rows' = [rows EXCEPT ![p] = [@ EXCEPT ![k] = AsStored(store[p][k])]]
        /\ todo' = todo \ {<<p, k>>}
        /\ UNCHANGED <<store, now, phase>>
    BY <1>6 DEF SaveRow, memory
  <2>2. store[p][k] \in Entry
    BY <1>1, <1>2, <2>1 DEF Stored
  <2>3. AsStored(store[p][k]) \in Entry
        /\ AsSeen(AsStored(store[p][k])) = AsStored(store[p][k])
    BY <2>2, AsStoredFacts DEF AsSeen
  <2>4. rows' \in Stored
    BY <1>1, <2>1, <2>3 DEF Stored
  <2>5. \A q \in Places, l \in Keys :
          rows'[q][l] = IF q = p /\ l = k THEN AsStored(store[p][k]) ELSE rows[q][l]
    BY <1>1, <2>1 DEF Stored
  <2>6. RowsOK'
    <3>1. \A q \in Places, l \in Keys : AsSeen(rows'[q][l]) = rows'[q][l]
      BY <2>3, <2>5 DEF IInv, RowsOK
    <3> QED BY <3>1 DEF RowsOK, AsSeen, AsStored
  <2>7. SavingOK'
    BY <1>2, <2>1, <2>5 DEF SavingOK
  <2> QED BY <1>1, <2>1, <2>4, <2>6, <2>7 DEF IInv, StoresOK
<1>7. CASE EndSave
  BY <1>7 DEF EndSave, IInv, StoresOK, SavingOK, RowsOK, AsSeen, AsStored
<1>8. CASE FailSave
  BY <1>8 DEF FailSave, IInv, StoresOK, SavingOK, RowsOK, AsSeen, AsStored
<1>9. ASSUME Load
      PROVE  IInv'
  <2>1. PICK loaded \in Loadable :
          store' = [p \in Places |-> [k \in Keys |->
                      IF <<p, k>> \in loaded THEN rows[p][k] ELSE store[p][k]]]
    BY <1>9 DEF Load
  <2>2. store' \in Stored
    BY <1>1, <2>1 DEF Stored
  <2>3. phase = "up" /\ UNCHANGED <<now, phase, rows, todo>>
    BY <1>9 DEF Load, tables
  <2> QED BY <1>1, <1>2, <2>2, <2>3 DEF IInv, StoresOK, SavingOK, RowsOK, AsSeen, AsStored
<1>10. CASE Crash
  BY <1>1, <1>3, <1>10 DEF Crash, Vanish, IInv, StoresOK, SavingOK, RowsOK, AsSeen, AsStored
<1>11. CASE Start
  BY <1>11 DEF Start, tables, IInv, StoresOK, SavingOK, RowsOK, AsSeen, AsStored
<1>12. CASE UNCHANGED vars
  BY <1>12 DEF vars, memory, tables, IInv, StoresOK, SavingOK, RowsOK, AsSeen, AsStored
<1> QED
  BY <1>4, <1>5, <1>6, <1>7, <1>8, <1>9, <1>10, <1>11, <1>12 DEF Next, Restore

-----------------------------------------------------------------------------
(* What Durable sees of the memory and of the table.                        *)
Live == [p \in Places |-> [k \in Keys |-> AsSeen(store[p][k])]]

Disk == [p \in Places |-> [k \in Keys |->
           IF <<p, k>> \in todo THEN AsSeen(store[p][k]) ELSE rows[p][k]]]

LEMMA InitMaps ==
  ASSUME Init
  PROVE  Durable!Init
<1>1. Live = Durable!Nothing /\ Disk = Durable!Nothing
  BY DEF Init, MemoryInit, NothingStored, NoEntries, Live, Disk, AsSeen, Durable!Nothing
<1> QED BY <1>1 DEF Init, MemoryInit, Live, Disk, Durable!Init

\* A step that only drops entries, outside a save, is Forget.
LEMMA ForgetMaps ==
  ASSUME phase = "up", UNCHANGED <<phase, rows, todo>>, todo = {},
         outcome' \in {"none", "raised"},
         \A p \in Places, k \in Keys : store'[p][k] \in {None, store[p][k]}
  PROVE  Durable!Forget
<1>1. \A p \in Places, k \in Keys : Live'[p][k] \in {None, Live[p][k]}
  BY DEF Live, AsSeen, AsStored
<1>2. Disk' = Disk
  BY DEF Disk
<1> QED BY <1>1, <1>2 DEF Durable!Forget, Durable!IsPart, Live, Disk

LEMMA WriteMaps ==
  ASSUME IInv, phase = "up", UNCHANGED <<phase, rows, todo>>, todo = {},
         outcome' = "written",
         NEW p \in Places, NEW k \in Keys, NEW e \in Entry, Put(p, k, e)
  PROVE  Durable!Write
<1>1. store \in [Places -> [Keys -> Entry \cup {None}]]
  BY DEF IInv, StoresOK, Stored
<1>2. \A q \in Places, l \in Keys :
        store'[q][l] = IF q = p /\ l = k THEN e ELSE store[q][l]
  BY <1>1 DEF Put
<1>3. \A q \in Places, l \in Keys :
        ~(q = p /\ l = k) => Live'[q][l] = Live[q][l]
  BY <1>2 DEF Live, AsSeen, AsStored
<1>4. Live' = [Live EXCEPT ![p] = [@ EXCEPT ![k] = Live'[p][k]]]
  <2>1. \A q \in Places : q # p => Live'[q] = Live[q]
    BY <1>3 DEF Live
  <2>2. Live'[p] = [Live[p] EXCEPT ![k] = Live'[p][k]]
    BY <1>3 DEF Live
  <2>3. DOMAIN Live = Places /\ DOMAIN Live' = Places
    BY DEF Live
  <2>4. Live' = [q \in Places |-> Live'[q]] /\ Live = [q \in Places |-> Live[q]]
    BY DEF Live
  <2> QED BY <2>1, <2>2, <2>3, <2>4
<1>5. Disk' = Disk
  BY DEF Disk
<1> QED BY <1>4, <1>5 DEF Durable!Write, Live, Disk

\* The table when some entries of a save remain unwritten.
LEMMA CutShort ==
  ASSUME IInv, UNCHANGED rows, todo' = {}
  PROVE  Durable!IsPart(Disk', Disk)
<1>1. \A p \in Places, k \in Keys : Disk'[p][k] \in {None, Disk[p][k]}
  BY DEF IInv, SavingOK, Disk
<1> QED BY <1>1 DEF Durable!IsPart

\* Rows that are loaded, all or some, are on the disk as Durable sees it.
LEMMA LoadMaps ==
  ASSUME PersistenceAssumption, IInv, Load
  PROVE  Durable!Restore
<1>1. phase = "up" /\ UNCHANGED <<phase, rows, todo>>
  BY DEF Load, tables
<1>2. todo = {} /\ Disk = [p \in Places |-> [k \in Keys |-> rows[p][k]]]
  BY <1>1 DEF IInv, SavingOK, Disk
<1>3. Disk' = Disk
  BY <1>1, <1>2 DEF Disk
<1>4. PICK loaded \in Loadable :
        /\ store' = [p \in Places |-> [k \in Keys |->
                       IF <<p, k>> \in loaded THEN rows[p][k] ELSE store[p][k]]]
        /\ outcome' = IF loaded = Saved THEN "restored" ELSE "raised"
  BY DEF Load
<1>5. \A p \in Places, k \in Keys :
        Live'[p][k] = IF <<p, k>> \in loaded THEN rows[p][k] ELSE Live[p][k]
  <2>1. \A p \in Places, k \in Keys : Live'[p][k] = AsSeen(store'[p][k])
    BY DEF Live, AsSeen, AsStored
  <2>2. \A p \in Places, k \in Keys : Live[p][k] = AsSeen(store[p][k])
    BY DEF Live
  <2> QED BY <1>4, <2>1, <2>2 DEF IInv, RowsOK
<1>6. loaded \subseteq Saved
  BY DEF Loadable
<1>7. \A p \in Places, k \in Keys :
        Durable!Over(Disk, Live)[p][k] = IF rows[p][k] # None THEN rows[p][k] ELSE Live[p][k]
  BY <1>2 DEF Durable!Over
<1>8. \A p \in Places, k \in Keys :
        <<p, k>> \in Saved <=> rows[p][k] # None
  BY DEF Saved
<1>9. CASE loaded = Saved
  <2>1. ASSUME NEW p \in Places, NEW k \in Keys
        PROVE  Live'[p][k] = Durable!Over(Disk, Live)[p][k]
    <3>1. Live'[p][k] = IF <<p, k>> \in Saved THEN rows[p][k] ELSE Live[p][k]
      BY <1>5, <1>9
    <3> QED BY <1>7, <1>8, <3>1
  <2>2. Live' = Durable!Over(Disk, Live)
    BY <2>1 DEF Live, Durable!Over
  <2> QED BY <1>1, <1>3, <1>4, <1>9, <2>2 DEF Durable!Restore, Live, Disk
<1>10. CASE loaded # Saved
  <2>1. ASSUME NEW p \in Places, NEW k \in Keys
        PROVE  /\ Live'[p][k] \in {Live[p][k], Durable!Over(Disk, Live)[p][k]}
               /\ Live'[p][k] \in {Live[p][k], Disk[p][k]}
    <3>1. Disk[p][k] = rows[p][k]
      BY <1>2
    <3>2. CASE <<p, k>> \in loaded
      <4>1. Live'[p][k] = rows[p][k]
        BY <1>5, <3>2
      <4>2. Durable!Over(Disk, Live)[p][k] = rows[p][k]
        BY <1>6, <1>7, <1>8, <3>2
      <4> QED BY <3>1, <4>1, <4>2
    <3>3. CASE <<p, k>> \notin loaded
      BY <1>5, <3>3
    <3> QED BY <3>2, <3>3
  <2>2. Live' \in [Places -> [Keys -> Durable!Contents(Live) \cup Durable!Contents(Disk)]]
    <3>1. \A p \in Places, k \in Keys :
            Live'[p][k] \in Durable!Contents(Live) \cup Durable!Contents(Disk)
      BY <2>1 DEF Durable!Contents
    <3> QED BY <3>1 DEF Live
  <2> QED BY <1>1, <1>3, <1>4, <1>10, <2>1, <2>2 DEF Durable!Restore, Live, Disk
<1> QED BY <1>9, <1>10

LEMMA StepMaps ==
  ASSUME PersistenceAssumption, IInv, [Next]_vars
  PROVE  [Durable!Next]_(Durable!vars)
<1>1. phase # "saving" => todo = {}
  BY DEF IInv, SavingOK
<1>2. CASE phase = "up" /\ MemoryNext /\ UNCHANGED <<phase, tables>>
  <2>1. phase = "up" /\ UNCHANGED <<phase, rows, todo>> /\ todo = {}
    BY <1>1, <1>2 DEF tables
  <2>2. CASE /\ outcome' \in {"none", "raised"}
             /\ \A p \in Places, k \in Keys : store'[p][k] \in {None, store[p][k]}
    BY <2>1, <2>2, ForgetMaps DEF Durable!Next
  <2>3. CASE /\ outcome' = "written"
             /\ \E p \in Places, k \in Keys, e \in Entry : Put(p, k, e)
    <3>1. PICK p \in Places, k \in Keys, e \in Entry : Put(p, k, e)
      BY <2>3
    <3>2. Durable!Write
      BY <2>1, <2>3, <3>1, WriteMaps
    <3> QED BY <3>2 DEF Durable!Next
  <2> QED BY <1>2, <2>2, <2>3, MemoryStep
<1>3. ASSUME NEW mark, BeginSave(mark)
      PROVE  Durable!BeginSave
  <2>1. /\ phase = "up" /\ phase' = "saving" /\ outcome' = "none"
        /\ UNCHANGED store
    BY <1>3 DEF BeginSave
  <2>2. Live' = Live
    BY <2>1 DEF Live, AsSeen, AsStored
  <2>3. \A p \in Places, k \in Keys :
          /\ <<p, k>> \in todo' <=> store[p][k] # None
          /\ rows'[p][k] = None
    BY <1>3 DEF BeginSave, Cleared, NothingStored, NoEntries
  <2>4. \A p \in Places, k \in Keys : Disk'[p][k] = Live[p][k]
    BY <2>1, <2>3 DEF Disk, Live, AsSeen, AsStored
  <2>5. Disk' = Live
    BY <2>4 DEF Disk, Live
  <2> QED BY <2>1, <2>2, <2>5 DEF Durable!BeginSave, Live, Disk
<1>4. ASSUME NEW p \in Places, NEW k \in Keys, SaveRow(p, k)
      PROVE  UNCHANGED Durable!vars
  <2>1. /\ <<p, k>> \in todo
        /\ rows' = [rows EXCEPT ![p] = [@ EXCEPT ![k] = AsStored(store[p][k])]]
        /\ todo' = todo \ {<<p, k>>}
        /\ UNCHANGED <<store, phase, outcome>>
    BY <1>4 DEF SaveRow, memory
  <2>2. rows \in Stored /\ store[p][k] # None
    BY <2>1 DEF IInv, StoresOK, SavingOK
  <2>3. \A q \in Places, l \in Keys :
          rows'[q][l] = IF q = p /\ l = k THEN AsSeen(store[p][k]) ELSE rows[q][l]
    BY <2>1, <2>2 DEF Stored, AsSeen
  <2>4. \A q \in Places, l \in Keys : Disk'[q][l] = Disk[q][l]
    BY <2>1, <2>3 DEF Disk, AsSeen, AsStored
  <2>5. Disk' = Disk
    BY <2>4 DEF Disk
  <2>6. Live' = Live
    BY <2>1 DEF Live, AsSeen, AsStored
  <2> QED BY <2>1, <2>5, <2>6 DEF Durable!vars, Live, Disk
<1>5. ASSUME EndSave
      PROVE  Durable!EndSave
  <2>1. Live' = Live /\ Disk' = Disk
    BY <1>5 DEF EndSave, Live, Disk, AsSeen, AsStored
  <2> QED BY <1>5, <2>1 DEF EndSave, Durable!EndSave, Live, Disk
<1>6. ASSUME FailSave
      PROVE  Durable!AbandonSave
  <2>1. Live' = Live
    BY <1>6 DEF FailSave, Live, AsSeen, AsStored
  <2>2. Durable!IsPart(Disk', Disk)
    BY <1>6, CutShort DEF FailSave
  <2> QED BY <1>6, <2>1, <2>2 DEF FailSave, Durable!AbandonSave, Live, Disk
<1>7. ASSUME Crash
      PROVE  Durable!Crash
  <2>1. Live' = Durable!Nothing
    BY <1>7 DEF Crash, Vanish, NothingStored, NoEntries, Live, AsSeen, Durable!Nothing
  <2>2. Durable!IsPart(Disk', Disk)
    BY <1>7, CutShort DEF Crash
  <2>3. phase # "saving" => Disk' = Disk
    BY <1>1, <1>7 DEF Crash, Disk
  <2> QED BY <1>7, <2>1, <2>2, <2>3 DEF Crash, Durable!Crash, Live, Disk
<1>8. ASSUME Start
      PROVE  Durable!Start
  <2>1. Live' = Live /\ Disk' = Disk
    BY <1>8 DEF Start, tables, Live, Disk, AsSeen, AsStored
  <2> QED BY <1>8, <2>1 DEF Start, Durable!Start, Live, Disk
<1>9. ASSUME UNCHANGED vars
      PROVE  UNCHANGED Durable!vars
  <2>1. Live' = Live /\ Disk' = Disk
    BY <1>9 DEF vars, memory, tables, Live, Disk, AsSeen, AsStored
  <2> QED BY <1>9, <2>1 DEF vars, memory, Durable!vars, Live, Disk
<1> QED
  BY <1>2, <1>3, <1>4, <1>5, <1>6, <1>7, <1>8, <1>9, LoadMaps
     DEF Next, Restore, Durable!Next

(***************************************************************************)
(* The persistence layer implements DurableMemory: after any sequence of   *)
(* saves, failures, crashes and restarts, what a restore brings back is    *)
(* what the last save began with, or a part of it.                         *)
(***************************************************************************)
THEOREM MemoryIsDurable ==
  ASSUME PersistenceAssumption
  PROVE  Spec => KeepsPromise
<1>1. Init => IInv /\ Durable!Init
  BY InvInit, InitMaps
<1>2. IInv /\ [Next]_vars => IInv'
  BY InvNext
<1>3. IInv /\ [Next]_vars => [Durable!Next]_(Durable!vars)
  BY StepMaps
<1> QED BY <1>1, <1>2, <1>3, PTL DEF Spec, KeepsPromise, Durable!Spec

-----------------------------------------------------------------------------
(* Places that do not exist hold nothing, and spaces of agents are open.    *)
PlacesOK ==
  /\ capacity \in [Places -> Nat]
  /\ access \in [Places -> SUBSET Callers]
  /\ \A p \in Places \ spaces, k \in Keys : store[p][k] = None
  /\ \A a \in Agents : access[a] = {}

LInv == IInv /\ PlacesOK /\ WithinLimits

\* Fewer entries in a place need no more room.
LEMMA FewerEntries ==
  ASSUME PersistenceAssumption, NEW S \in SUBSET Keys, NEW T \in SUBSET S, NEW n \in Nat,
         Cardinality(S) <= n
  PROVE  Cardinality(T) <= n
<1>1. IsFiniteSet(S)
  BY FS_Subset DEF PersistenceAssumption, MemoryAssumption
<1>2. Cardinality(T) <= Cardinality(S) /\ Cardinality(S) \in Nat /\ Cardinality(T) \in Nat
  BY <1>1, FS_Subset, FS_CardinalityType
<1> QED BY <1>2

\* Entries that are dropped leave everything within the limits.
LEMMA LimitsForget ==
  ASSUME PersistenceAssumption, LInv, UNCHANGED <<capacity, access, spaces>>,
         \A p \in Places, k \in Keys : store'[p][k] \in {None, store[p][k]}
  PROVE  PlacesOK' /\ WithinLimits'
<1>1. PlacesOK'
  BY DEF LInv, PlacesOK
<1>2. ASSUME NEW p \in Places
      PROVE  Cardinality(Used(p)') <= capacity'[p]
  <2>1. Used(p)' \in SUBSET Used(p) /\ Used(p) \in SUBSET Keys
    BY DEF Used
  <2>2. Cardinality(Used(p)) <= capacity[p] /\ capacity[p] \in Nat
    BY DEF LInv, PlacesOK, WithinLimits
  <2> QED BY <2>1, <2>2, FewerEntries
<1>3. ASSUME NEW p \in Places, NEW k \in Used(p)', access'[p] # {}
      PROVE  store'[p][k].owner \in access'[p]
  BY <1>3 DEF LInv, WithinLimits, Used
<1> QED BY <1>1, <1>2, <1>3 DEF WithinLimits, Used

\* So does a place that is made anew, without entries.
LEMMA LimitsCreate ==
  ASSUME PersistenceAssumption, LInv, NEW q \in Places, NEW c \in Nat,
         NEW list \in SUBSET Callers, q \in Agents => list = {},
         spaces \subseteq spaces' \cup {q}, capacity' = [capacity EXCEPT ![q] = c],
         access' = [access EXCEPT ![q] = list],
         store' = [store EXCEPT ![q] = NoEntries]
  PROVE  PlacesOK' /\ WithinLimits'
<1>1. /\ capacity \in [Places -> Nat]
      /\ access \in [Places -> SUBSET Callers]
      /\ store \in Stored
  BY DEF LInv, IInv, StoresOK, PlacesOK
<1>2. \A p \in Places : p # q =>
        store'[p] = store[p] /\ capacity'[p] = capacity[p] /\ access'[p] = access[p]
  BY <1>1 DEF Stored
<1>3. \A k \in Keys : store'[q][k] = None
  BY <1>1 DEF Stored, NoEntries
<1>4. PlacesOK'
  <2>1. capacity' \in [Places -> Nat] /\ access' \in [Places -> SUBSET Callers]
    BY <1>1
  <2>2. \A p \in Places \ spaces', k \in Keys : store'[p][k] = None
    BY <1>2, <1>3 DEF LInv, PlacesOK
  <2>3. \A a \in Agents : access'[a] = {}
    BY <1>1, <1>2 DEF LInv, PlacesOK, Places
  <2> QED BY <2>1, <2>2, <2>3 DEF PlacesOK
<1>5. Used(q)' = {} /\ capacity'[q] = c
  BY <1>1, <1>3 DEF Used
<1>6. \A p \in Places : p # q => Used(p)' = Used(p)
  BY <1>2 DEF Used
<1>7. \A p \in Places : Cardinality(Used(p)') <= capacity'[p]
  <2>1. Cardinality({}) <= c
    BY FS_EmptySet
  <2> QED BY <1>2, <1>5, <1>6, <2>1 DEF LInv, WithinLimits
<1>8. \A p \in Places : \A k \in Used(p)' :
        access'[p] # {} => store'[p][k].owner \in access'[p]
  BY <1>2, <1>5, <1>6 DEF LInv, WithinLimits
<1> QED BY <1>4, <1>7, <1>8 DEF WithinLimits, Used

\* And so does a write that found room and was allowed to its owner.
LEMMA LimitsWrite ==
  ASSUME PersistenceAssumption, LInv, NEW q \in Places, NEW k \in Keys, NEW e \in Entry,
         q \in spaces, Authorized(q, e.owner), WriteEntry(q, k, e)
  PROVE  PlacesOK' /\ WithinLimits'
<1>1. /\ capacity \in [Places -> Nat]
      /\ store \in Stored
      /\ UNCHANGED <<spaces, capacity, access>>
      /\ Put(q, k, e)
      /\ Room(q, k)
  BY DEF LInv, IInv, StoresOK, PlacesOK, WriteEntry
<1>2. \A p \in Places, l \in Keys :
        store'[p][l] = IF p = q /\ l = k THEN e ELSE store[p][l]
  BY <1>1 DEF Put, Stored
<1>3. PlacesOK'
  BY <1>1, <1>2 DEF LInv, PlacesOK
<1>4. e # None
  BY DEF PersistenceAssumption
<1>5. /\ Used(q)' = Used(q) \cup {k}
      /\ \A p \in Places : p # q => Used(p)' = Used(p)
  BY <1>2, <1>4 DEF Used
<1>6. Cardinality(Used(q) \cup {k}) <= capacity[q]
  <2>1. IsFiniteSet(Used(q))
    BY FS_Subset DEF Used, PersistenceAssumption, MemoryAssumption
  <2>2. Cardinality(Used(q)) \in Nat /\ capacity[q] \in Nat
    BY <1>1, <2>1, FS_CardinalityType
  <2>3. CASE k \in Used(q)
    <3>1. Used(q) \cup {k} = Used(q)
      BY <2>3
    <3> QED BY <3>1 DEF LInv, WithinLimits
  <2>4. CASE k \notin Used(q)
    <3>1. Cardinality(Used(q) \cup {k}) = Cardinality(Used(q)) + 1
      BY <2>1, <2>4, FS_AddElement
    <3>2. Cardinality(Used(q)) < capacity[q]
      BY <1>1, <2>4 DEF Room, Used
    <3> QED BY <2>2, <3>1, <3>2
  <2> QED BY <2>3, <2>4
<1>7. \A p \in Places : Cardinality(Used(p)') <= capacity'[p]
  BY <1>1, <1>5, <1>6 DEF LInv, WithinLimits
<1>8. \A p \in Places : \A l \in Used(p)' :
        access'[p] # {} => store'[p][l].owner \in access'[p]
  <2> SUFFICES ASSUME NEW p \in Places, NEW l \in Used(p)', access'[p] # {}
               PROVE  store'[p][l].owner \in access'[p]
    OBVIOUS
  <2>1. l \in Keys
    BY DEF Used
  <2>2. CASE p = q /\ l = k
    BY <1>1, <1>2, <2>2 DEF Authorized
  <2>3. CASE ~(p = q /\ l = k)
    <3>1. store'[p][l] = store[p][l] /\ l \in Used(p)
      BY <1>2, <1>5, <2>1, <2>3
    <3> QED BY <1>1, <3>1 DEF LInv, WithinLimits
  <2> QED BY <2>2, <2>3
<1> QED BY <1>3, <1>7, <1>8 DEF WithinLimits, Used

\* The rows that a load writes fit in, one after the other.
LEMMA LimitsLoad ==
  ASSUME PersistenceAssumption, LInv, Load
  PROVE  PlacesOK' /\ WithinLimits'
<1>1. PICK loaded \in Loadable :
        LET new == {x[1] : x \in loaded} \ spaces
        IN /\ spaces' = spaces \cup new
           /\ capacity' = [p \in Places |->
                             IF p \in new THEN LoadCapacity(p) ELSE capacity[p]]
           /\ access' = [p \in Places |-> IF p \in new THEN {} ELSE access[p]]
           /\ store' = [p \in Places |-> [k \in Keys |->
                          IF <<p, k>> \in loaded THEN rows[p][k] ELSE store[p][k]]]
  BY DEF Load
<1> DEFINE new == {x[1] : x \in loaded} \ spaces
           put(p) == {k \in Keys : <<p, k>> \in loaded}
<1>2. loaded \subseteq Saved /\ Fits(loaded)
  BY DEF Loadable
<1>3. /\ capacity \in [Places -> Nat]
      /\ access \in [Places -> SUBSET Callers]
      /\ \A p \in Places \ spaces, k \in Keys : store[p][k] = None
      /\ \A a \in Agents : access[a] = {}
  BY DEF LInv, PlacesOK
<1>4. \A p \in Places : LoadCapacity(p) \in Nat
  BY <1>3 DEF LoadCapacity, PersistenceAssumption, MemoryAssumption
<1>5. \A p \in Places, k \in Keys :
        store'[p][k] = IF <<p, k>> \in loaded THEN rows[p][k] ELSE store[p][k]
  BY <1>1
<1>6. \A p \in Places, k \in Keys :
        <<p, k>> \in loaded => rows[p][k] # None /\ (p \in spaces \/ p \in new)
  BY <1>2 DEF Saved
<1>7. \A p \in Places : Used(p)' = Used(p) \cup put(p)
  BY <1>5, <1>6 DEF Used
<1>8. \A p \in Places : p \notin new => capacity'[p] = capacity[p] /\ access'[p] = access[p]
  BY <1>1
<1>9. \A p \in Places : p \in new => capacity'[p] = LoadCapacity(p) /\ access'[p] = {}
  BY <1>1
<1>10. PlacesOK'
  <2>1. capacity' \in [Places -> Nat] /\ access' \in [Places -> SUBSET Callers]
    BY <1>1, <1>3, <1>4
  <2>2. \A p \in Places \ spaces', k \in Keys : store'[p][k] = None
    BY <1>1, <1>3, <1>5, <1>6
  <2>3. \A a \in Agents : access'[a] = {}
    BY <1>1, <1>3 DEF Places
  <2> QED BY <2>1, <2>2, <2>3 DEF PlacesOK
<1>11. ASSUME NEW p \in Places
       PROVE  Cardinality(Used(p)') <= capacity'[p]
  <2>1. \/ put(p) \subseteq Used(p)
        \/ Cardinality(Used(p) \cup put(p)) <= LoadCapacity(p)
    BY <1>2 DEF Fits
  <2>2. CASE put(p) \subseteq Used(p)
    <3>1. Used(p)' = Used(p)
      BY <1>7, <2>2
    <3>2. CASE p \notin new
      BY <1>8, <3>1, <3>2 DEF LInv, WithinLimits
    <3>3. CASE p \in new
      <4>1. Used(p) = {}
        BY <1>3, <3>3 DEF Used
      <4> QED BY <1>4, <1>9, <3>1, <3>3, <4>1, FS_EmptySet
    <3> QED BY <3>2, <3>3
  <2>3. CASE Cardinality(Used(p) \cup put(p)) <= LoadCapacity(p)
    <3>1. CASE p \in new
      BY <1>7, <1>9, <2>3, <3>1
    <3>2. CASE p \notin new /\ p \in spaces
      BY <1>7, <1>8, <2>3, <3>2 DEF LoadCapacity
    <3>3. CASE p \notin new /\ p \notin spaces
      <4>1. put(p) = {}
        BY <1>6, <3>3
      <4> QED BY <1>7, <1>8, <3>3, <4>1 DEF LInv, WithinLimits
    <3> QED BY <3>1, <3>2, <3>3
  <2> QED BY <2>1, <2>2, <2>3
<1>12. ASSUME NEW p \in Places, NEW k \in Used(p)', access'[p] # {}
       PROVE  store'[p][k].owner \in access'[p]
  <2>1. k \in Keys /\ p \notin new /\ access'[p] = access[p]
    BY <1>8, <1>9, <1>12 DEF Used
  <2>2. CASE <<p, k>> \in loaded
    <3>1. Authorized(<<p, k>>[1], rows[<<p, k>>[1]][<<p, k>>[2]].owner)
      BY <1>2, <2>2 DEF Fits
    <3> QED BY <1>5, <1>12, <2>1, <2>2, <3>1 DEF Authorized
  <2>3. CASE <<p, k>> \notin loaded
    BY <1>5, <1>7, <1>12, <2>1, <2>3 DEF LInv, WithinLimits
  <2> QED BY <2>2, <2>3
<1> QED BY <1>10, <1>11, <1>12 DEF WithinLimits, Used

LEMMA LimitsMemoryNext ==
  ASSUME PersistenceAssumption, LInv, MemoryNext
  PROVE  PlacesOK' /\ WithinLimits'
<1>1. /\ store \in Stored /\ now \in 0 .. MaxTick /\ MaxTick \in Nat
      /\ capacity \in [Places -> Nat]
  BY DEF LInv, IInv, StoresOK, PlacesOK, PersistenceAssumption, MemoryAssumption
<1>2. Capacities \subseteq Nat /\ AccessLists \subseteq SUBSET Callers
  BY DEF PersistenceAssumption, MemoryAssumption
<1>3. Agents \cap Regions = {} /\ Agents \subseteq Places /\ Regions \subseteq Places
      /\ Agents \subseteq Callers
  BY DEF PersistenceAssumption, MemoryAssumption, Places, Callers
<1> DEFINE Goal == PlacesOK' /\ WithinLimits'
<1>4. ASSUME Raise
      PROVE  Goal
  BY <1>4, LimitsForget DEF Raise
<1>5. ASSUME NEW p \in Places, NEW k \in Keys, Put(p, k, None),
             UNCHANGED <<capacity, access, spaces>>
      PROVE  Goal
  <2>1. \A q \in Places, l \in Keys : store'[q][l] \in {None, store[q][l]}
    BY <1>1, <1>5 DEF Put, Stored
  <2> QED BY <1>5, <2>1, LimitsForget
<1>6. ASSUME NEW a \in Agents, CreateAgentSpace(a)
      PROVE  Goal
  <2>1. PICK c \in Capacities : Create(a, c, {})
    BY <1>6 DEF CreateAgentSpace
  <2>2. spaces \subseteq spaces' \cup {a}
    BY <2>1 DEF Create
  <2>3. c \in Nat /\ a \in Places /\ {} \in SUBSET Callers
    BY <1>2, <1>3
  <2>4. /\ capacity' = [capacity EXCEPT ![a] = c]
        /\ access' = [access EXCEPT ![a] = {}]
        /\ store' = [store EXCEPT ![a] = NoEntries]
    BY <2>1 DEF Create
  <2> QED BY <2>2, <2>3, <2>4, LimitsCreate
<1>7. ASSUME NEW r \in Regions, CreateSharedRegion(r)
      PROVE  Goal
  <2>1. PICK c \in Capacities, list \in AccessLists : Create(r, c, list)
    BY <1>7 DEF CreateSharedRegion
  <2>2. spaces \subseteq spaces' \cup {r}
    BY <2>1 DEF Create
  <2>3. r \in Places /\ r \notin Agents
    BY <1>3
  <2>4. c \in Nat /\ list \in SUBSET Callers
    BY <1>2
  <2>5. /\ capacity' = [capacity EXCEPT ![r] = c]
        /\ access' = [access EXCEPT ![r] = list]
        /\ store' = [store EXCEPT ![r] = NoEntries]
    BY <2>1 DEF Create
  <2> QED BY <2>2, <2>3, <2>4, <2>5, LimitsCreate
<1>8. ASSUME NEW a \in Agents, DeleteAgentSpace(a)
      PROVE  Goal
  <2>1. access' = [access EXCEPT ![a] = {}]
    BY <1>8 DEF DeleteAgentSpace, LInv, PlacesOK
  <2>2. spaces \subseteq spaces' \cup {a} /\ a \in Places
    BY <1>3, <1>8 DEF DeleteAgentSpace
  <2> QED BY <1>8, <2>1, <2>2, LimitsCreate DEF DeleteAgentSpace
<1>9. ASSUME NEW v \in Written, NEW life \in Lifetimes, NEW type \in Types,
             NEW a \in Callers, NEW p \in spaces \cap Places, NEW k \in Keys,
             Authorized(p, a),
             WriteEntry(p, k, [value |-> v, type |-> type, created |-> now,
                               ttl |-> life[2], owner |-> a])
      PROVE  Goal
  <2>1. PICK e : e = [value |-> v, type |-> type, created |-> now,
                      ttl |-> life[2], owner |-> a]
    OBVIOUS
  <2>2. e \in Entry /\ e.owner = a
    BY <1>1, <2>1 DEF Entry, PersistenceAssumption, MemoryAssumption
  <2> QED BY <1>9, <2>1, <2>2, LimitsWrite
<1>10. ASSUME NEW a \in Agents, NEW k \in Keys, AgentWrite(a, k)
       PROVE  Goal
  <2>1. ASSUME NEW life \in Lifetimes
        PROVE  life[1] \in Types
    BY DEF PersistenceAssumption, MemoryAssumption, Types
  <2>2. Authorized(a, a)
    BY DEF Authorized, LInv, PlacesOK
  <2> QED BY <1>3, <1>4, <1>9, <1>10, <2>1, <2>2 DEF AgentWrite
<1>11. ASSUME NEW r \in Regions, NEW a \in Callers, NEW k \in Keys, SharedWrite(r, a, k)
       PROVE  Goal
  <2>1. r \in Places /\ "SHARED" \in Types
    BY <1>3 DEF Types
  <2> QED BY <1>4, <1>9, <1>11, <2>1 DEF SharedWrite
<1>12. ASSUME NEW p \in Places, NEW a, NEW k \in Keys, Delete(p, a, k)
       PROVE  Goal
  BY <1>4, <1>5, <1>12 DEF Delete
<1>13. ASSUME NEW p \in Places, NEW k \in Keys, ReadExpired(p, k)
       PROVE  Goal
  BY <1>5, <1>13 DEF ReadExpired
<1>14. ASSUME GcTick
       PROVE  Goal
  <2>1. \A q \in Places, l \in Keys : store'[q][l] \in {None, store[q][l]}
    BY <1>14 DEF GcTick
  <2> QED BY <1>14, <2>1, LimitsForget DEF GcTick
<1>15. ASSUME Tick
       PROVE  Goal
  BY <1>15, LimitsForget DEF Tick
<1> HIDE DEF Goal
<1>16. Goal
  BY <1>3, <1>6, <1>7, <1>8, <1>10, <1>11, <1>12, <1>13, <1>14, <1>15 DEF MemoryNext
<1> QED BY <1>16 DEF Goal

LEMMA LimitsNext ==
  ASSUME PersistenceAssumption, LInv, [Next]_vars
  PROVE  LInv'
<1>1. IInv'
  BY InvNext DEF LInv
<1>2. CASE MemoryNext
  BY <1>1, <1>2, LimitsMemoryNext DEF LInv
<1>3. CASE UNCHANGED <<spaces, capacity, access, store>>
  <2>1. PlacesOK' /\ WithinLimits'
    BY <1>3, LimitsForget
  <2> QED BY <1>1, <2>1 DEF LInv
<1>4. CASE Load
  BY <1>1, <1>4, LimitsLoad DEF LInv
<1>5. CASE Crash
  <2>1. PlacesOK'
    BY <1>5 DEF Crash, Vanish, PlacesOK, NothingStored, NoEntries, Places
  <2>2. \A p \in Places : Used(p)' = {} /\ capacity'[p] = 0
    BY <1>5 DEF Crash, Vanish, Used, NothingStored, NoEntries
  <2>3. WithinLimits'
    BY <2>2, FS_EmptySet DEF WithinLimits
  <2> QED BY <1>1, <2>1, <2>3 DEF LInv
<1> QED
  BY <1>2, <1>3, <1>4, <1>5
     DEF Next, BeginSave, SaveRow, EndSave, FailSave, Restore, Start, memory, vars

(***************************************************************************)
(* Capacities and access lists hold in every state, whatever is loaded     *)
(* over what the memory holds, and however often places are made again.    *)
(***************************************************************************)
THEOREM AlwaysWithinLimits ==
  ASSUME PersistenceAssumption
  PROVE  Spec => []WithinLimits
<1>1. Init => LInv
  <2> SUFFICES ASSUME Init PROVE LInv
    OBVIOUS
  <2>1. IInv
    BY InvInit
  <2>2. PlacesOK
    BY DEF Init, MemoryInit, PlacesOK, NothingStored, NoEntries, Places
  <2>3. \A p \in Places : Used(p) = {} /\ capacity[p] = 0
    BY DEF Init, MemoryInit, Used, NothingStored, NoEntries
  <2>4. WithinLimits
    BY <2>3, FS_EmptySet DEF WithinLimits
  <2> QED BY <2>1, <2>2, <2>4 DEF LInv
<1>2. LInv /\ [Next]_vars => LInv'
  BY LimitsNext
<1>3. LInv => WithinLimits
  BY DEF LInv
<1> QED BY <1>1, <1>2, <1>3, PTL DEF Spec

-----------------------------------------------------------------------------
(* Capabilities.  A capability that was delegated has a source: a grant by  *)
(* the kernel or a policy that is delegatable, of the same type and pattern,*)
(* and expires no earlier.  Sources only ever change by being revoked.      *)

NotEarlier(e, d) == e = Never \/ (d # Never /\ d <= e)

IsSource(g, c) ==
  /\ g.by = Kernel
  /\ g.delegatable
  /\ g.type = c.type
  /\ g.pattern = c.pattern
  /\ NotEarlier(g.expires, c.expires)

Sourced ==
  \A c \in DOMAIN caps :
    caps[c].by = Kernel \/ \E g \in DOMAIN caps : IsSource(caps[g], caps[c])

\* What is in the set of an agent was granted or delegated to that agent.
Owned == \A a \in Holders : \A c \in held[a] : caps[c].to = a

AccessInv == TypeOK /\ Owned /\ Sourced

-----------------------------------------------------------------------------
\* check allows what is held and active; its source allows it as well.
LEMMA AccessInvImplies ==
  ASSUME CapabilitiesAssumption, AccessInv
  PROVE  NoAmplification
<1> SUFFICES ASSUME NEW a \in Holders, NEW type \in CapTypes,
                    NEW resource \in Resources, Check(a, type, resource, capTick)
             PROVE  \E g \in DOMAIN caps :
                      /\ Root(g)
                      /\ Grants(g, type, resource)
                      /\ ~ExpiredAt(g, capTick)
                      /\ caps[g].to = a \/ caps[g].delegatable
  BY DEF NoAmplification
<1>1. PICK c \in held[a] : Active(c, capTick) /\ Grants(c, type, resource)
  BY DEF Check
<1>2. c \in DOMAIN caps /\ caps[c].to = a
  BY DEF AccessInv, TypeOK, Owned
<1>3. CASE caps[c].by = Kernel
  BY <1>1, <1>2, <1>3 DEF Root, Active
<1>4. CASE \E g \in DOMAIN caps : IsSource(caps[g], caps[c])
  <2>1. PICK g \in DOMAIN caps : IsSource(caps[g], caps[c])
    BY <1>4
  <2>2. Root(g) /\ caps[g].delegatable /\ Grants(g, type, resource)
    BY <1>1, <2>1 DEF IsSource, Root, Grants
  <2>3. caps[g] \in Capability /\ caps[c] \in Capability
    BY <1>2, ElementOfSeq DEF AccessInv, TypeOK
  <2>4. ~ExpiredAt(g, capTick)
    BY <1>1, <2>1, <2>3
       DEF IsSource, NotEarlier, Active, ExpiredAt, Capability, AccessInv, TypeOK,
           CapabilitiesAssumption
  <2> QED BY <2>2, <2>4
<1> QED BY <1>2, <1>3, <1>4 DEF AccessInv, Sourced

-----------------------------------------------------------------------------
\* New capabilities that are grants or have a source keep the invariant.
LEMMA IssueKeeps ==
  ASSUME AccessInv, NEW a \in Holders, NEW new \in Seq(Capability), Issue(a, new),
         \A i \in DOMAIN new :
           /\ new[i].to = a
           /\ new[i].by = Kernel \/ \E g \in DOMAIN caps : IsSource(caps[g], new[i])
  PROVE  AccessInv'
<1> DEFINE n == Len(caps)
           m == Len(new)
<1>1. /\ caps \in Seq(Capability)
      /\ held \in [Holders -> SUBSET DOMAIN caps]
      /\ capTick \in Nat
  BY DEF AccessInv, TypeOK
<1>2. /\ n \in Nat /\ m \in Nat
      /\ DOMAIN caps = 1 .. n /\ DOMAIN new = 1 .. m
  BY <1>1
<1>3. /\ caps' \in Seq(Capability)
      /\ Len(caps') = n + m
      /\ \A i \in 1 .. n + m : caps'[i] = IF i <= n THEN caps[i] ELSE new[i - n]
  BY <1>1, ConcatProperties DEF Issue
<1>4. DOMAIN caps' = 1 .. n + m
  BY <1>3
<1>5. \A i \in DOMAIN caps : i \in DOMAIN caps' /\ caps'[i] = caps[i]
  BY <1>2, <1>3, <1>4
<1>6. \A i \in DOMAIN caps' \ DOMAIN caps :
        i - n \in DOMAIN new /\ caps'[i] = new[i - n]
  BY <1>2, <1>3, <1>4
<1>7. held' = [held EXCEPT ![a] = @ \cup (n + 1 .. n + m)] /\ capTick' = capTick
  BY DEF Issue
<1>8. TypeOK'
  <2>1. n + 1 .. n + m \subseteq 1 .. n + m
    BY <1>2
  <2>2. held' \in [Holders -> SUBSET DOMAIN caps']
    BY <1>1, <1>2, <1>4, <1>5, <1>7, <2>1
  <2> QED BY <1>1, <1>3, <1>7, <2>2 DEF TypeOK
<1>9. Owned'
  <2> SUFFICES ASSUME NEW x \in Holders, NEW c \in held'[x]
               PROVE  caps'[c].to = x
    BY DEF Owned
  <2>1. CASE c \in held[x]
    BY <1>1, <1>5, <2>1 DEF AccessInv, Owned
  <2>2. CASE c \notin held[x]
    <3>1. x = a /\ c \in n + 1 .. n + m
      BY <1>1, <1>7, <2>2
    <3>2. c \in DOMAIN caps' \ DOMAIN caps
      BY <1>2, <1>4, <3>1
    <3> QED BY <1>6, <3>1, <3>2
  <2> QED BY <2>1, <2>2
<1>10. Sourced'
  <2> SUFFICES ASSUME NEW c \in DOMAIN caps'
               PROVE  \/ caps'[c].by = Kernel
                      \/ \E g \in DOMAIN caps' : IsSource(caps'[g], caps'[c])
    BY DEF Sourced, IsSource, NotEarlier
  <2>1. CASE c \in DOMAIN caps
    BY <1>5, <2>1 DEF AccessInv, Sourced
  <2>2. CASE c \notin DOMAIN caps
    BY <1>5, <1>6, <2>2
  <2> QED BY <2>1, <2>2
<1> QED BY <1>8, <1>9, <1>10 DEF AccessInv

\* So does a step that revokes capabilities and takes some from their sets.
LEMMA RevocationKeeps ==
  ASSUME AccessInv, capTick' \in Nat, caps' \in Seq(Capability), DOMAIN caps' = DOMAIN caps,
         held' \in [Holders -> SUBSET DOMAIN caps],
         \A a \in Holders : held'[a] \subseteq held[a],
         \A c \in DOMAIN caps :
           caps'[c] = caps[c] \/ caps'[c] = [caps[c] EXCEPT !.revoked = TRUE]
  PROVE  AccessInv'
<1>1. \A c \in DOMAIN caps : caps[c] \in Capability
  BY ElementOfSeq DEF AccessInv, TypeOK
<1>2. \A c \in DOMAIN caps :
        /\ caps'[c].to = caps[c].to
        /\ caps'[c].by = caps[c].by
        /\ caps'[c].type = caps[c].type
        /\ caps'[c].pattern = caps[c].pattern
        /\ caps'[c].expires = caps[c].expires
        /\ caps'[c].delegatable = caps[c].delegatable
  BY <1>1 DEF Capability
<1>3. TypeOK'
  BY DEF TypeOK
<1>4. Owned'
  BY <1>2 DEF AccessInv, TypeOK, Owned
<1>5. \A g \in DOMAIN caps, c \in DOMAIN caps :
        IsSource(caps[g], caps[c]) => IsSource(caps'[g], caps'[c])
  BY <1>2 DEF IsSource, NotEarlier
<1>6. Sourced'
  BY <1>2, <1>5 DEF AccessInv, Sourced
<1> QED BY <1>3, <1>4, <1>6 DEF AccessInv
-----------------------------------------------------------------------------
LEMMA AccessInvInit == AccessInit => AccessInv
<1> SUFFICES ASSUME AccessInit PROVE AccessInv
  OBVIOUS
<1>1. caps = << >> /\ DOMAIN caps = {}
  BY DEF AccessInit
<1>2. TypeOK
  BY <1>1 DEF AccessInit, TypeOK
<1> QED BY <1>1, <1>2 DEF AccessInit, AccessInv, Owned, Sourced

\* A delegated capability expires no later than its source, transitively.
LEMMA DelegateKeeps ==
  ASSUME CapabilitiesAssumption, AccessInv, NEW a \in Holders, NEW target \in Holders,
         NEW c \in DOMAIN caps, Delegate(a, c, target)
  PROVE  AccessInv'
<1>1. PICK e \in Expiries \cup {Never}, d \in BOOLEAN :
        Issue(target, << [type |-> caps[c].type, pattern |-> caps[c].pattern,
                          to |-> target, by |-> a,
                          expires |-> Narrower(e, caps[c].expires),
                          delegatable |-> d, revoked |-> FALSE] >>)
  BY DEF Delegate
<1>2. caps[c] \in Capability
  BY ElementOfSeq DEF AccessInv, TypeOK
<1>3. PICK new : new = [type |-> caps[c].type, pattern |-> caps[c].pattern,
                        to |-> target, by |-> a,
                        expires |-> Narrower(e, caps[c].expires),
                        delegatable |-> d, revoked |-> FALSE]
  OBVIOUS
<1>4. e \in Nat \cup {Never} /\ Never \notin Nat
  BY DEF CapabilitiesAssumption
<1>5. new.expires = Narrower(e, caps[c].expires)
  BY <1>3
<1>6. caps[c].expires \in Nat \cup {Never}
  BY <1>2 DEF Capability
<1>7. /\ new.expires \in Nat \cup {Never}
      /\ NotEarlier(caps[c].expires, new.expires)
  BY <1>4, <1>5, <1>6 DEF Narrower, NotEarlier
<1>8. new \in Capability
  BY <1>2, <1>3, <1>7 DEF Capability
<1>9. \E g \in DOMAIN caps : IsSource(caps[g], new)
  <2>1. CASE caps[c].by = Kernel
    BY <1>3, <1>7, <2>1 DEF Delegate, IsSource
  <2>2. CASE \E g \in DOMAIN caps : IsSource(caps[g], caps[c])
    <3>1. PICK g \in DOMAIN caps : IsSource(caps[g], caps[c])
      BY <2>2
    <3>2. caps[g] \in Capability
      BY ElementOfSeq DEF AccessInv, TypeOK
    <3>3. caps[g].expires \in Nat \cup {Never}
      BY <3>2 DEF Capability
    <3>4. NotEarlier(caps[g].expires, new.expires)
      BY <1>4, <1>6, <1>7, <3>1, <3>3 DEF NotEarlier, IsSource
    <3> QED BY <1>3, <3>1, <3>4 DEF IsSource
  <2> QED BY <2>1, <2>2 DEF AccessInv, Sourced
<1>10. Issue(target, <<new>>)
  BY <1>1, <1>3
<1>11. <<new>> \in Seq(Capability) /\ DOMAIN <<new>> = {1} /\ <<new>>[1] = new
  BY <1>8
<1>12. new.to = target
  BY <1>3
<1> QED BY <1>9, <1>10, <1>11, <1>12, IssueKeeps

LEMMA AccessInvNext ==
  ASSUME CapabilitiesAssumption, AccessInv, [AccessNext]_authority
  PROVE  AccessInv'
<1>1. ASSUME NEW a \in Holders, Grant(a)
      PROVE  AccessInv'
  <2>1. PICK type \in PlainTypes, pattern \in Patterns, d \in BOOLEAN,
             e \in Expiries \cup {Never} :
          Issue(a, << [type |-> type, pattern |-> pattern, to |-> a, by |-> Kernel,
                       expires |-> e, delegatable |-> d, revoked |-> FALSE] >>)
    BY <1>1 DEF Grant
  <2>2. PICK new : new = [type |-> type, pattern |-> pattern, to |-> a, by |-> Kernel,
                          expires |-> e, delegatable |-> d, revoked |-> FALSE]
    OBVIOUS
  <2>3. new \in Capability
    BY <2>2 DEF Capability, CapTypes, CapabilitiesAssumption
  <2>4. Issue(a, <<new>>)
    BY <2>1, <2>2
  <2>5. <<new>> \in Seq(Capability) /\ DOMAIN <<new>> = {1} /\ <<new>>[1] = new
    BY <2>3
  <2>6. new.to = a /\ new.by = Kernel
    BY <2>2
  <2> QED BY <2>4, <2>5, <2>6, IssueKeeps
<1>2. ASSUME NEW a \in Holders, Apply(a)
      PROVE  AccessInv'
  <2>1. PICK new : new = [i \in DOMAIN Policy[a] |->
                            [type |-> Policy[a][i].type, pattern |-> Policy[a][i].pattern,
                             to |-> a, by |-> Kernel, expires |-> Never,
                             delegatable |-> Policy[a][i].delegatable,
                             revoked |-> FALSE]]
    OBVIOUS
  <2>2. Policy[a] \in Seq([type : CapTypes, pattern : Patterns, delegatable : BOOLEAN])
    BY DEF CapabilitiesAssumption
  <2>3. \A i \in DOMAIN Policy[a] :
          Policy[a][i] \in [type : CapTypes, pattern : Patterns, delegatable : BOOLEAN]
    <3> DEFINE R == [type : CapTypes, pattern : Patterns, delegatable : BOOLEAN]
               s == Policy[a]
    <3>1. s \in Seq(R)
      BY <2>2
    <3> HIDE DEF R, s
    <3>2. \A i \in DOMAIN s : s[i] \in R
      BY <3>1
    <3> QED BY <3>2 DEF R, s
  <2>4. \A i \in DOMAIN new :
          new[i] \in Capability /\ new[i].to = a /\ new[i].by = Kernel
    BY <2>1, <2>3 DEF Capability
  <2>5. DOMAIN new = 1 .. Len(Policy[a]) /\ Len(Policy[a]) \in Nat
    BY <2>1, <2>2
  <2>6. new \in Seq(Capability)
    <3>1. new \in [1 .. Len(Policy[a]) -> Capability]
      BY <2>1, <2>4, <2>5
    <3> QED BY <2>5, <3>1
  <2>7. Issue(a, new)
    BY <1>2, <2>1 DEF Apply
  <2> QED BY <2>4, <2>6, <2>7, IssueKeeps
<1>3. ASSUME NEW a \in Holders, NEW target \in Holders, NEW c \in DOMAIN caps,
             Delegate(a, c, target)
      PROVE  AccessInv'
  BY <1>3, DelegateKeeps
<1>4. \A c \in DOMAIN caps :
        caps[c] \in Capability /\ [caps[c] EXCEPT !.revoked = TRUE] \in Capability
  <2>1. \A c \in DOMAIN caps : caps[c] \in Capability
    BY ElementOfSeq DEF AccessInv, TypeOK
  <2> QED BY <2>1 DEF Capability
<1>5. caps \in Seq(Capability) /\ held \in [Holders -> SUBSET DOMAIN caps] /\ capTick \in Nat
  BY DEF AccessInv, TypeOK
<1>6. ASSUME NEW c \in DOMAIN caps, Revoke(c)
      PROVE  AccessInv'
  <2>1. caps' \in Seq(Capability) /\ DOMAIN caps' = DOMAIN caps
    BY <1>4, <1>5, <1>6 DEF Revoke
  <2>2. \A x \in DOMAIN caps :
          caps'[x] = caps[x] \/ caps'[x] = [caps[x] EXCEPT !.revoked = TRUE]
    BY <1>5, <1>6 DEF Revoke
  <2> QED BY <1>5, <1>6, <2>1, <2>2, RevocationKeeps DEF Revoke
<1>7. ASSUME NEW a \in Holders, RevokeAll(a)
      PROVE  AccessInv'
  <2>1. caps' \in Seq(Capability) /\ DOMAIN caps' = DOMAIN caps
    BY <1>4, <1>5, <1>7 DEF RevokeAll
  <2> QED BY <1>5, <1>7, <2>1, RevocationKeeps DEF RevokeAll
<1>8. ASSUME ExpireCaps
      PROVE  AccessInv'
  <2>1. caps' \in Seq(Capability) /\ DOMAIN caps' = DOMAIN caps
    BY <1>4, <1>5, <1>8 DEF ExpireCaps
  <2> QED BY <1>5, <1>8, <2>1, RevocationKeeps DEF ExpireCaps
<1>9. ASSUME NEW a \in Holders, NEW c \in DOMAIN caps, Remove(a, c)
      PROVE  AccessInv'
  BY <1>5, <1>9, RevocationKeeps DEF Remove
<1>10. ASSUME NEW a \in Holders, Register(a)
       PROVE  AccessInv'
  BY <1>5, <1>10, RevocationKeeps DEF Register
<1>11. CASE AccessTick
  BY <1>5, <1>11, RevocationKeeps DEF AccessTick
<1>12. CASE UNCHANGED authority
  BY <1>5, <1>12, RevocationKeeps DEF authority
<1> QED
  BY <1>1, <1>2, <1>3, <1>6, <1>7, <1>8, <1>9, <1>10, <1>11, <1>12 DEF AccessNext

(***************************************************************************)
(* Whatever CapabilityManager.check allows goes back to a live-by-the-     *)
(* clock grant that allows it, whatever chain of delegations it came by.   *)
(***************************************************************************)
THEOREM NothingIsAmplified ==
  ASSUME CapabilitiesAssumption
  PROVE  AccessSpec => []NoAmplification
<1>1. AccessInit => AccessInv
  BY AccessInvInit
<1>2. AccessInv /\ [AccessNext]_authority => AccessInv'
  BY AccessInvNext
<1>3. AccessInv => NoAmplification
  BY AccessInvImplies
<1> QED BY <1>1, <1>2, <1>3, PTL DEF AccessSpec

\* What agents hold was issued, and what was issued is well-formed.
THEOREM AlwaysTyped ==
  ASSUME CapabilitiesAssumption
  PROVE  AccessSpec => []TypeOK
<1>1. AccessInit => AccessInv
  BY AccessInvInit
<1>2. AccessInv /\ [AccessNext]_authority => AccessInv'
  BY AccessInvNext
<1>3. AccessInv => TypeOK
  BY DEF AccessInv
<1> QED BY <1>1, <1>2, <1>3, PTL DEF AccessSpec
=============================================================================
