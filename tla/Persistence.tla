----------------------------- MODULE Persistence -----------------------------
(***************************************************************************)
(* PersistenceLayer with the memory manager it saves and restores.  Every  *)
(* statement commits on its own, and the process may stop in between.      *)
(* Everything runs on one thread, so nothing is written during a save.     *)
(***************************************************************************)
EXTENDS Memory

CONSTANTS
  Json,         \* what a value is after json.dumps and json.loads
  Checkpoints   \* checkpoint ids, taken from the clock

PersistenceAssumption ==
  /\ MemoryAssumption
  /\ Json \in [Values -> Values]
  /\ \A v \in Values : Json[Json[v]] = Json[v]
  /\ None \notin Entry

VARIABLES
  phase,  \* "up", "saving" or "down"
  rows,   \* memory_entries: rows[p][k] is the stored entry, or None
  todo,   \* entries that the save in progress has still to write
  label,  \* checkpoint that the save in progress belongs to, or None
  marks   \* checkpoints recorded in agent_state

tables == <<rows, todo, label, marks>>
vars == <<memory, phase, tables>>

-----------------------------------------------------------------------------
AsStored(e) == [e EXCEPT !.value = Json[@]]

AsSeen(e) == IF e = None THEN None ELSE AsStored(e)

\* Mutant of Cleared: the rows of earlier saves stay.
NothingCleared == rows

\* DELETE FROM memory_entries.
Cleared == NothingStored

\* save_memory_manager, up to its first commit.
BeginSave(mark) ==
  /\ phase = "up"
  /\ phase' = "saving"
  /\ rows' = Cleared
  /\ todo' = {x \in Places \X Keys : store[x[1]][x[2]] # None}
  /\ label' = mark
  /\ outcome' = "none"
  /\ UNCHANGED <<spaces, capacity, access, store, now, writes, marks>>

\* One INSERT OR REPLACE.  The owner is in the table's key, too, but a save
\* starts with an empty table and a place has one entry under a key.
SaveRow(p, k) ==
  /\ phase = "saving"
  /\ <<p, k>> \in todo
  /\ rows' = [rows EXCEPT ![p] = [@ EXCEPT ![k] = AsStored(store[p][k])]]
  /\ todo' = todo \ {<<p, k>>}
  /\ UNCHANGED <<memory, phase, label, marks>>

\* The record of a checkpoint is the last commit.
EndSave ==
  /\ phase = "saving"
  /\ todo = {}
  /\ phase' = "up"
  /\ label' = None
  /\ marks' = marks \cup ({label} \ {None})
  /\ outcome' = "saved"
  /\ UNCHANGED <<spaces, capacity, access, store, now, writes, rows, todo>>

\* A statement fails, because another process holds the database too long:
\* the commits so far remain.
FailSave ==
  /\ phase = "saving"
  /\ phase' = "up"
  /\ todo' = {}
  /\ label' = None
  /\ outcome' = "raised"
  /\ UNCHANGED <<spaces, capacity, access, store, now, writes, rows, marks>>

-----------------------------------------------------------------------------
Saved == {x \in Places \X Keys : rows[x[1]][x[2]] # None}

\* The capacity a place has, or is given when its first row is loaded.
LoadCapacity(p) ==
  IF p \in spaces THEN capacity[p]
  ELSE IF p \in Agents THEN AgentCapacity ELSE RegionCapacity

\* The rows in loaded can be written one after the other.
Fits(loaded) ==
  /\ \A p \in Places :
       LET new == {k \in Keys : <<p, k>> \in loaded}
       IN new \subseteq Used(p) \/ Cardinality(Used(p) \cup new) <= LoadCapacity(p)
  /\ \A x \in loaded : Authorized(x[1], rows[x[1]][x[2]].owner)

\* All rows, or as many as could be written before the first that could not.
Loadable ==
  {loaded \in SUBSET Saved :
     /\ Fits(loaded)
     /\ loaded = Saved \/ \E x \in Saved \ loaded : ~Fits(loaded \cup {x})}

\* load_memory_manager: rows go over what the memory holds, and places that
\* are missing are created, without the capacity and the access list they had.
Load ==
  /\ phase = "up"
  /\ \E loaded \in Loadable :
       LET new == {x[1] : x \in loaded} \ spaces
       IN /\ spaces' = spaces \cup new
          /\ capacity' = [p \in Places |->
                            IF p \in new THEN LoadCapacity(p) ELSE capacity[p]]
          /\ access' = [p \in Places |-> IF p \in new THEN {} ELSE access[p]]
          /\ store' = [p \in Places |-> [k \in Keys |->
                         IF <<p, k>> \in loaded THEN rows[p][k] ELSE store[p][k]]]
          /\ outcome' = IF loaded = Saved THEN "restored" ELSE "raised"
  /\ UNCHANGED <<now, writes, phase, tables>>

\* restore loads what the last save left, whichever checkpoint is named.
Restore(mark) == mark \in marks /\ Load

-----------------------------------------------------------------------------
\* The process ends; a save in progress ends with it.
Crash ==
  /\ phase # "down"
  /\ phase' = "down"
  /\ Vanish
  /\ todo' = {}
  /\ label' = None
  /\ outcome' = "none"
  /\ UNCHANGED <<writes, rows, marks>>

\* A new process with an empty memory manager, its clock at zero.
Start ==
  /\ phase = "down"
  /\ phase' = "up"
  /\ outcome' = "none"
  /\ UNCHANGED <<spaces, capacity, access, store, now, writes, tables>>

Init ==
  /\ MemoryInit
  /\ phase = "up"
  /\ rows = NothingStored
  /\ todo = {}
  /\ label = None
  /\ marks = {}

Next ==
  \/ phase = "up" /\ MemoryNext /\ UNCHANGED <<phase, tables>>
  \/ \E mark \in (Checkpoints \ marks) \cup {None} : BeginSave(mark)
  \/ \E p \in Places, k \in Keys : SaveRow(p, k)
  \/ EndSave
  \/ FailSave
  \/ Load
  \/ \E mark \in Checkpoints : Restore(mark)
  \/ Crash
  \/ Start

Spec == Init /\ [][Next]_vars

-----------------------------------------------------------------------------
\* From its first commit on, a save counts as done, except for what it never
\* comes to write.
Durable ==
  INSTANCE DurableMemory WITH
    live <- [p \in Places |-> [k \in Keys |-> AsSeen(store[p][k])]],
    disk <- [p \in Places |-> [k \in Keys |->
               IF <<p, k>> \in todo THEN AsSeen(store[p][k]) ELSE rows[p][k]]]

(***************************************************************************)
(* The memory is durable up to its last save: what a restore brings back,  *)
(* after whatever sequence of saves, failures, restarts and changes of     *)
(* spaces, is what the last save began with, and all of it unless that     *)
(* save was cut short or the restore raises.                               *)
(***************************************************************************)
KeepsPromise == Durable!Spec
=============================================================================
