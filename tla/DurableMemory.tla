---------------------------- MODULE DurableMemory ----------------------------
(***************************************************************************)
(* What the host of a memory manager may rely on across restarts, without  *)
(* spaces, capacities, expiry or tables.                                   *)
(*                                                                         *)
(* A save makes the disk equal to the memory.  One that is cut short       *)
(* leaves a part of that memory on the disk: entries can be missing, but   *)
(* none is older than the save, none is made up and none is mixed with     *)
(* another.  A restore that reports success brings all of the disk back    *)
(* over what the memory holds; one that raises brings back a part of it.   *)
(***************************************************************************)
CONSTANTS Places, Keys, None

VARIABLES
  live,     \* live[p][k]: the content of an entry in memory, or None
  disk,     \* the same for the disk, as of the last save
  phase,    \* "up", "saving" or "down"
  outcome   \* what the last call reported

vars == <<live, disk, phase, outcome>>

Nothing == [p \in Places |-> [k \in Keys |-> None]]

\* The memory m with nothing but some of its entries.
IsPart(part, m) == \A p \in Places, k \in Keys : part[p][k] \in {None, m[p][k]}

\* The memory old with the entries of new written over it.
Over(new, old) ==
  [p \in Places |-> [k \in Keys |->
     IF new[p][k] # None THEN new[p][k] ELSE old[p][k]]]

Contents(m) == {m[p][k] : p \in Places, k \in Keys}

Init ==
  /\ live = Nothing
  /\ disk = Nothing
  /\ phase = "up"
  /\ outcome = "none"

\* Entries expire or are removed, alone or with their space.
Forget ==
  /\ phase = "up"
  /\ IsPart(live', live)
  /\ outcome' \in {"none", "raised"}
  /\ UNCHANGED <<disk, phase>>

Write ==
  /\ phase = "up"
  /\ \E p \in Places, k \in Keys :
       live' = [live EXCEPT ![p] = [@ EXCEPT ![k] = live'[p][k]]]
  /\ outcome' = "written"
  /\ UNCHANGED <<disk, phase>>

BeginSave ==
  /\ phase = "up"
  /\ phase' = "saving"
  /\ disk' = live
  /\ outcome' = "none"
  /\ UNCHANGED live

EndSave ==
  /\ phase = "saving"
  /\ phase' = "up"
  /\ outcome' = "saved"
  /\ UNCHANGED <<live, disk>>

AbandonSave ==
  /\ phase = "saving"
  /\ phase' = "up"
  /\ IsPart(disk', disk)
  /\ outcome' = "raised"
  /\ UNCHANGED live

Crash ==
  /\ phase # "down"
  /\ phase' = "down"
  /\ live' = Nothing
  /\ IF phase = "saving" THEN IsPart(disk', disk) ELSE UNCHANGED disk
  /\ outcome' = "none"

Start ==
  /\ phase = "down"
  /\ phase' = "up"
  /\ outcome' = "none"
  /\ UNCHANGED <<live, disk>>

Restore ==
  /\ phase = "up"
  /\ \/ live' = Over(disk, live) /\ outcome' = "restored"
     \/ /\ live' \in [Places -> [Keys -> Contents(live) \cup Contents(disk)]]
        /\ \A p \in Places, k \in Keys :
             live'[p][k] \in {live[p][k], Over(disk, live)[p][k]}
        /\ outcome' = "raised"
  /\ UNCHANGED <<disk, phase>>

Next ==
  Forget \/ Write \/ BeginSave \/ EndSave \/ AbandonSave \/ Crash \/ Start \/ Restore

Spec == Init /\ [][Next]_vars
=============================================================================
