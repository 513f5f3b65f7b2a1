------------------------------- MODULE Integrity -------------------------------
(***************************************************************************)
(* HashChain, SecureMemoryStore, ToolRegistryVerifier and IntegrityAuditor *)
(* of src/battousai/integrity.py.  Different inputs have different hashes: *)
(* the hash of a pair is the pair.  A field of an entry may get damaged.   *)
(***************************************************************************)
EXTENDS Naturals, FiniteSets, Sequences

CONSTANTS
  Keys,
  Tools,
  Lifetime,  \* ttl_seconds
  MaxChain,  \* bound on the entries of the chain
  MaxClock   \* bound on the clock

IntegrityAssumption ==
  Lifetime \in Nat /\ MaxChain \in Nat /\ MaxClock \in Nat

VARIABLES
  chain,     \* _entries with their metadata; version 0 for a deletion
  store,     \* _store: version, index and expiry; version 0 for none
  versions,  \* _version_counters
  history,   \* _history: the versions kept, per key
  tools,     \* the tool manager: what is registered under each name, 0 for none
  baseline,  \* _baseline_signature
  clock,
  damaged    \* history: indices of damaged entries

memory == <<chain, store, versions, history>>
toolRegistry == <<tools, baseline>>
integrity == <<memory, toolRegistry, clock, damaged>>

Absent == [version |-> 0, index |-> 0, expires |-> 0]
Unsigned == [t \in Tools |-> 9]

-----------------------------------------------------------------------------
(* HashChain                                                                *)

PreviousHash(i) == IF i = 1 THEN <<"genesis">> ELSE chain[i - 1].hash

\* append
Appended(key, version) ==
  LET data == <<key, version>>
      previous == PreviousHash(Len(chain) + 1)
  IN Append(chain, [key |-> key, version |-> version, data |-> data,
                    previous |-> previous, hash |-> <<data, previous>>])

\* verify_entry
VerifyEntry(i) ==
  /\ chain[i].hash = <<chain[i].data, chain[i].previous>>
  /\ chain[i].previous = PreviousHash(i)

\* verify: the index of the first entry that fails, 0 if the chain is valid.
FirstTampered ==
  LET bad == {i \in DOMAIN chain : ~VerifyEntry(i)} IN
    IF bad = {} THEN 0 ELSE CHOOSE i \in bad : \A j \in bad : i <= j

-----------------------------------------------------------------------------
(* SecureMemoryStore                                                        *)

Write(key) ==
  /\ Len(chain) < MaxChain
  /\ versions' = [versions EXCEPT ![key] = @ + 1]
  /\ chain' = Appended(key, versions[key] + 1)
  /\ store' = [store EXCEPT ![key] =
                 [version |-> versions[key] + 1, index |-> Len(chain) + 1,
                  expires |-> clock + Lifetime]]
  /\ history' = [history EXCEPT ![key] = Append(@, versions[key] + 1)]
  /\ UNCHANGED <<toolRegistry, clock, damaged>>

\* Mutant of Forgotten: the versions of a deleted key start over.
ForgottenAll(key) == [versions EXCEPT ![key] = 0]

\* What a deletion does to the version counters.
Forgotten(key) == versions

Delete(key) ==
  /\ Len(chain) < MaxChain
  /\ store[key] # Absent
  /\ chain' = Appended(key, 0)
  /\ store' = [store EXCEPT ![key] = Absent]
  /\ versions' = Forgotten(key)
  /\ UNCHANGED <<history, toolRegistry, clock, damaged>>

IsExpired(key) == store[key] # Absent /\ clock >= store[key].expires

\* expire_stale leaves no trace in the chain.
ExpireStale ==
  /\ store' = [key \in Keys |-> IF IsExpired(key) THEN Absent ELSE store[key]]
  /\ UNCHANGED <<chain, versions, history, toolRegistry, clock, damaged>>

\* What read with verify returns, 0 if it raises.
ReadVerified(key) ==
  IF FirstTampered # 0 \/ IsExpired(key) THEN 0 ELSE store[key].version

-----------------------------------------------------------------------------
(* Registry and audit                                                       *)

\* A tool is registered, replaced or removed.
ChangeTool(t, spec) ==
  /\ tools' = [tools EXCEPT ![t] = spec]
  /\ UNCHANGED <<memory, baseline, clock, damaged>>

\* snapshot_registry
SnapshotRegistry ==
  /\ baseline' = tools
  /\ UNCHANGED <<memory, tools, clock, damaged>>

\* diff_registry: removed, added and modified tools.
Diff(signature) ==
  {t \in Tools : signature[t] # 0 /\ tools[t] = 0}
    \cup {t \in Tools : signature[t] = 0 /\ tools[t] # 0}
    \cup {t \in Tools : signature[t] # 0 /\ tools[t] # 0 /\ signature[t] # tools[t]}

\* run_audit: whether all is well, and what is reported.
Audit ==
  LET compared == baseline # Unsigned IN
    [passed |-> FirstTampered = 0 /\ (~compared \/ tools = baseline),
     index |-> FirstTampered,
     diff |-> IF compared THEN Diff(baseline) ELSE {}]

-----------------------------------------------------------------------------
Corrupt(i, field) ==
  /\ i \in DOMAIN chain
  /\ chain[i][field] # <<"bad">>
  /\ chain' = [chain EXCEPT ![i][field] = <<"bad">>]
  /\ damaged' = damaged \cup {i}
  /\ UNCHANGED <<store, versions, history, toolRegistry, clock>>

ClockTick ==
  /\ clock < MaxClock
  /\ clock' = clock + 1
  /\ UNCHANGED <<memory, toolRegistry, damaged>>

IntegrityInit ==
  /\ chain = << >>
  /\ store = [key \in Keys |-> Absent]
  /\ versions = [key \in Keys |-> 0]
  /\ history = [key \in Keys |-> << >>]
  /\ tools = [t \in Tools |-> 0] /\ baseline = Unsigned
  /\ clock = 0 /\ damaged = {}

IntegrityNext ==
  \/ \E key \in Keys : Write(key) \/ Delete(key)
  \/ ExpireStale \/ SnapshotRegistry \/ ClockTick
  \/ \E t \in Tools, spec \in 0 .. 2 : ChangeTool(t, spec)
  \/ \E i \in 1 .. MaxChain, field \in {"data", "previous", "hash"} :
       Cardinality(damaged) < 2 /\ Corrupt(i, field)

IntegritySpec == IntegrityInit /\ [][IntegrityNext]_integrity

-----------------------------------------------------------------------------
(***************************************************************************)
(* The chain accounts for the store: the latest entry about a live key is  *)
(* the write that made it so, a key that is gone either has its deletion   *)
(* as the latest entry or outlived the write that is, and no two writes of *)
(* a key, before or after a deletion, have one version.  While an entry is *)
(* damaged every verified read fails and every audit names the first one;  *)
(* an audit that passes has nothing to report.                             *)
(***************************************************************************)
ChainAccounts ==
  /\ \A key \in Keys :
       LET about == {i \in DOMAIN chain : chain[i].key = key}
           latest == {i \in about : \A j \in about : j <= i}
       IN /\ store[key] # Absent =>
               latest = {store[key].index}
                 /\ \A i \in latest : chain[i].version = store[key].version
          /\ store[key] = Absent =>
               \A i \in latest : chain[i].version # 0 => clock >= Lifetime
          /\ \A i, j \in DOMAIN history[key] :
               history[key][i] = history[key][j] => i = j
          /\ damaged # {} => ReadVerified(key) = 0
  /\ IF damaged = {} THEN Audit.index = 0
     ELSE ~Audit.passed /\ Audit.index \in damaged /\ \A i \in damaged : Audit.index <= i
  /\ Audit.passed => Audit.diff = {}
=============================================================================
