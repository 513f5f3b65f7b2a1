------------------------------- MODULE Memory -------------------------------
(***************************************************************************)
(* MemoryManager: the spaces of agents and the shared regions, both called *)
(* places, with their capacities, access lists and expiring entries.       *)
(***************************************************************************)
EXTENDS Naturals, FiniteSets

CONSTANTS
  Agents, Regions,  \* ids of agents with a space and names of shared regions
  Host,             \* id under which the program around the kernel writes
  Keys, Values, None,
  Written,          \* values that callers write
  AgentCapacity,    \* capacity of a space that a load creates
  RegionCapacity,   \* the same for a region
  Capacities,       \* capacities of the places that callers create
  AccessLists,      \* authorized_agents lists that callers give; {} is open
  Lifetimes,        \* pairs <<memory_type, ttl_ticks>> that callers give
  MaxTick,          \* bound on the clock
  MaxWrites         \* bound on writes by callers

Places == Agents \cup Regions
Callers == Agents \cup {Host}
Types == {"SHORT_TERM", "LONG_TERM", "SHARED"}

MemoryAssumption ==
  /\ Agents \cap Regions = {}
  /\ IsFiniteSet(Keys)
  /\ AgentCapacity \in Nat \ {0}
  /\ RegionCapacity \in Nat \ {0}
  /\ Capacities \subseteq Nat \ {0}
  /\ AccessLists \subseteq SUBSET Callers
  /\ Written \subseteq Values
  /\ Lifetimes \subseteq {"SHORT_TERM", "LONG_TERM"} \X (Nat \cup {None})
  /\ MaxTick \in Nat
  /\ MaxWrites \in Nat

VARIABLES
  spaces,    \* places that exist
  capacity,  \* max_keys of each place
  access,    \* authorized agents of each place, {} if open
  store,     \* store[p][k]: the entry, or None
  now,       \* the tick that callers pass
  writes,    \* writes so far
  outcome    \* what the last call reported

memory == <<spaces, capacity, access, store, now, writes, outcome>>

Entry == [value : Values, type : Types, created : 0 .. MaxTick,
          ttl : {life[2] : life \in Lifetimes}, owner : Callers]

NoEntries == [k \in Keys |-> None]

-----------------------------------------------------------------------------
Expired(e) ==
  /\ e # None
  /\ e.type = "SHORT_TERM"
  /\ e.ttl # None
  /\ now >= e.created + e.ttl

Used(p) == {k \in Keys : store[p][k] # None}

\* Mutant of Room: one entry too many.
RoomForOneMore(p, k) == store[p][k] # None \/ Cardinality(Used(p)) <= capacity[p]

\* Overwriting an entry needs no room; an expired one still takes its place.
Room(p, k) == store[p][k] # None \/ Cardinality(Used(p)) < capacity[p]

\* _check_auth.  Spaces of agents have no list.
Authorized(p, a) == access[p] = {} \/ a \in access[p]

Put(p, k, e) == store' = [store EXCEPT ![p] = [@ EXCEPT ![k] = e]]

Raise == outcome' = "raised"
       /\ UNCHANGED <<spaces, capacity, access, store, now, writes>>

\* A place is created empty, also when there was one of the same name.
Create(p, c, list) ==
  /\ spaces' = spaces \cup {p}
  /\ capacity' = [capacity EXCEPT ![p] = c]
  /\ access' = [access EXCEPT ![p] = list]
  /\ store' = [store EXCEPT ![p] = NoEntries]
  /\ outcome' = "none"
  /\ UNCHANGED <<now, writes>>

CreateAgentSpace(a) == \E c \in Capacities : Create(a, c, {})

CreateSharedRegion(r) ==
  \E c \in Capacities, list \in AccessLists : Create(r, c, list)

DeleteAgentSpace(a) ==
  /\ a \in spaces
  /\ spaces' = spaces \ {a}
  /\ store' = [store EXCEPT ![a] = NoEntries]
  /\ capacity' = [capacity EXCEPT ![a] = 0]
  /\ outcome' = "none"
  /\ UNCHANGED <<access, now, writes>>

\* The write of an existing place, once access is checked.
WriteEntry(p, k, e) ==
  /\ writes < MaxWrites
  /\ Room(p, k)
  /\ Put(p, k, e)
  /\ writes' = writes + 1
  /\ outcome' = "written"
  /\ UNCHANGED <<spaces, capacity, access, now>>

AgentWrite(a, k) ==
  \/ /\ a \in spaces
     /\ \E v \in Written, life \in Lifetimes :
          WriteEntry(a, k, [value |-> v, type |-> life[1], created |-> now,
                            ttl |-> life[2], owner |-> a])
  \/ (a \notin spaces \/ ~Room(a, k)) /\ Raise

\* Entries of a region are SHARED, which never expires, whatever their ttl.
SharedWrite(r, a, k) ==
  \/ /\ r \in spaces
     /\ Authorized(r, a)
     /\ \E v \in Written, life \in Lifetimes :
          WriteEntry(r, k, [value |-> v, type |-> "SHARED", created |-> now,
                            ttl |-> life[2], owner |-> a])
  \/ (r \notin spaces \/ ~Authorized(r, a) \/ ~Room(r, k)) /\ Raise

\* Reading an expired entry removes it.  Other reads change nothing.
ReadExpired(p, k) ==
  /\ Expired(store[p][k])
  /\ Put(p, k, None)
  /\ outcome' = "raised"
  /\ UNCHANGED <<spaces, capacity, access, now, writes>>

Delete(p, a, k) ==
  \/ /\ p \in spaces
     /\ Authorized(p, a)
     /\ Put(p, k, None)
     /\ outcome' = "none"
     /\ UNCHANGED <<spaces, capacity, access, now, writes>>
  \/ (p \notin spaces \/ ~Authorized(p, a)) /\ Raise

\* The kernel's tick ends with the collection of everything that expired.
GcTick ==
  /\ store' = [p \in Places |-> [k \in Keys |->
                 IF Expired(store[p][k]) THEN None ELSE store[p][k]]]
  /\ outcome' = "none"
  /\ UNCHANGED <<spaces, capacity, access, now, writes>>

Tick ==
  /\ now < MaxTick
  /\ now' = now + 1
  /\ outcome' = "none"
  /\ UNCHANGED <<spaces, capacity, access, store, writes>>

-----------------------------------------------------------------------------
NothingStored == [p \in Places |-> NoEntries]

MemoryInit ==
  /\ spaces = {}
  /\ capacity = [p \in Places |-> 0]
  /\ access = [p \in Places |-> {}]
  /\ store = NothingStored
  /\ now = 0
  /\ writes = 0
  /\ outcome = "none"

\* A new process has a new manager and a new clock.
Vanish ==
  /\ spaces' = {}
  /\ capacity' = [p \in Places |-> 0]
  /\ access' = [p \in Places |-> {}]
  /\ store' = NothingStored
  /\ now' = 0

MemoryNext ==
  \/ \E a \in Agents : CreateAgentSpace(a) \/ DeleteAgentSpace(a)
  \/ \E r \in Regions : CreateSharedRegion(r)
  \/ \E a \in Agents, k \in Keys : AgentWrite(a, k) \/ Delete(a, a, k)
  \/ \E r \in Regions, a \in Callers, k \in Keys : SharedWrite(r, a, k) \/ Delete(r, a, k)
  \/ \E p \in Places, k \in Keys : ReadExpired(p, k)
  \/ GcTick
  \/ Tick

-----------------------------------------------------------------------------
(***************************************************************************)
(* A place never holds more than its capacity, and a region with an access *)
(* list holds only entries that an agent of that list wrote, also after    *)
(* places were created again, and after entries from a database were       *)
(* written over the ones that were there.                                  *)
(***************************************************************************)
WithinLimits ==
  \A p \in Places :
    /\ Cardinality(Used(p)) <= capacity[p]
    /\ \A k \in Used(p) : access[p] # {} => store[p][k].owner \in access[p]
=============================================================================
