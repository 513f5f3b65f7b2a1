-------------------------------- MODULE Gossip --------------------------------
(***************************************************************************)
(* GossipProtocol, ServiceDiscovery and RemoteAgentProxy of                *)
(* src/battousai/network.py, over the ring of create_demo_network, for one *)
(* service.  The value of its key is the set of its providers.             *)
(***************************************************************************)
EXTENDS Network

CONSTANTS
  Providers,      \* agents that may provide the service
  Fanout,
  GossipInterval,
  Ring            \* the nodes of create_demo_network, in order

GossipAssumption ==
  /\ NetworkAssumption
  /\ Fanout \in Nat /\ GossipInterval \in Nat
  /\ Ring \in Seq(NodeIds)

VARIABLES
  state,       \* per node: age and value of the key, age 0 if it has none
  lastGossip,  \* _last_gossip_tick
  local,       \* _local_services
  registered,  \* history: pairs of node and agent ever registered
  authors      \* history: per tick, the nodes that wrote the key at it

discovery == <<state, lastGossip, local, registered, authors>>

-----------------------------------------------------------------------------
(* The state store                                                          *)

\* Mutant of Newer: a second write in the same tick counts.
NewerOrSame(age, n) == age >= state[n].age

\* What set and merge_digest replace; the first of two equal ages stays.
Newer(age, n) == age > state[n].age

\* set
Set(n, value) ==
  IF Newer(netTime, n)
  THEN /\ state' = [state EXCEPT ![n] = [age |-> netTime, value |-> value]]
       /\ authors' = [authors EXCEPT ![netTime] = @ \cup {n}]
  ELSE UNCHANGED <<state, authors>>

\* merge_digest of a packet in the inbox, also of one polled back by its sender.
MergeDigest(n) ==
  /\ \E p \in inbox[n] :
       /\ state' = [state EXCEPT ![n] =
                      IF p.payload.age > @.age THEN p.payload ELSE @]
       /\ inbox' = [inbox EXCEPT ![n] = @ \ {p}]
  /\ UNCHANGED <<topology, wires, seen, lastId, receipts, netTime, lastGossip, local,
                 registered, authors>>

\* select_gossip_targets
Selections(peers) ==
  {targets \in SUBSET peers :
     Cardinality(targets) = IF Cardinality(peers) <= Fanout THEN Cardinality(peers)
                            ELSE Fanout}

\* tick: a packet with the whole state to each target.
GossipTick(n) ==
  /\ netTime >= lastGossip[n] + GossipInterval
  /\ lastGossip' = [lastGossip EXCEPT ![n] = netTime]
  /\ \E targets \in Selections({m \in NodeIds : <<n, m>> \in adjacency}) :
       LET order == SetToSeq(targets) IN
         /\ lastId + Len(order) <= MaxPackets
         /\ lastId' = lastId + Len(order)
         /\ Transmit(n, [m \in targets |->
              [NewPacket(n, m, state[n]) EXCEPT
                 !.id = lastId + CHOOSE i \in DOMAIN order : order[i] = m]])
  /\ UNCHANGED <<topology, inbox, seen, receipts, netTime, state, local, registered, authors>>

-----------------------------------------------------------------------------
(* Service discovery                                                        *)

\* The new list is gossiped unless this tick has written the key already.
Register(n, x) ==
  /\ netTime > 0
  /\ local' = [local EXCEPT ![n] = @ \cup {x}]
  /\ registered' = registered \cup {<<n, x>>}
  /\ Set(n, state[n].value \cup {<<n, x>>})
  /\ UNCHANGED <<network, lastGossip>>

Deregister(n, x) ==
  /\ netTime > 0
  /\ local' = [local EXCEPT ![n] = @ \ {x}]
  /\ Set(n, state[n].value \ {<<n, x>>})
  /\ UNCHANGED <<network, lastGossip, registered>>

-----------------------------------------------------------------------------
\* create_demo_network: every node is linked to the next one of the ring.
DemoNetwork ==
  LET After(i) == (i % Len(Ring)) + 1
      Via(n, m) == {i \in DOMAIN Ring : {Ring[i], Ring[After(i)]} = {n, m}}
  IN /\ nodes = ToSet(Ring)
     /\ neighbors = [n \in NodeIds |-> [m \in NodeIds |->
          IF n = m \/ Via(n, m) = {} THEN 0 ELSE CHOOSE i \in Via(n, m) :
                                             \A j \in Via(n, m) : j <= i]]
     /\ adjacency = {e \in NodeIds \X NodeIds : neighbors[e[1]][e[2]] # 0}
     /\ wires = [i \in DOMAIN Ring |-> << >>]
     /\ inbox = [n \in NodeIds |-> {}] /\ seen = [n \in NodeIds |-> {}]
     /\ lastId = 0 /\ netTime = 0
     /\ receipts = [n \in NodeIds |-> [i \in 1 .. MaxPackets |-> 0]]

DiscoveryInit ==
  /\ state = [n \in NodeIds |-> [age |-> 0, value |-> {}]]
  /\ lastGossip = [n \in NodeIds |-> 0]
  /\ local = [n \in NodeIds |-> {}]
  /\ registered = {} /\ authors = [t \in 1 .. MaxNetTime |-> {}]

GossipNext ==
  \/ \E n \in NodeIds :
       \/ MergeDigest(n) \/ GossipTick(n)
       \/ \E x \in Providers : Register(n, x) \/ Deregister(n, x)
       \/ ReceivePackets(n) /\ UNCHANGED discovery
  \/ NetTick /\ UNCHANGED discovery

GossipSpec == DemoNetwork /\ DiscoveryInit /\ [][GossipNext]_<<network, discovery>>

-----------------------------------------------------------------------------
(***************************************************************************)
(* The age of an entry identifies it, for what one node wrote: two nodes   *)
(* that differ on the key at the same age do so because different nodes    *)
(* wrote it in that tick (and then keep differing).  All providers that    *)
(* are known anywhere were registered where they are said to be.           *)
(***************************************************************************)
AgeIdentifies ==
  /\ \A n, m \in NodeIds :
       state[n].age = state[m].age /\ state[n].value # state[m].value
         => Cardinality(authors[state[n].age]) > 1
  /\ \A n \in NodeIds : state[n].value \subseteq registered
=============================================================================
