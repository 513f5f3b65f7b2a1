------------------------------- MODULE Network -------------------------------
(***************************************************************************)
(* VirtualWire, NetworkInterface and NetworkTopology of                    *)
(* src/battousai/network.py.  A wire is one queue for both directions, and *)
(* whoever polls it first gets what is due.  Nothing in src/ drives the    *)
(* network: any node may be polled or made to pass on a packet at any time.*)
(***************************************************************************)
EXTENDS Naturals, FiniteSets, Subsequences, SequencesExt

CONSTANTS
  NodeIds,
  Latency,     \* latency_ticks of every wire
  Bandwidth,   \* bandwidth of every wire, 0 for no limit
  Lossy,       \* whether packet_loss_rate is positive
  PacketTtl,   \* ttl of every packet
  Payloads,
  MaxWires,    \* bound on wires created
  MaxPackets,  \* bound on packets created
  MaxNetTime   \* bound on ticks

NetworkAssumption ==
  /\ IsFiniteSet(NodeIds)
  /\ Latency \in Nat /\ Bandwidth \in Nat /\ Lossy \in BOOLEAN /\ PacketTtl \in Nat
  /\ MaxWires \in Nat /\ MaxPackets \in Nat /\ MaxNetTime \in Nat

VARIABLES
  nodes,      \* _nodes of the topology
  adjacency,  \* _adjacency, as pairs
  neighbors,  \* per interface: the wire to each neighbour, 0 for none
  wires,      \* per wire: the _in_flight queue
  inbox,      \* per interface
  seen,       \* _seen_packet_ids, per interface
  lastId,     \* packets created
  netTime,
  receipts    \* history: how often each interface took each packet

topology == <<nodes, adjacency, neighbors>>
traffic == <<wires, inbox, seen, lastId, receipts>>
network == <<topology, traffic, netTime>>

-----------------------------------------------------------------------------
(* Topology                                                                 *)

AddToTopology(n) ==
  /\ nodes' = nodes \cup {n}
  /\ UNCHANGED <<adjacency, neighbors, traffic, netTime>>

\* A new wire, also where there is one: what is in flight on that is lost.
AddLink(a, b) ==
  /\ {a, b} \subseteq nodes
  /\ Len(wires) < MaxWires
  /\ wires' = Append(wires, << >>)
  /\ neighbors' = [neighbors EXCEPT ![a][b] = Len(wires) + 1, ![b][a] = Len(wires) + 1]
  /\ adjacency' = adjacency \cup {<<a, b>>, <<b, a>>}
  /\ UNCHANGED <<nodes, inbox, seen, lastId, receipts, netTime>>

\* Mutant of Adjacent: a node is forgotten, its neighbours keep the link.
AdjacentOneWay(n) == {e \in adjacency : e[1] = n}

\* The links that go with a node.
Adjacent(n) == {e \in adjacency : n \in {e[1], e[2]}}

\* Its neighbours drop their side of the wires; the interface of the node
\* itself keeps its own.
RemoveFromTopology(n) ==
  /\ n \in nodes
  /\ nodes' = nodes \ {n}
  /\ neighbors' = [m \in NodeIds |->
                     IF <<n, m>> \in adjacency /\ m # n
                     THEN [neighbors[m] EXCEPT ![n] = 0] ELSE neighbors[m]]
  /\ adjacency' = adjacency \ Adjacent(n)
  /\ UNCHANGED <<traffic, netTime>>

-----------------------------------------------------------------------------
(* Sending                                                                  *)

\* VirtualWire.transmit by n of a copy to each of some neighbours: a loss is
\* silent.
Transmit(n, copies) ==
  \E kept \in SUBSET DOMAIN copies :
    /\ Lossy \/ kept = DOMAIN copies
    /\ wires' = [w \in DOMAIN wires |->
                   LET via == {m \in kept : neighbors[n][m] = w} IN
                     wires[w] \o SetToSeq({[due |-> netTime + Latency, packet |-> copies[m]] :
                                            m \in via})]

Linked(n) == {m \in NodeIds : neighbors[n][m] # 0}

\* To a neighbour directly, to others through all neighbours but the origin.
\* One that made all its hops is refused.
SendPacket(n, p) ==
  IF p.hops >= PacketTtl THEN UNCHANGED wires
  ELSE IF p.to \in Linked(n) THEN Transmit(n, [m \in {p.to} |-> p])
  ELSE Transmit(n, [m \in Linked(n) \ {p.from} |-> [p EXCEPT !.hops = @ + 1]])

NewPacket(n, m, payload) ==
  [id |-> lastId + 1, from |-> n, to |-> m, hops |-> 0, payload |-> payload]

\* A node it does not know may be addressed.
SendTo(n, m, payload) ==
  /\ lastId < MaxPackets
  /\ lastId' = lastId + 1
  /\ SendPacket(n, NewPacket(n, m, payload))
  /\ UNCHANGED <<topology, inbox, seen, receipts, netTime>>

\* broadcast: a copy with the same id to every neighbour.
SendToAll(n, payload) ==
  /\ lastId < MaxPackets
  /\ lastId' = lastId + 1
  /\ Transmit(n, [m \in Linked(n) |-> NewPacket(n, m, payload)])
  /\ UNCHANGED <<topology, inbox, seen, receipts, netTime>>

\* A node passes on what it received for another.
Forward(n) ==
  /\ \E p \in inbox[n] :
       /\ p.to # n
       /\ SendPacket(n, p)
       /\ inbox' = [inbox EXCEPT ![n] = @ \ {p}]
  /\ UNCHANGED <<topology, seen, lastId, receipts, netTime>>

-----------------------------------------------------------------------------
(* Receiving                                                                *)

\* VirtualWire.tick: the places in the queue that are handed out, which are the
\* first that are due, and what stays.
HandedOut(w) ==
  LET due == {i \in DOMAIN wires[w] : wires[w][i].due <= netTime} IN
    {i \in due : Bandwidth = 0 \/ Cardinality({j \in due : j <= i}) <= Bandwidth}

Remaining(w) == Selected(wires[w], DOMAIN wires[w] \ HandedOut(w))

\* receive_packets: all wires of n, whoever their packets are for.  One copy
\* of each new packet is taken.
ReceivePackets(n) ==
  LET mine == {neighbors[n][m] : m \in Linked(n)}
      arrived == UNION {{wires[w][i].packet : i \in HandedOut(w)} : w \in mine}
      new == {p \in arrived : p.id \notin seen[n]}
  IN /\ arrived # {}
     /\ \E taken \in SUBSET new :
          /\ \A p \in new : Cardinality({q \in taken : q.id = p.id}) = 1
          /\ inbox' = [inbox EXCEPT ![n] = @ \cup taken]
          /\ receipts' = [receipts EXCEPT ![n] =
                            [i \in DOMAIN @ |->
                               @[i] + Cardinality({p \in taken : p.id = i})]]
     /\ seen' = [seen EXCEPT ![n] = @ \cup {p.id : p \in new}]
     /\ wires' = [w \in DOMAIN wires |-> IF w \in mine THEN Remaining(w) ELSE wires[w]]
     /\ UNCHANGED <<topology, lastId, netTime>>

DrainInbox(n) ==
  /\ inbox' = [inbox EXCEPT ![n] = {}]
  /\ UNCHANGED <<topology, wires, seen, lastId, receipts, netTime>>

NetTick ==
  /\ netTime < MaxNetTime
  /\ netTime' = netTime + 1
  /\ UNCHANGED <<topology, traffic>>

-----------------------------------------------------------------------------
NetworkInit ==
  /\ nodes = NodeIds /\ adjacency = {}
  /\ neighbors = [n \in NodeIds |-> [m \in NodeIds |-> 0]]
  /\ wires = << >>
  /\ inbox = [n \in NodeIds |-> {}] /\ seen = [n \in NodeIds |-> {}]
  /\ lastId = 0 /\ netTime = 0
  /\ receipts = [n \in NodeIds |-> [i \in 1 .. MaxPackets |-> 0]]

NetworkNext ==
  \/ NetTick
  \/ \E n \in NodeIds :
       \/ AddToTopology(n) \/ RemoveFromTopology(n)
       \/ ReceivePackets(n) \/ DrainInbox(n) \/ Forward(n)
       \/ \E m \in NodeIds \ {n} : AddLink(n, m)
       \/ \E payload \in Payloads :
            \/ SendToAll(n, payload)
            \/ \E m \in (NodeIds \cup {"elsewhere"}) \ {n} : SendTo(n, m, payload)

NetworkSpec == NetworkInit /\ [][NetworkNext]_network

-----------------------------------------------------------------------------
(***************************************************************************)
(* Links are agreed on: what the topology calls adjacent has one wire that *)
(* both interfaces share, through any removals, returns and new links (the *)
(* converse fails: a removed node keeps its side of its old wires); and no *)
(* packet is taken twice by a node or travels more hops than it may, along *)
(* however many ways a flood reaches it.                                   *)
(***************************************************************************)
SoundDelivery ==
  /\ \A e \in adjacency :
       /\ neighbors[e[1]][e[2]] # 0
       /\ neighbors[e[1]][e[2]] = neighbors[e[2]][e[1]]
  /\ \A n \in NodeIds :
       /\ \A i \in 1 .. MaxPackets : receipts[n][i] <= 1
       /\ \A p \in inbox[n] : p.hops <= PacketTtl
=============================================================================
