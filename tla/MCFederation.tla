---------------------------- MODULE MCFederation ----------------------------
(***************************************************************************)
(* A small federation for TLC, and beside it, sharing no state, gossip     *)
(* over a small network.  The initial state chooses the one that moves.    *)
(***************************************************************************)
EXTENDS Federation, Gossip

VARIABLE part

MCTimeouts == {2, 3}
MCRing == <<"x", "y">>

all == <<part, vars, network, discovery>>

ASSUME GossipAssumed == GossipAssumption

PartInit ==
  /\ part \in {"federation", "gossip"}
  /\ Init /\ DemoNetwork /\ DiscoveryInit

PartNext ==
  /\ UNCHANGED part
  /\ \/ part = "federation" /\ Next /\ UNCHANGED <<network, discovery>>
     \/ part = "gossip" /\ GossipNext /\ UNCHANGED vars

PartSpec == PartInit /\ [][PartNext]_all
=============================================================================
