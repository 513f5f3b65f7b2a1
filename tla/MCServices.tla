----------------------------- MODULE MCServices -----------------------------
(***************************************************************************)
(* Small instances of services that share no state: the persistence layer  *)
(* with the memory manager, the capability manager and the MCP client.     *)
(* The initial state chooses the one that moves, so that one run explores  *)
(* the sum of their state spaces and not the product.  The names of the    *)
(* first two are in scope, of the third an instance.                       *)
(***************************************************************************)
EXTENDS Persistence, Capabilities

CONSTANTS a, b

VARIABLES
  part,
  connected, process, connections, stopping, lifecycle, opening, lastId, pending,
  signalled, answered, pc, request, since, sentTo, server, stdin, inbox, stdout,
  reader, hand

MCLifetimes == {<<"SHORT_TERM", 1>>}

\* Two values that JSON turns into one.
MCJson == [v \in Values |-> "text"]

MCCovers == [p \in {"one"} |-> {"x"}]

\* What the policy grants to an agent of its class, and nothing to others.
MCPolicy ==
  [agent \in {a, b} |->
    IF agent = a
    THEN << [type |-> "TOOL", pattern |-> "one", delegatable |-> FALSE],
            [type |-> "ADMIN", pattern |-> "one", delegatable |-> TRUE] >>
    ELSE << >>]

Tools ==
  INSTANCE McpClient WITH
    Callers <- {a, b}, MaxPending <- 2, MaxConnections <- 2, MaxId <- 3,
    SlowReaders <- FALSE

tools == <<connected, process, connections, stopping, lifecycle, opening, lastId,
           pending, signalled, answered, pc, request, since, sentTo, server, stdin,
           inbox, stdout, reader, hand>>
all == <<part, vars, authority, tools>>

ASSUME StorageAssumed == PersistenceAssumption
ASSUME AccessAssumed == CapabilitiesAssumption
ASSUME ToolsAssumed == Tools!McpClientAssumption

PartInit ==
  /\ part \in {"storage", "access", "tools"}
  /\ Init
  /\ AccessInit
  /\ Tools!Init

PartNext ==
  /\ UNCHANGED part
  /\ \/ part = "storage" /\ Next /\ UNCHANGED <<authority, tools>>
     \/ part = "access" /\ AccessNext /\ UNCHANGED <<vars, tools>>
     \/ part = "tools" /\ Tools!Next /\ UNCHANGED <<vars, authority>>

PartSpec == PartInit /\ [][PartNext]_all /\ Tools!Fairness

-----------------------------------------------------------------------------
\* The end of a server reaches the calls that wait for it, and no others (McpClient).
LossesAreTold == Tools!DeadServerWakesCalls /\ Tools!LostOnlyWithServer
=============================================================================
