----------------------------- MODULE MCComponents -----------------------------
(***************************************************************************)
(* Small instances of the components that share no state with each other.  *)
(* The initial state chooses the one that moves, so that one run explores  *)
(* the sum of their state spaces and not the product.  The names of eight  *)
(* of them are in scope; the others are instances, whose variables have    *)
(* the names they have there unless two of them share a name.              *)
(***************************************************************************)
EXTENDS Sandbox, MessageBus, SignedIpc, Network, Filesystem, Integrity, Hardware,
        Evolution, Tools, Placement

CONSTANTS a, b, c

VARIABLE part

-----------------------------------------------------------------------------
MCPlatforms ==
  [limits : {{}, {"memory", "processes"}}, unshare : BOOLEAN, prctl : {TRUE}]

Push(p) == [tool |-> "task_queue", op |-> "push", priority |-> p]

\* The pipeline fails half-way.
ToolRequests ==
  { Push(0), Push(1), [tool |-> "task_queue", op |-> "pop"],
    [tool |-> "key_value_db", op |-> "set", key |-> a, ttl |-> 1],
    [tool |-> "key_value_db", op |-> "get", key |-> a],
    [tool |-> "cron_scheduler", op |-> "register", key |-> a, every |-> 1],
    [tool |-> "cron_scheduler", op |-> "tick", key |-> a],
    [tool |-> "data_pipeline", op |-> "run",
     stages |-> <<Push(0), [tool |-> "task_queue", op |-> "incomplete"],
                  [tool |-> "task_queue", op |-> "clear"]>>] }

MCClassOf == [x |-> "C", y |-> "C", z |-> "D"]

-----------------------------------------------------------------------------
all == <<part, vars, bus, signing, network, placement, filesystem, integrity,
         hardware, toolkit, evolution>>

ASSUME SandboxAssumed == SandboxAssumption
ASSUME MessageBusAssumed == MessageBusAssumption
ASSUME SignedIpcAssumed == SignedIpcAssumption
ASSUME NetworkAssumed == NetworkAssumption
ASSUME FilesystemAssumed == FilesystemAssumption
ASSUME IntegrityAssumed == IntegrityAssumption
ASSUME HardwareAssumed == HardwareAssumption
ASSUME EvolutionAssumed == EvolutionAssumption
ASSUME ToolsAssumed == ToolsAssumption
ASSUME PlacementAssumed == PlacementAssumption

PartInit ==
  /\ part \in {"sandbox", "bus", "signing", "network", "placement",
                "files", "integrity", "hardware", "tools", "evolution"}
  /\ Init /\ BusInit({}) /\ SigningInit /\ NetworkInit /\ FilesInit /\ IntegrityInit
  /\ HardwareInit
  /\ PlacementInit /\ ToolsInit /\ EvolutionInit
  /\ part # "sandbox" => /\ platform = CHOOSE p \in Platforms : TRUE
                         /\ profile = ProfileOf({}) /\ timeout = (TRUE \in Timeouts)
  /\ part # "signing" => policy = "STRICT"

PartNext ==
  /\ UNCHANGED part
  /\ \/ /\ part = "sandbox" /\ Next
        /\ UNCHANGED <<bus, signing, network, placement, filesystem, integrity,
                      hardware, toolkit, evolution>>
     \/ /\ part = "bus" /\ BusNext
        /\ UNCHANGED <<vars, signing, network, placement, filesystem, integrity,
                      hardware, toolkit, evolution>>
     \/ /\ part = "signing" /\ SigningNext
        /\ UNCHANGED <<vars, bus, network, placement, filesystem, integrity,
                      hardware, toolkit, evolution>>
     \/ /\ part = "network" /\ NetworkNext
        /\ UNCHANGED <<vars, bus, signing, placement, filesystem, integrity,
                      hardware, toolkit, evolution>>
     \/ /\ part = "placement" /\ PlacementNext
        /\ UNCHANGED <<vars, bus, signing, network, filesystem, integrity,
                      hardware, toolkit, evolution>>
     \/ /\ part = "files" /\ FilesNext
        /\ UNCHANGED <<vars, bus, signing, network, placement, integrity,
                      hardware, toolkit, evolution>>
     \/ /\ part = "integrity" /\ IntegrityNext
        /\ UNCHANGED <<vars, bus, signing, network, placement, filesystem,
                      hardware, toolkit, evolution>>
     \/ /\ part = "hardware" /\ HardwareNext
        /\ UNCHANGED <<vars, bus, signing, network, placement, filesystem,
                      integrity, toolkit, evolution>>
     \/ /\ part = "tools" /\ ToolsNext
        /\ UNCHANGED <<vars, bus, signing, network, placement, filesystem,
                      integrity, hardware, evolution>>
     \/ /\ part = "evolution" /\ EvolutionNext
        /\ UNCHANGED <<vars, bus, signing, network, placement, filesystem,
                      integrity, hardware, toolkit>>

PartSpec == PartInit /\ [][PartNext]_all

=============================================================================
