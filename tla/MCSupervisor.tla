---------------------------- MODULE MCSupervisor ----------------------------
(***************************************************************************)
(* Small instances of what watches over agents and shares no state: a tree *)
(* of supervisors (a root with a supervisor and a worker, and two workers  *)
(* under that one), the drift monitor, the contracts with the safety       *)
(* envelope, and the property checker.  The initial state chooses the one  *)
(* that moves, so that one run explores the sum of their state spaces and  *)
(* not the product.                                                        *)
(***************************************************************************)
EXTENDS Supervisor, DriftMonitor, Contracts, PropertyChecker

VARIABLE part

-----------------------------------------------------------------------------
MCSpecs == {"root", "sub", "a", "b", "c"}
MCChildren ==
  [n \in MCSpecs |-> CASE n = "root" -> <<"sub", "a">>
                       [] n = "sub" -> <<"b", "c">>
                       [] OTHER -> <<>>]
MCType ==
  [n \in MCSpecs |-> CASE n = "a" -> "TEMPORARY" [] n = "c" -> "TRANSIENT"
                       [] OTHER -> "PERMANENT"]
MCMaxRestarts == [n \in MCSpecs |-> IF n = "root" THEN 2 ELSE 1]

\* The postcondition of a kills, the preconditions block.
MCPolicies ==
  [x \in {"a", "b"} |->
    [invariant |-> {"WARN"}, precondition |-> {"BLOCK"},
     postcondition |-> IF x = "a" THEN {"KILL"} ELSE {}]]
MCLimits == [messages |-> 1, mem_writes |-> 0, tool_calls |-> 1, spawns |-> 1]

all == <<part, vars, drift, contracting, checker>>

ASSUME DriftAssumed == DriftMonitorAssumption
ASSUME ContractsAssumed == ContractsAssumption
ASSUME CheckerAssumed == PropertyCheckerAssumption

PartInit ==
  /\ part \in {"supervision", "drift", "contracts", "checker"}
  /\ Init /\ DriftInit /\ ContractInit /\ CheckerInit
  /\ part # "supervision" => strategy = [n \in DOMAIN strategy |-> "ONE_FOR_ONE"]
  /\ part # "contracts" => alive = {}

PartNext ==
  /\ UNCHANGED part
  /\ \/ part = "supervision" /\ Next /\ UNCHANGED <<drift, contracting, checker>>
     \/ part = "drift" /\ DriftNext /\ UNCHANGED <<vars, contracting, checker>>
     \/ part = "contracts" /\ ContractNext /\ UNCHANGED <<vars, drift, checker>>
     \/ part = "checker" /\ CheckerNext /\ UNCHANGED <<vars, drift, contracting>>

PartSpec == PartInit /\ [][PartNext]_all /\ Fairness
=============================================================================
