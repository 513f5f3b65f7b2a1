----------------------------- MODULE MCProcesses -----------------------------
(***************************************************************************)
(* Small instances of the scheduler, of the two ends of an isolated        *)
(* process, and of a team of agents on the message bus, which share no     *)
(* state.  The initial state chooses the one that moves, so that one run   *)
(* explores the sum of their state spaces and not the product.  The        *)
(* scheduler whose names are in scope has three processes; a smaller one   *)
(* is checked for its liveness.                                            *)
(***************************************************************************)
EXTENDS Scheduler, IsolatedProcess

CONSTANTS a, b, c

VARIABLES
  part,
  topState, topPriority, topRemaining, topYields, topQueues, topRunning, topPicked,
  boxes, totalSent, totalDropped, addressed, topics, now, taken,
  alive, phase, tasked, results, crew, executing, searched, reported, lost

-----------------------------------------------------------------------------
MCSlice == [i \in Ids |-> IF i = c THEN 2 ELSE 1]

TopLevel ==
  INSTANCE Scheduler WITH
    Ids <- {b, c}, NumPriorities <- 2, Slice <- [i \in {b, c} |-> IF i = c THEN 2 ELSE 1],
    state <- topState, priority <- topPriority, remaining <- topRemaining,
    yields <- topYields, queues <- topQueues, running <- topRunning, picked <- topPicked

Team ==
  INSTANCE ResearchTeam WITH
    Agents <- {"coordinator", "monitor", "first", "second", "host"},
    Everyone <- "everyone", Kinds <- {"TASK", "RESULT"}, Lifetimes <- {0},
    Capacity <- 2, Topics <- {"topic"}, MaxSent <- 2, MaxNow <- 1,
    Coordinator <- "coordinator", Monitor <- "monitor", Host <- "host",
    Workers <- {"first", "second"}, Queries <- [first |-> 2, second |-> 1],
    SampleInterval <- 1

topLevel == <<topState, topPriority, topRemaining, topYields, topQueues, topRunning,
              topPicked>>
team == <<boxes, totalSent, totalDropped, addressed, topics, now, taken, alive, phase,
          tasked, results, crew, executing, searched, reported, lost>>
all == <<part, vars, topLevel, isolated, team>>

ASSUME IsolatedAssumed == IsolatedProcessAssumption
ASSUME TeamAssumed == Team!ResearchTeamAssumption

PartInit ==
  /\ part \in {"scheduler", "top_level", "isolation", "team"}
  /\ Init /\ TopLevel!Init /\ IsolatedInit /\ Team!Init

PartNext ==
  /\ UNCHANGED part
  /\ \/ part = "scheduler" /\ Next /\ UNCHANGED <<topLevel, isolated, team>>
     \/ part = "top_level" /\ TopLevel!Next /\ UNCHANGED <<vars, isolated, team>>
     \/ part = "isolation" /\ IsolatedNext /\ UNCHANGED <<vars, topLevel, team>>
     \/ part = "team" /\ Team!Next /\ UNCHANGED <<vars, topLevel, isolated>>

\* The fairness of the parts that have one, each where it moves.
PartFairness ==
  /\ WF_topLevel(part = "top_level" /\ TopLevel!Tick)
  /\ WF_isolated(part = "isolation" /\ Parent)
  /\ WF_isolated(part = "isolation" /\ Child)
  /\ WF_team(part = "team" /\ Team!CoordinatorThink)
  /\ \A w \in {"first", "second"} : WF_team(part = "team" /\ Team!WorkerThink(w))

PartSpec == PartInit /\ [][PartNext]_all /\ PartFairness

-----------------------------------------------------------------------------
(* The properties of the instances, which their modules explain.            *)

\* The highest level starves nobody (Scheduler).
NobodyStarves == TopLevel!TopLevelRuns

\* A task of the team is answered or hopeless (ResearchTeam).
TaskIsAnswered == Team!TaskIsAnswered
=============================================================================
