----------------------------- MODULE ResearchTeam -----------------------------
(***************************************************************************)
(* The agents of src/battousai/agent.py on the message bus: a coordinator  *)
(* that spawns a worker for each subtask and collects their results, the   *)
(* workers, and a monitor that publishes a sample.  One action is one      *)
(* think(); the kernel calls it once a tick for every agent that is alive. *)
(* Agents may be killed, and a host sends messages of its own.             *)
(***************************************************************************)
EXTENDS MessageBus

CONSTANTS
  Coordinator, Monitor, Host,
  Workers,         \* the i-th is spawned for the i-th subtask
  Queries,         \* per worker: the length of subtask["queries"]
  SampleInterval   \* _sample_interval

Team == {Coordinator, Monitor} \cup Workers

ResearchTeamAssumption ==
  /\ MessageBusAssumption
  /\ Team \cup {Host} \subseteq Agents
  /\ Queries \in [Workers -> Nat]
  /\ SampleInterval \in Nat \ {0}

VARIABLES
  alive,      \* agents the kernel has
  phase,      \* the _phase of the coordinator
  tasked,     \* _task is not None
  results,    \* _pending_results: agent to whether its result is there
  crew,       \* _worker_ids
  executing,  \* workers whose _phase is EXECUTING
  searched,   \* _queries_done
  reported,   \* _result_sent
  lost        \* history: workers whose result was refused by the mailbox

work == <<executing, searched, reported, lost>>
coordination == <<phase, tasked, results, crew>>
vars == <<bus, alive, coordination, work>>

\* read_inbox of an agent in its think().
Drained(i) == [boxes EXCEPT ![i] = << >>]

Has(i, kind) == \E k \in DOMAIN Inbox(i) : Inbox(i)[k].kind = kind

ResultsOf(inbox) == {n \in DOMAIN inbox : inbox[n].kind = "RESULT"}

\* Mutant of Reporters: of the inbox, only the first result is looked at.
FirstReporter ==
  {Inbox(Coordinator)[n].from : n \in {n \in ResultsOf(Inbox(Coordinator)) :
     \A k \in ResultsOf(Inbox(Coordinator)) : n <= k}}

\* Who sent the results in the inbox.
Reporters == {Inbox(Coordinator)[n].from : n \in ResultsOf(Inbox(Coordinator))}

\* _pending_results with the results of this inbox.
WithResults ==
  [i \in DOMAIN results \cup Reporters |-> i \in Reporters \/ results[i]]

\* _decompose_and_spawn: each worker whose spawn succeeds gets a mailbox with
\* its task in it.
Decompose(spawned) ==
  /\ boxes' = [i \in DOMAIN boxes \cup spawned |->
                 IF i \in spawned THEN <<Message(Coordinator, i, "TASK", 0)>>
                 ELSE Drained(Coordinator)[i]]
  /\ totalSent' = totalSent + Cardinality(spawned)
  /\ addressed' = addressed + Cardinality(spawned)
  /\ alive' = alive \cup spawned
  /\ crew' = spawned
  /\ results' = [i \in DOMAIN WithResults \cup spawned |->
                   i \notin spawned /\ WithResults[i]]
  /\ phase' = "COLLECTING"
  /\ UNCHANGED totalDropped

AllReceived ==
  /\ Cardinality(DOMAIN WithResults) = Cardinality(crew)
  /\ \A i \in DOMAIN WithResults : WithResults[i]

\* The first TASK is taken and later ones ignored.
CoordinatorThink ==
  /\ Coordinator \in alive
  /\ tasked' = (tasked \/ Has(Coordinator, "TASK"))
  /\ IF phase = "WAITING_TASK" /\ tasked'
     THEN \E spawned \in SUBSET Workers : Decompose(spawned)
     ELSE /\ phase' = IF phase = "COLLECTING" /\ AllReceived THEN "DONE" ELSE phase
          /\ results' = WithResults
          /\ boxes' = Drained(Coordinator)
          /\ UNCHANGED <<counts, alive, crew>>
  /\ Loss(Len(boxes[Coordinator]))
  /\ UNCHANGED <<topics, now, work>>

\* The result goes to the first agent whose name says coordinator, once,
\* whether it arrives or not.
Report(w) ==
  /\ reported' = reported \cup {w}
  /\ executing' = executing \ {w}
  /\ IF Coordinator \in alive
     THEN LET m == Message(w, Coordinator, "RESULT", 0) IN
          /\ boxes' = Delivered(Drained(w), m)
          /\ Counted(boxes, m)
          /\ lost' = IF Reached(boxes, m) THEN lost ELSE lost \cup {w}
     ELSE boxes' = Drained(w) /\ UNCHANGED <<counts, lost>>

\* A TASK makes it execute, a second one again.  A query that failed counts as
\* done.
WorkerThink(w) ==
  /\ w \in alive
  /\ LET busy == w \in executing \/ Has(w, "TASK") IN
       \/ /\ busy
          /\ searched[w] < Queries[w]
          /\ searched' = [searched EXCEPT ![w] = @ + 1]
          /\ executing' = executing \cup {w}
          /\ boxes' = Drained(w)
          /\ UNCHANGED <<counts, reported, lost>>
       \/ /\ busy
          /\ searched[w] >= Queries[w]
          /\ w \notin reported
          /\ Report(w)
          /\ UNCHANGED searched
       \/ /\ ~busy \/ (searched[w] >= Queries[w] /\ w \in reported)
          /\ executing' = IF busy THEN executing \cup {w} ELSE executing
          /\ boxes' = Drained(w)
          /\ UNCHANGED <<counts, searched, reported, lost>>
  /\ Loss(Len(boxes[w]))
  /\ UNCHANGED <<topics, now, alive, coordination>>

\* A sample every few ticks.
MonitorThink ==
  /\ Monitor \in alive
  /\ boxes' = Drained(Monitor)
  /\ Loss(Len(boxes[Monitor]))
  /\ IF now % SampleInterval = 0 /\ now > 0
     THEN \A topic \in Topics : Published(topic, Monitor)
     ELSE UNCHANGED topics
  /\ UNCHANGED <<counts, now, alive, coordination, work>>

\* kill_agent
Kill(i) ==
  /\ i \in alive
  /\ alive' = alive \ {i}
  /\ Unregister(i)
  /\ UNCHANGED <<coordination, work>>

\* The host speaks to the team through the bus, and time passes.
World ==
  /\ \/ \E to \in Team \cup {Everyone}, k \in Kinds : Send(Message(Host, to, k, 0))
     \/ Tick
  /\ UNCHANGED <<alive, coordination, work>>

Init ==
  /\ BusInit({Coordinator, Monitor})
  /\ alive = {Coordinator, Monitor}
  /\ phase = "WAITING_TASK"
  /\ tasked = FALSE
  /\ results = << >>
  /\ crew = {}
  /\ executing = {} /\ reported = {} /\ lost = {}
  /\ searched = [w \in Workers |-> 0]

Next ==
  \/ CoordinatorThink
  \/ \E w \in Workers : WorkerThink(w)
  \/ MonitorThink
  \/ \E i \in Team : Kill(i)
  \/ World

\* The kernel gives every agent its turn (EveryAgentThinks of Kernel).
Fairness ==
  /\ WF_vars(CoordinatorThink)
  /\ \A w \in Workers : WF_vars(WorkerThink(w))

Spec == Init /\ [][Next]_vars /\ Fairness

-----------------------------------------------------------------------------
\* Why the coordinator may wait forever: it has itself been killed, a worker
\* was killed before it reported or its result did not fit in the mailbox, or
\* someone who is no worker sent a result.
Hopeless ==
  \/ Coordinator \notin alive
  \/ \E w \in crew : (w \notin alive /\ w \notin reported) \/ w \in lost
  \/ ~(DOMAIN results \subseteq crew) \/ ~(Reporters \subseteq crew)

(***************************************************************************)
(* The summary comes: a coordinator that has taken a task ends up done, or *)
(* one of the four things above has happened, whichever spawns and tool    *)
(* calls fail and whatever else is in the mailboxes.                       *)
(***************************************************************************)
TaskIsAnswered == tasked ~> phase = "DONE" \/ Hopeless
=============================================================================
