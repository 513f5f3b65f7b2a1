------------------------------- MODULE Placement -------------------------------
(***************************************************************************)
(* LoadBalancer and AgentMigrator of src/battousai/federation.py: where    *)
(* the agents of a cluster run.  A plan is advice, followed later, one     *)
(* migration after another, in a cluster that may have changed.  Nodes are *)
(* numbered as they joined.                                                *)
(***************************************************************************)
EXTENDS Integers, Sequences, FiniteSets, Functions, Subsequences

CONSTANTS
  Residents,
  NumNodes,
  MaxMail    \* bound on messages sent to an agent

PlacementAssumption == NumNodes \in Nat /\ MaxMail \in Nat

Nodes == 1 .. NumNodes

VARIABLES
  members,  \* nodes of the cluster
  hosts,    \* per kernel: its agents, in order
  mail,     \* per kernel and agent: messages in the mailbox
  rrIndex,  \* _rr_index
  plan,     \* what is left of the plan that is carried out
  started,  \* history: agents ever started
  ended,    \* history: agents killed
  unread    \* history: messages sent to an agent and not read

placement == <<members, hosts, mail, rrIndex, plan, started, ended, unread>>

Runs(n, x) == \E i \in DOMAIN hosts[n] : hosts[n][i] = x
Count(n) == Len(hosts[n])

Leaving(h, x) == Selected(h, {i \in DOMAIN h : h[i] # x})

-----------------------------------------------------------------------------
(* LoadBalancer                                                             *)

\* What select_node may choose, by strategy; AFFINITY is LEAST_LOADED.
Selectable(strategy) ==
  LET least == {n \in members : \A m \in members : Count(n) <= Count(m)}
  IN IF strategy = "ROUND_ROBIN" THEN {Nth(members, (rrIndex % Cardinality(members)) + 1)}
     ELSE IF strategy = "RANDOM" THEN members
     ELSE {CHOOSE n \in least : \A m \in least : n <= m}

\* A new agent is spawned on the node that was selected.
Place(x, strategy) ==
  /\ x \notin started
  /\ members # {}
  /\ \E n \in Selectable(strategy) : hosts' = [hosts EXCEPT ![n] = Append(@, x)]
  /\ rrIndex' = IF strategy = "ROUND_ROBIN" THEN rrIndex + 1 ELSE rrIndex
  /\ started' = started \cup {x}
  /\ UNCHANGED <<members, mail, plan, ended, unread>>

\* cnt > avg + 1
Overloaded(n, total) ==
  Count(n) * Cardinality(members) > total + Cardinality(members)

\* The k-th element of S, of which each is before those it is paired with.
InTurn(S, before, k) == CHOOSE x \in S : Cardinality({y \in S : <<y, x>> \in before}) = k

FullerFirst(S) ==
  {p \in S \X S : \/ Count(p[1]) > Count(p[2])
                  \/ Count(p[1]) = Count(p[2]) /\ p[1] <= p[2]}

\* Seats are pairs of a node and a number.
EmptierFirst(S) ==
  {p \in S \X S :
     LET n == p[1][1]
         m == p[2][1]
     IN \/ Count(n) < Count(m)
        \/ Count(n) = Count(m) /\ n < m
        \/ n = m /\ p[1][2] <= p[2][2]}

Total == SumFunctionOnSet([n \in members |-> Count(n)], members)

Givers == {n \in members : Overloaded(n, Total)}

\* The j-th agent that comes finds the node below the average.
Seats == {s \in members \X (1 .. Total) : (Count(s[1]) + s[2] - 1) * Cardinality(members) < Total}

\* rebalance_plan: each overloaded node, the fullest first, gives its first
\* agent to the emptiest node, until that is counted up to the average.
RebalancePlan ==
  LET size == IF Cardinality(Givers) < Cardinality(Seats) THEN Cardinality(Givers)
              ELSE Cardinality(Seats)
      src(i) == InTurn(Givers, FullerFirst(Givers), i)
      seat(i) == InTurn(Seats, EmptierFirst(Seats), i)
  IN [i \in 1 .. size |-> [agent |-> Head(hosts[src(i)]), src |-> src(i), dst |-> seat(i)[1]]]

MakePlan ==
  /\ Cardinality(members) >= 2
  /\ plan' = RebalancePlan
  /\ UNCHANGED <<members, hosts, mail, rrIndex, started, ended, unread>>
-----------------------------------------------------------------------------
(* AgentMigrator                                                            *)

\* Mutant of Settled: the source is left without the agent in any case.
SettledAnyway(x, src, dst, arrived) ==
  LET there == IF arrived THEN [hosts EXCEPT ![dst] = Append(@, x)] ELSE hosts IN
    [there EXCEPT ![src] = Leaving(@, x)]

\* The agent is killed at its source once it has arrived.
Settled(x, src, dst, arrived) ==
  IF arrived
  THEN [[hosts EXCEPT ![src] = Leaving(@, x)] EXCEPT ![dst] = Append(@, x)]
  ELSE hosts

\* _deserialize_agent: the messages it has not read are delivered as they are.
Carried(x, src, dst) == [mail EXCEPT ![dst][x] = mail[src][x], ![src][x] = 0]

\* migrate: the constructor of the class may refuse the arguments it gets on
\* the destination, or its directories cannot be made.
Migrate(x, src, dst) ==
  /\ IF ~({src, dst} \subseteq members) \/ ~Runs(src, x)
     THEN UNCHANGED <<hosts, mail>>
     ELSE \E arrived \in BOOLEAN :
            /\ hosts' = Settled(x, src, dst, arrived)
            /\ mail' = IF arrived /\ src # dst THEN Carried(x, src, dst) ELSE mail
  /\ UNCHANGED <<members, rrIndex, started, ended, unread>>

MigrateAny(x, src, dst) == Migrate(x, src, dst) /\ UNCHANGED plan

FollowPlan ==
  /\ plan # << >>
  /\ Migrate(Head(plan).agent, Head(plan).src, Head(plan).dst)
  /\ plan' = Tail(plan)

-----------------------------------------------------------------------------
(* What goes on meanwhile.                                                  *)

\* A kernel whose node leaves the cluster goes on.
RemoveNode(n) ==
  /\ members' = members \ {n}
  /\ UNCHANGED <<hosts, mail, rrIndex, plan, started, ended, unread>>

Kill(n, x) ==
  /\ Runs(n, x)
  /\ hosts' = [hosts EXCEPT ![n] = Leaving(@, x)]
  /\ mail' = [mail EXCEPT ![n][x] = 0]
  /\ ended' = ended \cup {x}
  /\ unread' = [unread EXCEPT ![x] = 0]
  /\ UNCHANGED <<members, rrIndex, plan, started>>

SendMail(n, x) ==
  /\ Runs(n, x)
  /\ unread[x] < MaxMail
  /\ mail' = [mail EXCEPT ![n][x] = @ + 1]
  /\ unread' = [unread EXCEPT ![x] = @ + 1]
  /\ UNCHANGED <<members, hosts, rrIndex, plan, started, ended>>

PlacementInit ==
  /\ members = Nodes
  /\ hosts = [n \in Nodes |-> << >>]
  /\ mail = [n \in Nodes |-> [x \in Residents |-> 0]]
  /\ rrIndex = 0 /\ plan = << >>
  /\ started = {} /\ ended = {} /\ unread = [x \in Residents |-> 0]

PlacementNext ==
  \/ MakePlan \/ FollowPlan
  \/ \E x \in Residents :
       \/ \E s \in {"ROUND_ROBIN", "LEAST_LOADED", "RANDOM"} : Place(x, s)
       \/ \E src, dst \in Nodes : MigrateAny(x, src, dst)
       \/ \E n \in Nodes : Kill(n, x) \/ SendMail(n, x)
  \/ \E n \in Nodes : RemoveNode(n)

PlacementSpec == PlacementInit /\ [][PlacementNext]_placement

-----------------------------------------------------------------------------
(***************************************************************************)
(* Migrations neither lose nor double an agent, whatever fails in them and *)
(* however stale the plan they follow: each one started and not killed     *)
(* runs on one node, where all messages it has not read are.               *)
(***************************************************************************)
OnePlace ==
  \A x \in started \ ended :
    \E n \in Nodes :
      /\ Runs(n, x)
      /\ \A m \in Nodes \ {n} : ~Runs(m, x)
      /\ mail[n][x] = unread[x]

\* Sum of the squares of the counts.
Unevenness(count) == SumFunctionOnSet([n \in members |-> count[n] * count[n]], members)

(***************************************************************************)
(* Rebalancing settles: a plan carried out on the cluster it was made for  *)
(* makes it strictly more even, so that no sequence of plans goes on for   *)
(* ever, moving agents to and fro.                                         *)
(***************************************************************************)
RebalancingSettles ==
  LET advice == RebalancePlan
      moves(n, what) == Cardinality({i \in DOMAIN advice : advice[i][what] = n})
      now == [n \in members |-> Count(n)]
      after == [n \in members |-> Count(n) + moves(n, "dst") - moves(n, "src")]
  IN Cardinality(members) >= 2 /\ advice # << >>
       => Unevenness(after) < Unevenness(now)

\* Placement and plans, as the two properties say.
PlacedOnceAndSettled == OnePlace /\ RebalancingSettles
=============================================================================
