----------------------------- MODULE Federation -----------------------------
(* The consensus of a federation: FederationNode's vote and log handlers, the *)
(* tick by which FederationCluster drives them, and the sync by which a       *)
(* SplitBrainDetector catches up (battousai/federation.py).                   *)
(*                                                                            *)
(* FederationCluster.tick is one synchronous call that nothing interrupts; it *)
(* is three kinds of step here, TickNodes, Solicit (one per new candidate)    *)
(* and Beat, and the calls of others come between ticks.  A node's id is its  *)
(* place in the order of joining, the order of the cluster's dict.            *)
EXTENDS Naturals, FiniteSets, Sequences, SequencesExt

CONSTANTS
    MaxNodes,     \* bound: how many nodes ever join
    Timeouts,     \* what random.randint(MIN, MAX) may draw
    Watched,      \* the nodes that have a SplitBrainDetector
    MaxTerm,      \* bound: no election is started beyond this term
    MaxEntries    \* bound: how many entries are written

ASSUME BoundsAreNatural == MaxNodes \in Nat /\ MaxTerm \in Nat /\ MaxEntries \in Nat
ASSUME TimeoutsAreLong == Timeouts \subseteq Nat \ {0, 1} /\ Timeouts # {}
ASSUME WatchedAreNodes == Watched \subseteq 1..MaxNodes

VARIABLES
    members,      \* the keys of FederationCluster._nodes
    joined,       \* how many nodes ever joined
    role, term, votedFor, votes, timer, log, commit,   \* fields of the nodes
    readOnly,     \* SplitBrainDetector._read_only, per watched node
    ticking,      \* inside FederationCluster.tick
    asking,       \* the new candidates whose turn to solicit is still to come
    written,      \* how many entries were written; numbers them
    winner,       \* history: which node became leader in which term
    age,          \* history: has the cluster ticked, and has a node joined since
    uneven        \* history: one entry was broadcast, or one node synced, out of turn

ballots == <<role, term, votedFor, votes, timer>>
logs == <<log, commit, written, uneven>>
vars == <<members, joined, ballots, logs, readOnly, ticking, asking, winner, age>>

Nodes == 1..MaxNodes
Nobody == 0                          \* None: no vote in this term
Roles == {"FOLLOWER", "CANDIDATE", "LEADER"}
Entries == [term : 0..MaxTerm, index : 1..MaxEntries, command : 1..MaxEntries]

Peers(n) == members \ {n}
Majority == Cardinality(members) \div 2 + 1
Leaders == {n \in members : role[n] = "LEADER"}
Late == age = "joined_late"

(* FederationCluster.get_leader: the first in the dict. *)
Leader == CHOOSE n \in Leaders : \A m \in Leaders : n <= m

-----------------------------------------------------------------------------
Init ==
    /\ members = {} /\ joined = 0
    /\ role = [n \in Nodes |-> "FOLLOWER"]
    /\ term = [n \in Nodes |-> 0]
    /\ votedFor = [n \in Nodes |-> Nobody]
    /\ votes = [n \in Nodes |-> {}]
    /\ timer = [n \in Nodes |-> 0]
    /\ log = [n \in Nodes |-> <<>>]
    /\ commit = [n \in Nodes |-> 0]
    /\ readOnly = [n \in Watched |-> FALSE]
    /\ ticking = FALSE /\ asking = {}
    /\ written = 0 /\ winner = {} /\ age = "new" /\ uneven = FALSE

(* FederationCluster.add_node: every node is a peer of every other.  The new *)
(* FederationNode's fields are as in Init, and its timer is drawn.            *)
AddNode ==
    /\ ~ticking /\ joined < MaxNodes
    /\ joined' = joined + 1
    /\ members' = members \union {joined'}
    /\ \E t \in Timeouts : timer' = [timer EXCEPT ![joined'] = t]
    /\ age' = IF age = "new" THEN "new" ELSE "joined_late"
    /\ UNCHANGED <<role, term, votedFor, votes, logs, readOnly, ticking, asking, winner>>

(* FederationCluster.remove_node.  The node goes; what it voted and the votes *)
(* it gave to others' elections stay with them.                               *)
RemoveNode(n) ==
    /\ ~ticking /\ n \in members
    /\ members' = members \ {n}
    /\ role' = [role EXCEPT ![n] = "FOLLOWER"]
    /\ term' = [term EXCEPT ![n] = 0]
    /\ votedFor' = [votedFor EXCEPT ![n] = Nobody]
    /\ votes' = [votes EXCEPT ![n] = {}]
    /\ timer' = [timer EXCEPT ![n] = 0]
    /\ log' = [log EXCEPT ![n] = <<>>]
    /\ commit' = [commit EXCEPT ![n] = 0]
    /\ readOnly' = [m \in Watched |-> m # n /\ readOnly[m]]
    /\ UNCHANGED <<joined, ticking, asking, written, winner, age, uneven>>

-----------------------------------------------------------------------------
(* Step 1 of FederationCluster.tick: FederationNode.tick on every node.  A    *)
(* candidate that has a majority by now becomes leader; a follower, or a      *)
(* candidate without one, counts down to its next election.                   *)
Wins(n) == role[n] = "CANDIDATE" /\ Cardinality(votes[n]) >= Majority

CountsDown(n) == role[n] # "LEADER" /\ ~Wins(n)

TimesOut(n) == CountsDown(n) /\ timer[n] <= 1

TickNodes ==
    /\ ~ticking /\ ticking' = TRUE
    /\ LET won == {n \in members : Wins(n)}
           started == {n \in members : TimesOut(n)}
       IN  /\ \A n \in started : term[n] < MaxTerm
           /\ asking' = started
           /\ role' = [n \in Nodes |-> IF n \in won THEN "LEADER"
                                       ELSE IF n \in started THEN "CANDIDATE" ELSE role[n]]
           /\ term' = [n \in Nodes |-> IF n \in started THEN term[n] + 1 ELSE term[n]]
           /\ votedFor' = [n \in Nodes |-> IF n \in started THEN n ELSE votedFor[n]]
           /\ votes' = [n \in Nodes |-> IF n \in started THEN {n} ELSE votes[n]]
           /\ \E draw \in [started -> Timeouts] :
                 timer' = [n \in Nodes |-> IF n \in started THEN draw[n]
                                           ELSE IF n \in members /\ CountsDown(n) THEN timer[n] - 1
                                           ELSE timer[n]]
           /\ winner' = winner \union {<<term[n], n>> : n \in won}
    /\ age' = IF age = "new" THEN "running" ELSE age
    /\ UNCHANGED <<members, joined, logs, readOnly>>

\* Mutant of RestartTimers: the timer runs on.
KeepTimers(S) == UNCHANGED timer

(* self._heartbeat_timer = self._random_election_timeout(), on some nodes. *)
RestartTimers(S) ==
    \E draw \in [S -> Timeouts] :
        timer' = [n \in Nodes |-> IF n \in S THEN draw[n] ELSE timer[n]]

\* Mutant of Grants: a leader gives no vote.
GrantsUnlessLeader(n, c, t) ==
    role[n] # "LEADER" /\ (t > term[n] \/ (t = term[n] /\ votedFor[n] \in {Nobody, c}))

(* FederationNode.request_vote: does n grant c its vote in term t?  A higher  *)
(* term makes n forget its vote first, and so always gets one.  The           *)
(* candidate's log is not looked at.                                          *)
Grants(n, c, t) == t > term[n] \/ (t = term[n] /\ votedFor[n] \in {Nobody, c})

(* Step 2: the next new candidate, in dict order, asks every peer in its      *)
(* current term, which an earlier candidate may have raised.                  *)
Solicit(c) ==
    /\ c \in asking /\ \A d \in asking : c <= d
    /\ asking' = asking \ {c}
    /\ LET t == term[c]
           granting == {n \in Peers(c) : Grants(n, c, t)}
           elected == Cardinality(votes[c] \union granting) >= Majority
       IN  /\ term' = [n \in Nodes |-> IF n \in granting THEN t ELSE term[n]]
           /\ votedFor' = [n \in Nodes |-> IF n \in granting THEN c ELSE votedFor[n]]
           /\ votes' = [votes EXCEPT ![c] = @ \union granting]
           /\ role' = [n \in Nodes |-> IF n = c /\ elected THEN "LEADER"
                                       ELSE IF n \in granting /\ t > term[n] THEN "FOLLOWER"
                                       ELSE role[n]]
           /\ RestartTimers(granting)
           /\ winner' = IF elected THEN winner \union {<<t, c>>} ELSE winner
    /\ UNCHANGED <<members, joined, logs, readOnly, ticking, age>>

-----------------------------------------------------------------------------
(* FederationNode.append_entries's loop: an entry is appended if its index is *)
(* beyond the log's length, whatever lies between.  after[k] is the log after *)
(* the first k entries.                                                       *)
Extend(own, entries) ==
    LET after[k \in 0..Len(entries)] ==
          IF k = 0 THEN own
          ELSE IF entries[k].index > Len(after[k - 1]) THEN Append(after[k - 1], entries[k])
          ELSE after[k - 1]
    IN  after[Len(entries)]

\* Mutant of Missing: the slice starts one entry late.
MissingButOne(n, l) == SubSeq(log[l], Len(log[n]) + 2, Len(log[l]))

Missing(n, l) == SubSeq(log[l], Len(log[n]) + 1, Len(log[l]))

Least(a, b) == IF a < b THEN a ELSE b

(* The commit index after append_entries(leader_commit) left the log l. *)
CommitUpTo(own, leaderCommit, l) ==
    IF leaderCommit > own THEN Least(leaderCommit, Len(l)) ELSE own

(* Who takes an append_entries of l, and what it then does with its ballot. *)
Accepting(l) == {n \in Peers(l) : term[l] >= term[n]}

StepDown(l) ==
    LET S == Accepting(l)
    IN  /\ role' = [n \in Nodes |-> IF n \in S THEN "FOLLOWER" ELSE role[n]]
        /\ votedFor' = [n \in Nodes |-> IF n \in S /\ term[l] > term[n]
                                        THEN Nobody ELSE votedFor[n]]
        /\ term' = [n \in Nodes |-> IF n \in S THEN term[l] ELSE term[n]]
        /\ RestartTimers(S)

(* Step 3: the leader's heartbeat to every peer, the entries each misses, and *)
(* the leader's commit index.                                                 *)
Follow(l) ==
    /\ StepDown(l)
    /\ log' = [n \in Nodes |-> IF n \in Accepting(l) THEN Extend(log[n], Missing(n, l))
                              ELSE log[n]]
    /\ commit' = [n \in Nodes |->
                    IF n = l /\ log[l] # <<>> THEN Len(log[l])
                    ELSE IF n \in Accepting(l) /\ Missing(n, l) # <<>>
                    THEN CommitUpTo(commit[n], commit[l], log'[n])
                    ELSE commit[n]]

Beat ==
    /\ ticking /\ asking = {} /\ ticking' = FALSE
    /\ \/ Leaders # {} /\ Follow(Leader)
       \/ Leaders = {} /\ UNCHANGED <<role, votedFor, term, timer, log, commit>>
    /\ UNCHANGED <<members, joined, votes, written, uneven, readOnly, asking, winner, age>>

-----------------------------------------------------------------------------
NewEntry(l) == [term |-> term[l], index |-> Len(log[l]) + 1, command |-> written + 1]

(* FederationNode.append_to_log on a leader; the next tick replicates it. *)
AppendToLog(l) ==
    /\ ~ticking /\ l \in Leaders /\ written < MaxEntries
    /\ log' = [log EXCEPT ![l] = Append(@, NewEntry(l))]
    /\ written' = written + 1
    /\ UNCHANGED <<members, joined, ballots, commit, uneven, readOnly, ticking, asking, winner, age>>

(* FederationCluster.broadcast_log_entry: the leader's new entry, and only    *)
(* it, goes to every peer at once; it is a heartbeat too.                      *)
Broadcast ==
    /\ ~ticking /\ written < MaxEntries
    /\ \E l \in Leaders :
        /\ l = Leader
        /\ StepDown(l)
        /\ log' = [n \in Nodes |-> IF n = l THEN Append(log[l], NewEntry(l))
                                  ELSE IF n \in Accepting(l) THEN Extend(log[n], <<NewEntry(l)>>)
                                  ELSE log[n]]
        /\ commit' = [n \in Nodes |-> IF n \in Accepting(l)
                                      THEN CommitUpTo(commit[n], commit[l], log'[n])
                                      ELSE commit[n]]
        /\ uneven' = (uneven \/ \E n \in Accepting(l) : Len(log[n]) # Len(log[l]))
    /\ written' = written + 1
    /\ UNCHANGED <<members, joined, votes, readOnly, ticking, asking, winner, age>>

-----------------------------------------------------------------------------
(* SplitBrainDetector.check, when this many of its node's peers are in reach: *)
(* which peers are is set from outside.  On healing, _sync_with_leader copies *)
(* what is missing of the leader's log, and its commit index.                 *)
InReach(reachable, n) == Peers(n) = {} \/ reachable >= Majority

EnterReadOnly(n) ==
    /\ ~ticking /\ n \in members /\ ~readOnly[n]
    /\ \E reachable \in 0..Cardinality(Peers(n)) : ~InReach(reachable, n)
    /\ readOnly' = [readOnly EXCEPT ![n] = TRUE]
    /\ UNCHANGED <<members, joined, ballots, logs, ticking, asking, winner, age>>

Heal(n) ==
    /\ ~ticking /\ n \in members /\ readOnly[n]
    /\ \E reachable \in 0..Cardinality(Peers(n)) : InReach(reachable, n)
    /\ readOnly' = [readOnly EXCEPT ![n] = FALSE]
    /\ LET others == {l \in Leaders : l = Leader} \ {n}
       IN  \/ \E l \in others : /\ log' = [log EXCEPT ![n] = @ \o Missing(n, l)]
                                /\ commit' = [commit EXCEPT ![n] = commit[l]]
                                /\ uneven' = (uneven \/ Missing(n, l) # <<>>)
           \/ others = {} /\ UNCHANGED <<log, commit, uneven>>
    /\ UNCHANGED <<members, joined, ballots, written, ticking, asking, winner, age>>

Next ==
    \/ AddNode
    \/ \E n \in Nodes : RemoveNode(n)
    \/ TickNodes
    \/ \E c \in Nodes : Solicit(c)
    \/ Beat
    \/ \E l \in Nodes : AppendToLog(l)
    \/ Broadcast
    \/ \E n \in Watched : EnterReadOnly(n)
    \/ \E n \in Watched : Heal(n)

Spec == Init /\ [][Next]_vars

-----------------------------------------------------------------------------
TypeOK ==
    /\ joined \in 0..MaxNodes /\ members \subseteq 1..joined
    /\ role \in [Nodes -> Roles]
    /\ term \in [Nodes -> 0..MaxTerm]
    /\ votedFor \in [Nodes -> {Nobody} \union Nodes]
    /\ votes \in [Nodes -> SUBSET Nodes]
    /\ timer \in [Nodes -> Nat]
    /\ \A n \in Nodes : log[n] \in Seq(Entries) /\ commit[n] \in 0..MaxEntries
    /\ readOnly \in [Watched -> BOOLEAN]
    /\ ticking \in BOOLEAN /\ asking \subseteq members
    /\ written \in 0..MaxEntries
    /\ winner \subseteq (0..MaxTerm) \X Nodes
    /\ age \in {"new", "running", "joined_late"} /\ uneven \in BOOLEAN

(* Between two ticks the cluster has one leader at most, whoever joins or     *)
(* leaves: get_leader's "first in the dict" is never a choice.                *)
OneLeader == ~ticking => \A l, k \in Leaders : l = k

(* No two nodes become leader in the same term, as long as the nodes join     *)
(* before the first tick; they may leave at any time.  request_vote's         *)
(* voted_for is what keeps it, and a node that joins later has none.          *)
OneWinnerPerTerm ==
    ~Late => \A a, b \in winner : a[1] = b[1] => a = b

(* In a cluster nobody joins late, a committed entry is in the logs of a      *)
(* majority, at the same place, whatever leaders come and go; unless an entry *)
(* reached some nodes ahead of the tick that replicates: it was broadcast     *)
(* before an older one was, or a healed node fetched it from the leader.      *)
CommittedOnMajority ==
    ~ticking /\ ~Late /\ ~uneven =>
        \A n \in members : \A i \in 1..commit[n] :
            Cardinality({m \in members : i <= Len(log[m]) /\ i <= Len(log[n])
                                         /\ log[m][i] = log[n][i]}) >= Majority

(* A leader's heartbeats keep its followers from starting an election, in a   *)
(* cluster nobody joins late.                                                 *)
HeartbeatsPreventElections ==
    [][~ticking /\ ~Late /\ Leaders # {} => asking' = {}]_vars
=============================================================================
