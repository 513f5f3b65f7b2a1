-------------------------- MODULE FederationProofs --------------------------
(***************************************************************************)
(* Proofs about the elections and the logs of Federation, and about the    *)
(* network and the gossip over it (Network, Gossip), for every number of   *)
(* nodes, every bound, every draw of the timeouts and every loss.          *)
(***************************************************************************)
EXTENDS Federation, Gossip, FiniteSetTheorems, SequenceTheorems,
  WellFoundedInduction, TLAPS

\* The ballots have their types; the logs take no part in an election.
BallotsOK ==
  /\ joined \in 0..MaxNodes /\ members \subseteq 1..joined
  /\ role \in [Nodes -> Roles]
  /\ term \in [Nodes -> Nat]
  /\ votedFor \in [Nodes -> {Nobody} \union Nodes]
  /\ votes \in [Nodes -> SUBSET Nodes]
  /\ timer \in [Nodes -> Nat]
  /\ ticking \in BOOLEAN /\ asking \subseteq members /\ (~ticking => asking = {})
  /\ winner \subseteq Nat \X Nodes
  /\ \A n \in Nodes \ members : role[n] = "FOLLOWER"

\* A node that stood for election is not ahead of the nodes that joined before it.
Ordered ==
  \A n, m \in members :
    n < m /\ m \notin asking /\ role[m] # "FOLLOWER" => term[m] <= term[n]

LeaderInv == BallotsOK /\ Ordered /\ OneLeader

-----------------------------------------------------------------------------
LEMMA LeastElement ==
  ASSUME NEW S \in SUBSET Nat, S # {}
  PROVE  \E x \in S : \A y \in S : x <= y
<1>1. IsWellFoundedOn(OpToRel(<, Nat), Nat)
  BY NatLessThanWellFounded
<1>2. \E x \in S : \A y \in S : ~ (<<y, x>> \in OpToRel(<, Nat))
  BY <1>1, WFMin, Zenon
<1>3. \A x, y \in S : ~ (<<y, x>> \in OpToRel(<, Nat)) => x <= y
  BY DEF OpToRel
<1> QED  BY <1>2, <1>3

LEMMA LeaderIsFirst ==
  ASSUME BallotsOK, Leaders # {}
  PROVE  Leader \in Leaders /\ \A m \in Leaders : Leader <= m
<1>1. Leaders \in SUBSET Nat
  <2>1. joined \in Nat
    BY BoundsAreNatural DEF BallotsOK
  <2>2. members \subseteq Nat
    BY <2>1 DEF BallotsOK
  <2> QED  BY <2>2 DEF Leaders
<1>2. \E n \in Leaders : \A m \in Leaders : n <= m
  BY <1>1, LeastElement
<1> QED  BY <1>2 DEF Leader

\* One vote is a majority of one node only.
LEMMA MajorityOfTwo ==
  ASSUME BallotsOK, NEW n \in members, NEW m \in members, n # m
  PROVE  Majority \in Nat /\ Majority >= 2
<1>1. IsFiniteSet(1..joined)
  BY BoundsAreNatural, FS_Interval DEF BallotsOK
<1>2. IsFiniteSet(members) /\ Cardinality(members) \in Nat
  BY <1>1, FS_Subset, FS_CardinalityType DEF BallotsOK
<1>3. IsFiniteSet({n}) /\ Cardinality({n}) = 1
  BY FS_Singleton
<1>4. Cardinality({n} \union {m}) = 2
  BY <1>3, FS_AddElement
<1>5. {n} \union {m} \in SUBSET members
  OBVIOUS
<1>6. 2 <= Cardinality(members)
  BY <1>2, <1>4, <1>5, FS_Subset
<1> QED  BY <1>2, <1>6 DEF Majority

-----------------------------------------------------------------------------
\* What append_entries does to the ballots.
LEMMA StepDownFacts ==
  ASSUME BallotsOK, NEW l \in members, StepDown(l)
  PROVE  /\ role' \in [Nodes -> Roles]
         /\ term' \in [Nodes -> Nat]
         /\ votedFor' \in [Nodes -> {Nobody} \union Nodes]
         /\ timer' \in [Nodes -> Nat]
         /\ \A n \in Nodes :
              /\ n \in Accepting(l) => role'[n] = "FOLLOWER" /\ term'[n] = term[l]
                                       /\ timer'[n] \in Timeouts
              /\ n \notin Accepting(l) => role'[n] = role[n] /\ term'[n] = term[n]
                                          /\ timer'[n] = timer[n]
<1>1. members \subseteq Nodes
  BY BoundsAreNatural DEF BallotsOK, Nodes
<1>2. term[l] \in Nat /\ Accepting(l) \subseteq Nodes
  BY <1>1 DEF BallotsOK, Accepting, Peers
<1>3. PICK draw \in [Accepting(l) -> Timeouts] :
        timer' = [n \in Nodes |-> IF n \in Accepting(l) THEN draw[n] ELSE timer[n]]
  BY DEF StepDown, RestartTimers
<1>4. timer' \in [Nodes -> Nat] /\ \A n \in Nodes :
        IF n \in Accepting(l) THEN timer'[n] \in Timeouts ELSE timer'[n] = timer[n]
  BY <1>2, <1>3, TimeoutsAreLong DEF BallotsOK
<1>5. /\ role' = [n \in Nodes |-> IF n \in Accepting(l) THEN "FOLLOWER" ELSE role[n]]
      /\ votedFor' = [n \in Nodes |-> IF n \in Accepting(l) /\ term[l] > term[n]
                                      THEN Nobody ELSE votedFor[n]]
      /\ term' = [n \in Nodes |-> IF n \in Accepting(l) THEN term[l] ELSE term[n]]
  BY DEF StepDown
<1>6. role' \in [Nodes -> Roles]
  BY <1>5 DEF BallotsOK, Roles
<1>7. term' \in [Nodes -> Nat]
  BY <1>2, <1>5 DEF BallotsOK
<1>8. votedFor' \in [Nodes -> {Nobody} \union Nodes]
  BY <1>5 DEF BallotsOK
<1> QED  BY <1>4, <1>5, <1>6, <1>7, <1>8

\* append_entries only ever lowers a role and raises a term.
LEMMA StepDownKeepsOrder ==
  ASSUME BallotsOK, Ordered, NEW l \in members, StepDown(l), UNCHANGED <<members, asking>>
  PROVE  Ordered'
<1>1. members \subseteq Nodes
  BY BoundsAreNatural DEF BallotsOK, Nodes
<1>2. \A n \in Nodes : term[n] \in Nat /\ term'[n] \in Nat /\ term[n] <= term'[n]
  BY <1>1, StepDownFacts DEF BallotsOK, Accepting
<1>3. \A n \in Nodes : role'[n] # "FOLLOWER" => role[n] # "FOLLOWER" /\ term'[n] = term[n]
  BY StepDownFacts
<1>4. SUFFICES ASSUME NEW n \in members, NEW m \in members,
                      n < m, m \notin asking, role'[m] # "FOLLOWER"
               PROVE  term'[m] <= term'[n]
  BY DEF Ordered
<1>5. term[m] <= term[n]
  BY <1>1, <1>3, <1>4 DEF Ordered
<1> QED  BY <1>1, <1>2, <1>3, <1>4, <1>5

\* The step of FederationNode.tick on every node.
LEMMA TickFacts ==
  ASSUME BallotsOK, TickNodes
  PROVE  /\ BallotsOK'
         /\ \A n \in Nodes :
              /\ n \in asking' => /\ n \in members /\ TimesOut(n) /\ role'[n] = "CANDIDATE"
                                 /\ term'[n] = term[n] + 1 /\ votedFor'[n] = n /\ votes'[n] = {n}
              /\ n \notin asking' => /\ term'[n] = term[n] /\ votedFor'[n] = votedFor[n]
                                    /\ votes'[n] = votes[n]
                                    /\ role'[n] = IF n \in members /\ Wins(n) THEN "LEADER" ELSE role[n]
         /\ \A w \in winner' : w \in winner \/ \E n \in members : Wins(n) /\ w = <<term[n], n>>
<1> DEFINE started == {n \in members : TimesOut(n)}
           won == {n \in members : Wins(n)}
<1>1. members \subseteq Nodes
  BY BoundsAreNatural DEF BallotsOK, Nodes
<1>2. /\ asking' = started
      /\ role' = [n \in Nodes |-> IF n \in won THEN "LEADER"
                                  ELSE IF n \in started THEN "CANDIDATE" ELSE role[n]]
      /\ term' = [n \in Nodes |-> IF n \in started THEN term[n] + 1 ELSE term[n]]
      /\ votedFor' = [n \in Nodes |-> IF n \in started THEN n ELSE votedFor[n]]
      /\ votes' = [n \in Nodes |-> IF n \in started THEN {n} ELSE votes[n]]
      /\ winner' = winner \union {<<term[n], n>> : n \in won}
      /\ ticking' = TRUE /\ members' = members /\ joined' = joined
  BY DEF TickNodes
<1>3. PICK draw \in [started -> Timeouts] :
        timer' = [n \in Nodes |-> IF n \in started THEN draw[n]
                                  ELSE IF n \in members /\ CountsDown(n) THEN timer[n] - 1
                                  ELSE timer[n]]
  BY DEF TickNodes
<1>4. \A n \in members : ~(TimesOut(n) /\ Wins(n))
  BY DEF TimesOut, CountsDown
<1>5. timer' \in [Nodes -> Nat]
  <2>1. \A n \in members : n \notin started /\ CountsDown(n) => timer[n] - 1 \in Nat
    BY <1>1 DEF BallotsOK, TimesOut
  <2>2. \A n \in started : draw[n] \in Nat
    BY TimeoutsAreLong
  <2> QED  BY <1>1, <1>3, <2>1, <2>2 DEF BallotsOK
<1>6. role' \in [Nodes -> Roles]
  BY <1>2 DEF BallotsOK, Roles
<1>7. /\ term' \in [Nodes -> Nat]
      /\ votedFor' \in [Nodes -> {Nobody} \union Nodes]
      /\ votes' \in [Nodes -> SUBSET Nodes]
  BY <1>1, <1>2 DEF BallotsOK
<1>8. winner' \subseteq Nat \X Nodes
  BY <1>1, <1>2 DEF BallotsOK
<1>9. \A n \in Nodes \ members : role'[n] = "FOLLOWER"
  BY <1>2 DEF BallotsOK
<1>10. BallotsOK'
  BY <1>2, <1>5, <1>6, <1>7, <1>8, <1>9 DEF BallotsOK
<1>11. \A w \in winner' : w \in winner \/ \E n \in members : Wins(n) /\ w = <<term[n], n>>
  BY <1>2
<1> HIDE DEF started, won
<1>12. \A n \in Nodes : n \in asking' => n \in members /\ TimesOut(n) /\ ~Wins(n)
  BY <1>2, <1>4 DEF started
<1>13. \A n \in Nodes : (n \in asking' <=> n \in started) /\ (n \in won <=> n \in members /\ Wins(n))
  BY <1>2 DEF won
<1> QED  BY <1>2, <1>10, <1>11, <1>12, <1>13

\* One candidate's round: whoever grants has the candidate's term now, whoever
\* refuses had it before or is beyond it.
LEMMA SolicitFacts ==
  ASSUME BallotsOK, NEW c \in Nodes, Solicit(c)
  PROVE  /\ BallotsOK'
         /\ c \in members /\ c \in asking /\ asking' = asking \ {c}
         /\ \A n \in Nodes :
              LET granting == n \in Peers(c) /\ Grants(n, c, term[c])
              IN  /\ granting => /\ term'[n] = term[c] /\ votedFor'[n] = c
                                 /\ role'[n] = IF term[c] > term[n] THEN "FOLLOWER" ELSE role[n]
                  /\ ~granting => /\ term'[n] = term[n] /\ votedFor'[n] = votedFor[n]
                                  /\ n # c => role'[n] = role[n]
                  /\ n # c => votes'[n] = votes[n]
         /\ votes'[c] = votes[c] \union {n \in Peers(c) : Grants(n, c, term[c])}
         /\ \/ Cardinality(votes'[c]) >= Majority /\ role'[c] = "LEADER"
               /\ winner' = winner \union {<<term[c], c>>}
            \/ role'[c] = role[c] /\ winner' = winner
<1> DEFINE granting == {n \in Peers(c) : Grants(n, c, term[c])}
           elected == Cardinality(votes[c] \union granting) >= Majority
<1>1. members \subseteq Nodes /\ c \in members /\ c \in asking /\ asking' = asking \ {c}
  BY BoundsAreNatural DEF BallotsOK, Nodes, Solicit
<1>2. /\ term' = [n \in Nodes |-> IF n \in granting THEN term[c] ELSE term[n]]
      /\ votedFor' = [n \in Nodes |-> IF n \in granting THEN c ELSE votedFor[n]]
      /\ votes' = [votes EXCEPT ![c] = @ \union granting]
      /\ role' = [n \in Nodes |-> IF n = c /\ elected THEN "LEADER"
                                  ELSE IF n \in granting /\ term[c] > term[n] THEN "FOLLOWER"
                                  ELSE role[n]]
      /\ RestartTimers(granting)
      /\ winner' = IF elected THEN winner \union {<<term[c], c>>} ELSE winner
      /\ UNCHANGED <<members, joined, ticking>>
  BY DEF Solicit
<1>3. PICK draw \in [granting -> Timeouts] :
        timer' = [n \in Nodes |-> IF n \in granting THEN draw[n] ELSE timer[n]]
  BY <1>2 DEF RestartTimers
<1>4. granting \subseteq members /\ c \notin granting
  BY DEF Peers
<1>5. timer' \in [Nodes -> Nat]
  <2>1. \A n \in granting : draw[n] \in Nat
    BY TimeoutsAreLong
  <2> QED  BY <1>3, <2>1 DEF BallotsOK
<1>6. role' \in [Nodes -> Roles]
  BY <1>2 DEF BallotsOK, Roles
<1>7. term' \in [Nodes -> Nat] /\ votedFor' \in [Nodes -> {Nobody} \union Nodes]
  BY <1>2 DEF BallotsOK
<1>8. votes' \in [Nodes -> SUBSET Nodes]
  BY <1>1, <1>2, <1>4 DEF BallotsOK
<1>9. winner' \subseteq Nat \X Nodes
  BY <1>2 DEF BallotsOK
<1>10. \A n \in Nodes \ members : role'[n] = "FOLLOWER"
  BY <1>1, <1>2 DEF BallotsOK
<1>11. BallotsOK'
  BY <1>1, <1>2, <1>5, <1>6, <1>7, <1>8, <1>9, <1>10 DEF BallotsOK
<1>12. votes'[c] = votes[c] \union granting /\ \A n \in Nodes : n # c => votes'[n] = votes[n]
  BY <1>2 DEF BallotsOK
<1>13. elected <=> Cardinality(votes'[c]) >= Majority
  BY <1>12
<1>14. \/ elected /\ role'[c] = "LEADER" /\ winner' = winner \union {<<term[c], c>>}
       \/ role'[c] = role[c] /\ winner' = winner
  BY <1>2, <1>4
<1> HIDE DEF elected
<1>15. \A n \in Nodes :
         /\ n \in granting =>
              term'[n] = term[c] /\ votedFor'[n] = c
              /\ role'[n] = IF term[c] > term[n] THEN "FOLLOWER" ELSE role[n]
         /\ n \notin granting =>
              term'[n] = term[n] /\ votedFor'[n] = votedFor[n] /\ (n # c => role'[n] = role[n])
  BY <1>2, <1>4
<1> QED  BY <1>1, <1>11, <1>12, <1>13, <1>14, <1>15

\* After its round a candidate is behind nobody.
LEMMA SolicitedTerms ==
  ASSUME BallotsOK, NEW c \in Nodes, Solicit(c)
  PROVE  \A n \in members : term[n] <= term'[n] /\ term[c] <= term'[n] /\ term'[c] = term[c]
<1>1. members \subseteq Nodes
  BY BoundsAreNatural DEF BallotsOK, Nodes
<1>2. \A n \in members : term[n] \in Nat
  BY <1>1 DEF BallotsOK
<1>3. \A n \in members : ~Grants(n, c, term[c]) => term[c] <= term[n]
  BY <1>2, SolicitFacts DEF Grants
<1>4. \A n \in members : Grants(n, c, term[c]) => term[n] <= term[c]
  BY <1>2, SolicitFacts DEF Grants
<1> QED  BY <1>1, <1>2, <1>3, <1>4, SolicitFacts DEF Peers

\* The new node is the youngest, and a follower.
LEMMA AddFacts ==
  ASSUME BallotsOK, AddNode
  PROVE  /\ BallotsOK' /\ joined' \in Nodes /\ role[joined'] = "FOLLOWER"
         /\ members' = members \union {joined'} /\ \A n \in members : n < joined'
         /\ UNCHANGED <<role, term, votedFor, votes, winner, asking, ticking>>
<1>1. joined \in Nat /\ joined' = joined + 1 /\ joined' \in Nodes /\ joined' \in 0..MaxNodes
  <2>1. joined \in Nat /\ joined < MaxNodes /\ joined' = joined + 1 /\ MaxNodes \in Nat
    <3>1. joined \in 0..MaxNodes /\ MaxNodes \in Nat
      BY BoundsAreNatural DEF BallotsOK
    <3>2. joined \in Nat
      BY <3>1
    <3>3. joined < MaxNodes /\ joined' = joined + 1
      BY DEF AddNode
    <3> QED  BY <3>1, <3>2, <3>3
  <2> QED  BY <2>1 DEF Nodes
<1>2. members' = members \union {joined'} /\ \A n \in members : n < joined'
  <2>1. members \subseteq 1..joined /\ members' = members \union {joined'}
    BY DEF BallotsOK, AddNode
  <2> QED  BY <1>1, <2>1
<1>3. role[joined'] = "FOLLOWER"
  BY <1>1, <1>2 DEF BallotsOK
<1>4. timer' \in [Nodes -> Nat]
  BY <1>1, TimeoutsAreLong DEF BallotsOK, AddNode
<1>5. members' \subseteq 1..joined'
  BY <1>1, <1>2 DEF BallotsOK
<1>6. UNCHANGED <<role, term, votedFor, votes, winner, asking, ticking>>
  BY DEF AddNode
<1> QED  BY <1>1, <1>2, <1>3, <1>4, <1>5, <1>6 DEF BallotsOK

LEMMA RemoveFacts ==
  ASSUME BallotsOK, NEW r \in Nodes, RemoveNode(r)
  PROVE  /\ BallotsOK' /\ members' = members \ {r}
         /\ UNCHANGED <<winner, asking, ticking, age>> /\ ~ticking
         /\ \A n \in Nodes : n # r => /\ role'[n] = role[n] /\ term'[n] = term[n]
                                     /\ votedFor'[n] = votedFor[n] /\ votes'[n] = votes[n]
                                     /\ timer'[n] = timer[n]
         /\ term'[r] = 0 /\ role'[r] = "FOLLOWER"
<1>1. /\ role' \in [Nodes -> Roles] /\ term' \in [Nodes -> Nat]
      /\ votedFor' \in [Nodes -> {Nobody} \union Nodes]
      /\ votes' \in [Nodes -> SUBSET Nodes] /\ timer' \in [Nodes -> Nat]
  BY DEF BallotsOK, RemoveNode, Roles
<1>2. /\ \A n \in Nodes : n # r => /\ role'[n] = role[n] /\ term'[n] = term[n]
                                   /\ votedFor'[n] = votedFor[n] /\ votes'[n] = votes[n]
                                   /\ timer'[n] = timer[n]
      /\ term'[r] = 0 /\ role'[r] = "FOLLOWER"
  BY DEF BallotsOK, RemoveNode
<1>3. /\ members' = members \ {r} /\ ~ticking
      /\ UNCHANGED <<joined, winner, asking, ticking, age>>
  BY DEF RemoveNode
<1>4. asking' \subseteq members' /\ (~ticking' => asking' = {})
  BY <1>3 DEF BallotsOK
<1> QED  BY <1>1, <1>2, <1>3, <1>4 DEF BallotsOK

-----------------------------------------------------------------------------
LEMMA InitLeader == Init => LeaderInv
<1>1. SUFFICES ASSUME Init PROVE BallotsOK /\ Ordered /\ OneLeader
  BY DEF LeaderInv
<1>2. BallotsOK
  <2>1. joined \in 0..MaxNodes /\ members \subseteq 1..joined
    BY <1>1, BoundsAreNatural DEF Init
  <2>2. /\ role \in [Nodes -> Roles] /\ term \in [Nodes -> Nat]
        /\ votedFor \in [Nodes -> {Nobody} \union Nodes]
        /\ votes \in [Nodes -> SUBSET Nodes] /\ timer \in [Nodes -> Nat]
    BY <1>1 DEF Init, Roles
  <2>3. /\ ticking \in BOOLEAN /\ asking \subseteq members /\ asking = {}
        /\ winner \subseteq Nat \X Nodes
        /\ \A n \in Nodes \ members : role[n] = "FOLLOWER"
    BY <1>1 DEF Init
  <2> QED  BY <2>1, <2>2, <2>3 DEF BallotsOK
<1>3. Ordered /\ OneLeader
  BY <1>1 DEF Init, Ordered, OneLeader, Leaders
<1> QED  BY <1>2, <1>3

\* After the first leader's heartbeat nobody else leads: a younger leader's term
\* is not beyond the first one's.
LEMMA HeartbeatLeavesOne ==
  ASSUME BallotsOK, Ordered, asking = {}, Leaders # {}, StepDown(Leader), members' = members
  PROVE  Leaders' \subseteq {Leader}
<1>1. PICK l \in members : l = Leader /\ \A m \in Leaders : l <= m
  BY LeaderIsFirst DEF Leaders
<1>2. members \subseteq Nodes /\ StepDown(l)
  BY <1>1, BoundsAreNatural DEF BallotsOK, Nodes
<1>3. SUFFICES ASSUME NEW k \in members, role'[k] = "LEADER", k # l PROVE FALSE
  BY <1>1 DEF Leaders
<1>4. k \notin Accepting(l) /\ role[k] = "LEADER"
  BY <1>2, <1>3, StepDownFacts
<1>5. l < k
  <2>1. l <= k /\ l \in Nodes /\ k \in Nodes
    BY <1>1, <1>2, <1>4 DEF Leaders
  <2> QED  BY <1>3, <2>1, BoundsAreNatural DEF Nodes
<1>6. term[k] <= term[l]
  BY <1>4, <1>5 DEF Ordered
<1> QED  BY <1>2, <1>3, <1>4, <1>6 DEF Accepting, Peers, BallotsOK

\* A step that leaves the ballots alone.
SameBallots == UNCHANGED <<members, joined, ballots, winner, asking, ticking>>

LEMMA LeaderStep == LeaderInv /\ [Next]_vars => LeaderInv'
<1> SUFFICES ASSUME LeaderInv, [Next]_vars PROVE LeaderInv'
  OBVIOUS
<1> USE DEF LeaderInv
<1>m. members \subseteq Nodes
  BY BoundsAreNatural DEF BallotsOK, Nodes
<1>s. ASSUME SameBallots PROVE LeaderInv'
  <2>1. BallotsOK'
    BY <1>s DEF SameBallots, ballots, BallotsOK
  <2>2. Ordered' /\ OneLeader'
    BY <1>s DEF SameBallots, ballots, Ordered, OneLeader, Leaders
  <2> QED  BY <2>1, <2>2
<1>1. CASE AddNode
  <2>1. BallotsOK'
    BY <1>1, AddFacts
  <2>2. Ordered'
    <3>1. SUFFICES ASSUME NEW n \in members', NEW m \in members',
                          n < m, m \notin asking', role'[m] # "FOLLOWER"
                   PROVE  term'[m] <= term'[n]
      BY DEF Ordered
    <3>2. m \in members /\ m # joined'
      BY <1>1, <3>1, AddFacts
    <3>3. n \in members
      BY <1>1, <1>m, <3>1, <3>2, AddFacts, BoundsAreNatural DEF Nodes
    <3> QED  BY <1>1, <3>1, <3>2, <3>3, AddFacts DEF Ordered
  <2>3. OneLeader'
    BY <1>1, AddFacts DEF OneLeader, Leaders
  <2> QED  BY <2>1, <2>2, <2>3
<1>2. ASSUME NEW r \in Nodes, RemoveNode(r) PROVE LeaderInv'
  <2>1. BallotsOK' /\ Ordered' /\ OneLeader'
    BY <1>m, <1>2, RemoveFacts DEF Ordered, OneLeader, Leaders
  <2> QED  BY <2>1
<1>3. CASE TickNodes
  <2>1. BallotsOK' /\ ticking' /\ members' = members /\ asking = {}
    BY <1>3, TickFacts DEF TickNodes, BallotsOK
  <2>2. \A n \in members : term[n] \in Nat /\ term[n] <= term'[n]
    <3>1. \A n \in members : term'[n] = term[n] \/ term'[n] = term[n] + 1
      BY <1>3, <1>m, TickFacts
    <3>2. \A n \in members : term[n] \in Nat
      BY <1>m DEF BallotsOK
    <3> QED  BY <3>1, <3>2
  <2>3. \A m \in members : m \notin asking' /\ role'[m] # "FOLLOWER"
                          => role[m] # "FOLLOWER" /\ term'[m] = term[m]
    BY <1>3, <1>m, TickFacts DEF Wins
  <2>4. Ordered'
    <3>1. SUFFICES ASSUME NEW n \in members, NEW m \in members,
                          n < m, m \notin asking', role'[m] # "FOLLOWER"
                   PROVE  term'[m] <= term'[n]
      BY <2>1 DEF Ordered
    <3>2. term'[m] = term[m] /\ term[m] <= term[n]
      BY <2>1, <2>3, <3>1 DEF Ordered
    <3>3. term[m] \in Nat /\ term[n] \in Nat /\ term'[n] \in Nat
      BY <1>m, <2>1 DEF BallotsOK
    <3> QED  BY <2>2, <3>2, <3>3
  <2> QED  BY <2>1, <2>4 DEF OneLeader
<1>4. ASSUME NEW c \in Nodes, Solicit(c) PROVE LeaderInv'
  <2>1. BallotsOK' /\ members' = members /\ ticking' = ticking /\ ticking
    BY <1>4, SolicitFacts DEF Solicit, BallotsOK
  <2>2. Ordered'
    <3>1. SUFFICES ASSUME NEW n \in members, NEW m \in members,
                          n < m, m \notin asking', role'[m] # "FOLLOWER"
                   PROVE  term'[m] <= term'[n]
      BY <2>1 DEF Ordered
    <3>2. CASE m = c
      BY <1>4, <3>2, SolicitedTerms
    <3>3. CASE m # c
      <4>1. role[m] # "FOLLOWER" /\ term'[m] = term[m] /\ m \notin asking
        <5>1. m \notin asking
          BY <1>4, <3>1, <3>3, SolicitFacts
        <5>2. CASE m \in Peers(c) /\ Grants(m, c, term[c])
          BY <1>4, <1>m, <3>1, <5>1, <5>2, SolicitFacts DEF Grants
        <5>3. CASE ~(m \in Peers(c) /\ Grants(m, c, term[c]))
          BY <1>4, <1>m, <3>1, <3>3, <5>1, <5>3, SolicitFacts
        <5> QED  BY <5>2, <5>3
      <4>2. term[m] <= term[n] /\ term[n] <= term'[n]
        BY <1>4, <3>1, <4>1, SolicitedTerms DEF Ordered
      <4>3. term[m] \in Nat /\ term[n] \in Nat /\ term'[n] \in Nat
        BY <1>m, <2>1 DEF BallotsOK
      <4> QED  BY <4>1, <4>2, <4>3
    <3> QED  BY <3>2, <3>3
  <2> QED  BY <2>1, <2>2 DEF OneLeader
<1>5. ASSUME Leaders # {}, StepDown(Leader), asking = {},
             UNCHANGED <<members, joined, votes, asking, winner>>, ticking' = FALSE
      PROVE  LeaderInv'
  <2>1. PICK l \in members : l = Leader
    BY <1>5, LeaderIsFirst DEF Leaders
  <2>2. StepDown(l)
    BY <1>5, <2>1
  <2>3. Ordered'
    BY <1>5, <2>2, StepDownKeepsOrder
  <2>4. BallotsOK'
    <3>1. \A n \in Nodes \ members' : role'[n] = "FOLLOWER"
      BY <1>5, <2>2, StepDownFacts DEF BallotsOK
    <3> QED  BY <1>5, <2>2, <3>1, StepDownFacts DEF BallotsOK
  <2>5. OneLeader'
    BY <1>5, HeartbeatLeavesOne DEF OneLeader
  <2> QED  BY <2>3, <2>4, <2>5
<1>6. CASE Beat
  <2>1. CASE Leaders # {} /\ Follow(Leader)
    BY <1>5, <1>6, <2>1 DEF Beat, Follow
  <2>2. CASE Leaders = {}
    <3>1. UNCHANGED <<members, joined, ballots, asking, winner>> /\ ticking' = FALSE /\ asking = {}
      BY <1>6, <2>2 DEF Beat, ballots
    <3>2. BallotsOK' /\ Ordered' /\ OneLeader'
      BY <2>2, <3>1 DEF BallotsOK, Ordered, OneLeader, Leaders, ballots
    <3> QED  BY <3>2
  <2> QED  BY <1>6, <2>1, <2>2 DEF Beat
<1>7. CASE Broadcast
  <2>1. asking = {} /\ ticking' = FALSE
    BY <1>7 DEF Broadcast, BallotsOK
  <2>2. Leaders # {} /\ StepDown(Leader) /\ UNCHANGED <<members, joined, votes, asking, winner>>
    BY <1>7 DEF Broadcast
  <2> QED  BY <1>5, <2>1, <2>2
<1>8. ASSUME NEW n \in Nodes, AppendToLog(n) PROVE LeaderInv'
  BY <1>s, <1>8 DEF AppendToLog, SameBallots
<1>9. ASSUME NEW n \in Watched, EnterReadOnly(n) \/ Heal(n) PROVE LeaderInv'
  BY <1>s, <1>9 DEF EnterReadOnly, Heal, SameBallots
<1>10. CASE UNCHANGED vars
  BY <1>s, <1>10 DEF vars, SameBallots
<1> QED  BY <1>1, <1>2, <1>3, <1>4, <1>6, <1>7, <1>8, <1>9, <1>10 DEF Next

(* However nodes join, leave and time out, between two ticks one node leads at *)
(* most.  FederationCluster.get_leader returns the first it finds.             *)
THEOREM AlwaysOneLeader == Spec => []OneLeader
<1>1. LeaderInv => OneLeader
  BY DEF LeaderInv
<1> QED  BY InitLeader, LeaderStep, <1>1, PTL DEF Spec

-----------------------------------------------------------------------------
\* What holds while nobody has joined a running cluster.

\* A new candidate whose round is to come, or anyone once the rounds are over, is
\* behind nobody, and nobody has won a term beyond its own.
Top(a) == a \in members /\ (asking = {} \/ a \in asking)

TopTerm == \A a, n \in members : Top(a) => term[n] <= term[a]

TopWinner == \A a \in members, w \in winner : Top(a) => w[1] <= term[a]

\* A new candidate has its own vote and no other.
OwnVote == \A a \in asking : role[a] = "CANDIDATE" /\ votedFor[a] = a /\ votes[a] = {a}

\* Once one candidate has had its round, the others will find every vote given.
VotesGiven ==
  \A a \in asking, n \in members : n \notin asking /\ term[n] = term[a] =>
    \A p \in members : /\ term[p] = term[a] /\ votedFor[p] # Nobody
                       /\ votedFor[p] = a => p = a

WonInARound ==
  \A a \in asking, w \in winner :
    w[1] < term[a] \/ \E n \in members : n \notin asking /\ term[n] = term[a]

\* Of two candidates one has its own vote only.
OneContender ==
  \A n, m \in members : n # m /\ role[n] = "CANDIDATE" /\ role[m] = "CANDIDATE" =>
    votes[n] = {n} \/ votes[m] = {m}

\* A candidate is not of a term that was won, unless its winner still leads and is
\* about to say so.
NoRival ==
  \A w \in winner, n \in members : role[n] = "CANDIDATE" /\ term[n] <= w[1] =>
    ticking /\ \E l \in Leaders : w[1] <= term[l]

\* A leader's followers have just heard of it.
Heard ==
  ~ticking /\ Leaders # {} => \A n \in members : /\ role[n] # "CANDIDATE"
                                                 /\ role[n] = "LEADER" \/ timer[n] \in Timeouts

\* Before its first tick the cluster is as Init leaves it.
Untouched ==
  age = "new" => /\ winner = {} /\ ~ticking
                 /\ \A n \in Nodes : term[n] = 0 /\ role[n] = "FOLLOWER"

StaticInv ==
  /\ age \in {"new", "running", "joined_late"}
  /\ ~Late => /\ TopTerm /\ TopWinner /\ OwnVote /\ VotesGiven /\ WonInARound
              /\ OneContender /\ NoRival /\ Heard /\ Untouched /\ OneWinnerPerTerm

IInv == BallotsOK /\ StaticInv

\* The terms of a cluster between the rounds are all the same.
LEMMA SameTerm ==
  ASSUME BallotsOK, TopTerm, asking = {}, NEW n \in members, NEW m \in members
  PROVE  term[n] = term[m]
BY BoundsAreNatural DEF TopTerm, Top, BallotsOK, Nodes

LEMMA InitStatic == Init => StaticInv
<1> SUFFICES ASSUME Init PROVE StaticInv
  OBVIOUS
<1>1. members = {} /\ asking = {} /\ winner = {} /\ age = "new" /\ ~ticking
  BY DEF Init
<1>2. Untouched
  BY DEF Init, Untouched
<1>3. TopTerm /\ TopWinner /\ OwnVote /\ VotesGiven /\ WonInARound
  BY <1>1 DEF TopTerm, TopWinner, Top, OwnVote, VotesGiven, WonInARound
<1>4. OneContender /\ NoRival /\ Heard /\ OneWinnerPerTerm
  BY <1>1 DEF OneContender, NoRival, Heard, OneWinnerPerTerm, Leaders
<1> QED  BY <1>1, <1>2, <1>3, <1>4 DEF StaticInv

\* A node joins before the first tick: everybody is a follower of term 0.
LEMMA AddStatic ==
  ASSUME IInv, AddNode
  PROVE  StaticInv'
<1> USE DEF IInv
<1>1. age' \in {"new", "joined_late"} /\ (age' = "new" => age = "new") /\ members' \subseteq Nodes
  <2>1. members \subseteq Nodes
    BY BoundsAreNatural DEF BallotsOK, Nodes
  <2> QED  BY <2>1, AddFacts DEF AddNode
<1>2. SUFFICES ASSUME age = "new", age' = "new"
               PROVE  /\ (TopTerm /\ TopWinner /\ OwnVote /\ VotesGiven /\ WonInARound)'
                      /\ (OneContender /\ NoRival /\ Heard /\ Untouched /\ OneWinnerPerTerm)'
  BY <1>1 DEF StaticInv, Late
<1>3. winner = {} /\ asking = {} /\ ~ticking /\ \A n \in Nodes : term[n] = 0 /\ role[n] = "FOLLOWER"
  BY <1>2 DEF StaticInv, Late, Untouched, BallotsOK
<1>4. UNCHANGED <<role, term, winner, asking, ticking>>
  BY AddFacts
<1>5. (TopTerm /\ TopWinner /\ OwnVote /\ VotesGiven /\ WonInARound)'
  <2>1. \A n \in members' : term'[n] = 0
    BY <1>1, <1>3, <1>4
  <2>2. winner' = {} /\ asking' = {}
    BY <1>3, <1>4
  <2>3. TopTerm'
    BY <2>1 DEF TopTerm, Top
  <2> QED  BY <2>2, <2>3 DEF TopWinner, OwnVote, VotesGiven, WonInARound
<1>6. (OneContender /\ NoRival /\ Heard /\ Untouched /\ OneWinnerPerTerm)'
  BY <1>1, <1>3, <1>4 DEF OneContender, NoRival, Heard, Untouched, OneWinnerPerTerm, Leaders
<1> QED  BY <1>5, <1>6

LEMMA RemoveStatic ==
  ASSUME IInv, NEW r \in Nodes, RemoveNode(r)
  PROVE  StaticInv'
<1> USE DEF IInv
<1>1. SUFFICES ASSUME ~Late
               PROVE  /\ (TopTerm /\ TopWinner /\ OwnVote /\ VotesGiven /\ WonInARound)'
                      /\ (OneContender /\ NoRival /\ Heard /\ Untouched /\ OneWinnerPerTerm)'
  BY RemoveFacts DEF StaticInv, Late
<1>2. /\ members \subseteq Nodes /\ members' = members \ {r} /\ asking = {} /\ ~ticking
      /\ UNCHANGED <<winner, asking, ticking, age>>
  <2>1. members \subseteq Nodes
    BY BoundsAreNatural DEF BallotsOK, Nodes
  <2> QED  BY <2>1, RemoveFacts DEF BallotsOK
<1>3. \A n \in members' : /\ n \in members /\ role'[n] = role[n] /\ term'[n] = term[n]
                          /\ votes'[n] = votes[n] /\ timer'[n] = timer[n]
  BY <1>2, RemoveFacts
<1>4. (TopTerm /\ TopWinner /\ OwnVote /\ VotesGiven /\ WonInARound)'
  BY <1>1, <1>2, <1>3 DEF StaticInv, TopTerm, TopWinner, Top, OwnVote, VotesGiven, WonInARound
<1>5. (OneContender /\ NoRival)'
  <2>1. \A w \in winner, n \in members : ~(role[n] = "CANDIDATE" /\ term[n] <= w[1])
    BY <1>1, <1>2 DEF StaticInv, NoRival
  <2>2. \A w \in winner', n \in members' : ~(role'[n] = "CANDIDATE" /\ term'[n] <= w[1])
    BY <1>2, <1>3, <2>1
  <2>3. OneContender'
    <3>1. \A n, m \in members : n # m /\ role[n] = "CANDIDATE" /\ role[m] = "CANDIDATE" =>
            votes[n] = {n} \/ votes[m] = {m}
      BY <1>1 DEF StaticInv, OneContender
    <3>2. \A n, m \in members' : n # m /\ role'[n] = "CANDIDATE" /\ role'[m] = "CANDIDATE" =>
            votes'[n] = {n} \/ votes'[m] = {m}
      BY <1>3, <3>1
    <3> QED  BY <3>2 DEF OneContender
  <2> QED  BY <2>2, <2>3 DEF NoRival
<1>6. Leaders' \subseteq Leaders
  BY <1>2, <1>3 DEF Leaders
<1>7. Heard'
  BY <1>1, <1>2, <1>3, <1>6 DEF StaticInv, Heard
<1>8. Untouched'
  <2>1. \A n \in Nodes : n # r => term'[n] = term[n] /\ role'[n] = role[n]
    BY RemoveFacts
  <2>2. term'[r] = 0 /\ role'[r] = "FOLLOWER"
    BY RemoveFacts
  <2> QED  BY <1>1, <1>2, <2>1, <2>2 DEF StaticInv, Untouched
<1>9. OneWinnerPerTerm'
  BY <1>1, <1>2 DEF StaticInv, OneWinnerPerTerm, Late
<1> QED  BY <1>4, <1>5, <1>7, <1>8, <1>9

\* FederationNode.tick: the nodes that time out are a term ahead of all others.
LEMMA TickStatic ==
  ASSUME IInv, TickNodes
  PROVE  StaticInv'
<1> USE DEF IInv
<1>1. age' \in {"running", "joined_late"} /\ (Late' <=> Late) /\ members' = members
      /\ asking = {} /\ ~ticking /\ ticking'
  BY DEF TickNodes, StaticInv, Late, BallotsOK
<1>2. SUFFICES ASSUME ~Late
               PROVE  /\ (TopTerm /\ TopWinner /\ OwnVote /\ VotesGiven /\ WonInARound)'
                      /\ (OneContender /\ NoRival /\ Heard /\ Untouched /\ OneWinnerPerTerm)'
  BY <1>1 DEF StaticInv
<1>3. /\ TopTerm /\ TopWinner /\ OwnVote /\ VotesGiven /\ WonInARound
      /\ OneContender /\ NoRival /\ Heard /\ Untouched /\ OneWinnerPerTerm
  BY <1>2 DEF StaticInv
<1>4. members \subseteq Nodes /\ asking' \subseteq members
  <2>1. members \subseteq Nodes
    BY BoundsAreNatural DEF BallotsOK, Nodes
  <2>2. BallotsOK'
    BY TickFacts
  <2> QED  BY <1>1, <2>1, <2>2 DEF BallotsOK
<1>5. \A n, m \in members : term[n] = term[m] /\ term[n] \in Nat
  BY <1>1, <1>3, <1>4, SameTerm DEF BallotsOK
<1>6. \A n \in members : /\ n \in asking' => term'[n] = term[n] + 1
                         /\ n \notin asking' => term'[n] = term[n]
  BY <1>4, TickFacts
<1>7. \A w \in winner' : w[1] \in Nat /\ \A n \in members : w[1] <= term[n]
  <2>1. \A w \in winner : w[1] \in Nat /\ \A n \in members : w[1] <= term[n]
    BY <1>1, <1>3 DEF TopWinner, Top, BallotsOK
  <2>2. \A c, n \in members : term[c] \in Nat /\ term[c] <= term[n]
    BY <1>5
  <2> QED  BY <2>1, <2>2, TickFacts
<1>a. \A a, n \in members :
        /\ a \in asking' => term'[n] <= term'[a] /\ (n \notin asking' => term'[n] # term'[a])
        /\ asking' = {} => term'[n] <= term'[a]
  <2>1. \A a, n \in members : term[a] = term[n] /\ term[a] \in Nat
    BY <1>5
  <2> QED  BY <1>6, <2>1
<1>b. \A w \in winner', a \in members : w[1] <= term'[a] /\ (a \in asking' => w[1] < term'[a])
  <2>1. \A w \in winner', a \in members : w[1] \in Nat /\ w[1] <= term[a] /\ term[a] \in Nat
    BY <1>5, <1>7
  <2> QED  BY <1>6, <2>1
<1>8. TopTerm'
  <2>1. \A a, n \in members : asking' = {} \/ a \in asking' => term'[n] <= term'[a]
    BY <1>a
  <2> QED  BY <1>1, <2>1 DEF TopTerm, Top
<1>9. TopWinner'
  <2>1. \A a \in members, w \in winner' : w[1] <= term'[a]
    BY <1>b
  <2> QED  BY <1>1, <2>1 DEF TopWinner, Top
<1>10. OwnVote'
  BY <1>4, TickFacts DEF OwnVote
<1>11. VotesGiven'
  <2>1. \A a \in asking', n \in members : ~(n \notin asking' /\ term'[n] = term'[a])
    BY <1>4, <1>a
  <2> QED  BY <1>1, <2>1 DEF VotesGiven
<1>12. WonInARound'
  <2>1. \A a \in asking', w \in winner' : w[1] < term'[a]
    BY <1>4, <1>b
  <2> QED  BY <2>1 DEF WonInARound
<1>13. \A n \in members : role'[n] = "CANDIDATE" => n \in asking' \/ (role[n] = "CANDIDATE" /\ ~Wins(n))
  BY <1>4, TickFacts
<1>14. OneContender'
  <2>1. SUFFICES ASSUME NEW n \in members, NEW m \in members, n # m,
                        role'[n] = "CANDIDATE", role'[m] = "CANDIDATE"
                 PROVE  votes'[n] = {n} \/ votes'[m] = {m}
    BY <1>1 DEF OneContender
  <2>2. CASE n \in asking' \/ m \in asking'
    BY <1>4, <2>2, TickFacts
  <2>3. CASE n \notin asking' /\ m \notin asking'
    BY <1>3, <1>4, <1>13, <2>1, <2>3, TickFacts DEF OneContender
  <2> QED  BY <2>2, <2>3
<1>15. \A w \in winner, n \in members : role[n] = "CANDIDATE" => w[1] < term[n]
  <2>1. \A w \in winner, n \in members : role[n] = "CANDIDATE" => ~(term[n] <= w[1])
    BY <1>1, <1>3 DEF NoRival
  <2>2. \A w \in winner, n \in members : w[1] \in Nat /\ term[n] \in Nat
    BY <1>4 DEF BallotsOK
  <2> QED  BY <2>1, <2>2
<1>16. NoRival'
  <2>1. SUFFICES ASSUME NEW w \in winner', NEW n \in members,
                        role'[n] = "CANDIDATE", term'[n] <= w[1]
                 PROVE  \E l \in Leaders' : w[1] <= term'[l]
    BY <1>1 DEF NoRival
  <2>2. n \notin asking'
    BY <1>4, <1>5, <1>6, <1>7, <2>1
  <2>3. role[n] = "CANDIDATE" /\ term'[n] = term[n]
    BY <1>6, <1>13, <2>1, <2>2
  <2>4. w \notin winner
    <3>1. term[n] \in Nat /\ w[1] \in Nat
      BY <1>5, <1>7
    <3> QED  BY <1>15, <2>1, <2>3, <3>1
  <2>5. PICK l \in members : Wins(l) /\ w = <<term[l], l>>
    BY <2>4, TickFacts
  <2>6. l \notin asking' /\ role'[l] = "LEADER"
    BY <1>4, <2>5, TickFacts DEF TimesOut, CountsDown
  <2>7. w[1] <= term'[l]
    BY <1>b
  <2> QED  BY <1>1, <2>5, <2>6, <2>7 DEF Leaders
<1>17. OneWinnerPerTerm'
  <2>1. \A c, d \in members : Wins(c) /\ Wins(d) => c = d
    <3>1. SUFFICES ASSUME NEW c \in members, NEW d \in members, c # d, Wins(c), Wins(d)
                   PROVE  FALSE
      OBVIOUS
    <3>2. votes[c] = {c} \/ votes[d] = {d}
      BY <1>3, <3>1 DEF OneContender, Wins
    <3>3. Cardinality({c}) = 1 /\ Cardinality({d}) = 1
      BY FS_Singleton
    <3>4. Majority \in Nat /\ Majority >= 2
      BY <3>1, MajorityOfTwo
    <3> QED  BY <3>1, <3>2, <3>3, <3>4 DEF Wins
  <2>2. SUFFICES ASSUME NEW v \in winner', NEW w \in winner', v[1] = w[1] PROVE v = w
    BY DEF OneWinnerPerTerm
  <2>3. \A u \in winner, c \in members : Wins(c) => u[1] # term[c]
    <3>1. \A u \in winner, c \in members : u[1] \in Nat /\ term[c] \in Nat
      BY <1>4 DEF BallotsOK
    <3> QED  BY <1>15, <3>1 DEF Wins
  <2>4. CASE v \in winner /\ w \in winner
    BY <1>2, <1>3, <2>2, <2>4 DEF OneWinnerPerTerm
  <2>5. CASE v \in winner /\ w \notin winner
    BY <2>2, <2>3, <2>5, TickFacts
  <2>6. CASE v \notin winner /\ w \in winner
    BY <2>2, <2>3, <2>6, TickFacts
  <2>7. CASE v \notin winner /\ w \notin winner
    BY <2>1, <2>2, <2>7, TickFacts
  <2> QED  BY <2>4, <2>5, <2>6, <2>7
<1>18. Heard' /\ Untouched'
  BY <1>1 DEF Heard, Untouched
<1> QED  BY <1>8, <1>9, <1>10, <1>11, <1>12, <1>14, <1>16, <1>17, <1>18

\* The first new candidate's round takes every vote there is to have; the later ones
\* get none.
LEMMA SolicitStatic ==
  ASSUME IInv, NEW c \in Nodes, Solicit(c)
  PROVE  StaticInv'
<1> USE DEF IInv
<1> DEFINE t == term[c]
           granting == {n \in Peers(c) : Grants(n, c, t)}
<1>1. /\ members' = members /\ members \subseteq Nodes /\ ticking' = ticking /\ ticking /\ age' = age
      /\ c \in members /\ c \in asking /\ asking' = asking \ {c} /\ asking \subseteq members
  <2>1. members \subseteq Nodes
    BY BoundsAreNatural DEF BallotsOK, Nodes
  <2> QED  BY <2>1, SolicitFacts DEF Solicit, BallotsOK
<1>2. SUFFICES ASSUME ~Late
               PROVE  /\ (TopTerm /\ TopWinner /\ OwnVote /\ VotesGiven /\ WonInARound)'
                      /\ (OneContender /\ NoRival /\ Heard /\ Untouched /\ OneWinnerPerTerm)'
  BY <1>1 DEF StaticInv, Late
<1>3. /\ TopTerm /\ TopWinner /\ OwnVote /\ VotesGiven /\ WonInARound
      /\ OneContender /\ NoRival /\ Heard /\ Untouched /\ OneWinnerPerTerm
  BY <1>2 DEF StaticInv
<1>4. /\ \A n \in members : term[n] \in Nat /\ term[n] <= t
      /\ \A a \in asking : term[a] = t
      /\ \A w \in winner : w[1] \in Nat /\ w[1] <= t
  <2>1. \A n \in members : term[n] \in Nat
    BY <1>1 DEF BallotsOK
  <2>2. \A a \in asking, n \in members : term[n] <= term[a]
    BY <1>1, <1>3 DEF TopTerm, Top
  <2>3. \A w \in winner : w[1] \in Nat /\ w[1] <= t
    BY <1>1, <1>3 DEF TopWinner, Top, BallotsOK
  <2> QED  BY <1>1, <2>1, <2>2, <2>3
<1>5. \A n \in members : term'[n] = t
  <2>1. \A n \in members : t <= term'[n] /\ (term'[n] = t \/ term'[n] = term[n])
    BY <1>1, SolicitFacts, SolicitedTerms
  <2> QED  BY <1>1, <1>4, <2>1
\* Whoever had a round before this one left no vote to get.
<1>6. \A n \in members : n \notin asking /\ term[n] = t => granting = {} /\ n # c
  <2>1. SUFFICES ASSUME NEW n \in members, n \notin asking, term[n] = t,
                        NEW p \in granting
                 PROVE  FALSE
    BY <1>1
  <2>2. p \in members /\ p # c /\ Grants(p, c, t)
    BY DEF Peers
  <2>3. term[p] = t /\ votedFor[p] # Nobody /\ (votedFor[p] = c => p = c)
    BY <1>1, <1>3, <2>1, <2>2 DEF VotesGiven
  <2> QED  BY <1>1, <1>4, <2>2, <2>3 DEF Grants
<1>7. \A a \in asking : a # c => a \notin granting
  <2>1. SUFFICES ASSUME NEW a \in asking, a # c, a \in granting PROVE FALSE
    OBVIOUS
  <2>2. votedFor[a] = a /\ term[a] = t /\ a \in Nodes /\ a # Nobody
    BY <1>1, <1>3, <1>4 DEF OwnVote, Nodes, Nobody
  <2> QED  BY <1>1, <1>4, <2>1, <2>2 DEF Grants
<1>8. votes[c] = {c} /\ role[c] = "CANDIDATE" /\ votes'[c] = {c} \union granting
  BY <1>1, <1>3, SolicitFacts DEF OwnVote
<1>9. \A n \in members : n # c => /\ votes'[n] = votes[n]
                                  /\ role'[n] = "CANDIDATE" => role[n] = "CANDIDATE" /\ term[n] = t
                                  /\ role[n] = "LEADER" /\ term[n] = t => role'[n] = "LEADER"
  <2>1. SUFFICES ASSUME NEW n \in members, n # c
                 PROVE  /\ votes'[n] = votes[n]
                        /\ role'[n] = "CANDIDATE" => role[n] = "CANDIDATE" /\ term[n] = t
                        /\ role[n] = "LEADER" /\ term[n] = t => role'[n] = "LEADER"
    OBVIOUS
  <2>2. votes'[n] = votes[n]
    BY <1>1, <2>1, SolicitFacts
  <2>3. CASE n \in granting
    <3>1. role'[n] = IF t > term[n] THEN "FOLLOWER" ELSE role[n]
      BY <1>1, <2>1, <2>3, SolicitFacts
    <3> QED  BY <1>1, <1>4, <2>2, <3>1
  <2>4. CASE n \notin granting
    <3>1. role'[n] = role[n] /\ term'[n] = term[n]
      BY <1>1, <2>1, <2>4, SolicitFacts
    <3> QED  BY <1>5, <2>2, <3>1
  <2> QED  BY <2>3, <2>4
<1>10. \A w \in winner' : w \in winner \/ (w = <<t, c>> /\ role'[c] = "LEADER"
                                            /\ Cardinality(votes'[c]) >= Majority)
  BY SolicitFacts
<1>11. TopTerm' /\ TopWinner'
  <2>1. TopTerm'
    BY <1>1, <1>4, <1>5 DEF TopTerm, Top
  <2>2. \A w \in winner' : w[1] <= t
    BY <1>1, <1>4, <1>10
  <2> QED  BY <1>1, <1>5, <2>1, <2>2 DEF TopWinner, Top
<1>12. OwnVote'
  <2>1. SUFFICES ASSUME NEW a \in asking, a # c
                 PROVE  role'[a] = "CANDIDATE" /\ votedFor'[a] = a /\ votes'[a] = {a}
    BY <1>1 DEF OwnVote
  <2>2. a \notin granting /\ a \in Nodes
    BY <1>1, <1>7, <2>1
  <2> QED  BY <1>3, <2>1, <2>2, SolicitFacts DEF OwnVote
<1>13. VotesGiven'
  <2>1. SUFFICES ASSUME NEW a \in asking, a # c, NEW p \in members
                 PROVE  votedFor'[p] # Nobody /\ (votedFor'[p] = a => p = a)
    BY <1>1, <1>5 DEF VotesGiven
  <2>2. CASE p \in granting
    <3>1. votedFor'[p] = c
      BY <1>1, <2>2, SolicitFacts
    <3> QED  BY <2>1, <3>1 DEF Nobody, Nodes
  <2>3. CASE p \notin granting
    <3>1. votedFor'[p] = votedFor[p] /\ term[p] = t
      <4>1. votedFor'[p] = votedFor[p] /\ term'[p] = term[p]
        BY <1>1, <2>3, SolicitFacts
      <4> QED  BY <1>5, <4>1
    <3>2. CASE p \in asking
      BY <1>1, <1>3, <3>1, <3>2 DEF OwnVote, Nobody, Nodes
    <3>3. CASE p \notin asking
      BY <1>3, <1>4, <2>1, <3>1, <3>3 DEF VotesGiven
    <3> QED  BY <3>2, <3>3
  <2> QED  BY <2>2, <2>3
<1>14. WonInARound'
  <2>1. \A a \in asking' : c \in members' /\ c \notin asking' /\ term'[c] = term'[a]
    BY <1>1, <1>5
  <2> QED  BY <2>1 DEF WonInARound
<1>15. OneContender'
  <2>1. SUFFICES ASSUME NEW m \in members, m # c, role'[m] = "CANDIDATE"
                 PROVE  votes'[c] = {c} \/ votes'[m] = {m}
    <3>1. \A n, m \in members : n # m /\ n # c /\ m # c
              /\ role'[n] = "CANDIDATE" /\ role'[m] = "CANDIDATE" => votes'[n] = {n} \/ votes'[m] = {m}
      BY <1>3, <1>9 DEF OneContender
    <3> QED  BY <1>1, <2>1, <3>1 DEF OneContender
  <2>2. role[m] = "CANDIDATE" /\ term[m] = t /\ votes'[m] = votes[m]
    BY <1>9, <2>1
  <2>3. CASE m \in asking
    BY <1>3, <2>2, <2>3 DEF OwnVote
  <2>4. CASE m \notin asking
    BY <1>6, <1>8, <2>2, <2>4
  <2> QED  BY <2>3, <2>4
<1>16. NoRival'
  <2>1. SUFFICES ASSUME NEW w \in winner', NEW n \in members, role'[n] = "CANDIDATE", t <= w[1]
                 PROVE  \E l \in members : role'[l] = "LEADER" /\ w[1] <= t
    BY <1>1, <1>5 DEF NoRival, Leaders
  <2>2. CASE w \in winner
    <3>1. w[1] = t
      BY <1>1, <1>4, <2>1, <2>2
    <3>2. role[n] = "CANDIDATE" /\ term[n] = t
      BY <1>8, <1>9, <2>1
    <3>3. PICK l \in members : role[l] = "LEADER" /\ t <= term[l]
      BY <1>1, <1>3, <1>4, <2>2, <3>1, <3>2 DEF NoRival, Leaders
    <3>4. term[l] = t /\ l # c
      BY <1>1, <1>4, <1>8, <3>3
    <3> QED  BY <1>1, <1>4, <1>9, <3>1, <3>3, <3>4
  <2>3. CASE w \notin winner
    BY <1>1, <1>4, <1>10, <2>3
  <2> QED  BY <2>2, <2>3
<1>17. OneWinnerPerTerm'
  <2>1. \A w \in winner : w[1] = t => ~(Cardinality(votes'[c]) >= Majority)
    <3>1. SUFFICES ASSUME NEW w \in winner, w[1] = t
                   PROVE  ~(Cardinality(votes'[c]) >= Majority)
      OBVIOUS
    <3>2. PICK n \in members : n \notin asking /\ term[n] = t
      BY <1>1, <1>3, <1>4, <3>1 DEF WonInARound
    <3>3. n # c /\ votes'[c] = {c}
      BY <1>6, <1>8, <3>2
    <3>4. Majority \in Nat /\ Majority >= 2 /\ Cardinality({c}) = 1
      BY <1>1, <3>3, MajorityOfTwo, FS_Singleton
    <3> QED  BY <3>3, <3>4
  <2>2. SUFFICES ASSUME NEW v \in winner', NEW w \in winner', v[1] = w[1] PROVE v = w
    BY DEF OneWinnerPerTerm
  <2>3. CASE v \in winner /\ w \in winner
    BY <1>2, <1>3, <2>2, <2>3 DEF OneWinnerPerTerm
  <2>4. CASE ~(v \in winner /\ w \in winner)
    BY <1>10, <2>1, <2>2, <2>4
  <2> QED  BY <2>3, <2>4
<1>18. Heard' /\ Untouched'
  BY <1>1, <1>3 DEF Heard, Untouched
<1> QED  BY <1>11, <1>12, <1>13, <1>14, <1>15, <1>16, <1>17, <1>18

\* The first leader's heartbeat, or its broadcast, reaches everybody.
LEMMA HeardStatic ==
  ASSUME IInv, Leaders # {}, StepDown(Leader), asking = {}, age # "new",
         UNCHANGED <<members, votes, asking, winner, age>>, ticking' = FALSE
  PROVE  StaticInv'
<1> USE DEF IInv
<1>1. PICK l \in members : l = Leader /\ role[l] = "LEADER"
  BY LeaderIsFirst DEF Leaders
<1>2. members \subseteq Nodes /\ StepDown(l)
  BY <1>1, BoundsAreNatural DEF BallotsOK, Nodes
<1>3. SUFFICES ASSUME ~Late
               PROVE  /\ (TopTerm /\ TopWinner /\ OwnVote /\ VotesGiven /\ WonInARound)'
                      /\ (OneContender /\ NoRival /\ Heard /\ Untouched /\ OneWinnerPerTerm)'
  BY DEF StaticInv, Late
<1>4. TopTerm /\ TopWinner /\ OneWinnerPerTerm
  BY <1>3 DEF StaticInv
<1>5. \A n \in members : n # l => n \in Accepting(l)
  <2>1. \A n \in members : term[n] = term[l] /\ term[n] \in Nat
    BY <1>1, <1>2, <1>4, SameTerm DEF BallotsOK
  <2> QED  BY <2>1, <1>1 DEF Accepting, Peers
<1>6. l \notin Accepting(l)
  BY DEF Accepting, Peers
<1>7. \A n \in members : term'[n] = term[n] /\ role'[n] # "CANDIDATE"
                         /\ (role'[n] = "LEADER" \/ timer'[n] \in Timeouts)
  <2>1. \A n \in members : term[n] = term[l]
    BY <1>1, <1>4, SameTerm
  <2> QED  BY <1>1, <1>2, <1>5, <1>6, <2>1, StepDownFacts
<1>8. TopTerm' /\ TopWinner'
  BY <1>4, <1>7 DEF TopTerm, TopWinner, Top
<1>9. OwnVote' /\ VotesGiven' /\ WonInARound'
  BY DEF OwnVote, VotesGiven, WonInARound
<1>10. OneContender' /\ NoRival' /\ Heard' /\ Untouched'
  BY <1>7 DEF OneContender, NoRival, Heard, Untouched
<1>11. OneWinnerPerTerm'
  BY <1>3, <1>4 DEF OneWinnerPerTerm, Late
<1> QED  BY <1>8, <1>9, <1>10, <1>11

\* Nobody leads, so no candidate stands in a term that was won.
LEMMA SilentStatic ==
  ASSUME IInv, Leaders = {}, asking = {}, ticking,
         UNCHANGED <<members, ballots, asking, winner, age>>, ticking' = FALSE
  PROVE  StaticInv'
<1> USE DEF IInv
<1>1. SUFFICES ASSUME ~Late
               PROVE  /\ (TopTerm /\ TopWinner /\ OwnVote /\ VotesGiven /\ WonInARound)'
                      /\ (OneContender /\ NoRival /\ Heard /\ Untouched /\ OneWinnerPerTerm)'
  BY DEF StaticInv, Late
<1>2. /\ TopTerm /\ TopWinner /\ OwnVote /\ VotesGiven /\ WonInARound
      /\ OneContender /\ NoRival /\ Heard /\ Untouched /\ OneWinnerPerTerm
  BY <1>1 DEF StaticInv
<1>3. UNCHANGED <<role, term, votedFor, votes, timer>>
  BY DEF ballots
<1>4. TopTerm' /\ TopWinner' /\ OwnVote' /\ VotesGiven' /\ WonInARound'
  BY <1>2, <1>3 DEF TopTerm, TopWinner, Top, OwnVote, VotesGiven, WonInARound
<1>5. OneContender' /\ OneWinnerPerTerm'
  BY <1>1, <1>2, <1>3 DEF OneContender, OneWinnerPerTerm, Late
<1>6. NoRival' /\ Heard' /\ Untouched'
  BY <1>2, <1>3 DEF NoRival, Heard, Untouched, Leaders
<1> QED  BY <1>4, <1>5, <1>6

LEMMA StaticStep == IInv /\ [Next]_vars => StaticInv'
<1> SUFFICES ASSUME IInv, [Next]_vars PROVE StaticInv'
  OBVIOUS
<1>a. ~ticking => asking = {}
  BY DEF IInv, BallotsOK
<1>b. ticking \/ Leaders # {} => age # "new"
  <2>1. members \subseteq Nodes
    BY BoundsAreNatural DEF IInv, BallotsOK, Nodes
  <2> QED  BY <2>1 DEF IInv, StaticInv, Late, Untouched, Leaders
<1>s. ASSUME UNCHANGED <<members, ballots, asking, ticking, winner, age>> PROVE StaticInv'
  <2>1. UNCHANGED <<members, role, term, votedFor, votes, timer, asking, ticking, winner, age>>
    BY <1>s DEF ballots
  <2>2. (Late' <=> Late) /\ Leaders' = Leaders
    BY <2>1 DEF Late, Leaders
  <2>3. SUFFICES ASSUME ~Late
                 PROVE  /\ (TopTerm /\ TopWinner /\ OwnVote /\ VotesGiven /\ WonInARound)'
                        /\ (OneContender /\ NoRival /\ Heard /\ Untouched /\ OneWinnerPerTerm)'
    BY <2>1, <2>2 DEF IInv, StaticInv
  <2>4. (TopTerm /\ TopWinner /\ OwnVote /\ VotesGiven /\ WonInARound)'
    <3>1. TopTerm /\ TopWinner /\ OwnVote /\ VotesGiven /\ WonInARound
      BY <2>3 DEF IInv, StaticInv
    <3>2. (TopTerm /\ TopWinner)'
      BY <2>1, <3>1 DEF TopTerm, TopWinner, Top
    <3>3. OwnVote'
      BY <2>1, <3>1 DEF OwnVote
    <3>4. VotesGiven'
      BY <2>1, <3>1 DEF VotesGiven
    <3>5. WonInARound'
      BY <2>1, <3>1 DEF WonInARound
    <3> QED  BY <3>2, <3>3, <3>4, <3>5
  <2>5. (OneContender /\ NoRival /\ Heard /\ Untouched /\ OneWinnerPerTerm)'
    BY <2>1, <2>2, <2>3
       DEF IInv, StaticInv, OneContender, NoRival, Heard, Untouched, OneWinnerPerTerm
  <2> QED  BY <2>4, <2>5
<1>1. CASE AddNode
  BY <1>1, AddStatic
<1>2. ASSUME NEW r \in Nodes, RemoveNode(r) PROVE StaticInv'
  BY <1>2, RemoveStatic
<1>3. CASE TickNodes
  BY <1>3, TickStatic
<1>4. ASSUME NEW c \in Nodes, Solicit(c) PROVE StaticInv'
  BY <1>4, SolicitStatic
<1>5. CASE Beat
  <2>1. CASE Leaders # {} /\ Follow(Leader)
    BY <1>5, <1>b, <2>1, HeardStatic DEF Beat, Follow
  <2>2. CASE Leaders = {}
    BY <1>5, <2>2, SilentStatic DEF Beat, ballots
  <2> QED  BY <1>5, <2>1, <2>2 DEF Beat
<1>6. CASE Broadcast
  <2>1. Leaders # {} /\ StepDown(Leader) /\ ~ticking
        /\ UNCHANGED <<members, votes, asking, winner, age, ticking>>
    BY <1>6 DEF Broadcast
  <2>2. ticking \in BOOLEAN
    BY DEF IInv, BallotsOK
  <2> QED  BY <1>a, <1>b, <2>1, <2>2, HeardStatic
<1>7. ASSUME NEW n \in Nodes, AppendToLog(n) PROVE StaticInv'
  BY <1>s, <1>7 DEF AppendToLog
<1>8. ASSUME NEW n \in Watched, EnterReadOnly(n) \/ Heal(n) PROVE StaticInv'
  BY <1>s, <1>8 DEF EnterReadOnly, Heal
<1>9. CASE UNCHANGED vars
  BY <1>s, <1>9 DEF vars
<1> QED  BY <1>1, <1>2, <1>3, <1>4, <1>5, <1>6, <1>7, <1>8, <1>9 DEF Next

LEMMA Invariance == Spec => []IInv
<1>1. Init => IInv
  BY InitLeader, InitStatic DEF LeaderInv, IInv
<1>2. LeaderInv /\ IInv /\ [Next]_vars => IInv'
  BY LeaderStep, StaticStep DEF LeaderInv, IInv
<1> QED  BY InitLeader, LeaderStep, <1>1, <1>2, PTL DEF Spec

(* In a cluster that nobody joins once it ticks, no two nodes are elected in   *)
(* the same term, though tick counts a removed node's vote: request_vote gives *)
(* one vote a term, and the first of the candidates takes them all.            *)
THEOREM AlwaysOneWinnerPerTerm == Spec => []OneWinnerPerTerm
<1>1. IInv => OneWinnerPerTerm
  BY DEF IInv, StaticInv, OneWinnerPerTerm
<1> QED  BY Invariance, <1>1, PTL

(* In such a cluster no follower of a leader ever starts an election: the       *)
(* heartbeats of FederationCluster.tick come more often than a timeout ends.    *)
THEOREM AlwaysHeartbeatsPreventElections == Spec => HeartbeatsPreventElections
<1>1. IInv /\ [Next]_vars => (~ticking /\ ~Late /\ Leaders # {} => asking' = {})
  <2>1. SUFFICES ASSUME IInv, [Next]_vars, ~ticking, ~Late, Leaders # {} PROVE asking' = {}
    OBVIOUS
  <2>2. asking = {} /\ members \subseteq Nodes
    BY <2>1, BoundsAreNatural DEF IInv, BallotsOK, Nodes
  <2>3. CASE TickNodes
    <3>1. \A n \in members : ~TimesOut(n)
      <4>1. SUFFICES ASSUME NEW n \in members, TimesOut(n) PROVE FALSE
        OBVIOUS
      <4>2. timer[n] \in Timeouts
        BY <2>1, <4>1 DEF IInv, StaticInv, Heard, TimesOut, CountsDown
      <4>3. timer[n] \in Nat /\ timer[n] # 0 /\ timer[n] # 1
        BY <4>2, TimeoutsAreLong
      <4> QED  BY <4>1, <4>3 DEF TimesOut
    <3> QED  BY <2>3, <3>1 DEF TickNodes
  <2>4. CASE ~TickNodes
    BY <2>1, <2>2, <2>4 DEF Next, vars, AddNode, RemoveNode, Solicit, Beat, AppendToLog,
                            Broadcast, EnterReadOnly, Heal
  <2> QED  BY <2>3, <2>4
<1> QED  BY Invariance, <1>1, PTL DEF Spec, HeartbeatsPreventElections

-----------------------------------------------------------------------------
\* The logs, in a cluster nobody joins late and nobody feeds out of turn.

Entry == [term : Nat, index : Nat, command : Nat]

LogsType ==
  /\ log \in [Nodes -> Seq(Entry)]
  /\ commit \in [Nodes -> Nat]
  /\ written \in Nat

\* The index of an entry is its place.
Indexed(l) == \A i \in 1..Len(l) : l[i].index = i

Places == \A n \in members : Indexed(log[n])

Prefix(s, l) == Len(s) <= Len(l) /\ s = SubSeq(l, 1, Len(s))

Alike == \A n, m \in members : log[n] = log[m]

\* Only the leader has entries that the others, all alike, have still to get.
Ahead(l) ==
  /\ asking = {} /\ Leaders = {l}
  /\ \A n \in members : Prefix(log[n], log[l])
  /\ \A n, m \in members \ {l} : log[n] = log[m]

CommitsHeld == \A n, m \in members : commit[n] <= Len(log[m])

Blank == age = "new" => \A n \in Nodes : log[n] = <<>> /\ commit[n] = 0

LogsOK == LogsType /\ (Alike \/ \E l \in members : Ahead(l)) /\ Places /\ CommitsHeld /\ Blank

LogsInv == ~Late /\ ~uneven => LogsOK

\* append_entries with what a follower lacks gives it the leader's log.
LEMMA ExtendWithMissing ==
  ASSUME NEW l \in Seq(Entry), NEW j \in 0..Len(l), Indexed(l)
  PROVE  Extend(SubSeq(l, 1, j), SubSeq(l, j + 1, Len(l))) = l
<1> DEFINE own == SubSeq(l, 1, j)
           entries == SubSeq(l, j + 1, Len(l))
           Step(f) == [k \in 0..Len(entries) |->
                         IF k = 0 THEN own
                         ELSE IF entries[k].index > Len(f[k - 1]) THEN Append(f[k - 1], entries[k])
                         ELSE f[k - 1]]
           reached == [k \in 0..Len(entries) |-> SubSeq(l, 1, j + k)]
           after == CHOOSE f : f = Step(f)
<1>1. /\ Len(l) \in Nat /\ j \in Nat /\ Len(entries) = Len(l) - j
      /\ \A k \in 1..Len(entries) : entries[k] = l[j + k]
      /\ \A k \in 0..Len(entries) : Len(SubSeq(l, 1, j + k)) = j + k
  OBVIOUS
<1>2. \A k \in 1..Len(entries) :
        Append(SubSeq(l, 1, j + (k - 1)), entries[k]) = SubSeq(l, 1, j + k)
  BY <1>1
<1>3. \A k \in 1..Len(entries) : entries[k].index > Len(SubSeq(l, 1, j + (k - 1)))
  <2>1. ASSUME NEW k \in 1..Len(entries)
        PROVE  entries[k].index = j + k /\ Len(SubSeq(l, 1, j + (k - 1))) = j + (k - 1)
    <3>1. j + k \in 1..Len(l) /\ k - 1 \in 0..Len(entries)
      BY <1>1
    <3>2. l[j + k].index = j + k
      BY <3>1 DEF Indexed
    <3> QED  BY <1>1, <3>1, <3>2
  <2>2. \A k \in 1..Len(entries) : j + k > j + (k - 1)
    BY <1>1
  <2> QED  BY <2>1, <2>2
<1>n. Len(entries) \in Nat /\ j \in Nat /\ \A k \in 1..Len(entries) : k - 1 \in 0..Len(entries)
  BY <1>1
<1> HIDE DEF entries
<1>4. Step(reached) = reached
  <2>1. SUFFICES ASSUME NEW k \in 0..Len(entries) PROVE Step(reached)[k] = reached[k]
    OBVIOUS
  <2>2. CASE k = 0
    BY <1>1, <2>2 DEF entries
  <2>3. CASE k # 0
    <3>1. k \in 1..Len(entries) /\ k - 1 \in 0..Len(entries)
      BY <1>n, <2>3
    <3>2. reached[k - 1] = SubSeq(l, 1, j + (k - 1)) /\ reached[k] = SubSeq(l, 1, j + k)
      BY <3>1
    <3>3. Step(reached)[k] = IF entries[k].index > Len(reached[k - 1])
                             THEN Append(reached[k - 1], entries[k]) ELSE reached[k - 1]
      BY <2>3, <3>1
    <3> HIDE DEF reached, Step
    <3> QED  BY <1>2, <1>3, <3>1, <3>2, <3>3
  <2> QED  BY <2>2, <2>3
<1>5. after = Step(after)
  <2> HIDE DEF reached, Step
  <2>1. \E f : f = Step(f)
    BY <1>4
  <2> QED  BY <2>1
<1>6. \A k \in 0..Len(entries) : after[k] = reached[k]
  <2> DEFINE wrong == {k \in 0..Len(entries) : after[k] # reached[k]}
  <2> HIDE DEF after
  <2>1. SUFFICES ASSUME wrong # {} PROVE FALSE
    OBVIOUS
  <2>2. wrong \in SUBSET Nat
    BY <1>1
  <2>3. PICK k \in wrong : \A i \in wrong : k <= i
    BY <2>1, <2>2, LeastElement
  <2>4. CASE k = 0
    BY <1>1, <1>5, <2>3, <2>4
  <2>5. CASE k # 0
    <3>1. k \in 1..Len(entries) /\ k - 1 \in 0..Len(entries) /\ k - 1 \notin wrong
      <4>1. k \in 0..Len(entries)
        BY <2>3
      <4>2. k \in 1..Len(entries) /\ k - 1 \in 0..Len(entries) /\ ~(k <= k - 1)
        BY <1>n, <2>5, <4>1
      <4> HIDE DEF wrong
      <4> QED  BY <2>3, <4>2
    <3>2. after[k - 1] = SubSeq(l, 1, j + (k - 1))
      BY <1>n, <3>1
    <3>3. after[k] = IF entries[k].index > Len(after[k - 1]) THEN Append(after[k - 1], entries[k])
                     ELSE after[k - 1]
      BY <1>n, <1>5, <2>5, <3>1
    <3>4. after[k] = SubSeq(l, 1, j + k)
      BY <1>2, <1>3, <3>1, <3>2, <3>3
    <3> QED  BY <2>3, <3>1, <3>4
  <2> QED  BY <2>4, <2>5
<1>7. Extend(own, entries) = after[Len(entries)]
  BY DEF Extend, entries
<1>8. reached[Len(entries)] = l
  BY <1>1
<1> HIDE DEF reached, after, own, entries
<1>9. Extend(own, entries) = l
  BY <1>n, <1>6, <1>7, <1>8
<1> QED  BY <1>9 DEF own, entries

LEMMA MembersAreNodes == BallotsOK => members \subseteq Nodes
  BY BoundsAreNatural DEF BallotsOK, Nodes

\* Once the rounds are over all terms are the same, and every peer listens.
LEMMA EverybodyAccepts ==
  ASSUME IInv, ~Late, asking = {}, NEW l \in members
  PROVE  Accepting(l) = members \ {l}
<1>1. TopTerm /\ BallotsOK
  BY DEF IInv, StaticInv
<1>2. \A n \in members : term[n] = term[l] /\ term[n] \in Nat
  BY <1>1, MembersAreNodes, SameTerm DEF BallotsOK
<1> QED  BY <1>2 DEF Accepting, Peers

LEMMA LogsInit == Init => LogsInv
<1> SUFFICES ASSUME Init PROVE LogsOK
  BY DEF LogsInv
<1>1. members = {} /\ log = [n \in Nodes |-> <<>>] /\ commit = [n \in Nodes |-> 0] /\ written = 0
  BY DEF Init
<1>2. LogsType /\ Blank
  BY <1>1 DEF LogsType, Blank
<1>3. Alike /\ Places /\ CommitsHeld
  BY <1>1 DEF Alike, Places, CommitsHeld
<1> QED  BY <1>2, <1>3 DEF LogsOK

\* A step that leaves the logs and who leads alone.
LEMMA LogsStay ==
  ASSUME LogsOK, UNCHANGED <<members, log, commit, written>>, age' = "new" => age = "new",
         \A l \in members : Ahead(l) => asking' = {} /\ Leaders' = {l}
  PROVE  LogsOK'
<1>1. LogsType' /\ Places' /\ CommitsHeld'
  BY DEF LogsOK, LogsType, Places, CommitsHeld
<1>2. Blank'
  BY DEF LogsOK, Blank
<1>3. Alike => Alike'
  BY DEF Alike
<1>4. \A l \in members : Ahead(l) => Ahead(l)'
  BY DEF Ahead, Prefix
<1> QED  BY <1>1, <1>2, <1>3, <1>4 DEF LogsOK

\* A step after which all members have the log L and have committed some of it.
LEMMA LogsEven ==
  ASSUME NEW L \in Seq(Entry), Indexed(L), LogsType', age' # "new",
         \A n \in members' : log'[n] = L /\ commit'[n] <= Len(L)
  PROVE  LogsOK'
<1>1. Alike' /\ Places' /\ CommitsHeld'
  BY DEF Alike, Places, CommitsHeld
<1> QED  BY <1>1 DEF LogsOK, Blank

LEMMA LogsAdd ==
  ASSUME BallotsOK, StaticInv, ~Late, LogsOK, AddNode, ~Late'
  PROVE  LogsOK'
<1>1. age = "new" /\ UNCHANGED <<log, commit, written>> /\ members' = members \union {joined'}
      /\ joined' = joined + 1 /\ joined < MaxNodes
  BY DEF AddNode, Late, logs
<1>2. members' \subseteq Nodes
  <2>1. joined' \in Nodes
    BY <1>1, BoundsAreNatural DEF BallotsOK, Nodes
  <2> QED  BY <1>1, <2>1, MembersAreNodes
<1>3. \A n \in members' : log'[n] = <<>> /\ commit'[n] = 0
  BY <1>1, <1>2 DEF LogsOK, Blank
<1>4. Alike' /\ Places' /\ CommitsHeld'
  BY <1>3 DEF Alike, Places, CommitsHeld, Indexed
<1>5. LogsType' /\ Blank'
  BY <1>1 DEF LogsOK, LogsType, Blank
<1> QED  BY <1>4, <1>5 DEF LogsOK

LEMMA LogsRemove ==
  ASSUME BallotsOK, LogsOK, NEW r \in Nodes, RemoveNode(r)
  PROVE  LogsOK'
<1>1. /\ r \in members /\ members' = members \ {r} /\ UNCHANGED <<written, age, asking>>
      /\ log' = [log EXCEPT ![r] = <<>>] /\ commit' = [commit EXCEPT ![r] = 0]
      /\ role' = [role EXCEPT ![r] = "FOLLOWER"]
  BY DEF RemoveNode
<1>2. LogsType' /\ members \subseteq Nodes
  BY <1>1, MembersAreNodes DEF LogsOK, LogsType
<1>3. \A n \in members' : log'[n] = log[n] /\ commit'[n] = commit[n] /\ role'[n] = role[n]
                          /\ n \in members
  BY <1>1, <1>2 DEF LogsOK, LogsType, BallotsOK
<1>4. Places' /\ CommitsHeld'
  BY <1>3 DEF LogsOK, Places, CommitsHeld
<1>5. Blank'
  BY <1>1 DEF LogsOK, LogsType, Blank
<1>6. Alike => Alike'
  BY <1>3 DEF Alike
<1>7. ASSUME NEW l \in members, Ahead(l) PROVE Alike' \/ \E k \in members' : Ahead(k)'
  <2>1. CASE l = r
    BY <1>1, <1>3, <1>7, <2>1 DEF Ahead, Alike
  <2>2. CASE l # r
    <3>1. Leaders' = {l}
      BY <1>1, <1>3, <1>7, <2>2 DEF Ahead, Leaders
    <3>2. l \in members' /\ Ahead(l)'
      BY <1>1, <1>3, <1>7, <2>2, <3>1 DEF Ahead
    <3> QED  BY <3>2
  <2> QED  BY <2>1, <2>2
<1> QED  BY <1>2, <1>4, <1>5, <1>6, <1>7 DEF LogsOK

\* A tick that finds a leader starts no election; one that finds none finds all
\* logs alike.
LEMMA LogsTick ==
  ASSUME IInv, ~Late, LogsOK, TickNodes
  PROVE  LogsOK'
<1>1. UNCHANGED <<members, log, commit, written>> /\ ~ticking /\ age' # "new"
  BY DEF TickNodes, logs
<1>2. ASSUME NEW l \in members, Ahead(l) PROVE asking' = {} /\ Leaders' = {l}
  <2>1. Heard /\ Leaders = {l} /\ members \subseteq Nodes
    BY <1>2, MembersAreNodes DEF IInv, StaticInv, Ahead
  <2>2. \A n \in members : role[n] # "CANDIDATE" /\ (role[n] = "LEADER" \/ timer[n] \in Timeouts)
    BY <1>1, <2>1 DEF Heard
  <2>3. \A n \in members : ~TimesOut(n) /\ ~Wins(n)
    <3>1. \A t \in Timeouts : t \in Nat /\ ~(t <= 1)
      BY TimeoutsAreLong
    <3> QED  BY <2>2, <3>1 DEF TimesOut, CountsDown, Wins
  <2>4. asking' = {} /\ \A n \in members : role'[n] = role[n]
    BY <2>1, <2>3 DEF TickNodes
  <2> QED  BY <1>1, <2>1, <2>4 DEF Leaders
<1> QED  BY <1>1, <1>2, LogsStay

\* The leader's log becomes everybody's.
LEMMA LogsFollow ==
  ASSUME IInv, ~Late, LogsOK, asking = {}, Leaders # {}, Follow(Leader),
         UNCHANGED <<members, written, age>>, age # "new"
  PROVE  LogsOK'
<1>1. PICK l \in members : l = Leader /\ role[l] = "LEADER"
  BY LeaderIsFirst DEF IInv, Leaders
<1>2. members \subseteq Nodes /\ Follow(l) /\ Accepting(l) = members \ {l}
  BY <1>1, MembersAreNodes, EverybodyAccepts DEF IInv
<1>3. log[l] \in Seq(Entry) /\ Indexed(log[l])
  BY <1>1, <1>2 DEF LogsOK, LogsType, Places
<1>4. \A n \in members : Prefix(log[n], log[l])
  <2>1. CASE Alike
    BY <1>1, <1>3, <2>1 DEF Alike, Prefix
  <2>2. CASE \E k \in members : Ahead(k)
    BY <1>1, <2>2 DEF Ahead, Leaders
  <2> QED  BY <2>1, <2>2 DEF LogsOK
<1>5. ASSUME NEW n \in members PROVE Extend(log[n], Missing(n, l)) = log[l]
  <2>1. Len(log[n]) \in 0..Len(log[l]) /\ log[n] = SubSeq(log[l], 1, Len(log[n]))
    BY <1>2, <1>3, <1>4 DEF Prefix, LogsOK, LogsType
  <2>2. Extend(SubSeq(log[l], 1, Len(log[n])), SubSeq(log[l], Len(log[n]) + 1, Len(log[l])))
          = log[l]
    BY <1>3, <2>1, ExtendWithMissing
  <2> QED  BY <2>1, <2>2 DEF Missing
<1>6. log' = [n \in Nodes |-> IF n \in members THEN log[l] ELSE log[n]]
  <2>1. log' = [n \in Nodes |-> IF n \in members \ {l} THEN Extend(log[n], Missing(n, l))
                                ELSE log[n]]
    BY <1>2 DEF Follow
  <2> QED  BY <1>5, <2>1
<1>7. commit' \in [Nodes -> Nat] /\ \A n \in members : commit'[n] <= Len(log[l])
  <2>1. commit' = [n \in Nodes |->
                     IF n = l /\ log[l] # <<>> THEN Len(log[l])
                     ELSE IF n \in Accepting(l) /\ Missing(n, l) # <<>>
                     THEN CommitUpTo(commit[n], commit[l], log'[n])
                     ELSE commit[n]]
    BY <1>2 DEF Follow
  <2>2. Len(log[l]) \in Nat /\ (\A n \in Nodes : commit[n] \in Nat)
        /\ \A n \in members : commit[n] <= Len(log[l])
    BY <1>3 DEF LogsOK, LogsType, CommitsHeld
  <2>3. \A n \in members : log'[n] = log[l]
    BY <1>2, <1>6
  <2>4. \A n \in members :
          /\ CommitUpTo(commit[n], commit[l], log'[n]) \in Nat
          /\ CommitUpTo(commit[n], commit[l], log'[n]) <= Len(log[l])
    BY <1>2, <2>2, <2>3 DEF CommitUpTo, Least
  <2> QED  BY <1>2, <2>1, <2>2, <2>4
<1>8. LogsType'
  BY <1>3, <1>6, <1>7 DEF LogsOK, LogsType
<1> QED  BY <1>2, <1>3, <1>6, <1>7, <1>8, LogsEven

\* The entry a leader appends comes after those it has.
LEMMA NewEntryFacts ==
  ASSUME BallotsOK, LogsOK, NEW l \in members
  PROVE  LET L == Append(log[l], NewEntry(l)) IN
           /\ L \in Seq(Entry) /\ Indexed(L) /\ Len(L) = Len(log[l]) + 1
           /\ \A n \in members : Prefix(log[n], log[l]) => Prefix(log[n], L)
<1> DEFINE e == NewEntry(l)
           L == Append(log[l], e)
<1>1. members \subseteq Nodes /\ log[l] \in Seq(Entry) /\ Indexed(log[l]) /\ written \in Nat
  BY MembersAreNodes DEF LogsOK, LogsType, Places
<1>2. e \in Entry /\ e.index = Len(log[l]) + 1
  BY <1>1 DEF NewEntry, Entry, BallotsOK
<1> HIDE DEF e
<1>3. L \in Seq(Entry) /\ Len(L) = Len(log[l]) + 1
  BY <1>1, <1>2
<1>4. Indexed(L)
  BY <1>1, <1>2 DEF Indexed
<1>5. \A n \in members : Prefix(log[n], log[l]) => Prefix(log[n], L)
  <2>1. SUFFICES ASSUME NEW n \in members, Prefix(log[n], log[l]) PROVE Prefix(log[n], L)
    OBVIOUS
  <2>2. Len(log[n]) \in 0..Len(log[l])
    BY <1>1, <2>1 DEF Prefix, LogsOK, LogsType
  <2>3. SubSeq(L, 1, Len(log[n])) = SubSeq(log[l], 1, Len(log[n]))
    BY <1>1, <1>2, <2>2
  <2> QED  BY <1>1, <1>3, <2>1, <2>2, <2>3 DEF Prefix
<1> QED  BY <1>3, <1>4, <1>5 DEF e

\* Whoever leads, the others' logs are beginnings of its log.
LEMMA LeaderHasAll ==
  ASSUME BallotsOK, LogsOK, NEW l \in Leaders
  PROVE  /\ \A n \in members : Prefix(log[n], log[l])
         /\ \A n, m \in members \ {l} : log[n] = log[m]
<1>1. l \in members /\ \A n \in members : log[n] \in Seq(Entry)
  BY MembersAreNodes DEF Leaders, LogsOK, LogsType
<1>2. CASE Alike
  BY <1>1, <1>2 DEF Alike, Prefix
<1>3. CASE \E k \in members : Ahead(k)
  BY <1>3 DEF Ahead
<1> QED  BY <1>2, <1>3 DEF LogsOK

LEMMA LogsAppend ==
  ASSUME BallotsOK, OneLeader, LogsOK, age # "new", NEW l \in Nodes, AppendToLog(l)
  PROVE  LogsOK'
<1> DEFINE L == Append(log[l], NewEntry(l))
<1>1. /\ l \in members /\ Leaders = {l} /\ asking = {}
      /\ UNCHANGED <<members, role, asking, commit, age>>
      /\ log' = [log EXCEPT ![l] = L] /\ written' = written + 1
  BY DEF AppendToLog, OneLeader, Leaders, BallotsOK, ballots
<1>2. members \subseteq Nodes /\ \A n \in Nodes : log[n] \in Seq(Entry)
  BY MembersAreNodes DEF LogsOK, LogsType
<1>3. /\ L \in Seq(Entry) /\ Indexed(L) /\ Len(L) = Len(log[l]) + 1
      /\ \A n \in members : Prefix(log[n], log[l]) => Prefix(log[n], L)
  BY <1>1, NewEntryFacts
<1> HIDE DEF L
<1>4. \A n \in members : log'[n] = IF n = l THEN L ELSE log[n]
  BY <1>1, <1>2 DEF LogsOK, LogsType
<1>5. LogsType'
  BY <1>1, <1>3 DEF LogsOK, LogsType
<1>6. Places'
  BY <1>1, <1>3, <1>4 DEF LogsOK, Places
<1>7. CommitsHeld'
  <2>1. \A n \in Nodes : commit[n] \in Nat /\ Len(log[n]) \in Nat
    BY <1>2 DEF LogsOK, LogsType
  <2>2. \A n, m \in members : commit[n] <= Len(log[m]) /\ Len(log[m]) <= Len(log'[m])
                              /\ Len(log'[m]) \in Nat
    BY <1>2, <1>3, <1>4, <2>1 DEF LogsOK, CommitsHeld
  <2> QED  BY <1>1, <1>2, <2>1, <2>2 DEF CommitsHeld
<1>8. Ahead(l)'
  <2>1. Prefix(L, L)
    BY <1>3 DEF Prefix
  <2>2. \A n \in members : Prefix(log'[n], log'[l])
    BY <1>1, <1>3, <1>4, <2>1, LeaderHasAll
  <2>3. \A n, m \in members \ {l} : log'[n] = log'[m]
    BY <1>1, <1>4, LeaderHasAll
  <2>4. Leaders' = {l}
    BY <1>1 DEF Leaders
  <2> QED  BY <1>1, <2>2, <2>3, <2>4 DEF Ahead
<1> QED  BY <1>1, <1>5, <1>6, <1>7, <1>8 DEF LogsOK, Blank

LEMMA Appended ==
  ASSUME NEW s \in Seq(Entry), NEW e \in Entry
  PROVE  /\ SubSeq(Append(s, e), 1, Len(s)) = s
         /\ SubSeq(Append(s, e), Len(s) + 1, Len(s) + 1) = <<e>>
<1>1. SubSeq(Append(s, e), 1, Len(s)) = s
  OBVIOUS
<1> DEFINE t == SubSeq(Append(s, e), Len(s) + 1, Len(s) + 1)
<1>2. t \in Seq(Entry) /\ Len(t) = 1 /\ t[1] = e
  OBVIOUS
<1> HIDE DEF t
<1>3. t = <<e>>
  BY <1>2
<1> QED  BY <1>1, <1>3 DEF t

\* What is broadcast arrives where nothing was missing.
LEMMA LogsBroadcast ==
  ASSUME IInv, OneLeader, ~Late, LogsOK, age # "new", Broadcast, ~uneven'
  PROVE  LogsOK'
<1>1. PICK l \in Leaders :
        /\ ~ticking /\ written' = written + 1 /\ UNCHANGED <<members, age>>
        /\ log' = [n \in Nodes |-> IF n = l THEN Append(log[l], NewEntry(l))
                                   ELSE IF n \in Accepting(l) THEN Extend(log[n], <<NewEntry(l)>>)
                                   ELSE log[n]]
        /\ commit' = [n \in Nodes |-> IF n \in Accepting(l)
                                      THEN CommitUpTo(commit[n], commit[l], log'[n])
                                      ELSE commit[n]]
        /\ uneven' = (uneven \/ \E n \in Accepting(l) : Len(log[n]) # Len(log[l]))
  BY DEF Broadcast
<1> DEFINE L == Append(log[l], NewEntry(l))
<1>2. l \in members /\ asking = {} /\ BallotsOK
  BY <1>1 DEF Leaders, IInv, BallotsOK
<1>3. members \subseteq Nodes /\ Accepting(l) = members \ {l}
  BY <1>2, MembersAreNodes, EverybodyAccepts
<1>4. /\ L \in Seq(Entry) /\ Indexed(L) /\ Len(L) = Len(log[l]) + 1
      /\ log[l] \in Seq(Entry) /\ SubSeq(L, 1, Len(log[l])) = log[l]
      /\ SubSeq(L, Len(log[l]) + 1, Len(L)) = <<NewEntry(l)>>
  <2>1. L \in Seq(Entry) /\ Indexed(L) /\ Len(L) = Len(log[l]) + 1
    BY <1>2, NewEntryFacts
  <2>2. log[l] \in Seq(Entry)
    BY <1>2, <1>3 DEF LogsOK, LogsType
  <2> DEFINE e == NewEntry(l)
  <2>3. e \in Entry
    <3>1. written \in Nat /\ term[l] \in Nat
      BY <1>2, <1>3 DEF LogsOK, LogsType, BallotsOK
    <3> QED  BY <2>2, <3>1 DEF NewEntry, Entry
  <2> HIDE DEF e
  <2>4. /\ SubSeq(Append(log[l], e), 1, Len(log[l])) = log[l]
        /\ SubSeq(Append(log[l], e), Len(log[l]) + 1, Len(log[l]) + 1) = <<e>>
    BY <2>2, <2>3, Appended
  <2> QED  BY <2>1, <2>2, <2>4 DEF e
<1>5. ASSUME NEW n \in members \ {l} PROVE log[n] = log[l]
  <2>1. Len(log[n]) = Len(log[l]) /\ Prefix(log[n], log[l])
    BY <1>1, <1>2, <1>3, LeaderHasAll
  <2> QED  BY <1>4, <2>1 DEF Prefix
<1>6. Extend(log[l], <<NewEntry(l)>>) = L
  <2>1. Len(log[l]) \in 0..Len(L)
    BY <1>4
  <2> HIDE DEF L
  <2>2. Extend(SubSeq(L, 1, Len(log[l])), SubSeq(L, Len(log[l]) + 1, Len(L))) = L
    BY <1>4, <2>1, ExtendWithMissing
  <2> QED  BY <1>4, <2>2
<1>7. log' = [n \in Nodes |-> IF n \in members THEN L ELSE log[n]]
  BY <1>1, <1>2, <1>3, <1>5, <1>6
<1> HIDE DEF L
<1>8. commit' \in [Nodes -> Nat] /\ \A n \in members : commit'[n] <= Len(L)
  <2>1. Len(L) \in Nat /\ (\A n \in Nodes : commit[n] \in Nat)
        /\ \A n \in members : commit[n] <= Len(L)
    <3>1. \A n \in members : commit[n] <= Len(log[l])
      BY <1>2 DEF LogsOK, CommitsHeld
    <3> QED  BY <1>3, <1>4, <3>1 DEF LogsOK, LogsType
  <2>2. \A n \in members : log'[n] = L
    BY <1>3, <1>7
  <2>3. \A n \in members :
          /\ CommitUpTo(commit[n], commit[l], log'[n]) \in Nat
          /\ CommitUpTo(commit[n], commit[l], log'[n]) <= Len(L)
    BY <1>2, <1>3, <2>1, <2>2 DEF CommitUpTo, Least
  <2> QED  BY <1>1, <1>3, <2>1, <2>3
<1>9. LogsType'
  <2>1. log' \in [Nodes -> Seq(Entry)]
    BY <1>4, <1>7 DEF LogsOK, LogsType
  <2>2. written' \in Nat
    BY <1>1 DEF LogsOK, LogsType
  <2> QED  BY <1>8, <2>1, <2>2 DEF LogsType
<1> QED  BY <1>1, <1>3, <1>4, <1>7, <1>8, <1>9, LogsEven

\* A node that heals in turn gets no entry, only the leader's commit index.
LEMMA LogsHeal ==
  ASSUME BallotsOK, OneLeader, LogsOK, NEW n \in Watched, Heal(n), ~uneven'
  PROVE  LogsOK'
<1>1. n \in members /\ UNCHANGED <<members, role, written, asking, age>>
  BY DEF Heal, ballots
<1>2. members \subseteq Nodes
  BY MembersAreNodes
<1>3. Leaders' = Leaders
  BY <1>1 DEF Leaders
<1>4. CASE UNCHANGED <<log, commit>>
  BY <1>1, <1>3, <1>4, LogsStay DEF Ahead
<1>5. ASSUME NEW l \in Leaders, log' = [log EXCEPT ![n] = @ \o Missing(n, l)],
             commit' = [commit EXCEPT ![n] = commit[l]], Missing(n, l) = <<>>
      PROVE  LogsOK'
  <2>1. log' = log
    <3>1. log[n] \o <<>> = log[n]
      BY <1>1, <1>2 DEF LogsOK, LogsType
    <3> QED  BY <1>5, <3>1 DEF LogsOK, LogsType
  <2>2. l \in members
    BY DEF Leaders
  <2>3. LogsType' /\ Places' /\ Blank'
    <3>1. commit' \in [Nodes -> Nat]
      BY <1>2, <1>5, <2>2 DEF LogsOK, LogsType
    <3>2. LogsType' /\ Places'
      BY <1>1, <2>1, <3>1 DEF LogsOK, LogsType, Places
    <3>3. Blank'
      BY <1>1, <1>2, <1>5, <2>1, <2>2 DEF LogsOK, LogsType, Blank
    <3> QED  BY <3>2, <3>3
  <2>4. CommitsHeld'
    BY <1>1, <1>2, <1>5, <2>1, <2>2 DEF LogsOK, LogsType, CommitsHeld
  <2>5. Alike => Alike'
    BY <1>1, <2>1 DEF Alike
  <2>6. \A k \in members : Ahead(k) => Ahead(k)'
    BY <1>1, <1>3, <2>1 DEF Ahead, Prefix
  <2> QED  BY <1>1, <2>3, <2>4, <2>5, <2>6 DEF LogsOK
<1>6. CASE \E l \in Leaders : /\ log' = [log EXCEPT ![n] = @ \o Missing(n, l)]
                              /\ commit' = [commit EXCEPT ![n] = commit[l]]
                              /\ Missing(n, l) = <<>>
  BY <1>5, <1>6
<1> QED  BY <1>4, <1>6 DEF Heal

LEMMA LogsStep == LeaderInv /\ IInv /\ LogsInv /\ [Next]_vars => LogsInv'
<1> SUFFICES ASSUME LeaderInv, IInv, LogsInv, [Next]_vars, ~Late', ~uneven'
             PROVE  LogsOK'
  BY DEF LogsInv
<1>1. BallotsOK /\ OneLeader /\ StaticInv /\ (~ticking => asking = {})
  BY DEF LeaderInv, IInv, BallotsOK
<1>2. ~Late
  BY DEF Next, vars, Late, AddNode, RemoveNode, TickNodes, Solicit, Beat, AppendToLog,
         Broadcast, EnterReadOnly, Heal
<1>3. ~uneven
  BY DEF Next, vars, logs, AddNode, RemoveNode, TickNodes, Solicit, Beat, AppendToLog,
         Broadcast, EnterReadOnly, Heal
<1>4. LogsOK
  BY <1>2, <1>3 DEF LogsInv
<1>5. ticking \/ Leaders # {} => age # "new"
  <2>1. Untouched /\ members \subseteq Nodes
    BY <1>1, <1>2, MembersAreNodes DEF StaticInv
  <2> QED  BY <2>1 DEF Untouched, Leaders
<1>6. CASE AddNode
  BY <1>1, <1>2, <1>4, <1>6, LogsAdd
<1>7. ASSUME NEW r \in Nodes, RemoveNode(r) PROVE LogsOK'
  BY <1>1, <1>4, <1>7, LogsRemove
<1>8. CASE TickNodes
  BY <1>2, <1>4, <1>8, LogsTick
<1>9. ASSUME NEW c \in Nodes, Solicit(c) PROVE LogsOK'
  <2>1. asking # {} /\ UNCHANGED <<members, log, commit, written, age>>
    BY <1>9 DEF Solicit, logs
  <2> QED  BY <1>4, <2>1, LogsStay DEF Ahead
<1>10. CASE Beat
  <2>1. asking = {} /\ ticking /\ UNCHANGED <<members, written, age, asking>>
    BY <1>10 DEF Beat
  <2>2. CASE Leaders # {} /\ Follow(Leader)
    BY <1>2, <1>4, <1>5, <2>1, <2>2, LogsFollow
  <2>3. CASE Leaders = {} /\ UNCHANGED <<role, log, commit>>
    BY <1>4, <2>1, <2>3, LogsStay DEF Ahead
  <2> QED  BY <1>10, <2>2, <2>3 DEF Beat
<1>11. ASSUME NEW l \in Nodes, AppendToLog(l) PROVE LogsOK'
  <2>1. Leaders # {}
    BY <1>11 DEF AppendToLog
  <2> QED  BY <1>1, <1>4, <1>5, <1>11, <2>1, LogsAppend
<1>12. CASE Broadcast
  <2>1. Leaders # {}
    BY <1>12 DEF Broadcast
  <2> QED  BY <1>1, <1>2, <1>4, <1>5, <1>12, <2>1, LogsBroadcast
<1>13. ASSUME NEW n \in Watched, EnterReadOnly(n) PROVE LogsOK'
  <2>1. UNCHANGED <<members, role, log, commit, written, asking, age>>
    BY <1>13 DEF EnterReadOnly, ballots, logs
  <2>2. Leaders' = Leaders
    BY <2>1 DEF Leaders
  <2> QED  BY <1>4, <2>1, <2>2, LogsStay DEF Ahead
<1>14. ASSUME NEW n \in Watched, Heal(n) PROVE LogsOK'
  BY <1>1, <1>4, <1>14, LogsHeal
<1>15. CASE UNCHANGED vars
  <2>1. UNCHANGED <<members, role, log, commit, written, asking, age>>
    BY <1>15 DEF vars, ballots, logs
  <2>2. Leaders' = Leaders
    BY <2>1 DEF Leaders
  <2> QED  BY <1>4, <2>1, <2>2, LogsStay DEF Ahead
<1> QED  BY <1>6, <1>7, <1>8, <1>9, <1>10, <1>11, <1>12, <1>13, <1>14, <1>15 DEF Next

\* What some member has committed, every member has at its place.
LEMMA LogsImply == BallotsOK /\ LogsInv => CommittedOnMajority
<1> SUFFICES ASSUME BallotsOK, LogsOK, NEW n \in members, NEW i \in 1..commit[n]
             PROVE  Cardinality({m \in members : i <= Len(log[m]) /\ i <= Len(log[n])
                                                  /\ log[m][i] = log[n][i]}) >= Majority
  BY DEF LogsInv, CommittedOnMajority
<1>1. members \subseteq Nodes /\ (\A m \in members : log[m] \in Seq(Entry)) /\ commit[n] \in Nat
  BY MembersAreNodes DEF LogsOK, LogsType
<1>2. \A m \in members : i <= Len(log[m])
  BY <1>1 DEF LogsOK, CommitsHeld
<1>3. \A m \in members : log[m][i] = log[n][i]
  <2>1. CASE Alike
    BY <2>1 DEF Alike
  <2>2. ASSUME NEW l \in members, Ahead(l) PROVE \A m \in members : log[m][i] = log[l][i]
    <3>1. SUFFICES ASSUME NEW m \in members PROVE log[m][i] = log[l][i]
      OBVIOUS
    <3>2. Len(log[m]) <= Len(log[l]) /\ log[m] = SubSeq(log[l], 1, Len(log[m]))
      BY <2>2 DEF Ahead, Prefix
    <3>3. i \in 1..Len(log[m]) /\ Len(log[m]) \in 0..Len(log[l]) /\ log[l] \in Seq(Entry)
      BY <1>1, <1>2, <3>2
    <3>4. SubSeq(log[l], 1, Len(log[m]))[i] = log[l][i]
      BY <3>3
    <3> QED  BY <3>2, <3>4
  <2> QED  BY <2>1, <2>2 DEF LogsOK
<1>4. {m \in members : i <= Len(log[m]) /\ i <= Len(log[n]) /\ log[m][i] = log[n][i]} = members
  BY <1>2, <1>3
<1>5. Cardinality(members) \in Nat /\ Cardinality(members) # 0
  <2>1. IsFiniteSet(1..joined)
    BY BoundsAreNatural, FS_Interval DEF BallotsOK
  <2>2. IsFiniteSet(members)
    BY <2>1, FS_Subset DEF BallotsOK
  <2> QED  BY <2>2, FS_CardinalityType, FS_EmptySet
<1>6. Cardinality(members) >= Majority
  BY <1>5 DEF Majority
<1> QED  BY <1>4, <1>6

(* In a cluster nobody joins late and nobody feeds out of turn, what a leader *)
(* or a follower has committed is in every log, and so in those of a majority,*)
(* through elections, removals and heartbeats that carry what was missed.     *)
THEOREM AlwaysCommittedOnMajority == Spec => []CommittedOnMajority
<1>1. Init => LeaderInv /\ IInv /\ LogsInv
  BY InitLeader, InitStatic, LogsInit DEF LeaderInv, IInv
<1>2. LeaderInv /\ IInv /\ LogsInv /\ [Next]_vars => (LeaderInv /\ IInv /\ LogsInv)'
  BY LeaderStep, StaticStep, LogsStep DEF LeaderInv, IInv
<1>3. LeaderInv /\ LogsInv => CommittedOnMajority
  BY LogsImply DEF LeaderInv
<1> QED  BY <1>1, <1>2, <1>3, PTL DEF Spec

-----------------------------------------------------------------------------
(* Places of a sequence                                                     *)

\* Ranks among finitely many numbers are different, so each rank is taken.
LEMMA NthFacts ==
  ASSUME NEW T \in SUBSET Nat, IsFiniteSet(T), NEW k \in 1 .. Cardinality(T)
  PROVE  Nth(T, k) \in T /\ Cardinality({j \in T : j <= Nth(T, k)}) = k
<1> DEFINE upTo(i) == {j \in T : j <= i}
           n == Cardinality(T)
           rank == [i \in T |-> Cardinality(upTo(i))]
<1>1. n \in Nat
  BY FS_CardinalityType
<1>2. ASSUME NEW i \in T
      PROVE  /\ upTo(i) \in SUBSET T /\ IsFiniteSet(upTo(i)) /\ Cardinality(upTo(i)) \in Nat
             /\ Cardinality(upTo(i)) <= n /\ Cardinality(upTo(i)) # 0
  <2>1. upTo(i) \in SUBSET T /\ i \in upTo(i)
    OBVIOUS
  <2>2. IsFiniteSet(upTo(i)) /\ Cardinality(upTo(i)) <= n
    BY <2>1, FS_Subset
  <2>3. Cardinality(upTo(i)) \in Nat /\ Cardinality(upTo(i)) # 0
    BY <2>1, <2>2, FS_CardinalityType, FS_EmptySet
  <2> QED  BY <2>1, <2>2, <2>3
<1>3. rank \in [T -> 1 .. n]
  BY <1>1, <1>2
<1>4. ASSUME NEW i \in T, NEW j \in T, i < j PROVE rank[i] # rank[j]
  <2>1. upTo(i) \in SUBSET upTo(j) /\ j \in upTo(j) /\ j \notin upTo(i)
    <3>1. i \in Nat /\ j \in Nat /\ \A x \in T : x \in Nat
      OBVIOUS
    <3>2. j \in upTo(j)
      BY <3>1
    <3>3. j \notin upTo(i)
      BY <1>4, <3>1
    <3>4. ASSUME NEW x \in upTo(i) PROVE x \in upTo(j)
      BY <1>4, <3>1
    <3> QED  BY <3>2, <3>3, <3>4
  <2>2. IsFiniteSet(upTo(j))
    BY <1>2
  <2> HIDE DEF upTo
  <2> QED  BY <2>1, <2>2, FS_Subset
<1>5. \A i, j \in T : rank[i] = rank[j] => i = j
  <2> HIDE DEF rank
  <2>1. \A i, j \in T : i < j \/ j < i \/ i = j
    OBVIOUS
  <2> QED  BY <1>4, <2>1
<1>6. rank \in Injection(T, 1 .. n)
  BY <1>3, <1>5 DEF Injection, IsInjective
<1>7. IsFiniteSet(1 .. n) /\ Cardinality(1 .. n) = n
  BY <1>1, FS_Interval
<1>8. rank \in Surjection(T, 1 .. n)
  <2> HIDE DEF rank, n
  <2>1. Cardinality(T) = n
    BY DEF n
  <2> QED  BY <1>6, <1>7, <2>1, FS_Injection
<1>9. \E i \in T : rank[i] = k
  BY <1>3, <1>8 DEF Surjection
<1>10. \E i \in T : Cardinality(upTo(i)) = k
  BY <1>9
<1> QED  BY <1>10 DEF Nth

LEMMA SelectedFacts ==
  ASSUME NEW S, NEW q \in Seq(S), NEW T \in SUBSET DOMAIN q
  PROVE  /\ IsFiniteSet(T) /\ Cardinality(T) \in Nat
         /\ Selected(q, T) \in Seq(S) /\ Len(Selected(q, T)) = Cardinality(T)
<1>1. T \in SUBSET Nat /\ IsFiniteSet(T) /\ Cardinality(T) \in Nat
  <2>1. DOMAIN q = 1 .. Len(q) /\ Len(q) \in Nat
    OBVIOUS
  <2>2. IsFiniteSet(1 .. Len(q))
    BY <2>1, FS_Interval
  <2> QED  BY <2>1, <2>2, FS_Subset, FS_CardinalityType
<1>2. \A k \in 1 .. Cardinality(T) : Nth(T, k) \in T
  BY <1>1, NthFacts
<1>3. \A i \in T : q[i] \in S
  OBVIOUS
<1> DEFINE s == Selected(q, T)
           n == Cardinality(T)
<1>4. s = [k \in 1 .. n |-> q[Nth(T, k)]] /\ n \in Nat
  BY <1>1 DEF Selected
<1>5. \A k \in 1 .. n : q[Nth(T, k)] \in S
  BY <1>2, <1>3
<1> HIDE DEF s, n
<1>6. s \in Seq(S) /\ Len(s) = n
  BY <1>4, <1>5
<1> QED  BY <1>1, <1>6 DEF s, n

LEMMA IsSequence ==
  ASSUME NEW S, NEW l \in Nat, NEW s, s = [k \in 1 .. l |-> s[k]],
         \A k \in 1 .. l : s[k] \in S
  PROVE  s \in Seq(S) /\ Len(s) = l
OBVIOUS

\* A listing of a finite set has all its elements.
LEMMA ListingFacts ==
  ASSUME NEW S, IsFiniteSet(S)
  PROVE  /\ SetToSeq(S) \in Seq(S) /\ Len(SetToSeq(S)) = Cardinality(S)
         /\ Cardinality(S) \in Nat
         /\ \A x \in S : \E i \in DOMAIN SetToSeq(S) : SetToSeq(S)[i] = x
<1> DEFINE n == Cardinality(S)
           D == 1 .. n
           s == SetToSeq(S)
<1>1. n \in Nat /\ ExistsBijection(D, S)
  BY FS_CardinalityType
<1>2. \E f \in [D -> S] : IsInjective(f)
  BY <1>1 DEF ExistsBijection, Bijection, Injection, IsInjective
<1>3. s \in [D -> S] /\ IsInjective(s)
  BY <1>2 DEF SetToSeq
<1>4. s \in Injection(D, S)
  BY <1>3 DEF Injection
<1>5. IsFiniteSet(D) /\ Cardinality(D) = n
  BY <1>1, FS_Interval
<1>6. s \in Surjection(D, S)
  <2> HIDE DEF s, D, n
  <2>1. n = Cardinality(S)
    BY DEF n
  <2> QED  BY <1>4, <1>5, <2>1, FS_Injection
<1> HIDE DEF s
<1>7. s \in Seq(S) /\ Len(s) = n /\ DOMAIN s = D
  BY <1>1, <1>3
<1>8. \A x \in S : \E i \in D : s[i] = x
  BY <1>6 DEF Surjection
<1> QED  BY <1>1, <1>7, <1>8 DEF s

-----------------------------------------------------------------------------
(* The packets under way                                                    *)

InFlight(P) == [due : Nat, packet : P]

Carried(P) == wires \in Seq(Seq(InFlight(P))) /\ inbox \in [NodeIds -> SUBSET P]

LinksOK ==
  /\ adjacency \in SUBSET (NodeIds \X NodeIds)
  /\ neighbors \in [NodeIds -> [NodeIds -> 0 .. Len(wires)]]

LEMMA TransmitCarries ==
  ASSUME NetworkAssumption, NEW P, wires \in Seq(Seq(InFlight(P))), netTime \in Nat,
         NEW n, NEW copies, IsFiniteSet(DOMAIN copies),
         \A m \in DOMAIN copies : copies[m] \in P, Transmit(n, copies)
  PROVE  wires' \in Seq(Seq(InFlight(P))) /\ Len(wires') = Len(wires)
<1>1. PICK kept \in SUBSET DOMAIN copies :
        wires' = [w \in DOMAIN wires |->
                   LET via == {m \in kept : neighbors[n][m] = w} IN
                     wires[w] \o SetToSeq({[due |-> netTime + Latency, packet |-> copies[m]] :
                                            m \in via})]
  BY DEF Transmit
<1>2. ASSUME NEW w \in DOMAIN wires
      PROVE  wires'[w] \in Seq(InFlight(P))
  <2> DEFINE via == {m \in kept : neighbors[n][m] = w}
             E(m) == [due |-> netTime + Latency, packet |-> copies[m]]
             new == {E(m) : m \in via}
             f == [m \in via |-> E(m)]
  <2>1. wires'[w] = wires[w] \o SetToSeq(new)
    BY <1>1
  <2>2. IsFiniteSet(via)
    <3>1. via \in SUBSET DOMAIN copies
      OBVIOUS
    <3> QED  BY <3>1, FS_Subset
  <2>3. f \in Surjection(via, new)
    BY DEF Surjection
  <2>4. IsFiniteSet(new)
    <3> HIDE DEF f, via, new
    <3> QED  BY <2>2, <2>3, FS_Surjection
  <2>5. new \in SUBSET InFlight(P)
    BY DEF InFlight, NetworkAssumption
  <2> HIDE DEF new
  <2>6. SetToSeq(new) \in Seq(new)
    BY <2>4, ListingFacts
  <2>7. SetToSeq(new) \in Seq(InFlight(P))
    BY <2>5, <2>6
  <2> QED  BY <2>1, <2>7
<1>3. DOMAIN wires' = DOMAIN wires /\ DOMAIN wires = 1 .. Len(wires) /\ Len(wires) \in Nat
  BY <1>1
<1>4. wires' = [w \in 1 .. Len(wires) |-> wires'[w]]
  BY <1>1, <1>3
<1>5. \A w \in 1 .. Len(wires) : wires'[w] \in Seq(InFlight(P))
  BY <1>2, <1>3
<1> DEFINE Queues == Seq(InFlight(P))
<1> HIDE DEF Queues
<1>6. \A w \in 1 .. Len(wires) : wires'[w] \in Queues
  BY <1>5 DEF Queues
<1>7. wires' \in Seq(Queues) /\ Len(wires') = Len(wires)
  BY <1>3, <1>4, <1>6, IsSequence
<1> QED  BY <1>7 DEF Queues

\* A node at a time: what one sends on is what it has, with one hop more.
LEMMA SendingCarries ==
  ASSUME NetworkAssumption, NEW P, wires \in Seq(Seq(InFlight(P))), netTime \in Nat,
         NEW n, NEW p \in P, SendPacket(n, p), p.hops < PacketTtl => [p EXCEPT !.hops = @ + 1] \in P,
         p.hops \in Nat
  PROVE  wires' \in Seq(Seq(InFlight(P))) /\ Len(wires') = Len(wires)
<1>1. CASE p.hops >= PacketTtl
  BY <1>1 DEF SendPacket
<1>2. CASE p.hops < PacketTtl /\ p.to \in Linked(n)
  <2> DEFINE copies == [m \in {p.to} |-> p]
  <2>1. Transmit(n, copies)
    BY <1>2 DEF SendPacket, NetworkAssumption
  <2>2. IsFiniteSet({p.to})
    BY FS_Singleton
  <2>3. DOMAIN copies = {p.to} /\ \A m \in DOMAIN copies : copies[m] \in P
    OBVIOUS
  <2> HIDE DEF copies
  <2> QED  BY <2>1, <2>2, <2>3, TransmitCarries
<1>3. CASE p.hops < PacketTtl /\ p.to \notin Linked(n)
  <2> DEFINE copies == [m \in Linked(n) \ {p.from} |-> [p EXCEPT !.hops = @ + 1]]
  <2>1. Transmit(n, copies)
    BY <1>3 DEF SendPacket, NetworkAssumption
  <2>2. IsFiniteSet(Linked(n) \ {p.from})
    BY FS_Subset DEF Linked, NetworkAssumption
  <2>3. DOMAIN copies = Linked(n) \ {p.from} /\ \A m \in DOMAIN copies : copies[m] \in P
    BY <1>3
  <2> HIDE DEF copies
  <2> QED  BY <2>1, <2>2, <2>3, TransmitCarries
<1> QED  BY <1>1, <1>2, <1>3 DEF NetworkAssumption

LEMMA ReceivingCarries ==
  ASSUME NEW P, Carried(P), LinksOK, NEW n \in NodeIds, ReceivePackets(n)
  PROVE  Carried(P)' /\ Len(wires') = Len(wires)
<1> DEFINE mine == {neighbors[n][m] : m \in Linked(n)}
           arrived == UNION {{wires[w][i].packet : i \in HandedOut(w)} : w \in mine}
<1>1. mine \in SUBSET DOMAIN wires
  BY DEF LinksOK, Linked, Carried
<1>2. ASSUME NEW w \in DOMAIN wires
      PROVE  /\ wires[w] \in Seq(InFlight(P)) /\ HandedOut(w) \in SUBSET DOMAIN wires[w]
             /\ Remaining(w) \in Seq(InFlight(P))
  <2>1. wires[w] \in Seq(InFlight(P)) /\ HandedOut(w) \in SUBSET DOMAIN wires[w]
    BY DEF HandedOut, Carried
  <2> QED  BY <2>1, SelectedFacts DEF Remaining
<1>3. arrived \in SUBSET P
  <2> SUFFICES ASSUME NEW w \in mine, NEW i \in HandedOut(w) PROVE wires[w][i].packet \in P
    OBVIOUS
  <2>1. wires[w] \in Seq(InFlight(P)) /\ i \in DOMAIN wires[w]
    BY <1>1, <1>2
  <2>2. wires[w][i] \in InFlight(P)
    BY <2>1
  <2> QED  BY <2>2 DEF InFlight
<1>4. PICK taken \in SUBSET arrived :
        inbox' = [inbox EXCEPT ![n] = @ \cup taken]
  <2> HIDE DEF arrived
  <2>1. \E taken \in SUBSET {p \in arrived : p.id \notin seen[n]} :
          inbox' = [inbox EXCEPT ![n] = @ \cup taken]
    BY DEF ReceivePackets, arrived
  <2> QED  BY <2>1
<1>5. inbox' \in [NodeIds -> SUBSET P]
  BY <1>3, <1>4 DEF Carried
<1>6. wires' = [w \in DOMAIN wires |-> IF w \in mine THEN Remaining(w) ELSE wires[w]]
  BY DEF ReceivePackets
<1>7. \A w \in DOMAIN wires : wires'[w] \in Seq(InFlight(P))
  BY <1>2, <1>6
<1>8. DOMAIN wires' = DOMAIN wires /\ DOMAIN wires = 1 .. Len(wires) /\ Len(wires) \in Nat
  BY <1>6 DEF Carried
<1> QED  BY <1>5, <1>6, <1>7, <1>8 DEF Carried

-----------------------------------------------------------------------------
(* Links and deliveries                                                     *)

Packets(D) ==
  [id : Nat, from : NodeIds, to : NodeIds \cup {"elsewhere"}, hops : 0 .. PacketTtl, payload : D]

LinksAgree ==
  \A e \in adjacency : /\ neighbors[e[1]][e[2]] # 0
                       /\ neighbors[e[1]][e[2]] = neighbors[e[2]][e[1]]

\* What was taken has been seen.
TakenOnce ==
  /\ seen \in [NodeIds -> SUBSET Nat]
  /\ receipts \in [NodeIds -> [1 .. MaxPackets -> {0, 1}]]
  /\ \A n \in NodeIds : \A i \in 1 .. MaxPackets : receipts[n][i] = 1 => i \in seen[n]

NetworkInv ==
  /\ nodes \in SUBSET NodeIds /\ netTime \in Nat /\ lastId \in Nat
  /\ LinksOK /\ LinksAgree /\ TakenOnce /\ Carried(Packets(Payloads))

LEMMA NetworkStarts == NetworkInit => NetworkInv
<1> SUFFICES ASSUME NetworkInit PROVE NetworkInv
  OBVIOUS
<1>1. LinksOK /\ LinksAgree /\ nodes \in SUBSET NodeIds /\ netTime \in Nat /\ lastId \in Nat
  BY DEF NetworkInit, LinksOK, LinksAgree
<1>2. TakenOnce
  BY DEF NetworkInit, TakenOnce
<1>3. Carried(Packets(Payloads))
  BY DEF NetworkInit, Carried
<1> QED  BY <1>1, <1>2, <1>3 DEF NetworkInv

LEMMA LinkKeeps ==
  ASSUME NetworkInv, NEW a \in NodeIds, NEW b \in NodeIds, a # b, AddLink(a, b)
  PROVE  NetworkInv'
<1> DEFINE new == Len(wires) + 1
<1>1. Len(wires) \in Nat /\ Len(wires') = new /\ new \in Nat
      /\ wires' \in Seq(Seq(InFlight(Packets(Payloads))))
  <2>1. wires \in Seq(Seq(InFlight(Packets(Payloads)))) /\ wires' = Append(wires, << >>)
    BY DEF AddLink, NetworkInv, Carried
  <2>2. << >> \in Seq(InFlight(Packets(Payloads)))
    OBVIOUS
  <2> QED  BY <2>1, <2>2
<1>2. neighbors' = [neighbors EXCEPT ![a][b] = new, ![b][a] = new]
      /\ adjacency' = adjacency \cup {<<a, b>>, <<b, a>>}
  BY DEF AddLink
<1>3. neighbors \in [NodeIds -> [NodeIds -> 0 .. Len(wires)]]
      /\ adjacency \in SUBSET (NodeIds \X NodeIds)
  BY DEF NetworkInv, LinksOK
<1> HIDE DEF new
<1>4. neighbors' \in [NodeIds -> [NodeIds -> 0 .. new]]
  <2>1. \A n, m \in NodeIds : neighbors[n][m] \in 0 .. new
    <3>1. 0 .. Len(wires) \in SUBSET (0 .. new)
      BY <1>1 DEF new
    <3> QED  BY <1>3, <3>1
  <2>2. new \in 0 .. new
    BY <1>1
  <2>3. neighbors \in [NodeIds -> [NodeIds -> 0 .. new]]
    BY <1>3, <2>1
  <2> QED  BY <1>2, <2>2, <2>3
<1>5. LinksOK'
  <2>1. adjacency' \in SUBSET (NodeIds \X NodeIds)
    BY <1>2, <1>3
  <2> QED  BY <1>1, <1>4, <2>1 DEF LinksOK
<1>6. LinksAgree'
  <2> SUFFICES ASSUME NEW e \in adjacency'
               PROVE  /\ neighbors'[e[1]][e[2]] # 0
                      /\ neighbors'[e[1]][e[2]] = neighbors'[e[2]][e[1]]
    BY DEF LinksAgree
  <2>1. /\ neighbors'[a][b] = new /\ neighbors'[b][a] = new
        /\ \A n, m \in NodeIds : {n, m} # {a, b} => neighbors'[n][m] = neighbors[n][m]
    BY <1>2, <1>3
  <2>2. CASE e \in {<<a, b>>, <<b, a>>}
    BY <1>1, <2>1, <2>2 DEF new
  <2>3. CASE e \in adjacency /\ {e[1], e[2]} # {a, b}
    <3>1. e[1] \in NodeIds /\ e[2] \in NodeIds
      BY <1>3, <2>3
    <3>2. neighbors[e[1]][e[2]] # 0 /\ neighbors[e[1]][e[2]] = neighbors[e[2]][e[1]]
      BY <2>3 DEF NetworkInv, LinksAgree
    <3>3. {e[2], e[1]} = {e[1], e[2]}
      OBVIOUS
    <3> QED  BY <2>1, <2>3, <3>1, <3>2, <3>3
  <2>4. CASE e \in adjacency /\ {e[1], e[2]} = {a, b}
    <3>1. (e[1] = a /\ e[2] = b) \/ (e[1] = b /\ e[2] = a)
      BY <2>4
    <3> QED  BY <1>1, <2>1, <3>1 DEF new
  <2> QED  BY <1>2, <2>2, <2>3, <2>4
<1>7. TakenOnce' /\ inbox' \in [NodeIds -> SUBSET Packets(Payloads)]
  BY DEF AddLink, NetworkInv, TakenOnce, Carried
<1>8. nodes' \in SUBSET NodeIds /\ netTime' \in Nat /\ lastId' \in Nat
  BY DEF AddLink, NetworkInv
<1> QED  BY <1>1, <1>5, <1>6, <1>7, <1>8 DEF NetworkInv, Carried

LEMMA RemovalKeeps ==
  ASSUME NetworkInv, NEW n \in NodeIds, RemoveFromTopology(n)
  PROVE  NetworkInv'
<1>1. adjacency' = {e \in adjacency : n \notin {e[1], e[2]}}
      /\ neighbors' = [m \in NodeIds |->
                        IF <<n, m>> \in adjacency /\ m # n
                        THEN [neighbors[m] EXCEPT ![n] = 0] ELSE neighbors[m]]
  BY DEF RemoveFromTopology, Adjacent
<1>2. neighbors \in [NodeIds -> [NodeIds -> 0 .. Len(wires)]] /\ Len(wires) \in Nat
      /\ adjacency \in SUBSET (NodeIds \X NodeIds)
  BY DEF NetworkInv, LinksOK, Carried
<1>3. wires' = wires /\ netTime' = netTime /\ lastId' = lastId /\ inbox' = inbox
      /\ seen' = seen /\ receipts' = receipts /\ nodes' \in SUBSET NodeIds
  BY DEF RemoveFromTopology, traffic, NetworkInv
<1>4. \A m \in NodeIds : \A k \in NodeIds :
        /\ neighbors'[m][k] \in 0 .. Len(wires)
        /\ k # n => neighbors'[m][k] = neighbors[m][k]
  BY <1>1, <1>2
<1>5. neighbors' \in [NodeIds -> [NodeIds -> 0 .. Len(wires)]]
  BY <1>1, <1>2
<1>6. LinksOK'
  BY <1>1, <1>2, <1>3, <1>5 DEF LinksOK
<1>7. LinksAgree'
  <2> SUFFICES ASSUME NEW e \in adjacency'
               PROVE  /\ neighbors'[e[1]][e[2]] # 0
                      /\ neighbors'[e[1]][e[2]] = neighbors'[e[2]][e[1]]
    BY DEF LinksAgree
  <2>1. e \in adjacency /\ e[1] # n /\ e[2] # n
    BY <1>1
  <2>2. e[1] \in NodeIds /\ e[2] \in NodeIds
    BY <1>2, <2>1
  <2> QED  BY <1>4, <2>1, <2>2 DEF NetworkInv, LinksAgree
<1>8. TakenOnce' /\ Carried(Packets(Payloads))'
  BY <1>3 DEF NetworkInv, TakenOnce, Carried
<1> QED  BY <1>3, <1>6, <1>7, <1>8 DEF NetworkInv

LEMMA ReceiptsKeep ==
  ASSUME TakenOnce, Carried(Packets(Payloads)), LinksOK,
         NEW n \in NodeIds, ReceivePackets(n)
  PROVE  TakenOnce'
<1> DEFINE arrived == UNION {{wires[w][i].packet : i \in HandedOut(w)} :
                               w \in {neighbors[n][m] : m \in Linked(n)}}
           new == {p \in arrived : p.id \notin seen[n]}
<1>1. PICK taken \in SUBSET new :
        /\ \A p \in new : Cardinality({q \in taken : q.id = p.id}) = 1
        /\ receipts' = [receipts EXCEPT ![n] =
                          [i \in DOMAIN @ |->
                             @[i] + Cardinality({p \in taken : p.id = i})]]
  <2> HIDE DEF arrived
  <2> QED  BY DEF ReceivePackets, arrived
<1>2. seen' = [seen EXCEPT ![n] = @ \cup {p.id : p \in new}]
  <2> HIDE DEF arrived
  <2> QED  BY DEF ReceivePackets, arrived
<1>3. \A p \in arrived : p.id \in Nat
  <2> SUFFICES ASSUME NEW m \in Linked(n), NEW i \in HandedOut(neighbors[n][m])
               PROVE  wires[neighbors[n][m]][i].packet.id \in Nat
    OBVIOUS
  <2>1. neighbors[n][m] \in DOMAIN wires
    BY DEF LinksOK, Linked, Carried
  <2>2. wires[neighbors[n][m]] \in Seq(InFlight(Packets(Payloads)))
        /\ i \in DOMAIN wires[neighbors[n][m]]
    BY <2>1 DEF Carried, HandedOut
  <2>3. wires[neighbors[n][m]][i] \in InFlight(Packets(Payloads))
    BY <2>2
  <2> QED  BY <2>3 DEF InFlight, Packets
<1> HIDE DEF arrived
<1> DEFINE count(i) == Cardinality({p \in taken : p.id = i})
<1>4. ASSUME NEW i \in 1 .. MaxPackets
      PROVE  /\ count(i) \in {0, 1}
             /\ count(i) = 1 => i \in seen'[n] /\ i \notin seen[n]
  <2>1. CASE \E p \in new : p.id = i
    <3>1. PICK p \in new : p.id = i
      BY <2>1
    <3>2. count(i) = 1
      BY <1>1, <3>1
    <3>3. i \in seen'[n] /\ i \notin seen[n]
      BY <1>2, <3>1 DEF TakenOnce
    <3> QED  BY <3>2, <3>3
  <2>2. CASE ~ \E p \in new : p.id = i
    <3>1. {p \in taken : p.id = i} = {}
      BY <2>2
    <3>2. count(i) = 0
      BY <3>1, FS_EmptySet
    <3> QED  BY <3>2
  <2> QED  BY <2>1, <2>2
<1> HIDE DEF new
<1>5. \A m \in NodeIds \ {n} : receipts'[m] = receipts[m] /\ seen'[m] = seen[m]
  BY <1>1, <1>2 DEF TakenOnce
<1>6. receipts'[n] = [i \in 1 .. MaxPackets |-> receipts[n][i] + count(i)]
  BY <1>1 DEF TakenOnce
<1>7. seen' \in [NodeIds -> SUBSET Nat] /\ seen[n] \in SUBSET seen'[n]
  BY <1>2, <1>3 DEF TakenOnce, new
<1> HIDE DEF count
<1>8. ASSUME NEW i \in 1 .. MaxPackets
      PROVE  /\ receipts'[n][i] \in {0, 1}
             /\ receipts'[n][i] = 1 => i \in seen'[n]
  <2>1. receipts[n][i] \in {0, 1} /\ (receipts[n][i] = 1 => i \in seen[n])
    BY DEF TakenOnce
  <2>2. receipts'[n][i] = receipts[n][i] + count(i)
    BY <1>6
  <2> QED  BY <1>4, <1>7, <2>1, <2>2
<1>9. receipts' \in [NodeIds -> [1 .. MaxPackets -> {0, 1}]]
  <2>1. receipts'[n] \in [1 .. MaxPackets -> {0, 1}]
    BY <1>6, <1>8
  <2>2. DOMAIN receipts' = NodeIds /\ receipts' = [m \in NodeIds |-> receipts'[m]]
    BY <1>1 DEF TakenOnce
  <2> QED  BY <1>5, <2>1, <2>2 DEF TakenOnce
<1> QED  BY <1>5, <1>7, <1>8, <1>9 DEF TakenOnce

LEMMA NetworkStep ==
  ASSUME NetworkAssumption, NetworkInv, [NetworkNext]_network
  PROVE  NetworkInv'
<1> DEFINE P == Packets(Payloads)
<1>1. /\ wires \in Seq(Seq(InFlight(P))) /\ inbox \in [NodeIds -> SUBSET P]
      /\ netTime \in Nat /\ lastId \in Nat
  BY DEF NetworkInv, Carried
<1>2. CASE UNCHANGED <<adjacency, neighbors, traffic>> /\ nodes' \in SUBSET NodeIds /\ netTime' \in Nat
  BY <1>2 DEF NetworkInv, traffic, LinksOK, LinksAgree, TakenOnce, Carried
<1>3. CASE UNCHANGED network
  BY <1>2, <1>3 DEF network, topology, NetworkInv
<1>4. CASE NetTick
  BY <1>1, <1>2, <1>4 DEF NetTick, topology, NetworkInv
<1>5. ASSUME NEW n \in NodeIds, AddToTopology(n) PROVE NetworkInv'
  BY <1>1, <1>2, <1>5 DEF AddToTopology, NetworkInv
<1>6. ASSUME NEW n \in NodeIds, ReceivePackets(n) PROVE NetworkInv'
  <2>1. Carried(P)' /\ Len(wires') = Len(wires)
    BY <1>6, ReceivingCarries DEF NetworkInv
  <2>2. TakenOnce'
    BY <1>6, ReceiptsKeep DEF NetworkInv
  <2>3. UNCHANGED <<topology, lastId, netTime>>
    BY <1>6 DEF ReceivePackets
  <2> QED  BY <2>1, <2>2, <2>3 DEF NetworkInv, topology, LinksOK, LinksAgree
<1>7. ASSUME NEW n \in NodeIds, DrainInbox(n) PROVE NetworkInv'
  <2>1. inbox' \in [NodeIds -> SUBSET P]
    BY <1>1, <1>7 DEF DrainInbox
  <2>2. UNCHANGED <<topology, wires, seen, lastId, receipts, netTime>>
    BY <1>7 DEF DrainInbox
  <2> QED  BY <2>1, <2>2 DEF NetworkInv, topology, LinksOK, LinksAgree, TakenOnce, Carried
\* Something is sent: the wires change, and what is in the inboxes goes.
<1>8. ASSUME wires' \in Seq(Seq(InFlight(P))), Len(wires') = Len(wires),
             inbox' \in [NodeIds -> SUBSET P], lastId' \in Nat,
             UNCHANGED <<topology, seen, receipts, netTime>>
      PROVE  NetworkInv'
  BY <1>8 DEF NetworkInv, topology, LinksOK, LinksAgree, TakenOnce, Carried
<1>9. ASSUME NEW p \in P PROVE p.hops < PacketTtl => [p EXCEPT !.hops = @ + 1] \in P
  BY <1>9 DEF Packets, NetworkAssumption
<1>10. ASSUME NEW n \in NodeIds, Forward(n) PROVE NetworkInv'
  <2>1. PICK p \in inbox[n] : SendPacket(n, p) /\ inbox' = [inbox EXCEPT ![n] = @ \ {p}]
    BY <1>10 DEF Forward
  <2>2. p \in P /\ p.hops \in Nat
    BY <1>1 DEF Packets
  <2>3. inbox' \in [NodeIds -> SUBSET P]
    BY <1>1, <2>1
  <2>4. UNCHANGED <<topology, seen, lastId, receipts, netTime>>
    BY <1>10 DEF Forward
  <2> HIDE DEF P
  <2>5. wires' \in Seq(Seq(InFlight(P))) /\ Len(wires') = Len(wires)
    BY <1>1, <1>9, <2>1, <2>2, SendingCarries
  <2> QED  BY <1>1, <1>8, <2>3, <2>4, <2>5
<1>11. ASSUME NEW n \in NodeIds, NEW m \in NodeIds \cup {"elsewhere"}, NEW payload \in Payloads
       PROVE  NewPacket(n, m, payload) \in P /\ NewPacket(n, m, payload).hops \in Nat
  BY <1>1 DEF NewPacket, Packets, NetworkAssumption
<1>12. ASSUME NEW n \in NodeIds, NEW m \in NodeIds \cup {"elsewhere"}, NEW payload \in Payloads,
              SendTo(n, m, payload)
       PROVE  NetworkInv'
  <2>1. /\ SendPacket(n, NewPacket(n, m, payload)) /\ lastId' = lastId + 1
        /\ UNCHANGED <<topology, inbox, seen, receipts, netTime>>
    BY <1>12 DEF SendTo
  <2> HIDE DEF P
  <2>2. wires' \in Seq(Seq(InFlight(P))) /\ Len(wires') = Len(wires)
    BY <1>1, <1>9, <1>11, <2>1, SendingCarries
  <2> QED  BY <1>1, <1>8, <2>1, <2>2
<1>13. ASSUME NEW n \in NodeIds, NEW payload \in Payloads, SendToAll(n, payload)
       PROVE  NetworkInv'
  <2> DEFINE copies == [m \in Linked(n) |-> NewPacket(n, m, payload)]
  <2>1. /\ Transmit(n, copies) /\ lastId' = lastId + 1
        /\ UNCHANGED <<topology, inbox, seen, receipts, netTime>>
    BY <1>13 DEF SendToAll
  <2>2. IsFiniteSet(Linked(n))
    BY FS_Subset DEF Linked, NetworkAssumption
  <2>3. DOMAIN copies = Linked(n) /\ \A m \in DOMAIN copies : copies[m] \in P
    <3> HIDE DEF P
    <3> QED  BY <1>11 DEF Linked
  <2> HIDE DEF P, copies
  <2>4. wires' \in Seq(Seq(InFlight(P))) /\ Len(wires') = Len(wires)
    BY <1>1, <2>1, <2>2, <2>3, TransmitCarries
  <2> QED  BY <1>1, <1>8, <2>1, <2>4
<1> HIDE DEF P
<1>14. ASSUME NetworkNext, ~NetTick PROVE NetworkInv'
  <2>1. PICK n \in NodeIds :
         \/ AddToTopology(n) \/ RemoveFromTopology(n) \/ ReceivePackets(n)
         \/ DrainInbox(n) \/ Forward(n)
         \/ \E m \in NodeIds \ {n} : AddLink(n, m)
         \/ \E payload \in Payloads :
              \/ SendToAll(n, payload)
              \/ \E m \in (NodeIds \cup {"elsewhere"}) \ {n} : SendTo(n, m, payload)
    BY <1>14, Zenon DEF NetworkNext
  <2>2. CASE \E m \in NodeIds \ {n} : AddLink(n, m)
    BY <2>2, LinkKeeps
  <2>3. CASE RemoveFromTopology(n)
    BY <2>3, RemovalKeeps
  <2> QED  BY <1>5, <1>6, <1>7, <1>10, <1>12, <1>13, <2>1, <2>2, <2>3
<1> QED  BY <1>3, <1>4, <1>14

(***************************************************************************)
(* For any number of nodes and wires, any latency, bandwidth and loss: two *)
(* neighbours always share one wire, no node takes a packet twice, and     *)
(* none travels further than it may (network.py:293, 368, 436, 455).       *)
(***************************************************************************)
THEOREM DeliveryIsSound == ASSUME NetworkAssumption PROVE NetworkSpec => []SoundDelivery
<1>1. NetworkInv => SoundDelivery
  <2> SUFFICES ASSUME NetworkInv PROVE SoundDelivery
    OBVIOUS
  <2>1. ASSUME NEW n \in NodeIds, NEW i \in 1 .. MaxPackets PROVE receipts[n][i] <= 1
    <3>1. receipts[n][i] \in {0, 1}
      BY DEF NetworkInv, TakenOnce
    <3> QED  BY <3>1
  <2>2. \A n \in NodeIds : \A p \in inbox[n] : p.hops <= PacketTtl
    BY DEF NetworkInv, Carried, Packets
  <2> QED  BY <2>1, <2>2 DEF SoundDelivery, NetworkInv, LinksAgree
<1>2. NetworkInv /\ [NetworkNext]_network => NetworkInv'
  BY NetworkStep
<1> QED  BY <1>1, <1>2, NetworkStarts, PTL DEF NetworkSpec

-----------------------------------------------------------------------------
(* What gossip passes on                                                    *)

Contested(t) == \E x, y \in authors[t] : x # y

\* InFlight of the state store that were written, uncontested ones with the
\* value that W gives them.
Digests(W) ==
  {d \in [age : 0 .. MaxNetTime, value : SUBSET registered] :
     /\ d.age = 0 => d.value = {}
     /\ d.age > 0 => authors[d.age] # {} /\ (Contested(d.age) \/ d.value = W[d.age])}

AuthorsOK ==
  /\ authors \in [1 .. MaxNetTime -> SUBSET NodeIds]
  /\ \A n \in NodeIds : \A t \in 1 .. MaxNetTime : n \in authors[t] => t <= state[n].age

GossipInv ==
  /\ netTime \in 0 .. MaxNetTime /\ lastId \in Nat /\ LinksOK /\ AuthorsOK
  /\ \E W : state \in [NodeIds -> Digests(W)] /\ Carried(Packets(Digests(W)))

LEMMA CarriedByMore ==
  ASSUME NEW D, NEW E, D \in SUBSET E, Carried(Packets(D))
  PROVE  Carried(Packets(E))
<1>1. Packets(D) \in SUBSET Packets(E)
  BY DEF Packets
<1>2. InFlight(Packets(D)) \in SUBSET InFlight(Packets(E))
  BY <1>1 DEF InFlight
<1>3. wires \in Seq(Seq(InFlight(Packets(D)))) /\ inbox \in [NodeIds -> SUBSET Packets(D)]
  BY DEF Carried
<1>4. inbox \in [NodeIds -> SUBSET Packets(E)]
  BY <1>1, <1>3
<1>5. ASSUME NEW S, NEW T, S \in SUBSET T, NEW s \in Seq(S) PROVE s \in Seq(T)
  BY <1>5
<1>6. Seq(InFlight(Packets(D))) \in SUBSET Seq(InFlight(Packets(E)))
  BY <1>2, <1>5
<1>7. wires \in Seq(Seq(InFlight(Packets(E))))
  BY <1>3, <1>5, <1>6
<1> QED  BY <1>4, <1>7 DEF Carried

LEMMA RingStarts == GossipAssumption /\ DemoNetwork => LinksOK /\ wires \in Seq({<< >>})
<1> SUFFICES ASSUME GossipAssumption, DemoNetwork PROVE LinksOK /\ wires \in Seq({<< >>})
  OBVIOUS
<1> DEFINE After(i) == (i % Len(Ring)) + 1
           Via(n, m) == {i \in DOMAIN Ring : {Ring[i], Ring[After(i)]} = {n, m}}
<1>1. Ring \in Seq(NodeIds) /\ Len(Ring) \in Nat /\ DOMAIN Ring = 1 .. Len(Ring)
  BY DEF GossipAssumption
<1>2. wires \in Seq({<< >>}) /\ Len(wires) = Len(Ring)
  BY <1>1 DEF DemoNetwork
<1>3. neighbors = [n \in NodeIds |-> [m \in NodeIds |->
          IF n = m \/ Via(n, m) = {} THEN 0 ELSE CHOOSE i \in Via(n, m) :
                                             \A j \in Via(n, m) : j <= i]]
  BY DEF DemoNetwork
<1>4. ASSUME NEW V \in SUBSET (1 .. Len(Ring)), V # {}
      PROVE  (CHOOSE i \in V : \A j \in V : j <= i) \in 0 .. Len(Ring)
  <2> DEFINE below == {Len(Ring) - i : i \in V}
  <2>1. below \in SUBSET Nat /\ below # {}
    <3>1. \A i \in V : Len(Ring) - i \in Nat
      BY <1>1
    <3> QED  BY <1>4, <3>1
  <2>2. PICK x \in below : \A y \in below : x <= y
    BY <2>1, LeastElement
  <2>3. PICK i \in V : x = Len(Ring) - i
    OBVIOUS
  <2>4. \A j \in V : j <= i
    <3> TAKE j \in V
    <3>1. Len(Ring) - i <= Len(Ring) - j
      BY <2>2, <2>3
    <3> QED  BY <1>1, <3>1
  <2>5. (CHOOSE h \in V : \A j \in V : j <= h) \in V
    BY <2>4
  <2>6. 1 .. Len(Ring) \in SUBSET (0 .. Len(Ring))
    BY <1>1
  <2> QED  BY <2>5, <2>6
<1>5. \A n, m \in NodeIds : Via(n, m) \in SUBSET (1 .. Len(Ring))
  BY <1>1
<1> HIDE DEF Via, After
<1>6. \A n, m \in NodeIds : neighbors[n][m] \in 0 .. Len(Ring)
  <2> TAKE n, m \in NodeIds
  <2>1. CASE Via(n, m) = {} \/ n = m
    BY <1>1, <1>3, <2>1
  <2>2. CASE Via(n, m) # {} /\ n # m
    <3>1. neighbors[n][m] = CHOOSE i \in Via(n, m) : \A j \in Via(n, m) : j <= i
      BY <1>3, <2>2
    <3> QED  BY <1>4, <1>5, <2>2, <3>1
  <2> QED  BY <2>1, <2>2
<1>7. neighbors \in [NodeIds -> [NodeIds -> 0 .. Len(Ring)]]
  BY <1>3, <1>6
<1>8. adjacency \in SUBSET (NodeIds \X NodeIds)
  BY DEF DemoNetwork
<1> QED  BY <1>2, <1>7, <1>8 DEF LinksOK

LEMMA GossipStarts == GossipAssumption /\ DemoNetwork /\ DiscoveryInit => GossipInv
<1> SUFFICES ASSUME GossipAssumption, DemoNetwork, DiscoveryInit PROVE GossipInv
  OBVIOUS
<1>1. LinksOK /\ wires \in Seq({<< >>})
  BY RingStarts
<1>2. netTime \in 0 .. MaxNetTime /\ lastId \in Nat
  BY DEF DemoNetwork, GossipAssumption, NetworkAssumption
<1>3. AuthorsOK
  BY DEF DiscoveryInit, AuthorsOK
<1>4. state \in [NodeIds -> Digests(0)]
  <2>1. [age |-> 0, value |-> {}] \in Digests(0)
    BY DEF Digests, GossipAssumption, NetworkAssumption
  <2> QED  BY <2>1 DEF DiscoveryInit
<1>5. Carried(Packets(Digests(0)))
  <2>1. inbox \in [NodeIds -> SUBSET Packets(Digests(0))]
    BY DEF DemoNetwork
  <2>2. << >> \in Seq(InFlight(Packets(Digests(0))))
    OBVIOUS
  <2>3. wires \in Seq(Seq(InFlight(Packets(Digests(0)))))
    <3>1. {<< >>} \in SUBSET Seq(InFlight(Packets(Digests(0))))
      BY <2>2
    <3>2. ASSUME NEW S, NEW T, S \in SUBSET T, NEW s \in Seq(S) PROVE s \in Seq(T)
      BY <3>2
    <3> QED  BY <1>1, <3>1, <3>2
  <2> QED  BY <2>1, <2>3 DEF Carried
<1> QED  BY <1>1, <1>2, <1>3, <1>4, <1>5 DEF GossipInv

\* A write: of this tick it is the first, or others wrote too.
LEMMA WriteKeepsAges ==
  ASSUME GossipAssumption, GossipInv, NEW n \in NodeIds, netTime > 0,
         NEW value, value \in SUBSET registered', registered \in SUBSET registered',
         Set(n, value), UNCHANGED network
  PROVE  GossipInv'
<1>1. PICK W : state \in [NodeIds -> Digests(W)] /\ Carried(Packets(Digests(W)))
  BY DEF GossipInv
<1>2. wires' = wires /\ inbox' = inbox /\ netTime' = netTime /\ lastId' = lastId /\ LinksOK'
  BY DEF network, traffic, topology, GossipInv, LinksOK
<1>3. netTime \in 0 .. MaxNetTime /\ netTime \in 1 .. MaxNetTime /\ lastId \in Nat
      /\ MaxNetTime \in Nat
  BY DEF GossipInv, GossipAssumption, NetworkAssumption
<1>4. authors \in [1 .. MaxNetTime -> SUBSET NodeIds]
      /\ \A m \in NodeIds : \A t \in 1 .. MaxNetTime : m \in authors[t] => t <= state[m].age
  BY DEF GossipInv, AuthorsOK
<1>5. \A m \in NodeIds : state[m].age \in 0 .. MaxNetTime
  BY <1>1 DEF Digests
<1>6. SUFFICES /\ AuthorsOK'
               /\ \E V : /\ state' \in [NodeIds -> Digests(V)']
                         /\ Digests(W) \in SUBSET Digests(V)'
  <2>1. PICK V : /\ state' \in [NodeIds -> Digests(V)']
                 /\ Digests(W) \in SUBSET Digests(V)'
    BY <1>6
  <2>2. \A E : Digests(W) \in SUBSET E => Carried(Packets(E))
    BY <1>1, CarriedByMore
  <2>3. \A E : Digests(W) \in SUBSET E =>
          wires \in Seq(Seq(InFlight(Packets(E)))) /\ inbox \in [NodeIds -> SUBSET Packets(E)]
    BY <2>2 DEF Carried
  <2>4. /\ wires' \in Seq(Seq(InFlight(Packets(Digests(V)'))))
        /\ inbox' \in [NodeIds -> SUBSET Packets(Digests(V)')]
    BY <1>2, <2>1, <2>3
  <2>5. Carried(Packets(Digests(V)))'
    BY <2>4 DEF Carried, Packets, InFlight
  <2> QED  BY <1>2, <1>3, <1>6, <2>1, <2>5 DEF GossipInv
<1>7. CASE ~Newer(netTime, n)
  <2>1. state' = state /\ authors' = authors
    BY <1>7 DEF Set
  <2>2. Digests(W) \in SUBSET Digests(W)'
    BY <2>1 DEF Digests, Contested
  <2>3. AuthorsOK'
    BY <2>1 DEF AuthorsOK, GossipInv
  <2>4. state' \in [NodeIds -> Digests(W)']
    BY <1>1, <2>1, <2>2
  <2> QED  BY <2>2, <2>3, <2>4
<1>8. CASE Newer(netTime, n)
  <2> SUFFICES ASSUME NEW t, t = netTime,
                      NEW V, V = [s \in 1 .. MaxNetTime |->
                                   IF s = t /\ authors[t] = {} THEN value ELSE W[s]]
               PROVE  /\ AuthorsOK'
                      /\ \E U : /\ state' \in [NodeIds -> Digests(U)']
                                /\ Digests(W) \in SUBSET Digests(U)'
    OBVIOUS
  <2>1. /\ state' = [state EXCEPT ![n] = [age |-> t, value |-> value]]
        /\ authors' = [authors EXCEPT ![t] = @ \cup {n}] /\ t > state[n].age
    BY <1>8 DEF Set, Newer
  <2>2. n \notin authors[t]
    BY <1>3, <1>4, <1>5, <2>1
  <2>3. /\ authors'[t] = authors[t] \cup {n}
        /\ \A s \in (1 .. MaxNetTime) \ {t} : authors'[s] = authors[s]
        /\ authors' \in [1 .. MaxNetTime -> SUBSET NodeIds]
    BY <1>3, <1>4, <2>1
  <2>4. authors[t] # {} => Contested(t)'
    BY <2>2, <2>3 DEF Contested
  <2>5. \A s \in (1 .. MaxNetTime) \ {t} : Contested(s)' = Contested(s)
    BY <2>3 DEF Contested
  <2>6. Digests(W) \in SUBSET Digests(V)'
    <3> SUFFICES ASSUME NEW d \in Digests(W) PROVE d \in Digests(V)'
      OBVIOUS
    <3>1. /\ d \in [age : 0 .. MaxNetTime, value : SUBSET registered']
          /\ d.age = 0 => d.value = {}
          /\ d.age > 0 => authors[d.age] # {} /\ (Contested(d.age) \/ d.value = W[d.age])
      BY DEF Digests
    <3>2. CASE d.age = t
      BY <1>3, <2>3, <2>4, <3>1, <3>2 DEF Digests
    <3>3. CASE d.age > 0 /\ d.age # t
      <4>1. d.age \in (1 .. MaxNetTime) \ {t}
        BY <3>1, <3>3
      <4>2. V[d.age] = W[d.age]
        BY <4>1
      <4> QED  BY <2>3, <2>5, <3>1, <3>3, <4>1, <4>2 DEF Digests
    <3>4. CASE d.age = 0
      BY <3>1, <3>4 DEF Digests
    <3> QED  BY <3>1, <3>2, <3>3, <3>4
  <2>7. [age |-> t, value |-> value] \in Digests(V)'
    <3>1. Contested(t)' \/ value = V[t]
      BY <1>3, <2>4
    <3> QED  BY <1>3, <2>3, <3>1 DEF Digests
  <2>8. AuthorsOK'
    <3> SUFFICES ASSUME NEW m \in NodeIds, NEW s \in 1 .. MaxNetTime, m \in authors'[s]
                 PROVE  s <= state'[m].age
      BY <2>3 DEF AuthorsOK
    <3>1. CASE m # n
      BY <1>1, <1>4, <2>1, <2>3, <3>1
    <3>2. CASE m = n
      <4>1. state'[n].age = t
        BY <1>1, <2>1
      <4>2. s = t \/ s <= state[n].age
        BY <1>4, <2>3, <3>2
      <4> QED  BY <1>3, <1>5, <2>1, <3>2, <4>1, <4>2
    <3> QED  BY <3>1, <3>2
  <2>9. state' \in [NodeIds -> Digests(V)']
    BY <1>1, <2>1, <2>6, <2>7
  <2> QED  BY <2>6, <2>8, <2>9
<1> QED  BY <1>7, <1>8

LEMMA MergeKeepsAges ==
  ASSUME GossipInv, NEW n \in NodeIds, MergeDigest(n)
  PROVE  GossipInv'
<1>1. PICK W : state \in [NodeIds -> Digests(W)] /\ Carried(Packets(Digests(W)))
  BY DEF GossipInv
<1>2. PICK p \in inbox[n] :
        /\ state' = [state EXCEPT ![n] = IF p.payload.age > @.age THEN p.payload ELSE @]
        /\ inbox' = [inbox EXCEPT ![n] = @ \ {p}]
  BY DEF MergeDigest
<1>3. UNCHANGED <<topology, wires, lastId, netTime, registered, authors>>
  BY DEF MergeDigest
<1>4. p.payload \in Digests(W)
  BY <1>1 DEF Carried, Packets
<1>5. Digests(W)' = Digests(W)
  BY <1>3 DEF Digests, Contested
<1>6. state' \in [NodeIds -> Digests(W)]
  BY <1>1, <1>2, <1>4
<1>7. \A m \in NodeIds : state'[m].age \in Nat /\ state[m].age \in Nat /\ state[m].age <= state'[m].age
  <2>1. \A m \in NodeIds : state'[m].age \in Nat /\ state[m].age \in Nat
    BY <1>1, <1>6 DEF Digests
  <2>2. \A m \in NodeIds : state'[m].age = state[m].age \/ state'[m].age > state[m].age
    BY <1>1, <1>2
  <2> QED  BY <2>1, <2>2
<1>8. AuthorsOK'
  <2> SUFFICES ASSUME NEW m \in NodeIds, NEW t \in 1 .. MaxNetTime, m \in authors[t]
               PROVE  t <= state'[m].age
    BY <1>3 DEF AuthorsOK, GossipInv
  <2>1. t <= state[m].age
    BY DEF AuthorsOK, GossipInv
  <2> QED  BY <1>7, <2>1
<1>9. inbox' \in [NodeIds -> SUBSET Packets(Digests(W))]
  BY <1>1, <1>2 DEF Carried
<1>10. Carried(Packets(Digests(W)))'
  BY <1>1, <1>3, <1>5, <1>9 DEF Carried, Packets, InFlight
<1>11. LinksOK'
  BY <1>3 DEF LinksOK, topology, GossipInv
<1> QED  BY <1>3, <1>5, <1>6, <1>8, <1>10, <1>11 DEF GossipInv

LEMMA GossipTickKeepsAges ==
  ASSUME GossipAssumption, GossipInv, NEW n \in NodeIds, GossipTick(n)
  PROVE  GossipInv'
<1>1. PICK W : state \in [NodeIds -> Digests(W)] /\ Carried(Packets(Digests(W)))
  BY DEF GossipInv
<1> DEFINE P == Packets(Digests(W))
           order(targets) == SetToSeq(targets)
           id(targets, m) == lastId + CHOOSE i \in DOMAIN order(targets) : order(targets)[i] = m
           copies(targets) == [m \in targets |->
              [NewPacket(n, m, state[n]) EXCEPT !.id = id(targets, m)]]
<1>2. PICK targets \in Selections({m \in NodeIds : <<n, m>> \in adjacency}) :
        lastId' = lastId + Len(order(targets)) /\ Transmit(n, copies(targets))
  BY DEF GossipTick
<1>3. UNCHANGED <<topology, inbox, seen, receipts, netTime, state, local, registered, authors>>
  BY DEF GossipTick
<1>4. targets \in SUBSET NodeIds /\ IsFiniteSet(targets)
  <2>1. targets \in SUBSET NodeIds
    BY DEF Selections
  <2> QED  BY <2>1, FS_Subset DEF GossipAssumption, NetworkAssumption
<1>5. /\ order(targets) \in Seq(targets) /\ Len(order(targets)) \in Nat
      /\ \A x \in targets : \E i \in DOMAIN order(targets) : order(targets)[i] = x
  BY <1>4, ListingFacts
<1>6. ASSUME NEW m \in targets PROVE id(targets, m) \in Nat
  <2> DEFINE i == CHOOSE i \in DOMAIN order(targets) : order(targets)[i] = m
  <2>1. i \in DOMAIN order(targets)
    BY <1>5
  <2>2. DOMAIN order(targets) \in SUBSET Nat
    <3> HIDE DEF order
    <3> QED  BY <1>5
  <2> HIDE DEF i
  <2>3. lastId + i \in Nat
    BY <2>1, <2>2 DEF GossipInv
  <2> QED  BY <2>3 DEF i
<1>7. ASSUME NEW m \in targets PROVE copies(targets)[m] \in P
  <2> HIDE DEF id
  <2>1. copies(targets)[m] =
          [id |-> id(targets, m), from |-> n, to |-> m, hops |-> 0, payload |-> state[n]]
    BY DEF NewPacket
  <2>2. state[n] \in Digests(W) /\ m \in NodeIds /\ 0 \in 0 .. PacketTtl
    BY <1>1, <1>4 DEF GossipAssumption, NetworkAssumption
  <2> HIDE DEF copies
  <2> QED  BY <1>6, <2>1, <2>2 DEF Packets
<1>8. wires' \in Seq(Seq(InFlight(P))) /\ Len(wires') = Len(wires)
  <2>1. netTime \in Nat /\ wires \in Seq(Seq(InFlight(P))) /\ NetworkAssumption
    BY <1>1 DEF GossipInv, Carried, GossipAssumption
  <2>2. DOMAIN copies(targets) = targets
    OBVIOUS
  <2> HIDE DEF copies, P
  <2> QED  BY <1>2, <1>4, <1>7, <2>1, <2>2, TransmitCarries
<1> HIDE DEF order
<1>9. LinksOK' /\ AuthorsOK' /\ lastId' \in Nat /\ netTime' \in 0 .. MaxNetTime
  BY <1>2, <1>3, <1>5, <1>8 DEF GossipInv, LinksOK, AuthorsOK, topology
<1>10. Digests(W)' = Digests(W)
  BY <1>3 DEF Digests, Contested
<1>11. Carried(P)'
  BY <1>1, <1>3, <1>8, <1>10 DEF Carried, Packets, InFlight
<1> QED  BY <1>1, <1>3, <1>9, <1>10, <1>11 DEF GossipInv

LEMMA GossipStep ==
  ASSUME GossipAssumption, GossipInv, [GossipNext]_<<network, discovery>>
  PROVE  GossipInv'
<1>1. PICK W : state \in [NodeIds -> Digests(W)] /\ Carried(Packets(Digests(W)))
  BY DEF GossipInv
<1>2. CASE UNCHANGED <<topology, traffic, discovery>> /\ netTime' \in 0 .. MaxNetTime
  <2>1. LinksOK' /\ AuthorsOK' /\ lastId' \in Nat /\ Digests(W)' = Digests(W)
    BY <1>2 DEF GossipInv, LinksOK, AuthorsOK, topology, traffic, discovery, Digests, Contested
  <2>2. Carried(Packets(Digests(W)))'
    BY <1>1, <1>2, <2>1 DEF Carried, Packets, InFlight, traffic
  <2>3. state' = state
    BY <1>2 DEF discovery
  <2> QED  BY <1>1, <1>2, <2>1, <2>2, <2>3 DEF GossipInv
<1>3. CASE UNCHANGED <<network, discovery>>
  BY <1>2, <1>3 DEF network, GossipInv
<1>4. CASE NetTick /\ UNCHANGED discovery
  <2>1. netTime' \in 0 .. MaxNetTime
    BY <1>4 DEF NetTick, GossipInv, GossipAssumption, NetworkAssumption
  <2> QED  BY <1>2, <1>4, <2>1 DEF NetTick
<1>5. ASSUME NEW n \in NodeIds, ReceivePackets(n), UNCHANGED discovery PROVE GossipInv'
  <2>1. Digests(W)' = Digests(W)
    BY <1>5 DEF discovery, Digests, Contested
  <2> DEFINE P == Packets(Digests(W))
  <2>2. Carried(P)
    BY <1>1
  <2>3. wires' \in Seq(Seq(InFlight(P))) /\ inbox' \in [NodeIds -> SUBSET P]
        /\ Len(wires') = Len(wires)
    <3> SUFFICES ASSUME NEW Q, Q = P
                 PROVE  /\ wires' \in Seq(Seq(InFlight(Q))) /\ inbox' \in [NodeIds -> SUBSET Q]
                        /\ Len(wires') = Len(wires)
      OBVIOUS
    <3>1. Carried(Q)
      BY <2>2
    <3>2. Carried(Q)' /\ Len(wires') = Len(wires)
      BY <1>5, <3>1, ReceivingCarries DEF GossipInv
    <3> QED  BY <3>2 DEF Carried, InFlight
  <2>4. UNCHANGED <<topology, lastId, netTime>>
    BY <1>5 DEF ReceivePackets
  <2>5. LinksOK' /\ AuthorsOK' /\ lastId' \in Nat /\ netTime' \in 0 .. MaxNetTime
    BY <1>5, <2>3, <2>4 DEF GossipInv, LinksOK, AuthorsOK, topology, discovery
  <2>6. Carried(P)'
    BY <2>1, <2>3 DEF Carried, Packets, InFlight
  <2>7. state' = state
    BY <1>5 DEF discovery
  <2> QED  BY <1>1, <2>1, <2>5, <2>6, <2>7 DEF GossipInv
<1>6. ASSUME NEW n \in NodeIds, NEW x \in Providers, Register(n, x) PROVE GossipInv'
  <2>1. state[n].value \in SUBSET registered
    BY <1>1 DEF Digests
  <2>2. registered' = registered \cup {<<n, x>>}
    BY <1>6 DEF Register
  <2>3. Set(n, state[n].value \cup {<<n, x>>}) /\ netTime > 0 /\ UNCHANGED network
    BY <1>6 DEF Register
  <2> QED  BY <2>1, <2>2, <2>3, WriteKeepsAges
<1>7. ASSUME NEW n \in NodeIds, NEW x \in Providers, Deregister(n, x) PROVE GossipInv'
  <2>1. state[n].value \in SUBSET registered
    BY <1>1 DEF Digests
  <2>2. registered' = registered
    BY <1>7 DEF Deregister
  <2>3. Set(n, state[n].value \ {<<n, x>>}) /\ netTime > 0 /\ UNCHANGED network
    BY <1>7 DEF Deregister
  <2> QED  BY <2>1, <2>2, <2>3, WriteKeepsAges
<1> QED
  BY <1>3, <1>4, <1>5, <1>6, <1>7, MergeKeepsAges, GossipTickKeepsAges DEF GossipNext

(***************************************************************************)
(* For any ring of nodes, any fanout, interval and loss: two nodes differ  *)
(* on the key at one age only if several wrote it in that tick, and what   *)
(* is known of a provider was registered (network.py:574-606).             *)
(***************************************************************************)
THEOREM AgesIdentify == ASSUME GossipAssumption PROVE GossipSpec => []AgeIdentifies
<1>1. GossipInv => AgeIdentifies
  <2> SUFFICES ASSUME GossipInv PROVE AgeIdentifies
    OBVIOUS
  <2>1. PICK W : state \in [NodeIds -> Digests(W)]
    BY DEF GossipInv
  <2>2. \A n \in NodeIds : state[n].value \subseteq registered
    BY <2>1 DEF Digests
  <2>3. ASSUME NEW n \in NodeIds, NEW m \in NodeIds,
               state[n].age = state[m].age, state[n].value # state[m].value
        PROVE  Cardinality(authors[state[n].age]) > 1
    <3> DEFINE t == state[n].age
    <3>1. t \in 1 .. MaxNetTime /\ Contested(t)
      <4>1. state[n] \in Digests(W) /\ state[m] \in Digests(W)
        BY <2>1
      <4> QED  BY <2>3, <4>1 DEF Digests
    <3> HIDE DEF t
    <3>2. IsFiniteSet(authors[t])
      BY <3>1, FS_Subset DEF GossipInv, AuthorsOK, GossipAssumption, NetworkAssumption
    <3>3. Cardinality(authors[t]) \in Nat /\ authors[t] # {} /\ ~ \E x : authors[t] = {x}
      BY <3>1, <3>2, FS_CardinalityType DEF Contested
    <3>4. Cardinality(authors[t]) # 0 /\ Cardinality(authors[t]) # 1
      BY <3>2, <3>3, FS_EmptySet, FS_Singleton
    <3> QED  BY <3>3, <3>4 DEF t
  <2> QED  BY <2>2, <2>3 DEF AgeIdentifies
<1>2. GossipInv /\ [GossipNext]_<<network, discovery>> => GossipInv'
  BY GossipStep
<1> QED  BY <1>1, <1>2, GossipStarts, PTL DEF GossipSpec
=============================================================================
