----------------------------- MODULE Supervisor -----------------------------
(***************************************************************************)
(* Supervision trees (src/battousai/supervisor.py): supervisors spawn the  *)
(* children their specs describe, look once a tick which of them are gone, *)
(* and restart by strategy or give up.                                     *)
(*                                                                         *)
(* The kernel calls think() of one agent after the other, so one call is   *)
(* one step; agents may be killed between any two of them.  Agents that    *)
(* are not supervisors have no state here, and their hooks make no calls.  *)
(*                                                                         *)
(* An agent's id is the name of its spec and a number the kernel has not   *)
(* used; a number that no live agent has and no live supervisor remembers  *)
(* is as good as unused, so the model may take it again.                   *)
(***************************************************************************)
EXTENDS Naturals, FiniteSets, Sequences, Functions

CONSTANTS
  Specs,       \* the specs of the tree, by name
  Root,        \* the supervisor the host spawns
  Children,    \* _child_specs of a supervisor; <<>> for the other agents
  Type,        \* ChildSpec.restart_type
  MaxRestarts, \* _max_restarts of a supervisor
  Window,      \* _window_ticks of the supervisors
  Numbers,     \* the numbers in agent ids
  MaxExits,    \* bound: how often agents are killed from outside
  None         \* Python's None

Strategies == {"ONE_FOR_ONE", "ONE_FOR_ALL", "REST_FOR_ONE"}
Types == {"PERMANENT", "TRANSIENT", "TEMPORARY"}

ChildrenOf(n) == {Children[n][k] : k \in DOMAIN Children[n]}

ASSUME SpecsAssumption ==
  /\ IsFiniteSet(Specs) /\ Root \in Specs /\ Children \in [Specs -> Seq(Specs)]
  /\ \A n \in Specs : Root \notin ChildrenOf(n)
  /\ \A m, n \in Specs : \A j \in DOMAIN Children[m], k \in DOMAIN Children[n] :
       Children[m][j] = Children[n][k] => m = n /\ j = k
  /\ Type \in [Specs -> Types]
ASSUME TreeAssumption ==
  \E depth \in [Specs -> 0 .. Cardinality(Specs)] :
    \A n \in Specs : \A c \in ChildrenOf(n) : depth[n] < depth[c]
ASSUME LimitsAssumption ==
  MaxRestarts \in [Specs -> Nat] /\ Window \in Nat /\ MaxExits \in Nat
ASSUME NumbersAssumption == Numbers \subseteq Nat /\ 0 \in Numbers /\ None \notin Nat

VARIABLES
  strategy,  \* _strategy, by spec
  live,      \* Kernel._agents
  childIds,  \* _child_ids of a supervisor: the number of the child, or None
  spawned,   \* the supervisors whose _spawned is set
  restarts,  \* _restart_log: how many restarts there were so many ticks ago
  todo,      \* the supervisors whose turn in this tick is still to come
  exits,     \* how many agents were killed from outside
  failed     \* history: did a spawn fail?

vars == <<strategy, live, childIds, spawned, restarts, todo, exits, failed>>

Ids == Specs \X Numbers
Ages == 0 .. Window
Supervisors == {i \in live : Children[i[1]] # <<>>}

NoChildren == [c \in Specs |-> None]
NoRestarts == [a \in Ages |-> 0]

TypeOK ==
  /\ strategy \in [Specs -> Strategies]
  /\ live \subseteq Ids
  /\ childIds \in [Ids -> [Specs -> Numbers \cup {None}]]
  /\ spawned \subseteq live
  /\ restarts \in [Ids -> [Ages -> Nat]]
  /\ todo \subseteq live
  /\ exits \in 0 .. MaxExits
  /\ failed \in BOOLEAN

\* The host has called build_supervision_tree.
Init ==
  /\ strategy \in [Specs -> Strategies]
  /\ \A n \in Specs : Children[n] = <<>> => strategy[n] = "ONE_FOR_ONE"
  /\ live = {<<Root, 0>>}
  /\ childIds = [i \in Ids |-> NoChildren]
  /\ spawned = {}
  /\ restarts = [i \in Ids |-> NoRestarts]
  /\ todo = {}
  /\ exits = 0
  /\ failed = FALSE

-----------------------------------------------------------------------------
\* The agents a supervisor remembers, dead or alive.
Remembered(s, names) == {<<c, childIds[s][c]>> : c \in {n \in names : childIds[s][n] # None}}

Up(s, c) == childIds[s][c] # None /\ <<c, childIds[s][c]>> \in live

Down(s) == {c \in ChildrenOf(s[1]) : childIds[s][c] # None /\ ~Up(s, c)}

CrashedPermanent(s) == {c \in Down(s) : Type[c] = "PERMANENT"}

\* think(): the children that are gone and are restarted.  Nothing ever marks an
\* exit as a normal one, so TRANSIENT children are among them.
Crashed(s) == {c \in Down(s) : Type[c] # "TEMPORARY"}

Place(s, c) == CHOOSE k \in DOMAIN Children[s[1]] : Children[s[1]][k] = c

ToRestartEveryone(s) ==
  IF strategy[s[1]] = "ONE_FOR_ONE" THEN Crashed(s) ELSE ChildrenOf(s[1])

\* The children _apply_strategy restarts.
ToRestart(s) ==
  {c \in ChildrenOf(s[1]) :
     \/ c \in Crashed(s)
     \/ strategy[s[1]] = "ONE_FOR_ALL"
     \/ strategy[s[1]] = "REST_FOR_ONE" /\ \E b \in Crashed(s) : Place(s, b) < Place(s, c)}

OnlyThemselves(T) == T \cap live

\* The agents of T that live and those that go with them: the on_terminate of a
\* supervisor kills the children it remembers, and that of each theirs.
DownTo(T) ==
  {i \in live : \A S \in SUBSET live :
     /\ T \cap live \subseteq S
     /\ \A s \in S : Remembered(s, Specs) \cap live \subseteq S
     => i \in S}

\* The number of a new agent is not in use.
Unused(c) == {n \in Numbers : <<c, n>> \notin live /\ \A s \in live : childIds[s][c] # n}

\* The restarts that still count, restarts_in_window.
Recent(s) == FoldFunction(+, 0, restarts[s])

\* _restart_child finds the limit reached while it restarts one child after the
\* other, those in Broken without success.
Exceeded(s, Broken) ==
  \E c \in ToRestart(s) :
     Recent(s) + Cardinality({b \in ToRestart(s) \ Broken : Place(s, b) < Place(s, c)})
       >= MaxRestarts[s[1]]

-----------------------------------------------------------------------------
\* The state after the agents of Gone are gone and the supervisor s, if it is
\* still there, has the children and the restarts given.
Replace(Gone, New, s, newIds, newRestarts) ==
  /\ live' = (live \ Gone) \cup New
  /\ childIds' = [i \in Ids |-> IF i \in Gone THEN NoChildren
                                ELSE IF i = s THEN newIds ELSE childIds[i]]
  /\ restarts' = [i \in Ids |-> IF i \in Gone THEN NoRestarts
                                ELSE IF i = s THEN newRestarts ELSE restarts[i]]

\* The host, or an agent, kills an agent.
Exit(i) ==
  /\ i \in live /\ exits < MaxExits
  /\ Replace(DownTo({i}), {}, i, NoChildren, NoRestarts)
  /\ spawned' = spawned \ DownTo({i})
  /\ todo' = todo \ DownTo({i})
  /\ exits' = exits + 1
  /\ UNCHANGED <<strategy, failed>>

TickBegin ==
  /\ todo = {}
  /\ todo' = Supervisors
  /\ restarts' = [i \in Ids |-> [a \in Ages |-> IF a = 0 THEN 0 ELSE restarts[i][a - 1]]]
  /\ UNCHANGED <<strategy, live, childIds, spawned, exits, failed>>

\* _spawn_all_children, or the restarts of _apply_strategy: the children in
\* names are spawned, those in Broken fail.
SpawnChildren(s, names, Broken, Gone, kept, newRestarts) ==
  /\ failed' = (failed \/ Broken # {})
  /\ \E number \in [names \ Broken -> Numbers] :
       /\ \A c \in names \ Broken : number[c] \in Unused(c)
       /\ Replace(Gone, {<<c, number[c]>> : c \in names \ Broken}, s,
            [c \in Specs |-> IF c \in names \ Broken THEN number[c]
                             ELSE IF c \in names THEN None ELSE kept[c]],
            newRestarts)

FirstThink(s) ==
  /\ s \in todo \ spawned
  /\ \E Broken \in SUBSET ChildrenOf(s[1]) :
       SpawnChildren(s, ChildrenOf(s[1]), Broken, {}, NoChildren, restarts[s])
  /\ spawned' = spawned \cup {s}
  /\ todo' = todo \ {s}
  /\ UNCHANGED <<strategy, exits>>

\* TEMPORARY children that are gone are forgotten.
Kept(s) == [c \in Specs |-> IF c \in Down(s) THEN None ELSE childIds[s][c]]

Watch(s) ==
  /\ s \in todo \cap spawned /\ Crashed(s) = {}
  /\ childIds' = [childIds EXCEPT ![s] = Kept(s)]
  /\ todo' = todo \ {s}
  /\ UNCHANGED <<strategy, live, spawned, restarts, exits, failed>>

Restart(s) ==
  /\ s \in todo \cap spawned /\ Crashed(s) # {}
  /\ \E Broken \in SUBSET ToRestart(s) :
       LET Gone == DownTo(Remembered(s, ToRestart(s)))
           count == Cardinality(ToRestart(s) \ Broken)
       IN /\ ~Exceeded(s, Broken)
          /\ SpawnChildren(s, ToRestart(s), Broken, Gone, Kept(s),
                           [restarts[s] EXCEPT ![0] = @ + count])
          /\ spawned' = spawned \ Gone
          /\ todo' = todo \ ({s} \cup Gone)
  /\ UNCHANGED <<strategy, exits>>

\* _do_terminate: the supervisor goes with all its children, those just
\* restarted among them.
Escalate(s) ==
  /\ s \in todo \cap spawned /\ Crashed(s) # {}
  /\ \E Broken \in SUBSET ToRestart(s) :
       Exceeded(s, Broken) /\ failed' = (failed \/ Broken # {})
  /\ Replace(DownTo({s}), {}, s, NoChildren, NoRestarts)
  /\ spawned' = spawned \ DownTo({s})
  /\ todo' = todo \ DownTo({s})
  /\ UNCHANGED <<strategy, exits>>

Think(s) == FirstThink(s) \/ Watch(s) \/ Restart(s) \/ Escalate(s)

Next ==
  \/ TickBegin
  \/ \E s \in Ids : Think(s) \/ Exit(s)

Spec == Init /\ [][Next]_vars

\* The kernel keeps ticking and calls every supervisor's think().
Fairness == WF_vars(TickBegin \/ \E s \in Ids : Think(s))

-----------------------------------------------------------------------------
(***************************************************************************)
(* Every agent but the root has a parent: exactly one live supervisor      *)
(* remembers it.  A supervisor that is killed, restarted by its own parent *)
(* or out of restarts takes its whole subtree with it, and one that        *)
(* restarts a child has first got rid of the one before.                   *)
(***************************************************************************)
NoOrphans ==
  \A i \in live :
    \/ i[1] = Root /\ \A s \in live : i \notin Remembered(s, Specs)
    \/ \E s \in live : /\ i \in Remembered(s, ChildrenOf(s[1]))
                       /\ \A r \in live : i \in Remembered(r, Specs) => r = s

\* The tree stands: supervisors have their children, except TEMPORARY ones and
\* those whose spawn failed.
TreeStands ==
  \A s \in Supervisors :
    /\ s \in spawned
    /\ \A c \in ChildrenOf(s[1]) :
         \/ Up(s, c)
         \/ childIds[s][c] = None /\ (Type[c] = "TEMPORARY" \/ failed)

(***************************************************************************)
(* Once nobody is killed from outside any more, the tree stands for good,  *)
(* or all of it is gone since the root gave up: restarts and escalations   *)
(* come to an end.  A child whose spawn failed is never tried again        *)
(* (supervisor.py:128: an id of None is skipped), which TreeStands allows. *)
(***************************************************************************)
TreeRecovers == <>[]TreeStands

(***************************************************************************)
(* A supervisor that goes on replaces exactly the children its strategy    *)
(* names: ONE_FOR_ONE touches no child that is up, ONE_FOR_ALL leaves none *)
(* of the old ones, REST_FOR_ONE those before the first crashed one only.  *)
(***************************************************************************)
StrategyKept ==
  [][\A s \in spawned \cap spawned' : \A c \in ChildrenOf(s[1]) :
       Up(s, c) /\ s \in todo \ todo' =>
         ((childIds'[s][c] # childIds[s][c])
            <=> /\ Crashed(s) # {}
                /\ CASE strategy[s[1]] = "ONE_FOR_ONE" -> FALSE
                     [] strategy[s[1]] = "ONE_FOR_ALL" -> TRUE
                     [] OTHER -> \E b \in Crashed(s) : Place(s, b) < Place(s, c))]_vars
=============================================================================
