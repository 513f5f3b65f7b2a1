--------------------------- MODULE PropertyChecker ---------------------------
(***************************************************************************)
(* PropertyChecker of src/battousai/contracts.py, with one property of     *)
(* each operator over the predicates p and q of one agent.  check_all is   *)
(* called at increasing ticks, not necessarily at each; a predicate may    *)
(* raise.                                                                  *)
(***************************************************************************)
EXTENDS Naturals, Sequences

CONSTANTS
  WithinTicks,  \* within_ticks of the "eventually" property
  MaxCheckTick  \* bound on ticks

PropertyCheckerAssumption == WithinTicks \in Nat /\ MaxCheckTick \in Nat

Truths == {"true", "false", "raises"}
Properties == {"always", "never", "eventually", "until"}

VARIABLES
  seen,        \* history: tick, p and q of each check since registration
  startTick,   \* start_tick of "eventually", 0 for None
  satisfied,   \* satisfied of "eventually"
  bSatisfied,  \* b_satisfied of "until"
  violations   \* _violations

checker == <<seen, startTick, satisfied, bSatisfied, violations>>

LastTick == IF seen = << >> THEN 0 ELSE seen[Len(seen)].tick

\* always(), never(), eventually() and until().
RegisterProperties ==
  /\ seen' = << >>
  /\ startTick' = 0
  /\ satisfied' = FALSE
  /\ bSatisfied' = FALSE
  /\ violations' = [n \in Properties |-> {}]

\* Mutant of Elapsed: the window starts anew at each check.
ElapsedSinceLast(tick) == IF seen = << >> THEN 0 ELSE tick - LastTick

Elapsed(tick) == IF startTick = 0 THEN 0 ELSE tick - startTick

\* _evaluate_property: the properties that fail.  What the latches have
\* decided is not evaluated again.
Failing(tick, p, q) ==
  {n \in Properties :
     \/ n = "always" /\ p # "true"
     \/ n = "never" /\ p # "false"
     \/ /\ n = "eventually" /\ ~satisfied
        /\ p # "true"
        /\ p = "false" => Elapsed(tick) > WithinTicks
     \/ /\ n = "until" /\ ~bSatisfied
        /\ q # "true"
        /\ q = "false" => p # "true"}

CheckProperties(tick, p, q) ==
  /\ seen' = Append(seen, [tick |-> tick, p |-> p, q |-> q])
  /\ startTick' = IF startTick = 0 /\ ~satisfied THEN tick ELSE startTick
  /\ satisfied' = (satisfied \/ p = "true")
  /\ bSatisfied' = (bSatisfied \/ q = "true")
  /\ violations' = [n \in Properties |->
                      IF n \in Failing(tick, p, q) THEN violations[n] \cup {tick}
                      ELSE violations[n]]

CheckerInit ==
  /\ seen = << >>
  /\ startTick = 0 /\ satisfied = FALSE /\ bSatisfied = FALSE
  /\ violations = [n \in Properties |-> {}]

CheckerNext ==
  \/ RegisterProperties
  \/ \E tick \in LastTick + 1 .. MaxCheckTick, p, q \in Truths : CheckProperties(tick, p, q)

CheckerSpec == CheckerInit /\ [][CheckerNext]_checker

-----------------------------------------------------------------------------
\* Whether p, or q, held at one of the first i checks.
Held(i, x) == \E j \in 1 .. i : seen[j][x] = "true"

(***************************************************************************)
(* The verdicts, kept check by check in latches, are those of the temporal *)
(* operators over the whole history.  A predicate that raises refutes what *)
(* is not decided yet.  A first success in the check that ends the window  *)
(* still satisfies "eventually", however late that check is: the window of *)
(* the docs ends earlier.                                                  *)
(***************************************************************************)
VerdictsAgree ==
  LET Ticks(bad) == {seen[i].tick : i \in bad} IN
    /\ violations["always"] = Ticks({i \in DOMAIN seen : seen[i].p # "true"})
    /\ violations["never"] = Ticks({i \in DOMAIN seen : seen[i].p # "false"})
    /\ violations["eventually"] =
         Ticks({i \in DOMAIN seen :
           /\ ~Held(i, "p")
           /\ seen[i].p = "false" => seen[i].tick - seen[1].tick > WithinTicks})
    /\ violations["until"] =
         Ticks({i \in DOMAIN seen :
           /\ ~Held(i, "q")
           /\ seen[i].q = "false" => seen[i].p # "true"})
=============================================================================
