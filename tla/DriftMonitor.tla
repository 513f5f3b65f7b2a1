----------------------------- MODULE DriftMonitor -----------------------------
(***************************************************************************)
(* DriftMonitor and DriftDetector of src/battousai/drift.py: threads that  *)
(* feed events, run the checks these make due, check all agents, rebuild   *)
(* baselines, and register and unregister agents.  Each has a lock; a call *)
(* takes and releases them several times, and one action is one section.   *)
(*                                                                         *)
(* What score the recent events get against the baseline is chosen anew    *)
(* each time: the histograms, rates and z-scores are left out.             *)
(***************************************************************************)
EXTENDS Naturals, FiniteSets

CONSTANTS
  Monitored,
  Threads,
  Interval,       \* check_interval
  MaxEventTick,   \* bound on the ticks of events
  MaxDriftCalls,  \* bound on calls
  Unknown

DriftMonitorAssumption ==
  Interval \in Nat \ {0} /\ MaxEventTick \in Nat /\ MaxDriftCalls \in Nat

Severities == {"low", "medium", "high", "critical"}

VARIABLES
  observed,    \* agents with events
  baselines,   \* agents with a baseline
  registered,  \* _registered_agents
  standing,    \* _agent_states, Unknown for no entry
  ticks,       \* _tick_counters
  lastCheck,   \* _last_check_tick
  alerted,     \* agents with an alert
  calls,       \* calls so far
  pc,          \* per thread: where its call is
  of,          \* per thread: the agent of its call
  at,          \* per thread: current_tick of its event
  rest,        \* per thread: the agents check_all has still to look at
  checked      \* history: the latest tick a finished check was for

detector == <<observed, baselines>>
roster == <<registered, standing, alerted>>
clocks == <<ticks, lastCheck>>
thread == <<calls, pc, of, at, rest>>
drift == <<detector, roster, clocks, thread, checked>>

Go(t, where) == pc' = [pc EXCEPT ![t] = where]

Call(t, a, where) ==
  /\ pc[t] = "idle"
  /\ calls < MaxDriftCalls
  /\ calls' = calls + 1
  /\ of' = [of EXCEPT ![t] = a]
  /\ Go(t, where)

-----------------------------------------------------------------------------
(* Registration and baselines: one section each.                            *)

RegisterAgent(a) ==
  /\ registered' = registered \cup {a}
  /\ standing' = [standing EXCEPT ![a] = "active"]
  /\ UNCHANGED <<detector, alerted, clocks, thread, checked>>

UnregisterAgent(a) ==
  /\ registered' = registered \ {a}
  /\ standing' = [standing EXCEPT ![a] = Unknown]
  /\ UNCHANGED <<detector, alerted, clocks, thread, checked>>

\* build_baseline, and reset_baseline, which first forgets old events.
BuildBaseline(a) ==
  /\ baselines' = baselines \cup {a}
  /\ UNCHANGED <<observed, roster, clocks, thread, checked>>

-----------------------------------------------------------------------------
(* on_event and check_all.                                                  *)

\* The detector records the event; who is registered is read without a lock.
OnEvent(t, a, tick) ==
  /\ Call(t, a, IF a \in registered THEN "counting" ELSE "idle")
  /\ at' = [at EXCEPT ![t] = tick]
  /\ observed' = observed \cup {a}
  /\ UNCHANGED <<baselines, roster, clocks, rest, checked>>

Later(m, n) == IF m < n THEN n ELSE m

\* Mutant of Stamp: the tick of every event counts as that of a check.
StampEvents(a, tick, due) == tick

\* What _last_check_tick is after an event, before a check that is due.
Stamp(a, tick, due) == lastCheck[a]

\* The tick counter never goes back, whatever order events come in.
CountEvent(t) ==
  /\ pc[t] = "counting"
  /\ LET a == of[t]
         tick == Later(ticks[a], at[t])
         due == tick >= lastCheck[a] + Interval
     IN /\ ticks' = [ticks EXCEPT ![a] = tick]
        /\ lastCheck' = [lastCheck EXCEPT ![a] = Stamp(a, tick, due)]
        /\ at' = [at EXCEPT ![t] = IF due THEN tick ELSE 0]
        /\ Go(t, IF due THEN "due" ELSE "idle")
  /\ UNCHANGED <<detector, roster, calls, of, rest, checked>>

\* _run_check writes the tick it was given, which may be older than what
\* another check wrote meanwhile.
RunCheck(t) ==
  /\ pc[t] = "due"
  /\ lastCheck' = [lastCheck EXCEPT ![of[t]] = at[t]]
  /\ Go(t, "computing")
  /\ UNCHANGED <<detector, roster, ticks, calls, of, at, rest, checked>>

\* check_all takes its list, and then its next agent.
CheckAll(t) ==
  /\ registered # {}
  /\ \E a \in registered :
       /\ Call(t, a, "computing")
       /\ rest' = [rest EXCEPT ![t] = registered \ {a}]
  /\ at' = [at EXCEPT ![t] = 0]
  /\ UNCHANGED <<detector, roster, clocks, checked>>

\* A check is over.
Finish(t) ==
  /\ checked' = [checked EXCEPT ![of[t]] = Later(@, at[t])]
  /\ IF rest[t] = {}
     THEN Go(t, "idle") /\ UNCHANGED <<of, rest>>
     ELSE \E a \in rest[t] :
            /\ of' = [of EXCEPT ![t] = a]
            /\ rest' = [rest EXCEPT ![t] = @ \ {a}]
            /\ Go(t, "computing")

-----------------------------------------------------------------------------
(* compute_drift and _handle_drift.                                         *)

\* No events, no drift.
NothingToCompute(t) ==
  /\ pc[t] = "computing"
  /\ of[t] \notin observed
  /\ Finish(t)
  /\ UNCHANGED <<detector, roster, clocks, calls, at>>

\* Without a baseline the lock is released to build one.
FindBaseline(t) ==
  /\ pc[t] = "computing"
  /\ of[t] \in observed
  /\ Go(t, IF of[t] \in baselines THEN "scoring" ELSE "building")
  /\ UNCHANGED <<detector, roster, clocks, calls, of, at, rest, checked>>

Build(t) ==
  /\ pc[t] = "building"
  /\ baselines' = baselines \cup {of[t]}
  /\ Go(t, "scoring")
  /\ UNCHANGED <<observed, roster, clocks, calls, of, at, rest, checked>>

\* The score is at most the threshold.
NoDrift(t) ==
  /\ pc[t] = "scoring"
  /\ Finish(t)
  /\ UNCHANGED <<detector, roster, clocks, calls, at>>

\* DriftPolicyConfig.action_for_severity, as configured by default.
ActionFor(severity) ==
  [low |-> "MONITOR", medium |-> "ALERT", high |-> "THROTTLE",
   critical |-> "QUARANTINE"][severity]

\* The alert and the state of the agent; the latest action wins, and nobody
\* looks whether the agent is still registered.
HandleDrift(t) ==
  /\ pc[t] = "scoring"
  /\ \E severity \in Severities :
       standing' = [standing EXCEPT ![of[t]] =
                      IF ActionFor(severity) = "QUARANTINE" THEN "quarantined"
                      ELSE IF ActionFor(severity) = "THROTTLE" THEN "throttled"
                      ELSE @]
  /\ alerted' = alerted \cup {of[t]}
  /\ Finish(t)
  /\ UNCHANGED <<detector, registered, clocks, calls, at>>

DriftInit ==
  /\ observed = {} /\ baselines = {} /\ registered = {} /\ alerted = {}
  /\ standing = [a \in Monitored |-> Unknown]
  /\ ticks = [a \in Monitored |-> 0] /\ lastCheck = [a \in Monitored |-> 0]
  /\ calls = 0
  /\ pc = [t \in Threads |-> "idle"]
  /\ of = [t \in Threads |-> Unknown] /\ at = [t \in Threads |-> 0]
  /\ rest = [t \in Threads |-> {}]
  /\ checked = [a \in Monitored |-> 0]

DriftNext ==
  \/ \E a \in Monitored : RegisterAgent(a) \/ UnregisterAgent(a) \/ BuildBaseline(a)
  \/ \E t \in Threads :
       \/ \E a \in Monitored, tick \in 1 .. MaxEventTick : OnEvent(t, a, tick)
       \/ CountEvent(t) \/ RunCheck(t) \/ CheckAll(t)
       \/ NothingToCompute(t) \/ FindBaseline(t) \/ Build(t)
       \/ NoDrift(t) \/ HandleDrift(t)

DriftSpec == DriftInit /\ [][DriftNext]_drift

-----------------------------------------------------------------------------
(***************************************************************************)
(* Checks keep up with events: when no event or check of an agent is under *)
(* way, its behaviour was checked less than an interval of ticks ago, in   *)
(* whatever order events come, whichever threads find the same check due,  *)
(* and although a late check turns _last_check_tick back.                  *)
(***************************************************************************)
ChecksKeepUp ==
  \A a \in Monitored :
    (\A t \in Threads : of[t] = a => pc[t] = "idle")
      => ticks[a] < checked[a] + Interval
=============================================================================
