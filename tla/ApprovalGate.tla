---------------------------- MODULE ApprovalGate ----------------------------
(***************************************************************************)
(* The approval gate of src/battousai/approval.py: agent threads call      *)
(* check(), humans or their front ends call approve() and deny(), and a    *)
(* clock runs.                                                             *)
(*                                                                         *)
(* The code's one lock makes each locked block a single step; everything   *)
(* between two locked blocks, and every reading of time.time(), is a step  *)
(* of its own.  A request stands for the call of check() that creates it,  *)
(* so that pc[r] is where the calling thread is.                           *)
(*                                                                         *)
(* A key stands for an (agent_id, action_type) pair; the policy's risk map *)
(* gives its tier.                                                         *)
(***************************************************************************)
EXTENDS Integers, Sequences

CONSTANTS
  Requests,     \* the calls of check() a run may make
  Keys,         \* (agent_id, action_type) pairs
  Tier,         \* ApprovalPolicy.risk_map
  Timeout,      \* ApprovalPolicy.approval_timeout
  Cooldown,     \* ApprovalPolicy.auto_approve_cooldown
  BatchLowRisk, \* ApprovalPolicy.batch_low_risk
  MaxTime       \* bound: the clock goes on beyond it only for a waiting thread

Tiers == {"LOW", "MEDIUM", "HIGH", "CRITICAL"}

ASSUME TierAssumption == Tier \in [Keys -> Tiers] /\ Keys # {}
ASSUME TimesAssumption == Timeout \in Nat /\ Cooldown \in Nat /\ MaxTime \in Nat
ASSUME BatchAssumption == BatchLowRisk \in BOOLEAN

VARIABLES
  clock,       \* time.time()
  pc,          \* where the thread that calls check() is
  key,         \* ApprovalRequest.agent_id and action_type
  stamp,       \* the thread's last reading of the clock
  deadline,    \* ApprovalRequest.expires_at
  status,      \* ApprovalRequest.status; "unborn" before it is in _requests
  events,      \* the keys of _resolution_events
  signalled,   \* the requests whose Event is set
  trail,       \* the decisions of _audit_trail, request by request
  batch,       \* the requests in _low_risk_batch
  reported,    \* history: the requests get_low_risk_batch has handed out
  lastDetail,  \* _medium_last_approved
  detail,      \* the MEDIUM requests that are logged in detail
  seen,        \* current_status of _handle_high_or_critical
  result       \* ApprovalResult.approved; "none" until check() returns

request == <<key, stamp, deadline>>
locked  == <<status, events, signalled, trail, batch, reported>>
answer  == <<seen, result>>
vars    == <<clock, pc, request, locked, lastDetail, detail, answer>>

Pcs == {"idle", "sweep", "insert", "cooldown", "auto", "register", "notify",
        "wait", "waiting", "cleanup", "finish", "returned", "raised"}

Statuses == {"unborn", "pending", "approved", "denied", "expired"}

Decisions == {"approved", "denied", "expired"}

TypeOK ==
  /\ clock \in Nat
  /\ pc \in [Requests -> Pcs]
  /\ key \in [Requests -> Keys]
  /\ stamp \in [Requests -> Nat]
  /\ deadline \in [Requests -> Nat]
  /\ status \in [Requests -> Statuses]
  /\ events \subseteq Requests /\ signalled \subseteq Requests
  /\ trail \in [Requests -> Seq(Decisions)]
  /\ batch \subseteq Requests /\ reported \subseteq Requests
  /\ lastDetail \in [Keys -> Int]
  /\ detail \subseteq Requests
  /\ seen \in [Requests -> Statuses]
  /\ result \in [Requests -> {"none", "approved", "refused"}]

\* _medium_last_approved holds 0.0 for an unknown key: a window that closed
\* long ago.
Init ==
  /\ clock = 0
  /\ pc = [r \in Requests |-> "idle"]
  /\ key \in [Requests -> Keys]
  /\ stamp = [r \in Requests |-> 0]
  /\ deadline = [r \in Requests |-> 0]
  /\ status = [r \in Requests |-> "unborn"]
  /\ events = {} /\ signalled = {}
  /\ trail = [r \in Requests |-> <<>>]
  /\ batch = {} /\ reported = {}
  /\ lastDetail = [k \in Keys |-> -Cooldown]
  /\ detail = {}
  /\ seen = [r \in Requests |-> "unborn"]
  /\ result = [r \in Requests |-> "none"]

tier(r) == Tier[key[r]]

Goto(r, from, to) ==
  /\ pc[r] = from
  /\ pc' = [pc EXCEPT ![r] = to]

-----------------------------------------------------------------------------
(* Resolving requests, under the lock.                                      *)

\* The requests of R get the decision d, each with a record in the audit trail.
Resolve(R, d) ==
  /\ status' = [r \in Requests |-> IF r \in R THEN d ELSE status[r]]
  /\ trail' = [r \in Requests |->
                 IF r \in R THEN Append(trail[r], d) ELSE trail[r]]

\* Mutant of Resolvable: approve() and deny() do not look at the status.
ResolvableAgain(r) == status[r] # "unborn"

Resolvable(r) == status[r] = "pending"

\* Mutant of Signal: the waiting thread is not told.
SignalNobody(R) == UNCHANGED signalled

\* evt.set(), for the requests that have an Event registered.
Signal(R) == signalled' = signalled \cup (R \cap events)

\* A justification is recorded if there is one; nothing depends on it.
Approve(r) ==
  /\ Resolvable(r)
  /\ Resolve({r}, "approved")
  /\ Signal({r})
  /\ UNCHANGED <<clock, pc, request, events, batch, reported, lastDetail,
                 detail, answer>>

Deny(r) ==
  /\ Resolvable(r)
  /\ Resolve({r}, "denied")
  /\ Signal({r})
  /\ UNCHANGED <<clock, pc, request, events, batch, reported,
                 lastDetail, detail, answer>>

-----------------------------------------------------------------------------
(* check(), up to the point where the tiers part.                           *)

\* _expire_stale_requests reads the clock.
Check(r) ==
  /\ Goto(r, "idle", "sweep")
  /\ stamp' = [stamp EXCEPT ![r] = clock]
  /\ UNCHANGED <<clock, key, deadline, locked, lastDetail, detail, answer>>

Stale(t) == {s \in Requests : status[s] = "pending" /\ t >= deadline[s]}

\* It expires every pending request whose time is up, and wakes its thread;
\* then the clock is read for the new request.
ExpireStaleRequests(r) ==
  /\ Goto(r, "sweep", "insert")
  /\ Resolve(Stale(stamp[r]), "expired")
  /\ Signal(Stale(stamp[r]))
  /\ deadline' = [deadline EXCEPT ![r] = clock + Timeout]
  /\ UNCHANGED <<clock, key, stamp, events, batch, reported,
                 lastDetail, detail, answer>>

\* From here on approve() and deny() find the request.  A MEDIUM request reads
\* the clock next.
Insert(r) ==
  /\ \/ tier(r) = "LOW" /\ Goto(r, "insert", "auto") /\ UNCHANGED stamp
     \/ /\ tier(r) = "MEDIUM"
        /\ Goto(r, "insert", "cooldown")
        /\ stamp' = [stamp EXCEPT ![r] = clock]
     \/ /\ tier(r) \in {"HIGH", "CRITICAL"}
        /\ Goto(r, "insert", "register")
        /\ UNCHANGED stamp
  /\ status' = [status EXCEPT ![r] = "pending"]
  /\ UNCHANGED <<clock, key, deadline, events, signalled, trail,
                 batch, reported, lastDetail, detail, answer>>

-----------------------------------------------------------------------------
(* LOW and MEDIUM.                                                          *)

WithinCooldown(r) == stamp[r] - lastDetail[key[r]] < Cooldown

\* The first locked block of _handle_medium.
HandleMedium(r) ==
  /\ Goto(r, "cooldown", "auto")
  /\ IF WithinCooldown(r)
     THEN UNCHANGED <<lastDetail, detail>>
     ELSE /\ lastDetail' = [lastDetail EXCEPT ![key[r]] = stamp[r]]
          /\ detail' = detail \cup {r}
  /\ UNCHANGED <<clock, request, locked, answer>>

\* Mutant of AutoApprove: nothing is logged within the cooldown.
AutoApproveSilently(r) ==
  /\ Goto(r, "auto", "returned")
  /\ IF r \in detail
     THEN Resolve({r}, "approved")
     ELSE status' = [status EXCEPT ![r] = "approved"] /\ UNCHANGED trail
  /\ result' = [result EXCEPT ![r] = "approved"]
  /\ UNCHANGED <<clock, request, events, signalled, batch, reported,
                 lastDetail, detail, seen>>

\* Approved whatever the status is by now; logged in the trail or the batch.
AutoApprove(r) ==
  /\ Goto(r, "auto", "returned")
  /\ IF BatchLowRisk /\ r \notin detail
     THEN /\ status' = [status EXCEPT ![r] = "approved"]
          /\ batch' = batch \cup {r}
          /\ UNCHANGED trail
     ELSE /\ Resolve({r}, "approved")
          /\ UNCHANGED batch
  /\ result' = [result EXCEPT ![r] = "approved"]
  /\ UNCHANGED <<clock, request, events, signalled, reported,
                 lastDetail, detail, seen>>

\* get_low_risk_batch returns the buffer and clears it.
GetLowRiskBatch ==
  /\ batch # {}
  /\ reported' = reported \cup batch
  /\ batch' = {}
  /\ UNCHANGED <<clock, pc, request, status, events, signalled,
                 trail, lastDetail, detail, answer>>

-----------------------------------------------------------------------------
(* HIGH and CRITICAL.                                                       *)

RegisterEvent(r) ==
  /\ Goto(r, "register", "notify")
  /\ events' = events \cup {r}
  /\ UNCHANGED <<clock, request, status, signalled, trail, batch,
                 reported, lastDetail, detail, answer>>

\* The handler returns; if it decided at once, Approve or Deny came before.
HandlerReturns(r) ==
  /\ Goto(r, "notify", "wait")
  /\ UNCHANGED <<clock, request, locked, lastDetail, detail, answer>>

\* The handler raises and check() raises with it: the request stays pending
\* and its Event registered.
HandlerRaises(r) ==
  /\ Goto(r, "notify", "raised")
  /\ UNCHANGED <<clock, request, locked, lastDetail, detail, answer>>

\* Wait only if there is time left.
BeginWait(r) ==
  /\ Goto(r, "wait", IF clock < deadline[r] THEN "waiting" ELSE "cleanup")
  /\ UNCHANGED <<clock, request, locked, lastDetail, detail, answer>>

\* Mutant of Wake: the wait has no timeout.
WakeBySignalOnly(r) ==
  /\ r \in signalled
  /\ Goto(r, "waiting", "cleanup")
  /\ UNCHANGED <<clock, request, locked, lastDetail, detail, answer>>

\* evt.wait(timeout) returns.
Wake(r) ==
  /\ r \in signalled \/ clock >= deadline[r]
  /\ Goto(r, "waiting", "cleanup")
  /\ UNCHANGED <<clock, request, locked, lastDetail, detail, answer>>

\* The locked block after the wait reads the status.
Cleanup(r) ==
  /\ Goto(r, "cleanup", "finish")
  /\ events' = events \ {r}
  /\ seen' = [seen EXCEPT ![r] = status[r]]
  /\ UNCHANGED <<clock, request, status, signalled, trail, batch,
                 reported, lastDetail, detail, result>>

\* Mutant of MarkExpired: the status is not looked at again under the lock.
MarkExpiredBlindly(r) == Resolve({r}, "expired")

\* _mark_expired looks at the status again.
MarkExpired(r) ==
  IF status[r] = "pending" THEN Resolve({r}, "expired")
  ELSE UNCHANGED <<status, trail>>

\* A request that was seen pending is refused; any other is answered by the
\* status it has now.
Finish(r) ==
  /\ Goto(r, "finish", "returned")
  /\ IF seen[r] = "pending"
     THEN /\ MarkExpired(r)
          /\ result' = [result EXCEPT ![r] = "refused"]
     ELSE /\ result' = [result EXCEPT ![r] =
                          IF status[r] = "approved" THEN "approved" ELSE "refused"]
          /\ UNCHANGED <<status, trail>>
  /\ UNCHANGED <<clock, request, events, signalled, batch, reported,
                 lastDetail, detail, seen>>

-----------------------------------------------------------------------------
Tick ==
  /\ clock < MaxTime \/ \E r \in Requests : pc[r] = "waiting" /\ clock < deadline[r]
  /\ clock' = clock + 1
  /\ UNCHANGED <<pc, request, locked, lastDetail, detail, answer>>

\* What the thread in check() does by itself.
Step(r) ==
  \/ ExpireStaleRequests(r) \/ Insert(r)
  \/ HandleMedium(r) \/ AutoApprove(r)
  \/ RegisterEvent(r) \/ HandlerReturns(r) \/ HandlerRaises(r)
  \/ BeginWait(r) \/ Wake(r) \/ Cleanup(r) \/ Finish(r)

Next ==
  \/ \E r \in Requests : Check(r) \/ Step(r) \/ Approve(r) \/ Deny(r)
  \/ GetLowRiskBatch
  \/ Tick

Spec == Init /\ [][Next]_vars

\* Threads are scheduled, handlers return (approval.py:167-168: "it must not
\* block") and time passes; nobody owes a decision.
FairSpec == Spec /\ WF_vars(Tick) /\ \A r \in Requests : WF_vars(Step(r))

-----------------------------------------------------------------------------
(* Properties.                                                              *)

\* The last decision recorded for a request; a batched one is an approval.
LastRecord(r) ==
  IF r \in batch \cup reported THEN "approved"
  ELSE IF trail[r] = <<>> THEN "pending" ELSE trail[r][Len(trail[r])]

(***************************************************************************)
(* approval.py:14: "All decisions (auto or manual) are recorded in the     *)
(* audit trail".  At every moment the last record of a request, in the     *)
(* trail or in the batch of low risk actions, is the status it has,        *)
(* whoever decided: a human, the thread itself, or another thread that     *)
(* sweeps stale requests.                                                  *)
(***************************************************************************)
RecordsTellStatus ==
  \A r \in Requests : status[r] # "unborn" => LastRecord(r) = status[r]

(***************************************************************************)
(* A request that needs a human is decided once.  The human, the timeout   *)
(* of the thread and the sweep of other threads race for it; the first     *)
(* wins and the others change nothing.                                     *)
(***************************************************************************)
DecidedOnce ==
  \A r \in Requests : tier(r) \in {"HIGH", "CRITICAL"} => Len(trail[r]) <= 1

(***************************************************************************)
(* A HIGH or CRITICAL action proceeds only with a human's approval on      *)
(* record, and one that check() refused is never found pending afterwards. *)
(***************************************************************************)
ProceedsOnlyIfApproved ==
  \A r \in Requests : tier(r) \in {"HIGH", "CRITICAL"} =>
     /\ result[r] = "approved" => trail[r] = <<"approved">>
     /\ result[r] = "refused" => status[r] # "pending"

(***************************************************************************)
(* approval.py:125-128: within the cooldown a repeated MEDIUM request is   *)
(* "approved without re-logging".  Two requests of one agent and           *)
(* capability that are logged in detail read the clock at least one        *)
(* cooldown apart, also when the threads take the lock in another order    *)
(* than they read the clock.                                               *)
(***************************************************************************)
DetailOncePerWindow ==
  \A r, s \in detail : r # s /\ key[r] = key[s] =>
     stamp[r] - stamp[s] >= Cooldown \/ stamp[s] - stamp[r] >= Cooldown

(***************************************************************************)
(* Every call of check() ends: with a decision, or at the deadline, or     *)
(* with the handler's exception.                                           *)
(***************************************************************************)
CheckEnds ==
  \A r \in Requests : (pc[r] # "idle") ~> (pc[r] \in {"returned", "raised"})

(***************************************************************************)
(* A thread that waits for a decision made while it waits is woken by it,  *)
(* before its deadline if the decision came before.                        *)
(***************************************************************************)
WokenByDecision ==
  [][\A r \in Requests :
       pc[r] = "waiting" /\ status[r] = "pending" /\ status'[r] # "pending"
         => r \in signalled']_vars

(***************************************************************************)
(* approval.py:335: check() returns "approved=True if the action is        *)
(* permitted".  The code disagrees: a request that is approved between the *)
(* thread's two locked blocks after its wait (approval.py:495-502) is      *)
(* approved on record and approve() returned True, but check() refuses it. *)
(***************************************************************************)
ResultTellsStatus ==
  \A r \in Requests : result[r] # "none" =>
     (result[r] = "approved" <=> status[r] = "approved")
=============================================================================
