------------------------- MODULE ApprovalGateProofs -------------------------
(***************************************************************************)
(* Proofs about ApprovalGate, for every number of calls, every policy and  *)
(* every clock.                                                            *)
(***************************************************************************)
EXTENDS ApprovalGate, TLAPS

NeedsHuman(r) == tier(r) \in {"HIGH", "CRITICAL"}

Open == {"unborn", "pending"}

\* Where the thread is tells what was done for the request so far.
FlowInv(r) ==
  /\ status[r] = "unborn" <=> pc[r] \in {"idle", "sweep", "insert"}
  /\ pc[r] \in {"cooldown", "auto"} => ~NeedsHuman(r)
  /\ pc[r] \in {"register", "notify", "wait", "waiting", "cleanup", "finish", "raised"}
       => NeedsHuman(r)
  /\ pc[r] \in {"notify", "wait", "waiting", "cleanup", "raised"} => r \in events
  /\ pc[r] = "finish" => seen[r] # "unborn"
  /\ pc[r] = "finish" /\ seen[r] # "pending" => status[r] # "pending"

\* What is on record for the request.
RecordInv(r) ==
  /\ r \in batch \cup reported =>
       pc[r] = "returned" /\ status[r] = "approved" /\ ~NeedsHuman(r)
  /\ status[r] \in Open => trail[r] = <<>>
  /\ status[r] \notin Open /\ r \notin batch \cup reported =>
       trail[r] # <<>> /\ trail[r][Len(trail[r])] = status[r]
  /\ NeedsHuman(r) /\ status[r] \notin Open => trail[r] = <<status[r]>>

\* What check() answered.
AnswerInv(r) ==
  /\ result[r] # "none" => pc[r] = "returned"
  /\ result[r] = "approved" => status[r] = "approved"
  /\ result[r] = "refused" => status[r] \notin Open

\* A request logged in detail has taken its turn at the cooldown.
DetailInv(r) ==
  r \in detail => /\ pc[r] \in {"auto", "returned"}
                  /\ stamp[r] <= lastDetail[key[r]]

IInv ==
  /\ TypeOK
  /\ \A r \in Requests :
       FlowInv(r) /\ RecordInv(r) /\ AnswerInv(r) /\ DetailInv(r)
  /\ DetailOncePerWindow

-----------------------------------------------------------------------------
\* What resolving does, spelled out.
LEMMA ResolveFacts ==
  ASSUME NEW R \in SUBSET Requests, NEW d \in Decisions, TypeOK, Resolve(R, d)
  PROVE  /\ status' \in [Requests -> Statuses]
         /\ trail' \in [Requests -> Seq(Decisions)]
         /\ \A s \in Requests : /\ s \in R => /\ status'[s] = d
                                              /\ trail'[s] = Append(trail[s], d)
                                /\ s \notin R => /\ status'[s] = status[s]
                                                 /\ trail'[s] = trail[s]
BY DEF Resolve, TypeOK, Statuses, Decisions

\* The last of an appended record, and a record appended to none.
LEMMA AppendFacts ==
  ASSUME NEW t \in Seq(Decisions), NEW d \in Decisions
  PROVE  /\ Append(t, d) # <<>>
         /\ Append(t, d)[Len(Append(t, d))] = d
         /\ t = <<>> => Append(t, d) = <<d>>
<1>1. Len(Append(t, d)) = Len(t) + 1 /\ Len(t) \in Nat
  OBVIOUS
<1>2. Append(t, d)[Len(t) + 1] = d
  OBVIOUS
<1>3. Append(t, d) # <<>>
  BY <1>1
<1>4. ASSUME t = <<>> PROVE Append(t, d) = <<d>>
  BY <1>4
<1> QED BY <1>1, <1>2, <1>3, <1>4

LEMMA Initially == Init => IInv
<1> SUFFICES ASSUME Init PROVE IInv
  OBVIOUS
<1>1. TypeOK
  BY TimesAssumption DEF Init, TypeOK, Pcs, Statuses
<1>2. \A r \in Requests :
        FlowInv(r) /\ RecordInv(r) /\ AnswerInv(r) /\ DetailInv(r)
  BY DEF Init, FlowInv, RecordInv, AnswerInv, DetailInv, Open
<1>3. DetailOncePerWindow
  BY DEF Init, DetailOncePerWindow
<1> QED BY <1>1, <1>2, <1>3 DEF IInv

-----------------------------------------------------------------------------
(* Type correctness.                                                        *)

\* A thread's program counter keeps its type.
LEMMA GotoType ==
  ASSUME TypeOK, NEW r \in Requests, NEW from, NEW to \in Pcs, Goto(r, from, to)
  PROVE  pc' \in [Requests -> Pcs]
BY DEF Goto, TypeOK

LEMMA TypeStep == TypeOK /\ [Next]_vars => TypeOK'
<1> SUFFICES ASSUME TypeOK, [Next]_vars PROVE TypeOK'
  OBVIOUS
<1> USE DEF request, locked, answer
<1>1. ASSUME NEW r \in Requests, Check(r) PROVE TypeOK'
  <2>1. pc' \in [Requests -> Pcs]
    BY <1>1, GotoType DEF Check, Pcs
  <2> QED BY <1>1, <2>1 DEF TypeOK, Check
<1>2. ASSUME NEW r \in Requests, ExpireStaleRequests(r) PROVE TypeOK'
  <2>1. pc' \in [Requests -> Pcs]
    BY <1>2, GotoType DEF ExpireStaleRequests, Pcs
  <2>2. Stale(stamp[r]) \in SUBSET Requests
    BY DEF Stale
  <2>3. status' \in [Requests -> Statuses] /\ trail' \in [Requests -> Seq(Decisions)]
    BY <1>2, <2>2, ResolveFacts DEF ExpireStaleRequests, Decisions
  <2>4. signalled' \subseteq Requests
    BY <1>2, <2>2 DEF ExpireStaleRequests, Signal, TypeOK
  <2>5. deadline' \in [Requests -> Nat]
    BY <1>2, TimesAssumption DEF ExpireStaleRequests, TypeOK
  <2> QED BY <1>2, <2>1, <2>3, <2>4, <2>5 DEF TypeOK, ExpireStaleRequests
<1>3. ASSUME NEW r \in Requests, Insert(r) PROVE TypeOK'
  <2>1. pc' \in [Requests -> Pcs]
    BY <1>3, GotoType DEF Insert, Pcs
  <2>2. stamp' \in [Requests -> Nat]
    BY <1>3 DEF Insert, TypeOK
  <2>3. status' \in [Requests -> Statuses]
    BY <1>3 DEF Insert, TypeOK, Statuses
  <2> QED BY <1>3, <2>1, <2>2, <2>3 DEF TypeOK, Insert
<1>4. ASSUME NEW r \in Requests, HandleMedium(r) PROVE TypeOK'
  <2>1. pc' \in [Requests -> Pcs]
    BY <1>4, GotoType DEF HandleMedium, Pcs
  <2>2. lastDetail' \in [Keys -> Int] /\ detail' \subseteq Requests
    BY <1>4 DEF HandleMedium, TypeOK
  <2> QED BY <1>4, <2>1, <2>2 DEF TypeOK, HandleMedium
<1>5. ASSUME NEW r \in Requests, AutoApprove(r) PROVE TypeOK'
  <2>1. pc' \in [Requests -> Pcs]
    BY <1>5, GotoType DEF AutoApprove, Pcs
  <2>2. /\ status' \in [Requests -> Statuses]
        /\ trail' \in [Requests -> Seq(Decisions)]
        /\ batch' \subseteq Requests
    <3>1. CASE BatchLowRisk /\ r \notin detail
      BY <1>5, <3>1 DEF AutoApprove, TypeOK, Statuses
    <3>2. CASE ~(BatchLowRisk /\ r \notin detail)
      BY <1>5, <3>2, ResolveFacts DEF AutoApprove, TypeOK, Decisions
    <3> QED BY <3>1, <3>2
  <2>3. result' \in [Requests -> {"none", "approved", "refused"}]
    BY <1>5 DEF AutoApprove, TypeOK
  <2> QED BY <1>5, <2>1, <2>2, <2>3 DEF TypeOK, AutoApprove
<1>6. ASSUME NEW r \in Requests, RegisterEvent(r) PROVE TypeOK'
  <2>1. pc' \in [Requests -> Pcs]
    BY <1>6, GotoType DEF RegisterEvent, Pcs
  <2> QED BY <1>6, <2>1 DEF TypeOK, RegisterEvent
<1>7. ASSUME NEW r \in Requests,
             HandlerReturns(r) \/ HandlerRaises(r) \/ BeginWait(r) \/ Wake(r)
      PROVE  TypeOK'
  <2>1. pc' \in [Requests -> Pcs]
    BY <1>7, GotoType DEF HandlerReturns, HandlerRaises, BeginWait, Wake, Pcs
  <2> QED BY <1>7, <2>1 DEF TypeOK, HandlerReturns, HandlerRaises, BeginWait, Wake
<1>8. ASSUME NEW r \in Requests, Cleanup(r) PROVE TypeOK'
  <2>1. pc' \in [Requests -> Pcs]
    BY <1>8, GotoType DEF Cleanup, Pcs
  <2>2. seen' \in [Requests -> Statuses] /\ events' \subseteq Requests
    BY <1>8 DEF Cleanup, TypeOK
  <2> QED BY <1>8, <2>1, <2>2 DEF TypeOK, Cleanup
<1>9. ASSUME NEW r \in Requests, Finish(r) PROVE TypeOK'
  <2>1. pc' \in [Requests -> Pcs]
    BY <1>9, GotoType DEF Finish, Pcs
  <2>2. status' \in [Requests -> Statuses] /\ trail' \in [Requests -> Seq(Decisions)]
    <3>1. CASE seen[r] = "pending" /\ status[r] = "pending"
      BY <1>9, <3>1, ResolveFacts DEF Finish, MarkExpired, Decisions
    <3>2. CASE ~(seen[r] = "pending" /\ status[r] = "pending")
      BY <1>9, <3>2 DEF Finish, MarkExpired, TypeOK
    <3> QED BY <3>1, <3>2
  <2>3. result' \in [Requests -> {"none", "approved", "refused"}]
    BY <1>9 DEF Finish, TypeOK
  <2> QED BY <1>9, <2>1, <2>2, <2>3 DEF TypeOK, Finish
<1>10. ASSUME NEW r \in Requests, Approve(r) \/ Deny(r) PROVE TypeOK'
  <2>1. status' \in [Requests -> Statuses] /\ trail' \in [Requests -> Seq(Decisions)]
    BY <1>10, ResolveFacts DEF Approve, Deny, Decisions
  <2>2. signalled' \subseteq Requests
    BY <1>10 DEF Approve, Deny, Signal, TypeOK
  <2> QED BY <1>10, <2>1, <2>2 DEF TypeOK, Approve, Deny
<1>11. CASE GetLowRiskBatch
  BY <1>11 DEF TypeOK, GetLowRiskBatch
<1>12. CASE Tick
  BY <1>12 DEF TypeOK, Tick
<1>13. CASE UNCHANGED vars
  BY <1>13 DEF TypeOK, vars
<1> QED BY <1>1, <1>2, <1>3, <1>4, <1>5, <1>6, <1>7, <1>8, <1>9, <1>10, <1>11,
           <1>12, <1>13 DEF Next, Step

\* Every variable keeps its type.
THEOREM TypeCorrect == Spec => []TypeOK
<1>1. Init => TypeOK
  BY Initially DEF IInv
<1> QED BY <1>1, TypeStep, PTL DEF Spec

-----------------------------------------------------------------------------
(* The inductive invariant.                                                 *)

RequestInv(r) == FlowInv(r) /\ RecordInv(r) /\ AnswerInv(r)

\* A request nothing happens to keeps its invariant.
LEMMA Untouched ==
  ASSUME NEW s \in Requests, RequestInv(s), key' = key,
         pc'[s] = pc[s], status'[s] = status[s], trail'[s] = trail[s],
         seen'[s] = seen[s], result'[s] = result[s],
         s \in events' <=> s \in events,
         s \in batch' \cup reported' <=> s \in batch \cup reported
  PROVE  RequestInv(s)'
BY DEF RequestInv, FlowInv, RecordInv, AnswerInv, NeedsHuman, tier

\* A pending request that is decided keeps its invariant.
LEMMA Decided ==
  ASSUME NEW s \in Requests, RequestInv(s), TypeOK, NEW d \in Decisions,
         status[s] = "pending", key' = key,
         pc'[s] = pc[s], status'[s] = d, trail'[s] = Append(trail[s], d),
         UNCHANGED <<seen, result, events, batch, reported>>
  PROVE  RequestInv(s)'
<1>1. trail[s] \in Seq(Decisions) /\ trail[s] = <<>>
  BY DEF TypeOK, RequestInv, RecordInv, Open
<1>2. trail'[s] = <<d>> /\ trail'[s] # <<>> /\ trail'[s][Len(trail'[s])] = d
  BY <1>1, AppendFacts
<1>3. d \notin Open
  BY DEF Decisions, Open
<1>4. FlowInv(s)'
  BY <1>3 DEF RequestInv, FlowInv, NeedsHuman, tier, Open
<1>5. RecordInv(s)'
  BY <1>2, <1>3 DEF RequestInv, RecordInv, Open
<1>6. AnswerInv(s)'
  BY <1>3 DEF RequestInv, AnswerInv, Open
<1> QED BY <1>4, <1>5, <1>6 DEF RequestInv

LEMMA RequestStep ==
  ASSUME TypeOK, \A r \in Requests : RequestInv(r), [Next]_vars
  PROVE  \A r \in Requests : RequestInv(r)'
<1> SUFFICES ASSUME NEW s \in Requests PROVE RequestInv(s)'
  OBVIOUS
<1> USE DEF request, locked, answer
<1>t. pc \in [Requests -> Pcs] /\ seen \in [Requests -> Statuses]
      /\ status \in [Requests -> Statuses]
      /\ result \in [Requests -> {"none", "approved", "refused"}]
  BY DEF TypeOK
<1>0. RequestInv(s)
  OBVIOUS
<1>1. ASSUME NEW r \in Requests, Check(r) PROVE RequestInv(s)'
  BY <1>1, <1>t, <1>0 DEF Check, Goto, RequestInv, FlowInv, RecordInv, AnswerInv,
     NeedsHuman, tier
<1>2. ASSUME NEW r \in Requests, ExpireStaleRequests(r) PROVE RequestInv(s)'
  <2>1. /\ Stale(stamp[r]) \in SUBSET Requests
        /\ s \in Stale(stamp[r]) => status[s] = "pending"
    BY DEF Stale
  <2>2. /\ s \in Stale(stamp[r]) =>
             status'[s] = "expired" /\ trail'[s] = Append(trail[s], "expired")
        /\ s \notin Stale(stamp[r]) =>
             status'[s] = status[s] /\ trail'[s] = trail[s]
    BY <1>2, <2>1, ResolveFacts DEF ExpireStaleRequests, Decisions
  <2>3. CASE s = r
    <3>1. status[s] = "unborn"
      BY <1>2, <2>3, <1>0 DEF ExpireStaleRequests, Goto, RequestInv, FlowInv
    <3>2. status'[s] = status[s] /\ trail'[s] = trail[s]
      BY <3>1, <2>1, <2>2
    <3> QED BY <1>2, <1>t, <1>0, <2>3, <3>2 DEF ExpireStaleRequests, Goto,
             RequestInv, FlowInv, RecordInv, AnswerInv, NeedsHuman, tier
  <2>4. CASE s # r /\ s \in Stale(stamp[r])
    <3>1. pc'[s] = pc[s] /\ key' = key /\ UNCHANGED <<seen, result, events, batch, reported>>
      BY <1>2, <2>4, <1>t DEF ExpireStaleRequests, Goto
    <3> QED BY <3>1, <2>1, <2>2, <2>4, <1>0, Decided DEF Decisions
  <2>5. CASE s # r /\ s \notin Stale(stamp[r])
    <3>1. pc'[s] = pc[s] /\ key' = key /\ UNCHANGED <<seen, result, events, batch, reported>>
      BY <1>2, <2>5, <1>t DEF ExpireStaleRequests, Goto
    <3> QED BY <3>1, <2>2, <2>5, <1>0, Untouched
  <2> QED BY <2>3, <2>4, <2>5
<1>3. ASSUME NEW r \in Requests, Insert(r) PROVE RequestInv(s)'
  BY <1>3, <1>t, <1>0 DEF Insert, Goto, RequestInv, FlowInv, RecordInv, AnswerInv,
     NeedsHuman, tier, Open
<1>4. ASSUME NEW r \in Requests, HandleMedium(r) PROVE RequestInv(s)'
  BY <1>4, <1>t, <1>0 DEF HandleMedium, Goto, RequestInv, FlowInv, RecordInv,
     AnswerInv, NeedsHuman, tier
<1>5. ASSUME NEW r \in Requests, AutoApprove(r) PROVE RequestInv(s)'
  <2>1. /\ key' = key /\ UNCHANGED <<seen, events, reported>>
        /\ pc[r] = "auto" /\ pc' = [pc EXCEPT ![r] = "returned"]
        /\ result' = [result EXCEPT ![r] = "approved"]
    BY <1>5 DEF AutoApprove, Goto
  <2>2. /\ status'[r] = "approved"
        /\ s # r => status'[s] = status[s] /\ trail'[s] = trail[s]
        /\ s # r => (s \in batch' <=> s \in batch)
        /\ r \in batch' \/ (trail'[r] # <<>> /\ trail'[r][Len(trail'[r])] = "approved")
    <3>1. CASE BatchLowRisk /\ r \notin detail
      BY <1>5, <3>1, <1>t DEF AutoApprove
    <3>2. CASE ~(BatchLowRisk /\ r \notin detail)
      <4>1. Resolve({r}, "approved") /\ batch' = batch
        BY <1>5, <3>2 DEF AutoApprove
      <4>2. trail[r] \in Seq(Decisions) /\ "approved" \in Decisions /\ {r} \in SUBSET Requests
        BY DEF TypeOK, Decisions
      <4>3. /\ status'[r] = "approved" /\ trail'[r] = Append(trail[r], "approved")
            /\ s # r => status'[s] = status[s] /\ trail'[s] = trail[s]
        BY <4>1, ResolveFacts DEF Decisions
      <4> QED BY <4>1, <4>2, <4>3, AppendFacts
    <3> QED BY <3>1, <3>2
  <2>3. CASE s # r
    BY <1>0, <1>t, <2>1, <2>2, <2>3, Untouched
  <2>4. CASE s = r
    <3>1. ~NeedsHuman(s) /\ pc'[s] = "returned" /\ result'[s] = "approved"
      BY <2>1, <2>4, <1>0, <1>t DEF RequestInv, FlowInv
    <3>2. NeedsHuman(s)' <=> NeedsHuman(s)
      BY <2>1 DEF NeedsHuman, tier
    <3> QED BY <2>1, <2>2, <2>4, <3>1, <3>2
            DEF RequestInv, FlowInv, RecordInv, AnswerInv, Open
  <2> QED BY <2>3, <2>4
<1>6. ASSUME NEW r \in Requests, RegisterEvent(r) PROVE RequestInv(s)'
  BY <1>6, <1>t, <1>0 DEF RegisterEvent, Goto, RequestInv, FlowInv, RecordInv,
     AnswerInv, NeedsHuman, tier
<1>7. ASSUME NEW r \in Requests,
             HandlerReturns(r) \/ HandlerRaises(r) \/ BeginWait(r) \/ Wake(r)
      PROVE  RequestInv(s)'
  BY <1>7, <1>t, <1>0 DEF HandlerReturns, HandlerRaises, BeginWait, Wake, Goto,
     RequestInv, FlowInv, RecordInv, AnswerInv, NeedsHuman, tier
<1>8. ASSUME NEW r \in Requests, Cleanup(r) PROVE RequestInv(s)'
  BY <1>8, <1>t, <1>0 DEF Cleanup, Goto, RequestInv, FlowInv, RecordInv, AnswerInv,
     NeedsHuman, tier
<1>9. ASSUME NEW r \in Requests, Finish(r) PROVE RequestInv(s)'
  <2>1. /\ key' = key /\ UNCHANGED <<seen, events, batch, reported>>
        /\ pc[r] = "finish" /\ pc' = [pc EXCEPT ![r] = "returned"]
        /\ \A x \in Requests : x # r => result'[x] = result[x]
    BY <1>9, <1>t DEF Finish, Goto
  <2>2. NeedsHuman(s)' <=> NeedsHuman(s)
    BY <2>1 DEF NeedsHuman, tier
  <2>3. CASE seen[r] = "pending" /\ status[r] = "pending"
    <3>1. Resolve({r}, "expired") /\ result' = [result EXCEPT ![r] = "refused"]
      BY <1>9, <2>3 DEF Finish, MarkExpired
    <3>2. /\ status'[r] = "expired" /\ trail'[r] = Append(trail[r], "expired")
          /\ s # r => status'[s] = status[s] /\ trail'[s] = trail[s]
      BY <3>1, ResolveFacts DEF Decisions
    <3>3. CASE s # r
      BY <1>0, <1>t, <2>1, <3>2, <3>3, Untouched
    <3>4. CASE s = r
      <4>1. trail[s] \in Seq(Decisions) /\ trail[s] = <<>> /\ s \notin batch \cup reported
        BY <1>0, <2>1, <2>3, <3>4 DEF TypeOK, RequestInv, RecordInv, Open
      <4>2. trail'[s] = <<"expired">>
        BY <3>2, <3>4, <4>1, AppendFacts DEF Decisions
      <4>3. pc'[s] = "returned" /\ result'[s] = "refused"
        BY <2>1, <3>1, <3>4, <1>t
      <4> QED BY <2>1, <2>2, <3>2, <3>4, <4>1, <4>2, <4>3
              DEF RequestInv, FlowInv, RecordInv, AnswerInv, Open
    <3> QED BY <3>3, <3>4
  <2>4. CASE ~(seen[r] = "pending" /\ status[r] = "pending")
    <3>1. status' = status /\ trail' = trail
      BY <1>9, <2>4 DEF Finish, MarkExpired
    <3>2. CASE s # r
      BY <1>0, <1>t, <2>1, <3>1, <3>2, Untouched
    <3>3. CASE s = r
      <4>1. status[s] \notin Open
        BY <1>0, <2>1, <2>4, <3>3 DEF RequestInv, FlowInv, Open
      <4>2. result'[s] = "refused" \/ (result'[s] = "approved" /\ status[s] = "approved")
        BY <1>9, <3>3, <1>t DEF Finish
      <4>3. pc'[s] = "returned"
        BY <2>1, <3>3, <1>t
      <4> QED BY <1>0, <2>1, <2>2, <3>1, <3>3, <4>1, <4>2, <4>3
              DEF RequestInv, FlowInv, RecordInv, AnswerInv, Open
    <3> QED BY <3>2, <3>3
  <2> QED BY <2>3, <2>4
<1>10. ASSUME NEW r \in Requests, Approve(r) \/ Deny(r) PROVE RequestInv(s)'
  <2>1. /\ key' = key /\ pc' = pc
        /\ UNCHANGED <<seen, result, events, batch, reported>>
        /\ status[r] = "pending"
    BY <1>10 DEF Approve, Deny, Resolvable
  <2>2. PICK d \in {"approved", "denied"} : Resolve({r}, d)
    BY <1>10 DEF Approve, Deny
  <2>3. /\ status'[r] = d /\ trail'[r] = Append(trail[r], d)
        /\ s # r => status'[s] = status[s] /\ trail'[s] = trail[s]
    BY <2>2, ResolveFacts DEF Decisions
  <2>4. CASE s = r
    BY <1>0, <2>1, <2>3, <2>4, Decided DEF Decisions
  <2>5. CASE s # r
    BY <1>0, <2>1, <2>3, <2>5, Untouched
  <2> QED BY <2>4, <2>5
<1>11. CASE GetLowRiskBatch
  <2>1. s \in batch' \cup reported' <=> s \in batch \cup reported
    BY <1>11 DEF GetLowRiskBatch
  <2>2. /\ key' = key /\ pc' = pc /\ status' = status /\ trail' = trail
        /\ seen' = seen /\ result' = result /\ events' = events
    BY <1>11 DEF GetLowRiskBatch
  <2> QED BY <1>0, <2>1, <2>2, Untouched
<1>12. CASE Tick
  BY <1>0, <1>12, Untouched DEF Tick
<1>13. CASE UNCHANGED vars
  BY <1>0, <1>13, Untouched DEF vars
<1> QED BY <1>1, <1>2, <1>3, <1>4, <1>5, <1>6, <1>7, <1>8, <1>9, <1>10, <1>11,
           <1>12, <1>13 DEF Next, Step

-----------------------------------------------------------------------------
(* The cooldown.                                                            *)

LEMMA DetailStep ==
  ASSUME TypeOK, \A r \in Requests : DetailInv(r), DetailOncePerWindow, [Next]_vars
  PROVE  (\A r \in Requests : DetailInv(r))' /\ DetailOncePerWindow'
<1> USE DEF request, locked, answer
<1>t. /\ pc \in [Requests -> Pcs] /\ key \in [Requests -> Keys]
      /\ stamp \in [Requests -> Nat] /\ lastDetail \in [Keys -> Int]
      /\ detail \subseteq Requests
  BY DEF TypeOK
<1>1. ASSUME detail' = detail, lastDetail' = lastDetail, key' = key,
             NEW r \in Requests, r \notin detail,
             \A s \in Requests : s # r => stamp'[s] = stamp[s] /\ pc'[s] = pc[s]
      PROVE  (\A s \in Requests : DetailInv(s))' /\ DetailOncePerWindow'
  BY <1>1, <1>t DEF DetailInv, DetailOncePerWindow
<1>2. ASSUME detail' = detail, lastDetail' = lastDetail, key' = key, stamp' = stamp,
             \A s \in Requests : pc[s] \in {"auto", "returned"} =>
                                    pc'[s] \in {"auto", "returned"}
      PROVE  (\A s \in Requests : DetailInv(s))' /\ DetailOncePerWindow'
  BY <1>2, <1>t DEF DetailInv, DetailOncePerWindow
<1>3. ASSUME NEW r \in Requests, Check(r) \/ Insert(r)
      PROVE  (\A s \in Requests : DetailInv(s))' /\ DetailOncePerWindow'
  <2>1. r \notin detail
    BY <1>3 DEF Check, Insert, Goto, DetailInv
  <2>2. \A s \in Requests : s # r => stamp'[s] = stamp[s] /\ pc'[s] = pc[s]
    BY <1>3, <1>t DEF Check, Insert, Goto
  <2> QED BY <1>1, <1>3, <2>1, <2>2 DEF Check, Insert
<1>4. ASSUME NEW r \in Requests, HandleMedium(r)
      PROVE  (\A s \in Requests : DetailInv(s))' /\ DetailOncePerWindow'
  <2>1. /\ pc[r] = "cooldown" /\ pc' = [pc EXCEPT ![r] = "auto"]
        /\ key' = key /\ stamp' = stamp /\ r \notin detail
    BY <1>4 DEF HandleMedium, Goto, DetailInv
  <2>2. CASE WithinCooldown(r)
    <3>1. detail' = detail /\ lastDetail' = lastDetail
      BY <1>4, <2>2 DEF HandleMedium
    <3> QED BY <1>2, <1>t, <2>1, <3>1
  <2>3. CASE ~WithinCooldown(r)
    <3>1. /\ detail' = detail \cup {r}
          /\ lastDetail' = [lastDetail EXCEPT ![key[r]] = stamp[r]]
          /\ stamp[r] - lastDetail[key[r]] >= Cooldown
      BY <1>4, <1>t, <2>3, TimesAssumption DEF HandleMedium, WithinCooldown
    <3>2. \A s \in detail : s \in Requests /\ key[s] = key[r] =>
            stamp[r] - stamp[s] >= Cooldown
      <4> SUFFICES ASSUME NEW s \in detail, key[s] = key[r]
                   PROVE  stamp[r] - stamp[s] >= Cooldown
        OBVIOUS
      <4>1. stamp[s] <= lastDetail[key[r]]
        BY <1>t DEF DetailInv
      <4>2. stamp[r] \in Int /\ stamp[s] \in Int /\ lastDetail[key[r]] \in Int
        BY <1>t
      <4> QED BY <3>1, <4>1, <4>2, TimesAssumption
    <3>3. DetailOncePerWindow'
      BY <1>t, <2>1, <3>1, <3>2 DEF DetailOncePerWindow
    <3>4. ASSUME NEW s \in Requests PROVE DetailInv(s)'
      <4>1. CASE s = r
        BY <1>t, <2>1, <3>1, <4>1 DEF DetailInv
      <4>2. CASE s # r /\ key[s] = key[r]
        <5>1. s \in detail =>
                stamp[s] <= stamp[r] /\ pc[s] \in {"auto", "returned"}
          <6> SUFFICES ASSUME s \in detail PROVE stamp[s] <= stamp[r] /\ pc[s] \in {"auto", "returned"}
            OBVIOUS
          <6>1. stamp[r] - stamp[s] >= Cooldown /\ Cooldown \in Nat
            BY <3>2, <4>2, TimesAssumption
          <6>2. stamp[r] \in Int /\ stamp[s] \in Int
            BY <1>t
          <6> QED BY <6>1, <6>2 DEF DetailInv
        <5> QED BY <1>t, <2>1, <3>1, <4>2, <5>1 DEF DetailInv
      <4>3. CASE s # r /\ key[s] # key[r]
        BY <1>t, <2>1, <3>1, <4>3 DEF DetailInv
      <4> QED BY <4>1, <4>2, <4>3
    <3> QED BY <3>3, <3>4
  <2> QED BY <2>2, <2>3
<1>5. ASSUME NEW r \in Requests,
             \/ ExpireStaleRequests(r) \/ AutoApprove(r) \/ RegisterEvent(r)
             \/ HandlerReturns(r) \/ HandlerRaises(r) \/ BeginWait(r) \/ Wake(r)
             \/ Cleanup(r) \/ Finish(r)
      PROVE  (\A s \in Requests : DetailInv(s))' /\ DetailOncePerWindow'
  <2>1. /\ detail' = detail /\ lastDetail' = lastDetail
        /\ key' = key /\ stamp' = stamp
    BY <1>5 DEF ExpireStaleRequests, AutoApprove, RegisterEvent, HandlerReturns,
       HandlerRaises, BeginWait, Wake, Cleanup, Finish
  <2>2. \A s \in Requests : pc[s] \in {"auto", "returned"} =>
                               pc'[s] \in {"auto", "returned"}
    BY <1>5, <1>t DEF ExpireStaleRequests, AutoApprove, RegisterEvent,
       HandlerReturns, HandlerRaises, BeginWait, Wake, Cleanup, Finish, Goto
  <2> QED BY <1>2, <2>1, <2>2
<1>6. ASSUME \/ \E r \in Requests : Approve(r) \/ Deny(r)
             \/ GetLowRiskBatch \/ Tick \/ UNCHANGED vars
      PROVE  (\A s \in Requests : DetailInv(s))' /\ DetailOncePerWindow'
  BY <1>2, <1>6 DEF Approve, Deny, GetLowRiskBatch, Tick, vars
<1> QED BY <1>3, <1>4, <1>5, <1>6 DEF Next, Step

-----------------------------------------------------------------------------
(* The theorems.                                                            *)

LEMMA Inductive == Spec => []IInv
<1>1. IInv /\ [Next]_vars => IInv'
  BY TypeStep, RequestStep, DetailStep DEF IInv, RequestInv
<1> QED BY Initially, <1>1, PTL DEF Spec

\* The last record of a request is its status.
THEOREM RecordsAlwaysTellStatus == Spec => []RecordsTellStatus
<1>1. IInv => RecordsTellStatus
  <2> SUFFICES ASSUME IInv, NEW r \in Requests, status[r] # "unborn"
               PROVE  LastRecord(r) = status[r]
    BY DEF RecordsTellStatus
  <2>1. RecordInv(r)
    BY DEF IInv
  <2> QED BY <2>1 DEF RecordInv, LastRecord, Open
<1> QED BY <1>1, Inductive, PTL

\* The human, the timeout and the sweep decide a request once between them.
THEOREM AlwaysDecidedOnce == Spec => []DecidedOnce
<1>1. IInv => DecidedOnce
  <2> SUFFICES ASSUME IInv, NEW r \in Requests, NeedsHuman(r)
               PROVE  Len(trail[r]) <= 1
    BY DEF DecidedOnce, NeedsHuman
  <2>1. trail[r] = <<>> \/ trail[r] = <<status[r]>>
    BY DEF IInv, RecordInv, NeedsHuman
  <2>2. Len(<<>>) = 0 /\ Len(<<status[r]>>) = 1
    OBVIOUS
  <2>3. Len(trail[r]) = 0 \/ Len(trail[r]) = 1
    BY <2>1, <2>2, Zenon
  <2>4. 0 <= 1 /\ 1 <= 1
    OBVIOUS
  <2> QED BY <2>3, <2>4, Zenon
<1> QED BY <1>1, Inductive, PTL

\* Nothing HIGH or CRITICAL proceeds without an approval on record.
THEOREM AlwaysProceedsOnlyIfApproved == Spec => []ProceedsOnlyIfApproved
<1>1. IInv => ProceedsOnlyIfApproved
  BY DEF IInv, RecordInv, AnswerInv, NeedsHuman, ProceedsOnlyIfApproved, Open
<1> QED BY <1>1, Inductive, PTL

\* One detailed log entry per agent, capability and cooldown window.
THEOREM AlwaysDetailOncePerWindow == Spec => []DetailOncePerWindow
<1>1. IInv => DetailOncePerWindow
  BY DEF IInv
<1> QED BY <1>1, Inductive, PTL

\* A decision wakes the thread that waits for it.
THEOREM DecisionWakes == Spec => WokenByDecision
<1> USE DEF request, locked, answer
<1>1. ASSUME IInv, [Next]_vars, NEW r \in Requests,
             pc[r] = "waiting", status[r] = "pending", status'[r] # "pending"
      PROVE  r \in signalled'
  <2>1. r \in events /\ status \in [Requests -> Statuses] /\ TypeOK
    BY <1>1 DEF IInv, FlowInv, TypeOK
  <2>2. ASSUME NEW s \in Requests, Approve(s) \/ Deny(s) PROVE r \in signalled'
    <3>1. Signal({s}) /\ \E d \in Decisions : Resolve({s}, d)
      BY <2>2 DEF Approve, Deny, Decisions
    <3>2. s = r
      BY <1>1, <2>1, <3>1, ResolveFacts
    <3> QED BY <2>1, <3>1, <3>2 DEF Signal
  <2>3. ASSUME NEW s \in Requests, ExpireStaleRequests(s) PROVE r \in signalled'
    <3>1. Stale(stamp[s]) \in SUBSET Requests /\ "expired" \in Decisions
      BY DEF Stale, Decisions
    <3>2. r \in Stale(stamp[s])
      BY <1>1, <2>1, <2>3, <3>1, ResolveFacts DEF ExpireStaleRequests
    <3> QED BY <2>1, <2>3, <3>2 DEF ExpireStaleRequests, Signal
  <2>4. ASSUME NEW s \in Requests, Insert(s) PROVE FALSE
    BY <1>1, <2>1, <2>4 DEF Insert
  <2>5. ASSUME NEW s \in Requests, AutoApprove(s) \/ Finish(s) PROVE FALSE
    <3>1. s # r
      BY <1>1, <2>5 DEF AutoApprove, Finish, Goto
    <3>2. status' = status \/ status' = [status EXCEPT ![s] = "approved"]
          \/ \E d \in Decisions : Resolve({s}, d)
      BY <2>5 DEF AutoApprove, Finish, MarkExpired, Decisions
    <3> QED BY <1>1, <2>1, <3>1, <3>2, ResolveFacts
  <2>6. ASSUME NEW s \in Requests,
               \/ Check(s) \/ HandleMedium(s) \/ RegisterEvent(s)
               \/ HandlerReturns(s) \/ HandlerRaises(s) \/ BeginWait(s)
               \/ Wake(s) \/ Cleanup(s)
        PROVE  FALSE
    BY <1>1, <2>6 DEF Check, HandleMedium, RegisterEvent, HandlerReturns,
       HandlerRaises, BeginWait, Wake, Cleanup
  <2>7. ASSUME GetLowRiskBatch \/ Tick \/ UNCHANGED vars PROVE FALSE
    BY <1>1, <2>7 DEF GetLowRiskBatch, Tick, vars
  <2> QED BY <1>1, <2>2, <2>3, <2>4, <2>5, <2>6, <2>7 DEF Next, Step
<1>2. IInv /\ [Next]_vars =>
        [\A r \in Requests :
           pc[r] = "waiting" /\ status[r] = "pending" /\ status'[r] # "pending"
             => r \in signalled']_vars
  BY <1>1
<1> QED BY <1>2, Inductive, PTL DEF Spec, WokenByDecision
=============================================================================
