--------------------------------- MODULE Tools ---------------------------------
(***************************************************************************)
(* ToolManager of src/battousai/tools.py with the tools of                 *)
(* src/battousai/tools_extended.py that keep state: task queue, key-value  *)
(* database, cron scheduler, and the pipeline that chains them.  Every     *)
(* call goes through access list and rate limit, the stages of a pipeline  *)
(* do not.  Tasks and values are left out, and tools without state.        *)
(***************************************************************************)
EXTENDS Integers, FiniteSets, Subsequences, Sequences

CONSTANTS
  Callers,   \* with "kernel"
  StoreKeys, \* keys of the database, names of cron entries
  Limits,    \* rate_limit of a registration, 0 for none
  Window,    \* rate_window
  Managed,   \* the tools whose registration and access list change
  Requests,  \* what is asked of the tools
  MaxTick,   \* bound on the clock
  MaxToolCalls \* bound on calls

ToolNames == {"task_queue", "key_value_db", "cron_scheduler", "data_pipeline"}

\* Without the operations that change nothing.
SingleRequests ==
  [tool : {"task_queue"}, op : {"push"}, priority : Int]
  \cup [tool : {"task_queue"}, op : {"pop", "clear"}]
  \cup [tool : {"key_value_db"}, op : {"set"}, key : StoreKeys, ttl : Int]
  \cup [tool : {"key_value_db"}, op : {"get", "delete"}, key : StoreKeys]
  \cup [tool : {"key_value_db"}, op : {"flush"}]
  \cup [tool : {"cron_scheduler"}, op : {"register"}, key : StoreKeys,
        every : Nat \ {0}]
  \cup [tool : {"cron_scheduler"}, op : {"unregister", "tick"}, key : StoreKeys]
  \cup [tool : ToolNames \ {"data_pipeline"}, op : {"incomplete"}]

PipelineRequests ==
  [tool : {"data_pipeline"}, op : {"run"}, stages : Seq(SingleRequests)]

ToolsAssumption ==
  /\ "kernel" \in Callers /\ Managed \subseteq ToolNames
  /\ Requests \subseteq SingleRequests \cup PipelineRequests
  /\ Limits \subseteq Nat /\ Window \in Nat
  /\ MaxTick \in Nat /\ MaxToolCalls \in Nat

VARIABLES
  specs,       \* _tools: rate limit and access list of every registered tool
  callHistory, \* _call_history, per agent and tool
  currentTick, \* _current_tick
  stores,      \* the module's stores: queue, seq, kv and cron
  log          \* _usage_log, with the limit in force

toolkit == <<specs, callHistory, currentTick, stores, log>>

Never == MaxTick + 9  \* an expire_at of None

-----------------------------------------------------------------------------
(* The tools: what a request makes of the stores.  at is the current_tick   *)
(* the caller passes, 0 if it passes none.                                  *)

Sooner(e, f) ==
  \/ e.priority < f.priority
  \/ e.priority = f.priority /\ e.seq < f.seq

\* bisect.insort
Insorted(q, e) ==
  LET n == Cardinality({i \in DOMAIN q : Sooner(q[i], e)})
  IN SubSeq(q, 1, n) \o <<e>> \o SubSeq(q, n + 1, Len(q))

TaskQueue(r, s) ==
  [s EXCEPT
     !.queue = CASE r.op = "push" ->
                      Insorted(@, [priority |-> r.priority, seq |-> s.seq])
                 [] r.op = "pop" -> IF @ = << >> THEN @ ELSE Tail(@)
                 [] r.op = "clear" -> << >>,
     !.seq = IF r.op = "push" THEN @ + 1 ELSE @]

HasExpired(s, k, at) == at >= s.kv[k]

KeysOf(s, at) == {k \in DOMAIN s.kv : ~HasExpired(s, k, at)}

\* -2 for no key is 0 here too: of what is gone nothing remains.
Ttl(s, k, at) ==
  IF k \notin DOMAIN s.kv \/ HasExpired(s, k, at) THEN 0 ELSE s.kv[k] - at

\* get deletes what has expired.
KeyValueDb(r, at, s) ==
  LET keep == CASE r.op = "get" -> DOMAIN s.kv \ ({r.key} \ KeysOf(s, at))
                [] r.op = "set" -> DOMAIN s.kv \cup {r.key}
                [] r.op = "delete" -> DOMAIN s.kv \ {r.key}
                [] r.op = "flush" -> {}
  IN [s EXCEPT !.kv = [k \in keep |->
        IF r.op = "set" /\ k = r.key
        THEN IF r.ttl = Never THEN Never ELSE at + r.ttl
        ELSE s.kv[k]]]

Due(e, at) == at >= e.last + e.every

CronScheduler(r, at, s) ==
  [s EXCEPT !.cron =
     CASE r.op = "register" ->
            [n \in DOMAIN @ \cup {r.key} |->
               IF n = r.key
               THEN [every |-> r.every, since |-> at, last |-> at, fires |-> 0]
               ELSE @[n]]
       [] r.op = "unregister" -> [n \in DOMAIN @ \ {r.key} |-> @[n]]
       [] r.op = "tick" ->
            [n \in DOMAIN @ |->
               IF Due(@[n], at) THEN [@[n] EXCEPT !.last = at, !.fires = @ + 1]
               ELSE @[n]]]

\* A request without its required arguments.
Fails(r) == r.op = "incomplete"

Single(r, at, s) ==
  IF Fails(r) THEN s
  ELSE CASE r.tool = "task_queue" -> TaskQueue(r, s)
         [] r.tool = "key_value_db" -> KeyValueDb(r, at, s)
         [] r.tool = "cron_scheduler" -> CronScheduler(r, at, s)

\* The stages up to the first that fails; what they did stays.
DataPipeline(stages, at, s) ==
  LET reached[k \in 0 .. Len(stages)] ==
        IF k = 0 THEN s
        ELSE IF \E i \in 1 .. k : Fails(stages[i]) THEN reached[k - 1]
        ELSE Single(stages[k], at, reached[k - 1])
  IN reached[Len(stages)]

After(r, at, s) ==
  IF r.tool = "data_pipeline" THEN DataPipeline(r.stages, at, s)
  ELSE Single(r, at, s)

-----------------------------------------------------------------------------
(* ToolManager                                                              *)

\* A tool that anybody may call.
NewSpec(limit) == [limit |-> limit, allowed |-> {}]

\* A tool that is registered already raises.
RegisterTool(tool, limit) ==
  /\ tool \notin DOMAIN specs
  /\ specs' = [t \in DOMAIN specs \cup {tool} |->
                 IF t = tool THEN NewSpec(limit) ELSE specs[t]]
  /\ UNCHANGED <<callHistory, currentTick, stores, log>>

\* The history of its calls stays.
DeregisterTool(tool) ==
  /\ specs' = [t \in DOMAIN specs \ {tool} |-> specs[t]]
  /\ UNCHANGED <<callHistory, currentTick, stores, log>>

GrantAccess(tool, a) ==
  /\ tool \in DOMAIN specs
  /\ specs' = [specs EXCEPT ![tool].allowed = @ \cup {a}]
  /\ UNCHANGED <<callHistory, currentTick, stores, log>>

RevokeAccess(tool, a) ==
  /\ tool \in DOMAIN specs
  /\ specs' = [specs EXCEPT ![tool].allowed = @ \ {a}]
  /\ UNCHANGED <<callHistory, currentTick, stores, log>>

\* An empty list admits all.
CheckAccess(tool, a) ==
  a = "kernel" \/ specs[tool].allowed = {} \/ a \in specs[tool].allowed

\* Mutant of InWindow: the oldest tick of the window is left out.
InShorterWindow(t) == t + Window > currentTick

InWindow(t) == t + Window >= currentTick

Recent(tool, a) ==
  IF specs[tool].limit = 0 THEN callHistory[<<a, tool>>]
  ELSE LET h == callHistory[<<a, tool>>]
       IN Selected(h, {i \in DOMAIN h : InWindow(h[i])})

\* execute: a call over the limit still trims the history; a call whose tool
\* fails counts.
Execute(a, r, at) ==
  /\ r.tool \in DOMAIN specs
  /\ CheckAccess(r.tool, a)
  /\ LET recent == Recent(r.tool, a)
         limit == specs[r.tool].limit
     IN IF limit > 0 /\ Len(recent) >= limit
        THEN /\ callHistory' = [callHistory EXCEPT ![<<a, r.tool>>] = recent]
             /\ UNCHANGED <<stores, log>>
        ELSE /\ Len(log) < MaxToolCalls
             /\ callHistory' = [callHistory EXCEPT ![<<a, r.tool>>] =
                                  Append(recent, currentTick)]
             /\ stores' = After(r, at, stores)
             /\ log' = Append(log, [agent |-> a, tool |-> r.tool,
                                    tick |-> currentTick, limit |-> limit])
  /\ UNCHANGED <<specs, currentTick>>

SetTick ==
  /\ currentTick < MaxTick
  /\ currentTick' = currentTick + 1
  /\ UNCHANGED <<specs, callHistory, stores, log>>

\* register_extended_tools has been called.
ToolsInit ==
  /\ \E limit \in Limits : specs = [t \in ToolNames |-> NewSpec(limit)]
  /\ callHistory = [x \in Callers \X ToolNames |-> << >>]
  /\ currentTick = 0
  /\ stores = [queue |-> << >>, seq |-> 0, kv |-> << >>, cron |-> << >>]
  /\ log = << >>

ToolsNext ==
  \/ SetTick
  \/ \E tool \in Managed :
       \/ \E limit \in Limits : RegisterTool(tool, limit)
       \/ DeregisterTool(tool)
       \/ \E a \in Callers : GrantAccess(tool, a) \/ RevokeAccess(tool, a)
  \/ \E a \in Callers, r \in Requests, at \in {0, currentTick} :
       Execute(a, r, at)

ToolsSpec == ToolsInit /\ [][ToolsNext]_toolkit

-----------------------------------------------------------------------------
\* The calls of one agent to one tool up to the i-th, within its window.
Burst(i) ==
  {j \in 1 .. i : /\ log[j].agent = log[i].agent /\ log[j].tool = log[i].tool
                  /\ log[j].tick + Window >= log[i].tick}

(***************************************************************************)
(* No call exceeds its limit, counted over the whole log although only a   *)
(* trimmed history is kept, through refusals, new registrations and calls  *)
(* of other agents.  The queue is ordered by urgency and then by age, a    *)
(* cron entry fires at most once per interval whatever ticks it is given,  *)
(* and of a key that is not listed nothing remains.                        *)
(***************************************************************************)
ToolsKeepCount ==
  /\ \A i \in DOMAIN log :
       log[i].limit > 0 => Cardinality(Burst(i)) <= log[i].limit
  /\ \A i, j \in DOMAIN stores.queue :
       i < j => Sooner(stores.queue[i], stores.queue[j])
  /\ \A n \in DOMAIN stores.cron :
       LET e == stores.cron[n] IN e.since + e.fires * e.every <= e.last
  /\ \A k \in StoreKeys :
       (k \in KeysOf(stores, currentTick)) = (Ttl(stores, k, currentTick) > 0)
=============================================================================
