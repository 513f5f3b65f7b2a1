------------------------------- MODULE Kernel -------------------------------
(***************************************************************************)
(* The kernel of src/battousai/kernel.py after boot(): spawn_agent,        *)
(* kill_agent, the system calls that change kernel state, tick() and       *)
(* run().                                                                  *)
(*                                                                         *)
(* Everything runs on one thread, but not atomically: the kernel calls the *)
(* agents' think(), on_spawn() and on_terminate(), and these call the      *)
(* kernel back, so spawns and kills nest inside each other and inside the  *)
(* loop of tick().  One action is the code between two such calls.         *)
(*                                                                         *)
(* The i-th call of spawn_agent creates the agent with id i (the code's id *)
(* is a name and this counter).                                            *)
(***************************************************************************)
EXTENDS ProcessTable, FiniteSets

CONSTANTS
  MaxAgents,  \* bound: calls of spawn_agent in a behaviour
  MaxTicks,   \* bound: ticks in a behaviour
  MaxDepth,   \* bound: nesting of on_spawn and on_terminate calls
  HostCalls,  \* scheduler operations the host may call between ticks
  AgentCalls  \* scheduler operations an agent may call during a tick

SchedulerOps == {"block", "unblock", "terminate", "reprioritize"}

ASSUME IdsAssumption == MaxAgents \in Nat /\ Ids = 1 .. MaxAgents
ASSUME MaxTicksAssumption == MaxTicks \in Nat
ASSUME MaxDepthAssumption == MaxDepth \in Nat
ASSUME CallsAssumption ==
         HostCalls \subseteq SchedulerOps /\ AgentCalls \subseteq SchedulerOps

VARIABLES
  now,        \* Kernel._tick
  halted,     \* Kernel._halted
  budget,     \* the ticks run() has still to make; 0 outside run()
  counter,    \* Kernel._agent_counter
  agents,     \* the keys of Kernel._agents
  mailboxes,  \* the ids registered with the IPC manager
  spaces,     \* the ids that have an agent memory space
  files,      \* the ids i for which /agents/<i> is, or holds, a file in the way
  born,       \* ProcessDescriptor.spawn_tick
  killCount,  \* Kernel._kill_count
  inTick,     \* is tick() running?
  todo,       \* what is left of ready_this_tick
  current,    \* agent_id in the loop of tick(), while its think() runs
  thought,    \* history: the agents whose think() was called this tick
  stack       \* the on_spawn and on_terminate calls in progress, innermost first

kernelVars == <<now, halted, budget, counter, agents, mailboxes, spaces, files,
                born, killCount>>
loopVars   == <<inTick, todo, current, thought>>
vars       == <<table, kernelVars, loopVars, stack>>

Frame == [hook : {"on_spawn", "on_terminate"}, of : Ids]

TypeOK ==
  /\ TableTypeOK
  /\ now \in 0 .. MaxTicks
  /\ halted \in BOOLEAN
  /\ budget \in 0 .. MaxTicks
  /\ counter \in Nat
  /\ agents \subseteq Ids /\ mailboxes \subseteq Ids
  /\ spaces \subseteq Ids /\ files \subseteq Ids
  /\ born \in [Ids -> 0 .. MaxTicks]
  /\ killCount \in Nat
  /\ inTick \in BOOLEAN
  /\ todo \in Seq(Ids)
  /\ current \in Ids \cup {None}
  /\ thought \subseteq Ids
  /\ stack \in Seq(Frame)

Init ==
  /\ TableInit
  /\ now = 0 /\ halted = FALSE /\ budget = 0 /\ counter = 0
  /\ agents = {} /\ mailboxes = {} /\ spaces = {} /\ files = {}
  /\ born = [i \in Ids |-> 0]
  /\ killCount = 0
  /\ inTick = FALSE /\ todo = <<>> /\ current = None /\ thought = {}
  /\ stack = <<>>

-----------------------------------------------------------------------------
(* Who is executing.                                                        *)

\* The host program, outside run() and every hook it triggered.
InHost == ~inTick /\ budget = 0 /\ stack = <<>>

\* Some agent's code: a hook, or think().
InAgent == stack # <<>> \/ current # None

\* The agent whose code is executing; meaningful when InAgent.
Caller == IF stack # <<>> THEN Head(stack).of ELSE current

Push(hook, i) ==
  /\ Len(stack) < MaxDepth
  /\ stack' = <<[hook |-> hook, of |-> i]>> \o stack

-----------------------------------------------------------------------------
(* spawn_agent, from the host or as a system call.                          *)

Fresh == counter + 1

\* The constructor of the agent class raises: only the counter has moved.
SpawnConstructorFails ==
  /\ InHost \/ InAgent
  /\ Fresh \in Ids
  /\ counter' = Fresh
  /\ UNCHANGED <<table, now, halted, budget, agents, mailboxes, spaces, files,
                 born, killCount, loopVars, stack>>

\* mkdir raises NotADirectoryError: the mailbox and the memory space stay.
SpawnMkdirFails ==
  /\ InHost \/ InAgent
  /\ Fresh \in Ids
  /\ Fresh \in files
  /\ counter' = Fresh
  /\ mailboxes' = mailboxes \cup {Fresh}
  /\ spaces' = spaces \cup {Fresh}
  /\ UNCHANGED <<table, now, halted, budget, agents, files, born, killCount,
                 loopVars, stack>>

\* The agent exists before its on_spawn() is called.
Spawn ==
  /\ InHost \/ InAgent
  /\ Fresh \in Ids
  /\ Fresh \notin files
  /\ counter' = Fresh
  /\ mailboxes' = mailboxes \cup {Fresh}
  /\ spaces' = spaces \cup {Fresh}
  /\ \E p \in PriorityArgs : AddProcess(Fresh, p)
  /\ born' = [born EXCEPT ![Fresh] = now]
  /\ agents' = agents \cup {Fresh}
  /\ Push("on_spawn", Fresh)
  /\ UNCHANGED <<now, halted, budget, files, killCount, loopVars>>

\* on_spawn() returns or raises: spawn_agent has nothing left to do.
SpawnReturn ==
  /\ stack # <<>>
  /\ Head(stack).hook = "on_spawn"
  /\ stack' = Tail(stack)
  /\ UNCHANGED <<table, kernelVars, loopVars>>

-----------------------------------------------------------------------------
(* kill_agent, from the host or as a system call.  A kill of an id that is  *)
(* not in _agents returns False and changes nothing.                        *)

Kill(i) ==
  /\ InHost \/ InAgent
  /\ i \in agents
  /\ Push("on_terminate", i)
  /\ UNCHANGED <<table, kernelVars, loopVars>>

\* Mutant of Release: the memory space is forgotten.
ReleaseMailbox(gone) == mailboxes' = mailboxes \ gone /\ UNCHANGED spaces

\* What kill_agent and tick give back for agents that are gone.
Release(gone) ==
  /\ mailboxes' = mailboxes \ gone
  /\ spaces' = spaces \ gone

\* If on_terminate() killed the same agent, del raises KeyError before the
\* kill is counted a second time.
KillCountAfter(i) == IF i \in agents THEN killCount + 1 ELSE killCount

\* on_terminate() returns or raises.
KillReturn ==
  /\ stack # <<>>
  /\ Head(stack).hook = "on_terminate"
  /\ LET i == Head(stack).of IN
       /\ TerminateProcess(i)
       /\ Release({i})
       /\ agents' = agents \ {i}
       /\ killCount' = KillCountAfter(i)
  /\ stack' = Tail(stack)
  /\ UNCHANGED <<now, halted, budget, counter, files, born, loopVars>>

-----------------------------------------------------------------------------
(* The other calls that change what is modelled here.                       *)

\* The yield_cpu system call.
Yield ==
  /\ InAgent
  /\ YieldCpu(Caller)
  /\ UNCHANGED <<kernelVars, loopVars, stack>>

\* A file written where the home directory of a future agent will be made.
WriteFile(i) ==
  /\ InHost \/ InAgent
  /\ i > counter
  /\ files' = files \cup {i}
  /\ UNCHANGED <<table, now, halted, budget, counter, agents, mailboxes,
                 spaces, born, killCount, loopVars, stack>>

\* kernel.halt()
Halt ==
  /\ InHost \/ InAgent
  /\ halted' = TRUE
  /\ UNCHANGED <<table, now, budget, counter, agents, mailboxes, spaces, files,
                 born, killCount, loopVars, stack>>

\* kernel.scheduler is public: operations on the process table that no system
\* call offers (the Supervisor calls terminate_process on itself).
Allowed(op) == (InHost /\ op \in HostCalls) \/ (InAgent /\ op \in AgentCalls)

SchedulerCall(i) ==
  /\ \/ Allowed("block") /\ BlockProcess(i)
     \/ Allowed("unblock") /\ UnblockProcess(i)
     \/ Allowed("terminate") /\ TerminateProcess(i)
     \/ Allowed("reprioritize") /\ \E p \in PriorityArgs : Reprioritize(i, p)
  /\ UNCHANGED <<kernelVars, loopVars, stack>>

-----------------------------------------------------------------------------
(* tick().                                                                  *)

Queued(i) == InQueue(i, priority[i])

\* Mutant of Ready: only the first process of each queue.
ReadyHeads ==
  {i \in Ids : state[i] = "READY" /\
     \E p \in Priorities : queues[p] # <<>> /\ Head(queues[p]) = i}

\* The processes the snapshot takes.
Ready == {i \in Ids : state[i] = "READY" /\ \E p \in Priorities : InQueue(i, p)}

\* i is met before j by the walk over the queues, best priority first.
QueuedBefore(i, j) ==
  \E p, q \in Priorities :
    \E m \in DOMAIN queues[p], n \in DOMAIN queues[q] :
      /\ queues[p][m] = i /\ queues[q][n] = j
      /\ p < q \/ (p = q /\ m < n)

\* ready_this_tick: the READY processes in the order of that walk.
ReadyOrders ==
  {s \in SetToSeqs(Ready) :
     \A m, n \in DOMAIN s : m < n => QueuedBefore(s[m], s[n])}

\* run(n) enters its loop; a call of tick() alone is TickBegin below.
Run(n) ==
  /\ InHost
  /\ now + n <= MaxTicks
  /\ budget' = n
  /\ UNCHANGED <<table, now, halted, counter, agents, mailboxes, spaces, files,
                 born, killCount, loopVars, stack>>

\* The loop of run() breaks.
RunBreak ==
  /\ ~inTick
  /\ budget > 0
  /\ halted
  /\ budget' = 0
  /\ UNCHANGED <<table, now, halted, counter, agents, mailboxes, spaces, files,
                 born, killCount, loopVars, stack>>

\* tick() starts, called by run() or by the host: only run() looks at halted.
TickBegin ==
  /\ InHost \/ (~inTick /\ budget > 0 /\ ~halted)
  /\ now < MaxTicks
  /\ now' = now + 1
  /\ budget' = IF budget > 0 THEN budget - 1 ELSE 0
  /\ inTick' = TRUE
  /\ \E s \in ReadyOrders : todo' = s
  /\ UNCHANGED <<table, halted, counter, agents, mailboxes, spaces, files, born,
                 killCount, current, thought, stack>>

InLoop == inTick /\ current = None /\ stack = <<>>

\* Mutant of RestOfTick: the loop does not advance.
SameTick == todo

\* What the loop has still to do after its next agent.
RestOfTick == Tail(todo)

\* The next agent was killed, collected or terminated earlier in this tick.
Skip ==
  /\ InLoop
  /\ todo # <<>>
  /\ Head(todo) \notin agents \/ state[Head(todo)] = "TERMINATED"
  /\ todo' = RestOfTick
  /\ UNCHANGED <<table, kernelVars, inTick, current, thought, stack>>

\* The next agent's think() is called.
Dispatch ==
  /\ InLoop
  /\ todo # <<>>
  /\ LET i == Head(todo) IN
       /\ i \in agents
       /\ state[i] # "TERMINATED"
       /\ state' = [state EXCEPT ![i] = "RUNNING"]
       /\ remaining' = [remaining EXCEPT ![i] = @ - 1]
       /\ current' = i
       /\ thought' = thought \cup {i}
  /\ todo' = RestOfTick
  /\ UNCHANGED <<priority, yields, queues, running, kernelVars, inTick, stack>>

\* think() returns or raises; what happens next depends on the state its
\* process is in now.
ThinkReturn ==
  /\ inTick
  /\ current # None
  /\ stack = <<>>
  /\ \/ /\ \/ state[current] = "RUNNING"
           \/ state[current] # "WAITING" /\ current \in yields
        /\ state' = [state EXCEPT ![current] = "READY"]
        /\ ResetSlice(current)
        /\ UNCHANGED <<priority, queues, running>>
     \/ /\ state[current] = "WAITING"
        /\ queues' = Dequeued(current)
        /\ UNCHANGED <<state, priority, remaining, yields, running>>
     \/ /\ state[current] \notin {"RUNNING", "WAITING"}
        /\ current \notin yields
        /\ UNCHANGED table
  /\ current' = None
  /\ UNCHANGED <<kernelVars, inTick, todo, thought, stack>>

\* Agents whose process is TERMINATED are collected, and tick() returns.
Collect ==
  /\ InLoop
  /\ todo = <<>>
  /\ LET gone == {i \in agents : state[i] = "TERMINATED"} IN
       /\ agents' = agents \ gone
       /\ Release(gone)
  /\ inTick' = FALSE
  /\ thought' = {}
  /\ UNCHANGED <<table, now, halted, budget, counter, files, born, killCount,
                 todo, current, stack>>

-----------------------------------------------------------------------------
Return == SpawnReturn \/ KillReturn \/ ThinkReturn

Loop == RunBreak \/ (budget > 0 /\ TickBegin) \/ Skip \/ Dispatch \/ Collect

Next ==
  \/ SpawnConstructorFails \/ SpawnMkdirFails \/ Spawn \/ SpawnReturn
  \/ \E i \in Ids : Kill(i) \/ WriteFile(i) \/ SchedulerCall(i)
  \/ KillReturn \/ Yield \/ Halt
  \/ \E n \in 1 .. MaxTicks : Run(n)
  \/ RunBreak \/ TickBegin \/ Skip \/ Dispatch \/ ThinkReturn \/ Collect

Spec == Init /\ [][Next]_vars

\* The single thread keeps executing the kernel's own code, and the agents'
\* methods return.
FairSpec == Spec /\ WF_vars(Loop) /\ WF_vars(Return)

-----------------------------------------------------------------------------
(* Properties.                                                              *)

(***************************************************************************)
(* An agent is live exactly if it has all of its resources: the ids in     *)
(* _agents are the scheduled ids that have a mailbox, and whoever has a    *)
(* mailbox has a memory space and conversely (an id with both that was     *)
(* never scheduled is what a failed mkdir leaves behind).  spawn_agent     *)
(* acquires and kill_agent and tick release them one by one around hooks   *)
(* that may spawn and kill (kernel.py:158-179, 192-201, 465-474).          *)
(***************************************************************************)
ResourcesMatch ==
  /\ mailboxes \cap known = agents
  /\ spaces = mailboxes

(***************************************************************************)
(* Kills are not counted twice: the agents that are live and those that    *)
(* were killed are, together, at most those that were spawned, also when   *)
(* on_terminate() kills the agent that is being killed.                    *)
(***************************************************************************)
KillsCounted == killCount + Cardinality(agents) <= Cardinality(known)

(***************************************************************************)
(* A live agent that can run stands in the queue of its priority, so the   *)
(* next tick will find it.                                                 *)
(***************************************************************************)
NoAgentIsLost ==
  \A i \in agents : state[i] \in {"READY", "RUNNING"} => Queued(i)

(***************************************************************************)
(* kernel.py:402: "All READY agents get a turn each tick".  When the loop  *)
(* of tick() is over, every live READY agent that is older than the tick   *)
(* has had its think() called, whatever was spawned and killed meanwhile.  *)
(***************************************************************************)
EveryAgentThinks ==
  InLoop /\ todo = <<>> =>
    \A i \in agents : state[i] = "READY" /\ born[i] < now => i \in thought

(***************************************************************************)
(* kernel.py:403-404: "exactly one think() call this tick": think() is not *)
(* called twice for one agent in one tick, although an agent that ran is   *)
(* READY again and still in its queue.                                     *)
(***************************************************************************)
OneThinkPerTick ==
  [][\A i \in Ids : current' = i /\ current # i => i \notin thought]_vars

(***************************************************************************)
(* kernel.py:415: "agents spawned mid-tick don't run until next tick".     *)
(***************************************************************************)
NewcomersWait == \A i \in thought : born[i] < now

(***************************************************************************)
(* run() returns: every tick ends and the loop makes no more than the      *)
(* ticks it was asked for, although agents spawn, kill, block and unblock  *)
(* each other and themselves in their turns.                               *)
(***************************************************************************)
RunReturns == (inTick \/ budget > 0) ~> (~inTick /\ budget = 0)

(***************************************************************************)
(* scheduler.py:20: "TERMINATED - Execution complete; will be collected    *)
(* and removed".  The code disagrees: an agent that terminates its process *)
(* and yields in the same think() becomes READY again (kernel.py:459-461), *)
(* is not collected, and is in no queue.                                   *)
(***************************************************************************)
TerminatedIsCollected ==
  [][\A i \in agents : state[i] = "TERMINATED" => state'[i] = "TERMINATED"]_vars
=============================================================================
