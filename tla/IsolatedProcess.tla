--------------------------- MODULE IsolatedProcess ---------------------------
(***************************************************************************)
(* An agent in a process of its own (src/battousai/isolation.py): the      *)
(* kernel's IsolatedAgentProcess, the child that runs the agent, and the   *)
(* two directions of the pipe between them.                                *)
(*                                                                         *)
(* Both sides wait with timeouts and neither says which request a message  *)
(* belongs to.  The model numbers ticks and system calls to say what the   *)
(* messages do not; no guard of an action looks at these numbers.  Any     *)
(* wait that has a timeout may time out, if Timeouts says so.              *)
(***************************************************************************)
EXTENDS Integers, Sequences, FiniteSets

CONSTANTS
  MaxTicks,  \* bound: the last tick number sent
  MaxAsked,  \* bound: the number of the last system call
  Timeouts,  \* the waits that may time out
  CanCrash   \* may the child be killed, by its resource limits for instance?

Waits == {"start", "tick", "syscall", "stop"}

IsolatedProcessAssumption ==
  /\ MaxTicks \in Nat /\ MaxAsked \in Nat
  /\ Timeouts \subseteq Waits /\ CanCrash \in BOOLEAN

VARIABLES
  parent,     \* where the thread that uses IsolatedAgentProcess is
  isRunning,  \* IsolatedAgentProcess._running
  child,      \* where the child process is
  toChild,    \* messages on their way to the child
  toParent,   \* messages on their way to the parent
  tick,       \* the number of the last tick sent
  thinking,   \* the tick the child thinks for, or thought for last
  asked,      \* the number of the child's last system call
  finished,   \* the ticks whose think() returned
  answered,   \* the system call the child's last result belongs to, if any
  outcome,    \* how the last tick_with_handler ended
  late        \* history: the waits of this process that timed out

isolated == <<parent, isRunning, child, toChild, toParent, tick, thinking, asked,
              finished, answered, outcome, late>>

\* n is the number of the tick or the system call the message is about.
Msg(type, n) == [type |-> type, n |-> n]

IsolatedInit ==
  /\ parent = "host" /\ isRunning = FALSE /\ child = "none"
  /\ toChild = <<>> /\ toParent = <<>>
  /\ tick = 0 /\ thinking = 0 /\ asked = 0
  /\ finished = {} /\ answered = 0 /\ outcome = "none" /\ late = {}

\* A message sent to a process that has exited raises BrokenPipeError.
Dead == child \in {"none", "exited"}

-----------------------------------------------------------------------------
(* start().  Nobody starts a process that runs.                             *)

Start ==
  /\ parent = "host"
  /\ Dead
  /\ parent' = "starting"
  /\ child' = "booting"
  /\ toChild' = <<>> /\ toParent' = <<>>
  /\ isRunning' = FALSE
  /\ late' = {}
  /\ UNCHANGED <<tick, thinking, asked, finished, answered, outcome>>

Started ==
  /\ parent = "starting"
  /\ toParent # <<>>
  /\ Head(toParent).type # "error"
  /\ toParent' = Tail(toParent)
  /\ parent' = "host"
  /\ isRunning' = TRUE
  /\ UNCHANGED <<child, toChild, tick, thinking, asked, finished,
                 answered, outcome, late>>

\* Mutant of StartFails: a child that is too slow is left alone.
StartGivesUp ==
  /\ parent = "starting"
  /\ \/ toParent # <<>> /\ Head(toParent).type = "error"
     \/ toParent = <<>> /\ (child = "exited" \/ "start" \in Timeouts)
  /\ parent' = "host"
  /\ UNCHANGED <<isRunning, child, toChild, toParent, tick, thinking, asked,
                 finished, answered, outcome, late>>

\* An error, the end of the pipe, or no message in time: terminate() and raise.
StartFails ==
  /\ parent = "starting"
  /\ \/ toParent # <<>> /\ Head(toParent).type = "error"
     \/ toParent = <<>> /\ (child = "exited" \/ "start" \in Timeouts)
  /\ child' = "exited"
  /\ parent' = "host"
  /\ UNCHANGED <<isRunning, toChild, toParent, tick, thinking, asked, finished,
                 answered, outcome, late>>

-----------------------------------------------------------------------------
(* tick_with_handler().                                                     *)

TickBegin ==
  /\ parent = "host"
  /\ isRunning /\ ~Dead
  /\ tick < MaxTicks
  /\ tick' = tick + 1
  /\ toChild' = Append(toChild, Msg("tick", tick'))
  /\ parent' = "ticking"
  /\ UNCHANGED <<isRunning, child, toParent, thinking, asked, finished,
                 answered, outcome, late>>

TickEnds(how) ==
  /\ parent' = "host"
  /\ outcome' = how

\* tick_done or an error; whose tick it was is not known.
TickDone ==
  /\ parent = "ticking"
  /\ toParent # <<>>
  /\ \/ Head(toParent).type = "tick_done" /\ TickEnds("ok")
     \/ Head(toParent).type = "error" /\ TickEnds("error")
  /\ toParent' = Tail(toParent)
  /\ UNCHANGED <<isRunning, child, toChild, tick, thinking, asked,
                 finished, answered, late>>

\* Mutant of Serve: a handler that raises is answered in finally as well.
ServeTwice ==
  /\ parent = "ticking"
  /\ toParent # <<>>
  /\ Head(toParent).type = "syscall"
  /\ ~Dead
  /\ toParent' = Tail(toParent)
  /\ LET result == Msg("syscall_result", Head(toParent).n) IN
       toChild' \in {Append(toChild, result), toChild \o <<result, result>>}
  /\ UNCHANGED <<parent, isRunning, child, tick, thinking, asked, finished,
                 answered, outcome, late>>

\* The handler runs, and the result, or its exception, goes back; if the child
\* has died meanwhile, the send raises out of tick_with_handler.
Serve ==
  /\ parent = "ticking"
  /\ toParent # <<>>
  /\ Head(toParent).type = "syscall"
  /\ toParent' = Tail(toParent)
  /\ IF Dead
     THEN TickEnds("raised") /\ UNCHANGED toChild
     ELSE /\ toChild' = Append(toChild, Msg("syscall_result", Head(toParent).n))
          /\ UNCHANGED <<parent, outcome>>
  /\ UNCHANGED <<isRunning, child, tick, thinking, asked, finished, answered, late>>

\* The deadline passes: the tick is given up, the child is not told.
TickTimesOut ==
  /\ parent = "ticking"
  /\ "tick" \in Timeouts
  /\ TickEnds("timeout")
  /\ late' = late \cup {"tick"}
  /\ UNCHANGED <<isRunning, child, toChild, toParent, tick, thinking, asked,
                 finished, answered>>

\* The child is gone: recv() raises EOFError out of tick_with_handler.
TickBreaks ==
  /\ parent = "ticking"
  /\ Dead /\ toParent = <<>>
  /\ TickEnds("raised")
  /\ UNCHANGED <<isRunning, child, toChild, toParent, tick, thinking, asked,
                 finished, answered, late>>

-----------------------------------------------------------------------------
(* stop().                                                                  *)

Stop ==
  /\ parent = "host"
  /\ isRunning
  /\ IF Dead THEN parent' = "joining" /\ UNCHANGED toChild
     ELSE /\ parent' = "acking"
          /\ toChild' = Append(toChild, Msg("shutdown", 0))
  /\ UNCHANGED <<isRunning, child, toParent, tick, thinking, asked, finished,
                 answered, outcome, late>>

\* One message, whatever it is, or the end of the pipe, or a timeout.
AckOrNot ==
  /\ parent = "acking"
  /\ \/ toParent # <<>> /\ toParent' = Tail(toParent)
     \/ toParent = <<>> /\ (Dead \/ "stop" \in Timeouts) /\ UNCHANGED toParent
  /\ parent' = "joining"
  /\ UNCHANGED <<isRunning, child, toChild, tick, thinking, asked, finished,
                 answered, outcome, late>>

\* Mutant of Joined: join() has no timeout.
JoinedAtLast ==
  /\ parent = "joining"
  /\ Dead
  /\ parent' = "host"
  /\ isRunning' = FALSE
  /\ UNCHANGED <<child, toChild, toParent, tick, thinking, asked, finished,
                 answered, outcome, late>>

\* join(), then terminate() if the child is still alive.
Joined ==
  /\ parent = "joining"
  /\ Dead \/ "stop" \in Timeouts
  /\ child' = "exited"
  /\ parent' = "host"
  /\ isRunning' = FALSE
  /\ UNCHANGED <<toChild, toParent, tick, thinking, asked, finished, answered,
                 outcome, late>>

-----------------------------------------------------------------------------
(* The child.                                                               *)

Boot ==
  /\ child = "booting"
  /\ \/ child' = "listening" /\ toParent' = Append(toParent, Msg("ready", 0))
     \/ child' = "exited" /\ toParent' = Append(toParent, Msg("error", 0))
  /\ UNCHANGED <<parent, isRunning, toChild, tick, thinking, asked, finished,
                 answered, outcome, late>>

\* The main loop; a syscall_result that comes here belongs to a system call
\* that has timed out, and is dropped.
Listen ==
  /\ child = "listening"
  /\ toChild # <<>>
  /\ toChild' = Tail(toChild)
  /\ LET m == Head(toChild) IN
       \/ /\ m.type = "tick"
          /\ child' = "thinking"
          /\ thinking' = m.n
          /\ UNCHANGED toParent
       \/ /\ m.type = "syscall_result"
          /\ UNCHANGED <<child, thinking, toParent>>
       \/ /\ m.type = "shutdown"
          /\ child' = "exited"
          /\ toParent' = Append(toParent, Msg("shutdown_ack", 0))
          /\ UNCHANGED thinking
  /\ UNCHANGED <<parent, isRunning, tick, asked, finished, answered, outcome, late>>

\* think() makes a system call.
Ask ==
  /\ child = "thinking"
  /\ asked < MaxAsked
  /\ asked' = asked + 1
  /\ toParent' = Append(toParent, Msg("syscall", asked'))
  /\ child' = "asking"
  /\ UNCHANGED <<parent, isRunning, toChild, tick, thinking, finished,
                 answered, outcome, late>>

\* The next message, of whatever type, is taken for the result.
Answer ==
  /\ child = "asking"
  /\ toChild # <<>>
  /\ toChild' = Tail(toChild)
  /\ answered' = IF Head(toChild).type = "syscall_result" THEN Head(toChild).n ELSE 0
  /\ child' = "thinking"
  /\ UNCHANGED <<parent, isRunning, toParent, tick, thinking, asked,
                 finished, outcome, late>>

\* No message in 30 seconds: think() gets a failed result and goes on.
AnswerTimesOut ==
  /\ child = "asking"
  /\ "syscall" \in Timeouts
  /\ answered' = asked
  /\ late' = late \cup {"syscall"}
  /\ child' = "thinking"
  /\ UNCHANGED <<parent, isRunning, toChild, toParent, tick, thinking, asked,
                 finished, outcome>>

\* think() returns or raises.
ThinkEnds ==
  /\ child = "thinking"
  /\ \/ /\ toParent' = Append(toParent, Msg("tick_done", thinking))
        /\ finished' = finished \cup {thinking}
     \/ /\ toParent' = Append(toParent, Msg("error", thinking))
        /\ UNCHANGED finished
  /\ child' = "listening"
  /\ UNCHANGED <<parent, isRunning, toChild, tick, thinking, asked,
                 answered, outcome, late>>

Crash ==
  /\ CanCrash
  /\ ~Dead
  /\ child' = "exited"
  /\ UNCHANGED <<parent, isRunning, toChild, toParent, tick, thinking, asked,
                 finished, answered, outcome, late>>

-----------------------------------------------------------------------------
Parent ==
  \/ Started \/ StartFails
  \/ TickDone \/ Serve \/ TickTimesOut \/ TickBreaks
  \/ AckOrNot \/ Joined

Child == Boot \/ Listen \/ Answer \/ AnswerTimesOut \/ ThinkEnds

IsolatedNext ==
  \/ Start \/ TickBegin \/ Stop
  \/ Parent
  \/ Child \/ Ask \/ Crash

IsolatedSpec == IsolatedInit /\ [][IsolatedNext]_isolated

\* Both processes run, and timers run out; think() returns.  Nothing makes the
\* host call, or an agent ask, anything.
IsolatedFairness == WF_isolated(Parent) /\ WF_isolated(Child)

-----------------------------------------------------------------------------
(* Properties.                                                              *)

(***************************************************************************)
(* No orphans: when stop() has returned, or start() has raised, the child  *)
(* does not run any more, whatever it was doing and however slow it was.   *)
(***************************************************************************)
NoOrphan == parent = "host" /\ ~isRunning => Dead

(***************************************************************************)
(* Every call of tick_with_handler() and of stop() returns, by an answer,  *)
(* the death of the child, or a timeout.                                   *)
(***************************************************************************)
CallsReturn == (parent # "host") ~> (parent = "host")

(***************************************************************************)
(* Replies match although messages do not say what they answer.  A tick    *)
(* "wait[s] for completion" (isolation.py:419): if it ends well and no     *)
(* tick of this process has timed out before, the think() of this very     *)
(* tick has returned.  A system call "block[s] until a result is received" *)
(* (160-161), its own, as long as nothing timed out.  And the agent thinks *)
(* for no tick twice nor for an older one, timeouts or not.                *)
(***************************************************************************)
RepliesMatch ==
  [][/\ parent = "ticking" /\ parent' = "host" /\ outcome' = "ok" /\ "tick" \notin late
          => tick \in finished
     /\ child = "asking" /\ child' = "thinking" /\ late = {} => answered' = asked
     /\ child \notin {"thinking", "asking"} /\ child' = "thinking"
          => thinking' > thinking]_isolated

(***************************************************************************)
(* isolation.py:419: a tick will "wait for completion".  The code          *)
(* disagrees after a tick timed out: its tick_done is still in the pipe    *)
(* and ends the next tick at once (isolation.py:481-482).                  *)
(***************************************************************************)
OkAlwaysMeansFinished ==
  [][parent = "ticking" /\ parent' = "host" /\ outcome' = "ok"
       => tick \in finished]_isolated
=============================================================================
