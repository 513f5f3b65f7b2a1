-------------------------------- MODULE Sandbox --------------------------------
(***************************************************************************)
(* src/battousai/sandbox.py: SandboxedProcess runs a function in a child   *)
(* that first takes rights from itself, layer by layer, and the parent     *)
(* waits for it.  The parent reads the pipe only when the child has ended, *)
(* so a child whose answer does not fit into the pipe waits for a reader.  *)
(***************************************************************************)
EXTENDS Naturals, Sequences, SequencesExt

CONSTANTS
  Capabilities,  \* what the agent may have been granted
  Environ,       \* the variables of os.environ in the parent
  Suspicious,    \* those whose value looks like a credential
  Platforms,     \* which limits can be set, and whether unshare() and prctl() work
  Timeouts,      \* whether start() may be given a timeout
  MaxStarts      \* bound on calls of start()

Names == {"PATH", "HOME", "http_proxy", "OTHER"}

SandboxAssumption ==
  /\ Environ \subseteq Names /\ Suspicious \subseteq Environ
  /\ Capabilities \subseteq {"ADMIN", "FILE_WRITE", "NETWORK"}
  /\ Timeouts \subseteq BOOLEAN /\ Timeouts # {}
  /\ MaxStarts \in Nat

VARIABLES
  platform,   \* the machine
  profile,    \* self.profile
  timeout,    \* self.timeout is not None
  parent,     \* where start() is
  child,      \* every child started: where it is, and what was done to it
  pipe,       \* what can be read from the pipe of each child
  results,    \* what start() returned for each
  lastReport  \* _last_report

vars == <<platform, profile, timeout, parent, child, pipe, results, lastReport>>

-----------------------------------------------------------------------------
(* The profile and the filter it asks for                                   *)

\* capability_to_profile; the administrator's memory and time are not limited.
ProfileOf(granted) ==
  IF "ADMIN" \in granted
  THEN [writable |-> TRUE, network |-> TRUE, whitelist |-> {},
        limits |-> {"file_descriptors", "processes"}]
  ELSE [writable |-> "FILE_WRITE" \in granted, network |-> "NETWORK" \in granted,
        whitelist |-> {"PATH"} \cup {n \in {"http_proxy"} : "NETWORK" \in granted},
        limits |-> {"memory", "cpu", "file_descriptors", "processes"}]

\* System calls, each number for those a filter adds to the one before it.
Minimal == {1, 2}
Standard == Minimal \cup {3}
Network == Standard \cup {4}

ChooseAllowedSyscalls(p) ==
  IF p.network THEN Network ELSE IF p.writable THEN Standard ELSE Minimal

\* _build_bpf_program: a jump skips jt instructions when the number matches.
BuildBpfProgram(numbers) ==
  LET sorted == SetToSortSeq(numbers, <)
      n == Len(sorted)
      jeq(i) == [op |-> "jeq", jt |-> n - i, k |-> sorted[i]]
  IN <<[op |-> "ld"]>> \o [i \in 1 .. n |-> jeq(i)]
       \o <<[op |-> "kill"], [op |-> "allow"]>>

\* What the kernel does with a system call under a program.
Verdict(program, number) ==
  LET from[at \in DOMAIN program] ==
        LET insn == program[at] IN
        CASE insn.op = "ld" -> from[at + 1]
          [] insn.op = "jeq" ->
               from[at + 1 + IF insn.k = number THEN insn.jt ELSE 0]
          [] OTHER -> insn.op
  IN from[1]

-----------------------------------------------------------------------------
(* The child                                                                *)

DefaultBlacklist == {"HOME"}

Sanitize(environ, p) ==
  {n \in environ \ DefaultBlacklist : p.whitelist # {} => n \in p.whitelist}

At(i, place) == i \in DOMAIN child /\ child[i].pc = place

SanitizeEnv(i) ==
  /\ At(i, "environment")
  /\ child' = [child EXCEPT ![i].pc = "limits",
                            ![i].environ = Sanitize(Environ, profile)]
  /\ UNCHANGED <<platform, profile, timeout, parent, pipe, results, lastReport>>

\* A limit that cannot be set is left out.
ApplyLimits(i) ==
  /\ At(i, "limits")
  /\ child' = [child EXCEPT ![i].pc = "namespaces",
                            ![i].limits = profile.limits \cap platform.limits]
  /\ UNCHANGED <<platform, profile, timeout, parent, pipe, results, lastReport>>

\* create_sandbox: unshare() enters all of them or none.
CreateSandbox(i) ==
  /\ At(i, "namespaces")
  /\ child' = [child EXCEPT
       ![i].pc = "filter",
       ![i].namespaces = IF platform.unshare
                         THEN {"user", "pid", "mount"} \cup
                                {n \in {"network"} : ~profile.network}
                         ELSE {}]
  /\ UNCHANGED <<platform, profile, timeout, parent, pipe, results, lastReport>>

\* apply() asks for no new privileges, then fails to cast the program to a
\* pointer, catches the error and answers False: nothing is installed.
ApplyFilter(i) ==
  /\ At(i, "filter")
  /\ child' = [child EXCEPT
       ![i].pc = "target",
       ![i].program = IF platform.prctl
                      THEN BuildBpfProgram(ChooseAllowedSyscalls(profile))
                      ELSE << >>]
  /\ UNCHANGED <<platform, profile, timeout, parent, pipe, results, lastReport>>

Level(c) ==
  IF c.namespaces # {} /\ c.limits # {} THEN "full" ELSE "partial"

Report(c) ==
  [seccomp |-> FALSE, namespaces |-> c.namespaces, limits |-> c.limits,
   sanitized |-> TRUE, scrubbed |-> Suspicious, level |-> Level(c)]

NoReport ==
  [seccomp |-> FALSE, namespaces |-> {}, limits |-> {},
   sanitized |-> FALSE, scrubbed |-> {}, level |-> "minimal"]

\* The target returns, raises, ends the process, or never ends; it may have
\* made the process deaf to SIGTERM.
RunTarget(i) ==
  /\ At(i, "target")
  /\ \E how \in {"returned", "raised", "died", "hung"}, deaf \in BOOLEAN :
       child' = [child EXCEPT
         ![i].pc = CASE how = "died" -> "ended" [] how = "hung" -> "hung"
                     [] OTHER -> "sending",
         ![i].did = how, ![i].deaf = deaf]
  /\ UNCHANGED <<platform, profile, timeout, parent, pipe, results, lastReport>>

\* result_conn.send: what cannot be pickled ends the child; what does not fit
\* into the pipe waits for a reader, and no parent reads while its child lives.
SendResult(i) ==
  /\ At(i, "sending")
  /\ \E payload \in {"fits", "too_large", "not_picklable", "not_readable"} :
       /\ child' = [child EXCEPT ![i].pc = IF payload = "too_large" THEN "blocked"
                                           ELSE "ended"]
       /\ pipe' = [pipe EXCEPT ![i] = CASE payload = "fits" -> child[i].did
                                        [] payload = "not_readable" -> payload
                                        [] OTHER -> "nothing"]
  /\ UNCHANGED <<platform, profile, timeout, parent, results, lastReport>>

Alive(i) == child[i].pc # "ended"

\* A crash, a signal of somebody else, a limit that is hit.
Crash(i) ==
  /\ i \in DOMAIN child /\ Alive(i)
  /\ child' = [child EXCEPT ![i].pc = "ended"]
  /\ UNCHANGED <<platform, profile, timeout, parent, pipe, results, lastReport>>

-----------------------------------------------------------------------------
(* The parent: start()                                                      *)

Current == Len(child)

Start ==
  /\ parent = "idle" /\ Current < MaxStarts
  /\ parent' = "joining"
  /\ child' = Append(child, [pc |-> "environment", environ |-> Environ, limits |-> {},
                             namespaces |-> {}, program |-> << >>, did |-> "nothing",
                             deaf |-> FALSE])
  /\ pipe' = Append(pipe, "nothing")
  /\ UNCHANGED <<platform, profile, timeout, results, lastReport>>

\* join(timeout) returns: the child has ended, or the time is over.
Join ==
  /\ parent = "joining"
  /\ ~Alive(Current) \/ timeout
  /\ parent' = "asking"
  /\ UNCHANGED <<platform, profile, timeout, child, pipe, results, lastReport>>

Return(outcome, report) ==
  /\ results' = Append(results, [outcome |-> outcome, enforcement |-> report])
  /\ lastReport' = report
  /\ parent' = "idle"

\* Mutant of Terminated: a child that overruns is left to itself.
LeftAlone(c) == c

\* SIGTERM
Terminated(c) == IF c.deaf THEN c ELSE [c EXCEPT !.pc = "ended"]

\* is_alive: the child is terminated, and joined for five seconds.
Overrun ==
  /\ parent = "asking" /\ Alive(Current)
  /\ child' = [child EXCEPT ![Current] = Terminated(@)]
  /\ Return("timeout", NoReport)
  /\ UNCHANGED <<platform, profile, timeout, pipe>>

\* The pipe of a child that ended holds its answer, or the end of the stream.
Read ==
  /\ parent = "asking" /\ ~Alive(Current)
  /\ IF pipe[Current] \in {"returned", "raised"}
     THEN Return(pipe[Current], Report(child[Current]))
     ELSE Return("no_result", NoReport)
  /\ UNCHANGED <<platform, profile, timeout, child, pipe>>

Init ==
  /\ platform \in Platforms
  /\ profile \in {ProfileOf(granted) : granted \in SUBSET Capabilities}
  /\ timeout \in Timeouts
  /\ parent = "idle"
  /\ child = << >> /\ pipe = << >> /\ results = << >>
  /\ lastReport = NoReport

Next ==
  \/ Start \/ Join \/ Overrun \/ Read
  \/ \E i \in 1 .. MaxStarts :
       \/ SanitizeEnv(i) \/ ApplyLimits(i) \/ CreateSandbox(i) \/ ApplyFilter(i)
       \/ RunTarget(i) \/ SendResult(i) \/ Crash(i)

Spec == Init /\ [][Next]_vars

-----------------------------------------------------------------------------
(***************************************************************************)
(* What start() says is true of the child when it says it: success and     *)
(* failure are those of the target, nothing is called a result that the    *)
(* child did not send, the report claims no layer that was not applied,    *)
(* and no child outlives its start() unless it is deaf to SIGTERM.         *)
(***************************************************************************)
ResultIsTrue ==
  \A i \in DOMAIN results :
    LET r == results[i]
        its == child[i]
    IN /\ r.outcome \in {"returned", "raised"} => r.outcome = its.did /\ ~Alive(i)
       /\ r.outcome = "no_result" => \/ its.did \in {"nothing", "died", "hung"}
                                     \/ pipe[i] \in {"nothing", "not_readable"}
       /\ r.enforcement.namespaces \subseteq its.namespaces
       /\ r.enforcement.limits \subseteq its.limits
       /\ r.enforcement.level = "full" => its.namespaces # {} /\ its.limits # {}
       /\ Alive(i) => its.deaf
       /\ i = Len(results) => lastReport = r.enforcement

(***************************************************************************)
(* The filter admits the system calls it is built from and no others       *)
(* ("Build a BPF program that ALLOWS the listed syscalls and KILLs         *)
(* others").                                                               *)
(***************************************************************************)
FilterAdmitsListed ==
  \A i \in DOMAIN child :
    child[i].program # << >> =>
      \A number \in Network :
        (Verdict(child[i].program, number) = "allow")
          = (number \in ChooseAllowedSyscalls(profile))
=============================================================================
