------------------------------ MODULE SignedIpc ------------------------------
(***************************************************************************)
(* SignedIPCManager with its KeyRing and SigningAuditor: threads that send *)
(* and deliver messages while keys are rotated and the policy is changed.  *)
(* A thread carries the steps its call still has to take; each of them is  *)
(* one section under a lock, or one read of the policy, which has none.    *)
(*                                                                         *)
(* Keys are the numbers of their generation, 0 is no key.  A message is    *)
(* its sender and the key of its signature: verify says whether that key   *)
(* is the one it is given.  The ring of recent events is left out.         *)
(***************************************************************************)
EXTENDS Naturals, Sequences, FiniteSets

CONSTANTS
  Signers,
  Threads,
  MaxKeys,     \* bound on keys generated
  MaxChanges,  \* bound on changes of the policy
  MaxCalls     \* bound on calls

SignedIpcAssumption == MaxKeys \in Nat /\ MaxChanges \in Nat /\ MaxCalls \in Nat

Policies == {"PERMISSIVE", "SIGN_REQUIRED", "STRICT"}
Counters == {"total_verified", "total_failed", "total_unsigned"}
Events == {"sign", "verify_ok", "verify_fail", "unsigned_bypass", "reject"}
Rules == {"outgoing", "bad_signature", "unsigned"}

VARIABLES
  keys,     \* _keys of the ring
  lastKey,  \* keys generated
  policy,   \* _policy
  changes,  \* changes of the policy
  totals,   \* the three counters
  audit,    \* _counts of the auditor
  calls,    \* calls so far
  message,  \* per thread: the message of its call
  steps,    \* per thread: what its call has still to do
  held,     \* history, per thread: keys of the sender since the call began
  inForce   \* history, per thread: policies since the call began

ring == <<keys, lastKey>>
ledger == <<totals, audit>>
sinceCall == <<held, inForce>>
signing == <<ring, policy, changes, ledger, calls, message, steps, sinceCall>>

Idle(t) == steps[t] = << >>

Does(t, what) == ~Idle(t) /\ Head(steps[t]) \in what

Continue(t, rest) == steps' = [steps EXCEPT ![t] = rest]

-----------------------------------------------------------------------------
(* KeyRing and policy.                                                      *)

SetKey(a, k) ==
  /\ keys' = [keys EXCEPT ![a] = k]
  /\ held' = [t \in Threads |->
                IF ~Idle(t) /\ message[t].from = a THEN held[t] \cup {k} ELSE held[t]]

\* SigningKey.generate
NewKey(a) ==
  /\ lastKey < MaxKeys
  /\ lastKey' = lastKey + 1
  /\ SetKey(a, lastKey + 1)
  /\ UNCHANGED <<policy, changes, ledger, calls, message, steps, inForce>>

\* A key may also be one its agent had before, from_bytes.
RegisterAgent(a) ==
  \/ NewKey(a)
  \/ /\ \E k \in 1 .. lastKey : SetKey(a, k)
     /\ UNCHANGED <<lastKey, policy, changes, ledger, calls, message, steps, inForce>>

\* Of an agent that has a key.
RotateKey(a) == keys[a] # 0 /\ NewKey(a)

RemoveAgent(a) ==
  /\ keys[a] # 0
  /\ SetKey(a, 0)
  /\ UNCHANGED <<lastKey, policy, changes, ledger, calls, message, steps, inForce>>

SetPolicy(p) ==
  /\ changes < MaxChanges
  /\ changes' = changes + 1
  /\ policy' = p
  /\ inForce' = [t \in Threads |-> IF Idle(t) THEN inForce[t] ELSE inForce[t] \cup {p}]
  /\ UNCHANGED <<ring, ledger, calls, message, steps, held>>

-----------------------------------------------------------------------------
(* The calls.                                                               *)

Call(t, m, program) ==
  /\ Idle(t)
  /\ calls < MaxCalls
  /\ calls' = calls + 1
  /\ message' = [message EXCEPT ![t] = m]
  /\ Continue(t, program)
  /\ held' = [held EXCEPT ![t] = {keys[m.from]}]
  /\ inForce' = [inForce EXCEPT ![t] = {policy}]
  /\ UNCHANGED <<ring, policy, changes, ledger>>

\* send
SignedSend(t, a) == Call(t, [from |-> a, key |-> 0], <<"sender_key">>)

\* verify_and_deliver of a message signed with any key there ever was, or none.
VerifyAndDeliver(t, a, k) ==
  Call(t, [from |-> a, key |-> k],
       IF k = 0 THEN <<"total_unsigned", "unsigned">> ELSE <<"verify_key">>)

\* send_unsigned
SendUnsigned(t, a) ==
  \E audited \in BOOLEAN :
    Call(t, [from |-> a, key |-> 0],
         (IF audited THEN <<"unsigned_bypass">> ELSE << >>)
           \o <<"total_unsigned", "deliver">>)

Signed(m, k) == [m EXCEPT !.key = k]

\* get_key of the sender, to sign with.
LookUpToSign(t) ==
  /\ Does(t, {"sender_key"})
  /\ message' = [message EXCEPT ![t] = Signed(@, keys[@.from])]
  /\ Continue(t, IF keys[message[t].from] # 0 THEN <<"sign", "deliver">>
                 ELSE <<"outgoing">>)
  /\ UNCHANGED <<ring, policy, changes, ledger, calls, sinceCall>>

\* Mutant of Valid: keys from before a rotation still verify.
ValidOnce(m, k) == k # 0 /\ m.key <= k

Valid(m, k) == k # 0 /\ m.key = k

\* get_key of the sender, to verify with.
LookUpToVerify(t) ==
  /\ Does(t, {"verify_key"})
  /\ Continue(t, IF Valid(message[t], keys[message[t].from])
                 THEN <<"total_verified", "verify_ok", "deliver">>
                 ELSE <<"total_failed", "verify_fail", "bad_signature">>)
  /\ UNCHANGED <<ring, policy, changes, ledger, calls, message, sinceCall>>

\* Which policies refuse what.
Refuses(rule, p) ==
  IF rule = "unsigned" THEN p = "STRICT" ELSE p \in {"SIGN_REQUIRED", "STRICT"}

\* A refusal is audited, except that of a send, and raises SigningError.
Enforce(t) ==
  /\ Does(t, Rules)
  /\ LET rule == Head(steps[t]) IN
       Continue(t, IF Refuses(rule, policy)
                   THEN (IF rule = "outgoing" THEN << >> ELSE <<"reject">>)
                   ELSE (IF rule = "unsigned" THEN <<"unsigned_bypass">> ELSE << >>)
                          \o <<"deliver">>)
  /\ UNCHANGED <<ring, policy, changes, ledger, calls, message, sinceCall>>

\* _increment
Increment(t) ==
  /\ Does(t, Counters)
  /\ totals' = [totals EXCEPT ![Head(steps[t])] = @ + 1]
  /\ Continue(t, Tail(steps[t]))
  /\ UNCHANGED <<ring, policy, changes, audit, calls, message, sinceCall>>

\* _log
Log(t) ==
  /\ Does(t, Events)
  /\ audit' = [audit EXCEPT ![Head(steps[t])] = @ + 1]
  /\ Continue(t, Tail(steps[t]))
  /\ UNCHANGED <<ring, policy, changes, totals, calls, message, sinceCall>>

\* The IPC manager gets the plain message.
Deliver(t) ==
  /\ Does(t, {"deliver"})
  /\ Continue(t, Tail(steps[t]))
  /\ UNCHANGED <<ring, policy, changes, ledger, calls, message, sinceCall>>

SigningInit ==
  /\ keys = [a \in Signers |-> 0]
  /\ lastKey = 0
  /\ policy \in Policies
  /\ changes = 0
  /\ totals = [c \in Counters |-> 0]
  /\ audit = [e \in Events |-> 0]
  /\ calls = 0
  /\ message = [t \in Threads |-> [from |-> CHOOSE a \in Signers : TRUE, key |-> 0]]
  /\ steps = [t \in Threads |-> << >>]
  /\ held = [t \in Threads |-> {}]
  /\ inForce = [t \in Threads |-> {}]

SigningNext ==
  \/ \E a \in Signers : RegisterAgent(a) \/ RotateKey(a) \/ RemoveAgent(a)
  \/ \E p \in Policies \ {policy} : SetPolicy(p)
  \/ \E t \in Threads :
       \/ \E a \in Signers : SignedSend(t, a) \/ SendUnsigned(t, a)
       \/ \E a \in Signers, k \in 0 .. lastKey : VerifyAndDeliver(t, a, k)
       \/ LookUpToSign(t) \/ LookUpToVerify(t) \/ Enforce(t)
       \/ Increment(t) \/ Log(t) \/ Deliver(t)

SigningSpec == SigningInit /\ [][SigningNext]_signing

-----------------------------------------------------------------------------
(***************************************************************************)
(* A message whose signature is looked at reaches its recipient only if    *)
(* its sender held the key of that signature at some time since the call   *)
(* began, or a policy that lets bad signatures pass was in force at some   *)
(* time since; however rotations, removals and changes of the policy fall  *)
(* between the two reads, which share no lock.                             *)
(***************************************************************************)
DeliveredWithReason ==
  [][\A t \in Threads :
       Deliver(t) /\ message[t].key # 0
         => message[t].key \in held[t] \/ "PERMISSIVE" \in inForce[t]]_signing
=============================================================================
