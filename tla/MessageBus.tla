------------------------------ MODULE MessageBus ------------------------------
(***************************************************************************)
(* IPCManager of src/battousai/ipc.py: a mailbox of bounded size for each  *)
(* registered agent, unicast and broadcast, messages that expire unread,   *)
(* and the bulletin board.  All calls are made on the kernel's thread.     *)
(*                                                                         *)
(* A message's id is the number of the send that made it; the payload is   *)
(* left out.  The message log and the subscribers are read by nobody.      *)
(***************************************************************************)
EXTENDS Naturals, Sequences, FiniteSets, FiniteSetsExt

CONSTANTS
  Agents,    \* agent ids
  Everyone,  \* BROADCAST_ALL
  Kinds,     \* message types a host may send
  Lifetimes, \* ttl arguments; 0 means no expiry
  Capacity,  \* max_mailbox_size
  Topics,    \* names of topics
  MaxSent,   \* bound on sends
  MaxNow     \* bound on the clock

MessageBusAssumption ==
  /\ Everyone \notin Agents
  /\ Lifetimes \subseteq Nat
  /\ Capacity \in Nat \ {0}
  /\ MaxSent \in Nat /\ MaxNow \in Nat

VARIABLES
  boxes,        \* _mailboxes: the queue of every registered agent
  totalSent,    \* total_sent
  totalDropped, \* total_dropped
  topics,       \* what is published: topic to publisher and tick
  now,          \* the tick the kernel passes
  addressed,    \* history: the copies that were to be delivered
  taken         \* history: copies read, expired or gone with their mailbox

counts == <<totalSent, totalDropped, addressed>>
bus == <<boxes, counts, topics, now, taken>>

Message(from, to, kind, ttl) ==
  [from |-> from, to |-> to, kind |-> kind, ttl |-> ttl,
   id |-> totalSent + 1, sent |-> now]

Expired(m) == m.ttl > 0 /\ now - m.sent >= m.ttl

\* A broadcast does not come back to its sender.
Recipients(bs, m) == IF m.to = Everyone THEN DOMAIN bs \ {m.from} ELSE {m.to}

Takes(bs, i) == i \in DOMAIN bs /\ Len(bs[i]) < Capacity

\* Mailboxes after m is sent, and who it did not reach.
Delivered(bs, m) ==
  [i \in DOMAIN bs |-> IF i \in Recipients(bs, m) /\ Takes(bs, i)
                       THEN Append(bs[i], m) ELSE bs[i]]

\* Mutant of Refused: broadcasts to full mailboxes are not counted.
RefusedDirectly(bs, m) == {i \in {m.to} \ {Everyone} : ~Takes(bs, i)}

Refused(bs, m) == {i \in Recipients(bs, m) : ~Takes(bs, i)}

\* Whether send returns True.
Reached(bs, m) == Recipients(bs, m) # Refused(bs, m)

Counted(bs, m) ==
  /\ totalSent' = totalSent + 1
  /\ totalDropped' = totalDropped + Cardinality(Refused(bs, m))
  /\ addressed' = addressed + Cardinality(Recipients(bs, m))

Send(m) ==
  /\ totalSent < MaxSent
  /\ boxes' = Delivered(boxes, m)
  /\ Counted(boxes, m)
  /\ UNCHANGED <<topics, now, taken>>

\* The messages a mailbox loses when it is read or goes.
Loss(n) == taken' = taken + n

QueueOf(i) == IF i \in DOMAIN boxes THEN boxes[i] ELSE << >>

Without(i) == [j \in DOMAIN boxes \ {i} |-> boxes[j]]

\* A second registration starts from an empty mailbox.
Register(i) ==
  /\ boxes' = [j \in DOMAIN boxes \cup {i} |-> IF j = i THEN << >> ELSE boxes[j]]
  /\ Loss(Len(QueueOf(i)))
  /\ UNCHANGED <<counts, topics, now>>

Unregister(i) ==
  /\ boxes' = Without(i)
  /\ Loss(Len(QueueOf(i)))
  /\ UNCHANGED <<counts, topics, now>>

\* receive: up to the first message that has not expired.
Receive(i) ==
  /\ i \in DOMAIN boxes
  /\ LET q == boxes[i]
         n == Min({k \in DOMAIN q : ~Expired(q[k])} \cup {Len(q)})
     IN /\ boxes' = [boxes EXCEPT ![i] = SubSeq(@, n + 1, Len(@))]
        /\ Loss(n)
  /\ UNCHANGED <<counts, topics, now>>

\* receive_all
Inbox(i) == SelectSeq(boxes[i], LAMBDA m : ~Expired(m))

ReceiveAll(i) ==
  /\ i \in DOMAIN boxes
  /\ boxes' = [boxes EXCEPT ![i] = << >>]
  /\ Loss(Len(boxes[i]))
  /\ UNCHANGED <<counts, topics, now>>

Published(topic, i) ==
  topics' = [topics EXCEPT ![topic] = [publisher |-> i, tick |-> now]]

Publish(topic, i) ==
  /\ Published(topic, i)
  /\ UNCHANGED <<boxes, counts, now, taken>>

Tick ==
  /\ now < MaxNow
  /\ now' = now + 1
  /\ UNCHANGED <<boxes, counts, topics, taken>>

BusInit(registered) ==
  /\ boxes = [i \in registered |-> << >>]
  /\ totalSent = 0 /\ totalDropped = 0 /\ addressed = 0
  /\ topics = [topic \in Topics |-> [publisher |-> Everyone, tick |-> 0]]
  /\ now = 0
  /\ taken = 0

\* Senders need no mailbox: the kernel and the host send too.
BusNext ==
  \/ \E i \in Agents, to \in Agents \cup {Everyone}, k \in Kinds, ttl \in Lifetimes :
       Send(Message(i, to, k, ttl))
  \/ \E i \in Agents : Register(i) \/ Unregister(i) \/ Receive(i) \/ ReceiveAll(i)
  \/ \E i \in Agents, topic \in Topics : Publish(topic, i)
  \/ Tick

BusSpec == BusInit({}) /\ [][BusNext]_bus

-----------------------------------------------------------------------------
(***************************************************************************)
(* No message vanishes: every copy that was to be delivered is counted as  *)
(* dropped, waits in its mailbox, or was read, expired or lost with the    *)
(* mailbox, whatever mailboxes are full, missing or registered anew when a *)
(* broadcast reaches them; and what waits was sent in the order it waits.  *)
(***************************************************************************)
NothingVanishes ==
  /\ addressed = totalDropped + taken
                   + SumFunction([i \in DOMAIN boxes |-> Len(boxes[i])])
  /\ \A i \in DOMAIN boxes : \A m, n \in DOMAIN boxes[i] :
       m < n => boxes[i][m].id < boxes[i][n].id
=============================================================================
