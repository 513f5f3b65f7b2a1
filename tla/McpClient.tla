------------------------------ MODULE McpClient ------------------------------
(***************************************************************************)
(* MCPClient: threads that call tools of an external server process, the   *)
(* thread that connects and disconnects, and a reader thread for each      *)
(* connection.  _pending is under a lock; events and responses are not.    *)
(*                                                                         *)
(* The server is external: it answers requests in any order, or dies.      *)
(***************************************************************************)
EXTENDS Naturals, Sequences, FiniteSets

CONSTANTS
  Callers,         \* threads that call tools
  MaxPending,      \* max_pending_requests
  MaxConnections,  \* bound on connections
  MaxId,           \* bound on request ids
  SlowReaders,     \* whether a reader may outlive the two seconds of its join
  None

Connections == 1 .. MaxConnections
Ids == 1 .. MaxId

McpClientAssumption ==
  /\ MaxPending \in Nat \ {0}
  /\ MaxConnections \in Nat
  /\ MaxId \in Nat
  /\ SlowReaders \in BOOLEAN
  /\ None \notin Nat

VARIABLES
  connected,   \* _connected
  process,     \* connection of the current process, or None
  connections, \* connections so far
  stopping,    \* _stopping
  lifecycle,   \* where connect or disconnect is
  opening,     \* request id of the handshake
  lastId,      \* _next_id - 1
  pending,     \* ids in _pending
  signalled,   \* ids whose event is set
  answered,    \* ids whose response is there
  pc, request, \* per caller: where it is, and its request id
  since,       \* per caller: the connection it registered under; no guard reads it
  sentTo,      \* per caller: the connection it wrote to
  server,      \* per connection: "none", "up" or "dead"
  stdin,       \* per connection: whether it is open
  inbox,       \* per connection: requests the server has not answered
  stdout,      \* per connection: answers not read
  reader,      \* per connection: "none", "reading", "delivering", "ending", "ended"
  hand         \* per connection: the id the reader is delivering to

client == <<connected, process, connections, stopping, lifecycle, opening, lastId>>
calls == <<pc, request, since, sentTo>>
replies == <<signalled, answered>>
world == <<server, stdin, inbox, stdout>>
readers == <<reader, hand>>
vars == <<client, pending, calls, replies, world, readers>>

-----------------------------------------------------------------------------
(* connect, disconnect and _cleanup, on one thread.                         *)

\* connect spawns the server and its reader and registers the handshake.
Connect ==
  /\ lifecycle = "off"
  /\ connections < MaxConnections
  /\ lastId < MaxId
  /\ LET g == connections + 1
     IN /\ connections' = g
        /\ process' = g
        /\ server' = [server EXCEPT ![g] = "up"]
        /\ stdin' = [stdin EXCEPT ![g] = TRUE]
        /\ reader' = [reader EXCEPT ![g] = "reading"]
  /\ stopping' = FALSE
  /\ lastId' = lastId + 1
  /\ opening' = lastId + 1
  /\ pending' = pending \cup {lastId + 1}
  /\ lifecycle' = "opening"
  /\ UNCHANGED <<connected, calls, replies, inbox, stdout, hand>>

SendInitialize ==
  /\ lifecycle = "opening"
  /\ server[process] = "up"
  /\ inbox' = [inbox EXCEPT ![process] = @ \cup {opening}]
  /\ lifecycle' = "greeting"
  /\ UNCHANGED <<connected, process, connections, stopping, opening, lastId,
                 pending, calls, replies, server, stdin, stdout, readers>>

\* The write fails and leaves the entry of the handshake in _pending.
InitializeFails ==
  /\ lifecycle = "opening"
  /\ server[process] = "dead"
  /\ lifecycle' = "closing"
  /\ UNCHANGED <<connected, process, connections, stopping, opening, lastId,
                 pending, calls, replies, world, readers>>

\* The wait ends with the answer, with an event and no answer, or with its time.
Initialized ==
  /\ lifecycle = "greeting"
  /\ pending' = pending \ {opening}
  /\ \/ /\ opening \in signalled \cap answered
        /\ connected' = TRUE
        /\ lifecycle' = "on"
     \/ /\ lifecycle' = "closing"
        /\ UNCHANGED connected
  /\ UNCHANGED <<process, connections, stopping, opening, lastId,
                 calls, replies, world, readers>>

Disconnect ==
  /\ lifecycle = "on"
  /\ lifecycle' = "closing"
  /\ UNCHANGED <<connected, process, connections, stopping, opening, lastId,
                 pending, calls, replies, world, readers>>

\* _cleanup closes the server's input,
CloseInput ==
  /\ lifecycle = "closing"
  /\ stopping' = TRUE
  /\ stdin' = [stdin EXCEPT ![process] = FALSE]
  /\ lifecycle' = "waiting"
  /\ UNCHANGED <<connected, process, connections, opening, lastId, pending, calls,
                 replies, server, inbox, stdout, readers>>

\* waits until it is gone, killing it in the end,
Reap ==
  /\ lifecycle = "waiting"
  /\ server' = [server EXCEPT ![process] = "dead"]
  /\ process' = None
  /\ lifecycle' = "joining"
  /\ UNCHANGED <<connected, connections, stopping, opening, lastId, pending, calls,
                 replies, stdin, inbox, stdout, readers>>

\* Mutant of Joined: the reader is not waited for.
NotJoined(g) == TRUE

Joined(g) == reader[g] = "ended" \/ SlowReaders

\* and joins the reader, for two seconds.
Join ==
  /\ lifecycle = "joining"
  /\ Joined(connections)
  /\ lifecycle' = "off"
  /\ connected' = FALSE
  /\ UNCHANGED <<process, connections, stopping, opening, lastId, pending, calls,
                 replies, world, readers>>

Lifecycle ==
  \/ SendInitialize \/ InitializeFails \/ Initialized
  \/ CloseInput \/ Reap \/ Join

-----------------------------------------------------------------------------
(* _rpc_call.                                                               *)

\* The calls that find no connection change nothing.
TakeId(c) ==
  /\ pc[c] = "idle"
  /\ connected
  /\ lastId < MaxId
  /\ lastId' = lastId + 1
  /\ request' = [request EXCEPT ![c] = lastId + 1]
  /\ pc' = [pc EXCEPT ![c] = "called"]
  /\ UNCHANGED <<connected, process, connections, stopping, lifecycle, opening,
                 pending, since, sentTo, replies, world, readers>>

Return(c) ==
  /\ pc' = [pc EXCEPT ![c] = "idle"]
  /\ request' = [request EXCEPT ![c] = None]
  /\ since' = [since EXCEPT ![c] = None]
  /\ sentTo' = [sentTo EXCEPT ![c] = None]

Register(c) ==
  /\ pc[c] = "called"
  /\ IF Cardinality(pending) >= MaxPending
     THEN Return(c) /\ UNCHANGED pending
     ELSE /\ pending' = pending \cup {request[c]}
          /\ pc' = [pc EXCEPT ![c] = "registered"]
          /\ since' = [since EXCEPT ![c] = connections]
          /\ UNCHANGED <<request, sentTo>>
  /\ UNCHANGED <<client, replies, world, readers>>

\* Neither closed nor gone.
Writable == process # None /\ stdin[process]

Send(c) ==
  /\ pc[c] = "registered"
  /\ Writable
  /\ server[process] = "up"
  /\ inbox' = [inbox EXCEPT ![process] = @ \cup {request[c]}]
  /\ sentTo' = [sentTo EXCEPT ![c] = process]
  /\ pc' = [pc EXCEPT ![c] = "waiting"]
  /\ UNCHANGED <<client, pending, request, since, replies, server, stdin, stdout,
                 readers>>

\* A broken pipe is an OSError, which takes the entry back.
SendBreaks(c) ==
  /\ pc[c] = "registered"
  /\ Writable
  /\ server[process] = "dead"
  /\ pending' = pending \ {request[c]}
  /\ Return(c)
  /\ UNCHANGED <<client, replies, world, readers>>

\* A closed file is a ValueError and a process that is gone an AttributeError:
\* both go past the handler, and the entry stays.
SendRaises(c) ==
  /\ pc[c] = "registered"
  /\ ~Writable
  /\ Return(c)
  /\ UNCHANGED <<client, pending, replies, world, readers>>

\* The wait ends with the event and the entry is taken back.
Wake(c) ==
  /\ pc[c] = "waiting"
  /\ request[c] \in signalled
  /\ pending' = pending \ {request[c]}
  /\ pc' = [pc EXCEPT ![c] = "woken"]
  /\ UNCHANGED <<client, request, since, sentTo, replies, world, readers>>

\* The response is looked at.  A reader may have delivered it only just now.
Answered(c) ==
  /\ pc[c] = "woken"
  /\ request[c] \in answered
  /\ Return(c)
  /\ UNCHANGED <<client, pending, replies, world, readers>>

\* "Reader thread produced no response"
Lost(c) ==
  /\ pc[c] = "woken"
  /\ request[c] \notin answered
  /\ Return(c)
  /\ UNCHANGED <<client, pending, replies, world, readers>>

Timeout(c) ==
  /\ pc[c] = "waiting"
  /\ request[c] \notin signalled
  /\ pending' = pending \ {request[c]}
  /\ Return(c)
  /\ UNCHANGED <<client, replies, world, readers>>

-----------------------------------------------------------------------------
(* _reader_loop and _handle_incoming.                                       *)

\* A line is read and its id looked up; answers nobody waits for are dropped.
Read(g) ==
  /\ reader[g] = "reading"
  /\ stdout[g] # << >>
  /\ stdout' = [stdout EXCEPT ![g] = Tail(@)]
  /\ IF stopping
     THEN reader' = [reader EXCEPT ![g] = "ending"] /\ UNCHANGED hand
     ELSE IF Head(stdout[g]) \in pending
     THEN /\ reader' = [reader EXCEPT ![g] = "delivering"]
          /\ hand' = [hand EXCEPT ![g] = Head(stdout[g])]
     ELSE UNCHANGED readers
  /\ UNCHANGED <<client, pending, calls, replies, server, stdin, inbox>>

Deliver(g) ==
  /\ reader[g] = "delivering"
  /\ answered' = answered \cup {hand[g]}
  /\ signalled' = signalled \cup {hand[g]}
  /\ reader' = [reader EXCEPT ![g] = "reading"]
  /\ hand' = [hand EXCEPT ![g] = None]
  /\ UNCHANGED <<client, pending, calls, world>>

EndOfFile(g) ==
  /\ reader[g] = "reading"
  /\ stdout[g] = << >>
  /\ server[g] = "dead"
  /\ reader' = [reader EXCEPT ![g] = "ending"]
  /\ UNCHANGED <<client, pending, calls, replies, world, hand>>

\* The finally of the loop wakes whoever is registered, on any connection.
WokenAtEnd == pending

ReaderEnds(g) ==
  /\ reader[g] = "ending"
  /\ signalled' = signalled \cup WokenAtEnd
  /\ reader' = [reader EXCEPT ![g] = "ended"]
  /\ UNCHANGED <<client, pending, calls, answered, world, hand>>

Reader(g) == Read(g) \/ Deliver(g) \/ EndOfFile(g) \/ ReaderEnds(g)

-----------------------------------------------------------------------------
(* The server.                                                              *)
Respond(g) ==
  /\ server[g] = "up"
  /\ \E id \in inbox[g] :
       /\ inbox' = [inbox EXCEPT ![g] = @ \ {id}]
       /\ stdout' = [stdout EXCEPT ![g] = Append(@, id)]
  /\ UNCHANGED <<client, pending, calls, replies, server, stdin, readers>>

\* What it wrote before can still be read.
Die(g) ==
  /\ server[g] = "up"
  /\ server' = [server EXCEPT ![g] = "dead"]
  /\ UNCHANGED <<client, pending, calls, replies, stdin, inbox, stdout, readers>>

-----------------------------------------------------------------------------
Init ==
  /\ connected = FALSE
  /\ process = None
  /\ connections = 0
  /\ stopping = FALSE
  /\ lifecycle = "off"
  /\ opening = None
  /\ lastId = 0
  /\ pending = {}
  /\ signalled = {}
  /\ answered = {}
  /\ pc = [c \in Callers |-> "idle"]
  /\ request = [c \in Callers |-> None]
  /\ since = [c \in Callers |-> None]
  /\ sentTo = [c \in Callers |-> None]
  /\ server = [g \in Connections |-> "none"]
  /\ stdin = [g \in Connections |-> FALSE]
  /\ inbox = [g \in Connections |-> {}]
  /\ stdout = [g \in Connections |-> << >>]
  /\ reader = [g \in Connections |-> "none"]
  /\ hand = [g \in Connections |-> None]

Caller(c) ==
  \/ Register(c) \/ Send(c) \/ SendBreaks(c) \/ SendRaises(c)
  \/ Wake(c) \/ Answered(c) \/ Lost(c)

Next ==
  \/ Connect \/ Disconnect \/ Lifecycle
  \/ \E c \in Callers : TakeId(c) \/ Caller(c) \/ Timeout(c)
  \/ \E g \in Connections : Reader(g) \/ Respond(g) \/ Die(g)

\* Threads run on.  Nobody owes a timeout: it would hide a call left waiting.
Fairness ==
  /\ WF_vars(Lifecycle)
  /\ \A c \in Callers : WF_vars(Caller(c))
  /\ \A g \in Connections : WF_vars(Reader(g))

Spec == Init /\ [][Next]_vars /\ Fairness

-----------------------------------------------------------------------------
(***************************************************************************)
(* A dead server leaves nobody waiting: a call that wrote to it ends       *)
(* without its timeout, with the answer or an error, whether the server    *)
(* died by itself or was disconnected, and however the end of the reader   *)
(* falls between registering, writing and waiting.                         *)
(***************************************************************************)
DeadServerWakesCalls ==
  \A c \in Callers, g \in Connections :
    (pc[c] = "waiting" /\ sentTo[c] = g /\ server[g] = "dead") ~> pc[c] # "waiting"

(***************************************************************************)
(* "Reader thread produced no response" tells the truth: a call ends so    *)
(* only when the server it wrote to is gone or was disconnected from,      *)
(* unless readers outlive their join or the call itself began before that  *)
(* connection.  The wake-up at the end of a reader does not look at whose  *)
(* calls it wakes, so the reader of an old connection must be gone before  *)
(* there is a new one.                                                     *)
(***************************************************************************)
LostOnlyWithServer ==
  [][\A c \in Callers :
       Lost(c) /\ since[c] = sentTo[c]
         => server[sentTo[c]] = "dead" \/ ~stdin[sentTo[c]]]_vars
=============================================================================
