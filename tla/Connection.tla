----------------------------- MODULE Connection -----------------------------
(***************************************************************************)
(* The life of one client connection (connection.h, connection.cpp, the    *)
(* accepting end of server.cpp and the calls of protocol.h), from          *)
(* createConnection to its destructor.  Its handlers run on the network    *)
(* thread; the dispatcher thread sends and disconnects; connectionLock     *)
(* makes every body atomic except the two that do not take it.             *)
(* Asio is external: an operation in progress completes when the peer acts *)
(* or the socket is closed, its handler runs later, and cancelling a timer *)
(* does not recall a handler that is already queued.                       *)
(***************************************************************************)
EXTENDS Naturals, Sequences

CONSTANT MaxMessages   \* bound on the messages sent

ASSUME ConnectionAssumption == MaxMessages \in Nat

VARIABLES connectionState, \* CONNECTION_STATE_OPEN or _CLOSED
          socket,          \* "listening" until accepted, then "open", "broken"
                           \* once the peer is gone, "closed"
          protocol,        \* the Protocol_ptr is set
          messageQueue,
          reading,         \* the read in progress, with its state
          writing,         \* the state of the write in progress
          armed, fired,    \* timers running; timers whose handler is queued
          managed,         \* in ConnectionManager::connections
          destroyed,       \* ~Connection() has run
          messagesAccepted,        \* history: the messages send() took
          written,         \* history: the messages written whole
          releases,        \* history: Protocol::release tasks queued
          abrupt           \* history: forced shut, or the peer broke off

connectionVars == <<connectionState, socket, protocol, messageQueue, reading,
          writing, armed, fired, managed, destroyed, messagesAccepted, written, releases, abrupt>>

closing == <<connectionState, releases, managed>>
ops == <<reading, writing>>
timers == <<armed, fired>>
history == <<messagesAccepted, written>>

\* The state of an asynchronous operation: "ok" and "err" have a handler queued.
OpStates == {"none", "pending", "ok", "err"}
Timers == {"read", "write"}

ConnectionTypeOK ==
    /\ connectionState \in {"open", "closed"}
    /\ socket \in {"listening", "open", "broken", "closed"}
    /\ protocol \in BOOLEAN
    /\ messageQueue \in Seq(1..MaxMessages)
    /\ reading \in [part : {"header", "body"}, state : OpStates]
    /\ writing \in OpStates
    /\ armed \in SUBSET Timers /\ fired \in SUBSET Timers
    /\ managed \in BOOLEAN /\ destroyed \in BOOLEAN
    /\ messagesAccepted \in 0..MaxMessages /\ written \in 0..MaxMessages
    /\ releases \in Nat /\ abrupt \in BOOLEAN
    /\ destroyed => reading.state = "none" /\ writing = "none" /\ ~managed

\* createConnection, with async_accept under way.
ConnectionInit ==
    /\ connectionState = "open" /\ socket = "listening"
    /\ protocol = FALSE
    /\ messageQueue = <<>>
    /\ reading = [part |-> "header", state |-> "none"] /\ writing = "none"
    /\ armed = {} /\ fired = {}
    /\ managed = TRUE /\ destroyed = FALSE
    /\ messagesAccepted = 0 /\ written = 0 /\ releases = 0 /\ abrupt = FALSE

-----------------------------------------------------------------------------
(* What the handlers are made of.  They state the new value of every       *)
(* variable of one concern, given what the handler has done before.        *)

IsOpen == socket \in {"open", "broken"}

\* An operation started on a closed or broken socket fails at once.
Started(sock) == IF sock = "open" THEN "pending" ELSE "err"

\* Closing the socket aborts what is in progress.
Aborted(op) == IF op = "pending" THEN "err" ELSE op

\* close() on an OPEN connection shuts the socket unless messages are waiting.
ClosesSocket_always(force, queue) == TRUE
ClosesSocket(force, queue) == force \/ queue = <<>>

\* The release task is queued by the close() that finds the connection OPEN.
ReleaseTasks(prot) == IF connectionState = "open" /\ prot THEN 1 ELSE 0

\* close(force) in a handler that leaves queue in messageQueue, rd and wr in
\* progress, live timers and the protocol set as prot.
CloseConnection(force, queue, rd, wr, live, prot) ==
    LET shut == connectionState = "open" /\ ClosesSocket(force, queue)
    IN  /\ managed' = FALSE
        /\ connectionState' = "closed"
        /\ releases' = releases + ReleaseTasks(prot)
        /\ socket' = IF shut THEN "closed" ELSE socket
        /\ reading' = [rd EXCEPT !.state = IF shut THEN Aborted(@) ELSE @]
        /\ writing' = IF shut THEN Aborted(wr) ELSE wr
        /\ armed' = IF shut /\ IsOpen THEN {} ELSE live
        /\ abrupt' = (abrupt \/ (connectionState = "open" /\ force))

\* send() starts a write only if none is in progress.
StartsWrite_always == TRUE
StartsWrite == messageQueue = <<>>

Done(part) == [part |-> part, state |-> "none"]

\* Arm the read timer (again) and read the next part.
ReadNext_untimed(part) ==
    /\ armed' = armed \ {"read"}
    /\ reading' = [part |-> part, state |-> Started(socket)]
ReadNext(part) ==
    /\ armed' = armed \cup {"read"}
    /\ reading' = [part |-> part, state |-> Started(socket)]

-----------------------------------------------------------------------------
(* ServicePort::onAccept and Connection::accept                            *)

\* The peer has connected; single: the protocol exists from the start, and its
\* onConnect is a task of the dispatcher.
OnAccept(single) ==
    /\ socket = "listening"
    /\ socket' = "open"
    /\ protocol' = single
    /\ armed' = {"read"}
    /\ reading' = [part |-> "header", state |-> "pending"]
    /\ UNCHANGED <<messageQueue, writing, fired, destroyed, abrupt, closing, history>>

\* async_accept fails: the connection stays in ConnectionManager, never used.
AcceptFails ==
    /\ socket = "listening"
    /\ socket' = "closed" /\ abrupt' = TRUE
    /\ UNCHANGED <<protocol, messageQueue, destroyed, closing, ops, timers, history>>

\* The address is refused by acceptConnection (Ban), or it cannot be read.
RefuseAccept ==
    /\ socket = "listening"
    /\ connectionState' = "closed" /\ socket' = "closed" /\ managed' = FALSE
    /\ abrupt' = TRUE
    /\ UNCHANGED <<protocol, messageQueue, destroyed, releases, ops, timers, history>>

-----------------------------------------------------------------------------
(* The peer and the network                                                *)

PeerSends ==
    /\ reading.state = "pending" /\ socket = "open"
    /\ reading' = [reading EXCEPT !.state = "ok"]
    /\ UNCHANGED <<socket, protocol, messageQueue, writing, destroyed, abrupt, closing, timers, history>>

PeerReads ==
    /\ writing = "pending" /\ socket = "open"
    /\ writing' = "ok"
    /\ written' = Head(messageQueue)
    /\ UNCHANGED <<socket, protocol, messageQueue, reading, destroyed, messagesAccepted, abrupt, closing, timers>>

PeerBreaks ==
    /\ socket = "open"
    /\ socket' = "broken"
    /\ reading' = [reading EXCEPT !.state = Aborted(@)]
    /\ writing' = Aborted(writing)
    /\ abrupt' = TRUE
    /\ UNCHANGED <<protocol, messageQueue, destroyed, closing, timers, history>>

-----------------------------------------------------------------------------
(* Connection::parseHeader and parsePacket                                 *)

ParseHeader ==
    /\ reading.part = "header" /\ reading.state \in {"ok", "err"}
    /\ \/ /\ reading.state = "err"
          /\ CloseConnection(TRUE, messageQueue, Done("header"), writing, armed \ {"read"}, protocol)
       \/ /\ reading.state = "ok" /\ connectionState = "closed"
          /\ reading' = Done("header") /\ armed' = armed \ {"read"}
          /\ UNCHANGED <<socket, writing, abrupt, closing>>
       \/ /\ reading.state = "ok" /\ connectionState = "open"
          /\ \/ \E force \in BOOLEAN :  \* too many packets, or an illegal size
                   CloseConnection(force, messageQueue, Done("header"), writing, armed \ {"read"}, protocol)
             \/ /\ ReadNext("body")
                /\ UNCHANGED <<socket, writing, abrupt, closing>>
    /\ UNCHANGED <<protocol, messageQueue, fired, destroyed, history>>

\* The packet is whole: close it, or hand it to the protocol, which may answer
\* with disconnect(), and read on either way.
ParsePacket ==
    /\ reading.part = "body" /\ reading.state \in {"ok", "err"}
    /\ \/ /\ reading.state = "err"
          /\ CloseConnection(TRUE, messageQueue, Done("body"), writing, armed \ {"read"}, protocol)
          /\ UNCHANGED protocol
       \/ /\ reading.state = "ok" /\ connectionState = "closed"
          /\ reading' = Done("body") /\ armed' = armed \ {"read"}
          /\ UNCHANGED <<socket, writing, abrupt, protocol, closing>>
       \/ /\ reading.state = "ok" /\ connectionState = "open" /\ ~protocol
          /\ CloseConnection(TRUE, messageQueue, Done("body"), writing, armed \ {"read"}, FALSE)  \* make_protocol fails
          /\ UNCHANGED protocol
       \/ /\ reading.state = "ok" /\ connectionState = "open"
          /\ protocol' = TRUE
          /\ ReadNext("header")
          /\ UNCHANGED <<socket, writing, abrupt, closing>>
    /\ UNCHANGED <<messageQueue, fired, destroyed, history>>

\* The protocol answers the packet with disconnect(), or disconnectClient(),
\* which sends first; the connection reads on all the same.
ParseAndDisconnect(says) ==
    LET queue == IF says THEN Append(messageQueue, messagesAccepted + 1) ELSE messageQueue
        wr    == IF says /\ StartsWrite THEN Started(socket) ELSE writing
        rd    == IF ClosesSocket(FALSE, queue) THEN "err" ELSE Started(socket)
        live  == IF says /\ StartsWrite THEN armed \cup Timers ELSE armed \cup {"read"}
    IN  /\ reading = [part |-> "body", state |-> "ok"] /\ connectionState = "open"
        /\ protocol' = TRUE
        /\ says => messagesAccepted < MaxMessages
        /\ messagesAccepted' = IF says THEN messagesAccepted + 1 ELSE messagesAccepted
        /\ messageQueue' = queue
        /\ connectionState' = "closed" /\ managed' = FALSE /\ releases' = releases + 1
        /\ socket' = IF ClosesSocket(FALSE, queue) THEN "closed" ELSE socket
        /\ writing' = IF ClosesSocket(FALSE, queue) THEN Aborted(wr) ELSE wr
        /\ reading' = [part |-> "header", state |-> rd]
        /\ armed' = IF ClosesSocket(FALSE, queue) THEN {"read"} ELSE live
        /\ UNCHANGED <<fired, destroyed, written, abrupt>>

-----------------------------------------------------------------------------
(* Connection::send, internalSend and onWriteOperation                     *)

\* Somebody holds a shared_ptr, so that the protocol's weak_ptr can be locked.
Referenced_managed == managed
Referenced == managed \/ reading.state # "none" \/ writing # "none"

\* From the dispatcher, or from a protocol that goes on.
Send ==
    /\ protocol /\ Referenced /\ connectionState = "open"
    /\ messagesAccepted < MaxMessages
    /\ messagesAccepted' = messagesAccepted + 1
    /\ messageQueue' = Append(messageQueue, messagesAccepted + 1)
    /\ IF StartsWrite
       THEN /\ armed' = armed \cup {"write"}
            /\ writing' = Started(socket)
       ELSE UNCHANGED <<armed, writing>>
    /\ UNCHANGED <<socket, protocol, reading, fired, destroyed, written, abrupt, closing>>

\* Protocol::disconnect() from a task.
Disconnect ==
    /\ protocol /\ Referenced /\ connectionState = "open"
    /\ CloseConnection(FALSE, messageQueue, reading, writing, armed, TRUE)
    /\ UNCHANGED <<protocol, messageQueue, fired, destroyed, history>>

\* After the last write of a closed connection its socket is shut.
ShutsAfterWrite_never == FALSE
ShutsAfterWrite == connectionState = "closed"

\* After a failed write nothing of the queue is kept.
KeptAfterError == <<>>

OnWriteOperation ==
    LET left == Tail(messageQueue) IN
    /\ \/ /\ writing = "err"
          /\ messageQueue' = KeptAfterError
          /\ CloseConnection(TRUE, <<>>, reading, "none", armed \ {"write"}, protocol)
       \/ /\ writing = "ok" /\ left # <<>>
          /\ messageQueue' = left
          /\ writing' = Started(socket)
          /\ armed' = armed \cup {"write"}
          /\ UNCHANGED <<socket, reading, abrupt, closing>>
       \/ /\ writing = "ok" /\ left = <<>>
          /\ messageQueue' = <<>>
          /\ writing' = "none"
          /\ IF ShutsAfterWrite
             THEN /\ socket' = "closed"
                  /\ reading' = [reading EXCEPT !.state = Aborted(@)]
                  /\ armed' = IF IsOpen THEN {} ELSE armed \ {"write"}
             ELSE armed' = armed \ {"write"} /\ UNCHANGED <<socket, reading>>
          /\ UNCHANGED <<abrupt, closing>>
    /\ UNCHANGED <<protocol, fired, destroyed, history>>

-----------------------------------------------------------------------------
(* Timers                                                                  *)

TimerFires(t) ==
    /\ t \in armed
    /\ armed' = armed \ {t}
    /\ fired' = fired \cup {t}
    /\ UNCHANGED <<socket, protocol, messageQueue, destroyed, abrupt, closing, ops, history>>

\* handleTimeout holds a weak_ptr only.
HandleTimeout(t) ==
    /\ t \in fired
    /\ fired' = fired \ {t}
    /\ IF Referenced
       THEN CloseConnection(TRUE, messageQueue, reading, writing, armed, protocol)
       ELSE UNCHANGED <<socket, armed, abrupt, closing, ops>>
    /\ UNCHANGED <<protocol, messageQueue, destroyed, history>>

-----------------------------------------------------------------------------
(* ConnectionManager::closeAll and ~Connection                             *)

\* At shutdown, without connectionLock: the socket only.
CloseAll ==
    /\ managed /\ socket # "listening"
    /\ managed' = FALSE /\ socket' = "closed" /\ abrupt' = TRUE
    /\ reading' = [reading EXCEPT !.state = Aborted(@)]
    /\ writing' = Aborted(writing)
    /\ UNCHANGED <<connectionState, protocol, messageQueue, destroyed, releases, timers, history>>

\* The last shared_ptr is gone.
Destroy ==
    /\ ~Referenced /\ ~destroyed
    /\ destroyed' = TRUE /\ socket' = "closed" /\ armed' = {}
    /\ UNCHANGED <<protocol, messageQueue, fired, abrupt, closing, ops, history>>

Handlers ==
    \/ ParseHeader
    \/ ParsePacket
    \/ \E says \in BOOLEAN : ParseAndDisconnect(says)
    \/ OnWriteOperation

ConnectionNext ==
    \/ \E single \in BOOLEAN : OnAccept(single)
    \/ RefuseAccept
    \/ AcceptFails
    \/ PeerSends
    \/ PeerReads
    \/ PeerBreaks
    \/ Handlers
    \/ Send
    \/ Disconnect
    \/ \E t \in Timers : TimerFires(t) \/ HandleTimeout(t)
    \/ CloseAll
    \/ Destroy

ConnectionSpec == ConnectionInit /\ [][ConnectionNext]_connectionVars

\* The network thread runs the handlers that are queued, clocks advance and the
\* last reference destroys.  The peer owes nothing.
ConnectionFairness ==
    /\ WF_connectionVars(Handlers)
    /\ \A t \in Timers : WF_connectionVars(TimerFires(t)) /\ WF_connectionVars(HandleTimeout(t))
    /\ WF_connectionVars(Destroy)

FairSpec == ConnectionSpec /\ ConnectionFairness

\* The same with a peer that goes on reading what it is sent.
ReadingPeerSpec == FairSpec /\ WF_connectionVars(PeerReads)

-----------------------------------------------------------------------------
(* Properties                                                              *)

WriteWhileQueued == writing # "none" <=> messageQueue # <<>>

WithoutGap ==
    /\ messageQueue # <<>> =>
         Head(messageQueue) = (IF writing = "ok" THEN written ELSE written + 1)
    /\ \A i \in 1..(Len(messageQueue) - 1) : messageQueue[i + 1] = messageQueue[i] + 1

GracefulCloseDelivers ==
    socket = "closed" /\ ~abrupt => written = messagesAccepted

ReleasedOnce == releases = (IF connectionState = "closed" /\ protocol THEN 1 ELSE 0)

\* A write is in progress exactly while messages are queued, so that two writes
\* never interleave on the socket and pop_front() never meets an empty queue;
\* the messages arrive in the order of the calls of send(), without a gap; a
\* connection closed without force delivers what it had accepted before its
\* socket is shut: the client gets to read why it is disconnected.  However many
\* ways a connection is closed at once (error, timeout, protocol, rate limit),
\* the protocol is released exactly once.
WrittenAndReleased ==
    /\ ConnectionTypeOK
    /\ WriteWhileQueued
    /\ WithoutGap
    /\ GracefulCloseDelivers
    /\ ReleasedOnce

SilentPeerIsClosed ==
    (socket = "open" /\ reading.state = "pending") ~> (reading.state # "pending")

\* A silent peer does not keep a connection open: reads go on, or it closes.
\* Whatever the peer does then, a connection that has been closed is destroyed,
\* as long as the peer goes on reading.
ClosedIsDestroyed ==
    SilentPeerIsClosed /\ (connectionState = "closed" ~> destroyed)

\* The comment in close(), for a connection with messages waiting: "will be
\* closed by the destructor or onWriteOperation".
ClosedSocketShuts == connectionState = "closed" ~> socket = "closed"
=============================================================================
