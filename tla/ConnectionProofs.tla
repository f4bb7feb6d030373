-------------------------- MODULE ConnectionProofs --------------------------
(***************************************************************************)
(* WrittenAndReleased holds of every connection, whatever the number of    *)
(* messages sent on it.                                                    *)
(*                                                                         *)
(* It is not inductive as it stands.  That the messages have no gap needs  *)
(* to know that the last one of the queue is the last one accepted; that   *)
(* a graceful close delivers needs to know that nothing but a forced close *)
(* or a peer that broke off makes a write fail or shuts the socket over a  *)
(* message that waits; and that the release is queued once needs to know   *)
(* that nothing is done with a connection before it is accepted.           *)
(***************************************************************************)
EXTENDS Connection, TLAPS

LastAccepted ==
    /\ messageQueue # <<>> => messageQueue[Len(messageQueue)] = messagesAccepted
    /\ messageQueue = <<>> /\ (connectionState = "open" \/ ~abrupt)
         => written = messagesAccepted

ShutOnPurpose ==
    /\ socket = "broken" \/ writing = "err" => abrupt
    /\ ~abrupt /\ ~managed => connectionState = "closed"
    /\ ~abrupt /\ socket = "closed" => connectionState = "closed" /\ messageQueue = <<>>

UnusedWhileListening ==
    socket = "listening" =>
        /\ managed /\ connectionState = "open" /\ ~protocol /\ messageQueue = <<>>
        /\ reading.state = "none" /\ armed = {} /\ fired = {}

IInv ==
    /\ ConnectionTypeOK /\ WriteWhileQueued /\ WithoutGap /\ ReleasedOnce
    /\ LastAccepted /\ ShutOnPurpose /\ UnusedWhileListening

-----------------------------------------------------------------------------
(* The queue *)

\* send() puts the next message behind the last one accepted, also when the
\* queue is empty.
LEMMA SendQueues ==
    ASSUME IInv, connectionState = "open", messagesAccepted < MaxMessages,
           NEW STATE queue, queue = Append(messageQueue, messagesAccepted + 1)
    PROVE  /\ queue \in Seq(1..MaxMessages) /\ queue # <<>>
           /\ queue[Len(queue)] = messagesAccepted + 1
           /\ Head(queue) = IF messageQueue = <<>> THEN written + 1 ELSE Head(messageQueue)
           /\ \A i \in 1..(Len(queue) - 1) : queue[i + 1] = queue[i] + 1
<1> USE ConnectionAssumption DEF ConnectionAssumption
<1>1. /\ messageQueue \in Seq(1..MaxMessages) /\ messagesAccepted \in 0..MaxMessages
      /\ written \in 0..MaxMessages
  BY DEF IInv, ConnectionTypeOK
<1>2. queue \in Seq(1..MaxMessages) /\ Len(queue) = Len(messageQueue) + 1
  BY <1>1
<1>3. \A i \in 1..Len(messageQueue) : queue[i] = messageQueue[i]
  BY <1>1
<1>4. queue[Len(queue)] = messagesAccepted + 1
  BY <1>1, <1>2
<1>5. Head(queue) = IF messageQueue = <<>> THEN written + 1 ELSE Head(messageQueue)
  BY <1>1, <1>2, <1>3, <1>4 DEF IInv, LastAccepted
<1>6. ASSUME NEW i \in 1..(Len(queue) - 1) PROVE queue[i + 1] = queue[i] + 1
  <2>1. CASE i = Len(messageQueue)
    BY <1>1, <1>2, <1>3, <1>4, <2>1 DEF IInv, LastAccepted
  <2>2. CASE i # Len(messageQueue)
    <3>1. i \in 1..(Len(messageQueue) - 1)
      BY <1>1, <1>2, <2>2
    <3> QED
      BY <1>1, <1>3, <3>1 DEF IInv, WithoutGap
  <2> QED
    BY <2>1, <2>2
<1>7. queue # <<>>
  <2>1. Len(queue) # 0
    BY <1>1, <1>2
  <2> QED
    BY <2>1
<1> QED
  BY <1>2, <1>4, <1>5, <1>6, <1>7

\* pop_front() after a write leaves the message that follows the one written at
\* the head, and the last one accepted at the end.
LEMMA PopQueues ==
    ASSUME IInv, writing = "ok", NEW STATE left, left = Tail(messageQueue)
    PROVE  /\ left \in Seq(1..MaxMessages)
           /\ left = <<>> => written = messagesAccepted
           /\ left # <<>> => /\ Head(left) = written + 1
                             /\ left[Len(left)] = messagesAccepted
           /\ \A i \in 1..(Len(left) - 1) : left[i + 1] = left[i] + 1
<1> USE ConnectionAssumption DEF ConnectionAssumption
<1>1. /\ messageQueue \in Seq(1..MaxMessages) /\ messageQueue # <<>>
      /\ messagesAccepted \in 0..MaxMessages /\ written \in 0..MaxMessages
      /\ messageQueue[1] = written /\ messageQueue[Len(messageQueue)] = messagesAccepted
  BY DEF IInv, ConnectionTypeOK, WriteWhileQueued, WithoutGap, LastAccepted
<1>2. /\ left \in Seq(1..MaxMessages) /\ Len(left) = Len(messageQueue) - 1
      /\ \A i \in 1..Len(left) : left[i] = messageQueue[i + 1]
  BY <1>1
<1>3. left = <<>> => Len(messageQueue) = 1
  <2>1. left = <<>> => Len(left) = 0
    OBVIOUS
  <2> QED
    BY <1>1, <1>2, <2>1
<1>4. left # <<>> => Head(left) = messageQueue[2] /\ messageQueue[2] = messageQueue[1] + 1
  <2>1. left # <<>> => /\ 1 \in 1..(Len(messageQueue) - 1) /\ Head(left) = left[1]
                       /\ 1 \in 1..Len(left)
    BY <1>1, <1>2
  <2>2. \A i \in 1..(Len(messageQueue) - 1) : messageQueue[i + 1] = messageQueue[i] + 1
    BY DEF IInv, WithoutGap
  <2>3. 1 + 1 = 2
    OBVIOUS
  <2> QED
    BY <1>2, <2>1, <2>2, <2>3
<1>5. left # <<>> => left[Len(left)] = messagesAccepted
  BY <1>1, <1>2
<1>6. ASSUME NEW i \in 1..(Len(left) - 1) PROVE left[i + 1] = left[i] + 1
  <2>1. i + 1 \in 1..(Len(messageQueue) - 1)
    BY <1>1, <1>2
  <2> QED
    BY <1>2, <2>1 DEF IInv, WithoutGap
<1> QED
  BY <1>1, <1>2, <1>3, <1>4, <1>5, <1>6

-----------------------------------------------------------------------------
(* Every handler keeps the invariant *)

USE ConnectionAssumption
    DEF ConnectionAssumption, OpStates, Timers, Aborted, Started, closing, ops, timers, history

\* A connection is first used when it is accepted.
LEMMA AcceptStep ==
    ASSUME IInv, RefuseAccept \/ AcceptFails \/ \E single \in BOOLEAN : OnAccept(single)
    PROVE  IInv'
<1> USE DEF IInv, ConnectionTypeOK, WriteWhileQueued, WithoutGap, ReleasedOnce, LastAccepted,
            ShutOnPurpose, UnusedWhileListening
<1>1. ASSUME NEW single \in BOOLEAN, OnAccept(single) PROVE IInv'
  BY <1>1 DEF OnAccept
<1>2. CASE RefuseAccept
  BY <1>2 DEF RefuseAccept
<1>3. CASE AcceptFails
  BY <1>3 DEF AcceptFails
<1> QED
  BY <1>1, <1>2, <1>3

\* The peer completes the operations in progress, or makes them fail.
LEMMA PeerStep ==
    ASSUME IInv, PeerSends \/ PeerReads \/ PeerBreaks
    PROVE  IInv'
<1> USE DEF IInv, ConnectionTypeOK, WriteWhileQueued, WithoutGap, ReleasedOnce, LastAccepted,
            ShutOnPurpose, UnusedWhileListening
<1>1. CASE PeerSends
  BY <1>1 DEF PeerSends
<1>2. CASE PeerReads
  <2>1. Head(messageQueue) = written + 1 /\ Head(messageQueue) \in 1..MaxMessages
    BY <1>2 DEF PeerReads
  <2> QED
    BY <1>2, <2>1 DEF PeerReads
<1>3. CASE PeerBreaks
  BY <1>3 DEF PeerBreaks
<1> QED
  BY <1>1, <1>2, <1>3

\* What close(force) does in a handler that leaves the protocol alone and touches
\* the write only when it closes with force over an emptied queue.
Closes(force) ==
    LET shut == connectionState = "open" /\ (force \/ messageQueue' = <<>>)
    IN  /\ socket # "listening"
        /\ managed' = FALSE /\ connectionState' = "closed"
        /\ releases' = releases + ReleaseTasks(protocol)
        /\ socket' = IF shut THEN "closed" ELSE socket
        /\ abrupt' = (abrupt \/ (connectionState = "open" /\ force))
        /\ \/ /\ messageQueue' = messageQueue
              /\ writing' = IF shut THEN Aborted(writing) ELSE writing
           \/ force /\ messageQueue' = <<>> /\ writing = "err" /\ writing' = "none"
        /\ reading' \in [part : {"header", "body"}, state : OpStates]
        /\ reading'.state = "none" \/ ~destroyed
        /\ armed' \in SUBSET Timers /\ fired' \in SUBSET Timers
        /\ UNCHANGED <<protocol, destroyed, history>>

\* close() keeps the invariant.
LEMMA CloseStep == ASSUME IInv, NEW force \in BOOLEAN, Closes(force) PROVE IInv'
<1> USE DEF Closes, ReleaseTasks
<1>1. ConnectionTypeOK'
  <2>1. reading' \in [part : {"header", "body"}, state : OpStates]
    OBVIOUS
  <2>2. reading'.state = "none" \/ ~destroyed
    OBVIOUS
  <2>3. messageQueue' \in Seq(1..MaxMessages)
    <3>1. <<>> \in Seq(1..MaxMessages)
      OBVIOUS
    <3> QED
      BY <3>1 DEF IInv, ConnectionTypeOK
  <2>4. writing' \in OpStates /\ (destroyed => writing' = "none")
    BY DEF IInv, ConnectionTypeOK
  <2>5. releases' \in Nat /\ abrupt' \in BOOLEAN
    BY DEF IInv, ConnectionTypeOK
  <2>6. armed' \in SUBSET Timers
    BY DEF IInv, ConnectionTypeOK
  <2> QED
    BY <2>1, <2>2, <2>3, <2>4, <2>5, <2>6 DEF IInv, ConnectionTypeOK
<1>2. WriteWhileQueued' /\ WithoutGap'
  BY DEF IInv, ConnectionTypeOK, WriteWhileQueued, WithoutGap
<1>3. ReleasedOnce'
  BY DEF IInv, ConnectionTypeOK, ReleasedOnce
<1>4. LastAccepted'
  BY DEF IInv, ConnectionTypeOK, LastAccepted, ShutOnPurpose, WriteWhileQueued
<1>5. ShutOnPurpose'
  BY DEF IInv, ConnectionTypeOK, ShutOnPurpose, WriteWhileQueued
<1>6. UnusedWhileListening'
  BY DEF IInv, UnusedWhileListening
<1> QED
  BY <1>1, <1>2, <1>3, <1>4, <1>5, <1>6 DEF IInv
LEMMA HeaderStep == ASSUME IInv, ParseHeader PROVE IInv'
<1>1. /\ socket # "listening" /\ ~destroyed
      /\ Done("header") \in [part : {"header", "body"}, state : OpStates]
      /\ armed \ {"read"} \in SUBSET Timers
  BY DEF IInv, ParseHeader, UnusedWhileListening, ConnectionTypeOK, Done
<1>2. ASSUME NEW force \in BOOLEAN,
             CloseConnection(force, messageQueue, Done("header"), writing,
                             armed \ {"read"}, protocol),
             UNCHANGED <<protocol, messageQueue, fired, destroyed, history>>
      PROVE  IInv'
  <2>1. Closes(force)
    BY <1>1, <1>2 DEF Closes, CloseConnection, ClosesSocket, Done, IInv, ConnectionTypeOK
  <2> QED
    BY <2>1, CloseStep
<1>3. CASE /\ reading' = Done("header") /\ armed' = armed \ {"read"}
           /\ UNCHANGED <<socket, writing, abrupt, closing>>
           /\ UNCHANGED <<protocol, messageQueue, fired, destroyed, history>>
  BY <1>1, <1>3 DEF Done, IInv, ConnectionTypeOK, WriteWhileQueued, WithoutGap, ReleasedOnce,
     LastAccepted, ShutOnPurpose, UnusedWhileListening
<1>4. CASE /\ ReadNext("body")
           /\ UNCHANGED <<socket, writing, abrupt, closing>>
           /\ UNCHANGED <<protocol, messageQueue, fired, destroyed, history>>
  BY <1>1, <1>4 DEF ReadNext, IInv, ConnectionTypeOK, WriteWhileQueued, WithoutGap, ReleasedOnce,
     LastAccepted, ShutOnPurpose, UnusedWhileListening
<1> QED
  BY <1>2, <1>3, <1>4 DEF ParseHeader

LEMMA PacketStep == ASSUME IInv, ParsePacket PROVE IInv'
<1>1. /\ socket # "listening" /\ ~destroyed
      /\ Done("body") \in [part : {"header", "body"}, state : OpStates]
      /\ armed \ {"read"} \in SUBSET Timers
  BY DEF IInv, ParsePacket, UnusedWhileListening, ConnectionTypeOK, Done
<1>2. ASSUME CloseConnection(TRUE, messageQueue, Done("body"), writing,
                             armed \ {"read"}, protocol),
             UNCHANGED protocol,
             UNCHANGED <<messageQueue, fired, destroyed, history>>
      PROVE  IInv'
  <2>1. Closes(TRUE)
    BY <1>1, <1>2 DEF Closes, CloseConnection, ClosesSocket, Done, IInv, ConnectionTypeOK
  <2> QED
    BY <2>1, CloseStep
<1>3. CASE /\ reading' = Done("body") /\ armed' = armed \ {"read"}
           /\ UNCHANGED <<socket, writing, abrupt, protocol, closing>>
           /\ UNCHANGED <<messageQueue, fired, destroyed, history>>
  BY <1>1, <1>3 DEF Done, IInv, ConnectionTypeOK, WriteWhileQueued, WithoutGap, ReleasedOnce,
     LastAccepted, ShutOnPurpose, UnusedWhileListening
<1>4. CASE /\ connectionState = "open" /\ protocol' = TRUE
           /\ ReadNext("header")
           /\ UNCHANGED <<socket, writing, abrupt, closing>>
           /\ UNCHANGED <<messageQueue, fired, destroyed, history>>
  BY <1>1, <1>4 DEF ReadNext, IInv, ConnectionTypeOK, WriteWhileQueued, WithoutGap, ReleasedOnce,
     LastAccepted, ShutOnPurpose, UnusedWhileListening
<1> QED
  BY <1>2, <1>3, <1>4 DEF ParsePacket, IInv, ConnectionTypeOK

\* The protocol's answer is queued before its disconnect() closes, so that the
\* socket stays open for it.
LEMMA DisconnectingStep ==
    ASSUME IInv, NEW says \in BOOLEAN, ParseAndDisconnect(says)
    PROVE  IInv'
<1>1. /\ socket # "listening" /\ ~destroyed /\ connectionState = "open" /\ releases = 0
  BY DEF IInv, ParseAndDisconnect, UnusedWhileListening, ConnectionTypeOK, ReleasedOnce
<1>2. CASE says
  <2>1. messageQueue' = Append(messageQueue, messagesAccepted + 1)
    BY <1>2 DEF ParseAndDisconnect
  <2>2. /\ messageQueue' \in Seq(1..MaxMessages) /\ messageQueue' # <<>>
        /\ messageQueue'[Len(messageQueue')] = messagesAccepted + 1
        /\ Head(messageQueue') = IF messageQueue = <<>> THEN written + 1 ELSE Head(messageQueue)
        /\ \A i \in 1..(Len(messageQueue') - 1) : messageQueue'[i + 1] = messageQueue'[i] + 1
    BY <1>1, <1>2, <2>1, SendQueues DEF ParseAndDisconnect
  <2>3. /\ messagesAccepted' = messagesAccepted + 1 /\ protocol' = TRUE
        /\ connectionState' = "closed" /\ managed' = FALSE /\ releases' = 1
        /\ messagesAccepted < MaxMessages
        /\ socket' = socket
        /\ writing' = IF messageQueue = <<>> THEN Started(socket) ELSE writing
        /\ reading' = [part |-> "header", state |-> Started(socket)]
        /\ armed' \in SUBSET Timers
        /\ UNCHANGED <<fired, destroyed, written, abrupt>>
    BY <1>1, <1>2, <2>1, <2>2
       DEF ParseAndDisconnect, ClosesSocket, StartsWrite, IInv, ConnectionTypeOK
  <2>4. ConnectionTypeOK'
    <3>1. reading' \in [part : {"header", "body"}, state : OpStates] /\ writing' \in OpStates
      BY <2>3 DEF IInv, ConnectionTypeOK
    <3>2. releases' \in Nat /\ messagesAccepted' \in 0..MaxMessages
      BY <2>3 DEF IInv, ConnectionTypeOK
    <3> QED
      BY <1>1, <2>2, <2>3, <3>1, <3>2 DEF IInv, ConnectionTypeOK
  <2>5. WriteWhileQueued' /\ WithoutGap'
    BY <1>1, <2>2, <2>3 DEF IInv, WriteWhileQueued, WithoutGap, ConnectionTypeOK
  <2>6. ReleasedOnce' /\ LastAccepted' /\ UnusedWhileListening'
    BY <1>1, <2>2, <2>3 DEF ReleasedOnce, LastAccepted, UnusedWhileListening
  <2>7. ShutOnPurpose'
    BY <1>1, <2>2, <2>3 DEF ShutOnPurpose, IInv, ConnectionTypeOK
  <2> QED
    BY <2>4, <2>5, <2>6, <2>7 DEF IInv
<1>3. CASE ~says
  <2> DEFINE shut == messageQueue = <<>>
  <2>1. /\ UNCHANGED <<messageQueue, messagesAccepted, fired, destroyed, written, abrupt>>
        /\ protocol' = TRUE /\ connectionState' = "closed" /\ managed' = FALSE /\ releases' = 1
        /\ socket' = IF shut THEN "closed" ELSE socket
        /\ writing' = IF shut THEN Aborted(writing) ELSE writing
        /\ reading' = [part |-> "header", state |-> IF shut THEN "err" ELSE Started(socket)]
        /\ armed' \in SUBSET Timers
    BY <1>1, <1>3 DEF ParseAndDisconnect, ClosesSocket, IInv, ConnectionTypeOK
  <2>2. reading' \in [part : {"header", "body"}, state : OpStates] /\ writing' \in OpStates
    BY <2>1 DEF IInv, ConnectionTypeOK
  <2>3. ConnectionTypeOK'
    BY <1>1, <2>1, <2>2 DEF IInv, ConnectionTypeOK
  <2>4. WriteWhileQueued' /\ WithoutGap'
    BY <1>1, <2>1 DEF IInv, WriteWhileQueued, WithoutGap, ConnectionTypeOK
  <2>5. ReleasedOnce' /\ LastAccepted' /\ UnusedWhileListening' /\ ShutOnPurpose'
    BY <1>1, <2>1 DEF IInv, ReleasedOnce, LastAccepted, UnusedWhileListening, ShutOnPurpose,
       WriteWhileQueued
  <2> QED
    BY <2>3, <2>4, <2>5 DEF IInv
<1> QED
  BY <1>2, <1>3
LEMMA SendStep == ASSUME IInv, Send PROVE IInv'
<1>1. /\ messageQueue' \in Seq(1..MaxMessages) /\ messageQueue' # <<>>
      /\ messageQueue'[Len(messageQueue')] = messagesAccepted + 1
      /\ Head(messageQueue') = IF messageQueue = <<>> THEN written + 1 ELSE Head(messageQueue)
      /\ \A i \in 1..(Len(messageQueue') - 1) : messageQueue'[i + 1] = messageQueue'[i] + 1
  BY SendQueues DEF Send
<1>2. /\ socket # "listening" /\ ~destroyed /\ connectionState = "open"
      /\ messagesAccepted' = messagesAccepted + 1 /\ messagesAccepted < MaxMessages
      /\ writing' = IF messageQueue = <<>> THEN Started(socket) ELSE writing
      /\ armed' \in SUBSET Timers
      /\ UNCHANGED <<socket, protocol, reading, fired, destroyed, written, abrupt, closing>>
  BY DEF Send, StartsWrite, Referenced, IInv, ConnectionTypeOK, UnusedWhileListening
<1>3. ConnectionTypeOK'
  <2>1. writing' \in OpStates /\ messagesAccepted' \in 0..MaxMessages
    BY <1>2 DEF IInv, ConnectionTypeOK
  <2> QED
    BY <1>1, <1>2, <2>1 DEF IInv, ConnectionTypeOK
<1>4. WriteWhileQueued' /\ WithoutGap'
  BY <1>1, <1>2 DEF IInv, WriteWhileQueued, WithoutGap, ConnectionTypeOK
<1>5. ReleasedOnce' /\ LastAccepted' /\ UnusedWhileListening' /\ ShutOnPurpose'
  BY <1>1, <1>2 DEF IInv, ConnectionTypeOK, ReleasedOnce, LastAccepted, UnusedWhileListening,
     ShutOnPurpose
<1> QED
  BY <1>3, <1>4, <1>5 DEF IInv

LEMMA DisconnectStep == ASSUME IInv, Disconnect PROVE IInv'
<1>1. socket # "listening" /\ ~destroyed /\ protocol
  BY DEF Disconnect, Referenced, IInv, ConnectionTypeOK, UnusedWhileListening
<1>2. Closes(FALSE)
  BY <1>1 DEF Disconnect, Closes, CloseConnection, ClosesSocket, ReleaseTasks, IInv,
     ConnectionTypeOK
<1> QED
  BY <1>2, CloseStep

\* The next message is written, the socket is shut after the last one, or the
\* write has failed and nothing is kept.
LEMMA WriteStep == ASSUME IInv, OnWriteOperation PROVE IInv'
<1>1. socket # "listening" /\ ~destroyed /\ messageQueue # <<>>
  BY DEF OnWriteOperation, IInv, ConnectionTypeOK, UnusedWhileListening, WriteWhileQueued
<1>2. ASSUME writing = "err", messageQueue' = KeptAfterError,
             CloseConnection(TRUE, <<>>, reading, "none", armed \ {"write"}, protocol),
             UNCHANGED <<protocol, fired, destroyed, history>>
      PROVE  IInv'
  <2>1. Closes(TRUE)
    BY <1>1, <1>2 DEF Closes, CloseConnection, ClosesSocket, KeptAfterError, IInv, ConnectionTypeOK
  <2> QED
    BY <2>1, CloseStep
<1>3. ASSUME writing = "ok", Tail(messageQueue) # <<>>,
             messageQueue' = Tail(messageQueue),
             writing' = Started(socket),
             armed' = armed \cup {"write"},
             UNCHANGED <<socket, reading, abrupt, closing>>,
             UNCHANGED <<protocol, fired, destroyed, history>>
      PROVE  IInv'
  <2>1. /\ messageQueue' \in Seq(1..MaxMessages) /\ Head(messageQueue') = written + 1
        /\ messageQueue'[Len(messageQueue')] = messagesAccepted
        /\ \A i \in 1..(Len(messageQueue') - 1) : messageQueue'[i + 1] = messageQueue'[i] + 1
    BY <1>3, PopQueues
  <2>2. ConnectionTypeOK'
    BY <1>1, <1>3, <2>1 DEF IInv, ConnectionTypeOK
  <2>3. WriteWhileQueued' /\ WithoutGap'
    BY <1>1, <1>3, <2>1 DEF WriteWhileQueued, WithoutGap
  <2>4. ReleasedOnce' /\ LastAccepted' /\ UnusedWhileListening' /\ ShutOnPurpose'
    BY <1>1, <1>3, <2>1 DEF IInv, ConnectionTypeOK, WriteWhileQueued, ReleasedOnce, LastAccepted,
       UnusedWhileListening, ShutOnPurpose
  <2> QED
    BY <2>2, <2>3, <2>4 DEF IInv
<1>4. ASSUME writing = "ok", Tail(messageQueue) = <<>>,
             messageQueue' = <<>>, writing' = "none",
             IF ShutsAfterWrite
             THEN /\ socket' = "closed"
                  /\ reading' = [reading EXCEPT !.state = Aborted(@)]
                  /\ armed' = IF IsOpen THEN {} ELSE armed \ {"write"}
             ELSE armed' = armed \ {"write"} /\ UNCHANGED <<socket, reading>>,
             UNCHANGED <<abrupt, closing>>,
             UNCHANGED <<protocol, fired, destroyed, history>>
      PROVE  IInv'
  <2>1. written = messagesAccepted
    BY <1>4, PopQueues
  <2>2. reading' \in [part : {"header", "body"}, state : OpStates] /\ armed' \in SUBSET Timers
    BY <1>4 DEF IInv, ConnectionTypeOK
  <2>3. ConnectionTypeOK'
    BY <1>1, <1>4, <2>2 DEF IInv, ConnectionTypeOK
  <2>4. WriteWhileQueued' /\ WithoutGap'
    BY <1>1, <1>4 DEF WriteWhileQueued, WithoutGap
  <2>5. ReleasedOnce' /\ LastAccepted' /\ UnusedWhileListening' /\ ShutOnPurpose'
    BY <1>1, <1>4, <2>1 DEF ShutsAfterWrite, IInv, ReleasedOnce, LastAccepted,
       UnusedWhileListening, ShutOnPurpose
  <2> QED
    BY <2>3, <2>4, <2>5 DEF IInv
<1> QED
  BY <1>2, <1>3, <1>4 DEF OnWriteOperation

LEMMA TimerStep ==
    ASSUME IInv, NEW t \in Timers, TimerFires(t) \/ HandleTimeout(t)
    PROVE  IInv'
<1>1. socket # "listening"
  BY DEF TimerFires, HandleTimeout, IInv, UnusedWhileListening
<1>2. ASSUME Referenced, HandleTimeout(t) PROVE IInv'
  <2>1. ~destroyed
    BY <1>2 DEF Referenced, IInv, ConnectionTypeOK
  <2>2. Closes(TRUE)
    BY <1>1, <1>2, <2>1 DEF HandleTimeout, Closes, CloseConnection, ClosesSocket, IInv,
       ConnectionTypeOK
  <2> QED
    BY <2>2, CloseStep
<1>3. ASSUME TimerFires(t) \/ ~Referenced, TimerFires(t) \/ HandleTimeout(t) PROVE IInv'
  <2>1. /\ armed' \in SUBSET Timers /\ fired' \in SUBSET Timers
        /\ UNCHANGED <<socket, protocol, messageQueue, destroyed, abrupt, closing, ops, history>>
    BY <1>3 DEF TimerFires, HandleTimeout, IInv, ConnectionTypeOK
  <2> QED
    BY <1>1, <2>1 DEF IInv, ConnectionTypeOK, WriteWhileQueued, WithoutGap, ReleasedOnce,
       LastAccepted, ShutOnPurpose, UnusedWhileListening
<1>4. CASE Referenced
  BY <1>2, <1>3, <1>4
<1>5. CASE ~Referenced
  BY <1>3, <1>5
<1> QED
  BY <1>4, <1>5

\* At shutdown, and by the last reference.
LEMMA EndStep == ASSUME IInv, CloseAll \/ Destroy PROVE IInv'
<1>1. CASE CloseAll
  BY <1>1 DEF CloseAll, IInv, ConnectionTypeOK, WriteWhileQueued, WithoutGap, ReleasedOnce,
     LastAccepted, ShutOnPurpose, UnusedWhileListening
<1>2. CASE Destroy
  BY <1>2 DEF Destroy, Referenced, IInv, ConnectionTypeOK, WriteWhileQueued, WithoutGap,
     ReleasedOnce, LastAccepted, ShutOnPurpose, UnusedWhileListening
<1> QED
  BY <1>1, <1>2

-----------------------------------------------------------------------------
\* The invariant is inductive: it holds when a connection is created and every
\* handler, timer and step of the peer keeps it.
THEOREM ConnectionInvariant == ConnectionSpec => []IInv
<1>1. ConnectionInit => IInv
  <2>1. SUFFICES ASSUME ConnectionInit PROVE IInv
    OBVIOUS
  <2>2. ConnectionTypeOK
    <3>1. reading \in [part : {"header", "body"}, state : OpStates] /\ releases \in Nat
      BY <2>1 DEF ConnectionInit
    <3>2. messageQueue \in Seq(1..MaxMessages)
      BY <2>1 DEF ConnectionInit
    <3>3. messagesAccepted \in 0..MaxMessages /\ written \in 0..MaxMessages
      BY <2>1 DEF ConnectionInit
    <3> QED
      BY <2>1, <3>1, <3>2, <3>3 DEF ConnectionInit, ConnectionTypeOK
  <2> QED
    BY <2>1, <2>2 DEF ConnectionInit, IInv, WriteWhileQueued, WithoutGap, ReleasedOnce,
       LastAccepted, ShutOnPurpose, UnusedWhileListening
<1>2. IInv /\ [ConnectionNext]_connectionVars => IInv'
  <2>1. SUFFICES ASSUME IInv, [ConnectionNext]_connectionVars PROVE IInv'
    OBVIOUS
  <2>2. CASE UNCHANGED connectionVars
    BY <2>1, <2>2 DEF connectionVars, IInv, ConnectionTypeOK, WriteWhileQueued, WithoutGap,
       ReleasedOnce, LastAccepted, ShutOnPurpose, UnusedWhileListening
  <2>3. CASE Handlers
    BY <2>1, <2>3, HeaderStep, PacketStep, DisconnectingStep, WriteStep DEF Handlers
  <2>4. CASE ConnectionNext /\ ~Handlers
    BY <2>1, <2>4, AcceptStep, PeerStep, SendStep, DisconnectStep, TimerStep, EndStep
       DEF ConnectionNext
  <2> QED
    BY <2>1, <2>2, <2>3, <2>4
<1> QED
  BY <1>1, <1>2, PTL DEF ConnectionSpec

\* Two writes never interleave on a socket, the messages arrive in order and
\* without a gap, a graceful close delivers all of them, and the protocol is
\* released exactly once, for any number of messages.
THEOREM ConnectionWrittenAndReleased == ConnectionSpec => []WrittenAndReleased
<1>1. IInv => WrittenAndReleased
  BY DEF IInv, WrittenAndReleased, GracefulCloseDelivers, LastAccepted, ShutOnPurpose
<1> QED
  BY <1>1, ConnectionInvariant, PTL
=============================================================================
