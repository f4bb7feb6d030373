------------------------------- MODULE WaitList -------------------------------
(***************************************************************************)
(* The waiting list of a full server (waitlist.cpp), and the login that    *)
(* asks it (protocolgame.cpp).  A client that finds no room is put on one  *)
(* of two lists, told its place and when to retry, and disconnected; its   *)
(* entry expires if it does not come back in time.                         *)
(*                                                                         *)
(* clientLogin erases an admitted client with waitList.erase(it) even when *)
(* the iterator is one of priorityWaitList.  std::list unlinks the node    *)
(* from where it is and decrements the size of the list it was called on:  *)
(* the lists stay right, their two sizes drift apart.  The sizes are       *)
(* integers here: they are used alone (priority) or in a sum, where the    *)
(* wrap of the other cancels.                                              *)
(***************************************************************************)
EXTENDS Integers, Sequences, FiniteSets, SequencesExt

CONSTANTS
    Clients,         \* characters, by GUID
    Premium, Staff,  \* the premium ones; those that always may log in
    MaxPlayers,      \* ConfigManager::MAX_PLAYERS
    GetTime(_),      \* WaitingList::getTime: seconds to the retry from place n
    Grace,           \* the 15 seconds an entry outlives the expected retry
    MaxTime,         \* bound of the clock
    MaxDrift         \* bound of the drift of the sizes

ASSUME WaitListAssumption ==
    /\ Premium \subseteq Clients /\ Staff \subseteq Clients
    /\ MaxPlayers \in Nat \ {0} /\ Grace \in Nat \ {0}
    /\ MaxTime \in Nat /\ MaxDrift \in Nat
    /\ IsFiniteSet(Clients)
    /\ \A m \in 1 .. Cardinality(Clients) + MaxDrift : GetTime(m) \in Nat
    /\ \A m, n \in 1 .. Cardinality(Clients) + MaxDrift : m <= n => GetTime(m) <= GetTime(n)

VARIABLES
    priorityWaitList, waitList,  \* sequences of [client, timeout]
    prioritySize, waitSize,      \* what size() returns for them
    playersOnline,                      \* the players in the game
    now,                         \* OTSYS_TIME(), in seconds
    expected                     \* history: when each client is to retry

waitVars == <<priorityWaitList, waitList, prioritySize, waitSize, playersOnline, now, expected>>

Entry == [client : Clients, timeout : Int]

GetTimeout_exact(slot) == GetTime(slot)
\* WaitingList::getTimeout
GetTimeout(slot) == GetTime(slot) + Grace

\* The entries of the list at the places S, in their order.
KeptAt(list, S) ==
    [k \in 1 .. Cardinality(S) |-> list[CHOOSE n \in S : Cardinality(S \cap (1 .. n)) = k]]

\* WaitingList::cleanupList
Cleaned(list) == KeptAt(list, {n \in DOMAIN list : list[n].timeout > now})

Names(list) == [n \in DOMAIN list |-> list[n].client]

Place_perList(P, W, c) ==
    IF Contains(Names(P), c) THEN SelectInSeq(Names(P), LAMBDA x : x = c)
    ELSE SelectInSeq(Names(W), LAMBDA x : x = c)
\* WaitingList::findClient: the place of c, 0 if it is on neither list
PlaceOf(P, W, c) == SelectInSeq(Names(P \o W), LAMBDA x : x = c)

Without(list, c) == KeptAt(list, {n \in DOMAIN list : list[n].client # c})

Refreshed_atBack(list, c, t) ==
    IF Contains(Names(list), c)
    THEN Append(Without(list, c), [client |-> c, timeout |-> t]) ELSE list
\* The entry of c gets a new timeout and keeps its place.
Refreshed(list, c, t) ==
    [n \in DOMAIN list |-> IF list[n].client = c THEN [list[n] EXCEPT !.timeout = t] ELSE list[n]]

-----------------------------------------------------------------------------
(* Once admitted, the character is loaded and placed, or fails to. *)
Enter(c) ==
    /\ playersOnline' \in {playersOnline, playersOnline \cup {c}}
    /\ UNCHANGED expected

\* clientLogin returns false: the client is told its place on the lists P, W.
Refuse(c, P, W) ==
    /\ priorityWaitList' = P /\ waitList' = W
    /\ expected' = [expected EXCEPT ![c] = now + GetTime(PlaceOf(P, W, c))]
    /\ UNCHANGED playersOnline

\* The room test of clientLogin, for the client at this place
Admits(slot) == Cardinality(playersOnline) + slot <= MaxPlayers

ErasedFrom_stays(list, c) == list
\* The admitted client leaves the list it is on.
ErasedFrom(list, c) == Without(list, c)

\* WaitingList::clientLogin, with what ProtocolGame::login does of its answer
ClientLogin(c) ==
    /\ c \notin playersOnline
    /\ IF c \in Staff \/ ( /\ priorityWaitList = <<>> /\ waitList = <<>>
                           /\ Cardinality(playersOnline) < MaxPlayers )
       THEN Enter(c) /\ UNCHANGED <<priorityWaitList, waitList, prioritySize, waitSize>>
       ELSE LET P     == Cleaned(priorityWaitList)
                W     == Cleaned(waitList)
                psize == prioritySize - (Len(priorityWaitList) - Len(P))
                wsize == waitSize - (Len(waitList) - Len(W))
                slot  == PlaceOf(P, W, c)
            IN  \/ /\ slot # 0 /\ Admits(slot)
                   /\ psize - Len(P) < MaxDrift
                   /\ priorityWaitList' = ErasedFrom(P, c)
                   /\ waitList' = ErasedFrom(W, c)
                   /\ prioritySize' = psize
                   /\ waitSize' = wsize - 1
                   /\ Enter(c)
                \/ /\ slot # 0 /\ ~Admits(slot)
                   /\ LET t == now + GetTimeout(slot)
                      IN  Refuse(c, Refreshed(P, c, t), Refreshed(W, c, t))
                   /\ prioritySize' = psize /\ waitSize' = wsize
                \/ /\ slot = 0 /\ c \in Premium
                   /\ Refuse(c, Append(P, [client |-> c, timeout |-> now + GetTimeout(psize + 1)]), W)
                   /\ prioritySize' = psize + 1 /\ waitSize' = wsize
                \/ /\ slot = 0 /\ c \notin Premium
                   /\ Refuse(c, P, Append(W, [client |-> c,
                                              timeout |-> now + GetTimeout(psize + wsize + 1)]))
                   /\ prioritySize' = psize /\ waitSize' = wsize + 1
    /\ UNCHANGED now

LeaveGame(c) ==
    /\ c \in playersOnline
    /\ playersOnline' = playersOnline \ {c}
    /\ UNCHANGED <<priorityWaitList, waitList, prioritySize, waitSize, now, expected>>

Tick ==
    /\ now < MaxTime
    /\ now' = now + 1
    /\ UNCHANGED <<priorityWaitList, waitList, prioritySize, waitSize, playersOnline, expected>>

WaitInit ==
    /\ priorityWaitList = <<>> /\ waitList = <<>>
    /\ prioritySize = 0 /\ waitSize = 0
    /\ playersOnline = {}
    /\ now = 0
    /\ expected = [c \in Clients |-> 0]

WaitNext ==
    \/ \E c \in Clients : ClientLogin(c)
    \/ \E c \in Clients : LeaveGame(c)
    \/ Tick

WaitSpec == WaitInit /\ [][WaitNext]_waitVars

-----------------------------------------------------------------------------
WaitTypeOK ==
    /\ priorityWaitList \in Seq(Entry) /\ waitList \in Seq(Entry)
    /\ prioritySize \in 0 .. Cardinality(Clients) + MaxDrift
    /\ waitSize \in -MaxDrift .. Cardinality(Clients)
    /\ playersOnline \subseteq Clients
    /\ now \in 0 .. MaxTime
    /\ expected \in [Clients -> Nat]

Queue == priorityWaitList \o waitList

Waiting == playersOnline \cap Range(Names(Queue)) = {} /\ IsInjective(Names(Queue))

\* A client that retries when it was told to, or up to Grace seconds later,
\* still finds its entry, whoever made the server clean the lists meanwhile.
RetryKeepsPlace ==
    \A n \in DOMAIN Queue :
        Queue[n].timeout >= expected[Queue[n].client] + Grace

\* A client has one place: on one of the two lists, or in the game, whatever it
\* retries, fails to load, logs out and comes back, and does not lose it by
\* retrying when it is told to.  The sizes drift apart by the same number, so
\* that the place a regular client is told by size() is its true one.
OnePlace ==
    /\ WaitTypeOK
    /\ Waiting
    /\ prioritySize + waitSize = Len(Queue)
    /\ RetryKeepsPlace

\* Whoever is admitted, except staff, leaves room for all who wait before them:
\* a newcomer enters only if nobody waits.
RoomForThoseAhead ==
    \A c \in (playersOnline' \ playersOnline) \ Staff :
        LET ahead == {n \in DOMAIN Queue : /\ Queue[n].timeout > now
                                          /\ \A m \in 1 .. n : Queue[m].client = c => Queue[m].timeout <= now}
        IN  Cardinality(playersOnline') + Cardinality(ahead) <= MaxPlayers

\* Of two clients whose entries have not expired, the one ahead stays ahead
\* for as long as both wait.
OrderKept ==
    \A m, n \in DOMAIN Queue : \A k, l \in DOMAIN Queue' :
        ( /\ m < n
          /\ Queue[m].timeout > now /\ Queue[n].timeout > now
          /\ Queue[m].client = Queue'[k].client
          /\ Queue[n].client = Queue'[l].client ) => k < l

\* Nobody overtakes: whoever enters leaves room for those who wait before, and
\* the clients that wait are never reordered, premium and regular ones,
\* expired entries and early retries included.
NobodyOvertakes == [][RoomForThoseAhead /\ OrderKept]_waitVars
=============================================================================
