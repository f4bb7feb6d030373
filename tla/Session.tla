------------------------------- MODULE Session ------------------------------
(***************************************************************************)
(* Who plays a character: ProtocolGame objects, one per connection, and    *)
(* the Player objects they create or take over (protocolgame.cpp: login,   *)
(* connect, logout, release, parsePacket; Player::kickPlayer;              *)
(* Game::removeCreature, cleanup).  One character is enough: sessions of   *)
(* different characters share nothing here.                                *)
(*                                                                         *)
(* Dispatcher tasks are atomic and run in the order of the queue, but a    *)
(* due scheduler event goes to its front.  The network thread closes and   *)
(* frees connections, and parses packets, in between; while it parses it   *)
(* holds the connection's lock, so that a task that has to close the same  *)
(* connection waits.                                                       *)
(***************************************************************************)
EXTENDS Naturals, Sequences

CONSTANTS Protocols,    \* the ProtocolGame objects
          Players,      \* the Player objects ever allocated
          None,         \* a null pointer
          ReplaceKick   \* ConfigManager::REPLACE_KICK_ON_LOGIN

ASSUME SessionAssumption ==
    /\ None \notin Protocols \cup Players
    /\ ReplaceKick \in BOOLEAN

VARIABLES conn,          \* the Connection: "new", "open", "closed", "expired"
          parsing,       \* the player a packet in parsePacket is for, or None
          player,        \* ProtocolGame::player
          acceptPackets, \* the protocols that accept packets
          eventConnect,  \* the player a pending connect event is for, or None
          bufferedProtocols, \* those in the autosend pool
          tasks,         \* the dispatcher's queue
          created,       \* the Player objects allocated so far
          online,        \* those in Game::players
          client,        \* Player::client
          referenceCounter,
          toRelease,     \* Game::ToReleaseCreatures
          lateExpiry     \* history: attached although already released

vars == <<conn, parsing, player, acceptPackets, eventConnect, bufferedProtocols, tasks,
          created, online, client, referenceCounter, toRelease, lateExpiry>>

links == <<player, client, referenceCounter, created, online, toRelease>>
net == <<conn, parsing>>
flags == <<acceptPackets, eventConnect, bufferedProtocols, lateExpiry>>

Kinds == {"login", "release", "connect", "logout"}
Task(k, p) == [kind |-> k, protocol |-> p]

TypeOK ==
    /\ conn \in [Protocols -> {"new", "open", "closed", "expired"}]
    /\ parsing \in [Protocols -> Players \cup {None}]
    /\ player \in [Protocols -> Players \cup {None}]
    /\ eventConnect \in [Protocols -> Players \cup {None}]
    /\ acceptPackets \in SUBSET Protocols
    /\ bufferedProtocols \in SUBSET Protocols
    /\ lateExpiry \in SUBSET Protocols
    /\ tasks \in Seq([kind : Kinds, protocol : Protocols])
    /\ created \in SUBSET Players /\ online \in SUBSET created
    /\ toRelease \in SUBSET created
    /\ client \in [Players -> Protocols \cup {None}]
    /\ referenceCounter \in [Players -> Nat]

Init ==
    /\ conn = [p \in Protocols |-> "new"]
    /\ parsing = [p \in Protocols |-> None]
    /\ player = [p \in Protocols |-> None]
    /\ eventConnect = [p \in Protocols |-> None]
    /\ acceptPackets = {} /\ bufferedProtocols = {} /\ lateExpiry = {}
    /\ tasks = <<>>
    /\ created = {} /\ online = {} /\ toRelease = {}
    /\ client = [x \in Players |-> None]
    /\ referenceCounter = [x \in Players |-> 0]

-----------------------------------------------------------------------------
(* The network thread                                                      *)

\* connectionLock of p, which the network thread holds while it parses.
LockFree_ignored(p) == TRUE
LockFree(p) == parsing[p] = None

\* Connection::close: the first one queues the protocol's release, others are
\* ignored.
Closed(p) == [conn EXCEPT ![p] = IF @ = "open" THEN "closed" ELSE @]
ThenRelease(queue, p) == IF conn[p] = "open" THEN Append(queue, Task("release", p)) ELSE queue

\* onRecvFirstMessage: the password is right, the login becomes a task.
FirstMessage(p) ==
    /\ conn[p] = "new"
    /\ conn' = [conn EXCEPT ![p] = "open"]
    /\ tasks' = Append(tasks, Task("login", p))
    /\ UNCHANGED <<parsing, links, flags>>

\* An error, a timeout or the peer closes the connection.
ConnectionCloses(p) ==
    /\ conn[p] = "open" /\ LockFree(p)
    /\ conn' = Closed(p)
    /\ tasks' = ThenRelease(tasks, p)
    /\ UNCHANGED <<parsing, links, flags>>

\* The last pending operation of a closed connection has completed and its
\* weak_ptr expires.
ConnectionExpires(p) ==
    /\ conn[p] = "closed"
    /\ conn' = [conn EXCEPT ![p] = "expired"]
    /\ UNCHANGED <<parsing, tasks, links, flags>>

\* parsePacket, inside the connection's lock: it reads the player pointer and
\* uses the Player ...
ParseBegins(p) ==
    /\ conn[p] = "open" /\ LockFree(p)
    /\ p \in acceptPackets /\ player[p] # None
    /\ parsing' = [parsing EXCEPT ![p] = player[p]]
    /\ UNCHANGED <<conn, tasks, links, flags>>

Queued(k, p) == \E i \in 1..Len(tasks) : tasks[i] = Task(k, p)

\* ... then queues what the packet asks for, a logout or a game task, or
\* disconnects.  (Bound: one logout of a protocol in the queue at a time.)
ParseEnds(p) ==
    /\ parsing[p] # None
    /\ parsing' = [parsing EXCEPT ![p] = None]
    /\ \/ UNCHANGED <<tasks, conn>>
       \/ /\ ~Queued("logout", p)
          /\ tasks' = Append(tasks, Task("logout", p))
          /\ UNCHANGED conn
       \/ /\ tasks' = ThenRelease(tasks, p)
          /\ conn' = Closed(p)
    /\ UNCHANGED <<links, flags>>

\* The scheduler hands a due connect to the front of the queue.
EventDue(p) ==
    /\ eventConnect[p] # None
    /\ ~Queued("connect", p)
    /\ tasks' = <<Task("connect", p)>> \o tasks
    /\ UNCHANGED <<net, links, flags>>

-----------------------------------------------------------------------------
(* Tasks of the dispatcher                                                 *)

Runs(k, p) == tasks # <<>> /\ Head(tasks) = Task(k, p)

\* disconnect() of p by the task at the head.
Disconnects(p) ==
    /\ LockFree(p)
    /\ conn' = Closed(p)
    /\ tasks' = ThenRelease(Tail(tasks), p)

Taken == UNCHANGED conn /\ tasks' = Tail(tasks)

\* connect()'s hand over of x to p.
Attach_uncounted(p, x) ==
    /\ player' = [player EXCEPT ![p] = x]
    /\ client' = [client EXCEPT ![x] = p]
    /\ acceptPackets' = acceptPackets \cup {p}
    /\ UNCHANGED referenceCounter
Attach(p, x) ==
    /\ player' = [player EXCEPT ![p] = x]
    /\ client' = [client EXCEPT ![x] = p]
    /\ referenceCounter' = [referenceCounter EXCEPT ![x] = @ + 1]
    /\ acceptPackets' = acceptPackets \cup {p}

\* The tests of connect(): x is online and nobody plays it.
Available_anyClient(x) == x \in online
Available(x) == x \in online /\ client[x] = None

\* getPlayerByName() finds nobody.
NotFound_clones == TRUE
NotFound == online = {}

\* login() of a character that is not online: a new Player, holding p as its
\* client; any of the checks, the waiting list among them, may turn it away.
LoginNew(p) ==
    /\ Runs("login", p) /\ NotFound
    /\ \E x \in Players \ created :
          /\ created' = created \cup {x}
          /\ player' = [player EXCEPT ![p] = x]
          /\ client' = [client EXCEPT ![x] = p]
          /\ \/ /\ Disconnects(p)
                /\ referenceCounter' = [referenceCounter EXCEPT ![x] = 1]
                /\ UNCHANGED <<online, acceptPackets, bufferedProtocols>>
             \/ /\ Taken
                /\ referenceCounter' = [referenceCounter EXCEPT ![x] = 2]
                /\ online' = online \cup {x}
                /\ acceptPackets' = acceptPackets \cup {p}
                /\ bufferedProtocols' = bufferedProtocols \cup {p}
    /\ UNCHANGED <<parsing, eventConnect, toRelease, lateExpiry>>

\* addEvent of the connect, a second from now.
Scheduled_lost(p, x) == eventConnect
Scheduled(p, x) == [eventConnect EXCEPT ![p] = x]

\* login() of a character that is online: take over its player, at once if
\* nobody plays it, else a second after disconnecting who does.
LoginAgain(p) ==
    /\ Runs("login", p)
    /\ \E x \in online :
       \/ /\ ~ReplaceKick
          /\ Disconnects(p)
          /\ UNCHANGED <<links, flags>>
       \/ /\ ReplaceKick /\ client[x] # None
          /\ Disconnects(client[x])
          /\ eventConnect' = Scheduled(p, x)
          /\ bufferedProtocols' = bufferedProtocols \cup {p}
          /\ UNCHANGED <<links, acceptPackets, lateExpiry>>
       \/ /\ ReplaceKick /\ client[x] = None
          /\ Taken
          /\ IF conn[p] = "expired"
             THEN UNCHANGED <<player, client, referenceCounter, acceptPackets>>
             ELSE Attach(p, x)
          /\ bufferedProtocols' = bufferedProtocols \cup {p}
          /\ UNCHANGED <<created, online, toRelease, eventConnect, lateExpiry>>
    /\ UNCHANGED parsing

\* Whether p's release has been run.
Released(p) ==
    conn[p] \in {"closed", "expired"} /\ ~Queued("release", p)

\* connect(), as a task of its own.
Connect(p) ==
    LET x == eventConnect[p] IN
    /\ Runs("connect", p)
    /\ eventConnect' = [eventConnect EXCEPT ![p] = None]
    /\ \/ /\ ~Available(x)
          /\ Disconnects(p)
          /\ UNCHANGED <<links, acceptPackets, lateExpiry>>
       \/ /\ Available(x) /\ conn[p] = "expired"
          /\ Taken
          /\ UNCHANGED <<links, acceptPackets, lateExpiry>>
       \/ /\ Available(x) /\ conn[p] # "expired"
          /\ Taken
          /\ Attach(p, x)
          /\ lateExpiry' = IF Released(p) THEN lateExpiry \cup {p} ELSE lateExpiry
          /\ UNCHANGED <<created, online, toRelease>>
    /\ UNCHANGED <<parsing, bufferedProtocols>>

\* Game::removeCreature, for a player that has not been removed yet.
Remove(x) ==
    /\ online' = online \ {x}
    /\ toRelease' = IF x \in online THEN toRelease \cup {x} ELSE toRelease
    /\ UNCHANGED <<player, client, referenceCounter, created>>

\* logout(), by the client: it may be refused while the player is in the game.
Logout(p) ==
    /\ Runs("logout", p)
    /\ \/ /\ player[p] = None \/ player[p] \in online
          /\ Taken
          /\ UNCHANGED links
       \/ /\ player[p] # None
          /\ Disconnects(p)
          /\ Remove(player[p])
    /\ UNCHANGED <<parsing, flags>>

\* release(): it gives the player up only if it is still the player's client.
GivesUp_never(p) == FALSE
GivesUp(p) == player[p] # None /\ client[player[p]] = p

RemoveFromAutosend_not(p) == bufferedProtocols
RemoveFromAutosend(p) == bufferedProtocols \ {p}

Release(p) ==
    /\ Runs("release", p)
    /\ Taken
    /\ IF GivesUp(p)
       THEN /\ client' = [client EXCEPT ![player[p]] = None]
            /\ referenceCounter' = [referenceCounter EXCEPT ![player[p]] = @ - 1]
            /\ player' = [player EXCEPT ![p] = None]
       ELSE UNCHANGED <<client, referenceCounter, player>>
    /\ bufferedProtocols' = RemoveFromAutosend(p)
    /\ UNCHANGED <<parsing, created, online, toRelease, acceptPackets, eventConnect, lateExpiry>>

\* kickPlayer() from some other task (a missing pong, an idle player, a closing
\* server): through the client's logout() if there is one.
Kick(x) ==
    /\ x \in online
    /\ \/ client[x] = None /\ UNCHANGED <<conn, tasks>>
       \/ /\ client[x] # None /\ LockFree(client[x])
          /\ conn' = Closed(client[x])
          /\ tasks' = ThenRelease(tasks, client[x])
    /\ Remove(x)
    /\ UNCHANGED <<parsing, flags>>

\* The player dies: it leaves the game, its client stays.
Die(x) ==
    /\ x \in online
    /\ Remove(x)
    /\ UNCHANGED <<net, tasks, flags>>

AfterCleanup == {}

\* Game::cleanup drops the references of the removed creatures.
Cleanup ==
    /\ toRelease # {}
    /\ referenceCounter' = [x \in Players |->
          IF x \in toRelease THEN referenceCounter[x] - 1 ELSE referenceCounter[x]]
    /\ toRelease' = AfterCleanup
    /\ UNCHANGED <<net, tasks, flags, player, client, created, online>>

DispatcherTask ==
    \E p \in Protocols :
        LoginNew(p) \/ LoginAgain(p) \/ Connect(p) \/ Logout(p) \/ Release(p)

Next ==
    \/ \E p \in Protocols :
          \/ FirstMessage(p)
          \/ ConnectionCloses(p)
          \/ ConnectionExpires(p)
          \/ ParseBegins(p)
          \/ ParseEnds(p)
          \/ EventDue(p)
    \/ DispatcherTask
    \/ \E x \in Players : Kick(x) \/ Die(x)
    \/ Cleanup

Spec == Init /\ [][Next]_vars

-----------------------------------------------------------------------------
(* Properties                                                              *)

Bit(b) == IF b THEN 1 ELSE 0
Freed(x) == x \in created /\ referenceCounter[x] = 0

\* A character is in the game once, however many connections log it in.
OneOnline == \A x, y \in online : x = y

\* The pointers agree: who holds a player is its client, and the other way
\* round, through take-overs, kicks and late releases.
ClientHoldsPlayer ==
    \A p \in Protocols, x \in created : player[p] = x <=> client[x] = p

\* The reference counter is the number of owners: the game, which gives its
\* reference up in cleanup(), and the client.  So no Player is freed under its
\* client, and none is left without an owner.
CounterExact ==
    \A x \in created :
        referenceCounter[x] = Bit(x \in online \cup toRelease) + Bit(client[x] # None)

\* The network thread uses the Player without the dispatcher's knowledge; the
\* connection's lock and the client's reference keep it alive meanwhile.
ParsedPlayerAlive ==
    \A p \in Protocols : parsing[p] # None => ~Freed(parsing[p]) /\ player[p] = parsing[p]

ReleaseToCome(p) == conn[p] \in {"new", "open"} \/ ~Released(p)

\* The autosend pool keeps only protocols that will still be taken out of it.
AutosendIsReleased == \A p \in bufferedProtocols : ReleaseToCome(p)

\* What is used across threads without an owner stays valid: the Player the
\* network thread has in hand, the protocols the autosend timer goes through.
NothingDangles == ParsedPlayerAlive /\ AutosendIsReleased

\* A player that nobody will ever let go of.
Leaked(x) == client[x] # None /\ ~ReleaseToCome(client[x])

\* Nothing but a connect() whose connection had been closed and released, and
\* not freed yet, leaks a player.
LeakOnlyByLateExpiry == \A x \in created : Leaked(x) => client[x] \in lateExpiry

\* The comment in connect(), where it tests isConnectionExpired(): "release()
\* has been called at this point and the Connection object no longer exists, so
\* we return to prevent leakage of the Player".
NoLeakedPlayer == \A x \in created : ~Leaked(x)

\* No login is forgotten: a client that is connected and does not play has its
\* login, or the connect that follows a take-over, still to come.
LoginNotForgotten ==
    \A p \in Protocols : conn[p] = "open" =>
        p \in acceptPackets \/ Queued("login", p) \/ eventConnect[p] # None
=============================================================================
