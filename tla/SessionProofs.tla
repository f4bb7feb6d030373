---------------------------- MODULE SessionProofs ---------------------------
(* Proofs about the sessions of a character, for every number of           *)
(* connections and Player objects and both values of ReplaceKick.          *)
EXTENDS Session, TLAPS

-----------------------------------------------------------------------------
(* The dispatcher's queue, seen as the set of the tasks in it               *)

AllTasks == [kind : Kinds, protocol : Protocols]

In(q, t) == \E i \in 1..Len(q) : q[i] = t

\* The login of a protocol is queued once, and ahead of its release.
LoginFirst(q) ==
    \A i, j \in 1..Len(q) :
        /\ q[i].kind = "login"
        /\ q[j].protocol = q[i].protocol
        /\ q[j].kind \in {"login", "release"}
        => i <= j

LEMMA TaskType ==
  ASSUME NEW k \in Kinds, NEW p \in Protocols
  PROVE  Task(k, p) \in AllTasks /\ Task(k, p).kind = k /\ Task(k, p).protocol = p
  BY DEF Task, AllTasks

LEMMA InAppend ==
  ASSUME NEW q \in Seq(AllTasks), NEW u \in AllTasks, NEW t
  PROVE  In(Append(q, u), t) <=> In(q, t) \/ t = u
<1> DEFINE s == Append(q, u)
<1>1. s \in Seq(AllTasks) /\ Len(s) = Len(q) + 1 /\ s[Len(q) + 1] = u
  OBVIOUS
<1>2. \A i \in 1..Len(q) : i \in 1..Len(s) /\ s[i] = q[i]
  BY <1>1
<1>3. \A i \in 1..Len(s) : i = Len(q) + 1 \/ i \in 1..Len(q)
  BY <1>1
<1>4. Len(q) + 1 \in 1..Len(s)
  BY <1>1
<1> HIDE DEF s
<1>5. In(s, t) <=> In(q, t) \/ t = u
  BY <1>1, <1>2, <1>3, <1>4 DEF In
<1> QED
  BY <1>5 DEF s

LEMMA InCons ==
  ASSUME NEW q \in Seq(AllTasks), NEW u \in AllTasks, NEW t
  PROVE  In(<<u>> \o q, t) <=> In(q, t) \/ t = u
<1> DEFINE s == <<u>> \o q
<1>1. s \in Seq(AllTasks) /\ Len(s) = Len(q) + 1 /\ s[1] = u
  OBVIOUS
<1>2. \A i \in 1..Len(q) : s[i + 1] = q[i]
  OBVIOUS
<1>3. \A i \in 1..Len(s) : i = 1 \/ (i - 1 \in 1..Len(q) /\ s[i] = q[i - 1])
  BY <1>1, <1>2
<1>4. ASSUME In(q, t) PROVE In(s, t)
  <2>1. PICK i \in 1..Len(q) : q[i] = t
    BY <1>4 DEF In
  <2>2. i + 1 \in 1..Len(s) /\ s[i + 1] = t
    BY <1>1, <1>2, <2>1
  <2> QED
    BY <2>2 DEF In
<1>5. ASSUME In(s, t) PROVE In(q, t) \/ t = u
  BY <1>1, <1>3, <1>5 DEF In
<1>6. In(s, u)
  BY <1>1 DEF In
<1> QED
  BY <1>4, <1>5, <1>6

\* Popping the head of the queue.
LEMMA InTail ==
  ASSUME NEW q \in Seq(AllTasks), q # <<>>, NEW t
  PROVE  In(q, t) <=> In(Tail(q), t) \/ t = Head(q)
<1>1. Tail(q) \in Seq(AllTasks) /\ Len(Tail(q)) = Len(q) - 1 /\ Len(q) >= 1 /\ q[1] = Head(q)
  OBVIOUS
<1>2. \A i \in 1..Len(Tail(q)) : Tail(q)[i] = q[i + 1]
  OBVIOUS
<1>3. \A i \in 1..Len(q) : i = 1 \/ (i - 1 \in 1..Len(Tail(q)) /\ q[i] = Tail(q)[i - 1])
  BY <1>1, <1>2
<1>4. ASSUME In(Tail(q), t) PROVE In(q, t)
  <2>1. PICK i \in 1..Len(Tail(q)) : Tail(q)[i] = t
    BY <1>4 DEF In
  <2>2. i + 1 \in 1..Len(q) /\ q[i + 1] = t
    BY <1>1, <1>2, <2>1
  <2> QED
    BY <2>2 DEF In
<1>5. ASSUME In(q, t) PROVE In(Tail(q), t) \/ t = Head(q)
  BY <1>1, <1>3, <1>5 DEF In
<1>6. In(q, Head(q))
  BY <1>1 DEF In
<1> QED
  BY <1>4, <1>5, <1>6

\* A login at the head is the only one; no release runs before its login.
LEMMA LoginFirstTail ==
  ASSUME NEW q \in Seq(AllTasks), q # <<>>, LoginFirst(q), NEW p \in Protocols
  PROVE  /\ LoginFirst(Tail(q))
         /\ Head(q) \in {Task("login", p), Task("release", p)} =>
               ~In(Tail(q), Task("login", p))
<1>1. Tail(q) \in Seq(AllTasks) /\ Len(Tail(q)) = Len(q) - 1 /\ Len(q) >= 1 /\ q[1] = Head(q)
  OBVIOUS
<1>2. \A i \in 1..Len(Tail(q)) : i + 1 \in 1..Len(q) /\ Tail(q)[i] = q[i + 1]
  BY <1>1
<1>3. LoginFirst(Tail(q))
  <2> SUFFICES ASSUME NEW i \in 1..Len(Tail(q)), NEW j \in 1..Len(Tail(q)),
                      Tail(q)[i].kind = "login",
                      Tail(q)[j].protocol = Tail(q)[i].protocol,
                      Tail(q)[j].kind \in {"login", "release"}
               PROVE  i <= j
    BY DEF LoginFirst
  <2>1. i + 1 <= j + 1
    BY <1>2 DEF LoginFirst
  <2> QED
    BY <2>1
<1>4. ASSUME Head(q) \in {Task("login", p), Task("release", p)}, In(Tail(q), Task("login", p))
      PROVE  FALSE
  <2>1. PICK i \in 1..Len(Tail(q)) : Tail(q)[i] = Task("login", p)
    BY <1>4 DEF In
  <2>2. i + 1 <= 1
    BY <1>1, <1>2, <1>4, <2>1 DEF LoginFirst, Task
  <2> QED
    BY <2>2
<1> QED
  BY <1>3, <1>4

\* Any other task may be queued without disturbing this order.
LEMMA LoginFirstAppend ==
  ASSUME NEW q \in Seq(AllTasks), LoginFirst(q), NEW k \in {"release", "logout"},
         NEW p \in Protocols
  PROVE  LoginFirst(Append(q, Task(k, p)))
<1>1. Task(k, p) \in AllTasks /\ Task(k, p).kind = k
  BY DEF Task, AllTasks, Kinds
<1> QED
  BY <1>1 DEF LoginFirst

LEMMA LoginFirstNew ==
  ASSUME NEW q \in Seq(AllTasks), LoginFirst(q), NEW p \in Protocols,
         ~In(q, Task("login", p)), ~In(q, Task("release", p))
  PROVE  LoginFirst(Append(q, Task("login", p)))
<1> DEFINE s == Append(q, Task("login", p))
<1>1. s \in Seq(AllTasks) /\ Len(s) = Len(q) + 1 /\ s[Len(s)] = Task("login", p)
  BY TaskType DEF Kinds
<1>2. \A i \in 1..Len(s) : i = Len(s) \/ (i \in 1..Len(q) /\ s[i] = q[i])
  BY <1>1
<1>3. ASSUME NEW j \in 1..Len(q), q[j].protocol = p, q[j].kind \in {"login", "release"}
      PROVE  FALSE
  <2>1. q[j] \in AllTasks
    OBVIOUS
  <2>2. q[j] = Task(q[j].kind, p)
    BY <1>3, <2>1 DEF Task, AllTasks
  <2> QED
    BY <1>3, <2>2 DEF In
<1> QED
  BY <1>1, <1>2, <1>3 DEF LoginFirst, Task

LEMMA LoginFirstCons ==
  ASSUME NEW q \in Seq(AllTasks), LoginFirst(q), NEW p \in Protocols
  PROVE  LoginFirst(<<Task("connect", p)>> \o q)
<1> DEFINE u == Task("connect", p)
           s == <<u>> \o q
<1>1. u \in AllTasks /\ u.kind = "connect"
  BY TaskType DEF Kinds
<1>2. s \in Seq(AllTasks) /\ Len(s) = Len(q) + 1 /\ s[1] = u
  BY <1>1
<1>3. \A i \in 1..Len(q) : s[i + 1] = q[i]
  BY <1>1
<1>4. \A i \in 1..Len(s) : i = 1 \/ (i - 1 \in 1..Len(q) /\ s[i] = q[i - 1])
  BY <1>2, <1>3
<1> SUFFICES ASSUME NEW i \in 1..Len(s), NEW j \in 1..Len(s),
                    s[i].kind = "login", s[j].protocol = s[i].protocol,
                    s[j].kind \in {"login", "release"}
             PROVE  i <= j
  BY DEF LoginFirst
<1>5. i # 1 /\ j # 1
  BY <1>1, <1>2
<1>6. i - 1 <= j - 1
  BY <1>4, <1>5 DEF LoginFirst
<1> QED
  BY <1>2, <1>6

-----------------------------------------------------------------------------
(* The inductive invariant                                                 *)

\* A player the game has removed is not in the game.
Disjoint == online \cap toRelease = {}

\* Every Player object with a client was allocated.
ClientsCreated == \A x \in Players : client[x] # None => x \in created

\* ClientHoldsPlayer, of the objects that are not allocated yet too.
Linked == \A p \in Protocols, x \in Players : player[p] = x <=> client[x] = p

\* The network thread parses for the player of an open connection.
ParsingOpen == \A p \in Protocols :
    parsing[p] # None => conn[p] = "open" /\ player[p] = parsing[p]

\* A protocol has no player before its login and while its connect is due.
Unattached == \A p \in Protocols :
    /\ conn[p] = "new" => player[p] = None /\ eventConnect[p] = None
    /\ eventConnect[p] # None => player[p] = None
    /\ In(tasks, Task("login", p)) =>
          /\ conn[p] # "new" /\ player[p] = None /\ eventConnect[p] = None
          /\ conn[p] = "open" \/ In(tasks, Task("release", p))

\* The release of a protocol follows the close of its connection.
ReleaseFollowsClose == \A p \in Protocols :
    In(tasks, Task("release", p)) => conn[p] \in {"closed", "expired"}

\* A client is still to be released, or was attached too late.
ClientsReleased == \A x \in Players :
    client[x] # None => ReleaseToCome(client[x]) \/ client[x] \in lateExpiry

\* Objects is about the Player objects, Queue about what the queue holds for a
\* protocol, Released about the protocols that are still to be released.
Objects == OneOnline /\ Disjoint /\ ClientsCreated /\ Linked /\ CounterExact
Queue == LoginFirst(tasks) /\ Unattached /\ ReleaseFollowsClose
Clients == ParsingOpen /\ ClientsReleased /\ AutosendIsReleased

IInv == TypeOK /\ Objects /\ Queue /\ Clients

-----------------------------------------------------------------------------
(* What the steps do to the queue                                          *)

LEMMA TaskEqual ==
  \A k1, k2, p1, p2 : Task(k1, p1) = Task(k2, p2) <=> k1 = k2 /\ p1 = p2
  BY DEF Task

LEMMA ToComeIn ==
  /\ \A p : ReleaseToCome(p) <=>
        conn[p] \notin {"closed", "expired"} \/ In(tasks, Task("release", p))
  /\ (\A p : ReleaseToCome(p) <=>
        conn[p] \notin {"closed", "expired"} \/ In(tasks, Task("release", p)))'
  BY DEF ReleaseToCome, Released, Queued, In

\* Popping the task at the head.
LEMMA PopEffect ==
  ASSUME TypeOK, LoginFirst(tasks), NEW k \in Kinds, NEW p \in Protocols, Runs(k, p)
  PROVE  /\ Tail(tasks) \in Seq(AllTasks) /\ LoginFirst(Tail(tasks))
         /\ In(tasks, Task(k, p))
         /\ \A t : In(Tail(tasks), t) => In(tasks, t)
         /\ \A t : In(tasks, t) /\ t # Task(k, p) => In(Tail(tasks), t)
         /\ k \in {"login", "release"} => ~In(Tail(tasks), Task("login", p))
<1>1. tasks \in Seq(AllTasks) /\ tasks # <<>> /\ Head(tasks) = Task(k, p)
  BY DEF TypeOK, AllTasks, Runs
<1>2. Tail(tasks) \in Seq(AllTasks)
  BY <1>1
<1> QED
  BY <1>1, <1>2, InTail, LoginFirstTail

\* Connection::close() of p, by a step that leaves q of the queue.
LEMMA CloseEffect ==
  ASSUME TypeOK, NEW q \in Seq(AllTasks), LoginFirst(q), NEW p \in Protocols,
         conn' = Closed(p), tasks' = ThenRelease(q, p)
  PROVE  /\ conn' \in [Protocols -> {"new", "open", "closed", "expired"}]
         /\ tasks' \in Seq(AllTasks) /\ LoginFirst(tasks')
         /\ \A t : In(q, t) => In(tasks', t)
         /\ \A t : In(tasks', t) => In(q, t) \/ (conn[p] = "open" /\ t = Task("release", p))
         /\ conn[p] = "open" => In(tasks', Task("release", p)) /\ conn'[p] = "closed"
         /\ conn[p] # "open" => conn'[p] = conn[p]
         /\ \A r \in Protocols \ {p} : conn'[r] = conn[r]
<1>1. Task("release", p) \in AllTasks
  BY TaskType DEF Kinds
<1>2. conn' \in [Protocols -> {"new", "open", "closed", "expired"}]
  BY DEF TypeOK, Closed
<1>3. tasks' \in Seq(AllTasks)
  BY <1>1 DEF ThenRelease
<1>4. LoginFirst(tasks')
  BY LoginFirstAppend DEF ThenRelease
<1>5. \A t : In(tasks', t) <=> In(q, t) \/ (conn[p] = "open" /\ t = Task("release", p))
  BY <1>1, InAppend DEF ThenRelease
<1> QED
  BY <1>2, <1>3, <1>4, <1>5 DEF TypeOK, Closed

-----------------------------------------------------------------------------
(* What the steps do to the Player objects                                 *)

LinksOK ==
    /\ player \in [Protocols -> Players \cup {None}]
    /\ created \in SUBSET Players /\ online \in SUBSET created
    /\ toRelease \in SUBSET created
    /\ client \in [Players -> Protocols \cup {None}]
    /\ referenceCounter \in [Players -> Nat]

LEMMA ObjectsUnchanged == LinksOK /\ Objects /\ UNCHANGED links => LinksOK' /\ Objects'
  BY DEF Objects, OneOnline, Disjoint, ClientsCreated, Linked, CounterExact, links, LinksOK

\* connect() takes over a player in the game that nobody plays.
LEMMA ObjectsAttach ==
  ASSUME LinksOK, Objects, NEW p \in Protocols, NEW x, Available(x), player[p] = None,
         Attach(p, x), UNCHANGED <<created, online, toRelease>>
  PROVE  LinksOK' /\ Objects'
<1>0. x \in Players /\ x \in created /\ x \in online /\ client[x] = None /\ None \notin Protocols \cup Players
  BY SessionAssumption DEF Available, LinksOK
<1>1. LinksOK'
  BY <1>0 DEF LinksOK, Attach
<1>2. OneOnline' /\ Disjoint' /\ ClientsCreated'
  BY <1>0 DEF Attach, LinksOK, Objects, OneOnline, Disjoint, ClientsCreated
<1>3. Linked'
  BY <1>0 DEF Attach, LinksOK, Objects, Linked
<1>4. CounterExact'
  BY <1>0 DEF Attach, LinksOK, Objects, CounterExact, Bit
<1> QED
  BY <1>1, <1>2, <1>3, <1>4 DEF Objects

\* removeCreature moves the game's reference from the game to the clean-up.
LEMMA ObjectsRemove ==
  ASSUME LinksOK, Objects, NEW x \in created, Remove(x)
  PROVE  LinksOK' /\ Objects'
<1>1. LinksOK'
  BY DEF LinksOK, Remove
<1>2. OneOnline' /\ Disjoint' /\ ClientsCreated' /\ Linked'
  BY DEF Remove, LinksOK, Objects, OneOnline, Disjoint, ClientsCreated, Linked
<1>3. \A y : y \in (online \cup toRelease)' <=> y \in online \cup toRelease
  BY DEF Remove
<1>4. CounterExact'
  BY <1>3 DEF Remove, Objects, CounterExact, Bit
<1> QED
  BY <1>1, <1>2, <1>4 DEF Objects

\* A Player object a login allocates, put into the game or not.
LEMMA ObjectsNew ==
  ASSUME LinksOK, Objects, NEW p \in Protocols, NEW x \in Players \ created,
         NotFound, player[p] = None,
         created' = created \cup {x},
         player' = [player EXCEPT ![p] = x],
         client' = [client EXCEPT ![x] = p],
         \/ /\ referenceCounter' = [referenceCounter EXCEPT ![x] = 1]
            /\ UNCHANGED online
         \/ /\ referenceCounter' = [referenceCounter EXCEPT ![x] = 2]
            /\ online' = online \cup {x},
         UNCHANGED toRelease
  PROVE  LinksOK' /\ Objects'
<1>0. x \notin online /\ x \notin toRelease /\ client[x] = None /\ None \notin Protocols \cup Players
  BY SessionAssumption DEF Objects, LinksOK, ClientsCreated
<1>1. LinksOK'
  BY DEF LinksOK
<1>2. OneOnline' /\ Disjoint' /\ ClientsCreated'
  BY <1>0 DEF LinksOK, NotFound, Objects, OneOnline, Disjoint, ClientsCreated
<1>3. Linked'
  BY <1>0 DEF LinksOK, Objects, Linked
<1>4. CounterExact'
  BY <1>0 DEF LinksOK, Objects, CounterExact, Bit
<1> QED
  BY <1>1, <1>2, <1>3, <1>4 DEF Objects

\* release() by the player's client.
LEMMA ObjectsRelease ==
  ASSUME LinksOK, Objects, NEW p \in Protocols, GivesUp(p),
         client' = [client EXCEPT ![player[p]] = None],
         referenceCounter' = [referenceCounter EXCEPT ![player[p]] = @ - 1],
         player' = [player EXCEPT ![p] = None],
         UNCHANGED <<created, online, toRelease>>
  PROVE  LinksOK' /\ Objects'
<1> DEFINE x == player[p]
<1>0. x \in Players /\ x \in created /\ client[x] = p /\ None \notin Protocols \cup Players
  BY SessionAssumption DEF GivesUp, LinksOK, Objects, ClientsCreated
<1>1. referenceCounter[x] = Bit(x \in online \cup toRelease) + 1
  BY <1>0 DEF Objects, CounterExact, Bit
<1>2. LinksOK'
  BY <1>0, <1>1 DEF LinksOK, Bit
<1>3. OneOnline' /\ Disjoint' /\ ClientsCreated'
  BY <1>0 DEF LinksOK, Objects, OneOnline, Disjoint, ClientsCreated
<1>4. Linked'
  BY <1>0 DEF LinksOK, Objects, Linked
<1>5. CounterExact'
  BY <1>0, <1>1 DEF LinksOK, Objects, CounterExact, Bit
<1> QED
  BY <1>2, <1>3, <1>4, <1>5 DEF Objects

\* cleanup() drops the game's references to the players it has removed.
LEMMA ObjectsCleanup == LinksOK /\ Objects /\ Cleanup => LinksOK' /\ Objects'
<1> SUFFICES ASSUME LinksOK, Objects, Cleanup PROVE LinksOK' /\ Objects'
  OBVIOUS
<1>1. \A x \in toRelease : referenceCounter[x] = 1 + Bit(client[x] # None)
  BY DEF LinksOK, Objects, CounterExact, Bit
<1>2. LinksOK'
  BY <1>1 DEF LinksOK, Cleanup, AfterCleanup, Bit
<1>3. OneOnline' /\ Disjoint' /\ ClientsCreated' /\ Linked'
  BY DEF Cleanup, AfterCleanup, LinksOK, Objects, OneOnline, Disjoint, ClientsCreated, Linked
<1>4. CounterExact'
  BY <1>1 DEF Cleanup, AfterCleanup, LinksOK, Objects, Disjoint, CounterExact, Bit
<1> QED
  BY <1>2, <1>3, <1>4 DEF Objects

-----------------------------------------------------------------------------
(* Every step preserves the invariant                                      *)

NetOK ==
    /\ conn \in [Protocols -> {"new", "open", "closed", "expired"}]
    /\ parsing \in [Protocols -> Players \cup {None}]
    /\ eventConnect \in [Protocols -> Players \cup {None}]
    /\ acceptPackets \in SUBSET Protocols
    /\ bufferedProtocols \in SUBSET Protocols
    /\ lateExpiry \in SUBSET Protocols
    /\ tasks \in Seq(AllTasks)

LEMMA TypeParts ==
  (TypeOK <=> LinksOK /\ NetOK) /\ (TypeOK <=> LinksOK /\ NetOK)'
  BY DEF TypeOK, LinksOK, NetOK, AllTasks

\* What every step does to connections and queue, but the login request that
\* arrives and the release that runs.
NetStep ==
    /\ conn' \in [Protocols -> {"new", "open", "closed", "expired"}]
    /\ tasks' \in Seq(AllTasks) /\ LoginFirst(tasks')
    /\ \A r \in Protocols :
          /\ \/ conn'[r] = conn[r]
             \/ conn[r] = "open" /\ conn'[r] = "closed" /\ In(tasks', Task("release", r))
             \/ conn[r] = "closed" /\ conn'[r] = "expired"
          /\ In(tasks, Task("release", r)) => In(tasks', Task("release", r))
          /\ In(tasks', Task("login", r)) => In(tasks, Task("login", r))
          /\ In(tasks', Task("release", r)) =>
                In(tasks, Task("release", r)) \/ conn'[r] = "closed"

LEMMA NetStays == TypeOK /\ Queue /\ UNCHANGED <<conn, tasks>> => NetStep
  BY TypeParts DEF NetStep, NetOK, Queue

\* A step that closes p and leaves q of the queue, where q lacks no release.
LEMMA NetCloses ==
  ASSUME TypeOK, NEW q \in Seq(AllTasks), LoginFirst(q), NEW p \in Protocols,
         conn' = Closed(p), tasks' = ThenRelease(q, p),
         \A r \in Protocols : In(tasks, Task("release", r)) => In(q, Task("release", r)),
         \A t : In(q, t) => In(tasks, t)
  PROVE  /\ NetStep
         /\ \A r \in Protocols : In(tasks', Task("login", r)) => In(q, Task("login", r))
<1>1. \A r \in Protocols : Task("release", r) # Task("login", r)
  BY TaskEqual
<1> QED
  BY <1>1, CloseEffect, TaskEqual, TypeParts DEF NetStep, NetOK

\* A task other than a release is run; it closes a connection or none.
LEMMA NetRuns ==
  ASSUME TypeOK, Queue, NEW k \in Kinds \ {"release"}, NEW p \in Protocols, Runs(k, p),
         Taken \/ \E r \in Protocols : Disconnects(r)
  PROVE  NetStep /\ (k = "login" => ~In(tasks', Task("login", p)))
<1>1. /\ Tail(tasks) \in Seq(AllTasks) /\ LoginFirst(Tail(tasks))
      /\ \A t : In(Tail(tasks), t) => In(tasks, t)
      /\ \A r : In(tasks, Task("release", r)) => In(Tail(tasks), Task("release", r))
      /\ k = "login" => ~In(Tail(tasks), Task("login", p))
  BY PopEffect, TaskEqual DEF Queue
<1>2. CASE Taken
  BY <1>1, <1>2, TypeParts DEF Taken, NetStep, NetOK
<1>3. ASSUME NEW r \in Protocols, Disconnects(r)
      PROVE  NetStep /\ (k = "login" => ~In(tasks', Task("login", p)))
  BY <1>1, <1>3, NetCloses DEF Disconnects
<1> QED
  BY <1>2, <1>3

LEMMA NetStepToCome ==
  ASSUME TypeOK, NetStep, NEW r \in Protocols, ReleaseToCome(r)
  PROVE  ReleaseToCome(r)'
  BY ToComeIn DEF NetStep

\* The queue's invariant survives such a step, provided a protocol gets a player
\* or a connect event only once its login is no longer queued.
LEMMA NetStepQueue ==
  ASSUME TypeOK, Queue, NetStep,
         \A r \in Protocols :
            \/ player'[r] \in {player[r], None} /\ eventConnect'[r] \in {eventConnect[r], None}
            \/ /\ player'[r] = None \/ eventConnect'[r] = None
               /\ ~In(tasks', Task("login", r)) /\ conn[r] # "new"
  PROVE  Queue'
<1>1. Unattached'
  <2> SUFFICES ASSUME NEW r \in Protocols
               PROVE  /\ conn'[r] = "new" => player'[r] = None /\ eventConnect'[r] = None
                      /\ eventConnect'[r] # None => player'[r] = None
                      /\ In(tasks', Task("login", r)) =>
                            /\ conn'[r] # "new" /\ player'[r] = None /\ eventConnect'[r] = None
                            /\ conn'[r] = "open" \/ In(tasks', Task("release", r))
    BY DEF Unattached
  <2> QED
    BY DEF NetStep, Queue, Unattached
<1>2. ReleaseFollowsClose'
  BY DEF NetStep, Queue, ReleaseFollowsClose
<1> QED
  BY <1>1, <1>2 DEF Queue, NetStep

\* And so does the clients' invariant, provided a new client is one that will be
\* released or is recorded.
LEMMA NetStepClients ==
  ASSUME TypeOK, Clients, NetStep, lateExpiry \subseteq lateExpiry',
         TypeOK',
         \A r \in Protocols : parsing'[r] # None =>
            \/ parsing'[r] = parsing[r] /\ player'[r] = player[r] /\ conn'[r] = conn[r]
            \/ conn'[r] = "open" /\ player'[r] = parsing'[r],
         \A x \in Players : client'[x] \in {client[x], None}
            \/ ReleaseToCome(client'[x]) \/ client'[x] \in lateExpiry',
         \A r \in bufferedProtocols' : r \in bufferedProtocols \/ ReleaseToCome(r)
  PROVE  Clients'
<1>1. ParsingOpen'
  BY DEF Clients, ParsingOpen
<1>2. ClientsReleased'
  BY NetStepToCome, TypeParts DEF Clients, ClientsReleased, LinksOK
<1>3. AutosendIsReleased'
  BY NetStepToCome, TypeParts DEF Clients, AutosendIsReleased, NetOK
<1> QED
  BY <1>1, <1>2, <1>3 DEF Clients

LEMMA StepFirstMessage ==
  ASSUME IInv, NEW p \in Protocols, FirstMessage(p)
  PROVE  IInv'
<1> USE DEF IInv
<1>1. /\ tasks \in Seq(AllTasks) /\ Task("login", p) \in AllTasks
      /\ ~In(tasks, Task("login", p)) /\ ~In(tasks, Task("release", p))
  BY TypeParts, TaskType DEF NetOK, Kinds, Queue, Unattached, ReleaseFollowsClose, FirstMessage
<1>2. /\ tasks' \in Seq(AllTasks) /\ LoginFirst(tasks')
      /\ \A t : In(tasks', t) <=> In(tasks, t) \/ t = Task("login", p)
  BY <1>1, InAppend, LoginFirstNew DEF FirstMessage, Queue
<1>3. Objects' /\ LinksOK'
  BY ObjectsUnchanged, TypeParts DEF FirstMessage
<1>4. TypeOK'
  BY <1>2, <1>3, TypeParts DEF NetOK, FirstMessage, flags
<1>5. Queue'
  <2>1. Unattached'
    BY <1>2, TaskEqual, TypeParts DEF Queue, Unattached, FirstMessage, links, flags, NetOK
  <2>2. ReleaseFollowsClose'
    BY <1>2, TaskEqual, TypeParts DEF Queue, ReleaseFollowsClose, FirstMessage, NetOK
  <2> QED
    BY <1>2, <2>1, <2>2 DEF Queue
<1>6. Clients'
  <2>1. \A r \in Protocols : ReleaseToCome(r) => ReleaseToCome(r)'
    BY <1>2, ToComeIn, TypeParts DEF FirstMessage, NetOK
  <2>2. ParsingOpen'
    BY TypeParts DEF Clients, ParsingOpen, FirstMessage, links, NetOK
  <2>3. ClientsReleased' /\ AutosendIsReleased'
    BY <2>1, TypeParts DEF Clients, ClientsReleased, AutosendIsReleased, FirstMessage, links, flags, NetOK, LinksOK
  <2> QED
    BY <2>2, <2>3 DEF Clients
<1> QED
  BY <1>3, <1>4, <1>5, <1>6

\* What a queued login says of its protocol.
LEMMA LoginFacts ==
  ASSUME IInv, NEW p \in Protocols, Runs("login", p)
  PROVE  /\ player[p] = None /\ eventConnect[p] = None /\ conn[p] # "new"
         /\ ReleaseToCome(p)
<1>1. In(tasks, Task("login", p))
  BY PopEffect DEF IInv, Queue, Kinds
<1> QED
  BY <1>1, ToComeIn DEF IInv, Queue, Unattached

LEMMA StepLoginNew ==
  ASSUME IInv, NEW p \in Protocols, LoginNew(p)
  PROVE  IInv'
<1> USE DEF IInv
<1>1. /\ player[p] = None /\ eventConnect[p] = None /\ conn[p] # "new"
      /\ ReleaseToCome(p) /\ LinksOK /\ NetOK
  BY LoginFacts, TypeParts DEF LoginNew
<1>2. NetStep /\ ~In(tasks', Task("login", p))
  BY NetRuns DEF LoginNew, Kinds
<1>3. PICK x \in Players \ created :
         /\ created' = created \cup {x}
         /\ player' = [player EXCEPT ![p] = x]
         /\ client' = [client EXCEPT ![x] = p]
         /\ \/ /\ referenceCounter' = [referenceCounter EXCEPT ![x] = 1]
               /\ UNCHANGED <<online, acceptPackets, bufferedProtocols>>
            \/ /\ referenceCounter' = [referenceCounter EXCEPT ![x] = 2]
               /\ online' = online \cup {x}
               /\ acceptPackets' = acceptPackets \cup {p}
               /\ bufferedProtocols' = bufferedProtocols \cup {p}
  BY DEF LoginNew
<1>4. UNCHANGED <<parsing, eventConnect, toRelease, lateExpiry>> /\ NotFound
  BY DEF LoginNew
<1>5. LinksOK' /\ Objects'
  BY <1>1, <1>3, <1>4, ObjectsNew
<1>6. TypeOK'
  BY <1>1, <1>2, <1>3, <1>4, <1>5, TypeParts DEF NetOK, NetStep
<1>7. Queue'
  BY <1>1, <1>2, <1>3, <1>4, NetStepQueue DEF LinksOK
<1>8. Clients'
  <2>1. \A r \in Protocols : parsing'[r] # None =>
            parsing'[r] = parsing[r] /\ player'[r] = player[r] /\ conn'[r] = conn[r]
    BY <1>1, <1>2, <1>3, <1>4 DEF LoginNew, Disconnects, Closed, LockFree, Taken, NetOK, LinksOK, Clients, ParsingOpen
  <2>2. \A y \in Players : client'[y] \in {client[y], None} \/ ReleaseToCome(client'[y])
    BY <1>1, <1>3 DEF LinksOK
  <2>3. \A r \in bufferedProtocols' : r \in bufferedProtocols \/ ReleaseToCome(r)
    BY <1>1, <1>3
  <2> QED
    BY <1>2, <1>4, <1>6, <2>1, <2>2, <2>3, NetStepClients
<1> QED
  BY <1>5, <1>6, <1>7, <1>8

\* A step that leaves the players, the pool and the events alone and is a NetStep.
LEMMA StepQuiet ==
  ASSUME IInv, NetStep, UNCHANGED <<links, flags>>,
         parsing' \in [Protocols -> Players \cup {None}],
         \A r \in Protocols : parsing'[r] # None =>
            \/ parsing'[r] = parsing[r] /\ conn'[r] = conn[r]
            \/ conn'[r] = "open" /\ player[r] = parsing'[r]
  PROVE  IInv'
<1> USE DEF IInv
<1>1. LinksOK' /\ Objects'
  BY ObjectsUnchanged, TypeParts
<1>2. TypeOK'
  BY <1>1, TypeParts DEF NetOK, NetStep, flags
<1>3. Queue'
  BY NetStepQueue DEF links, flags
<1>4. Clients'
  BY <1>2, NetStepClients DEF links, flags
<1> QED
  BY <1>1, <1>2, <1>3, <1>4

\* The parsing thread keeps its connection open: a step that closes another one,
\* or this one at the end of the packet, leaves ParsingOpen alone.
LEMMA ClosedParsing ==
  ASSUME IInv, NEW p \in Protocols, conn' = Closed(p),
         NEW r \in Protocols, r # p \/ conn[p] # "open"
  PROVE  conn'[r] = conn[r]
  BY TypeParts DEF IInv, Closed, NetOK

LEMMA StepNetwork ==
  ASSUME IInv, NEW p \in Protocols,
         \/ ConnectionCloses(p) \/ ConnectionExpires(p) \/ ParseBegins(p)
         \/ ParseEnds(p) \/ EventDue(p)
  PROVE  IInv'
<1> USE DEF IInv
<1>1. NetOK /\ LinksOK /\ tasks \in Seq(AllTasks) /\ LoginFirst(tasks) /\ ParsingOpen
  BY TypeParts DEF NetOK, Queue, Clients
<1>2. CASE ConnectionCloses(p)
  <2>1. NetStep
    BY <1>1, <1>2, NetCloses DEF ConnectionCloses
  <2>2. \A r \in Protocols : parsing[r] # None => conn'[r] = conn[r]
    BY <1>2, ClosedParsing DEF ConnectionCloses, LockFree
  <2> QED
    BY <1>1, <1>2, <2>1, <2>2, StepQuiet DEF ConnectionCloses, NetOK
<1>3. CASE ConnectionExpires(p)
  <2>1. NetStep
    BY <1>1, <1>3 DEF ConnectionExpires, NetStep, NetOK
  <2> QED
    BY <1>1, <1>3, <2>1, StepQuiet DEF ConnectionExpires, NetOK, ParsingOpen
<1>4. CASE ParseBegins(p)
  <2>1. NetStep
    BY <1>4, NetStays DEF ParseBegins
  <2> QED
    BY <1>1, <1>4, <2>1, StepQuiet DEF ParseBegins, NetOK, LinksOK
<1>5. CASE ParseEnds(p)
  <2>1. NetStep
    <3>1. CASE UNCHANGED <<tasks, conn>>
      BY <3>1, NetStays
    <3>2. CASE tasks' = Append(tasks, Task("logout", p)) /\ UNCHANGED conn
      <4>1. Task("logout", p) \in AllTasks
        BY TaskType DEF Kinds
      <4>2. tasks' \in Seq(AllTasks) /\ LoginFirst(tasks')
        BY <1>1, <3>2, <4>1, LoginFirstAppend
      <4>3. \A t : In(tasks', t) <=> In(tasks, t) \/ t = Task("logout", p)
        BY <1>1, <3>2, <4>1, InAppend
      <4> QED
        BY <1>1, <3>2, <4>2, <4>3, TaskEqual DEF NetStep, NetOK
    <3>3. CASE tasks' = ThenRelease(tasks, p) /\ conn' = Closed(p)
      BY <1>1, <3>3, NetCloses
    <3> QED
      BY <1>5, <3>1, <3>2, <3>3 DEF ParseEnds
  <2>2. \A r \in Protocols : parsing'[r] # None => parsing'[r] = parsing[r] /\ conn'[r] = conn[r]
    BY <1>1, <1>5, ClosedParsing DEF ParseEnds, NetOK
  <2>3. parsing' \in [Protocols -> Players \cup {None}]
    BY <1>1, <1>5 DEF ParseEnds, NetOK
  <2> QED
    BY <1>5, <2>1, <2>2, <2>3, StepQuiet DEF ParseEnds
<1>6. CASE EventDue(p)
  <2>1. Task("connect", p) \in AllTasks
    BY TaskType DEF Kinds
  <2>2. tasks' \in Seq(AllTasks) /\ LoginFirst(tasks')
    BY <1>1, <1>6, <2>1, LoginFirstCons DEF EventDue
  <2>3. \A t : In(tasks', t) <=> In(tasks, t) \/ t = Task("connect", p)
    BY <1>1, <1>6, <2>1, InCons DEF EventDue
  <2>4. NetStep
    BY <1>1, <1>6, <2>2, <2>3, TaskEqual DEF EventDue, net, NetStep, NetOK
  <2> QED
    BY <1>1, <1>6, <2>4, StepQuiet DEF EventDue, net, NetOK
<1> QED
  BY <1>2, <1>3, <1>4, <1>5, <1>6

\* A task of the dispatcher that closes a connection has its lock, so nothing is
\* being parsed there.
LEMMA TaskParsing ==
  ASSUME IInv, UNCHANGED parsing,
         UNCHANGED conn \/ \E r \in Protocols : LockFree(r) /\ conn' = Closed(r)
  PROVE  \A r \in Protocols : parsing'[r] # None =>
            parsing'[r] = parsing[r] /\ conn'[r] = conn[r]
  BY ClosedParsing DEF LockFree

LEMMA StepLoginAgain ==
  ASSUME IInv, NEW p \in Protocols, LoginAgain(p)
  PROVE  IInv'
<1> USE DEF IInv
<1>1. /\ player[p] = None /\ eventConnect[p] = None /\ conn[p] # "new"
      /\ ReleaseToCome(p) /\ LinksOK /\ NetOK
  BY LoginFacts, TypeParts DEF LoginAgain
<1>2. UNCHANGED parsing /\ Runs("login", p) /\ parsing' \in [Protocols -> Players \cup {None}]
  BY <1>1 DEF LoginAgain, NetOK
<1>3. CASE Disconnects(p) /\ UNCHANGED <<links, flags>>
  <2>1. NetStep
    BY <1>2, <1>3, NetRuns DEF Kinds
  <2>2. \A r \in Protocols : parsing'[r] # None => parsing'[r] = parsing[r] /\ conn'[r] = conn[r]
    BY <1>2, <1>3, TaskParsing DEF Disconnects
  <2> QED
    BY <1>2, <1>3, <2>1, <2>2, StepQuiet
<1>4. ASSUME NEW x \in online, client[x] # None, Disconnects(client[x]),
             eventConnect' = Scheduled(p, x), bufferedProtocols' = bufferedProtocols \cup {p},
             UNCHANGED <<links, acceptPackets, lateExpiry>>
      PROVE  IInv'
  <2>1. x \in Players /\ client[x] \in Protocols
    BY <1>1, <1>4 DEF LinksOK
  <2>2. NetStep /\ ~In(tasks', Task("login", p))
    BY <1>2, <1>4, <2>1, NetRuns DEF Kinds
  <2>3. LinksOK' /\ Objects'
    BY <1>1, <1>4, ObjectsUnchanged
  <2>4. TypeOK'
    BY <1>1, <1>2, <1>4, <2>1, <2>2, <2>3, TypeParts DEF NetOK, NetStep, Scheduled
  <2>5. Queue'
    BY <1>1, <1>4, <2>2, NetStepQueue DEF links, Scheduled, NetOK
  <2>6. \A r \in Protocols : parsing'[r] # None => parsing'[r] = parsing[r] /\ conn'[r] = conn[r]
    BY <1>2, <1>4, <2>1, TaskParsing DEF Disconnects
  <2>7. Clients'
    BY <1>1, <1>4, <2>2, <2>4, <2>6, NetStepClients DEF links
  <2> QED
    BY <2>3, <2>4, <2>5, <2>7
<1>5. ASSUME NEW x \in online, client[x] = None, Taken,
             IF conn[p] = "expired"
             THEN UNCHANGED <<player, client, referenceCounter, acceptPackets>>
             ELSE Attach(p, x),
             bufferedProtocols' = bufferedProtocols \cup {p},
             UNCHANGED <<created, online, toRelease, eventConnect, lateExpiry>>
      PROVE  IInv'
  <2>1. NetStep /\ ~In(tasks', Task("login", p))
    BY <1>2, <1>5, NetRuns DEF Kinds
  <2>2. LinksOK' /\ Objects'
    <3>1. CASE conn[p] = "expired"
      BY <1>1, <1>5, <3>1, ObjectsUnchanged DEF links
    <3>2. CASE conn[p] # "expired"
      BY <1>1, <1>5, <3>2, ObjectsAttach DEF Available
    <3> QED
      BY <3>1, <3>2
  <2>3. TypeOK'
    BY <1>1, <1>2, <1>5, <2>1, <2>2, TypeParts DEF NetOK, NetStep, Attach
  <2>4. Queue'
    BY <1>1, <1>5, <2>1, NetStepQueue DEF Attach, LinksOK
  <2>5. \A r \in Protocols : parsing'[r] # None =>
            parsing'[r] = parsing[r] /\ player'[r] = player[r] /\ conn'[r] = conn[r]
    BY <1>1, <1>2, <1>5 DEF Taken, Attach, LinksOK, Clients, ParsingOpen
  <2>6. \A y \in Players : client'[y] \in {client[y], None} \/ ReleaseToCome(client'[y])
    BY <1>1, <1>5 DEF Attach, LinksOK
  <2>7. Clients'
    BY <1>1, <1>5, <2>1, <2>3, <2>5, <2>6, NetStepClients
  <2> QED
    BY <2>2, <2>3, <2>4, <2>7
<1> QED
  BY <1>3, <1>4, <1>5 DEF LoginAgain

LEMMA StepConnect ==
  ASSUME IInv, NEW p \in Protocols, Connect(p)
  PROVE  IInv'
<1> USE DEF IInv
<1> DEFINE x == eventConnect[p]
<1>1. LinksOK /\ NetOK
  BY TypeParts
<1>2. /\ UNCHANGED <<parsing, bufferedProtocols>> /\ Runs("connect", p)
      /\ eventConnect' = [eventConnect EXCEPT ![p] = None]
      /\ Taken \/ Disconnects(p)
  BY DEF Connect
<1>3. NetStep
  BY <1>2, NetRuns DEF Kinds
<1>4. \A r \in Protocols : parsing'[r] # None => parsing'[r] = parsing[r] /\ conn'[r] = conn[r]
  BY <1>2, TaskParsing DEF Taken, Disconnects
<1>5. CASE UNCHANGED <<links, acceptPackets, lateExpiry>>
  <2>1. LinksOK' /\ Objects'
    BY <1>1, <1>5, ObjectsUnchanged
  <2>2. TypeOK'
    BY <1>1, <1>2, <1>3, <1>5, <2>1, TypeParts DEF NetOK, NetStep
  <2>3. Queue'
    BY <1>1, <1>2, <1>3, <1>5, NetStepQueue DEF links, NetOK
  <2>4. Clients'
    BY <1>1, <1>2, <1>3, <1>4, <1>5, <2>2, NetStepClients DEF links
  <2> QED
    BY <2>1, <2>2, <2>3, <2>4
<1>6. ASSUME Available(x), Taken, Attach(p, x),
             lateExpiry' = IF Released(p) THEN lateExpiry \cup {p} ELSE lateExpiry,
             UNCHANGED <<created, online, toRelease>>
      PROVE  IInv'
  <2>1. x \in Players /\ x # None
    BY <1>1, <1>6, SessionAssumption DEF Available, LinksOK
  <2>2. player[p] = None /\ conn[p] # "new" /\ ~In(tasks, Task("login", p))
    BY <2>1 DEF Queue, Unattached
  <2>3. LinksOK' /\ Objects'
    BY <1>1, <1>6, <2>2, ObjectsAttach
  <2>4. TypeOK'
    BY <1>1, <1>2, <1>3, <1>6, <2>3, TypeParts DEF NetOK, NetStep, Attach
  <2>5. ~In(tasks', Task("login", p))
    BY <1>3, <2>2 DEF NetStep
  <2>6. Queue'
    BY <1>1, <1>2, <1>3, <1>6, <2>2, <2>5, NetStepQueue DEF Attach, LinksOK, NetOK
  <2>7. \A r \in Protocols : parsing'[r] # None =>
            parsing'[r] = parsing[r] /\ player'[r] = player[r] /\ conn'[r] = conn[r]
    BY <1>1, <1>2, <1>4, <1>6, <2>2 DEF Attach, LinksOK, Clients, ParsingOpen
  <2>8. ReleaseToCome(p) \/ p \in lateExpiry'
    BY <1>6 DEF ReleaseToCome
  <2>9. \A y \in Players : client'[y] \in {client[y], None}
            \/ ReleaseToCome(client'[y]) \/ client'[y] \in lateExpiry'
    BY <1>1, <1>6, <2>8 DEF Attach, LinksOK
  <2>10. Clients'
    BY <1>2, <1>3, <1>6, <2>4, <2>7, <2>9, NetStepClients
  <2> QED
    BY <2>3, <2>4, <2>6, <2>10
<1> QED
  BY <1>5, <1>6 DEF Connect

\* logout(), kickPlayer() and death remove a player, or do nothing at all.
LEMMA StepRemoves ==
  ASSUME IInv, NetStep, UNCHANGED <<parsing, flags>>,
         \/ UNCHANGED links
         \/ \E x \in created : Remove(x),
         UNCHANGED conn \/ \E r \in Protocols : LockFree(r) /\ conn' = Closed(r)
  PROVE  IInv'
<1> USE DEF IInv
<1>1. LinksOK /\ NetOK
  BY TypeParts
<1>2. LinksOK' /\ Objects'
  BY <1>1, ObjectsUnchanged, ObjectsRemove
<1>3. TypeOK'
  BY <1>1, <1>2, TypeParts DEF NetOK, NetStep, flags
<1>4. UNCHANGED <<player, client, eventConnect, bufferedProtocols, lateExpiry>>
  BY DEF links, Remove, flags
<1>5. Queue'
  BY <1>4, NetStepQueue
<1>6. \A r \in Protocols : parsing'[r] # None => parsing'[r] = parsing[r] /\ conn'[r] = conn[r]
  BY TaskParsing
<1>7. Clients'
  BY <1>3, <1>4, <1>6, NetStepClients
<1> QED
  BY <1>2, <1>3, <1>5, <1>7

LEMMA StepLogout ==
  ASSUME IInv, NEW p \in Protocols, Logout(p)
  PROVE  IInv'
<1>1. NetStep
  BY NetRuns DEF IInv, Logout, Kinds
<1>2. player[p] # None => player[p] \in created
  BY TypeParts, SessionAssumption DEF IInv, LinksOK, Objects, Linked, ClientsCreated
<1>3. UNCHANGED links \/ \E x \in created : Remove(x)
  BY <1>2 DEF Logout
<1> QED
  BY <1>1, <1>3, StepRemoves DEF Logout, Taken, Disconnects

LEMMA StepKick ==
  ASSUME IInv, NEW x \in Players, Kick(x)
  PROVE  IInv'
<1>1. LinksOK /\ tasks \in Seq(AllTasks) /\ LoginFirst(tasks)
  BY TypeParts DEF IInv, NetOK, Queue
<1>2. NetStep
  <2>1. CASE UNCHANGED <<conn, tasks>>
    BY <2>1, NetStays DEF IInv
  <2>2. CASE client[x] # None /\ conn' = Closed(client[x]) /\ tasks' = ThenRelease(tasks, client[x])
    BY <1>1, <2>2, NetCloses DEF IInv, LinksOK
  <2> QED
    BY <2>1, <2>2 DEF Kick
<1>3. x \in created /\ (client[x] # None => client[x] \in Protocols)
  BY <1>1 DEF Kick, LinksOK
<1> QED
  BY <1>2, <1>3, StepRemoves DEF Kick

LEMMA StepDie ==
  ASSUME IInv, NEW x \in Players, Die(x)
  PROVE  IInv'
<1>1. NetStep
  BY NetStays DEF IInv, Die, net
<1>2. x \in created
  BY TypeParts DEF IInv, Die, LinksOK
<1> QED
  BY <1>1, <1>2, StepRemoves DEF Die, net

LEMMA StepCleanup == IInv /\ Cleanup => IInv'
<1> SUFFICES ASSUME IInv, Cleanup PROVE IInv'
  OBVIOUS
<1> USE DEF IInv
<1>1. LinksOK' /\ Objects'
  BY ObjectsCleanup, TypeParts
<1>2. UNCHANGED <<net, tasks, flags, player, client>> /\ NetStep
  BY NetStays DEF Cleanup, net
<1>3. TypeOK'
  BY <1>1, <1>2, TypeParts DEF NetOK, net, flags
<1>4. Queue'
  BY <1>2, NetStepQueue DEF flags
<1>5. Clients'
  BY <1>2, <1>3, NetStepClients DEF net, flags
<1> QED
  BY <1>1, <1>3, <1>4, <1>5

LEMMA StepRelease ==
  ASSUME IInv, NEW p \in Protocols, Release(p)
  PROVE  IInv'
<1> USE DEF IInv
<1>1. LinksOK /\ NetOK
  BY TypeParts
<1>2. /\ tasks' \in Seq(AllTasks) /\ LoginFirst(tasks')
      /\ ~In(tasks', Task("login", p)) /\ In(tasks, Task("release", p))
      /\ \A t : In(tasks', t) => In(tasks, t)
      /\ \A t : In(tasks, t) /\ t # Task("release", p) => In(tasks', t)
  BY PopEffect DEF Release, Taken, Kinds, Queue
<1>3. /\ UNCHANGED <<conn, parsing, created, online, toRelease, acceptPackets, eventConnect, lateExpiry>>
      /\ bufferedProtocols' = bufferedProtocols \ {p}
  BY DEF Release, Taken, RemoveFromAutosend
<1>4. LinksOK' /\ Objects'
  BY <1>1, ObjectsRelease, ObjectsUnchanged DEF Release, links
<1>5. TypeOK'
  BY <1>1, <1>2, <1>3, <1>4, TypeParts DEF NetOK
<1>6. \A r \in Protocols : player'[r] \in {player[r], None} /\ (r # p => player'[r] = player[r])
  BY <1>1 DEF Release, LinksOK
<1>7. \A r \in Protocols : r # p /\ ReleaseToCome(r) => ReleaseToCome(r)'
  BY <1>2, <1>3, TaskEqual, ToComeIn
<1>8. Queue'
  <2>1. Unattached'
    <3> SUFFICES ASSUME NEW r \in Protocols
                 PROVE  /\ conn[r] = "new" => player'[r] = None /\ eventConnect[r] = None
                        /\ eventConnect[r] # None => player'[r] = None
                        /\ In(tasks', Task("login", r)) =>
                              /\ conn[r] # "new" /\ player'[r] = None /\ eventConnect[r] = None
                              /\ conn[r] = "open" \/ In(tasks', Task("release", r))
      BY <1>3 DEF Unattached
    <3>1. r # p => Task("release", r) # Task("release", p)
      BY TaskEqual
    <3> QED
      BY <1>2, <1>6, <3>1 DEF Queue, Unattached
  <2>2. ReleaseFollowsClose'
    BY <1>2, <1>3 DEF Queue, ReleaseFollowsClose
  <2> QED
    BY <1>2, <2>1, <2>2 DEF Queue
<1>9. Clients'
  <2>1. parsing[p] = None
    BY <1>2 DEF Queue, ReleaseFollowsClose, Clients, ParsingOpen
  <2>2. ParsingOpen'
    BY <1>3, <1>6, <2>1 DEF Clients, ParsingOpen
  <2>3. \A x \in Players : client'[x] \in {client[x], None} /\ client'[x] # p
    BY <1>1, SessionAssumption DEF Release, GivesUp, LinksOK, Objects, Linked
  <2>4. ClientsReleased'
    BY <1>1, <1>3, <1>7, <2>3 DEF Clients, ClientsReleased, LinksOK
  <2>5. AutosendIsReleased'
    BY <1>1, <1>3, <1>7 DEF Clients, AutosendIsReleased, NetOK
  <2> QED
    BY <2>2, <2>4, <2>5 DEF Clients
<1> QED
  BY <1>4, <1>5, <1>8, <1>9

LEMMA Stutter == IInv /\ UNCHANGED vars => IInv'
<1> SUFFICES ASSUME IInv, UNCHANGED vars PROVE IInv'
  OBVIOUS
<1>1. NetStep /\ UNCHANGED <<links, flags, parsing, conn>>
  BY NetStays DEF vars, links, flags, IInv
<1> QED
  BY <1>1, StepRemoves

LEMMA InitIInv == Init => IInv
<1> SUFFICES ASSUME Init PROVE IInv
  OBVIOUS
<1>1. LinksOK /\ NetOK /\ \A t : ~In(tasks, t)
  BY DEF Init, LinksOK, NetOK, In
<1>2. LoginFirst(tasks)
  BY DEF Init, LoginFirst
<1>3. Objects
  BY SessionAssumption DEF Init, Objects, OneOnline, Disjoint, ClientsCreated, Linked, CounterExact
<1>4. Queue
  BY <1>1, <1>2 DEF Init, Queue, Unattached, ReleaseFollowsClose
<1>5. Clients
  BY DEF Init, Clients, ParsingOpen, ClientsReleased, AutosendIsReleased
<1> QED
  BY <1>1, <1>3, <1>4, <1>5, TypeParts DEF IInv

\* The inductive invariant holds in every reachable state: one step per handler.
THEOREM SessionInvariant == Spec => []IInv
<1>1. IInv /\ [Next]_vars => IInv'
  BY StepFirstMessage, StepNetwork, StepLoginNew, StepLoginAgain, StepConnect, StepLogout,
     StepRelease, StepKick, StepDie, StepCleanup, Stutter DEF Next, DispatcherTask
<1> QED
  BY InitIInv, <1>1, PTL DEF Spec

\* No step loses the login of a connection that stays open.
LEMMA LoginStep == IInv /\ LoginNotForgotten /\ [Next]_vars => LoginNotForgotten'
<1> DEFINE Kept(r) == In(tasks, Task("login", r)) => In(tasks', Task("login", r))
           Decided(r) == conn'[r] # "open" \/ r \in acceptPackets' \/ eventConnect'[r] # None
           Stays(r) == /\ conn'[r] = "open" => conn[r] = "open"
                       /\ r \in acceptPackets => r \in acceptPackets'
                       /\ eventConnect[r] # None => eventConnect'[r] # None
                       /\ Kept(r)
<1> SUFFICES ASSUME IInv, LoginNotForgotten, [Next]_vars, NEW r \in Protocols
             PROVE  Stays(r) \/ Decided(r) \/ In(tasks', Task("login", r))
  BY DEF LoginNotForgotten, Queued, In
<1>1. TypeOK /\ LinksOK /\ NetOK /\ LoginFirst(tasks) /\ tasks \in Seq(AllTasks)
  BY TypeParts DEF IInv, Queue, NetOK
<1>2. ASSUME NEW k \in Kinds, NEW p \in Protocols, Runs(k, p)
      PROVE  /\ Tail(tasks) \in Seq(AllTasks) /\ LoginFirst(Tail(tasks))
             /\ k # "login" \/ r # p => (In(tasks, Task("login", r)) => In(Tail(tasks), Task("login", r)))
  BY <1>1, <1>2, PopEffect, TaskEqual
<1>3. ASSUME NEW q \in Seq(AllTasks), LoginFirst(q), NEW p \in Protocols,
             conn' = Closed(p), tasks' = ThenRelease(q, p)
      PROVE  /\ In(q, Task("login", r)) => In(tasks', Task("login", r))
             /\ conn'[r] = "open" => conn[r] = "open" /\ r # p
  BY <1>1, <1>3, CloseEffect
<1>4. ASSUME NEW k \in Kinds, NEW p \in Protocols, Runs(k, p), k # "login" \/ r # p,
             Taken \/ \E s \in Protocols : Disconnects(s)
      PROVE  Kept(r) /\ (conn'[r] = "open" => conn[r] = "open")
  BY <1>2, <1>3, <1>4 DEF Taken, Disconnects
<1>5. ASSUME NEW p \in Protocols, FirstMessage(p) \/ ParseEnds(p) \/ EventDue(p)
      PROVE  Stays(r) \/ In(tasks', Task("login", r))
  <2>1. \A k \in Kinds : Task(k, p) \in AllTasks
    BY TaskType
  <2>2. ASSUME NEW k \in Kinds, tasks' = Append(tasks, Task(k, p)) \/ tasks' = <<Task(k, p)>> \o tasks
        PROVE  \A t : In(tasks', t) <=> In(tasks, t) \/ t = Task(k, p)
    <3>1. CASE tasks' = Append(tasks, Task(k, p))
      BY <1>1, <2>1, <3>1, InAppend
    <3>2. CASE tasks' = <<Task(k, p)>> \o tasks
      BY <1>1, <2>1, <3>2, InCons
    <3> QED
      BY <2>2, <3>1, <3>2
  <2>3. CASE FirstMessage(p)
    BY <1>1, <2>2, <2>3 DEF FirstMessage, Kinds, flags, NetOK
  <2>4. CASE ParseEnds(p)
    BY <1>1, <1>3, <2>2, <2>4 DEF ParseEnds, Kinds, flags
  <2>5. CASE EventDue(p)
    BY <1>1, <2>2, <2>5 DEF EventDue, Kinds, flags, net
  <2> QED
    BY <1>5, <2>3, <2>4, <2>5
<1>6. ASSUME NEW p \in Protocols, ConnectionCloses(p) \/ ConnectionExpires(p) \/ ParseBegins(p)
      PROVE  Stays(r)
  BY <1>1, <1>3, <1>6 DEF ConnectionCloses, ConnectionExpires, ParseBegins, flags, NetOK
<1>7. ASSUME NEW p \in Protocols, LoginNew(p)
      PROVE  Stays(r) \/ Decided(r)
  <2>1. Runs("login", p) /\ (Taken \/ Disconnects(p))
    BY <1>7 DEF LoginNew
  <2>2. CASE r = p
    BY <1>1, <1>2, <1>3, <1>7, <2>1, <2>2 DEF LoginNew, Disconnects, Kinds
  <2>3. CASE r # p
    BY <1>4, <1>7, <2>1, <2>3 DEF LoginNew, Kinds
  <2> QED
    BY <2>2, <2>3
<1>8. ASSUME NEW p \in Protocols, LoginAgain(p)
      PROVE  Stays(r) \/ Decided(r)
  <2>1. Runs("login", p) /\ (Taken \/ \E s \in Protocols : Disconnects(s))
    BY <1>1, <1>8 DEF LoginAgain, LinksOK
  <2>2. CASE r = p
    <3>1. CASE Disconnects(p)
      BY <1>1, <1>2, <1>3, <2>1, <2>2, <3>1 DEF Disconnects, Kinds
    <3>2. CASE \E x \in online : eventConnect' = Scheduled(p, x)
      BY <1>1, <2>2, <3>2, SessionAssumption DEF Scheduled, NetOK, LinksOK
    <3>3. CASE Taken /\ (conn[p] = "expired" \/ \E x \in online : Attach(p, x))
      BY <2>2, <3>3 DEF Taken, Attach
    <3> QED
      BY <1>8, <3>1, <3>2, <3>3 DEF LoginAgain
  <2>3. CASE r # p
    BY <1>1, <1>4, <1>8, <2>1, <2>3 DEF LoginAgain, Kinds, flags, Scheduled, Attach, NetOK
  <2> QED
    BY <2>2, <2>3
<1>9. ASSUME NEW p \in Protocols, Connect(p)
      PROVE  Stays(r) \/ Decided(r)
  <2>1. Runs("connect", p) /\ (Taken \/ Disconnects(p))
    BY <1>9 DEF Connect
  <2>2. CASE r = p
    BY <1>1, <1>2, <1>3, <1>9, <2>1, <2>2 DEF Connect, Disconnects, Kinds, Attach, Taken
  <2>3. CASE r # p
    BY <1>1, <1>4, <1>9, <2>1, <2>3 DEF Connect, Kinds, Attach, NetOK
  <2> QED
    BY <2>2, <2>3
<1>10. ASSUME NEW p \in Protocols, Logout(p) \/ Release(p)
       PROVE  Stays(r)
  BY <1>4, <1>10 DEF Logout, Release, Kinds, flags
<1>11. ASSUME NEW x \in Players, Kick(x) \/ Die(x)
       PROVE  Stays(r)
  BY <1>1, <1>3, <1>11 DEF Kick, Die, flags, net, LinksOK
<1>12. CASE Cleanup \/ UNCHANGED vars
  BY <1>12 DEF Cleanup, vars, flags, net
<1> QED
  BY <1>5, <1>6, <1>7, <1>8, <1>9, <1>10, <1>11, <1>12 DEF Next, DispatcherTask

\* A connected client plays, or its login or connect is still to come.
THEOREM SessionLoginNotForgotten == Spec => []LoginNotForgotten
<1>1. Init => LoginNotForgotten
  BY DEF Init, LoginNotForgotten
<1> QED
  BY <1>1, LoginStep, SessionInvariant, PTL DEF Spec

\* Type correctness.
THEOREM SessionType == Spec => []TypeOK
<1>1. IInv => TypeOK
  BY DEF IInv
<1> QED
  BY <1>1, SessionInvariant, PTL

\* A character is in the game once (protocolgame.cpp, login()).
THEOREM SessionOneOnline == Spec => []OneOnline
<1>1. IInv => OneOnline
  BY DEF IInv, Objects
<1> QED
  BY <1>1, SessionInvariant, PTL

\* The Player and ProtocolGame pointers agree.
THEOREM SessionClientHoldsPlayer == Spec => []ClientHoldsPlayer
<1>1. IInv => ClientHoldsPlayer
  BY TypeParts DEF IInv, Objects, Linked, ClientHoldsPlayer, LinksOK
<1> QED
  BY <1>1, SessionInvariant, PTL

\* The reference counter of a Player counts its owners.
THEOREM SessionCounterExact == Spec => []CounterExact
<1>1. IInv => CounterExact
  BY DEF IInv, Objects
<1> QED
  BY <1>1, SessionInvariant, PTL

\* The network thread never uses a freed Player: parsing keeps the connection open,
\* so its protocol is the player's client, whose reference is still counted.
THEOREM SessionParsedPlayerAlive == Spec => []ParsedPlayerAlive
<1>1. IInv => ParsedPlayerAlive
  <2> SUFFICES ASSUME IInv, NEW p \in Protocols, parsing[p] # None
               PROVE  ~Freed(parsing[p]) /\ player[p] = parsing[p]
    BY DEF ParsedPlayerAlive
  <2>1. player[p] = parsing[p] /\ parsing[p] \in Players /\ client[parsing[p]] = p
    BY TypeParts DEF IInv, Clients, ParsingOpen, Objects, Linked, NetOK
  <2>2. parsing[p] \in created =>
           referenceCounter[parsing[p]] = Bit(parsing[p] \in online \cup toRelease) + 1
    BY <2>1, SessionAssumption DEF IInv, Objects, CounterExact, Bit
  <2> QED
    BY <2>1, <2>2 DEF Freed, Bit
<1> QED
  BY <1>1, SessionInvariant, PTL

\* The autosend pool holds protocols that will be taken out of it again.
THEOREM SessionAutosendIsReleased == Spec => []AutosendIsReleased
<1>1. IInv => AutosendIsReleased
  BY DEF IInv, Clients
<1> QED
  BY <1>1, SessionInvariant, PTL

\* The only leak of a Player is connect()'s, to a connection that is closed and
\* released but not freed.
THEOREM SessionLeakOnlyByLateExpiry == Spec => []LeakOnlyByLateExpiry
<1>1. IInv => LeakOnlyByLateExpiry
  BY TypeParts DEF IInv, LinksOK, Clients, ClientsReleased, LeakOnlyByLateExpiry, Leaked
<1> QED
  BY <1>1, SessionInvariant, PTL

\* The Player in the network thread's hand is alive, and each protocol of the
\* autosend pool has its release still to come.
THEOREM SessionNothingDangles == Spec => []NothingDangles
<1>1. ParsedPlayerAlive /\ AutosendIsReleased => NothingDangles
  BY DEF NothingDangles
<1> QED
  BY <1>1, SessionParsedPlayerAlive, SessionAutosendIsReleased, PTL
=============================================================================
