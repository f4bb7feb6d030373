------------------------------ MODULE Characters ------------------------------
(***************************************************************************)
(* The characters of the database, shared by the web API (index.ts), which *)
(* creates and deletes them, and the game server (iologindata.cpp,         *)
(* player.cpp), which loads and saves them.                                *)
(*                                                                         *)
(* The two programs only meet in MySQL: every query is a step of its own,  *)
(* and the API's checks are queries before the one that changes the table. *)
(* The API numbers a character MAX(id) + 1, so the id of a deleted one may *)
(* be given out again, while the game saves by the id it has loaded.       *)
(*                                                                         *)
(* A request is between two of its awaits, a task of the dispatcher        *)
(* between two of its queries.  A character keeps the number of its        *)
(* creation (born), and a row the number of the character whose data it    *)
(* holds (data): the code has neither, they tell an id from its reuse.     *)
(***************************************************************************)
EXTENDS Integers, FiniteSets, FiniteSetsExt

CONSTANTS
    Names, Owners,
    Requests,      \* requests the API serves at the same time
    Limit,         \* MAX_CHARACTERS_PER_ACCOUNT
    MaxId,         \* bound on the ids
    MaxBorn,       \* bound on the characters ever created
    NoRow, NoRequest

ASSUME CharactersAssumption ==
    /\ Limit \in Nat \ {0} /\ MaxId \in Nat /\ MaxBorn \in Nat
    /\ IsFiniteSet(Requests) /\ NoRequest \notin Requests
    /\ NoRow \notin [name : Names, account : Owners, born : Nat, data : Nat]

VARIABLES
    rows,            \* the table players, by id
    playersOnline,   \* the table players_online
    request,         \* where each request of the API is
    tableLock,       \* the request that holds LOCK TABLES `players` WRITE
    up,              \* the game server runs
    inGame,          \* the Player objects, by name
    task,            \* the task of the dispatcher that is between two queries
    births,         \* history: the number of characters created
    deletedInGame    \* history: a row was deleted while its character was in the game

characterVars == <<rows, playersOnline, request, tableLock, up, inGame, task, births, deletedInGame>>

Ids == 1 .. MaxId
Row == [name : Names, account : Owners, born : 1 .. MaxBorn, data : 1 .. MaxBorn]
Object == [guid : Ids, born : 1 .. MaxBorn, ghost : BOOLEAN]

Idle == [step |-> "idle"]

Used == {id \in Ids : rows[id] # NoRow}
Named(n) == {id \in Used : rows[id].name = n}
Owned(a) == {id \in Used : rows[id].account = a}

\* Another session's LOCK TABLES keeps every query on the table waiting.
TableFree == tableLock = NoRequest

-----------------------------------------------------------------------------
(* The web API *)

Enter(r, state) == request' = [request EXCEPT ![r] = state]
Respond(r) == Enter(r, Idle)

\* POST /api/characters: the name is looked up ("Esse nome já está em uso."),
CreateStarts(r, n, a) ==
    /\ request[r] = Idle /\ TableFree
    /\ Named(n) = {}
    /\ Enter(r, [step |-> "named", name |-> n, account |-> a])
    /\ UNCHANGED <<rows, playersOnline, tableLock, up, inGame, task, births, deletedInGame>>

BelowLimit_orAt(a) == Cardinality(Owned(a)) <= Limit
\* "Limite de 50 personagens por conta."
BelowLimit(a) == Cardinality(Owned(a)) < Limit

\* then the characters of the account are counted,
CreateCounts(r) ==
    /\ request[r].step = "named" /\ TableFree
    /\ IF BelowLimit(request[r].account)
       THEN Enter(r, [request[r] EXCEPT !.step = "counted"]) ELSE Respond(r)
    /\ UNCHANGED <<rows, playersOnline, tableLock, up, inGame, task, births, deletedInGame>>

NextId == Max(Used \cup {0}) + 1

\* LOCK TABLES `players` WRITE waits for its turn.
MayNumber == TableFree

\* then the table is locked and the largest id read,
CreateNumbers(r) ==
    /\ request[r].step = "counted" /\ MayNumber
    /\ NextId \in Ids /\ births < MaxBorn
    /\ tableLock' = r
    /\ Enter(r, [step |-> "numbered", name |-> request[r].name,
                 account |-> request[r].account, id |-> NextId])
    /\ UNCHANGED <<rows, playersOnline, up, inGame, task, births, deletedInGame>>

\* and the row inserted, unless its name or id is taken by now (the UNIQUE and
\* PRIMARY keys); UNLOCK TABLES in either case.
CreateInserts(r) ==
    LET id == request[r].id IN
    /\ request[r].step = "numbered"
    /\ IF Named(request[r].name) = {} /\ rows[id] = NoRow
       THEN /\ rows' = [rows EXCEPT ![id] = [name |-> request[r].name, account |-> request[r].account,
                                             born |-> births + 1, data |-> births + 1]]
            /\ births' = births + 1
       ELSE UNCHANGED <<rows, births>>
    /\ tableLock' = NoRequest
    /\ Respond(r)
    /\ UNCHANGED <<playersOnline, up, inGame, task, deletedInGame>>

\* DELETE /api/characters/:id: a character that is online is refused,
DeleteStarts(r, id, a) ==
    /\ request[r] = Idle
    /\ id \notin playersOnline
    /\ Enter(r, [step |-> "offline", id |-> id, account |-> a])
    /\ UNCHANGED <<rows, playersOnline, tableLock, up, inGame, task, births, deletedInGame>>

\* any other is deleted if it is the account's.
DeleteRow(r) ==
    LET id == request[r].id IN
    /\ request[r].step = "offline" /\ TableFree
    /\ IF id \in Owned(request[r].account)
       THEN /\ rows' = [rows EXCEPT ![id] = NoRow]
            /\ deletedInGame' = (deletedInGame
                   \/ \E n \in DOMAIN inGame : inGame[n].guid = id /\ inGame[n].born = rows[id].born)
       ELSE UNCHANGED <<rows, deletedInGame>>
    /\ Respond(r)
    /\ UNCHANGED <<playersOnline, tableLock, up, inGame, task, births>>

-----------------------------------------------------------------------------
(* The game server: at most one task at a time is between two queries *)

Without(f, n) == [m \in DOMAIN f \ {n} |-> f[m]]
With(f, n, v) == [m \in DOMAIN f \cup {n} |-> IF m = n THEN v ELSE f[m]]

\* ProtocolGame::login for a character that is not in the game: preloadPlayer
\* reads the id, and the bans and the waiting list are asked.
Preload(n) ==
    /\ up /\ task = Idle /\ n \notin DOMAIN inGame /\ TableFree
    /\ \E id \in Named(n) : task' = [step |-> "preloaded", name |-> n, guid |-> id]
    /\ UNCHANGED <<rows, playersOnline, request, tableLock, up, inGame, births, deletedInGame>>

LoadedGuid_preloaded(id) == task.guid
\* IOLoginData::loadPlayer sets the id again, from the row it loads.
LoadedGuid(id) == id

\* loadPlayerByName reads the row by its name; it may be gone, or another one.
LoadPlayer ==
    /\ task.step = "preloaded" /\ TableFree
    /\ IF Named(task.name) = {}
       THEN task' = Idle /\ UNCHANGED inGame
       ELSE \E id \in Named(task.name) :
              /\ task' = [step |-> "loaded", name |-> task.name]
              /\ inGame' = With(inGame, task.name, [guid |-> LoadedGuid(id), born |-> rows[id].born,
                                                    ghost |-> FALSE])
    /\ UNCHANGED <<rows, playersOnline, request, tableLock, up, births, deletedInGame>>

\* Player::onCreatureAppear; the INSERT fails unnoticed if the id is there.
\* Or the login ends before: banned, sent to the waiting list, not placed.
AppearOnline ==
    /\ task.step = "loaded"
    /\ \/ playersOnline' = playersOnline \cup {inGame[task.name].guid} /\ UNCHANGED inGame
       \/ inGame' = Without(inGame, task.name) /\ UNCHANGED playersOnline
    /\ task' = Idle
    /\ UNCHANGED <<rows, request, tableLock, up, births, deletedInGame>>

\* luaPlayerSetGhostMode: a hidden player is taken out of players_online.
SetGhostMode(n) ==
    /\ up /\ task = Idle /\ n \in DOMAIN inGame
    /\ inGame' = [inGame EXCEPT ![n].ghost = ~@]
    /\ playersOnline' = IF inGame[n].ghost THEN playersOnline \cup {inGame[n].guid}
                        ELSE playersOnline \ {inGame[n].guid}
    /\ UNCHANGED <<rows, request, tableLock, up, task, births, deletedInGame>>

OfflineRow_kept(guid) == {}
\* updateOnlineStatus(guid, false)
OfflineRow(guid) == {guid}

\* Player::onRemoveCreature, of a logout, a kick or a death: first out of
\* players_online, then up to three tries to save,
RemovePlayer(n) ==
    /\ up /\ task = Idle /\ n \in DOMAIN inGame
    /\ playersOnline' = playersOnline \ OfflineRow(inGame[n].guid)
    /\ task' = [step |-> "saving", name |-> n, tries |-> 3, leaves |-> TRUE]
    /\ UNCHANGED <<rows, request, tableLock, up, inGame, births, deletedInGame>>

\* while Game::saveGameState and player:save() try once and keep the player.
SavePlayer(n) ==
    /\ up /\ task = Idle /\ n \in DOMAIN inGame
    /\ task' = [step |-> "saving", name |-> n, tries |-> 1, leaves |-> FALSE]
    /\ UNCHANGED <<rows, playersOnline, request, tableLock, up, inGame, births, deletedInGame>>

Saved ==
    /\ task' = Idle
    /\ inGame' = IF task.leaves THEN Without(inGame, task.name) ELSE inGame

LastTry == task.tries = 1

\* savePlayer has failed: the caller tries again, or gives up.
SaveFails ==
    IF LastTry THEN Saved
    ELSE task' = [task EXCEPT !.step = "saving", !.tries = @ - 1] /\ UNCHANGED inGame

\* IOLoginData::savePlayer first reads the row by the id,
SaveReads ==
    /\ task.step = "saving" /\ TableFree
    /\ IF rows[inGame[task.name].guid] # NoRow
       THEN task' = [task EXCEPT !.step = "writing"] /\ UNCHANGED inGame
       ELSE SaveFails
    /\ UNCHANGED <<rows, playersOnline, request, tableLock, up, births, deletedInGame>>

\* then writes it in a transaction, which locks the row from the first UPDATE.
\* Of a row that is gone the UPDATE changes nothing and is no error; the items
\* and spells of the player are refused by their foreign keys, if there are any.
SaveWrites ==
    LET me == inGame[task.name] IN
    /\ task.step = "writing" /\ TableFree
    /\ IF rows[me.guid] # NoRow
       THEN rows' = [rows EXCEPT ![me.guid].data = me.born] /\ Saved
       ELSE UNCHANGED rows /\ (Saved \/ SaveFails)
    /\ UNCHANGED <<playersOnline, request, tableLock, up, births, deletedInGame>>

\* The process ends, and with it every object; the database stays.
Crash ==
    /\ up
    /\ up' = FALSE /\ inGame' = <<>> /\ task' = Idle
    /\ UNCHANGED <<rows, playersOnline, request, tableLock, births, deletedInGame>>

AtStartup_kept == playersOnline
\* startup.lua: TRUNCATE TABLE `players_online`
AtStartup == {}

Startup ==
    /\ ~up
    /\ up' = TRUE /\ playersOnline' = AtStartup
    /\ UNCHANGED <<rows, request, tableLock, inGame, task, births, deletedInGame>>

-----------------------------------------------------------------------------
CharactersInit ==
    /\ rows = [id \in Ids |-> NoRow]
    /\ playersOnline = {}
    /\ request = [r \in Requests |-> Idle]
    /\ tableLock = NoRequest
    /\ up = TRUE /\ inGame = <<>> /\ task = Idle
    /\ births = 0 /\ deletedInGame = FALSE

WebApi ==
    \E r \in Requests :
        \/ \E n \in Names, a \in Owners : CreateStarts(r, n, a)
        \/ CreateCounts(r) \/ CreateNumbers(r) \/ CreateInserts(r)
        \/ \E id \in Ids, a \in Owners : DeleteStarts(r, id, a)
        \/ DeleteRow(r)

GameServer ==
    \/ \E n \in Names : Preload(n) \/ SetGhostMode(n) \/ RemovePlayer(n) \/ SavePlayer(n)
    \/ LoadPlayer \/ AppearOnline \/ SaveReads \/ SaveWrites
    \/ Crash \/ Startup

CharactersNext == WebApi \/ GameServer

CharactersSpec == CharactersInit /\ [][CharactersNext]_characterVars

-----------------------------------------------------------------------------
CharactersTypeOK ==
    /\ rows \in [Ids -> Row \cup {NoRow}]
    /\ playersOnline \subseteq Ids
    /\ request \in [Requests -> {Idle}
           \cup [step : {"named", "counted"}, name : Names, account : Owners]
           \cup [step : {"numbered"}, name : Names, account : Owners, id : Ids]
           \cup [step : {"offline"}, id : Ids, account : Owners]]
    /\ tableLock \in Requests \cup {NoRequest}
    /\ up \in BOOLEAN
    /\ DOMAIN inGame \subseteq Names /\ \A n \in DOMAIN inGame : inGame[n] \in Object
    /\ task \in {Idle}
           \cup [step : {"preloaded"}, name : Names, guid : Ids]
           \cup [step : {"loaded"}, name : DOMAIN inGame]
           \cup [step : {"saving", "writing"}, name : DOMAIN inGame, tries : 1 .. 3, leaves : BOOLEAN]
    /\ births \in 0 .. MaxBorn /\ deletedInGame \in BOOLEAN

LimitExceededByOverlapOnly ==
    \A a \in Owners : Cardinality(Owned(a)) <= Limit + Cardinality(Requests) - 1

NumberStaysFree ==
    \A r \in Requests : request[r].step = "numbered" =>
        /\ rows[request[r].id] = NoRow
        /\ \A s \in Requests \ {r} : request[s].step = "numbered" => request[s].id # request[r].id

\* Between the tasks of a running server players_online is what the API takes
\* it for: nobody is listed who is not in the game, not even after a crash,
\* and nobody in the game is missing but the hidden ones, unless a character
\* was deleted in the game and its id given to another.
OnlineTableExact ==
    up /\ task = Idle =>
        LET visible == {inGame[n].guid : n \in {m \in DOMAIN inGame : ~inGame[m].ghost}} IN
        /\ playersOnline \subseteq {inGame[n].guid : n \in DOMAIN inGame}
        /\ ~deletedInGame => playersOnline = visible

SavesOwnRow ==
    \A id \in Used : rows[id].data # rows[id].born => deletedInGame

\* Every character has a row of its own.  From the reading of the largest id to
\* the INSERT the id stays free and no other request holds it; loading by name
\* and saving by id agree although rows are deleted and ids reused between any
\* two queries, unless the row was deleted from under a character in the game.
\* Since the count comes before the lock, requests that overlap can take an
\* account above the limit, but by no more than the others in flight.
RowsApart ==
    /\ CharactersTypeOK
    /\ LimitExceededByOverlapOnly
    /\ NumberStaysFree
    /\ SavesOwnRow

\* DELETE /api/characters/:id: "Este personagem está online no jogo. Termine a
\* sessão no cliente para poder eliminar."  So a character in the game has its
\* row, at least when the dispatcher is between two tasks.
OnlineNotDeleted ==
    task = Idle => \A n \in DOMAIN inGame :
        LET id == inGame[n].guid IN rows[id] # NoRow /\ rows[id].born = inGame[n].born
=============================================================================
