# A TLA+ model of the game server and its account service

The repository is a Tibia server: the game server, a fork of *The Forgotten
Server* in C++ (`src/server/src`, 72,000 lines), its data and scripts
(`src/server/data`), and a web service for accounts and characters
(`src/webapp`). There are no tests. This directory holds TLA+ modules that model
the parts of both programs where the order of things decides whether they are
right, the TLC configurations that check them on small instances, and TLAPS
proofs that most of what the runs check holds for every size of the system.

    tlc -workers 2 -config MCTrade.cfg MCTrade      # one run
    tlapm TradeProofs.tla                           # one set of proofs

1. [The system](#1-the-system)
2. [Modules](#2-modules)
3. [Runs](#3-runs)
4. [What the runs found](#4-what-the-runs-found)
5. [Fairness](#5-fairness)
6. [Proofs](#6-proofs)
7. [Not modelled](#7-not-modelled)
8. [Plan](#8-plan)

## 1. The system

### Threads

The game server is one process. `main()` (otserv.cpp) starts three threads
and becomes the fourth:

| thread | runs | talks to the others by |
|---|---|---|
| dispatcher (`tasks.cpp`) | all game logic, one task after another | taking tasks from `taskList` |
| scheduler (`scheduler.cpp`) | nothing but timers | pushing due events to the *front* of `taskList` |
| database (`databasetasks.cpp`) | queries nobody waits for | pushing callbacks to the back of `taskList` |
| network (`ServiceManager::run`) | the handlers of every socket | pushing the parsed packets to the back of `taskList` |

So the game itself is sequential, and its hard cases are not data races but
*orders of tasks*: a handler ends, anything else runs, and the next handler acts
on what was true before. True concurrency is confined to the queues between the
threads, to `Connection` and `Protocol`, which the network and the dispatcher
threads share, and to MySQL, which the game shares with the web service.

    network ──packets──> dispatcher <──due events── scheduler
       ^                  │   ^  │                      ^
       │ send, close      │   │  └──addEvent, stopEvent─┘
       └──────────────────┘   └──callbacks── database thread <──queries── dispatcher
                                                  │
    web API ──queries──> MySQL <──────────────────┴── saves (dispatcher)

### Components

For each component: its state, its operations, what makes it hard, and what it
means for it to be right. **M** modelled, **p** partly, **–** not modelled.

| | component (files) | state | operations | hard because | right if |
|---|---|---|---|---|---|
| M | dispatcher (`tasks`) | task list, thread state | addTask, threadMain, stop, shutdown | signal sent after the unlock; tasks expire; the thread is shut down by its own task | no lost wakeup, no task run twice or left behind |
| M | scheduler (`scheduler`) | event heap, live ids, id counter | addEvent, stopEvent, threadMain, shutdown | a stop races with the timeout; the heap is cleared under the thread | a stopped event never runs, a due one does, none early |
| M | database tasks (`databasetasks`) | query list | addTask, threadMain, flush, shutdown | the flush runs on the dispatcher while the thread holds a query | each query once, in order but for one |
| M | database connection (`database`) | one handle, one mutex, a batch of rows | query, transaction, retry, insert | BEGIN is locked apart; a lost connection loses its transaction, and the query is sent again | a save is whole, a query is applied once |
| M | connection (`connection`, `protocol`) | socket, message queue, timers, pending operations | accept, read, send, close, time out, release | closed from three places; closing must wait for the last message; the object outlives its close | one write at a time, one release, every closed connection destroyed |
| p | service port (`server`) | acceptor, open connections | open, accept, close | a failed accept | the port always listens again |
| p | game session (`protocolgame`) | player ↔ protocol pointers, reference counts, pending connect | login, takeover, connect, logout, release, parse | takeovers delayed by a second; release from the network's close; deferred frees | a character is in the game once; pointers agree; nobody leaks |
| p | output message pool (`outputmessage`) | autosend list, free list | add, remove, sendAll | protocols added at login and removed at release | no released protocol is flushed |
| M | waiting list (`waitlist`) | two lists with timeouts | clientLogin | an iterator of one list erased from the other; retries | fair order, no place lost to a newcomer |
| p | characters (`index.ts`, `iologindata`) | tables `players`, `players_online` | create, delete; load, save, list, truncate | checks and changes are separate queries of two programs | ids unique, each row saved by its own character |
| p | accounts (`index.ts`, `crypto`) | table `accounts`, recovery keys, reset tokens | register, log in, recover, reset | checks separate from changes; requests cut off | one account per e-mail, a secret used once |
| – | web server shell, web client | MySQL pool; a cache of the list in localStorage | – | – | – |
| – | login and status protocols | time of the last request per address | one message, one answer | – | – |
| p | game loop (`game`) | decay buckets, creature lists, deferred releases | checkDecay, checkCreatures, cleanup, saveGameState | lists changed while they are iterated | each item at its time; nothing freed in a list |
| p | saving and mail (`iologindata`, `iomapserialize`, `mailbox`) | rows of players, houses and items | load, save, send | saved one by one; receivers online or not; crashes | an item in one place |
| p | start and stop (`otserv`, `Game::shutdown`) | game state | load, run, shut down | the order of three shutdowns | everything accepted is done, threads end |
| M | trade (`game`, `player`) | state, partner and item of each player; `tradeItems` | request, accept, close, and every move of an item or player | offers stay where they are; each change must end the trade | paired, in reach, unchanged, whole |
| p | items and cylinders (`item`, `container`, `cylinder`, `player`) | where each item is, counts, weights | add, remove, move, exchange, pay | several steps, of which a later one may be refused | nothing doubled or lost, hands agree |
| p | tiles and map (`tile`, `map`) | stack on each tile | add, remove, place, walk, hide | a client is told places only | every client shows the stack |
| p | creatures and players (`creature`, `player`) | path, walk event, tasks that wait for a walk; masters, summons, references | walk, follow, onThink, teleport | event ids kept over tasks | one walk event; a walk ends; references exact |
| p | monsters (`monster`) | targets, friends, idle state | onThink, search, summon, die | told of changes one at a time; stale pointers | awake in sight of an opponent |
| – | npcs | focus, queue of customers | talk | – | one customer at a time |
| – | combat, conditions, spells, weapons | conditions of a creature | add, tick, end | merging, ending while ticking | every start has one end |
| M | party (`party`) | leader, members, invitations; shared experience | invite, join, revoke, pass, leave, disband | links on both sides; deletes itself; a flag kept over events | both sides agree, the flag is current |
| M | chat (`chat`) | channels, users, invitations | open, close, join, talk, invite, exclude | channels found by address or id | readers belong there |
| p | guilds (`guild`) | members online | log in, log out | – | alive while somebody is in it |
| p | houses (`house`, `housetile`) | owner, paid until, warnings, items | transfer, pay, evict | owners offline; money and house saved apart | rent once, nothing lost by an eviction |
| – | beds | sleeper, partner | sleep, wake | – | one sleeper |
| M | spawns (`spawn`) | slots, one event | start, check, remove | the event is set only when a monster is removed | an empty slot is looked after |
| – | raids, bans | one raid at a time; attempts per address | – | – | – |
| – | scripts, configuration, tables, messages, encryption | – | – | data, or bytes | – |

`PROJECT.json` gives the files and the reason for each part that is left out, and
lists the hazards line by line, with the properties that cover them.

## 2. Modules

| module | models | built on |
|---|---|---|
| `Dispatcher` | tasks.{h,cpp}, thread_holder_base.h | |
| `EventService` | *abstract*: what addEvent and stopEvent promise | |
| `Scheduler` | scheduler.{h,cpp}, with the dispatcher it feeds | `Dispatcher`; implements `EventService` |
| `DatabaseTasks` | databasetasks.{h,cpp}, with the dispatcher that runs its callbacks and its flush | `Dispatcher` |
| `SchedulerProofs` | theorems about the three | `Scheduler`, `DatabaseTasks` |
| `Connection` | connection.{h,cpp}, the accept of server.cpp, the calls of protocol.h | |
| `ConnectionProofs` | theorems about it | `Connection` |
| `Walking` | walks, following and the actions that wait for a walk, in creature.cpp, player.cpp, game.cpp | |
| `Session` | login, takeover, logout, release of protocolgame.cpp; kickPlayer, removeCreature, cleanup | |
| `SessionProofs` | theorems about it | `Session` |
| `Accounts` | registration, first login, recovery and reset in index.ts | |
| `Characters` | creation and deletion in index.ts, load, save and the online table of the game | |
| `WebApiProofs` | theorems about the two | `Accounts`, `Characters` |
| `Trade` | trading in game.cpp and player.cpp, and all that must end a trade | |
| `TradeProofs` | theorems about it | `Trade` |
| `WaitList` | waitlist.{h,cpp} and the login that asks it | |
| `Spawns` | spawn.cpp: slots, the check event, conviction and loss of monsters | |
| `PopulationProofs` | theorems about the three | `Walking`, `WaitList`, `Spawns` |
| `Monsters` | targets, idle state, checks, summons, deaths and reference counts of creatures | |
| `Database` | database.{h,cpp} shared by savePlayer and single queries | |
| `WorldSave` | logout, mail, houses, saves of the game, shutdown and crash | |
| `Decay` | startDecay, checkDecay, transformItem, cleanup in game.cpp, Item::setID | |
| `StoreProofs` | theorems about the three | `Database`, `WorldSave`, `Decay` |
| `Party` | party.cpp and its handlers in game.cpp | |
| `SharedExperience` | the shared experience of party.cpp | `Party` |
| `Chat` | chat.cpp, guild.cpp | `Party` |
| `Groups` | the three together: a step of a party takes its channel and its flag along | `Chat`, `SharedExperience` |
| `Cylinders` | internalMoveItem, internalAddItem, internalRemoveItem and money in game.cpp, with the cylinders of player.cpp, container.cpp, tile.cpp | |
| `TileView` | tile.cpp, map.cpp and the tile messages of protocolgame.cpp, against what clients make of them | |
| `GroupsProofs` | theorems about parties, channels, shared experience and tiles | `Groups`, `TileView` |
| `MCThreads` | `DatabaseTasks` (with `Dispatcher`), `Connection`, `Walking` for TLC | |
| `MCSession` | `Session`, `Accounts`, `Characters` | |
| `MCPopulation` | `WaitList`, `Spawns`, `Monsters` | |
| `MCStore` | `Database`, `WorldSave`, `Decay` | |
| `MCPlayers` | `Groups`, `TileView` | |
| `MCTrade`, `MCItems`, `MCCharacters` | `Trade`, `Cylinders`, `Characters` | |

`PROJECT.json`, "map", names the source lines of every definition. Definitions
with a name of the form `X_form` stand before an `X`: each is a plausible wrong
version of it, and the property it is listed with fails when it takes the place
of `X`.

**Focus.** An MC module that joins several modules has a variable `focus`, chosen
at the start and never changed: a behaviour takes the steps of one of them, and
the others stay where they began. Modules joined in this way share no variable,
so no step of one enables, disables or changes a step of another: every
reachable state of the module in focus is reached, and a property of it alone
that fails does so in such a behaviour. What *does* interact is composed and
interleaved: `Scheduler` and `DatabaseTasks` with `Dispatcher`, the parts of
`Groups`, the two programs in `Characters`, the threads in `Session` and
`Database`. Where the conjuncts of a fairness condition are shared among foci
(`MCThreads`), the steps that share one are never enabled in the same behaviour,
so that it asks of each what it would ask alone.

### How state and actions correspond to the code

**Dispatcher, Scheduler, DatabaseTasks.** What a mutex protects is one action;
everything else is kept apart, because it is there that these three classes can
go wrong: the test of the thread state *before* the lock, the two waits, the
re-acquisition of the mutex after a wait, the `notify_one()` that the adder issues
*after* it has released the mutex, and the run of a task or query, with the queue
open. A program counter (`dPc`, `sPc`, `bPc`) says where a thread is. A signal to
nobody is lost; a waiter may wake without one. Producers between unlock and
notify are the set `signalling`. The heap of the scheduler is a set, of which
any earliest event may be on top. What a task does is left out, except what it
does to the three threads: it adds tasks and events, stops events, and closes
and shuts down, in the order of `Game::setGameState` and `Game::shutdown`.
`Scheduler` and `DatabaseTasks` extend `Dispatcher` and use its actions, with
what the other thread may do at the time; both are checked with it, not against
an assumption about it.

**Connection.** One connection, from `createConnection` to its destructor. Asio
is external and modelled by what the code needs of it: an operation is in
progress, then its handler is queued with or without an error, then it runs; a
closed socket ends operations with an error; cancelling a timer does not recall
a handler already queued. `Referenced` is the shared pointer: the manager, the
operations and the handlers. A message is its number.

**Session.** The ProtocolGame objects (one per connection) and the Player
objects of *one* character. `tasks` is the dispatcher's queue, holding the
login, logout and release tasks; a due connect event goes to its front, as the
scheduler pushes it there. The network thread closes and frees connections and
parses packets in between. `online` is `Game::players`, `toRelease` is
`ToReleaseCreatures`, which `Cleanup` empties. Two fields of the code are not
there: `isConnecting`, which only blocks logging out while a takeover is pending
(see the hazard at player.cpp:3449), and the clones that `allowClones` permits,
which is false in the server's configuration.

**Trade.** All of it runs on the dispatcher, and every handler is one action, with
all the notifications it sends. Items have a parent (a player's inventory, a
container, a tile, or nothing); `trade` holds the three fields of each player.
An action that changes an item computes the players that are *told* and whose
offer is *concerned*, from the code's conditions, and closes their trades.
`touched` is a history: the offers that changed while they were on offer.

**WaitList.** `ClientLogin` is the part of login that asks the list, with the whole
of `clientLogin`; the two lists are sequences of entries and the two sizes are
variables of their own, because the code erases an iterator of one list through
the other (waitlist.cpp:89). That is undefined; the model takes what libstdc++
does: the node leaves the list it is in, and the size of the other is decremented.

**Characters.** Two programs and one database. Every SQL query is one action: a
request of the API is between two `await`s (`request`), a task of the dispatcher
between two queries (`task`). `LOCK TABLES` is `tableLock`, and makes every other
query on the table wait. All the data of a character is one value (`data`), the
number of the character it came from (`born`); ids are reused, as `MAX(id) + 1`
does after the last row was deleted. `Crash` ends the game server between any
two queries, `Startup` is the TRUNCATE of startup.lua.

**Accounts.** Like `Characters`: a query is an action, a request (`call`) is
between two awaits and may be cut off at any of them. A recovery key is the login
that generated it and its slot, a token its number; both stand for their hashes.
`raced`, `twice` and `overlapped` are histories, from which `TwiceByOverlapOnly`
tells a duplicate that overlapping requests made from one that nothing excuses.

**Walking.** `player` is one record with the fields of Creature and Player that
bear on walking, the events alive in the scheduler (`walks`) and the player's
tasks in the dispatcher (`queue`). The functions of the code are operators on
that record; those that take a step return the set of its outcomes, since the
tile ahead may not be free. The map is a row of tiles with one step-in script
that moves on. Inputs of the client, and what others do to the player, come at
any time; events whose delay is over when none of the player's tasks is queued,
as delays (50 ms and more) are longer than the queue.

**Monsters.** `creature` holds of each object what decides who is awake for whom:
place, health, master, summons, target list, idle state, marks of the check lists
and the reference counter. A move, an appearance, a removal or a conviction
notifies every monster in the order of the code, inside the step. `pass` is the
position of `checkCreatures()`, so that scripts and deaths change the lists while
they are gone through. What a monster attacks is any target the list allows.

**Spawns.** The slots of one spawn; `checkSpawnEvent` is the pending event, `due`
the slots whose interval has passed, `watched` those with a player in sight.

**Database.** The handle's lock, the server's transaction, and its two states
(`work`, `disk`) as versions per table. `beginTransaction()` is two critical
sections. A loss of the connection rolls back, reconnects and sends the query
again, before or after it took effect. `DBInsert` is the batch of `save`: rows
have one of two lengths, and a statement is executed when the next row would not
fit. What the code counts for that (`counted`) is less than the statement it sends
(`size`): the row it goes on with after a statement was executed, and the
parentheses and commas of every row, are left out. A statement longer than a packet is refused: it fails, or the connection ends
and it is sent again. `slipped`, `repeated` and `torn` are histories.

**WorldSave.** What players hold in memory (`held`), what is in the house
(`tiles`), and the rows they are loaded from; `todo` is what is still to be saved
by `saveGameState()`, one player or one part per step. Mail, evictions and the
rent go to a copy of a player who is not online: it is loaded, changed and saved,
or lost with what it was given (`CopyGets`), as no caller looks at what
`savePlayer()` returns. Any part of a save may fail and any load may find less than
the rows hold (`Loaded`); a logout goes on without its save and a shutdown without
those of the house. `Crash` ends the process anywhere, `Start` reads the rows,
`PayHouses` takes the rent, warns or evicts. One house, whole items. `rents`,
`tornItems` and `forgotten` are histories: the last two are written where a save
or load fails for good or the process ends, and nowhere else.

**Decay.** Four bucket lists, visited one per 250 ms; the pass over a list is a
position, `visit`, so that scripts transform items in the middle of it.
`toDecayItems` and `toReleaseItems` wait for `cleanup()`. Items carry an age, in
ticks, that the code does not have, which `DecaysOnTime` compares.

**Party, SharedExperience, Chat, Groups.** Facts that the code keeps twice are
variables on both sides. An element of `Parties` is an *address*: a party that
empties deletes itself within the step and the next may get its address, with
the channel that chat.cpp still keys by it (`stayed` is that history). In
`Groups` a step of a party is one step of all three, in the order of
`Player::onRemoveCreature` for a logout.

**Cylinders.** A world (places, counts, weights) is a value; the functions of the
code are operators on it, and a handler replaces the world by what it made of it,
refused in the middle or not. `deficit`, `causes` and `overfilled` are histories.

**TileView.** The stacks of tiles on one side; on the other `view`, what each
client has made of the messages it was sent, which name places only. Clients are
external: they insert, remove and replace where they are told. `LastFirst` is the
loop over the creatures of a tile from the last to the first.

## 3. Runs

Forty properties, each broken by a mutant of the code under the same
configuration.

| run | instance | states | what it shows |
|---|---|---|---|
| `threads` | dispatcher: 2 producers, 3 tasks, 1 expiring; database: 3 queries, 1 callback; connection: 3 messages; walk: 4 tiles, 2 things, 3 inputs | 123,177 | no wakeup is lost (`NoLostWakeup`) and each accepted task runs or expires, through close and shutdown (`AcceptedTaskLeaves`); each query once, before its callback, in order but for the one in flight at the flush (`QueriesOnceInOrder`), and always (`QueriesAreServed`); one write at a time, in order, one release, the last message before the socket is shut (`WrittenAndReleased`), no closed connection stays with a peer that reads (`ClosedIsDestroyed`); a walk has its one event (`WalkGoesOn`) and ends (`WalkEnds`) |
| `scheduler` | 2 events, 1 task, delays 0 and 1, two instants | 411,262 | ids and heap agree, stopped events never run and none runs early (`EventIdsExact`), a due event runs, and shutdown ends the thread unless its signal falls before the wait (`EventsAreServed`), and the two threads implement the abstract service (`ImplementsEventService`) |
| `session` | 3 connections, 3 Player objects; 1 e-mail, 2 requests, 2 accounts, 2 keys; 2 names, 2 requests, 3 ids | 2,117,284 | one character in the game (`OneOnline`), pointers that agree (`ClientHoldsPlayer`), exact counters (`CounterExact`), no freed player used, no released protocol flushed (`NothingDangles`), one way only to leak (`LeakOnlyByLateExpiry`), no login lost (`LoginNotForgotten`); duplicates of e-mails, keys and resets by overlap only (`TwiceByOverlapOnly`); every character a row of its own (`RowsApart`), the online table exact but for a deletion in the game (`OnlineTableExact`) |
| `population` | 2 premium, 2 regular, 1 staff, 2 places in the game; 2 slots, 4 monsters; 2 monsters and a player on 2 squares | 952,248 | one place each, kept by punctual retries (`OnePlace`), nobody overtaken (`NobodyOvertakes`); an empty slot has its check (`SlotIsWatched`); monsters awake in sight of an opponent (`AwakeInSight`), references exact, no pointer to what is gone (`ReferencesExact`) |
| `store` | 2 writers, 4 tables of 3 rows, 2 saves, 2 losses; 1 item, 2 players, 1 house; 2 items of 4 kinds | 2,334,512 | a save is whole unless it went on after a lost transaction (`SaveTornByRetryOnly`), a query that was acknowledged is there once, with two named exceptions (`AcknowledgedOnce`); an item is in one place unless a crash, a failed save or a failed load tore it (`WholeUnlessTorn`), rent is taken once unless the process ended before the house's row had the payment (`RentTakenOnce`); a decaying item is listed, and freed with its last reference (`ListedOrFree`), and decays on time (`DecaysOnTime`) |
| `trade` | 3 players, a bag, 2 stacks, tiles 0, 1, 3 | 48,050 | pairs and `tradeItems` agree (`TradesConsistent`), offers are apart, in reach and as shown (`OffersHold`), both items or none (`SwapIsWhole`) |
| `players` | 3 players, 2 parties, 1 guild, 1 private and 1 public channel, levels 1 and 2, 2 places; 3 tiles, 2 clients, 1 monster, 5 items, 3 things shown | 76,877 | both sides of a party agree (`PartiesPaired`), channels are read by those who belong there (`ChannelReaders`), sharing is what the party deserves now (`SharedExperienceCurrent`); clients show the stacks (`ViewsExact`) |
| `items` | 3 gold coins and 2 platinum stacks, axe, sword, loaf, a bag in a bag | 8,420 | one place, exact weights, hands that agree, capacities (`CylindersSound`); nothing doubled, and lost in two ways only (`AmountsKept`) |
| `scheduler_empty_top`, `connection_stalled`, `session_leak`, `characters_deleted` | smaller | | the four disagreements below |

A type invariant is a conjunct of one property of each module (`EventIdsExact`,
`QueriesOnceInOrder`, `WrittenAndReleased`, `OnePlace`, `RowsApart`,
`TwiceByOverlapOnly`, `SaveTornByRetryOnly`, `PartiesPaired`, `ChannelReaders`,
`SharedExperienceCurrent`); those of `Dispatcher`, `Session` and `Trade` are
proved.

### Bounds, and why they are enough

* *Dispatcher*: the races are between one adder, another adder and the thread,
  over a queue that is empty or is not. Two producers and three tasks give every
  combination of a full queue, a late notify and a new push.
* *Scheduler*: two events are the first for which one can be in front of the
  other, replace it as top, share its time, or be stopped in its shadow; two
  instants tell due from not due. `IdSpace` is 8, larger than the ids used: a
  wrap that meets a live id needs an event 2³² ids old and is not examined.
* *DatabaseTasks*: three queries are one in flight, one that the flush executes
  ahead of it, and one to come too late.
* *Connection*: with three messages one is being written while another waits and
  a third is refused.
* *Walking*: three inputs are a walk or an action, what disturbs it, and what
  disturbs that; with four (388,000 states by itself) the same holds. `MaxEvents`
  is 2 so that a second walk event would have an id to take.
* *Session*: three connections are the one that plays, the one that takes over
  and the one that takes over from that; three Player objects allow two deaths
  or kicks in between. The proofs hold for any number.
* *Accounts*, *Characters*: two requests that overlap, over one account, e-mail or
  limit for both; three ids, so that an id is deleted and given out again.
* *WaitList*: two clients in each list and two places are the least at which
  order within a list, between lists and against free places can all go wrong.
  Waiting times and the grace are 1 and 2 seconds instead of 5 to 120 and 15:
  only their order matters. `MaxDrift` bounds how often the erase of the wrong
  list is taken, `MaxTime` the seconds.
* *Spawns*, *Monsters*: two slots, of which one is filled while the other is not;
  two monsters that can be each other's master, summon and enemy, and a player;
  a square in sight and one out of it; one check list.
* *Database*: two writers, one to slip in and one to follow; two losses, one in the
  transaction and one after it; three rows of length 3 or 13 and a packet of 19, so
  that a batch the code counts as fitting is sent as a statement that fits, or that
  passes the packet by its first row, by its separators, or by both.
* *WorldSave*: an item, two owners and a house are every pair of places it can be
  torn between; one warning, one period of rent. A behaviour is not followed
  further once its item is torn or a rent was taken twice (`Claimed`): of that item
  or that rent nothing is claimed any more. The proofs have no such bound.
* *Decay*: two items that share a list, four kinds that decay, stop and start;
  remaining times of 1 and 15 eighths of a second: less than the interval between
  two visits, and more than a round over the four lists.
* *Party*, *Chat*, *SharedExperience*: three players are a leader, a member and one
  to join or stay; two addresses, so that one is used again. With the experience
  in focus one party at a time is followed (`OneParty`), as its flag reads no
  other.
* *TileView*: a crowded tile between two empty ones; `Limit` is 3 instead of ten,
  so that tiles overflow; one client that sees the hidden, and one that does not.
* *Cylinders*: stacks of two, a bag of two in a bag: full and not full, on either
  level.
* *Trade*: three players are two partners and the intruder. One bag and two
  stacks give nesting, merging, splitting and offers inside a container. Tiles
  0, 1 and 3 give distances of one (in reach of items), two (in reach of a
  partner) and three (out of reach). Deeper nesting than one bag is not
  explored by TLC.

Deadlock is checked in `trade`. In the other runs something does stop or is
bounded: the server shuts down, a connection is destroyed, Player objects,
ids, inputs, saves and time are used up; their configurations say so.

## 4. What the runs found

1. **The scheduler takes the top of an empty heap** (scheduler.cpp:40,
   `TimeoutHasEvent`). After `wait_until()` times out, the thread has to get the
   mutex back; `Scheduler::shutdown()` may clear the heap first. The comment at
   line 39 says that after a timeout there has to be an event.
2. **A late connect leaks a player** (protocolgame.cpp:189, `NoLeakedPlayer`).
   `connect()` takes the death of the Connection object as the sign that
   `release()` has run. But release is queued when the connection is *closed*,
   and the object lives until its last operation has completed; in between,
   `connect()` attaches the player to a protocol that was already released. The
   character stays in the game with a dead client until it is kicked for being
   idle, dies or the server stops, and the Player object is never freed.
   `LeakOnlyByLateExpiry` is proved: there is no other way.
3. **A peer that does not read keeps its socket** (connection.cpp:83,
   `ClosedSocketShuts`). `close()` leaves the shutting to the last write; the
   write timeout calls `close(FORCE_CLOSE)`, which returns at once because the
   state is already closed. Shown under fairness of all but the peer.
4. **A character is deleted in the game** (index.ts:565, `OnlineNotDeleted`). The
   service looks into `players_online` and deletes with the next query; a login
   in between is not seen, and neither is a player hidden by ghost mode. The
   id can then be given to a new character, whose row the next save writes.

Not findings, as nothing in the code says otherwise, but exceptions that the
properties name, each reached by TLC:

* `Scheduler::shutdown` and `DatabaseTasks::shutdown` signal once, and the threads
  test their state before they take the lock. If the signal falls in between the
  thread sleeps for good and `join()` does not return. `EventsAreServed` and
  `QueriesAreServed` are conditional on that window. The dispatcher does not have
  it: its shutdown pushes a task.
* A save that loses its connection goes on outside of any transaction: half of it
  can stay (`SaveTornByRetryOnly`). A query whose answer is lost is applied twice,
  and one of another thread can slip into a transaction between BEGIN and the
  second lock, and be rolled back with it (`AcknowledgedOnce`).
* Two registrations that overlap make two accounts with one e-mail, two first
  logins show one client keys that are not stored, two resets spend one secret
  twice (`TwiceByOverlapOnly`); creations that overlap pass the limit of
  characters (`RowsApart`).
* `DBInsert::addRow` counts the rows of a batch but neither the one that it goes on
  with after a statement nor the parentheses and commas (database.cpp:257-272), so
  a statement can pass `max_allowed_packet` by as much (`SaveTornByRetryOnly` bounds
  it). The server then refuses it: the save fails, or goes on after a reconnection.
* A crash between the save of a player and that of the houses leaves an item in
  both or in neither. The same is left by a logout whose save fails three times, by
  a shutdown whose save of the houses fails (map.cpp:58-77), and by an inventory or
  house that could not be read at its load. Mail and evicted items are given to a
  copy of the player and are gone if the copy is not saved (mailbox.cpp:132,
  house.cpp:217 and 684), which nobody notices (`WholeUnlessTorn`).
* Rent is taken again after a crash between the payment and the save, and after a
  shutdown that could not save the house (`RentTakenOnce`).
* The rest of a stack that found no room is forgotten (game.cpp:1246), and in a bag
  that holds more than it may, `capacity() - size()` wraps and an item is added
  past the end and lost (`AmountsKept`). An exchange and an addition beside the
  item on offer overfill bags (`CylindersSound`).
* A monster that is convinced, and a slot without room at start-up, leave the slot
  empty without a check until another monster of the spawn goes
  (`SlotIsWatched`).
* An item that a script transforms while it is still listed is enlisted twice and
  decays twice as fast (`DecaysOnTime`).
* A creature that hides on a tile with more things than a client shows leaves the
  client one thing short (`ViewsExact`).
* A teleport in the middle of a walk stops its event but keeps the path and the
  action that waits for it; until the next click, that action also keeps the
  player from following (`halted` in `WalkGoesOn`, `WalkEnds`). After a teleport
  on the very first step, taken before the event is scheduled, the walk goes on
  from the other end.

## 5. Fairness

Liveness is stated for the threads, the connection and walks.

* A thread that can run does: weak fairness of each thread's own steps. A task
  and a query return; a caller that has left the critical section goes on to
  its notify. This is what an operating system's scheduler gives.
* Clocks advance and a due timer fires (`Tick`, `TimerFires`, `HandleTimeout`);
  the time between two steps of a walk passes, its tasks and events run
  (`Rested`, `RunTask`, `CheckCreatureWalk`), as the dispatcher's and the
  scheduler's own liveness allows.
* Queued handlers of asio run, and the last reference destroys (`Handlers`,
  `Destroy`).
* Nobody is obliged to add, stop, close or shut down anything, signals may be
  spurious or not, and a *peer owes nothing*. Only `ReadingPeerSpec` adds that
  the peer reads what it is sent, for `ClosedIsDestroyed`; without it the run
  `connection_stalled` finds the counterexample.

## 6. Proofs

TLAPS proves the theorems below for every value of the constants: for any number
of threads, tasks, connections, players, items, requests or clients, and without
the bounds of the runs. Eight modules hold them, 23,058 obligations, none of them
omitted. They rest on the modules' named assumptions, which say that constants
are disjoint, finite, natural or included in one another and which TLC evaluates
in the runs, and on three hypotheses that are about the code:

* `FewerEventsThanIds` (scheduler): `lastEventId` has 32 bits and starts again at
  1, so that ids are told apart until it has given them all out.
* `GetTime` in `WaitListAssumption`: the times to the retry are natural and do not
  fall with the place, as those of `WaitingList::getTime` are and do not.
* `DecayedKindsAssumption` (decay): an item that decays into a kind without a time
  of its own becomes one that neither stops nor decays. `Item::setID` clears the
  mark `decaying` only for such kinds, so with any other an item would leave its
  list marked as listed and never be listed again. It is a property of the item
  types; all 460 decaying types of `data/items/items.srv` have it.

Almost no property is inductive. What each needs besides, and why:

**Dispatcher, Scheduler, DatabaseTasks** (`SchedulerProofs`). `DispatcherType`,
`DispatcherNoLostWakeup`, `DispatcherQueue`; `SchedulerInvariant`, `IdsAgree`
(`EventIdsExact`), `SchedulerImplementsService`; `DatabaseThreadInvariant`,
`QueriesInOrder` (`QueriesOnceInOrder`). `NoLostWakeup` needs only the types: the
queue turns non-empty under a sleeping thread in two places, and both owe or send
a signal. The two larger modules use the dispatcher's steps, so its lemmas are
proved of the steps and not of its specification. `SchedulerInv` says where each
event is (`EventPlaces`: in the heap, carried by the thread after the pop, or
out); that the thread sleeps no longer than the earliest event (`WaitsForTop`),
without which the event it pops after the timeout might not be due; and which
thread is down before which (`ClosedInOrder`). From it every step of the two
threads is a step of `EventService` or a stutter; the abstract id is the heap's,
an event counts as fired from the critical section that pops it. `DbInvariant`
says that what was accepted is executed, in hand or queued, in this order until
`shutdown()` has the lock, and with at most the query in hand out of turn
afterwards.

**Connection** (`ConnectionProofs`). `ConnectionInvariant`,
`ConnectionWrittenAndReleased` (`WrittenAndReleased`). That messages have no gap
needs that the last of the queue is the last accepted (`LastAccepted`); that a
graceful close delivers needs that only a forced close or the peer makes a write
fail (`ShutOnPurpose`); that the release comes once needs that nothing happens
to a connection before it is accepted.

**Session** (`SessionProofs`). `SessionInvariant` and from it every property of the
module: `SessionType`, `SessionOneOnline`, `SessionClientHoldsPlayer`,
`SessionCounterExact`, `SessionParsedPlayerAlive`, `SessionAutosendIsReleased`,
`SessionNothingDangles`, `SessionLeakOnlyByLateExpiry`,
`SessionLoginNotForgotten`, for any number of connections and Player objects.
The invariant `IInv` has three groups:

* `Objects`: at most one player online, none both online and to be released,
  player and client pointers inverse to one another, counters exact. It only
  depends on the links, and each handler is one of five effects on them: attach,
  remove, create, release, clean up.
* `Queue`: for each protocol, a login in the queue is the first of its tasks
  (`LoginFirst`, by the order of the queue and although events jump to its
  front), a protocol with a login or a connect to come has no player, and a
  release comes only after the close. This is what makes `release()` meet the
  player that `login()` attached, and not the other way round.
* `Clients`: who parses is attached and open; every client has its release to
  come or was attached too late; so has every protocol in the autosend pool.

The network's steps are summarised by `NetStep`, so that the groups are proved
against effects rather than against fourteen actions each.

**Characters, Accounts** (`WebApiProofs`). `CharactersInvariant`, `CharactersApart`
(`RowsApart`), `OnlineTable` (`OnlineTableExact`); `AccountsInvariant`,
`AccountsTwice` (`TwiceByOverlapOnly`). That an account passes its limit by no
more than the other requests in flight follows from `LimitKept`, which adds to
the characters of an account the requests that have found room for one; that no
id is made twice, from `NumberLocked`: who has read the largest id holds the lock
until it has inserted the next. `players_online` needs who is in the game but not
yet, or not any more, in the table (`Present`). Of the accounts the invariant
says of every request in flight what the rows it has read may still become:
what was `Excused` by an overlap stays so in the rows and in the requests that
carry the same key, account or token.

**Parties, channels, shared experience** (`GroupsProofs`). `PartiesInvariant` and
`GroupsKeepParties` (`PartiesPaired`), `GroupsKeepReaders` (`ChannelReaders`),
`GroupsKeepExperience` (`SharedExperienceCurrent`), with `PartiesThroughNone`,
`GroupsInvariant` and `GroupsImplementParty`. `PartiesPaired` is inductive once no
list names a player twice (`NobodyTwice`), since the code erases the first entry
it finds. A channel stays right because a player goes from one party to another
only through none at all, so that the step which leaves takes the channel along.
The proof of the composition uses the effects of a party's step, never its
fourteen actions.

**Tiles** (`GroupsProofs`). `TilesInvariant`, `ViewsStayExact` (`ViewsExact`).
`TileViewInv` adds to `ViewsExact` that no list names a thing twice, that a creature
stands on one tile at most and that only creatures in the world are hidden; that
items are not creatures is assumed (`TileViewAssumption`). Every
message is about one thing that is in the stack of one tile and not in the stack
before or after (`Grown`, between the two parts of the other): a place the server
tells is right when the client's cut at Limit and this change commute
(`RightInsert`, `RightRemove`, `RightArrive`, `Exchanged`). A removal does not commute
when the stack was longer than Limit. Then `postRemoveNotification` sends the tile
again, so that between the two only tiles with few things need be right (`Nearly`). What a
player sees of who stands on a tile is the list of creatures reversed and without
the hidden; how it changes when one comes, goes or hides (`KeptAround`,
`BodyGrown`) is proved by counting places. A step (`NearlyAfterStep`) is all at
once: less on one tile, more on the other, new tiles for the one who walks, and for every
other client one of the two messages or both.

**Trade** (`TradeProofs`). `TradeInvariant`, `TradeType`, `TradesArePaired`,
`OffersAreRegistered`, `TradesAreConsistent` (`TradesConsistent`);
`OffersInvariant`, `OffersStayAsShown` (`OffersHold`); `RoomInvariant`,
`SwapsAreWhole` (`SwapIsWhole`). Three arguments, one on top of the other:

* *Pairs.* Every step starts a trade, accepts one, or ends the trades of *some* set
  of players. Ending the trades of any set keeps the pairing, as the set with its
  partners is a union of whole pairs (`ClosingIsPaired`, `ClosingKeeps`). So these
  hold however notifications are routed.
* *Offers.* That enough trades are ended turns on where items are. What contains an
  item (`Around`) is a least fixpoint, so a step that moves one item is followed
  by what it adds to and takes from that set (`MoveInside`, `MoveTop`,
  `MoveElsewhere`). An item on offer is under a player who owns it or on a tile
  next to the owner; either way its owner is among those who are told when
  anything under the same place changes (`OwnerIsTold`), and ends the trade
  (`EndHolds`). What is left is as it was shown.
* *Room.* No container ever holds more than its capacity (`Roomy`, by counting what
  is in it before and after). When a trade is accepted each item has been found
  to fit, and the first move cannot take the second's place unless that place was
  another stack, and there was no free one (`StaysOnlyToStack`). Otherwise both
  items move.

**WorldSave, Database, Decay** (`StoreProofs`). `WorldInvariant`, `WorldWhole`
(`WholeUnlessTorn`), `WorldRent` (`RentTakenOnce`); `HandleInvariant`, `SavesWhole`
(`SaveTornByRetryOnly`), `QueriesOnce` (`AcknowledgedOnce`); `DecayInvariant`,
`DecayListed` (`ListedOrFree`), `DecayTiming` (`DecaysOnTime`). As far as the save of
a shutdown has come, what is in memory is in the rows or was recorded as torn or
forgotten when its part failed (`SaveProgress`): nothing else moves until it ends.
So the process may end there, with or without its rows. Rent that is in memory only
is owed to the row (`RentOwed`), and a copy that is lost takes no item with it that
is not torn. The handle's invariant knows the lock's holder from where every
thread is (`LockHeld`), and how far the tables of an open transaction have come
(`TransactionOpen`), up to those queries that `slipped` in or were `repeated`.
Of an item that decays the references are counted: one for the place it is in, one
for each entry on a list, one for each release that waits for `cleanup()`. The pass
over a list, the erasures in the middle of it and the scripts that transform
items meanwhile each keep that balance, and with it that what is freed is on no
list. For the time, an item enlisted once has an age and a number of rounds until
its list is next visited, which together with the duration left make up the
duration it started with.

**Spawns, Walking, WaitList** (`PopulationProofs`). `SpawnsInvariant`,
`SlotsAreWatched` (`SlotIsWatched`); `WalkInvariant`, `WalkGoesOnward` (`WalkGoesOn`);
`WaitListInvariant`, `EachHasOnePlace` (`OnePlace`), `NobodyIsOvertaken`
(`NobodyOvertakes`).
A spawn needs that what it lists was placed and is not freed (`ListedExist`), and
that a spawn that was cleared lists nothing. A walking player is one record that
goes through several functions of the code in a step, so the invariant is one of
the record between any two calls (`Orderly`): for each function a lemma says
what it makes of an orderly record, what becomes of the event, and whether the
tasks in the queue stay (`Queued`), and the lemmas of the handlers put them
together.
The waiting list needs that no client is on both lists, nor on one of them and in
the game, that the sum of the two wrong sizes is right (`WaitOK`), and that the
timeouts are beyond the retries that clients were told (`WellKept`); that the
order is kept is shown by mapping the places after a login increasingly into those
before (`Sub`), and the room left for those ahead by counting the places that
survive the cleaning. The lists are cleaned by `KeptAt`, which picks the entries
at a set of places by counting, since `SelectSeq`, being recursive, is opaque to
the provers.

Induction on a natural number (the number of requests, the places of a list) is
done by a least counterexample: the library's theorem takes an operator and
cannot be used, but the well-foundedness of `<` and finite cardinalities can.

**Model-checked only.**

* Liveness, as the prover has no `ENABLED`: `AcceptedTaskLeaves`,
  `EventsAreServed`, `QueriesAreServed`, `ClosedIsDestroyed`, `WalkEnds`.
* `TimeoutHasEvent` and the other properties of the runs that expect a violation.
* `AwakeInSight`, `ReferencesExact` (`Monsters`): their steps fold an operator over
  a set, and what such a fold computes is an induction over an operator.
* `CylindersSound`, `AmountsKept` (`Cylinders`): recursive operators.

## 7. Not modelled

Inside the modules:

* *Data races proper.* `threadState` is atomic, and what the code shares without a
  lock otherwise (`Connection::closeAll` against a handler) is one step here.
* *Connection*: encryption, checksums, the rate limit as a count (it is a possible
  close), and the choice of the protocol.
* *Walking*: a row of tiles instead of the map, and one player; path finding is
  external (a path leads to its end, or there is none); diagonal steps, speeds.
* *Session*: authentication, bans and the waiting list (any login may be refused
  before it begins), `isConnecting`, clones, and what a packet does in the game.
* *Accounts*: passwords and their change by a user who is logged in, the session
  token, the sending of mails; the tables that hang on an account are one.
* *Characters*: the account of a request is right; `deletion` is 0 and `save` is 1
  in every row, as both programs leave them; the tables that hang on `players` are
  part of its data; bans and the waiting list are a possible refusal.
* *Trade*: the map is a line; counts, weight, line of sight and scripts are a
  possible refusal; a stack keeps its name when the code clones it; the limit of
  100 items in an offer; open windows, which show contents but move nothing.
* *WaitList*: seconds instead of milliseconds, small waiting times.
* *Spawns*: positions and radii; a slot has room or has none.
* *Monsters*: health is 0 or 1, `friendList` mirrors what `targetList` does, and
  attacks, defences, voices and steps are left out, but for where they lead.
* *Database*: MySQL is external; one transaction at a time is what InnoDB shows
  to one connection.
* *WorldSave*: one house with its tiles as one place; access lists, doors and
  beds; an item is whole and can be picked up (what cannot stays in a house when it
  changes hands); players whose `save` column is 0. A save writes all of its rows or
  none: what a transaction does when its queries fail is the part of *Database*.
* *Decay*: durations in eighths of a second up to two; charges.
* *Party*, *Chat*: script events of a party, which may forbid a step; a channel's
  words. *SharedExperience* does not compute the experience itself.
* *Cylinders*: one player with a tile before it; depots, inboxes and open container
  windows; weight limits and scripts are a possible refusal.
* *TileView*: one floor; the cache of spectators, which is emptied when a creature
  moves, is not there.

Components without a module, those marked – in section 1:

* no state of their own, or constant after the start: configuration, item,
  vocation and monster tables, the wildcard tree (a cache of the online names),
  the shell of the web service, the web client;
* bytes: network messages and encryption, map files, scripts, schema migrations;
* one message and one answer: the login and status protocols;
* to come: conditions, npcs, beds, raids, bans (section 8). Damage and loot are
  random numbers.

## 8. Plan

1. **Conditions**: conditions that merge, tick and end, the lists gone through while
   a tick kills, and the icons and speeds that must come back.
2. **Npcs**: the queue of customers and the conversation that times out.
3. **Raids**, **ServicePort**, **Bans**: timers and windows of time.
4. Start and stop: the loader and the wait of `main()` for it; `isConnecting` in
   `Session`.
5. Depots, inboxes and open container windows in `Cylinders`.
6. Pure algorithms, against reference definitions: path finding, the wildcard tree
   of player names, experience and skill formulas, spectator ranges.

Proofs to come: `AwakeInSight` and `ReferencesExact`, once the steps of `Monsters` that
go through many creatures are functions of the whole set.
