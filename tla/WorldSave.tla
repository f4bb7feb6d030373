------------------------------ MODULE WorldSave ------------------------------
(***************************************************************************)
(* What is kept when the server stops (src/server/src: game.cpp,           *)
(* iologindata.cpp, iomapserialize.cpp, house.cpp, mailbox.cpp).           *)
(*                                                                         *)
(* A player is saved when he logs out and at each save of the game; the    *)
(* items in houses only at a save of the game, each part in a transaction  *)
(* of its own.  Mail, an eviction and the rent also change the rows of     *)
(* players who are not online: a copy is loaded, changed and saved.  The   *)
(* server may end between any two of these steps, and starts from what the *)
(* rows hold.                                                              *)
(*                                                                         *)
(* A query may fail at any time, and few callers look: a save that fails   *)
(* leaves the rows as they were, a load that fails leaves out what it did  *)
(* not find.  That a save writes all of its rows or none is the business   *)
(* of Database.                                                            *)
(*                                                                         *)
(* There is one house.  An item is in one piece, and can be picked up: it  *)
(* is with a player (inventory or depot) or in the house.                  *)
(***************************************************************************)
EXTENDS Integers, FiniteSets, Sequences, SequencesExt, FiniteSetsExt

CONSTANTS Belongings, Inhabitants, Nobody,
          MaxWarnings,      \* 7 letters before the house is lost
          MaxPeriods        \* bound: how often the rent falls due

ASSUME WorldSaveAssumption ==
    /\ Nobody \notin Inhabitants /\ IsFiniteSet(Inhabitants)
    /\ MaxWarnings \in Nat /\ MaxPeriods \in Nat

VARIABLES
    serverState,     \* "down", "loaded" (the map), "up", or "saving"
    online,     \* players of the game
    held,       \* what each player in memory has
    tiles,      \* what is in the house
    house,      \* owner, paid and warnings of the House object
    todo,       \* what saveGameState() has still to save
    stopping,   \* the save is the one of GAME_STATE_SHUTDOWN
    row,        \* player_items and player_depotitems, by player
    tileStore,  \* table tile_store
    houseRow,   \* owner, paid and warnings in table houses
    period,     \* periods of rent so far
    rents,      \* how often each player paid for this period (history)
    tornItems,  \* items that were not saved, or not loaded, with all their places (history)
    forgotten   \* players whose payment or ownership was not saved (history)

saveVars == <<serverState, online, held, tiles, house, todo, stopping, row, tileStore, houseRow,
              period, rents, tornItems, forgotten>>

Owners == Inhabitants \cup {Nobody}
FreeHouse == [owner |-> Nobody, paid |-> FALSE, warnings |-> 0]

WorldSaveInit ==
    /\ serverState = "down"
    /\ online = {} /\ held = [p \in Inhabitants |-> {}] /\ tiles = {}
    /\ house = FreeHouse /\ houseRow = FreeHouse
    /\ todo = <<>> /\ stopping = FALSE
    /\ \E p \in Inhabitants : row = [q \in Inhabitants |-> IF p = q THEN Belongings ELSE {}]
    /\ tileStore = {}
    /\ period = 0 /\ rents = [p \in Inhabitants |-> 0] /\ tornItems = {} /\ forgotten = {}

Running == serverState = "up"
Stored == <<row, tileStore, houseRow>>
Kept == <<period, rents, tornItems, forgotten, todo, stopping>>

\* What differs between memory and the rows.
Differ(S, T) == (S \ T) \cup (T \ S)
Unsaved ==
    (UNION {Differ(held[p], row[p]) : p \in online}) \cup Differ(tiles, tileStore)

\* The row still asks for a rent that the House object, or another owner's, does not.
Unpaid ==
    {p \in Inhabitants : /\ p = houseRow.owner /\ ~houseRow.paid
                         /\ house.paid \/ house.owner # p}

\* IOLoginData::savePlayer(), when it succeeds.
SavePlayer(p, rows) == [rows EXCEPT ![p] = held[p]]

\* IOLoginData::loadPlayer() goes on without the items of a table that it could
\* not read.
Loaded(p) == SUBSET row[p]

\* A copy of a player who is not online is given items and saved, or lost with
\* them: nobody looks at what savePlayer() returns.
CopySaved(p, items) ==
    \E found \in Loaded(p) :
        /\ row' = [row EXCEPT ![p] = found \cup items]
        /\ tornItems' = tornItems \cup (row[p] \ found)
CopyLost(items) == row' = row /\ tornItems' = tornItems \cup items
CopyGets(p, items) == CopySaved(p, items) \/ CopyLost(items)

-----------------------------------------------------------------------------
(***************************************************************************)
(* Houses.                                                                 *)
(***************************************************************************)

\* transferToDepot() to a player of the game, or to a copy, if it is loaded.
Deposit_unsaved(p) ==
    /\ tiles' = {}
    /\ held' = IF p \in online THEN [held EXCEPT ![p] = @ \cup tiles] ELSE held
    /\ UNCHANGED <<row, tornItems>>

DepositToCopy(p) ==
    /\ UNCHANGED held
    /\ \/ CopyGets(p, tiles) /\ tiles' = {}
       \/ UNCHANGED <<row, tiles, tornItems>>

Deposit(p) ==
    IF p \in online THEN /\ held' = [held EXCEPT ![p] = @ \cup tiles] /\ tiles' = {}
                         /\ UNCHANGED <<row, tornItems>>
    ELSE DepositToCopy(p)

\* The rest of House::setOwner(): the row of the house follows at once, except
\* paid and warnings, if the update does not fail; the house stays without an
\* owner if his name is not found.
Passes(p) ==
    /\ houseRow' \in {houseRow, [houseRow EXCEPT !.owner = p]}
    /\ \E q \in {p, Nobody} :
          house' = [IF house.owner = Nobody THEN house ELSE FreeHouse EXCEPT !.owner = q]

\* House::setOwner()
SetOwner(p) ==
    /\ Running /\ house.owner # p
    /\ IF house.owner = Nobody THEN UNCHANGED <<held, row, tiles, tornItems>>
       ELSE Deposit(house.owner)
    /\ Passes(p)
    /\ rents' = [q \in Inhabitants |-> IF q = p THEN 0 ELSE rents[q]]
    /\ forgotten' = forgotten \ {p}
    /\ UNCHANGED <<serverState, online, tileStore, period, todo, stopping>>

(***************************************************************************)
(* The start: loadHouseInfo() and loadHouseItems(), each of which may find *)
(* nothing, then payHouses().  The owner pays from the bank, gets a        *)
(* letter, or loses the house; so does one who cannot be loaded.           *)
(***************************************************************************)
Start ==
    /\ serverState = "down" /\ serverState' = "loaded"
    /\ house' \in {houseRow, [houseRow EXCEPT !.owner = Nobody], FreeHouse}
    /\ tiles' \in {tileStore, {}}
    /\ tornItems' = tornItems \cup (tileStore \ tiles')
    /\ UNCHANGED <<online, held, todo, stopping, Stored, period, rents, forgotten>>

RentIsDue == house.owner # Nobody /\ ~house.paid
Owner == house.owner

RentTaken ==
    /\ RentIsDue
    /\ house' = [house EXCEPT !.paid = TRUE]
    /\ \/ CopySaved(Owner, {})
          /\ rents' = [rents EXCEPT ![Owner] = IF @ > 1 THEN @ ELSE @ + 1]
       \/ CopyLost({}) /\ UNCHANGED rents
    /\ UNCHANGED <<tiles, houseRow>>

Warned ==
    /\ RentIsDue /\ house.warnings < MaxWarnings
    /\ house' = [house EXCEPT !.warnings = @ + 1]
    /\ CopyGets(Owner, {})
    /\ UNCHANGED <<tiles, houseRow, rents>>

\* With the copy that payHouses() has loaded, or one that setOwner() loads.
Evicted ==
    /\ RentIsDue
    /\ \/ house.warnings >= MaxWarnings /\ CopyGets(Owner, tiles) /\ tiles' = {} /\ UNCHANGED held
       \/ DepositToCopy(Owner)
    /\ Passes(Nobody)
    /\ UNCHANGED rents

PayHouses ==
    /\ serverState = "loaded" /\ serverState' = "up"
    /\ \/ ~RentIsDue /\ UNCHANGED <<house, tiles, row, tornItems, houseRow, rents>>
       \/ RentTaken \/ Warned \/ Evicted
    /\ UNCHANGED <<online, held, todo, stopping, tileStore, period, forgotten>>

\* paidUntil passes.
RentFallsDue ==
    /\ Running /\ period < MaxPeriods
    /\ house.owner # Nobody /\ house.paid
    /\ house' = [house EXCEPT !.paid = FALSE]
    /\ houseRow' = [houseRow EXCEPT !.paid = FALSE]
    /\ period' = period + 1
    /\ rents' = [p \in Inhabitants |-> 0] /\ forgotten' = {}
    /\ UNCHANGED <<serverState, online, held, tiles, todo, stopping, row, tileStore, tornItems>>

-----------------------------------------------------------------------------
(***************************************************************************)
(* Players.                                                                *)
(***************************************************************************)
Login(p) ==
    /\ Running /\ p \notin online
    /\ online' = online \cup {p}
    /\ \E found \in Loaded(p) :
          /\ held' = [held EXCEPT ![p] = found]
          /\ tornItems' = tornItems \cup (row[p] \ found)
    /\ UNCHANGED <<serverState, tiles, house, Stored, period, rents, forgotten, todo, stopping>>

\* player:save() of a script
Saved(p) ==
    /\ Running /\ p \in online
    /\ row' = SavePlayer(p, row)
    /\ UNCHANGED <<serverState, online, held, tiles, house, tileStore, houseRow, Kept>>

\* Player::onRemoveCreature(): three tries, and the player goes anyway.
Logout(p) ==
    /\ Running /\ p \in online
    /\ online' = online \ {p}
    /\ \/ row' = SavePlayer(p, row) /\ UNCHANGED tornItems
       \/ row' = row /\ tornItems' = tornItems \cup Differ(held[p], row[p])
    /\ held' = [held EXCEPT ![p] = {}]
    /\ UNCHANGED <<serverState, tiles, house, tileStore, houseRow, period, rents, forgotten, todo,
                   stopping>>

Give(i, p, q) ==
    /\ Running /\ {p, q} \subseteq online /\ p # q /\ i \in held[p]
    /\ held' = [held EXCEPT ![p] = @ \ {i}, ![q] = @ \cup {i}]
    /\ UNCHANGED <<serverState, online, tiles, house, Stored, Kept>>

PutInHouse(i, p) ==
    /\ Running /\ p \in online /\ i \in held[p]
    /\ held' = [held EXCEPT ![p] = @ \ {i}]
    /\ tiles' = tiles \cup {i}
    /\ UNCHANGED <<serverState, online, house, Stored, Kept>>

TakeFromHouse(i, p) ==
    /\ Running /\ p \in online /\ i \in tiles
    /\ held' = [held EXCEPT ![p] = @ \cup {i}]
    /\ tiles' = tiles \ {i}
    /\ UNCHANGED <<serverState, online, house, Stored, Kept>>

\* Mailbox::sendItem(): to the depot of a player of the game, or of a copy; if
\* that is not loaded, the item stays.
SendItem(i, p, q) ==
    /\ Running /\ p \in online /\ i \in held[p] /\ p # q
    /\ IF q \in online
       THEN /\ held' = [held EXCEPT ![p] = @ \ {i}, ![q] = @ \cup {i}]
            /\ UNCHANGED <<row, tornItems>>
       ELSE /\ held' = [held EXCEPT ![p] = @ \ {i}]
            /\ CopyGets(q, {i})
    /\ UNCHANGED <<serverState, online, tiles, house, tileStore, houseRow, period, rents, forgotten,
                   todo, stopping>>

-----------------------------------------------------------------------------
(***************************************************************************)
(* Game::saveGameState(): the players one by one, saved or not, then       *)
(* Map::save(): the houses, then their items, with three tries for each.   *)
(* At the shutdown the players have been kicked before, and what is not    *)
(* saved then is gone with the process.                                    *)
(***************************************************************************)
SaveBegins ==
    /\ Running
    /\ serverState' = "saving"
    /\ \E stop \in BOOLEAN :
          /\ stop => online = {}
          /\ stopping' = stop
    /\ todo' = SetToSeq(online) \o <<"houses", "tile_store">>
    /\ UNCHANGED <<online, held, tiles, house, Stored, period, rents, tornItems, forgotten>>

HouseInfo_ownerOnly == [houseRow EXCEPT !.owner = house.owner]
HouseInfo == house      \* saveHouseInfo()

SavesPlayer ==
    /\ Head(todo) \in online
    /\ row' \in {row, SavePlayer(Head(todo), row)} /\ todo' = Tail(todo)
    /\ UNCHANGED <<tileStore, houseRow, tornItems, forgotten>>

\* The update of the house may fail unnoticed; when all else fails three times,
\* before or after the commit, its items are not saved either.
SavesHouse ==
    /\ Head(todo) = "houses"
    /\ \/ houseRow' = HouseInfo /\ UNCHANGED forgotten
       \/ houseRow' = houseRow
          /\ forgotten' = IF stopping THEN forgotten \cup Unpaid ELSE forgotten
    /\ \/ todo' = Tail(todo) /\ UNCHANGED tornItems
       \/ todo' = <<>>
          /\ tornItems' = IF stopping THEN tornItems \cup Differ(tiles, tileStore) ELSE tornItems
    /\ UNCHANGED <<row, tileStore>>

SavesHouseItems ==
    /\ Head(todo) = "tile_store" /\ todo' = Tail(todo)
    /\ \/ tileStore' = tiles /\ UNCHANGED tornItems
       \/ tileStore' = tileStore
          /\ tornItems' = IF stopping THEN tornItems \cup Differ(tiles, tileStore) ELSE tornItems
    /\ UNCHANGED <<row, houseRow, forgotten>>

SaveNext ==
    /\ serverState = "saving" /\ todo # <<>>
    /\ SavesPlayer \/ SavesHouse \/ SavesHouseItems
    /\ UNCHANGED <<serverState, online, held, tiles, house, stopping, period, rents>>

Down ==
    /\ online' = {} /\ held' = [p \in Inhabitants |-> {}] /\ tiles' = {} /\ house' = FreeHouse
    /\ serverState' = "down" /\ todo' = <<>> /\ stopping' = FALSE

SaveEnds ==
    /\ serverState = "saving" /\ todo = <<>>
    /\ IF stopping THEN Down ELSE /\ serverState' = "up"
                                  /\ UNCHANGED <<online, held, tiles, house, todo, stopping>>
    /\ UNCHANGED <<Stored, period, rents, tornItems, forgotten>>

\* The process ends with what the rows hold.
Crash ==
    /\ serverState # "down"
    /\ Down
    /\ tornItems' = tornItems \cup Unsaved
    /\ forgotten' = forgotten \cup Unpaid
    /\ UNCHANGED <<Stored, period, rents>>

WorldSaveNext ==
    \/ Start \/ PayHouses \/ RentFallsDue \/ SaveBegins \/ SaveNext \/ SaveEnds \/ Crash
    \/ \E p \in Inhabitants : Login(p) \/ Saved(p) \/ Logout(p)
    \/ \E p \in Owners : SetOwner(p)
    \/ \E i \in Belongings, p \in Inhabitants : PutInHouse(i, p) \/ TakeFromHouse(i, p)
    \/ \E i \in Belongings, p, q \in Inhabitants : Give(i, p, q) \/ SendItem(i, p, q)

WorldSaveSpec == WorldSaveInit /\ [][WorldSaveNext]_saveVars

-----------------------------------------------------------------------------
(***************************************************************************)
(* Properties.                                                             *)
(***************************************************************************)

(***************************************************************************)
(* An item is in one place of the world, wherever mail, evictions, trades  *)
(* and restarts take it: with one player or in the house, in the game or   *)
(* in the rows it will be loaded from.  An item can be there twice or be   *)
(* gone only if it was in different places in memory and in the rows when  *)
(* the process crashed, or when a logout or the save of the shutdown       *)
(* failed; if the copy of a receiver or an evicted owner that held it was  *)
(* not saved; or if the query for it failed when its place was loaded.     *)
(***************************************************************************)
PlacesOf(i) ==
    {p \in Inhabitants : i \in IF p \in online THEN held[p] ELSE row[p]}
    \cup (IF i \in IF serverState = "down" THEN tileStore ELSE tiles THEN {"house"} ELSE {})

WholeUnlessTorn == \A i \in Belongings \ tornItems : Cardinality(PlacesOf(i)) = 1

(***************************************************************************)
(* The rent of a period is taken once from the owner, whose balance is     *)
(* saved at once while the date the house is paid until is saved with the  *)
(* game.  It is taken again only if the process ended, by a crash or by a  *)
(* shutdown whose save of the house failed, while the row of the house did *)
(* not have the payment or had another owner.                              *)
(***************************************************************************)
RentTakenOnce == \A p \in Inhabitants \ forgotten : rents[p] <= 1
=============================================================================
