-------------------------------- MODULE Trade --------------------------------
(***************************************************************************)
(* The trade between two players (game.cpp, player.cpp), with the moves of *)
(* items and creatures that must end it.                                   *)
(*                                                                         *)
(* Each player offers one item, which stays where it is: the trade is safe *)
(* only because every change of an item notifies the players around        *)
(* (Player::onRemoveTileItem, onAddContainerItem, ...), who close a trade  *)
(* that the change concerns.  A container is offered with its contents, so *)
(* the change may be several containers below the offered item, or above.  *)
(*                                                                         *)
(* The map is a line of tiles: ranges are one-dimensional.  A stack keeps  *)
(* its name when it is moved (the code clones it and releases the          *)
(* original), and its count is left out: a stack may or may not have room. *)
(* Weight, line of sight and the scripts' vetoes appear as the possible    *)
(* refusal of a step.  All of this runs on the dispatcher thread.          *)
(***************************************************************************)
EXTENDS Integers, FiniteSets

CONSTANTS
    Players, Items,
    Containers,        \* the items that hold items
    Stackable,         \* the items that stack with one another
    Tiles,             \* positions on a line
    InvSlots,          \* inventory slots of a player
    BoxSize,           \* capacity of a container
    NoPlayer, NoItem, Nowhere

ASSUME TradeAssumption ==
    /\ Containers \subseteq Items
    /\ Stackable \subseteq Items \ Containers
    /\ IsFiniteSet(Items)
    /\ Players \cap Tiles = {} /\ Items \cap (Players \cup Tiles) = {}
    /\ Tiles \subseteq Nat /\ Tiles # {} /\ InvSlots \in Nat /\ BoxSize \in Nat
    /\ NoPlayer \notin Players /\ NoItem \notin Items
    /\ Nowhere \notin Players \cup Items \cup Tiles

VARIABLES
    online,       \* the players in the game
    pos,          \* [Players -> Tiles]
    parent,       \* [Items -> Cylinders \cup {Nowhere}]
    trade,        \* tradeState, tradePartner and tradeItem of each player
    tradeItems,   \* Game::tradeItems: who offers the item
    references,   \* the references Game::tradeItems holds on each item
    touched       \* history: offered items changed since they were offered

vars == <<online, pos, parent, trade, tradeItems, references, touched>>

Cylinders == Players \cup Containers \cup Tiles

Idle == [state |-> "NONE", partner |-> NoPlayer, item |-> NoItem]
TradeStates == {"NONE", "INITIATED", "ACKNOWLEDGE", "ACCEPT"}

Offered == {i \in Items : tradeItems[i] # NoPlayer}

-----------------------------------------------------------------------------
(* Where things are: par is a value of parent, as a step has several. *)

\* The containers that hold i, at any depth: the least set with the parent of
\* i, and of each member, when that is a container.
Boxes(par, i) ==
    {c \in Containers :
        \A T \in SUBSET Containers :
            ({par[i]} \cup {par[b] : b \in T}) \cap Containers \subseteq T => c \in T}

\* The cylinders around i, from its parent to the tile or the player on top.
Around(par, i) == {par[i]} \cup {par[c] : c \in Boxes(par, i)}

\* Container::isHoldingItem, at any depth.
Holds(par, c, i) == c \in Around(par, i)

TopParent(par, i) == CHOOSE x \in Around(par, i) : x \notin Containers

Position(par, ps, i) ==
    LET top == TopParent(par, i) IN IF top \in Players THEN ps[top] ELSE top

InRange(a, b, d) == a - b <= d /\ b - a <= d

InWorld(par, i) == TopParent(par, i) \in online \cup Tiles

\* What a player can lay hands on: the own belongings and the tiles around.
\* The view of a container another player has picked up is closed.
Reachable(p, i) ==
    TopParent(parent, i) \in {p} \cup {t \in Tiles : InRange(t, pos[p], 1)}

Room(par, x) ==
    LET used == Cardinality({k \in Items : par[k] = x})
    IN  \/ x \in Players /\ used < InvSlots
        \/ x \in Containers /\ used < BoxSize
        \/ x \in Tiles

\* Container::queryAdd: not into itself nor into what it holds.
Fits(par, i, x) ==
    Room(par, x) /\ x # i /\ ~(x \in Containers /\ Holds(par, i, x))

-----------------------------------------------------------------------------
(* The notifications: which trades a change closes. *)

\* The players told of a change in the cylinder x.
Notified(par, x, p) ==
    \/ x \in Players /\ p = x
    \/ x \in Containers /\ InRange(Position(par, pos, x), pos[p], 2)
    \/ x \in Tiles

\* Player::checkTradeState: the item is the offer, or inside the offer.
ConcernsOffer(par, i, offer) == offer = i \/ Holds(par, offer, i)

ClosedBy(par, i, Concerns(_)) ==
    {p \in online : /\ trade[p].item # NoItem
                    /\ Notified(par, par[i], p)
                    /\ Concerns(trade[p].item)}

\* Removal of i from its parent, told before i leaves it.
ClosedByRemove(par, i) ==
    LET Concerns(offer) ==
            \/ ConcernsOffer(par, i, offer)
            \/ Holds(par, i, offer)
            \/ /\ par[i] \in Containers /\ par[offer] # par[i]
               /\ Holds(par, par[i], offer)
    IN  ClosedBy(par, i, Concerns)

\* A change of i where it is: its count, or what it is.
ClosedByUpdate(par, i) ==
    LET Concerns(offer) == ConcernsOffer(par, i, offer)
    IN  ClosedBy(par, i, Concerns)

ClosedByAdd_silent(par, i) == {}
\* Arrival of i in its parent: only containers tell.
ClosedByAdd(par, i) ==
    LET Concerns(offer) == ConcernsOffer(par, i, offer)
    IN  IF par[i] \in Containers THEN ClosedBy(par, i, Concerns) ELSE {}

CloseTrades_ownOfferOnly(S) ==
    LET both == S \cup ({trade[p].partner : p \in S} \ {NoPlayer})
        ended == {trade[p].item : p \in S} \cap Offered
    IN  /\ trade' = [p \in Players |-> IF p \in both THEN Idle ELSE trade[p]]
        /\ tradeItems' = [i \in Items |-> IF i \in ended THEN NoPlayer ELSE tradeItems[i]]
        /\ references' = [i \in Items |-> IF i \in ended THEN references[i] - 1 ELSE references[i]]
\* Game::internalCloseTrade for every player of S: the partner is reset too.
CloseTrades(S) ==
    LET both == S \cup ({trade[p].partner : p \in S} \ {NoPlayer})
        ended == {trade[p].item : p \in both} \cap Offered
    IN  /\ trade' = [p \in Players |-> IF p \in both THEN Idle ELSE trade[p]]
        /\ tradeItems' = [i \in Items |-> IF i \in ended THEN NoPlayer ELSE tradeItems[i]]
        /\ references' = [i \in Items |-> IF i \in ended THEN references[i] - 1 ELSE references[i]]

\* History: which offers the change of the items M, from par to par2, concerns:
\* those that are one of them, hold or held one, or are in one.
Record(par, par2, M) ==
    LET Changed(k) == \E i \in M :
            k = i \/ Holds(par, k, i) \/ Holds(par2, k, i) \/ Holds(par, i, k)
    IN  touched' = {k \in Items : (k \in touched \/ Changed(k)) /\ tradeItems'[k] # NoPlayer}

-----------------------------------------------------------------------------
(* The handlers of the trade *)

AlreadyTraded_sameOnly(i) == i \in Offered
\* "This item is already being traded."
AlreadyTraded(i) == \E k \in Offered : k = i \/ Holds(parent, i, k) \/ Holds(parent, k, i)

FreeToTrade_ownSide(p, q) ==
    \/ trade[p].state = "NONE"
    \/ trade[p].state = "ACKNOWLEDGE" /\ trade[p].partner = q
\* "You are already trading.", "This player is already trading."
FreeToTrade(p, q) ==
    /\ \/ trade[p].state = "NONE"
       \/ trade[p].state = "ACKNOWLEDGE" /\ trade[p].partner = q
    /\ trade[q].state = "NONE" \/ trade[q].partner = p

\* playerRequestTrade and internalStartTrade: p offers i to q.
RequestTrade(p, q, i) ==
    /\ p \in online /\ q \in online /\ p # q
    /\ InRange(pos[q], pos[p], 2)
    /\ Reachable(p, i) /\ InRange(Position(parent, pos, i), pos[p], 1)
    /\ ~AlreadyTraded(i)
    /\ FreeToTrade(p, q)
    /\ trade' = [trade EXCEPT
           ![p] = [state |-> "INITIATED", partner |-> q, item |-> i],
           ![q] = IF @.state = "NONE"
                  THEN [state |-> "ACKNOWLEDGE", partner |-> p, item |-> @.item] ELSE @]
    /\ tradeItems' = [tradeItems EXCEPT ![i] = p]
    /\ references' = [references EXCEPT ![i] = @ + 1]
    /\ UNCHANGED <<online, pos, parent, touched>>

\* Player::queryDestination without stacking: an empty slot, or else a
\* container the player carries, but not one on offer from a slot.
Destinations(par, q, i) ==
    LET offer == trade[q].item
        Skipped(c) == /\ offer # NoItem /\ par[offer] = q
                      /\ c = offer \/ Holds(par, offer, c)
    IN  IF Fits(par, i, q) THEN {q}
        ELSE {c \in Containers : TopParent(par, c) = q /\ Fits(par, i, c) /\ ~Skipped(c)}

\* queryDestination of the test adds, which may stack: in the slots and in the
\* containers there, but for the one on offer.
StacksWith(q, i) ==
    i \in Stackable /\ \E k \in Stackable \ {i, trade[q].item} :
        \/ parent[k] = q
        \/ /\ parent[k] \in Containers \ {trade[q].item}
           /\ parent[parent[k]] = q

TestAdd_skipped(q, i) == TRUE
\* A stack is not looked for a place below the containers in the slots.
TestAdd(q, i) ==
    \/ StacksWith(q, i)
    \/ \E x \in Destinations(parent, q, i) :
          i \in Stackable => x \in {q} \cup {c \in Containers : parent[c] = q}

Canceled(p) == CloseTrades({p}) /\ UNCHANGED parent /\ Record(parent, parent, {})

\* Both sides have accepted: the tests, then the two moves.  The result of the
\* second move is not looked at.
Transfer(p, q) ==
    LET i == trade[p].item
        j == trade[q].item
    IN  /\ i # NoItem /\ j # NoItem
        /\ InWorld(parent, i) /\ InWorld(parent, j)
        /\ TestAdd(q, i) /\ TestAdd(p, j)
        /\ \E x \in Destinations(parent, q, i) :
              /\ x # j /\ ~(x \in Containers /\ Holds(parent, j, x))
              /\ LET one  == [parent EXCEPT ![i] = x]
                     rest == Destinations(one, p, j)
                 IN  \E y \in IF rest = {} THEN {parent[j]} ELSE rest :
                       LET two == [one EXCEPT ![j] = y]
                           S   == ClosedByRemove(parent, i) \cup ClosedByAdd(one, i)
                                  \cup IF rest = {} THEN {}
                                       ELSE ClosedByRemove(one, j) \cup ClosedByAdd(two, j)
                       IN  /\ parent' = two
                           /\ CloseTrades((S \ {p, q}) \cup {p})
                           /\ Record(parent, two, IF rest = {} THEN {i} ELSE {i, j})

\* playerAcceptTrade
AcceptTrade(p) ==
    LET q == trade[p].partner IN
    /\ p \in online /\ trade[p].state \in {"ACKNOWLEDGE", "INITIATED"}
    /\ q # NoPlayer
    /\ IF trade[q].state = "ACCEPT"
       THEN Transfer(p, q) \/ Canceled(p)
       ELSE /\ trade' = [trade EXCEPT ![p].state = "ACCEPT"]
            /\ UNCHANGED <<parent, tradeItems, references, touched>>
    /\ UNCHANGED <<online, pos>>

\* playerCloseTrade
CloseTrade(p) ==
    /\ p \in online /\ trade[p] # Idle
    /\ Canceled(p)
    /\ UNCHANGED <<online, pos>>

-----------------------------------------------------------------------------
(* Everything else that happens to items and players *)

\* internalMoveItem of a whole item
MoveItem(p, i, x) ==
    /\ p \in online /\ Reachable(p, i)
    /\ x # parent[i] /\ Fits(parent, i, x)
    /\ x \in Containers => Reachable(p, x)
    /\ x \in Players => x = p
    /\ parent' = [parent EXCEPT ![i] = x]
    /\ CloseTrades(ClosedByRemove(parent, i) \cup ClosedByAdd(parent', i))
    /\ Record(parent, parent', {i})
    /\ UNCHANGED <<online, pos>>

\* internalMoveItem onto a stack that takes all of i, or a part of it
MergeItem(p, i, k) ==
    /\ p \in online /\ {i, k} \subseteq Stackable /\ i # k
    /\ Reachable(p, i) /\ Reachable(p, k)
    /\ \/ parent' = [parent EXCEPT ![i] = Nowhere]
          /\ CloseTrades(ClosedByRemove(parent, i) \cup ClosedByUpdate(parent, k))
       \/ UNCHANGED parent
          /\ CloseTrades(ClosedByUpdate(parent, i) \cup ClosedByUpdate(parent, k))
    /\ Record(parent, parent, {i, k})
    /\ UNCHANGED <<online, pos>>

\* internalMoveItem of a part of the stack i: the part becomes k
SplitItem(p, i, k, x) ==
    /\ p \in online /\ {i, k} \subseteq Stackable
    /\ Reachable(p, i) /\ parent[k] = Nowhere
    /\ Room(parent, x)
    /\ x \in Containers => Reachable(p, x)
    /\ x \in Players => x = p
    /\ parent' = [parent EXCEPT ![k] = x]
    /\ CloseTrades(ClosedByUpdate(parent, i) \cup ClosedByAdd(parent', k))
    /\ Record(parent, parent', {i, k})
    /\ UNCHANGED <<online, pos>>

\* internalMoveItem onto a slot of p that holds k: k goes to the place of i
\* first (RETURNVALUE_NEEDEXCHANGE), then i takes the slot.
ExchangeItem(p, i, k) ==
    /\ p \in online /\ Reachable(p, i) /\ i # k
    /\ parent[k] = p /\ k \notin Containers /\ ~({i, k} \subseteq Stackable)
    /\ parent[i] \in Containers \cup Tiles /\ Room(parent, parent[i])
    /\ LET one == [parent EXCEPT ![k] = parent[i]]
           two == [one EXCEPT ![i] = p]
       IN  /\ parent' = two
           /\ CloseTrades(ClosedByRemove(parent, k) \cup ClosedByAdd(one, k)
                            \cup ClosedByRemove(one, i))
           /\ Record(parent, two, {i, k})
    /\ UNCHANGED <<online, pos>>

\* internalRemoveItem: an item is used up, decays or is removed by a script,
\* with all it holds.
RemoveItem(i) ==
    /\ InWorld(parent, i)
    /\ parent' = [k \in Items |-> IF k = i \/ Holds(parent, i, k) THEN Nowhere ELSE parent[k]]
    /\ CloseTrades(ClosedByRemove(parent, i))
    /\ Record(parent, parent, {i})
    /\ UNCHANGED <<online, pos>>

LeavesReach_partnerOnly(p, x) ==
    trade[p].partner # NoPlayer /\ ~InRange(pos[trade[p].partner], x, 2)
\* Player::onCreatureMove: the offered item or the partner is too far from x.
LeavesReach(p, x) ==
    \/ /\ trade[p].item # NoItem
       /\ ~InRange(Position(parent, [pos EXCEPT ![p] = x], trade[p].item), x, 1)
    \/ /\ trade[p].partner # NoPlayer
       /\ ~InRange(pos[trade[p].partner], x, 2)

\* A step, a push or a teleport
Walk(p, x) ==
    /\ p \in online
    /\ pos' = [pos EXCEPT ![p] = x]
    /\ CloseTrades(IF LeavesReach(p, x) THEN {p} ELSE {})
    /\ Record(parent, parent, {})
    /\ UNCHANGED <<online, parent>>

\* Game::placeCreature, and Player::onRemoveCreature of a logout or a death
Login(p) ==
    /\ p \notin online
    /\ online' = online \cup {p}
    /\ UNCHANGED <<pos, parent, trade, tradeItems, references, touched>>

Logout(p) ==
    /\ p \in online
    /\ online' = online \ {p}
    /\ CloseTrades(IF trade[p].partner # NoPlayer THEN {p} ELSE {})
    /\ Record(parent, parent, {})
    /\ UNCHANGED <<pos, parent>>

-----------------------------------------------------------------------------
Init ==
    /\ online = Players
    /\ pos \in [Players -> Tiles]
    /\ parent \in [Items -> Tiles]
    /\ trade = [p \in Players |-> Idle]
    /\ tradeItems = [i \in Items |-> NoPlayer]
    /\ references = [i \in Items |-> 0]
    /\ touched = {}

Next ==
    \/ \E p, q \in Players, i \in Items : RequestTrade(p, q, i)
    \/ \E p \in Players : AcceptTrade(p)
    \/ \E p \in Players : CloseTrade(p)
    \/ \E p \in Players, i \in Items, x \in Cylinders : MoveItem(p, i, x)
    \/ \E p \in Players, i, k \in Items : MergeItem(p, i, k)
    \/ \E p \in Players, i, k \in Items, x \in Cylinders : SplitItem(p, i, k, x)
    \/ \E p \in Players, i, k \in Items : ExchangeItem(p, i, k)
    \/ \E i \in Items : RemoveItem(i)
    \/ \E p \in Players, x \in Tiles : Walk(p, x)
    \/ \E p \in Players : Login(p)
    \/ \E p \in Players : Logout(p)

Spec == Init /\ [][Next]_vars

-----------------------------------------------------------------------------
TypeOK ==
    /\ online \subseteq Players
    /\ pos \in [Players -> Tiles]
    /\ parent \in [Items -> Cylinders \cup {Nowhere}]
    /\ trade \in [Players -> [state : TradeStates, partner : Players \cup {NoPlayer},
                              item : Items \cup {NoItem}]]
    /\ tradeItems \in [Items -> Players \cup {NoPlayer}]
    /\ references \in [Items -> 0 .. 1]
    /\ touched \subseteq Items

\* A trade always has two sides that name each other, at least one offer, and
\* nobody in it is offline: internalStartTrade, internalCloseTrade and the end
\* of playerAcceptTrade change both players together.
TradesPaired ==
    \A p \in Players :
        LET t == trade[p] IN
        /\ t.state = "NONE" => t = Idle
        /\ t.state # "NONE" =>
              /\ p \in online /\ t.partner \in online \ {p}
              /\ trade[t.partner].partner = p
              /\ t.item # NoItem \/ trade[t.partner].item # NoItem
              /\ ~(t.state = "ACCEPT" /\ trade[t.partner].state = "ACCEPT")
        /\ t.state = "INITIATED" => t.item # NoItem
        /\ t.state = "ACKNOWLEDGE" => t.item = NoItem

\* Game::tradeItems is exactly the offers of the players, each with one
\* reference: no offer is left behind in the map, and none is released twice.
OffersRegistered ==
    \A i \in Items :
        /\ \A p \in Players : tradeItems[i] = p <=> trade[p].item = i
        /\ references[i] = IF tradeItems[i] = NoPlayer THEN 0 ELSE 1

\* No item is on offer twice, itself or inside another offer, however items
\* are moved after the checks of playerRequestTrade.
OffersDisjoint ==
    \A i, k \in Offered : ~Holds(parent, i, k)

\* An offered item stays with its owner or on a tile next to them, and the
\* partners stay within two tiles: playerAcceptTrade checks neither again.
OfferInReach ==
    \A p \in Players : trade[p].state # "NONE" =>
        /\ InRange(pos[p], pos[trade[p].partner], 2)
        /\ trade[p].item # NoItem =>
              /\ TopParent(parent, trade[p].item) \in {p} \cup Tiles
              /\ InRange(Position(parent, pos, trade[p].item), pos[p], 1)

\* What a player was shown is what is traded: an item, or anything inside it,
\* that is moved, merged, split or removed ends the trade in the same step.
OfferUnchanged == touched = {}

\* The sides of a trade agree with each other and with the registered offers.
TradesConsistent == TradesPaired /\ OffersRegistered

\* An offer stays what the partner was shown, where its owner could hand it
\* over, and on offer once, whatever is moved, merged, split or removed between
\* the request and the answer, and wherever the two walk.
OffersHold == OffersDisjoint /\ OfferInReach /\ OfferUnchanged

\* A transfer hands over both items or none.  The code ignores the result of
\* the second move, and tests both with stacking but moves both without: the
\* second item stays behind only if it is a stack for which the first player
\* had no other place than another stack.
SwapIsWhole ==
    [][\A p, q \in Players :
         (trade[p].partner = q /\ trade[q].state = "ACCEPT" /\ AcceptTrade(p)) =>
           LET i == trade[p].item
               j == trade[q].item
           IN  parent' # parent =>
                 /\ TopParent(parent', i) = q
                 /\ \/ TopParent(parent', j) = p
                    \/ j \in Stackable /\ parent'[j] = parent[j] /\ ~Room(parent, p)]_vars
=============================================================================
