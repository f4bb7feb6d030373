------------------------------ MODULE Cylinders ------------------------------
(***************************************************************************)
(* Where items are, and how they get there: Game::internalMoveItem,        *)
(* internalAddItem, internalRemoveItem and the money functions (game.cpp), *)
(* with what they ask the cylinders (player.cpp, container.cpp, tile.cpp): *)
(* queryDestination, queryAdd, queryMaxCount, and the changes themselves.  *)
(*                                                                         *)
(* There is one player, on one tile.  A world is a value: the functions    *)
(* change it step by step, as the code does, and an action replaces the    *)
(* world by what its handler made of it.  Weight, the properties of tiles  *)
(* and the scripts' vetoes are the possible refusal of a handler.          *)
(***************************************************************************)
EXTENDS Integers, Sequences, FiniteSets, SequencesExt, FiniteSetsExt

CONSTANTS
    Things,        \* Item objects
    Kind,          \* [Things -> kind]: a clone has the kind of its original
    Bags,          \* the items that are Containers
    Stackables,    \* kinds that stack
    TwoHanded, Weapons,
    DressedAt,     \* [kind -> set of slots]: slotPosition
    Worth,         \* [kind -> Nat]: of one piece
    Gifts,         \* kinds that scripts and npcs give
    LeftHand, RightHand, Ammo,   \* the slots are 1 .. Ammo
    Capacity,      \* [Bags -> Nat]
    StackSize,     \* 100
    Platinum, Gold, Ground, Body, Nothing

Where == -1                   \* INDEX_WHEREEVER
SlotNumbers == 1 .. Ammo      \* CONST_SLOT_FIRST .. CONST_SLOT_LAST
Boxes == Bags \cup {Ground}   \* cylinders that keep a list

ASSUME CylindersAssumption ==
    /\ Bags \subseteq Things
    /\ \A i \in Bags : Kind[i] \notin Stackables
    /\ {LeftHand, RightHand} \subseteq SlotNumbers /\ LeftHand # RightHand
    /\ StackSize \in Nat \ {0} /\ Nothing \notin Things

VARIABLES
    world,       \* inventory, contents of the boxes, counts, cached weights
    onOffer,     \* Player::tradeItem
    deficit,     \* history: what handlers promised and the world does not have,
    causes,      \* and how it was lost
    overfilled   \* history: a bag was filled past its capacity by skipping an offer

cylinderVars == <<world, onOffer, deficit, causes, overfilled>>

-----------------------------------------------------------------------------
(* A world w.                                                              *)

IsStack(i) == Kind[i] \in Stackables
Exists(w, i) == w.count[i] > 0
SlotOf(w, i) == {s \in SlotNumbers : w.slot[s] = i}
BoxOf(w, i) == {b \in Boxes : Contains(w.in[b], i)}
\* Item::getParent, Nothing for an item in no cylinder.
ParentOf(w, i) ==
    IF Contains(w.slot, i) THEN Body
    ELSE IF \E b \in Boxes : Contains(w.in[b], i)
    THEN CHOOSE b \in Boxes : Contains(w.in[b], i) ELSE Nothing
IndexOf(w, i) ==
    IF ParentOf(w, i) = Body THEN CHOOSE s \in SlotOf(w, i) : TRUE
    ELSE SelectInSeq(w.in[ParentOf(w, i)], LAMBDA k : k = i) - 1

\* The cylinders around c, c first.
Chain(w, c) ==
    LET up[n \in 0 .. Cardinality(Bags)] ==
            LET below == up[n - 1]
            IN  IF n = 0 THEN {c} ELSE below \cup {ParentOf(w, b) : b \in below \cap Bags}
    IN  up[Cardinality(Bags)]

Around(w, i) == Chain(w, ParentOf(w, i))

\* Item::equals
Alike(i, k) == IsStack(i) /\ Kind[i] = Kind[k]
HasRoomFor(w, k, i) == k # i /\ Alike(k, i) /\ w.count[k] < StackSize
Spare(w, k) == StackSize - w.count[k]
Lower(x, y) == IF x < y THEN x ELSE y

\* The weight of an item, a piece of anything weighs 1; of a bag with contents.
Weight(w, i) == w.count[i] + (IF i \in Bags THEN w.weight[i] ELSE 0)

UpdateItemWeight_parentOnly(w, c, diff) ==
    [w EXCEPT !.weight = [b \in Bags |-> w.weight[b] + (IF b = c THEN diff ELSE 0)]]
\* Container::updateItemWeight: c and the containers around it.
UpdateItemWeight(w, c, diff) ==
    [w EXCEPT !.weight = [b \in Bags |-> w.weight[b] + (IF b \in Chain(w, c) THEN diff ELSE 0)]]

\* Op of a value that is worked out once.
Given(x, Op(_)) == CHOOSE y \in {Op(z) : z \in {x}} : TRUE

-----------------------------------------------------------------------------
(* The changes: addThing, updateThing, removeThing of the three cylinders. *)

AddThing(w, c, index, i) ==
    IF c = Body
    THEN IF index \in SlotNumbers THEN [w EXCEPT !.slot[index] = i] ELSE w
    ELSE IF c \in Bags /\ index >= Capacity[c] THEN w
    ELSE LET added == [w EXCEPT !.in[c] = <<i>> \o @]
         IN  UpdateItemWeight(added, c, Weight(w, i))

\* setItemCount, wherever the item is.
SetCount(w, i, n) ==
    UpdateItemWeight([w EXCEPT !.count[i] = n], ParentOf(w, i), n - w.count[i])

RemoveThing(w, i, n) ==
    IF IsStack(i) /\ n # w.count[i] THEN SetCount(w, i, w.count[i] - n)
    ELSE LET c == ParentOf(w, i)
         IN  IF c = Body THEN [w EXCEPT !.slot[IndexOf(w, i)] = Nothing]
             ELSE [UpdateItemWeight(w, c, - Weight(w, i)) EXCEPT !.in[c] = Remove(@, i)]

\* ReleaseItem
Freed(w, i) == [w EXCEPT !.count[i] = 0]
Unused(w, i) == {k \in Things : Kind[k] = Kind[i] /\ ~Exists(w, k)}
\* clone() and setItemCount(): the copy, and the world with it.
CopyOf(w, i) == CHOOSE k \in Unused(w, i) : TRUE
Cloned_whole(w, i, n) == [w EXCEPT !.count[CopyOf(w, i)] = w.count[i]]
Cloned(w, i, n) == [w EXCEPT !.count[CopyOf(w, i)] = n]

-----------------------------------------------------------------------------
(* queryAdd                                                                *)

\* Both hands, or one of two weapons: item i, n pieces of it, to a hand.
HandsFree(w, hand, i, n) ==
    LET other == w.slot[IF hand = LeftHand THEN RightHand ELSE LeftHand]
    IN  IF Kind[i] \in TwoHanded THEN other \in {Nothing, i}
        ELSE \/ other = Nothing
             \/ /\ Kind[other] \notin TwoHanded
                /\ \/ other = i /\ n = w.count[i]
                   \/ Kind[i] \notin Weapons \/ Kind[other] \notin Weapons

Dresses(w, s, i, n) ==
    \/ s = Ammo
    \/ s \in DressedAt[Kind[i]] /\ (s \in {LeftHand, RightHand} => HandsFree(w, s, i, n))

AddToBody(w, s, i, n) ==
    IF s \notin SlotNumbers THEN "no room"
    ELSE IF ~Dresses(w, s, i, n) THEN "not possible"
    ELSE IF w.slot[s] # Nothing /\ ~(IsStack(w.slot[s]) /\ Kind[w.slot[s]] = Kind[i])
    THEN "exchange" ELSE "ok"

AddToBag(w, b, index, i) ==
    IF i \in Chain(w, b) THEN "not possible"
    ELSE IF index = Where /\ Len(w.in[b]) >= Capacity[b] THEN "no room" ELSE "ok"

QueryAdd(w, c, index, i, n) ==
    CASE c = Body   -> AddToBody(w, index, i, n)
      [] c = Ground -> "ok"
      [] OTHER      -> AddToBag(w, c, index, i)

-----------------------------------------------------------------------------
(* queryMaxCount                                                           *)

FreeSlots(w, b) == Max({Capacity[b] - Len(w.in[b]), 0})

\* How many pieces of i fit, as the code counts them.
MaxInBag(w, b, index, i) ==
    LET looked == IF index = Where THEN ToSet(w.in[b])
                  ELSE IF index < Len(w.in[b]) THEN {w.in[b][index + 1]} ELSE {}
        topped == {k \in looked : HasRoomFor(w, k, i) /\ AddToBag(w, b, 0, i) = "ok"}
    IN  IF IsStack(i)
        THEN FreeSlots(w, b) * StackSize + MapThenSumSet(LAMBDA k : Spare(w, k), topped)
        ELSE FreeSlots(w, b)

\* The bags in the inventory, and in those, at any depth.
Carried(w) == {b \in Bags : Body \in Chain(w, b)}

MaxInSlot(w, s, i) ==
    LET k == w.slot[s]
    IN  CASE k = Nothing -> IF AddToBody(w, s, i, w.count[i]) # "ok" THEN 0
                            ELSE IF IsStack(i) THEN StackSize ELSE 1
          [] k \in Bags -> 0
          [] OTHER -> IF HasRoomFor(w, k, i) /\ AddToBody(w, s, i, Spare(w, k)) = "ok"
                      THEN Spare(w, k) ELSE 0

MaxOnBody(w, index, i, n) ==
    IF index = Where
    THEN MapThenSumSet(LAMBDA b : MaxInBag(w, b, Where, i), Carried(w))
         + MapThenSumSet(LAMBDA s : MaxInSlot(w, s, i), SlotNumbers)
    ELSE IF index \notin SlotNumbers THEN 0
    ELSE IF w.slot[index] # Nothing
         THEN IF HasRoomFor(w, w.slot[index], i) THEN Spare(w, w.slot[index]) ELSE 0
    ELSE IF AddToBody(w, index, i, n) # "ok" THEN 0
    ELSE IF IsStack(i) THEN StackSize ELSE 1

QueryMaxCount(w, c, index, i, n) ==
    CASE c = Body   -> MaxOnBody(w, index, i, n)
      [] c = Ground -> n
      [] OTHER      -> MaxInBag(w, c, index, i)

-----------------------------------------------------------------------------
(* queryDestination: the cylinder, the index in it, and the item there.    *)

Dest(c, index, k) == [to |-> c, index |-> index, item |-> k]
MoveUp == 254

InBag(w, b, index, i, k) ==
    LET near == IF index = MoveUp \/ index >= Capacity[b] THEN Where ELSE index
        kept == IF near = Where THEN Nothing ELSE k
        stacks == {j \in 1 .. Len(w.in[b]) : HasRoomFor(w, w.in[b][j], i)}
        here == IF near # Where /\ near < Len(w.in[b]) THEN w.in[b][near + 1] ELSE kept
    IN  IF index = MoveUp
        THEN Dest(IF ParentOf(w, b) \in Bags THEN ParentOf(w, b) ELSE b, Where, Nothing)
        ELSE IF IsStack(i) /\ ParentOf(w, i) # b /\ kept # Nothing /\ HasRoomFor(w, kept, i)
        THEN Dest(b, near, kept)
        ELSE IF IsStack(i) /\ ParentOf(w, i) # b /\ stacks # {}
        THEN Dest(b, Min(stacks) - 1, w.in[b][Min(stacks)])
        ELSE IF here \in Bags THEN Dest(here, Where, Nothing)
        ELSE Dest(b, near, here)

\* Anywhere on the player: the first slot that takes it or tops a stack, then
\* the first bag that does; other stacks than the one on offer.
SlotTakes(w, offer, s, i) ==
    /\ AddToBody(w, s, i, w.count[i]) = "ok"
    /\ \/ w.slot[s] = Nothing
       \/ w.slot[s] # offer /\ HasRoomFor(w, w.slot[s], i)

\* The places of a bag that are not skipped: n counts those.
NotSkipped(w, offer, b, i) == SelectSeq(w.in[b], LAMBDA k : k \notin {offer, i})

BagTakes(w, offer, b, i) ==
    /\ AddToBag(w, b, 0, i) = "ok"
    /\ IF ~IsStack(i) THEN Len(w.in[b]) # Capacity[b]
       ELSE LET seen == NotSkipped(w, offer, b, i)
            IN  \/ Len(seen) < Capacity[b]
                \/ \E k \in ToSet(seen) : HasRoomFor(w, k, i)

DestInBag(w, offer, b, i) ==
    LET seen == NotSkipped(w, offer, b, i)
        stacks == {j \in 1 .. Len(seen) : HasRoomFor(w, seen[j], i)}
    IN  IF ~IsStack(i) THEN Dest(b, Len(w.in[b]), Nothing)
        ELSE IF stacks # {} THEN Dest(b, Min(stacks) - 1, seen[Min(stacks)])
        ELSE Dest(b, Len(seen), Nothing)

\* The bags in the order they are searched: those in the inventory, and for
\* items that do not stack the bags in them.
Searched(w, offer, i) ==
    LET BagsIn(b) == SelectSeq(w.in[b], LAMBDA k : k \in Bags)
        first == SelectSeq(w.slot, LAMBDA k : k \in Bags /\ k \notin {offer, i})
        level[n \in 0 .. Cardinality(Bags)] ==
            LET above == level[n - 1]
            IN  IF n = 0 THEN first
                ELSE FlattenSeq([j \in 1 .. Len(above) |-> BagsIn(above[j])])
    IN  IF IsStack(i) THEN first
        ELSE FlattenSeq([n \in 1 .. Cardinality(Bags) + 1 |-> level[n - 1]])

OnBody(w, offer, index, i, k) ==
    LET slots == {s \in SlotNumbers : SlotTakes(w, offer, s, i)}
        bags == SelectSeq(Searched(w, offer, i), LAMBDA b : BagTakes(w, offer, b, i))
        here == w.slot[index]
    IN  IF index \notin SlotNumbers
        THEN IF slots # {} THEN Dest(Body, Min(slots), w.slot[Min(slots)])
             ELSE IF bags # <<>> THEN DestInBag(w, offer, Head(bags), i)
             ELSE Dest(Body, index, Nothing)
        ELSE IF here \in Bags THEN Dest(here, Where, Nothing)
        ELSE Dest(Body, index, IF here = Nothing THEN k ELSE here)

QueryDestination(w, offer, c, index, i, k) ==
    CASE c = Body   -> OnBody(w, offer, index, i, k)
      [] c = Ground -> Dest(c, index, IF w.in[c] = <<>> THEN k ELSE Head(w.in[c]))
      [] OTHER      -> InBag(w, c, index, i, k)

\* The loop of internalMoveItem, until a cylinder names itself.
RECURSIVE Reached(_, _, _, _, _, _)
Reached(w, offer, c, index, i, k) ==
    Given(QueryDestination(w, offer, c, index, i, k), LAMBDA d :
        IF d.to = c THEN d ELSE Reached(w, offer, d.to, d.index, i, d.item))

-----------------------------------------------------------------------------
(* internalMoveItem                                                        *)

\* What a handler comes to: the world, the answer, remainderCount, and what
\* was lost on the way (a history).
Added(w, ok, left, why) == [w |-> w, ok |-> ok, left |-> left, why |-> why]

\* Two items change places: k leaves d and goes to where i is.
Exchanged(w, d, i, k) ==
    LET from == ParentOf(w, i)
        out == RemoveThing(w, k, w.count[k])
    IN  IF from = Body THEN out ELSE AddThing(out, from, 0, k)

MayExchange(w, d, i, k) ==
    LET from == ParentOf(w, i)
    IN  /\ QueryAdd(w, from, IndexOf(w, i), k, w.count[k]) = "ok"
        /\ QueryMaxCount(w, from, Where, k, w.count[k]) > 0

\* m pieces of i go to d: some top the stack that is there, the rest is a
\* clone, and an original of which nothing is left is released.
Topping(w, d, i, m) ==
    IF d.item # Nothing /\ Alike(d.item, i) THEN Lower(Spare(w, d.item), m) ELSE 0

MovedStack(w, d, i, m) ==
    Given(RemoveThing(w, i, m), LAMBDA out :
    Given(Topping(out, d, i, m), LAMBDA n :
    Given(IF n > 0 THEN SetCount(out, d.item, out.count[d.item] + n) ELSE out, LAMBDA topped :
    Given(IF m > n THEN Cloned(topped, i, m - n) ELSE topped, LAMBDA copied :
    Given(IF ParentOf(out, i) = Nothing THEN Freed(copied, i) ELSE copied, LAMBDA left :
        IF m > n THEN AddThing(left, d.to, d.index, CopyOf(topped, i)) ELSE left)))))

MovedTo(w, d, i, n) ==
    Given(QueryMaxCount(w, d.to, d.index, i, n), LAMBDA max :
        IF QueryAdd(w, d.to, d.index, i, n) # "ok" \/ max = 0 THEN w
        ELSE IF IsStack(i) THEN MovedStack(w, d, i, Lower(n, max))
        ELSE AddThing(RemoveThing(w, i, 1), d.to, d.index, i))

\* A bag may be full and take k all the same, by its stacks that have room,
\* though k will be a stack of its own; and a part of i may stay in it.
Fills(w, b) == b \in Bags /\ Len(w.in[b]) >= Capacity[b]

MovedBetween(w, d, i, n) ==
    IF d.item = i THEN Added(w, TRUE, 0, {})
    ELSE IF QueryAdd(w, d.to, d.index, i, n) # "exchange"
    THEN Added(MovedTo(w, d, i, n), TRUE, 0, {})
    ELSE IF MayExchange(w, d, i, d.item)
    THEN Given(Exchanged(w, d, i, d.item), LAMBDA out :
             Added(MovedTo(out, Dest(d.to, d.index, Nothing), i, n), TRUE, 0,
                   IF Fills(w, ParentOf(w, i)) THEN {"overfilled"} ELSE {}))
    ELSE Added(w, FALSE, 0, {})

Moved(w, offer, c, index, i, n) ==
    Given(Reached(w, offer, c, index, i, Nothing), LAMBDA d : MovedBetween(w, d, i, n))

-----------------------------------------------------------------------------
(* internalAddItem: i is in no cylinder yet.                          *)

Placed(w, offer, d, i) ==
    Added(AddThing(w, d.to, d.index, i), TRUE, 0,
          IF d.to \notin Bags THEN {}
          ELSE IF d.index >= Capacity[d.to] THEN {"beyond"}
          ELSE IF Fills(w, d.to) /\ Contains(w.in[d.to], offer)
          THEN {"overfilled"} ELSE {})

\* "Check if we can move add the whole amount, ... against the original
\* cylinder."
WholeFits(w, c, d, i) == QueryMaxCount(w, c, Where, i, w.count[i]) >= w.count[i]

RECURSIVE InternalAddItem(_, _, _, _, _)
InternalAddItem(w, offer, c, index, i) ==
    Given(QueryDestination(w, offer, c, index, i, Nothing), LAMBDA d :
    Given(Topping(w, d, i, w.count[i]), LAMBDA n :
        LET rest == w.count[i] - n IN
        IF QueryAdd(w, d.to, d.index, i, w.count[i]) # "ok" \/ ~WholeFits(w, c, d, i)
        THEN Added(w, FALSE, 0, {})
        ELSE IF n = 0 THEN Placed(w, offer, d, i)
        ELSE Given(SetCount(w, d.item, w.count[d.item] + n), LAMBDA topped :
             IF rest = 0 THEN Added(Freed(topped, i), TRUE, 0, {})
             ELSE Given(CopyOf(topped, i), LAMBDA k :
                  Given(InternalAddItem(Freed(Cloned(topped, i, rest), i), offer, c, Where, k),
                        LAMBDA r :
                  IF r.ok \* what the inner call could not place is forgotten
                  THEN Added(r.w, TRUE, 0,
                             r.why \cup (IF r.left > 0 THEN {"remainder"} ELSE {}))
                  ELSE Added(Freed(r.w, k), TRUE, rest, {}))))))

\* A new item of a kind, and n of it to the cylinder c.
NewOf(w, kind) == CHOOSE k \in Things : Kind[k] = kind /\ ~Exists(w, k)
Created(w, kind, n) == [w EXCEPT !.count[NewOf(w, kind)] = n]
Dropped(w, i) == InternalAddItem(w, Nothing, Ground, Where, i).w

\* internalPlayerAddItem: the remainder, or everything, falls to the ground.
PlayerAddItem(w, offer, kind, n, drop) ==
    Given(NewOf(w, kind), LAMBDA i :
    Given(InternalAddItem(Created(w, kind, n), offer, Body, Where, i), LAMBDA r :
        IF r.left > 0
        THEN Added(Dropped(Created(r.w, kind, r.left), NewOf(r.w, kind)), TRUE, 0, r.why)
        ELSE IF r.ok THEN r
        ELSE IF drop THEN Added(Dropped(r.w, i), TRUE, 0, {})
        ELSE Added(Freed(r.w, i), FALSE, 0, {})))

-----------------------------------------------------------------------------
(* Money                                                                   *)

\* A coin of addMoney: as a stack of its own, whose remainder is not dropped.
CoinsAdded(r, offer, kind, n) ==
    IF n = 0 THEN r
    ELSE Given(NewOf(r.w, kind), LAMBDA i :
         Given(InternalAddItem(Created(r.w, kind, n), offer, Body, Where, i), LAMBDA q :
             Added(IF q.ok THEN q.w ELSE Dropped(q.w, i), TRUE, 0,
                   r.why \cup q.why \cup (IF q.left > 0 THEN {"remainder"} ELSE {}))))

AddMoney(w, offer, money) ==
    Given(CoinsAdded(Added(w, TRUE, 0, {}), offer, Platinum, money \div Worth[Platinum]),
          LAMBDA r : CoinsAdded(r, offer, Gold, money % Worth[Platinum]))

\* Item::getWorth of the stack, the stacks of the player in the order they are
\* found: the inventory, then the bags breadth first.
StackWorth(w, i) == IF i \in Things THEN Worth[Kind[i]] * w.count[i] ELSE 0
Purse(w) ==
    LET level[n \in 0 .. Cardinality(Bags)] ==
            LET above == level[n - 1]
            IN  IF n = 0 THEN w.slot
                ELSE FlattenSeq([j \in 1 .. Len(above) |->
                         IF above[j] \in Bags THEN w.in[above[j]] ELSE <<>>])
        all == FlattenSeq([n \in 1 .. Cardinality(Bags) + 1 |-> level[n - 1]])
    IN  SelectSeq(all, LAMBDA i : i # Nothing /\ Kind[i] \in {Platinum, Gold})

RemovedItem(w, i, n) ==
    LET out == RemoveThing(w, i, n) IN IF n = w.count[i] THEN Freed(out, i) ELSE out

\* What comes back from a stack broken for an amount.
Change(owed, piece) == (piece - (owed % piece)) % piece

\* removeMoney, over the multimap: the smallest stack first, the one found
\* first among equals.
RECURSIVE Paid(_, _, _, _)
Paid(r, offer, purse, money) ==
    Given(Min({StackWorth(r.w, purse[j]) : j \in DOMAIN purse}), LAMBDA least :
    Given(purse[SelectInSeq(purse, LAMBDA k : StackWorth(r.w, k) = least)], LAMBDA i :
        IF least > money
        THEN LET piece == Worth[Kind[i]]
             IN  Given(AddMoney(r.w, offer, Change(money, piece)), LAMBDA q :
                     Added(RemovedItem(q.w, i, (money + piece - 1) \div piece), TRUE, 0,
                           r.why \cup q.why))
        ELSE Given([r EXCEPT !.w = RemovedItem(r.w, i, r.w.count[i])], LAMBDA out :
             IF least = money THEN out
             ELSE Paid(out, offer, Remove(purse, i), money - least))))

-----------------------------------------------------------------------------
(* Handlers                                                                *)

InPlace(w) == ToSet(w.slot) \cup UNION {ToSet(w.in[b]) : b \in Boxes}
Value(w) == MapThenSumSet(LAMBDA i : StackWorth(w, i), InPlace(w))

\* What a handler made of the world; promised is the value it should have now.
\* A change of the item on offer, or of a bag around it, ends the trade.
Becomes(w, promised, why) ==
    /\ world' = w
    /\ onOffer' = IF onOffer # Nothing /\ w.count[onOffer] = world.count[onOffer]
                     /\ Around(w, onOffer) = Around(world, onOffer)
                  THEN onOffer ELSE Nothing
    /\ deficit' = deficit + promised - Value(w)
    /\ causes' = causes \cup (why \ {"overfilled"})
    /\ overfilled' = (overfilled \/ "overfilled" \in why)

\* Nothing lost yet, what follows a loss tells nothing new; and objects at hand
\* for the stacks and clones a handler makes.
Ready(kinds, n) ==
    /\ deficit = 0
    /\ \A g \in kinds : Cardinality({k \in Things : Kind[k] = g /\ ~Exists(world, k)}) >= n

\* playerMoveItem
MoveItem(i, c, index, n) ==
    /\ Exists(world, i) /\ n <= world.count[i]
    /\ Ready({Kind[i]} \cap Stackables, 1)
    /\ \E r \in {Moved(world, onOffer, c, index, i, n)} :
           Becomes(r.w, Value(world), r.why)

\* What scripts and npcs give: a stack of a kind.
GiveItem(kind, n, drop) ==
    /\ kind \in Stackables \/ n = 1
    /\ Ready({kind}, IF kind \in Stackables THEN 2 ELSE 1)
    /\ \E r \in {PlayerAddItem(world, onOffer, kind, n, drop)} :
           Becomes(r.w, Value(world) + (IF r.ok THEN Worth[kind] * n ELSE 0), r.why)

\* container:addItem of a script
GiveToBag(b, kind, n) ==
    /\ kind \in Stackables /\ Ready({kind}, 2) /\ ParentOf(world, b) # Nothing
    /\ \E r \in {InternalAddItem(Created(world, kind, n), Nothing, b, Where,
                                  NewOf(world, kind))} :
          /\ r.ok
          /\ Becomes(r.w, Value(world) + Worth[kind] * n,
                     r.why \cup (IF r.left > 0 THEN {"remainder"} ELSE {}))

\* internalRemoveItem
RemoveItem(i, n) ==
    /\ Ready({}, 0) /\ i \notin Bags
    /\ Exists(world, i) /\ n <= world.count[i]
    /\ Becomes(RemovedItem(world, i, n), Value(world) - Worth[Kind[i]] * n, {})

GiveMoney(money) ==
    /\ Ready({Platinum}, 1) /\ Ready({Gold}, 2)
    /\ \E r \in {AddMoney(world, onOffer, money)} :
           Becomes(r.w, Value(world) + money, r.why)

RemoveMoney(money) ==
    /\ Ready({Platinum}, 1) /\ Ready({Gold}, 2)
    /\ \E purse \in {Purse(world)} :
          /\ MapThenSumSet(LAMBDA i : StackWorth(world, i), ToSet(purse)) >= money
          /\ \E r \in {Paid(Added(world, TRUE, 0, {}), onOffer, purse, money)} :
                Becomes(r.w, Value(world) - money, r.why)

\* The player puts an item up for trade, or takes it back.
OfferItem(i) ==
    /\ onOffer = Nothing /\ i \notin Bags
    /\ ParentOf(world, i) # Nothing /\ Body \in Around(world, i)
    /\ onOffer' = i
    /\ UNCHANGED <<world, deficit, causes, overfilled>>
WithdrawOffer ==
    /\ onOffer # Nothing /\ onOffer' = Nothing
    /\ UNCHANGED <<world, deficit, causes, overfilled>>

CylindersInit(w) ==
    /\ world = w /\ onOffer = Nothing
    /\ deficit = 0 /\ causes = {} /\ overfilled = FALSE

ItemsMove ==
    \E i \in Things, n \in 1 .. StackSize :
       \/ RemoveItem(i, n)
       \/ \E b \in Bags, index \in {1, Where, MoveUp} : MoveItem(i, b, index, n)
       \/ \E s \in SlotNumbers \cup {0} : MoveItem(i, Body, s, n)
       \/ MoveItem(i, Ground, 0, n)

\* One platinum coin at a time, so that its stack is never split.
MoneyBound == 2 * Worth[Platinum] - 1

ItemsCome ==
    \/ \E kind \in Gifts, n \in 1 .. StackSize :
          \/ \E drop \in BOOLEAN : GiveItem(kind, n, drop)
          \/ \E b \in Bags : GiveToBag(b, kind, n)
    \/ \E money \in 1 .. MoneyBound : GiveMoney(money) \/ RemoveMoney(money)

Offers == (\E i \in Things : OfferItem(i)) \/ WithdrawOffer

CylindersNext == ItemsMove \/ ItemsCome \/ Offers

-----------------------------------------------------------------------------
(* Properties                                                              *)

\* An item that exists is in one place, at most once; stacks are full at most;
\* no bag holds itself.
PlacedOnce(w) ==
    \A i \in Things :
        /\ Cardinality(SlotOf(w, i)) + Cardinality(BoxOf(w, i)) = (IF Exists(w, i) THEN 1 ELSE 0)
        /\ \A b \in Boxes : Cardinality({j \in DOMAIN w.in[b] : w.in[b][j] = i}) <= 1
        /\ w.count[i] <= (IF IsStack(i) THEN StackSize ELSE 1)
        /\ Exists(w, i) => Around(w, i) \cap {Body, Ground} # {}

\* The weight a bag remembers is that of what is in it.
WeightsExact(w) ==
    \A b \in Bags : w.weight[b] = MapThenSumSet(LAMBDA i : Weight(w, i), ToSet(w.in[b]))

WithinCapacity(w) == \A b \in Bags : Len(w.in[b]) <= Capacity[b]

\* Never a two-handed weapon and something in the other hand, nor two weapons.
HandsAgree(w) ==
    LET l == w.slot[LeftHand]
        r == w.slot[RightHand]
    IN  l # Nothing /\ r # Nothing =>
          {Kind[l], Kind[r]} \cap TwoHanded = {} /\ (Kind[l] \notin Weapons \/ Kind[r] \notin Weapons)

\* Whatever is moved, exchanged, dressed, given or paid, in one step of the code
\* or in several of which the second may be refused: an item is in one place,
\* bags weigh what is in them, hands agree, and no bag holds more than it can,
\* unless by the two ways the code overfills one.  Up to the first loss.
CylindersSound ==
    deficit = 0 =>
        /\ PlacedOnce(world) /\ WeightsExact(world) /\ HandsAgree(world)
        /\ overfilled \/ WithinCapacity(world)

\* No coin and no item is ever doubled, and what is lost is lost by the rest of a
\* stack that found no room and was forgotten (game.cpp:1246) or by an index past
\* the end of an overfilled bag (player.cpp:2442, container.cpp:454).
AmountsKept == deficit # 0 => causes # {} /\ deficit > 0
=============================================================================
