-------------------------------- MODULE Decay --------------------------------
(***************************************************************************)
(* Items that decay (Game::startDecay, checkDecay, cleanup and             *)
(* transformItem in src/server/src/game.cpp, Item::setID in item.cpp).     *)
(*                                                                         *)
(* checkDecay() runs every Interval and visits one of Buckets lists, so    *)
(* each list is visited once a Second; an item with less than a Second     *)
(* left is moved to the list visited when its time is over.  New items     *)
(* wait in toDecayItems for the next cleanup(), because scripts run while  *)
(* a list is gone through.                                                 *)
(*                                                                         *)
(* Time is counted in eighths of a second: Interval is 2 and Second is 8.  *)
(***************************************************************************)
EXTENDS Integers, Sequences, FiniteSets, SequencesExt

CONSTANTS Items,        \* Item objects
          Kinds,        \* item types
          decayTime,    \* their TotalExpireTime in eighths, 0 for none
          decayTo,      \* what they become: a kind, Gone, or Stays
          stopTime,     \* the kinds that only stop the clock (ExpireStop)
          Scripted,     \* the changes of kind that scripts and equipment make
          Remaining,    \* durations an item may be loaded with
          Gone, Stays

Interval == 2                           \* EVENT_DECAYINTERVAL
Buckets == 4                            \* EVENT_DECAY_BUCKETS
Second == Interval * Buckets

ASSUME DecayAssumption ==
    /\ decayTime \in [Kinds -> Nat] /\ decayTo \in [Kinds -> Kinds \cup {Gone, Stays}]
    /\ Scripted \subseteq Kinds \X Kinds
    /\ stopTime \subseteq Kinds /\ Remaining \subseteq Nat \ {0}
    /\ {Gone, Stays} \cap Kinds = {} /\ Gone # Stays

\* As in data/items/items.srv: what decays into a kind that counts no time of
\* its own is done with, for setID() would leave it marked as decaying.
ASSUME DecayedKindsAssumption ==
    \A k \in Kinds : decayTime[k] > 0 /\ decayTo[k] \in Kinds =>
        LET next == decayTo[k]
        IN  \/ decayTime[next] = 0 /\ next \notin stopTime /\ decayTo[next] = Stays
            \/ decayTime[next] > 0 /\ k \notin stopTime

VARIABLES
    item,           \* the objects
    decayItems,     \* Buckets lists of items
    toDecayItems,   \* items that wait for the next cleanup()
    toReleaseItems, \* references cleanup() gives up
    lastBucket,     \* the list visited last, 1..Buckets
    visit           \* the position in the list being visited, 0 between passes

decayVars == <<item, decayItems, toDecayItems, toReleaseItems, lastBucket, visit>>

NoTime == -1        \* no ITEM_ATTRIBUTE_DURATION

\* age, total and entries are not in the code: Intervals since the item was
\* enlisted, its duration then, and whether it was enlisted once only.
Unused ==
    [state |-> "none", kind |-> CHOOSE k \in Kinds : TRUE, duration |-> NoTime,
     decaying |-> FALSE, refs |-> 0, age |-> 0, total |-> 0, once |-> TRUE]

ItemState == [of |-> item, new |-> toDecayItems, release |-> toReleaseItems]

-----------------------------------------------------------------------------
(***************************************************************************)
(* Operations on one item, called one after the other within a task.       *)
(***************************************************************************)
Duration(own) == IF own.duration = NoTime THEN 0 ELSE own.duration
CanDecay(own) ==
    own.state = "world" /\ decayTo[own.kind] # Stays /\ decayTime[own.kind] > 0

\* Item::setID()
SetID_keep(own, k) ==
    IF decayTime[k] = 0 /\ k \notin stopTime /\ decayTo[k] = Stays
    THEN [own EXCEPT !.kind = k, !.decaying = FALSE, !.duration = NoTime]
    ELSE IF decayTime[k] > 0 /\ (own.kind \notin stopTime \/ own.duration = NoTime)
    THEN [own EXCEPT !.kind = k, !.duration = decayTime[k]]
    ELSE [own EXCEPT !.kind = k]

SetID(own, k) ==
    IF decayTime[k] = 0 /\ k \notin stopTime /\ decayTo[k] = Stays
    THEN [own EXCEPT !.kind = k, !.decaying = FALSE, !.duration = NoTime]
    ELSE IF decayTime[k] > 0 /\ (own.kind \notin stopTime \/ own.duration = NoTime)
    THEN [own EXCEPT !.kind = k, !.decaying = FALSE, !.duration = decayTime[k]]
    ELSE [own EXCEPT !.kind = k]

\* The item leaves its parent and ReleaseItem() takes over the reference.
TakenOut(S, i) ==
    [S EXCEPT !.of[i].state = "out", !.release = Append(@, i)]

Created(k) ==
    [Unused EXCEPT !.state = "world", !.kind = k, !.refs = 1,
                   !.duration = IF decayTime[k] > 0 THEN decayTime[k] ELSE NoTime]

\* The lists i is on, as often as it is on them.
Times(list, i) == Cardinality({n \in DOMAIN list : list[n] = i})
Entries(i) ==
    Times(decayItems[1], i) + Times(decayItems[2], i)
    + Times(decayItems[3], i) + Times(decayItems[4], i)
Waiting(S, i) == Times(S.new, i)

Enlisted(S, i, entries) ==
    [S EXCEPT !.new = <<i>> \o @,
              !.of[i] = [S.of[i] EXCEPT
                            !.refs = @ + 1, !.decaying = TRUE,
                            !.age = 0, !.once = entries = 0,
                            !.total = IF entries = 0 THEN Duration(S.of[i]) ELSE 0]]

(***************************************************************************)
(* transformItem(): to a kind of the same type the object changes its id,  *)
(* otherwise fresh takes its place.                                        *)
(***************************************************************************)
Transformed(S, i, k, fresh) ==
    IF fresh = i THEN [S EXCEPT !.of[i] = SetID(@, k)]
    ELSE [TakenOut(S, i) EXCEPT !.of[fresh] = Created(k)]

(***************************************************************************)
(* startDecay() with internalDecayItem(), which calls it again for what    *)
(* the item has become; kinds with no time left from the start follow on   *)
(* at once.  entries[i] counts the lists i is on.                          *)
(***************************************************************************)
StartDecay(S, i, entries) ==
    IF CanDecay(S.of[i]) /\ ~S.of[i].decaying /\ Duration(S.of[i]) > 0
    THEN Enlisted(S, i, entries + Waiting(S, i)) ELSE S

InternalDecayItem(S, i, fresh, entries) ==
    LET k == decayTo[S.of[i].kind]
    IN  IF S.of[i].state # "world" THEN S
        ELSE IF k = Gone THEN TakenOut(S, i)
        ELSE StartDecay(Transformed(S, i, k, fresh), fresh, IF fresh = i THEN entries ELSE 0)

\* The objects an item may turn into.
Objects(i) == {i} \cup {j \in Items : item[j].state = "none"}

-----------------------------------------------------------------------------
(***************************************************************************)
(* Tasks of the dispatcher, between two passes.                            *)
(***************************************************************************)
ItemsBecome(S) == item' = S.of /\ toDecayItems' = S.new /\ toReleaseItems' = S.release
ItemTask(S) == visit = 0 /\ ItemsBecome(S) /\ UNCHANGED <<decayItems, lastBucket, visit>>

DecayInit ==
    /\ item = [i \in Items |-> Unused]
    /\ decayItems = [b \in 1..Buckets |-> <<>>]
    /\ toDecayItems = <<>> /\ toReleaseItems = <<>>
    /\ lastBucket = 1 /\ visit = 0

\* An item is created, or loaded with the duration it had left.
AddItem(i) ==
    /\ item[i].state = "none"
    /\ \E k \in Kinds, d \in Remaining \cup {NoTime} :
          LET own == Created(k)
              S == [ItemState EXCEPT !.of[i] =
                       IF own.duration # NoTime /\ d # NoTime
                       THEN [own EXCEPT !.duration = d] ELSE own]
          IN  ItemTask(StartDecay(S, i, 0))

\* A script or a change of equipment transforms the item and starts what it
\* has become.
TransformItem(i) ==
    /\ item[i].state = "world"
    /\ \E k \in Kinds, j \in Objects(i) :
          /\ <<item[i].kind, k>> \in Scripted
          /\ ItemTask(StartDecay(Transformed(ItemState, i, k, j), j, IF j = i THEN Entries(i) ELSE 0))

RemoveItem(i) ==
    /\ item[i].state = "world"
    /\ ItemTask(TakenOut(ItemState, i))

-----------------------------------------------------------------------------
(***************************************************************************)
(* cleanup(): at the end of checkDecay() and of checkCreatures().          *)
(***************************************************************************)
Freed(S, i) ==
    LET n == S.of[i].refs - Times(S.release, i)
    IN  IF Times(S.release, i) = 0 THEN S.of[i]
        ELSE IF n = 0 THEN [Unused EXCEPT !.state = "freed"]
        ELSE [S.of[i] EXCEPT !.refs = n]

Bucket(d, last) ==
    IF d >= Second THEN last ELSE ((last + d \div Second) % Buckets) + 1

\* The entries of the list at the places P, in their order.
EntriesAt(list, P) ==
    [k \in 1 .. Cardinality(P) |-> list[CHOOSE n \in P : Cardinality(P \cap (1 .. n)) = k]]

\* The places of the waiting items that go to list b.
Filed(S, b, last) == {n \in DOMAIN S.new : Bucket(Duration(S.of[S.new[n]]), last) = b}

CleanedUp(last, S) ==
    /\ item' = [i \in Items |-> Freed(S, i)]
    /\ toReleaseItems' = <<>>
    /\ decayItems' = [b \in 1..Buckets |-> decayItems[b] \o EntriesAt(S.new, Filed(S, b, last))]
    /\ toDecayItems' = <<>>

CheckCreaturesEnds ==
    /\ visit = 0
    /\ CleanedUp(lastBucket, ItemState)
    /\ UNCHANGED <<lastBucket, visit>>

(***************************************************************************)
(* checkDecay().  lastBucket changes at the end of a pass.                 *)
(***************************************************************************)
Next(b) == (b % Buckets) + 1
Visited == Next(lastBucket)
Visiting == visit > 0 /\ visit <= Len(decayItems[Visited])
VisitedItem == decayItems[Visited][visit]
Erased == [decayItems EXCEPT ![Visited] = RemoveAt(@, visit)]
ReleaseItem(S, i) == [S EXCEPT !.release = Append(@, i)]

CheckDecayBegins ==
    /\ visit = 0
    /\ visit' = 1
    /\ item' = [i \in Items |->
                 IF item[i].decaying /\ item[i].once THEN [item[i] EXCEPT !.age = @ + 1]
                     ELSE item[i]]
    /\ UNCHANGED <<decayItems, toDecayItems, toReleaseItems, lastBucket>>

CheckDropped ==
    /\ Visiting /\ ~CanDecay(item[VisitedItem])
    /\ ItemsBecome(ReleaseItem([ItemState EXCEPT !.of[VisitedItem].decaying = FALSE], VisitedItem))
    /\ decayItems' = Erased
    /\ UNCHANGED <<lastBucket, visit>>

\* What is left of the duration after this visit.
Decrease_max(i) == Duration(item[i])
Decrease(i) == IF Duration(item[i]) < Second THEN Duration(item[i]) ELSE Second
Left(i) == Duration(item[i]) - Decrease(i)
Spent == [ItemState EXCEPT !.of[VisitedItem].duration = Left(VisitedItem)]
LaterBucket(d) == ((Visited - 1 + (d + Interval \div 2) \div Second) % Buckets) + 1

Runs(i) == Left(i) = 0 \/ (Left(i) < Second /\ LaterBucket(Left(i)) = Visited)

CheckRuns ==
    /\ Visiting /\ CanDecay(item[VisitedItem]) /\ Runs(VisitedItem)
    /\ \E j \in Objects(VisitedItem) :
          ItemsBecome(ReleaseItem(InternalDecayItem(Spent, VisitedItem, j, Entries(VisitedItem) - 1), VisitedItem))
    /\ decayItems' = Erased
    /\ UNCHANGED <<lastBucket, visit>>

CheckMoved ==
    /\ Visiting /\ CanDecay(item[VisitedItem]) /\ ~Runs(VisitedItem) /\ Left(VisitedItem) < Second
    /\ ItemsBecome(Spent)
    /\ decayItems' = [Erased EXCEPT ![LaterBucket(Left(VisitedItem))] = Append(@, VisitedItem)]
    /\ UNCHANGED <<lastBucket, visit>>

CheckKept ==
    /\ Visiting /\ CanDecay(item[VisitedItem]) /\ ~Runs(VisitedItem) /\ Left(VisitedItem) >= Second
    /\ ItemsBecome(Spent)
    /\ visit' = visit + 1
    /\ UNCHANGED <<decayItems, lastBucket>>

CheckDecayEnds ==
    /\ visit > 0 /\ ~Visiting
    /\ lastBucket' = Visited
    /\ CleanedUp(Visited, ItemState)
    /\ visit' = 0

DecayNext ==
    \/ \E i \in Items : AddItem(i) \/ TransformItem(i) \/ RemoveItem(i)
    \/ CheckCreaturesEnds
    \/ CheckDecayBegins \/ CheckDropped \/ CheckRuns \/ CheckMoved \/ CheckKept
    \/ CheckDecayEnds

DecaySpec == DecayInit /\ [][DecayNext]_decayVars

-----------------------------------------------------------------------------
(***************************************************************************)
(* Properties.                                                             *)
(***************************************************************************)

(***************************************************************************)
(* An item that is marked as decaying, and so refused by startDecay(), is  *)
(* on a list or waits for one: whatever it was transformed to, put on,     *)
(* taken off or decayed to, it is not forgotten.  Its references are those *)
(* of the world, of its entries and of the releases that wait, and it is   *)
(* freed with the last: no list holds a freed item.                        *)
(***************************************************************************)
ListedOrFree ==
    \A i \in Items :
        LET listed == Entries(i) + Waiting(ItemState, i)
        IN  /\ item[i].decaying /\ item[i].state = "world" => listed > 0
            /\ item[i].refs = (IF item[i].state = "world" THEN 1 ELSE 0) + listed
                              + Times(toReleaseItems, i)
            /\ item[i].state \in {"none", "freed"} <=> item[i].refs = 0

(***************************************************************************)
(* An item that was on no list when startDecay() took it decays neither a  *)
(* Second before its time nor more than an Interval after it, or two if it *)
(* had less than an Interval left.  One that a script transforms while it  *)
(* is still listed is enlisted twice, and its time runs twice as fast.     *)
(***************************************************************************)
DecaysOnTime ==
    [][CheckRuns /\ item[VisitedItem].once
       => LET own == item[VisitedItem]
          IN  /\ own.age * Interval > own.total - Second
              /\ own.age * Interval <= Max({own.total, Interval}) + Interval]_decayVars
=============================================================================
