------------------------------ MODULE TileView ------------------------------
(***************************************************************************)
(* What a client shows of the tiles around it (src/server/src: tile.cpp,   *)
(* map.cpp, game.cpp, player.h, protocolgame.cpp).                         *)
(*                                                                         *)
(* A client is told at most Limit things of a tile and finds them by their *)
(* place in the stack from then on.  It is sent every tile that comes into *)
(* sight, and afterwards the changes only, each with a place the server    *)
(* works out from its own stack: always-on-top items, then the creatures   *)
(* the player can see, the last to come first, then the other items.       *)
(*                                                                         *)
(* The map is a row of tiles of one floor.  The ground is an always-on-top *)
(* item of the lowest order.  Invisible monsters and ghosts are hidden.    *)
(* Clients are external: they insert, remove and replace where they are    *)
(* told, put who walks before the other creatures, and drop what exceeds   *)
(* Limit.  An item is moved by a removal and an addition.                  *)
(***************************************************************************)
EXTENDS Integers, Sequences, FiniteSets, SequencesExt

CONSTANTS Tiles,        \* numbers of the tiles of the row
          Sight,        \* how far a player sees
          Viewers,      \* players
          Sensing,      \* those who see invisible monsters and ghosts
          Exact,        \* those with OTClientV8, told their own tile like others
          Beasts,       \* monsters
          TopItems, DownItems,
          order,        \* alwaysOnTopOrder of the TopItems
          Splashes, Fields,
          Lasting,      \* fields that are not isReplaceable()
          Limit         \* 10

Bodies == Viewers \cup Beasts

ASSUME TileViewAssumption ==
    /\ TopItems \cap DownItems = {} /\ Bodies \cap (TopItems \cup DownItems) = {}
    /\ Tiles \subseteq Int /\ Sight \in Nat /\ Limit \in Nat /\ Limit > 2
    /\ Sensing \subseteq Viewers /\ Exact \subseteq Viewers
    /\ Splashes \subseteq TopItems /\ Fields \subseteq DownItems /\ Lasting \subseteq Fields
    /\ order \in [TopItems -> Nat]

VARIABLES
    tops, standing, downs,  \* of each tile: sequences; the last to come stands last
    hidden,
    view,                   \* what each client shows of each tile
    missing                 \* history: tiles where a client is one thing short

tileVars == <<tops, standing, downs, hidden, view, missing>>

Map == [tops |-> tops, standing |-> standing, downs |-> downs,
        hidden |-> hidden, view |-> view, missing |-> missing]
Becomes(M) ==
    /\ tops' = M.tops /\ standing' = M.standing /\ downs' = M.downs
    /\ hidden' = M.hidden /\ view' = M.view /\ missing' = M.missing

OnTile(M, t, x) == x \in ToSet(M.tops[t] \o M.standing[t] \o M.downs[t])
TilesOf(M, x) == {t \in Tiles : OnTile(M, t, x)}
InWorld(M, x) == TilesOf(M, x) # {}
TileOf(M, x) == CHOOSE t \in Tiles : OnTile(M, t, x)

CanSeeCreature(M, w, c) == w = c \/ c \notin M.hidden \/ w \in Sensing
CanSee(M, w, t) == InWorld(M, w) /\ TileOf(M, w) - t \in -Sight .. Sight

-----------------------------------------------------------------------------
(***************************************************************************)
(* The stack as a player sees it, and places in it.                        *)
(***************************************************************************)
\* The elements of s at the places S, the last first.
LastFirst(s, S) ==
    [k \in 1 .. Cardinality(S) |-> s[CHOOSE n \in S : Cardinality({m \in S : m >= n}) = k]]

Seen(M, w, s) == LastFirst(s, {n \in DOMAIN s : CanSeeCreature(M, w, s[n])})
Stack(M, w, t) == M.tops[t] \o Seen(M, w, M.standing[t]) \o M.downs[t]
Cut(s) == SubSeq(s, 1, IF Len(s) < Limit THEN Len(s) ELSE Limit)
ThingCount(M, t) == Len(M.tops[t]) + Len(M.standing[t]) + Len(M.downs[t])

IndexOf(s, x) == CHOOSE n \in DOMAIN s : s[n] = x

\* 0 is no place.
Told(n) == IF n <= Limit THEN n ELSE 0

ClientIndexOfCreature(M, w, t, c) ==
    LET newer == SubSeq(M.standing[t], IndexOf(M.standing[t], c) + 1, Len(M.standing[t]))
    IN  Len(M.tops[t]) + Len(Seen(M, w, newer)) + 1
StackposOfCreature(M, w, t, c) == Told(ClientIndexOfCreature(M, w, t, c))

StackposOfItem_allCreatures(M, w, t, i) ==
    Told(IF i \in TopItems THEN IndexOf(M.tops[t], i)
         ELSE Len(M.tops[t] \o M.standing[t]) + IndexOf(M.downs[t], i))
StackposOfItem(M, w, t, i) ==
    Told(IF i \in TopItems THEN IndexOf(M.tops[t], i)
         ELSE Len(M.tops[t] \o Seen(M, w, M.standing[t])) + IndexOf(M.downs[t], i))

\* GetTileDescription(): on its own tile a client always gets its own player.
Described(M, w, t) ==
    LET all == Stack(M, w, t)
        front == SubSeq(all, 1, Limit - 1)
    IN  IF TileOf(M, w) = t /\ w \notin Exact /\ Len(all) > Limit /\ ~Contains(front, w)
        THEN Append(front, w) ELSE Cut(all)

-----------------------------------------------------------------------------
(***************************************************************************)
(* Messages, and what a client does with them.                             *)
(***************************************************************************)
Inserted(v, n, x) ==
    IF n = 0 THEN v ELSE Cut(InsertAt(v, IF n > Len(v) THEN Len(v) + 1 ELSE n, x))
Removed(v, n) == IF n \in DOMAIN v THEN RemoveAt(v, n) ELSE v
Replaced(v, n, x) == IF n \in DOMAIN v THEN [v EXCEPT ![n] = x] ELSE v
Arrived(v, x) == Inserted(v, Cardinality({n \in DOMAIN v : v[n] \in TopItems}) + 1, x)

\* Every client that sees tile t changes what it shows of it to shown(w).
Send(M, t, shown(_)) ==
    [M EXCEPT !.view = [w \in Viewers |->
        IF CanSee(M, w, t) THEN [M.view[w] EXCEPT ![t] = shown(w)] ELSE M.view[w]]]

SendAddTileItem(M, t, i) ==
    Send(M, t, LAMBDA w : Inserted(M.view[w][t], StackposOfItem(M, w, t, i), i))
SendUpdateTileItem(M, t, i) ==
    Send(M, t, LAMBDA w : Replaced(M.view[w][t], StackposOfItem(M, w, t, i), i))
SendUpdateTile(M, t) ==
    [Send(M, t, LAMBDA w : Described(M, w, t)) EXCEPT
        !.missing = {m \in M.missing : ~(m.tile = t /\ CanSee(M, m.viewer, t))}]
SendMapDescription(M, w) ==
    [M EXCEPT !.view[w] = [t \in Tiles |-> IF CanSee(M, w, t) THEN Described(M, w, t) ELSE <<>>],
              !.missing = {m \in M.missing : m.viewer # w}]
-----------------------------------------------------------------------------
(***************************************************************************)
(* Changes of a tile: Tile::addThing, removeThing, replaceThing and        *)
(* postRemoveNotification.                                                 *)
(***************************************************************************)
PostRemoveNotification_full(M, t) ==
    IF ThingCount(M, t) > Limit THEN SendUpdateTile(M, t) ELSE M
PostRemoveNotification(M, t) ==
    IF ThingCount(M, t) > Limit - 2 THEN SendUpdateTile(M, t) ELSE M

Without(s, x) == IF Contains(s, x) THEN RemoveAt(s, IndexOf(s, x)) ELSE s

RemoveThing(M, t, i) ==
    [Send(M, t, LAMBDA w : Removed(M.view[w][t], StackposOfItem(M, w, t, i)))
        EXCEPT !.tops[t] = Without(M.tops[t], i), !.downs[t] = Without(M.downs[t], i)]

\* What the new item drives out: the splash, or the field.
Outdated(M, t, i) ==
    IF i \in Splashes THEN ToSet(M.tops[t]) \cap Splashes
    ELSE IF i \in Fields THEN ToSet(M.downs[t]) \cap Fields ELSE {}

\* The place of a top item: before those of the same order.
TopPlace(M, t, i) ==
    Cardinality({n \in DOMAIN M.tops[t] : order[M.tops[t][n]] < order[i]}) + 1

Put(M, t, i) ==
    LET put == IF i \in TopItems
               THEN [M EXCEPT !.tops[t] = InsertAt(M.tops[t], TopPlace(M, t, i), i)]
               ELSE [M EXCEPT !.downs[t] = <<i>> \o M.downs[t]]
    IN  SendAddTileItem(put, t, i)

AddThing(M, t, i) ==
    LET old == Outdated(M, t, i)
        removed == PostRemoveNotification(RemoveThing(M, t, CHOOSE o \in old : TRUE), t)
    IN  IF old = {} THEN Put(M, t, i)
        ELSE IF old \cap Lasting # {} THEN M
        ELSE Put(IF i \in Splashes THEN SendUpdateTile(removed, t) ELSE removed, t, i)

ReplaceThing(M, t, i, j) ==
    LET renamed(s) == [n \in DOMAIN s |-> IF s[n] = i THEN j ELSE s[n]]
    IN  SendUpdateTileItem(
            [M EXCEPT !.tops[t] = renamed(M.tops[t]), !.downs[t] = renamed(M.downs[t])], t, j)

AddItem(t, i) == ~InWorld(Map, i) /\ Becomes(AddThing(Map, t, i))

RemoveItem(i) ==
    /\ InWorld(Map, i)
    /\ Becomes(PostRemoveNotification(RemoveThing(Map, TileOf(Map, i), i), TileOf(Map, i)))

\* transformItem() to another type: the new item takes the place of the old.
TransformItem(i, j) ==
    /\ InWorld(Map, i) /\ ~InWorld(Map, j)
    /\ i \in TopItems <=> j \in TopItems
    /\ i \in Splashes <=> j \in Splashes
    /\ i \in Fields <=> j \in Fields
    /\ i \in TopItems => order[i] = order[j]
    /\ LET t == TileOf(Map, i)
       IN  Becomes(PostRemoveNotification(ReplaceThing(Map, t, i, j), t))

-----------------------------------------------------------------------------
(***************************************************************************)
(* Creatures.                                                              *)
(***************************************************************************)
StandsOn(M, t, c) == [M EXCEPT !.standing[t] = Append(M.standing[t], c)]
Departs(M, t, c) == [M EXCEPT !.standing[t] = Without(M.standing[t], c)]

SendAddCreature(M, t, c, to) ==
    Send(M, t, LAMBDA w : IF w \in to
                          THEN Inserted(M.view[w][t], StackposOfCreature(M, w, t, c), c)
                          ELSE M.view[w][t])

\* A creature is created, or a player logs in; nobody is hidden then.
PlaceCreature(c, t) ==
    /\ ~InWorld(Map, c)
    /\ LET placed == SendAddCreature(StandsOn(Map, t, c), t, c, Viewers \ {c})
       IN  Becomes(IF c \in Viewers THEN SendMapDescription(placed, c) ELSE placed)

RemoveCreature(c) ==
    /\ InWorld(Map, c)
    /\ LET t == TileOf(Map, c)
           sent == Send(Map, t, LAMBDA w :
                       IF CanSeeCreature(Map, w, c)
                       THEN Removed(view[w][t], StackposOfCreature(Map, w, t, c)) ELSE view[w][t])
           gone == PostRemoveNotification([Departs(sent, t, c) EXCEPT !.hidden = @ \ {c}], t)
       IN  Becomes(IF c \in Viewers
                   THEN [gone EXCEPT !.view[c] = [u \in Tiles |-> <<>>],
                                     !.missing = {m \in gone.missing : m.viewer # c}]
                   ELSE gone)

\* What the client of the player who moves from t to u shows then (N is the map
\* with the player on u): the step, and the tiles that come into sight, or all.
OwnMove(N, w, t, u, index, teleport) ==
    IF index > Limit \/ teleport THEN SendMapDescription(N, w)
    ELSE [N EXCEPT
            !.view[w] = [s \in Tiles |->
                IF ~CanSee(N, w, s) THEN <<>>
                ELSE IF s - t \notin -Sight .. Sight THEN Described(N, w, s)
                ELSE IF s = t THEN Removed(N.view[w][t], index)
                ELSE IF s = u THEN Arrived(N.view[w][u], w)
                ELSE N.view[w][s]],
            !.missing = {m \in N.missing : m.viewer = w => CanSee(N, w, m.tile)}]

\* And of another client.
OtherMove(N, w, c, t, u, index, teleport) ==
    LET both == CanSee(N, w, t) /\ CanSee(N, w, u)
        left == IF CanSee(N, w, t) THEN [N EXCEPT !.view[w][t] = Removed(N.view[w][t], index)] ELSE N
    IN  IF both /\ ~teleport /\ index <= Limit
        THEN [left EXCEPT !.view[w][u] = Arrived(left.view[w][u], c)]
        ELSE IF CanSee(N, w, u)
        THEN [left EXCEPT !.view[w][u] =
                           Inserted(left.view[w][u], StackposOfCreature(N, w, u, c), c)]
        ELSE left

\* Map::moveCreature: a step to a neighbour, or a teleport.
MoveCreature(c, u, forced) ==
    /\ InWorld(Map, c) /\ TileOf(Map, c) # u
    /\ LET t == TileOf(Map, c)
           teleport == forced \/ u - t \notin {-1, 1}
           moved == StandsOn(Departs(Map, t, c), u, c)
           told == {w \in Viewers : InWorld(Map, w) /\ CanSeeCreature(Map, w, c)}
           index == [w \in told |-> ClientIndexOfCreature(Map, w, t, c)]
           of(w) == IF w = c THEN OwnMove(moved, w, t, u, index[w], teleport)
                    ELSE OtherMove(moved, w, c, t, u, index[w], teleport)
           all == [moved EXCEPT
                     !.view = [w \in Viewers |-> IF w \in told THEN of(w).view[w] ELSE view[w]],
                     !.missing = {m \in missing : m.viewer \in told => m \in of(m.viewer).missing}]
       IN  Becomes(PostRemoveNotification(all, t))

\* A monster becomes invisible or a gamemaster a ghost; no tile is sent again.
Hide(c) ==
    /\ InWorld(Map, c) /\ c \notin hidden
    /\ LET t == TileOf(Map, c)
           blind == {w \in Viewers \ (Sensing \cup {c}) : CanSee(Map, w, t)}
           sent == Send(Map, t, LAMBDA w :
                       IF w \in blind THEN Removed(view[w][t], StackposOfCreature(Map, w, t, c))
                       ELSE view[w][t])
       IN  Becomes([sent EXCEPT
             !.hidden = @ \cup {c},
             !.missing = missing \cup {[viewer |-> w, tile |-> t] :
                                   w \in {v \in blind : Len(Stack(Map, v, t)) > Limit}}])

Show(c) ==
    /\ InWorld(Map, c) /\ c \in hidden
    /\ Becomes(SendAddCreature([Map EXCEPT !.hidden = @ \ {c}], TileOf(Map, c), c,
                               Viewers \ (Sensing \cup {c})))

\* Another client takes the player over: ProtocolGame::connect().
Reconnect(w) == InWorld(Map, w) /\ Becomes(SendMapDescription(Map, w))

TileViewInit ==
    /\ tops = [t \in Tiles |-> <<>>] /\ standing = tops /\ downs = tops
    /\ hidden = {} /\ missing = {}
    /\ view = [w \in Viewers |-> [t \in Tiles |-> <<>>]]

TileViewNext ==
    \/ \E t \in Tiles, i \in TopItems \cup DownItems : AddItem(t, i)
    \/ \E i \in TopItems \cup DownItems : RemoveItem(i)
    \/ \E i, j \in TopItems \cup DownItems : TransformItem(i, j)
    \/ \E c \in Bodies, t \in Tiles : PlaceCreature(c, t)
    \/ \E c \in Bodies : RemoveCreature(c)
    \/ \E c \in Bodies, t \in Tiles, forced \in BOOLEAN : MoveCreature(c, t, forced)
    \/ \E c \in Beasts \cup Sensing : Hide(c) \/ Show(c)
    \/ \E w \in Viewers : Reconnect(w)

TileViewSpec == TileViewInit /\ [][TileViewNext]_tileVars

-----------------------------------------------------------------------------
(***************************************************************************)
(* A client shows a tile as it is, as far as its player can see it and up  *)
(* to Limit things, after any sequence of changes: the places it was told  *)
(* name the things that were meant.  Exceptions: of its own tile a client  *)
(* shows itself in the place of another thing while there are more than    *)
(* Limit; and when one is hidden on a tile with more than Limit things     *)
(* nothing brings the next one into view (Game::internalCreatureChange-    *)
(* Visible does not notify the tile), until the tile is sent again.        *)
(***************************************************************************)
ViewsExact ==
    \A w \in Viewers, t \in Tiles :
        CanSee(Map, w, t) /\ [viewer |-> w, tile |-> t] \notin missing =>
            \/ view[w][t] = Cut(Stack(Map, w, t))
            \/ TileOf(Map, w) = t /\ w \notin Exact /\ Len(Stack(Map, w, t)) > Limit
=============================================================================
