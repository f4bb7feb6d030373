----------------------------- MODULE TradeProofs -----------------------------
(***************************************************************************)
(* Trades stay paired, offers stay registered, apart, in reach and as they *)
(* were shown, and a transfer hands over both items, for all players,      *)
(* items, containers and maps, with containers in one another at any depth.*)
(*                                                                         *)
(* The first part, up to NextKeeps, does not depend on where items are: a  *)
(* step starts a trade, accepts one, or ends the trades of some set of     *)
(* players, and ending them keeps the invariant whatever the set is.       *)
(*                                                                         *)
(* The second part shows that the set is large enough.  It follows the way *)
(* up from an item (Around), how a move changes it, and why the owner of   *)
(* an offer is told of every change near it: what is on top of the offer   *)
(* is the owner or a tile next to the owner, and it is on top of whatever  *)
(* the offer is, holds or is held by.  An offer whose trade goes on is     *)
(* then not touched by the step (EndHolds).                                *)
(*                                                                         *)
(* The third part counts what players and containers hold: what the first  *)
(* item leaves has room for the second.                                    *)
(***************************************************************************)
EXTENDS Trade, TLAPS, FiniteSetTheorems

TRec == [state : TradeStates, partner : Players \cup {NoPlayer}, item : Items \cup {NoItem}]

IInv == TypeOK /\ TradesPaired /\ OffersRegistered

-----------------------------------------------------------------------------
(* Where items can go *)

LEMMA RecordType ==
    ASSUME NEW par, NEW par2, NEW M, Record(par, par2, M)
    PROVE  touched' \subseteq Items
BY DEF Record

LEMMA DestinationsAreCylinders ==
    ASSUME NEW par, NEW q \in Players, NEW i
    PROVE  Destinations(par, q, i) \subseteq Cylinders
BY DEF Destinations, Cylinders

LEMMA ClosedByType ==
    ASSUME online \subseteq Players, NEW par, NEW i
    PROVE  /\ ClosedByRemove(par, i) \subseteq Players
           /\ ClosedByUpdate(par, i) \subseteq Players
           /\ ClosedByAdd(par, i) \subseteq Players
BY DEF ClosedByRemove, ClosedByUpdate, ClosedByAdd, ClosedBy

-----------------------------------------------------------------------------
(* Ending trades *)

\* Both sides of a trade that ends are reset, whichever side is asked, and a
\* partner's partner is the player: so the players that are reset are whole
\* pairs, and the offers released are exactly theirs.
LEMMA ClosingIsPaired ==
    ASSUME IInv, NEW S \in SUBSET Players, CloseTrades(S),
           NEW p \in Players
    PROVE  /\ trade'[p] = Idle \/ trade'[p] = trade[p]
           /\ p \in S => trade'[p] = Idle
           /\ trade'[p] # Idle => /\ trade[p].partner \in Players
                                 /\ trade'[trade[p].partner] = trade[trade[p].partner]
<1> DEFINE both == S \cup ({trade[r].partner : r \in S} \ {NoPlayer})
<1>1. trade' = [r \in Players |-> IF r \in both THEN Idle ELSE trade[r]]
  BY DEF CloseTrades
<1>2. trade'[p] = IF p \in both THEN Idle ELSE trade[p]
  BY <1>1
<1>3. ASSUME trade'[p] # Idle
      PROVE  /\ trade[p].partner \in Players
             /\ trade'[trade[p].partner] = trade[trade[p].partner]
  <2>1. p \notin both /\ trade[p] # Idle
    BY <1>2, <1>3
  <2>2. trade[p].partner \in Players /\ trade[trade[p].partner].partner = p
    BY <2>1 DEF IInv, TradesPaired, TypeOK
  <2>3. trade[p].partner \notin S
    BY <2>1, <2>2, TradeAssumption DEF TradeAssumption
  <2>4. \A r \in S : trade[r].partner = trade[p].partner => r = p
    <3>1. SUFFICES ASSUME NEW r \in S, trade[r].partner = trade[p].partner PROVE r = p
      OBVIOUS
    <3>2. trade[r].state # "NONE"
      BY <2>2, <3>1, TradeAssumption DEF TradeAssumption, IInv, TradesPaired, TypeOK, Idle
    <3>3. trade[trade[r].partner].partner = r
      BY <3>2 DEF IInv, TradesPaired
    <3> QED
      BY <2>2, <3>1, <3>3
  <2>5. trade[p].partner \notin both
    BY <2>1, <2>2, <2>3, <2>4
  <2> QED
    BY <1>1, <2>2, <2>5
<1> QED
  BY <1>2, <1>3

\* Ending the trades of any players keeps the invariant, also when some of
\* them leave the game.
LEMMA ClosingKeeps ==
    ASSUME IInv, NEW S \in SUBSET Players, CloseTrades(S),
           online' \subseteq Players,
           \A r \in online \ online' : r \in S \/ trade[r] = Idle
    PROVE  /\ trade' \in [Players -> TRec]
           /\ tradeItems' \in [Items -> Players \cup {NoPlayer}]
           /\ references' \in [Items -> 0 .. 1]
           /\ TradesPaired'
           /\ OffersRegistered'
<1> DEFINE both == S \cup ({trade[r].partner : r \in S} \ {NoPlayer})
           ended == {trade[r].item : r \in both} \cap Offered
<1> USE TradeAssumption DEF TradeAssumption
<1>1. /\ trade' = [r \in Players |-> IF r \in both THEN Idle ELSE trade[r]]
      /\ tradeItems' = [i \in Items |-> IF i \in ended THEN NoPlayer ELSE tradeItems[i]]
      /\ references' = [i \in Items |-> IF i \in ended THEN references[i] - 1 ELSE references[i]]
  BY DEF CloseTrades
<1>2. Idle \in TRec
  BY DEF Idle, TRec, TradeStates
<1>3. trade' \in [Players -> TRec]
  BY <1>1, <1>2 DEF IInv, TypeOK, TRec
<1>4. both \subseteq Players
  BY DEF IInv, TypeOK
<1>5. \A r \in Players : trade'[r].item = IF r \in both THEN NoItem ELSE trade[r].item
  BY <1>1 DEF Idle
<1>6. \A i \in ended : \E r \in both : trade[r].item = i /\ tradeItems[i] = r
  BY <1>4 DEF IInv, OffersRegistered, Offered
<1>7. \A i \in Items \ ended : \A r \in both : trade[r].item # i
  <2>1. SUFFICES ASSUME NEW i \in Items \ ended, NEW r \in both, trade[r].item = i
                 PROVE  FALSE
    OBVIOUS
  <2>2. r \in Players /\ tradeItems[i] = r
    BY <1>4, <2>1 DEF IInv, OffersRegistered
  <2>3. i \in Offered
    BY <2>2 DEF Offered
  <2> QED
    BY <2>1, <2>3
<1>8. OffersRegistered'
  <2>1. ASSUME NEW i \in ended
        PROVE  /\ tradeItems'[i] = NoPlayer /\ references'[i] = 0
               /\ \A p \in Players : trade'[p].item # i
    <3>1. PICK r \in both : trade[r].item = i /\ tradeItems[i] = r
      BY <1>6
    <3>2. i \in Items /\ references[i] = 1
      BY <1>4, <3>1 DEF IInv, OffersRegistered, Offered
    <3>3. \A p \in Players : trade[p].item = i => p = r
      BY <3>1, <3>2 DEF IInv, OffersRegistered
    <3> QED
      BY <1>1, <1>5, <3>1, <3>2, <3>3
  <2>2. ASSUME NEW i \in Items \ ended
        PROVE  /\ tradeItems'[i] = tradeItems[i] /\ references'[i] = references[i]
               /\ \A p \in Players : trade'[p].item = i <=> trade[p].item = i
    BY <1>1, <1>5, <1>7
  <2> QED
    BY <2>1, <2>2 DEF OffersRegistered, IInv
<1>9. TradesPaired'
  <2>1. SUFFICES ASSUME NEW p \in Players, trade'[p] # Idle
                 PROVE  /\ trade'[p].state # "NONE"
                        /\ p \in online' /\ trade'[p].partner \in online' \ {p}
                        /\ trade'[trade'[p].partner].partner = p
                        /\ trade'[p].item # NoItem \/ trade'[trade'[p].partner].item # NoItem
                        /\ ~(trade'[p].state = "ACCEPT" /\ trade'[trade'[p].partner].state = "ACCEPT")
                        /\ trade'[p].state = "INITIATED" => trade'[p].item # NoItem
                        /\ trade'[p].state = "ACKNOWLEDGE" => trade'[p].item = NoItem
    BY DEF TradesPaired, Idle
  <2> DEFINE q == trade[p].partner
  <2>2. trade'[p] = trade[p] /\ q \in Players /\ trade'[q] = trade[q]
    BY <2>1, ClosingIsPaired
  <2>3. trade[p].state # "NONE"
    BY <2>1, <2>2 DEF IInv, TradesPaired
  <2>4. trade[q].partner = p /\ trade[q] # Idle
    BY <2>2, <2>3 DEF IInv, TradesPaired, Idle
  <2>5. p \in online' /\ q \in online'
    <3>1. p \in online /\ q \in online
      BY <2>3 DEF IInv, TradesPaired
    <3>2. p \notin S /\ q \notin S
      BY <2>1, <2>2, <2>4, ClosingIsPaired
    <3> QED
      BY <2>1, <2>2, <2>4, <3>1, <3>2
  <2> QED
    BY <2>2, <2>3, <2>5 DEF IInv, TradesPaired
<1>10. /\ tradeItems' \in [Items -> Players \cup {NoPlayer}]
       /\ references' \in [Items -> 0 .. 1]
  <2>1. \A i \in Items : references'[i] \in 0 .. 1
    BY <1>8 DEF OffersRegistered
  <2>2. DOMAIN references' = Items /\ references' = [i \in Items |-> references'[i]]
    BY <1>1
  <2> QED
    BY <1>1, <2>1, <2>2 DEF IInv, TypeOK
<1> QED
  BY <1>3, <1>8, <1>9, <1>10

-----------------------------------------------------------------------------
(* The steps *)

LEMMA InitIInv == Init => IInv
<1> SUFFICES ASSUME Init PROVE IInv
  OBVIOUS
<1> USE TradeAssumption DEF TradeAssumption, Init, Idle
<1>1. TypeOK
  BY DEF TypeOK, TradeStates, Cylinders
<1>2. TradesPaired /\ OffersRegistered
  BY DEF TradesPaired, OffersRegistered
<1> QED
  BY <1>1, <1>2 DEF IInv

\* An offer is made by a player without one, of an item nobody offers.
LEMMA RequestKeeps ==
    ASSUME IInv, NEW p \in Players, NEW q \in Players, NEW i \in Items, RequestTrade(p, q, i)
    PROVE  IInv'
<1> USE TradeAssumption DEF TradeAssumption
<1> DEFINE offering == [state |-> "INITIATED", partner |-> q, item |-> i]
           asked == [state |-> "ACKNOWLEDGE", partner |-> p, item |-> NoItem]
<1>1. /\ trade \in [Players -> TRec] /\ TradesPaired
      /\ p \in online /\ q \in online /\ p # q /\ online \subseteq Players
      /\ FreeToTrade(p, q)
  BY DEF RequestTrade, IInv, TypeOK, TRec
<1>2. tradeItems[i] = NoPlayer
  BY DEF AlreadyTraded, Offered, RequestTrade
<1>3. trade[p].item = NoItem /\ trade[p].state \in {"NONE", "ACKNOWLEDGE"}
  BY <1>1 DEF FreeToTrade, TradesPaired, Idle
<1>4. /\ trade[p].state # "NONE" => trade[p].partner = q /\ trade[q].partner = p
      /\ trade[q].state # "NONE" => trade[q].partner = p /\ trade[p].partner = q
      /\ \A r \in Players : trade[r].state = "NONE" => trade[r] = Idle
  BY <1>1, <1>3 DEF FreeToTrade, TradesPaired
<1>5. trade'[p] = offering
  BY <1>1 DEF RequestTrade
<1>6. trade'[q] = IF trade[q].state = "NONE" THEN asked ELSE trade[q]
  <2>1. trade'[q] = IF trade[q].state = "NONE"
                    THEN [state |-> "ACKNOWLEDGE", partner |-> p, item |-> trade[q].item]
                    ELSE trade[q]
    BY <1>1 DEF RequestTrade
  <2>2. trade[q].state = "NONE" => trade[q].item = NoItem
    BY <1>4 DEF Idle
  <2> QED
    BY <2>1, <2>2
<1>7. \A r \in Players \ {p, q} : trade'[r] = trade[r]
  BY <1>1 DEF RequestTrade
<1>8. trade' \in [Players -> TRec]
  <2>1. \A r \in Players : trade'[r] \in TRec
    BY <1>1, <1>5, <1>6, <1>7 DEF TRec, TradeStates
  <2>2. DOMAIN trade' = Players /\ trade' = [r \in Players |-> trade'[r]]
    BY <1>1 DEF RequestTrade
  <2> QED
    BY <2>1, <2>2
<1>9. \A r \in Players : trade'[r].item = IF r = p THEN i ELSE trade[r].item
  <2>1. trade'[q].item = trade[q].item
    BY <1>4, <1>6 DEF Idle
  <2> QED
    BY <1>1, <1>5, <1>7, <2>1
<1>10. /\ tradeItems' = [tradeItems EXCEPT ![i] = p] /\ references' = [references EXCEPT ![i] = @ + 1]
       /\ tradeItems \in [Items -> Players \cup {NoPlayer}]
       /\ references \in [Items -> 0 .. 1]
       /\ OffersRegistered
  BY DEF RequestTrade, IInv, TypeOK
<1>11. references[i] = 0
  BY <1>2, <1>10 DEF OffersRegistered
<1>12. OffersRegistered'
  BY <1>2, <1>3, <1>9, <1>10, <1>11 DEF OffersRegistered
<1>13. /\ tradeItems' \in [Items -> Players \cup {NoPlayer}]
       /\ references' \in [Items -> 0 .. 1]
  BY <1>10, <1>11
<1>14. UNCHANGED <<online, pos, parent, touched>>
  BY DEF RequestTrade
<1>15. TradesPaired'
  <2>1. \A r \in Players \ {p, q} : trade[r].state # "NONE" => trade[r].partner \notin {p, q}
    <3>1. SUFFICES ASSUME NEW r \in Players \ {p, q}, trade[r].state # "NONE",
                          trade[r].partner \in {p, q}
                   PROVE FALSE
      OBVIOUS
    <3>2. trade[trade[r].partner].partner = r
      BY <1>1, <3>1 DEF TradesPaired
    <3>3. trade[p].state = "NONE" => trade[p].partner = NoPlayer
      BY <1>4 DEF Idle
    <3>4. trade[q].state = "NONE" => trade[q].partner = NoPlayer
      BY <1>4 DEF Idle
    <3> QED
      BY <1>4, <3>1, <3>2, <3>3, <3>4
  <2>2. SUFFICES ASSUME NEW r \in Players
                 PROVE  /\ trade'[r].state = "NONE" => trade'[r] = Idle
                        /\ trade'[r].state # "NONE" =>
                             /\ r \in online /\ trade'[r].partner \in online \ {r}
                             /\ trade'[trade'[r].partner].partner = r
                             /\ trade'[r].item # NoItem \/ trade'[trade'[r].partner].item # NoItem
                             /\ ~(trade'[r].state = "ACCEPT" /\ trade'[trade'[r].partner].state = "ACCEPT")
                        /\ trade'[r].state = "INITIATED" => trade'[r].item # NoItem
                        /\ trade'[r].state = "ACKNOWLEDGE" => trade'[r].item = NoItem
    BY <1>14 DEF TradesPaired
  <2>3. CASE r \notin {p, q}
    BY <1>1, <1>7, <2>1, <2>3 DEF TradesPaired
  <2>4. CASE r = p
    <3>1. trade'[q].partner = p
      BY <1>4, <1>6
    <3> QED
      BY <1>1, <1>5, <2>4, <3>1
  <2>5. CASE r = q /\ trade[q].state = "NONE"
    BY <1>1, <1>5, <1>6, <2>5
  <2>6. CASE r = q /\ trade[q].state # "NONE"
    <3>1. trade'[r] = trade[q] /\ trade[q].partner = p /\ trade'[p].item # NoItem
      BY <1>4, <1>5, <1>6, <2>6
    <3> QED
      BY <1>1, <1>5, <2>6, <3>1 DEF TradesPaired
  <2> QED
    BY <2>3, <2>4, <2>5, <2>6
<1> QED
  BY <1>8, <1>12, <1>13, <1>14, <1>15 DEF IInv, TypeOK, TRec

\* Accepting first only marks the side; a player accepts second only after
\* the other has, so the two never wait in "ACCEPT" together.
LEMMA MarkKeeps ==
    ASSUME IInv, NEW p \in Players, trade[p].state \in {"ACKNOWLEDGE", "INITIATED"},
           trade[trade[p].partner].state # "ACCEPT",
           trade' = [trade EXCEPT ![p].state = "ACCEPT"],
           UNCHANGED <<online, pos, parent, tradeItems, references, touched>>
    PROVE  IInv'
<1> USE TradeAssumption DEF TradeAssumption
<1> DEFINE q == trade[p].partner
<1>1. trade \in [Players -> TRec] /\ TradesPaired /\ OffersRegistered /\ online \subseteq Players
  BY DEF IInv, TypeOK, TRec
<1>2. trade'[p] = [state |-> "ACCEPT", partner |-> trade[p].partner, item |-> trade[p].item]
  BY <1>1 DEF TRec
<1>3. \A r \in Players \ {p} : trade'[r] = trade[r]
  BY <1>1
<1>4. \A r \in Players : trade'[r].item = trade[r].item /\ trade'[r].partner = trade[r].partner
  BY <1>2, <1>3
<1>5. trade' \in [Players -> TRec]
  <2>1. \A r \in Players : trade'[r] \in TRec
    BY <1>1, <1>2, <1>3 DEF TRec, TradeStates
  <2>2. DOMAIN trade' = Players /\ trade' = [r \in Players |-> trade'[r]]
    BY <1>1
  <2> QED
    BY <2>1, <2>2
<1>6. OffersRegistered'
  BY <1>1, <1>4 DEF OffersRegistered
<1>7. TradesPaired'
  <2>1. q \in online \ {p} /\ trade[q].partner = p /\ trade'[q] = trade[q]
    BY <1>1, <1>3 DEF TradesPaired
  <2>2. \A r \in Players : trade[r].state # "NONE" /\ trade[r].partner = p => r = q
    BY <1>1 DEF TradesPaired
  <2>3. \A r \in Players \ {p} : trade[r].state # "NONE" /\ trade'[r].state = "ACCEPT" =>
            trade'[trade[r].partner].state # "ACCEPT"
    BY <1>1, <1>2, <1>3, <2>2 DEF TradesPaired
  <2>4. \A r \in Players : trade'[r].state # "NONE" =>
            /\ r \in online /\ trade'[r].partner \in online \ {r}
            /\ trade'[trade'[r].partner].partner = r
            /\ trade'[r].item # NoItem \/ trade'[trade'[r].partner].item # NoItem
    <3>1. \A r \in Players : trade'[r].state # "NONE" => trade[r].state # "NONE"
      BY <1>1, <1>2, <1>3
    <3>2. \A r \in Players : trade[r].state # "NONE" =>
              /\ r \in online /\ trade[r].partner \in online \ {r} /\ trade[r].partner \in Players
              /\ trade[trade[r].partner].partner = r
              /\ trade[r].item # NoItem \/ trade[trade[r].partner].item # NoItem
      BY <1>1 DEF TradesPaired
    <3> QED
      BY <1>4, <3>1, <3>2
  <2>5. \A r \in Players : trade'[r].state = "NONE" => trade'[r] = Idle
    BY <1>1, <1>2, <1>3 DEF TradesPaired
  <2>6. \A r \in Players : /\ trade'[r].state = "INITIATED" => trade'[r].item # NoItem
                           /\ trade'[r].state = "ACKNOWLEDGE" => trade'[r].item = NoItem
    BY <1>1, <1>2, <1>3 DEF TradesPaired
  <2> QED
    BY <1>2, <1>3, <2>1, <2>3, <2>4, <2>5, <2>6 DEF TradesPaired
<1> QED
  BY <1>1, <1>5, <1>6, <1>7 DEF IInv, TypeOK, TRec

\* Where a step only moves items and ends trades.
LEMMA EndKeeps ==
    ASSUME IInv, NEW S \in SUBSET Players, CloseTrades(S),
           online' = online, touched' \subseteq Items,
           pos' \in [Players -> Tiles],
           parent' \in [Items -> Cylinders \cup {Nowhere}]
    PROVE  IInv'
BY ClosingKeeps DEF IInv, TypeOK, TRec

LEMMA AcceptKeeps ==
    ASSUME IInv, NEW p \in Players, AcceptTrade(p)
    PROVE  IInv'
<1> DEFINE q == trade[p].partner
<1> USE TradeAssumption DEF TradeAssumption
<1>1. trade[p].state \in {"ACKNOWLEDGE", "INITIATED"} /\ q \in Players
      /\ UNCHANGED <<online, pos>> /\ TypeOK
  BY DEF AcceptTrade, IInv, TypeOK
<1>2. CASE trade[q].state # "ACCEPT"
  BY <1>1, <1>2, MarkKeeps DEF AcceptTrade
<1>3. CASE Canceled(p)
  <2>1. touched' \subseteq Items
    BY <1>3, RecordType DEF Canceled
  <2> QED
    BY <1>1, <1>3, <2>1, EndKeeps DEF Canceled, TypeOK
<1>4. CASE Transfer(p, q)
  <2> DEFINE i == trade[p].item
             j == trade[q].item
             one(x) == [parent EXCEPT ![i] = x]
             rest(x) == Destinations(one(x), p, j)
             two(x, y) == [one(x) EXCEPT ![j] = y]
             S(x, y) == ClosedByRemove(parent, i) \cup ClosedByAdd(one(x), i)
                          \cup IF rest(x) = {} THEN {}
                               ELSE ClosedByRemove(one(x), j) \cup ClosedByAdd(two(x, y), j)
  <2>1. i \in Items /\ j \in Items
    BY <1>1, <1>4 DEF Transfer, TypeOK
  <2>2. PICK x \in Destinations(parent, q, i) :
          \E y \in IF rest(x) = {} THEN {parent[j]} ELSE rest(x) :
            /\ parent' = two(x, y)
            /\ CloseTrades((S(x, y) \ {p, q}) \cup {p})
            /\ Record(parent, two(x, y), IF rest(x) = {} THEN {i} ELSE {i, j})
    BY <1>4 DEF Transfer
  <2>3. PICK y \in IF rest(x) = {} THEN {parent[j]} ELSE rest(x) :
            /\ parent' = two(x, y)
            /\ CloseTrades((S(x, y) \ {p, q}) \cup {p})
            /\ Record(parent, two(x, y), IF rest(x) = {} THEN {i} ELSE {i, j})
    BY <2>2
  <2>4. x \in Cylinders /\ y \in Cylinders \cup {Nowhere}
    <3>1. x \in Cylinders
      <4>1. Destinations(parent, q, i) \subseteq Cylinders
        BY <1>1, DestinationsAreCylinders
      <4>2. x \in Destinations(parent, q, i)
        OBVIOUS
      <4> QED
        BY <4>1, <4>2
    <3>2. parent[j] \in Cylinders \cup {Nowhere}
      BY <1>1, <2>1 DEF TypeOK
    <3>3. rest(x) \in SUBSET Cylinders
      BY DestinationsAreCylinders
    <3> HIDE DEF rest
    <3>4. y \in {parent[j]} \cup rest(x)
      BY <2>3
    <3> QED
      BY <3>1, <3>2, <3>3, <3>4
  <2>5. parent' \in [Items -> Cylinders \cup {Nowhere}]
    BY <1>1, <2>3, <2>4 DEF TypeOK
  <2>6. (S(x, y) \ {p, q}) \cup {p} \in SUBSET Players
    BY <1>1, ClosedByType DEF TypeOK
  <2>7. touched' \subseteq Items
    BY <2>3, RecordType
  <2> HIDE DEF S, two
  <2> QED
    BY <1>1, <2>3, <2>5, <2>6, <2>7, EndKeeps DEF TypeOK
<1> QED
  BY <1>2, <1>3, <1>4 DEF AcceptTrade

\* Every other step moves items or players and ends trades.
LEMMA NextKeeps == IInv /\ [Next]_vars => IInv'
<1> SUFFICES ASSUME IInv, [Next]_vars PROVE IInv'
  OBVIOUS
<1> USE TradeAssumption DEF TradeAssumption
<1>1. TypeOK /\ online \subseteq Players
  BY DEF IInv, TypeOK
<1>2. ASSUME NEW p \in Players, NEW q \in Players, NEW i \in Items, RequestTrade(p, q, i)
      PROVE  IInv'
  BY <1>2, RequestKeeps
<1>3. ASSUME NEW p \in Players, AcceptTrade(p) PROVE IInv'
  BY <1>3, AcceptKeeps
<1>4. ASSUME NEW p \in Players, CloseTrade(p) PROVE IInv'
  <2>1. touched' \subseteq Items
    BY <1>4, RecordType DEF CloseTrade, Canceled
  <2> QED
    BY <1>1, <1>4, <2>1, EndKeeps DEF CloseTrade, Canceled, TypeOK
<1>5. ASSUME NEW p \in Players, NEW i \in Items, NEW x \in Cylinders, MoveItem(p, i, x)
      PROVE  IInv'
  <2>1. touched' \subseteq Items
    BY <1>5, RecordType DEF MoveItem
  <2>2. ClosedByRemove(parent, i) \cup ClosedByAdd(parent', i) \in SUBSET Players
    BY <1>1, ClosedByType
  <2>3. parent' \in [Items -> Cylinders \cup {Nowhere}]
    BY <1>1, <1>5 DEF MoveItem, TypeOK
  <2> QED
    BY <1>1, <1>5, <2>1, <2>2, <2>3, EndKeeps DEF MoveItem, TypeOK
<1>6. ASSUME NEW p \in Players, NEW i \in Items, NEW k \in Items, MergeItem(p, i, k)
      PROVE  IInv'
  <2>1. touched' \subseteq Items
    BY <1>6, RecordType DEF MergeItem
  <2>2. PICK S \in SUBSET Players : CloseTrades(S)
    BY <1>1, <1>6, ClosedByType DEF MergeItem
  <2>3. parent' \in [Items -> Cylinders \cup {Nowhere}]
    BY <1>1, <1>6 DEF MergeItem, TypeOK
  <2> QED
    BY <1>1, <1>6, <2>1, <2>2, <2>3, EndKeeps DEF MergeItem, TypeOK
<1>7. ASSUME NEW p \in Players, NEW i \in Items, NEW k \in Items, NEW x \in Cylinders,
             SplitItem(p, i, k, x)
      PROVE  IInv'
  <2>1. touched' \subseteq Items
    BY <1>7, RecordType DEF SplitItem
  <2>2. ClosedByUpdate(parent, i) \cup ClosedByAdd(parent', k) \in SUBSET Players
    BY <1>1, ClosedByType
  <2>3. parent' \in [Items -> Cylinders \cup {Nowhere}]
    BY <1>1, <1>7 DEF SplitItem, TypeOK
  <2> QED
    BY <1>1, <1>7, <2>1, <2>2, <2>3, EndKeeps DEF SplitItem, TypeOK
<1>8. ASSUME NEW p \in Players, NEW i \in Items, NEW k \in Items, ExchangeItem(p, i, k)
      PROVE  IInv'
  <2> DEFINE one == [parent EXCEPT ![k] = parent[i]]
  <2>1. touched' \subseteq Items
    BY <1>8, RecordType DEF ExchangeItem
  <2>2. ClosedByRemove(parent, k) \cup ClosedByAdd(one, k) \cup ClosedByRemove(one, i)
          \in SUBSET Players
    BY <1>1, ClosedByType
  <2>3. parent' \in [Items -> Cylinders \cup {Nowhere}]
    BY <1>1, <1>8 DEF ExchangeItem, TypeOK, Cylinders
  <2>4. PICK S \in SUBSET Players : CloseTrades(S)
    <3> HIDE DEF one
    <3>1. CloseTrades(ClosedByRemove(parent, k) \cup ClosedByAdd(one, k) \cup ClosedByRemove(one, i))
      BY <1>8 DEF ExchangeItem, one
    <3> QED
      BY <2>2, <3>1
  <2>5. online' = online /\ pos' \in [Players -> Tiles]
    BY <1>1, <1>8 DEF ExchangeItem, TypeOK
  <2> QED
    BY <2>1, <2>3, <2>4, <2>5, EndKeeps
<1>9. ASSUME NEW i \in Items, RemoveItem(i) PROVE IInv'
  <2>1. touched' \subseteq Items
    BY <1>9, RecordType DEF RemoveItem
  <2>2. ClosedByRemove(parent, i) \in SUBSET Players
    BY <1>1, ClosedByType
  <2>3. parent' \in [Items -> Cylinders \cup {Nowhere}]
    BY <1>1, <1>9 DEF RemoveItem, TypeOK
  <2> QED
    BY <1>1, <1>9, <2>1, <2>2, <2>3, EndKeeps DEF RemoveItem, TypeOK
<1>10. ASSUME NEW p \in Players, NEW x \in Tiles, Walk(p, x) PROVE IInv'
  <2>1. touched' \subseteq Items
    BY <1>10, RecordType DEF Walk
  <2>2. pos' \in [Players -> Tiles]
    BY <1>1, <1>10 DEF Walk, TypeOK
  <2> QED
    BY <1>1, <1>10, <2>1, <2>2, EndKeeps DEF Walk, TypeOK
<1>11. ASSUME NEW p \in Players, Login(p) PROVE IInv'
  BY <1>11 DEF Login, IInv, TypeOK, TradesPaired, OffersRegistered
<1>12. ASSUME NEW p \in Players, Logout(p) PROVE IInv'
  <2>1. touched' \subseteq Items
    BY <1>12, RecordType DEF Logout
  <2>2. trade[p].partner = NoPlayer => trade[p] = Idle
    BY <1>1 DEF IInv, TradesPaired
  <2>3. PICK S \in SUBSET Players : CloseTrades(S) /\ (p \in S \/ trade[p] = Idle)
    BY <1>12, <2>2 DEF Logout
  <2>4. /\ online' \subseteq Players /\ UNCHANGED <<pos, parent>>
        /\ \A r \in online \ online' : r \in S \/ trade[r] = Idle
    BY <1>1, <1>12, <2>3 DEF Logout
  <2>5. /\ trade' \in [Players -> TRec]
        /\ tradeItems' \in [Items -> Players \cup {NoPlayer}]
        /\ references' \in [Items -> 0 .. 1]
        /\ TradesPaired' /\ OffersRegistered'
    BY <2>3, <2>4, ClosingKeeps
  <2> QED
    BY <1>1, <2>1, <2>4, <2>5 DEF IInv, TypeOK, TRec
<1>13. CASE UNCHANGED vars
  BY <1>13 DEF vars, IInv, TypeOK, TradesPaired, OffersRegistered
<1> QED
  BY <1>2, <1>3, <1>4, <1>5, <1>6, <1>7, <1>8, <1>9, <1>10, <1>11, <1>12, <1>13 DEF Next

-----------------------------------------------------------------------------
(* What is around an item *)

Places == Cylinders \cup {Nowhere}

\* No item is inside itself, a player or a tile is on top of everything in the
\* world, and a removed container is empty.
Nested(par) ==
    \A i \in Items :
        /\ i \notin Around(par, i)
        /\ \E t \in Players \cup Tiles \cup {Nowhere} :
              /\ Around(par, i) \ Containers = {t}
              /\ t = Nowhere => par[i] = Nowhere

-----------------------------------------------------------------------------
(* The cylinders around an item *)

\* They are closed under the parent of a container.
LEMMA AroundClosed ==
    ASSUME NEW par, NEW i
    PROVE  /\ par[i] \in Around(par, i)
           /\ \A c \in Around(par, i) \cap Containers : par[c] \in Around(par, i)
<1>1. SUFFICES ASSUME NEW c \in Around(par, i) \cap Containers
               PROVE  c \in Boxes(par, i)
  BY DEF Around
<1>2. SUFFICES ASSUME NEW T \in SUBSET Containers,
                      ({par[i]} \cup {par[b] : b \in T}) \cap Containers \subseteq T
               PROVE  c \in T
  BY DEF Boxes
<1>3. Boxes(par, i) \subseteq T
  BY <1>2 DEF Boxes
<1> QED
  BY <1>1, <1>2, <1>3 DEF Around

\* They are the least such set.
LEMMA AroundLeast ==
    ASSUME NEW par, NEW i, NEW A, par[i] \in A,
           \A c \in A \cap Containers : par[c] \in A
    PROVE  Around(par, i) \subseteq A
<1> DEFINE T == A \cap Containers
<1>1. T \in SUBSET Containers /\ ({par[i]} \cup {par[b] : b \in T}) \cap Containers \subseteq T
  OBVIOUS
<1>2. Boxes(par, i) \subseteq T
  BY <1>1 DEF Boxes
<1> QED
  BY <1>2 DEF Around

\* The parent, and what is around the parent when it is a container.
LEMMA AroundStep ==
    ASSUME NEW par, NEW i
    PROVE  /\ par[i] \in Containers => Around(par, i) = {par[i]} \cup Around(par, par[i])
           /\ par[i] \notin Containers => Around(par, i) = {par[i]}
<1>1. CASE par[i] \in Containers
  <2> DEFINE A == {par[i]} \cup Around(par, par[i])
  <2>1. Around(par, i) \subseteq A
    <3>1. par[i] \in A /\ \A c \in A \cap Containers : par[c] \in A
      BY <1>1, AroundClosed
    <3> HIDE DEF A
    <3> QED
      BY <3>1, AroundLeast
  <2>2. Around(par, par[i]) \subseteq Around(par, i)
    BY <1>1, AroundClosed, AroundLeast
  <2> QED
    BY <1>1, <2>1, <2>2, AroundClosed
<1>2. CASE par[i] \notin Containers
  <2> DEFINE A == {par[i]}
  <2>1. par[i] \in A /\ \A c \in A \cap Containers : par[c] \in A
    BY <1>2
  <2>2. Around(par, i) \subseteq A
    <3> HIDE DEF A
    <3> QED
      BY <2>1, AroundLeast
  <2> QED
    BY <1>2, <2>2, AroundClosed
<1> QED
  BY <1>1, <1>2

\* What is around a container is around all it holds.
LEMMA AroundTransitive ==
    ASSUME NEW par, NEW i, NEW c \in Around(par, i) \cap Containers
    PROVE  Around(par, c) \subseteq Around(par, i)
BY AroundClosed, AroundLeast

LEMMA AroundType ==
    ASSUME NEW par \in [Items -> Places], NEW i \in Items
    PROVE  Around(par, i) \subseteq Places
BY AroundLeast, TradeAssumption DEF TradeAssumption

\* A change of parents that are not on the way up changes nothing.
LEMMA AroundSame ==
    ASSUME NEW par, NEW par2, NEW k, par2[k] = par[k],
           \A c \in Around(par, k) \cap Containers : par2[c] = par[c]
    PROVE  Around(par2, k) = Around(par, k)
<1>1. Around(par2, k) \subseteq Around(par, k)
  BY AroundClosed, AroundLeast
<1> DEFINE A == Around(par, k) \cap Around(par2, k)
<1>2. par[k] \in A
  BY AroundClosed
<1>3. \A c \in A \cap Containers : par[c] \in A
  BY AroundClosed
<1>4. Around(par, k) \subseteq A
  <2> HIDE DEF A
  <2> QED
    BY <1>2, <1>3, AroundLeast
<1> QED
  BY <1>1, <1>4

-----------------------------------------------------------------------------
(* What is on top *)

LEMMA TopIs ==
    ASSUME NEW par, NEW i, NEW t, Around(par, i) \ Containers = {t}
    PROVE  TopParent(par, i) = t
BY DEF TopParent

\* Everything in a container has the same on top as the container.
LEMMA TopShared ==
    ASSUME NEW par, Nested(par), NEW i \in Items, NEW c \in Around(par, i) \cap Containers
    PROVE  TopParent(par, c) = TopParent(par, i)
<1> USE TradeAssumption DEF TradeAssumption
<1>1. PICK t : Around(par, i) \ Containers = {t}
  BY DEF Nested
<1>2. PICK u : Around(par, c) \ Containers = {u}
  BY DEF Nested
<1>3. u = t
  BY <1>1, <1>2, AroundTransitive
<1> QED
  BY <1>1, <1>2, <1>3, TopIs

\* What is on top of an item is a player or a tile, or nothing at all, and
\* then the item is in nothing.
LEMMA TopType ==
    ASSUME NEW par, Nested(par), NEW i \in Items
    PROVE  /\ TopParent(par, i) \in Players \cup Tiles \cup {Nowhere}
           /\ TopParent(par, i) \in Around(par, i)
           /\ TopParent(par, i) \notin Containers
           /\ TopParent(par, i) = Nowhere => par[i] = Nowhere
           /\ par[i] \notin Containers => TopParent(par, i) = par[i]
           /\ par[i] \in Containers => TopParent(par, par[i]) = TopParent(par, i)
<1>1. PICK t \in Players \cup Tiles \cup {Nowhere} :
          Around(par, i) \ Containers = {t} /\ (t = Nowhere => par[i] = Nowhere)
  BY DEF Nested
<1>2. TopParent(par, i) = t
  BY <1>1, TopIs
<1>3. par[i] \notin Containers => t = par[i]
  BY <1>1, AroundClosed
<1>4. par[i] \in Containers => TopParent(par, par[i]) = TopParent(par, i)
  BY AroundClosed, TopShared
<1> QED
  BY <1>1, <1>2, <1>3, <1>4

-----------------------------------------------------------------------------
(* One item moves *)

\* The places an item can move to: not into itself or what it holds, nor into
\* what is removed; and only what holds nothing is removed on its own.
CanGo(par, i, x) ==
    /\ x \in Places /\ x # i
    /\ x \in Containers => i \notin Around(par, x) /\ TopParent(par, x) # Nowhere
    /\ x = Nowhere => i \notin Containers

Moved(par, i, x) == [par EXCEPT ![i] = x]

\* What does not hold the item is where it was; the item is where it went.
LEMMA MoveElsewhere ==
    ASSUME NEW par \in [Items -> Places], NEW i \in Items, NEW x, NEW k \in Items \ {i},
           i \notin Around(par, k)
    PROVE  Around(Moved(par, i, x), k) = Around(par, k)
<1>1. Moved(par, i, x)[k] = par[k]
  BY DEF Moved
<1>2. \A c \in Around(par, k) \cap Containers : Moved(par, i, x)[c] = par[c]
  BY TradeAssumption DEF Moved, TradeAssumption
<1> QED
  BY <1>1, <1>2, AroundSame

LEMMA MoveThere ==
    ASSUME NEW par \in [Items -> Places], NEW i \in Items, NEW x, CanGo(par, i, x)
    PROVE  /\ x \in Containers => Around(Moved(par, i, x), i) = {x} \cup Around(par, x)
           /\ x \notin Containers => Around(Moved(par, i, x), i) = {x}
<1>1. Moved(par, i, x)[i] = x
  BY DEF Moved
<1>2. x \in Containers => Around(Moved(par, i, x), x) = Around(par, x)
  BY MoveElsewhere, TradeAssumption DEF CanGo, TradeAssumption
<1> QED
  BY <1>1, <1>2, AroundStep

\* What held the item still does.
LEMMA MoveKeepsHolding ==
    ASSUME NEW par \in [Items -> Places], NEW i \in Items, NEW x, CanGo(par, i, x),
           NEW k \in Items \ {i}
    PROVE  i \in Around(Moved(par, i, x), k) <=> i \in Around(par, k)
<1> DEFINE par2 == Moved(par, i, x)
<1>1. i \notin Around(par, k) => i \notin Around(par2, k)
  BY MoveElsewhere
<1>2. ASSUME i \notin Around(par2, k) PROVE i \notin Around(par, k)
  <2>1. par[k] = par2[k]
    BY DEF Moved
  <2>2. \A c \in Around(par2, k) \cap Containers : par[c] = par2[c]
    BY <1>2, TradeAssumption DEF Moved, TradeAssumption
  <2>3. Around(par, k) = Around(par2, k)
    <3> HIDE DEF par2
    <3> QED
      BY <2>1, <2>2, AroundSame
  <2> QED
    BY <1>2, <2>3
<1> QED
  BY <1>1, <1>2

\* From below the item the way up leads through it to its new place.
LEMMA MoveInside ==
    ASSUME NEW par \in [Items -> Places], NEW i \in Items, NEW x, CanGo(par, i, x),
           NEW k \in Items \ {i}, i \in Around(par, k), i \in Containers
    PROVE  Around(Moved(par, i, x), k) \subseteq
             (Around(par, k) \cap Containers) \cup Around(Moved(par, i, x), i)
<1> DEFINE par2 == Moved(par, i, x)
           below == {c \in Around(par, k) \cap Containers : c = i \/ i \in Around(par, c)}
           A == below \cup Around(par2, i)
<1> USE TradeAssumption DEF TradeAssumption
<1>1. ASSUME NEW c \in Items \ {i}, i \in Around(par, c)
      PROVE  par[c] \in Containers /\ (par[c] = i \/ i \in Around(par, par[c]))
  BY <1>1, AroundStep
<1>2. par2[k] \in A
  <2>1. par2[k] = par[k] /\ par[k] \in Around(par, k)
    BY AroundClosed DEF Moved
  <2> QED
    BY <1>1, <2>1
<1>3. ASSUME NEW c \in A \cap Containers PROVE par2[c] \in A
  <2>1. CASE c \in Around(par2, i)
    BY <2>1, AroundClosed
  <2>2. CASE c \in below \ {i}
    <3>1. par2[c] = par[c] /\ par[c] \in Around(par, k)
      BY <2>2, AroundClosed DEF Moved
    <3>2. par[c] \in Containers /\ (par[c] = i \/ i \in Around(par, par[c]))
      BY <1>1, <2>2
    <3> QED
      BY <3>1, <3>2
  <2>3. CASE c = i
    BY <2>3, AroundClosed
  <2> QED
    BY <1>3, <2>1, <2>2, <2>3
<1>4. Around(par2, k) \subseteq A
  <2> HIDE DEF A, par2
  <2> QED
    BY <1>2, <1>3, AroundLeast
<1> QED
  BY <1>4

LEMMA MoveKeepsNested ==
    ASSUME NEW par \in [Items -> Places], Nested(par),
           NEW i \in Items, NEW x, CanGo(par, i, x)
    PROVE  Moved(par, i, x) \in [Items -> Places] /\ Nested(Moved(par, i, x))
<1> DEFINE par2 == Moved(par, i, x)
<1> USE TradeAssumption DEF TradeAssumption
<1>1. par2 \in [Items -> Places]
  BY DEF CanGo, Moved
<1>2. PICK t \in Players \cup Tiles \cup {Nowhere} :
          /\ Around(par2, i) \ Containers = {t}
          /\ t = Nowhere => par2[i] = Nowhere /\ i \notin Containers
  <2>1. par2[i] = x
    BY DEF Moved
  <2>2. CASE x \in Containers
    <3>1. x \in Items /\ Around(par2, i) = {x} \cup Around(par, x)
      BY <2>2, MoveThere
    <3>2. PICK u \in Players \cup Tiles \cup {Nowhere} : Around(par, x) \ Containers = {u}
      BY <3>1 DEF Nested
    <3>3. u # Nowhere
      BY <2>2, <3>1, <3>2, TopIs DEF CanGo
    <3>4. Around(par2, i) \ Containers = {u}
      BY <2>2, <3>1, <3>2
    <3> QED
      BY <3>3, <3>4
  <2>3. CASE x \notin Containers
    <3>1. Around(par2, i) = {x}
      BY <2>3, MoveThere
    <3>2. x \in Players \cup Tiles \cup {Nowhere}
      BY <2>3 DEF CanGo, Places, Cylinders
    <3>3. x = Nowhere => i \notin Containers
      BY DEF CanGo
    <3> QED
      BY <2>1, <2>3, <3>1, <3>2, <3>3
  <2> QED
    BY <2>2, <2>3
<1>3. i \notin Around(par2, i)
  BY MoveThere DEF CanGo
<1>4. ASSUME NEW k \in Items \ {i}
      PROVE  /\ k \notin Around(par2, k)
             /\ \E u \in Players \cup Tiles \cup {Nowhere} :
                   Around(par2, k) \ Containers = {u} /\ (u = Nowhere => par2[k] = Nowhere)
  <2>1. par2[k] = par[k]
    BY DEF Moved
  <2>2. CASE i \notin Around(par, k)
    BY <2>1, <2>2, MoveElsewhere DEF Nested
  <2>3. CASE i \in Around(par, k)
    <3>1. i \in Containers
      BY <2>3, AroundType DEF Places, Cylinders
    <3>2. Around(par2, k) \subseteq (Around(par, k) \cap Containers) \cup Around(par2, i)
      BY <2>3, <3>1, MoveInside
    <3>3. i \in Around(par2, k)
      BY <2>3, MoveKeepsHolding
    <3>4. Around(par2, i) \subseteq Around(par2, k)
      BY <3>1, <3>3, AroundTransitive
    <3>5. k \notin Around(par2, i)
      <4>1. SUFFICES ASSUME x \in Containers, k = x \/ k \in Around(par, x) PROVE FALSE
        <5>1. x \notin Containers => x # k
          BY DEF CanGo, Places, Cylinders
        <5> QED
          BY <5>1, MoveThere
      <4>2. i \in Around(par, x)
        <5>1. k = x => i \in Around(par, x)
          BY <2>3
        <5>2. CASE k \in Around(par, x) /\ k # x
          <6>1. k \in Containers
            BY <5>2, AroundType, <4>1 DEF Places, Cylinders
          <6> QED
            BY <2>3, <5>2, <6>1, AroundTransitive
        <5> QED
          BY <4>1, <5>1, <5>2
      <4> QED
        BY <4>1, <4>2 DEF CanGo
    <3>6. k \notin Around(par2, k)
      BY <3>2, <3>5 DEF Nested
    <3>7. Around(par2, k) \ Containers = {t} /\ t # Nowhere
      BY <1>2, <3>1, <3>2, <3>4
    <3> QED
      BY <3>6, <3>7
  <2> QED
    BY <2>2, <2>3
<1>5. Nested(par2)
  <2> HIDE DEF par2
  <2> QED
    BY <1>2, <1>3, <1>4 DEF Nested
<1> QED
  BY <1>1, <1>5

-----------------------------------------------------------------------------
(* Notifications *)

LEMMA MoveTop ==
    ASSUME NEW par \in [Items -> Places], Nested(par),
           NEW i \in Items, NEW x, CanGo(par, i, x)
    PROVE  /\ TopParent(Moved(par, i, x), i) = IF x \in Containers THEN TopParent(par, x) ELSE x
           /\ \A k \in Items \ {i} :
                 TopParent(Moved(par, i, x), k) = IF i \in Around(par, k)
                                                  THEN TopParent(Moved(par, i, x), i)
                                                  ELSE TopParent(par, k)
<1> DEFINE par2 == Moved(par, i, x)
<1> USE TradeAssumption DEF TradeAssumption
<1>1. par2 \in [Items -> Places] /\ Nested(par2) /\ par2[i] = x
  BY MoveKeepsNested DEF Moved
<1>2. TopParent(par2, i) = IF x \in Containers THEN TopParent(par, x) ELSE x
  <2>1. x \in Containers => TopParent(par2, x) = TopParent(par, x)
    BY MoveElsewhere DEF CanGo, TopParent
  <2> HIDE DEF par2
  <2> QED
    BY <1>1, <2>1, TopType
<1>3. ASSUME NEW k \in Items \ {i}, i \in Around(par, k)
      PROVE  TopParent(par2, k) = TopParent(par2, i)
  <2>1. i \in Containers
    BY <1>3, AroundType DEF Places, Cylinders
  <2>2. i \in Around(par2, k)
    BY <1>3, MoveKeepsHolding
  <2> HIDE DEF par2
  <2> QED
    BY <1>1, <2>1, <2>2, TopShared
<1>4. ASSUME NEW k \in Items \ {i}, i \notin Around(par, k)
      PROVE  TopParent(par2, k) = TopParent(par, k)
  BY <1>4, MoveElsewhere DEF TopParent
<1> QED
  BY <1>2, <1>3, <1>4

\* An item, and an offer it is, holds or is held by.
Touches(par, i, o) == o = i \/ o \in Around(par, i) \/ i \in Around(par, o)

LEMMA TouchesShareTop ==
    ASSUME NEW par \in [Items -> Places], Nested(par), NEW i \in Items, NEW o \in Items,
           Touches(par, i, o)
    PROVE  TopParent(par, i) = TopParent(par, o)
<1> USE TradeAssumption DEF TradeAssumption
<1>1. o \in Around(par, i) => o \in Containers
  BY AroundType DEF Places, Cylinders
<1>2. i \in Around(par, o) => i \in Containers
  BY AroundType DEF Places, Cylinders
<1> QED
  BY <1>1, <1>2, TopShared DEF Touches

\* The offer o is where its owner r could hand it over.
InReach(par, r, o) ==
    TopParent(par, o) \in {r} \cup Tiles /\ InRange(Position(par, pos, o), pos[r], 1)

\* The owner of an offer is told of every change under what it is under.
LEMMA OwnerIsTold ==
    ASSUME TypeOK, NEW par \in [Items -> Places], Nested(par),
           NEW r \in Players, NEW o \in Items, NEW i \in Items,
           InReach(par, r, o), TopParent(par, i) = TopParent(par, o)
    PROVE  Notified(par, par[i], r)
<1> USE TradeAssumption DEF TradeAssumption
<1>1. CASE par[i] \in Containers
  <2>1. TopParent(par, par[i]) = TopParent(par, o)
    BY <1>1, TopType
  <2>2. Position(par, pos, par[i]) = Position(par, pos, o)
    BY <2>1 DEF Position
  <2>3. Position(par, pos, o) \in Nat /\ pos[r] \in Nat
    BY DEF InReach, Position, TypeOK
  <2>4. InRange(Position(par, pos, o), pos[r], 2)
    BY <2>3 DEF InReach, InRange
  <2> QED
    BY <1>1, <2>2, <2>4 DEF Notified
<1>2. CASE par[i] \notin Containers
  <2>1. par[i] \in {r} \cup Tiles
    BY <1>2, TopType DEF InReach
  <2> QED
    BY <2>1 DEF Notified
<1> QED
  BY <1>1, <1>2

LEMMA RemoveCloses ==
    ASSUME TypeOK, NEW par \in [Items -> Places], Nested(par),
           NEW r \in online, NEW o \in Items, NEW i \in Items,
           trade[r].item = o, InReach(par, r, o), Touches(par, i, o)
    PROVE  r \in ClosedByRemove(par, i)
<1>1. Notified(par, par[i], r)
  BY TouchesShareTop, OwnerIsTold DEF TypeOK
<1>2. o # NoItem
  BY TradeAssumption DEF TradeAssumption
<1>3. ConcernsOffer(par, i, o) \/ Holds(par, i, o)
  BY DEF Touches, ConcernsOffer, Holds
<1> QED
  BY <1>1, <1>2, <1>3 DEF ClosedByRemove, ClosedBy

LEMMA UpdateCloses ==
    ASSUME TypeOK, NEW par \in [Items -> Places], Nested(par),
           NEW r \in online, NEW o \in Items, NEW i \in Items,
           trade[r].item = o, InReach(par, r, o), o = i \/ o \in Around(par, i)
    PROVE  /\ r \in ClosedByUpdate(par, i)
           /\ par[i] \in Containers => r \in ClosedByAdd(par, i)
<1>1. Touches(par, i, o)
  BY DEF Touches
<1>2. Notified(par, par[i], r)
  BY <1>1, TouchesShareTop, OwnerIsTold DEF TypeOK
<1>3. o # NoItem
  BY TradeAssumption DEF TradeAssumption
<1>4. ConcernsOffer(par, i, o)
  BY DEF ConcernsOffer, Holds
<1> QED
  BY <1>2, <1>3, <1>4 DEF ClosedByUpdate, ClosedByAdd, ClosedBy

-----------------------------------------------------------------------------
(* The offers that survive a step *)

LEMMA OwnerOf ==
    ASSUME IInv, OfferInReach, NEW r \in Players, NEW o \in Items, trade[r].item = o
    PROVE  r \in online /\ o \in Offered /\ InReach(parent, r, o) /\ trade[r].state # "NONE"
<1> USE TradeAssumption DEF TradeAssumption
<1>1. trade[r].state # "NONE"
  BY DEF IInv, TradesPaired, Idle
<1> QED
  BY <1>1 DEF IInv, TradesPaired, OffersRegistered, OfferInReach, InReach, Offered

\* What the change of the items M means for offers (see Record).
Changed(par, par2, M) ==
    {k \in Items : \E i \in M :
        k = i \/ Holds(par, k, i) \/ Holds(par2, k, i) \/ Holds(par, i, k)}

\* Where players stand still, it is enough that the step ends the trade of
\* every offer it changes or moves.
LEMMA EndHolds ==
    ASSUME IInv, IInv', OffersHold, NEW S \in SUBSET Players, CloseTrades(S), pos' = pos,
           NEW par2, NEW M, Record(parent, par2, M),
           \A r \in Players \ S : \A o \in Items : trade[r].item = o /\ trade'[r] # Idle =>
              Around(parent', o) = Around(parent, o) /\ o \notin Changed(parent, par2, M)
    PROVE  OffersHold'
<1> USE TradeAssumption DEF TradeAssumption
<1>1. ASSUME NEW r \in Players, trade'[r] # Idle
      PROVE  r \notin S /\ trade'[r] = trade[r]
  BY <1>1, ClosingIsPaired
<1>2. ASSUME NEW o \in Offered'
      PROVE  /\ o \in Offered /\ o \in Items
             /\ Around(parent', o) = Around(parent, o) /\ o \notin Changed(parent, par2, M)
  <2> DEFINE r == tradeItems'[o]
  <2>1. o \in Items /\ r \in Players /\ trade'[r].item = o
    BY <1>2 DEF Offered, IInv, TypeOK, OffersRegistered
  <2>2. trade'[r] # Idle
    BY <2>1 DEF Idle
  <2>3. r \in Players \ S /\ trade[r].item = o
    BY <1>1, <2>1, <2>2
  <2>4. o \in Offered
    BY <2>1, <2>3, OwnerOf DEF OffersHold
  <2> QED
    BY <2>1, <2>2, <2>3, <2>4
<1>3. OffersDisjoint'
  BY <1>2 DEF OffersHold, OffersDisjoint, Holds
<1>4. OfferInReach'
  <2>1. SUFFICES ASSUME NEW r \in Players, trade'[r].state # "NONE"
                 PROVE  /\ InRange(pos'[r], pos'[trade'[r].partner], 2)
                        /\ trade'[r].item # NoItem =>
                             /\ TopParent(parent', trade'[r].item) \in {r} \cup Tiles
                             /\ InRange(Position(parent', pos', trade'[r].item), pos'[r], 1)
    BY DEF OfferInReach
  <2>2. r \in Players \ S /\ trade'[r] = trade[r] /\ trade'[r] # Idle
    BY <1>1, <2>1 DEF Idle
  <2>3. InRange(pos'[r], pos'[trade'[r].partner], 2)
    BY <2>1, <2>2 DEF OffersHold, OfferInReach
  <2>4. ASSUME trade'[r].item # NoItem
        PROVE  /\ TopParent(parent', trade'[r].item) \in {r} \cup Tiles
               /\ InRange(Position(parent', pos', trade'[r].item), pos'[r], 1)
    <3> DEFINE o == trade[r].item
    <3>1. o \in Items
      BY <2>2, <2>4 DEF IInv, TypeOK
    <3>2. Around(parent', o) = Around(parent, o)
      BY <2>2, <3>1
    <3>3. TopParent(parent', o) = TopParent(parent, o)
      BY <3>2 DEF TopParent
    <3>4. Position(parent', pos', o) = Position(parent, pos, o)
      BY <3>3 DEF Position
    <3>5. InReach(parent, r, o)
      BY <3>1, OwnerOf DEF OffersHold
    <3> QED
      BY <2>2, <3>3, <3>4, <3>5 DEF InReach
  <2> QED
    BY <2>3, <2>4
<1>5. OfferUnchanged'
  <2>1. \A k \in touched' : (k \in touched \/ k \in Changed(parent, par2, M)) /\ k \in Offered'
    BY DEF Record, Changed, Offered
  <2>2. touched = {}
    BY DEF OffersHold, OfferUnchanged
  <2> QED
    BY <1>2, <2>1, <2>2 DEF OfferUnchanged
<1> QED
  BY <1>3, <1>4, <1>5 DEF OffersHold

-----------------------------------------------------------------------------
(* The steps and the offers *)

OfferInv == IInv /\ Nested(parent) /\ OffersHold

LEMMA ChangedByOne ==
    ASSUME NEW par, NEW par2, NEW i, NEW o \in Items, ~Touches(par, i, o),
           o \notin Around(par2, i)
    PROVE  o \notin Changed(par, par2, {i})
BY DEF Changed, Touches, Holds

LEMMA ChangedByTwo ==
    ASSUME NEW par, NEW par2, NEW i, NEW k, NEW o \in Items,
           ~Touches(par, i, o), ~Touches(par, k, o),
           o \notin Around(par2, i), o \notin Around(par2, k)
    PROVE  o \notin Changed(par, par2, {i, k})
BY DEF Changed, Touches, Holds

LEMMA ReachKept ==
    ASSUME NEW par, NEW par2, NEW r, NEW o, InReach(par, r, o), Around(par2, o) = Around(par, o)
    PROVE  InReach(par2, r, o) /\ TopParent(par2, o) = TopParent(par, o)
BY DEF InReach, Position, TopParent

LEMMA FitsCanGo ==
    ASSUME NEW par, NEW i, NEW x \in Cylinders, Fits(par, i, x),
           x \in Containers => TopParent(par, x) # Nowhere
    PROVE  CanGo(par, i, x)
BY TradeAssumption DEF CanGo, Fits, Holds, Places, Cylinders, TradeAssumption

\* Nothing is held by what is not a container.
LEMMA OnlyContainersHold ==
    ASSUME NEW par \in [Items -> Places], NEW i \in Items \ Containers, NEW k \in Items
    PROVE  i \notin Around(par, k)
BY AroundType, TradeAssumption DEF Places, Cylinders, TradeAssumption

LEMMA StateTypes ==
    ASSUME IInv
    PROVE  /\ TypeOK /\ parent \in [Items -> Places] /\ online \subseteq Players
           /\ trade \in [Players -> TRec]
BY DEF IInv, TypeOK, Places, TRec

LEMMA ReachableTop ==
    ASSUME NEW p \in Players, NEW i, Reachable(p, i)
    PROVE  TopParent(parent, i) \in {p} \cup Tiles /\ TopParent(parent, i) # Nowhere
BY TradeAssumption DEF Reachable, TradeAssumption

\* Ending trades without moving anything
LEMMA CancelHolds ==
    ASSUME OfferInv, IInv', NEW S \in SUBSET Players, CloseTrades(S), pos' = pos,
           parent' = parent, Record(parent, parent, {})
    PROVE  OfferInv'
<1>1. \A o : o \notin Changed(parent, parent, {})
  BY DEF Changed
<1>2. OffersHold'
  BY <1>1, EndHolds DEF OfferInv
<1> QED
  BY <1>2 DEF OfferInv

LEMMA MoveItemHolds ==
    ASSUME OfferInv, IInv', NEW p \in Players, NEW i \in Items, NEW x \in Cylinders, MoveItem(p, i, x)
    PROVE  OfferInv'
<1> USE TradeAssumption DEF TradeAssumption
<1> DEFINE S == ClosedByRemove(parent, i) \cup ClosedByAdd(parent', i)
<1>1. IInv /\ Nested(parent) /\ OffersHold /\ TypeOK /\ parent \in [Items -> Places]
  BY StateTypes DEF OfferInv
<1>2. parent' = Moved(parent, i, x) /\ CloseTrades(S) /\ pos' = pos /\ Record(parent, parent', {i})
  BY DEF MoveItem, Moved
<1>3. CanGo(parent, i, x)
  <2>1. x \in Containers => TopParent(parent, x) # Nowhere
    BY ReachableTop DEF MoveItem
  <2> QED
    BY <2>1, FitsCanGo DEF MoveItem
<1>4. parent' \in [Items -> Places] /\ Nested(parent')
  BY <1>1, <1>2, <1>3, MoveKeepsNested
<1>5. S \in SUBSET Players
  BY <1>1, ClosedByType DEF TypeOK
<1>6. ASSUME NEW r \in Players \ S, NEW o \in Items, trade[r].item = o
      PROVE  Around(parent', o) = Around(parent, o) /\ o \notin Changed(parent, parent', {i})
  <2>1. r \in online /\ InReach(parent, r, o)
    BY <1>1, <1>6, OwnerOf DEF OffersHold
  <2>2. ~Touches(parent, i, o)
    BY <1>1, <1>6, <2>1, RemoveCloses
  <2>3. Around(parent', o) = Around(parent, o)
    BY <1>1, <1>2, <2>2, MoveElsewhere DEF Touches
  <2>4. InReach(parent', r, o)
    BY <2>1, <2>3, ReachKept
  <2>5. ASSUME o \in Around(parent', i) PROVE FALSE
    <3>1. o \in Containers
      BY <1>4, <2>5, AroundType DEF Places, Cylinders
    <3>2. parent'[i] = x
      BY <1>1, <1>2 DEF Moved
    <3>3. x \in Containers
      BY <1>1, <1>2, <1>3, <2>5, <3>1, MoveThere DEF Cylinders
    <3>4. r \in ClosedByAdd(parent', i)
      BY <1>1, <1>4, <1>6, <2>1, <2>4, <2>5, <3>2, <3>3, UpdateCloses
    <3> QED
      BY <1>6, <3>4
  <2> QED
    BY <2>2, <2>3, <2>5, ChangedByOne
<1>7. OffersHold'
  <2>1. CloseTrades(S) /\ pos' = pos /\ Record(parent, parent', {i})
    BY <1>2
  <2> HIDE DEF S
  <2> QED
    BY <1>1, <1>5, <1>6, <2>1, EndHolds
<1> QED
  BY <1>4, <1>7 DEF OfferInv

LEMMA MergeItemHolds ==
    ASSUME OfferInv, IInv', NEW p \in Players, NEW i \in Items, NEW k \in Items, MergeItem(p, i, k)
    PROVE  OfferInv'
<1> USE TradeAssumption DEF TradeAssumption
<1>1. IInv /\ Nested(parent) /\ OffersHold /\ TypeOK /\ parent \in [Items -> Places]
  BY StateTypes DEF OfferInv
<1>2. i \notin Containers /\ k \notin Containers /\ pos' = pos /\ Record(parent, parent, {i, k})
  BY DEF MergeItem
<1>3. PICK S \in SUBSET Players :
        /\ CloseTrades(S)
        /\ ClosedByUpdate(parent, k) \subseteq S
        /\ ClosedByUpdate(parent, i) \subseteq S \/ ClosedByRemove(parent, i) \subseteq S
        /\ parent' = parent \/ parent' = Moved(parent, i, Nowhere)
  <2>1. /\ ClosedByRemove(parent, i) \cup ClosedByUpdate(parent, k) \in SUBSET Players
        /\ ClosedByUpdate(parent, i) \cup ClosedByUpdate(parent, k) \in SUBSET Players
    BY <1>1, ClosedByType DEF TypeOK
  <2>2. CASE parent' = [parent EXCEPT ![i] = Nowhere]
             /\ CloseTrades(ClosedByRemove(parent, i) \cup ClosedByUpdate(parent, k))
    BY <2>1, <2>2 DEF Moved
  <2>3. CASE parent' = parent
             /\ CloseTrades(ClosedByUpdate(parent, i) \cup ClosedByUpdate(parent, k))
    BY <2>1, <2>3
  <2> QED
    BY <2>2, <2>3 DEF MergeItem
<1>4. CanGo(parent, i, Nowhere)
  BY <1>2 DEF CanGo, Places
<1>5. Nested(parent')
  BY <1>1, <1>3, <1>4, MoveKeepsNested
<1>6. ASSUME NEW r \in Players \ S, NEW o \in Items, trade[r].item = o
      PROVE  Around(parent', o) = Around(parent, o) /\ o \notin Changed(parent, parent, {i, k})
  <2>1. r \in online /\ InReach(parent, r, o)
    BY <1>1, <1>6, OwnerOf DEF OffersHold
  <2>2. i \notin Around(parent, o) /\ k \notin Around(parent, o)
    BY <1>1, <1>2, OnlyContainersHold
  <2>3. ~Touches(parent, i, o)
    BY <1>1, <1>3, <1>6, <2>1, <2>2, RemoveCloses, UpdateCloses DEF Touches
  <2>4. ~Touches(parent, k, o)
    BY <1>1, <1>3, <1>6, <2>1, <2>2, UpdateCloses DEF Touches
  <2>5. Around(parent', o) = Around(parent, o)
    BY <1>1, <1>3, <2>2, <2>3, MoveElsewhere DEF Touches
  <2>6. o \notin Around(parent, i) /\ o \notin Around(parent, k)
    BY <2>3, <2>4 DEF Touches
  <2> QED
    BY <2>3, <2>4, <2>5, <2>6, ChangedByTwo
<1>7. OffersHold'
  BY <1>1, <1>2, <1>3, <1>6, EndHolds
<1> QED
  BY <1>5, <1>7 DEF OfferInv

LEMMA SplitItemHolds ==
    ASSUME OfferInv, IInv', NEW p \in Players, NEW i \in Items, NEW k \in Items, NEW x \in Cylinders,
           SplitItem(p, i, k, x)
    PROVE  OfferInv'
<1> USE TradeAssumption DEF TradeAssumption
<1> DEFINE S == ClosedByUpdate(parent, i) \cup ClosedByAdd(parent', k)
<1>1. IInv /\ Nested(parent) /\ OffersHold /\ TypeOK /\ parent \in [Items -> Places]
  BY StateTypes DEF OfferInv
<1>2. /\ parent' = Moved(parent, k, x) /\ CloseTrades(S) /\ pos' = pos
      /\ Record(parent, parent', {i, k}) /\ parent[k] = Nowhere
      /\ i \notin Containers /\ k \notin Containers
      /\ TopParent(parent, i) # Nowhere
  BY ReachableTop DEF SplitItem, Moved
<1>3. CanGo(parent, k, x)
  <2>1. x \in Containers => TopParent(parent, x) # Nowhere
    BY ReachableTop DEF SplitItem
  <2>2. x \in Containers => k \notin Around(parent, x)
    BY <1>1, <1>2, OnlyContainersHold
  <2> QED
    BY <1>2, <2>1, <2>2 DEF CanGo, Places, Cylinders
<1>4. parent' \in [Items -> Places] /\ Nested(parent')
  BY <1>1, <1>2, <1>3, MoveKeepsNested
<1>5. S \in SUBSET Players
  BY <1>1, ClosedByType DEF TypeOK
<1>6. i # k /\ Around(parent, k) = {Nowhere}
  <2>1. Around(parent, k) = {Nowhere}
    BY <1>2, AroundStep
  <2>2. TopParent(parent, k) = Nowhere
    BY <1>1, <1>2, TopType
  <2> QED
    BY <1>2, <2>1, <2>2
<1>7. ASSUME NEW r \in Players \ S, NEW o \in Items, trade[r].item = o
      PROVE  Around(parent', o) = Around(parent, o) /\ o \notin Changed(parent, parent', {i, k})
  <2>1. r \in online /\ InReach(parent, r, o)
    BY <1>1, <1>7, OwnerOf DEF OffersHold
  <2>2. i \notin Around(parent, o) /\ k \notin Around(parent, o)
    BY <1>1, <1>2, OnlyContainersHold
  <2>3. ~Touches(parent, i, o)
    BY <1>1, <1>7, <2>1, <2>2, UpdateCloses DEF Touches
  <2>4. ~Touches(parent, k, o)
    <3>1. o # k
      <4>1. TopParent(parent, k) = Nowhere
        BY <1>1, <1>2, TopType
      <4> QED
        BY <2>1, <4>1 DEF InReach
    <3> QED
      BY <1>6, <2>2, <3>1 DEF Touches
  <2>5. Around(parent', o) = Around(parent, o)
    BY <1>1, <1>2, <2>4, MoveElsewhere DEF Touches
  <2>6. Around(parent', i) = Around(parent, i)
    BY <1>1, <1>2, <1>6, OnlyContainersHold, MoveElsewhere
  <2>7. InReach(parent', r, o)
    BY <2>1, <2>5, ReachKept
  <2>8. ASSUME o \in Around(parent', k) PROVE FALSE
    <3>1. o \in Containers
      BY <1>4, <2>8, AroundType DEF Places, Cylinders
    <3>2. parent'[k] = x
      BY <1>1, <1>2 DEF Moved
    <3>3. x \in Containers
      BY <1>1, <1>2, <1>3, <2>8, <3>1, MoveThere DEF Cylinders
    <3>4. r \in ClosedByAdd(parent', k)
      BY <1>1, <1>4, <1>7, <2>1, <2>7, <2>8, <3>2, <3>3, UpdateCloses
    <3> QED
      BY <1>7, <3>4
  <2>9. o \notin Around(parent', i)
    BY <2>3, <2>6 DEF Touches
  <2> QED
    BY <2>3, <2>4, <2>5, <2>8, <2>9, ChangedByTwo
<1>8. OffersHold'
  <2>1. CloseTrades(S) /\ pos' = pos /\ Record(parent, parent', {i, k})
    BY <1>2
  <2> HIDE DEF S
  <2> QED
    BY <1>1, <1>5, <1>7, <2>1, EndHolds
<1> QED
  BY <1>4, <1>8 DEF OfferInv

LEMMA ExchangeItemHolds ==
    ASSUME OfferInv, IInv', NEW p \in Players, NEW i \in Items, NEW k \in Items,
           ExchangeItem(p, i, k)
    PROVE  OfferInv'
<1> USE TradeAssumption DEF TradeAssumption
<1> DEFINE one == Moved(parent, k, parent[i])
           S == ClosedByRemove(parent, k) \cup ClosedByAdd(one, k) \cup ClosedByRemove(one, i)
<1>1. IInv /\ Nested(parent) /\ OffersHold /\ TypeOK /\ parent \in [Items -> Places]
  BY StateTypes DEF OfferInv
<1>2. /\ parent' = Moved(one, i, p) /\ CloseTrades(S) /\ pos' = pos
      /\ Record(parent, parent', {i, k}) /\ parent[k] = p /\ i # k
      /\ k \notin Containers /\ parent[i] \in Containers \cup Tiles
      /\ TopParent(parent, i) # Nowhere
  BY ReachableTop DEF ExchangeItem, Moved
<1>3. CanGo(parent, k, parent[i])
  <2>1. parent[i] \in Containers => TopParent(parent, parent[i]) # Nowhere
    BY <1>1, <1>2, TopType
  <2>2. parent[i] \in Containers => k \notin Around(parent, parent[i])
    BY <1>1, <1>2, OnlyContainersHold
  <2> QED
    BY <1>2, <2>1, <2>2 DEF CanGo, Places, Cylinders
<1>4. one \in [Items -> Places] /\ Nested(one) /\ one[k] = parent[i]
  BY <1>1, <1>3, MoveKeepsNested DEF Moved
<1>5. CanGo(one, i, p)
  BY <1>2 DEF CanGo, Places, Cylinders
<1>6. parent' \in [Items -> Places] /\ Nested(parent')
  <2> HIDE DEF one
  <2> QED
    BY <1>2, <1>4, <1>5, MoveKeepsNested
<1>7. S \in SUBSET Players
  <2> HIDE DEF one
  <2> QED
    BY <1>1, ClosedByType DEF TypeOK
<1>8. Around(one, i) = Around(parent, i)
  BY <1>1, <1>2, OnlyContainersHold, MoveElsewhere
<1>9. Around(parent', i) = {p}
  <2> HIDE DEF one
  <2> QED
    BY <1>2, <1>4, <1>5, MoveThere
<1>10. Around(parent', k) = Around(one, k)
  <2>1. i \notin Around(one, k)
    <3>1. Around(one, k) = IF parent[i] \in Containers
                           THEN {parent[i]} \cup Around(parent, parent[i]) ELSE {parent[i]}
      BY <1>1, <1>3, MoveThere
    <3>2. parent[i] \in Containers => Around(parent, i) = {parent[i]} \cup Around(parent, parent[i])
      BY AroundStep
    <3>3. parent[i] \notin Containers => Around(parent, i) = {parent[i]}
      BY AroundStep
    <3>4. i \notin Around(parent, i)
      BY <1>1 DEF Nested
    <3> QED
      BY <3>1, <3>2, <3>3, <3>4
  <2> HIDE DEF one
  <2> QED
    BY <1>2, <1>4, <2>1, MoveElsewhere
<1>11. ASSUME NEW r \in Players \ S, NEW o \in Items, trade[r].item = o
      PROVE  Around(parent', o) = Around(parent, o) /\ o \notin Changed(parent, parent', {i, k})
  <2>1. r \in online /\ InReach(parent, r, o)
    BY <1>1, <1>11, OwnerOf DEF OffersHold
  <2>2. ~Touches(parent, k, o)
    BY <1>1, <1>11, <2>1, RemoveCloses
  <2>3. Around(one, o) = Around(parent, o)
    BY <1>1, <2>2, MoveElsewhere DEF Touches
  <2>4. InReach(one, r, o)
    BY <2>1, <2>3, ReachKept
  <2>5. ~Touches(one, i, o)
    <3> HIDE DEF one
    <3> QED
      BY <1>1, <1>4, <1>11, <2>1, <2>4, RemoveCloses
  <2>6. ~Touches(parent, i, o)
    BY <1>8, <2>3, <2>5 DEF Touches
  <2>7. Around(parent', o) = Around(one, o)
    <3> HIDE DEF one
    <3> QED
      BY <1>2, <1>4, <2>5, MoveElsewhere DEF Touches
  <2>8. o \notin Around(parent', i)
    BY <1>9
  <2>9. ASSUME o \in Around(one, k) PROVE FALSE
    <3>1. o \in Containers
      <4> HIDE DEF one
      <4> QED
        BY <1>4, <2>9, AroundType DEF Places, Cylinders
    <3>2. one[k] \in Containers
      <4> HIDE DEF one
      <4> QED
        BY <1>2, <1>4, <2>9, <3>1, AroundStep DEF Cylinders
    <3>3. r \in ClosedByAdd(one, k)
      <4> HIDE DEF one
      <4> QED
        BY <1>1, <1>4, <1>11, <2>1, <2>4, <2>9, <3>2, UpdateCloses
    <3> QED
      BY <1>11, <3>3
  <2> QED
    BY <1>10, <2>2, <2>3, <2>6, <2>7, <2>8, <2>9, ChangedByTwo
<1>12. OffersHold'
  <2>1. CloseTrades(S) /\ pos' = pos /\ Record(parent, parent', {i, k})
    BY <1>2
  <2> HIDE DEF S
  <2> QED
    BY <1>1, <1>7, <1>11, <2>1, EndHolds
<1> QED
  BY <1>6, <1>12 DEF OfferInv

LEMMA RemoveItemHolds ==
    ASSUME OfferInv, IInv', NEW i \in Items, RemoveItem(i)
    PROVE  OfferInv'
<1> USE TradeAssumption DEF TradeAssumption
<1> DEFINE Gone(k) == k = i \/ i \in Around(parent, k)
           par2 == [k \in Items |-> IF Gone(k) THEN Nowhere ELSE parent[k]]
           S == ClosedByRemove(parent, i)
<1>1. IInv /\ Nested(parent) /\ OffersHold /\ TypeOK /\ parent \in [Items -> Places]
  BY StateTypes DEF OfferInv
<1>2. parent' = par2 /\ CloseTrades(S) /\ pos' = pos /\ Record(parent, parent, {i})
  BY DEF RemoveItem, Holds
<1>3. S \in SUBSET Players
  BY <1>1, ClosedByType DEF TypeOK
<1>4. ASSUME NEW k \in Items, ~Gone(k)
      PROVE  par2[k] = parent[k] /\ Around(par2, k) = Around(parent, k)
  <2>1. ASSUME NEW c \in Around(parent, k) \cap Containers
        PROVE  par2[c] = parent[c]
    <3>1. ~Gone(c)
      BY <1>4, <2>1, AroundTransitive
    <3> QED
      BY <2>1, <3>1
  <2>2. par2[k] = parent[k]
    BY <1>4
  <2> HIDE DEF par2
  <2> QED
    BY <2>1, <2>2, AroundSame
<1>5. ASSUME NEW k \in Items, Gone(k)
      PROVE  par2[k] = Nowhere /\ Around(par2, k) = {Nowhere}
  <2>1. par2[k] = Nowhere
    BY <1>5
  <2> HIDE DEF par2
  <2> QED
    BY <2>1, AroundStep
<1>6. Nested(par2)
  <2>1. ASSUME NEW k \in Items
        PROVE  /\ k \notin Around(par2, k)
               /\ \E t \in Players \cup Tiles \cup {Nowhere} :
                     Around(par2, k) \ Containers = {t} /\ (t = Nowhere => par2[k] = Nowhere)
    <3>1. CASE Gone(k)
      BY <1>5, <3>1
    <3>2. CASE ~Gone(k)
      BY <1>1, <1>4, <3>2 DEF Nested
    <3> QED
      BY <3>1, <3>2
  <2> HIDE DEF par2
  <2> QED
    BY <2>1 DEF Nested
<1>7. ASSUME NEW r \in Players \ S, NEW o \in Items, trade[r].item = o
      PROVE  Around(parent', o) = Around(parent, o) /\ o \notin Changed(parent, parent, {i})
  <2>1. r \in online /\ InReach(parent, r, o)
    BY <1>1, <1>7, OwnerOf DEF OffersHold
  <2>2. ~Touches(parent, i, o)
    BY <1>1, <1>7, <2>1, RemoveCloses
  <2>3. ~Gone(o) /\ o \notin Around(parent, i)
    BY <2>2 DEF Touches
  <2> HIDE DEF par2, Gone
  <2> QED
    BY <1>2, <1>4, <2>2, <2>3, ChangedByOne
<1>8. OffersHold'
  <2> HIDE DEF S, par2
  <2> QED
    BY <1>1, <1>2, <1>3, <1>7, EndHolds
<1> QED
  BY <1>2, <1>6, <1>8 DEF OfferInv

LEMMA WalkHolds ==
    ASSUME OfferInv, IInv', NEW p \in Players, NEW x \in Tiles, Walk(p, x)
    PROVE  OfferInv'
<1> USE TradeAssumption DEF TradeAssumption
<1> DEFINE S == IF LeavesReach(p, x) THEN {p} ELSE {}
           pos2 == [pos EXCEPT ![p] = x]
<1>1. IInv /\ Nested(parent) /\ OffersHold /\ TypeOK /\ parent \in [Items -> Places]
  BY StateTypes DEF OfferInv
<1>2. /\ parent' = parent /\ CloseTrades(S) /\ pos' = pos2
      /\ Record(parent, parent, {}) /\ S \in SUBSET Players
  BY DEF Walk
<1>3. ASSUME NEW r \in Players, trade'[r] # Idle
      PROVE  /\ r \notin S /\ trade'[r] = trade[r] /\ trade[r].partner \in Players
             /\ trade'[trade[r].partner] = trade[trade[r].partner]
  <2> HIDE DEF S
  <2> QED
    BY <1>1, <1>2, <1>3, ClosingIsPaired
<1>4. OffersDisjoint'
  <2>1. Offered' \subseteq Offered
    BY <1>2 DEF CloseTrades, Offered
  <2> QED
    BY <1>1, <1>2, <2>1 DEF OffersHold, OffersDisjoint
<1>5. OfferUnchanged'
  BY <1>1, <1>2 DEF Record, OffersHold, OfferUnchanged
<1>6. OfferInReach'
  <2>1. SUFFICES ASSUME NEW r \in Players, trade'[r].state # "NONE"
                 PROVE  /\ InRange(pos'[r], pos'[trade'[r].partner], 2)
                        /\ trade'[r].item # NoItem =>
                             /\ TopParent(parent', trade'[r].item) \in {r} \cup Tiles
                             /\ InRange(Position(parent', pos', trade'[r].item), pos'[r], 1)
    BY DEF OfferInReach
  <2> DEFINE q == trade[r].partner
             o == trade[r].item
  <2>2. /\ r \notin S /\ trade'[r] = trade[r] /\ q \in Players \ {r} /\ trade'[q] = trade[q]
        /\ trade[r].state # "NONE" /\ trade[q].partner = r
    <3>1. trade'[r] # Idle
      BY <2>1 DEF Idle
    <3>2. trade'[r] = trade[r] /\ q \in Players /\ trade'[q] = trade[q] /\ r \notin S
      BY <1>3, <3>1
    <3>3. q # r /\ trade[q].partner = r
      BY <1>1, <2>1, <3>2 DEF IInv, TradesPaired
    <3> QED
      BY <2>1, <3>2, <3>3
  <2>3. q \notin S
    <3>1. trade'[q] # Idle
      BY <2>2 DEF Idle
    <3> QED
      BY <1>3, <2>2, <3>1
  <2>4. pos \in [Players -> Tiles] /\ pos'[p] = x /\ \A u \in Players \ {p} : pos'[u] = pos[u]
    BY <1>1, <1>2 DEF TypeOK
  <2>5. InRange(pos[r], pos[q], 2)
    BY <1>1, <2>2 DEF OffersHold, OfferInReach
  <2>6. InRange(pos'[r], pos'[q], 2)
    <3>1. CASE r = p
      <4>1. InRange(pos[q], x, 2)
        BY <2>2, <3>1 DEF LeavesReach
      <4> QED
        BY <2>2, <2>4, <3>1, <4>1 DEF InRange
    <3>2. CASE q = p
      <4>1. InRange(pos[r], x, 2)
        BY <2>2, <2>3, <3>2 DEF LeavesReach
      <4> QED
        BY <2>2, <2>4, <3>2, <4>1 DEF InRange
    <3>3. CASE r # p /\ q # p
      BY <2>2, <2>4, <2>5, <3>3
    <3> QED
      BY <3>1, <3>2, <3>3
  <2>7. ASSUME o # NoItem
        PROVE  /\ TopParent(parent, o) \in {r} \cup Tiles
               /\ InRange(Position(parent, pos', o), pos'[r], 1)
    <3>1. o \in Items
      BY <1>1, <2>7 DEF TypeOK
    <3>2. InReach(parent, r, o)
      BY <1>1, <3>1, OwnerOf DEF OffersHold
    <3>3. CASE r = p
      <4>1. InRange(Position(parent, pos2, o), x, 1)
        BY <2>2, <2>7, <3>3 DEF LeavesReach
      <4> QED
        BY <1>2, <2>4, <3>2, <3>3, <4>1 DEF InReach
    <3>4. CASE r # p
      <4>1. TopParent(parent, o) # p
        BY <3>2, <3>4 DEF InReach
      <4>2. Position(parent, pos', o) = Position(parent, pos, o)
        BY <2>4, <4>1 DEF Position
      <4> QED
        BY <2>4, <3>2, <3>4, <4>2 DEF InReach
    <3> QED
      BY <3>3, <3>4
  <2> QED
    BY <1>2, <2>2, <2>6, <2>7
<1> QED
  BY <1>1, <1>2, <1>4, <1>5, <1>6 DEF OfferInv, OffersHold

LEMMA RequestHolds ==
    ASSUME OfferInv, IInv', NEW p \in Players, NEW q \in Players, NEW i \in Items,
           RequestTrade(p, q, i)
    PROVE  OfferInv'
<1> USE TradeAssumption DEF TradeAssumption
<1>1. IInv /\ Nested(parent) /\ OffersHold /\ TypeOK /\ parent \in [Items -> Places]
      /\ trade \in [Players -> TRec]
  BY StateTypes DEF OfferInv
<1>2. parent' = parent /\ pos' = pos /\ touched' = touched /\ p # q
  BY DEF RequestTrade
<1>3. OfferUnchanged'
  BY <1>1, <1>2 DEF OffersHold, OfferUnchanged
<1>4. OffersDisjoint'
  <2>1. Offered' \subseteq Offered \cup {i}
    BY <1>1 DEF RequestTrade, Offered, TypeOK
  <2>2. \A k \in Offered : ~Holds(parent, i, k) /\ ~Holds(parent, k, i)
    BY DEF RequestTrade, AlreadyTraded
  <2>3. ~Holds(parent, i, i)
    BY <1>1 DEF Nested, Holds
  <2>4. \A k, m \in Offered : ~Holds(parent, k, m)
    BY <1>1 DEF OffersHold, OffersDisjoint
  <2>5. \A k, m \in Offered \cup {i} : ~Holds(parent, k, m)
    BY <2>2, <2>3, <2>4
  <2> QED
    BY <1>2, <2>1, <2>5 DEF OffersDisjoint
<1>5. trade'[p] = [state |-> "INITIATED", partner |-> q, item |-> i]
  BY <1>1, <1>2 DEF RequestTrade
<1>6. /\ trade'[q].partner = p /\ trade'[q].item = trade[q].item
      /\ trade[q].state = "NONE" => trade[q].item = NoItem
      /\ trade[q].state # "NONE" => trade'[q] = trade[q]
  <2>1. trade'[q] = IF trade[q].state = "NONE"
                    THEN [state |-> "ACKNOWLEDGE", partner |-> p, item |-> trade[q].item]
                    ELSE trade[q]
    BY <1>1, <1>2 DEF RequestTrade
  <2>2. trade[q].state # "NONE" => trade[q].partner = p
    <3>1. FreeToTrade(p, q)
      BY DEF RequestTrade
    <3> QED
      BY <3>1 DEF FreeToTrade
  <2>3. trade[q].state = "NONE" => trade[q].item = NoItem
    BY <1>1 DEF IInv, TradesPaired, Idle
  <2> QED
    BY <2>1, <2>2, <2>3
<1>7. \A r \in Players \ {p, q} : trade'[r] = trade[r]
  BY <1>1 DEF RequestTrade
<1>8. /\ InRange(pos[p], pos[q], 2)
      /\ TopParent(parent, i) \in {p} \cup Tiles
      /\ InRange(Position(parent, pos, i), pos[p], 1)
  BY DEF RequestTrade, Reachable, InRange
<1>9. OfferInReach'
  <2>1. SUFFICES ASSUME NEW r \in Players, trade'[r].state # "NONE"
                 PROVE  /\ InRange(pos[r], pos[trade'[r].partner], 2)
                        /\ trade'[r].item # NoItem =>
                             /\ TopParent(parent, trade'[r].item) \in {r} \cup Tiles
                             /\ InRange(Position(parent, pos, trade'[r].item), pos[r], 1)
    BY <1>2 DEF OfferInReach
  <2>2. CASE r = p
    BY <1>5, <1>8, <2>2
  <2>3. CASE r = q
    <3>1. InRange(pos[q], pos[p], 2)
      BY <1>8 DEF InRange
    <3>2. trade[q].item # NoItem =>
            /\ TopParent(parent, trade[q].item) \in {q} \cup Tiles
            /\ InRange(Position(parent, pos, trade[q].item), pos[q], 1)
      BY <1>1, <1>6 DEF OffersHold, OfferInReach
    <3> QED
      BY <1>6, <2>3, <3>1, <3>2
  <2>4. CASE r \notin {p, q}
    BY <1>1, <1>7, <2>1, <2>4 DEF OffersHold, OfferInReach
  <2> QED
    BY <2>2, <2>3, <2>4
<1> QED
  BY <1>1, <1>2, <1>3, <1>4, <1>9 DEF OfferInv, OffersHold

\* A side that accepts first changes neither the offers nor their places.
LEMMA MarkHolds ==
    ASSUME OfferInv, IInv', NEW p \in Players,
           trade' = [trade EXCEPT ![p].state = "ACCEPT"], trade[p].state # "NONE",
           UNCHANGED <<online, pos, parent, tradeItems, references, touched>>
    PROVE  OfferInv'
<1>1. IInv /\ Nested(parent) /\ OffersHold /\ trade \in [Players -> TRec]
  BY StateTypes DEF OfferInv
<1>2. \A r \in Players : /\ trade'[r].item = trade[r].item /\ trade'[r].partner = trade[r].partner
                         /\ trade'[r].state # "NONE" => trade[r].state # "NONE"
  <2>1. trade'[p].item = trade[p].item /\ trade'[p].partner = trade[p].partner
    BY <1>1 DEF TRec
  <2>2. \A r \in Players \ {p} : trade'[r] = trade[r]
    BY <1>1
  <2> QED
    BY <2>1, <2>2
<1>3. OfferInReach'
  BY <1>1, <1>2 DEF OffersHold, OfferInReach, Position
<1>4. OffersDisjoint' /\ OfferUnchanged'
  BY <1>1 DEF OffersHold, OffersDisjoint, OfferUnchanged, Offered
<1> QED
  BY <1>1, <1>3, <1>4 DEF OfferInv, OffersHold

-----------------------------------------------------------------------------
(* The transfer *)

LEMMA DestinationIs ==
    ASSUME NEW par, NEW q \in Players, NEW i, NEW x \in Destinations(par, q, i)
    PROVE  /\ x \in Cylinders /\ Fits(par, i, x)
           /\ x = q \/ (x \in Containers /\ TopParent(par, x) = q)
BY DEF Destinations, Cylinders

\* An item goes to a place of the player q, so q is on top of it then.
LEMMA GoesTo ==
    ASSUME NEW par \in [Items -> Places], Nested(par), NEW q \in Players, NEW i \in Items,
           NEW x \in Destinations(par, q, i)
    PROVE  /\ CanGo(par, i, x)
           /\ Moved(par, i, x) \in [Items -> Places] /\ Nested(Moved(par, i, x))
           /\ TopParent(Moved(par, i, x), i) = q
<1> USE TradeAssumption DEF TradeAssumption
<1>1. /\ x \in Cylinders /\ Fits(par, i, x)
      /\ x = q \/ (x \in Containers /\ TopParent(par, x) = q)
  BY DestinationIs
<1>2. CanGo(par, i, x)
  BY <1>1, FitsCanGo
<1>3. TopParent(Moved(par, i, x), i) = q
  BY <1>1, <1>2, MoveTop
<1> QED
  BY <1>2, <1>3, MoveKeepsNested

\* What the first move of a transfer leaves: the two items are apart, and only
\* the first has moved.
LEMMA FirstMove ==
    ASSUME OfferInv, NEW p \in Players, NEW q \in Players, p # q,
           NEW i \in Items, NEW j \in Items, trade[p].item = i, trade[q].item = j,
           NEW x \in Destinations(parent, q, i),
           x # j, ~(x \in Containers /\ Holds(parent, j, x))
    PROVE  LET one == Moved(parent, i, x) IN
           /\ i # j /\ one \in [Items -> Places] /\ Nested(one)
           /\ TopParent(one, i) = q /\ one[j] = parent[j]
           /\ Around(one, j) = Around(parent, j)
           /\ j \notin Around(one, i) /\ i \notin Around(one, j)
<1> USE TradeAssumption DEF TradeAssumption
<1> DEFINE one == Moved(parent, i, x)
<1>1. IInv /\ Nested(parent) /\ OffersHold /\ parent \in [Items -> Places]
  BY StateTypes DEF OfferInv
<1>2. i # j
  BY <1>1 DEF IInv, OffersRegistered
<1>3. i \in Offered /\ j \in Offered
  BY <1>1, OwnerOf DEF OffersHold
<1>4. i \notin Around(parent, j) /\ j \notin Around(parent, i)
  BY <1>1, <1>3 DEF OffersHold, OffersDisjoint, Holds
<1>5. one \in [Items -> Places] /\ Nested(one) /\ TopParent(one, i) = q /\ CanGo(parent, i, x)
  BY <1>1, GoesTo
<1>6. one[j] = parent[j]
  BY <1>2 DEF Moved
<1>7. Around(one, j) = Around(parent, j)
  BY <1>1, <1>2, <1>4, MoveElsewhere
<1>8. j \notin Around(one, i)
  BY <1>1, <1>5, MoveThere DEF Holds
<1> QED
  BY <1>2, <1>4, <1>5, <1>6, <1>7, <1>8

\* The second move, of the item j to p.
LEMMA SecondMove ==
    ASSUME NEW one \in [Items -> Places], Nested(one), NEW p \in Players,
           NEW i \in Items, NEW j \in Items, i # j, j \notin Around(one, i),
           NEW y \in Destinations(one, p, j)
    PROVE  LET two == Moved(one, j, y) IN
           /\ two \in [Items -> Places] /\ Nested(two)
           /\ TopParent(two, j) = p
           /\ Around(two, i) = Around(one, i)
<1>1. Moved(one, j, y) \in [Items -> Places] /\ Nested(Moved(one, j, y))
      /\ TopParent(Moved(one, j, y), j) = p
  BY GoesTo
<1>2. Around(Moved(one, j, y), i) = Around(one, i)
  BY MoveElsewhere
<1> QED
  BY <1>1, <1>2

\* The offer of a third player is not in what the player q has.
LEMMA NotUnder ==
    ASSUME NEW par \in [Items -> Places], Nested(par), NEW q \in Players, NEW r \in Players \ {q},
           NEW i \in Items, NEW o \in Items, TopParent(par, i) = q, InReach(par, r, o)
    PROVE  o \notin Around(par, i)
<1> USE TradeAssumption DEF TradeAssumption
<1>1. SUFFICES ASSUME o \in Around(par, i) PROVE FALSE
  OBVIOUS
<1>2. o \in Containers
  BY <1>1, AroundType DEF Places, Cylinders
<1>3. TopParent(par, o) = q
  BY <1>1, <1>2, TopShared
<1> QED
  BY <1>3 DEF InReach

\* A transfer, step by step: either both items go to the other side, or the
\* second finds no place and stays.
LEMMA TransferMoves ==
    ASSUME OfferInv, NEW p \in Players, Transfer(p, trade[p].partner), trade[p].state # "NONE"
    PROVE  LET q == trade[p].partner
               i == trade[p].item
               j == trade[q].item
           IN  /\ q \in Players \ {p} /\ i \in Items /\ j \in Items
               /\ InWorld(parent, i) /\ TestAdd(p, j)
               /\ \E S \in SUBSET Players : p \in S /\ CloseTrades(S)
               /\ \E x \in Destinations(parent, q, i) :
                    /\ x # j /\ ~(x \in Containers /\ Holds(parent, j, x))
                    /\ LET one == Moved(parent, i, x) IN
                       \/ /\ Destinations(one, p, j) = {}
                          /\ parent' = one /\ Record(parent, one, {i})
                       \/ \E y \in Destinations(one, p, j) :
                            /\ parent' = Moved(one, j, y)
                            /\ Record(parent, Moved(one, j, y), {i, j})
<1> USE TradeAssumption DEF TradeAssumption
<1> DEFINE q == trade[p].partner
           i == trade[p].item
           j == trade[q].item
           one(x) == Moved(parent, i, x)
           rest(x) == Destinations(one(x), p, j)
           two(x, y) == Moved(one(x), j, y)
           S(x, y) == ClosedByRemove(parent, i) \cup ClosedByAdd(one(x), i)
                        \cup IF rest(x) = {} THEN {}
                             ELSE ClosedByRemove(one(x), j) \cup ClosedByAdd(two(x, y), j)
<1>1. IInv /\ TypeOK /\ parent \in [Items -> Places] /\ trade \in [Players -> TRec] /\ online \subseteq Players
  BY StateTypes DEF OfferInv
<1>2. q \in Players \ {p}
  BY <1>1 DEF IInv, TradesPaired
<1>3. i \in Items /\ j \in Items
  BY <1>1, <1>2 DEF Transfer, TRec
<1>4. InWorld(parent, i) /\ TestAdd(p, j)
  BY DEF Transfer
<1>5. PICK x \in Destinations(parent, q, i) :
         /\ x # j /\ ~(x \in Containers /\ Holds(parent, j, x))
         /\ \E y \in IF rest(x) = {} THEN {parent[j]} ELSE rest(x) :
              /\ parent' = two(x, y)
              /\ CloseTrades((S(x, y) \ {p, q}) \cup {p})
              /\ Record(parent, two(x, y), IF rest(x) = {} THEN {i} ELSE {i, j})
  BY DEF Transfer, Moved
<1>6. PICK y \in IF rest(x) = {} THEN {parent[j]} ELSE rest(x) :
              /\ parent' = two(x, y)
              /\ CloseTrades((S(x, y) \ {p, q}) \cup {p})
              /\ Record(parent, two(x, y), IF rest(x) = {} THEN {i} ELSE {i, j})
  BY <1>5
<1>7. (S(x, y) \ {p, q}) \cup {p} \in SUBSET Players
  BY <1>1, ClosedByType
<1>8. \E T \in SUBSET Players : p \in T /\ CloseTrades(T)
  <2> HIDE DEF S, two
  <2> QED
    BY <1>6, <1>7
<1>9. CASE rest(x) = {}
  <2>1. y = parent[j]
    BY <1>6, <1>9
  <2>2. i # j
    BY <1>1, <1>2, <1>3 DEF IInv, OffersRegistered
  <2>3. two(x, y) = one(x)
    BY <1>1, <1>3, <2>1, <2>2 DEF Moved
  <2>4. parent' = one(x) /\ Record(parent, one(x), {i})
    <3> HIDE DEF S, rest, one, two
    <3> QED
      BY <1>6, <1>9, <2>3
  <2> QED
    BY <1>2, <1>3, <1>4, <1>5, <1>8, <1>9, <2>4
<1>10. CASE rest(x) # {}
  <2>1. y \in rest(x) /\ parent' = two(x, y) /\ Record(parent, two(x, y), {i, j})
    <3> HIDE DEF S, rest, two
    <3> QED
      BY <1>6, <1>10
  <2> QED
    BY <1>2, <1>3, <1>4, <1>5, <1>8, <2>1
<1> QED
  BY <1>9, <1>10

LEMMA TransferHolds ==
    ASSUME OfferInv, IInv', NEW p \in Players, Transfer(p, trade[p].partner), trade[p].state # "NONE",
           pos' = pos
    PROVE  OfferInv'
<1> USE TradeAssumption DEF TradeAssumption
<1> DEFINE q == trade[p].partner
           i == trade[p].item
           j == trade[q].item
<1>1. IInv /\ Nested(parent) /\ OffersHold /\ parent \in [Items -> Places]
  BY StateTypes DEF OfferInv
<1>2. q \in Players \ {p} /\ i \in Items /\ j \in Items
  BY TransferMoves
<1>3. PICK S \in SUBSET Players : p \in S /\ CloseTrades(S)
  BY TransferMoves
<1>4. PICK x \in Destinations(parent, q, i) :
        /\ x # j /\ ~(x \in Containers /\ Holds(parent, j, x))
        /\ \/ /\ Destinations(Moved(parent, i, x), p, j) = {}
              /\ parent' = Moved(parent, i, x) /\ Record(parent, Moved(parent, i, x), {i})
           \/ \E y \in Destinations(Moved(parent, i, x), p, j) :
                /\ parent' = Moved(Moved(parent, i, x), j, y)
                /\ Record(parent, Moved(Moved(parent, i, x), j, y), {i, j})
  BY TransferMoves
<1> DEFINE one == Moved(parent, i, x)
<1>5. /\ i # j /\ one \in [Items -> Places] /\ Nested(one)
      /\ TopParent(one, i) = q /\ one[j] = parent[j]
      /\ Around(one, j) = Around(parent, j)
      /\ j \notin Around(one, i) /\ i \notin Around(one, j)
  <2> HIDE DEF i, j, q
  <2>1. trade[p].item = i /\ trade[q].item = j
    BY DEF i, j
  <2> QED
    BY <1>2, <1>4, <2>1, FirstMove
<1>6. ASSUME NEW r \in Players \ S, NEW o \in Items, trade[r].item = o, trade'[r] # Idle
      PROVE  /\ r \notin {p, q} /\ InReach(parent, r, o)
             /\ ~Touches(parent, i, o) /\ ~Touches(parent, j, o)
  <2>1. r # p /\ trade'[p] = Idle
    BY <1>1, <1>3, <1>6, ClosingIsPaired
  <2>2. r # q
    <3>1. SUFFICES ASSUME r = q PROVE FALSE
      OBVIOUS
    <3>2. trade[q].partner = p /\ trade[p] # Idle
      BY <1>1 DEF IInv, TradesPaired, Idle
    <3>3. trade'[trade[r].partner] = trade[trade[r].partner]
      BY <1>1, <1>3, <1>6, ClosingIsPaired
    <3> QED
      BY <2>1, <3>1, <3>2, <3>3
  <2>3. InReach(parent, r, o) /\ o \in Offered /\ i \in Offered /\ j \in Offered
    BY <1>1, <1>2, <1>6, OwnerOf DEF OffersHold
  <2>4. o # i /\ o # j
    BY <1>1, <1>2, <1>6, <2>1, <2>2 DEF IInv, OffersRegistered
  <2> QED
    BY <1>1, <2>1, <2>2, <2>3, <2>4 DEF Touches, OffersHold, OffersDisjoint, Holds
<1>7. ASSUME NEW r \in Players \ S, NEW o \in Items, trade[r].item = o, trade'[r] # Idle
      PROVE  /\ Around(one, o) = Around(parent, o) /\ o \notin Around(one, i)
             /\ InReach(one, r, o) /\ ~Touches(one, j, o)
  <2>1. r \notin {p, q} /\ InReach(parent, r, o) /\ ~Touches(parent, i, o) /\ ~Touches(parent, j, o)
    BY <1>6, <1>7
  <2>2. Around(one, o) = Around(parent, o)
    BY <1>1, <1>2, <2>1, MoveElsewhere DEF Touches
  <2>3. InReach(one, r, o)
    BY <2>1, <2>2, ReachKept
  <2> HIDE DEF one
  <2>4. o \notin Around(one, i)
    BY <1>2, <1>5, <1>7, <2>1, <2>3, NotUnder
  <2> QED
    BY <1>5, <2>1, <2>2, <2>3, <2>4 DEF Touches
<1>8. CASE parent' = one /\ Record(parent, one, {i})
  <2>1. \A r \in Players \ S : \A o \in Items : trade[r].item = o /\ trade'[r] # Idle =>
            Around(parent', o) = Around(parent, o) /\ o \notin Changed(parent, one, {i})
    <3> HIDE DEF one
    <3> QED
      BY <1>6, <1>7, <1>8, ChangedByOne
  <2> HIDE DEF one
  <2>2. OffersHold'
    BY <1>1, <1>3, <1>8, <2>1, EndHolds
  <2> QED
    BY <1>5, <1>8, <2>2 DEF OfferInv
<1>9. ASSUME NEW y \in Destinations(one, p, j), parent' = Moved(one, j, y),
             Record(parent, Moved(one, j, y), {i, j})
      PROVE  OfferInv'
  <2> DEFINE two == Moved(one, j, y)
  <2> HIDE DEF one
  <2>1. /\ two \in [Items -> Places] /\ Nested(two)
        /\ TopParent(two, j) = p /\ Around(two, i) = Around(one, i)
    BY <1>2, <1>5, SecondMove
  <2>2. ASSUME NEW r \in Players \ S, NEW o \in Items, trade[r].item = o, trade'[r] # Idle
        PROVE  Around(two, o) = Around(parent, o) /\ o \notin Changed(parent, two, {i, j})
    <3>1. r \notin {p, q} /\ ~Touches(parent, i, o) /\ ~Touches(parent, j, o)
      BY <1>6, <2>2
    <3>2. /\ Around(one, o) = Around(parent, o) /\ o \notin Around(one, i)
          /\ InReach(one, r, o) /\ ~Touches(one, j, o)
      BY <1>7, <2>2
    <3>3. Around(two, o) = Around(one, o)
      BY <1>2, <1>5, <3>2, MoveElsewhere DEF Touches
    <3>4. InReach(two, r, o)
      BY <3>2, <3>3, ReachKept
    <3> HIDE DEF two
    <3>5. o \notin Around(two, j)
      BY <1>2, <2>1, <3>1, <3>4, NotUnder
    <3> QED
      BY <2>1, <3>1, <3>2, <3>3, <3>5, ChangedByTwo
  <2> HIDE DEF two
  <2>3. parent' = two /\ Record(parent, two, {i, j})
    BY <1>9 DEF two
  <2>4. OffersHold'
    BY <1>1, <1>3, <2>2, <2>3, EndHolds
  <2> QED
    BY <2>1, <2>3, <2>4 DEF OfferInv
<1> QED
  BY <1>4, <1>8, <1>9

LEMMA AcceptHolds ==
    ASSUME OfferInv, IInv', NEW p \in Players, AcceptTrade(p)
    PROVE  OfferInv'
<1> DEFINE q == trade[p].partner
<1>1. trade[p].state # "NONE" /\ UNCHANGED <<online, pos>>
  BY DEF AcceptTrade
<1>2. CASE trade[q].state # "ACCEPT"
  BY <1>1, <1>2, MarkHolds DEF AcceptTrade
<1>3. CASE Canceled(p)
  BY <1>1, <1>3, CancelHolds DEF Canceled
<1>4. CASE Transfer(p, q)
  BY <1>1, <1>4, TransferHolds
<1> QED
  BY <1>2, <1>3, <1>4 DEF AcceptTrade

LEMMA InitOfferInv == Init => OfferInv
<1> SUFFICES ASSUME Init PROVE OfferInv
  OBVIOUS
<1> USE TradeAssumption DEF TradeAssumption
<1>1. IInv
  BY InitIInv
<1>2. Nested(parent)
  <2>1. \A i \in Items : parent[i] \in Tiles /\ parent[i] \notin Containers
    BY DEF Init
  <2>2. \A i \in Items : Around(parent, i) = {parent[i]}
    BY <2>1, AroundStep
  <2> QED
    BY <2>1, <2>2 DEF Nested
<1>3. OffersHold
  BY DEF Init, OffersHold, OffersDisjoint, OfferInReach, OfferUnchanged, Offered, Idle
<1> QED
  BY <1>1, <1>2, <1>3 DEF OfferInv

LEMMA NextHolds == OfferInv /\ [Next]_vars => OfferInv'
<1> SUFFICES ASSUME OfferInv, [Next]_vars PROVE OfferInv'
  OBVIOUS
<1>1. IInv' /\ IInv
  BY NextKeeps DEF OfferInv
<1>2. ASSUME NEW p \in Players, NEW q \in Players, NEW i \in Items, RequestTrade(p, q, i)
      PROVE  OfferInv'
  BY <1>1, <1>2, RequestHolds
<1>3. ASSUME NEW p \in Players, AcceptTrade(p) PROVE OfferInv'
  BY <1>1, <1>3, AcceptHolds
<1>4. ASSUME NEW p \in Players, CloseTrade(p) PROVE OfferInv'
  BY <1>1, <1>4, CancelHolds DEF CloseTrade, Canceled
<1>5. ASSUME NEW p \in Players, NEW i \in Items, NEW x \in Cylinders, MoveItem(p, i, x)
      PROVE  OfferInv'
  BY <1>1, <1>5, MoveItemHolds
<1>6. ASSUME NEW p \in Players, NEW i \in Items, NEW k \in Items, MergeItem(p, i, k)
      PROVE  OfferInv'
  BY <1>1, <1>6, MergeItemHolds
<1>7. ASSUME NEW p \in Players, NEW i \in Items, NEW k \in Items, NEW x \in Cylinders,
             SplitItem(p, i, k, x)
      PROVE  OfferInv'
  BY <1>1, <1>7, SplitItemHolds
<1>8. ASSUME NEW p \in Players, NEW i \in Items, NEW k \in Items, ExchangeItem(p, i, k)
      PROVE  OfferInv'
  BY <1>1, <1>8, ExchangeItemHolds
<1>9. ASSUME NEW i \in Items, RemoveItem(i) PROVE OfferInv'
  BY <1>1, <1>9, RemoveItemHolds
<1>10. ASSUME NEW p \in Players, NEW x \in Tiles, Walk(p, x) PROVE OfferInv'
  BY <1>1, <1>10, WalkHolds
<1>11. ASSUME NEW p \in Players, Login(p) PROVE OfferInv'
  <2>1. UNCHANGED <<pos, parent, trade, tradeItems, touched>>
    BY <1>11 DEF Login
  <2> QED
    BY <1>1, <2>1
       DEF OfferInv, OffersHold, OffersDisjoint, OfferInReach, OfferUnchanged, Offered, Position
<1>12. ASSUME NEW p \in Players, Logout(p) PROVE OfferInv'
  <2>1. PICK S \in SUBSET Players : CloseTrades(S)
    BY <1>12 DEF Logout
  <2> QED
    BY <1>1, <1>12, <2>1, CancelHolds DEF Logout
<1>13. CASE UNCHANGED vars
  BY <1>1, <1>13
     DEF vars, OfferInv, OffersHold, OffersDisjoint, OfferInReach, OfferUnchanged, Offered, Position
<1> QED
  BY <1>2, <1>3, <1>4, <1>5, <1>6, <1>7, <1>8, <1>9, <1>10, <1>11, <1>12, <1>13 DEF Next

-----------------------------------------------------------------------------
(* Room *)

Kept(par, x) == {k \in Items : par[k] = x}

\* No player and no container holds more than fits.
Roomy(par) ==
    /\ \A x \in Players : Cardinality(Kept(par, x)) <= InvSlots
    /\ \A x \in Containers : Cardinality(Kept(par, x)) <= BoxSize

LEMMA KeptFinite ==
    ASSUME NEW par, NEW x
    PROVE  IsFiniteSet(Kept(par, x)) /\ Cardinality(Kept(par, x)) \in Nat
BY FS_Subset, FS_CardinalityType, TradeAssumption DEF Kept, TradeAssumption

LEMMA KeptFewer ==
    ASSUME NEW par, NEW par2, NEW x, Kept(par2, x) \subseteq Kept(par, x)
    PROVE  Cardinality(Kept(par2, x)) <= Cardinality(Kept(par, x))
BY KeptFinite, FS_Subset

LEMMA RoomIs ==
    ASSUME NEW par, NEW x
    PROVE  Room(par, x) <=> \/ x \in Players /\ Cardinality(Kept(par, x)) < InvSlots
                            \/ x \in Containers /\ Cardinality(Kept(par, x)) < BoxSize
                            \/ x \in Tiles
BY DEF Room, Kept

\* Where nothing arrives there is as much room as before.
LEMMA StillRoom ==
    ASSUME NEW par \in [Items -> Places], NEW i \in Items, NEW x, NEW z, z # x, Room(par, z)
    PROVE  Room(Moved(par, i, x), z)
<1>1. Kept(Moved(par, i, x), z) \subseteq Kept(par, z)
  BY DEF Kept, Moved
<1>2. Cardinality(Kept(Moved(par, i, x), z)) <= Cardinality(Kept(par, z))
  BY <1>1, KeptFewer
<1> QED
  BY <1>2, KeptFinite, RoomIs, TradeAssumption DEF TradeAssumption

\* What an item leaves has room for another.
LEMMA RoomLeft ==
    ASSUME NEW par \in [Items -> Places], Roomy(par), NEW i \in Items, NEW x, par[i] # x,
           par[i] \in Players \cup Containers
    PROVE  Room(Moved(par, i, x), par[i])
<1> DEFINE z == par[i]
<1>1. Kept(Moved(par, i, x), z) = Kept(par, z) \ {i}
  BY DEF Kept, Moved
<1>2. i \in Kept(par, z)
  BY DEF Kept
<1>3. Cardinality(Kept(par, z) \ {i}) = Cardinality(Kept(par, z)) - 1
  BY <1>2, KeptFinite, FS_RemoveElement
<1>4. /\ z \in Players => Cardinality(Kept(par, z)) <= InvSlots
      /\ z \in Containers => Cardinality(Kept(par, z)) <= BoxSize
  BY DEF Roomy
<1>5. Cardinality(Kept(par, z)) \in Nat /\ InvSlots \in Nat /\ BoxSize \in Nat
  BY KeptFinite, TradeAssumption DEF TradeAssumption
<1>6. Cardinality(Kept(Moved(par, i, x), z)) = Cardinality(Kept(par, z)) - 1
  BY <1>1, <1>3
<1>7. /\ z \in Players => Cardinality(Kept(Moved(par, i, x), z)) < InvSlots
      /\ z \in Containers => Cardinality(Kept(Moved(par, i, x), z)) < BoxSize
  BY <1>4, <1>5, <1>6
<1> QED
  BY <1>7, RoomIs

LEMMA MoveRoomy ==
    ASSUME NEW par \in [Items -> Places], Roomy(par), NEW i \in Items, NEW x,
           Room(par, x) \/ x = Nowhere
    PROVE  Roomy(Moved(par, i, x))
<1> USE TradeAssumption DEF TradeAssumption
<1> DEFINE par2 == Moved(par, i, x)
<1>1. ASSUME NEW z, z # x
      PROVE  Cardinality(Kept(par2, z)) <= Cardinality(Kept(par, z))
  <2>1. Kept(par2, z) \subseteq Kept(par, z)
    BY <1>1 DEF Kept, Moved
  <2> QED
    BY <2>1, KeptFewer
<1>2. Cardinality(Kept(par2, x)) <= Cardinality(Kept(par, x)) + 1
  <2>1. Kept(par2, x) \subseteq Kept(par, x) \cup {i}
    BY DEF Kept, Moved
  <2>2. /\ IsFiniteSet(Kept(par, x) \cup {i})
        /\ Cardinality(Kept(par, x) \cup {i}) <= Cardinality(Kept(par, x)) + 1
    <3>1. /\ IsFiniteSet(Kept(par, x) \cup {i})
          /\ Cardinality(Kept(par, x) \cup {i}) = IF i \in Kept(par, x)
                                                  THEN Cardinality(Kept(par, x))
                                                  ELSE Cardinality(Kept(par, x)) + 1
      BY KeptFinite, FS_AddElement
    <3> QED
      BY <3>1, KeptFinite
  <2>3. Cardinality(Kept(par2, x)) <= Cardinality(Kept(par, x) \cup {i})
    BY <2>1, <2>2, FS_Subset
  <2> QED
    BY <2>2, <2>3, KeptFinite, FS_CardinalityType
<1>3. \A z : Cardinality(Kept(par, z)) \in Nat /\ Cardinality(Kept(par2, z)) \in Nat
  BY KeptFinite
<1>4. x \in Players => Cardinality(Kept(par, x)) < InvSlots
  BY RoomIs
<1>5. x \in Containers => Cardinality(Kept(par, x)) < BoxSize
  BY RoomIs
<1> HIDE DEF par2
<1>6. \A z \in Players : Cardinality(Kept(par2, z)) <= InvSlots
  BY <1>1, <1>2, <1>3, <1>4 DEF Roomy
<1>7. \A z \in Containers : Cardinality(Kept(par2, z)) <= BoxSize
  BY <1>1, <1>2, <1>3, <1>5 DEF Roomy
<1> QED
  BY <1>6, <1>7 DEF Roomy, par2

\* Room for an item that does not hold the place: it fits.
LEMMA FitsThere ==
    ASSUME NEW par, NEW j \in Items, NEW z, Room(par, z),
           z # j, z \in Containers => j \notin Around(par, z)
    PROVE  Fits(par, j, z)
BY DEF Fits, Holds

\* The invariant of the moves and of the room left
RoomInv == OfferInv /\ Roomy(parent)

LEMMA RoomyKept == RoomInv /\ [Next]_vars => Roomy(parent')
<1> SUFFICES ASSUME OfferInv, Roomy(parent), [Next]_vars PROVE Roomy(parent')
  BY DEF RoomInv
<1> USE TradeAssumption DEF TradeAssumption
<1>1. IInv /\ TypeOK /\ parent \in [Items -> Places] /\ Nested(parent)
  BY StateTypes DEF OfferInv
<1>2. ASSUME NEW p \in Players, NEW i \in Items, NEW x \in Cylinders, MoveItem(p, i, x)
      PROVE  Roomy(parent')
  <2>1. parent' = Moved(parent, i, x) /\ Room(parent, x)
    BY <1>2 DEF MoveItem, Fits, Moved
  <2> QED
    BY <1>1, <2>1, MoveRoomy
<1>3. ASSUME NEW p \in Players, NEW i \in Items, NEW k \in Items, MergeItem(p, i, k)
      PROVE  Roomy(parent')
  <2>1. parent' = Moved(parent, i, Nowhere) \/ parent' = parent
    BY <1>3 DEF MergeItem, Moved
  <2> QED
    BY <1>1, <2>1, MoveRoomy
<1>4. ASSUME NEW p \in Players, NEW i \in Items, NEW k \in Items, NEW x \in Cylinders,
             SplitItem(p, i, k, x)
      PROVE  Roomy(parent')
  <2>1. parent' = Moved(parent, k, x) /\ Room(parent, x)
    BY <1>4 DEF SplitItem, Moved
  <2> QED
    BY <1>1, <2>1, MoveRoomy
<1>5. ASSUME NEW p \in Players, NEW i \in Items, NEW k \in Items, ExchangeItem(p, i, k)
      PROVE  Roomy(parent')
  <2> DEFINE one == Moved(parent, k, parent[i])
  <2>1. /\ parent' = Moved(one, i, p) /\ Room(parent, parent[i]) /\ parent[k] = p
        /\ parent[i] # p
    BY <1>5 DEF ExchangeItem, Moved, Cylinders
  <2>2. Roomy(one) /\ one \in [Items -> Places]
    BY <1>1, <2>1, MoveRoomy DEF Moved
  <2>3. Room(one, p)
    BY <1>1, <2>1, RoomLeft
  <2> HIDE DEF one
  <2> QED
    BY <2>1, <2>2, <2>3, MoveRoomy
<1>6. ASSUME NEW i \in Items, RemoveItem(i) PROVE Roomy(parent')
  <2>1. ASSUME NEW z, z # Nowhere
        PROVE  Cardinality(Kept(parent', z)) <= Cardinality(Kept(parent, z))
    <3>1. Kept(parent', z) \subseteq Kept(parent, z)
      BY <1>6, <2>1 DEF RemoveItem, Kept
    <3> QED
      BY <3>1, KeptFewer
  <2>2. \A z : Cardinality(Kept(parent', z)) \in Nat /\ Cardinality(Kept(parent, z)) \in Nat
    BY KeptFinite
  <2>3. InvSlots \in Nat /\ BoxSize \in Nat
    OBVIOUS
  <2>4. Nowhere \notin Players /\ Nowhere \notin Containers
    OBVIOUS
  <2> QED
    BY <2>1, <2>2, <2>3, <2>4 DEF Roomy
<1>7. ASSUME NEW p \in Players, AcceptTrade(p) PROVE Roomy(parent')
  <2> DEFINE q == trade[p].partner
             i == trade[p].item
             j == trade[q].item
  <2>1. parent' = parent \/ Transfer(p, q)
    BY <1>7 DEF AcceptTrade, Canceled
  <2>2. CASE Transfer(p, q)
    <3>1. trade[p].state # "NONE"
      BY <1>7 DEF AcceptTrade
    <3>2. q \in Players \ {p} /\ i \in Items /\ j \in Items
      BY <2>2, <3>1, TransferMoves
    <3>3. PICK x \in Destinations(parent, q, i) :
            \/ parent' = Moved(parent, i, x)
            \/ \E y \in Destinations(Moved(parent, i, x), p, j) :
                 parent' = Moved(Moved(parent, i, x), j, y)
      BY <2>2, <3>1, TransferMoves
    <3> DEFINE one == Moved(parent, i, x)
    <3>4. Room(parent, x)
      BY <3>2, DestinationIs DEF Fits
    <3>5. Roomy(one) /\ one \in [Items -> Places]
      BY <1>1, <3>2, <3>4, MoveRoomy, GoesTo
    <3>6. ASSUME NEW y \in Destinations(one, p, j) PROVE Roomy(Moved(one, j, y))
      <4> HIDE DEF one
      <4>1. Room(one, y)
        BY DestinationIs DEF Fits
      <4> QED
        BY <3>2, <3>5, <4>1, MoveRoomy
    <3> QED
      BY <3>3, <3>5, <3>6
  <2> QED
    BY <2>1, <2>2
<1>8. CASE UNCHANGED parent
  BY <1>8
<1>9. ASSUME NEW p \in Players, NEW q \in Players, NEW i \in Items, RequestTrade(p, q, i)
      PROVE  UNCHANGED parent
  BY <1>9 DEF RequestTrade
<1>10. ASSUME NEW p \in Players, CloseTrade(p) PROVE UNCHANGED parent
  BY <1>10 DEF CloseTrade, Canceled
<1>11. ASSUME NEW p \in Players, NEW x \in Tiles, Walk(p, x) PROVE UNCHANGED parent
  BY <1>11 DEF Walk
<1>12. ASSUME NEW p \in Players, Login(p) \/ Logout(p) PROVE UNCHANGED parent
  BY <1>12 DEF Login, Logout
<1>13. CASE UNCHANGED vars
  BY <1>8, <1>13 DEF vars
<1> QED
  BY <1>2, <1>3, <1>4, <1>5, <1>6, <1>7, <1>8, <1>9, <1>10, <1>11, <1>12, <1>13 DEF Next

\* The second item stays behind only for want of any place but another stack.
LEMMA StaysOnlyToStack ==
    ASSUME RoomInv, NEW p \in Players, NEW q \in Players \ {p}, NEW i \in Items, NEW j \in Items,
           trade[p].item = i, trade[q].item = j, InWorld(parent, i), TestAdd(p, j),
           NEW x \in Destinations(parent, q, i),
           x # j, ~(x \in Containers /\ Holds(parent, j, x)),
           Destinations(Moved(parent, i, x), p, j) = {}
    PROVE  j \in Stackable /\ ~Room(parent, p)
<1> USE TradeAssumption DEF TradeAssumption
<1> DEFINE one == Moved(parent, i, x)
<1>1. /\ OfferInv /\ IInv /\ Nested(parent) /\ OffersHold /\ TypeOK
      /\ parent \in [Items -> Places] /\ Roomy(parent)
  BY StateTypes DEF RoomInv, OfferInv
<1>2. /\ i # j /\ one \in [Items -> Places] /\ Nested(one)
      /\ TopParent(one, i) = q /\ one[j] = parent[j]
      /\ Around(one, j) = Around(parent, j)
  BY <1>1, FirstMove
<1>3. /\ TopParent(parent, i) \in {p} \cup Tiles /\ TopParent(parent, j) \in {q} \cup Tiles
      /\ TopParent(one, j) = TopParent(parent, j)
  BY <1>1, <1>2, OwnerOf DEF OffersHold, InReach, TopParent
<1>4. x # p /\ CanGo(parent, i, x) /\ one[i] = x
      /\ (x = q \/ (x \in Containers /\ TopParent(parent, x) = q))
  <2>1. x = q \/ (x \in Containers /\ TopParent(parent, x) = q)
    BY DestinationIs
  <2>2. CanGo(parent, i, x)
    BY <1>1, GoesTo
  <2>3. one[i] = x
    BY <1>1 DEF Moved
  <2> QED
    BY <2>1, <2>2, <2>3
<1>5. ~Room(one, p)
  <2> HIDE DEF one
  <2>1. SUFFICES ASSUME Room(one, p) PROVE FALSE
    OBVIOUS
  <2>2. Fits(one, j, p)
    BY <2>1, FitsThere
  <2> QED
    BY <2>2 DEF Destinations, one
<1>6. ASSUME NEW z \in Containers, TopParent(one, z) = p, Room(one, z) PROVE FALSE
  <2> HIDE DEF one
  <2>1. z # j /\ j \notin Around(one, z)
    <3>1. TopParent(one, j) # p
      BY <1>3
    <3>2. j \in Around(one, z) => j \in Containers
      BY <1>2, AroundType DEF Places, Cylinders
    <3> QED
      BY <1>2, <1>6, <3>1, <3>2, TopShared
  <2>2. Fits(one, j, z)
    BY <1>6, <2>1, FitsThere
  <2>3. z \in Destinations(one, p, j)
    <3>1. ~Fits(one, j, p)
      BY <1>5 DEF Fits
    <3>2. one[trade[p].item] # p
      BY <1>4
    <3> QED
      BY <1>6, <2>2, <3>1, <3>2 DEF Destinations
  <2> QED
    BY <2>3 DEF one
<1>7. ~Room(parent, p)
  <2>1. Room(parent, p) => Room(one, p)
    BY <1>1, <1>4, StillRoom
  <2> QED
    BY <1>5, <2>1
\* A place of p that i is not in has the room it had.
<1>8. ASSUME NEW z \in Containers, TopParent(parent, z) = p, z # i, i \notin Around(parent, z)
      PROVE  ~Room(one, z) /\ z # x
  <2>1. TopParent(one, z) = p
    BY <1>1, <1>8, MoveElsewhere DEF TopParent
  <2>2. z # x
    BY <1>4, <1>8
  <2> QED
    BY <1>6, <1>8, <2>1, <2>2
<1>9. TopParent(parent, i) # p
  <2>1. SUFFICES ASSUME TopParent(parent, i) = p PROVE FALSE
    OBVIOUS
  <2>2. parent[i] = p \/ (parent[i] \in Containers /\ TopParent(parent, parent[i]) = p)
    BY <1>1, <2>1, TopType
  <2>3. CASE parent[i] = p
    BY <1>1, <1>4, <1>5, <2>3, RoomLeft
  <2>4. CASE parent[i] \in Containers /\ TopParent(parent, parent[i]) = p
    <3> DEFINE c == parent[i]
    <3>1. c # i /\ i \notin Around(parent, c)
      BY <1>1, <2>4, AroundStep DEF Nested
    <3>2. c # x
      BY <1>4, <2>4
    <3>3. Room(one, c)
      BY <1>1, <2>4, <3>2, RoomLeft
    <3> QED
      BY <1>8, <2>4, <3>1, <3>3
  <2> QED
    BY <2>2, <2>3, <2>4
<1>10. Destinations(parent, p, j) = {}
  <2>1. SUFFICES ASSUME NEW z \in Destinations(parent, p, j) PROVE FALSE
    OBVIOUS
  <2>2. Room(parent, z) /\ (z = p \/ (z \in Containers /\ TopParent(parent, z) = p))
    BY DestinationIs DEF Fits
  <2>3. z \in Containers /\ TopParent(parent, z) = p
    BY <1>7, <2>2
  <2>4. z # i /\ i \notin Around(parent, z)
    <3>1. i \in Around(parent, z) => i \in Containers
      BY <1>1, <2>3, AroundType DEF Places, Cylinders
    <3> QED
      BY <1>1, <1>9, <2>3, <3>1, TopShared
  <2>5. ~Room(one, z) /\ z # x
    BY <1>8, <2>3, <2>4
  <2> QED
    BY <1>1, <2>2, <2>5, StillRoom
<1>11. j \in Stackable
  BY <1>10 DEF TestAdd, StacksWith
<1> QED
  BY <1>7, <1>11

\* What a step does to the two offers of a transfer
WholeStep ==
    \A p, q \in Players :
      (trade[p].partner = q /\ trade[q].state = "ACCEPT" /\ AcceptTrade(p)) =>
        LET i == trade[p].item
            j == trade[q].item
        IN  parent' # parent =>
              /\ TopParent(parent', i) = q
              /\ \/ TopParent(parent', j) = p
                 \/ j \in Stackable /\ parent'[j] = parent[j] /\ ~Room(parent, p)

LEMMA TransferIsWhole == RoomInv => WholeStep
<1> SUFFICES ASSUME RoomInv, NEW p \in Players, NEW r \in Players,
                    trade[p].partner = r, trade[r].state = "ACCEPT", AcceptTrade(p),
                    parent' # parent
             PROVE  /\ TopParent(parent', trade[p].item) = r
                    /\ \/ TopParent(parent', trade[r].item) = p
                       \/ /\ trade[r].item \in Stackable
                          /\ parent'[trade[r].item] = parent[trade[r].item]
                          /\ ~Room(parent, p)
  BY DEF WholeStep
<1> DEFINE q == trade[p].partner
           i == trade[p].item
           j == trade[q].item
<1>1. Transfer(p, q) /\ trade[p].state # "NONE" /\ OfferInv /\ q = r
  BY DEF AcceptTrade, Canceled, RoomInv
<1>3. q \in Players \ {p} /\ i \in Items /\ j \in Items /\ InWorld(parent, i) /\ TestAdd(p, j)
  BY <1>1, TransferMoves
<1>4. PICK x \in Destinations(parent, q, i) :
        /\ x # j /\ ~(x \in Containers /\ Holds(parent, j, x))
        /\ \/ /\ Destinations(Moved(parent, i, x), p, j) = {}
              /\ parent' = Moved(parent, i, x) /\ Record(parent, Moved(parent, i, x), {i})
           \/ \E y \in Destinations(Moved(parent, i, x), p, j) :
                /\ parent' = Moved(Moved(parent, i, x), j, y)
                /\ Record(parent, Moved(Moved(parent, i, x), j, y), {i, j})
  BY <1>1, TransferMoves
<1>2. trade[p].item = i /\ trade[q].item = j
  OBVIOUS
<1> HIDE DEF q, i, j
<1> DEFINE one == Moved(parent, i, x)
<1>5. /\ i # j /\ one \in [Items -> Places] /\ Nested(one)
      /\ TopParent(one, i) = q /\ one[j] = parent[j] /\ j \notin Around(one, i)
  BY <1>1, <1>2, <1>3, <1>4, FirstMove
<1>6. CASE Destinations(one, p, j) = {} /\ parent' = one
  <2>1. j \in Stackable /\ ~Room(parent, p)
    BY <1>2, <1>3, <1>4, <1>6, StaysOnlyToStack
  <2> QED
    BY <1>1, <1>2, <1>5, <1>6, <2>1
<1>7. ASSUME NEW y \in Destinations(one, p, j), parent' = Moved(one, j, y)
      PROVE  TopParent(parent', i) = q /\ TopParent(parent', j) = p
  <2> HIDE DEF one
  <2>1. TopParent(parent', j) = p /\ Around(parent', i) = Around(one, i)
    BY <1>3, <1>5, <1>7, SecondMove
  <2> QED
    BY <1>5, <2>1 DEF TopParent
<1> QED
  BY <1>1, <1>2, <1>4, <1>6, <1>7

LEMMA InitRoomy == Init => Roomy(parent)
<1> SUFFICES ASSUME Init PROVE Roomy(parent)
  OBVIOUS
<1> USE TradeAssumption DEF TradeAssumption
<1>1. ASSUME NEW z \in Players \cup Containers PROVE Cardinality(Kept(parent, z)) = 0
  <2>1. Kept(parent, z) = {}
    BY DEF Init, Kept
  <2> QED
    BY <2>1, FS_EmptySet
<1> QED
  BY <1>1 DEF Roomy

-----------------------------------------------------------------------------
(* The theorems *)

\* Types, pairs and registration hold together in every reachable state, for
\* any players, items and map.
THEOREM TradeInvariant == Spec => []IInv
BY InitIInv, NextKeeps, PTL DEF Spec

\* The state of the trades is well typed; no item is referenced twice.
THEOREM TradeType == Spec => []TypeOK
BY TradeInvariant, PTL DEF IInv

\* A trade has two sides that name each other, both online, at least one
\* offer, and is never accepted by both without being carried out.
THEOREM TradesArePaired == Spec => []TradesPaired
BY TradeInvariant, PTL DEF IInv

\* Game::tradeItems holds exactly the offers of the players, one reference each.
THEOREM OffersAreRegistered == Spec => []OffersRegistered
BY TradeInvariant, PTL DEF IInv

\* Both sides of every trade and the table of offers agree in every state.
THEOREM TradesAreConsistent == Spec => []TradesConsistent
<1>1. TradesPaired /\ OffersRegistered => TradesConsistent
  BY DEF TradesConsistent
<1> QED
  BY <1>1, TradesArePaired, OffersAreRegistered, PTL

\* In every reachable state no container is inside itself, everything in the
\* world has a player or a tile on top, and the offers hold.
THEOREM OffersInvariant == Spec => []OfferInv
BY InitOfferInv, NextHolds, PTL DEF Spec

\* Offers are never in one another, are with their owner or on a tile next to
\* them, with the partner two tiles away at most, and nothing in, of or around
\* an offer changes while it stands: onRemoveTileItem, onAddContainerItem and
\* onCreatureMove end every trade they have to, however deep the containers.
THEOREM OffersStayAsShown == Spec => []OffersHold
<1>1. OfferInv => OffersHold
  BY DEF OfferInv
<1> QED
  BY <1>1, OffersInvariant, PTL

\* Neither slots nor containers are ever filled beyond their capacity.
THEOREM RoomInvariant == Spec => []RoomInv
<1>1. Init => RoomInv
  BY InitOfferInv, InitRoomy DEF RoomInv
<1>2. RoomInv /\ [Next]_vars => RoomInv'
  BY NextHolds, RoomyKept DEF RoomInv
<1> QED
  BY <1>1, <1>2, PTL DEF Spec

\* playerAcceptTrade hands over both items or none, though it does not look at
\* the result of the second move: that move can only fail for a stack that the
\* tests meant to merge and the move does not.
THEOREM SwapsAreWhole == Spec => SwapIsWhole
<1>1. RoomInv => WholeStep
  BY TransferIsWhole
<1>2. SwapIsWhole <=> [][WholeStep]_vars
  BY DEF SwapIsWhole, WholeStep
<1> QED
  BY <1>1, <1>2, RoomInvariant, PTL
=============================================================================
