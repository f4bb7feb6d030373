---------------------------- MODULE WebApiProofs ----------------------------
(* Proofs about the web API and the game that shares its tables, for every *)
(* number of requests: what the queries of two requests can do to each     *)
(* other's characters (index.ts, iologindata.cpp) and to accounts, recovery *)
(* keys and tokens.                                                        *)
EXTENDS Characters, Accounts, FiniteSetTheorems, WellFoundedInduction, TLAPS

-----------------------------------------------------------------------------
(* The characters of the database                                          *)

InFlight(a) ==
    {r \in Requests : request[r].step \in {"counted", "numbered"} /\ request[r].account = a}

\* Each request that has counted found room for one, at worst at the same time.
LimitKept ==
    \A a \in Owners :
        Cardinality(Owned(a)) + Cardinality(InFlight(a)) <= Limit + Cardinality(Requests) - 1

\* Who has read the largest id has the table to itself.
NumberLocked ==
    \A r \in Requests : request[r].step = "numbered" =>
        tableLock = r /\ rows[request[r].id] = NoRow /\ births < MaxBorn

\* Until one is deleted in the game, each character in it is that of its row.
ObjectsHaveRows ==
    ~deletedInGame =>
        /\ \A n \in DOMAIN inGame : LET id == inGame[n].guid IN
              rows[id] # NoRow /\ rows[id].born = inGame[n].born /\ rows[id].name = n
        /\ \A id \in Used : rows[id].data = rows[id].born

\* Those that are in players_online unless they are hidden: not the one that is
\* being loaded, nor the one that leaves.
Present ==
    {n \in DOMAIN inGame :
        /\ ~(task.step = "loaded" /\ task.name = n)
        /\ ~(task.step \in {"saving", "writing"} /\ task.name = n /\ task.leaves)}

OnlineKept ==
    up => /\ playersOnline \subseteq {inGame[n].guid : n \in Present}
          /\ ~deletedInGame =>
                playersOnline = {inGame[n].guid : n \in {m \in Present : ~inGame[m].ghost}}

TaskInOrder ==
    /\ ~up => DOMAIN inGame = {} /\ task = Idle
    /\ task.step = "preloaded" => task.name \notin DOMAIN inGame
    /\ task.step = "loaded" => ~inGame[task.name].ghost

CharactersInv ==
    /\ CharactersTypeOK /\ LimitKept /\ NumberLocked /\ ObjectsHaveRows /\ OnlineKept /\ TaskInOrder

USE CharactersAssumption DEF CharactersAssumption

LEMMA NoRowIsNone == NoRow \notin Row
BY DEF Row

LEMMA RequestTyped ==
    ASSUME CharactersTypeOK, NEW r \in Requests
    PROVE  /\ request[r].step \in {"named", "counted", "numbered"} =>
                 request[r].name \in Names /\ request[r].account \in Owners
           /\ request[r].step \in {"numbered", "offline"} => request[r].id \in Ids
           /\ request[r].step = "offline" => request[r].account \in Owners
           /\ request[r].step \in {"idle", "named", "counted", "numbered", "offline"}
           /\ request[r].step = "named" => request[r] \in [step : {"named"}, name : Names, account : Owners]
BY DEF CharactersTypeOK, Idle

RequestSet ==
    {Idle}
       \cup [step : {"named", "counted"}, name : Names, account : Owners]
       \cup [step : {"numbered"}, name : Names, account : Owners, id : Ids]
       \cup [step : {"offline"}, id : Ids, account : Owners]

TaskSet(D) ==
    {Idle}
       \cup [step : {"preloaded"}, name : Names, guid : Ids]
       \cup [step : {"loaded"}, name : D]
       \cup [step : {"saving", "writing"}, name : D, tries : 1 .. 3, leaves : BOOLEAN]

LEMMA RequestGoes ==
    ASSUME CharactersTypeOK, NEW r \in Requests, NEW state \in RequestSet, Enter(r, state)
    PROVE  /\ request' \in [Requests -> RequestSet] /\ request'[r] = state
           /\ \A q \in Requests \ {r} : request'[q] = request[q]
BY DEF CharactersTypeOK, Enter, RequestSet

LEMMA WebTypes == CharactersInv /\ WebApi => CharactersTypeOK'
<1> SUFFICES ASSUME CharactersInv, WebApi PROVE CharactersTypeOK'
  OBVIOUS
<1>0. CharactersTypeOK /\ NumberLocked /\ Idle \in RequestSet
  BY DEF CharactersInv, RequestSet
<1>1. ASSUME NEW r \in Requests, NEW state \in RequestSet, Enter(r, state),
             rows' \in [Ids -> Row \cup {NoRow}], tableLock' \in Requests \cup {NoRequest},
             births' \in 0 .. MaxBorn, deletedInGame' \in BOOLEAN,
             UNCHANGED <<playersOnline, up, inGame, task>>
      PROVE  CharactersTypeOK'
  BY <1>0, <1>1, RequestGoes DEF CharactersTypeOK, RequestSet
<1>2. ASSUME NEW r \in Requests, NEW n \in Names, NEW a \in Owners, CreateStarts(r, n, a)
      PROVE  CharactersTypeOK'
  <2>1. [step |-> "named", name |-> n, account |-> a] \in RequestSet
    BY DEF RequestSet
  <2> QED
    BY <1>0, <1>1, <1>2, <2>1 DEF CreateStarts, CharactersTypeOK
<1>3. ASSUME NEW r \in Requests, CreateCounts(r) PROVE CharactersTypeOK'
  <2>1. [request[r] EXCEPT !.step = "counted"] \in RequestSet
    BY <1>0, <1>3, RequestTyped DEF CreateCounts, RequestSet
  <2>2. PICK state \in RequestSet : Enter(r, state)
    BY <1>0, <1>3, <2>1 DEF CreateCounts, Respond
  <2> QED
    BY <1>0, <1>1, <1>3, <2>2 DEF CreateCounts, CharactersTypeOK
<1>4. ASSUME NEW r \in Requests, CreateNumbers(r) PROVE CharactersTypeOK'
  <2>1. [step |-> "numbered", name |-> request[r].name,
                 account |-> request[r].account, id |-> NextId] \in RequestSet
    BY <1>0, <1>4, RequestTyped DEF CreateNumbers, RequestSet
  <2> QED
    BY <1>0, <1>1, <1>4, <2>1 DEF CreateNumbers, CharactersTypeOK
<1>5. ASSUME NEW r \in Requests, CreateInserts(r) PROVE CharactersTypeOK'
  <2>1. /\ births < MaxBorn /\ births \in Nat /\ births + 1 \in 1 .. MaxBorn
        /\ request[r].name \in Names /\ request[r].account \in Owners /\ request[r].id \in Ids
    BY <1>0, <1>5, RequestTyped DEF CreateInserts, NumberLocked, CharactersTypeOK
  <2>2. [name |-> request[r].name, account |-> request[r].account,
         born |-> births + 1, data |-> births + 1] \in Row
    BY <2>1 DEF Row
  <2>3. rows' \in [Ids -> Row \cup {NoRow}] /\ births' \in 0 .. MaxBorn
    BY <1>0, <1>5, <2>1, <2>2 DEF CreateInserts, CharactersTypeOK
  <2>4. Enter(r, Idle) /\ tableLock' = NoRequest /\ UNCHANGED <<playersOnline, up, inGame, task, deletedInGame>>
    BY <1>5 DEF CreateInserts, Respond
  <2> QED
    BY <1>0, <1>1, <2>3, <2>4 DEF CharactersTypeOK
<1>6. ASSUME NEW r \in Requests, NEW id \in Ids, NEW a \in Owners, DeleteStarts(r, id, a)
      PROVE  CharactersTypeOK'
  <2>1. [step |-> "offline", id |-> id, account |-> a] \in RequestSet
    BY DEF RequestSet
  <2> QED
    BY <1>0, <1>1, <1>6, <2>1 DEF DeleteStarts, CharactersTypeOK
<1>7. ASSUME NEW r \in Requests, DeleteRow(r) PROVE CharactersTypeOK'
  <2>1. rows' \in [Ids -> Row \cup {NoRow}]
    BY <1>0, <1>7 DEF DeleteRow, CharactersTypeOK
  <2>2. deletedInGame' \in BOOLEAN
    BY <1>0, <1>7 DEF DeleteRow, CharactersTypeOK
  <2>3. Enter(r, Idle) /\ UNCHANGED <<playersOnline, tableLock, up, inGame, task, births>>
    BY <1>7 DEF DeleteRow, Respond
  <2> QED
    BY <1>0, <1>1, <2>1, <2>2, <2>3 DEF CharactersTypeOK
<1> QED
  BY <1>2, <1>3, <1>4, <1>5, <1>6, <1>7 DEF WebApi

\* A set of naturals with a bound has a maximum.
LEMMA LeastOf == ASSUME NEW S \in SUBSET Nat, S # {} PROVE \E x \in S : \A y \in S : x <= y
<1>1. PICK x \in S : \A y \in S : ~(<<y, x>> \in OpToRel(<, Nat))
  BY NatLessThanWellFounded, WFMin
<1>2. OpToRel(<, Nat) = {p \in Nat \X Nat : p[1] < p[2]}
  BY DEF OpToRel
<1>3. \A y \in S : ~(y < x)
  BY <1>1, <1>2
<1> QED
  BY <1>3

LEMMA MaxOf ==
    ASSUME NEW S \in SUBSET Nat, S # {}, NEW n \in Nat, \A x \in S : x <= n
    PROVE  Max(S) \in S /\ \A y \in S : y <= Max(S)
<1>1. PICK x \in {n - y : y \in S} : \A z \in {n - y : y \in S} : x <= z
  <2>1. {n - y : y \in S} \in SUBSET Nat
    OBVIOUS
  <2>2. {n - y : y \in S} # {}
    OBVIOUS
  <2> QED
    BY <2>1, <2>2, LeastOf
<1>2. \E m \in S : \A y \in S : m >= y
  <2>1. PICK m \in S : x = n - m
    BY <1>1
  <2>2. \A y \in S : n - m <= n - y
     BY <1>1, <2>1
  <2>3. \A y \in S : m >= y
    BY <2>2
  <2> QED
    BY <2>3
<1> QED
  BY <1>2 DEF Max

\* MAX(`id`) + 1 is nobody's id.
LEMMA NextIdIsFree == CharactersTypeOK /\ NextId \in Ids => rows[NextId] = NoRow
<1> SUFFICES ASSUME CharactersTypeOK, NextId \in Ids PROVE rows[NextId] = NoRow
  OBVIOUS
<1>1. Used \cup {0} \in SUBSET Nat /\ \A x \in Used \cup {0} : x <= MaxId
  BY DEF Used, Ids
<1>2. \A y \in Used \cup {0} : y <= Max(Used \cup {0})
  BY <1>1, MaxOf
<1>3. Max(Used \cup {0}) \in Nat
  BY <1>1, MaxOf
<1>4. \A y \in Used : y # NextId
  BY <1>1, <1>2, <1>3 DEF NextId
<1> QED
  BY <1>4 DEF Used

LEMMA CountsTyped ==
    ASSUME NEW a \in Owners
    PROVE  /\ IsFiniteSet(Owned(a)) /\ IsFiniteSet(InFlight(a))
           /\ Cardinality(Owned(a)) \in Nat /\ Cardinality(InFlight(a)) \in Nat
           /\ Cardinality(InFlight(a)) <= Cardinality(Requests) /\ Cardinality(Requests) \in Nat
<1>1. IsFiniteSet(Ids) /\ Owned(a) \in SUBSET Ids
  BY FS_Interval DEF Ids, Owned, Used
<1>2. InFlight(a) \in SUBSET Requests
  BY DEF InFlight
<1> QED
  BY <1>1, <1>2, FS_Subset, FS_CardinalityType

LEMMA FewerFits ==
    ASSUME NEW O, NEW F, NEW P, NEW G, IsFiniteSet(O), IsFiniteSet(F), P \subseteq O, G \subseteq F,
           NEW n \in Int, Cardinality(O) + Cardinality(F) <= n
    PROVE  Cardinality(P) + Cardinality(G) <= n
<1>1. Cardinality(P) <= Cardinality(O) /\ IsFiniteSet(P)
  BY FS_Subset
<1>2. Cardinality(G) <= Cardinality(F) /\ IsFiniteSet(G)
  BY FS_Subset
<1> QED
  BY <1>1, <1>2, FS_CardinalityType

LEMMA WebLimit == CharactersInv /\ WebApi => LimitKept'
<1> SUFFICES ASSUME CharactersInv, WebApi, NEW a \in Owners
             PROVE  Cardinality(Owned(a)') + Cardinality(InFlight(a)') <= Limit + Cardinality(Requests) - 1
  BY DEF LimitKept
<1>0. /\ CharactersTypeOK /\ NumberLocked
      /\ Cardinality(Owned(a)) + Cardinality(InFlight(a)) <= Limit + Cardinality(Requests) - 1
      /\ Limit + Cardinality(Requests) - 1 \in Int
      /\ IsFiniteSet(Owned(a)) /\ IsFiniteSet(InFlight(a))
  BY CountsTyped DEF CharactersInv, LimitKept
<1> DEFINE Fits == Cardinality(Owned(a)') + Cardinality(InFlight(a)') <= Limit + Cardinality(Requests) - 1
<1>1. ASSUME Owned(a)' \subseteq Owned(a), InFlight(a)' \subseteq InFlight(a) PROVE Fits
  BY <1>0, <1>1, FewerFits
<1> HIDE DEF Fits
<1>2. ASSUME NEW r \in Requests, NEW n \in Names, NEW b \in Owners, CreateStarts(r, n, b)
      PROVE  Fits
  <2>1. request'[r].step = "named" /\ \A q \in Requests \ {r} : request'[q] = request[q]
    BY <1>0, <1>2 DEF CreateStarts, Enter, CharactersTypeOK
  <2>2. Owned(a)' = Owned(a)
    BY <1>2 DEF CreateStarts, Owned, Used
  <2> QED
    BY <1>1, <2>1, <2>2 DEF InFlight
<1>3. ASSUME NEW r \in Requests, CreateCounts(r) PROVE Fits
  <2>1. Owned(a)' = Owned(a)
    BY <1>3 DEF CreateCounts, Owned, Used
  <2>2. CASE BelowLimit(request[r].account)
    <3>1. /\ request'[r].step = "counted" /\ request'[r].account = request[r].account
          /\ \A q \in Requests \ {r} : request'[q] = request[q]
      BY <1>0, <1>3, <2>2, RequestTyped DEF CreateCounts, Enter, CharactersTypeOK
    <3>2. CASE a = request[r].account
      <4>1. Cardinality(Owned(a)) < Limit
        BY <2>2, <3>2 DEF BelowLimit
      <4>2. InFlight(a)' \in SUBSET Requests
        BY DEF InFlight
      <4>3. Cardinality(InFlight(a)') <= Cardinality(Requests) /\ IsFiniteSet(InFlight(a)')
        BY <4>2, FS_Subset
      <4>4. Cardinality(InFlight(a)') \in Nat
        BY <4>3, FS_CardinalityType
      <4> QED
        BY <2>1, <4>1, <4>3, <4>4, CountsTyped DEF Fits
    <3>3. CASE a # request[r].account
      BY <1>1, <2>1, <3>1, <3>3 DEF InFlight
    <3> QED
      BY <3>2, <3>3
  <2>3. CASE ~BelowLimit(request[r].account)
    <3>1. /\ request'[r].step = "idle" /\ \A q \in Requests \ {r} : request'[q] = request[q]
      BY <1>0, <1>3, <2>3 DEF CreateCounts, Respond, Enter, Idle, CharactersTypeOK
    <3> QED
      BY <1>1, <2>1, <3>1 DEF InFlight
  <2> QED
    BY <2>2, <2>3
<1>4. ASSUME NEW r \in Requests, CreateNumbers(r) PROVE Fits
  <2>1. Owned(a)' = Owned(a)
    BY <1>4 DEF CreateNumbers, Owned, Used
  <2>2. /\ request[r].step = "counted" /\ request'[r].account = request[r].account
        /\ \A q \in Requests \ {r} : request'[q] = request[q]
    BY <1>0, <1>4 DEF CreateNumbers, Enter, CharactersTypeOK
  <2> QED
    BY <1>1, <2>1, <2>2 DEF InFlight
<1>5. ASSUME NEW r \in Requests, CreateInserts(r) PROVE Fits
  <2>1. /\ request[r].step = "numbered" /\ request'[r].step = "idle"
        /\ \A q \in Requests \ {r} : request'[q] = request[q]
    BY <1>0, <1>5 DEF CreateInserts, Respond, Enter, Idle, CharactersTypeOK
  <2>2. InFlight(a)' = InFlight(a) \ {r}
    BY <2>1 DEF InFlight
  <2>3. CASE UNCHANGED rows
    <3>1. Owned(a)' = Owned(a)
      BY <2>3 DEF Owned, Used
    <3> QED
      BY <1>1, <2>2, <3>1
  <2>4. CASE rows' = [rows EXCEPT ![request[r].id] =
                         [name |-> request[r].name, account |-> request[r].account,
                          born |-> births + 1, data |-> births + 1]]
    <3>1. /\ rows'[request[r].id].account = request[r].account
          /\ \A id \in Ids \ {request[r].id} : rows'[id] = rows[id]
          /\ request[r].id \in Ids
      BY <1>0, <2>1, <2>4, RequestTyped DEF CharactersTypeOK
    <3>2. CASE a # request[r].account
      <4>1. Owned(a)' \subseteq Owned(a)
        BY <3>1, <3>2 DEF Owned, Used
      <4> QED
        BY <1>1, <2>2, <4>1
    <3>3. CASE a = request[r].account
      <4>1. r \in InFlight(a)
        BY <2>1, <3>3 DEF InFlight
      <4>2. Owned(a)' \subseteq Owned(a) \cup {request[r].id}
        BY <3>1 DEF Owned, Used
      <4>3. Cardinality(InFlight(a)') = Cardinality(InFlight(a)) - 1
        BY <1>0, <2>2, <4>1, FS_RemoveElement
      <4>4. /\ IsFiniteSet(Owned(a) \cup {request[r].id})
            /\ Cardinality(Owned(a) \cup {request[r].id}) <= Cardinality(Owned(a)) + 1
        <5>1. /\ IsFiniteSet(Owned(a) \cup {request[r].id})
              /\ Cardinality(Owned(a) \cup {request[r].id}) =
                   IF request[r].id \in Owned(a) THEN Cardinality(Owned(a)) ELSE Cardinality(Owned(a)) + 1
          BY <1>0, FS_AddElement
        <5>2. Cardinality(Owned(a)) \in Nat
          BY CountsTyped
        <5> QED
          BY <5>1, <5>2
      <4>5. /\ Cardinality(Owned(a)') <= Cardinality(Owned(a) \cup {request[r].id})
            /\ IsFiniteSet(Owned(a)')
        BY <4>2, <4>4, FS_Subset
      <4>6. Cardinality(Owned(a)') \in Nat /\ Cardinality(Owned(a) \cup {request[r].id}) \in Nat
        BY <4>4, <4>5, FS_CardinalityType
      <4> QED
        BY <1>0, <4>3, <4>4, <4>5, <4>6, CountsTyped DEF Fits
    <3> QED
      BY <3>2, <3>3
  <2> QED
    BY <1>5, <2>3, <2>4 DEF CreateInserts
<1>6. ASSUME NEW r \in Requests, NEW id \in Ids, NEW b \in Owners, DeleteStarts(r, id, b)
      PROVE  Fits
  <2>1. /\ request'[r].step = "offline" /\ \A q \in Requests \ {r} : request'[q] = request[q]
    BY <1>0, <1>6 DEF DeleteStarts, Enter, CharactersTypeOK
  <2>2. Owned(a)' = Owned(a)
    BY <1>6 DEF DeleteStarts, Owned, Used
  <2> QED
    BY <1>1, <2>1, <2>2 DEF InFlight
<1>7. ASSUME NEW r \in Requests, DeleteRow(r) PROVE Fits
  <2>1. /\ request'[r].step = "idle" /\ \A q \in Requests \ {r} : request'[q] = request[q]
    BY <1>0, <1>7 DEF DeleteRow, Respond, Enter, Idle, CharactersTypeOK
  <2>2. Owned(a)' \subseteq Owned(a)
    BY <1>0, <1>7 DEF DeleteRow, Owned, Used, CharactersTypeOK
  <2> QED
    BY <1>1, <2>1, <2>2 DEF InFlight
<1> QED
  BY <1>2, <1>3, <1>4, <1>5, <1>6, <1>7 DEF WebApi, Fits

LEMMA WebNumbers == CharactersInv /\ WebApi => NumberLocked'
<1> SUFFICES ASSUME CharactersInv, WebApi PROVE NumberLocked'
  OBVIOUS
<1>0. /\ CharactersTypeOK /\ NumberLocked /\ NoRequest \notin Requests
  BY DEF CharactersInv
<1>1. ASSUME NEW r \in Requests, request'[r].step # "numbered",
             \A q \in Requests \ {r} : request'[q] = request[q],
             UNCHANGED <<tableLock, births>>,
             \A id \in Ids : rows[id] = NoRow => rows'[id] = NoRow
      PROVE  NumberLocked'
  BY <1>0, <1>1, RequestTyped DEF NumberLocked
<1>2. ASSUME NEW r \in Requests, NEW n \in Names, NEW a \in Owners, CreateStarts(r, n, a)
      PROVE  NumberLocked'
  BY <1>0, <1>1, <1>2 DEF CreateStarts, Enter, CharactersTypeOK
<1>3. ASSUME NEW r \in Requests, CreateCounts(r) PROVE NumberLocked'
  <2>1. request'[r].step # "numbered" /\ \A q \in Requests \ {r} : request'[q] = request[q]
    BY <1>0, <1>3, RequestTyped DEF CreateCounts, Enter, Respond, Idle, CharactersTypeOK
  <2> QED
    BY <1>1, <1>3, <2>1 DEF CreateCounts
<1>4. ASSUME NEW r \in Requests, CreateNumbers(r) PROVE NumberLocked'
  <2>1. /\ tableLock = NoRequest /\ tableLock' = r /\ NextId \in Ids /\ births < MaxBorn
        /\ request'[r].id = NextId /\ \A q \in Requests \ {r} : request'[q] = request[q]
        /\ UNCHANGED <<rows, births>>
    BY <1>0, <1>4 DEF CreateNumbers, MayNumber, TableFree, Enter, CharactersTypeOK
  <2>2. \A q \in Requests : request[q].step # "numbered"
    BY <1>0, <2>1 DEF NumberLocked
  <2> QED
    BY <1>0, <2>1, <2>2, NextIdIsFree DEF NumberLocked
<1>5. ASSUME NEW r \in Requests, CreateInserts(r) PROVE NumberLocked'
  <2>1. /\ request[r].step = "numbered" /\ request'[r].step = "idle"
        /\ \A q \in Requests \ {r} : request'[q] = request[q]
    BY <1>0, <1>5 DEF CreateInserts, Respond, Enter, Idle, CharactersTypeOK
  <2>2. \A q \in Requests \ {r} : request[q].step # "numbered"
    BY <1>0, <2>1 DEF NumberLocked
  <2> QED
    BY <2>1, <2>2 DEF NumberLocked
<1>6. ASSUME NEW r \in Requests, NEW id \in Ids, NEW a \in Owners, DeleteStarts(r, id, a)
      PROVE  NumberLocked'
  BY <1>0, <1>1, <1>6 DEF DeleteStarts, Enter, CharactersTypeOK
<1>7. ASSUME NEW r \in Requests, DeleteRow(r) PROVE NumberLocked'
  <2>1. request'[r].step # "numbered" /\ \A q \in Requests \ {r} : request'[q] = request[q]
    BY <1>0, <1>7 DEF DeleteRow, Enter, Respond, Idle, CharactersTypeOK
  <2>2. \A id \in Ids : rows[id] = NoRow => rows'[id] = NoRow
    BY <1>0, <1>7 DEF DeleteRow, CharactersTypeOK
  <2> QED
    BY <1>1, <1>7, <2>1, <2>2 DEF DeleteRow
<1> QED
  BY <1>2, <1>3, <1>4, <1>5, <1>6, <1>7 DEF WebApi

LEMMA WebRows == CharactersInv /\ WebApi => ObjectsHaveRows'
<1> SUFFICES ASSUME CharactersInv, WebApi, ~deletedInGame' PROVE
        /\ \A n \in DOMAIN inGame' :
              /\ rows'[inGame'[n].guid] # NoRow
              /\ rows'[inGame'[n].guid].born = inGame'[n].born /\ rows'[inGame'[n].guid].name = n
        /\ \A id \in Ids : rows'[id] # NoRow => rows'[id].data = rows'[id].born
  BY DEF ObjectsHaveRows, Used
<1> DEFINE Kept ==
        /\ \A n \in DOMAIN inGame' :
              /\ rows'[inGame'[n].guid] # NoRow
              /\ rows'[inGame'[n].guid].born = inGame'[n].born /\ rows'[inGame'[n].guid].name = n
        /\ \A id \in Ids : rows'[id] # NoRow => rows'[id].data = rows'[id].born
<1>0. /\ CharactersTypeOK /\ NumberLocked /\ ObjectsHaveRows
  BY DEF CharactersInv
<1>1. UNCHANGED inGame /\ ~deletedInGame
  BY DEF WebApi, CreateStarts, CreateCounts, CreateNumbers, CreateInserts, DeleteStarts, DeleteRow
<1>3. /\ \A n \in DOMAIN inGame :
            /\ inGame[n].guid \in Ids /\ rows[inGame[n].guid] # NoRow
            /\ rows[inGame[n].guid].born = inGame[n].born /\ rows[inGame[n].guid].name = n
      /\ \A id \in Ids : rows[id] # NoRow => rows[id].data = rows[id].born
  BY <1>0, <1>1 DEF ObjectsHaveRows, Used, CharactersTypeOK, Object
<1>4. CASE UNCHANGED rows
  BY <1>1, <1>3, <1>4
<1>5. ASSUME NEW r \in Requests, CreateInserts(r),
             rows' = [rows EXCEPT ![request[r].id] =
                         [name |-> request[r].name, account |-> request[r].account,
                          born |-> births + 1, data |-> births + 1]]
      PROVE  Kept
  <2>1. rows[request[r].id] = NoRow /\ request[r].id \in Ids
    BY <1>0, <1>5, RequestTyped DEF NumberLocked, CreateInserts
  <2>2. /\ \A id \in Ids \ {request[r].id} : rows'[id] = rows[id]
        /\ rows'[request[r].id].data = rows'[request[r].id].born
    BY <1>0, <1>5, <2>1 DEF CharactersTypeOK
  <2> QED
    BY <1>1, <1>3, <2>1, <2>2
<1>6. ASSUME NEW r \in Requests, DeleteRow(r), request[r].id \in Owned(request[r].account)
      PROVE  Kept
  <2>1. \A n \in DOMAIN inGame :
           ~(inGame[n].guid = request[r].id /\ inGame[n].born = rows[request[r].id].born)
    BY <1>6 DEF DeleteRow
  <2>2. \A n \in DOMAIN inGame : inGame[n].guid # request[r].id
    BY <1>3, <2>1
  <2>3. /\ \A id \in Ids \ {request[r].id} : rows'[id] = rows[id]
        /\ request[r].id \in Ids /\ rows'[request[r].id] = NoRow
    BY <1>0, <1>6 DEF DeleteRow, CharactersTypeOK, Owned, Used
  <2> QED
    BY <1>1, <1>3, <2>2, <2>3
<1> QED
  BY <1>4, <1>5, <1>6
  DEF WebApi, CreateStarts, CreateCounts, CreateNumbers, CreateInserts, DeleteStarts, DeleteRow

LEMMA WebOnline == CharactersInv /\ WebApi => OnlineKept' /\ TaskInOrder'
<1> SUFFICES ASSUME CharactersInv, WebApi PROVE OnlineKept' /\ TaskInOrder'
  OBVIOUS
<1>1. UNCHANGED <<playersOnline, up, inGame, task>> /\ (~deletedInGame' => ~deletedInGame)
  BY DEF WebApi, CreateStarts, CreateCounts, CreateNumbers, CreateInserts, DeleteStarts, DeleteRow
<1>2. OnlineKept /\ TaskInOrder
  BY DEF CharactersInv
<1>3. UNCHANGED Present
  BY <1>1 DEF Present
<1>4. TaskInOrder'
  BY <1>1, <1>2 DEF TaskInOrder
<1>5. OnlineKept'
  BY <1>1, <1>2, <1>3 DEF OnlineKept
<1> QED
  BY <1>4, <1>5

LEMMA GameKeepsTable ==
    ASSUME CharactersInv, UNCHANGED <<request, tableLock, births>>,
           \A id \in Ids : /\ rows'[id] = NoRow <=> rows[id] = NoRow
                           /\ rows[id] # NoRow => rows'[id].account = rows[id].account
    PROVE  LimitKept' /\ NumberLocked'
<1>0. CharactersTypeOK /\ LimitKept /\ NumberLocked
  BY DEF CharactersInv
<1>1. \A a \in Owners : Owned(a)' = Owned(a) /\ InFlight(a)' = InFlight(a)
  BY DEF Owned, Used, InFlight
<1>2. LimitKept'
  BY <1>0, <1>1 DEF LimitKept
<1>3. NumberLocked'
  BY <1>0, RequestTyped DEF NumberLocked
<1> QED
  BY <1>2, <1>3

ObjectsTyped == DOMAIN inGame \subseteq Names /\ \A n \in DOMAIN inGame : inGame[n] \in Object

LEMMA GameTypes ==
    ASSUME CharactersTypeOK, UNCHANGED <<request, tableLock, births, deletedInGame>>,
           rows' \in [Ids -> Row \cup {NoRow}], playersOnline' \subseteq Ids, up' \in BOOLEAN,
           ObjectsTyped', task' \in TaskSet(DOMAIN inGame')
    PROVE  CharactersTypeOK'
BY DEF CharactersTypeOK, ObjectsTyped, TaskSet

LEMMA TaskTyped ==
    ASSUME CharactersTypeOK
    PROVE  /\ ObjectsTyped /\ task \in TaskSet(DOMAIN inGame)
           /\ task.step \in {"idle", "preloaded", "loaded", "saving", "writing"}
           /\ task.step = "preloaded" => task.name \in Names
           /\ task.step = "loaded" => task.name \in DOMAIN inGame
           /\ task.step \in {"saving", "writing"} =>
                 /\ task.name \in DOMAIN inGame /\ task.leaves \in BOOLEAN
                 /\ task.tries \in 1 .. 3
                 /\ task \in [step : {"saving", "writing"}, name : DOMAIN inGame, tries : 1 .. 3, leaves : BOOLEAN]
BY DEF CharactersTypeOK, TaskSet, Idle, ObjectsTyped

LEMMA PresentKept ==
    ASSUME OnlineKept, UNCHANGED <<playersOnline, up, deletedInGame>>, Present' = Present,
           \A n \in Present : inGame'[n] = inGame[n]
    PROVE  OnlineKept'
BY DEF OnlineKept

LEMMA RowsOfObjects ==
    ASSUME CharactersTypeOK, ObjectsHaveRows, UNCHANGED <<rows, deletedInGame>>,
           \A n \in DOMAIN inGame' : n \in DOMAIN inGame /\ inGame'[n].guid = inGame[n].guid
                                                         /\ inGame'[n].born = inGame[n].born
    PROVE  ObjectsHaveRows'
BY DEF ObjectsHaveRows, Used

LEMMA PreloadStep ==
    ASSUME CharactersInv, NEW n \in Names, Preload(n) PROVE CharactersInv'
<1>0. CharactersTypeOK /\ ObjectsHaveRows /\ OnlineKept /\ TaskInOrder
  BY DEF CharactersInv
<1>1. PICK id \in Ids : /\ task' = [step |-> "preloaded", name |-> n, guid |-> id]
                        /\ task = Idle /\ n \notin DOMAIN inGame /\ up
                        /\ UNCHANGED <<rows, playersOnline, request, tableLock, up, inGame, births, deletedInGame>>
  BY DEF Preload, Named, Used
<1>2. CharactersTypeOK'
  <2>1. task' \in TaskSet(DOMAIN inGame') /\ ObjectsTyped'
    BY <1>0, <1>1 DEF TaskSet, CharactersTypeOK, ObjectsTyped
  <2> QED
    BY <1>0, <1>1, <2>1, GameTypes DEF CharactersTypeOK
<1>3. Present' = Present
  BY <1>1 DEF Present, Idle
<1>4. OnlineKept' /\ ObjectsHaveRows'
  BY <1>0, <1>1, <1>3, PresentKept, RowsOfObjects
<1>5. TaskInOrder'
  BY <1>0, <1>1 DEF TaskInOrder
<1> QED
  BY <1>1, <1>2, <1>4, <1>5, GameKeepsTable DEF CharactersInv

LEMMA LoadPlayerStep == ASSUME CharactersInv, LoadPlayer PROVE CharactersInv'
<1>0. /\ CharactersTypeOK /\ ObjectsHaveRows /\ OnlineKept /\ TaskInOrder /\ ObjectsTyped
      /\ task.step = "preloaded" /\ task.name \in Names /\ task.name \notin DOMAIN inGame
      /\ UNCHANGED <<rows, playersOnline, request, tableLock, up, births, deletedInGame>>
      /\ up
  BY TaskTyped DEF CharactersInv, LoadPlayer, TaskInOrder, Idle
<1>1. LimitKept' /\ NumberLocked'
  BY <1>0, GameKeepsTable
<1>2. CASE task' = Idle /\ UNCHANGED inGame
  <2>1. task' \in TaskSet(DOMAIN inGame') /\ ObjectsTyped'
    BY <1>0, <1>2 DEF TaskSet, ObjectsTyped
  <2>2. CharactersTypeOK'
    BY <1>0, <2>1, GameTypes DEF CharactersTypeOK
  <2>3. Present' = Present
    BY <1>0, <1>2 DEF Present, Idle
  <2>4. OnlineKept' /\ ObjectsHaveRows'
    BY <1>0, <1>2, <2>3, PresentKept, RowsOfObjects
  <2>5. TaskInOrder'
    BY <1>0, <1>2 DEF TaskInOrder, Idle
  <2> QED
    BY <1>1, <2>2, <2>4, <2>5 DEF CharactersInv
<1>3. ASSUME NEW id \in Named(task.name),
             task' = [step |-> "loaded", name |-> task.name],
             inGame' = With(inGame, task.name, [guid |-> LoadedGuid(id), born |-> rows[id].born,
                                                ghost |-> FALSE])
      PROVE  CharactersInv'
  <2>1. /\ id \in Ids /\ rows[id] # NoRow /\ rows[id].name = task.name
        /\ rows[id].born \in 1 .. MaxBorn
    BY <1>0, <1>3 DEF Named, Used, CharactersTypeOK, Row
  <2>2. /\ DOMAIN inGame' = DOMAIN inGame \cup {task.name}
        /\ \A m \in DOMAIN inGame : inGame'[m] = inGame[m]
        /\ inGame'[task.name] = [guid |-> id, born |-> rows[id].born, ghost |-> FALSE]
    BY <1>0, <1>3 DEF With, LoadedGuid
  <2>3. inGame'[task.name] \in Object
    BY <2>1, <2>2 DEF Object
  <2>4. /\ inGame'[task.name].guid = id /\ inGame'[task.name].born = rows[id].born
        /\ inGame'[task.name].ghost = FALSE
    BY <2>2
  <2>5. ObjectsTyped' /\ task' \in TaskSet(DOMAIN inGame')
    BY <1>0, <1>3, <2>2, <2>3 DEF TaskSet, ObjectsTyped
  <2>6. CharactersTypeOK'
    BY <1>0, <2>5, GameTypes DEF CharactersTypeOK
  <2>7. Present' = Present /\ \A m \in Present : inGame'[m] = inGame[m]
    BY <1>0, <1>3, <2>2 DEF Present
  <2>8. OnlineKept'
    BY <1>0, <2>7, PresentKept
  <2>9. ObjectsHaveRows'
    BY <1>0, <2>1, <2>2, <2>4 DEF ObjectsHaveRows, Used
  <2>10. TaskInOrder'
    BY <1>0, <1>3, <2>4 DEF TaskInOrder
  <2> QED
    BY <1>1, <2>6, <2>8, <2>9, <2>10 DEF CharactersInv
<1> QED
  BY <1>2, <1>3 DEF LoadPlayer

LEMMA AppearOnlineStep == ASSUME CharactersInv, AppearOnline PROVE CharactersInv'
<1>0. /\ CharactersTypeOK /\ ObjectsHaveRows /\ OnlineKept /\ TaskInOrder /\ ObjectsTyped
      /\ task.step = "loaded" /\ task.name \in DOMAIN inGame /\ ~inGame[task.name].ghost
      /\ task' = Idle
      /\ UNCHANGED <<rows, request, tableLock, up, births, deletedInGame>>
      /\ up
  BY TaskTyped DEF CharactersInv, AppearOnline, TaskInOrder, Idle
<1>1. LimitKept' /\ NumberLocked'
  BY <1>0, GameKeepsTable
<1>2. Present = DOMAIN inGame \ {task.name}
  BY <1>0 DEF Present
<1>3. CASE playersOnline' = playersOnline \cup {inGame[task.name].guid} /\ UNCHANGED inGame
  <2>1. task' \in TaskSet(DOMAIN inGame') /\ ObjectsTyped' /\ playersOnline' \subseteq Ids
    BY <1>0, <1>3 DEF TaskSet, ObjectsTyped, CharactersTypeOK, Object
  <2>2. CharactersTypeOK'
    BY <1>0, <2>1, GameTypes DEF CharactersTypeOK
  <2>3. Present' = DOMAIN inGame
    BY <1>0, <1>3 DEF Present, Idle
  <2>4. ObjectsHaveRows'
    BY <1>0, <1>3, RowsOfObjects
  <2>5. OnlineKept'
    BY <1>0, <1>2, <1>3, <2>3 DEF OnlineKept
  <2>6. TaskInOrder'
    BY <1>0, <1>3 DEF TaskInOrder, Idle
  <2> QED
    BY <1>1, <2>2, <2>4, <2>5, <2>6 DEF CharactersInv
<1>4. CASE inGame' = Without(inGame, task.name) /\ UNCHANGED playersOnline
  <2>0. DOMAIN inGame' = DOMAIN inGame \ {task.name} /\ \A n \in DOMAIN inGame' : inGame'[n] = inGame[n]
    BY <1>4 DEF Without
  <2>1. task' \in TaskSet(DOMAIN inGame') /\ ObjectsTyped' /\ playersOnline' \subseteq Ids
    BY <1>0, <1>4, <2>0 DEF TaskSet, ObjectsTyped, CharactersTypeOK
  <2>2. CharactersTypeOK'
    BY <1>0, <2>1, GameTypes DEF CharactersTypeOK
  <2>3. Present' = Present /\ \A n \in Present : inGame'[n] = inGame[n]
    BY <1>0, <1>2, <2>0 DEF Present, Idle
  <2>4. ObjectsHaveRows'
    BY <1>0, <2>0, RowsOfObjects
  <2>5. OnlineKept'
    BY <1>0, <1>4, <2>3, PresentKept
  <2>6. TaskInOrder'
    BY <1>0 DEF TaskInOrder, Idle
  <2> QED
    BY <1>1, <2>2, <2>4, <2>5, <2>6 DEF CharactersInv
<1> QED
  BY <1>3, <1>4 DEF AppearOnline

LEMMA GhostStep == ASSUME CharactersInv, NEW n \in Names, SetGhostMode(n) PROVE CharactersInv'
<1>0. /\ CharactersTypeOK /\ ObjectsHaveRows /\ OnlineKept /\ TaskInOrder /\ ObjectsTyped
      /\ up /\ task = Idle /\ n \in DOMAIN inGame
      /\ UNCHANGED <<rows, request, tableLock, up, task, births, deletedInGame>>
  BY TaskTyped DEF CharactersInv, SetGhostMode
<1>1. LimitKept' /\ NumberLocked'
  BY <1>0, GameKeepsTable
<1>2. /\ DOMAIN inGame' = DOMAIN inGame
      /\ \A m \in DOMAIN inGame \ {n} : inGame'[m] = inGame[m]
      /\ inGame'[n] = [inGame[n] EXCEPT !.ghost = ~@]
  BY <1>0 DEF SetGhostMode
<1>3. inGame[n] \in Object
  BY <1>0 DEF ObjectsTyped
<1>4. /\ inGame'[n].guid = inGame[n].guid /\ inGame'[n].born = inGame[n].born
      /\ inGame'[n].ghost <=> ~inGame[n].ghost
      /\ inGame'[n] \in Object
  BY <1>2, <1>3 DEF Object
<1>5. /\ task' \in TaskSet(DOMAIN inGame') /\ ObjectsTyped'
      /\ playersOnline' \subseteq Ids
  BY <1>0, <1>2, <1>3, <1>4 DEF TaskSet, ObjectsTyped, CharactersTypeOK, SetGhostMode, Object
<1>6. CharactersTypeOK'
  BY <1>0, <1>5, GameTypes DEF CharactersTypeOK
<1>7. ObjectsHaveRows'
  BY <1>0, <1>2, <1>4, RowsOfObjects
<1>8. Present = DOMAIN inGame /\ Present' = DOMAIN inGame
  BY <1>0, <1>2 DEF Present, Idle
<1>9. ~deletedInGame => \A m \in DOMAIN inGame \ {n} : inGame[m].guid # inGame[n].guid
  BY <1>0 DEF ObjectsHaveRows
<1>10. \A m \in DOMAIN inGame : inGame'[m].guid = inGame[m].guid
  BY <1>2, <1>4
<1>11. OnlineKept'
  <2>1. playersOnline' \subseteq {inGame'[m].guid : m \in DOMAIN inGame}
    BY <1>0, <1>8, <1>10 DEF OnlineKept, SetGhostMode
  <2> DEFINE Seen == {k \in DOMAIN inGame : ~inGame[k].ghost}
             Now == {k \in DOMAIN inGame : ~inGame'[k].ghost}
  <2>2. ASSUME ~deletedInGame PROVE playersOnline' = {inGame'[m].guid : m \in Now}
    <3>1. playersOnline = {inGame[m].guid : m \in Seen} /\ {inGame'[m].guid : m \in Now} = {inGame[m].guid : m \in Now}
      BY <1>0, <1>8, <1>10, <2>2 DEF OnlineKept
    <3>2. CASE inGame[n].ghost
      <4>1. Now = Seen \cup {n}
        BY <1>0, <1>2, <1>4, <3>2
      <4>2. playersOnline' = playersOnline \cup {inGame[n].guid}
        BY <3>2 DEF SetGhostMode
      <4> HIDE DEF Now, Seen
      <4> QED
        BY <3>1, <4>1, <4>2
    <3>3. CASE ~inGame[n].ghost
      <4>1. Now = Seen \ {n} /\ n \in Seen
        BY <1>0, <1>2, <1>4, <3>3
      <4>2. playersOnline' = playersOnline \ {inGame[n].guid}
        BY <3>3 DEF SetGhostMode
      <4>3. \A m \in Seen \ {n} : inGame[m].guid # inGame[n].guid
        BY <1>9, <2>2
      <4> HIDE DEF Now, Seen
      <4> QED
        BY <3>1, <4>1, <4>2, <4>3
    <3> QED
      BY <3>2, <3>3
  <2> QED
    BY <1>0, <1>8, <2>1, <2>2 DEF OnlineKept
<1>12. TaskInOrder'
  BY <1>0, <1>2 DEF TaskInOrder, Idle
<1> QED
  BY <1>1, <1>6, <1>7, <1>11, <1>12 DEF CharactersInv

LEMMA RemovePlayerStep == ASSUME CharactersInv, NEW n \in Names, RemovePlayer(n) PROVE CharactersInv'
<1>0. /\ CharactersTypeOK /\ ObjectsHaveRows /\ OnlineKept /\ TaskInOrder /\ ObjectsTyped
      /\ up /\ task = Idle /\ n \in DOMAIN inGame
      /\ playersOnline' = playersOnline \ {inGame[n].guid}
      /\ task' = [step |-> "saving", name |-> n, tries |-> 3, leaves |-> TRUE]
      /\ UNCHANGED <<rows, request, tableLock, up, inGame, births, deletedInGame>>
  BY TaskTyped DEF CharactersInv, RemovePlayer, OfflineRow
<1>1. LimitKept' /\ NumberLocked'
  BY <1>0, GameKeepsTable
<1>2. /\ task' \in TaskSet(DOMAIN inGame') /\ ObjectsTyped' /\ playersOnline' \subseteq Ids
  BY <1>0 DEF TaskSet, ObjectsTyped, CharactersTypeOK
<1>3. CharactersTypeOK'
  BY <1>0, <1>2, GameTypes DEF CharactersTypeOK
<1>4. ObjectsHaveRows'
  BY <1>0, RowsOfObjects
<1>5. Present = DOMAIN inGame /\ Present' = DOMAIN inGame \ {n}
  BY <1>0 DEF Present, Idle
<1>6. ~deletedInGame => \A m \in DOMAIN inGame \ {n} : inGame[m].guid # inGame[n].guid
  BY <1>0 DEF ObjectsHaveRows
<1>7. playersOnline' \subseteq {inGame[m].guid : m \in DOMAIN inGame \ {n}}
  BY <1>0, <1>5 DEF OnlineKept
<1>8. ASSUME ~deletedInGame
      PROVE  playersOnline' = {inGame[m].guid : m \in {k \in DOMAIN inGame \ {n} : ~inGame[k].ghost}}
  BY <1>0, <1>5, <1>6, <1>8 DEF OnlineKept
<1>9. OnlineKept'
  BY <1>0, <1>5, <1>7, <1>8 DEF OnlineKept
<1>10. TaskInOrder'
  BY <1>0 DEF TaskInOrder
<1> QED
  BY <1>1, <1>3, <1>4, <1>9, <1>10 DEF CharactersInv

LEMMA SavePlayerStep == ASSUME CharactersInv, NEW n \in Names, SavePlayer(n) PROVE CharactersInv'
<1>0. /\ CharactersTypeOK /\ ObjectsHaveRows /\ OnlineKept /\ TaskInOrder /\ ObjectsTyped
      /\ up /\ task = Idle /\ n \in DOMAIN inGame
      /\ task' = [step |-> "saving", name |-> n, tries |-> 1, leaves |-> FALSE]
      /\ UNCHANGED <<rows, playersOnline, request, tableLock, up, inGame, births, deletedInGame>>
  BY TaskTyped DEF CharactersInv, SavePlayer
<1>1. LimitKept' /\ NumberLocked'
  BY <1>0, GameKeepsTable
<1>2. task' \in TaskSet(DOMAIN inGame') /\ ObjectsTyped'
  BY <1>0 DEF TaskSet, ObjectsTyped, CharactersTypeOK
<1>3. CharactersTypeOK'
  BY <1>0, <1>2, GameTypes DEF CharactersTypeOK
<1>4. ObjectsHaveRows'
  BY <1>0, RowsOfObjects
<1>5. Present' = Present
  BY <1>0 DEF Present, Idle
<1>6. OnlineKept'
  BY <1>0, <1>5, PresentKept
<1>7. TaskInOrder'
  BY <1>0 DEF TaskInOrder
<1> QED
  BY <1>1, <1>3, <1>4, <1>6, <1>7 DEF CharactersInv

\* What a step of a save does to the game: the object leaves it at the end, if
\* it is to leave; until then it stays.
LEMMA SaveGoes ==
    ASSUME CharactersInv, task.step \in {"saving", "writing"},
           \/ Saved
           \/ SaveFails
           \/ task' = [task EXCEPT !.step = "writing"] /\ UNCHANGED inGame
    PROVE  \/ /\ task' = Idle /\ task.leaves
              /\ DOMAIN inGame' = DOMAIN inGame \ {task.name}
              /\ \A n \in DOMAIN inGame' : inGame'[n] = inGame[n]
           \/ task' = Idle /\ ~task.leaves /\ UNCHANGED inGame
           \/ /\ task' \in TaskSet(DOMAIN inGame) /\ UNCHANGED inGame
              /\ task'.step \in {"saving", "writing"}
              /\ task'.name = task.name /\ task'.leaves = task.leaves
<1>0. /\ task.name \in DOMAIN inGame /\ task.leaves \in BOOLEAN /\ task.tries \in 1 .. 3
      /\ task \in [step : {"saving", "writing"}, name : DOMAIN inGame, tries : 1 .. 3, leaves : BOOLEAN]
  BY TaskTyped DEF CharactersInv
<1>1. CASE Saved
  BY <1>0, <1>1 DEF Saved, Without
<1>2. CASE SaveFails /\ ~LastTry
  <2>1. task' = [task EXCEPT !.step = "saving", !.tries = @ - 1] /\ UNCHANGED inGame
    BY <1>2 DEF SaveFails
  <2>2. task.tries - 1 \in 1 .. 3
    BY <1>0, <1>2 DEF LastTry
  <2> QED
    BY <1>0, <2>1, <2>2 DEF TaskSet
<1>3. CASE task' = [task EXCEPT !.step = "writing"] /\ UNCHANGED inGame
  BY <1>0, <1>3 DEF TaskSet
<1> QED
  BY <1>1, <1>2, <1>3 DEF SaveFails

LEMMA SaveKeeps ==
    ASSUME CharactersInv, task.step \in {"saving", "writing"},
           \/ Saved
           \/ SaveFails
           \/ task' = [task EXCEPT !.step = "writing"] /\ UNCHANGED inGame,
           UNCHANGED <<playersOnline, request, tableLock, up, births, deletedInGame>>,
           rows' \in [Ids -> Row \cup {NoRow}],
           \A id \in Ids : /\ rows'[id] = NoRow <=> rows[id] = NoRow
                           /\ rows[id] # NoRow =>
                                 /\ rows'[id].account = rows[id].account
                                 /\ rows'[id].name = rows[id].name /\ rows'[id].born = rows[id].born
                                 /\ ~deletedInGame => rows'[id].data = rows[id].data
    PROVE  CharactersInv'
<1>0. /\ CharactersTypeOK /\ ObjectsHaveRows /\ OnlineKept /\ TaskInOrder /\ ObjectsTyped
      /\ task.name \in DOMAIN inGame /\ up
  BY TaskTyped DEF CharactersInv, TaskInOrder, Idle
<1>1. LimitKept' /\ NumberLocked'
  BY GameKeepsTable
<1>2. DOMAIN inGame' \subseteq DOMAIN inGame /\ \A n \in DOMAIN inGame' : inGame'[n] = inGame[n]
  BY SaveGoes
<1>3. task' \in TaskSet(DOMAIN inGame') /\ ObjectsTyped'
  <2>1. Idle \in TaskSet(DOMAIN inGame')
    BY DEF TaskSet
  <2> QED
    BY <1>0, <1>2, <2>1, SaveGoes DEF ObjectsTyped
<1>4. CharactersTypeOK'
  BY <1>0, <1>3, GameTypes DEF CharactersTypeOK
<1>5. ObjectsHaveRows'
  <2>1. \A n \in DOMAIN inGame : inGame[n].guid \in Ids
    BY <1>0 DEF ObjectsTyped, Object
  <2> QED
    BY <1>0, <1>2, <2>1 DEF ObjectsHaveRows, Used
<1>6. Present' = Present /\ \A n \in Present : inGame'[n] = inGame[n]
  BY SaveGoes DEF Present, Idle
<1>7. OnlineKept'
  BY <1>0, <1>6, PresentKept
<1>8. TaskInOrder'
  BY <1>0, SaveGoes DEF TaskInOrder, Idle
<1> QED
  BY <1>1, <1>4, <1>5, <1>7, <1>8 DEF CharactersInv

LEMMA SaveReadsStep == ASSUME CharactersInv, SaveReads PROVE CharactersInv'
<1>1. /\ CharactersTypeOK /\ task.step = "saving"
      /\ UNCHANGED <<rows, playersOnline, request, tableLock, up, births, deletedInGame>>
      /\ SaveFails \/ (task' = [task EXCEPT !.step = "writing"] /\ UNCHANGED inGame)
  BY DEF SaveReads, CharactersInv
<1> QED
  BY <1>1, SaveKeeps DEF CharactersTypeOK

LEMMA SaveWritesStep == ASSUME CharactersInv, SaveWrites PROVE CharactersInv'
<1>1. /\ CharactersTypeOK /\ ObjectsHaveRows /\ task.step = "writing" /\ (Saved \/ SaveFails)
      /\ UNCHANGED <<playersOnline, request, tableLock, up, births, deletedInGame>>
  BY DEF SaveWrites, CharactersInv
<1>2. task.name \in DOMAIN inGame /\ inGame[task.name] \in Object
  BY <1>1, TaskTyped DEF ObjectsTyped
<1>3. CASE UNCHANGED rows
  BY <1>1, <1>3, SaveKeeps DEF CharactersTypeOK
<1>4. CASE /\ rows[inGame[task.name].guid] # NoRow
           /\ rows' = [rows EXCEPT ![inGame[task.name].guid].data = inGame[task.name].born]
  <2> DEFINE g == inGame[task.name].guid
  <2>1. g \in Ids /\ inGame[task.name].born \in 1 .. MaxBorn /\ rows[g] \in Row
    BY <1>1, <1>2, <1>4 DEF Object, CharactersTypeOK
  <2>2. /\ \A id \in Ids \ {g} : rows'[id] = rows[id]
        /\ rows'[g] = [rows[g] EXCEPT !.data = inGame[task.name].born]
        /\ rows' \in [Ids -> Row \cup {NoRow}]
    BY <1>1, <1>4, <2>1 DEF CharactersTypeOK, Row
  <2>3. /\ rows'[g] \in Row /\ rows'[g].account = rows[g].account /\ rows'[g].name = rows[g].name
        /\ rows'[g].born = rows[g].born /\ rows'[g].data = inGame[task.name].born
    BY <2>1, <2>2 DEF Row
  <2>4. ~deletedInGame => rows[g].data = inGame[task.name].born
    BY <1>1, <1>2, <1>4, <2>1 DEF ObjectsHaveRows, Used
  <2>5. rows'[g] # NoRow /\ rows[g] # NoRow
    BY <1>4, <2>3, NoRowIsNone
  <2> HIDE DEF g
  <2> QED
    BY <1>1, <2>1, <2>2, <2>3, <2>4, <2>5, SaveKeeps
<1> QED
  BY <1>3, <1>4 DEF SaveWrites

LEMMA CrashStep == ASSUME CharactersInv, Crash PROVE CharactersInv'
<1>0. CharactersTypeOK /\ OnlineKept /\ ObjectsHaveRows /\ Crash /\ DOMAIN << >> = {}
  BY DEF CharactersInv
<1>1. LimitKept' /\ NumberLocked'
  BY <1>0, GameKeepsTable DEF Crash
<1>2. task' \in TaskSet(DOMAIN inGame') /\ ObjectsTyped'
  BY <1>0 DEF Crash, TaskSet, ObjectsTyped
<1>3. CharactersTypeOK'
  BY <1>0, <1>2, GameTypes DEF Crash, CharactersTypeOK
<1>4. ObjectsHaveRows'
  BY <1>0, RowsOfObjects DEF Crash
<1>5. OnlineKept' /\ TaskInOrder'
  BY <1>0 DEF Crash, OnlineKept, TaskInOrder, Idle
<1> QED
  BY <1>1, <1>3, <1>4, <1>5 DEF CharactersInv

LEMMA StartupStep == ASSUME CharactersInv, Startup PROVE CharactersInv'
<1>0. CharactersTypeOK /\ TaskInOrder /\ ObjectsHaveRows /\ Startup /\ DOMAIN inGame = {} /\ task = Idle
  BY DEF CharactersInv, TaskInOrder, Startup
<1>1. LimitKept' /\ NumberLocked'
  BY <1>0, GameKeepsTable DEF Startup
<1>2. task' \in TaskSet(DOMAIN inGame') /\ ObjectsTyped'
  BY <1>0 DEF Startup, TaskSet, ObjectsTyped
<1>3. CharactersTypeOK'
  BY <1>0, <1>2, GameTypes DEF Startup, AtStartup, CharactersTypeOK
<1>4. ObjectsHaveRows'
  BY <1>0, RowsOfObjects DEF Startup
<1>5. OnlineKept' /\ TaskInOrder'
  BY <1>0 DEF Startup, AtStartup, OnlineKept, TaskInOrder, Idle, Present
<1> QED
  BY <1>1, <1>3, <1>4, <1>5 DEF CharactersInv

LEMMA CharactersStep == CharactersInv /\ [CharactersNext]_characterVars => CharactersInv'
<1>1. CharactersInv /\ WebApi => CharactersInv'
  BY WebTypes, WebLimit, WebNumbers, WebRows, WebOnline DEF CharactersInv
<1>2. CharactersInv /\ GameServer => CharactersInv'
  BY PreloadStep, LoadPlayerStep, AppearOnlineStep, GhostStep, RemovePlayerStep, SavePlayerStep,
     SaveReadsStep, SaveWritesStep, CrashStep, StartupStep DEF GameServer
<1>3. ASSUME CharactersInv, UNCHANGED characterVars PROVE CharactersInv'
  <2>1. UNCHANGED <<rows, playersOnline, request, tableLock, up, inGame, task, births, deletedInGame>>
    BY <1>3 DEF characterVars
  <2>2. CharactersTypeOK'
    BY <1>3, <2>1 DEF CharactersInv, CharactersTypeOK
  <2>3. LimitKept' /\ NumberLocked'
    BY <1>3, <2>1, GameKeepsTable
  <2>4. ObjectsHaveRows' /\ OnlineKept' /\ TaskInOrder'
    BY <1>3, <2>1 DEF CharactersInv, ObjectsHaveRows, Used, OnlineKept, Present, TaskInOrder
  <2> QED
    BY <2>2, <2>3, <2>4 DEF CharactersInv
<1> QED
  BY <1>1, <1>2, <1>3 DEF CharactersNext

LEMMA CharactersStart == CharactersInit => CharactersInv
<1> SUFFICES ASSUME CharactersInit PROVE CharactersInv
  OBVIOUS
<1>0. DOMAIN << >> = {}
  OBVIOUS
<1>1. CharactersTypeOK
  <2>1. rows \in [Ids -> Row \cup {NoRow}] /\ playersOnline \subseteq Ids
    BY DEF CharactersInit
  <2>2. request \in [Requests -> RequestSet]
    BY DEF CharactersInit, RequestSet
  <2>3. tableLock \in Requests \cup {NoRequest} /\ births \in 0 .. MaxBorn
    BY DEF CharactersInit
  <2>4. up \in BOOLEAN /\ deletedInGame \in BOOLEAN
    BY Zenon DEF CharactersInit
  <2>5. ObjectsTyped /\ task \in TaskSet(DOMAIN inGame)
    BY <1>0 DEF CharactersInit, ObjectsTyped, TaskSet
  <2> QED
    BY <2>1, <2>2, <2>3, <2>4, <2>5 DEF CharactersTypeOK, RequestSet, ObjectsTyped, TaskSet
<1>2. LimitKept
  <2>1. ASSUME NEW a \in Owners PROVE Owned(a) = {} /\ InFlight(a) = {}
    BY DEF CharactersInit, Owned, Used, InFlight, Idle
  <2>2. Cardinality({}) = 0 /\ Cardinality(Requests) \in Nat
    BY FS_EmptySet, FS_CardinalityType
  <2>3. ASSUME NEW a \in Owners PROVE Cardinality(Owned(a)) = 0 /\ Cardinality(InFlight(a)) = 0
    BY <2>1, <2>2
  <2>4. 0 + 0 <= Limit + Cardinality(Requests) - 1
    BY <2>2
  <2> QED
    BY <2>3, <2>4 DEF LimitKept
<1>3. NumberLocked
  BY DEF CharactersInit, NumberLocked, Idle
<1>4. ObjectsHaveRows /\ OnlineKept /\ TaskInOrder
  BY <1>0 DEF CharactersInit, ObjectsHaveRows, Used, OnlineKept, Present, TaskInOrder, Idle
<1> QED
  BY <1>1, <1>2, <1>3, <1>4 DEF CharactersInv

\* The invariant of the table players, of its locks and of players_online, for
\* any number of requests, names and accounts.
THEOREM CharactersInvariant == CharactersSpec => []CharactersInv
<1> QED
  BY CharactersStart, CharactersStep, PTL DEF CharactersSpec

\* Two requests never create the same id, requests that overlap take an account
\* above the limit by no more than the others in flight, and the game saves a
\* character into its own row unless it was deleted while in the game (index.ts
\* POST and DELETE /api/characters, IOLoginData::savePlayer).
THEOREM CharactersApart == CharactersSpec => []RowsApart
<1>1. ASSUME CharactersInv PROVE RowsApart
  <2>0. CharactersTypeOK /\ LimitKept /\ NumberLocked /\ ObjectsHaveRows
    BY <1>1 DEF CharactersInv
  <2>1. LimitExceededByOverlapOnly
    <3> SUFFICES ASSUME NEW a \in Owners
                 PROVE  Cardinality(Owned(a)) <= Limit + Cardinality(Requests) - 1
      BY DEF LimitExceededByOverlapOnly
    <3>1. Cardinality(Owned(a)) + Cardinality(InFlight(a)) <= Limit + Cardinality(Requests) - 1
      BY <2>0 DEF LimitKept
    <3> QED
      BY <3>1, CountsTyped
  <2>2. NumberStaysFree
    BY <2>0 DEF NumberLocked, NumberStaysFree
  <2>3. SavesOwnRow
    BY <2>0 DEF ObjectsHaveRows, SavesOwnRow, CharactersTypeOK
  <2> QED
    BY <2>0, <2>1, <2>2, <2>3 DEF RowsApart
<1> QED
  BY <1>1, CharactersInvariant, PTL

\* Between two tasks of a running server players_online lists who is in the
\* game and not hidden (Player::onCreatureAppear, onRemoveCreature, startup.lua).
THEOREM OnlineTable == CharactersSpec => []OnlineTableExact
<1>1. ASSUME CharactersInv PROVE OnlineTableExact
  <2>1. task = Idle => Present = DOMAIN inGame
    BY DEF Present, Idle
  <2> QED
    BY <1>1, <2>1 DEF CharactersInv, OnlineKept, OnlineTableExact
<1> QED
  BY <1>1, CharactersInvariant, PTL

-----------------------------------------------------------------------------
(* The accounts of the web API                                             *)

HIDE CharactersAssumption DEF CharactersAssumption

OriginSet == [token : 0 .. MaxSecret, id : AccountIds, slot : Slots \cup {0}, key : 0 .. MaxSecret]

CallSet ==
    {NoCall}
       \cup [step : {"register"}, email : Emails]
       \cup [step : {"login", "login answer"}, id : AccountIds, keys : 1 .. MaxSecret]
       \cup [step : {"forgot", "reset"}, id : AccountIds, via : Slots \cup {0}, secrets : SUBSET OriginSet]
       \cup [step : {"forgot answer"}, token : 1 .. MaxSecret]

CallsTyped ==
    /\ accounts \in [AccountIds -> AccountRow \cup {NoAccount}]
    /\ call \in [Calls -> CallSet]
    /\ generated \in 0 .. MaxSecret /\ issued \in 0 .. MaxSecret
    /\ shown \subseteq [id : AccountIds, keys : 1 .. MaxSecret] /\ sent \subseteq 1 .. issued
    /\ origin \subseteq OriginSet /\ spent \subseteq origin /\ overlapped \subseteq origin

\* Calls that have found the e-mail free find it so when they insert, unless
\* another one has inserted it in between.
Registers(r) ==
    call[r].step = "register" /\ [email |-> call[r].email] \notin raced => WithEmail(call[r].email) = {}

\* Nobody has seen the keys that a first login is about to store.
LogsIn(r) ==
    call[r].step = "login" =>
        /\ call[r].id \in AccountsUsed /\ call[r].keys <= generated
        /\ [id |-> call[r].id] \notin raced => ~accounts[call[r].id].initialized
        /\ \A i \in AccountsUsed, s \in Slots : accounts[i].keys[s] # call[r].keys
        /\ \A o \in origin : o.key # call[r].keys
KeysDiffer(r, q) ==
    call[r].step = "login" =>
        /\ call[q].step = "login" => call[q].keys # call[r].keys
        /\ call[q].step = "forgot" => \A o \in call[q].secrets : o.key # call[r].keys

\* The keys k are the ones stored, but for those used up.
Stored(i, k) == accounts[i].initialized /\ \A s \in Slots : accounts[i].keys[s] \in {0, k}
Answered(r) ==
    call[r].step = "login answer" =>
        /\ call[r].id \in AccountsUsed
        /\ [id |-> call[r].id] \notin raced => Stored(call[r].id, call[r].keys)

\* A secret that has completed a reset was in the hands of two at that time.
Excused(o) == (\E q \in spent : SameSecret(o, q)) => \E p \in overlapped : SameSecret(o, p)

\* A key in hand is that of the slot and the account it was matched with.
Forgets(r) ==
    call[r].step = "forgot" =>
        /\ call[r].id \in AccountsUsed
        /\ \A o, q \in call[r].secrets : o = q
        /\ \A o \in call[r].secrets :
              /\ call[r].via \in Slots /\ o = Origin(0, call[r].id, call[r].via, o.key)
              /\ o.key \in 1 .. generated /\ Excused(o)
Resets(r) ==
    call[r].step = "reset" =>
        /\ call[r].id \in AccountsUsed
        /\ \A o \in call[r].secrets :
              o \in origin /\ o.id = call[r].id /\ o.slot = call[r].via /\ Excused(o)
Assigned(r) == call[r].step = "forgot answer" => call[r].token <= issued

CallsInv ==
    /\ \A r \in Calls : Registers(r) /\ LogsIn(r) /\ Answered(r) /\ Forgets(r) /\ Resets(r) /\ Assigned(r)
    /\ \A r, q \in Calls : r # q => KeysDiffer(r, q)

EmailsApart ==
    \A i, j \in AccountsUsed :
        i # j /\ accounts[i].email = accounts[j].email => [email |-> accounts[i].email] \in raced

ShownStored ==
    \A h \in shown : h.id \in AccountsUsed /\ ([id |-> h.id] \notin raced => Stored(h.id, h.keys))

\* A token is of one account, and made of one key at most.
TokensOfOne ==
    /\ \A o \in origin : o.token \in 1 .. issued /\ o.key <= generated
    /\ \A o, q \in origin : o.token = q.token => o = q

\* So is the token of a row, and it is excused as the keys of the row are.
RowTokens ==
    \A i \in AccountsUsed :
        /\ accounts[i].token <= issued
        /\ \A o \in origin :
              o.token = accounts[i].token => o.id = i /\ o.slot = accounts[i].via /\ Excused(o)

RowKeys ==
    \A i \in AccountsUsed, s \in Slots :
        /\ accounts[i].keys[s] <= generated
        /\ accounts[i].keys[s] # 0 => Excused(Origin(0, i, s, accounts[i].keys[s]))

TwiceExcused == \A o \in twice : \E p \in overlapped : SameSecret(o, p)

RowsInv ==
    /\ EmailsApart /\ ShownStored /\ TokensOfOne /\ RowTokens /\ RowKeys /\ TwiceExcused

AccountsInv == CallsTyped /\ CallsInv /\ RowsInv

LEMMA PositiveIsNat == \A n \in Nat : \A k \in 1 .. n : k \in Nat /\ k # 0
OBVIOUS

LEMMA UpToIs ==
    \A n \in Nat : \A k \in 1 .. n :
        k \in 0 .. n /\ k \in 1 .. (n + 1) /\ k <= n /\ k <= n + 1 /\ k # n + 1
OBVIOUS

LEMMA NextIs ==
    \A n \in Nat : n + 1 \in 1 .. (n + 1) /\ n + 1 <= n + 1 /\ n + 1 \in Nat /\ 0 <= n + 1 /\ 0 <= n
OBVIOUS

LEMMA AnswerIs ==
    ASSUME NEW n PROVE [step |-> "forgot answer", token |-> n].step = "forgot answer"
                       /\ [step |-> "forgot answer", token |-> n].token = n
OBVIOUS

LEMMA OneMore == \A n, k \in Nat : k <= n => k <= n + 1 /\ k # n + 1
OBVIOUS

LEMMA Widened == \A n, m \in Nat : n <= m => \A k \in 1 .. n : k \in 0 .. m
OBVIOUS

LEMMA CountersTyped ==
    CallsTyped => /\ MaxSecret \in Nat /\ issued \in Nat /\ generated \in Nat
                  /\ issued <= MaxSecret /\ generated <= MaxSecret
BY AccountsAssumption DEF AccountsAssumption, CallsTyped

USE AccountsAssumption DEF AccountsAssumption

LEMMA CallTyped ==
    ASSUME CallsTyped, NEW r \in Calls
    PROVE  /\ call[r].step \in {"idle", "register", "login", "login answer", "forgot", "reset", "forgot answer"}
           /\ call[r].step = "register" => call[r].email \in Emails
           /\ call[r].step \in {"login", "login answer"} =>
                 /\ call[r].id \in AccountIds /\ call[r].keys \in 1 .. MaxSecret
                 /\ call[r] \in [step : {"login", "login answer"}, id : AccountIds, keys : 1 .. MaxSecret]
           /\ call[r].step \in {"forgot", "reset"} =>
                 /\ call[r].id \in AccountIds /\ call[r].via \in Slots \cup {0}
                 /\ call[r].secrets \subseteq OriginSet
           /\ call[r].step = "forgot answer" => call[r].token \in 1 .. MaxSecret
<1>1. ASSUME NEW c \in [step : {"login", "login answer"}, id : AccountIds, keys : 1 .. MaxSecret]
      PROVE  /\ c.step \in {"login", "login answer"} /\ c.id \in AccountIds /\ c.keys \in 1 .. MaxSecret
  OBVIOUS
<1>2. ASSUME NEW c \in [step : {"forgot", "reset"}, id : AccountIds, via : Slots \cup {0}, secrets : SUBSET OriginSet]
      PROVE  /\ c.step \in {"forgot", "reset"} /\ c.id \in AccountIds /\ c.via \in Slots \cup {0}
             /\ c.secrets \subseteq OriginSet
  OBVIOUS
<1>3. ASSUME NEW c \in [step : {"register"}, email : Emails] PROVE c.step = "register" /\ c.email \in Emails
  OBVIOUS
<1>4. ASSUME NEW c \in [step : {"forgot answer"}, token : 1 .. MaxSecret]
      PROVE  c.step = "forgot answer" /\ c.token \in 1 .. MaxSecret
  OBVIOUS
<1>5. NoCall.step = "idle"
  BY DEF NoCall
<1>6. call[r] \in CallSet
  BY DEF CallsTyped
<1>7. CASE call[r] = NoCall
  BY <1>5, <1>7
<1>8. CASE call[r] \in [step : {"register"}, email : Emails]
  BY <1>3, <1>8
<1>9. CASE call[r] \in [step : {"login", "login answer"}, id : AccountIds, keys : 1 .. MaxSecret]
  BY <1>1, <1>9
<1>10. CASE call[r] \in [step : {"forgot", "reset"}, id : AccountIds, via : Slots \cup {0}, secrets : SUBSET OriginSet]
  BY <1>2, <1>10
<1>11. CASE call[r] \in [step : {"forgot answer"}, token : 1 .. MaxSecret]
  BY <1>4, <1>11
<1> QED
  BY <1>6, <1>7, <1>8, <1>9, <1>10, <1>11 DEF CallSet

LEMMA CallGoes ==
    ASSUME CallsTyped, NEW r \in Calls, NEW state \in CallSet, GoesTo(r, state)
    PROVE  /\ call' \in [Calls -> CallSet] /\ call'[r] = state
           /\ \A q \in Calls \ {r} : call'[q] = call[q]
BY DEF CallsTyped, GoesTo

LEMMA AccountTyped ==
    ASSUME CallsTyped, NEW i \in AccountsUsed
    PROVE  /\ i \in AccountIds /\ accounts[i] \in AccountRow
           /\ accounts[i].email \in Emails /\ accounts[i].initialized \in BOOLEAN
           /\ accounts[i].keys \in [Slots -> 0 .. MaxSecret]
           /\ accounts[i].token \in 0 .. MaxSecret /\ accounts[i].live \in BOOLEAN
           /\ accounts[i].via \in Slots \cup {0}
BY DEF CallsTyped, AccountRow, AccountsUsed

LEMMA TokenSet ==
    ASSUME NEW row \in AccountRow, NEW t \in 0 .. MaxSecret, NEW v \in Slots \cup {0}
    PROVE  [row EXCEPT !.token = t, !.live = TRUE, !.via = v] \in AccountRow
BY DEF AccountRow

LEMMA TokenCleared ==
    ASSUME NEW row \in AccountRow, NEW keys \in [Slots -> 0 .. MaxSecret]
    PROVE  [row EXCEPT !.token = 0, !.live = FALSE, !.via = 0, !.keys = keys] \in AccountRow
<1>1. ASSUME NEW t \in 0 .. MaxSecret, NEW v \in Slots \cup {0}
      PROVE  [row EXCEPT !.token = t, !.live = FALSE, !.via = v, !.keys = keys] \in AccountRow
  <2> DEFINE columns == [Slots -> 0 .. MaxSecret]
  <2>1. keys \in columns
    OBVIOUS
  <2>2. AccountRow = [email : Emails, initialized : BOOLEAN, keys : columns,
                      token : 0 .. MaxSecret, live : BOOLEAN, via : Slots \cup {0}]
    BY DEF AccountRow
  <2> HIDE DEF columns
  <2> QED
    BY <2>1, <2>2
<1>2. 0 \in 0 .. MaxSecret /\ 0 \in Slots \cup {0}
  OBVIOUS
<1> QED
  BY <1>1, <1>2

\* What each of the handlers' steps does to the table and to its call.
AccountsSame == UNCHANGED accounts /\ AccountsUsed' = AccountsUsed

RegisterLooksUpDone(r, e) ==
    /\ call' \in [Calls -> CallSet] /\ call'[r] = [step |-> "register", email |-> e]
    /\ \A q \in Calls \ {r} : call'[q] = call[q]
    /\ WithEmail(e) = {} /\ AccountsSame
    /\ UNCHANGED <<generated, issued, shown, sent, origin, spent, twice, overlapped, raced>>

LEMMA RegisterLooksUpDoes ==
    ASSUME CallsTyped, NEW r \in Calls, NEW e \in Emails, RegisterLooksUp(r, e)
    PROVE  RegisterLooksUpDone(r, e)
BY CallGoes DEF RegisterLooksUp, CallSet, AccountsSame, AccountsUsed, Refused, history, RegisterLooksUpDone

RegisterInsertsDone(r) ==
    /\ call[r].step = "register"
    /\ call' \in [Calls -> CallSet] /\ call'[r] = NoCall
    /\ \A q \in Calls \ {r} : call'[q] = call[q]
    /\ \E id \in AccountIds :
          /\ id \notin AccountsUsed /\ AccountsUsed' = AccountsUsed \cup {id}
          /\ accounts' \in [AccountIds -> AccountRow \cup {NoAccount}]
          /\ accounts'[id] = [email |-> call[r].email, initialized |-> FALSE, keys |-> [s \in Slots |-> 0],
                              token |-> 0, live |-> FALSE, via |-> 0]
          /\ \A i \in AccountsUsed : accounts'[i] = accounts[i]
    /\ raced \subseteq raced'
    /\ \A q \in Calls \ {r} : call[q].step = "register" /\ call[q].email = call[r].email =>
          [email |-> call[r].email] \in raced'
    /\ UNCHANGED <<generated, issued, shown, sent, origin, spent, twice, overlapped>>

LEMMA RegisterInsertsDoes ==
    ASSUME CallsTyped, NEW r \in Calls, RegisterInserts(r)
    PROVE  RegisterInsertsDone(r)
<1> DEFINE id == Max(AccountsUsed \cup {0}) + 1
           row == [email |-> call[r].email, initialized |-> FALSE, keys |-> [s \in Slots |-> 0],
                   token |-> 0, live |-> FALSE, via |-> 0]
<1>1. /\ call[r].step = "register" /\ id \in AccountIds /\ GoesTo(r, NoCall)
      /\ accounts' = [accounts EXCEPT ![id] = row]
      /\ UNCHANGED <<generated, issued, shown, sent, origin, spent, twice, overlapped>>
  BY DEF RegisterInserts, Answers
<1>2. id \notin AccountsUsed
  <2>1. AccountsUsed \cup {0} \in SUBSET Nat /\ \A x \in AccountsUsed \cup {0} : x <= MaxAccount
    BY DEF AccountsUsed, AccountIds
  <2>2. Max(AccountsUsed \cup {0}) \in Nat /\ \A y \in AccountsUsed \cup {0} : y <= Max(AccountsUsed \cup {0})
    BY <2>1, MaxOf
  <2> QED
    BY <2>1, <2>2
<1>3. row \in AccountRow
  <2>1. call[r].email \in Emails
    BY <1>1, CallTyped
  <2> QED
    BY <2>1 DEF AccountRow
<1>4. raced' = IF Meanwhile(r, "register", "email", call[r].email)
                     THEN raced \cup {[email |-> call[r].email]} ELSE raced
  BY DEF RegisterInserts
<1>5. /\ raced \subseteq raced'
      /\ \A q \in Calls \ {r} : call[q].step = "register" /\ call[q].email = call[r].email =>
                 [email |-> call[r].email] \in raced'
  BY <1>4 DEF Meanwhile
<1>6. /\ call' \in [Calls -> CallSet] /\ call'[r] = NoCall
      /\ \A q \in Calls \ {r} : call'[q] = call[q]
  BY <1>1, CallGoes DEF CallSet
<1> HIDE DEF id, row
<1>7. /\ accounts' \in [AccountIds -> AccountRow \cup {NoAccount}] /\ accounts'[id] = row
      /\ \A i \in AccountIds \ {id} : accounts'[i] = accounts[i]
  BY <1>1, <1>3 DEF CallsTyped
<1>8. AccountsUsed' = AccountsUsed \cup {id}
  BY <1>1, <1>3, <1>7 DEF AccountsUsed
<1> QED
  BY <1>1, <1>2, <1>5, <1>6, <1>7, <1>8 DEF row, AccountsUsed, RegisterInsertsDone

LoginReadsDone(r, i) ==
    /\ call' \in [Calls -> CallSet] /\ call'[r] = [step |-> "login", id |-> i, keys |-> generated + 1]
    /\ \A q \in Calls \ {r} : call'[q] = call[q]
    /\ i \in AccountsUsed /\ ~accounts[i].initialized
    /\ generated' = generated + 1 /\ generated + 1 \in 1 .. MaxSecret
    /\ AccountsSame
    /\ UNCHANGED <<issued, shown, sent, origin, spent, twice, overlapped, raced>>

LEMMA LoginReadsDoes ==
    ASSUME CallsTyped, NEW r \in Calls, NEW i \in AccountIds, LoginReads(r, i)
    PROVE  LoginReadsDone(r, i)
<1>1. generated + 1 \in 1 .. MaxSecret
  BY DEF LoginReads, CallsTyped
<1>2. [step |-> "login", id |-> i, keys |-> generated + 1] \in CallSet
  BY <1>1 DEF CallSet
<1> QED
  BY <1>1, <1>2, CallGoes DEF LoginReads, AccountsSame, AccountsUsed, history, LoginReadsDone

LoginStoresDone(r) ==
    LET i == call[r].id IN
    /\ call[r].step = "login" /\ i \in AccountsUsed
    /\ call' \in [Calls -> CallSet]
    /\ call'[r].step = "login answer" /\ call'[r].id = i /\ call'[r].keys = call[r].keys
    /\ \A q \in Calls \ {r} : call'[q] = call[q]
    /\ AccountsUsed' = AccountsUsed
    /\ accounts' \in [AccountIds -> AccountRow \cup {NoAccount}]
    /\ \A j \in AccountsUsed \ {i} : accounts'[j] = accounts[j]
    /\ accounts'[i].initialized /\ accounts'[i].email = accounts[i].email
    /\ accounts'[i].token = accounts[i].token /\ accounts'[i].via = accounts[i].via
    /\ \A s \in Slots : accounts'[i].keys[s] = call[r].keys
    /\ raced \subseteq raced'
    /\ \A q \in Calls \ {r} : call[q].step = "login" /\ call[q].id = i => [id |-> i] \in raced'
    /\ UNCHANGED <<generated, issued, shown, sent, origin, spent, twice, overlapped>>

LEMMA LoginStoresDoes ==
    ASSUME CallsTyped, CallsInv, NEW r \in Calls, LoginStores(r)
    PROVE  LoginStoresDone(r)
<1> DEFINE i == call[r].id
           keys == [s \in Slots |-> call[r].keys]
           new == [accounts[i] EXCEPT !.keys = keys, !.initialized = TRUE]
<1>1. /\ call[r].step = "login" /\ i \in AccountsUsed /\ i \in AccountIds /\ call[r].keys \in 1 .. MaxSecret
      /\ UNCHANGED <<generated, issued, shown, sent, origin, spent, twice, overlapped>>
  BY CallTyped DEF LoginStores, CallsInv, LogsIn
<1>2. /\ call' \in [Calls -> CallSet]
      /\ call'[r].step = "login answer" /\ call'[r].id = i /\ call'[r].keys = call[r].keys
      /\ \A q \in Calls \ {r} : call'[q] = call[q]
  <2> DEFINE state == [call[r] EXCEPT !.step = "login answer"]
  <2>1. call[r] \in [step : {"login", "login answer"}, id : AccountIds, keys : 1 .. MaxSecret]
    BY <1>1, CallTyped
  <2>2. /\ state \in [step : {"login", "login answer"}, id : AccountIds, keys : 1 .. MaxSecret]
        /\ state.step = "login answer" /\ state.id = i /\ state.keys = call[r].keys
    BY <2>1
  <2>3. GoesTo(r, state)
    BY DEF LoginStores
  <2> HIDE DEF state
  <2>4. state \in CallSet
    BY <2>2 DEF CallSet
  <2> QED
    BY <2>2, <2>3, <2>4, CallGoes
<1>3. raced' = IF Meanwhile(r, "login", "id", i) THEN raced \cup {[id |-> i]} ELSE raced
  BY DEF LoginStores
<1>4. /\ raced \subseteq raced'
      /\ \A q \in Calls \ {r} : call[q].step = "login" /\ call[q].id = i => [id |-> i] \in raced'
  BY <1>3 DEF Meanwhile
<1>5. accounts' = [accounts EXCEPT ![i] = new]
  <2>1. accounts' = [accounts EXCEPT ![i].keys = keys, ![i].initialized = TRUE]
    BY DEF LoginStores, KeysStored
  <2> HIDE DEF keys
  <2> QED
    BY <1>1, <2>1 DEF CallsTyped
<1>6. /\ new \in AccountRow /\ new.initialized /\ new.email = accounts[i].email
      /\ new.token = accounts[i].token /\ new.via = accounts[i].via /\ new.keys = keys
  <2>1. accounts[i] \in AccountRow /\ keys \in [Slots -> 0 .. MaxSecret]
    BY <1>1, AccountTyped
  <2> HIDE DEF keys
  <2> QED
    BY <2>1 DEF AccountRow
<1> HIDE DEF new, keys
<1>7. accounts' \in [AccountIds -> AccountRow \cup {NoAccount}] /\ accounts'[i] = new
      /\ \A j \in AccountIds \ {i} : accounts'[j] = accounts[j]
  BY <1>1, <1>5, <1>6 DEF CallsTyped
<1>8. AccountsUsed' = AccountsUsed
  BY <1>1, <1>7, <1>6 DEF AccountsUsed
<1> QED
  BY <1>1, <1>2, <1>4, <1>7, <1>8, <1>6 DEF AccountsUsed, keys, LoginStoresDone

LoginAnswersDone(r) ==
    /\ call[r].step = "login answer"
    /\ call' \in [Calls -> CallSet] /\ call'[r] = NoCall
    /\ \A q \in Calls \ {r} : call'[q] = call[q]
    /\ shown' = shown \cup {[id |-> call[r].id, keys |-> call[r].keys]}
    /\ AccountsSame
    /\ UNCHANGED <<generated, issued, sent, origin, spent, twice, overlapped, raced>>

LEMMA LoginAnswersDoes ==
    ASSUME CallsTyped, NEW r \in Calls, LoginAnswers(r)
    PROVE  LoginAnswersDone(r)
BY CallGoes DEF LoginAnswers, Answers, CallSet, AccountsSame, AccountsUsed, LoginAnswersDone

ForgotReadsDone(r, i) ==
    /\ i \in AccountsUsed
    /\ call' \in [Calls -> CallSet]
    /\ call'[r] = [step |-> "forgot", id |-> i, via |-> 0, secrets |-> {}]
    /\ \A q \in Calls \ {r} : call'[q] = call[q]
    /\ AccountsSame
    /\ UNCHANGED <<generated, issued, shown, sent, origin, spent, twice, overlapped, raced>>

LEMMA ForgotReadsDoes ==
    ASSUME CallsTyped, NEW r \in Calls, NEW i \in AccountIds, ForgotReads(r, i)
    PROVE  ForgotReadsDone(r, i)
<1>1. [step |-> "forgot", id |-> i, via |-> 0, secrets |-> {}] \in CallSet
  BY DEF CallSet
<1> QED
  BY <1>1, CallGoes DEF ForgotReads, AccountsSame, AccountsUsed, history, ForgotReadsDone

ForgotMatchesKeyDone(r, i, s) ==
    /\ i \in AccountsUsed /\ accounts[i].keys[s] \in 1 .. MaxSecret
    /\ call' \in [Calls -> CallSet]
    /\ call'[r] = [step |-> "forgot", id |-> i, via |-> s,
                   secrets |-> {Origin(0, i, s, accounts[i].keys[s])}]
    /\ \A q \in Calls \ {r} : call'[q] = call[q]
    /\ AccountsSame
    /\ UNCHANGED <<generated, issued, shown, sent, origin, spent, twice, overlapped, raced>>

LEMMA ForgotMatchesKeyDoes ==
    ASSUME CallsTyped, NEW r \in Calls, NEW i \in AccountIds, NEW s \in Slots, ForgotMatchesKey(r, i, s)
    PROVE  ForgotMatchesKeyDone(r, i, s)
<1>0. /\ i \in AccountsUsed /\ accounts[i].keys[s] \in 1 .. MaxSecret
  BY DEF ForgotMatchesKey, CallsTyped
<1>1. [step |-> "forgot", id |-> i, via |-> s, secrets |-> {Origin(0, i, s, accounts[i].keys[s])}] \in CallSet
  <2>1. Origin(0, i, s, accounts[i].keys[s]) \in OriginSet
    BY <1>0 DEF OriginSet, Origin
  <2> QED
    BY <2>1 DEF CallSet
<1> QED
  BY <1>0, <1>1, CallGoes DEF ForgotMatchesKey, AccountsSame, AccountsUsed, history, ForgotMatchesKeyDone

ForgotAssignsDone(r) ==
    LET i == call[r].id IN
    /\ call[r].step = "forgot" /\ i \in AccountsUsed /\ i \in AccountIds
    /\ issued' = issued + 1 /\ issued + 1 \in 1 .. MaxSecret
    /\ call' \in [Calls -> CallSet] /\ call'[r] = [step |-> "forgot answer", token |-> issued + 1]
    /\ \A q \in Calls \ {r} : call'[q] = call[q]
    /\ AccountsUsed' = AccountsUsed
    /\ accounts' \in [AccountIds -> AccountRow \cup {NoAccount}]
    /\ \A j \in AccountsUsed \ {i} : accounts'[j] = accounts[j]
    /\ accounts'[i].initialized = accounts[i].initialized /\ accounts'[i].email = accounts[i].email
    /\ accounts'[i].token = issued + 1 /\ accounts'[i].via = call[r].via
    /\ accounts'[i].keys = accounts[i].keys
    /\ origin \subseteq origin'
    /\ \A o \in origin' \ origin :
          \/ call[r].via = 0 /\ o = Origin(issued + 1, i, 0, 0)
          \/ \E q \in call[r].secrets : o = Origin(issued + 1, i, call[r].via, q.key)
    /\ \A o, q \in origin' \ origin : o = q
    /\ UNCHANGED <<generated, shown, sent, spent, twice, overlapped, raced>>

LEMMA ForgotAssignsDoes ==
    ASSUME CallsTyped, CallsInv, NEW r \in Calls, ForgotAssigns(r)
    PROVE  ForgotAssignsDone(r)
<1> DEFINE i == call[r].id
           new == [accounts[i] EXCEPT !.token = issued + 1, !.live = TRUE, !.via = call[r].via]
<1>1. /\ call[r].step = "forgot" /\ i \in AccountsUsed /\ i \in AccountIds /\ call[r].via \in Slots \cup {0}
      /\ issued' = issued + 1 /\ issued + 1 \in 1 .. MaxSecret
      /\ UNCHANGED <<generated, shown, sent, spent, twice, overlapped, raced>>
  <2>1. call[r].step = "forgot" /\ issued < MaxSecret /\ issued' = issued + 1
        /\ UNCHANGED <<generated, shown, sent, spent, twice, overlapped, raced>>
    BY DEF ForgotAssigns
  <2>2. issued + 1 \in 1 .. MaxSecret
    BY <2>1 DEF CallsTyped
  <2> QED
    BY <2>1, <2>2, CallTyped DEF CallsInv, Forgets
<1>2. /\ call' \in [Calls -> CallSet] /\ call'[r] = [step |-> "forgot answer", token |-> issued + 1]
      /\ \A q \in Calls \ {r} : call'[q] = call[q]
  <2>1. [step |-> "forgot answer", token |-> issued + 1] \in CallSet
    BY <1>1 DEF CallSet
  <2> QED
    BY <2>1, CallGoes DEF ForgotAssigns
<1>3. accounts' = [accounts EXCEPT ![i] = new]
  BY <1>1 DEF ForgotAssigns, CallsTyped
<1>4. /\ new \in AccountRow /\ new.initialized = accounts[i].initialized /\ new.email = accounts[i].email
      /\ new.token = issued + 1 /\ new.via = call[r].via /\ new.keys = accounts[i].keys
  <2>1. accounts[i] \in AccountRow
    BY <1>1, AccountTyped
  <2>2. /\ new.initialized = accounts[i].initialized /\ new.email = accounts[i].email
        /\ new.token = issued + 1 /\ new.via = call[r].via /\ new.keys = accounts[i].keys
    BY <2>1 DEF AccountRow
  <2>3. new \in AccountRow
    <3>1. issued + 1 \in 0 .. MaxSecret
      BY <1>1
    <3> QED
      BY <1>1, <2>1, <3>1, TokenSet
  <2> QED
    BY <2>2, <2>3
<1> HIDE DEF new
<1>5. accounts' \in [AccountIds -> AccountRow \cup {NoAccount}] /\ accounts'[i] = new
      /\ \A j \in AccountIds \ {i} : accounts'[j] = accounts[j]
  BY <1>1, <1>3, <1>4 DEF CallsTyped
<1>6. AccountsUsed' = AccountsUsed
  BY <1>1, <1>4, <1>5 DEF AccountsUsed
<1>7. origin' = origin \cup
         (IF call[r].via = 0 THEN {Origin(issued + 1, i, 0, 0)}
          ELSE {[o EXCEPT !.token = issued + 1] : o \in call[r].secrets})
  BY DEF ForgotAssigns
<1>8. ASSUME NEW o \in call[r].secrets
      PROVE  call[r].via # 0 /\ [o EXCEPT !.token = issued + 1] = Origin(issued + 1, i, call[r].via, o.key)
  <2>1. o = [token |-> 0, id |-> i, slot |-> call[r].via, key |-> o.key] /\ call[r].via \in Slots
    BY <1>1, <1>8 DEF CallsInv, Forgets, Origin
  <2> QED
    BY <2>1 DEF Origin
<1>9. /\ origin \subseteq origin'
      /\ \A o \in origin' \ origin :
            \/ call[r].via = 0 /\ o = Origin(issued + 1, i, 0, 0)
            \/ \E q \in call[r].secrets : o = Origin(issued + 1, i, call[r].via, q.key)
  BY <1>7, <1>8
<1>10. \A o, q \in origin' \ origin : o = q
  <2>1. \A o, q \in call[r].secrets : o = q
    BY <1>1 DEF CallsInv, Forgets
  <2> QED
    BY <1>8, <1>9, <2>1
<1> QED
  BY <1>1, <1>2, <1>4, <1>5, <1>6, <1>9, <1>10 DEF AccountsUsed, ForgotAssignsDone

ForgotAnswersDone(r) ==
    /\ call[r].step = "forgot answer"
    /\ call' \in [Calls -> CallSet] /\ call'[r] = NoCall
    /\ \A q \in Calls \ {r} : call'[q] = call[q]
    /\ sent' = sent \cup {call[r].token}
    /\ AccountsSame
    /\ UNCHANGED <<generated, issued, shown, origin, spent, twice, overlapped, raced>>

LEMMA ForgotAnswersDoes ==
    ASSUME CallsTyped, NEW r \in Calls, ForgotAnswers(r)
    PROVE  ForgotAnswersDone(r)
BY CallGoes DEF ForgotAnswers, Answers, CallSet, AccountsSame, AccountsUsed, ForgotAnswersDone

TokenExpiresDone(i) ==
    /\ i \in AccountsUsed /\ AccountsUsed' = AccountsUsed
    /\ accounts' \in [AccountIds -> AccountRow \cup {NoAccount}]
    /\ \A j \in AccountsUsed :
          /\ accounts'[j].initialized = accounts[j].initialized /\ accounts'[j].email = accounts[j].email
          /\ accounts'[j].token = accounts[j].token /\ accounts'[j].via = accounts[j].via
          /\ accounts'[j].keys = accounts[j].keys
    /\ UNCHANGED <<call, generated, issued, shown, sent, origin, spent, twice, overlapped, raced>>

LEMMA TokenExpiresDoes ==
    ASSUME CallsTyped, NEW i \in AccountIds, TokenExpires(i)
    PROVE  TokenExpiresDone(i)
<1> DEFINE new == [accounts[i] EXCEPT !.live = FALSE]
<1>1. i \in AccountsUsed /\ UNCHANGED <<call, generated, issued, shown, sent, origin, spent, twice, overlapped, raced>>
  BY DEF TokenExpires, history
<1>2. accounts' = [accounts EXCEPT ![i] = new]
  BY <1>1 DEF TokenExpires, CallsTyped
<1>3. /\ new \in AccountRow /\ new.initialized = accounts[i].initialized /\ new.email = accounts[i].email
      /\ new.token = accounts[i].token /\ new.via = accounts[i].via /\ new.keys = accounts[i].keys
  <2>1. accounts[i] \in AccountRow
    BY <1>1, AccountTyped
  <2> QED
    BY <2>1 DEF AccountRow
<1> HIDE DEF new
<1>4. accounts' \in [AccountIds -> AccountRow \cup {NoAccount}] /\ accounts'[i] = new
      /\ \A j \in AccountIds \ {i} : accounts'[j] = accounts[j]
  BY <1>1, <1>2, <1>3 DEF CallsTyped
<1>5. AccountsUsed' = AccountsUsed
  BY <1>1, <1>3, <1>4 DEF AccountsUsed
<1> QED
  BY <1>1, <1>3, <1>4, <1>5 DEF AccountsUsed, TokenExpiresDone

ResetReadsDone(r, i) ==
    /\ i \in AccountsUsed /\ accounts[i].token \in sent
    /\ call' \in [Calls -> CallSet]
    /\ call'[r] = [step |-> "reset", id |-> i, via |-> accounts[i].via,
                   secrets |-> {q \in origin : q.token = accounts[i].token}]
    /\ \A q \in Calls \ {r} : call'[q] = call[q]
    /\ AccountsSame
    /\ UNCHANGED <<generated, issued, shown, sent, origin, spent, twice, overlapped, raced>>

LEMMA ResetReadsDoes ==
    ASSUME CallsTyped, NEW r \in Calls, NEW i \in AccountIds, ResetReads(r, i)
    PROVE  ResetReadsDone(r, i)
<1>1. i \in AccountsUsed
  BY DEF ResetReads
<1>2. {q \in origin : q.token = accounts[i].token} \in SUBSET OriginSet /\ accounts[i].via \in Slots \cup {0}
  BY <1>1, AccountTyped DEF CallsTyped
<1>3. [step |-> "reset", id |-> i, via |-> accounts[i].via,
       secrets |-> {q \in origin : q.token = accounts[i].token}] \in CallSet
  BY <1>2 DEF CallSet
<1> QED
  BY <1>3, CallGoes DEF ResetReads, AccountsSame, AccountsUsed, history, ResetReadsDone

ResetUpdatesDone(r) ==
    LET i == call[r].id IN
    /\ call[r].step = "reset" /\ i \in AccountsUsed
    /\ call' \in [Calls -> CallSet] /\ call'[r] = NoCall
    /\ \A q \in Calls \ {r} : call'[q] = call[q]
    /\ AccountsUsed' = AccountsUsed
    /\ accounts' \in [AccountIds -> AccountRow \cup {NoAccount}]
    /\ \A j \in AccountsUsed \ {i} : accounts'[j] = accounts[j]
    /\ accounts'[i].initialized = accounts[i].initialized /\ accounts'[i].email = accounts[i].email
    /\ accounts'[i].token = 0 /\ accounts'[i].via = 0
    /\ \A s \in Slots : accounts'[i].keys[s] = IF s = call[r].via THEN 0 ELSE accounts[i].keys[s]
    /\ spent' = spent \cup call[r].secrets
    /\ twice' = twice \cup {s \in call[r].secrets : \E o \in spent : SameSecret(s, o)}
    /\ overlapped' = overlapped \cup
          {s \in call[r].secrets : \E q \in Calls \ {r} :
                          /\ call[q].step \in {"forgot", "reset"}
                          /\ \E o \in call[q].secrets : SameSecret(s, o)}
    /\ UNCHANGED <<generated, issued, shown, sent, origin, raced>>

LEMMA ResetUpdatesDoes ==
    ASSUME CallsTyped, CallsInv, NEW r \in Calls, ResetUpdates(r)
    PROVE  ResetUpdatesDone(r)
<1> DEFINE i == call[r].id
           keys == [u \in Slots |-> IF u = call[r].via THEN 0 ELSE accounts[i].keys[u]]
           new == [accounts[i] EXCEPT !.token = 0, !.live = FALSE, !.via = 0, !.keys = keys]
<1>1. /\ call[r].step = "reset" /\ i \in AccountsUsed /\ i \in AccountIds
      /\ UNCHANGED <<generated, issued, shown, sent, origin, raced>>
  BY CallTyped DEF ResetUpdates, CallsInv, Resets
<1>2. /\ call' \in [Calls -> CallSet] /\ call'[r] = NoCall
      /\ \A q \in Calls \ {r} : call'[q] = call[q]
  BY CallGoes DEF ResetUpdates, Answers, CallSet
<1>3. accounts' = [accounts EXCEPT ![i] = new]
  <2>1. accounts' = [accounts EXCEPT ![i].token = 0, ![i].live = FALSE, ![i].via = 0, ![i].keys = keys]
    BY DEF ResetUpdates, KeyColumn
  <2> HIDE DEF keys
  <2> QED
    BY <1>1, <2>1 DEF CallsTyped
<1>4. keys \in [Slots -> 0 .. MaxSecret]
  BY <1>1, AccountTyped
<1>5. /\ new \in AccountRow /\ new.initialized = accounts[i].initialized /\ new.email = accounts[i].email
      /\ new.token = 0 /\ new.via = 0 /\ new.keys = keys
  <2>1. accounts[i] \in AccountRow
    BY <1>1, AccountTyped
  <2> HIDE DEF keys
  <2>2. /\ new.initialized = accounts[i].initialized /\ new.email = accounts[i].email
        /\ new.token = 0 /\ new.via = 0 /\ new.keys = keys
    BY <2>1 DEF AccountRow
  <2>3. new \in AccountRow
    BY <1>4, <2>1, TokenCleared
  <2> QED
    BY <2>2, <2>3
<1> HIDE DEF new, keys
<1>6. accounts' \in [AccountIds -> AccountRow \cup {NoAccount}] /\ accounts'[i] = new
      /\ \A j \in AccountIds \ {i} : accounts'[j] = accounts[j]
  BY <1>1, <1>3, <1>5 DEF CallsTyped
<1>7. AccountsUsed' = AccountsUsed
  BY <1>1, <1>5, <1>6 DEF AccountsUsed
<1>8. \A s \in Slots : keys[s] = IF s = call[r].via THEN 0 ELSE accounts[i].keys[s]
  BY DEF keys
<1>9. /\ spent' = spent \cup call[r].secrets
      /\ twice' = twice \cup {s \in call[r].secrets : \E o \in spent : SameSecret(s, o)}
      /\ overlapped' = overlapped \cup
            {s \in call[r].secrets : \E q \in Calls \ {r} :
                            /\ call[q].step \in {"forgot", "reset"}
                            /\ \E o \in call[q].secrets : SameSecret(s, o)}
  BY DEF ResetUpdates
<1> QED
  BY <1>1, <1>2, <1>5, <1>6, <1>7, <1>8, <1>9 DEF AccountsUsed, ResetUpdatesDone

CutOffDone(r) ==
    /\ call' \in [Calls -> CallSet] /\ call'[r] = NoCall
    /\ \A q \in Calls \ {r} : call'[q] = call[q]
    /\ AccountsSame
    /\ UNCHANGED <<generated, issued, shown, sent, origin, spent, twice, overlapped, raced>>

LEMMA CutOffDoes ==
    ASSUME CallsTyped, NEW r \in Calls, CutOff(r)
    PROVE  CutOffDone(r)
BY CallGoes DEF CutOff, Answers, CallSet, AccountsSame, AccountsUsed, history, CutOffDone

AccountsDone ==
    \/ \E r \in Calls :
          \/ RegisterInsertsDone(r) \/ LoginStoresDone(r) \/ LoginAnswersDone(r)
          \/ ForgotAssignsDone(r) \/ ForgotAnswersDone(r) \/ ResetUpdatesDone(r) \/ CutOffDone(r)
          \/ \E e \in Emails : RegisterLooksUpDone(r, e)
          \/ \E i \in AccountIds : LoginReadsDone(r, i) \/ ForgotReadsDone(r, i) \/ ResetReadsDone(r, i)
          \/ \E i \in AccountIds, s \in Slots : ForgotMatchesKeyDone(r, i, s)
    \/ \E i \in AccountIds : TokenExpiresDone(i)

LEMMA AccountsDoes == AccountsInv /\ AccountsNext => AccountsDone
BY RegisterLooksUpDoes, RegisterInsertsDoes, LoginReadsDoes, LoginStoresDoes, LoginAnswersDoes,
   ForgotReadsDoes, ForgotMatchesKeyDoes, ForgotAssignsDoes, ForgotAnswersDoes, ResetReadsDoes,
   ResetUpdatesDoes, CutOffDoes, TokenExpiresDoes
DEF AccountsInv, AccountsNext, AccountsDone

LEMMA LoginTyped ==
    ASSUME CallsTyped, NEW r \in Calls, call[r].step \in {"login", "login answer"}
    PROVE  /\ call[r].id \in AccountIds /\ call[r].keys \in 1 .. MaxSecret
           /\ call[r].keys \in Nat /\ call[r].keys # 0
<1>1. call[r].id \in AccountIds /\ call[r].keys \in 1 .. MaxSecret
  BY CallTyped
<1> QED
  BY <1>1, PositiveIsNat

LEMMA KeysTyped ==
    ASSUME CallsTyped, NEW i \in AccountsUsed, NEW s \in Slots
    PROVE  accounts[i].keys[s] \in Nat /\ accounts[i].keys[s] \in 0 .. MaxSecret
<1>1. accounts[i].keys \in [Slots -> 0 .. MaxSecret]
  BY AccountTyped
<1> QED
  BY <1>1
\* A step of one call that leaves the table, the tokens and the histories alone.
Quiet(r) ==
    /\ AccountsSame /\ generated' \in 0 .. MaxSecret /\ generated <= generated'
    /\ UNCHANGED <<issued, origin, spent, twice, overlapped, raced>>
    /\ call' \in [Calls -> CallSet] /\ \A q \in Calls \ {r} : call'[q] = call[q]

LEMMA QuietRows ==
    ASSUME AccountsInv, NEW r \in Calls, Quiet(r), UNCHANGED shown
    PROVE  RowsInv'
<1>0. CallsTyped /\ RowsInv /\ UNCHANGED <<accounts, issued, origin, spent, twice, overlapped, raced, shown>>
      /\ AccountsUsed' = AccountsUsed
      /\ generated \in Nat /\ generated' \in Nat /\ generated <= generated'
  BY DEF AccountsInv, Quiet, AccountsSame, CallsTyped
<1>1. EmailsApart' /\ ShownStored' /\ TwiceExcused'
  BY <1>0 DEF RowsInv, EmailsApart, ShownStored, Stored, TwiceExcused
<1>2. TokensOfOne'
  <2>1. \A o \in origin : o.key \in Nat
    BY <1>0 DEF CallsTyped, OriginSet
  <2> QED
    BY <1>0, <2>1 DEF RowsInv, TokensOfOne
<1>3. RowTokens'
  BY <1>0 DEF RowsInv, RowTokens, Excused
<1>4. RowKeys'
  <2>1. \A i \in AccountsUsed, s \in Slots : accounts[i].keys[s] \in Nat
    BY <1>0, AccountTyped
  <2> QED
    BY <1>0, <2>1 DEF RowsInv, RowKeys, Excused
<1> QED
  BY <1>1, <1>2, <1>3, <1>4 DEF RowsInv

CallInv(r) == Registers(r) /\ LogsIn(r) /\ Answered(r) /\ Forgets(r) /\ Resets(r) /\ Assigned(r)

LEMMA QuietCalls ==
    ASSUME AccountsInv, NEW r \in Calls, Quiet(r), CallInv(r)',
           \A q \in Calls \ {r} : KeysDiffer(r, q)' /\ KeysDiffer(q, r)'
    PROVE  CallsInv'
<1>0. CallsTyped /\ CallsInv /\ UNCHANGED <<accounts, issued, origin, spent, overlapped, raced>>
      /\ AccountsUsed' = AccountsUsed
      /\ generated \in Nat /\ generated' \in Nat /\ generated <= generated'
  BY DEF AccountsInv, Quiet, AccountsSame, CallsTyped
<1>1. ASSUME NEW q \in Calls \ {r} PROVE CallInv(q)'
  <2>0. call'[q] = call[q] /\ q \in Calls
    BY DEF Quiet
  <2>1. Registers(q)'
    BY <1>0, <2>0 DEF CallsInv, Registers, WithEmail
  <2>2. LogsIn(q)'
    <3>1. call[q].step = "login" => call[q].keys \in Nat
      BY <1>0, <2>0, LoginTyped
    <3> QED
      BY <1>0, <2>0, <3>1 DEF CallsInv, LogsIn
  <2>3. Answered(q)'
    BY <1>0, <2>0 DEF CallsInv, Answered, Stored
  <2>4. Forgets(q)'
    BY <1>0, <2>0 DEF CallsInv, Forgets, Excused
  <2>5. Resets(q)'
    BY <1>0, <2>0 DEF CallsInv, Resets, Excused
  <2>6. Assigned(q)'
    BY <1>0, <2>0 DEF CallsInv, Assigned
  <2> QED
    BY <2>1, <2>2, <2>3, <2>4, <2>5, <2>6 DEF CallInv
<1>2. ASSUME NEW p \in Calls \ {r}, NEW q \in Calls \ {r}, p # q PROVE KeysDiffer(p, q)'
  <2>1. call'[p] = call[p] /\ call'[q] = call[q] /\ KeysDiffer(p, q)
    BY <1>0, <1>2 DEF CallsInv, Quiet
  <2> QED
    BY <2>1 DEF KeysDiffer
<1>3. \A q \in Calls : CallInv(q)'
  BY <1>1
<1>4. \A p, q \in Calls : p # q => KeysDiffer(p, q)'
  BY <1>2
<1> QED
  BY <1>3, <1>4 DEF CallsInv, CallInv

LEMMA QuietTypes ==
    ASSUME AccountsInv, NEW r \in Calls, Quiet(r), UNCHANGED <<shown, sent>> PROVE CallsTyped'
BY DEF AccountsInv, Quiet, CallsTyped, AccountsSame

\* A call that has come to its end is bound to nothing.
LEMMA EndedQuiet ==
    ASSUME AccountsInv, NEW r \in Calls, Quiet(r), call'[r] = NoCall PROVE CallsInv'
<1>0. call'[r].step = "idle"
  BY DEF NoCall
<1>1. CallInv(r)'
  BY <1>0 DEF CallInv, Registers, LogsIn, Answered, Forgets, Resets, Assigned
<1>2. \A q \in Calls \ {r} : KeysDiffer(r, q)' /\ KeysDiffer(q, r)'
  BY <1>0 DEF KeysDiffer
<1> QED
  BY <1>1, <1>2, QuietCalls

LEMMA CutOffKeeps == ASSUME AccountsInv, NEW r \in Calls, CutOffDone(r) PROVE AccountsInv'
<1>1. Quiet(r) /\ call'[r] = NoCall /\ UNCHANGED <<shown, sent>>
  BY DEF CutOffDone, Quiet, AccountsInv, CallsTyped
<1> QED
  BY <1>1, QuietRows, EndedQuiet, QuietTypes DEF AccountsInv

LEMMA RegisterLooksUpKeeps ==
    ASSUME AccountsInv, NEW r \in Calls, NEW e \in Emails, RegisterLooksUpDone(r, e) PROVE AccountsInv'
<1>1. /\ Quiet(r) /\ call'[r].step = "register" /\ call'[r].email = e
      /\ WithEmail(e) = {} /\ UNCHANGED <<shown, sent>>
  BY DEF RegisterLooksUpDone, Quiet, AccountsInv, CallsTyped
<1>2. WithEmail(e)' = {}
  BY <1>1 DEF Quiet, AccountsSame, WithEmail
<1>3. CallInv(r)'
  BY <1>1, <1>2 DEF CallInv, Registers, WithEmail, LogsIn, Answered, Forgets, Resets, Assigned
<1>4. \A q \in Calls \ {r} : KeysDiffer(r, q)' /\ KeysDiffer(q, r)'
  BY <1>1 DEF KeysDiffer
<1> QED
  BY <1>1, <1>3, <1>4, QuietRows, QuietCalls, QuietTypes DEF AccountsInv

LEMMA LoginReadsKeeps ==
    ASSUME AccountsInv, NEW r \in Calls, NEW i \in AccountIds, LoginReadsDone(r, i) PROVE AccountsInv'
<1>1. /\ Quiet(r) /\ call'[r].step = "login" /\ call'[r].id = i /\ call'[r].keys = generated + 1
      /\ i \in AccountsUsed /\ ~accounts[i].initialized /\ generated' = generated + 1 /\ generated \in Nat
      /\ UNCHANGED <<shown, sent>>
  BY DEF LoginReadsDone, Quiet, AccountsInv, CallsTyped
<1>2. \A j \in AccountsUsed, s \in Slots : accounts[j].keys[s] # generated + 1
  <2>1. ASSUME NEW j \in AccountsUsed, NEW s \in Slots PROVE accounts[j].keys[s] # generated + 1
    <3>1. accounts[j].keys[s] <= generated
      BY DEF AccountsInv, RowsInv, RowKeys
    <3>2. accounts[j].keys[s] \in Nat
      BY KeysTyped DEF AccountsInv
    <3> QED
      BY <1>1, <3>1, <3>2
  <2> QED
    BY <2>1
<1>3. \A o \in origin : o.key # generated + 1
  <2>1. ASSUME NEW o \in origin PROVE o.key # generated + 1
    <3>1. o.key <= generated /\ o.key \in Nat
      BY DEF AccountsInv, RowsInv, TokensOfOne, CallsTyped, OriginSet
    <3> QED
      BY <1>1, <3>1
  <2> QED
    BY <2>1
<1>4. LogsIn(r)'
  <2>1. UNCHANGED <<accounts, origin>> /\ AccountsUsed' = AccountsUsed /\ generated + 1 <= generated'
    BY <1>1 DEF Quiet, AccountsSame
  <2> QED
    BY <1>1, <1>2, <1>3, <2>1 DEF LogsIn
<1>5. CallInv(r)'
  BY <1>1, <1>4 DEF CallInv, Registers, Answered, Forgets, Resets, Assigned
<1>6. ASSUME NEW q \in Calls \ {r} PROVE KeysDiffer(r, q)' /\ KeysDiffer(q, r)'
  <2>0. call'[q] = call[q] /\ CallsTyped
    BY <1>1 DEF Quiet, AccountsInv
  <2>1. call[q].step = "login" => call[q].keys <= generated /\ call[q].keys \in Nat
    BY <2>0, LoginTyped DEF AccountsInv, CallsInv, LogsIn
  <2>2. call[q].step = "forgot" => \A o \in call[q].secrets : o.key \in 1 .. generated
    BY DEF AccountsInv, CallsInv, Forgets
  <2> QED
    BY <1>1, <2>0, <2>1, <2>2 DEF KeysDiffer
<1> QED
  BY <1>1, <1>5, <1>6, QuietRows, QuietCalls, QuietTypes DEF AccountsInv

LEMMA LoginAnswersKeeps == ASSUME AccountsInv, NEW r \in Calls, LoginAnswersDone(r) PROVE AccountsInv'
<1>1. /\ Quiet(r) /\ call[r].step = "login answer" /\ call'[r] = NoCall
      /\ shown' = shown \cup {[id |-> call[r].id, keys |-> call[r].keys]} /\ UNCHANGED sent
  <2>1. generated \in 0 .. MaxSecret /\ generated <= generated
    BY DEF AccountsInv, CallsTyped
  <2> QED
    BY <2>1 DEF LoginAnswersDone, Quiet
<1>2. call[r].id \in AccountIds /\ call[r].keys \in 1 .. MaxSecret
  BY <1>1, LoginTyped DEF AccountsInv
<1>3. CallsTyped'
  <2>1. shown' \subseteq [id : AccountIds, keys : 1 .. MaxSecret]
    <3>1. shown \subseteq [id : AccountIds, keys : 1 .. MaxSecret]
      BY DEF AccountsInv, CallsTyped
    <3>2. [id |-> call[r].id, keys |-> call[r].keys] \in [id : AccountIds, keys : 1 .. MaxSecret]
      BY <1>2
    <3> QED
      BY <1>1, <3>1, <3>2
  <2> QED
    BY <1>1, <2>1 DEF AccountsInv, CallsTyped, Quiet, AccountsSame
<1>4. ShownStored'
  <2>1. /\ UNCHANGED <<accounts, raced>> /\ AccountsUsed' = AccountsUsed
    BY <1>1 DEF Quiet, AccountsSame
  <2>2. ShownStored /\ call[r].id \in AccountsUsed
        /\ ([id |-> call[r].id] \notin raced => Stored(call[r].id, call[r].keys))
    BY <1>1 DEF AccountsInv, CallsInv, RowsInv, Answered
  <2>3. ASSUME NEW h \in shown', [id |-> h.id] \notin raced' PROVE Stored(h.id, h.keys)'
    <3>1. ASSUME h \in shown PROVE Stored(h.id, h.keys)
      BY <2>1, <2>2, <2>3, <3>1 DEF ShownStored
    <3>2. ASSUME h = [id |-> call[r].id, keys |-> call[r].keys] PROVE Stored(h.id, h.keys)
      <4>1. h.id = call[r].id /\ h.keys = call[r].keys
        BY <3>2
      <4> QED
        BY <2>1, <2>2, <2>3, <4>1
    <3>3. Stored(h.id, h.keys)
      BY <1>1, <2>3, <3>1, <3>2
    <3> QED
      BY <2>1, <3>3 DEF Stored
  <2>4. ASSUME NEW h \in shown' PROVE h.id \in AccountsUsed
    <3>1. CASE h \in shown
      BY <2>2, <3>1 DEF ShownStored
    <3>2. CASE h = [id |-> call[r].id, keys |-> call[r].keys]
      BY <2>2, <3>2
    <3> QED
      BY <1>1, <2>4, <3>1, <3>2
  <2> QED
    BY <2>1, <2>3, <2>4 DEF ShownStored
<1>5. RowsInv'
  <2>1. EmailsApart' /\ TokensOfOne' /\ RowTokens' /\ RowKeys' /\ TwiceExcused'
    <3>0. CallsTyped /\ RowsInv /\ UNCHANGED <<accounts, issued, origin, spent, twice, overlapped, raced, generated>>
          /\ AccountsUsed' = AccountsUsed
      BY DEF AccountsInv, LoginAnswersDone, AccountsSame
    <3> QED
      BY <3>0 DEF RowsInv, EmailsApart, TokensOfOne, RowTokens, RowKeys, TwiceExcused, Excused
  <2> QED
    BY <1>4, <2>1 DEF RowsInv
<1> QED
  BY <1>1, <1>3, <1>5, EndedQuiet DEF AccountsInv

LEMMA GeneratedTyped == AccountsInv => generated \in 0 .. MaxSecret /\ generated <= generated
BY DEF AccountsInv, CallsTyped

LEMMA ForgotReadsKeeps ==
    ASSUME AccountsInv, NEW r \in Calls, NEW i \in AccountIds, ForgotReadsDone(r, i) PROVE AccountsInv'
<1>1. /\ Quiet(r) /\ call'[r].step = "forgot" /\ call'[r].id = i /\ call'[r].secrets = {}
      /\ i \in AccountsUsed /\ UNCHANGED <<shown, sent>> /\ AccountsUsed' = AccountsUsed
  BY GeneratedTyped DEF ForgotReadsDone, Quiet, AccountsSame
<1>2. CallInv(r)'
  BY <1>1 DEF CallInv, Registers, LogsIn, Answered, Forgets, Resets, Assigned
<1>3. \A q \in Calls \ {r} : KeysDiffer(r, q)' /\ KeysDiffer(q, r)'
  BY <1>1 DEF KeysDiffer
<1> QED
  BY <1>1, <1>2, <1>3, QuietRows, QuietCalls, QuietTypes DEF AccountsInv

LEMMA ForgotMatchesKeyKeeps ==
    ASSUME AccountsInv, NEW r \in Calls, NEW i \in AccountIds, NEW s \in Slots, ForgotMatchesKeyDone(r, i, s)
    PROVE  AccountsInv'
<1> DEFINE k == accounts[i].keys[s]
<1>1. /\ Quiet(r) /\ call'[r].step = "forgot" /\ call'[r].id = i /\ call'[r].via = s
      /\ call'[r].secrets = {Origin(0, i, s, k)}
      /\ i \in AccountsUsed /\ k \in 1 .. MaxSecret /\ UNCHANGED <<shown, sent>>
  BY GeneratedTyped DEF ForgotMatchesKeyDone, Quiet
<1>2. k # 0 /\ k <= generated /\ k \in 1 .. generated
  <2>1. k <= generated /\ generated \in Nat
    BY <1>1 DEF AccountsInv, RowsInv, RowKeys, CallsTyped
  <2> QED
    BY <1>1, <2>1
<1>3. Excused(Origin(0, i, s, k)) /\ Origin(0, i, s, k).key = k
  BY <1>1, <1>2 DEF AccountsInv, RowsInv, RowKeys, Origin
<1>4. \A q \in Calls : call[q].step = "login" => call[q].keys # k
  BY <1>1 DEF AccountsInv, CallsInv, LogsIn
<1> HIDE DEF k
<1>5. Forgets(r)'
  <2>1. /\ UNCHANGED <<spent, overlapped>> /\ AccountsUsed' = AccountsUsed
        /\ generated \in Nat /\ generated' \in Nat /\ generated <= generated'
    BY <1>1 DEF Quiet, AccountsSame, AccountsInv, CallsTyped
  <2>2. ASSUME NEW o \in call'[r].secrets
        PROVE  /\ call'[r].via \in Slots /\ o = Origin(0, call'[r].id, call'[r].via, o.key)
               /\ o.key \in 1 .. generated' /\ Excused(o)'
    <3>1. o = Origin(0, i, s, k) /\ Excused(o) /\ o.key = k
      BY <1>1, <1>3
    <3>2. Excused(o)'
      BY <2>1, <3>1 DEF Excused
    <3>3. k \in 1 .. generated'
      BY <1>2, <2>1
    <3> QED
      BY <1>1, <3>1, <3>2, <3>3
  <2>3. \A o, q \in call'[r].secrets : o = q
    BY <1>1
  <2> QED
    BY <1>1, <2>1, <2>2, <2>3 DEF Forgets
<1>6. CallInv(r)'
  BY <1>1, <1>5 DEF CallInv, Registers, LogsIn, Answered, Resets, Assigned
<1>7. \A q \in Calls \ {r} : KeysDiffer(r, q)' /\ KeysDiffer(q, r)'
  BY <1>1, <1>3, <1>4 DEF KeysDiffer, Quiet
<1> QED
  BY <1>1, <1>6, <1>7, QuietRows, QuietCalls, QuietTypes DEF AccountsInv

LEMMA ResetReadsKeeps ==
    ASSUME AccountsInv, NEW r \in Calls, NEW i \in AccountIds, ResetReadsDone(r, i) PROVE AccountsInv'
<1>1. /\ Quiet(r) /\ call'[r].step = "reset" /\ call'[r].id = i /\ call'[r].via = accounts[i].via
      /\ call'[r].secrets = {q \in origin : q.token = accounts[i].token}
      /\ i \in AccountsUsed /\ UNCHANGED <<shown, sent>>
  BY GeneratedTyped DEF ResetReadsDone, Quiet
<1>2. \A o \in origin : o.token = accounts[i].token => o.id = i /\ o.slot = accounts[i].via /\ Excused(o)
  BY <1>1 DEF AccountsInv, RowsInv, RowTokens
<1>3. Resets(r)'
  <2>1. UNCHANGED <<origin, spent, overlapped>> /\ AccountsUsed' = AccountsUsed
    BY <1>1 DEF Quiet, AccountsSame
  <2> QED
    BY <1>1, <1>2, <2>1 DEF Resets, Excused
<1>4. CallInv(r)'
  BY <1>1, <1>3 DEF CallInv, Registers, LogsIn, Answered, Forgets, Assigned
<1>5. \A q \in Calls \ {r} : KeysDiffer(r, q)' /\ KeysDiffer(q, r)'
  BY <1>1 DEF KeysDiffer
<1> QED
  BY <1>1, <1>4, <1>5, QuietRows, QuietCalls, QuietTypes DEF AccountsInv

LEMMA ForgotAnswersKeeps == ASSUME AccountsInv, NEW r \in Calls, ForgotAnswersDone(r) PROVE AccountsInv'
<1>1. /\ Quiet(r) /\ call[r].step = "forgot answer" /\ call'[r] = NoCall
      /\ sent' = sent \cup {call[r].token} /\ UNCHANGED shown
  BY GeneratedTyped DEF ForgotAnswersDone, Quiet
<1>2. call[r].token \in 1 .. issued
  <2>1. call[r].token \in 1 .. MaxSecret /\ call[r].token <= issued /\ issued \in 0 .. MaxSecret
    BY <1>1, CallTyped DEF AccountsInv, CallsInv, Assigned, CallsTyped
  <2> QED
    BY <2>1
<1>3. CallsTyped'
  BY <1>1, <1>2 DEF AccountsInv, CallsTyped, Quiet, AccountsSame
<1> QED
  BY <1>1, <1>3, QuietRows, EndedQuiet DEF AccountsInv

LEMMA TokenExpiresKeeps ==
    ASSUME AccountsInv, NEW i \in AccountIds, TokenExpiresDone(i) PROVE AccountsInv'
<1>0. /\ CallsTyped /\ CallsInv /\ RowsInv /\ AccountsUsed' = AccountsUsed
      /\ UNCHANGED <<call, generated, issued, shown, sent, origin, spent, twice, overlapped, raced>>
      /\ \A j \in AccountsUsed :
            /\ accounts'[j].initialized = accounts[j].initialized /\ accounts'[j].email = accounts[j].email
            /\ accounts'[j].token = accounts[j].token /\ accounts'[j].via = accounts[j].via
            /\ accounts'[j].keys = accounts[j].keys
  BY DEF AccountsInv, TokenExpiresDone
<1>1. CallsTyped'
  BY <1>0 DEF TokenExpiresDone, CallsTyped
<1>2. EmailsApart' /\ TokensOfOne' /\ TwiceExcused'
  BY <1>0 DEF RowsInv, EmailsApart, TokensOfOne, TwiceExcused
<1>3. ShownStored'
  BY <1>0 DEF RowsInv, ShownStored, Stored
<1>4. RowTokens' /\ RowKeys'
  BY <1>0 DEF RowsInv, RowTokens, RowKeys, Excused
<1>5. ASSUME NEW q \in Calls PROVE CallInv(q)'
  <2>0. CallInv(q)
    BY <1>0 DEF CallsInv, CallInv
  <2>1. Registers(q)' /\ LogsIn(q)'
    BY <1>0, <2>0 DEF CallInv, Registers, WithEmail, LogsIn
  <2>2. Answered(q)'
    BY <1>0, <2>0 DEF CallInv, Answered, Stored
  <2>3. Forgets(q)' /\ Resets(q)' /\ Assigned(q)'
    BY <1>0, <2>0 DEF CallInv, Forgets, Resets, Assigned, Excused
  <2> QED
    BY <2>1, <2>2, <2>3 DEF CallInv
<1>6. \A p, q \in Calls : p # q => KeysDiffer(p, q)'
  BY <1>0 DEF CallsInv, KeysDiffer
<1> QED
  BY <1>1, <1>2, <1>3, <1>4, <1>5, <1>6 DEF AccountsInv, CallsInv, CallInv, RowsInv

\* Between two calls that have not moved nothing of their keys changes.
LEMMA OthersDiffer ==
    ASSUME AccountsInv, NEW r \in Calls, \A q \in Calls \ {r} : call'[q] = call[q],
           call'[r].step \notin {"login", "forgot"}
    PROVE  \A p, q \in Calls : p # q => KeysDiffer(p, q)'
<1> SUFFICES ASSUME NEW p \in Calls, NEW q \in Calls, p # q PROVE KeysDiffer(p, q)'
  OBVIOUS
<1>1. KeysDiffer(p, q)
  BY DEF AccountsInv, CallsInv
<1> QED
  BY <1>1 DEF KeysDiffer

LEMMA RegisterInsertsKeeps == ASSUME AccountsInv, NEW r \in Calls, RegisterInsertsDone(r) PROVE AccountsInv'
<1> DEFINE e == call[r].email
<1>0. /\ CallsTyped /\ CallsInv /\ RowsInv
      /\ call[r].step = "register" /\ call' \in [Calls -> CallSet] /\ call'[r].step = "idle"
      /\ \A q \in Calls \ {r} : call'[q] = call[q]
      /\ UNCHANGED <<generated, issued, shown, sent, origin, spent, twice, overlapped>>
      /\ raced \subseteq raced'
      /\ \A q \in Calls \ {r} : call[q].step = "register" /\ call[q].email = e => [email |-> e] \in raced'
  BY DEF AccountsInv, RegisterInsertsDone, NoCall
<1>1. PICK id \in AccountIds :
          /\ id \notin AccountsUsed /\ AccountsUsed' = AccountsUsed \cup {id}
          /\ accounts' \in [AccountIds -> AccountRow \cup {NoAccount}]
          /\ accounts'[id] = [email |-> e, initialized |-> FALSE, keys |-> [s \in Slots |-> 0],
                              token |-> 0, live |-> FALSE, via |-> 0]
          /\ \A i \in AccountsUsed : accounts'[i] = accounts[i]
  BY DEF RegisterInsertsDone
<1>2. /\ accounts'[id].email = e /\ accounts'[id].token = 0
      /\ \A s \in Slots : accounts'[id].keys[s] = 0
  BY <1>1
<1>3. [email |-> e] \notin raced => WithEmail(e) = {}
  BY <1>0 DEF CallsInv, Registers
<1> HIDE DEF e
<1>4. CallsTyped'
  BY <1>0, <1>1 DEF CallsTyped
<1>5. EmailsApart'
  BY <1>0, <1>1, <1>2, <1>3 DEF RowsInv, EmailsApart, WithEmail
<1>6. ShownStored'
  BY ZenonT(40), <1>0, <1>1 DEF RowsInv, ShownStored, Stored
<1>7. TokensOfOne' /\ TwiceExcused'
  BY <1>0 DEF RowsInv, TokensOfOne, TwiceExcused
<1>8. RowTokens'
  <2>1. \A o \in origin : o.token # 0
    BY <1>0 DEF RowsInv, TokensOfOne
  <2>2. 0 <= issued
    BY <1>0 DEF CallsTyped
  <2> QED
    BY <1>0, <1>1, <1>2, <2>1, <2>2 DEF RowsInv, RowTokens, Excused
<1>9. RowKeys'
  <2>1. 0 <= generated
    BY <1>0 DEF CallsTyped
  <2> QED
    BY <1>0, <1>1, <1>2, <2>1 DEF RowsInv, RowKeys, Excused
<1>10. ASSUME NEW q \in Calls PROVE CallInv(q)'
  <2>1. CASE q = r
    BY <1>0, <2>1 DEF CallInv, Registers, LogsIn, Answered, Forgets, Resets, Assigned
  <2>2. CASE q # r
    <3>0. CallInv(q) /\ call'[q] = call[q]
      BY <1>0, <2>2 DEF CallsInv, CallInv
    <3>1. Registers(q)'
      BY <1>0, <1>1, <1>2, <2>2, <3>0 DEF CallInv, Registers, WithEmail
    <3>2. LogsIn(q)'
      <4>1. call[q].step = "login" => call[q].keys # 0
        BY <1>0, LoginTyped
      <4> QED
        BY <1>0, <1>1, <1>2, <3>0, <4>1 DEF CallInv, LogsIn
    <3>3. Answered(q)'
      BY ZenonT(40), <1>0, <1>1, <3>0 DEF CallInv, Answered, Stored
    <3>4. Forgets(q)' /\ Resets(q)' /\ Assigned(q)'
      BY <1>0, <1>1, <3>0 DEF CallInv, Forgets, Resets, Assigned, Excused
    <3> QED
      BY <3>1, <3>2, <3>3, <3>4 DEF CallInv
  <2> QED
    BY <2>1, <2>2
<1>11. \A p, q \in Calls : p # q => KeysDiffer(p, q)'
  BY <1>0, OthersDiffer
<1> QED
  BY <1>4, <1>5, <1>6, <1>7, <1>8, <1>9, <1>10, <1>11 DEF AccountsInv, CallsInv, CallInv, RowsInv

LEMMA LoginStoresKeeps == ASSUME AccountsInv, NEW r \in Calls, LoginStoresDone(r) PROVE AccountsInv'
<1> DEFINE i == call[r].id
           k == call[r].keys
<1>0. /\ CallsTyped /\ CallsInv /\ RowsInv
      /\ call[r].step = "login" /\ call' \in [Calls -> CallSet]
      /\ call'[r].step = "login answer" /\ call'[r].id = i /\ call'[r].keys = k
      /\ \A q \in Calls \ {r} : call'[q] = call[q]
      /\ i \in AccountsUsed /\ AccountsUsed' = AccountsUsed
      /\ accounts' \in [AccountIds -> AccountRow \cup {NoAccount}]
      /\ UNCHANGED <<generated, issued, shown, sent, origin, spent, twice, overlapped>>
      /\ raced \subseteq raced'
      /\ \A q \in Calls \ {r} : call[q].step = "login" /\ call[q].id = i => [id |-> i] \in raced'
  BY DEF AccountsInv, LoginStoresDone
<1>1. /\ \A j \in AccountsUsed \ {i} : accounts'[j] = accounts[j]
      /\ accounts'[i].initialized /\ accounts'[i].email = accounts[i].email
      /\ accounts'[i].token = accounts[i].token /\ accounts'[i].via = accounts[i].via
      /\ \A s \in Slots : accounts'[i].keys[s] = k
  BY DEF LoginStoresDone
<1>2. /\ k <= generated /\ k \in 1 .. MaxSecret
      /\ [id |-> i] \notin raced => ~accounts[i].initialized
      /\ \A o \in origin : o.key # k
  BY <1>0, LoginTyped DEF CallsInv, LogsIn
<1> HIDE DEF i, k
<1>3. \A j \in AccountsUsed :
         /\ accounts'[j].email = accounts[j].email
         /\ accounts'[j].token = accounts[j].token /\ accounts'[j].via = accounts[j].via
  BY <1>1
<1>4. CallsTyped'
  BY <1>0 DEF CallsTyped
<1>5. EmailsApart'
  <2> SUFFICES ASSUME NEW j \in AccountsUsed, NEW l \in AccountsUsed, j # l,
                      accounts'[j].email = accounts'[l].email
               PROVE  [email |-> accounts'[j].email] \in raced'
    BY <1>0 DEF EmailsApart
  <2>1. accounts'[j].email = accounts[j].email /\ accounts'[l].email = accounts[l].email
    BY <1>3
  <2>2. [email |-> accounts[j].email] \in raced
    BY <1>0, <2>1 DEF RowsInv, EmailsApart
  <2> QED
    BY <1>0, <2>1, <2>2
<1>6. ShownStored'
  <2> SUFFICES ASSUME NEW h \in shown
               PROVE  h.id \in AccountsUsed' /\ ([id |-> h.id] \notin raced' => Stored(h.id, h.keys)')
    BY <1>0 DEF ShownStored
  <2>1. h.id \in AccountsUsed /\ ([id |-> h.id] \notin raced => Stored(h.id, h.keys))
    BY <1>0 DEF RowsInv, ShownStored
  <2>2. CASE h.id = i
    BY <1>0, <1>2, <2>1, <2>2 DEF Stored
  <2>3. CASE h.id # i
    BY ZenonT(40), <1>0, <1>1, <2>1, <2>3 DEF Stored
  <2> QED
    BY <2>2, <2>3
<1>7. TokensOfOne' /\ TwiceExcused'
  BY <1>0 DEF RowsInv, TokensOfOne, TwiceExcused
<1>8. RowTokens'
  <2> SUFFICES ASSUME NEW j \in AccountsUsed
               PROVE  /\ accounts'[j].token <= issued'
                      /\ \A o \in origin' : o.token = accounts'[j].token =>
                            o.id = j /\ o.slot = accounts'[j].via /\ Excused(o)'
    BY <1>0 DEF RowTokens
  <2>1. accounts'[j].token = accounts[j].token /\ accounts'[j].via = accounts[j].via
    BY <1>3
  <2> QED
    BY ZenonT(40), <1>0, <2>1 DEF RowsInv, RowTokens, Excused
<1>9. RowKeys'
  <2> SUFFICES ASSUME NEW j \in AccountsUsed, NEW s \in Slots
               PROVE  /\ accounts'[j].keys[s] <= generated'
                      /\ accounts'[j].keys[s] # 0 => Excused(Origin(0, j, s, accounts[j].keys[s]))'
    BY <1>0 DEF RowKeys
  <2>1. CASE j # i
    BY ZenonT(40), <1>0, <1>1, <2>1 DEF RowsInv, RowKeys, Excused
  <2>2. CASE j = i
    <3>1. \A q \in spent : ~SameSecret(Origin(0, i, s, k), q)
      <4>1. \A q \in spent : q.token # 0 /\ q.key # k
        <5>1. spent \subseteq origin
          BY <1>0 DEF CallsTyped
        <5>2. issued \in Nat
          BY <1>0, CountersTyped
        <5>3. \A q \in origin : q.token \in 1 .. issued
          BY <1>0 DEF RowsInv, TokensOfOne
        <5> QED
          BY <1>2, <5>1, <5>2, <5>3, PositiveIsNat
      <4> QED
        BY <4>1 DEF SameSecret, Origin
    <3>2. accounts'[j].keys[s] = k
      BY <1>1, <2>2
    <3> QED
      BY <1>0, <1>2, <2>2, <3>1, <3>2 DEF Excused
  <2> QED
    BY <2>1, <2>2
<1>10. ASSUME NEW q \in Calls PROVE CallInv(q)'
  <2>1. CASE q = r
    <3>1. Answered(r)'
      BY <1>0, <1>1 DEF Answered, Stored
    <3> QED
      BY <1>0, <2>1, <3>1 DEF CallInv, Registers, LogsIn, Forgets, Resets, Assigned
  <2>2. CASE q # r
    <3>0. CallInv(q) /\ call'[q] = call[q]
      BY <1>0, <2>2 DEF CallsInv, CallInv
    <3>1. Registers(q)'
      BY ZenonT(40), <1>0, <1>3, <3>0 DEF CallInv, Registers, WithEmail
    <3>2. LogsIn(q)'
      <4>1. call[q].step = "login" => call[q].keys # k
        BY <1>0, <2>2 DEF CallsInv, KeysDiffer, k
      <4>2. call[q].step = "login" /\ [id |-> call[q].id] \notin raced' => call[q].id # i
        BY <1>0, <2>2
      <4> SUFFICES ASSUME call[q].step = "login" PROVE LogsIn(q)'
        BY <3>0 DEF LogsIn
      <4>3. /\ call[q].id \in AccountsUsed /\ call[q].keys <= generated
            /\ [id |-> call[q].id] \notin raced => ~accounts[call[q].id].initialized
            /\ \A j \in AccountsUsed, s \in Slots : accounts[j].keys[s] # call[q].keys
            /\ \A o \in origin : o.key # call[q].keys
        BY <3>0 DEF CallInv, LogsIn
      <4>4. \A j \in AccountsUsed, s \in Slots : accounts'[j].keys[s] # call[q].keys
        <5> TAKE j \in AccountsUsed, s \in Slots
        <5>1. CASE j = i
          BY <1>1, <4>1, <5>1
        <5>2. CASE j # i
          <6>1. accounts'[j] = accounts[j]
            BY <1>1, <5>2
          <6> QED
            BY <4>3, <6>1
        <5> QED
          BY <5>1, <5>2
      <4>5. [id |-> call[q].id] \notin raced' => ~accounts'[call[q].id].initialized
        BY <1>0, <1>1, <4>2, <4>3
      <4> QED
        BY ZenonT(40), <1>0, <3>0, <4>3, <4>4, <4>5 DEF LogsIn
    <3>3. Answered(q)'
      <4>1. CASE call[q].step = "login answer" /\ call[q].id = i
        BY <1>0, <1>2, <3>0, <4>1 DEF CallInv, Answered, Stored
      <4>2. CASE call[q].step = "login answer" /\ call[q].id # i
        <5>1. call[q].id \in AccountsUsed
          BY <3>0, <4>2 DEF CallInv, Answered
        <5>2. accounts'[call[q].id] = accounts[call[q].id]
          BY <1>1, <4>2, <5>1
        <5>3. [id |-> call[q].id] \notin raced' => Stored(call[q].id, call[q].keys)
          BY <1>0, <3>0, <4>2 DEF CallInv, Answered
        <5> QED
          BY <1>0, <3>0, <4>2, <5>1, <5>2, <5>3 DEF Answered, Stored
      <4> QED
        BY <3>0, <4>1, <4>2 DEF Answered
    <3>4. Forgets(q)' /\ Resets(q)' /\ Assigned(q)'
      BY <1>0, <3>0 DEF CallInv, Forgets, Resets, Assigned, Excused
    <3> QED
      BY <3>1, <3>2, <3>3, <3>4 DEF CallInv
  <2> QED
    BY <2>1, <2>2
<1>11. \A p, q \in Calls : p # q => KeysDiffer(p, q)'
  BY <1>0, OthersDiffer
<1> QED
  BY <1>4, <1>5, <1>6, <1>7, <1>8, <1>9, <1>10, <1>11 DEF AccountsInv, CallsInv, CallInv, RowsInv

LEMMA TokenPositive ==
    ASSUME AccountsInv
    PROVE  /\ \A o \in origin : o.token # 0 /\ o.token <= issued /\ o.token \in Nat
           /\ spent \subseteq origin /\ overlapped \subseteq origin
           /\ issued \in Nat /\ generated \in Nat
<1>1. spent \subseteq origin /\ overlapped \subseteq origin
  BY DEF AccountsInv, CallsTyped
<1>2. issued \in Nat /\ generated \in Nat
  BY DEF AccountsInv, CallsTyped
<1>3. \A o \in origin : o.token \in 1 .. issued
  BY DEF AccountsInv, RowsInv, TokensOfOne
<1> QED
  BY <1>1, <1>2, <1>3, PositiveIsNat

\* A token made of a key is excused as the key is.
LEMMA TokenOfKey ==
    ASSUME AccountsInv, NEW i, NEW s, NEW k, Excused(Origin(0, i, s, k)), s # 0,
           NEW n, \A q \in spent : q.token # n
    PROVE  Excused(Origin(n, i, s, k))
<1>0. \A q \in origin : q.token # 0
  BY TokenPositive
<1>1. ASSUME NEW q \in spent, SameSecret(Origin(n, i, s, k), q)
      PROVE  SameSecret(Origin(0, i, s, k), q)
  BY <1>1 DEF SameSecret, Origin
<1>2. ASSUME NEW p \in overlapped, SameSecret(Origin(0, i, s, k), p)
      PROVE  SameSecret(Origin(n, i, s, k), p)
  <2>1. p.token # 0
    BY <1>0, TokenPositive
  <2> QED
    BY <1>2, <2>1 DEF SameSecret, Origin
<1> QED
  BY <1>1, <1>2 DEF Excused

LEMMA ForgotAssignsKeeps == ASSUME AccountsInv, NEW r \in Calls, ForgotAssignsDone(r) PROVE AccountsInv'
<1> DEFINE i == call[r].id
           n == issued + 1
<1>0. /\ CallsTyped /\ CallsInv /\ RowsInv
      /\ call[r].step = "forgot" /\ call' \in [Calls -> CallSet]
      /\ \A q \in Calls \ {r} : call'[q] = call[q]
      /\ i \in AccountsUsed /\ i \in AccountIds /\ AccountsUsed' = AccountsUsed
      /\ accounts' \in [AccountIds -> AccountRow \cup {NoAccount}]
      /\ issued' = n
      /\ origin \subseteq origin'
      /\ UNCHANGED <<generated, shown, sent, spent, twice, overlapped, raced>>
  BY DEF AccountsInv, ForgotAssignsDone
<1>a. call'[r].step = "forgot answer" /\ call'[r].token = n
  <2>1. call'[r] = [step |-> "forgot answer", token |-> issued + 1]
    BY DEF ForgotAssignsDone
  <2> QED
    BY <2>1, AnswerIs
<1>b. n \in 1 .. MaxSecret
  BY DEF ForgotAssignsDone
<1>c. n \in 0 .. MaxSecret
  BY <1>0, <1>b, CountersTyped, UpToIs
<1>d. n \in 1 .. n /\ n <= n /\ n \in Nat /\ 0 <= generated
  BY <1>0, CountersTyped, NextIs
<1>e. \A x \in 1 .. issued : x \in 1 .. n
  BY <1>0, CountersTyped, UpToIs
<1>f. \A x \in Nat : x <= issued => x <= n /\ x # n
  BY <1>0, CountersTyped, OneMore
<1>1. /\ \A j \in AccountsUsed \ {i} : accounts'[j] = accounts[j]
      /\ accounts'[i].initialized = accounts[i].initialized /\ accounts'[i].email = accounts[i].email
      /\ accounts'[i].keys = accounts[i].keys
      /\ accounts'[i].token = n /\ accounts'[i].via = call[r].via
  BY DEF ForgotAssignsDone
<1>2. /\ \A o \in origin' \ origin :
            \/ call[r].via = 0 /\ o = Origin(n, i, 0, 0)
            \/ \E q \in call[r].secrets : o = Origin(n, i, call[r].via, q.key)
      /\ \A o, q \in origin' \ origin : o = q
  BY DEF ForgotAssignsDone
<1>3. /\ issued \in Nat /\ generated \in Nat /\ n = issued + 1
      /\ \A o \in origin : o.token # 0 /\ o.token <= issued /\ o.token \in Nat /\ o.token # n
      /\ spent \subseteq origin
  BY <1>f, TokenPositive
<1> HIDE DEF n
<1>4. \A q \in call[r].secrets :
         /\ call[r].via \in Slots /\ q = Origin(0, i, call[r].via, q.key)
         /\ q.key \in 1 .. generated /\ Excused(q)
  BY <1>0 DEF CallsInv, Forgets
<1> HIDE DEF i
<1>5. ASSUME NEW o \in origin' \ origin
      PROVE  /\ o.token = n /\ o.id = i /\ o.slot = call[r].via /\ Excused(o) /\ o \in OriginSet
             /\ o.key <= generated
             /\ o.key = 0 \/ \E q \in call[r].secrets : o.key = q.key
  <2>1. CASE call[r].via = 0 /\ o = Origin(n, i, 0, 0)
    <3>1. /\ o.token = n /\ o.id = i /\ o.slot = 0 /\ o.key = 0
          /\ o = [token |-> n, id |-> i, slot |-> 0, key |-> 0]
      BY <2>1 DEF Origin
    <3>2. Excused(o)
      BY <1>3, <3>1 DEF Excused, SameSecret
    <3>3. o \in OriginSet
      <4>1. 0 \in 0 .. MaxSecret
        BY <1>0, CountersTyped
      <4> QED
        BY <1>0, <1>c, <3>1, <4>1 DEF OriginSet
    <3>4. 0 <= generated
      BY <1>d
    <3> QED
      BY <2>1, <3>1, <3>2, <3>3, <3>4
  <2>2. ASSUME NEW q \in call[r].secrets, o = Origin(n, i, call[r].via, q.key)
        PROVE  /\ o.token = n /\ o.id = i /\ o.slot = call[r].via /\ Excused(o) /\ o \in OriginSet
               /\ o.key <= generated /\ o.key = q.key
    <3>1. /\ o.token = n /\ o.id = i /\ o.slot = call[r].via /\ o.key = q.key
          /\ o = [token |-> n, id |-> i, slot |-> call[r].via, key |-> q.key]
      BY <2>2 DEF Origin
    <3>2. call[r].via \in Slots /\ call[r].via # 0 /\ q.key \in 1 .. generated
          /\ Excused(Origin(0, i, call[r].via, q.key))
      BY <1>4
    <3>3. Excused(o)
      BY <1>3, <2>2, <3>2, TokenOfKey
    <3>4. q.key <= generated /\ q.key \in 0 .. MaxSecret
      BY <1>0, <3>2, CountersTyped, UpToIs, Widened
    <3>5. o \in OriginSet
      BY <1>0, <1>c, <3>1, <3>2, <3>4 DEF OriginSet
    <3> QED
      BY <3>1, <3>3, <3>4, <3>5
  <2> QED
    BY <1>2, <2>1, <2>2
<1>6. CallsTyped'
  <2>1. origin' \subseteq OriginSet
    BY <1>0, <1>5 DEF CallsTyped
  <2>2. spent' \subseteq origin' /\ overlapped' \subseteq origin'
    BY <1>0 DEF CallsTyped
  <2>3. issued' \in 0 .. MaxSecret
    BY <1>0, <1>c
  <2>4. sent' \subseteq 1 .. issued'
    BY <1>0, <1>e DEF CallsTyped
  <2> QED
    BY <1>0, <2>1, <2>2, <2>3, <2>4 DEF CallsTyped
<1>7. \A j \in AccountsUsed :
         /\ accounts'[j].initialized = accounts[j].initialized
         /\ accounts'[j].email = accounts[j].email /\ accounts'[j].keys = accounts[j].keys
  BY <1>1
<1>8. EmailsApart'
  <2> SUFFICES ASSUME NEW j \in AccountsUsed, NEW l \in AccountsUsed, j # l,
                      accounts'[j].email = accounts'[l].email
               PROVE  [email |-> accounts'[j].email] \in raced'
    BY <1>0 DEF EmailsApart
  <2>1. accounts'[j].email = accounts[j].email /\ accounts'[l].email = accounts[l].email
    BY <1>7
  <2> QED
    BY <1>0, <2>1 DEF RowsInv, EmailsApart
<1>9. ShownStored' /\ TwiceExcused'
  BY <1>0, <1>7 DEF RowsInv, ShownStored, Stored, TwiceExcused
<1>10. TokensOfOne'
  <2>1. ASSUME NEW o \in origin' PROVE o.token \in 1 .. issued' /\ o.key <= generated'
    <3>1. CASE o \in origin
      <4>1. o.token \in 1 .. issued /\ o.key <= generated
        BY <1>0, <3>1 DEF RowsInv, TokensOfOne
      <4> QED
        BY <1>0, <1>e, <4>1
    <3>2. CASE o \notin origin
      BY <1>0, <1>d, <1>5, <3>2
    <3> QED
      BY <3>1, <3>2
  <2>2. ASSUME NEW o \in origin', NEW q \in origin', o.token = q.token PROVE o = q
    <3>1. CASE o \in origin /\ q \in origin
      BY <1>0, <2>2, <3>1 DEF RowsInv, TokensOfOne
    <3>2. CASE o \notin origin /\ q \notin origin
      BY <1>2, <3>2
    <3> QED
      BY <1>3, <1>5, <2>2, <3>1, <3>2
  <2> QED
    BY <2>1, <2>2 DEF TokensOfOne
<1>11. RowTokens'
  <2> SUFFICES ASSUME NEW j \in AccountsUsed
               PROVE  /\ accounts'[j].token <= issued'
                      /\ \A o \in origin' : o.token = accounts'[j].token =>
                            o.id = j /\ o.slot = accounts'[j].via /\ Excused(o)'
    BY <1>0 DEF RowTokens
  <2>0. \A o : Excused(o)' <=> Excused(o)
    BY <1>0 DEF Excused
  <2>1. CASE j = i
    <3>1. n <= issued'
      BY <1>0, <1>d
    <3> QED
      BY <1>1, <1>3, <1>5, <2>0, <2>1, <3>1
  <2>2. CASE j # i
    <3>1. /\ accounts'[j] = accounts[j] /\ accounts[j].token <= issued
          /\ \A o \in origin : o.token = accounts[j].token =>
                o.id = j /\ o.slot = accounts[j].via /\ Excused(o)
      BY <1>0, <1>1, <2>2 DEF RowsInv, RowTokens
    <3>2. accounts[j].token \in Nat
      <4>1. accounts[j].token \in 0 .. MaxSecret
        BY <1>0, AccountTyped
      <4> QED
        BY <4>1
    <3>3. accounts[j].token # n /\ accounts[j].token <= n
      BY <1>f, <3>1, <3>2
    <3> QED
      BY <1>0, <1>5, <2>0, <3>1, <3>3
  <2> QED
    BY <2>1, <2>2
<1>12. RowKeys'
  BY <1>0, <1>7 DEF RowsInv, RowKeys, Excused
<1>13. ASSUME NEW q \in Calls PROVE CallInv(q)'
  <2>1. CASE q = r
    <3> QED
      BY <1>0, <1>a, <1>d, <2>1 DEF CallInv, Registers, LogsIn, Answered, Forgets, Resets, Assigned
  <2>2. CASE q # r
    <3>0. CallInv(q) /\ call'[q] = call[q]
      BY <1>0, <2>2 DEF CallsInv, CallInv
    <3>1. Registers(q)'
      BY <1>0, <1>7, <3>0 DEF CallInv, Registers, WithEmail
    <3>2. LogsIn(q)'
      <4> SUFFICES ASSUME call[q].step = "login" PROVE LogsIn(q)'
        BY <3>0 DEF LogsIn
      <4>1. /\ call[q].id \in AccountsUsed /\ call[q].keys <= generated
            /\ [id |-> call[q].id] \notin raced => ~accounts[call[q].id].initialized
            /\ \A j \in AccountsUsed, s \in Slots : accounts[j].keys[s] # call[q].keys
            /\ \A o \in origin : o.key # call[q].keys
        BY <3>0 DEF CallInv, LogsIn
      <4>2. call[q].keys # 0
        BY <1>0, LoginTyped
      <4>3. \A p \in call[r].secrets : p.key # call[q].keys
        BY <1>0, <2>2 DEF CallsInv, KeysDiffer
      <4>4. \A o \in origin' : o.key # call[q].keys
        BY <1>5, <4>1, <4>2, <4>3
      <4> QED
        BY <1>0, <1>7, <3>0, <4>1, <4>4 DEF LogsIn
    <3>3. Answered(q)'
      BY ZenonT(40), <1>0, <1>7, <3>0 DEF CallInv, Answered, Stored
    <3>4. Forgets(q)' /\ Resets(q)'
      BY <1>0, <3>0 DEF CallInv, Forgets, Resets, Excused
    <3>5. Assigned(q)'
      <4>1. call[q].step = "forgot answer" => call[q].token \in 1 .. MaxSecret
        BY <1>0, CallTyped
      <4>2. call[q].step = "forgot answer" => call[q].token \in Nat
        BY <1>0, <4>1, CountersTyped, PositiveIsNat
      <4> QED
        BY <1>0, <1>f, <3>0, <4>2 DEF CallInv, Assigned
    <3> QED
      BY <3>1, <3>2, <3>3, <3>4, <3>5 DEF CallInv
  <2> QED
    BY <2>1, <2>2
<1>14. \A p, q \in Calls : p # q => KeysDiffer(p, q)'
  BY <1>0, <1>a, OthersDiffer
<1> QED
  BY <1>6, <1>8, <1>9, <1>10, <1>11, <1>12, <1>13, <1>14 DEF AccountsInv, CallsInv, CallInv, RowsInv

\* What a reset spends excuses nothing but those that had it in hand as well.
LEMMA ExcusedStays ==
    ASSUME NEW r \in Calls, ResetUpdatesDone(r), NEW o, Excused(o),
           \A s \in call[r].secrets : SameSecret(o, s) => \E p \in overlapped' : SameSecret(o, p)
    PROVE  Excused(o)'
<1>1. spent' = spent \cup call[r].secrets /\ overlapped \subseteq overlapped'
  BY DEF ResetUpdatesDone
<1> QED
  BY <1>1 DEF Excused

LEMMA ResetUpdatesKeeps == ASSUME AccountsInv, NEW r \in Calls, ResetUpdatesDone(r) PROVE AccountsInv'
<1> DEFINE i == call[r].id
           v == call[r].via
           S == call[r].secrets
<1>0. /\ CallsTyped /\ CallsInv /\ RowsInv
      /\ call[r].step = "reset" /\ call' \in [Calls -> CallSet] /\ call'[r] = NoCall
      /\ \A q \in Calls \ {r} : call'[q] = call[q]
      /\ i \in AccountsUsed /\ AccountsUsed' = AccountsUsed
      /\ accounts' \in [AccountIds -> AccountRow \cup {NoAccount}]
      /\ UNCHANGED <<generated, issued, shown, sent, origin, raced>>
  BY DEF AccountsInv, ResetUpdatesDone
<1>1. /\ \A j \in AccountsUsed \ {i} : accounts'[j] = accounts[j]
      /\ accounts'[i].initialized = accounts[i].initialized /\ accounts'[i].email = accounts[i].email
      /\ accounts'[i].token = 0
      /\ \A s \in Slots : accounts'[i].keys[s] = IF s = v THEN 0 ELSE accounts[i].keys[s]
  BY DEF ResetUpdatesDone
<1>2. \A o \in S : o \in origin /\ o.id = i /\ o.slot = v /\ Excused(o)
  BY <1>0 DEF CallsInv, Resets
<1>3. /\ spent' = spent \cup S /\ overlapped \subseteq overlapped'
      /\ overlapped' \subseteq overlapped \cup S
      /\ \A s \in S, q \in Calls \ {r} :
            call[q].step \in {"forgot", "reset"} /\ (\E o \in call[q].secrets : SameSecret(s, o))
               => s \in overlapped'
      /\ \A o \in twice' : o \in twice \/ (o \in S /\ \E q \in spent : SameSecret(o, q))
  BY DEF ResetUpdatesDone
<1>4. \A o \in origin : o.token # 0
  BY TokenPositive
<1>5. call'[r].step = "idle"
  BY <1>0 DEF NoCall
<1> HIDE DEF i, v, S
<1>6. \A j \in AccountsUsed :
         /\ accounts'[j].initialized = accounts[j].initialized
         /\ accounts'[j].email = accounts[j].email
         /\ \A s \in Slots : accounts'[j].keys[s] \in {0, accounts[j].keys[s]}
  BY <1>1
<1>7. CallsTyped'
  <2>1. spent' \subseteq origin' /\ overlapped' \subseteq origin'
    BY <1>0, <1>2, <1>3 DEF CallsTyped
  <2> QED
    BY <1>0, <2>1 DEF CallsTyped
<1>8. EmailsApart'
  <2> SUFFICES ASSUME NEW j \in AccountsUsed, NEW l \in AccountsUsed, j # l,
                      accounts'[j].email = accounts'[l].email
               PROVE  [email |-> accounts'[j].email] \in raced'
    BY <1>0 DEF EmailsApart
  <2>1. accounts'[j].email = accounts[j].email /\ accounts'[l].email = accounts[l].email
    BY <1>6
  <2> QED
    BY <1>0, <2>1 DEF RowsInv, EmailsApart
<1>9. \A j \in AccountsUsed : \A k : Stored(j, k) => Stored(j, k)'
  BY <1>6 DEF Stored
<1>10. ShownStored'
  BY <1>0, <1>9 DEF RowsInv, ShownStored
<1>11. TokensOfOne'
  BY <1>0 DEF RowsInv, TokensOfOne
<1>12. TwiceExcused'
  BY <1>0, <1>2, <1>3 DEF RowsInv, TwiceExcused, Excused
<1>13. RowTokens'
  <2> SUFFICES ASSUME NEW j \in AccountsUsed
               PROVE  /\ accounts'[j].token <= issued
                      /\ \A o \in origin : o.token = accounts'[j].token =>
                            o.id = j /\ o.slot = accounts'[j].via /\ Excused(o)'
    BY <1>0 DEF RowTokens
  <2>1. CASE j = i
    <3>1. 0 <= issued
      BY <1>0, CountersTyped, NextIs
    <3> QED
      BY <1>1, <1>4, <2>1, <3>1
  <2>2. CASE j # i
    <3>1. /\ accounts'[j] = accounts[j] /\ accounts[j].token <= issued
          /\ \A o \in origin : o.token = accounts[j].token =>
                o.id = j /\ o.slot = accounts[j].via /\ Excused(o)
      BY <1>0, <1>1, <2>2 DEF RowsInv, RowTokens
    <3>2. ASSUME NEW o \in origin, o.token = accounts[j].token PROVE Excused(o)'
      <4>1. ASSUME NEW s \in S PROVE ~SameSecret(o, s)
        <5>1. s.id # o.id /\ s \in origin
          BY <1>2, <2>2, <3>1, <3>2
        <5>2. s.token # o.token
          BY <1>0, <5>1 DEF RowsInv, TokensOfOne
        <5> QED
          BY <5>1, <5>2 DEF SameSecret
      <4>2. Excused(o)
        BY <3>1, <3>2
      <4> QED
        BY <4>1, <4>2, ExcusedStays DEF S
    <3> QED
      BY <3>1, <3>2
  <2> QED
    BY <2>1, <2>2
<1>14. RowKeys'
  <2>1. ASSUME NEW j \in AccountsUsed, NEW t \in Slots PROVE accounts'[j].keys[t] <= generated
    <3>1. accounts[j].keys[t] <= generated /\ 0 <= generated
      BY <1>0, CountersTyped, NextIs DEF RowsInv, RowKeys
    <3> QED
      BY <1>6, <3>1
  <2>2. ASSUME NEW j \in AccountsUsed, NEW t \in Slots, NEW k, k = accounts'[j].keys[t], k # 0
        PROVE  Excused(Origin(0, j, t, k))'
    <3>1. k = accounts[j].keys[t] /\ (j # i \/ t # v)
      BY <1>1, <1>6, <2>2
    <3> DEFINE o == Origin(0, j, t, k)
    <3>2. Excused(o)
      BY <1>0, <2>2, <3>1 DEF RowsInv, RowKeys
    <3>3. o.token = 0 /\ o.id = j /\ o.slot = t
      BY DEF Origin
    <3> HIDE DEF o
    <3>4. ASSUME NEW s \in S PROVE ~SameSecret(o, s)
      BY <1>2, <1>4, <3>1, <3>3 DEF SameSecret
    <3>5. Excused(o)'
      BY <3>2, <3>4, ExcusedStays DEF S
    <3> QED
      BY <3>5 DEF o
  <2> QED
    BY <1>0, <2>1, <2>2 DEF RowKeys
<1>15. ASSUME NEW q \in Calls \ {r}, call[q].step \in {"forgot", "reset"},
              NEW o \in call[q].secrets, Excused(o)
       PROVE  Excused(o)'
  <2>1. ASSUME NEW s \in S, SameSecret(o, s) PROVE \E p \in overlapped' : SameSecret(o, p)
    <3>1. SameSecret(s, o)
      BY <2>1 DEF SameSecret
    <3>2. s \in overlapped'
      BY <1>3, <1>15, <3>1
    <3> QED
      BY <2>1, <3>2
  <2> QED
    BY <1>15, <2>1, ExcusedStays DEF S
<1>16. ASSUME NEW q \in Calls PROVE CallInv(q)'
  <2>1. CASE q = r
    BY <1>5, <2>1 DEF CallInv, Registers, LogsIn, Answered, Forgets, Resets, Assigned
  <2>2. CASE q # r
    <3>0. CallInv(q) /\ call'[q] = call[q]
      BY <1>0, <2>2 DEF CallsInv, CallInv
    <3>1. Registers(q)'
      BY <1>0, <1>6, <3>0 DEF CallInv, Registers, WithEmail
    <3>2. LogsIn(q)'
      <4> SUFFICES ASSUME call[q].step = "login" PROVE LogsIn(q)'
        BY <3>0 DEF LogsIn
      <4>1. /\ call[q].id \in AccountsUsed /\ call[q].keys <= generated
            /\ [id |-> call[q].id] \notin raced => ~accounts[call[q].id].initialized
            /\ \A j \in AccountsUsed, s \in Slots : accounts[j].keys[s] # call[q].keys
            /\ \A o \in origin : o.key # call[q].keys
        BY <3>0 DEF CallInv, LogsIn
      <4>2. call[q].keys # 0
        BY <1>0, LoginTyped
      <4>3. \A j \in AccountsUsed, s \in Slots : accounts'[j].keys[s] # call[q].keys
        BY <1>6, <4>1, <4>2
      <4> QED
        BY <1>0, <1>6, <3>0, <4>1, <4>3 DEF LogsIn
    <3>3. Answered(q)'
      BY <1>0, <1>9, <3>0 DEF CallInv, Answered
    <3>4. Forgets(q)'
      BY <1>0, <1>15, <2>2, <3>0 DEF CallInv, Forgets
    <3>5. Resets(q)'
      BY <1>0, <1>15, <2>2, <3>0 DEF CallInv, Resets
    <3>6. Assigned(q)'
      BY <1>0, <3>0 DEF CallInv, Assigned
    <3> QED
      BY <3>1, <3>2, <3>3, <3>4, <3>5, <3>6 DEF CallInv
  <2> QED
    BY <2>1, <2>2
<1>17. \A p, q \in Calls : p # q => KeysDiffer(p, q)'
  BY <1>0, <1>5, OthersDiffer
<1> QED
  BY <1>7, <1>8, <1>10, <1>11, <1>12, <1>13, <1>14, <1>16, <1>17 DEF AccountsInv, CallsInv, CallInv, RowsInv

-----------------------------------------------------------------------------
(* The theorems                                                            *)

LEMMA AccountsStart == AccountsInit => AccountsInv
<1> SUFFICES ASSUME AccountsInit PROVE AccountsInv
  OBVIOUS
<1>1. AccountsUsed = {}
  BY DEF AccountsInit, AccountsUsed
<1>2. \A r \in Calls : call[r].step = "idle" /\ call[r] \in CallSet
  BY DEF AccountsInit, NoCall, CallSet
<1>3. 0 \in 0 .. MaxSecret
  OBVIOUS
<1>4. CallsTyped
  BY <1>2, <1>3 DEF AccountsInit, CallsTyped
<1>5. CallsInv
  BY <1>2 DEF CallsInv, Registers, LogsIn, KeysDiffer, Answered, Forgets, Resets, Assigned
<1>6. RowsInv
  BY <1>1 DEF AccountsInit, RowsInv, EmailsApart, ShownStored, TokensOfOne, RowTokens, RowKeys, TwiceExcused
<1> QED
  BY <1>4, <1>5, <1>6 DEF AccountsInv

LEMMA AccountsKept == AccountsInv /\ AccountsDone => AccountsInv'
BY RegisterLooksUpKeeps, RegisterInsertsKeeps, LoginReadsKeeps, LoginStoresKeeps, LoginAnswersKeeps,
   ForgotReadsKeeps, ForgotMatchesKeyKeeps, ForgotAssignsKeeps, ForgotAnswersKeeps, ResetReadsKeeps,
   ResetUpdatesKeeps, CutOffKeeps, TokenExpiresKeeps
DEF AccountsDone

LEMMA AccountsStep == AccountsInv /\ [AccountsNext]_accountVars => AccountsInv'
<1>1. AccountsInv /\ AccountsNext => AccountsInv'
  BY AccountsDoes, AccountsKept
<1>2. AccountsInv /\ UNCHANGED accountVars => AccountsInv'
  <2> SUFFICES ASSUME AccountsInv, UNCHANGED accountVars PROVE AccountsInv'
    OBVIOUS
  <2>1. UNCHANGED <<accounts, call, generated, issued, shown, sent, origin, spent, twice, overlapped, raced>>
    BY DEF accountVars, history
  <2>2. AccountsUsed' = AccountsUsed
    BY <2>1 DEF AccountsUsed
  <2>3. CallsTyped'
    BY <2>1 DEF AccountsInv, CallsTyped
  <2>4. ASSUME NEW q \in Calls PROVE CallInv(q)'
    <3>0. CallInv(q)
      BY DEF AccountsInv, CallsInv, CallInv
    <3>1. Registers(q)' /\ LogsIn(q)' /\ Answered(q)' /\ Assigned(q)'
      BY <2>1, <2>2, <3>0 DEF CallInv, Registers, WithEmail, LogsIn, Answered, Stored, Assigned
    <3>2. Forgets(q)' /\ Resets(q)'
      BY <2>1, <2>2, <3>0 DEF CallInv, Forgets, Resets, Excused
    <3> QED
      BY <3>1, <3>2 DEF CallInv
  <2>6. \A p, q \in Calls : p # q => KeysDiffer(p, q)'
    BY <2>1 DEF AccountsInv, CallsInv, KeysDiffer
  <2>5. RowsInv'
    BY <2>1, <2>2 DEF AccountsInv, RowsInv, EmailsApart, ShownStored, Stored, TokensOfOne, RowTokens,
                      RowKeys, TwiceExcused, Excused
  <2> QED
    BY <2>3, <2>4, <2>5, <2>6 DEF AccountsInv, CallsInv, CallInv
<1> QED
  BY <1>1, <1>2

\* Of every reachable state of the accounts: what each request has in hand
\* still agrees with the table, or with the history of what came between.
THEOREM AccountsInvariant == AccountsSpec => []AccountsInv
<1>1. AccountsInit => AccountsInv
  BY AccountsStart
<1>2. AccountsInv /\ [AccountsNext]_accountVars => AccountsInv'
  BY AccountsStep
<1> QED
  BY <1>1, <1>2, PTL DEF AccountsSpec

\* Doubles of e-mails, of recovery keys and of resets come only of requests of
\* index.ts that overlapped between two of their queries.
THEOREM AccountsTwice == AccountsSpec => []TwiceByOverlapOnly
<1>1. AccountsInv => TwiceByOverlapOnly
  <2> SUFFICES ASSUME AccountsInv PROVE TwiceByOverlapOnly
    OBVIOUS
  <2>1. AccountsTypeOK
    BY DEF AccountsInv, CallsTyped, AccountsTypeOK
  <2>2. \A h \in shown : [id |-> h.id] \notin raced => \A s \in Slots : accounts[h.id].keys[s] \in {0, h.keys}
    BY DEF AccountsInv, RowsInv, ShownStored, Stored
  <2> QED
    BY <2>1, <2>2 DEF AccountsInv, RowsInv, EmailsApart, TwiceExcused, TwiceByOverlapOnly
<1> QED
  BY <1>1, AccountsInvariant, PTL
=============================================================================
