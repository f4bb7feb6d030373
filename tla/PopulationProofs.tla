-------------------------- MODULE PopulationProofs --------------------------
(* Proofs about who is in the world and who waits for it: a spawn and its  *)
(* monsters, for every number of slots and of Monster objects; a player    *)
(* that walks, for every row of tiles, things in it and paths that clients *)
(* send; and the waiting list of a full server, for every number of        *)
(* clients and of places, whatever times to the retry the server tells.    *)
EXTENDS Spawns, Walking, WaitList, FiniteSetTheorems, TLAPS

-----------------------------------------------------------------------------
(* The spawn                                                               *)

SpawnsTyped ==
    /\ beast \in [Beasts -> {"none", "world", "removed", "freed"}]
    /\ hasSpawn \in [Beasts -> BOOLEAN]
    /\ spawned \in [Blocks -> Beasts \cup {Empty}]
    /\ checkSpawnEvent \in BOOLEAN /\ running \in BOOLEAN

\* What spawnedMap lists was placed, and is not freed before it is erased.
ListedExist == \A i \in Blocks : spawned[i] # Empty => beast[spawned[i]] \in {"world", "removed"}

\* A spawn that has not been started, or was cleared, lists nothing.
ClearedIsEmpty == ~running => \A i \in Blocks : spawned[i] = Empty

SpawnsInv == SpawnsTyped /\ ListedExist /\ ClearedIsEmpty /\ SlotIsWatched

USE SpawnsAssumption DEF SpawnsAssumption

Listed(m) == \E i \in Blocks : spawned[i] = m

LEMMA RangeIsListed ==
    /\ SpawnsTyped => \A m : m \in Range(spawned) <=> Listed(m)
    /\ SpawnsTyped' => \A m : m \in Range(spawned') <=> Listed(m)'
<1>1. SpawnsTyped => \A m : m \in Range(spawned) <=> Listed(m)
  <2> SUFFICES ASSUME SpawnsTyped, NEW m PROVE m \in Range(spawned) <=> Listed(m)
    OBVIOUS
  <2>1. DOMAIN spawned = Blocks
    BY DEF SpawnsTyped
  <2> QED
    BY <2>1 DEF Range, Listed
<1>2. SpawnsTyped' => \A m : m \in Range(spawned') <=> Listed(m)'
  <2> SUFFICES ASSUME SpawnsTyped', NEW m PROVE m \in Range(spawned') <=> Listed(m)'
    OBVIOUS
  <2>1. DOMAIN spawned' = Blocks
    BY DEF SpawnsTyped
  <2> QED
    BY <2>1 DEF Range, Listed
<1> QED
  BY <1>1, <1>2

\* What a call of spawnMonster() for each slot in S leaves behind.
LEMMA FilledDoes ==
    ASSUME SpawnsTyped, NEW S \in SUBSET Blocks, NEW f \in Fills(S),
           NEW given \in [Blocks -> Beasts \cup {Empty}], Filled(f, given)
    PROVE  /\ spawned' \in [Blocks -> Beasts \cup {Empty}]
           /\ hasSpawn' \in [Beasts -> BOOLEAN]
           /\ beast' \in [Beasts -> {"none", "world", "removed", "freed"}]
           /\ \A i \in Blocks : spawned'[i] = IF i \in S THEN f[i] ELSE given[i]
           /\ \A i \in S : /\ f[i] \in Beasts /\ beast[f[i]] = "none"
                           /\ beast'[f[i]] = "world" /\ hasSpawn'[f[i]]
           /\ \A m \in Beasts : (\A i \in S : f[i] # m) =>
                 /\ hasSpawn'[m] = hasSpawn[m]
                 /\ beast'[m] = IF beast[m] = "removed" /\ (\A i \in Blocks : given[i] # m)
                                THEN "freed" ELSE beast[m]
<1>1. /\ f \in [S -> Unplaced] /\ DOMAIN f = S /\ DOMAIN given = Blocks
      /\ Unplaced = {m \in Beasts : beast[m] = "none"}
  BY DEF Fills, Unplaced
<1>2. /\ \A m : m \in Range(f) <=> \E i \in S : f[i] = m
      /\ \A m : m \in Range(given) <=> \E i \in Blocks : given[i] = m
  BY <1>1 DEF Range
<1>3. /\ spawned' = [i \in Blocks |-> IF i \in S THEN f[i] ELSE given[i]]
      /\ beast' = [m \in Beasts |->
                     IF m \in Range(f) THEN "world"
                     ELSE IF beast[m] = "removed" /\ m \notin Range(given) THEN "freed" ELSE beast[m]]
      /\ hasSpawn' = [m \in Beasts |-> hasSpawn[m] \/ m \in Range(f)]
  BY <1>1 DEF Filled
<1>4. \A i \in S : f[i] \in Beasts /\ beast[f[i]] = "none"
  BY <1>1
<1>5. spawned' \in [Blocks -> Beasts \cup {Empty}]
  BY <1>3, <1>4
<1>6. beast' \in [Beasts -> {"none", "world", "removed", "freed"}]
  BY <1>3 DEF SpawnsTyped
<1>7. \A m \in Beasts : hasSpawn[m] \in BOOLEAN
  BY DEF SpawnsTyped
<1>8. hasSpawn' \in [Beasts -> BOOLEAN]
  BY <1>3, <1>7, Zenon
<1>9. \A m \in Beasts : m \notin Range(f) => hasSpawn'[m] = hasSpawn[m]
  BY <1>3, <1>7
<1>10. \A m \in Beasts : m \in Range(f) => beast'[m] = "world" /\ hasSpawn'[m]
  BY <1>3, <1>7
<1>11. \A m \in Beasts : m \notin Range(f) =>
          beast'[m] = IF beast[m] = "removed" /\ m \notin Range(given) THEN "freed" ELSE beast[m]
  BY <1>3
<1> QED
  BY <1>2, <1>3, <1>4, <1>5, <1>6, <1>8, <1>9, <1>10, <1>11

LEMMA StartupKeeps ==
    ASSUME SpawnsInv, Startup, \A m \in Beasts : beast[m] = "none" PROVE SpawnsInv'
<1>1. PICK S \in SUBSET Blocks : \E f \in Fills(S) : Filled(f, spawned) /\ unannounced' = Blocks \ S
  BY DEF Startup
<1>2. PICK f \in Fills(S) : Filled(f, spawned) /\ unannounced' = Blocks \ S
  BY <1>1
<1>3. SpawnsTyped /\ ~running /\ running' /\ checkSpawnEvent' = checkSpawnEvent
      /\ \A i \in Blocks : spawned[i] = Empty
  BY DEF SpawnsInv, ClearedIsEmpty, Startup
<1>4. spawned \in [Blocks -> Beasts \cup {Empty}]
  BY <1>3 DEF SpawnsTyped
<1>5. /\ spawned' \in [Blocks -> Beasts \cup {Empty}]
      /\ hasSpawn' \in [Beasts -> BOOLEAN]
      /\ beast' \in [Beasts -> {"none", "world", "removed", "freed"}]
      /\ \A i \in Blocks : spawned'[i] = IF i \in S THEN f[i] ELSE Empty
      /\ \A i \in S : f[i] \in Beasts /\ beast'[f[i]] = "world" /\ hasSpawn'[f[i]]
      /\ \A m \in Beasts : (\A i \in S : f[i] # m) => beast'[m] = "none"
  BY <1>2, <1>3, <1>4, FilledDoes
<1>6. SpawnsTyped'
  BY <1>3, <1>5 DEF SpawnsTyped, Startup
<1>7. ListedExist' /\ ClearedIsEmpty'
  BY <1>3, <1>5 DEF ListedExist, ClearedIsEmpty
<1>8. \A m \in Beasts : beast'[m] = "world" => hasSpawn'[m] /\ Listed(m)'
  BY <1>5 DEF Listed
<1>9. SlotIsWatched'
  <2>1. \A m \in Beasts : m \in Range(spawned') <=> Listed(m)'
    BY <1>6, RangeIsListed
  <2>2. \A i \in Blocks \ unannounced' : spawned'[i] # Empty /\ beast'[spawned'[i]] = "world"
    BY <1>2, <1>5
  <2> QED
    BY <1>8, <2>1, <2>2 DEF SlotIsWatched
<1> QED
  BY <1>6, <1>7, <1>9 DEF SpawnsInv

\* SlotIsWatched with the lists in place of their ranges.
Watched ==
    running =>
        /\ \A i \in Blocks \ unannounced :
              spawned[i] = Empty \/ beast[spawned[i]] # "world" => checkSpawnEvent
        /\ \A m \in Beasts : beast[m] = "world" => (hasSpawn[m] <=> Listed(m))

LEMMA WatchedIs ==
    /\ SpawnsTyped => (SlotIsWatched <=> Watched)
    /\ SpawnsTyped' => (SlotIsWatched' <=> Watched')
BY RangeIsListed DEF SlotIsWatched, Watched

LEMMA LostKeeps == ASSUME SpawnsInv, NEW m \in Beasts, Lost(m) PROVE SpawnsInv'
<1>1. /\ SpawnsTyped /\ ListedExist /\ ClearedIsEmpty /\ Watched /\ running /\ beast[m] = "world"
      /\ beast' = [beast EXCEPT ![m] = IF m \in Range(spawned) THEN "removed" ELSE "freed"]
      /\ checkSpawnEvent' = (checkSpawnEvent \/ hasSpawn[m])
      /\ UNCHANGED <<hasSpawn, spawned, running, unannounced>>
  BY WatchedIs DEF SpawnsInv, Lost
<1>2. m \in Range(spawned) <=> Listed(m)
  BY <1>1, RangeIsListed
<1>3. SpawnsTyped'
  <2>1. hasSpawn[m] \in BOOLEAN /\ checkSpawnEvent \in BOOLEAN
    BY <1>1 DEF SpawnsTyped
  <2>2. checkSpawnEvent' \in BOOLEAN
    BY <1>1, <2>1, Zenon
  <2> QED
    BY <1>1, <2>2 DEF SpawnsTyped
<1>4. /\ \A b \in Beasts \ {m} : beast'[b] = beast[b]
      /\ beast'[m] = IF Listed(m) THEN "removed" ELSE "freed"
  BY <1>1, <1>2 DEF SpawnsTyped
<1>5. ListedExist'
  BY <1>1, <1>4 DEF ListedExist, Listed, SpawnsTyped
<1>6. ClearedIsEmpty'
  BY <1>1 DEF ClearedIsEmpty
<1>7. Watched'
  <2>1. ASSUME NEW i \in Blocks \ unannounced, spawned[i] = Empty \/ beast'[spawned[i]] # "world"
        PROVE  checkSpawnEvent \/ hasSpawn[m]
    <3>1. CASE spawned[i] = m
      BY <1>1, <3>1 DEF Watched, Listed
    <3>2. CASE spawned[i] # m
      BY <1>1, <1>4, <2>1, <3>2 DEF Watched, SpawnsTyped
    <3> QED
      BY <3>1, <3>2
  <2>2. \A b \in Beasts : beast'[b] = "world" => beast[b] = "world"
    BY <1>4
  <2> QED
    BY <1>1, <2>1, <2>2 DEF Watched, Listed
<1> QED
  BY <1>3, <1>5, <1>6, <1>7, WatchedIs DEF SpawnsInv

LEMMA ConvincedKeeps == ASSUME SpawnsInv, NEW m \in Beasts, Convinced(m) PROVE SpawnsInv'
<1>1. /\ SpawnsTyped /\ ListedExist /\ ClearedIsEmpty /\ Watched /\ running
      /\ hasSpawn' = [hasSpawn EXCEPT ![m] = FALSE]
      /\ spawned' = [i \in Blocks |-> IF spawned[i] = m THEN Empty ELSE spawned[i]]
      /\ unannounced' = unannounced \cup {i \in Blocks : spawned[i] = m}
      /\ UNCHANGED <<beast, checkSpawnEvent, running>>
  BY WatchedIs DEF SpawnsInv, Convinced
<1>2. SpawnsTyped'
  BY <1>1 DEF SpawnsTyped
<1>3. ListedExist' /\ ClearedIsEmpty'
  BY <1>1 DEF ListedExist, ClearedIsEmpty
<1>4. Watched'
  <2>1. \A b \in Beasts \ {m} : hasSpawn'[b] = hasSpawn[b] /\ (Listed(b)' <=> Listed(b))
    BY <1>1 DEF SpawnsTyped, Listed
  <2>2. ~hasSpawn'[m] /\ ~Listed(m)'
    BY <1>1 DEF SpawnsTyped, Listed
  <2>3. \A b \in Beasts : beast'[b] = "world" => (hasSpawn'[b] <=> Listed(b)')
    BY <1>1, <2>1, <2>2 DEF Watched
  <2> QED
    BY <1>1, <2>3 DEF Watched
<1> QED
  BY <1>2, <1>3, <1>4, WatchedIs DEF SpawnsInv

LEMMA CheckSpawnKeeps == ASSUME SpawnsInv, CheckSpawn PROVE SpawnsInv'
<1> DEFINE gone == {i \in Blocks : spawned[i] # Empty /\ beast[spawned[i]] = "removed"}
           given == [i \in Blocks |-> IF i \in gone THEN Empty ELSE spawned[i]]
<1>1. /\ SpawnsTyped /\ ListedExist /\ ClearedIsEmpty /\ Watched /\ running /\ running' = running
      /\ unannounced' = {}
  BY WatchedIs DEF SpawnsInv, CheckSpawn
<1>0. \E S \in SUBSET Blocks : \E f \in Fills(S) :
         /\ \A i \in S : given[i] = Empty
         /\ Filled(f, given)
         /\ checkSpawnEvent' = Again([i \in Blocks |-> IF i \in S THEN f[i] ELSE given[i]])
  <2> DEFINE ripe == {i \in Blocks : given[i] = Empty /\ i \in due \ gone}
             clear == ripe \ watched
             tried == {i \in clear : Cardinality({j \in clear : j < i}) < Limit}
  <2>1. PICK S \in SUBSET tried : \E f \in Fills(S) :
           /\ Filled(f, given)
           /\ checkSpawnEvent' = Again([i \in Blocks |-> IF i \in S THEN f[i] ELSE given[i]])
    BY DEF CheckSpawn
  <2>2. S \in SUBSET Blocks /\ \A i \in S : given[i] = Empty
    <3> HIDE DEF given
    <3> QED
      OBVIOUS
  <2> QED
    BY <2>1, <2>2
<1>2. PICK S \in SUBSET Blocks : \E f \in Fills(S) :
         /\ \A i \in S : given[i] = Empty
         /\ Filled(f, given)
         /\ checkSpawnEvent' = Again([i \in Blocks |-> IF i \in S THEN f[i] ELSE given[i]])
  BY <1>0
<1>a. PICK f \in Fills(S) :
         /\ \A i \in S : given[i] = Empty
         /\ Filled(f, given)
         /\ checkSpawnEvent' = Again([i \in Blocks |-> IF i \in S THEN f[i] ELSE given[i]])
  BY <1>2
<1>3. given \in [Blocks -> Beasts \cup {Empty}]
  BY <1>1 DEF SpawnsTyped
<1>4. \A i \in Blocks : given[i] = IF spawned[i] # Empty /\ beast[spawned[i]] = "removed"
                                   THEN Empty ELSE spawned[i]
  OBVIOUS
<1> HIDE DEF given
<1>5. /\ spawned' \in [Blocks -> Beasts \cup {Empty}]
      /\ hasSpawn' \in [Beasts -> BOOLEAN]
      /\ beast' \in [Beasts -> {"none", "world", "removed", "freed"}]
      /\ \A i \in Blocks : spawned'[i] = IF i \in S THEN f[i] ELSE given[i]
      /\ \A i \in S : /\ f[i] \in Beasts /\ beast[f[i]] = "none"
                      /\ beast'[f[i]] = "world" /\ hasSpawn'[f[i]]
      /\ \A m \in Beasts : (\A i \in S : f[i] # m) =>
            /\ hasSpawn'[m] = hasSpawn[m]
            /\ beast'[m] = IF beast[m] = "removed" /\ (\A i \in Blocks : given[i] # m)
                           THEN "freed" ELSE beast[m]
  BY <1>1, <1>a, <1>3, FilledDoes
<1>6. checkSpawnEvent' \in BOOLEAN /\ (checkSpawnEvent' <=> \E i \in Blocks : spawned'[i] = Empty)
  <2>1. checkSpawnEvent' <=> \E i \in Blocks : spawned'[i] = Empty
    BY <1>a, <1>5 DEF Again
  <2>2. checkSpawnEvent' \in BOOLEAN
    BY <1>a, Zenon DEF Again
  <2> QED
    BY <2>1, <2>2
<1>7. SpawnsTyped'
  BY <1>1, <1>5, <1>6 DEF SpawnsTyped
<1>8. \A i \in Blocks : spawned'[i] # Empty => beast'[spawned'[i]] = "world"
  <2> SUFFICES ASSUME NEW i \in Blocks, i \notin S, spawned[i] # Empty, beast[spawned[i]] # "removed"
               PROVE  beast'[spawned[i]] = "world"
    BY <1>4, <1>5
  <2>1. spawned[i] \in Beasts /\ beast[spawned[i]] = "world"
    BY <1>1 DEF ListedExist, SpawnsTyped
  <2> QED
    BY <1>5, <2>1
<1>9. ListedExist' /\ ClearedIsEmpty'
  BY <1>1, <1>8 DEF ListedExist, ClearedIsEmpty
<1>10. ASSUME NEW m \in Beasts, beast'[m] = "world" PROVE hasSpawn'[m] <=> Listed(m)'
  <2>1. CASE \E i \in S : f[i] = m
    BY <1>5, <2>1 DEF Listed
  <2>2. CASE \A i \in S : f[i] # m
    <3>1. beast[m] = "world" /\ hasSpawn'[m] = hasSpawn[m] /\ m # Empty
      BY <1>5, <1>10, <2>2
    <3>2. hasSpawn[m] <=> Listed(m)
      BY <1>1, <3>1 DEF Watched
    <3>3. ASSUME NEW i \in Blocks, spawned[i] = m PROVE spawned'[i] = m
      BY <1>a, <1>4, <1>5, <3>1, <3>3
    <3>4. ASSUME NEW i \in Blocks, spawned'[i] = m PROVE spawned[i] = m
      BY <1>4, <1>5, <2>2, <3>1, <3>4
    <3> QED
      BY <3>1, <3>2, <3>3, <3>4 DEF Listed
  <2> QED
    BY <2>1, <2>2
<1>11. Watched'
  BY <1>6, <1>8, <1>10 DEF Watched
<1> QED
  BY <1>7, <1>9, <1>11, WatchedIs DEF SpawnsInv

LEMMA SpawnsStart == SpawnsInit => SpawnsInv
BY DEF SpawnsInit, SpawnsInv, SpawnsTyped, ListedExist, ClearedIsEmpty, SlotIsWatched

LEMMA SpawnsStep == SpawnsInv /\ [SpawnsNext]_spawnVars => SpawnsInv'
<1> SUFFICES ASSUME SpawnsInv, [SpawnsNext]_spawnVars PROVE SpawnsInv'
  OBVIOUS
<1>1. ASSUME UNCHANGED <<beast, hasSpawn, spawned, checkSpawnEvent, running, unannounced>>
      PROVE  SpawnsInv'
  BY <1>1 DEF SpawnsInv, SpawnsTyped, ListedExist, ClearedIsEmpty, SlotIsWatched
<1>2. ASSUME NEW i \in Blocks, IntervalPasses(i) \/ PlayerMoves(i) PROVE SpawnsInv'
  BY <1>1, <1>2 DEF IntervalPasses, PlayerMoves
<1>3. CASE Clear
  <2>1. /\ SpawnsTyped /\ running' = FALSE /\ checkSpawnEvent' = FALSE
        /\ hasSpawn' = [m \in Beasts |-> hasSpawn[m] /\ m \notin Range(spawned)]
        /\ beast' = [m \in Beasts |-> IF beast[m] = "removed" THEN "freed" ELSE beast[m]]
        /\ spawned' = [i \in Blocks |-> Empty]
    BY <1>3 DEF SpawnsInv, Clear
  <2>2. hasSpawn' \in [Beasts -> BOOLEAN]
    BY <2>1, Zenon
  <2>3. SpawnsTyped'
    BY <2>1, <2>2 DEF SpawnsTyped
  <2> QED
    BY <2>1, <2>3 DEF SpawnsInv, ListedExist, ClearedIsEmpty, SlotIsWatched
<1>4. CASE UNCHANGED spawnVars
  BY <1>1, <1>4 DEF spawnVars
<1> QED
  BY <1>2, <1>3, <1>4, StartupKeeps, LostKeeps, ConvincedKeeps, CheckSpawnKeeps DEF SpawnsNext

\* What spawnedMap, the monsters and the pending check have in common.
THEOREM SpawnsInvariant == SpawnsSpec => []SpawnsInv
BY SpawnsStart, SpawnsStep, PTL DEF SpawnsSpec

\* A slot whose monster has gone has a check pending until it is filled again,
\* and a monster points to the spawn just while it is listed (spawn.cpp
\* checkSpawn, monster.cpp onRemoveCreature, convinceCreature), for any number
\* of slots and whatever each check can place.
THEOREM SlotsAreWatched == SpawnsSpec => []SlotIsWatched
<1>1. SpawnsInv => SlotIsWatched
  BY DEF SpawnsInv
<1> QED
  BY <1>1, SpawnsInvariant, PTL

HIDE SpawnsAssumption DEF SpawnsAssumption

-----------------------------------------------------------------------------
(* The walk of a player.  Its handlers are operators on the Player object  *)
(* M, so the lemmas are about what each makes of any M it may be given.    *)

Fields == {"at", "path", "resting", "slow", "eventWalk", "walks", "cancelNextWalk", "walkTask",
           "walkTaskEvent", "actionTask", "busy", "prey", "follows", "hasFollowPath",
           "isUpdatingPath", "forceUpdate", "queue", "inputs", "owed", "halted"}

IsSequence(q) == \E S : q \in Seq(S)
HasWalk(q) == \E n \in DOMAIN q : q[n].do = "playerAutoWalk"

\* In how many of the three places the action a waits.
One(p) == IF p THEN 1 ELSE 0
Count(x, y, z, a) == One(x = a) + One(y = a) + One(z = a)

WalkTyped(M) ==
    /\ M = [f \in Fields |-> M[f]] /\ M.at \in Tiles
    /\ M.eventWalk \in 0 .. MaxEvents /\ M.halted \in BOOLEAN
    /\ M.walkTask \in Things \cup {NoThing}
    /\ M.walkTaskEvent \in Things \cup {NoThing}
    /\ M.actionTask \in Things \cup {NoThing}
    /\ M.owed \in [Things -> Nat]
    /\ IsSequence(M.queue)

\* What holds of the object between any two calls of a handler.
Orderly(M) ==
    /\ WalkTyped(M)
    /\ M.walkTask # NoThing => M.walkTaskEvent = NoThing
    /\ \A a \in Things : Count(M.walkTask, M.walkTaskEvent, M.actionTask, a) <= M.owed[a]

\* The one event; and what it, or a path in the queue, is there for.
OneEvent(M) == M.walks = {M.eventWalk} \ {0}
GoesOn(M) ==
    M.eventWalk = 0 /\ (M.path # <<>> \/ M.walkTask # NoThing) => M.halted \/ HasWalk(M.queue)

WalkInv(M) == Orderly(M) /\ OneEvent(M) /\ GoesOn(M)

\* While an event runs it is not scheduled, though eventWalk has its id.
NoOther(M) == M.walks \subseteq {M.eventWalk} \ {0}

-----------------------------------------------------------------------------
LEMMA CountIs ==
    ASSUME NEW x, NEW y, NEW z, NEW a
    PROVE  /\ Count(x, y, z, a) \in 0 .. 3
           /\ \A w : w # a => /\ Count(w, y, z, a) <= Count(x, y, z, a)
                              /\ Count(x, w, z, a) <= Count(x, y, z, a)
                              /\ Count(x, y, w, a) <= Count(x, y, z, a)
                              /\ Count(w, x, z, a) <= Count(x, y, z, a)
           /\ Count(a, y, z, a) <= Count(x, y, z, a) + 1
           /\ Count(x, y, a, a) <= Count(x, y, z, a) + 1
           /\ x # a => Count(x, a, z, a) = Count(x, x, z, a) + 1
           /\ z = a => \A w : w # a => Count(x, y, z, a) = Count(x, y, w, a) + 1
           /\ y = a => \A w : w # a => Count(x, y, z, a) = Count(x, w, z, a) + 1
  BY DEF Count, One

LEMMA QueueGrows ==
    ASSUME NEW q, IsSequence(q), NEW x, NEW y
    PROVE  /\ IsSequence(Append(q, x)) /\ IsSequence(q \o <<x, y>>)
           /\ HasWalk(q) => HasWalk(Append(q, x)) /\ HasWalk(q \o <<x, y>>)
           /\ x.do = "playerAutoWalk" => HasWalk(Append(q, x))
<1>1. PICK S : q \in Seq(S)
  BY DEF IsSequence
<1> DEFINE T == S \cup {x, y}
<1>2. q \in Seq(T) /\ x \in T /\ y \in T /\ <<x, y>> \in Seq(T)
  BY <1>1
<1> HIDE DEF T
<1>3. /\ Append(q, x) \in Seq(T) /\ Len(Append(q, x)) = Len(q) + 1
      /\ \A n \in 1 .. Len(q) : Append(q, x)[n] = q[n]
      /\ Append(q, x)[Len(q) + 1] = x
      /\ DOMAIN Append(q, x) = 1 .. (Len(q) + 1) /\ DOMAIN q = 1 .. Len(q) /\ Len(q) \in Nat
  BY <1>2
<1>4. /\ q \o <<x, y>> \in Seq(T) /\ Len(q \o <<x, y>>) = Len(q) + 2
      /\ \A n \in 1 .. Len(q) : (q \o <<x, y>>)[n] = q[n]
      /\ DOMAIN (q \o <<x, y>>) = 1 .. (Len(q) + 2)
  BY <1>2
<1>5. /\ \A n \in 1 .. Len(q) : n \in 1 .. (Len(q) + 1) /\ n \in 1 .. (Len(q) + 2)
      /\ Len(q) + 1 \in 1 .. (Len(q) + 1)
  BY <1>3
<1>6. IsSequence(Append(q, x)) /\ IsSequence(q \o <<x, y>>)
  BY <1>3, <1>4 DEF IsSequence
<1> QED
  BY <1>3, <1>4, <1>5, <1>6 DEF HasWalk

LEMMA QueueShrinks ==
    ASSUME NEW q, IsSequence(q), q # <<>>
    PROVE  /\ IsSequence(Tail(q))
           /\ HasWalk(q) => Head(q).do = "playerAutoWalk" \/ HasWalk(Tail(q))
<1>1. PICK S : q \in Seq(S)
  BY DEF IsSequence
<1>2. /\ Tail(q) \in Seq(S) /\ Head(q) = q[1] /\ Len(q) \in Nat /\ Len(q) >= 1
      /\ DOMAIN q = 1 .. Len(q) /\ DOMAIN Tail(q) = 1 .. (Len(q) - 1)
      /\ \A n \in 1 .. (Len(q) - 1) : Tail(q)[n] = q[n + 1]
  BY <1>1
<1>3. IsSequence(Tail(q))
  BY <1>2 DEF IsSequence
<1>4. ASSUME NEW n \in DOMAIN q, q[n].do = "playerAutoWalk", Head(q).do # "playerAutoWalk"
      PROVE  HasWalk(Tail(q))
  <2>1. n # 1
    BY <1>2, <1>4
  <2>2. n - 1 \in 1 .. (Len(q) - 1) /\ (n - 1) + 1 = n
    BY <1>2, <2>1
  <2>3. Tail(q)[n - 1] = q[n]
    BY <1>2, <2>2
  <2> QED
    BY <1>2, <1>4, <2>2, <2>3 DEF HasWalk
<1> QED
  BY <1>3, <1>4 DEF HasWalk

LEMMA PendingIsCount ==
    ASSUME NEW M, NEW a
    PROVE  Pending(M, a) = Count(M.walkTask, M.walkTaskEvent, M.actionTask, a)
<1> DEFINE K == {k \in {"walkTask", "walkTaskEvent", "actionTask"} : M[k] = a}
           A == IF M.walkTask = a THEN {"walkTask"} ELSE {}
           B == IF M.walkTaskEvent = a THEN {"walkTaskEvent"} ELSE {}
           C == IF M.actionTask = a THEN {"actionTask"} ELSE {}
<1>1. /\ IsFiniteSet(A) /\ Cardinality(A) = One(M.walkTask = a)
      /\ IsFiniteSet(B) /\ Cardinality(B) = One(M.walkTaskEvent = a)
      /\ IsFiniteSet(C) /\ Cardinality(C) = One(M.actionTask = a)
  BY FS_EmptySet, FS_Singleton DEF One
<1>2. A \cap B = {} /\ (A \cup B) \cap C = {} /\ K = (A \cup B) \cup C
  OBVIOUS
<1> HIDE DEF A, B, C
<1>3. /\ One(M.walkTask = a) \in Nat /\ One(M.walkTaskEvent = a) \in Nat /\ One(M.actionTask = a) \in Nat
      /\ Cardinality({}) = 0
  BY FS_EmptySet DEF One
<1>4. Cardinality(A \cap B) = 0 /\ Cardinality((A \cup B) \cap C) = 0
  BY <1>2, <1>3
<1>5. /\ IsFiniteSet(A \cup B)
      /\ Cardinality(A \cup B) = Cardinality(A) + Cardinality(B) - Cardinality(A \cap B)
  BY <1>1, FS_Union
<1>6. Cardinality((A \cup B) \cup C)
        = Cardinality(A \cup B) + Cardinality(C) - Cardinality((A \cup B) \cap C)
  BY <1>1, <1>5, FS_Union
<1>7. Cardinality((A \cup B) \cup C)
        = (One(M.walkTask = a) + One(M.walkTaskEvent = a)) + One(M.actionTask = a)
  <2> DEFINE x == Cardinality(A)
             y == Cardinality(B)
             z == Cardinality(C)
             v == Cardinality(A \cup B)
             w == Cardinality((A \cup B) \cup C)
  <2>1. x \in Nat /\ y \in Nat /\ z \in Nat
    BY <1>1, <1>3
  <2>2. v = x + y - Cardinality(A \cap B) /\ w = v + z - Cardinality((A \cup B) \cap C)
    BY <1>5, <1>6
  <2>3. x = One(M.walkTask = a) /\ y = One(M.walkTaskEvent = a) /\ z = One(M.actionTask = a)
    BY <1>1
  <2> HIDE DEF x, y, z, v, w
  <2>4. v = x + y - 0 /\ w = v + z - 0
    BY <1>4, <2>2
  <2>5. w = (x + y) + z
    BY <2>1, <2>4
  <2> QED
    BY <2>3, <2>5 DEF w
<1> QED
  BY <1>2, <1>7 DEF Pending, Count
-----------------------------------------------------------------------------
(* Moves: of the player itself, and the steps of a walk.                   *)

SameEvent(M, N) == N.eventWalk = M.eventWalk /\ N.walks = M.walks /\ N.halted = M.halted
Halts(M, N) ==
    N.eventWalk = 0 /\ N.walks = {} /\ (M.eventWalk # 0 \/ M.halted => N.halted)
Queued(M, N) == HasWalk(M.queue) => HasWalk(N.queue)

\* A move keeps the path and the action; it may stop the event.
Moves(M, N) ==
    /\ Orderly(N) /\ NoOther(N)
    /\ SameEvent(M, N) \/ Halts(M, N)
    /\ Queued(M, N) /\ N.path = M.path /\ N.walkTask = M.walkTask

\* A step takes one off the path, may move the player, and may end the walk.
Steps(M, N) ==
    /\ Orderly(N) /\ NoOther(N)
    /\ \/ SameEvent(M, N) \/ Halts(M, N)
       \/ N.eventWalk = 0 /\ N.walks = {} /\ N.path = <<>> /\ N.walkTask = NoThing
    /\ Queued(M, N)

LEMMA MovesTwice ==
    ASSUME NEW M, NEW N, NEW O, Moves(M, N), Moves(N, O)
    PROVE  Moves(M, O)
  BY DEF Moves, SameEvent, Halts, Queued

\* Changes that leave alone what the properties are about, but for the path.
Alike(M, N) ==
    /\ N = [f \in Fields |-> N[f]]
    /\ N.at \in Tiles
    /\ N.queue = M.queue /\ N.walkTask = M.walkTask /\ N.walkTaskEvent = M.walkTaskEvent
    /\ N.actionTask = M.actionTask /\ N.owed = M.owed
    /\ N.eventWalk = M.eventWalk /\ N.walks = M.walks /\ N.halted = M.halted

LEMMA AlikeKeeps ==
    ASSUME NEW M, Orderly(M), NEW N, Alike(M, N)
    PROVE  /\ Orderly(N) /\ SameEvent(M, N) /\ Queued(M, N)
           /\ NoOther(M) => NoOther(N)
           /\ OneEvent(M) => OneEvent(N)
           /\ N.path = M.path => (GoesOn(M) => GoesOn(N)) /\ (NoOther(M) => Moves(M, N))
  BY DEF Alike, Orderly, WalkTyped, SameEvent, Queued, NoOther, OneEvent, GoesOn, Moves

LEMMA FollowMovedKeeps ==
    ASSUME NEW M, Orderly(M)
    PROVE  /\ Orderly(FollowMoved(M)) /\ SameEvent(M, FollowMoved(M)) /\ Queued(M, FollowMoved(M))
           /\ FollowMoved(M).path = M.path /\ FollowMoved(M).walkTask = M.walkTask
<1> DEFINE q == M.queue \o <<GoTask, GoTask>>
           N == [M EXCEPT !.isUpdatingPath = FALSE, !.queue = q]
<1>1. IsSequence(q) /\ (HasWalk(M.queue) => HasWalk(q))
  BY QueueGrows DEF Orderly, WalkTyped
<1> HIDE DEF q
<1>2. M = [f \in Fields |-> M[f]] /\ M.at \in Tiles
  BY DEF Orderly, WalkTyped
<1>3. /\ N = [f \in Fields |-> N[f]]
      /\ N.at = M.at /\ N.queue = q /\ N.walkTask = M.walkTask /\ N.walkTaskEvent = M.walkTaskEvent
      /\ N.actionTask = M.actionTask /\ N.owed = M.owed /\ N.path = M.path
      /\ N.eventWalk = M.eventWalk /\ N.walks = M.walks /\ N.halted = M.halted
  BY <1>2 DEF Fields
<1> HIDE DEF N
<1>4. Orderly(N) /\ SameEvent(M, N) /\ Queued(M, N)
  BY <1>1, <1>3 DEF Orderly, WalkTyped, SameEvent, Queued
<1>5. FollowMoved(M) = N \/ FollowMoved(M) = M
  BY DEF FollowMoved, N, q
<1> QED
  BY <1>3, <1>4, <1>5 DEF SameEvent, Queued

LEMMA InterruptedKeeps ==
    ASSUME NEW M, Orderly(M), NoOther(M)
    PROVE  Moves(M, Interrupted(M))
<1> DEFINE N == Interrupted(M)
           W == M.walks \ {M.eventWalk}
           h == M.halted \/ M.eventWalk # 0
<1>0. W = {}
  BY DEF NoOther
<1>1. M = [f \in Fields |-> M[f]] /\ 0 \in 0 .. MaxEvents
  BY WalkingAssumption DEF Orderly, WalkTyped, WalkingAssumption
<1>2. /\ N = [f \in Fields |-> N[f]]
      /\ N.at = M.at /\ N.queue = M.queue /\ N.walkTask = M.walkTask /\ N.walkTaskEvent = M.walkTaskEvent
      /\ N.actionTask = M.actionTask /\ N.owed = M.owed /\ N.path = M.path
      /\ N.eventWalk = 0 /\ N.walks = W
  BY <1>1 DEF Fields, Interrupted, StopEventWalk
<1>3. N.halted = h
  BY <1>1 DEF Fields, Interrupted, StopEventWalk
<1> HIDE DEF N
<1>4. Orderly(N) /\ NoOther(N) /\ Halts(M, N) /\ Queued(M, N)
  BY <1>0, <1>1, <1>2, <1>3 DEF Orderly, WalkTyped, NoOther, Halts, Queued
<1> QED
  BY <1>2, <1>4 DEF Moves, N

LEMMA OnCreatureMoveKeeps ==
    ASSUME NEW M, Orderly(M), NoOther(M), NEW t \in Tiles, NEW teleport
    PROVE  Moves(M, OnCreatureMove(M, t, teleport))
<1> DEFINE moved == [M EXCEPT !.at = t, !.resting = TRUE]
           N == IF teleport THEN Interrupted(moved) ELSE moved
<1>1. M = [f \in Fields |-> M[f]] /\ M.at \in Tiles
  BY DEF Orderly, WalkTyped
<1>2. Alike(M, moved) /\ moved.path = M.path
  BY <1>1 DEF Alike, Fields
<1>3. OnCreatureMove(M, t, teleport) = FollowMoved(N)
  BY DEF OnCreatureMove
<1> HIDE DEF moved
<1>4. Moves(M, moved)
  BY <1>2, AlikeKeeps
<1>5. Moves(moved, Interrupted(moved))
  BY <1>4, InterruptedKeeps DEF Moves
<1>6. Moves(M, N)
  BY <1>4, <1>5, MovesTwice
<1> HIDE DEF N
<1>7. Moves(N, FollowMoved(N))
  BY <1>6, FollowMovedKeeps DEF Moves, NoOther, SameEvent
<1> QED
  BY <1>3, <1>6, <1>7, MovesTwice

LEMMA MoveToKeeps ==
    ASSUME NEW M, Orderly(M), NoOther(M), NEW t \in Tiles, NEW teleport
    PROVE  Moves(M, MoveTo(M, t, teleport))
<1> DEFINE N == OnCreatureMove(M, t, teleport)
<1>1. Moves(M, N)
  BY OnCreatureMoveKeeps
<1>2. Orderly(N) /\ NoOther(N)
  BY <1>1 DEF Moves
<1>2a. jump[t] \in Tiles
  BY WalkingAssumption DEF WalkingAssumption
<1> HIDE DEF N
<1>3. Moves(N, OnCreatureMove(N, jump[t], ~Near(t, jump[t])))
  BY <1>2, <1>2a, OnCreatureMoveKeeps
<1>4. Moves(M, OnCreatureMove(N, jump[t], ~Near(t, jump[t])))
  BY <1>1, <1>3, MovesTwice
<1> QED
  BY <1>1, <1>4 DEF MoveTo, N

LEMMA StepsOn ==
    ASSUME NEW M, NEW N, NEW O, Steps(M, N) \/ Moves(M, N), Moves(N, O)
    PROVE  Steps(M, O)
  BY DEF Steps, Moves, SameEvent, Halts, Queued

LEMMA TakenKeeps ==
    ASSUME NEW M, Orderly(M), NoOther(M), NEW p
    PROVE  LET N == [M EXCEPT !.path = p, !.actionTask = NoThing]
           IN  Orderly(N) /\ NoOther(N) /\ SameEvent(M, N) /\ Queued(M, N)
<1> DEFINE N == [M EXCEPT !.path = p, !.actionTask = NoThing]
<1>1. M = [f \in Fields |-> M[f]] /\ M.at \in Tiles
  BY DEF Orderly, WalkTyped
<1>2. /\ N = [f \in Fields |-> N[f]]
      /\ N.at = M.at /\ N.queue = M.queue /\ N.walkTask = M.walkTask /\ N.walkTaskEvent = M.walkTaskEvent
      /\ N.actionTask = NoThing /\ N.owed = M.owed
      /\ N.eventWalk = M.eventWalk /\ N.walks = M.walks /\ N.halted = M.halted
  BY <1>1 DEF Fields
<1> HIDE DEF N
<1>3. ASSUME NEW a \in Things
      PROVE  Count(N.walkTask, N.walkTaskEvent, N.actionTask, a) <= N.owed[a]
  <2>1. a # NoThing
    BY WalkingAssumption DEF WalkingAssumption
  <2>2. /\ Count(M.walkTask, M.walkTaskEvent, NoThing, a)
             <= Count(M.walkTask, M.walkTaskEvent, M.actionTask, a)
        /\ Count(M.walkTask, M.walkTaskEvent, NoThing, a) \in 0 .. 3
        /\ Count(M.walkTask, M.walkTaskEvent, M.actionTask, a) \in 0 .. 3
    BY <2>1, CountIs
  <2>3. Count(M.walkTask, M.walkTaskEvent, M.actionTask, a) <= M.owed[a] /\ M.owed[a] \in Nat
    BY DEF Orderly, WalkTyped
  <2> QED
    BY <1>2, <2>2, <2>3
<1>4. WalkTyped(N)
  BY <1>2 DEF Orderly, WalkTyped
<1>5. Orderly(N)
  BY <1>2, <1>3, <1>4 DEF Orderly
<1>6. NoOther(N) /\ SameEvent(M, N) /\ Queued(M, N)
  BY <1>2 DEF NoOther, SameEvent, Queued
<1> QED
  BY <1>5, <1>6 DEF N

\* Whatever becomes of the step.
LEMMA FixedStepKeeps ==
    ASSUME NEW M, Orderly(M), NoOther(M), NEW dir, NEW found
    PROVE  Steps(M, FixedStep(M, dir, found))
<1>1. M = [f \in Fields |-> M[f]] /\ M.at \in Tiles
  BY DEF Orderly, WalkTyped
<1>2. /\ Alike(M, [M EXCEPT !.forceUpdate = TRUE])
      /\ Alike(M, [M EXCEPT !.path = Tail(@), !.forceUpdate = TRUE])
      /\ Alike(M, [M EXCEPT !.path = Tail(@)])
  BY <1>1 DEF Alike, Fields
<1>3. ASSUME NEW N, Alike(M, N) PROVE Orderly(N) /\ NoOther(N) /\ Steps(M, N)
  <2>1. Orderly(N) /\ NoOther(N) /\ SameEvent(M, N) /\ Queued(M, N)
    BY <1>3, AlikeKeeps
  <2> QED
    BY <2>1 DEF Steps
<1> DEFINE N == [M EXCEPT !.path = Tail(@)]
<1>4. Orderly(N) /\ NoOther(N) /\ Steps(M, N)
  BY <1>2, <1>3
<1> HIDE DEF N
<1>5. ASSUME M.at - dir \in Tiles PROVE Steps(M, MoveTo(N, M.at - dir, FALSE))
  <2>1. Moves(N, MoveTo(N, M.at - dir, FALSE))
    BY <1>4, <1>5, MoveToKeeps
  <2> QED
    BY <1>4, <2>1, StepsOn
<1> QED
  BY <1>2, <1>3, <1>5 DEF FixedStep, N

LEMMA NextStepKeeps ==
    ASSUME NEW M, Orderly(M), NoOther(M), NEW dir, NEW N \in NextStep(M, dir)
    PROVE  Steps(M, N)
<1> DEFINE taken == [M EXCEPT !.path = Tail(@), !.actionTask = NoThing]
<1>1. Orderly(taken) /\ NoOther(taken) /\ SameEvent(M, taken) /\ Queued(M, taken)
  BY TakenKeeps
<1> DEFINE moved == {MoveTo(taken, t, FALSE) : t \in {M.at + dir} \cap Tiles}
           fixed == {Fixed(O, dir) : O \in Blocked(taken, dir)}
<1>2. N \in moved \cup fixed
  BY DEF NextStep
<1> HIDE DEF taken
<1>3. ASSUME NEW t \in Tiles, N = MoveTo(taken, t, FALSE) PROVE Steps(M, N)
  <2>1. Moves(taken, N)
    BY <1>1, <1>3, MoveToKeeps
  <2>2. Steps(M, taken)
    BY <1>1 DEF Steps
  <2> QED
    BY <2>1, <2>2, StepsOn
<1>4. ASSUME NEW O \in Blocked(taken, dir), N = Fixed(O, dir) PROVE Steps(M, N)
  <2> DEFINE p == TryToFixAutoWalk(O, dir)
             F == [O EXCEPT !.path = p]
             found == Reached(O, dir) # {}
  <2>1. taken = [f \in Fields |-> taken[f]] /\ taken.at \in Tiles
    BY <1>1 DEF Orderly, WalkTyped
  <2>2. O = taken \/ O = [taken EXCEPT !.inputs = @ + 1]
    BY <1>4 DEF Blocked
  <2> HIDE DEF p, found
  <2>3. Alike(taken, F)
    BY <2>1, <2>2 DEF Alike, Fields
  <2> HIDE DEF F
  <2>4. Orderly(F) /\ NoOther(F) /\ SameEvent(taken, F) /\ Queued(taken, F)
    BY <1>1, <2>3, AlikeKeeps
  <2>5. Steps(F, FixedStep(F, dir, found))
    BY <2>4, FixedStepKeeps
  <2>6. N = FixedStep(F, dir, found)
    BY <1>4 DEF Fixed, F, p, found
  <2> QED
    BY <1>1, <2>4, <2>5, <2>6 DEF Steps, SameEvent, Halts, Queued
<1> QED
  BY <1>2, <1>3, <1>4
-----------------------------------------------------------------------------
(* The walk: one event at a time.                                          *)

LEMMA CancelKeeps ==
    ASSUME NEW M, NEW N, Steps(M, N)
    PROVE  Steps(M, CancelNextWalk(N))
<1> DEFINE O == OnWalkAborted([N EXCEPT !.path = <<>>, !.cancelNextWalk = FALSE])
<1>1. N = [f \in Fields |-> N[f]]
  BY DEF Steps, Orderly, WalkTyped
<1>2. /\ O = [f \in Fields |-> O[f]]
      /\ O.at = N.at /\ O.queue = N.queue /\ O.walkTask = NoThing /\ O.walkTaskEvent = NoThing
      /\ O.actionTask = N.actionTask /\ O.owed = N.owed /\ O.path = <<>>
      /\ O.eventWalk = N.eventWalk /\ O.walks = N.walks /\ O.halted = N.halted
  BY <1>1 DEF Fields, OnWalkAborted, SetNextWalkActionTask
<1> HIDE DEF O
<1>3. ASSUME NEW a \in Things
      PROVE  Count(O.walkTask, O.walkTaskEvent, O.actionTask, a) <= O.owed[a]
  <2>1. a # NoThing
    BY WalkingAssumption DEF WalkingAssumption
  <2>2. /\ Count(NoThing, N.walkTaskEvent, N.actionTask, a)
             <= Count(N.walkTask, N.walkTaskEvent, N.actionTask, a)
        /\ Count(NoThing, NoThing, N.actionTask, a)
             <= Count(NoThing, N.walkTaskEvent, N.actionTask, a)
        /\ Count(N.walkTask, N.walkTaskEvent, N.actionTask, a) \in 0 .. 3
        /\ Count(NoThing, N.walkTaskEvent, N.actionTask, a) \in 0 .. 3
        /\ Count(NoThing, NoThing, N.actionTask, a) \in 0 .. 3
    BY <2>1, CountIs
  <2>3. Count(N.walkTask, N.walkTaskEvent, N.actionTask, a) <= N.owed[a] /\ N.owed[a] \in Nat
    BY DEF Steps, Orderly, WalkTyped
  <2> QED
    BY <1>2, <2>2, <2>3
<1>4. WalkTyped(O)
  BY <1>2 DEF Steps, Orderly, WalkTyped
<1>5. Steps(M, O)
  BY <1>2, <1>3, <1>4 DEF Steps, Orderly, NoOther, SameEvent, Halts, Queued
<1> QED
  BY <1>5 DEF CancelNextWalk, O

\* The path has been walked: the action that waited is scheduled.
LEMMA WalkedKeeps ==
    ASSUME NEW M, Orderly(M), NoOther(M), M.path = <<>>
    PROVE  Steps(M, StopEventWalk(OnWalkComplete(M)))
<1> DEFINE C == OnWalkComplete(M)
           O == StopEventWalk(C)
           W == M.walks \ {M.eventWalk}
<1>0. W = {}
  BY DEF NoOther
<1>1. M = [f \in Fields |-> M[f]] /\ 0 \in 0 .. MaxEvents
  BY WalkingAssumption DEF Orderly, WalkTyped, WalkingAssumption
<1>2. /\ C = [f \in Fields |-> C[f]]
      /\ C.at = M.at /\ C.queue = M.queue /\ C.walkTask = NoThing
      /\ C.walkTaskEvent = (IF M.walkTask = NoThing THEN M.walkTaskEvent ELSE M.walkTask)
      /\ C.actionTask = M.actionTask /\ C.owed = M.owed /\ C.path = <<>>
      /\ C.eventWalk = M.eventWalk /\ C.walks = M.walks /\ C.halted = M.halted
  BY <1>1 DEF Fields, OnWalkComplete
<1> HIDE DEF C
<1>3. /\ O = [f \in Fields |-> O[f]]
      /\ O.at = M.at /\ O.queue = M.queue /\ O.walkTask = NoThing
      /\ O.walkTaskEvent = (IF M.walkTask = NoThing THEN M.walkTaskEvent ELSE M.walkTask)
      /\ O.actionTask = M.actionTask /\ O.owed = M.owed /\ O.path = <<>>
      /\ O.eventWalk = 0 /\ O.walks = W /\ O.halted = M.halted
  BY <1>2 DEF Fields, StopEventWalk
<1> HIDE DEF O
<1>4. ASSUME NEW a \in Things
      PROVE  Count(O.walkTask, O.walkTaskEvent, O.actionTask, a) <= O.owed[a]
  <2>1. a # NoThing
    BY WalkingAssumption DEF WalkingAssumption
  <2>2. Count(M.walkTask, M.walkTaskEvent, M.actionTask, a) <= M.owed[a] /\ M.owed[a] \in Nat
    BY DEF Orderly, WalkTyped
  <2>3. CASE M.walkTask = NoThing
    BY <1>3, <2>2, <2>3
  <2>4. CASE M.walkTask # NoThing
    <3>1. M.walkTaskEvent = NoThing
      BY <2>4 DEF Orderly
    <3>2. Count(NoThing, M.walkTask, M.actionTask, a) = Count(M.walkTask, NoThing, M.actionTask, a)
      BY DEF Count, One
    <3> QED
      BY <1>3, <2>2, <2>4, <3>1, <3>2
  <2> QED
    BY <2>3, <2>4
<1>5. WalkTyped(O)
  BY <1>1, <1>3 DEF Orderly, WalkTyped
<1>6. Orderly(O)
  BY <1>3, <1>4, <1>5 DEF Orderly
<1>7. Queued(M, O) /\ NoOther(O)
  BY <1>0, <1>1, <1>3 DEF Queued, NoOther
<1> QED
  BY <1>0, <1>3, <1>6, <1>7 DEF Steps, O, C

LEMMA WalkKeeps ==
    ASSUME NEW M, Orderly(M), NoOther(M), NEW N \in Walk(M)
    PROVE  Steps(M, N)
<1>1. PICK O \in IF M.resting THEN {M}
                 ELSE IF M.path # <<>> THEN NextStep(M, Head(M.path))
                 ELSE {StopEventWalk(OnWalkComplete(M))} : N = CancelNextWalk(O)
  BY DEF Walk
<1>2. Steps(M, M)
  BY DEF Steps, SameEvent, Queued
<1>3. Steps(M, O)
  BY <1>1, <1>2, NextStepKeeps, WalkedKeeps
<1> QED
  BY <1>1, <1>3, CancelKeeps

\* A player about to have its event scheduled; scheduled it has one.
LEMMA ArmedGoes ==
    ASSUME NEW M, Orderly(M), M.walks = {}
    PROVE  /\ Orderly(Armed(M)) /\ OneEvent(Armed(M)) /\ Armed(M).eventWalk # 0
           /\ Queued(M, Armed(M))
<1> DEFINE id == CHOOSE n \in 1 .. MaxEvents : n \notin M.walks
           N == Armed(M)
<1>1. 1 \in 1 .. MaxEvents /\ 1 \notin M.walks
  BY WalkingAssumption DEF WalkingAssumption
<1>2. id \in 1 .. MaxEvents
  BY <1>1
<1>3. M = [f \in Fields |-> M[f]] /\ M.at \in Tiles
  BY DEF Orderly, WalkTyped
<1> HIDE DEF id
<1>4. N = [M EXCEPT !.eventWalk = id, !.walks = @ \cup {id}, !.halted = FALSE]
  BY DEF Armed, id
<1> HIDE DEF N
<1>5. /\ N = [f \in Fields |-> N[f]]
      /\ N.at = M.at /\ N.queue = M.queue /\ N.walkTask = M.walkTask /\ N.walkTaskEvent = M.walkTaskEvent
      /\ N.actionTask = M.actionTask /\ N.owed = M.owed
      /\ N.eventWalk = id /\ N.walks = M.walks \cup {id} /\ N.halted = FALSE
  BY <1>3, <1>4 DEF Fields
<1>6. id \in 0 .. MaxEvents /\ id # 0 /\ {id} \ {0} = {id}
  BY <1>2, WalkingAssumption DEF WalkingAssumption
<1>7. Orderly(N) /\ OneEvent(N) /\ N.eventWalk # 0 /\ Queued(M, N)
  BY <1>5, <1>6 DEF Orderly, WalkTyped, OneEvent, Queued
<1> QED
  BY <1>7 DEF N

LEMMA AddEventWalkGoes ==
    ASSUME NEW M, Orderly(M), OneEvent(M), NEW N \in AddEventWalk(M)
    PROVE  WalkInv(N) /\ Queued(M, N)
<1> DEFINE F == [M EXCEPT !.cancelNextWalk = FALSE]
<1>1. M = [f \in Fields |-> M[f]] /\ M.at \in Tiles
  BY DEF Orderly, WalkTyped
<1>2. Alike(M, F)
  BY <1>1 DEF Alike, Fields
<1> HIDE DEF F
<1>3. Orderly(F) /\ OneEvent(F) /\ SameEvent(M, F) /\ Queued(M, F)
  BY <1>2, AlikeKeeps
<1>4. CASE M.eventWalk # 0
  <2>1. N = F
    BY <1>4 DEF AddEventWalk, F
  <2> QED
    BY <1>3, <1>4, <2>1 DEF WalkInv, GoesOn, SameEvent
<1>5. CASE M.eventWalk = 0
  <2>1. PICK O \in IF M.resting THEN {F} ELSE Walk(F) : N = Armed(O)
    BY <1>5 DEF AddEventWalk, F
  <2>2. F.walks = {} /\ NoOther(F)
    BY <1>3, <1>5 DEF SameEvent, OneEvent, NoOther
  <2>3. Orderly(O) /\ O.walks = {} /\ Queued(F, O)
    <3>1. CASE O = F
      BY <1>3, <2>2, <3>1 DEF Queued
    <3>2. CASE O \in Walk(F)
      <4>1. Steps(F, O)
        BY <1>3, <2>2, <3>2, WalkKeeps
      <4> QED
        BY <2>2, <4>1 DEF Steps, SameEvent, Halts
    <3> QED
      BY <2>1, <3>1, <3>2
  <2>4. Orderly(N) /\ OneEvent(N) /\ N.eventWalk # 0 /\ Queued(O, N)
    BY <2>1, <2>3, ArmedGoes
  <2> QED
    BY <1>3, <2>3, <2>4 DEF WalkInv, GoesOn, Queued
<1> QED
  BY <1>4, <1>5

LEMMA StartAutoWalkGoes ==
    ASSUME NEW M, Orderly(M), OneEvent(M), NEW p, NEW N \in StartAutoWalk(M, p)
    PROVE  WalkInv(N) /\ Queued(M, N)
<1> DEFINE F == [M EXCEPT !.path = p]
<1>1. M = [f \in Fields |-> M[f]] /\ M.at \in Tiles
  BY DEF Orderly, WalkTyped
<1>2. Alike(M, F)
  BY <1>1 DEF Alike, Fields
<1>3. N \in AddEventWalk(F)
  BY DEF StartAutoWalk
<1> HIDE DEF F
<1>4. Orderly(F) /\ OneEvent(F) /\ Queued(M, F)
  BY <1>2, AlikeKeeps
<1> QED
  BY <1>3, <1>4, AddEventWalkGoes DEF Queued

\* The event that runs is no longer scheduled, and either schedules the next
\* or leaves nothing to walk for.
LEMMA OnWalkGoes ==
    ASSUME NEW M, Orderly(M), M.walks = {}, M.eventWalk # 0, NEW N \in OnWalk(M)
    PROVE  WalkInv(N)
<1>1. PICK O \in Walk(M) : N \in IF O.eventWalk = 0 THEN {O} ELSE AddEventWalk([O EXCEPT !.eventWalk = 0])
  BY DEF OnWalk
<1>2. NoOther(M)
  BY DEF NoOther
<1>3. Steps(M, O) /\ Orderly(O)
  BY <1>2, WalkKeeps DEF Steps
<1>4. O.walks = {}
  BY <1>3 DEF Steps, SameEvent, Halts
<1>5. CASE O.eventWalk = 0
  <2>1. GoesOn(O)
    BY <1>3, <1>5 DEF Steps, SameEvent, Halts, GoesOn
  <2> QED
    BY <1>1, <1>3, <1>4, <1>5, <2>1 DEF WalkInv, OneEvent
<1>6. CASE O.eventWalk # 0
  <2> DEFINE F == [O EXCEPT !.eventWalk = 0]
  <2>1. O = [f \in Fields |-> O[f]] /\ 0 \in 0 .. MaxEvents
    BY <1>3, WalkingAssumption DEF Orderly, WalkTyped, WalkingAssumption
  <2>2. /\ F = [f \in Fields |-> F[f]]
        /\ F.at = O.at /\ F.queue = O.queue /\ F.walkTask = O.walkTask /\ F.walkTaskEvent = O.walkTaskEvent
        /\ F.actionTask = O.actionTask /\ F.owed = O.owed
        /\ F.eventWalk = 0 /\ F.walks = {} /\ F.halted = O.halted
    BY <1>4, <2>1 DEF Fields
  <2>3. N \in AddEventWalk(F)
    BY <1>1, <1>6
  <2> HIDE DEF F
  <2>4. Orderly(F) /\ OneEvent(F)
    BY <1>3, <2>1, <2>2 DEF Orderly, WalkTyped, OneEvent
  <2> QED
    BY <2>3, <2>4, AddEventWalkGoes
<1> QED
  BY <1>5, <1>6
-----------------------------------------------------------------------------
(* The tasks.                                                              *)

\* Between two tasks the event that is scheduled is the one of eventWalk.
LEMMA MovesKeepInv ==
    ASSUME NEW M, WalkInv(M), NEW N, Moves(M, N)
    PROVE  WalkInv(N)
  BY DEF WalkInv, Moves, OneEvent, GoesOn, SameEvent, Halts, Queued

LEMMA OneIsNoOther ==
    ASSUME NEW M, OneEvent(M)
    PROVE  NoOther(M)
  BY DEF OneEvent, NoOther

\* A change of the path, or of what holds no path and no action.
LEMMA AlikeKeepsInv ==
    ASSUME NEW M, WalkInv(M), NEW N, Alike(M, N),
           N.path # <<>> => M.path # <<>> \/ M.eventWalk # 0 \/ M.halted
    PROVE  WalkInv(N)
  BY AlikeKeeps DEF WalkInv, GoesOn, SameEvent, Queued, Alike

\* Giving up on the action that waits for a walk.
LEMMA AbandonKeepsInv ==
    ASSUME NEW M, WalkInv(M)
    PROVE  WalkInv(OnWalkAborted(M)) /\ OnWalkAborted(M).walkTask = NoThing
           /\ OnWalkAborted(M).path = M.path /\ OnWalkAborted(M).at = M.at
           /\ SameEvent(M, OnWalkAborted(M)) /\ Queued(M, OnWalkAborted(M))
<1> DEFINE N == OnWalkAborted(M)
<1>1. M = [f \in Fields |-> M[f]] /\ M.at \in Tiles
  BY DEF WalkInv, Orderly, WalkTyped
<1>2. /\ N = [f \in Fields |-> N[f]]
      /\ N.at = M.at /\ N.queue = M.queue /\ N.walkTask = NoThing /\ N.walkTaskEvent = NoThing
      /\ N.actionTask = M.actionTask /\ N.owed = M.owed /\ N.path = M.path
      /\ N.eventWalk = M.eventWalk /\ N.walks = M.walks /\ N.halted = M.halted
  BY <1>1 DEF Fields, OnWalkAborted, SetNextWalkActionTask
<1> HIDE DEF N
<1>3. ASSUME NEW a \in Things
      PROVE  Count(N.walkTask, N.walkTaskEvent, N.actionTask, a) <= N.owed[a]
  <2>1. a # NoThing
    BY WalkingAssumption DEF WalkingAssumption
  <2>2. /\ Count(NoThing, M.walkTaskEvent, M.actionTask, a)
             <= Count(M.walkTask, M.walkTaskEvent, M.actionTask, a)
        /\ Count(NoThing, NoThing, M.actionTask, a)
             <= Count(NoThing, M.walkTaskEvent, M.actionTask, a)
        /\ Count(M.walkTask, M.walkTaskEvent, M.actionTask, a) \in 0 .. 3
        /\ Count(NoThing, M.walkTaskEvent, M.actionTask, a) \in 0 .. 3
        /\ Count(NoThing, NoThing, M.actionTask, a) \in 0 .. 3
    BY <2>1, CountIs
  <2>3. Count(M.walkTask, M.walkTaskEvent, M.actionTask, a) <= M.owed[a] /\ M.owed[a] \in Nat
    BY DEF WalkInv, Orderly, WalkTyped
  <2> QED
    BY <1>2, <2>2, <2>3
<1>4. WalkTyped(N)
  BY <1>2 DEF WalkInv, Orderly, WalkTyped
<1>5. WalkInv(N) /\ SameEvent(M, N) /\ Queued(M, N)
  BY <1>2, <1>3, <1>4 DEF WalkInv, Orderly, OneEvent, GoesOn, SameEvent, Queued
<1> QED
  BY <1>2, <1>5 DEF N

\* Asked for once more than it waits, an action may be put in one more place.
MayDo(M, a) ==
    /\ WalkInv(M) /\ a \in Things
    /\ Count(M.walkTask, M.walkTaskEvent, M.actionTask, a) + 1 <= M.owed[a]

LEMMA GoAndDoGoes ==
    ASSUME NEW M, NEW a, MayDo(M, a)
    PROVE  WalkInv(GoAndDo(M, a))
<1> DEFINE w == WalkAlong(Towards(M.at, place[a], 1))
           q == Append(M.queue, w)
           N == GoAndDo(M, a)
<1>1. w.do = "playerAutoWalk"
  BY DEF WalkAlong
<1> HIDE DEF w
<1>2. IsSequence(q) /\ HasWalk(q)
  BY <1>1, QueueGrows DEF MayDo, WalkInv, Orderly, WalkTyped
<1>3. M = [f \in Fields |-> M[f]] /\ M.at \in Tiles
  BY DEF MayDo, WalkInv, Orderly, WalkTyped
<1> HIDE DEF q
<1>4. N = [SetNextWalkActionTask(M, a) EXCEPT !.queue = Append(@, w)]
  BY DEF GoAndDo, w
<1> HIDE DEF N
<1>5. SetNextWalkActionTask(M, a).queue = M.queue
  BY <1>3 DEF SetNextWalkActionTask, Fields
<1>6. N = [SetNextWalkActionTask(M, a) EXCEPT !.queue = q]
  BY <1>4, <1>5 DEF q
<1>7. /\ N = [f \in Fields |-> N[f]]
      /\ N.at = M.at /\ N.queue = q /\ N.walkTask = a /\ N.walkTaskEvent = NoThing
      /\ N.actionTask = M.actionTask /\ N.owed = M.owed
      /\ N.eventWalk = M.eventWalk /\ N.walks = M.walks /\ N.halted = M.halted
  BY <1>3, <1>6 DEF Fields, SetNextWalkActionTask
<1>8. ASSUME NEW b \in Things
      PROVE  Count(N.walkTask, N.walkTaskEvent, N.actionTask, b) <= N.owed[b]
  <2>1. b # NoThing
    BY WalkingAssumption DEF WalkingAssumption
  <2>2. /\ Count(M.walkTask, M.walkTaskEvent, M.actionTask, b) <= M.owed[b] /\ M.owed[b] \in Nat
        /\ Count(M.walkTask, M.walkTaskEvent, M.actionTask, b) \in 0 .. 3
        /\ Count(a, NoThing, M.actionTask, b) \in 0 .. 3
    BY CountIs DEF MayDo, WalkInv, Orderly, WalkTyped
  <2>3. CASE b = a
    <3>1. Count(a, NoThing, M.actionTask, b)
            <= Count(M.walkTask, M.walkTaskEvent, M.actionTask, b) + 1
      BY <2>1, <2>3 DEF Count, One
    <3>2. Count(M.walkTask, M.walkTaskEvent, M.actionTask, b) + 1 <= M.owed[b]
      BY <2>3 DEF MayDo
    <3> QED
      BY <1>7, <2>2, <3>1, <3>2
  <2>4. CASE b # a
    <3>1. Count(a, NoThing, M.actionTask, b)
            <= Count(M.walkTask, M.walkTaskEvent, M.actionTask, b)
      BY <2>1, <2>4 DEF Count, One
    <3> QED
      BY <1>7, <2>2, <3>1
  <2> QED
    BY <2>3, <2>4
<1>9. WalkTyped(N)
  BY <1>2, <1>7 DEF MayDo, WalkInv, Orderly, WalkTyped
<1>10. WalkInv(N)
  BY <1>2, <1>7, <1>8, <1>9 DEF MayDo, WalkInv, Orderly, OneEvent, GoesOn
<1> QED
  BY <1>10 DEF N

LEMMA WaitsGoes ==
    ASSUME NEW M, NEW a, MayDo(M, a)
    PROVE  WalkInv(Waits(M, a))
<1> DEFINE N == Waits(M, a)
<1>1. M = [f \in Fields |-> M[f]] /\ M.at \in Tiles
  BY DEF MayDo, WalkInv, Orderly, WalkTyped
<1>2. /\ N = [f \in Fields |-> N[f]]
      /\ N.at = M.at /\ N.queue = M.queue /\ N.walkTask = M.walkTask
      /\ N.walkTaskEvent = M.walkTaskEvent
      /\ N.actionTask = a /\ N.owed = M.owed /\ N.path = M.path
      /\ N.eventWalk = M.eventWalk /\ N.walks = M.walks /\ N.halted = M.halted
  BY <1>1 DEF Fields, Waits
<1> HIDE DEF N
<1>3. ASSUME NEW b \in Things
      PROVE  Count(N.walkTask, N.walkTaskEvent, N.actionTask, b) <= N.owed[b]
  <2>1. /\ Count(M.walkTask, M.walkTaskEvent, M.actionTask, b) <= M.owed[b] /\ M.owed[b] \in Nat
        /\ Count(M.walkTask, M.walkTaskEvent, M.actionTask, b) \in 0 .. 3
        /\ Count(M.walkTask, M.walkTaskEvent, a, b) \in 0 .. 3
    BY CountIs DEF MayDo, WalkInv, Orderly, WalkTyped
  <2>2. CASE b = a
    <3>1. Count(M.walkTask, M.walkTaskEvent, a, b)
            <= Count(M.walkTask, M.walkTaskEvent, M.actionTask, b) + 1
      BY <2>2 DEF Count, One
    <3>2. Count(M.walkTask, M.walkTaskEvent, M.actionTask, b) + 1 <= M.owed[b]
      BY <2>2 DEF MayDo
    <3> QED
      BY <1>2, <2>1, <3>1, <3>2
  <2>3. CASE b # a
    <3>1. Count(M.walkTask, M.walkTaskEvent, a, b)
            <= Count(M.walkTask, M.walkTaskEvent, M.actionTask, b)
      BY <2>3 DEF Count, One
    <3> QED
      BY <1>2, <2>1, <3>1
  <2> QED
    BY <2>2, <2>3
<1>4. WalkTyped(N)
  BY <1>2 DEF MayDo, WalkInv, Orderly, WalkTyped
<1>5. WalkInv(N)
  BY <1>2, <1>3, <1>4 DEF MayDo, WalkInv, Orderly, OneEvent, GoesOn
<1> QED
  BY <1>5 DEF N

\* Dropping the action that waits, and asking for one less.
LEMMA PerformedGoes ==
    ASSUME NEW M, NEW a, MayDo(M, a)
    PROVE  /\ WalkInv(Performed(M, a))
           /\ WalkInv([Performed(M, a) EXCEPT !.busy = TRUE])
           /\ MayDo([M EXCEPT !.actionTask = NoThing], a)
<1> DEFINE N == Performed(M, a)
           o == [M.owed EXCEPT ![a] = @ - 1]
           F == [M EXCEPT !.actionTask = NoThing]
<1>1. M = [f \in Fields |-> M[f]] /\ M.at \in Tiles
  BY DEF MayDo, WalkInv, Orderly, WalkTyped
<1>2. N = [M EXCEPT !.actionTask = NoThing, !.owed = o]
  BY <1>1 DEF Performed, Fields
<1>3. /\ M.owed \in [Things -> Nat] /\ a \in Things
      /\ Count(M.walkTask, M.walkTaskEvent, M.actionTask, a) + 1 <= M.owed[a]
      /\ \A b \in Things : Count(M.walkTask, M.walkTaskEvent, M.actionTask, b) \in 0 .. 3
      /\ \A b \in Things : Count(M.walkTask, M.walkTaskEvent, NoThing, b) \in 0 .. 3
      /\ \A b \in Things : Count(M.walkTask, M.walkTaskEvent, M.actionTask, b) <= M.owed[b]
  BY CountIs DEF MayDo, WalkInv, Orderly, WalkTyped
<1>4. \A b \in Things : Count(M.walkTask, M.walkTaskEvent, NoThing, b)
                          <= Count(M.walkTask, M.walkTaskEvent, M.actionTask, b)
  <2> SUFFICES ASSUME NEW b \in Things
               PROVE  Count(M.walkTask, M.walkTaskEvent, NoThing, b)
                          <= Count(M.walkTask, M.walkTaskEvent, M.actionTask, b)
    OBVIOUS
  <2>1. b # NoThing
    BY WalkingAssumption DEF WalkingAssumption
  <2> QED
    BY <2>1 DEF Count, One
<1>5. /\ o \in [Things -> Nat]
      /\ \A b \in Things : Count(M.walkTask, M.walkTaskEvent, NoThing, b) <= o[b]
  <2>1. M.owed[a] - 1 \in Nat
    BY <1>3
  <2>2. o \in [Things -> Nat] /\ \A b \in Things : o[b] = IF b = a THEN M.owed[a] - 1 ELSE M.owed[b]
    BY <1>3, <2>1
  <2> HIDE DEF o
  <2> QED
    BY <1>3, <1>4, <2>2
<1> HIDE DEF o, N
<1>6. /\ N = [f \in Fields |-> N[f]]
      /\ N.at = M.at /\ N.queue = M.queue /\ N.walkTask = M.walkTask
      /\ N.walkTaskEvent = M.walkTaskEvent
      /\ N.actionTask = NoThing /\ N.owed = o /\ N.path = M.path
      /\ N.eventWalk = M.eventWalk /\ N.walks = M.walks /\ N.halted = M.halted
  BY <1>1, <1>2 DEF Fields
<1>7. WalkTyped(N)
  BY <1>5, <1>6 DEF MayDo, WalkInv, Orderly, WalkTyped
<1>8. WalkInv(N)
  BY <1>5, <1>6, <1>7 DEF MayDo, WalkInv, Orderly, OneEvent, GoesOn
<1>9. Alike(N, [N EXCEPT !.busy = TRUE]) /\ [N EXCEPT !.busy = TRUE].path = N.path
  BY <1>1, <1>6 DEF Alike, Fields
<1>10. WalkInv([N EXCEPT !.busy = TRUE])
  BY <1>8, <1>9, AlikeKeeps DEF WalkInv
<1>11. /\ F = [f \in Fields |-> F[f]]
       /\ F.at = M.at /\ F.queue = M.queue /\ F.walkTask = M.walkTask
       /\ F.walkTaskEvent = M.walkTaskEvent
       /\ F.actionTask = NoThing /\ F.owed = M.owed /\ F.path = M.path
       /\ F.eventWalk = M.eventWalk /\ F.walks = M.walks /\ F.halted = M.halted
  BY <1>1 DEF Fields
<1> HIDE DEF F
<1>12. WalkTyped(F)
  BY <1>11 DEF MayDo, WalkInv, Orderly, WalkTyped
<1>13. \A b \in Things : Count(F.walkTask, F.walkTaskEvent, F.actionTask, b) <= F.owed[b]
  BY <1>3, <1>4, <1>11
<1>14. Count(F.walkTask, F.walkTaskEvent, F.actionTask, a) + 1 <= F.owed[a]
  BY <1>3, <1>4, <1>11
<1>15. MayDo(F, a)
  BY <1>11, <1>12, <1>13, <1>14 DEF MayDo, WalkInv, Orderly, OneEvent, GoesOn
<1> QED
  BY <1>8, <1>10, <1>15 DEF N, F

LEMMA DoGoes ==
    ASSUME NEW M, NEW a, MayDo(M, a)
    PROVE  WalkInv(Do(M, a))
<1>1. WalkInv(GoAndDo([M EXCEPT !.actionTask = NoThing], a))
  BY PerformedGoes, GoAndDoGoes
<1>2. WalkInv(PlayerUseItem(M, a))
  BY GoAndDoGoes, WaitsGoes, PerformedGoes DEF PlayerUseItem
<1>3. WalkInv(PlayerMoveItem(M, a))
  BY <1>1, WaitsGoes, PerformedGoes DEF PlayerMoveItem
<1> QED
  BY <1>2, <1>3 DEF Do

LEMMA GoToFollowGoes ==
    ASSUME NEW M, WalkInv(M), NEW N \in GoToFollowCreature(M)
    PROVE  WalkInv(N)
<1> DEFINE F == [M EXCEPT !.hasFollowPath = TRUE]
           p == Towards(M.at, M.prey, 1)
<1>1. M = [f \in Fields |-> M[f]] /\ M.at \in Tiles
  BY DEF WalkInv, Orderly, WalkTyped
<1>2. Alike(M, F)
  BY <1>1 DEF Alike, Fields
<1>3. N = M \/ N \in StartAutoWalk(F, p)
  BY DEF GoToFollowCreature
<1> HIDE DEF F, p
<1>4. Orderly(F) /\ OneEvent(F)
  BY <1>2, AlikeKeeps DEF WalkInv
<1> QED
  BY <1>3, <1>4, StartAutoWalkGoes

LEMMA SetFollowGoes ==
    ASSUME NEW M, WalkInv(M), NEW on
    PROVE  WalkInv(SetFollowCreature(M, on))
<1> DEFINE E == [M EXCEPT !.path = <<>>]
           A == OnWalkAborted(E)
           B == IF M.path # <<>> THEN A ELSE M
           N == [B EXCEPT !.follows = TRUE, !.isUpdatingPath = TRUE,
                          !.hasFollowPath = FALSE, !.forceUpdate = FALSE]
           O == [M EXCEPT !.follows = FALSE, !.isUpdatingPath = FALSE, !.cancelNextWalk = TRUE]
<1>1. M = [f \in Fields |-> M[f]] /\ M.at \in Tiles
  BY DEF WalkInv, Orderly, WalkTyped
<1>2. Alike(M, E) /\ E.path = <<>> /\ Alike(M, O) /\ O.path = M.path
  BY <1>1 DEF Alike, Fields
<1>3. SetFollowCreature(M, on) \in {M, N, O}
  BY DEF SetFollowCreature
<1> HIDE DEF E, O
<1>4. WalkInv(E) /\ WalkInv(O)
  BY <1>2, AlikeKeepsInv, AlikeKeeps DEF WalkInv
<1>5. WalkInv(A)
  BY <1>4, AbandonKeepsInv
<1> HIDE DEF A
<1>6. WalkInv(B)
  BY <1>5
<1> HIDE DEF B
<1>7. B = [f \in Fields |-> B[f]] /\ B.at \in Tiles
  BY <1>6 DEF WalkInv, Orderly, WalkTyped
<1>8. Alike(B, N) /\ N.path = B.path
  BY <1>7 DEF Alike, Fields
<1> HIDE DEF N
<1>9. WalkInv(N)
  BY <1>6, <1>8, AlikeKeeps DEF WalkInv
<1> QED
  BY <1>3, <1>4, <1>9

-----------------------------------------------------------------------------
(* The actions.                                                            *)

LEMMA AskedKeeps ==
    ASSUME WalkInv(player)
    PROVE  /\ WalkInv(Asked) /\ Asked.path = player.path /\ Asked.walkTask = player.walkTask
           /\ Asked.walkTaskEvent = player.walkTaskEvent
           /\ Asked.actionTask = player.actionTask /\ Asked.owed = player.owed
<1>1. player = [f \in Fields |-> player[f]] /\ player.at \in Tiles
  BY DEF WalkInv, Orderly, WalkTyped
<1>2. Alike(player, Asked) /\ Asked.path = player.path
  BY <1>1 DEF Alike, Fields, Asked
<1> QED
  BY <1>2, AlikeKeepsInv DEF WalkInv, Alike

\* A path that starts where the walk ends is only added to one.
LEMMA NewWalkGoes ==
    ASSUME NEW M, WalkInv(M), NEW pos, NEW auto, NEW p, NEW N \in NewWalk(M, pos, auto, p)
    PROVE  WalkInv(N)
<1> DEFINE far == Len(M.path) > 2
           ahead == EndOf(M.at, SubSeq(M.path, 1, IF far THEN 3 ELSE Len(M.path)))
           to == EndOf(pos, SubSeq(p, 1, IF Len(p) < 2 THEN Len(p) ELSE 2))
           longer == M.path \o p
           X == [M EXCEPT !.path = longer]
<1>1. M = [f \in Fields |-> M[f]] /\ M.at \in Tiles
  BY DEF WalkInv, Orderly, WalkTyped
<1>2. ASSUME M.path = <<>> PROVE ahead = M.at
  <2>1. Len(M.path) = 0 /\ ~far
    BY <1>2
  <2>2. SubSeq(M.path, 1, IF far THEN 3 ELSE Len(M.path)) = <<>>
    BY <1>2, <2>1
  <2>3. {n \in DOMAIN <<>> : <<>>[n] = 1} = {} /\ {n \in DOMAIN <<>> : <<>>[n] = -1} = {}
    OBVIOUS
  <2>4. M.at + Cardinality({}) - Cardinality({}) = M.at
    BY <1>1, FS_EmptySet, WalkingAssumption DEF WalkingAssumption
  <2> QED
    BY <2>2, <2>3, <2>4 DEF EndOf
<1>3. \/ \E q : N \in StartAutoWalk(M, q)
      \/ pos # M.at /\ ahead = pos /\ N = X
      \/ N = M
  BY DEF NewWalk
<1> HIDE DEF ahead, longer
<1>4. Alike(M, X)
  BY <1>1 DEF Alike, Fields
<1> HIDE DEF X
<1>5. ASSUME pos # M.at, ahead = pos, N = X PROVE WalkInv(N)
  BY <1>2, <1>4, <1>5, AlikeKeepsInv
<1> QED
  BY <1>3, <1>5, StartAutoWalkGoes DEF WalkInv

\* An action that leaves one of its places may be put in another.
LEMMA LeavesItsPlace ==
    ASSUME NEW M, WalkInv(M), NEW a \in Things
    PROVE  /\ M.actionTask = a => MayDo([M EXCEPT !.actionTask = NoThing], a)
           /\ M.walkTaskEvent = a => MayDo([M EXCEPT !.walkTaskEvent = NoThing], a)
<1> DEFINE F == [M EXCEPT !.actionTask = NoThing]
           G == [M EXCEPT !.walkTaskEvent = NoThing]
<1>1. M = [f \in Fields |-> M[f]] /\ M.at \in Tiles
  BY DEF WalkInv, Orderly, WalkTyped
<1>2. /\ F = [f \in Fields |-> F[f]] /\ F.at = M.at /\ F.queue = M.queue /\ F.path = M.path
      /\ F.walkTask = M.walkTask /\ F.walkTaskEvent = M.walkTaskEvent
      /\ F.actionTask = NoThing /\ F.owed = M.owed
      /\ F.eventWalk = M.eventWalk /\ F.walks = M.walks /\ F.halted = M.halted
  BY <1>1 DEF Fields
<1>3. /\ G = [f \in Fields |-> G[f]] /\ G.at = M.at /\ G.queue = M.queue /\ G.path = M.path
      /\ G.walkTask = M.walkTask /\ G.walkTaskEvent = NoThing
      /\ G.actionTask = M.actionTask /\ G.owed = M.owed
      /\ G.eventWalk = M.eventWalk /\ G.walks = M.walks /\ G.halted = M.halted
  BY <1>1 DEF Fields
<1> HIDE DEF F, G
<1>4. WalkTyped(F) /\ WalkTyped(G)
  BY <1>2, <1>3 DEF WalkInv, Orderly, WalkTyped
<1>5. ASSUME NEW b \in Things
      PROVE  /\ M.owed[b] \in Nat
             /\ Count(M.walkTask, M.walkTaskEvent, M.actionTask, b) <= M.owed[b]
             /\ Count(M.walkTask, M.walkTaskEvent, M.actionTask, b) \in 0 .. 3
             /\ Count(M.walkTask, M.walkTaskEvent, NoThing, b) \in 0 .. 3
             /\ Count(M.walkTask, NoThing, M.actionTask, b) \in 0 .. 3
             /\ Count(M.walkTask, M.walkTaskEvent, NoThing, b)
                  <= Count(M.walkTask, M.walkTaskEvent, M.actionTask, b)
             /\ Count(M.walkTask, NoThing, M.actionTask, b)
                  <= Count(M.walkTask, M.walkTaskEvent, M.actionTask, b)
             /\ M.actionTask = b =>
                  Count(M.walkTask, M.walkTaskEvent, M.actionTask, b)
                    = Count(M.walkTask, M.walkTaskEvent, NoThing, b) + 1
             /\ M.walkTaskEvent = b =>
                  Count(M.walkTask, M.walkTaskEvent, M.actionTask, b)
                    = Count(M.walkTask, NoThing, M.actionTask, b) + 1
  <2>1. NoThing # b
    BY WalkingAssumption DEF WalkingAssumption
  <2>2. M.owed[b] \in Nat /\ Count(M.walkTask, M.walkTaskEvent, M.actionTask, b) <= M.owed[b]
    BY DEF WalkInv, Orderly, WalkTyped
  <2> QED
    BY <2>1, <2>2, CountIs
<1>6. ASSUME NEW b \in Things
      PROVE  /\ Count(M.walkTask, M.walkTaskEvent, NoThing, b) <= M.owed[b]
             /\ Count(M.walkTask, NoThing, M.actionTask, b) <= M.owed[b]
             /\ M.actionTask = b => Count(M.walkTask, M.walkTaskEvent, NoThing, b) + 1 <= M.owed[b]
             /\ M.walkTaskEvent = b => Count(M.walkTask, NoThing, M.actionTask, b) + 1 <= M.owed[b]
  BY <1>5
<1>7. WalkInv(F) /\ WalkInv(G)
  BY <1>2, <1>3, <1>4, <1>6 DEF WalkInv, Orderly, OneEvent, GoesOn
<1> QED
  BY <1>2, <1>3, <1>6, <1>7 DEF MayDo, F, G

LEMMA PlayerUseGoes ==
    ASSUME WalkInv(player), NEW a \in Things, PlayerUse(a)
    PROVE  WalkInv(player')
<1> DEFINE o == [player.owed EXCEPT ![a] = @ + 1]
           F == [Asked EXCEPT !.owed = o]
<1>1. /\ WalkInv(Asked) /\ Asked.owed = player.owed
      /\ Asked = [f \in Fields |-> Asked[f]] /\ Asked.owed \in [Things -> Nat]
  BY AskedKeeps DEF WalkInv, Orderly, WalkTyped
<1>2. player' = Do(F, a)
  BY <1>1 DEF PlayerUse, Fields
<1>3. /\ o \in [Things -> Nat] /\ o[a] = player.owed[a] + 1
      /\ \A b \in Things : player.owed[b] <= o[b]
      /\ \A b \in Things : player.owed[b] \in Nat /\ o[b] \in Nat
  BY <1>1
<1> HIDE DEF o
<1>4. /\ F = [f \in Fields |-> F[f]] /\ F.at = Asked.at /\ F.queue = Asked.queue
      /\ F.path = Asked.path
      /\ F.walkTask = Asked.walkTask /\ F.walkTaskEvent = Asked.walkTaskEvent
      /\ F.actionTask = Asked.actionTask /\ F.owed = o
      /\ F.eventWalk = Asked.eventWalk /\ F.walks = Asked.walks /\ F.halted = Asked.halted
  BY <1>1 DEF Fields
<1> HIDE DEF F
<1>5. WalkTyped(F)
  BY <1>1, <1>3, <1>4 DEF WalkInv, Orderly, WalkTyped
<1>6. ASSUME NEW b \in Things
      PROVE  /\ Count(F.walkTask, F.walkTaskEvent, F.actionTask, b) <= F.owed[b]
             /\ b = a => Count(F.walkTask, F.walkTaskEvent, F.actionTask, b) + 1 <= F.owed[b]
  <2> DEFINE c == Count(Asked.walkTask, Asked.walkTaskEvent, Asked.actionTask, b)
  <2>1. c \in 0 .. 3 /\ c <= player.owed[b]
    BY <1>1, CountIs DEF WalkInv, Orderly
  <2>2. Count(F.walkTask, F.walkTaskEvent, F.actionTask, b) = c
    BY <1>4
  <2> HIDE DEF c
  <2> QED
    BY <1>3, <1>4, <2>1, <2>2
<1>7. MayDo(F, a)
  BY <1>1, <1>4, <1>5, <1>6 DEF MayDo, WalkInv, Orderly, OneEvent, GoesOn
<1> QED
  BY <1>2, <1>7, DoGoes

LEMMA QueueGrowsGoes ==
    ASSUME NEW M, WalkInv(M), NEW t
    PROVE  WalkInv([M EXCEPT !.queue = Append(@, t)])
<1> DEFINE q == Append(M.queue, t)
           N == [M EXCEPT !.queue = q]
<1>1. M = [f \in Fields |-> M[f]] /\ M.at \in Tiles
  BY DEF WalkInv, Orderly, WalkTyped
<1>2. IsSequence(q) /\ (HasWalk(M.queue) => HasWalk(q))
  BY QueueGrows DEF WalkInv, Orderly, WalkTyped
<1>3. [M EXCEPT !.queue = Append(@, t)] = N
  BY <1>1 DEF Fields
<1> HIDE DEF q
<1>4. /\ N = [f \in Fields |-> N[f]] /\ N.at = M.at /\ N.queue = q
      /\ N.path = M.path
      /\ N.walkTask = M.walkTask /\ N.walkTaskEvent = M.walkTaskEvent
      /\ N.actionTask = M.actionTask /\ N.owed = M.owed
      /\ N.eventWalk = M.eventWalk /\ N.walks = M.walks /\ N.halted = M.halted
  BY <1>1 DEF Fields
<1> HIDE DEF N
<1>5. WalkInv(N)
  BY <1>2, <1>4 DEF WalkInv, Orderly, WalkTyped, OneEvent, GoesOn
<1> QED
  BY <1>3, <1>5

\* The task that runs is the path that the walk waited for, or leaves it there.
LEMMA RunTaskGoes ==
    ASSUME WalkInv(player), RunTask
    PROVE  WalkInv(player')
<1> DEFINE q == Tail(player.queue)
           M == [player EXCEPT !.queue = q]
<1>1. player = [f \in Fields |-> player[f]] /\ player.at \in Tiles
  BY DEF WalkInv, Orderly, WalkTyped
<1>2. IsSequence(q) /\ (HasWalk(player.queue) => Head(player.queue).do = "playerAutoWalk" \/ HasWalk(q))
  BY QueueShrinks DEF WalkInv, Orderly, WalkTyped, RunTask
<1>3. player' \in IF Head(player.queue).do = "playerAutoWalk"
                 THEN StartAutoWalk(M, Head(player.queue).path) ELSE GoToFollowCreature(M)
  BY <1>1 DEF RunTask, Fields
<1> HIDE DEF q
<1>4. /\ M = [f \in Fields |-> M[f]] /\ M.at = player.at /\ M.queue = q
      /\ M.path = player.path
      /\ M.walkTask = player.walkTask /\ M.walkTaskEvent = player.walkTaskEvent
      /\ M.actionTask = player.actionTask /\ M.owed = player.owed
      /\ M.eventWalk = player.eventWalk /\ M.walks = player.walks /\ M.halted = player.halted
  BY <1>1 DEF Fields
<1> HIDE DEF M
<1>5. Orderly(M) /\ OneEvent(M)
  BY <1>2, <1>4 DEF WalkInv, Orderly, WalkTyped, OneEvent
<1>6. CASE Head(player.queue).do = "playerAutoWalk"
  BY <1>3, <1>5, <1>6, StartAutoWalkGoes
<1>7. CASE Head(player.queue).do # "playerAutoWalk"
  <2>1. GoesOn(M)
    BY <1>2, <1>4, <1>7 DEF WalkInv, GoesOn
  <2> QED
    BY <1>3, <1>5, <1>7, <2>1, GoToFollowGoes DEF WalkInv
<1> QED
  BY <1>6, <1>7

LEMMA SetSpeedGoes ==
    ASSUME WalkInv(player), NEW slow, SetSpeed(slow)
    PROVE  WalkInv(player')
<1> DEFINE M == [Asked EXCEPT !.slow = slow]
           I == Interrupted(M)
<1>1. WalkInv(Asked) /\ Asked = [f \in Fields |-> Asked[f]] /\ Asked.at \in Tiles
  BY AskedKeeps DEF WalkInv, Orderly, WalkTyped
<1>2. Alike(Asked, M) /\ M.path = Asked.path
  BY <1>1 DEF Alike, Fields
<1>3. player' \in IF slow THEN {[I EXCEPT !.cancelNextWalk = TRUE]}
                 ELSE IF M.path # <<>> THEN AddEventWalk(M) ELSE {M}
  BY DEF SetSpeed
<1> HIDE DEF M
<1>4. WalkInv(M)
  BY <1>1, <1>2, AlikeKeepsInv
<1>5. Moves(M, I)
  BY <1>4, OneIsNoOther, InterruptedKeeps DEF WalkInv
<1> HIDE DEF I
<1>6. WalkInv(I)
  BY <1>4, <1>5, MovesKeepInv
<1>7. I = [f \in Fields |-> I[f]] /\ I.at \in Tiles
  BY <1>6 DEF WalkInv, Orderly, WalkTyped
<1>8. Alike(I, [I EXCEPT !.cancelNextWalk = TRUE]) /\ [I EXCEPT !.cancelNextWalk = TRUE].path = I.path
  BY <1>7 DEF Alike, Fields
<1>9. WalkInv([I EXCEPT !.cancelNextWalk = TRUE])
  BY <1>6, <1>8, AlikeKeepsInv
<1>10. player' \in {[I EXCEPT !.cancelNextWalk = TRUE], M} \/ player' \in AddEventWalk(M)
  BY <1>3
<1> QED
  BY <1>4, <1>9, <1>10, AddEventWalkGoes DEF WalkInv

LEMMA WalkingStep ==
    ASSUME WalkInv(player), [WalkingNext]_player
    PROVE  WalkInv(player')
<1> USE DEF Later
<1>0. player = [f \in Fields |-> player[f]] /\ player.at \in Tiles
  BY DEF WalkInv, Orderly, WalkTyped
<1>1. ASSUME NEW d \in {-1, 1}, PlayerMove(d) PROVE WalkInv(player')
  <2> DEFINE M == OnWalkAborted(Asked)
  <2>1. WalkInv(M)
    BY AskedKeeps, AbandonKeepsInv
  <2>2. player' \in StartAutoWalk(M, <<d>>)
    BY <1>1 DEF PlayerMove, OnWalkAborted
  <2> HIDE DEF M
  <2> QED
    BY <2>1, <2>2, StartAutoWalkGoes DEF WalkInv
<1>2. ASSUME NEW p \in Walks, PlayerAutoWalk(p) PROVE WalkInv(player')
  BY <1>2, AskedKeeps, QueueGrowsGoes DEF PlayerAutoWalk
<1>3. ASSUME NEW pos \in Tiles, NEW auto \in BOOLEAN, NEW p \in Walks, PlayerNewWalk(pos, auto, p)
      PROVE  WalkInv(player')
  <2> DEFINE M == OnWalkAborted(Asked)
  <2>1. WalkInv(M)
    BY AskedKeeps, AbandonKeepsInv
  <2>2. player' \in NewWalk(M, pos, auto, p)
    BY <1>3 DEF PlayerNewWalk, OnWalkAborted
  <2> HIDE DEF M
  <2> QED
    BY <2>1, <2>2, NewWalkGoes
<1>4. CASE PlayerStopAutoWalk
  <2>1. Asked = [f \in Fields |-> Asked[f]] /\ Asked.at \in Tiles
    BY AskedKeeps DEF WalkInv, Orderly, WalkTyped
  <2>2. Alike(Asked, [Asked EXCEPT !.cancelNextWalk = TRUE])
        /\ [Asked EXCEPT !.cancelNextWalk = TRUE].path = Asked.path
    BY <2>1 DEF Alike, Fields
  <2>3. player' = [Asked EXCEPT !.cancelNextWalk = TRUE]
    BY <1>0, <1>4 DEF PlayerStopAutoWalk, Asked, Fields
  <2> QED
    BY <2>2, <2>3, AskedKeeps, AlikeKeepsInv
<1>5. ASSUME NEW a \in Things, PlayerUse(a) PROVE WalkInv(player')
  BY <1>5, PlayerUseGoes
<1>6. ASSUME NEW on \in BOOLEAN, PlayerFollowCreature(on) PROVE WalkInv(player')
  <2> DEFINE off == SetFollowCreature(Asked, FALSE)
             queued == [off EXCEPT !.queue = Append(@, GoTask)]
  <2>1. WalkInv(off)
    BY AskedKeeps, SetFollowGoes
  <2>2. player' = SetFollowCreature(queued, on)
    BY <1>6 DEF PlayerFollowCreature
  <2> HIDE DEF off
  <2>3. WalkInv(queued)
    BY <2>1, QueueGrowsGoes
  <2> HIDE DEF queued
  <2> QED
    BY <2>2, <2>3, SetFollowGoes
<1>7. ASSUME NEW on \in BOOLEAN, SetSpeed(on) PROVE WalkInv(player')
  BY <1>7, SetSpeedGoes
<1>8. ASSUME NEW t \in Tiles, PreyMoves(t) PROVE WalkInv(player')
  <2> DEFINE M == [Asked EXCEPT !.prey = t]
  <2>1. Asked = [f \in Fields |-> Asked[f]] /\ Asked.at \in Tiles
    BY AskedKeeps DEF WalkInv, Orderly, WalkTyped
  <2>2. Alike(Asked, M) /\ M.path = Asked.path
    BY <2>1 DEF Alike, Fields
  <2>3. player' = FollowMoved(M)
    BY <1>8 DEF PreyMoves
  <2> HIDE DEF M
  <2>4. WalkInv(M)
    BY <2>2, AskedKeeps, AlikeKeepsInv
  <2>5. Orderly(FollowMoved(M)) /\ SameEvent(M, FollowMoved(M)) /\ Queued(M, FollowMoved(M))
        /\ FollowMoved(M).path = M.path /\ FollowMoved(M).walkTask = M.walkTask
    BY <2>4, FollowMovedKeeps DEF WalkInv
  <2> QED
    BY <2>3, <2>4, <2>5 DEF WalkInv, OneEvent, GoesOn, SameEvent, Queued
<1>9. ASSUME NEW t \in Tiles, NEW teleport, Pushed(t) \/ Teleported(t) PROVE WalkInv(player')
  <2>1. \E how \in BOOLEAN : player' = MoveTo(Asked, t, how)
    BY <1>9 DEF Pushed, Teleported
  <2>2. Orderly(Asked) /\ NoOther(Asked)
    BY AskedKeeps, OneIsNoOther DEF WalkInv
  <2>3. Moves(Asked, player')
    BY <2>1, <2>2, MoveToKeeps
  <2> QED
    BY <2>3, AskedKeeps, MovesKeepInv
<1>10. ASSUME NEW id \in 1 .. MaxEvents, CheckCreatureWalk(id) PROVE WalkInv(player')
  <2> DEFINE W == player.walks \ {id}
             M == [player EXCEPT !.walks = W]
  <2>1. W = {} /\ player.eventWalk # 0
    BY <1>10 DEF CheckCreatureWalk, WalkInv, OneEvent
  <2>2. player' \in OnWalk(M)
    BY <1>0, <1>10 DEF CheckCreatureWalk, Fields
  <2> HIDE DEF W
  <2>3. /\ M = [f \in Fields |-> M[f]] /\ M.at = player.at /\ M.queue = player.queue
        /\ M.walkTask = player.walkTask /\ M.walkTaskEvent = player.walkTaskEvent
        /\ M.actionTask = player.actionTask /\ M.owed = player.owed
        /\ M.eventWalk = player.eventWalk /\ M.walks = W /\ M.halted = player.halted
    BY <1>0 DEF Fields
  <2> HIDE DEF M
  <2>4. Orderly(M) /\ M.walks = {} /\ M.eventWalk # 0
    BY <2>1, <2>3 DEF WalkInv, Orderly, WalkTyped
  <2> QED
    BY <2>2, <2>4, OnWalkGoes
<1>11. CASE RunTask
  BY <1>11, RunTaskGoes
<1>12. CASE OnThink
  <2> DEFINE M == [player EXCEPT !.isUpdatingPath = FALSE, !.forceUpdate = FALSE]
  <2>1. Alike(player, M) /\ M.path = player.path
    BY <1>0 DEF Alike, Fields
  <2>2. player' \in GoToFollowCreature(M)
    BY <1>12 DEF OnThink
  <2> HIDE DEF M
  <2> QED
    BY <2>1, <2>2, AlikeKeepsInv, GoToFollowGoes
<1>13. CASE WalkTaskRuns
  <2>1. player.walkTaskEvent \in Things
    BY <1>13 DEF WalkTaskRuns, WalkInv, Orderly, WalkTyped
  <2> QED
    BY <1>13, <2>1, LeavesItsPlace, DoGoes DEF WalkTaskRuns
<1>14. CASE ActionTaskRuns
  <2>1. player.actionTask \in Things
    BY <1>14 DEF ActionTaskRuns, WalkInv, Orderly, WalkTyped
  <2> QED
    BY <1>14, <2>1, LeavesItsPlace, DoGoes DEF ActionTaskRuns
<1>15. CASE Rested
  <2>1. Alike(player, [player EXCEPT !.resting = FALSE])
        /\ [player EXCEPT !.resting = FALSE].path = player.path
    BY <1>0 DEF Alike, Fields
  <2> QED
    BY <1>15, <2>1, AlikeKeepsInv DEF Rested
<1>16. CASE NotBusy
  <2>1. Alike(player, [player EXCEPT !.busy = FALSE])
        /\ [player EXCEPT !.busy = FALSE].path = player.path
    BY <1>0 DEF Alike, Fields
  <2> QED
    BY <1>16, <2>1, AlikeKeepsInv DEF NotBusy
<1>17. CASE UNCHANGED player
  BY <1>17
<1> QED
  BY <1>1, <1>2, <1>3, <1>4, <1>5, <1>6, <1>7, <1>8, <1>9, <1>10, <1>11, <1>12, <1>13, <1>14,
     <1>15, <1>16, <1>17 DEF WalkingNext

LEMMA WalkingStart ==
    ASSUME WalkingInit
    PROVE  WalkInv(player)
<1>1. PICK prey \in Tiles :
         player = [at |-> Start, path |-> <<>>, resting |-> FALSE, slow |-> FALSE,
                   eventWalk |-> 0, walks |-> {}, cancelNextWalk |-> FALSE,
                   walkTask |-> NoThing, walkTaskEvent |-> NoThing, actionTask |-> NoThing,
                   busy |-> FALSE, prey |-> prey, follows |-> FALSE,
                   hasFollowPath |-> FALSE, isUpdatingPath |-> FALSE, forceUpdate |-> FALSE,
                   queue |-> <<>>, inputs |-> 0,
                   owed |-> [a \in Things |-> 0], halted |-> FALSE]
  BY DEF WalkingInit
<1>2. /\ player = [f \in Fields |-> player[f]]
      /\ player.at = Start /\ player.path = <<>> /\ player.queue = <<>>
      /\ player.eventWalk = 0 /\ player.walks = {} /\ player.halted = FALSE
      /\ player.walkTask = NoThing /\ player.walkTaskEvent = NoThing
      /\ player.actionTask = NoThing /\ player.owed = [a \in Things |-> 0]
  BY <1>1 DEF Fields
<1>10. player.queue \in Seq({})
  <2>1. <<>> \in Seq({})
    OBVIOUS
  <2> QED
    BY <1>2, <2>1, Zenon
<1>3. IsSequence(player.queue)
  BY <1>10 DEF IsSequence
<1>4. Start \in Tiles /\ 0 \in 0 .. MaxEvents /\ \A a \in Things : NoThing # a
  BY WalkingAssumption DEF WalkingAssumption
<1>5a. player.at \in Tiles 
  BY <1>2, <1>4
<1>5b. player.halted \in BOOLEAN
  BY <1>2, <1>4
<1>5c. player.owed \in [Things -> Nat]
  <2>1. [a \in Things |-> 0] \in [Things -> Nat]
    OBVIOUS
  <2> QED
    BY <1>2, <2>1, Zenon
<1>5. WalkTyped(player)
  BY <1>2, <1>3, <1>4, <1>5a, <1>5b, <1>5c DEF WalkTyped
<1>6. \A a \in Things : Count(player.walkTask, player.walkTaskEvent, player.actionTask, a) = 0
  BY <1>2, <1>4 DEF Count, One
<1> QED
  BY <1>2, <1>5, <1>6 DEF WalkInv, Orderly, OneEvent, GoesOn

-----------------------------------------------------------------------------
(* The Player object keeps its order whatever the client, the map and the  *)
(* other players do: one walk event at most, which eventWalk names; a path *)
(* or an action that waits for one has that event or its task, unless the  *)
(* walk was halted; and no action waits more often than it was asked for.  *)
THEOREM WalkInvariant == WalkingSpec => []WalkInv(player)
<1>1. WalkingInit => WalkInv(player)
  BY WalkingStart
<1>2. WalkInv(player) /\ [WalkingNext]_player => WalkInv(player)'
  BY WalkingStep
<1> QED
  BY <1>1, <1>2, PTL DEF WalkingSpec

(* A walk goes on, and what waits for it is done no more often than asked  *)
(* (Creature::onWalk, addEventWalk, stopEventWalk; Player::onWalkComplete, *)
(* setNextWalkActionTask, setNextActionTask).                              *)
THEOREM WalkGoesOnward == WalkingSpec => []WalkGoesOn
<1>1. ASSUME WalkInv(player) PROVE WalkGoesOn
  <2>1. \A a \in Things : Pending(player, a)
                            = Count(player.walkTask, player.walkTaskEvent, player.actionTask, a)
    BY PendingIsCount
  <2> QED
    BY <1>1, <2>1 DEF WalkGoesOn, WalkInv, Orderly, OneEvent, GoesOn, HasWalk
<1> QED
  BY <1>1, WalkInvariant, PTL

-----------------------------------------------------------------------------
(* The waiting list.  KeptAt() is about places of a list: the entry that   *)
(* comes k-th is that of the place with k places of S up to it.            *)

LEMMA UpTo ==
    ASSUME NEW len \in Nat, NEW S \in SUBSET (1 .. len)
    PROVE  /\ IsFiniteSet(S) /\ Cardinality(S) \in 0 .. len
           /\ \A n \in S : /\ IsFiniteSet(S \cap (1 .. n))
                           /\ Cardinality(S \cap (1 .. n)) \in 1 .. Cardinality(S)
           /\ \A m, n \in S : m < n => Cardinality(S \cap (1 .. m)) < Cardinality(S \cap (1 .. n))
<1>1. IsFiniteSet(1 .. len) /\ Cardinality(1 .. len) = len
  BY FS_Interval
<1>2. IsFiniteSet(S) /\ Cardinality(S) <= len /\ Cardinality(S) \in Nat
  BY <1>1, FS_Subset, FS_CardinalityType
<1>3. ASSUME NEW n \in S
      PROVE  /\ IsFiniteSet(S \cap (1 .. n))
             /\ Cardinality(S \cap (1 .. n)) \in 1 .. Cardinality(S)
  <2>1. S \cap (1 .. n) \in SUBSET S /\ S \cap (1 .. n) # {}
    OBVIOUS
  <2>2. IsFiniteSet(S \cap (1 .. n)) /\ Cardinality(S \cap (1 .. n)) <= Cardinality(S)
    BY <1>2, <2>1, FS_Subset
  <2>3. Cardinality(S \cap (1 .. n)) \in Nat /\ Cardinality(S \cap (1 .. n)) # 0
    BY <2>1, <2>2, FS_CardinalityType, FS_EmptySet
  <2> QED
    BY <1>2, <2>2, <2>3
<1>4. ASSUME NEW m \in S, NEW n \in S, m < n
      PROVE  Cardinality(S \cap (1 .. m)) < Cardinality(S \cap (1 .. n))
  <2>1. S \cap (1 .. m) \in SUBSET (S \cap (1 .. n)) /\ n \in S \cap (1 .. n) /\ n \notin S \cap (1 .. m)
    BY <1>4
  <2>2. /\ Cardinality(S \cap (1 .. m)) <= Cardinality(S \cap (1 .. n))
        /\ Cardinality(S \cap (1 .. m)) # Cardinality(S \cap (1 .. n))
    BY <1>3, <2>1, FS_Subset
  <2> QED
    BY <1>2, <1>3, <2>2
<1> QED
  BY <1>2, <1>3, <1>4

\* The place in the list of each entry that is kept.
PlacesIn(S) == [k \in 1 .. Cardinality(S) |-> CHOOSE n \in S : Cardinality(S \cap (1 .. n)) = k]

LEMMA PlacesOfKept ==
    ASSUME NEW len \in Nat, NEW S \in SUBSET (1 .. len)
    PROVE  /\ PlacesIn(S) \in [1 .. Cardinality(S) -> S]
           /\ \A n \in S : PlacesIn(S)[Cardinality(S \cap (1 .. n))] = n
           /\ \A k \in 1 .. Cardinality(S) : Cardinality(S \cap (1 .. PlacesIn(S)[k])) = k
           /\ \A j, k \in 1 .. Cardinality(S) : j < k => PlacesIn(S)[j] < PlacesIn(S)[k]
<1> DEFINE c == Cardinality(S)
           rank == [n \in S |-> Cardinality(S \cap (1 .. n))]
<1>1. c \in Nat /\ IsFiniteSet(S)
  BY UpTo
<1>2. rank \in [S -> 1 .. c]
  BY UpTo
<1>3. \A m, n \in S : m < n => rank[m] < rank[n]
  BY UpTo
<1>4. \A m, n \in S : m \in Int /\ n \in Int
  OBVIOUS
<1>5. \A m, n \in S : rank[m] = rank[n] => m = n
  <2>1. \A m, n \in S : rank[m] \in Int /\ rank[n] \in Int
    BY <1>1, <1>2
  <2> HIDE DEF rank
  <2> QED
    BY <1>3, <1>4, <2>1
<1>6. rank \in Injection(S, 1 .. c)
  BY <1>2, <1>5 DEF Injection, IsInjective
<1>7. IsFiniteSet(1 .. c) /\ Cardinality(1 .. c) = c
  BY <1>1, FS_Interval
<1>8. rank \in Surjection(S, 1 .. c)
  BY <1>6, <1>7, FS_Injection
<1>9. \A k \in 1 .. c : \E n \in S : Cardinality(S \cap (1 .. n)) = k
  BY <1>8 DEF Surjection
<1>10. \A k \in 1 .. c : PlacesIn(S)[k] \in S /\ Cardinality(S \cap (1 .. PlacesIn(S)[k])) = k
  BY <1>9 DEF PlacesIn
<1>11. PlacesIn(S) \in [1 .. c -> S]
  BY <1>10 DEF PlacesIn
<1>12. ASSUME NEW n \in S PROVE PlacesIn(S)[Cardinality(S \cap (1 .. n))] = n
  <2>1. rank[n] \in 1 .. c /\ rank[n] = Cardinality(S \cap (1 .. n))
    BY <1>2
  <2>2. rank[PlacesIn(S)[rank[n]]] = rank[n]
    BY <1>10, <2>1
  <2>3. PlacesIn(S)[rank[n]] \in S
    BY <1>10, <2>1
  <2> QED
    BY <1>5, <2>1, <2>2, <2>3
<1>13. ASSUME NEW j \in 1 .. c, NEW k \in 1 .. c, j < k
       PROVE  PlacesIn(S)[j] < PlacesIn(S)[k]
  <2> DEFINE m == PlacesIn(S)[j]
             n == PlacesIn(S)[k]
  <2>1. m \in S /\ n \in S /\ rank[m] = j /\ rank[n] = k
    BY <1>10
  <2> HIDE DEF m, n, rank
  <2>2. ~(n < m) /\ n # m
    BY <1>3, <1>13, <2>1
  <2>3. m < n
    BY <1>4, <2>1, <2>2
  <2> QED
    BY <2>3 DEF m, n
<1> QED
  BY <1>10, <1>11, <1>12, <1>13

LEMMA KeptAtIs ==
    ASSUME NEW L, NEW S, IsFiniteSet(S)
    PROVE  /\ KeptAt(L, S) = [k \in 1 .. Cardinality(S) |-> L[PlacesIn(S)[k]]]
           /\ DOMAIN KeptAt(L, S) = 1 .. Cardinality(S)
           /\ \A k \in 1 .. Cardinality(S) : KeptAt(L, S)[k] = L[PlacesIn(S)[k]]
  BY DEF KeptAt, PlacesIn

-----------------------------------------------------------------------------
(* One list, and the two that make the queue.                              *)

Apart(L) == \A m, n \in DOMAIN L : L[m].client = L[n].client => m = n
On(L, c) == \E n \in DOMAIN L : L[n].client = c

\* K holds clients of L, in their order.
Sub(K, L) ==
    \E p \in [DOMAIN K -> DOMAIN L] :
        /\ \A j, k \in DOMAIN K : j < k => p[j] < p[k]
        /\ \A k \in DOMAIN K : K[k].client = L[p[k]].client

LEMMA KeptOf ==
    ASSUME NEW L \in Seq(Entry), NEW S \in SUBSET (DOMAIN L)
    PROVE  /\ KeptAt(L, S) \in Seq(Entry) /\ Len(KeptAt(L, S)) = Cardinality(S)
           /\ Cardinality(S) \in 0 .. Len(L)
           /\ DOMAIN KeptAt(L, S) = 1 .. Cardinality(S)
           /\ \A k \in DOMAIN KeptAt(L, S) :
                 PlacesIn(S)[k] \in S /\ KeptAt(L, S)[k] = L[PlacesIn(S)[k]]
           /\ \A n \in S : /\ Cardinality(S \cap (1 .. n)) \in DOMAIN KeptAt(L, S)
                           /\ KeptAt(L, S)[Cardinality(S \cap (1 .. n))] = L[n]
           /\ Sub(KeptAt(L, S), L)
<1>1. Len(L) \in Nat /\ DOMAIN L = 1 .. Len(L) /\ S \in SUBSET (1 .. Len(L))
      /\ \A n \in 1 .. Len(L) : L[n] \in Entry
  OBVIOUS
<1> DEFINE c == Cardinality(S)
           K == KeptAt(L, S)
           p == PlacesIn(S)
<1>2. IsFiniteSet(S) /\ c \in 0 .. Len(L)
      /\ \A n \in S : Cardinality(S \cap (1 .. n)) \in 1 .. c
  BY <1>1, UpTo
<1>3. /\ p \in [1 .. c -> S]
      /\ \A n \in S : p[Cardinality(S \cap (1 .. n))] = n
      /\ \A j, k \in 1 .. c : j < k => p[j] < p[k]
  BY <1>1, PlacesOfKept
<1>4. K = [k \in 1 .. c |-> L[p[k]]] /\ DOMAIN K = 1 .. c /\ \A k \in 1 .. c : K[k] = L[p[k]]
  BY <1>2, KeptAtIs
<1> HIDE DEF K, p, c
<1>5. \A k \in 1 .. c : p[k] \in S /\ p[k] \in DOMAIN L /\ L[p[k]] \in Entry
  BY <1>1, <1>3
<1>6. c \in Nat
  BY <1>1, <1>2
<1>7. K \in Seq(Entry) /\ Len(K) = c
  BY <1>4, <1>5, <1>6
<1>8. p \in [DOMAIN K -> DOMAIN L]
  BY <1>3, <1>4, <1>5
<1>9. Sub(K, L)
  BY <1>3, <1>4, <1>8 DEF Sub
<1> QED
  BY <1>2, <1>3, <1>4, <1>5, <1>7, <1>9 DEF K, p, c

LEMMA SubKeeps ==
    ASSUME NEW L \in Seq(Entry), NEW K \in Seq(Entry), Sub(K, L)
    PROVE  /\ Apart(L) => Apart(K)
           /\ \A c : On(K, c) => On(L, c)
           /\ Apart(L) => \A m, n \in DOMAIN L, k, l \in DOMAIN K :
                 m < n /\ K[k].client = L[m].client /\ K[l].client = L[n].client => k < l
<1>1. PICK p \in [DOMAIN K -> DOMAIN L] :
         /\ \A j, k \in DOMAIN K : j < k => p[j] < p[k]
         /\ \A k \in DOMAIN K : K[k].client = L[p[k]].client
  BY DEF Sub
<1>2. /\ \A m \in DOMAIN L : m \in Int
      /\ \A m \in DOMAIN K : m \in Int
      /\ \A k \in DOMAIN K : p[k] \in DOMAIN L
  OBVIOUS
<1>3. ASSUME NEW c, On(K, c) PROVE On(L, c)
  BY <1>1, <1>3 DEF On
<1>4. ASSUME Apart(L) PROVE Apart(K)
  <2> SUFFICES ASSUME NEW j \in DOMAIN K, NEW k \in DOMAIN K, K[j].client = K[k].client, j # k
               PROVE  FALSE
    BY DEF Apart
  <2>1. p[j] = p[k]
    BY <1>1, <1>2, <1>4 DEF Apart
  <2>2. j < k \/ k < j
    BY <1>2
  <2> QED
    BY <1>1, <1>2, <2>1, <2>2
<1>5. ASSUME Apart(L), NEW m \in DOMAIN L, NEW n \in DOMAIN L, NEW k \in DOMAIN K, NEW l \in DOMAIN K,
             m < n, K[k].client = L[m].client, K[l].client = L[n].client
      PROVE  k < l
  <2>1. p[k] = m /\ p[l] = n
    BY <1>1, <1>2, <1>5 DEF Apart
  <2>2. k # l /\ ~(l < k)
    BY <1>1, <1>2, <1>5, <2>1
  <2> QED
    BY <1>2, <2>2
<1> QED
  BY <1>3, <1>4, <1>5

LEMMA SubOfSub ==
    ASSUME NEW J \in Seq(Entry), NEW K \in Seq(Entry), NEW L \in Seq(Entry), Sub(J, K), Sub(K, L)
    PROVE  Sub(J, L)
<1>1. PICK p \in [DOMAIN J -> DOMAIN K] :
         /\ \A j, k \in DOMAIN J : j < k => p[j] < p[k]
         /\ \A k \in DOMAIN J : J[k].client = K[p[k]].client
  BY DEF Sub
<1>2. PICK q \in [DOMAIN K -> DOMAIN L] :
         /\ \A j, k \in DOMAIN K : j < k => q[j] < q[k]
         /\ \A k \in DOMAIN K : K[k].client = L[q[k]].client
  BY DEF Sub
<1> DEFINE r == [k \in DOMAIN J |-> q[p[k]]]
<1>3. r \in [DOMAIN J -> DOMAIN L] /\ \A k \in DOMAIN J : r[k] = q[p[k]]
  OBVIOUS
<1> HIDE DEF r
<1>4. \A k \in DOMAIN J : p[k] \in DOMAIN K /\ r[k] = q[p[k]]
  BY <1>3
<1>5. \A j, k \in DOMAIN J : j < k => r[j] < r[k]
  <2> TAKE j \in DOMAIN J, k \in DOMAIN J
  <2> HAVE j < k
  <2>1. p[j] < p[k]
    BY <1>1
  <2> QED
    BY <1>2, <1>4, <2>1
<1>6. \A k \in DOMAIN J : J[k].client = L[r[k]].client
  BY <1>1, <1>2, <1>4
<1> QED
  BY <1>3, <1>5, <1>6 DEF Sub

LEMMA RefreshedIs ==
    ASSUME NEW L \in Seq(Entry), NEW c, NEW t \in Int
    PROVE  /\ Refreshed(L, c, t) \in Seq(Entry) /\ Len(Refreshed(L, c, t)) = Len(L)
           /\ DOMAIN Refreshed(L, c, t) = DOMAIN L
           /\ \A n \in DOMAIN L :
                 /\ Refreshed(L, c, t)[n].client = L[n].client
                 /\ L[n].client = c => Refreshed(L, c, t)[n].timeout = t
                 /\ L[n].client # c => Refreshed(L, c, t)[n] = L[n]
           /\ Sub(Refreshed(L, c, t), L)
<1> DEFINE R == Refreshed(L, c, t)
<1>1. Len(L) \in Nat /\ DOMAIN L = 1 .. Len(L) /\ \A n \in DOMAIN L : L[n] \in Entry
  OBVIOUS
<1>2. \A n \in DOMAIN L : LET e == [L[n] EXCEPT !.timeout = t]
                          IN  e \in Entry /\ e.client = L[n].client /\ e.timeout = t
  BY <1>1 DEF Entry
<1>3. /\ DOMAIN R = DOMAIN L
      /\ \A n \in DOMAIN L : R[n] = IF L[n].client = c THEN [L[n] EXCEPT !.timeout = t] ELSE L[n]
  BY DEF Refreshed
<1>4. \A n \in DOMAIN L : /\ R[n] \in Entry /\ R[n].client = L[n].client
                          /\ L[n].client = c => R[n].timeout = t
                          /\ L[n].client # c => R[n] = L[n]
  BY <1>1, <1>2, <1>3
<1>5. R = [n \in 1 .. Len(L) |-> R[n]]
  BY <1>1 DEF Refreshed
<1> HIDE DEF R
<1>6. R \in Seq(Entry) /\ Len(R) = Len(L)
  BY <1>1, <1>3, <1>4, <1>5
<1> DEFINE id == [n \in DOMAIN L |-> n]
<1>7. id \in [DOMAIN R -> DOMAIN L] /\ \A n \in DOMAIN L : id[n] = n
  BY <1>3
<1> HIDE DEF id
<1>8. Sub(R, L)
  BY <1>3, <1>4, <1>7 DEF Sub
<1> QED
  BY <1>3, <1>4, <1>6, <1>8 DEF R

\* The two lists, and the queue that they are for a client.
Lists(P, W) ==
    /\ P \in Seq(Entry) /\ W \in Seq(Entry)
    /\ Apart(P) /\ Apart(W) /\ \A c \in Clients : ~(On(P, c) /\ On(W, c))

LEMMA QueueOf ==
    ASSUME NEW P, NEW W, Lists(P, W)
    PROVE  /\ P \o W \in Seq(Entry) /\ Len(P \o W) = Len(P) + Len(W)
           /\ Len(P) \in Nat /\ Len(W) \in Nat
           /\ DOMAIN P = 1 .. Len(P) /\ DOMAIN W = 1 .. Len(W)
           /\ DOMAIN (P \o W) = 1 .. Len(P) + Len(W)
           /\ \A n \in DOMAIN P : n \in DOMAIN (P \o W) /\ (P \o W)[n] = P[n]
           /\ \A n \in DOMAIN W : Len(P) + n \in DOMAIN (P \o W) /\ (P \o W)[Len(P) + n] = W[n]
           /\ \A n \in DOMAIN (P \o W) : n \in DOMAIN P \/ n - Len(P) \in DOMAIN W
           /\ Apart(P \o W)
           /\ Len(P) + Len(W) <= Cardinality(Clients)
<1> DEFINE Q == P \o W
           lp == Len(P)
           lw == Len(W)
<1>1. P \in Seq(Entry) /\ W \in Seq(Entry)
  BY DEF Lists
<1>2. /\ Q \in Seq(Entry) /\ Len(Q) = lp + lw /\ lp \in Nat /\ lw \in Nat
      /\ DOMAIN P = 1 .. lp /\ DOMAIN W = 1 .. lw /\ DOMAIN Q = 1 .. (lp + lw)
      /\ \A n \in 1 .. lp : Q[n] = P[n] /\ P[n] \in Entry
      /\ \A n \in 1 .. lw : Q[lp + n] = W[n] /\ W[n] \in Entry
  BY <1>1
<1> HIDE DEF Q, lp, lw
<1>3. \A n \in 1 .. (lp + lw) : n \in 1 .. lp \/ (n - lp \in 1 .. lw /\ lp + (n - lp) = n)
  BY <1>2
<1>4. \A n \in 1 .. (lp + lw) : Q[n].client \in Clients
  <2>1. \A n \in 1 .. (lp + lw) : Q[n] \in Entry
    BY <1>2, <1>3
  <2> QED
    BY <2>1 DEF Entry
<1>5. ASSUME NEW m \in DOMAIN Q, NEW n \in DOMAIN Q, Q[m].client = Q[n].client PROVE m = n
  <2>1. CASE m \in 1 .. lp /\ n \in 1 .. lp
    BY <1>2, <1>5, <2>1 DEF Lists, Apart
  <2>2. CASE m - lp \in 1 .. lw /\ n - lp \in 1 .. lw
    <3>1. Q[m] = W[m - lp] /\ Q[n] = W[n - lp]
      BY <1>2, <1>3, <2>2
    <3>2. m - lp = n - lp
      BY <1>2, <1>5, <2>2, <3>1 DEF Lists, Apart
    <3> QED
      BY <1>2, <3>2
  <2>3. ASSUME NEW i \in 1 .. lp, NEW j \in 1 .. lw, P[i].client = W[j].client PROVE FALSE
    BY <1>2, <2>3 DEF Lists, On, Entry
  <2>4. CASE m \in 1 .. lp /\ n - lp \in 1 .. lw
    <3>1. Q[m] = P[m] /\ Q[n] = W[n - lp]
      BY <1>2, <1>3, <2>4
    <3> QED
      BY <1>5, <2>3, <2>4, <3>1
  <2>5. CASE n \in 1 .. lp /\ m - lp \in 1 .. lw
    <3>1. Q[n] = P[n] /\ Q[m] = W[m - lp]
      BY <1>2, <1>3, <2>5
    <3> QED
      BY <1>5, <2>3, <2>5, <3>1
  <2> QED
    BY <1>2, <1>3, <2>1, <2>2, <2>4, <2>5
<1>6. lp + lw <= Cardinality(Clients)
  <2> DEFINE f == [n \in 1 .. (lp + lw) |-> Q[n].client]
  <2>1. f \in Injection(1 .. (lp + lw), Clients)
    BY <1>2, <1>4, <1>5 DEF Injection, IsInjective
  <2>2. IsFiniteSet(Clients)
    BY WaitListAssumption DEF WaitListAssumption
  <2> HIDE DEF f
  <2>3. Cardinality(1 .. (lp + lw)) <= Cardinality(Clients)
    BY <2>1, <2>2, FS_Injection
  <2>4. Cardinality(1 .. (lp + lw)) = lp + lw
    <3>1. 1 \in Int /\ lp + lw \in Int /\ (1 > lp + lw => lp + lw = 0)
          /\ (lp + lw) - 1 + 1 = lp + lw
      BY <1>2
    <3> QED
      BY <3>1, FS_Interval
  <2> QED
    BY <2>3, <2>4
<1>7. Apart(Q)
  BY <1>5 DEF Apart
<1>8. /\ \A n \in 1 .. lp : n \in 1 .. (lp + lw)
      /\ \A n \in 1 .. lw : lp + n \in 1 .. (lp + lw)
  BY <1>2
<1> QED
  BY <1>2, <1>3, <1>6, <1>7, <1>8 DEF Q, lp, lw

LEMMA PlaceOfIs ==
    ASSUME NEW P, NEW W, Lists(P, W), NEW c
    PROVE  /\ \A n \in DOMAIN P : P[n].client = c => PlaceOf(P, W, c) = n
           /\ \A n \in DOMAIN W : W[n].client = c => PlaceOf(P, W, c) = Len(P) + n
           /\ ~On(P, c) /\ ~On(W, c) => PlaceOf(P, W, c) = 0
           /\ PlaceOf(P, W, c) # 0 => On(P, c) \/ On(W, c)
<1> DEFINE Q == P \o W
           I == {n \in 1 .. Len(Names(Q)) : Names(Q)[n] = c}
<1>1. PlaceOf(P, W, c) = IF I # {} THEN CHOOSE x \in I : \A y \in I : x =< y ELSE 0
  BY DEF PlaceOf, SelectInSeq, Min
<1>2. Q \in Seq(Entry) /\ DOMAIN Q = 1 .. Len(Q) /\ Len(Q) \in Nat
  BY QueueOf
<1>3. Names(Q) = [n \in 1 .. Len(Q) |-> Q[n].client]
  BY <1>2 DEF Names
<1>4. Names(Q) \in Seq(Clients) /\ Len(Names(Q)) = Len(Q)
  <2>1. \A n \in 1 .. Len(Q) : Q[n] \in Entry
    BY <1>2
  <2>2. \A n \in 1 .. Len(Q) : Q[n].client \in Clients
    BY <2>1 DEF Entry
  <2> QED
    BY <1>2, <1>3, <2>2
<1>5. I = {n \in DOMAIN Q : Q[n].client = c}
  BY <1>2, <1>3, <1>4
<1>6. ASSUME NEW n \in DOMAIN Q, Q[n].client = c PROVE PlaceOf(P, W, c) = n
  <2>0. \A i, j \in DOMAIN Q : Q[i].client = Q[j].client => i = j
    BY QueueOf DEF Apart
  <2>1. I = {n}
    BY <1>5, <1>6, <2>0
  <2>2. n \in Int
    BY <1>2
  <2> HIDE DEF I
  <2> QED
    BY <1>1, <2>1, <2>2
<1>7. ASSUME NEW n \in DOMAIN Q, Q[n].client = c PROVE On(P, c) \/ On(W, c)
  <2>1. CASE n \in DOMAIN P
    BY <1>7, <2>1, QueueOf DEF On
  <2>2. CASE n - Len(P) \in DOMAIN W
    <3>1. n = Len(P) + (n - Len(P))
      BY <1>2, QueueOf
    <3>2. Q[n] = W[n - Len(P)]
      BY <2>2, <3>1, QueueOf
    <3> QED
      BY <1>7, <2>2, <3>2 DEF On
  <2> QED
    BY <2>1, <2>2, QueueOf
<1>8. I = {} => PlaceOf(P, W, c) = 0
  BY <1>1
<1>9. I # {} => \E n \in DOMAIN Q : Q[n].client = c
  BY <1>5
<1> HIDE DEF I
<1>10. \A n \in DOMAIN P : P[n].client = c => PlaceOf(P, W, c) = n
  BY <1>6, QueueOf
<1>11. \A n \in DOMAIN W : W[n].client = c => PlaceOf(P, W, c) = Len(P) + n
  BY <1>6, QueueOf
<1> QED
  BY <1>7, <1>8, <1>9, <1>10, <1>11

-----------------------------------------------------------------------------
(* What the two lists, their sizes, the players online and the expected    *)
(* retries have in common, for any values of them.                         *)

Alive(L, t) == {n \in DOMAIN L : L[n].timeout > t}
EntriesOf(K, L) == \A k \in DOMAIN K : \E n \in DOMAIN L : K[k] = L[n]

WellKept(L, on, ex) ==
    \A n \in DOMAIN L : /\ L[n].client \notin Staff /\ L[n].client \notin on
                        /\ L[n].timeout >= ex[L[n].client] + Grace

WaitOK(P, W, ps, ws, on, ex) ==
    /\ Lists(P, W) /\ ps \in Int /\ ws \in Int
    /\ on \subseteq Clients /\ ex \in [Clients -> Nat]
    /\ ps - Len(P) \in 0 .. MaxDrift
    /\ ps + ws = Len(P) + Len(W)
    /\ WellKept(P, on, ex) /\ WellKept(W, on, ex)

LEMMA CleanedIs ==
    ASSUME NEW L \in Seq(Entry)
    PROVE  /\ Cleaned(L) = KeptAt(L, Alive(L, now)) /\ Alive(L, now) \in SUBSET (DOMAIN L)
           /\ Cleaned(L) \in Seq(Entry) /\ Sub(Cleaned(L), L) /\ EntriesOf(Cleaned(L), L)
           /\ \A n \in DOMAIN L : L[n].timeout > now => On(Cleaned(L), L[n].client)
<1>1. Cleaned(L) = KeptAt(L, Alive(L, now)) /\ Alive(L, now) \in SUBSET (DOMAIN L)
  BY DEF Cleaned, Alive
<1> DEFINE S == Alive(L, now)
<1>2. S \in SUBSET (DOMAIN L) /\ \A n \in DOMAIN L : L[n].timeout > now => n \in S
  BY DEF Alive
<1> HIDE DEF S
<1>3. /\ KeptAt(L, S) \in Seq(Entry) /\ Sub(KeptAt(L, S), L)
      /\ \A k \in DOMAIN KeptAt(L, S) : PlacesIn(S)[k] \in S /\ KeptAt(L, S)[k] = L[PlacesIn(S)[k]]
      /\ \A n \in S : \E k \in DOMAIN KeptAt(L, S) : KeptAt(L, S)[k] = L[n]
  <2>1. \A n \in S : LET k == Cardinality(S \cap (1 .. n))
                     IN  k \in DOMAIN KeptAt(L, S) /\ KeptAt(L, S)[k] = L[n]
    BY <1>2, KeptOf
  <2>2. \A n \in S : \E k \in DOMAIN KeptAt(L, S) : KeptAt(L, S)[k] = L[n]
    BY <2>1
  <2> QED
    BY <1>2, <2>2, KeptOf
<1>4. EntriesOf(KeptAt(L, S), L)
  BY <1>2, <1>3 DEF EntriesOf
<1>5. \A n \in DOMAIN L : L[n].timeout > now => On(KeptAt(L, S), L[n].client)
  BY <1>2, <1>3 DEF On
<1> QED
  BY <1>1, <1>3, <1>4, <1>5 DEF S

LEMMA WithoutIs ==
    ASSUME NEW L \in Seq(Entry), Apart(L), NEW c
    PROVE  /\ Without(L, c) \in Seq(Entry) /\ Sub(Without(L, c), L) /\ EntriesOf(Without(L, c), L)
           /\ ~On(Without(L, c), c)
           /\ Len(Without(L, c)) = IF On(L, c) THEN Len(L) - 1 ELSE Len(L)
<1> DEFINE S == {n \in DOMAIN L : L[n].client # c}
<1>1. Without(L, c) = KeptAt(L, S) /\ S \in SUBSET (DOMAIN L)
  BY DEF Without
<1>2. Len(L) \in Nat /\ DOMAIN L = 1 .. Len(L)
  OBVIOUS
<1>3. IsFiniteSet(DOMAIN L) /\ Cardinality(DOMAIN L) = Len(L)
  <2>1. 1 \in Int /\ Len(L) \in Int /\ (1 > Len(L) => Len(L) = 0) /\ Len(L) - 1 + 1 = Len(L)
    BY <1>2
  <2> QED
    BY <1>2, <2>1, FS_Interval
<1>4. On(L, c) => Cardinality(S) = Len(L) - 1
  <2> SUFFICES ASSUME NEW m \in DOMAIN L, L[m].client = c PROVE Cardinality(S) = Len(L) - 1
    BY DEF On
  <2>1. \A n \in DOMAIN L : L[n].client = c <=> n = m
    BY DEF Apart
  <2>2. S = (DOMAIN L) \ {m}
    BY <2>1
  <2> HIDE DEF S
  <2> QED
    BY <1>3, <2>2, FS_RemoveElement
<1>5. ~On(L, c) => S = DOMAIN L
  BY DEF On
<1>6. \A n \in S : L[n].client # c
  OBVIOUS
<1> HIDE DEF S
<1>7. /\ KeptAt(L, S) \in Seq(Entry) /\ Len(KeptAt(L, S)) = Cardinality(S) /\ Sub(KeptAt(L, S), L)
      /\ \A k \in DOMAIN KeptAt(L, S) : PlacesIn(S)[k] \in S /\ KeptAt(L, S)[k] = L[PlacesIn(S)[k]]
  BY <1>1, KeptOf
<1>8. EntriesOf(KeptAt(L, S), L) /\ ~On(KeptAt(L, S), c)
  BY <1>1, <1>6, <1>7 DEF EntriesOf, On
<1> QED
  BY <1>1, <1>3, <1>4, <1>5, <1>7, <1>8

LEMMA AppendIs ==
    ASSUME NEW L \in Seq(Entry), NEW e \in Entry
    PROVE  /\ Append(L, e) \in Seq(Entry) /\ Len(Append(L, e)) = Len(L) + 1
           /\ DOMAIN Append(L, e) = 1 .. (Len(L) + 1) /\ DOMAIN L = 1 .. Len(L) /\ Len(L) \in Nat
           /\ \A n \in DOMAIN L : Append(L, e)[n] = L[n]
           /\ Append(L, e)[Len(L) + 1] = e
           /\ \A n \in DOMAIN Append(L, e) : n \in DOMAIN L \/ n = Len(L) + 1
           /\ \A c : On(Append(L, e), c) <=> On(L, c) \/ c = e.client
           /\ Apart(L) /\ ~On(L, e.client) => Apart(Append(L, e))
<1> DEFINE A == Append(L, e)
<1>1. /\ A \in Seq(Entry) /\ Len(A) = Len(L) + 1
      /\ DOMAIN A = 1 .. (Len(L) + 1) /\ DOMAIN L = 1 .. Len(L) /\ Len(L) \in Nat
      /\ \A n \in 1 .. Len(L) : A[n] = L[n]
      /\ A[Len(L) + 1] = e
  OBVIOUS
<1> HIDE DEF A
<1>2. /\ \A n \in 1 .. (Len(L) + 1) : n \in 1 .. Len(L) \/ n = Len(L) + 1
      /\ \A n \in 1 .. Len(L) : n \in 1 .. (Len(L) + 1)
      /\ Len(L) + 1 \in 1 .. (Len(L) + 1)
  BY <1>1
<1>3. \A c : On(A, c) <=> On(L, c) \/ c = e.client
  BY <1>1, <1>2 DEF On
<1>4. Apart(L) /\ ~On(L, e.client) => Apart(A)
  BY <1>1, <1>2 DEF Apart, On
<1> QED
  BY <1>1, <1>2, <1>3, <1>4 DEF A

LEMMA ListsOfSubs ==
    ASSUME NEW P, NEW W, Lists(P, W), NEW P1 \in Seq(Entry), NEW W1 \in Seq(Entry),
           Sub(P1, P), Sub(W1, W)
    PROVE  Lists(P1, W1)
<1>1. P \in Seq(Entry) /\ W \in Seq(Entry) /\ Apart(P) /\ Apart(W)
  BY DEF Lists
<1>2. /\ Apart(P1) /\ Apart(W1)
      /\ \A c : On(P1, c) => On(P, c)
      /\ \A c : On(W1, c) => On(W, c)
  BY <1>1, SubKeeps
<1> QED
  BY <1>2 DEF Lists

LEMMA WellKeptOf ==
    ASSUME NEW K, NEW L, EntriesOf(K, L), NEW on, NEW ex, WellKept(L, on, ex)
    PROVE  WellKept(K, on, ex)
  BY DEF EntriesOf, WellKept

LEMMA CleaningKeeps ==
    ASSUME NEW P, NEW W, NEW ps, NEW ws, NEW on, NEW ex, WaitOK(P, W, ps, ws, on, ex)
    PROVE  WaitOK(Cleaned(P), Cleaned(W), ps - (Len(P) - Len(Cleaned(P))),
                  ws - (Len(W) - Len(Cleaned(W))), on, ex)
<1>1. P \in Seq(Entry) /\ W \in Seq(Entry)
  BY DEF WaitOK, Lists
<1>2. /\ Cleaned(P) \in Seq(Entry) /\ Sub(Cleaned(P), P) /\ EntriesOf(Cleaned(P), P)
      /\ Cleaned(W) \in Seq(Entry) /\ Sub(Cleaned(W), W) /\ EntriesOf(Cleaned(W), W)
  BY <1>1, CleanedIs
<1>3. Lists(Cleaned(P), Cleaned(W))
  BY <1>2, ListsOfSubs DEF WaitOK
<1>4. WellKept(Cleaned(P), on, ex) /\ WellKept(Cleaned(W), on, ex)
  BY <1>2, WellKeptOf DEF WaitOK
<1>5. Len(P) \in Nat /\ Len(W) \in Nat /\ Len(Cleaned(P)) \in Nat /\ Len(Cleaned(W)) \in Nat
  BY <1>1, <1>2
<1>6. /\ ps - (Len(P) - Len(Cleaned(P))) \in Int /\ ws - (Len(W) - Len(Cleaned(W))) \in Int
      /\ ps - (Len(P) - Len(Cleaned(P))) - Len(Cleaned(P)) = ps - Len(P)
      /\ (ps - (Len(P) - Len(Cleaned(P)))) + (ws - (Len(W) - Len(Cleaned(W))))
           = Len(Cleaned(P)) + Len(Cleaned(W))
  BY <1>5 DEF WaitOK
<1> QED
  BY <1>3, <1>4, <1>6 DEF WaitOK

\* An admitted client leaves its list.  Only the size of waitList goes down.
LEMMA AdmitKeeps ==
    ASSUME NEW P, NEW W, NEW ps, NEW ws, NEW on, NEW ex, WaitOK(P, W, ps, ws, on, ex),
           NEW c \in Clients, PlaceOf(P, W, c) # 0, ps - Len(P) < MaxDrift,
           NEW on2 \in {on, on \cup {c}}
    PROVE  WaitOK(Without(P, c), Without(W, c), ps, ws - 1, on2, ex)
<1> DEFINE P1 == Without(P, c)
           W1 == Without(W, c)
<1>1. P \in Seq(Entry) /\ W \in Seq(Entry) /\ Apart(P) /\ Apart(W)
  BY DEF WaitOK, Lists
<1>2. /\ P1 \in Seq(Entry) /\ Sub(P1, P) /\ EntriesOf(P1, P) /\ ~On(P1, c)
      /\ W1 \in Seq(Entry) /\ Sub(W1, W) /\ EntriesOf(W1, W) /\ ~On(W1, c)
      /\ Len(P1) = IF On(P, c) THEN Len(P) - 1 ELSE Len(P)
      /\ Len(W1) = IF On(W, c) THEN Len(W) - 1 ELSE Len(W)
  BY <1>1, WithoutIs
<1>3. (On(P, c) \/ On(W, c)) /\ ~(On(P, c) /\ On(W, c))
  BY PlaceOfIs DEF WaitOK, Lists
<1>4. Lists(P1, W1)
  BY <1>2, ListsOfSubs DEF WaitOK
<1> HIDE DEF P1, W1
<1>5. WellKept(P1, on, ex) /\ WellKept(W1, on, ex)
  BY <1>2, WellKeptOf DEF WaitOK
<1>6. WellKept(P1, on2, ex) /\ WellKept(W1, on2, ex)
  BY <1>2, <1>5 DEF WellKept, On
<1>7. /\ Len(P) \in Nat /\ Len(W) \in Nat /\ ps \in Int /\ ws \in Int /\ MaxDrift \in Nat
      /\ ps - Len(P) \in 0 .. MaxDrift /\ ps + ws = Len(P) + Len(W)
  BY <1>1, WaitListAssumption DEF WaitOK, WaitListAssumption
<1>8. ps - Len(P1) \in 0 .. MaxDrift /\ ps + (ws - 1) = Len(P1) + Len(W1)
  <2>1. CASE On(P, c)
    BY <1>2, <1>3, <1>7, <2>1
  <2>2. CASE On(W, c)
    BY <1>2, <1>3, <1>7, <2>2
  <2> QED
    BY <1>3, <2>1, <2>2
<1>9. on2 \subseteq Clients /\ ws - 1 \in Int
  BY <1>7 DEF WaitOK
<1> QED
  BY <1>4, <1>6, <1>7, <1>8, <1>9 DEF WaitOK, P1, W1

LEMMA OfRefreshed ==
    ASSUME NEW P, NEW W, NEW ps, NEW ws, NEW on, NEW ex, WaitOK(P, W, ps, ws, on, ex), now \in Nat,
           NEW c \in Clients, PlaceOf(P, W, c) # 0, c \notin on
    PROVE  LET t == now + GetTimeout(PlaceOf(P, W, c))
               P1 == Refreshed(P, c, t)
               W1 == Refreshed(W, c, t)
           IN  /\ WaitOK(P1, W1, ps, ws, on, [ex EXCEPT ![c] = now + GetTime(PlaceOf(P1, W1, c))])
               /\ t \in Int
<1> DEFINE slot == PlaceOf(P, W, c)
           t == now + GetTimeout(slot)
           P1 == Refreshed(P, c, t)
           W1 == Refreshed(W, c, t)
           e == [ex EXCEPT ![c] = now + GetTime(PlaceOf(P1, W1, c))]
<1>1. Lists(P, W) /\ P \in Seq(Entry) /\ W \in Seq(Entry)
  BY DEF WaitOK, Lists
<1>2. On(P, c) \/ On(W, c)
  BY <1>1, PlaceOfIs
<1>3. Len(P) \in Nat /\ Len(W) \in Nat /\ DOMAIN P = 1 .. Len(P) /\ DOMAIN W = 1 .. Len(W)
      /\ Len(P) + Len(W) <= Cardinality(Clients)
  BY <1>1, QueueOf
<1>4. slot \in 1 .. Len(P) + Len(W)
  <2>1. ASSUME NEW n \in DOMAIN P, P[n].client = c PROVE slot \in 1 .. Len(P) + Len(W)
    <3>1. slot = n
      BY <1>1, <2>1, PlaceOfIs
    <3> HIDE DEF slot
    <3> QED
      BY <1>3, <3>1
  <2>2. ASSUME NEW n \in DOMAIN W, W[n].client = c PROVE slot \in 1 .. Len(P) + Len(W)
    <3>1. slot = Len(P) + n
      BY <1>1, <2>2, PlaceOfIs
    <3> HIDE DEF slot
    <3> QED
      BY <1>3, <3>1
  <2> QED
    BY <1>2, <2>1, <2>2 DEF On
<1>5. Cardinality(Clients) \in Nat /\ MaxDrift \in Nat /\ Grace \in Nat
  BY FS_CardinalityType, WaitListAssumption DEF WaitListAssumption
<1>6. GetTime(slot) \in Nat /\ GetTimeout(slot) = GetTime(slot) + Grace
  <2>1. slot \in 1 .. Cardinality(Clients) + MaxDrift
    BY <1>3, <1>4, <1>5
  <2> HIDE DEF slot
  <2> QED
    BY <2>1, WaitListAssumption DEF WaitListAssumption, GetTimeout
<1> HIDE DEF slot
<1>7. t \in Int /\ t = now + (GetTime(slot) + Grace)
  BY <1>5, <1>6
<1> HIDE DEF t
<1>8. /\ P1 \in Seq(Entry) /\ Len(P1) = Len(P) /\ DOMAIN P1 = DOMAIN P /\ Sub(P1, P)
      /\ \A n \in DOMAIN P : /\ P1[n].client = P[n].client
                             /\ P[n].client = c => P1[n].timeout = t
                             /\ P[n].client # c => P1[n] = P[n]
  BY <1>1, <1>7, RefreshedIs
<1>9. /\ W1 \in Seq(Entry) /\ Len(W1) = Len(W) /\ DOMAIN W1 = DOMAIN W /\ Sub(W1, W)
      /\ \A n \in DOMAIN W : /\ W1[n].client = W[n].client
                             /\ W[n].client = c => W1[n].timeout = t
                             /\ W[n].client # c => W1[n] = W[n]
  BY <1>1, <1>7, RefreshedIs
<1> HIDE DEF P1, W1
<1>10. Lists(P1, W1)
  BY <1>1, <1>8, <1>9, ListsOfSubs
<1>11. PlaceOf(P1, W1, c) = slot
  <2>1. ASSUME NEW n \in DOMAIN P, P[n].client = c PROVE PlaceOf(P1, W1, c) = slot
    BY <1>1, <1>8, <1>10, <2>1, PlaceOfIs DEF slot
  <2>2. ASSUME NEW n \in DOMAIN W, W[n].client = c PROVE PlaceOf(P1, W1, c) = slot
    <3>1. PlaceOf(P1, W1, c) = Len(P1) + n
      BY <1>9, <1>10, <2>2, PlaceOfIs
    <3>2. slot = Len(P) + n
      BY <1>1, <2>2, PlaceOfIs DEF slot
    <3> QED
      BY <1>8, <3>1, <3>2
  <2> QED
    BY <1>2, <2>1, <2>2 DEF On
<1>12. /\ e \in [Clients -> Nat] /\ e[c] = now + GetTime(slot)
       /\ \A d \in Clients : d # c => e[d] = ex[d]
  BY <1>6, <1>11 DEF WaitOK
<1> HIDE DEF e
<1>13. e[c] + Grace <= t
  BY <1>5, <1>6, <1>7, <1>12
<1>14. WellKept(P1, on, e)
  <2> SUFFICES ASSUME NEW n \in DOMAIN P
               PROVE  /\ P1[n].client \notin Staff /\ P1[n].client \notin on
                      /\ P1[n].timeout >= e[P1[n].client] + Grace
    BY <1>8 DEF WellKept
  <2>1. /\ P[n].client \notin Staff /\ P[n].client \notin on
        /\ P[n].timeout >= ex[P[n].client] + Grace
    BY DEF WaitOK, WellKept
  <2>2. P[n] \in Entry
    BY <1>1
  <2>3. CASE P[n].client = c
    <3>1. P1[n].timeout = t /\ P1[n].client = c
      BY <1>8, <2>3
    <3>2. t >= e[c] + Grace
      BY <1>5, <1>6, <1>7, <1>12
    <3> QED
      BY <2>1, <2>3, <3>1, <3>2
  <2>4. CASE P[n].client # c
    BY <1>8, <1>12, <2>1, <2>2, <2>4 DEF Entry
  <2> QED
    BY <2>3, <2>4
<1>15. WellKept(W1, on, e)
  <2> SUFFICES ASSUME NEW n \in DOMAIN W
               PROVE  /\ W1[n].client \notin Staff /\ W1[n].client \notin on
                      /\ W1[n].timeout >= e[W1[n].client] + Grace
    BY <1>9 DEF WellKept
  <2>1. /\ W[n].client \notin Staff /\ W[n].client \notin on
        /\ W[n].timeout >= ex[W[n].client] + Grace
    BY DEF WaitOK, WellKept
  <2>2. W[n] \in Entry
    BY <1>1
  <2>3. CASE W[n].client = c
    <3>1. W1[n].timeout = t /\ W1[n].client = c
      BY <1>9, <2>3
    <3>2. t >= e[c] + Grace
      BY <1>5, <1>6, <1>7, <1>12
    <3> QED
      BY <2>1, <2>3, <3>1, <3>2
  <2>4. CASE W[n].client # c
    BY <1>9, <1>12, <2>1, <2>2, <2>4 DEF Entry
  <2> QED
    BY <2>3, <2>4
<1>16. ps \in Int /\ ws \in Int /\ on \subseteq Clients
       /\ ps - Len(P1) \in 0 .. MaxDrift /\ ps + ws = Len(P1) + Len(W1)
  BY <1>8, <1>9 DEF WaitOK
<1>17. WaitOK(P1, W1, ps, ws, on, e)
  BY <1>10, <1>12, <1>14, <1>15, <1>16 DEF WaitOK
<1> QED
  BY <1>7, <1>17 DEF P1, W1, e, t, slot

\* The clients of a list other than c are kept as well when c is told anew.
LEMMA WellKeptBy ==
    ASSUME NEW L \in Seq(Entry), NEW on, NEW ex \in [Clients -> Nat], WellKept(L, on, ex),
           NEW c \in Clients, ~On(L, c), NEW x
    PROVE  WellKept(L, on, [ex EXCEPT ![c] = x])
<1>1. \A n \in DOMAIN L : L[n] \in Entry
  OBVIOUS
<1>2. \A n \in DOMAIN L : L[n].client \in Clients /\ L[n].client # c
  BY <1>1 DEF Entry, On
<1> QED
  BY <1>2 DEF WellKept

LEMMA WellKeptAppended ==
    ASSUME NEW L \in Seq(Entry), NEW on, NEW ex, WellKept(L, on, ex), NEW e \in Entry,
           e.client \notin Staff, e.client \notin on, e.timeout >= ex[e.client] + Grace
    PROVE  WellKept(Append(L, e), on, ex)
  BY AppendIs DEF WellKept

\* A premium client is put behind the others of its list.  The size that its
\* timeout comes from may be too large, never too small.
LEMMA PremiumQueues ==
    ASSUME NEW P, NEW W, NEW ps, NEW ws, NEW on, NEW ex, WaitOK(P, W, ps, ws, on, ex), now \in Nat,
           NEW c \in Clients, PlaceOf(P, W, c) = 0, c \notin on, c \notin Staff
    PROVE  LET e  == [client |-> c, timeout |-> now + GetTimeout(ps + 1)]
               P1 == Append(P, e)
           IN  /\ WaitOK(P1, W, ps + 1, ws, on, [ex EXCEPT ![c] = now + GetTime(PlaceOf(P1, W, c))])
               /\ e \in Entry
<1> DEFINE e  == [client |-> c, timeout |-> now + GetTimeout(ps + 1)]
           P1 == Append(P, e)
           to == now + GetTime(PlaceOf(P1, W, c))
           f  == [ex EXCEPT ![c] = to]
<1>1. Lists(P, W) /\ P \in Seq(Entry) /\ W \in Seq(Entry) /\ Apart(P) /\ Apart(W)
  BY DEF WaitOK, Lists
<1>2. ~On(P, c) /\ ~On(W, c)
  <2>1. ASSUME NEW n \in DOMAIN P, P[n].client = c PROVE FALSE
    <3>1. PlaceOf(P, W, c) = n
      BY <1>1, <2>1, PlaceOfIs
    <3> QED
      BY <1>1, <3>1
  <2>2. ASSUME NEW n \in DOMAIN W, W[n].client = c PROVE FALSE
    <3>1. PlaceOf(P, W, c) = Len(P) + n
      BY <1>1, <2>2, PlaceOfIs
    <3> QED
      BY <1>1, <3>1
  <2> QED
    BY <2>1, <2>2 DEF On
<1>3. Cardinality(Clients) \in Nat /\ MaxDrift \in Nat /\ Grace \in Nat
      /\ ps \in Int /\ ws \in Int /\ Len(P) \in Nat /\ Len(W) \in Nat
      /\ ps - Len(P) \in 0 .. MaxDrift /\ ps + ws = Len(P) + Len(W)
  BY <1>1, FS_CardinalityType, WaitListAssumption DEF WaitListAssumption, WaitOK
<1>4. ASSUME NEW t \in Int, NEW x, x = [client |-> c, timeout |-> t]
      PROVE  /\ x \in Entry /\ x.client = c /\ x.timeout = t
             /\ Lists(Append(P, x), W) /\ Len(Append(P, x)) = Len(P) + 1
             /\ PlaceOf(Append(P, x), W, c) = Len(P) + 1
             /\ Len(P) + 1 <= Cardinality(Clients)
  <2>1. x \in Entry /\ x.client = c /\ x.timeout = t
    BY <1>4 DEF Entry
  <2>2. /\ Append(P, x) \in Seq(Entry) /\ Len(Append(P, x)) = Len(P) + 1
        /\ Len(P) + 1 \in DOMAIN Append(P, x) /\ Append(P, x)[Len(P) + 1] = x
        /\ Apart(Append(P, x)) /\ \A d : On(Append(P, x), d) <=> On(P, d) \/ d = c
    <3>1. Len(P) + 1 \in 1 .. Len(P) + 1
      BY <1>3
    <3> QED
      BY <1>1, <1>2, <2>1, <3>1, AppendIs
  <2>3. Lists(Append(P, x), W)
    BY <1>1, <1>2, <2>2 DEF Lists
  <2>4. PlaceOf(Append(P, x), W, c) = Len(P) + 1
    <3> DEFINE k == Len(P) + 1
               A == Append(P, x)
    <3>1. k \in DOMAIN A /\ A[k].client = c
      BY <2>1, <2>2
    <3> HIDE DEF k, A
    <3>2. PlaceOf(A, W, c) = k
      BY <2>3, <3>1, PlaceOfIs DEF A
    <3> QED
      BY <3>2 DEF k, A
  <2>5. Len(Append(P, x)) + Len(W) <= Cardinality(Clients)
    BY <2>3, QueueOf
  <2> QED
    BY <1>3, <2>1, <2>2, <2>3, <2>4, <2>5
<1>5. Len(P) + 1 <= Cardinality(Clients)
  <2>1. PICK x : x = [client |-> c, timeout |-> 0]
    OBVIOUS
  <2>2. 0 \in Int
    OBVIOUS
  <2> QED
    BY <1>4, <2>1, <2>2
<1>6. /\ Len(P) + 1 \in 1 .. Cardinality(Clients) + MaxDrift
      /\ ps + 1 \in 1 .. Cardinality(Clients) + MaxDrift /\ Len(P) + 1 <= ps + 1
  BY <1>3, <1>5
<1>7. /\ GetTime(Len(P) + 1) \in Nat /\ GetTime(ps + 1) \in Nat
      /\ GetTime(Len(P) + 1) <= GetTime(ps + 1) /\ GetTimeout(ps + 1) = GetTime(ps + 1) + Grace
  <2> DEFINE m == Len(P) + 1
             n == ps + 1
  <2> HIDE DEF m, n
  <2>1. m \in 1 .. Cardinality(Clients) + MaxDrift /\ n \in 1 .. Cardinality(Clients) + MaxDrift /\ m <= n
    BY <1>6 DEF m, n
  <2>2. GetTime(m) \in Nat /\ GetTime(n) \in Nat /\ GetTime(m) <= GetTime(n)
        /\ GetTimeout(n) = GetTime(n) + Grace
    BY <2>1, WaitListAssumption DEF WaitListAssumption, GetTimeout
  <2> QED
    BY <2>2 DEF m, n
<1>8. now + GetTimeout(ps + 1) \in Int
  BY <1>3, <1>7
<1>9. /\ e \in Entry /\ e.client = c /\ e.timeout = now + GetTimeout(ps + 1)
      /\ Lists(P1, W) /\ Len(P1) = Len(P) + 1 /\ PlaceOf(P1, W, c) = Len(P) + 1
  BY <1>4, <1>8
<1>10. to = now + GetTime(Len(P) + 1)
  BY <1>9
<1> HIDE DEF e, to
<1>11. to \in Nat /\ e.timeout >= to + Grace
  <2> DEFINE a == GetTime(Len(P) + 1)
             b == GetTime(ps + 1)
  <2>1. a \in Nat /\ b \in Nat /\ a <= b /\ to = now + a /\ e.timeout = now + (b + Grace)
    BY <1>7, <1>9, <1>10
  <2> HIDE DEF a, b
  <2> QED
    BY <1>3, <2>1
<1>12. f \in [Clients -> Nat] /\ f[c] = to
  BY <1>11 DEF WaitOK
<1>13. WellKept(P, on, f) /\ WellKept(W, on, f)
  BY <1>1, <1>2, WellKeptBy DEF WaitOK
<1> HIDE DEF f
<1>14. WellKept(P1, on, f)
  BY <1>1, <1>9, <1>11, <1>12, <1>13, WellKeptAppended
<1> HIDE DEF P1
<1>15. ps + 1 \in Int /\ (ps + 1) - Len(P1) \in 0 .. MaxDrift /\ (ps + 1) + ws = Len(P1) + Len(W)
  BY <1>3, <1>9
<1>16. WaitOK(P1, W, ps + 1, ws, on, f)
  BY <1>9, <1>12, <1>13, <1>14, <1>15 DEF WaitOK
<1> QED
  BY <1>9, <1>16 DEF f, P1, to, e

\* The sum of the sizes that a regular client's timeout comes from is exact.
LEMMA RegularQueues ==
    ASSUME NEW P, NEW W, NEW ps, NEW ws, NEW on, NEW ex, WaitOK(P, W, ps, ws, on, ex), now \in Nat,
           NEW c \in Clients, PlaceOf(P, W, c) = 0, c \notin on, c \notin Staff
    PROVE  LET e  == [client |-> c, timeout |-> now + GetTimeout(ps + ws + 1)]
               W1 == Append(W, e)
           IN  /\ WaitOK(P, W1, ps, ws + 1, on, [ex EXCEPT ![c] = now + GetTime(PlaceOf(P, W1, c))])
               /\ e \in Entry
<1> DEFINE e  == [client |-> c, timeout |-> now + GetTimeout(ps + ws + 1)]
           W1 == Append(W, e)
           to == now + GetTime(PlaceOf(P, W1, c))
           f  == [ex EXCEPT ![c] = to]
           n  == Len(P) + Len(W) + 1
<1>1. Lists(P, W) /\ P \in Seq(Entry) /\ W \in Seq(Entry) /\ Apart(P) /\ Apart(W)
  BY DEF WaitOK, Lists
<1>2. ~On(P, c) /\ ~On(W, c)
  <2>1. ASSUME NEW i \in DOMAIN P, P[i].client = c PROVE FALSE
    <3>1. PlaceOf(P, W, c) = i
      BY <1>1, <2>1, PlaceOfIs
    <3> QED
      BY <1>1, <3>1
  <2>2. ASSUME NEW i \in DOMAIN W, W[i].client = c PROVE FALSE
    <3>1. PlaceOf(P, W, c) = Len(P) + i
      BY <1>1, <2>2, PlaceOfIs
    <3> QED
      BY <1>1, <3>1
  <2> QED
    BY <2>1, <2>2 DEF On
<1>3. Cardinality(Clients) \in Nat /\ MaxDrift \in Nat /\ Grace \in Nat
      /\ ps \in Int /\ ws \in Int /\ Len(P) \in Nat /\ Len(W) \in Nat
      /\ ps - Len(P) \in 0 .. MaxDrift /\ ps + ws = Len(P) + Len(W)
  BY <1>1, FS_CardinalityType, WaitListAssumption DEF WaitListAssumption, WaitOK
<1>4. ASSUME NEW t \in Int, NEW x, x = [client |-> c, timeout |-> t]
      PROVE  /\ x \in Entry /\ x.client = c /\ x.timeout = t
             /\ Lists(P, Append(W, x)) /\ Len(Append(W, x)) = Len(W) + 1
             /\ PlaceOf(P, Append(W, x), c) = n
             /\ n <= Cardinality(Clients)
  <2>1. x \in Entry /\ x.client = c /\ x.timeout = t
    BY <1>4 DEF Entry
  <2>2. /\ Append(W, x) \in Seq(Entry) /\ Len(Append(W, x)) = Len(W) + 1
        /\ Len(W) + 1 \in DOMAIN Append(W, x) /\ Append(W, x)[Len(W) + 1] = x
        /\ Apart(Append(W, x)) /\ \A d : On(Append(W, x), d) <=> On(W, d) \/ d = c
    <3>1. Len(W) + 1 \in 1 .. Len(W) + 1
      BY <1>3
    <3> QED
      BY <1>1, <1>2, <2>1, <3>1, AppendIs
  <2>3. Lists(P, Append(W, x))
    BY <1>1, <1>2, <2>2 DEF Lists
  <2>4. PlaceOf(P, Append(W, x), c) = Len(P) + (Len(W) + 1)
    <3> DEFINE k == Len(W) + 1
               A == Append(W, x)
    <3>1. k \in DOMAIN A /\ A[k].client = c
      BY <2>1, <2>2
    <3> HIDE DEF k, A
    <3>2. PlaceOf(P, A, c) = Len(P) + k
      BY <2>3, <3>1, PlaceOfIs DEF A
    <3> QED
      BY <3>2 DEF k, A
  <2>5. Len(P) + Len(Append(W, x)) <= Cardinality(Clients)
    BY <2>3, QueueOf
  <2> QED
    BY <1>3, <2>1, <2>2, <2>3, <2>4, <2>5
<1>5. n \in 1 .. Cardinality(Clients) + MaxDrift /\ n = ps + ws + 1
  <2>1. PICK x : x = [client |-> c, timeout |-> 0]
    OBVIOUS
  <2>2. 0 \in Int
    OBVIOUS
  <2>3. n <= Cardinality(Clients)
    BY <1>4, <2>1, <2>2
  <2> QED
    BY <1>3, <2>3
<1> HIDE DEF n
<1>6. GetTime(n) \in Nat /\ GetTimeout(ps + ws + 1) = GetTime(n) + Grace
  BY <1>5, WaitListAssumption DEF WaitListAssumption, GetTimeout
<1>7. now + GetTimeout(ps + ws + 1) \in Int
  BY <1>3, <1>6
<1>8. /\ e \in Entry /\ e.client = c /\ e.timeout = now + GetTimeout(ps + ws + 1)
      /\ Lists(P, W1) /\ Len(W1) = Len(W) + 1 /\ PlaceOf(P, W1, c) = n
  BY <1>4, <1>7
<1>9. to = now + GetTime(n)
  BY <1>8
<1> HIDE DEF e, to
<1>10. to \in Nat /\ e.timeout >= to + Grace
  <2>1. /\ now \in Nat /\ Grace \in Nat /\ GetTime(n) \in Nat
        /\ to = now + GetTime(n) /\ e.timeout = now + (GetTime(n) + Grace)
    BY <1>3, <1>6, <1>8, <1>9
  <2> QED
    BY <2>1
<1>11. f \in [Clients -> Nat] /\ f[c] = to
  BY <1>10 DEF WaitOK
<1>12. WellKept(P, on, f) /\ WellKept(W, on, f)
  BY <1>1, <1>2, WellKeptBy DEF WaitOK
<1> HIDE DEF f
<1>13. WellKept(W1, on, f)
  BY <1>1, <1>8, <1>10, <1>11, <1>12, WellKeptAppended
<1> HIDE DEF W1
<1>14. ws + 1 \in Int /\ ps + (ws + 1) = Len(P) + Len(W1)
  BY <1>3, <1>8
<1>15. WaitOK(P, W1, ps, ws + 1, on, f)
  BY <1>3, <1>8, <1>11, <1>12, <1>13, <1>14 DEF WaitOK
<1> QED
  BY <1>8, <1>15 DEF f, W1, to, e

-----------------------------------------------------------------------------
(* The steps.                                                              *)

WaitInv ==
    /\ now \in 0 .. MaxTime
    /\ WaitOK(priorityWaitList, waitList, prioritySize, waitSize, playersOnline, expected)

\* What a login does after the lists were cleaned, in the four ways it ends.
AdmittedFrom(c, P, W, ps, ws) ==
    /\ PlaceOf(P, W, c) # 0 /\ Admits(PlaceOf(P, W, c)) /\ ps - Len(P) < MaxDrift
    /\ priorityWaitList' = Without(P, c) /\ waitList' = Without(W, c)
    /\ prioritySize' = ps /\ waitSize' = ws - 1
    /\ playersOnline' \in {playersOnline, playersOnline \cup {c}} /\ expected' = expected

RefreshedOn(c, P, W, ps, ws) ==
    /\ PlaceOf(P, W, c) # 0
    /\ priorityWaitList' = Refreshed(P, c, now + GetTimeout(PlaceOf(P, W, c)))
    /\ waitList' = Refreshed(W, c, now + GetTimeout(PlaceOf(P, W, c)))
    /\ expected' = [expected EXCEPT ![c] = now + GetTime(PlaceOf(priorityWaitList', waitList', c))]
    /\ prioritySize' = ps /\ waitSize' = ws /\ playersOnline' = playersOnline

PremiumAdded(c, P, W, ps, ws) ==
    /\ PlaceOf(P, W, c) = 0
    /\ priorityWaitList' = Append(P, [client |-> c, timeout |-> now + GetTimeout(ps + 1)])
    /\ waitList' = W
    /\ expected' = [expected EXCEPT ![c] = now + GetTime(PlaceOf(priorityWaitList', waitList', c))]
    /\ prioritySize' = ps + 1 /\ waitSize' = ws /\ playersOnline' = playersOnline

RegularAdded(c, P, W, ps, ws) ==
    /\ PlaceOf(P, W, c) = 0
    /\ priorityWaitList' = P
    /\ waitList' = Append(W, [client |-> c, timeout |-> now + GetTimeout(ps + ws + 1)])
    /\ expected' = [expected EXCEPT ![c] = now + GetTime(PlaceOf(priorityWaitList', waitList', c))]
    /\ prioritySize' = ps /\ waitSize' = ws + 1 /\ playersOnline' = playersOnline

AdmittedAtOnce(c) ==
    /\ c \in Staff \/ ( /\ priorityWaitList = <<>> /\ waitList = <<>>
                        /\ Cardinality(playersOnline) < MaxPlayers )
    /\ playersOnline' \in {playersOnline, playersOnline \cup {c}}
    /\ UNCHANGED <<priorityWaitList, waitList, prioritySize, waitSize, expected>>

LEMMA ClientLoginIs ==
    ASSUME NEW c \in Clients, ClientLogin(c)
    PROVE  LET P  == Cleaned(priorityWaitList)
               W  == Cleaned(waitList)
               ps == prioritySize - (Len(priorityWaitList) - Len(P))
               ws == waitSize - (Len(waitList) - Len(W))
           IN  /\ c \notin playersOnline /\ now' = now
               /\ \/ AdmittedAtOnce(c)
                  \/ /\ c \notin Staff
                     /\ \/ AdmittedFrom(c, P, W, ps, ws) \/ RefreshedOn(c, P, W, ps, ws)
                        \/ PremiumAdded(c, P, W, ps, ws) \/ RegularAdded(c, P, W, ps, ws)
<1> DEFINE P  == Cleaned(priorityWaitList)
           W  == Cleaned(waitList)
           ps == prioritySize - (Len(priorityWaitList) - Len(P))
           ws == waitSize - (Len(waitList) - Len(W))
           slot == PlaceOf(P, W, c)
           direct == c \in Staff \/ ( /\ priorityWaitList = <<>> /\ waitList = <<>>
                                      /\ Cardinality(playersOnline) < MaxPlayers )
<1>1. c \notin playersOnline /\ now' = now
  BY DEF ClientLogin
<1>2. ASSUME direct PROVE AdmittedAtOnce(c)
  BY <1>2 DEF ClientLogin, Enter, AdmittedAtOnce
<1>3. ASSUME ~direct
      PROVE  \/ AdmittedFrom(c, P, W, ps, ws) \/ RefreshedOn(c, P, W, ps, ws)
             \/ PremiumAdded(c, P, W, ps, ws) \/ RegularAdded(c, P, W, ps, ws)
  <2>1. \/ /\ slot # 0 /\ Admits(slot) /\ ps - Len(P) < MaxDrift
           /\ priorityWaitList' = ErasedFrom(P, c) /\ waitList' = ErasedFrom(W, c)
           /\ prioritySize' = ps /\ waitSize' = ws - 1
           /\ Enter(c)
        \/ /\ slot # 0 /\ ~Admits(slot)
           /\ LET t == now + GetTimeout(slot) IN Refuse(c, Refreshed(P, c, t), Refreshed(W, c, t))
           /\ prioritySize' = ps /\ waitSize' = ws
        \/ /\ slot = 0 /\ c \in Premium
           /\ Refuse(c, Append(P, [client |-> c, timeout |-> now + GetTimeout(ps + 1)]), W)
           /\ prioritySize' = ps + 1 /\ waitSize' = ws
        \/ /\ slot = 0 /\ c \notin Premium
           /\ Refuse(c, P, Append(W, [client |-> c, timeout |-> now + GetTimeout(ps + ws + 1)]))
           /\ prioritySize' = ps /\ waitSize' = ws + 1
    BY <1>3 DEF ClientLogin
  <2> HIDE DEF P, W, ps, ws
  <2> QED
    BY <2>1 DEF Enter, Refuse, ErasedFrom, AdmittedFrom, RefreshedOn, PremiumAdded, RegularAdded
<1>4. direct \/ c \notin Staff
  OBVIOUS
<1> QED
  BY <1>1, <1>2, <1>3, <1>4

LEMMA WaitStep ==
    ASSUME WaitInv, [WaitNext]_waitVars
    PROVE  WaitInv'
<1>0. now \in Nat /\ now' \in 0 .. MaxTime
  <2>1. now \in 0 .. MaxTime /\ MaxTime \in Nat
    BY WaitListAssumption DEF WaitInv, WaitListAssumption
  <2>2. now' = now \/ (now < MaxTime /\ now' = now + 1)
    <3>1. ASSUME NEW c \in Clients, ClientLogin(c) \/ LeaveGame(c) PROVE now' = now
      BY <3>1, ClientLoginIs DEF LeaveGame
    <3> QED
      BY <3>1 DEF WaitNext, Tick, waitVars
  <2> QED
    BY <2>1, <2>2
<1> SUFFICES WaitOK(priorityWaitList', waitList', prioritySize', waitSize', playersOnline', expected')
  BY <1>0 DEF WaitInv
<1>1. ASSUME NEW c \in Clients, ClientLogin(c)
      PROVE  WaitOK(priorityWaitList', waitList', prioritySize', waitSize', playersOnline', expected')
  <2> DEFINE P  == Cleaned(priorityWaitList)
             W  == Cleaned(waitList)
             ps == prioritySize - (Len(priorityWaitList) - Len(P))
             ws == waitSize - (Len(waitList) - Len(W))
  <2>1. WaitOK(P, W, ps, ws, playersOnline, expected)
    BY CleaningKeeps DEF WaitInv
  <2>2. c \notin playersOnline
    BY <1>1, ClientLoginIs
  <2>3. \/ AdmittedAtOnce(c)
        \/ /\ c \notin Staff
           /\ \/ AdmittedFrom(c, P, W, ps, ws) \/ RefreshedOn(c, P, W, ps, ws)
              \/ PremiumAdded(c, P, W, ps, ws) \/ RegularAdded(c, P, W, ps, ws)
    BY <1>1, ClientLoginIs
  <2> HIDE DEF P, W, ps, ws
  <2>4. CASE AdmittedAtOnce(c)
    <3>1. /\ WellKept(priorityWaitList, playersOnline', expected)
          /\ WellKept(waitList, playersOnline', expected)
      <4>1. CASE c \in Staff
        BY <2>4, <4>1 DEF AdmittedAtOnce, WaitInv, WaitOK, WellKept
      <4>2. CASE priorityWaitList = <<>> /\ waitList = <<>>
        BY <4>2 DEF WellKept
      <4> QED
        BY <2>4, <4>1, <4>2 DEF AdmittedAtOnce
    <3> QED
      BY <2>4, <3>1 DEF AdmittedAtOnce, WaitInv, WaitOK
  <2>5. CASE AdmittedFrom(c, P, W, ps, ws)
    BY <2>1, <2>5, AdmitKeeps DEF AdmittedFrom
  <2>6. CASE RefreshedOn(c, P, W, ps, ws)
    BY <1>0, <2>1, <2>2, <2>6, OfRefreshed DEF RefreshedOn
  <2>7. CASE c \notin Staff /\ PremiumAdded(c, P, W, ps, ws)
    BY <1>0, <2>1, <2>2, <2>7, PremiumQueues DEF PremiumAdded
  <2>8. CASE c \notin Staff /\ RegularAdded(c, P, W, ps, ws)
    BY <1>0, <2>1, <2>2, <2>8, RegularQueues DEF RegularAdded
  <2> QED
    BY <2>3, <2>4, <2>5, <2>6, <2>7, <2>8
<1>2. ASSUME NEW c \in Clients, LeaveGame(c)
      PROVE  WaitOK(priorityWaitList', waitList', prioritySize', waitSize', playersOnline', expected')
  BY <1>2 DEF LeaveGame, WaitInv, WaitOK, WellKept
<1>3. CASE Tick \/ UNCHANGED waitVars
  BY <1>3 DEF Tick, waitVars, WaitInv
<1> QED
  BY <1>1, <1>2, <1>3 DEF WaitNext

LEMMA WaitStart ==
    ASSUME WaitInit
    PROVE  WaitInv
<1>1. <<>> \in Seq(Entry) /\ Len(<<>>) = 0 /\ DOMAIN <<>> = {}
  OBVIOUS
<1>2. Lists(<<>>, <<>>) /\ \A ex : WellKept(<<>>, {}, ex)
  BY <1>1 DEF Lists, Apart, On, WellKept
<1>3. 0 - 0 \in 0 .. MaxDrift /\ 0 \in 0 .. MaxTime /\ 0 + 0 = 0 /\ 0 \in Int /\ 0 \in Nat
  BY WaitListAssumption DEF WaitListAssumption
<1>4. expected \in [Clients -> Nat]
  BY <1>3 DEF WaitInit
<1> QED
  BY <1>1, <1>2, <1>3, <1>4 DEF WaitInit, WaitInv, WaitOK

LEMMA WaitInvIsOnePlace ==
    ASSUME WaitInv
    PROVE  OnePlace
<1> DEFINE P == priorityWaitList
           W == waitList
           Q == P \o W
<1>1. Lists(P, W) /\ P \in Seq(Entry) /\ W \in Seq(Entry)
  BY DEF WaitInv, WaitOK, Lists
<1>2. /\ Q \in Seq(Entry) /\ Len(Q) = Len(P) + Len(W)
      /\ Len(P) \in Nat /\ Len(W) \in Nat
      /\ \A n \in DOMAIN P : Q[n] = P[n]
      /\ \A n \in DOMAIN W : Q[Len(P) + n] = W[n]
      /\ \A n \in DOMAIN Q : n \in DOMAIN P \/ n - Len(P) \in DOMAIN W
      /\ \A n \in DOMAIN Q : n \in Int
      /\ Apart(Q)
      /\ Len(P) + Len(W) <= Cardinality(Clients)
  BY <1>1, QueueOf
<1>3. Cardinality(Clients) \in Nat /\ MaxDrift \in Nat
  BY FS_CardinalityType, WaitListAssumption DEF WaitListAssumption
<1>4. /\ prioritySize \in Int /\ waitSize \in Int
      /\ prioritySize - Len(P) \in 0 .. MaxDrift
      /\ prioritySize + waitSize = Len(P) + Len(W)
  BY DEF WaitInv, WaitOK
<1>5. ASSUME NEW n \in DOMAIN Q
      PROVE  /\ Q[n].client \notin playersOnline
             /\ Q[n].timeout >= expected[Q[n].client] + Grace
  <2>1. CASE n \in DOMAIN P
    BY <1>2, <2>1 DEF WaitInv, WaitOK, WellKept
  <2>2. CASE n - Len(P) \in DOMAIN W
    <3>1. Len(P) + (n - Len(P)) = n
      BY <1>2
    <3>2. Q[n] = W[n - Len(P)]
      BY <1>2, <2>2, <3>1
    <3> QED
      BY <2>2, <3>2 DEF WaitInv, WaitOK, WellKept
  <2> QED
    BY <1>2, <2>1, <2>2
<1>6. Queue = Q
  BY DEF Queue
<1>7. WaitTypeOK
  <2>1. prioritySize \in 0 .. Cardinality(Clients) + MaxDrift
    BY <1>2, <1>3, <1>4
  <2>2. waitSize \in -MaxDrift .. Cardinality(Clients)
    BY <1>2, <1>3, <1>4
  <2> QED
    BY <1>1, <2>1, <2>2 DEF WaitTypeOK, WaitInv, WaitOK
<1> HIDE DEF P, W, Q
<1>8. Names(Q) = [n \in DOMAIN Q |-> Q[n].client]
  BY DEF Names
<1>9. Waiting
  <2>1. IsInjective(Names(Q))
    BY <1>2, <1>8 DEF IsInjective, Apart
  <2>2. playersOnline \cap Range(Names(Q)) = {}
    BY <1>5, <1>8 DEF Range
  <2> QED
    BY <1>6, <2>1, <2>2 DEF Waiting
<1>10. RetryKeepsPlace
  BY <1>5, <1>6 DEF RetryKeepsPlace
<1> QED
  BY <1>2, <1>4, <1>6, <1>7, <1>9, <1>10 DEF OnePlace

-----------------------------------------------------------------------------
(* Nobody overtakes.                                                       *)

\* Of two clients alive on L, the one ahead is ahead on K, if both are there.
KeepsOrder(L, K) ==
    \A m, n \in DOMAIN L, k, l \in DOMAIN K :
        ( /\ m < n /\ L[m].timeout > now /\ L[n].timeout > now
          /\ L[m].client = K[k].client /\ L[n].client = K[l].client ) => k < l

\* Nobody alive on L is on the list K.
NoneMoves(L, K) == \A n \in DOMAIN L : L[n].timeout > now => ~On(K, L[n].client)

LEMMA OrderOfQueue ==
    ASSUME NEW P, NEW W, NEW P1, NEW W1, Lists(P, W), Lists(P1, W1),
           KeepsOrder(P, P1), KeepsOrder(W, W1), NoneMoves(P, W1), NoneMoves(W, P1)
    PROVE  KeepsOrder(P \o W, P1 \o W1)
<1> DEFINE Q  == P \o W
           Q1 == P1 \o W1
<1>1. /\ Len(P) \in Nat /\ DOMAIN P = 1 .. Len(P) /\ DOMAIN W = 1 .. Len(W)
      /\ \A n \in DOMAIN P : Q[n] = P[n]
      /\ \A n \in DOMAIN W : Q[Len(P) + n] = W[n]
      /\ \A n \in DOMAIN Q : n \in Int /\ (n \in DOMAIN P \/ n - Len(P) \in DOMAIN W)
  BY QueueOf
<1>2. /\ Len(P1) \in Nat /\ DOMAIN P1 = 1 .. Len(P1) /\ DOMAIN W1 = 1 .. Len(W1)
      /\ \A n \in DOMAIN P1 : Q1[n] = P1[n]
      /\ \A n \in DOMAIN W1 : Q1[Len(P1) + n] = W1[n]
      /\ \A n \in DOMAIN Q1 : n \in Int /\ (n \in DOMAIN P1 \/ n - Len(P1) \in DOMAIN W1)
  BY QueueOf
<1> HIDE DEF Q, Q1
<1>3. \A n \in DOMAIN Q : n - Len(P) \in DOMAIN W => Q[n] = W[n - Len(P)]
  <2> TAKE n \in DOMAIN Q
  <2>1. n - Len(P) \in DOMAIN W => Len(P) + (n - Len(P)) = n
    BY <1>1
  <2> QED
    BY <1>1, <2>1
<1>4. \A n \in DOMAIN Q1 : n - Len(P1) \in DOMAIN W1 => Q1[n] = W1[n - Len(P1)]
  <2> TAKE n \in DOMAIN Q1
  <2>1. n - Len(P1) \in DOMAIN W1 => Len(P1) + (n - Len(P1)) = n
    BY <1>2
  <2> QED
    BY <1>2, <2>1
<1>5. ASSUME NEW m \in DOMAIN Q, NEW n \in DOMAIN Q, NEW k \in DOMAIN Q1, NEW l \in DOMAIN Q1,
             m < n, Q[m].timeout > now, Q[n].timeout > now,
             Q[m].client = Q1[k].client, Q[n].client = Q1[l].client
      PROVE  k < l
  <2>1. ASSUME NEW i \in DOMAIN Q, NEW j \in DOMAIN Q1, Q[i].timeout > now, Q[i].client = Q1[j].client
        PROVE  \/ i \in DOMAIN P /\ j \in DOMAIN P1
               \/ i - Len(P) \in DOMAIN W /\ j - Len(P1) \in DOMAIN W1
    <3>1. CASE i \in DOMAIN P /\ j - Len(P1) \in DOMAIN W1
      <4>1. Q[i] = P[i] /\ Q1[j] = W1[j - Len(P1)]
        BY <1>1, <1>4, <3>1
      <4> QED
        BY <2>1, <3>1, <4>1 DEF NoneMoves, On
    <3>2. CASE i - Len(P) \in DOMAIN W /\ j \in DOMAIN P1
      <4>1. Q[i] = W[i - Len(P)] /\ Q1[j] = P1[j]
        BY <1>2, <1>3, <3>2
      <4> QED
        BY <2>1, <3>2, <4>1 DEF NoneMoves, On
    <3> QED
      BY <1>1, <1>2, <3>1, <3>2
  <2>2. CASE m \in DOMAIN P /\ k \in DOMAIN P1 /\ n \in DOMAIN P /\ l \in DOMAIN P1
    <3>1. Q[m] = P[m] /\ Q[n] = P[n] /\ Q1[k] = P1[k] /\ Q1[l] = P1[l]
      BY <1>1, <1>2, <2>2
    <3> QED
      BY <1>5, <2>2, <3>1 DEF KeepsOrder
  <2>3. CASE /\ m - Len(P) \in DOMAIN W /\ k - Len(P1) \in DOMAIN W1
             /\ n - Len(P) \in DOMAIN W /\ l - Len(P1) \in DOMAIN W1
    <3>1. /\ Q[m] = W[m - Len(P)] /\ Q[n] = W[n - Len(P)]
          /\ Q1[k] = W1[k - Len(P1)] /\ Q1[l] = W1[l - Len(P1)]
      BY <1>3, <1>4, <2>3
    <3>2. m - Len(P) < n - Len(P)
      BY <1>1, <1>5
    <3>3. k - Len(P1) < l - Len(P1)
      BY <1>5, <2>3, <3>1, <3>2 DEF KeepsOrder
    <3> QED
      BY <1>2, <3>3
  <2>4. CASE k \in DOMAIN P1 /\ l - Len(P1) \in DOMAIN W1
    BY <1>2, <2>4
  <2>5. CASE m - Len(P) \in DOMAIN W /\ n \in DOMAIN P
    BY <1>1, <1>5, <2>5
  <2> QED
    BY <1>5, <2>1, <2>2, <2>3, <2>4, <2>5
<1> QED
  BY <1>5 DEF KeepsOrder, Q, Q1

LEMMA SubsKeepOrder ==
    ASSUME NEW P, NEW W, Lists(P, W), NEW P1 \in Seq(Entry), NEW W1 \in Seq(Entry),
           Sub(P1, P), Sub(W1, W)
    PROVE  /\ KeepsOrder(P, P1) /\ KeepsOrder(W, W1) /\ NoneMoves(P, W1) /\ NoneMoves(W, P1)
           /\ Lists(P1, W1)
<1>1. P \in Seq(Entry) /\ W \in Seq(Entry) /\ Apart(P) /\ Apart(W)
  BY DEF Lists
<1>2. KeepsOrder(P, P1) /\ KeepsOrder(W, W1)
  <2>1. \A m, n \in DOMAIN P, k, l \in DOMAIN P1 :
           m < n /\ P1[k].client = P[m].client /\ P1[l].client = P[n].client => k < l
    BY <1>1, SubKeeps
  <2>2. \A m, n \in DOMAIN W, k, l \in DOMAIN W1 :
           m < n /\ W1[k].client = W[m].client /\ W1[l].client = W[n].client => k < l
    BY <1>1, SubKeeps
  <2>3. KeepsOrder(P, P1)
    BY <2>1 DEF KeepsOrder
  <2>4. KeepsOrder(W, W1)
    BY <2>2 DEF KeepsOrder
  <2> QED
    BY <2>3, <2>4
<1>3. (\A c : On(P1, c) => On(P, c)) /\ (\A c : On(W1, c) => On(W, c))
  BY <1>1, SubKeeps
<1>4. /\ \A n \in DOMAIN P : P[n].client \in Clients /\ On(P, P[n].client)
      /\ \A n \in DOMAIN W : W[n].client \in Clients /\ On(W, W[n].client)
  <2>1. (\A n \in DOMAIN P : P[n] \in Entry) /\ (\A n \in DOMAIN W : W[n] \in Entry)
    BY <1>1
  <2> QED
    BY <2>1 DEF Entry, On
<1>5. NoneMoves(P, W1) /\ NoneMoves(W, P1)
  BY <1>3, <1>4 DEF NoneMoves, Lists
<1> QED
  BY <1>2, <1>5, ListsOfSubs

\* A client that was not alive on any list, at the end of one.
LEMMA AppendKeepsOrder ==
    ASSUME NEW L, NEW K \in Seq(Entry), NEW e \in Entry, KeepsOrder(L, K),
           \A n \in DOMAIN L : L[n].timeout > now => L[n].client # e.client
    PROVE  KeepsOrder(L, Append(K, e))
<1> DEFINE A == Append(K, e)
<1>1. /\ \A n \in DOMAIN A : n \in DOMAIN K \/ n = Len(K) + 1
      /\ \A n \in DOMAIN K : A[n] = K[n]
      /\ A[Len(K) + 1] = e
  BY AppendIs
<1> HIDE DEF A
<1>2. KeepsOrder(L, A)
  BY <1>1 DEF KeepsOrder
<1> QED
  BY <1>2 DEF A

LEMMA AppendMovesNone ==
    ASSUME NEW L, NEW K \in Seq(Entry), NEW e \in Entry, NoneMoves(L, K),
           \A n \in DOMAIN L : L[n].timeout > now => L[n].client # e.client
    PROVE  NoneMoves(L, Append(K, e))
  BY AppendIs DEF NoneMoves

-----------------------------------------------------------------------------
(* The room that is left for those ahead.                                  *)

Ahead(Q, c) ==
    {n \in DOMAIN Q : /\ Q[n].timeout > now
                      /\ \A m \in 1 .. n : Q[m].client = c => Q[m].timeout <= now}

LEMMA AheadOfIt ==
    ASSUME NEW P, NEW W, Lists(P, W), now \in Nat, NEW c,
           PlaceOf(Cleaned(P), Cleaned(W), c) # 0
    PROVE  /\ Cardinality(Ahead(P \o W, c)) \in Nat
           /\ Cardinality(Ahead(P \o W, c)) < PlaceOf(Cleaned(P), Cleaned(W), c)
<1> DEFINE P1 == Cleaned(P)
           W1 == Cleaned(W)
           S  == Alive(P, now)
           T  == Alive(W, now)
           Q  == P \o W
           A  == Ahead(Q, c)
<1>1. P \in Seq(Entry) /\ W \in Seq(Entry)
  BY DEF Lists
<1>2. /\ P1 = KeptAt(P, S) /\ S \in SUBSET (DOMAIN P) /\ W1 = KeptAt(W, T) /\ T \in SUBSET (DOMAIN W)
      /\ P1 \in Seq(Entry) /\ W1 \in Seq(Entry) /\ Sub(P1, P) /\ Sub(W1, W)
  BY <1>1, CleanedIs
<1>3. Lists(P1, W1)
  BY <1>2, ListsOfSubs
<1>4. /\ Len(P) \in Nat /\ Len(W) \in Nat /\ DOMAIN P = 1 .. Len(P) /\ DOMAIN W = 1 .. Len(W)
      /\ \A n \in DOMAIN P : n \in DOMAIN Q /\ Q[n] = P[n]
      /\ \A n \in DOMAIN W : Len(P) + n \in DOMAIN Q /\ Q[Len(P) + n] = W[n]
      /\ \A n \in DOMAIN Q : n \in 1 .. Len(P) + Len(W) /\ (n \in DOMAIN P \/ n - Len(P) \in DOMAIN W)
  BY QueueOf
<1>5. \A n \in DOMAIN Q : n - Len(P) \in DOMAIN W => Q[n] = W[n - Len(P)]
  <2> TAKE n \in DOMAIN Q
  <2>1. n - Len(P) \in DOMAIN W => Len(P) + (n - Len(P)) = n
    BY <1>4
  <2> QED
    BY <1>4, <2>1
<1>6. /\ S \in SUBSET (1 .. Len(P)) /\ T \in SUBSET (1 .. Len(W))
      /\ IsFiniteSet(S) /\ Cardinality(S) \in Nat /\ IsFiniteSet(T)
  <2>1. /\ S \in SUBSET (1 .. Len(P)) /\ T \in SUBSET (1 .. Len(W))
        /\ Len(P) \in Nat /\ Len(W) \in Nat
    BY <1>2, <1>4
  <2>2. IsFiniteSet(S) /\ IsFiniteSet(T)
    BY <2>1, UpTo
  <2> QED
    BY <2>1, <2>2, FS_CardinalityType
<1>7. /\ \A n \in S : P[n].timeout > now
      /\ \A n \in T : W[n].timeout > now
      /\ \A n \in DOMAIN P : P[n].timeout > now => n \in S
      /\ \A n \in DOMAIN W : W[n].timeout > now => n \in T
  BY DEF Alive
<1>8. /\ \A n \in A : /\ n \in DOMAIN Q /\ Q[n].timeout > now
                      /\ \A m \in 1 .. n : Q[m].client = c => Q[m].timeout <= now
  BY DEF Ahead
<1>18. /\ \A n \in DOMAIN P : P[n] \in Entry /\ P[n].timeout \in Int
       /\ \A n \in DOMAIN W : W[n] \in Entry /\ W[n].timeout \in Int
  <2>1. (\A n \in DOMAIN P : P[n] \in Entry) /\ (\A n \in DOMAIN W : W[n] \in Entry)
    BY <1>1
  <2> QED
    BY <2>1 DEF Entry
<1> HIDE DEF P1, W1, S, T, Q, A
<1>9. /\ Len(P1) = Cardinality(S) /\ DOMAIN P1 = 1 .. Cardinality(S)
      /\ \A k \in DOMAIN P1 : PlacesIn(S)[k] \in S /\ P1[k] = P[PlacesIn(S)[k]]
      /\ \A k \in 1 .. Cardinality(S) : Cardinality(S \cap (1 .. PlacesIn(S)[k])) = k
  <2>1. /\ DOMAIN KeptAt(P, S) = 1 .. Cardinality(S)
        /\ Len(KeptAt(P, S)) = Cardinality(S)
        /\ \A k \in DOMAIN KeptAt(P, S) :
              PlacesIn(S)[k] \in S /\ KeptAt(P, S)[k] = P[PlacesIn(S)[k]]
    BY <1>1, <1>2, KeptOf
  <2>2. \A k \in 1 .. Cardinality(S) : Cardinality(S \cap (1 .. PlacesIn(S)[k])) = k
    BY <1>4, <1>6, PlacesOfKept
  <2> QED
    BY <1>2, <2>1, <2>2
<1>10. /\ DOMAIN W1 = 1 .. Cardinality(T)
       /\ \A k \in DOMAIN W1 : PlacesIn(T)[k] \in T /\ W1[k] = W[PlacesIn(T)[k]]
       /\ \A k \in 1 .. Cardinality(T) : Cardinality(T \cap (1 .. PlacesIn(T)[k])) = k
  <2>1. /\ DOMAIN KeptAt(W, T) = 1 .. Cardinality(T)
        /\ Len(KeptAt(W, T)) = Cardinality(T)
        /\ \A k \in DOMAIN KeptAt(W, T) :
              PlacesIn(T)[k] \in T /\ KeptAt(W, T)[k] = W[PlacesIn(T)[k]]
    BY <1>1, <1>2, KeptOf
  <2>2. \A k \in 1 .. Cardinality(T) : Cardinality(T \cap (1 .. PlacesIn(T)[k])) = k
    BY <1>4, <1>6, PlacesOfKept
  <2> QED
    BY <1>2, <2>1, <2>2
<1>11. ASSUME NEW k \in DOMAIN P1, P1[k].client = c
       PROVE  Cardinality(A) \in Nat /\ Cardinality(A) < PlaceOf(P1, W1, c)
  <2> DEFINE m == PlacesIn(S)[k]
             B == S \cap (1 .. m)
  <2>0. m \in S /\ P[m].client = c /\ Cardinality(B) = k
    BY <1>9, <1>11
  <2> HIDE DEF m
  <2>1. m \in S /\ P[m].client = c /\ Cardinality(B) = k /\ IsFiniteSet(B) /\ m \in B
        /\ PlaceOf(P1, W1, c) = k /\ k \in Nat
    <3>1. IsFiniteSet(B) /\ m \in 1 .. Len(P) /\ k \in Nat
      BY <1>4, <1>6, <1>9, <2>0, UpTo
    <3>2. PlaceOf(P1, W1, c) = k
      BY <1>3, <1>11, PlaceOfIs
    <3> QED
      BY <2>0, <3>1, <3>2
  <2>11. \A n \in S : n \in 1 .. m => n \in B
    OBVIOUS
  <2> HIDE DEF B
  <2>2. ASSUME NEW n \in A PROVE n \in B \ {m}
    <3>1. m \in DOMAIN P /\ Q[m] = P[m] /\ P[m].timeout > now /\ m \in Int
      BY <1>2, <1>4, <1>7, <2>1
    <3>2. ~(m \in 1 .. n)
      BY <1>8, <1>18, <2>1, <3>1
    <3>3. n < m
      BY <1>4, <1>8, <3>1, <3>2
    <3>4. n \in DOMAIN P
      BY <1>4, <1>8, <3>1, <3>3
    <3>5. n \in S
      BY <1>4, <1>7, <1>8, <3>4
    <3>6. n \in 1 .. m /\ n # m
      BY <1>4, <3>1, <3>3, <3>4
    <3> QED
      BY <2>11, <3>5, <3>6
  <2>3. IsFiniteSet(B \ {m}) /\ Cardinality(B \ {m}) = k - 1
    BY <2>1, FS_RemoveElement
  <2>4. A \in SUBSET (B \ {m})
    BY <2>2
  <2>5. IsFiniteSet(A) /\ Cardinality(A) <= k - 1
    BY <2>3, <2>4, FS_Subset
  <2>6. Cardinality(A) \in Nat
    BY <2>5, FS_CardinalityType
  <2> QED
    BY <2>1, <2>5, <2>6
<1>12. ASSUME NEW k \in DOMAIN W1, W1[k].client = c
       PROVE  Cardinality(A) \in Nat /\ Cardinality(A) < PlaceOf(P1, W1, c)
  <2> DEFINE m == PlacesIn(T)[k]
             B == T \cap (1 .. m)
             X == B \ {m}
             f == [n \in X |-> Len(P) + n]
             Y == {Len(P) + n : n \in X}
  <2>0. m \in T /\ W[m].client = c /\ Cardinality(B) = k
    BY <1>10, <1>12
  <2> HIDE DEF m
  <2>1. m \in T /\ W[m].client = c /\ Cardinality(B) = k /\ IsFiniteSet(B) /\ m \in B
        /\ PlaceOf(P1, W1, c) = Cardinality(S) + k /\ k \in Nat
    <3>1. IsFiniteSet(B) /\ m \in 1 .. Len(W) /\ k \in Nat
      BY <1>4, <1>6, <1>10, <2>0, UpTo
    <3>2. PlaceOf(P1, W1, c) = Cardinality(S) + k
      BY <1>3, <1>9, <1>12, PlaceOfIs
    <3> QED
      BY <2>0, <3>1, <3>2
  <2>2. IsFiniteSet(X) /\ Cardinality(X) = k - 1
    BY <2>1, FS_RemoveElement
  <2>3. f \in Surjection(X, Y)
    BY DEF Surjection
  <2>4. IsFiniteSet(Y) /\ Cardinality(Y) <= k - 1
    <3> HIDE DEF X, Y, f
    <3> QED
      BY <2>2, <2>3, FS_Surjection
  <2>5. ASSUME NEW n \in A PROVE n \in S \cup Y
    <3>1. m \in DOMAIN W /\ Len(P) + m \in DOMAIN Q /\ Q[Len(P) + m] = W[m]
          /\ W[m].timeout > now /\ m \in 1 .. Len(W)
      BY <1>2, <1>4, <1>7, <2>1
    <3>2. ~(Len(P) + m \in 1 .. n)
      BY <1>8, <1>18, <2>1, <3>1
    <3>3. n < Len(P) + m
      BY <1>4, <1>8, <3>1, <3>2
    <3>4. CASE n \in DOMAIN P
      BY <1>4, <1>7, <1>8, <3>4
    <3>5. CASE n - Len(P) \in DOMAIN W
      <4>1. n - Len(P) \in T
        BY <1>5, <1>7, <1>8, <3>5
      <4>2. n - Len(P) \in 1 .. m /\ n - Len(P) # m /\ n = Len(P) + (n - Len(P))
        BY <1>4, <1>8, <3>1, <3>3, <3>5
      <4>3. n - Len(P) \in X
        BY <4>1, <4>2
      <4> QED
        BY <4>2, <4>3
    <3> QED
      BY <1>4, <1>8, <3>4, <3>5
  <2>6. A \in SUBSET (S \cup Y)
    BY <2>5
  <2> HIDE DEF B, X, Y
  <2>7. /\ IsFiniteSet(S \cup Y) /\ Cardinality(Y) \in Nat /\ Cardinality(S \cap Y) \in Nat
        /\ Cardinality(S \cup Y) = Cardinality(S) + Cardinality(Y) - Cardinality(S \cap Y)
    <3>1. IsFiniteSet(S \cap Y)
      BY <1>6, FS_Intersection
    <3> QED
      BY <1>6, <2>4, <3>1, FS_Union, FS_CardinalityType
  <2>8. IsFiniteSet(A) /\ Cardinality(A) <= Cardinality(S \cup Y)
    BY <2>6, <2>7, FS_Subset
  <2>9. Cardinality(A) \in Nat
    BY <2>8, FS_CardinalityType
  <2> QED
    BY <1>6, <2>1, <2>4, <2>7, <2>8, <2>9
<1>13. On(P1, c) \/ On(W1, c)
  BY <1>3, PlaceOfIs DEF P1, W1
<1>14. Cardinality(A) \in Nat /\ Cardinality(A) < PlaceOf(P1, W1, c)
  BY <1>11, <1>12, <1>13 DEF On
<1> QED
  BY <1>14 DEF A, Q, P1, W1

LEMMA LoginKeepsOrder ==
    ASSUME WaitInv, NEW c \in Clients, ClientLogin(c)
    PROVE  OrderKept
<1> DEFINE P  == Cleaned(priorityWaitList)
           W  == Cleaned(waitList)
           ps == prioritySize - (Len(priorityWaitList) - Len(P))
           ws == waitSize - (Len(waitList) - Len(W))
           L  == priorityWaitList
           M  == waitList
<1>0. now \in Nat /\ now \in Int
  BY WaitListAssumption DEF WaitInv, WaitListAssumption
<1>1. Lists(L, M) /\ L \in Seq(Entry) /\ M \in Seq(Entry)
  BY DEF WaitInv, WaitOK, Lists
<1>2. WaitOK(P, W, ps, ws, playersOnline, expected)
  BY CleaningKeeps DEF WaitInv
<1>3. /\ P \in Seq(Entry) /\ Sub(P, L) /\ W \in Seq(Entry) /\ Sub(W, M)
      /\ \A n \in DOMAIN L : L[n].timeout > now => On(P, L[n].client)
      /\ \A n \in DOMAIN M : M[n].timeout > now => On(W, M[n].client)
  BY <1>1, CleanedIs
<1>4. /\ KeepsOrder(L, P) /\ KeepsOrder(M, W) /\ NoneMoves(L, W) /\ NoneMoves(M, P) /\ Lists(P, W)
  BY <1>1, <1>3, SubsKeepOrder
<1>5. c \notin playersOnline
  BY ClientLoginIs
<1>6. \/ AdmittedAtOnce(c)
      \/ /\ c \notin Staff
         /\ \/ AdmittedFrom(c, P, W, ps, ws) \/ RefreshedOn(c, P, W, ps, ws)
            \/ PremiumAdded(c, P, W, ps, ws) \/ RegularAdded(c, P, W, ps, ws)
  BY ClientLoginIs
<1>7. Lists(priorityWaitList', waitList')
  BY WaitStep DEF WaitInv, WaitOK, WaitNext
<1>8. Apart(P) /\ Apart(W)
  BY <1>4 DEF Lists
<1> HIDE DEF P, W, ps, ws
<1>9. ASSUME PlaceOf(P, W, c) = 0
      PROVE  /\ \A n \in DOMAIN L : L[n].timeout > now => L[n].client # c
             /\ \A n \in DOMAIN M : M[n].timeout > now => M[n].client # c
  <2>1. ASSUME NEW n \in DOMAIN P, P[n].client = c PROVE FALSE
    <3>1. PlaceOf(P, W, c) = n
      BY <1>4, <2>1, PlaceOfIs
    <3> QED
      BY <1>3, <1>9, <3>1
  <2>2. ASSUME NEW n \in DOMAIN W, W[n].client = c PROVE FALSE
    <3>1. PlaceOf(P, W, c) = Len(P) + n
      BY <1>4, <2>2, PlaceOfIs
    <3> QED
      BY <1>3, <1>9, <3>1
  <2>3. ~On(P, c) /\ ~On(W, c)
    BY <2>1, <2>2 DEF On
  <2> QED
    BY <1>3, <2>3
<1>10. /\ KeepsOrder(L, priorityWaitList') /\ KeepsOrder(M, waitList')
       /\ NoneMoves(L, waitList') /\ NoneMoves(M, priorityWaitList')
  <2>1. CASE AdmittedAtOnce(c)
    <3>1. priorityWaitList' = L /\ waitList' = M
      BY <2>1 DEF AdmittedAtOnce
    <3>2. Sub(L, L) /\ Sub(M, M)
      <4>1. ASSUME NEW K \in Seq(Entry) PROVE Sub(K, K)
        <5> DEFINE id == [n \in DOMAIN K |-> n]
        <5>1. id \in [DOMAIN K -> DOMAIN K] /\ \A n \in DOMAIN K : id[n] = n
          OBVIOUS
        <5> HIDE DEF id
        <5> QED
          BY <5>1 DEF Sub
      <4> QED
        BY <1>1, <4>1
    <3>3. KeepsOrder(L, L) /\ KeepsOrder(M, M) /\ NoneMoves(L, M) /\ NoneMoves(M, L)
      BY <1>1, <3>2, SubsKeepOrder
    <3> QED
      BY <3>1, <3>3
  <2>2. ASSUME NEW P1 \in Seq(Entry), NEW W1 \in Seq(Entry), Sub(P1, P), Sub(W1, W),
               priorityWaitList' = P1, waitList' = W1
        PROVE  /\ KeepsOrder(L, priorityWaitList') /\ KeepsOrder(M, waitList')
               /\ NoneMoves(L, waitList') /\ NoneMoves(M, priorityWaitList')
    <3>1. Sub(P1, L) /\ Sub(W1, M)
      BY <1>1, <1>3, <2>2, SubOfSub
    <3>2. KeepsOrder(L, P1) /\ KeepsOrder(M, W1) /\ NoneMoves(L, W1) /\ NoneMoves(M, P1)
      BY <1>1, <3>1, SubsKeepOrder
    <3> QED
      BY <2>2, <3>2
  <2>3. CASE AdmittedFrom(c, P, W, ps, ws)
    <3>1. /\ Without(P, c) \in Seq(Entry) /\ Sub(Without(P, c), P)
          /\ Without(W, c) \in Seq(Entry) /\ Sub(Without(W, c), W)
      BY <1>3, <1>8, WithoutIs
    <3> QED
      BY <2>2, <2>3, <3>1 DEF AdmittedFrom
  <2>4. CASE RefreshedOn(c, P, W, ps, ws)
    <3> DEFINE t == now + GetTimeout(PlaceOf(P, W, c))
    <3>1. t \in Int
      BY <1>0, <1>2, <1>5, <2>4, OfRefreshed DEF RefreshedOn
    <3>2. priorityWaitList' = Refreshed(P, c, t) /\ waitList' = Refreshed(W, c, t)
      BY <2>4 DEF RefreshedOn
    <3> HIDE DEF t
    <3>3. /\ Refreshed(P, c, t) \in Seq(Entry) /\ Sub(Refreshed(P, c, t), P)
          /\ Refreshed(W, c, t) \in Seq(Entry) /\ Sub(Refreshed(W, c, t), W)
      BY <1>3, <3>1, RefreshedIs
    <3> QED
      BY <2>2, <3>2, <3>3
  <2>5. CASE c \notin Staff /\ PremiumAdded(c, P, W, ps, ws)
    <3> DEFINE e == [client |-> c, timeout |-> now + GetTimeout(ps + 1)]
    <3>1. e \in Entry
      BY <1>0, <1>2, <1>5, <2>5, PremiumQueues DEF PremiumAdded
    <3>2. e.client = c /\ priorityWaitList' = Append(P, e) /\ waitList' = W
      BY <2>5 DEF PremiumAdded
    <3> HIDE DEF e
    <3>3. KeepsOrder(L, Append(P, e)) /\ NoneMoves(M, Append(P, e))
      BY <1>3, <1>4, <1>9, <2>5, <3>1, <3>2, AppendKeepsOrder, AppendMovesNone DEF PremiumAdded
    <3> QED
      BY <1>4, <3>2, <3>3
  <2>6. CASE c \notin Staff /\ RegularAdded(c, P, W, ps, ws)
    <3> DEFINE e == [client |-> c, timeout |-> now + GetTimeout(ps + ws + 1)]
    <3>1. e \in Entry
      BY <1>0, <1>2, <1>5, <2>6, RegularQueues DEF RegularAdded
    <3>2. e.client = c /\ priorityWaitList' = P /\ waitList' = Append(W, e)
      BY <2>6 DEF RegularAdded
    <3> HIDE DEF e
    <3>3. KeepsOrder(M, Append(W, e)) /\ NoneMoves(L, Append(W, e))
      BY <1>3, <1>4, <1>9, <2>6, <3>1, <3>2, AppendKeepsOrder, AppendMovesNone DEF RegularAdded
    <3> QED
      BY <1>4, <3>2, <3>3
  <2> QED
    BY <1>6, <2>1, <2>3, <2>4, <2>5, <2>6
<1>11. KeepsOrder(Queue, Queue')
  <2>1. KeepsOrder(L \o M, priorityWaitList' \o waitList')
    BY <1>1, <1>7, <1>10, OrderOfQueue
  <2> QED
    BY <2>1 DEF Queue
<1> QED
  BY <1>11 DEF KeepsOrder, OrderKept

LEMMA LoginLeavesRoom ==
    ASSUME WaitInv, NEW c \in Clients, ClientLogin(c)
    PROVE  RoomForThoseAhead
<1> DEFINE P  == Cleaned(priorityWaitList)
           W  == Cleaned(waitList)
           ps == prioritySize - (Len(priorityWaitList) - Len(P))
           ws == waitSize - (Len(waitList) - Len(W))
<1>0. now \in Nat
  BY WaitListAssumption DEF WaitInv, WaitListAssumption
<1>1. Lists(priorityWaitList, waitList) /\ playersOnline \subseteq Clients
  BY DEF WaitInv, WaitOK
<1>2. c \notin playersOnline
  BY ClientLoginIs
<1>3. \/ AdmittedAtOnce(c)
      \/ /\ c \notin Staff
         /\ \/ AdmittedFrom(c, P, W, ps, ws) \/ RefreshedOn(c, P, W, ps, ws)
            \/ PremiumAdded(c, P, W, ps, ws) \/ RegularAdded(c, P, W, ps, ws)
  BY ClientLoginIs
<1>4. IsFiniteSet(playersOnline) /\ Cardinality(playersOnline) \in Nat
      /\ Cardinality(playersOnline \cup {c}) = Cardinality(playersOnline) + 1
  <2>1. IsFiniteSet(playersOnline)
    BY <1>1, FS_Subset, WaitListAssumption DEF WaitListAssumption
  <2> QED
    BY <1>2, <2>1, FS_AddElement, FS_CardinalityType
<1> HIDE DEF P, W, ps, ws
<1> SUFFICES ASSUME NEW d \in (playersOnline' \ playersOnline) \ Staff
             PROVE  Cardinality(playersOnline') + Cardinality(Ahead(Queue, d)) <= MaxPlayers
  BY DEF RoomForThoseAhead, Ahead
<1>5. d = c /\ playersOnline' = playersOnline \cup {c} /\ c \notin Staff
  BY <1>3 DEF AdmittedAtOnce, AdmittedFrom, RefreshedOn, PremiumAdded, RegularAdded
<1>6. MaxPlayers \in Nat
  BY WaitListAssumption DEF WaitListAssumption
<1>7. CASE AdmittedAtOnce(c)
  <2>1. Queue = <<>> /\ Cardinality(playersOnline) < MaxPlayers
    BY <1>5, <1>7 DEF AdmittedAtOnce, Queue
  <2>2. Ahead(Queue, d) = {} /\ Cardinality({}) = 0
    BY <2>1, FS_EmptySet DEF Ahead
  <2> DEFINE o == Cardinality(playersOnline)
  <2>3. o \in Nat /\ o < MaxPlayers
    BY <1>4, <2>1
  <2>4. Cardinality(playersOnline') = o + 1
    BY <1>4, <1>5
  <2>5. Cardinality(Ahead(Queue, d)) = 0
    BY <2>2
  <2> HIDE DEF o
  <2>6. (o + 1) + 0 <= MaxPlayers
    BY <1>6, <2>3
  <2> QED
    BY <2>4, <2>5, <2>6
<1>8. CASE AdmittedFrom(c, P, W, ps, ws)
  <2>1. /\ PlaceOf(P, W, c) # 0
        /\ Cardinality(playersOnline) + PlaceOf(P, W, c) <= MaxPlayers
    BY <1>8 DEF AdmittedFrom, Admits
  <2>2. /\ Cardinality(Ahead(Queue, c)) \in Nat
        /\ Cardinality(Ahead(Queue, c)) < PlaceOf(P, W, c)
    BY <1>0, <1>1, <2>1, AheadOfIt DEF Queue, P, W
  <2>3. PlaceOf(P, W, c) \in Int
    <3>1. Lists(P, W)
      <4>1. priorityWaitList \in Seq(Entry) /\ waitList \in Seq(Entry)
        BY <1>1 DEF Lists
      <4>2. /\ P \in Seq(Entry) /\ Sub(P, priorityWaitList)
            /\ W \in Seq(Entry) /\ Sub(W, waitList)
        BY <4>1, CleanedIs DEF P, W
      <4> QED
        BY <1>1, <4>2, SubsKeepOrder
    <3>2. P \in Seq(Entry) /\ W \in Seq(Entry)
      BY <3>1 DEF Lists
    <3>3. Len(P) \in Nat /\ DOMAIN P \subseteq Nat /\ DOMAIN W \subseteq Nat
      BY <3>2
    <3>4. On(P, c) \/ On(W, c)
      BY <2>1, <3>1, PlaceOfIs
    <3>5. CASE On(P, c)
      BY <3>1, <3>3, <3>5, PlaceOfIs DEF On
    <3>6. CASE On(W, c)
      BY <3>1, <3>3, <3>6, PlaceOfIs DEF On
    <3> QED
      BY <3>4, <3>5, <3>6
  <2> DEFINE o == Cardinality(playersOnline)
             a == Cardinality(Ahead(Queue, c))
             s == PlaceOf(P, W, c)
  <2>4. o \in Nat /\ a \in Nat /\ s \in Int /\ o + s <= MaxPlayers /\ a < s
    BY <1>4, <2>1, <2>2, <2>3
  <2>5. Cardinality(playersOnline') = o + 1
    BY <1>4, <1>5
  <2>6. Cardinality(Ahead(Queue, d)) = a
    BY <1>5
  <2> HIDE DEF o, a, s
  <2>7. (o + 1) + a <= MaxPlayers
    BY <1>6, <2>4
  <2> QED
    BY <2>5, <2>6, <2>7
<1>9. CASE ~AdmittedAtOnce(c) /\ ~AdmittedFrom(c, P, W, ps, ws)
  BY <1>3, <1>9 DEF RefreshedOn, PremiumAdded, RegularAdded
<1> QED
  BY <1>7, <1>8, <1>9

LEMMA OthersKeepOrder ==
    ASSUME WaitInv, UNCHANGED <<priorityWaitList, waitList>>, playersOnline' \subseteq playersOnline
    PROVE  RoomForThoseAhead /\ OrderKept
<1>1. RoomForThoseAhead
  BY DEF RoomForThoseAhead
<1>2. Lists(priorityWaitList, waitList)
  BY DEF WaitInv, WaitOK
<1>3. Apart(Queue) /\ Queue' = Queue
  BY <1>2, QueueOf DEF Queue
<1>4. OrderKept
  BY <1>3 DEF OrderKept, Apart
<1> QED
  BY <1>1, <1>4

-----------------------------------------------------------------------------
(* The lists, the two sizes that std::list reports, the players online and *)
(* the retries that clients were told agree, whoever asks and when.        *)
THEOREM WaitListInvariant == WaitSpec => []WaitInv
<1>1. WaitInit => WaitInv
  BY WaitStart
<1>2. WaitInv /\ [WaitNext]_waitVars => WaitInv'
  BY WaitStep
<1> QED
  BY <1>1, <1>2, PTL DEF WaitSpec

(* A client has one place, and keeps it if it retries when it was told to  *)
(* (WaitingList::clientLogin, findClient, cleanupList), for any number of  *)
(* clients and any times to the retry that do not fall with the place.     *)
THEOREM EachHasOnePlace == WaitSpec => []OnePlace
<1>1. WaitInv => OnePlace
  BY WaitInvIsOnePlace
<1> QED
  BY <1>1, WaitListInvariant, PTL

(* Whoever enters leaves room for those who wait before, and of two who    *)
(* wait the one ahead stays ahead, at every step.                          *)
THEOREM NobodyIsOvertaken == WaitSpec => NobodyOvertakes
<1>1. WaitInv /\ [WaitNext]_waitVars => [RoomForThoseAhead /\ OrderKept]_waitVars
  <2> SUFFICES ASSUME WaitInv, WaitNext PROVE RoomForThoseAhead /\ OrderKept
    OBVIOUS
  <2>1. ASSUME NEW c \in Clients, ClientLogin(c) PROVE RoomForThoseAhead /\ OrderKept
    BY <2>1, LoginKeepsOrder, LoginLeavesRoom
  <2>2. ASSUME NEW c \in Clients, LeaveGame(c) PROVE RoomForThoseAhead /\ OrderKept
    BY <2>2, OthersKeepOrder DEF LeaveGame
  <2>3. CASE Tick
    BY <2>3, OthersKeepOrder DEF Tick
  <2> QED
    BY <2>1, <2>2, <2>3 DEF WaitNext
<1> QED
  BY <1>1, WaitListInvariant, PTL DEF WaitSpec, NobodyOvertakes
=============================================================================
