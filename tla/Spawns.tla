------------------------------- MODULE Spawns -------------------------------
(***************************************************************************)
(* One spawn of monsters (src/server/src/spawn.cpp): its slots, the        *)
(* monsters that fill them, and the event that looks for empty slots.      *)
(* The event is not periodic: it is set when a monster of the spawn is     *)
(* removed, and checkSpawn() sets it again while a slot is empty.          *)
(*                                                                         *)
(* due says that the interval of a slot has passed since lastSpawn.        *)
(***************************************************************************)
EXTENDS Integers, FiniteSets, SequencesExt

CONSTANTS Beasts,       \* Monster objects
          Slots,        \* how many blocks spawnMap has
          RateSpawn,    \* RATE_SPAWN, how many one check fills
          Empty

ASSUME SpawnsAssumption ==
    Slots \in Nat \ {0} /\ RateSpawn \in Nat /\ Empty \notin Beasts

VARIABLES
    beast,          \* the objects: unborn, in the world, removed, or freed
    hasSpawn,       \* monster->spawn is set
    spawned,        \* spawnedMap
    due,            \* slots whose interval has passed
    watched,        \* slots with a player in sight
    checkSpawnEvent,\* an event is pending
    running,        \* Spawns::startup() was called and clear() was not
    unannounced     \* slots that lost their monster without a check (history)

spawnVars == <<beast, hasSpawn, spawned, due, watched, checkSpawnEvent, running, unannounced>>

Blocks == 1..Slots
Unplaced == {m \in Beasts : beast[m] = "none"}

SpawnsInit ==
    /\ beast = [m \in Beasts |-> "none"]
    /\ hasSpawn = [m \in Beasts |-> FALSE]
    /\ spawned = [i \in Blocks |-> Empty]
    /\ due = Blocks                         \* lastSpawn is 0
    /\ watched = {}
    /\ checkSpawnEvent = FALSE
    /\ running = FALSE
    /\ unannounced = {}

\* spawnMonster(), for the monsters in fills: a slot has one.
Filled(fills, given) ==
    /\ spawned' = [i \in Blocks |-> IF i \in DOMAIN fills THEN fills[i] ELSE given[i]]
    /\ beast' = [m \in Beasts |->
                    IF m \in Range(fills) THEN "world"
                    ELSE IF beast[m] = "removed" /\ m \notin Range(given) THEN "freed"
                    ELSE beast[m]]
    /\ hasSpawn' = [m \in Beasts |-> hasSpawn[m] \/ m \in Range(fills)]

\* A monster for each of the slots in S.
Fills(S) == {f \in [S -> Unplaced] : IsInjective(f)}

\* Spawns::startup(): a slot without room stays empty, and nothing is set.
Startup ==
    /\ ~running
    /\ running' = TRUE
    /\ \E S \in SUBSET Blocks : \E f \in Fills(S) :
          /\ Filled(f, spawned)
          /\ due' = due \ S
          /\ unannounced' = Blocks \ S
    /\ UNCHANGED <<watched, checkSpawnEvent>>

\* Monster::onRemoveCreature(): a death, a script, a summon that goes.
Lost(m) ==
    /\ running /\ beast[m] = "world"
    /\ beast' = [beast EXCEPT ![m] = IF m \in Range(spawned) THEN "removed" ELSE "freed"]
    /\ checkSpawnEvent' = (checkSpawnEvent \/ hasSpawn[m])
    /\ UNCHANGED <<hasSpawn, spawned, due, watched, running, unannounced>>

\* Monster::convinceCreature(): the spawn forgets the monster; a second
\* convincer finds spawn unset.
Convinced(m) ==
    /\ running /\ beast[m] = "world" /\ hasSpawn[m]
    /\ hasSpawn' = [hasSpawn EXCEPT ![m] = FALSE]
    /\ spawned' = [i \in Blocks |-> IF spawned[i] = m THEN Empty ELSE spawned[i]]
    /\ unannounced' = unannounced \cup {i \in Blocks : spawned[i] = m}
    /\ UNCHANGED <<beast, due, watched, checkSpawnEvent, running>>

IntervalPasses(i) ==
    /\ i \notin due /\ due' = due \cup {i}
    /\ UNCHANGED <<beast, hasSpawn, spawned, watched, checkSpawnEvent, running, unannounced>>

PlayerMoves(i) ==
    /\ watched' = IF i \in watched THEN watched \ {i} ELSE watched \cup {i}
    /\ UNCHANGED <<beast, hasSpawn, spawned, due, checkSpawnEvent, running, unannounced>>

(***************************************************************************)
(* checkSpawn(), with cleanup().  tried are the slots it calls             *)
(* spawnMonster() for, in their order and until RateSpawn have been tried; *)
(* a slot a player sees waits another interval.                            *)
(***************************************************************************)
Limit == IF RateSpawn = 0 THEN 1 ELSE RateSpawn

Again_never(given) == FALSE
Again(given) == \E i \in Blocks : given[i] = Empty

CheckSpawn ==
    /\ checkSpawnEvent /\ running
    /\ LET gone == {i \in Blocks : spawned[i] # Empty /\ beast[spawned[i]] = "removed"}
           given == [i \in Blocks |-> IF i \in gone THEN Empty ELSE spawned[i]]
           ripe == {i \in Blocks : given[i] = Empty /\ i \in due \ gone}
           clear == ripe \ watched
           tried == {i \in clear : Cardinality({j \in clear : j < i}) < Limit}
           reached == IF Cardinality(clear) < Limit THEN Blocks
                      ELSE {i \in Blocks : \E j \in tried : i <= j}
       IN  \E S \in SUBSET tried : \E f \in Fills(S) :
              /\ Filled(f, given)
              /\ due' = ((due \ gone) \ S) \ (ripe \cap watched \cap reached)
              /\ checkSpawnEvent' = Again([i \in Blocks |-> IF i \in S THEN f[i] ELSE given[i]])
    /\ unannounced' = {}
    /\ UNCHANGED <<watched, running>>

\* Spawns::clear(), with ~Spawn(), when the game shuts down.
Clear ==
    /\ running
    /\ running' = FALSE
    /\ checkSpawnEvent' = FALSE
    /\ hasSpawn' = [m \in Beasts |-> hasSpawn[m] /\ m \notin Range(spawned)]
    /\ beast' = [m \in Beasts |-> IF beast[m] = "removed" THEN "freed" ELSE beast[m]]
    /\ spawned' = [i \in Blocks |-> Empty]
    /\ due' = Blocks /\ unannounced' = {}
    /\ UNCHANGED watched

SpawnsNext ==
    \/ Startup /\ \A m \in Beasts : beast[m] = "none"
    \/ \E m \in Beasts : Lost(m) \/ Convinced(m)
    \/ \E i \in Blocks : IntervalPasses(i) \/ PlayerMoves(i)
    \/ CheckSpawn \/ Clear

SpawnsSpec == SpawnsInit /\ [][SpawnsNext]_spawnVars

-----------------------------------------------------------------------------
(***************************************************************************)
(* While the spawn runs, a slot whose monster has gone has a check         *)
(* pending, until it is filled again, whatever players watch it and        *)
(* however often placing a monster fails.  The exceptions are named:       *)
(* a monster that was convinced and a slot without room at start-up set no *)
(* check, so the slot stays empty until another monster of the spawn goes. *)
(* A monster points to the spawn just while it is listed there.            *)
(***************************************************************************)
SlotIsWatched ==
    running =>
        /\ \A i \in Blocks \ unannounced :
              spawned[i] = Empty \/ beast[spawned[i]] # "world" => checkSpawnEvent
        /\ \A m \in Beasts : beast[m] = "world" => (hasSpawn[m] <=> m \in Range(spawned))
=============================================================================
