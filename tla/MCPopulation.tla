---------------------------- MODULE MCPopulation -----------------------------
(***************************************************************************)
(* The instances of WaitList, Spawns and Monsters that TLC checks: players *)
(* who wait to enter the world, the monsters placed in it and what these   *)
(* do there.  The three have no state in common, so no step of one         *)
(* enables, disables or changes a step of another: a behaviour takes the   *)
(* steps of the one chosen at its start, and the others stay as they were. *)
(***************************************************************************)
EXTENDS WaitList, Spawns, Monsters, TLC

VARIABLE focus

\* Seconds to the next try from a place in the queue.
MCGetTime(slot) == IF slot < 2 THEN 1 ELSE 2

OwnSquare == {<<p, p>> : p \in Places}

MCInit ==
    /\ focus \in {"waitlist", "spawns", "monsters"}
    /\ WaitInit /\ SpawnsInit /\ MonstersInit

MCNext ==
    /\ UNCHANGED focus
    /\ \/ focus = "waitlist" /\ WaitNext /\ UNCHANGED <<spawnVars, monsterVars>>
       \/ focus = "spawns" /\ SpawnsNext /\ UNCHANGED <<waitVars, monsterVars>>
       \/ focus = "monsters" /\ MonstersNext /\ UNCHANGED <<waitVars, spawnVars>>

MCSpec == MCInit /\ [][MCNext]_<<waitVars, spawnVars, monsterVars, focus>>

Interchangeable ==
    Permutations(Premium) \cup Permutations(Clients \ (Premium \cup Staff))
    \cup Permutations(Wild)
=============================================================================
