------------------------------ MODULE Monsters ------------------------------
(***************************************************************************)
(* Creatures in the world: who monsters are awake for, which creatures     *)
(* Game::checkCreatures() visits, and how long a creature is kept in       *)
(* memory (src/server/src/monster.cpp, creature.cpp, game.cpp).            *)
(*                                                                         *)
(* A monster that has no opponent in sight sleeps: it is taken off the     *)
(* lists of checks, and only a check can move it or let it die.  Whatever  *)
(* brings an opponent into its sight must wake it, and whatever hurts it   *)
(* must wake it before its health is gone.                                 *)
(*                                                                         *)
(* Creatures are counted references: held by the map, by a list of checks, *)
(* by the target lists of monsters, by a master, and by ToReleaseCreatures *)
(* until cleanup().  attackedCreature and master are plain pointers.       *)
(*                                                                         *)
(* Health is 0 or 1.  friendList (kept like targetList, read by scripts    *)
(* only) and followCreature (set and dropped with attackedCreature) are    *)
(* left out; Place is closer than the 30 squares summons follow.           *)
(***************************************************************************)
EXTENDS Integers, Sequences, FiniteSets, SequencesExt, FiniteSetsExt

CONSTANTS Wild,         \* monsters
          Players,
          Ignored,      \* players with PlayerFlag_IgnoredByMonsters
          Places,       \* squares, within the range of spectators of each other
          Near,         \* the pairs of squares Creature::canSee() relates
          Vectors,      \* EVENT_CREATURECOUNT
          None

Creatures == Wild \cup Players

ASSUME MonstersAssumption ==
    /\ Wild \cap Players = {} /\ None \notin Creatures /\ Ignored \subseteq Players
    /\ Vectors \in Nat \ {0}
    /\ \A p, q \in Places : <<p, q>> \in Near => <<q, p>> \in Near

VARIABLES
    creature,       \* what each Creature object holds
    checks,         \* checkCreatureLists
    toRelease,      \* ToReleaseCreatures
    pass            \* where checkCreatures() is: list and position, or <<>>

monsterVars == <<creature, checks, toRelease, pass>>

\* The objects, the lists of checks and the list of releases, as handlers
\* called one after the other in one task see them; pick is the list
\* uniform_random() chooses for a creature.
State == [of |-> creature, checks |-> checks, toRelease |-> toRelease]

Unborn ==
    [life |-> "none", health |-> 0, place |-> None, master |-> None,
     summons |-> {}, targets |-> {}, attacked |-> None, idle |-> FALSE,
     creatureCheck |-> FALSE, refs |-> 0]

-----------------------------------------------------------------------------
(***************************************************************************)
(* Reading.                                                                *)
(***************************************************************************)
InWorld(S) == {x \in Creatures : S.of[x].life = "world"}
InVector(S, x) == \E k \in 1..Vectors : x \in ToSet(S.checks[k])
Sees(S, x, y) == <<S.of[x].place, S.of[y].place>> \in Near
HeldByPlayer(S, x) == S.of[x].master \in Players

IsOpponent(S, x, y) ==
    IF HeldByPlayer(S, x) THEN y # S.of[x].master
    ELSE y \in Players \ Ignored \/ HeldByPlayer(S, y)

(***************************************************************************)
(* Writing.  The last reference deletes the object: ~Monster() gives up    *)
(* its targets and ~Creature() its summons, which may be the last          *)
(* references to those.                                                    *)
(***************************************************************************)
Refer(S, x, n) == [S EXCEPT !.of[x].refs = @ + n]
With(S, X, Op(_, _)) == FoldSet(LAMBDA x, T : Op(T, x), S, X)
Drop(S, x) == Refer(S, x, -1)

DeletedOne(S, x) ==
    LET own == S.of[x]
        T == [S EXCEPT !.of = [y \in Creatures |->
                 IF y = x THEN [own EXCEPT !.life = "freed", !.targets = {}, !.summons = {}]
                 ELSE IF y \in own.summons
                 THEN [@[y] EXCEPT !.master = None, !.attacked = None] ELSE @[y]]]
    IN  With(With(T, own.targets, Drop), own.summons, Drop)

\* The deletion of one can be that of another, but of each only once.
Deleted(S) ==
    LET Unreferenced(T) ==
            {x \in Creatures : T.of[x].refs = 0 /\ T.of[x].life \notin {"none", "freed"}}
        Delete(T, x) == With(T, Unreferenced(T), DeletedOne)
    IN  IF Unreferenced(S) = {} THEN S ELSE With(S, Creatures, Delete)

AddCreatureCheck_listed(S, x, pick) ==
    IF InVector(S, x) THEN S
    ELSE Refer([S EXCEPT !.of[x].creatureCheck = TRUE, !.checks[pick[x]] = Append(@, x)], x, 1)

AddCreatureCheck(S, x, pick) ==
    LET T == [S EXCEPT !.of[x].creatureCheck = TRUE]
    IN  IF InVector(S, x) THEN T
        ELSE Refer([T EXCEPT !.checks[pick[x]] = Append(@, x)], x, 1)

RemoveCreatureCheck(S, x) ==
    IF InVector(S, x) THEN [S EXCEPT !.of[x].creatureCheck = FALSE] ELSE S

SetIdle_dead(S, x, idle, pick) ==
    IF S.of[x].life = "removed" THEN S
    ELSE IF ~idle THEN AddCreatureCheck([S EXCEPT !.of[x].idle = FALSE], x, pick)
    ELSE LET T == [S EXCEPT !.of[x].idle = TRUE, !.of[x].targets = {}]
         IN  RemoveCreatureCheck(With(T, S.of[x].targets, Drop), x)

SetIdle(S, x, idle, pick) ==
    IF S.of[x].life = "removed" \/ S.of[x].health = 0 THEN S
    ELSE IF ~idle THEN AddCreatureCheck([S EXCEPT !.of[x].idle = FALSE], x, pick)
    ELSE LET T == [S EXCEPT !.of[x].idle = TRUE, !.of[x].targets = {}]
         IN  RemoveCreatureCheck(With(T, S.of[x].targets, Drop), x)

UpdateIdleStatus(S, x, pick) ==
    SetIdle(S, x, S.of[x].master = None /\ S.of[x].targets = {}, pick)

AddTarget_again(S, x, y) ==
    Refer([S EXCEPT !.of[x].targets = @ \cup {y}], y, 1)

AddTarget(S, x, y) ==
    IF y \in S.of[x].targets THEN S
    ELSE Refer([S EXCEPT !.of[x].targets = @ \cup {y}], y, 1)

RemoveTarget(S, x, y) ==
    IF y \notin S.of[x].targets THEN S
    ELSE Drop([S EXCEPT !.of[x].targets = @ \ {y}], y)

OnCreatureFound(S, x, y, pick) ==
    UpdateIdleStatus(IF IsOpponent(S, x, y) THEN AddTarget(S, x, y) ELSE S, x, pick)

OnCreatureLeave(S, x, y, pick) ==
    IF ~IsOpponent(S, x, y) THEN S
    ELSE LET T == RemoveTarget(S, x, y)
         IN  IF T.of[x].targets = {} THEN UpdateIdleStatus(T, x, pick) ELSE T

UpdateTargetList(S, x, pick) ==
    LET lost == {y \in S.of[x].targets : S.of[y].health = 0 \/ ~Sees(S, x, y)}
        T == With(S, lost, LAMBDA U, y : RemoveTarget(U, x, y))
        seen == {y \in InWorld(S) \ {x} : Sees(S, x, y)}
    IN  With(T, seen, LAMBDA U, y : OnCreatureFound(U, x, y, pick))

\* setAttackedCreature(), and what it orders the summons to do.
SetAttackedCreature(S, x, y) ==
    LET Reach(T, z) == [T EXCEPT !.of[z].attacked = IF y # None /\ ~Sees(S, z, y)
                                                    THEN None ELSE y]
        T == Reach(S, x)
    IN  IF y # None /\ T.of[x].attacked = None THEN T ELSE With(T, S.of[x].summons, Reach)

\* selectTarget(): isTarget() refuses a creature that has been removed.
SelectTarget(S, x, y) ==
    IF S.of[y].life = "world" /\ y \in S.of[x].targets
    THEN SetAttackedCreature(S, x, y) ELSE S

AddSummon(S, x, y) ==
    Refer([S EXCEPT !.of[x].summons = @ \cup {y}, !.of[y].master = x], y, 1)

RemoveSummon(S, x, y) ==
    IF y \notin S.of[x].summons THEN S
    ELSE Drop([S EXCEPT !.of[x].summons = @ \ {y}, !.of[y].master = None], y)

\* changeHealth() of a monster, "in case a player with ignore flag set
\* attacks the monster".
Killed_asleep(S, x, pick) == [S EXCEPT !.of[x].health = 0]

Killed(S, x, pick) ==
    LET T == IF x \in Wild THEN SetIdle(S, x, FALSE, pick) ELSE S
    IN  [T EXCEPT !.of[x].health = 0]

-----------------------------------------------------------------------------
(***************************************************************************)
(* The calls a creature's appearance, moves and removal make on the        *)
(* spectators.  The order of the spectators is that of the map's leaves:   *)
(* first is the set of those before the creature itself.                   *)
(***************************************************************************)
Place(S, x, p, pick) ==
    LET T == Refer([S EXCEPT !.of[x].place = p, !.of[x].life = "world"], x, 1)
        Own(U) == IF x \in Wild THEN UpdateIdleStatus(UpdateTargetList(U, x, pick), x, pick)
                  ELSE U
        Found(U, y) == OnCreatureFound(U, y, x, pick)
    IN  AddCreatureCheck(With(Own(T), InWorld(S) \cap Wild, Found), x, pick)

OnRemoveCreature(S, y, x, pick) ==
    LET T == IF S.of[y].attacked = x THEN SetAttackedCreature(S, y, None) ELSE S
    IN  IF y \in Wild THEN OnCreatureLeave(T, y, x, pick) ELSE T

OnRemoveSelf(S, x, pick) ==
    LET m == S.of[x].master
        T == IF m # None /\ S.of[m].life = "world" THEN RemoveSummon(S, m, x) ELSE S
    IN  IF x \in Wild THEN SetIdle(T, x, TRUE, pick) ELSE T

RemovedOne(S, x, first, pick) ==
    LET others == InWorld(S) \ {x}
        Tell(U, y) == OnRemoveCreature(U, y, x, pick)
        T == With(OnRemoveSelf(With(S, others \cap first, Tell), x, pick), others \ first, Tell)
        m == T.of[x].master
        U == IF m # None /\ T.of[m].life # "removed" THEN [T EXCEPT !.of[x].master = None] ELSE T
    IN  RemoveCreatureCheck([U EXCEPT !.of[x].life = "removed",
                                      !.toRelease = Append(@, x)], x)

\* Game::removeCreature(), with the summons of the one who leaves.
Removed(S, x, first, pick) ==
    LET T == RemovedOne(S, x, first, pick)
    IN  With(T, {y \in T.of[x].summons : T.of[y].life = "world"},
             LAMBDA U, y : RemovedOne(U, y, first, pick))

\* The summons of a monster that dies or is convinced die.
SummonsKilled(S, x, pick) ==
    LET Lose(U, y) == Drop([Killed(U, y, pick) EXCEPT !.of[y].master = None], y)
    IN  [With(S, S.of[x].summons, Lose) EXCEPT !.of[x].summons = {}]

\* onDeath()
Died(S, x, first, pick) ==
    LET T == SetAttackedCreature(S, x, None)
        U == SummonsKilled(T, x, pick)
        V == With([U EXCEPT !.of[x].targets = {}], U.of[x].targets, Drop)
        W == IF x \in Wild THEN V ELSE S
        m == W.of[x].master
    IN  Removed(IF m # None THEN RemoveSummon(W, m, x) ELSE W, x, first, pick)

OnCreatureMove(S, y, x, from, pick) ==
    LET T == IF S.of[y].attacked = x /\ ~Sees(S, y, x) THEN SetAttackedCreature(S, y, None)
             ELSE S
        saw == <<S.of[y].place, from>> \in Near
        U == CASE Sees(T, y, x) /\ ~saw -> OnCreatureFound(T, y, x, pick)
               [] ~Sees(T, y, x) /\ saw -> OnCreatureLeave(T, y, x, pick)
               [] OTHER -> T
        V == UpdateIdleStatus(U, y, pick)
    IN  IF y \notin Wild THEN T
        ELSE IF V.of[y].master = None /\ V.of[y].attacked = None /\ IsOpponent(V, y, x)
        THEN SelectTarget(V, y, x) ELSE V

Moved(S, x, p, pick) ==
    LET T == [S EXCEPT !.of[x].place = p]
        a == T.of[x].attacked
        U == IF a # None /\ ~Sees(T, x, a) THEN SetAttackedCreature(T, x, None) ELSE T
        Own == IF x \in Wild THEN UpdateIdleStatus(UpdateTargetList(U, x, pick), x, pick) ELSE U
    IN  With(Own, InWorld(S) \ {x}, LAMBDA W, y : OnCreatureMove(W, y, x, S.of[x].place, pick))
-----------------------------------------------------------------------------
(***************************************************************************)
(* Tasks.  A task runs when no check is under way; the objects nobody      *)
(* refers to any more are deleted within it.                               *)
(***************************************************************************)
Picks == [Creatures -> 1..Vectors]
Resting == pass[2] = 0

Becomes(S) ==
    LET T == Deleted(S)
    IN  /\ creature' = T.of
        /\ checks' = T.checks
        /\ toRelease' = T.toRelease

Task(S) == Resting /\ Becomes(S) /\ UNCHANGED pass

Here(x) == creature[x].life = "world"
Born(S, x) == [S EXCEPT !.of[x].health = 1]

MonstersInit ==
    /\ creature = [x \in Creatures |-> Unborn]
    /\ checks = [k \in 1..Vectors |-> <<>>]
    /\ toRelease = <<>>
    /\ pass = <<1, 0>>

\* A player logs in, or a spawn or a raid places a monster.
PlaceCreature(x) ==
    /\ creature[x].life = "none"
    /\ \E p \in Places, pick \in Picks : Task(Place(Born(State, x), x, p, pick))

Move(x) ==
    /\ Here(x)
    /\ \E p \in Places \ {creature[x].place}, pick \in Picks : Task(Moved(State, x, p, pick))

\* A logout, a despawn, or a script that removes the creature.
RemoveCreature(x) ==
    /\ Here(x)
    /\ \E first \in SUBSET (InWorld(State) \ {x}), pick \in Picks :
          Task(Removed(State, x, first, pick))

\* A field, a spell or a blow takes the last health of a creature.
Hurt(x) ==
    /\ Here(x) /\ creature[x].health = 1
    /\ \E pick \in Picks : Task(Killed(State, x, pick))

SetAttacked(x, y) ==
    /\ Here(x) /\ x \in Players /\ y # x
    /\ (y # None => Here(y))
    /\ Task(SetAttackedCreature(State, x, y))

\* InstantSpell::SummonMonster() and Monster::onThinkDefense()
SummonPlaced(S, x, y, pick) ==
    Place(AddSummon(Born(S, y), x, y), y, S.of[x].place, pick)

SummonMonster(x, y) ==
    /\ Here(x) /\ x \in Players
    /\ y \in Wild /\ creature[y].life = "none"
    /\ \E pick \in Picks : Task(SummonPlaced(State, x, y, pick))

ConvinceCreature(x, y) ==
    /\ Here(x) /\ x \in Players
    /\ y \in Wild /\ Here(y) /\ creature[y].master # x
    /\ \E pick \in Picks :
          LET m == creature[y].master
              S == AddSummon(IF m # None THEN RemoveSummon(State, m, y) ELSE State, x, y)
              T == SummonsKilled(SetAttackedCreature(S, y, None), y, pick)
              Update(U, z) == UpdateIdleStatus(UpdateTargetList(U, z, pick), z, pick)
          IN  Task(With(Update(T, y), InWorld(T) \cap Wild, Update))

-----------------------------------------------------------------------------
(***************************************************************************)
(* Game::checkCreatures().  The list grows at its end while it is gone     *)
(* through: the end of a std::list stays the end.                          *)
(***************************************************************************)
Current == checks[pass[1]][pass[2]]

CheckBegins ==
    /\ Resting
    /\ pass' = <<pass[1], 1>>
    /\ UNCHANGED <<creature, checks, toRelease>>

InPass == ~Resting /\ pass[2] <= Len(checks[pass[1]])
Goes == pass' = <<pass[1], pass[2] + 1>>

\* onThink() of a monster that is awake: a summon helps its master, a wild
\* monster picks one of its targets.
Thinks(S, x, target, pick) ==
    LET T == UpdateIdleStatus(S, x, pick)
        own == T.of[x]
        order == IF own.master = None THEN target ELSE S.of[own.master].attacked
    IN  IF x \notin Wild THEN S
        ELSE IF own.idle \/ own.attacked # None \/ order = None THEN T
        ELSE SelectTarget(T, x, order)

CheckThink ==
    /\ InPass
    /\ LET x == Current IN
          /\ creature[x].creatureCheck /\ creature[x].health > 0
          /\ \E pick \in Picks, target \in creature[x].targets \cup {None} :
                LET S == Thinks(State, x, target, pick)
                    y == S.of[x].attacked
                IN  \/ Becomes(S)
                    \/ /\ y \notin {None, x}
                       /\ Becomes(Killed(S, y, pick))
                    \/ /\ x \in Wild /\ ~S.of[x].idle /\ S.of[x].master = None
                       /\ \E z \in Wild : /\ creature[z].life = "none"
                                          /\ Becomes(SummonPlaced(S, x, z, pick))
    /\ Goes

CheckDeath ==
    /\ InPass
    /\ creature[Current].creatureCheck /\ creature[Current].health = 0
    /\ \E first \in SUBSET (InWorld(State) \ {Current}), pick \in Picks :
          Becomes(Died(State, Current, first, pick))
    /\ Goes

CheckErase ==
    /\ InPass
    /\ ~creature[Current].creatureCheck
    /\ checks' = [checks EXCEPT ![pass[1]] = RemoveAt(@, pass[2])]
    /\ toRelease' = Append(toRelease, Current)
    /\ UNCHANGED <<creature, pass>>

\* The end of the list, and Game::cleanup().
CheckEnds ==
    /\ ~Resting /\ ~InPass
    /\ Becomes([FoldSeq(LAMBDA x, S : Drop(S, x), State, toRelease) EXCEPT !.toRelease = <<>>])
    /\ pass' = <<(pass[1] % Vectors) + 1, 0>>

MonstersNext ==
    \/ \E x \in Creatures : PlaceCreature(x) \/ Move(x) \/ RemoveCreature(x) \/ Hurt(x)
    \/ \E x \in Players, y \in Creatures \cup {None} : SetAttacked(x, y)
    \/ \E x \in Players, y \in Wild : SummonMonster(x, y) \/ ConvinceCreature(x, y)
    \/ CheckBegins \/ CheckThink \/ CheckDeath \/ CheckErase \/ CheckEnds

MonstersSpec == MonstersInit /\ [][MonstersNext]_monsterVars

-----------------------------------------------------------------------------
(***************************************************************************)
(* Properties.                                                             *)
(***************************************************************************)

(***************************************************************************)
(* A monster of its own that lives is awake, has the check that lets it    *)
(* act, and has in its targetList every opponent in its sight, whoever     *)
(* came, went, was summoned, convinced or logged out before.               *)
(***************************************************************************)
AwakeInSight ==
    \A x \in InWorld(State) \cap Wild, y \in InWorld(State) :
        (/\ x # y /\ creature[x].health > 0 /\ creature[x].master = None
         /\ IsOpponent(State, x, y) /\ Sees(State, x, y))
        => y \in creature[x].targets /\ ~creature[x].idle /\ creature[x].creatureCheck

(***************************************************************************)
(* A creature object has as many references as there are places that hold  *)
(* one, and is deleted when there is none: not before it has left the      *)
(* lists of checks, the target lists and its master.  What a creature in   *)
(* the world attacks is in the world, and its master, a plain pointer too, *)
(* still exists and lists it.  One whose health is gone is on a list of    *)
(* checks with the mark that makes the check call onDeath(): none stays in *)
(* the world dead.                                                         *)
(***************************************************************************)
Holders(x) ==
    (IF Here(x) THEN 1 ELSE 0) + (IF InVector(State, x) THEN 1 ELSE 0)
    + Cardinality({i \in DOMAIN toRelease : toRelease[i] = x})
    + Cardinality({y \in Creatures : x \in creature[y].targets})
    + Cardinality({y \in Creatures : x \in creature[y].summons})

ReferencesExact ==
    \A x \in Creatures :
        /\ creature[x].refs = Holders(x)
        /\ creature[x].life \in {"world", "removed"} <=> creature[x].refs > 0
        /\ Here(x) => LET own == creature[x] IN
              /\ own.health = 0 => InVector(State, x) /\ own.creatureCheck
              /\ own.attacked # None => Here(own.attacked)
              /\ own.master # None => creature[own.master].life # "freed"
                                      /\ x \in creature[own.master].summons
=============================================================================
