--------------------------- MODULE SharedExperience ---------------------------
(***************************************************************************)
(* The shared experience of a party (party.cpp): the leader switches it on *)
(* (active); whether it is granted (enabled) is computed from the levels,  *)
(* places and recent fights of all members, and kept until an event makes  *)
(* the party compute it again.  The bonus is kept in the same way, from    *)
(* the vocations of those in the party: their set stands for it.           *)
(***************************************************************************)
EXTENDS Party

CONSTANTS Levels,       \* the levels of a player
          Places        \* regions of the map: two players are in range in one

ASSUME SharedExperienceAssumption == Levels \subseteq Nat

VARIABLES level, place,     \* of each player
          active, enabled,  \* Party::sharedExpActive, sharedExpEnabled
          bonusOf,          \* those whose vocations sharedExpBonus counts
          ticks             \* Party::ticksMap: no entry, within PZ_LOCKED, older

expVars == <<level, place, active, enabled, bonusOf, ticks>>

ExpTypeOK ==
    /\ level \in [Players -> Levels] /\ place \in [Players -> Places]
    /\ active \in [Parties -> BOOLEAN] /\ enabled \in [Parties -> BOOLEAN]
    /\ bonusOf \in [Parties -> SUBSET Players]
    /\ ticks \in [Parties -> [Players -> {"none", "recent", "old"}]]

ExpInit ==
    /\ level \in [Players -> Levels] /\ place \in [Players -> Places]
    /\ active = [P \in Parties |-> FALSE] /\ enabled = [P \in Parties |-> FALSE]
    /\ bonusOf = [P \in Parties |-> {}]
    /\ ticks = [P \in Parties |-> [x \in Players |-> "none"]]

InParty(P) == IF leader[P] = None THEN {} ELSE {leader[P]} \cup Members(P)

MaxLevel(S) == Max({level[x] : x \in S})

\* canUseSharedExperience, with the entries of ticksMap it accepts: at least two
\* thirds, rounded up, of the highest level, and near the leader.
CanUse(P, x, accepted) ==
    /\ memberList[P] # <<>>
    /\ 3 * level[x] >= 2 * MaxLevel(InParty(P))
    /\ place[x] = place[leader[P]]
    /\ ticks[P][x] \in accepted
\* canEnableSharedExperience.
CanEnable(P, accepted) == \A x \in InParty(P) : CanUse(P, x, accepted)

\* updateSharedExperience in the parties of changed, after a change.
Updated(changed) ==
    enabled' = [P \in Parties |->
                   IF P \in changed /\ active'[P] THEN CanEnable(P, {"recent"})' ELSE enabled[P]]

-----------------------------------------------------------------------------
(* What a step of Party does to the flags of the parties it changes.       *)

\* A party that disbands or is new starts from the constructor.  joinParty,
\* leaveParty and passPartyLeadership update the flag, the first two the bonus;
\* leaveParty also drops the points of the one that left.
NewObject(P) == leader'[P] = None \/ leader[P] = None
Reorganised(P) == leader'[P] # leader[P] \/ memberList'[P] # memberList[P]
UpdatedBy_notByHandover(P) == memberList'[P] # memberList[P] /\ leader'[P] = leader[P]
UpdatedBy(P) == Reorganised(P)

ExperienceFollows ==
    /\ UNCHANGED <<level, place>>
    /\ active' = [P \in Parties |-> ~NewObject(P) /\ active[P]]
    /\ ticks' = [P \in Parties |-> [x \in Players |->
                    IF NewObject(P) \/ x \in InParty(P) \ InParty(P)' THEN "none" ELSE ticks[P][x]]]
    /\ bonusOf' = [P \in Parties |->
                      IF NewObject(P) THEN {}
                      ELSE IF InParty(P) # InParty(P)' THEN InParty(P)' ELSE bonusOf[P]]
    /\ enabled' = [P \in Parties |->
                      IF NewObject(P) THEN FALSE
                      ELSE IF UpdatedBy(P) /\ active[P] THEN CanEnable(P, {"recent"})'
                      ELSE enabled[P]]

-----------------------------------------------------------------------------
(* Steps that leave the party as it is                                     *)

PartyOf(x) == IF party[x] = None THEN {} ELSE {party[x]}

\* setSharedExperience by the leader, from its handler or the !shareexp command.
SetSharedExperience(x) ==
    /\ x \in online /\ party[x] # None /\ leader[party[x]] = x
    /\ active' = [active EXCEPT ![party[x]] = ~@]
    /\ UNCHANGED <<vars, level, place, bonusOf, ticks>>
    /\ Updated({party[x]})

\* onCreatureMove, a walk or a teleport into another region.
Moves(x) ==
    /\ x \in online
    /\ \E q \in Places \ {place[x]} : place' = [place EXCEPT ![x] = q]
    /\ UNCHANGED <<vars, level, active, bonusOf, ticks>>
    /\ Updated(PartyOf(x))

\* addExperience and removeExperience, when they change the level.
LevelUpdates(x) == PartyOf(x)
LevelChanges(x) ==
    /\ x \in online
    /\ \E n \in Levels \ {level[x]} : level' = [level EXCEPT ![x] = n]
    /\ UNCHANGED <<vars, place, active, bonusOf, ticks>>
    /\ Updated(LevelUpdates(x))

SetTicks(x, t) == ticks' = [ticks EXCEPT ![party[x]][x] = t]

\* updatePlayerTicks (x hit a monster or healed a partner) and
\* clearPlayerPoints (its fight is over, onIdleStatus).
FightsOrRests(x) ==
    /\ x \in online /\ party[x] # None
    /\ \/ ticks[party[x]][x] # "recent" /\ SetTicks(x, "recent")
       \/ ticks[party[x]][x] # "none" /\ SetTicks(x, "none")
    /\ UNCHANGED <<vars, level, place, active, bonusOf>>
    /\ Updated({party[x]})

\* PZ_LOCKED passes since the last entry of x: nothing is called.
TicksExpire(x) ==
    /\ party[x] # None
    /\ ticks[party[x]][x] = "recent"
    /\ SetTicks(x, "old")
    /\ UNCHANGED <<vars, level, place, active, enabled, bonusOf>>

ExpNext ==
    \E x \in Players :
        \/ SetSharedExperience(x) \/ Moves(x) \/ LevelChanges(x)
        \/ FightsOrRests(x) \/ TicksExpire(x)

-----------------------------------------------------------------------------
(* The kept flag and bonus are those the party deserves now: sharing is    *)
(* granted only to a party whose members all qualify, but for fights that  *)
(* have become too old since, it is granted whenever they do, and the      *)
(* bonus counts those who are in the party.  Every event that bears on it  *)
(* has to call updateSharedExperience (party.cpp:355).                     *)
SharedExperienceCurrent ==
    /\ ExpTypeOK
    /\ \A P \in Allocated :
        /\ active[P] /\ enabled[P] => CanEnable(P, {"recent", "old"})
        /\ active[P] /\ CanEnable(P, {"recent"}) => enabled[P]
        /\ memberList[P] # <<>> => bonusOf[P] = InParty(P)
=============================================================================
