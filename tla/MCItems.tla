------------------------------- MODULE MCItems -------------------------------
(***************************************************************************)
(* The instances of Cylinders that TLC checks: a player with a bag and a   *)
(* bag in it.  To see arms and bags change hands, an axe, a sword and a    *)
(* stack are moved about; to see amounts kept, coins and a loaf come and   *)
(* go, and the bags stay where they are.                                   *)
(***************************************************************************)
EXTENDS Cylinders, TLC

CONSTANTS
    gold, platinum, axe, sword, loaf, bag,                    \* kinds
    Golds, Platinums, theAxe, theSword, theLoaf, outer, inner \* objects

VARIABLE focus

MCThings == Golds \cup Platinums \cup {theAxe, theSword, theLoaf, outer, inner}
MCKind ==
    [g \in Golds |-> gold] @@ [p \in Platinums |-> platinum]
    @@ theAxe :> axe @@ theSword :> sword @@ theLoaf :> loaf @@ outer :> bag @@ inner :> bag
MCDressedAt ==
    axe :> {1, 2} @@ sword :> {1, 2} @@ bag :> {3}
    @@ gold :> {} @@ platinum :> {} @@ loaf :> {}
MCWorth ==
    gold :> 1 @@ platinum :> 3 @@ axe :> 100 @@ sword :> 100 @@ loaf :> 100 @@ bag :> 100
MCCapacity == outer :> 2 @@ inner :> 1

Start(hand, packed, ground, n) ==
    [slot   |-> <<hand, Nothing, outer, Nothing>>,
     in     |-> outer :> packed @@ inner :> <<>> @@ Ground :> ground,
     count  |-> [i \in Things |->
                    IF i \in {hand, outer} \cup ToSet(packed) \cup ToSet(ground)
                    THEN IF i \in Golds THEN n ELSE 1 ELSE 0],
     weight |-> outer :> (IF Len(packed) = 1 THEN 1 ELSE 1 + n) @@ inner :> 0]

Few(coins, n) == Cardinality({g \in coins : Exists(world', g)}) <= n

DressInit == CylindersInit(Start(theSword, <<CHOOSE g \in Golds : TRUE, inner>>, <<theAxe>>, 2))
DressNext ==
    /\ ItemsMove
    /\ Few(Golds, 2) /\ Len(world'.in[Ground]) <= 1 /\ Contains(world'.slot, outer)

MoneyInit == CylindersInit(Start(Nothing, <<inner>>, <<>>, 1))
MoneyNext ==
    /\ CylindersNext
    /\ Few(Golds, 2) /\ Few(Platinums, 1) /\ Len(world'.in[Ground]) <= 1
    /\ world'.slot[3] = outer /\ Contains(world'.in[outer], inner)

MCInit == \/ focus = "dress" /\ DressInit
          \/ focus = "money" /\ MoneyInit
MCNext ==
    /\ UNCHANGED focus
    /\ \/ focus = "dress" /\ DressNext
       \/ focus = "money" /\ MoneyNext

MCSpec == MCInit /\ [][MCNext]_<<cylinderVars, focus>>

AlikeCoins == Permutations(Golds) \cup Permutations(Platinums)
=============================================================================
