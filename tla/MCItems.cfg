CONSTANTS
    gold = gold
    platinum = platinum
    axe = axe
    sword = sword
    loaf = loaf
    bag = bag
    Golds = {g1, g2, g3}
    Platinums = {q1, q2}
    theAxe = theAxe
    theSword = theSword
    theLoaf = theLoaf
    outer = outer
    inner = inner
    Things <- MCThings
    Kind <- MCKind
    Bags = {outer, inner}
    Stackables = {gold, platinum}
    TwoHanded = {axe}
    Weapons = {axe, sword}
    DressedAt <- MCDressedAt
    Worth <- MCWorth
    Gifts = {gold, loaf}
    LeftHand = 1
    RightHand = 2
    Ammo = 4
    Capacity <- MCCapacity
    StackSize = 2
    Platinum = platinum
    Gold = gold
    Ground = ground
    Body = body
    Nothing = nothing
SPECIFICATION MCSpec
SYMMETRY AlikeCoins
CHECK_DEADLOCK FALSE
INVARIANTS CylindersSound AmountsKept
