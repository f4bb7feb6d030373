CONSTANTS
    Writers = {w1, w2}
    Tables <- MCTables
    Keyed = {"items"}
    Untransacted = {"murders"}
    Rows = 3
    Lengths = {3, 13}
    QueryLength = 1
    MaxPacket = 19
    MaxSaves = 2
    MaxLosses = 2
    Saver = saver
    Free = Free
    Belongings = {x}
    Inhabitants = {a, b}
    a = a
    Nobody = Nobody
    MaxWarnings = 1
    MaxPeriods = 1
    Items = {i, j}
    Gone = Gone
    Stays = Stays
    corpse = corpse
    bones = bones
    ring = ring
    ringOff = ringOff
    Kinds <- MCKinds
    decayTime <- Time
    decayTo <- To
    stopTime = {ringOff}
    Scripted <- Changes
    Remaining = {1, 15}
SPECIFICATION MCSpec
SYMMETRY Interchangeable
CHECK_DEADLOCK FALSE
INVARIANTS ListedOrFree SaveTornByRetryOnly AcknowledgedOnce WholeUnlessTorn RentTakenOnce
PROPERTY DecaysOnTime
