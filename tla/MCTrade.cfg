CONSTANTS
    Players = {p1, p2, p3}
    Items = {bag, s1, s2}
    Containers = {bag}
    Stackable = {s1, s2}
    Tiles = {0, 1, 3}
    InvSlots = 1
    BoxSize = 1
    NoPlayer = NoPlayer
    NoItem = NoItem
    Nowhere = Nowhere
SPECIFICATION Spec
SYMMETRY Symmetry
INVARIANTS TradesConsistent OffersHold
PROPERTY SwapIsWhole
