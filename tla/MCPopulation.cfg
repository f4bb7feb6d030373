CONSTANTS
    Clients = {vip1, vip2, reg1, reg2, gm}
    Premium = {vip1, vip2}
    Staff = {gm}
    MaxPlayers = 2
    GetTime <- MCGetTime
    Grace = 2
    MaxTime = 4
    MaxDrift = 2
    Wild = {m, n}
    Players = {p}
    Ignored = {}
    Places = {here, there}
    Near <- OwnSquare
    Vectors = 1
    None = None
    Beasts = {b1, b2, b3, b4}
    Slots = 2
    RateSpawn = 1
    Empty = Empty
SPECIFICATION MCSpec
SYMMETRY Interchangeable
CHECK_DEADLOCK FALSE
INVARIANTS OnePlace SlotIsWatched AwakeInSight ReferencesExact
PROPERTY NobodyOvertakes
