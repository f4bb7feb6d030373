CONSTANTS
    Protocols = {p1, p2}
    Players = {x1, x2}
    None = None
    ReplaceKick = TRUE
SPECIFICATION Spec
INVARIANT NoLeakedPlayer
CHECK_DEADLOCK FALSE
