CONSTANTS
    Protocols = {p1, p2, p3}
    Players = {x1, x2, x3}
    None = None
    ReplaceKick = TRUE
    Emails = {mail}
    Calls = {r1, r2}
    Slots = {1, 2}
    MaxAccount = 2
    MaxSecret = 2
    NoAccount = NoAccount
    Names = {n1, n2}
    Owners = {a1}
    Requests = {q1, q2}
    Limit = 1
    MaxId = 3
    MaxBorn = 3
    NoRow = NoRow
    NoRequest = NoRequest
SPECIFICATION MCSpec
INVARIANTS OneOnline ClientHoldsPlayer CounterExact NothingDangles LeakOnlyByLateExpiry LoginNotForgotten TwiceByOverlapOnly RowsApart OnlineTableExact
SYMMETRY Interchangeable
CHECK_DEADLOCK FALSE
