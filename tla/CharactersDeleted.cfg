CONSTANTS
    n1 = n1
    n2 = n2
    n3 = n3
    a1 = a1
    a2 = a2
    r1 = r1
    r2 = r2
    Names <- MCNames
    Owners <- MCAccounts
    Requests <- MCRequests
    Limit = 1
    MaxId = 3
    MaxBorn = 3
    NoRow = NoRow
    NoRequest = NoRequest
SPECIFICATION CharactersSpec
SYMMETRY Symmetry
CHECK_DEADLOCK FALSE
INVARIANT OnlineNotDeleted
