CONSTANTS
    Producers = {network, database}
    DatabaseThread = database
    DispatcherAsCaller = dispatcher
    Queries = {q1, q2, q3}
    WithCallback = {q1}
    CallbackOf <- MCCallbackOf
    Tasks = {c1, t1, t2, t3}
    c1 = c1
    q1 = q1
    t2 = t2
    t3 = t3
    Expiring = {t2}
    StopTask = stop
    MaxMessages = 3
    Tiles = {1, 2, 3, 4}
    jump <- MCJump
    lever = lever
    stone = stone
    Things = {lever, stone}
    place <- MCPlace
    Uses = {lever}
    NoThing = NoThing
    Walks <- MCWalks
    Start = 2
    MaxInputs = 3
    MaxEvents = 2
SPECIFICATION MCSpec
INVARIANTS NoLostWakeup QueriesOnceInOrder WrittenAndReleased WalkGoesOn
PROPERTIES AcceptedTaskLeaves QueriesAreServed ClosedIsDestroyed WalkEnds
CHECK_DEADLOCK FALSE
