CONSTANTS
    Producers = {network, scheduler}
    SchedulerThread = scheduler
    DispatcherSelf = dispatcher
    Tasks = {e1, e2, t1}
    Events = {e1, e2}
    Expiring = {}
    StopTask = stop
    Delays = {0, 1}
    MaxTime = 1
    IdSpace = 8
SPECIFICATION SFairSpec
INVARIANTS EventIdsExact
PROPERTIES ImplementsEventService EventsAreServed
CHECK_DEADLOCK FALSE
