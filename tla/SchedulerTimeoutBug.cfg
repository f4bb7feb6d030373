CONSTANTS
    Producers = {network, scheduler}
    SchedulerThread = scheduler
    DispatcherSelf = dispatcher
    Tasks = {e1, t1}
    Events = {e1}
    Expiring = {}
    StopTask = stop
    Delays = {0, 1}
    MaxTime = 2
    IdSpace = 8
SPECIFICATION SSpec
INVARIANT TimeoutHasEvent
CHECK_DEADLOCK FALSE
