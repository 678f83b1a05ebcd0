CONSTANTS
    t1 = t1
    t2 = t2
    t3 = t3
    daemon = daemon
    idle = idle
    group = group
    timerq = timerq
    x1 = x1
    x2 = x2
    NoQueue = NoQueue
    NoItem = NoItem
    c1 = c1
    c2 = c2
    c3 = c3
    NoCoRoutine = NoCoRoutine
    NoTask = NoTask
    NoCall = NoCall
    MaxPriorities = 3
    TickMod = 3
    OverflowMod = 2
    NotifyBits = 1
    MaxTicks = 3
SPECIFICATION ObjectsSpec
CHECK_DEADLOCK FALSE
INVARIANTS
    StreamsDeliver
    EventsReachWaiters
    TimersExact
    SleepKeepsTime
    CoRoutinesWake
    HeapWhole
