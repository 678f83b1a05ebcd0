CONSTANTS
    t1 = t1
    t2 = t2
    idle = idle
    Idle = idle
    NoTask = NoTask
    Task <- MCTask
    FirstTasks <- MCFirstTasks
    Calls <- MCCalls
    EventLists = {}
    MaxPriorities = 3
    TickMod = 4
    OverflowMod = 1
    NotifyBits = 1
    Priorities = {1, 2}
    Delays = {0, 1, 2}
    Actions = {"eIncrement", "eNoAction", "eSetValueWithoutOverwrite"}
    MaxPended = 2
SPECIFICATION Spec
INVARIANTS
    ListsConsistent
    HighestPriorityRuns
    WakeTimesExact
    NoNotificationMissed
    SuspendedStays
PROPERTIES
    WakesOnTime
    InterruptsKeepOut
