CONSTANTS
    t1 = t1
    t2 = t2
    t3 = t3
    idle = idle
    A = A
    B = B
    S = S
    a = a
    b = b
    Idle = idle
    NoTask = NoTask
    NoQueue = NoQueue
    NoItem = NoItem
    NoCall = NoCall
    NoTimeOut = NoTimeOut
    Task <- MCTask
    Queue_t <- MCQueue
    EventLists <- MCEventLists
    Scenes <- MCScenes
    Items = {a, b}
    MaxPriorities = 3
    TickMod = 3
    OverflowMod = 2
    NotifyBits = 1
    MaxTicks = 3
SPECIFICATION Spec
INVARIANTS
    NobodySleeps
    
    
    SetHasHandles
PROPERTIES
    FifoSpec
    LockKeepsOut
