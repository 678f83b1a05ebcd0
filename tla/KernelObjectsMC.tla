---------------------------- MODULE KernelObjectsMC ----------------------------
(***************************************************************************)
(* The objects of the kernel that the firmware does not use, each in a     *)
(* part of its own: a run is of one part, the first state chooses it.      *)
(***************************************************************************)
EXTENDS Integers

CONSTANTS
    t1, t2, t3, daemon, idle, NoTask, NoCall,
    group, timerq, x1, x2, NoQueue, NoItem, c1, c2, c3, NoCoRoutine,
    MaxPriorities, TickMod, OverflowMod, NotifyBits, MaxTicks

VARIABLES part, k, pc, call, o, calls

Idle == idle
Forever == TickMod - 1  \* portMAX_DELAY

Scene(tasks, object, ops) == [tasks |-> tasks, object |-> object, calls |-> ops]
One == <<<<t1, 1>>>>
Two == <<<<t1, 1>>, <<t2, 2>>>>
Swapped == <<<<t1, 2>>, <<t2, 1>>>>
Three == <<<<t1, 1>>, <<t2, 2>>, <<t3, 2>>>>

-----------------------------------------------------------------------------

StreamTask == {t1, t2, idle}
Streams == INSTANCE StreamBuffer
           WITH Task <- StreamTask, EventLists <- {}, Scenes <- {}
StreamScenes ==
    LET New(length, trigger, message) == Streams!NewStreamBuffer(length, trigger, message)
    IN  {Scene(Two, New(4, 1, FALSE),
            {<<t1, "send", <<1>>, 2>>, <<t1, "send", <<1, 2>>, 1>>,
             <<t2, "receive", 2, Forever>>}),
         Scene(Swapped, New(4, 2, FALSE),
            {<<t1, "send", <<1>>, 0>>, <<t1, "send", <<1, 2>>, Forever>>,
             <<t2, "receive", 2, Forever>>, <<t2, "receive", 1, 1>>}),
         Scene(Two, New(4, 3, FALSE),
            {<<t1, "send", <<1>>, 0>>, <<t1, "send", <<1, 2, 3>>, Forever>>,
             <<t2, "receive", 3, Forever>>}),
         Scene(Swapped, New(5, 1, TRUE),
            {<<t1, "send", <<1>>, 1>>, <<t1, "send", <<2, 1>>, Forever>>,
             <<t2, "receive", 2, Forever>>, <<t2, "receive", 1, 0>>}),
         Scene(One, New(4, 2, FALSE),
            {<<t2, "send_isr", <<1, 2>>, 0>>, <<t1, "receive", 3, 1>>,
             <<t1, "receive", 1, Forever>>, <<t1, "reset", 0, 0>>,
             <<t1, "trigger", 3, 0>>}),
         Scene(One, New(5, 1, TRUE),
            {<<t1, "send", <<1>>, 1>>, <<t1, "send", <<2, 1>>, 2>>,
             <<t2, "receive_isr", 2, 0>>, <<t1, "reset", 0, 0>>})}
Stream == INSTANCE StreamBuffer
          WITH Task <- StreamTask, EventLists <- {}, Scenes <- StreamScenes

StreamsDeliver ==
    part = "stream" => Stream!FlightIntact /\ Stream!WokenForData

-----------------------------------------------------------------------------

EventTask == {t1, t2, t3, idle}
Groups == INSTANCE EventGroup
          WITH Task <- EventTask, EventLists <- {group}, TheGroup <- group,
               Bits <- {1, 2, 3}, Scenes <- {}
EventScenes ==
    {Scene(tasks, Groups!NewEventGroup, ops) : <<tasks, ops>> \in
        {<<Three,
           {<<t1, "sync", {1, 2, 3}, Forever, {1}>>,
            <<t2, "sync", {1, 2, 3}, Forever, {2}>>,
            <<t3, "sync", {1, 2, 3}, Forever, {3}>>}>>,
         <<Three,
           {<<t1, "set", {1}>>, <<t1, "set", {2}>>,
            <<t2, "wait", {1, 2}, Forever, TRUE, FALSE>>,
            <<t3, "wait", {1, 2}, Forever, TRUE, TRUE>>}>>,
         <<Swapped,
           {<<t1, "set", {1}>>, <<t1, "set", {2}>>, <<t1, "clear", {1}>>, <<t1, "delay">>,
            <<t2, "wait", {1}, 1, FALSE, FALSE>>, <<t2, "wait", {1, 2}, 2, TRUE, TRUE>>}>>,
         <<Three,
           {<<t1, "set", {1}>>, <<t1, "set", {2, 3}>>, <<t3, "delay">>,
            <<t2, "wait", {1, 2}, 2, TRUE, TRUE>>,
            <<t3, "wait", {2}, Forever, FALSE, FALSE>>}>>,
         <<Two,
           {<<t1, "sync", {1, 2}, 1, {1}>>, <<t2, "sync", {1, 2}, 2, {2}>>}>>,
         <<Two,
           {<<t1, "delete">>, <<t1, "set", {1}>>, <<t2, "wait", {1}, 1, TRUE, FALSE>>,
            <<t2, "wait", {1, 2}, Forever, TRUE, TRUE>>}>>}}
Event == INSTANCE EventGroup
         WITH Task <- EventTask, EventLists <- {group}, TheGroup <- group,
              Bits <- {1, 2, 3}, Scenes <- EventScenes

EventsReachWaiters ==
    part = "event" =>
        Event!NoEventMissed /\ Event!ReturnsBitsWaitedFor /\ Event!KeepStep

-----------------------------------------------------------------------------

TimerTask == {t1, daemon, idle}
TimerLists == {timerq} \X {"send", "receive"}
AppLow == <<<<t1, 1>>, <<daemon, 2>>>>
AppHigh == <<<<t1, 2>>, <<daemon, 1>>>>
Per(a, b) == [x \in {x1, x2} |-> IF x = x1 THEN a ELSE b]
TimerObjects ==
    INSTANCE Timers
    WITH Task <- TimerTask, EventLists <- TimerLists, TickMod <- 4, MaxTicks <- 5,
         Daemon <- daemon, TimerQueue <- timerq, Timer_t <- {x1, x2},
         Queue_t <- {timerq}, Scenes <- {}
TimerScenes ==
    LET New(length, period, reload) == TimerObjects!NewTimers(length, period, reload)
    IN  {Scene(AppLow, New(1, Per(2, 3), Per(TRUE, FALSE)),
            {<<t1, "start", x1>>, <<t1, "start", x2>>}),
         Scene(AppLow, New(2, Per(2, 1), Per(TRUE, FALSE)),
            {<<NoTask, "start", x1>>, <<t1, "stop", x1>>}),
         Scene(AppHigh, New(2, Per(1, 1), Per(TRUE, FALSE)),
            {<<t1, "start", x1>>, <<t1, "delay">>}),
         Scene(AppLow, New(1, Per(2, 1), Per(TRUE, FALSE)),
            {<<t1, "period", x1, 1>>, <<t1, "period", x1, 3>>,
             <<t1, "reload", x1, FALSE>>}),
         Scene(AppLow, New(1, Per(2, 1), Per(TRUE, FALSE)),
            {<<t1, "start", x1>>, <<NoTask, "function">>})}
Timer ==
    INSTANCE Timers
    WITH Task <- TimerTask, EventLists <- TimerLists, TickMod <- 4, MaxTicks <- 5,
         Daemon <- daemon, TimerQueue <- timerq, Timer_t <- {x1, x2},
         Queue_t <- {timerq}, Scenes <- TimerScenes

TimersExact == part = "timer" => Timer!NeverEarly /\ Timer!NoneMissed

-----------------------------------------------------------------------------

SleepTask == {t1, t2, idle}
SleepScenes ==
    LET timer == [left |-> 3, period |-> 3, flag |-> FALSE, irq |-> {},
                  expected |-> 0, clock |-> 0]
    IN  {Scene(One, timer,
            {<<t1, "sleep", 1>>, <<t1, "sleep", 2>>, <<t1, "sleep", 4>>}),
         Scene(Two, timer,
            {<<t1, "sleep", 3>>, <<t2, "wait", 4>>, <<NoTask, "notify", t2>>})}
Sleep ==
    INSTANCE Tickless
    WITH Task <- SleepTask, EventLists <- {}, TickMod <- 6, OverflowMod <- 4,
         MaxTicks <- 20, CountsPerTick <- 3, MaxSuppressed <- 3,
         ExpectedIdleTime <- 2, MaxCounts <- 45, Scenes <- SleepScenes

SleepKeepsTime == part = "sleep" => Sleep!SleepKeepsTime

-----------------------------------------------------------------------------

Application(length, coroutines, ops) ==
    [length |-> length, coroutines |-> coroutines, calls |-> ops]
Applications ==
    {Application(1, <<<<c1, 0>>, <<c2, 1>>, <<c3, 1>>>>,
        {<<c1, "send", 2>>, <<c1, "delay", 1>>, <<c2, "receive", 2>>,
         <<c3, "receive", 1>>}),
     Application(1, <<<<c1, 0>>, <<c2, 1>>, <<c3, 2>>>>,
        {<<NoCoRoutine, "receive", 0>>, <<c1, "send", 3>>, <<c2, "send", 1>>,
         <<c3, "delay", 2>>}),
     Application(2, <<<<c1, 1>>, <<c2, 1>>>>,
        {<<NoCoRoutine, "send", 0>>, <<c1, "receive", 1>>, <<c2, "receive", 2>>,
         <<c2, "delay", 0>>})}
CoRoutine ==
    INSTANCE CoRoutines
    WITH CoRoutine <- {c1, c2, c3}, MaxCoRoutinePriorities <- 2, TickMod <- 4,
         cr <- o

CoRoutinesWake ==
    part = "coroutine" =>
        CoRoutine!NoCoRoutineLeftWaiting /\ CoRoutine!CoRoutineDelaysExact

-----------------------------------------------------------------------------

Block(at, size) == [at |-> at, size |-> size]
HeapObjects ==
    INSTANCE Heap
    WITH Align <- 2, Struct <- 2, SizeMod <- 64, Sizes <- {0, 1, 2, 5, 62, 63},
         Numbers <- {2, 33}, MaxAllocs <- 5, Heaps <- {}, heap <- o, used <- calls
Heaps ==
    {HeapObjects!Heap1(24), HeapObjects!Heap2(26), HeapObjects!Heap4(1, 29),
     HeapObjects!vPortDefineHeapRegions(<<Block(3, 12), Block(20, 18)>>)}
Heap ==
    INSTANCE Heap
    WITH Align <- 2, Struct <- 2, SizeMod <- 64, Sizes <- {0, 1, 2, 5, 62, 63},
         Numbers <- {2, 33}, MaxAllocs <- 5, heap <- o, used <- calls

HeapWhole == part = "heap" => Heap!NoByteLost /\ Heap!BlocksServe

-----------------------------------------------------------------------------

\* No task of the kernel in a part.
NoTasks == k = NoCall /\ pc = NoCall /\ call = NoCall

ObjectsInit ==
    \/ part = "stream" /\ Stream!Init
    \/ part = "event" /\ Event!Init
    \/ part = "timer" /\ Timer!Init
    \/ part = "sleep" /\ Sleep!Init
    \/ part = "coroutine" /\ CoRoutine!Init /\ NoTasks
    \/ part = "heap" /\ Heap!Init /\ NoTasks

ObjectsNext ==
    /\ \/ part = "stream" /\ Stream!Next
       \/ part = "event" /\ Event!Next
       \/ part = "timer" /\ Timer!Next
       \/ part = "sleep" /\ Sleep!Next
       \/ part = "coroutine" /\ CoRoutine!Next /\ UNCHANGED <<k, pc, call>>
       \/ part = "heap" /\ Heap!Next /\ UNCHANGED <<k, pc, call>>
    /\ UNCHANGED part

ObjectsSpec == ObjectsInit /\ [][ObjectsNext]_<<part, k, pc, call, o, calls>>

=============================================================================
