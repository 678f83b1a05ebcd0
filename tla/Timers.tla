------------------------------- MODULE Timers -------------------------------
(***************************************************************************)
(* Software timers (timers.c).  Tasks and interrupts send commands to the  *)
(* timer queue; the daemon task receives them, keeps the timers that run   *)
(* in the order of their expiry times in two lists, one for each lap of    *)
(* the tick count, and calls them back.  In between it waits for a command *)
(* and for the next expiry at once.                                        *)
(***************************************************************************)
EXTENDS QueueOps, KernelObject

CONSTANTS
    Daemon,     \* xTimerTaskHandle
    TimerQueue, \* xTimerQueue
    Timer_t     \* the timers

\* xTimerCreate, prvCheckForValidListAndQueue.  start and fired are history:
\* when a timer was last started, and how often it has called back since.
NewTimers(queueLength, period, reload) ==
    [queue    |-> NewQueue("queue", queueLength),
     current  |-> <<>>,  \* pxCurrentTimerList
     overflow |-> <<>>,  \* pxOverflowTimerList
     last     |-> 0,     \* xLastTime
     expiry   |-> [x \in Timer_t |-> 0],      \* value of xTimerListItem
     period   |-> period,                     \* xTimerPeriodInTicks
     reload   |-> reload,                     \* tmrSTATUS_IS_AUTORELOAD
     active   |-> [x \in Timer_t |-> FALSE],  \* tmrSTATUS_IS_ACTIVE
     start    |-> [x \in Timer_t |-> 0],
     fired    |-> [x \in Timer_t |-> 0]]

s == [k |-> k, q |-> [x \in {TimerQueue} |-> o.queue]]
Becomes(next) == k' = next.k /\ o' = [o EXCEPT !.queue = next.q[TimerQueue]]

-----------------------------------------------------------------------------
(* Commands *)

\* A command on its way: a start carries the time it was given.
\* c is <<t, "start", x>>, <<t, "stop", x>>, <<t, "period", x, new period>> or
\* <<t, "function">>, which is xTimerPendFunctionCall.
Message(c) ==
    [id |-> c[2],
     timer |-> IF c[2] = "function" THEN NoItem ELSE c[3],
     value |-> IF c[2] = "period" THEN c[4] ELSE k.tick,
     at |-> Clock]

Commands == {"start", "stop", "period", "function"}

\* The time is read before xTimerGenericCommand sends.
Command(t) ==
    /\ At(t, "run")
    /\ \E c \in calls :
         /\ c[1] = t /\ c[2] \in Commands
         /\ call' = [call EXCEPT ![t] = Message(c)]
    /\ Goes(t, "send")
    /\ UNCHANGED <<k, o, calls>>

\* Without a block time: a full queue refuses the command.
SendCommand(t) ==
    /\ At(t, "send")
    /\ IF prvIsQueueFull(s, TimerQueue) THEN UNCHANGED <<k, o>>
       ELSE Becomes(Send(s, TimerQueue, call[t], "back"))
    /\ Returns(t)
    /\ UNCHANGED calls

CommandFromISR ==
    /\ ~prvIsQueueFull(s, TimerQueue)
    /\ \E c \in calls :
         /\ c[1] = NoTask /\ c[2] \in Commands
         /\ Becomes(SendFromISR(s, TimerQueue, Message(c), "back"))
    /\ UNCHANGED <<pc, call, calls>>

\* vTimerSetReloadMode
SetReloadMode(t) ==
    /\ At(t, "run")
    /\ \E c \in CallsOf(t, "reload") : o' = [o EXCEPT !.reload[c[3]] = c[4]]
    /\ UNCHANGED <<k, pc, call, calls>>

-----------------------------------------------------------------------------
(* What the daemon does with a timer: operators on the object               *)

Plus(time, ticks) == (time + ticks) % TickMod

\* pxCallbackFunction
Callback(b, x) == [b EXCEPT !.fired[x] = @ + 1]

\* prvInsertTimerInActiveList finds a timer that has expired already: between
\* the command and now there is a period, or now is past the wrap of the tick
\* count and the expiry time before it.
ExpiredAlready(b, x, expiry, now, commanded) ==
    IF expiry <= now THEN (now - commanded) % TickMod >= b.period[x]
    ELSE now < commanded /\ expiry >= commanded

\* prvInsertTimerInActiveList, of a timer that has not.
Insert(b, x, expiry, now) ==
    LET set == [b EXCEPT !.expiry[x] = expiry]
    IN  IF expiry <= now
          THEN [set EXCEPT !.overflow = SortedInsert(@, x, set.expiry)]
          ELSE [set EXCEPT !.current = SortedInsert(@, x, set.expiry)]

\* prvReloadTimer: a callback for each period that was missed.
prvReloadTimer(b, x, expired, now) ==
    LET Time(n) == Plus(expired, n * b.period[x])
        missed == Min({n \in 0 .. TickMod :
                         ~ExpiredAlready(b, x, Time(n + 1), now, Time(n))})
    IN  Insert([b EXCEPT !.fired[x] = @ + missed], x, Time(missed + 1), now)

\* A timer that has expired starts again or stops, and is called back.
Expire(b, x, expired, now) ==
    Callback(IF b.reload[x] THEN prvReloadTimer(b, x, expired, now)
             ELSE [b EXCEPT !.active[x] = FALSE], x)

\* prvProcessExpiredTimer
prvProcessExpiredTimer(b, now) ==
    LET x == Head(b.current)
    IN  Expire([b EXCEPT !.current = Tail(@)], x, b.expiry[x], now)

\* prvSwitchTimerLists: what is left in the list of the lap that has ended has
\* expired.
prvSwitchTimerLists(b) ==
    LET r == FoldLeft(LAMBDA c, x : prvProcessExpiredTimer(c, TickMod - 1), b, b.current)
    IN  [r EXCEPT !.current = r.overflow, !.overflow = r.current]

\* prvSampleTimeNow, when the tick count is now.
prvSampleTimeNow(b, now) ==
    [IF now < b.last THEN prvSwitchTimerLists(b) ELSE b EXCEPT !.last = now]

\* tmrCOMMAND_START and tmrCOMMAND_RESET
Start(b, m, now) ==
    LET x == m.timer
        started == [b EXCEPT !.active[x] = TRUE, !.start[x] = m.at, !.fired[x] = 0]
        expiry == Plus(m.value, b.period[x])
    IN  IF ExpiredAlready(b, x, expiry, now, m.value)
          THEN Expire(started, x, expiry, now)
          ELSE Insert(started, x, expiry, now)

\* tmrCOMMAND_CHANGE_PERIOD, which counts from now.
ChangePeriod(b, m, now) ==
    LET x == m.timer
        changed == [b EXCEPT !.active[x] = TRUE, !.period[x] = m.value,
                             !.start[x] = Clock, !.fired[x] = 0]
    IN  Insert(changed, x, Plus(now, m.value), now)

\* The turn of prvProcessReceivedCommands for m.
Process(b, m, now) ==
    LET x == m.timer
        removed == [b EXCEPT !.current = Without(@, x), !.overflow = Without(@, x)]
        r == prvSampleTimeNow(removed, now)
    IN  CASE m.id = "start" -> Start(r, m, now)
          [] m.id = "stop" -> [r EXCEPT !.active[x] = FALSE]
          [] m.id = "period" -> ChangePeriod(r, m, now)
          [] m.id = "function" -> b

-----------------------------------------------------------------------------
(* prvTimerTask *)

\* prvGetNextExpireTime, and the vTaskSuspendAll of prvProcessTimerOrBlockTask.
NextExpireTime ==
    /\ At(Daemon, "run")
    /\ call' = [call EXCEPT ![Daemon] =
                  [empty |-> o.current = <<>>,
                   next |-> IF o.current = <<>> THEN 0 ELSE o.expiry[Head(o.current)],
                   now |-> 0]]
    /\ k' = vTaskSuspendAll(k)
    /\ Goes(Daemon, "sample")
    /\ UNCHANGED <<o, calls>>

\* prvSampleTimeNow, and what it leads to.
SampleTimeNow ==
    /\ At(Daemon, "sample")
    /\ LET c == call[Daemon]
           now == k.tick
       IN  /\ o' = prvSampleTimeNow(o, now)
           /\ call' = [call EXCEPT ![Daemon].now = now]
           /\ Goes(Daemon, IF now < o.last THEN "resume"
                           ELSE IF ~c.empty /\ c.next <= now THEN "resume expired"
                           ELSE "lock")
    /\ UNCHANGED <<k, calls>>

Resume ==
    /\ \/ At(Daemon, "resume") /\ Goes(Daemon, "commands")
       \/ At(Daemon, "resume expired") /\ Goes(Daemon, "expired")
    /\ k' = xTaskResumeAll(k)
    /\ UNCHANGED <<call, o, calls>>

ProcessExpired ==
    /\ At(Daemon, "expired")
    /\ o' = prvProcessExpiredTimer(o, call[Daemon].now)
    /\ Goes(Daemon, "commands")
    /\ UNCHANGED <<k, call, calls>>

\* vQueueWaitForMessageRestricted
Lock ==
    /\ At(Daemon, "lock")
    /\ Becomes(prvLockQueue(s, TimerQueue))
    /\ Goes(Daemon, "place")
    /\ UNCHANGED <<call, calls>>

\* Mutant: the timers of the next lap are forgotten.
ForeverIfCurrentEmpty(c) == c.empty

\* The daemon waits forever when no timer runs in this lap or the next.
Forever(c) == c.empty /\ o.overflow = <<>>

Place ==
    /\ At(Daemon, "place")
    /\ LET c == call[Daemon]
       IN  k' = IF ~prvIsQueueEmpty(s, TimerQueue) THEN k
                ELSE vTaskPlaceOnEventListRestricted(
                        k, ToReceive(TimerQueue), (c.next - c.now) % TickMod, Forever(c))
    /\ Goes(Daemon, "unlockTx")
    /\ UNCHANGED <<call, o, calls>>

Unlock ==
    /\ \/ /\ At(Daemon, "unlockTx")
          /\ Becomes(prvUnlockQueueTx(s, TimerQueue))
          /\ Goes(Daemon, "unlockRx")
       \/ /\ At(Daemon, "unlockRx")
          /\ Becomes(prvUnlockQueueRx(s, TimerQueue))
          /\ Goes(Daemon, "block")
    /\ UNCHANGED <<call, calls>>

\* Also when it did not join the list the daemon gives way.
Block ==
    /\ At(Daemon, "block")
    /\ LET r == xTaskResumeAll(k)
       IN  k' = YieldIf(r, ~AlreadyYielded(r))
    /\ Goes(Daemon, "commands")
    /\ UNCHANGED <<call, o, calls>>

\* xQueueReceive in prvProcessReceivedCommands.
ReceiveCommand ==
    /\ At(Daemon, "commands")
    /\ IF prvIsQueueEmpty(s, TimerQueue)
         THEN Goes(Daemon, "run") /\ UNCHANGED <<k, call, o>>
         ELSE /\ Becomes(Receive(s, TimerQueue))
              /\ call' = [call EXCEPT ![Daemon] = NextItem(s, TimerQueue)]
              /\ Goes(Daemon, "process")
    /\ UNCHANGED calls

ProcessCommand ==
    /\ At(Daemon, "process")
    /\ o' = Process(o, call[Daemon], k.tick)
    /\ Goes(Daemon, "commands")
    /\ UNCHANGED <<k, call, calls>>

-----------------------------------------------------------------------------

Due(x, n) == o.start[x] + n * o.period[x]

UnderWay ==
    {call[t] : t \in {u \in Task : pc[u] \in {"send", "process"}}}
    \cup {o.queue.slots[(o.queue.readFrom + i) % o.queue.length] : i \in 1 .. o.queue.count}

\* Bound of this instance: no command is under way, no timer that is due is
\* left by the daemon, and the scheduler is not suspended, for as long as the
\* tick count takes to come round, which is 2^32 ticks.
WithinLap ==
    /\ k.pended < TickMod - 1
    /\ \A m \in UnderWay : Clock + k.pended < m.at + TickMod - 1
    /\ \A x \in Timer_t :
         o.active[x] => Clock + k.pended < Due(x, o.fired[x]) + TickMod - 1

TickInLap == WithinLap /\ SysTick

DaemonStep ==
    \/ NextExpireTime \/ SampleTimeNow \/ Resume \/ ProcessExpired
    \/ Lock \/ Place \/ Unlock \/ Block \/ ReceiveCommand \/ ProcessCommand

TaskStep(t) ==
    Command(t) \/ SendCommand(t) \/ SetReloadMode(t) \/ Delay(t) \/ OwnCode(t)

Next ==
    \/ DaemonStep
    \/ \E t \in Task \ {Daemon} : TaskStep(t)
    \/ CommandFromISR \/ TickInLap \/ PendSV

Spec == Init /\ [][Next]_vars

-----------------------------------------------------------------------------
(* Properties *)

\* A timer calls back no more often than its periods have passed since the
\* command that started it was given, however long the command was under way
\* and wherever the tick count wrapped.
NeverEarly ==
    \A x \in Timer_t : o.fired[x] > 0 => Due(x, o.fired[x]) <= Clock

DaemonAsleep ==
    k.suspensions = 0 /\ Daemon \in ToSet(k.events[ToReceive(TimerQueue)])

\* While the daemon sleeps no timer that runs is due: it has called back for
\* every period that has passed, and wakes in the tick of the next.
NoneMissed ==
    DaemonAsleep => \A x \in Timer_t : o.active[x] => Due(x, o.fired[x] + 1) > Clock

=============================================================================
