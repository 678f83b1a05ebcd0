------------------------------- MODULE Tickless -------------------------------
(***************************************************************************)
(* Tickless idle: the idle task stops the tick interrupt, sleeps until a   *)
(* task is due or an interrupt comes, and counts the ticks that went by    *)
(* (vPortSuppressTicksAndSleep of port.c, with prvGetExpectedIdleTime,     *)
(* eTaskConfirmSleepModeStatus and vTaskStepTick of tasks.c).  Time is in  *)
(* counts of the SysTick timer, CountsPerTick to a tick.  The counts that  *)
(* pass while the timer is stopped, which ulStoppedTimerCompensation is    *)
(* for, are left out: stopping and starting it is one step.                *)
(***************************************************************************)
EXTENDS KernelObject

CONSTANTS
    CountsPerTick,      \* ulTimerCountsForOneTick
    MaxSuppressed,      \* xMaximumPossibleSuppressedTicks
    ExpectedIdleTime,   \* configEXPECTED_IDLE_TIME_BEFORE_SLEEP
    MaxCounts           \* bound of this instance: the counts of one run

\* o, the timer: vPortSetupTimerInterrupt.
SysTickTimer ==
    [left     |-> CountsPerTick,  \* counts until the next interrupt
     period   |-> CountsPerTick,  \* counts it will then start from
     flag     |-> FALSE,          \* COUNTFLAG of its control register
     irq      |-> {},             \* interrupts pending: "systick", "notify"
     expected |-> 0,              \* xExpectedIdleTime
     clock    |-> 0]              \* history: the counts since the start

\* cpsid i
Masked == k.current = Idle /\ pc[Idle] \in {"masked", "asleep"}

\* An interrupt that is not masked goes before every task.
Runs(t, where) == At(t, where) /\ (o.irq = {} \/ Masked)

-----------------------------------------------------------------------------
(* The tasks of the application *)

\* vTaskDelay and xTaskNotifyWait, of as many ticks as the call says.
TaskDelay(t) ==
    /\ Runs(t, "run")
    /\ \E c \in CallsOf(t, "sleep") :
         k' = portYIELD(prvAddCurrentTaskToDelayedList(k, c[3], FALSE))
    /\ UNCHANGED <<pc, call, o, calls>>

Wait(t) ==
    /\ Runs(t, "run")
    /\ \E c \in CallsOf(t, "wait") : k' = NotifyWaitEnter(k, 0, c[3])
    /\ Goes(t, "wait")
    /\ UNCHANGED <<call, o, calls>>

WaitReturn(t) ==
    /\ Runs(t, "wait")
    /\ k' = NotifyWaitExit(k, NotifyMod - 1)
    /\ Goes(t, "run")
    /\ UNCHANGED <<call, o, calls>>

-----------------------------------------------------------------------------
(* The idle task *)

\* prvGetExpectedIdleTime
prvGetExpectedIdleTime ==
    IF \/ k.priority[k.current] > 0
       \/ Len(k.ready[0].items) > 1
       \/ k.top \ {0} # {}
      THEN 0 ELSE k.unblock - k.tick

\* prvIdleTask, to its vTaskSuspendAll.
IdleTask ==
    /\ Runs(Idle, "run")
    /\ prvGetExpectedIdleTime >= ExpectedIdleTime
    /\ k' = vTaskSuspendAll(k)
    /\ Goes(Idle, "suspended")
    /\ UNCHANGED <<call, o, calls>>

\* The time is read again; it is enough, or the task goes on.
IdleSuspended ==
    /\ Runs(Idle, "suspended")
    /\ o' = [o EXCEPT !.expected = prvGetExpectedIdleTime]
    /\ Goes(Idle, IF o'.expected >= ExpectedIdleTime THEN "suppress" ELSE "resume")
    /\ UNCHANGED <<k, call, calls>>

\* eTaskConfirmSleepModeStatus does not return eAbortSleep.
MaySleep == k.pending = <<>> /\ ~k.yield /\ k.pended = 0

\* vPortSuppressTicksAndSleep: the interrupts are disabled, and what they did
\* since is looked at.
ConfirmSleep ==
    /\ Runs(Idle, "suppress")
    /\ o' = [o EXCEPT !.expected = Min({@, MaxSuppressed})]
    /\ Goes(Idle, IF MaySleep THEN "masked" ELSE "resume")
    /\ UNCHANGED <<k, call, calls>>

\* The timer is set to the tick in which a task is due.  A tick that came in
\* the meantime counts as one of those.
StartLongPeriod ==
    LET cleared == IF "systick" \in o.irq THEN CountsPerTick ELSE 0
        reload == o.left + CountsPerTick * (o.expected - 1) - cleared
    IN  /\ Runs(Idle, "masked")
        /\ o' = [o EXCEPT !.left = reload, !.period = reload,
                          !.flag = FALSE, !.irq = @ \ {"systick"}]
        /\ Goes(Idle, "asleep")
        /\ UNCHANGED <<k, call, calls>>

\* wfi returns when there is an interrupt, which comes in with cpsie i.
WakeUp ==
    /\ Runs(Idle, "asleep")
    /\ o.irq # {}
    /\ Goes(Idle, "woken")
    /\ UNCHANGED <<k, call, o, calls>>

\* vTaskStepTick: the tick in which a task is due is left to xTaskResumeAll.
vTaskStepTick(s, ticks) ==
    IF s.tick + ticks = s.unblock
      THEN [s EXCEPT !.pended = @ + 1, !.tick = @ + ticks - 1]
      ELSE [s EXCEPT !.tick = @ + ticks]

\* Mutant: the tick whose interrupt ended the sleep is counted again.
SleptTwice ==
    LET completed == o.expected * CountsPerTick - o.left
    IN  IF o.flag
          THEN [ticks |-> o.expected,
                left  |-> CountsPerTick - (o.period - o.left)]
          ELSE [ticks |-> completed \div CountsPerTick,
                left  |-> CountsPerTick - (completed % CountsPerTick)]

\* The ticks that went by, and the counts to the next.  The tick that ended
\* the sleep has been pended by its interrupt.
Slept ==
    LET completed == o.expected * CountsPerTick - o.left
    IN  IF o.flag
          THEN [ticks |-> o.expected - 1,
                left  |-> CountsPerTick - (o.period - o.left)]
          ELSE [ticks |-> completed \div CountsPerTick,
                left  |-> CountsPerTick - (completed % CountsPerTick)]

\* The interrupts are disabled again, and the timer goes back to its ticks.
CountSleep ==
    /\ Runs(Idle, "woken")
    /\ o' = [o EXCEPT !.left = Slept.left, !.period = CountsPerTick,
                      !.flag = FALSE]
    /\ k' = vTaskStepTick(k, Slept.ticks)
    /\ Goes(Idle, "resume")
    /\ UNCHANGED <<call, calls>>

IdleResume ==
    /\ Runs(Idle, "resume")
    /\ k' = xTaskResumeAll(k)
    /\ Goes(Idle, "run")
    /\ o' = [o EXCEPT !.expected = 0]
    /\ UNCHANGED <<call, calls>>

-----------------------------------------------------------------------------
(* Time and interrupts *)

\* A count of the timer, while no interrupt waits for its turn.  Bound: from
\* the end of the sleep to its count there is less than a tick.
Elapse ==
    LET expires == o.left = 1
    IN  /\ o.clock < MaxCounts
        /\ IF pc[Idle] = "masked" THEN "systick" \notin o.irq ELSE o.irq = {}
        /\ pc[Idle] = "woken" /\ o.flag => o.period - o.left < CountsPerTick - 1
        /\ o' = [o EXCEPT !.clock = @ + 1,
                          !.left = IF expires THEN o.period ELSE @ - 1,
                          !.flag = @ \/ expires,
                          !.irq = IF expires THEN @ \cup {"systick"} ELSE @]
        /\ UNCHANGED <<k, pc, call, calls>>

\* Another interrupt is pended; its handler notifies a task.
InterruptComes ==
    /\ CallsOf(NoTask, "notify") # {}
    /\ o' = [o EXCEPT !.irq = @ \cup {"notify"}]
    /\ UNCHANGED <<k, pc, call, calls>>

SysTickHandler ==
    LET r == xTaskIncrementTick(k)
    IN  /\ "systick" \in o.irq /\ ~Masked
        /\ k' = YieldIf(r.k, r.switch)
        /\ o' = [o EXCEPT !.irq = @ \ {"systick"}]
        /\ UNCHANGED <<pc, call, calls>>

NotifyHandler ==
    /\ "notify" \in o.irq /\ ~Masked
    /\ \E c \in CallsOf(NoTask, "notify") :
         k' = YieldIf(xTaskGenericNotifyFromISR(k, c[3], 1, "eSetBits"),
                      WokenByNotify(k, c[3]))
    /\ o' = [o EXCEPT !.irq = @ \ {"notify"}]
    /\ UNCHANGED <<pc, call, calls>>

PendSVHandler == o.irq = {} /\ ~Masked /\ PendSV

Next ==
    \/ \E t \in Task \ {Idle} : TaskDelay(t) \/ Wait(t) \/ WaitReturn(t)
    \/ IdleTask \/ IdleSuspended \/ ConfirmSleep \/ StartLongPeriod \/ WakeUp
    \/ CountSleep \/ IdleResume
    \/ Elapse \/ InterruptComes \/ SysTickHandler \/ NotifyHandler
    \/ PendSVHandler

Spec == Init /\ [][Next]_vars

-----------------------------------------------------------------------------
(* Properties *)

\* The kernel keeps the time through its sleeps: outside of one, the ticks it
\* has counted, with those pended and the one whose interrupt is pending, are
\* those of the timer since the start, and the timer is as far into the next;
\* whatever ended the sleep, and when.  The tick count never passes the time
\* at which a task is due (the assertion of vTaskStepTick): no sleep goes on
\* past it.
SleepKeepsTime ==
    /\ pc[Idle] \notin {"asleep", "woken"} =>
         LET pending == IF "systick" \in o.irq THEN 1 ELSE 0
         IN  /\ Clock + k.pended + pending = o.clock \div CountsPerTick
             /\ CountsPerTick - o.left = o.clock % CountsPerTick
    /\ k.tick <= k.unblock

=============================================================================
