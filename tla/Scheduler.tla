------------------------------ MODULE Scheduler ------------------------------
(***************************************************************************)
(* The scheduler at work: tasks call the kernel (tasks.c), interrupts come *)
(* in between, and PendSV switches tasks (port.c).  A critical section is  *)
(* one step.  A function that has several of them, or that works with the  *)
(* scheduler suspended, takes a step for each part, and pc tells how far   *)
(* the task is: interrupts, and other tasks where they may run, get in     *)
(* between.  PendSV has the lowest priority of the interrupts but goes     *)
(* before every task: no task takes a step while it is pending.            *)
(***************************************************************************)
EXTENDS TaskWaits

CONSTANTS
    Idle,        \* the idle task
    FirstTasks,  \* the tasks main creates, in their order: <<task, priority>>
    Priorities,  \* priorities the application sets
    Delays,      \* ticks of a delay or of a wait
    Actions,     \* eActions of the notifications
    Calls,       \* the sets of calls: an application makes those of one
    MaxPended    \* bound of this instance on the ticks pended

VARIABLES
    k,     \* the kernel state
    pc,    \* where each task is: "run" in its own code, "none" before it exists
    arg,   \* what the call in progress works on: ticks, or a task
    prev,  \* *pxPreviousWakeTime of xTaskDelayUntil
    calls, \* the calls the application makes
    left,  \* history: ticks of the interrupt until a delayed task must wake
    held,  \* history: tasks that vTaskSuspend has put away
    owed   \* history: tasks with a notification they have not returned with

vars == <<k, pc, arg, prev, calls, left, held, owed>>

ASSUME TasksAssumption ==
    /\ Idle \in Task /\ IsFiniteSet(Task)
    /\ FirstTasks \in Seq((Task \ {Idle}) \X Priority)
    /\ \A i, j \in DOMAIN FirstTasks :
         FirstTasks[i][1] = FirstTasks[j][1] => i = j
ASSUME ValuesAssumption ==
    /\ Priorities \subseteq Nat
    /\ Delays \subseteq Tick
    /\ Actions \subseteq {"eNoAction", "eSetBits", "eIncrement",
                         "eSetValueWithOverwrite", "eSetValueWithoutOverwrite"}
    /\ MaxPended \in Nat

Init ==
    /\ k = BootedKernel(FirstTasks, Idle)
    /\ pc = [t \in Task |->
               IF t = Idle \/ \E i \in DOMAIN FirstTasks : FirstTasks[i][1] = t
                 THEN "run" ELSE "none"]
    /\ arg = [t \in Task |-> 0]
    /\ prev = [t \in Task |-> 0]
    /\ calls \in Calls
    /\ left = [t \in Task |-> 0]
    /\ held = {}
    /\ owed = {}

-----------------------------------------------------------------------------
(* A task takes a step *)

\* vPortEnterCritical, vPortExitCritical: the step of a task is not
\* interrupted, and PendSV has been served before it.
At(t, where) ==
    /\ k.current = t
    /\ ~k.pendsv
    /\ pc[t] = where

Goes(t, where) == pc' = [pc EXCEPT ![t] = where]
Returned(t) == arg' = [arg EXCEPT ![t] = 0]

May(t, call) == At(t, "run") /\ call \in calls /\ t # Idle

\* The tasks a task may name in a call: those that have not been deleted.
Others == {u \in Task \ {Idle} : pc[u] \notin {"none", "deleted", "freed"}}

\* n ticks pass.  A task that blocks wakes as many ticks as it asked for after
\* those that have been counted.
Asked(t) ==
    IF pc[t] = "delay_until" THEN (prev'[t] - k.tick) % TickMod ELSE arg'[t]

TimePasses(n) ==
    left' = [t \in Task |-> IF ~IsDelayed(k', t) THEN 0
                            ELSE IF IsDelayed(k, t) THEN left[t] - n
                            ELSE Asked(t) - k.pended]

\* portYIELD_WITHIN_API at the end of a call.
Yield(t) ==
    /\ At(t, "yield")
    /\ k' = portYIELD(k)
    /\ Goes(t, "run")
    /\ UNCHANGED <<arg, prev, calls, held, owed>>

\* vTaskDelay, to its vTaskSuspendAll.
Delay(t) ==
    /\ May(t, "delay")
    /\ \E n \in Delays :
         \/ /\ n = 0
            /\ Goes(t, "yield")
            /\ UNCHANGED <<k, arg>>
         \/ /\ n > 0
            /\ k' = vTaskSuspendAll(k)
            /\ arg' = [arg EXCEPT ![t] = n]
            /\ Goes(t, "delay")
    /\ UNCHANGED <<prev, calls, held, owed>>

DelayAdd(t) ==
    /\ At(t, "delay")
    /\ k' = prvAddCurrentTaskToDelayedList(k, arg[t], FALSE)
    /\ Goes(t, "resume_all")
    /\ UNCHANGED <<arg, prev, calls, held, owed>>

\* xTaskDelayUntil: the wake time is still to come, by the values of counters
\* that wrap.
WakeTimeAhead(previous, increment, now) ==
    LET wake == (previous + increment) % TickMod
    IN  IF now < previous
          THEN wake < previous /\ wake > now
          ELSE wake < previous \/ wake > now

DelayUntil(t) ==
    /\ May(t, "delay_until")
    /\ \E n \in Delays \ {0} : arg' = [arg EXCEPT ![t] = n]
    /\ k' = vTaskSuspendAll(k)
    /\ Goes(t, "delay_until")
    /\ UNCHANGED <<prev, calls, held, owed>>

DelayUntilAdd(t) ==
    LET wake == (prev[t] + arg[t]) % TickMod
        ticks == (wake - k.tick) % TickMod
    IN  /\ At(t, "delay_until")
        /\ prev' = [prev EXCEPT ![t] = wake]
        /\ \/ /\ WakeTimeAhead(prev[t], arg[t], k.tick)
              /\ k' = prvAddCurrentTaskToDelayedList(k, ticks, FALSE)
           \/ /\ ~WakeTimeAhead(prev[t], arg[t], k.tick)
              /\ UNCHANGED <<k>>
        /\ Goes(t, "resume_all")
        /\ UNCHANGED <<arg, calls, held, owed>>

\* vTaskDelay and xTaskDelayUntil yield when xTaskResumeAll has not.
ResumeAllAndYield(t) ==
    /\ At(t, "resume_all")
    /\ k' = xTaskResumeAll(k)
    /\ Goes(t, IF AlreadyYielded(k') THEN "run" ELSE "yield")
    /\ Returned(t)
    /\ UNCHANGED <<prev, calls, held, owed>>

\* An application that suspends the scheduler for a while.
SuspendAll(t) ==
    /\ May(t, "suspend_all")
    /\ k' = vTaskSuspendAll(k)
    /\ Goes(t, "suspended_all")
    /\ UNCHANGED <<arg, prev, calls, held, owed>>

ResumeAll(t) ==
    /\ At(t, "suspended_all")
    /\ k' = xTaskResumeAll(k)
    /\ Goes(t, "run")
    /\ UNCHANGED <<arg, prev, calls, held, owed>>

\* xTaskCatchUpTicks: ticks that were missed count as time gone by.
CatchUpTicks(t) ==
    /\ May(t, "catch_up")
    /\ k' = vTaskSuspendAll(k)
    /\ Goes(t, "catch_up")
    /\ UNCHANGED <<arg, prev, calls, held, owed>>

CatchUpTicksPend(t, n) ==
    /\ At(t, "catch_up")
    /\ k.pended + n <= MaxPended
    /\ k' = PendTicks(k, n)
    /\ Goes(t, "suspended_all")
    /\ UNCHANGED <<arg, prev, calls, held, owed>>

-----------------------------------------------------------------------------
(* Notifications *)

NotifyTake(t) ==
    /\ May(t, "take")
    /\ \E n \in Delays \cup {portMAX_DELAY} :
         /\ k' = NotifyTakeEnter(k, n)
         /\ arg' = [arg EXCEPT ![t] = n]
    /\ Goes(t, "take")
    /\ UNCHANGED <<prev, calls, held, owed>>

NotifyTakeReturn(t) ==
    /\ At(t, "take")
    /\ \E clear \in BOOLEAN : k' = NotifyTakeExit(k, clear)
    /\ owed' = IF k'.value[t] = 0 THEN owed \ {t} ELSE owed
    /\ Goes(t, "run")
    /\ Returned(t)
    /\ UNCHANGED <<prev, calls, held>>

NotifyWait(t) ==
    /\ May(t, "wait")
    /\ \E n \in Delays \cup {portMAX_DELAY} :
         /\ k' = NotifyWaitEnter(k, 0, n)
         /\ arg' = [arg EXCEPT ![t] = n]
    /\ Goes(t, "wait")
    /\ UNCHANGED <<prev, calls, held, owed>>

NotifyWaitReturn(t) ==
    /\ At(t, "wait")
    /\ k' = NotifyWaitExit(k, NotifyMod - 1)
    /\ owed' = owed \ {t}
    /\ Goes(t, "run")
    /\ Returned(t)
    /\ UNCHANGED <<prev, calls, held>>

\* A count of gives stays within the width of a notification value.
Countable(u, action) == action = "eIncrement" => k.value[u] < NotifyMod - 1

\* u is to see the notification: NotifyTake looks at the value only.
Owe(u, action) ==
    owed' = IF \/ NotifyFails(k, u, action)
               \/ action = "eNoAction" /\ "take" \in calls
              THEN owed ELSE owed \cup {u}

Notify(t) ==
    /\ May(t, "notify")
    /\ \E u \in Others, action \in Actions :
         /\ Countable(u, action)
         /\ Owe(u, action)
         /\ k' = xTaskGenericNotify(k, u, 1, action)
    /\ UNCHANGED <<pc, arg, prev, calls, held>>

\* A notification is taken back with what tells of it: the value for
\* NotifyTake, the state for NotifyWait.
NotifyClear(t) ==
    /\ May(t, "clear")
    /\ \E u \in Others :
         \/ /\ k' = xTaskGenericNotifyStateClear(k, u)
            /\ owed' = IF "take" \in calls THEN owed ELSE owed \ {u}
         \/ /\ k' = ulTaskGenericNotifyValueClear(k, u, NotifyMod - 1)
            /\ owed' = IF "take" \in calls /\ k'.value[u] = 0
                       THEN owed \ {u} ELSE owed
    /\ UNCHANGED <<pc, arg, prev, calls, held>>

-----------------------------------------------------------------------------
(* Tasks are created, deleted, suspended, resumed and given priorities *)

Create(t) ==
    /\ May(t, "create")
    /\ \E u \in Task, p \in Priorities :
         /\ pc[u] = "none"
         /\ k' = xTaskCreate(k, <<u, p>>)
         /\ pc' = [pc EXCEPT ![u] = "run", ![t] = "created"]
         /\ arg' = [arg EXCEPT ![t] = u]
    /\ UNCHANGED <<prev, calls, held, owed>>

\* The comparison is made after the critical section.
CreateReturn(t) ==
    /\ At(t, "created")
    /\ Goes(t, IF k.priority[arg[t]] > k.priority[t] THEN "yield" ELSE "run")
    /\ Returned(t)
    /\ UNCHANGED <<k, prev, calls, held, owed>>

Delete(t) ==
    /\ May(t, "delete")
    /\ \E u \in Others :
         /\ k' = vTaskDelete(k, u)
         /\ pc' = IF u = t THEN [pc EXCEPT ![t] = "deleted"]
                  ELSE [pc EXCEPT ![t] = "free", ![u] = "freed"]
         /\ arg' = [arg EXCEPT ![t] = u, ![u] = 0]
         /\ held' = held \ {u}
    /\ UNCHANGED <<prev, calls, owed>>

\* The end of a task that deleted itself, which never runs again.
DeleteYield(t) ==
    /\ At(t, "deleted")
    /\ k' = portYIELD(k)
    /\ UNCHANGED <<pc, arg, prev, calls, held, owed>>

\* The idle task takes the tasks that deleted themselves off their list.
IdleCleanUp ==
    /\ At(Idle, "run")
    /\ k.cleanup > 0
    /\ k' = prvCheckTasksWaitingTermination(k)
    /\ pc' = [pc EXCEPT ![Idle] = "free", ![Head(k.termination)] = "freed"]
    /\ arg' = [arg EXCEPT ![Idle] = Head(k.termination),
                          ![Head(k.termination)] = 0]
    /\ UNCHANGED <<prev, calls, held, owed>>

\* prvDeleteTCB: the memory may be used for a new task from here on.
DeleteTCB(t) ==
    /\ At(t, "free")
    /\ pc' = [pc EXCEPT ![t] = "run", ![arg[t]] = "none"]
    /\ Returned(t)
    /\ owed' = owed \ {arg[t]}
    /\ prev' = [prev EXCEPT ![arg[t]] = 0]
    /\ UNCHANGED <<k, calls, held>>

Suspend(t) ==
    /\ May(t, "suspend")
    /\ \E u \in Others :
         /\ k' = vTaskSuspend(k, u)
         /\ arg' = [arg EXCEPT ![t] = u]
         /\ held' = held \cup {u}
    /\ Goes(t, "suspend")
    /\ UNCHANGED <<prev, calls, owed>>

\* The second critical section of vTaskSuspend.
SuspendReturn(t) ==
    /\ At(t, "suspend")
    /\ k' = prvResetNextTaskUnblockTime(k)
    /\ Goes(t, IF arg[t] = t THEN "yield" ELSE "run")
    /\ Returned(t)
    /\ UNCHANGED <<prev, calls, held, owed>>

Resume(t) ==
    /\ May(t, "resume")
    /\ \E u \in Others \ {t} :
         /\ k' = vTaskResume(k, u)
         /\ held' = held \ {u}
    /\ UNCHANGED <<pc, arg, prev, calls, owed>>

PrioritySet(t) ==
    /\ May(t, "priority")
    /\ \E u \in Others, p \in Priorities : k' = vTaskPrioritySet(k, u, p)
    /\ UNCHANGED <<pc, arg, prev, calls, held, owed>>

-----------------------------------------------------------------------------
(* Interrupts *)

\* xPortSysTickHandler
SysTick ==
    LET r == xTaskIncrementTick(k)
    IN  /\ k.suspensions > 0 => k.pended < MaxPended
        /\ k' = YieldIf(r.k, r.switch)
        /\ UNCHANGED <<pc, arg, prev, calls, held, owed>>

\* xPortPendSVHandler
PendSV ==
    /\ k.pendsv
    /\ k' = vTaskSwitchContext(k)
    /\ UNCHANGED <<pc, arg, prev, calls, held, owed>>

\* A handler that notifies a task and ends in portYIELD_FROM_ISR.
NotifyFromISR ==
    /\ "notify_isr" \in calls
    /\ \E u \in Others, action \in Actions :
         /\ Countable(u, action)
         /\ Owe(u, action)
         /\ k' = YieldIf(xTaskGenericNotifyFromISR(k, u, 1, action),
                         WokenByNotify(k, u))
    /\ UNCHANGED <<pc, arg, prev, calls, held>>

\* A handler that resumes a task and yields when the call says so.  It names
\* a task that vTaskSuspend has put away, or any task.
ResumeFromISR ==
    /\ \E u \in Others :
         /\ \/ "resume_isr" \in calls /\ u \in held
            \/ "resume_isr_any" \in calls
         /\ k' = YieldIf(xTaskResumeFromISR(k, u),
                         /\ k.suspensions = 0
                         /\ prvTaskIsTaskSuspended(k, u)
                         /\ k.priority[u] >= k.priority[k.current])
         /\ held' = held \ {u}
    /\ UNCHANGED <<pc, arg, prev, calls, owed>>

-----------------------------------------------------------------------------

TaskStep(t) ==
    \/ Yield(t) \/ Delay(t) \/ DelayAdd(t) \/ DelayUntil(t) \/ DelayUntilAdd(t)
    \/ ResumeAllAndYield(t) \/ SuspendAll(t) \/ ResumeAll(t)
    \/ CatchUpTicks(t)
    \/ NotifyTake(t) \/ NotifyTakeReturn(t) \/ NotifyWait(t)
    \/ NotifyWaitReturn(t) \/ Notify(t) \/ NotifyClear(t)
    \/ Create(t) \/ CreateReturn(t) \/ Delete(t) \/ DeleteYield(t)
    \/ DeleteTCB(t) \/ Suspend(t) \/ SuspendReturn(t) \/ Resume(t)
    \/ PrioritySet(t)

Interrupt == PendSV \/ NotifyFromISR \/ ResumeFromISR

Next ==
    \/ /\ Interrupt \/ IdleCleanUp \/ \E t \in Task : TaskStep(t)
       /\ TimePasses(0)
    \/ /\ SysTick
       /\ TimePasses(1)
    \/ \E t \in Task, n \in Delays :
         /\ CatchUpTicksPend(t, n)
         /\ TimePasses(n)

Spec == Init /\ [][Next]_vars

-----------------------------------------------------------------------------
(* Properties *)

Exists(t) == pc[t] \notin {"none", "freed"}

Occurrences(t, s) == Cardinality({i \in DOMAIN s : s[i] = t})

StateItemPlaces(t) ==
    Occurrences(t, k.delayed) + Occurrences(t, k.overflow)
    + Occurrences(t, k.suspended) + Occurrences(t, k.termination)
    + Cardinality({x \in Priority \X (1 .. Cardinality(Task)) :
                     /\ x[2] \in DOMAIN k.ready[x[1]].items
                     /\ k.ready[x[1]].items[x[2]] = t})

\* The lists are those the scheduler takes them for, after every critical
\* section and whatever got in between: a task is in one list by its state
\* item and in at most one by its event item, the ready lists hold tasks of
\* their priority, a bit of uxTopReadyPriority is set just when the list has
\* a task (the optimised selection looks at nothing else, and takes a wild
\* task from an empty list), and the two counts of tasks are right.
ListsConsistent ==
    /\ \A t \in Task : StateItemPlaces(t) = IF Exists(t) THEN 1 ELSE 0
    /\ \A t \in Task : Occurrences(t, k.pending) <= IF Exists(t) THEN 1 ELSE 0
    /\ \A p \in Priority :
         /\ p \in k.top <=> k.ready[p].items # <<>>
         /\ k.ready[p].index \in 0 .. Len(k.ready[p].items)
         /\ \A i \in DOMAIN k.ready[p].items :
              k.priority[k.ready[p].items[i]] = p
    /\ k.count = Cardinality({t \in Task : Exists(t)})
    /\ k.cleanup = Len(k.termination)

\* The task is past what it changed but has not asked for its switch yet.
BeforeYield(t) ==
    \/ pc[t] \in {"yield", "created", "deleted"}
    \/ pc[t] = "suspend" /\ arg[t] = t

\* When the scheduler is not suspended and no switch is pending the running
\* task is ready and no ready task has a higher priority: every call and every
\* interrupt that changes who should run asks for the switch.
HighestPriorityRuns ==
    k.suspensions = 0 /\ ~k.pendsv /\ ~BeforeYield(k.current) =>
        /\ Contained(k.current, k.ready[k.priority[k.current]])
        /\ k.top \subseteq 0 .. k.priority[k.current]

\* A delayed task wakes when its ticks have passed, those that the suspended
\* scheduler has still to count included: its wake time is that far from the
\* tick count, modulo the width of the counter, it is on the list of the turn
\* of the counter it wakes in, and xNextTaskUnblockTime, before which no tick
\* looks at the list, is not later.
WakeTimesExact ==
    /\ \A t \in Task : IsDelayed(k, t) =>
         LET n == left[t] + k.pended
         IN  /\ n >= 1
             /\ k.wake[t] = (k.tick + n) % TickMod
             /\ t \in {k.delayed[i] : i \in DOMAIN k.delayed}
                  <=> k.tick + n < TickMod
    /\ k.delayed # <<>> => k.unblock <= k.wake[Head(k.delayed)]
    /\ \A i, j \in DOMAIN k.delayed :
         i < j => k.wake[k.delayed[i]] <= k.wake[k.delayed[j]]

\* A task in a delayed list gets out of it when its ticks have passed, or
\* because of a notification, of vTaskSuspend or of vTaskDelete: none wakes
\* early, whatever the tick count and the ticks that were pended.
WakesOnTime ==
    [][\A t \in Task :
         IsDelayed(k, t) /\ ~IsDelayed(k', t) =>
             \/ left[t] + k.pended <= (k'.tick - k.tick) % TickMod
             \/ k'.notify[t] = "received"
             \/ t \in held' \/ pc'[t] = "freed"]_vars

\* No notification is missed: a task that waits for one, and that no
\* vTaskSuspend has put away, is ready or about to be made ready when there is
\* one, also when it came before the call, as the wait times out, or while the
\* scheduler is suspended.
NoNotificationMissed ==
    \A t \in Task :
        /\ pc[t] \in {"take", "wait"}
        /\ t \notin held
        /\ ~IsReady(k, t)
        /\ ~EventItemInList(k, t)
        => t \notin owed

\* A task is pended once: the assertion of vTaskNotifyGiveFromISR and
\* xTaskGenericNotifyFromISR that the event item of a task that waits for a
\* notification is in no list before it is put in xPendingReadyList.
PendedOnce == \A t \in Task : Occurrences(t, k.pending) <= 1

\* While the scheduler is suspended the interrupts keep out of the lists: the
\* task that suspended it works on them with the interrupts enabled.
InterruptsKeepOut ==
    [][k.suspensions > 0 /\ pc' = pc =>
         /\ k'.ready = k.ready /\ k'.top = k.top
         /\ k'.delayed = k.delayed /\ k'.overflow = k.overflow
         /\ k'.suspended = k.suspended
         /\ k'.tick = k.tick /\ k'.unblock = k.unblock]_vars

\* A task that vTaskSuspend has put away stays so until it is resumed: no
\* timeout and no notification it was waiting for makes it ready.
SuspendedStays ==
    \A t \in held :
        /\ Occurrences(t, k.suspended) = 1
        /\ ~EventItemInList(k, t)

=============================================================================
