-------------------------------- MODULE Tasks --------------------------------
(***************************************************************************)
(* The operations of the kernel on its tasks (tasks.c), as functions from  *)
(* a kernel state to the next: what one of them does inside one critical   *)
(* section, or with the scheduler suspended.  Scheduler, Queue and the     *)
(* other modules of the kernel apply them and say what may happen between. *)
(*                                                                         *)
(* The list an item is in (pxContainer) is read off the lists: the state   *)
(* item of a task is in at most one of ready, delayed, overflow, suspended *)
(* and termination, its event item in at most one of pending and events.   *)
(***************************************************************************)
EXTENDS Integers, Sequences, FiniteSets, SequencesExt, FiniteSetsExt, Lists

CONSTANTS
    Task,          \* task control blocks that may exist, the idle task's too
    NoTask,        \* NULL
    MaxPriorities, \* configMAX_PRIORITIES
    TickMod,       \* TickType_t has the values 0 .. TickMod - 1
    OverflowMod,   \* values of xNumOfOverflows
    NotifyBits,    \* bits of a notification value
    EventLists     \* event lists of the queues and other objects

ASSUME NoTaskAssumption == NoTask \notin Task
ASSUME PrioritiesAssumption == MaxPriorities \in Nat \ {0}
ASSUME TickAssumption == TickMod \in Nat \ {0, 1}
ASSUME OverflowAssumption == OverflowMod \in Nat \ {0}
ASSUME NotifyAssumption == NotifyBits \in Nat \ {0}

Priority == 0 .. MaxPriorities - 1
Tick == 0 .. TickMod - 1
portMAX_DELAY == TickMod - 1

\* 2 ^ n
TwoTo[n \in Nat] == IF n = 0 THEN 1 ELSE 2 * TwoTo[n - 1]
NotifyMod == TwoTo[NotifyBits]

\* The value of an event item that is not IN_USE for event bits.
NoBits == [used |-> FALSE]

\* The static variables, and the lists of prvInitialiseTaskLists.
EmptyKernel ==
    [current     |-> NoTask,                          \* pxCurrentTCB
     ready       |-> [p \in Priority |-> EmptyList],  \* pxReadyTasksLists
     top         |-> {},            \* uxTopReadyPriority: the bits that are set
     delayed     |-> <<>>,          \* pxDelayedTaskList
     overflow    |-> <<>>,          \* pxOverflowDelayedTaskList
     pending     |-> <<>>,          \* xPendingReadyList
     suspended   |-> <<>>,          \* xSuspendedTaskList
     termination |-> <<>>,          \* xTasksWaitingTermination
     events      |-> [e \in EventLists |-> <<>>],
     wake        |-> [t \in Task |-> 0],  \* value of xStateListItem
     event       |-> [t \in Task |-> MaxPriorities],  \* value of xEventListItem
     bits        |-> [t \in Task |-> NoBits],  \* the same, when it is IN_USE
     priority    |-> [t \in Task |-> 0],  \* uxPriority
     base        |-> [t \in Task |-> 0],  \* uxBasePriority
     mutexes     |-> [t \in Task |-> 0],  \* uxMutexesHeld
     notify      |-> [t \in Task |-> "not_waiting"],  \* ucNotifyState
     value       |-> [t \in Task |-> 0],              \* ulNotifiedValue
     tick        |-> 0,             \* xTickCount
     pended      |-> 0,             \* xPendedTicks
     unblock     |-> portMAX_DELAY, \* xNextTaskUnblockTime
     overflows   |-> 0,             \* xNumOfOverflows
     suspensions |-> 0,             \* uxSchedulerSuspended
     yield       |-> FALSE,         \* xYieldPending
     running     |-> FALSE,         \* xSchedulerRunning
     count       |-> 0,             \* uxCurrentNumberOfTasks
     cleanup     |-> 0,             \* uxDeletedTasksWaitingCleanUp
     pendsv      |-> FALSE]         \* PENDSVSET of the interrupt controller

-----------------------------------------------------------------------------
(* Which list a task is in *)

IsReady(k, t) == \E p \in Priority : Contained(t, k.ready[p])
IsDelayed(k, t) == t \in ToSet(k.delayed) \cup ToSet(k.overflow)

\* listLIST_ITEM_CONTAINER(&xEventListItem) != NULL
EventItemInList(k, t) ==
    \/ t \in ToSet(k.pending)
    \/ \E e \in EventLists : t \in ToSet(k.events[e])

\* uxListRemove(&xStateListItem), listREMOVE_ITEM.  The value of an item in no
\* delayed list is not looked at again.
RemoveStateItem(k, t) ==
    [k EXCEPT !.ready = [p \in Priority |-> IF Contained(t, @[p])
                                              THEN ListRemove(@[p], t) ELSE @[p]],
              !.delayed = Without(@, t),
              !.overflow = Without(@, t),
              !.suspended = Without(@, t),
              !.termination = Without(@, t),
              !.wake[t] = 0]

\* uxListRemove(&xEventListItem) of an item that is in a list, or in none.
RemoveEventItem(k, t) ==
    [k EXCEPT !.pending = Without(@, t),
              !.events = [e \in EventLists |-> Without(@[e], t)]]

\* portRESET_READY_PRIORITY
portRESET_READY_PRIORITY(k, p) == [k EXCEPT !.top = @ \ {p}]

\* Mutant: the bit goes although another task is ready at the priority.
ResetReadyPriorityAlways(k, p) == portRESET_READY_PRIORITY(k, p)

\* taskRESET_READY_PRIORITY: only when the ready list of p is empty.
taskRESET_READY_PRIORITY(k, p) ==
    IF k.ready[p].items = <<>> THEN portRESET_READY_PRIORITY(k, p) ELSE k

\* uxListRemove returned 0: t was alone in its list.
LeavesListEmpty(k, t) ==
    \/ \E p \in Priority : k.ready[p].items = <<t>>
    \/ <<t>> \in {k.delayed, k.overflow, k.suspended, k.termination}

\* prvAddTaskToReadyList
prvAddTaskToReadyList(k, t) ==
    [k EXCEPT !.top = @ \cup {k.priority[t]},
              !.ready[k.priority[t]] = InsertEnd(@, t)]

MoveToReadyList(k, t) == prvAddTaskToReadyList(RemoveStateItem(k, t), t)

\* portYIELD: PendSV is pended.  Inside a critical section it waits for the
\* end of the section.
portYIELD(k) == [k EXCEPT !.pendsv = TRUE]
YieldIf(k, condition) == IF condition THEN portYIELD(k) ELSE k

-----------------------------------------------------------------------------
(* Time *)

\* prvResetNextTaskUnblockTime
prvResetNextTaskUnblockTime(k) ==
    [k EXCEPT !.unblock = IF k.delayed = <<>> THEN portMAX_DELAY
                          ELSE k.wake[Head(k.delayed)]]

\* Mutant: a wake time that has wrapped goes to the current list.
DelayWithoutOverflowList(k, ticks, indefinitely) ==
    LET t == k.current
        r == RemoveStateItem(k, t)
        s == IF LeavesListEmpty(k, t)
               THEN portRESET_READY_PRIORITY(r, k.priority[t]) ELSE r
        w == [s EXCEPT !.wake[t] = (k.tick + ticks) % TickMod]
    IN  IF ticks = portMAX_DELAY /\ indefinitely
          THEN [s EXCEPT !.suspended = Append(@, t)]
          ELSE [w EXCEPT !.delayed = SortedInsert(@, t, w.wake),
                         !.unblock = IF w.wake[t] < @ THEN w.wake[t] ELSE @]

\* prvAddCurrentTaskToDelayedList: the current task leaves its ready list for
\* the suspended list, or for the delayed list of the wake time, which is the
\* other one when the tick count wraps before.
prvAddCurrentTaskToDelayedList(k, ticks, indefinitely) ==
    LET t == k.current
        r == RemoveStateItem(k, t)
        s == IF LeavesListEmpty(k, t)
               THEN portRESET_READY_PRIORITY(r, k.priority[t]) ELSE r
        w == [s EXCEPT !.wake[t] = (k.tick + ticks) % TickMod]
    IN  IF ticks = portMAX_DELAY /\ indefinitely
          THEN [s EXCEPT !.suspended = Append(@, t)]
        ELSE IF w.wake[t] < k.tick
          THEN [w EXCEPT !.overflow = SortedInsert(@, t, w.wake)]
        ELSE [w EXCEPT !.delayed = SortedInsert(@, t, w.wake),
                       !.unblock = IF w.wake[t] < @ THEN w.wake[t] ELSE @]

\* taskSWITCH_DELAYED_LISTS, when the tick count has wrapped to 0.
taskSWITCH_DELAYED_LISTS(k) ==
    prvResetNextTaskUnblockTime(
        [k EXCEPT !.delayed = k.overflow,
                  !.overflow = k.delayed,
                  !.overflows = (@ + 1) % OverflowMod])

\* A task whose time has come leaves the delayed list, and the event list it
\* was waiting on, if any.
WakeFromDelay(k, t) == RemoveEventItem(MoveToReadyList(k, t), t)

\* Mutant: a task is due a tick early.
DueTasksEarly(k) ==
    LET later == {i \in DOMAIN k.delayed : k.wake[k.delayed[i]] > k.tick + 1}
    IN  IF later = {} THEN k.delayed ELSE SubSeq(k.delayed, 1, Min(later) - 1)

\* The head of the delayed list that is due: up to the first later task.
DueTasks(k) ==
    LET later == {i \in DOMAIN k.delayed : k.wake[k.delayed[i]] > k.tick}
    IN  IF later = {} THEN k.delayed ELSE SubSeq(k.delayed, 1, Min(later) - 1)

\* xTaskIncrementTick: the next state, and whether a switch is required.
xTaskIncrementTick(k) ==
    IF k.suspensions > 0
      THEN [k |-> [k EXCEPT !.pended = @ + 1], switch |-> FALSE]
      ELSE LET ticked  == [k EXCEPT !.tick = (@ + 1) % TickMod]
               listed  == IF ticked.tick = 0
                            THEN taskSWITCH_DELAYED_LISTS(ticked) ELSE ticked
               due     == IF listed.tick >= listed.unblock
                            THEN DueTasks(listed) ELSE <<>>
               woken   == FoldLeft(WakeFromDelay, listed, due)
               unblocked == IF listed.tick >= listed.unblock
                              THEN prvResetNextTaskUnblockTime(woken) ELSE woken
               running == k.priority[k.current]
           IN  [k |-> unblocked,
                switch |-> \/ \E t \in ToSet(due) : k.priority[t] > running
                           \/ Len(woken.ready[running].items) > 1
                           \/ k.yield]

\* vTaskSwitchContext, run by PendSV: pxCurrentTCB becomes the next task of
\* the highest priority whose bit is set.
vTaskSwitchContext(k) ==
    IF k.suspensions > 0
      THEN [k EXCEPT !.yield = TRUE, !.pendsv = FALSE]
      ELSE LET list == IndexToNext(k.ready[Max(k.top)])
           IN  [k EXCEPT !.yield = FALSE,
                         !.pendsv = FALSE,
                         !.ready[Max(k.top)] = list,
                         !.current = list.items[list.index]]

\* vTaskSuspendAll
vTaskSuspendAll(k) == [k EXCEPT !.suspensions = @ + 1]

\* Mutant: the switch to a pended task is not asked for.
ReadyPendedNoYield(k, t) == MoveToReadyList(RemoveEventItem(k, t), t)

\* A task that an interrupt put on xPendingReadyList.
ReadyPended(k, t) ==
    LET r == MoveToReadyList(RemoveEventItem(k, t), t)
    IN  [r EXCEPT !.yield = @ \/ k.priority[t] >= k.priority[k.current]]

\* A tick that was counted while the scheduler was suspended.
CatchUpTick(k, i) ==
    LET r == xTaskIncrementTick(k)
    IN  [r.k EXCEPT !.yield = @ \/ r.switch]

\* xTaskResumeAll: the pended tasks are made ready, the ticks missed are
\* counted, and a switch found necessary on the way is asked for.
xTaskResumeAll(k) ==
    LET r == [k EXCEPT !.suspensions = @ - 1]
        pended == FoldLeft(ReadyPended, r, r.pending)
        timed == IF r.pending = <<>> THEN r
                 ELSE prvResetNextTaskUnblockTime(pended)
        ticked == [FoldLeft(CatchUpTick, timed, [i \in 1 .. timed.pended |-> i])
                     EXCEPT !.pended = 0]
    IN  IF r.suspensions > 0 THEN r ELSE YieldIf(ticked, ticked.yield)

\* What xTaskResumeAll returned, in the state it left: xYieldPending stays up
\* until PendSV has run.
AlreadyYielded(k) == k.suspensions = 0 /\ k.yield

\* xTaskCatchUpTicks, up to its xTaskResumeAll.
PendTicks(k, ticks) == [k EXCEPT !.pended = @ + ticks]

-----------------------------------------------------------------------------
(* Tasks come and go *)

\* prvInitialiseNewTask: a priority beyond the highest is
\* clamped to it.
prvInitialiseNewTask(k, t, priority) ==
    LET p == IF priority < MaxPriorities THEN priority ELSE MaxPriorities - 1
    IN  [k EXCEPT !.priority[t] = p,
                  !.base[t] = p,
                  !.event[t] = MaxPriorities - p,
                  !.bits[t] = NoBits,
                  !.mutexes[t] = 0,
                  !.notify[t] = "not_waiting",
                  !.value[t] = 0]

\* prvAddNewTaskToReadyList, its critical section: before the scheduler runs
\* the newest task of the highest priority is the one to start.
prvAddNewTaskToReadyList(k, t) ==
    LET first == \/ k.current = NoTask
                 \/ ~k.running /\ k.priority[k.current] <= k.priority[t]
    IN  prvAddTaskToReadyList([k EXCEPT !.count = @ + 1,
                                        !.current = IF first THEN t ELSE @], t)

\* xTaskCreate, of a task and its priority.
xTaskCreate(k, new) ==
    prvAddNewTaskToReadyList(prvInitialiseNewTask(k, new[1], new[2]), new[1])

\* vTaskStartScheduler, after it has created the idle task.
vTaskStartScheduler(k) == [k EXCEPT !.running = TRUE, !.unblock = portMAX_DELAY]

\* main creates its tasks, a sequence of <<task, priority>>; then
\* vTaskStartScheduler creates the idle task and starts.
BootedKernel(tasks, idle) ==
    vTaskStartScheduler(
        xTaskCreate(FoldLeft(xTaskCreate, EmptyKernel, tasks), <<idle, 0>>))

\* uxListRemove, and the bit of the priority when that emptied the list.
RemoveFromAnyList(k, t) ==
    LET r == RemoveStateItem(k, t)
    IN  IF LeavesListEmpty(k, t)
          THEN taskRESET_READY_PRIORITY(r, k.priority[t]) ELSE r

\* vTaskDelete, its critical section: the memory of the running task is left
\* to the idle task, that of another is freed after the section.
vTaskDelete(k, t) ==
    LET r == RemoveEventItem(RemoveFromAnyList(k, t), t)
    IN  IF t = k.current
          THEN [r EXCEPT !.termination = Append(@, t), !.cleanup = @ + 1]
          ELSE prvResetNextTaskUnblockTime([r EXCEPT !.count = @ - 1])

\* prvCheckTasksWaitingTermination, one turn of its loop.
prvCheckTasksWaitingTermination(k) ==
    [RemoveStateItem(k, Head(k.termination)) EXCEPT !.count = @ - 1,
                                                    !.cleanup = @ - 1]

\* Mutant: the task goes on waiting for its notification.
TaskSuspendWaiting(k, t) ==
    LET r == RemoveEventItem(RemoveFromAnyList(k, t), t)
    IN  [r EXCEPT !.suspended = Append(@, t)]

\* vTaskSuspend, its first critical section.
vTaskSuspend(k, t) ==
    LET r == RemoveEventItem(RemoveFromAnyList(k, t), t)
    IN  [r EXCEPT !.suspended = Append(@, t),
                  !.notify[t] = IF @ = "waiting" THEN "not_waiting" ELSE @]

\* prvTaskIsTaskSuspended
prvTaskIsTaskSuspended(k, t) ==
    /\ t \in ToSet(k.suspended)
    /\ ~EventItemInList(k, t)

\* vTaskResume of another task than the current one.
vTaskResume(k, t) ==
    IF prvTaskIsTaskSuspended(k, t)
      THEN YieldIf(MoveToReadyList(k, t),
                   k.priority[t] >= k.priority[k.current])
      ELSE k

\* xTaskResumeFromISR: with the scheduler suspended the event item, which is
\* in no list, marks the task in xPendingReadyList.
xTaskResumeFromISR(k, t) ==
    IF ~prvTaskIsTaskSuspended(k, t) THEN k
    ELSE IF k.suspensions > 0 THEN [k EXCEPT !.pending = Append(@, t)]
    ELSE [MoveToReadyList(k, t)
            EXCEPT !.yield = @ \/ k.priority[t] >= k.priority[k.current]]

\* vTaskPrioritySet.  A priority that was inherited stays as it is; a task in
\* an event list gets the new value but keeps its place.
vTaskPrioritySet(k, t, priority) ==
    LET new == IF priority < MaxPriorities THEN priority ELSE MaxPriorities - 1
        entry == k.priority[t]
        yieldRequired ==
            \/ new > k.base[t] /\ t # k.current
                               /\ new >= k.priority[k.current]
            \/ new < k.base[t] /\ t = k.current
        set == [k EXCEPT !.priority[t] = IF k.base[t] = @ THEN new ELSE @,
                         !.base[t] = new,
                         !.event[t] = IF k.bits[t].used THEN @
                                      ELSE MaxPriorities - new]
        r == RemoveStateItem(set, t)
        moved == IF LeavesListEmpty(k, t)
                   THEN portRESET_READY_PRIORITY(r, entry) ELSE r
    IN  IF k.base[t] = new THEN k
        ELSE YieldIf(IF Contained(t, k.ready[entry])
                       THEN prvAddTaskToReadyList(moved, t) ELSE set,
                     yieldRequired)

\* eTaskGetState: a task blocked without a timeout is in the suspended list
\* too, and is told apart by what it waits on.
eTaskGetState(k, t) ==
    IF t = k.current THEN "running"
    ELSE IF IsDelayed(k, t) THEN "blocked"
    ELSE IF t \in ToSet(k.suspended)
      THEN IF EventItemInList(k, t) \/ k.notify[t] = "waiting"
             THEN "blocked" ELSE "suspended"
    ELSE IF t \in ToSet(k.termination) \/ ~IsReady(k, t) THEN "deleted"
    ELSE "ready"

=============================================================================
