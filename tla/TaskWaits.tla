------------------------------ MODULE TaskWaits ------------------------------
(***************************************************************************)
(* What tasks wait for (tasks.c): event lists, which the queues and the    *)
(* other objects of the kernel keep, timeouts, the priority that the       *)
(* holder of a mutex inherits, and task notifications.  As in Tasks, each  *)
(* operator is a function from a kernel state to the next.                 *)
(***************************************************************************)
EXTENDS Tasks

-----------------------------------------------------------------------------
(* Event lists *)

\* vTaskPlaceOnEventList: in the order of the priorities.
vTaskPlaceOnEventList(k, list, ticks) ==
    prvAddCurrentTaskToDelayedList(
        [k EXCEPT !.events[list] = SortedInsert(@, k.current, k.event)],
        ticks, TRUE)

\* vTaskPlaceOnUnorderedEventList: the item carries what the task waits for.
vTaskPlaceOnUnorderedEventList(k, list, bits, ticks) ==
    prvAddCurrentTaskToDelayedList(
        [k EXCEPT !.bits[k.current] = bits,
                  !.events[list] = Append(@, k.current)], ticks, TRUE)

\* vTaskPlaceOnEventListRestricted, of the timer task.
vTaskPlaceOnEventListRestricted(k, list, ticks, indefinitely) ==
    prvAddCurrentTaskToDelayedList(
        [k EXCEPT !.events[list] = Append(@, k.current)],
        IF indefinitely THEN portMAX_DELAY ELSE ticks, indefinitely)

\* A task that stopped waiting becomes ready, or with the scheduler suspended
\* is left to xTaskResumeAll.
Unblock(k, t) ==
    IF k.suspensions = 0 THEN MoveToReadyList(k, t)
    ELSE [k EXCEPT !.pending = Append(@, t)]

Outranks(k, t) == k.priority[t] > k.priority[k.current]

\* xTaskRemoveFromEventList; it returns Outranks(k, the head).
xTaskRemoveFromEventList(k, list) ==
    LET t == Head(k.events[list])
        r == Unblock(RemoveEventItem(k, t), t)
    IN  [r EXCEPT !.yield = @ \/ Outranks(k, t)]

\* vTaskRemoveFromUnorderedEventList, called with the scheduler suspended.
vTaskRemoveFromUnorderedEventList(k, t, bits) ==
    LET r == MoveToReadyList(RemoveEventItem(k, t), t)
    IN  [r EXCEPT !.bits[t] = bits, !.yield = @ \/ Outranks(k, t)]

\* uxTaskResetEventItemValue; it returns k.bits[k.current].
uxTaskResetEventItemValue(k) ==
    LET t == k.current
    IN  [k EXCEPT !.bits[t] = NoBits,
                  !.event[t] = MaxPriorities - k.priority[t]]

\* vTaskMissedYield
vTaskMissedYield(k) == [k EXCEPT !.yield = TRUE]

-----------------------------------------------------------------------------
(* Timeouts *)

\* vTaskInternalSetTimeOutState, vTaskSetTimeOutState
vTaskInternalSetTimeOutState(k) ==
    [overflows |-> k.overflows, entering |-> k.tick]

\* Mutant: the overflow count is not looked at.
CheckForTimeOutNoOverflow(k, timeout, ticks) ==
    LET elapsed == (k.tick - timeout.entering) % TickMod
    IN  IF ticks = portMAX_DELAY
          THEN [expired |-> FALSE, timeout |-> timeout, ticks |-> ticks]
        ELSE IF elapsed < ticks
          THEN [expired |-> FALSE, timeout |-> vTaskInternalSetTimeOutState(k),
                ticks |-> ticks - elapsed]
        ELSE [expired |-> TRUE, timeout |-> timeout, ticks |-> 0]

\* xTaskCheckForTimeOut: whether the time is up, and what is left of it.
\* ticks is what *pxTicksToWait had.
xTaskCheckForTimeOut(k, timeout, ticks) ==
    LET elapsed == (k.tick - timeout.entering) % TickMod
        lapped  == /\ k.overflows # timeout.overflows
                   /\ k.tick >= timeout.entering
    IN  IF ticks = portMAX_DELAY
          THEN [expired |-> FALSE, timeout |-> timeout, ticks |-> ticks]
        ELSE IF ~lapped /\ elapsed < ticks
          THEN [expired |-> FALSE, timeout |-> vTaskInternalSetTimeOutState(k),
                ticks |-> ticks - elapsed]
        ELSE [expired |-> TRUE, timeout |-> timeout, ticks |-> 0]

-----------------------------------------------------------------------------
(* Priority inheritance *)

\* A task whose priority changes while it is in the ready list of the old one
\* moves to that of the new one.  reset is the priority whose bit is cleared
\* when the old list is left empty.
ChangePriority(k, t, priority, reset) ==
    LET set == [k EXCEPT !.priority[t] = priority,
                         !.event[t] = IF k.bits[t].used THEN @
                                      ELSE MaxPriorities - priority]
        r == RemoveStateItem(set, t)
        moved == IF LeavesListEmpty(k, t)
                   THEN portRESET_READY_PRIORITY(r, reset) ELSE r
    IN  IF Contained(t, k.ready[k.priority[t]])
          THEN prvAddTaskToReadyList(moved, t) ELSE set

\* xTaskPriorityInherit: the holder of a mutex gets the priority of the
\* current task, which is about to wait for it.
xTaskPriorityInherit(k, holder) ==
    IF holder # NoTask /\ k.priority[holder] < k.priority[k.current]
      THEN ChangePriority(k, holder, k.priority[k.current], k.priority[holder])
      ELSE k

\* It returns whether the holder runs at an inherited priority.
Inherits(k, holder) ==
    holder # NoTask /\ k.base[holder] < k.priority[k.current]

\* Mutant: the base priority returns with the first of several mutexes.
PriorityDisinheritFirst(k, holder) ==
    LET h == [k EXCEPT !.mutexes[holder] = @ - 1]
    IN  IF holder = NoTask THEN k
        ELSE IF h.priority[holder] # h.base[holder]
          THEN ChangePriority(h, holder, h.base[holder], h.priority[holder])
        ELSE h

Disinherits(k, holder) ==
    /\ holder # NoTask
    /\ k.priority[holder] # k.base[holder]
    /\ k.mutexes[holder] = 1

\* xTaskPriorityDisinherit, when the current task gives a mutex back: with
\* the last of its mutexes it returns to its base priority.  It returns
\* Disinherits(k, holder).
xTaskPriorityDisinherit(k, holder) ==
    LET h == [k EXCEPT !.mutexes[holder] = @ - 1]
    IN  IF holder = NoTask THEN k
        ELSE IF Disinherits(k, holder)
          THEN ChangePriority(h, holder, h.base[holder], h.priority[holder])
        ELSE h

\* vTaskPriorityDisinheritAfterTimeout, when a waiter has given up: the
\* holder falls to the highest priority that still waits.  The bit that is
\* cleared is that of the new priority: pxTCB->uxPriority has been assigned.
vTaskPriorityDisinheritAfterTimeout(k, holder, highestWaiting) ==
    LET priority == Max({k.base[holder], highestWaiting})
    IN  IF /\ holder # NoTask
           /\ k.priority[holder] # priority
           /\ k.mutexes[holder] = 1
          THEN ChangePriority(k, holder, priority, priority)
          ELSE k

\* pvTaskIncrementMutexHeldCount; it returns the current task.
pvTaskIncrementMutexHeldCount(k) == [k EXCEPT !.mutexes[k.current] = @ + 1]

-----------------------------------------------------------------------------
(* Notifications *)

BitsOf(v) == {i \in 0 .. NotifyBits - 1 : (v \div TwoTo[i]) % 2 = 1}
OfBits(B) == SumSet({TwoTo[i] : i \in B})
SetBits(v, w) == OfBits(BitsOf(v) \cup BitsOf(w))
ClearBits(v, w) == OfBits(BitsOf(v) \ BitsOf(w))

\* The eAction of a notification.
NotifiedValue(k, t, v, action) ==
    CASE action = "eSetBits" -> SetBits(k.value[t], v)
      [] action = "eIncrement" -> (k.value[t] + 1) % NotifyMod
      [] action = "eSetValueWithOverwrite" -> v
      [] action = "eSetValueWithoutOverwrite" ->
           IF k.notify[t] = "received" THEN k.value[t] ELSE v
      [] action = "eNoAction" -> k.value[t]

\* It returns pdFAIL when the value was not taken.
NotifyFails(k, t, action) ==
    action = "eSetValueWithoutOverwrite" /\ k.notify[t] = "received"

Notified(k, t, v, action) ==
    [k EXCEPT !.value[t] = NotifiedValue(k, t, v, action),
              !.notify[t] = "received"]

\* xTaskGenericNotify: a task that waits for a notification is made ready,
\* whether or not the scheduler is suspended.
xTaskGenericNotify(k, t, v, action) ==
    LET r == Notified(k, t, v, action)
    IN  IF k.notify[t] = "waiting"
          THEN YieldIf(MoveToReadyList(r, t), Outranks(k, t))
          ELSE r

\* Mutant: the scheduler is taken to be running.
NotifyFromISRAtOnce(k, t, v, action) ==
    LET r == Notified(k, t, v, action)
    IN  IF k.notify[t] = "waiting"
          THEN [MoveToReadyList(r, t) EXCEPT !.yield = @ \/ Outranks(k, t)]
          ELSE r

\* xTaskGenericNotifyFromISR, and vTaskGenericNotifyGiveFromISR with
\* eIncrement.  *pxHigherPriorityTaskWoken is WokenByNotify.
xTaskGenericNotifyFromISR(k, t, v, action) ==
    LET r == Notified(k, t, v, action)
    IN  IF k.notify[t] = "waiting"
          THEN [Unblock(r, t) EXCEPT !.yield = @ \/ Outranks(k, t)]
          ELSE r

WokenByNotify(k, t) == k.notify[t] = "waiting" /\ Outranks(k, t)

BlockForNotification(k, ticks) ==
    LET w == [k EXCEPT !.notify[k.current] = "waiting"]
    IN  IF ticks > 0 THEN portYIELD(prvAddCurrentTaskToDelayedList(w, ticks, TRUE))
        ELSE w

\* Mutant: a notification received before the call is not looked at.
NotifyWaitAlways(k, clearOnEntry, ticks) ==
    BlockForNotification(
        [k EXCEPT !.value[k.current] = ClearBits(@, clearOnEntry)], ticks)

\* ulTaskGenericNotifyTake and xTaskGenericNotifyWait, their first critical
\* sections.
NotifyTakeEnter(k, ticks) ==
    IF k.value[k.current] = 0 THEN BlockForNotification(k, ticks) ELSE k

NotifyWaitEnter(k, clearOnEntry, ticks) ==
    IF k.notify[k.current] = "received" THEN k
    ELSE BlockForNotification(
            [k EXCEPT !.value[k.current] = ClearBits(@, clearOnEntry)], ticks)

\* Their second ones.  NotifyTake returns the value, NotifyWait whether a
\* notification was received.
NotifyTakeExit(k, clearCount) ==
    LET v == k.value[k.current]
    IN  [k EXCEPT !.value[k.current] = IF v = 0 \/ clearCount THEN 0 ELSE v - 1,
                  !.notify[k.current] = "not_waiting"]

NotifyWaitExit(k, clearOnExit) ==
    [k EXCEPT !.value[k.current] = IF k.notify[k.current] = "received"
                                     THEN ClearBits(@, clearOnExit) ELSE @,
              !.notify[k.current] = "not_waiting"]

\* xTaskGenericNotifyStateClear, ulTaskGenericNotifyValueClear
xTaskGenericNotifyStateClear(k, t) ==
    [k EXCEPT !.notify[t] = IF @ = "received" THEN "not_waiting" ELSE @]

ulTaskGenericNotifyValueClear(k, t, bits) ==
    [k EXCEPT !.value[t] = ClearBits(@, bits)]

=============================================================================
