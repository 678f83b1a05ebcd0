------------------------------ MODULE QueueOps ------------------------------
(***************************************************************************)
(* What one critical section of queue.c does to a queue and to the tasks   *)
(* that wait for it.  Queues, semaphores, mutexes and queue sets are all   *)
(* Queue_t.  An operator takes a state s = [k |-> the kernel, q |-> the    *)
(* queues] and a queue x, and gives the next state.                        *)
(***************************************************************************)
EXTENDS TaskWaits

CONSTANTS
    Queue_t,  \* the queues
    NoQueue,  \* NULL
    NoItem    \* a slot that has not been written

\* xTasksWaitingToSend, xTasksWaitingToReceive
ToSend(x) == <<x, "send">>
ToReceive(x) == <<x, "receive">>

ASSUME EventListsAssumption ==
    \A x \in Queue_t : {ToSend(x), ToReceive(x)} \subseteq EventLists

queueUNLOCKED == -1
queueLOCKED_UNMODIFIED == 0

\* prvInitialiseNewQueue, prvInitialiseMutex.  The queue just has a count
\* when its items have no size.
NewQueue(type, length) ==
    [type    |-> type,   \* "queue", "semaphore", "mutex" or "recursive"
     length  |-> length, \* uxLength
     count   |-> IF type \in {"mutex", "recursive"} THEN 1 ELSE 0,
     slots   |-> [i \in 0 .. length - 1 |-> NoItem],
     writeTo |-> 0,              \* pcWriteTo, in items from pcHead
     readFrom |-> length - 1,    \* pcReadFrom
     holder  |-> NoTask,         \* xMutexHolder
     depth   |-> 0,              \* uxRecursiveCallCount
     rx      |-> queueUNLOCKED,  \* cRxLock
     tx      |-> queueUNLOCKED,  \* cTxLock
     set     |-> NoQueue]        \* pxQueueSetContainer

IsMutex(s, x) == s.q[x].type \in {"mutex", "recursive"}
HasItems(s, x) == s.q[x].type = "queue"

prvIsQueueEmpty(s, x) == s.q[x].count = 0
prvIsQueueFull(s, x) == s.q[x].count = s.q[x].length

\* A critical section that ends in a pended switch when the task that was
\* woken has a higher priority than the one that woke it.
Woken(s, list) == [s EXCEPT !.k = xTaskRemoveFromEventList(@, list)]
WakesHigher(s, list) ==
    s.k.events[list] # <<>> /\ Outranks(s.k, Head(s.k.events[list]))
WakeHead(s, list) ==
    IF s.k.events[list] = <<>> THEN s
    ELSE [Woken(s, list) EXCEPT !.k = YieldIf(@, WakesHigher(s, list))]

-----------------------------------------------------------------------------
(* Locks: an interrupt that finds the queue locked leaves its lists alone    *)
(* and counts, up to the number of tasks, whom it would have woken.          *)

\* Mutant: the receive side is not locked.
LockTxOnly(s, x) ==
    [s EXCEPT !.q[x].tx = IF @ = queueUNLOCKED THEN queueLOCKED_UNMODIFIED ELSE @]

prvLockQueue(s, x) ==
    [s EXCEPT !.q[x].rx = IF @ = queueUNLOCKED THEN queueLOCKED_UNMODIFIED ELSE @,
              !.q[x].tx = IF @ = queueUNLOCKED THEN queueLOCKED_UNMODIFIED ELSE @]

prvIncrementQueueTxLock(s, x) ==
    [s EXCEPT !.q[x].tx = IF @ < s.k.count THEN @ + 1 ELSE @]

prvIncrementQueueRxLock(s, x) ==
    [s EXCEPT !.q[x].rx = IF @ < s.k.count THEN @ + 1 ELSE @]

-----------------------------------------------------------------------------
(* The items *)

\* Mutant: the read position stays where the item was put.
CopyDataInPlace(s, x, item, position) ==
    LET q == s.q[x]
    IN  IF IsMutex(s, x)
          THEN [k |-> xTaskPriorityDisinherit(s.k, q.holder),
                q |-> [s.q EXCEPT ![x].holder = NoTask, ![x].count = @ + 1]]
        ELSE IF ~HasItems(s, x) THEN [s EXCEPT !.q[x].count = @ + 1]
        ELSE IF position = "back"
          THEN [s EXCEPT !.q[x].slots[q.writeTo] = item,
                         !.q[x].writeTo = (@ + 1) % q.length,
                         !.q[x].count = @ + 1]
        ELSE [s EXCEPT !.q[x].slots[q.readFrom] = item,
                       !.q[x].count = IF position = "overwrite" /\ @ > 0
                                        THEN @ ELSE @ + 1]

\* prvCopyDataToQueue: giving a mutex back is sending to it.
prvCopyDataToQueue(s, x, item, position) ==
    LET q == s.q[x]
    IN  IF IsMutex(s, x)
          THEN [k |-> xTaskPriorityDisinherit(s.k, q.holder),
                q |-> [s.q EXCEPT ![x].holder = NoTask, ![x].count = @ + 1]]
        ELSE IF ~HasItems(s, x)
          THEN [s EXCEPT !.q[x].count = @ + 1]
        ELSE IF position = "back"
          THEN [s EXCEPT !.q[x].slots[q.writeTo] = item,
                         !.q[x].writeTo = (@ + 1) % q.length,
                         !.q[x].count = @ + 1]
        ELSE [s EXCEPT !.q[x].slots[q.readFrom] = item,
                       !.q[x].readFrom = (@ - 1) % q.length,
                       !.q[x].count = IF position = "overwrite" /\ @ > 0
                                        THEN @ ELSE @ + 1]

\* It returns whether the task that gave a mutex back has lost priority.
CopyDisinherits(s, x) == IsMutex(s, x) /\ Disinherits(s.k, s.q[x].holder)

\* The item prvCopyDataFromQueue delivers.
NextItem(s, x) == s.q[x].slots[(s.q[x].readFrom + 1) % s.q[x].length]

\* prvCopyDataFromQueue, and the count of a message received or taken.
Received(s, x) ==
    [s EXCEPT !.q[x].readFrom = IF HasItems(s, x) THEN (@ + 1) % s.q[x].length
                                ELSE @,
              !.q[x].count = @ - 1]

-----------------------------------------------------------------------------
(* Who is told of an item *)

\* prvNotifyQueueSetContainer: the handle of x is sent to its queue set.
prvNotifyQueueSetContainer(s, x) ==
    LET set == s.q[x].set
        sent == prvCopyDataToQueue(s, set, x, "back")
    IN  IF prvIsQueueFull(s, set) THEN s
        ELSE IF s.q[set].tx # queueUNLOCKED THEN prvIncrementQueueTxLock(sent, set)
        ELSE IF s.k.events[ToReceive(set)] = <<>> THEN sent
        ELSE Woken(sent, ToReceive(set))

\* It returns whether a task of a higher priority was woken.
NotifyWakesHigher(s, x) ==
    LET set == s.q[x].set
    IN  /\ ~prvIsQueueFull(s, set)
        /\ s.q[set].tx = queueUNLOCKED
        /\ WakesHigher(s, ToReceive(set))

\* An item that replaced another one is no news to the queue set.
Unnoticed(s, x, position) == position = "overwrite" /\ s.q[x].count > 0

Tell(s, x) ==
    IF s.q[x].set # NoQueue THEN prvNotifyQueueSetContainer(s, x)
    ELSE IF s.k.events[ToReceive(x)] = <<>> THEN s
    ELSE Woken(s, ToReceive(x))

TellWakesHigher(s, x) ==
    IF s.q[x].set # NoQueue THEN NotifyWakesHigher(s, x)
    ELSE WakesHigher(s, ToReceive(x))

\* The critical section of xQueueGenericSend that finds room.
Send(s, x, item, position) ==
    LET copied == prvCopyDataToQueue(s, x, item, position)
        quiet == s.q[x].set # NoQueue /\ Unnoticed(s, x, position)
        waited == s.q[x].set # NoQueue \/ s.k.events[ToReceive(x)] # <<>>
        yields == IF waited THEN TellWakesHigher(copied, x)
                  ELSE CopyDisinherits(s, x)
    IN  IF quiet THEN copied
        ELSE [Tell(copied, x) EXCEPT !.k = YieldIf(@, yields)]

\* Mutant: the lock is not looked at.
SendFromISRUnlocked(s, x, item, position) ==
    LET copied == prvCopyDataToQueue(s, x, item, position)
    IN  [Tell(copied, x) EXCEPT !.k = YieldIf(@, TellWakesHigher(copied, x))]

\* xQueueGenericSendFromISR and, for a semaphore, xQueueGiveFromISR when there
\* is room.  The handler ends in portYIELD_FROM_ISR.
SendFromISR(s, x, item, position) ==
    LET copied == prvCopyDataToQueue(s, x, item, position)
        quiet == s.q[x].set # NoQueue /\ Unnoticed(s, x, position)
    IN  IF s.q[x].tx # queueUNLOCKED THEN prvIncrementQueueTxLock(copied, x)
        ELSE IF quiet THEN copied
        ELSE [Tell(copied, x)
                EXCEPT !.k = YieldIf(@, TellWakesHigher(copied, x))]

\* The critical section of xQueueReceive that finds an item.
Receive(s, x) == WakeHead(Received(s, x), ToSend(x))

\* The one of xQueueSemaphoreTake: the count of a mutex tells its holder.
Take(s, x) ==
    LET taken == IF ~IsMutex(s, x) THEN s
                 ELSE [k |-> pvTaskIncrementMutexHeldCount(s.k),
                       q |-> [s.q EXCEPT ![x].holder = s.k.current]]
    IN  WakeHead(Received(taken, x), ToSend(x))

\* The one of xQueuePeek: the item is left for another that waits.
Peek(s, x) == WakeHead(s, ToReceive(x))

\* xQueueReceiveFromISR when there is an item.
ReceiveFromISR(s, x) ==
    IF s.q[x].rx # queueUNLOCKED THEN prvIncrementQueueRxLock(Received(s, x), x)
    ELSE WakeHead(Received(s, x), ToSend(x))

-----------------------------------------------------------------------------
(* prvUnlockQueue *)

\* A task that should have been woken is, and the switch is noted for
\* xTaskResumeAll.
WakeMissed(s, list) ==
    IF s.k.events[list] = <<>> THEN s
    ELSE [Woken(s, list) EXCEPT !.k = IF WakesHigher(s, list) THEN vTaskMissedYield(@)
                                      ELSE @]

NotifyMissed(s, x) ==
    [prvNotifyQueueSetContainer(s, x)
       EXCEPT !.k = IF NotifyWakesHigher(s, x) THEN vTaskMissedYield(@) ELSE @]

\* Mutant: the queue set is not told of items that came while the queue was
\* locked.
TurnTellsNoSet(s, x, list) == WakeMissed(s, list)

\* One turn of its loops.  A loop that ends early, as nobody waits any more,
\* had only turns left that change nothing.
UnlockTurn(s, x, list) ==
    IF list = ToReceive(x) /\ s.q[x].set # NoQueue THEN NotifyMissed(s, x)
    ELSE WakeMissed(s, list)

UnlockTurns(s, x, list, n) ==
    LET after[i \in 0 .. n] ==
            IF i = 0 THEN s ELSE UnlockTurn(after[i - 1], x, list)
    IN  after[n]

\* Its two critical sections.
prvUnlockQueueTx(s, x) ==
    [UnlockTurns(s, x, ToReceive(x), Max({s.q[x].tx, 0}))
       EXCEPT !.q[x].tx = queueUNLOCKED]

prvUnlockQueueRx(s, x) ==
    [UnlockTurns(s, x, ToSend(x), Max({s.q[x].rx, 0}))
       EXCEPT !.q[x].rx = queueUNLOCKED]

-----------------------------------------------------------------------------
(* Mutexes, reset and queue sets *)

\* prvGetDisinheritPriorityAfterTimeout
prvGetDisinheritPriorityAfterTimeout(s, x) ==
    LET waiting == s.k.events[ToReceive(x)]
    IN  IF waiting = <<>> THEN 0 ELSE MaxPriorities - s.k.event[Head(waiting)]

\* xQueueGenericReset of a queue in use: one task that waits for room gets it.
xQueueGenericReset(s, x) ==
    WakeHead([s EXCEPT !.q[x].count = 0, !.q[x].writeTo = 0,
                       !.q[x].readFrom = s.q[x].length - 1,
                       !.q[x].rx = queueUNLOCKED, !.q[x].tx = queueUNLOCKED],
             ToSend(x))

\* xQueueAddToSet: of an empty queue only.  xQueueRemoveFromSet has its test
\* before its critical section.
xQueueAddToSet(s, x, set) ==
    IF s.q[x].set = NoQueue /\ prvIsQueueEmpty(s, x)
      THEN [s EXCEPT !.q[x].set = set] ELSE s

xQueueRemoveFromSet(s, x) == [s EXCEPT !.q[x].set = NoQueue]

=============================================================================
