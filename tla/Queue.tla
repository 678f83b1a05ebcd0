-------------------------------- MODULE Queue --------------------------------
(***************************************************************************)
(* Tasks and interrupts at work on the queues, semaphores, mutexes and     *)
(* queue sets of queue.c.  A task that cannot go on suspends the           *)
(* scheduler, locks the queue, looks at the time and at the queue again,   *)
(* joins the list of those that wait, unlocks the queue and resumes the    *)
(* scheduler: these are steps of its own, interrupts get in between all of *)
(* them, and when it runs again it starts over.                            *)
(***************************************************************************)
EXTENDS QueueOps

CONSTANTS
    Idle,     \* the idle task
    Items,    \* what is sent
    Scenes,   \* the applications: their tasks, queues and calls
    NoCall,
    NoTimeOut,
    MaxTicks  \* bound of this instance: the ticks of one run

VARIABLES
    k,         \* the kernel
    q,         \* the queues
    pc,        \* where each task is: "run" in its own code
    call,      \* the call it is in
    delivered, \* what each queue delivered last
    calls      \* the calls of the application: <<call, queue, item, ticks>>

vars == <<k, q, pc, call, delivered, calls>>

s == [k |-> k, q |-> q]
Becomes(next) == k' = next.k /\ q' = next.q

\* The ticks since the start.  TickMod * OverflowMod is more than MaxTicks:
\* xNumOfOverflows does not wrap, which takes 2^32 turns of the tick count.
Clock == k.overflows * TickMod + k.tick

ASSUME ClockAssumption == TickMod * OverflowMod > MaxTicks

\* The queue sets that the application selects from.
SelectedFrom(ops) ==
    {c[2] : c \in {d \in ops : d[1] \in {"select", "select_isr"}}}

Mutexes == {"mutex", "recursive"}

\* What the assertions of queue.c and the rules of its API ask of a call: items
\* are sent to and received from queues that have them, one over another where
\* there is room for one only; what has none is taken and given, recursive
\* mutexes with calls of their own, and no mutex by an interrupt or a reset;
\* and the ticks to wait are a TickType_t.
\* Only the kernel sends to a queue set.
Allowed(c, queues, ops) ==
    LET kind == queues[c[2]].type
        sends == {"back", "front", "overwrite", "back_isr", "overwrite_isr"}
        receives == {"receive", "peek", "receive_isr", "select", "select_isr"}
    IN  /\ c[4] \in Tick
        /\ c[1] \notin {"tick", "delay", "priority"} =>
             /\ c[2] \in Queue_t
             /\ c[1] \in sends => c[3] \in Items /\ c[2] \notin SelectedFrom(ops)
             /\ c[1] \in sends \cup receives => kind = "queue"
             /\ c[1] \in {"overwrite", "overwrite_isr"} => queues[c[2]].length = 1
             /\ c[1] \in {"take", "give"} => kind \in {"semaphore", "mutex"}
             /\ c[1] = "give_isr" => kind = "semaphore"
             /\ c[1] \in {"take_recursive", "give_recursive"} => kind = "recursive"
             /\ c[1] = "reset" => kind \notin Mutexes

\* A queue or semaphore, or a mutex that no interrupt is handed, in a queue set.
MemberOf(x, set, queues, ops) ==
    /\ set \in Queue_t \ {x}
    /\ queues[set].type = "queue"
    /\ queues[x].type # "recursive"
    /\ queues[x].type = "mutex" => \A c \in ops : c[1] = "select_isr" => c[2] # set

\* The queues of an application, which its calls are allowed for.
IsApplication(queues, ops) ==
    /\ \A x \in Queue_t :
         LET r == queues[x]
         IN  /\ r.type \in {"queue", "semaphore"} \cup Mutexes
             /\ r.length \in Nat \ {0}
             /\ r.type \in Mutexes => r.length = 1
             /\ r.set # NoQueue => MemberOf(x, r.set, queues, ops)
    /\ \A c \in ops : /\ Allowed(c, queues, ops)
                      /\ c[1] = "member" => MemberOf(c[2], c[3], queues, ops)

ASSUME QueueAssumption == NoQueue \notin Queue_t

ASSUME IdleAssumption == Idle \in Task

\* An application starts with its tasks, each of them created once, and with
\* new queues, some of them in queue sets.
ASSUME ScenesAssumption ==
    \A scene \in Scenes :
        /\ scene.tasks \in Seq((Task \ {Idle}) \X Priority)
        /\ \A i, j \in DOMAIN scene.tasks :
             scene.tasks[i][1] = scene.tasks[j][1] => i = j
        /\ IsApplication(scene.queues, scene.calls)
        /\ scene.queues =
             [x \in Queue_t |->
                [NewQueue(scene.queues[x].type, scene.queues[x].length)
                   EXCEPT !.set = scene.queues[x].set]]

Init ==
    \E scene \in Scenes :
        /\ k = BootedKernel(scene.tasks, Idle)
        /\ q = scene.queues
        /\ pc = [t \in Task |-> "run"]
        /\ call = [t \in Task |-> NoCall]
        /\ delivered = [x \in Queue_t |-> NoItem]
        /\ calls = scene.calls

-----------------------------------------------------------------------------
(* The calls *)

At(t, where) == k.current = t /\ ~k.pendsv /\ pc[t] = where
Goes(t, where) == pc' = [pc EXCEPT ![t] = where]

Returns(t) == Goes(t, "run") /\ call' = [call EXCEPT ![t] = NoCall]

\* until is history: the tick the call has to give up at.
NewCall(op, x, item, ticks) ==
    [op |-> op, x |-> x, item |-> item, ticks |-> ticks, timeout |-> NoTimeOut,
     inherited |-> FALSE, expired |-> FALSE, placed |-> FALSE, until |-> 0]

Sends(c) == c.op \in {"back", "front", "overwrite"}
Takes(c) == c.op \in {"take", "take_recursive"}

\* The tests of the loops' critical sections.
Can(c) ==
    IF Sends(c) THEN ~prvIsQueueFull(s, c.x) \/ c.op = "overwrite"
    ELSE ~prvIsQueueEmpty(s, c.x)

Do(c) ==
    CASE Sends(c) -> Send(s, c.x, c.item, c.op)
      [] c.op \in {"receive", "select"} -> Receive(s, c.x)
      [] c.op = "peek" -> Peek(s, c.x)
      [] c.op = "take" -> Take(s, c.x)
      [] c.op = "take_recursive" -> [Take(s, c.x) EXCEPT !.q[c.x].depth = @ + 1]

Deliver(c) ==
    delivered' = IF c.op \in {"receive", "select", "peek"} /\ HasItems(s, c.x)
                   THEN [delivered EXCEPT ![c.x] = NextItem(s, c.x)]
                   ELSE delivered

\* After xQueueSelectFromSet the task reads the member it was handed.
Proceeds(t, c) ==
    IF c.op = "select"
      THEN /\ Goes(t, "attempt")
           /\ LET x == NextItem(s, c.x)
              IN  call' = [call EXCEPT ![t] =
                             NewCall(IF q[x].type = "queue" THEN "receive" ELSE "take",
                                     x, NoItem, 0)]
      ELSE Returns(t)

ListOf(c) == IF Sends(c) THEN ToSend(c.x) ELSE ToReceive(c.x)

\* The first time round the loop that does not succeed.
Entered(c) ==
    IF c.timeout # NoTimeOut THEN c
    ELSE [c EXCEPT !.timeout = vTaskInternalSetTimeOutState(k),
                   !.until = IF c.ticks = portMAX_DELAY THEN 0 ELSE Clock + c.ticks]

\* The first critical section of xQueueGenericSend, xQueueReceive, xQueuePeek
\* and xQueueSemaphoreTake.
AttemptCall(t, c) ==
    \/ /\ Can(c)
       /\ Becomes(Do(c))
       /\ Deliver(c)
       /\ Proceeds(t, c)
    \/ /\ ~Can(c)
       /\ c.ticks = 0
       /\ Returns(t)
       /\ UNCHANGED <<k, q, delivered>>
    \/ /\ ~Can(c)
       /\ c.ticks > 0
       /\ call' = [call EXCEPT ![t] = Entered(c)]
       /\ Goes(t, "suspend")
       /\ UNCHANGED <<k, q, delivered>>

\* A task does not take a mutex it holds, except a recursive one.
Call(t) ==
    /\ At(t, "run")
    /\ \E c \in calls :
         LET new == NewCall(c[1], c[2], c[3], c[4])
         IN  /\ Sends(new) \/ new.op \in {"receive", "peek", "select"} \/ Takes(new)
             /\ Takes(new) => q[c[2]].holder # t
             /\ AttemptCall(t, new)
    /\ UNCHANGED calls

Attempt(t) ==
    /\ At(t, "attempt")
    /\ AttemptCall(t, call[t])
    /\ UNCHANGED calls

\* vTaskSuspendAll
SuspendAll(t) ==
    /\ At(t, "suspend")
    /\ k' = vTaskSuspendAll(k)
    /\ Goes(t, "lock")
    /\ UNCHANGED <<q, call, delivered, calls>>

LockQueue(t) ==
    /\ At(t, "lock")
    /\ Becomes(prvLockQueue(s, call[t].x))
    /\ Goes(t, "check")
    /\ UNCHANGED <<call, delivered, calls>>

\* xTaskCheckForTimeOut, which no interrupt can change with the scheduler
\* suspended, and prvIsQueueFull or prvIsQueueEmpty.
Check(t) ==
    /\ At(t, "check")
    /\ LET c == call[t]
           r == xTaskCheckForTimeOut(k, c.timeout, c.ticks)
       IN  /\ call' = [call EXCEPT ![t].timeout = r.timeout,
                                   ![t].ticks = r.ticks,
                                   ![t].expired = r.expired,
                                   ![t].placed = FALSE]
           /\ Goes(t, IF r.expired \/ Can(c) THEN "unlockTx" ELSE "place")
    /\ UNCHANGED <<k, q, delivered, calls>>

\* A task that waits for a mutex lends its priority to the holder.
Place(t) ==
    /\ At(t, "place")
    /\ LET c == call[t]
           lends == Takes(c) /\ IsMutex(s, c.x)
           lent == IF lends THEN xTaskPriorityInherit(k, q[c.x].holder) ELSE k
       IN  /\ k' = vTaskPlaceOnEventList(lent, ListOf(c), c.ticks)
           /\ call' = [call EXCEPT ![t].inherited =
                                      lends /\ Inherits(k, q[c.x].holder),
                                   ![t].placed = TRUE]
    /\ Goes(t, "unlockTx")
    /\ UNCHANGED <<q, delivered, calls>>

UnlockQueueTx(t) ==
    /\ At(t, "unlockTx")
    /\ Becomes(prvUnlockQueueTx(s, call[t].x))
    /\ Goes(t, "unlockRx")
    /\ UNCHANGED <<call, delivered, calls>>

UnlockQueueRx(t) ==
    /\ At(t, "unlockRx")
    /\ Becomes(prvUnlockQueueRx(s, call[t].x))
    /\ Goes(t, "resume")
    /\ UNCHANGED <<call, delivered, calls>>

\* xTaskResumeAll.  A sender whose time is up gives up without another look.
ResumeAll(t) ==
    /\ At(t, "resume")
    /\ LET r == xTaskResumeAll(k)
           c == call[t]
       IN  /\ k' = YieldIf(r, c.placed /\ ~AlreadyYielded(r))
           /\ IF c.expired /\ Sends(c) THEN Returns(t)
              ELSE /\ Goes(t, IF c.expired THEN "recheck" ELSE "attempt")
                   /\ UNCHANGED call
    /\ UNCHANGED <<q, delivered, calls>>

\* prvIsQueueEmpty once more when the time is up.
Recheck(t) ==
    /\ At(t, "recheck")
    /\ IF ~prvIsQueueEmpty(s, call[t].x)
         THEN Goes(t, "attempt") /\ UNCHANGED call
       ELSE IF call[t].inherited
         THEN Goes(t, "disinherit") /\ UNCHANGED call
       ELSE Returns(t)
    /\ UNCHANGED <<k, q, delivered, calls>>

DisinheritAfterTimeout(t) ==
    /\ At(t, "disinherit")
    /\ LET x == call[t].x
       IN  k' = vTaskPriorityDisinheritAfterTimeout(
                    k, q[x].holder, prvGetDisinheritPriorityAfterTimeout(s, x))
    /\ Returns(t)
    /\ UNCHANGED <<q, delivered, calls>>

\* xSemaphoreGive: of a mutex by its holder only.
Give(t) ==
    /\ At(t, "run")
    /\ \E c \in calls :
         /\ c[1] = "give"
         /\ IsMutex(s, c[2]) => q[c[2]].holder = t
         /\ ~prvIsQueueFull(s, c[2])
         /\ Becomes(Send(s, c[2], NoItem, "back"))
    /\ UNCHANGED <<pc, call, delivered, calls>>

\* xQueueTakeMutexRecursive and xQueueGiveMutexRecursive by the holder.
TakeAgain(t) ==
    /\ At(t, "run")
    /\ \E c \in calls :
         /\ c[1] = "take_recursive"
         /\ q[c[2]].holder = t
         /\ q[c[2]].depth < 2
         /\ q' = [q EXCEPT ![c[2]].depth = @ + 1]
    /\ UNCHANGED <<k, pc, call, delivered, calls>>

GiveMutexRecursive(t) ==
    /\ At(t, "run")
    /\ \E c \in calls :
         LET less == [s EXCEPT !.q[c[2]].depth = @ - 1]
         IN  /\ c[1] = "give_recursive"
             /\ q[c[2]].holder = t
             /\ Becomes(IF less.q[c[2]].depth > 0 THEN less
                        ELSE Send(less, c[2], NoItem, "back"))
    /\ UNCHANGED <<pc, call, delivered, calls>>

Reset(t) ==
    /\ At(t, "run")
    /\ \E c \in calls : c[1] = "reset" /\ Becomes(xQueueGenericReset(s, c[2]))
    /\ UNCHANGED <<pc, call, delivered, calls>>

\* c is <<"member", member, set, 0>>.
AddToSet(t) ==
    /\ At(t, "run")
    /\ \E c \in calls :
         c[1] = "member" /\ Becomes(xQueueAddToSet(s, c[2], c[3]))
    /\ UNCHANGED <<pc, call, delivered, calls>>

\* The test of xQueueRemoveFromSet, after which interrupts may get in.
RemoveFromSet(t) ==
    /\ At(t, "run")
    /\ \E c \in calls :
         /\ c[1] = "member"
         /\ q[c[2]].set = c[3] /\ prvIsQueueEmpty(s, c[2])
         /\ call' = [call EXCEPT ![t] = NewCall("remove", c[2], NoItem, 0)]
    /\ Goes(t, "remove")
    /\ UNCHANGED <<k, q, delivered, calls>>

Removed(t) ==
    /\ At(t, "remove")
    /\ Becomes(xQueueRemoveFromSet(s, call[t].x))
    /\ Returns(t)
    /\ UNCHANGED <<delivered, calls>>

\* vTaskDelay, which Scheduler has in full.
Delay(t) ==
    /\ At(t, "run")
    /\ \E c \in calls : c[1] = "delay"
    /\ k' = portYIELD(prvAddCurrentTaskToDelayedList(k, 1, FALSE))
    /\ UNCHANGED <<q, pc, call, delivered, calls>>

PrioritySet(t) ==
    /\ At(t, "run")
    /\ \E c \in calls : c[1] = "priority"
    /\ \E u \in Task \ {Idle}, p \in Priority \ {0} : k' = vTaskPrioritySet(k, u, p)
    /\ UNCHANGED <<q, pc, call, delivered, calls>>

\* A task, or the idle task, that is busy with something else.
OwnCode(t) == At(t, "run") /\ UNCHANGED vars

-----------------------------------------------------------------------------
(* Interrupts *)

InterruptSends ==
    /\ \E c \in calls :
         \/ /\ c[1] \in {"back_isr", "overwrite_isr"}
            /\ ~prvIsQueueFull(s, c[2]) \/ c[1] = "overwrite_isr"
            /\ Becomes(SendFromISR(s, c[2], c[3], IF c[1] = "back_isr" THEN "back"
                                                  ELSE "overwrite"))
         \/ /\ c[1] = "give_isr"
            /\ ~prvIsQueueFull(s, c[2])
            /\ Becomes(SendFromISR(s, c[2], NoItem, "back"))
    /\ UNCHANGED <<pc, call, delivered, calls>>

\* A handler that empties a queue set: xQueueSelectFromSetFromISR, and a
\* receive from the member it got.
InterruptSelects ==
    /\ \E c \in calls :
         LET x == NextItem(s, c[2])
             selected == ReceiveFromISR(s, c[2])
             receives == ~prvIsQueueEmpty(s, x)
         IN  /\ c[1] = "select_isr"
             /\ ~prvIsQueueEmpty(s, c[2])
             /\ Becomes(IF receives THEN ReceiveFromISR(selected, x) ELSE selected)
             /\ delivered' = [delivered EXCEPT ![c[2]] = x,
                                               ![x] = IF receives /\ HasItems(s, x)
                                                        THEN NextItem(s, x) ELSE @]
    /\ UNCHANGED <<pc, call, calls>>

InterruptReceives ==
    /\ \E c \in calls :
         /\ c[1] = "receive_isr"
         /\ ~prvIsQueueEmpty(s, c[2])
         /\ Becomes(ReceiveFromISR(s, c[2]))
         /\ delivered' = [delivered EXCEPT ![c[2]] = NextItem(s, c[2])]
    /\ UNCHANGED <<pc, call, calls>>

\* xPortSysTickHandler
SysTick ==
    LET r == xTaskIncrementTick(k)
    IN  /\ \E c \in calls : c[1] = "tick"
        /\ Clock + k.pended < MaxTicks
        /\ k' = YieldIf(r.k, r.switch)
        /\ UNCHANGED <<q, pc, call, delivered, calls>>

\* xPortPendSVHandler
PendSV ==
    /\ k.pendsv
    /\ k' = vTaskSwitchContext(k)
    /\ UNCHANGED <<q, pc, call, delivered, calls>>

-----------------------------------------------------------------------------

TaskStep(t) ==
    \/ Call(t) \/ Attempt(t) \/ SuspendAll(t) \/ LockQueue(t) \/ Check(t)
    \/ Place(t) \/ UnlockQueueTx(t) \/ UnlockQueueRx(t) \/ ResumeAll(t)
    \/ Recheck(t) \/ DisinheritAfterTimeout(t) \/ Give(t) \/ TakeAgain(t)
    \/ GiveMutexRecursive(t) \/ Reset(t) \/ AddToSet(t) \/ RemoveFromSet(t)
    \/ Removed(t) \/ Delay(t) \/ PrioritySet(t)

Interrupt ==
    InterruptSends \/ InterruptSelects \/ InterruptReceives \/ SysTick \/ PendSV

Next ==
    \/ Interrupt
    \/ \E t \in Task : OwnCode(t)
    \/ \E t \in Task \ {Idle} : TaskStep(t)

Spec == Init /\ [][Next]_vars

-----------------------------------------------------------------------------
(* Properties *)

Waiting(list) == Len(k.events[list])

InCall(t) == call[t] # NoCall

\* A task that is in a call to x and will look at the queue again.
OnItsWay(t, list) ==
    /\ InCall(t)
    /\ ListOf(call[t]) = list
    /\ t \notin ToSet(k.events[list])
    /\ pc[t] # "place"
    /\ ~(call[t].expired /\ Sends(call[t]))

Coming(list) == Cardinality({t \in Task : OnItsWay(t, list)})

\* No wake-up is lost: while a task sleeps in the list of those that wait for
\* an item, every item of the queue has a task on its way to it, or has been
\* counted in the lock by the interrupt that sent it; and the same for room in
\* the queue.  So a task that found the queue empty, and was interrupted by
\* the item before it was in the list, is not left there.
NobodySleeps ==
    \A x \in Queue_t :
        /\ Waiting(ToReceive(x)) > 0 =>
             \/ q[x].count <= Coming(ToReceive(x)) + Max({q[x].tx, 0})
             \/ q[x].tx >= Waiting(ToReceive(x))
        /\ Waiting(ToSend(x)) > 0 =>
             \/ q[x].length - q[x].count <= Coming(ToSend(x)) + Max({q[x].rx, 0})
             \/ q[x].rx >= Waiting(ToSend(x))

\* What a queue holds, oldest first.
Contents(x) ==
    [i \in 1 .. q[x].count |-> q[x].slots[(q[x].readFrom + i) % q[x].length]]

\* The ring is a queue of at most uxLength items, also when it is sent to at
\* the front, overwritten, peeked at and reset, by tasks and by interrupts.
Fifo == INSTANCE Fifo WITH
    Queues <- Queue_t,
    Items <- Items \cup Queue_t \cup {NoItem},
    contents <- [x \in Queue_t |-> IF HasItems(s, x) THEN Contents(x) ELSE <<>>],
    length <- [x \in Queue_t |-> q[x].length]

FifoSpec == Fifo!Spec

Held(t) == {x \in Queue_t : q[x].holder = t}

\* A mutex is held by one task or is there to be taken, the tasks count the
\* mutexes they hold, a holder runs at no lower a priority than those that
\* wait for its mutexes were given, and a task without a mutex runs at its
\* own: whatever waiters join, give up or are interrupted.
HolderInherits ==
    /\ \A x \in Queue_t : IsMutex(s, x) =>
         /\ q[x].holder = NoTask <=> q[x].count = 1
         /\ q[x].type = "recursive" =>
              (q[x].depth > 0 <=> q[x].holder # NoTask)
         /\ \A t \in ToSet(k.events[ToReceive(x)]) :
              q[x].holder # NoTask => k.priority[q[x].holder] >= k.base[t]
    /\ \A t \in Task :
         /\ k.mutexes[t] = Cardinality(Held(t))
         /\ Held(t) = {} => k.priority[t] = k.base[t]

\* A call that waits does so until the ticks it was given have passed since it
\* began, however often it was woken for nothing, and no longer: that is the
\* time it is in the delayed list with, and when it gives up.
TimeoutsExact ==
    \A t \in Task : InCall(t) =>
        /\ IsDelayed(k, t) =>
             /\ Clock < call[t].until
             /\ k.wake[t] = call[t].until % TickMod
             /\ t \in ToSet(k.delayed) <=> call[t].until \div TickMod = k.overflows
        /\ call[t].expired => call[t].until <= Clock

\* Those that have read the handle of x in its set and not yet x itself.
Selected(x) ==
    Cardinality({t \in Task : /\ InCall(t) /\ call[t].x = x
                           /\ call[t].op \in {"receive", "take"}})

\* A queue set has a handle of a member for each item in it, apart from those
\* that a task was handed or the lock of the member counts: so there is always
\* room in the set for the handle of an item that is sent.
SetHasHandles ==
    \A x \in Queue_t : q[x].set # NoQueue =>
        q[x].count = Selected(x) + Max({q[x].tx, 0})
                     + Cardinality({i \in DOMAIN Contents(q[x].set) :
                                      Contents(q[x].set)[i] = x})

\* An interrupt that finds a queue locked does not touch its event lists,
\* which the task that locked it is working on.
LockKeepsOut ==
    [][\A x \in Queue_t : q[x].tx # queueUNLOCKED /\ pc' = pc =>
         /\ k'.events[ToReceive(x)] = k.events[ToReceive(x)]
         /\ k'.events[ToSend(x)] = k.events[ToSend(x)]]_vars

\* A task is ready at the highest priority whose bit uxTopReadyPriority holds:
\* the assertion of taskSELECT_HIGHEST_PRIORITY_TASK.
TopPriorityHasTask == k.ready[Max(k.top)].items # <<>>

=============================================================================
