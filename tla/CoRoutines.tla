------------------------------ MODULE CoRoutines ------------------------------
(***************************************************************************)
(* Co-routines (croutine.c, croutine.h) and the queues they use with one   *)
(* another and with interrupts (the CR functions of queue.c).              *)
(* vCoRoutineSchedule runs in the idle task: one turn of it moves the      *)
(* co-routines that were woken, then those whose time has come, to their   *)
(* ready lists, and runs one to its next crDELAY, crQUEUE_SEND or          *)
(* crQUEUE_RECEIVE that gives way.  A section with the interrupts disabled *)
(* is a step; interrupts come between the steps.                           *)
(***************************************************************************)
EXTENDS Integers, Sequences, FiniteSets, Lists
LOCAL INSTANCE SequencesExt

CONSTANTS
    CoRoutine,             \* co-routine control blocks
    NoCoRoutine,
    MaxCoRoutinePriorities,
    TickMod,               \* TickType_t has the values 0 .. TickMod - 1
    Applications           \* co-routines, the queue, and the calls they make

VARIABLES
    cr,     \* the statics of croutine.c, the control blocks and the queue
    calls   \* the calls: <<co-routine, call, ticks>>, <<NoCoRoutine, call, 0>>

vars == <<cr, calls>>

CoPriority == 0 .. MaxCoRoutinePriorities - 1

\* prvInitialiseCoRoutineLists, and an empty queue of a length.
NoCoRoutines(length) ==
    [ready    |-> [p \in CoPriority |-> EmptyList], \* pxReadyCoRoutineLists
     top      |-> 0,             \* uxTopCoRoutineReadyPriority
     delayed  |-> <<>>,          \* pxDelayedCoRoutineList
     overflow |-> <<>>,          \* pxOverflowDelayedCoRoutineList
     pending  |-> <<>>,          \* xPendingReadyCoRoutineList
     events   |-> [e \in {"send", "receive"} |-> <<>>], \* xTasksWaitingTo...
     current  |-> NoCoRoutine,   \* pxCurrentCoRoutine
     priority |-> [c \in CoRoutine |-> 0],
     event    |-> [c \in CoRoutine |-> 0],  \* value of xEventListItem
     wake     |-> [c \in CoRoutine |-> 0],  \* value of xGenericListItem
     state    |-> [c \in CoRoutine |-> "start"],  \* uxState: where it gave way
     now      |-> 0,             \* the tick count of the kernel
     tick     |-> 0,             \* xCoRoutineTickCount
     last     |-> 0,             \* xLastTickCount
     passed   |-> 0,             \* xPassedTicks
     where    |-> "schedule",    \* how far vCoRoutineSchedule is
     count    |-> 0,             \* uxMessagesWaiting
     length   |-> length,        \* uxLength
     left     |-> [c \in CoRoutine |-> 0]]  \* history: ticks until it must wake

-----------------------------------------------------------------------------
(* croutine.c *)

\* prvAddCoRoutineToReadyQueue
prvAddCoRoutineToReadyQueue(s, c) ==
    LET p == s.priority[c]
    IN  [s EXCEPT !.top = IF p > @ THEN p ELSE @,
                  !.ready[p] = InsertEnd(@, c)]

\* xCoRoutineCreate: a priority beyond the highest is clamped to it.
xCoRoutineCreate(s, c, priority) ==
    LET p == IF priority < MaxCoRoutinePriorities THEN priority
             ELSE MaxCoRoutinePriorities - 1
    IN  prvAddCoRoutineToReadyQueue(
            [s EXCEPT !.current = IF @ = NoCoRoutine THEN c ELSE @,
                      !.priority[c] = p,
                      !.event[c] = MaxCoRoutinePriorities - p], c)

\* uxListRemove(&xGenericListItem)
RemoveGenericItem(s, c) ==
    [s EXCEPT !.ready = [p \in CoPriority |-> IF Contained(c, @[p])
                                                THEN ListRemove(@[p], c) ELSE @[p]],
              !.delayed = Without(@, c),
              !.overflow = Without(@, c)]

\* uxListRemove(&xEventListItem)
RemoveEventItem(s, c) ==
    [s EXCEPT !.pending = Without(@, c),
              !.events = [e \in DOMAIN @ |-> Without(@[e], c)]]

\* vCoRoutineAddToDelayedList, for the current co-routine.
vCoRoutineAddToDelayedList(s, ticks) ==
    LET c == s.current
        w == [RemoveGenericItem(s, c) EXCEPT !.wake[c] = (s.tick + ticks) % TickMod,
                                             !.left[c] = ticks]
    IN  IF w.wake[c] < s.tick
          THEN [w EXCEPT !.overflow = SortedInsert(@, c, w.wake)]
          ELSE [w EXCEPT !.delayed = SortedInsert(@, c, w.wake)]

\* The same with an event list.
WaitOn(s, e, ticks) ==
    LET w == vCoRoutineAddToDelayedList(s, ticks)
    IN  [w EXCEPT !.events[e] = SortedInsert(@, s.current, s.event)]

\* xCoRoutineRemoveFromEventList; it returns whether the one that is woken has
\* the priority to run next.
xCoRoutineRemoveFromEventList(s, e) ==
    LET c == Head(s.events[e])
    IN  [RemoveEventItem(s, c) EXCEPT !.pending = Append(@, c)]

GoesBefore(s, c) == s.priority[c] >= s.priority[s.current]

-----------------------------------------------------------------------------
(* One turn of vCoRoutineSchedule *)

At(where) == cr.where = where

\* prvCheckPendingReadyList, one turn of its loop, and its end.
prvCheckPendingReadyList ==
    /\ At("schedule")
    /\ IF cr.pending # <<>>
         THEN LET c == Head(cr.pending)
                  r == RemoveGenericItem(RemoveEventItem(cr, c), c)
              IN  cr' = prvAddCoRoutineToReadyQueue(r, c)
         ELSE cr' = [cr EXCEPT !.where = "check_delayed"]

\* prvCheckDelayedList: it looks at the tick count once.
SampleTickCount ==
    /\ At("check_delayed")
    /\ cr' = [cr EXCEPT !.passed = (cr.now - cr.last) % TickMod,
                        !.where = "next_tick"]

\* The next of the ticks that have passed; at the wrap the lists change places.
NextTick ==
    LET t == (cr.tick + 1) % TickMod
        wraps == t = 0
    IN  /\ At("next_tick")
        /\ cr.passed > 0
        /\ cr' = [cr EXCEPT !.tick = t,
                            !.passed = @ - 1,
                            !.delayed = IF wraps THEN cr.overflow ELSE @,
                            !.overflow = IF wraps THEN cr.delayed ELSE @,
                            !.left = [c \in CoRoutine |-> IF @[c] = 0 THEN 0 ELSE @[c] - 1],
                            !.where = "due"]

\* Mutant: who has timed out stays in the list of those that wait.
WakeDueStaysInList ==
    LET c == Head(cr.delayed)
    IN  /\ At("due")
        /\ IF cr.delayed # <<>> /\ cr.tick >= cr.wake[c]
             THEN cr' = prvAddCoRoutineToReadyQueue(RemoveGenericItem(cr, c), c)
             ELSE cr' = [cr EXCEPT !.where = "next_tick"]

\* Those that are due leave the list, and the queue they wait on.
WakeDue ==
    LET c == Head(cr.delayed)
        r == RemoveEventItem(RemoveGenericItem(cr, c), c)
    IN  /\ At("due")
        /\ IF cr.delayed # <<>> /\ cr.tick >= cr.wake[c]
             THEN cr' = prvAddCoRoutineToReadyQueue(r, c)
             ELSE cr' = [cr EXCEPT !.where = "next_tick"]

\* The lists are up to date: the next co-routine of the highest priority that
\* has one runs, if there is any.
vCoRoutineSchedule ==
    LET nonEmpty == {p \in 0 .. cr.top : cr.ready[p].items # <<>>}
        p == CHOOSE q \in nonEmpty : \A r \in nonEmpty : r <= q
        list == IndexToNext(cr.ready[p])
    IN  /\ At("next_tick")
        /\ cr.passed = 0
        /\ cr' = IF nonEmpty = {}
                   THEN [cr EXCEPT !.last = cr.tick, !.top = 0, !.where = "schedule"]
                   ELSE [cr EXCEPT !.last = cr.tick,
                                   !.top = p,
                                   !.ready[p] = list,
                                   !.current = list.items[list.index],
                                   !.where = "run"]

-----------------------------------------------------------------------------
(* A co-routine runs *)

\* crSET_STATE0, crSET_STATE1: it returns, to go on from there.
GivesWay(s, state) ==
    [s EXCEPT !.state[s.current] = state, !.where = "schedule"]

\* crSTART: it goes on where it gave way.  In its own code it makes a call.
OwnCode(call) ==
    /\ At("run")
    /\ cr.state[cr.current] \in {"start", "delayed", "yielded"}
    /\ <<cr.current, call>> \in {<<c[1], c[2]>> : c \in calls}

TicksOf(call) == {c[3] : c \in {d \in calls : d[1] = cr.current /\ d[2] = call}}

crDELAY ==
    /\ OwnCode("delay")
    /\ \E n \in TicksOf("delay") :
         cr' = GivesWay(IF n > 0 THEN vCoRoutineAddToDelayedList(cr, n) ELSE cr,
                        "delayed")

\* The result of a call is its own affair.
Returns(s) == [s EXCEPT !.state[s.current] = "start", !.where = "run"]

\* xQueueCRSend, its first section: with the queue full it waits, or fails.
SendOrWait(ticks) ==
    cr' = IF cr.count < cr.length THEN [cr EXCEPT !.where = "send"]
          ELSE IF ticks > 0 THEN GivesWay(WaitOn(cr, "send", ticks), "blocked_send")
          ELSE Returns(cr)

\* Its second section: an interrupt may have filled the queue since.
xQueueCRSend ==
    LET sent == [cr EXCEPT !.count = @ + 1]
        waiting == cr.events["receive"]
    IN  /\ At("send")
        /\ cr' = IF cr.count >= cr.length THEN Returns(cr)
                 ELSE IF waiting = <<>> THEN Returns(sent)
                 ELSE LET r == xCoRoutineRemoveFromEventList(sent, "receive")
                      IN  IF GoesBefore(cr, Head(waiting))
                            THEN GivesWay(r, "yielded") ELSE Returns(r)

\* crQUEUE_SEND: after it has waited it calls again, with no time to wait.
crQUEUE_SEND ==
    \/ OwnCode("send") /\ \E n \in TicksOf("send") : SendOrWait(n)
    \/ At("run") /\ cr.state[cr.current] = "blocked_send" /\ SendOrWait(0)

\* xQueueCRReceive and crQUEUE_RECEIVE
ReceiveOrWait(ticks) ==
    cr' = IF cr.count > 0 THEN [cr EXCEPT !.where = "receive"]
          ELSE IF ticks > 0
            THEN GivesWay(WaitOn(cr, "receive", ticks), "blocked_receive")
          ELSE Returns(cr)

xQueueCRReceive ==
    LET received == [cr EXCEPT !.count = @ - 1]
        waiting == cr.events["send"]
    IN  /\ At("receive")
        /\ cr' = IF cr.count = 0 THEN Returns(cr)
                 ELSE IF waiting = <<>> THEN Returns(received)
                 ELSE LET r == xCoRoutineRemoveFromEventList(received, "send")
                      IN  IF GoesBefore(cr, Head(waiting))
                            THEN GivesWay(r, "yielded") ELSE Returns(r)

crQUEUE_RECEIVE ==
    \/ OwnCode("receive") /\ \E n \in TicksOf("receive") : ReceiveOrWait(n)
    \/ At("run") /\ cr.state[cr.current] = "blocked_receive" /\ ReceiveOrWait(0)

-----------------------------------------------------------------------------
(* Interrupts *)

\* The tick count goes on.  Bound: the co-routines are scheduled once in a lap.
Tick ==
    /\ (cr.now - cr.last) % TickMod < TickMod - 1
    /\ cr' = [cr EXCEPT !.now = (@ + 1) % TickMod]

\* xQueueCRSendFromISR and xQueueCRReceiveFromISR, one call of an interrupt:
\* xCoRoutinePreviouslyWoken is pdFALSE.
WakesFromISR(s, e) ==
    IF s.events[e] = <<>> THEN s ELSE xCoRoutineRemoveFromEventList(s, e)

xQueueCRSendFromISR ==
    /\ <<NoCoRoutine, "send", 0>> \in calls
    /\ cr.count < cr.length
    /\ cr' = WakesFromISR([cr EXCEPT !.count = @ + 1], "receive")

xQueueCRReceiveFromISR ==
    /\ <<NoCoRoutine, "receive", 0>> \in calls
    /\ cr.count > 0
    /\ cr' = WakesFromISR([cr EXCEPT !.count = @ - 1], "send")

-----------------------------------------------------------------------------

\* main creates the co-routines of an application, in an order.
Init ==
    \E a \in Applications :
        /\ cr = FoldLeft(LAMBDA s, x : xCoRoutineCreate(s, x[1], x[2]),
                         NoCoRoutines(a.length), a.coroutines)
        /\ calls = a.calls

Next ==
    /\ \/ prvCheckPendingReadyList
       \/ SampleTickCount \/ NextTick \/ WakeDue
       \/ vCoRoutineSchedule
       \/ crDELAY
       \/ crQUEUE_SEND \/ xQueueCRSend
       \/ crQUEUE_RECEIVE \/ xQueueCRReceive
       \/ Tick \/ xQueueCRSendFromISR \/ xQueueCRReceiveFromISR
    /\ UNCHANGED calls

Spec == Init /\ [][Next]_vars

-----------------------------------------------------------------------------
(* Properties *)

\* Those that were woken, or gave up, and have still to look at the queue.
Woken(state) ==
    {c \in CoRoutine :
       /\ cr.state[c] = state
       /\ \A e \in DOMAIN cr.events : c \notin ToSet(cr.events[e])}

\* A co-routine waits for an item only while each item in the queue has another
\* co-routine on its way to it, and for room likewise: no wake-up is lost or
\* goes to one that no longer waits, when interrupts use the queue between any
\* two steps and waits time out.
NoCoRoutineLeftWaiting ==
    /\ cr.events["receive"] # <<>> =>
         cr.count <= Cardinality(Woken("blocked_receive"))
                     + (IF At("receive") THEN 1 ELSE 0)
    /\ cr.events["send"] # <<>> =>
         cr.length - cr.count <= Cardinality(Woken("blocked_send"))
                                 + (IF At("send") THEN 1 ELSE 0)

\* A co-routine is delayed for the ticks it asked for, of the count that the
\* co-routines go by: it is on the list of the lap in which it is to wake, none
\* is left behind at the wrap of the count or when many ticks are counted at
\* once, and it is in one list by its generic item.
CoRoutineDelaysExact ==
    \A c \in CoRoutine :
        /\ c \in ToSet(cr.delayed) \cup ToSet(cr.overflow) =>
             /\ cr.left[c] >= (IF At("due") THEN 0 ELSE 1)
             /\ cr.wake[c] = (cr.tick + cr.left[c]) % TickMod
             /\ c \in ToSet(cr.delayed) <=> cr.tick + cr.left[c] < TickMod
        /\ c \in ToSet(cr.delayed) => c \notin ToSet(cr.overflow)
        /\ (\E p \in CoPriority : Contained(c, cr.ready[p])) =>
             c \notin ToSet(cr.delayed) \cup ToSet(cr.overflow)

=============================================================================
