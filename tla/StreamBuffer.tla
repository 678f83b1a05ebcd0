---------------------------- MODULE StreamBuffer ----------------------------
(***************************************************************************)
(* A stream buffer or message buffer (stream_buffer.c) between one writer  *)
(* and one reader, each a task or an interrupt.  Nothing locks the ring:   *)
(* the writer moves xHead, the reader moves xTail, each looks at the       *)
(* other's once and goes on with what it saw.  A task that has to wait     *)
(* leaves its handle in the buffer and waits for a notification.           *)
(***************************************************************************)
EXTENDS KernelObject

\* prvInitialiseNewStreamBuffer.  flight is history: the messages, or the
\* bytes, that were sent and have not been received.
NewStreamBuffer(length, trigger, isMessageBuffer) ==
    [length  |-> length,   \* xLength: one more than it holds
     trigger |-> trigger,  \* xTriggerLevelBytes
     message |-> isMessageBuffer,
     head    |-> 0,        \* xHead
     tail    |-> 0,        \* xTail
     ring    |-> [i \in 0 .. length - 1 |-> 0],  \* pucBuffer
     toReceive |-> NoTask, \* xTaskWaitingToReceive
     toSend  |-> NoTask,   \* xTaskWaitingToSend
     flight  |-> <<>>]

-----------------------------------------------------------------------------
(* The ring *)

\* sbBYTES_TO_STORE_MESSAGE_LENGTH of a message buffer, here one.
HeaderBytes(b) == IF b.message THEN 1 ELSE 0

prvBytesInBuffer(b) == (b.length + b.head - b.tail) % b.length
xStreamBufferSpacesAvailable(b) == (b.length + b.tail - b.head - 1) % b.length

\* Mutant: what does not fit before the end of the ring is not carried over.
WriteBytesOnce(b, bytes) ==
    LET fit == Min({Len(bytes), b.length - b.head})
    IN  [b EXCEPT !.ring = [i \in DOMAIN @ |->
                              IF i \in b.head .. b.head + fit - 1
                                THEN bytes[i - b.head + 1] ELSE @[i]],
                  !.head = (@ + Len(bytes)) % b.length]

\* prvWriteBytesToBuffer
prvWriteBytesToBuffer(b, bytes) ==
    [b EXCEPT !.ring = [i \in DOMAIN @ |->
                          LET j == ((i - b.head) % b.length) + 1
                          IN  IF j <= Len(bytes) THEN bytes[j] ELSE @[i]],
              !.head = (@ + Len(bytes)) % b.length]

\* n bytes from the tail on, of prvReadBytesFromBuffer.
BytesAtTail(b, n) == [i \in 1 .. n |-> b.ring[(b.tail + i - 1) % b.length]]

Skip(b, n) == [b EXCEPT !.tail = (@ + n) % b.length]

\* What is written of data when there is this much space: a message whole or
\* not at all, as much of a stream as fits.
Fits(b, data, space) ==
    IF ~b.message THEN SubSeq(data, 1, Min({Len(data), space}))
    ELSE IF space >= Len(data) + 1 THEN data ELSE <<>>

\* prvWriteMessageToBuffer: xHead moves once, past length and message.
prvWriteMessageToBuffer(b, data, space) ==
    LET fits == Fits(b, data, space)
    IN  IF fits = <<>> THEN b
        ELSE [prvWriteBytesToBuffer(b, IF b.message THEN <<Len(data)>> \o fits ELSE fits)
                EXCEPT !.flight = @ \o IF b.message THEN <<fits>>
                                       ELSE [i \in DOMAIN fits |-> <<fits[i]>>]]

\* The bytes prvReadMessageFromBuffer takes of those available: a message
\* that is too long for the reader stays.
Count(b, length, available) ==
    IF ~b.message THEN Min({length, available})
    ELSE LET next == BytesAtTail(b, 1)[1]
         IN  IF next > length THEN 0 ELSE Min({next, available - 1})

prvReadMessageFromBuffer(b, length, available) ==
    LET n == Count(b, length, available)
    IN  IF n = 0 THEN b
        ELSE [Skip(b, n + HeaderBytes(b))
                EXCEPT !.flight = SubSeq(@, IF b.message THEN 2 ELSE n + 1, Len(@))]

-----------------------------------------------------------------------------
(* A task sends *)

\* xRequiredSpace, and the wait that is worth while for it.
Required(b, data) ==
    IF b.message THEN Len(data) + 1 ELSE Min({Len(data), b.length - 1})

WorthWaiting(b, data, ticks) ==
    IF b.message /\ Required(b, data) > b.length - 1 THEN 0 ELSE ticks

Send(t) ==
    /\ At(t, "run")
    /\ \E c \in calls :
         /\ c[1] = t /\ c[2] = "send"
         /\ LET ticks == WorthWaiting(o, c[3], c[4])
            IN  /\ call' = [call EXCEPT ![t] =
                              [op |-> "send", data |-> c[3], ticks |-> ticks,
                               timeout |-> vTaskInternalSetTimeOutState(k),
                               seen |-> 0]]
                /\ Goes(t, IF ticks = 0 THEN "write" ELSE "space")
    /\ UNCHANGED <<k, o, calls>>

\* Leaving the handle and clearing the notification state are one critical
\* section with the look at the buffer.
SendLooks(t) ==
    /\ At(t, "space")
    /\ LET space == xStreamBufferSpacesAvailable(o)
           waits == space < Required(o, call[t].data)
       IN  /\ call' = [call EXCEPT ![t].seen = space]
           /\ k' = IF waits THEN xTaskGenericNotifyStateClear(k, t) ELSE k
           /\ o' = IF waits THEN [o EXCEPT !.toSend = t] ELSE o
           /\ Goes(t, IF waits THEN "wait" ELSE "write")
    /\ UNCHANGED calls

\* xTaskNotifyWait
Wait(t) ==
    /\ At(t, "wait")
    /\ k' = NotifyWaitEnter(k, 0, call[t].ticks)
    /\ Goes(t, "waited")
    /\ UNCHANGED <<call, o, calls>>

Waited(t) ==
    /\ At(t, "waited")
    /\ k' = NotifyWaitExit(k, 0)
    /\ Goes(t, IF call[t].op = "send" THEN "send again" ELSE "receive again")
    /\ UNCHANGED <<call, o, calls>>

SendAgain(t) ==
    /\ At(t, "send again")
    /\ LET r == xTaskCheckForTimeOut(k, call[t].timeout, call[t].ticks)
       IN  /\ call' = [call EXCEPT ![t].timeout = r.timeout, ![t].ticks = r.ticks]
           /\ Goes(t, IF r.expired THEN "write" ELSE "space")
    /\ o' = [o EXCEPT !.toSend = NoTask]
    /\ UNCHANGED <<k, calls>>

\* sbSEND_COMPLETED is for a buffer that has reached its trigger level.
Triggers(b) == prvBytesInBuffer(b) >= b.trigger

\* The space is what the last look saw, or if that was none, what there is.
Write(t) ==
    /\ At(t, "write")
    /\ LET c == call[t]
           space == IF c.seen = 0 THEN xStreamBufferSpacesAvailable(o) ELSE c.seen
       IN  /\ o' = prvWriteMessageToBuffer(o, c.data, space)
           /\ IF Fits(o, c.data, space) # <<>> /\ Triggers(o')
                THEN Goes(t, "complete") /\ UNCHANGED call
                ELSE Returns(t)
    /\ UNCHANGED <<k, calls>>

-----------------------------------------------------------------------------
(* A task receives *)

\* A call that may wait leaves the handle in one critical section with the
\* look at the buffer.
Receive(t) ==
    /\ At(t, "run")
    /\ \E c \in calls :
         LET empty == prvBytesInBuffer(o) <= HeaderBytes(o)
             waits == empty /\ c[4] # 0
         IN  /\ c[1] = t /\ c[2] = "receive"
             /\ k' = IF waits THEN xTaskGenericNotifyStateClear(k, t) ELSE k
             /\ o' = IF waits THEN [o EXCEPT !.toReceive = t] ELSE o
             /\ IF waits \/ ~empty
                  THEN /\ call' = [call EXCEPT ![t] =
                                     [op |-> "receive", length |-> c[3],
                                      ticks |-> c[4], seen |-> prvBytesInBuffer(o)]]
                       /\ Goes(t, IF waits THEN "wait" ELSE "read")
                  ELSE UNCHANGED <<pc, call>>
    /\ UNCHANGED calls

ReceiveAgain(t) ==
    /\ At(t, "receive again")
    /\ o' = [o EXCEPT !.toReceive = NoTask]
    /\ IF prvBytesInBuffer(o) > HeaderBytes(o)
         THEN /\ call' = [call EXCEPT ![t].seen = prvBytesInBuffer(o)]
              /\ Goes(t, "read")
         ELSE Returns(t)
    /\ UNCHANGED <<k, calls>>

Read(t) ==
    /\ At(t, "read")
    /\ LET c == call[t]
       IN  /\ o' = prvReadMessageFromBuffer(o, c.length, c.seen)
           /\ IF Count(o, c.length, c.seen) # 0
                THEN Goes(t, "complete") /\ UNCHANGED call
                ELSE Returns(t)
    /\ UNCHANGED <<k, calls>>

-----------------------------------------------------------------------------
(* sbSEND_COMPLETED and sbRECEIVE_COMPLETED: with the scheduler suspended    *)
(* the other side, if it waits, is notified.                                 *)

Complete(t) ==
    /\ At(t, "complete")
    /\ k' = vTaskSuspendAll(k)
    /\ Goes(t, "notify")
    /\ UNCHANGED <<call, o, calls>>

WaitsFor(c) == IF c.op = "send" THEN o.toReceive ELSE o.toSend

Registered(b, c) ==
    IF c.op = "send" THEN [b EXCEPT !.toReceive = NoTask]
    ELSE [b EXCEPT !.toSend = NoTask]

NotifyOther(t) ==
    /\ At(t, "notify")
    /\ LET other == WaitsFor(call[t])
       IN  IF other = NoTask THEN UNCHANGED <<k, o>>
           ELSE /\ k' = xTaskGenericNotify(k, other, 0, "eNoAction")
                /\ o' = Registered(o, call[t])
    /\ Goes(t, "resume")
    /\ UNCHANGED <<call, calls>>

ResumeAll(t) ==
    /\ At(t, "resume")
    /\ k' = xTaskResumeAll(k)
    /\ Returns(t)
    /\ UNCHANGED <<o, calls>>

\* xStreamBufferReset
Reset(t) ==
    /\ At(t, "run")
    /\ \E c \in calls : c[1] = t /\ c[2] = "reset"
    /\ o.toReceive = NoTask /\ o.toSend = NoTask
    /\ o' = NewStreamBuffer(o.length, o.trigger, o.message)
    /\ UNCHANGED <<k, pc, call, calls>>

\* xStreamBufferSetTriggerLevel: it wakes nobody.
SetTriggerLevel(t) ==
    /\ At(t, "run")
    /\ \E c \in calls :
         /\ c[1] = t /\ c[2] = "trigger"
         /\ Max({c[3], 1}) < o.length
         /\ o' = [o EXCEPT !.trigger = Max({c[3], 1})]
    /\ UNCHANGED <<k, pc, call, calls>>

-----------------------------------------------------------------------------
(* Interrupts *)

\* sbSEND_COMPLETE_FROM_ISR, sbRECEIVE_COMPLETED_FROM_ISR
CompletedFromISR(b, op) ==
    LET other == IF op = "send" THEN b.toReceive ELSE b.toSend
    IN  IF other = NoTask THEN [k |-> k, o |-> b]
        ELSE [k |-> YieldIf(xTaskGenericNotifyFromISR(k, other, 0, "eNoAction"),
                            WokenByNotify(k, other)),
              o |-> Registered(b, [op |-> op])]

SendFromISR ==
    /\ \E c \in calls :
         LET space == xStreamBufferSpacesAvailable(o)
             written == prvWriteMessageToBuffer(o, c[3], space)
             r == CompletedFromISR(written, "send")
         IN  /\ c[2] = "send_isr"
             /\ Fits(o, c[3], space) # <<>>
             /\ IF Triggers(written)
                  THEN k' = r.k /\ o' = r.o
                  ELSE o' = written /\ UNCHANGED k
    /\ UNCHANGED <<pc, call, calls>>

ReceiveFromISR ==
    /\ \E c \in calls :
         LET available == prvBytesInBuffer(o)
             r == CompletedFromISR(prvReadMessageFromBuffer(o, c[3], available), "receive")
         IN  /\ c[2] = "receive_isr"
             /\ available > HeaderBytes(o)
             /\ Count(o, c[3], available) # 0
             /\ k' = r.k /\ o' = r.o
    /\ UNCHANGED <<pc, call, calls>>

-----------------------------------------------------------------------------

TaskStep(t) ==
    \/ Send(t) \/ SendLooks(t) \/ Wait(t) \/ Waited(t) \/ SendAgain(t) \/ Write(t)
    \/ Receive(t) \/ ReceiveAgain(t) \/ Read(t)
    \/ Complete(t) \/ NotifyOther(t) \/ ResumeAll(t)
    \/ Reset(t) \/ SetTriggerLevel(t) \/ OwnCode(t)

Next ==
    \/ \E t \in Task : TaskStep(t)
    \/ SendFromISR \/ ReceiveFromISR \/ SysTick \/ PendSV

Spec == Init /\ [][Next]_vars

-----------------------------------------------------------------------------
(* Properties *)

\* The ring has, from the tail to the head, the bytes that were sent and not
\* received, and each message whole behind its length: although neither side
\* locks it and both go on with a count they took before.
FlightIntact ==
    BytesAtTail(o, prvBytesInBuffer(o)) =
        FlattenSeq([i \in DOMAIN o.flight |->
                      IF o.message THEN <<Len(o.flight[i])>> \o o.flight[i]
                      ELSE o.flight[i]])

\* t sleeps in xTaskNotifyWait.
Asleep(t) ==
    /\ pc[t] = "waited"
    /\ ~IsReady(k, t)
    /\ ~EventItemInList(k, t)

Completing(op) == \E t \in Task : pc[t] \in {"complete", "notify"} /\ call[t].op = op

\* No one sleeps through what it waits for: a reader that sleeps has less than
\* the trigger level in the buffer, and a writer not the room it needs, or the
\* other side is about to notify it.  Both sleep only when the trigger level
\* and what is written do not fit into the buffer together.
WokenForData ==
    \A t \in Task : Asleep(t) =>
        IF call[t].op = "receive"
          THEN Completing("send") \/ prvBytesInBuffer(o) < o.trigger
          ELSE Completing("receive")
               \/ xStreamBufferSpacesAvailable(o) < Required(o, call[t].data)

=============================================================================
