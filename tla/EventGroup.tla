----------------------------- MODULE EventGroup -----------------------------
(***************************************************************************)
(* An event group (event_groups.c): tasks that wait for some or for all of *)
(* a set of bits, and tasks that set, clear and synchronise on them.  The  *)
(* event item of a task that waits carries what it waits for; a task that  *)
(* sets bits writes the bits of that moment into it.                       *)
(***************************************************************************)
EXTENDS KernelObject

CONSTANTS
    TheGroup, \* xTasksWaitingForBits
    Bits      \* the event bits

\* xEventGroupCreate.  got and rounds are history: what the last wait of each
\* task returned, and how often, modulo 4, it got through
\* xEventGroupSync.
NothingGot == [met |-> FALSE]
NewEventGroup ==
    [bits   |-> {},  \* uxEventBits
     deleted |-> FALSE,
     got    |-> [t \in Task |-> NothingGot],
     rounds |-> [t \in Task |-> 0]]

-----------------------------------------------------------------------------

\* prvTestWaitCondition
prvTestWaitCondition(current, for, all) ==
    IF all THEN for \subseteq current ELSE for \cap current # {}

Waiters == k.events[TheGroup]

\* Those whom the bits that are now set release.
Released(bits) ==
    SelectSeq(Waiters, LAMBDA t :
                prvTestWaitCondition(bits, k.bits[t].for, k.bits[t].all))

ToClear(released) ==
    UNION {k.bits[t].for : t \in {u \in ToSet(released) : k.bits[u].clear}}

\* Mutant: those that wait are tested against the new bits only.
SetBitsWalkNew(set) ==
    LET bits == o.bits \cup set
        released == Released(set)
    IN  [k |-> FoldLeft(LAMBDA r, t : vTaskRemoveFromUnorderedEventList(
                                        r, t, [used |-> TRUE, unblocked |-> TRUE, bits |-> bits]),
                        k, released),
         bits |-> bits \ ToClear(released)]

\* The walk of xEventGroupSetBits over those that wait: every one is tested
\* against all bits that are set, and what they clear is cleared at the end.
SetBitsWalk(set) ==
    LET bits == o.bits \cup set
        released == Released(bits)
    IN  [k |-> FoldLeft(LAMBDA r, t : vTaskRemoveFromUnorderedEventList(
                                        r, t, [used |-> TRUE, unblocked |-> TRUE, bits |-> bits]),
                        k, released),
         bits |-> bits \ ToClear(released)]

\* What a call returned.
Gets(t, for, all, bits) ==
    [o EXCEPT !.got[t] = [met |-> TRUE, for |-> for, all |-> all, bits |-> bits]]

TimesOut(t) == [o EXCEPT !.got[t] = NothingGot]

\* Every call but xEventGroupClearBits starts with vTaskSuspendAll.  c is
\* <<t, "wait", bits, ticks, clear on exit, for all>>,
\* <<t, "sync", bits, ticks, own bits>>, <<t, "set", bits>> or <<t, "delete">>.
Enter(t) ==
    /\ At(t, "run")
    /\ ~o.deleted
    /\ \E c \in calls :
         /\ c[1] = t /\ c[2] \in {"wait", "sync", "set", "delete"}
         /\ call' = [call EXCEPT ![t] =
                       CASE c[2] = "wait" -> [op |-> "wait", for |-> c[3], ticks |-> c[4],
                                              clear |-> c[5], all |-> c[6]]
                         [] c[2] = "sync" -> [op |-> "sync", for |-> c[3], ticks |-> c[4],
                                              clear |-> TRUE, all |-> TRUE, set |-> c[5]]
                         [] c[2] = "set" -> [op |-> "set", set |-> c[3], ticks |-> 0]
                         [] c[2] = "delete" -> [op |-> "delete", ticks |-> 0]]
         /\ Goes(t, c[2])
    /\ k' = vTaskSuspendAll(k)
    /\ UNCHANGED <<o, calls>>

\* The item is put into the list with the control bits.
Placed(kernel, c) ==
    vTaskPlaceOnUnorderedEventList(
        kernel, TheGroup,
        [used |-> TRUE, unblocked |-> FALSE, for |-> c.for, clear |-> c.clear, all |-> c.all],
        c.ticks)

\* xEventGroupWaitBits
WaitBits(t) ==
    /\ At(t, "wait")
    /\ LET c == call[t]
           met == prvTestWaitCondition(o.bits, c.for, c.all)
           waits == ~met /\ c.ticks # 0
       IN  /\ k' = IF waits THEN Placed(k, c) ELSE k
           /\ o' = IF met
                     THEN [Gets(t, c.for, c.all, o.bits)
                             EXCEPT !.bits = IF c.clear THEN @ \ c.for ELSE @]
                   ELSE IF waits THEN o
                   ELSE TimesOut(t)
           /\ call' = [call EXCEPT ![t].ticks = IF waits THEN @ ELSE 0]
    /\ Goes(t, "resume")
    /\ UNCHANGED calls

SyncMeets(c) == c.for \subseteq o.bits \cup c.set

\* xEventGroupSync, with the xEventGroupSetBits it calls: the scheduler is
\* suspended from the one to the other.
Sync(t) ==
    /\ At(t, "sync")
    /\ LET c == call[t]
           walk == SetBitsWalk(c.set)
           waits == ~SyncMeets(c) /\ c.ticks # 0
       IN  /\ k' = IF waits THEN Placed(walk.k, c) ELSE walk.k
           /\ o' = IF SyncMeets(c)
                     THEN [Gets(t, c.for, TRUE, o.bits \cup c.set)
                             EXCEPT !.bits = walk.bits \ c.for, !.rounds[t] = (@ + 1) % 4]
                   ELSE IF waits THEN [o EXCEPT !.bits = walk.bits]
                   ELSE [TimesOut(t) EXCEPT !.bits = walk.bits]
           /\ call' = [call EXCEPT ![t].ticks = IF waits THEN @ ELSE 0]
    /\ Goes(t, "resume")
    /\ UNCHANGED calls

\* xEventGroupSetBits
Set(t) ==
    /\ At(t, "set")
    /\ LET walk == SetBitsWalk(call[t].set)
       IN  k' = walk.k /\ o' = [o EXCEPT !.bits = walk.bits]
    /\ Goes(t, "resume")
    /\ UNCHANGED <<call, calls>>

\* vEventGroupDelete: those that wait get no bits.  The memory is freed when
\* the scheduler has been resumed.
Delete(t) ==
    /\ At(t, "delete")
    /\ k' = FoldLeft(LAMBDA r, u : vTaskRemoveFromUnorderedEventList(
                                     r, u, [used |-> TRUE, unblocked |-> TRUE, bits |-> {}]),
                     k, Waiters)
    /\ o' = [o EXCEPT !.deleted = TRUE]
    /\ Goes(t, "resume")
    /\ UNCHANGED <<call, calls>>

\* xTaskResumeAll; a task that waits gives way.
ResumeAll(t) ==
    /\ At(t, "resume")
    /\ LET r == xTaskResumeAll(k)
       IN  k' = YieldIf(r, call[t].ticks # 0 /\ ~AlreadyYielded(r))
    /\ IF call[t].ticks # 0 THEN Goes(t, "waited") /\ UNCHANGED call
       ELSE Returns(t)
    /\ UNCHANGED <<o, calls>>

\* The bits that released t, which its event item has kept.
BitsGot(t) == k.bits[t].bits

\* After the wait: a task that was not released looks at the bits once more.
\* In a group that was deleted since, it may find anything.
Waited(t) ==
    /\ At(t, "waited")
    /\ k' = uxTaskResetEventItemValue(k)
    /\ LET c == call[t]
           passes == IF c.op = "sync" THEN 1 ELSE 0
       IN  IF k.bits[t].unblocked
             THEN o' = [Gets(t, c.for, c.all, BitsGot(t)) EXCEPT !.rounds[t] = (@ + passes) % 4]
             ELSE \E bits \in IF o.deleted THEN SUBSET Bits ELSE {o.bits} :
                    LET met == prvTestWaitCondition(bits, c.for, c.all)
                    IN  o' = IF met
                               THEN [Gets(t, c.for, c.all, bits)
                                       EXCEPT !.bits = IF c.clear THEN bits \ c.for ELSE bits,
                                              !.rounds[t] = (@ + passes) % 4]
                               ELSE TimesOut(t)
    /\ Returns(t)
    /\ UNCHANGED calls

\* xEventGroupClearBits
ClearBitsOf(t) ==
    /\ At(t, "run")
    /\ ~o.deleted
    /\ \E c \in CallsOf(t, "clear") : o' = [o EXCEPT !.bits = @ \ c[3]]
    /\ UNCHANGED <<k, pc, call, calls>>

-----------------------------------------------------------------------------

TaskStep(t) ==
    \/ Enter(t) \/ WaitBits(t) \/ Sync(t) \/ Set(t) \/ Delete(t)
    \/ ResumeAll(t) \/ Waited(t) \/ ClearBitsOf(t) \/ Delay(t) \/ OwnCode(t)

Next == (\E t \in Task : TaskStep(t)) \/ SysTick \/ PendSV

Spec == Init /\ [][Next]_vars

-----------------------------------------------------------------------------
(* Properties *)

\* No one sleeps on bits that are set, whatever was set, cleared and waited
\* for before, and in whichever order the tasks came.
NoEventMissed ==
    \A t \in ToSet(Waiters) :
        ~prvTestWaitCondition(o.bits, k.bits[t].for, k.bits[t].all)

\* A wait that did not time out returns bits that meet its condition, also
\* when they have been cleared before the task ran again.
ReturnsBitsWaitedFor ==
    \A t \in Task :
        LET g == o.got[t]
        IN  g.met /\ ~o.deleted => prvTestWaitCondition(g.bits, g.for, g.all)

Syncs == {t \in Task : CallsOf(t, "sync") # {}}
AllSync == \A t \in Syncs : \A c \in CallsOf(t, "sync") : c[4] = portMAX_DELAY

\* Tasks that synchronise without a timeout keep step: none is a round ahead
\* of another, and they do not all wait for one another.
KeepStep ==
    Syncs # {} /\ AllSync =>
        /\ \A t, u \in Syncs : (o.rounds[t] - o.rounds[u]) % 4 # 2
        /\ ~(Syncs \subseteq ToSet(Waiters))

=============================================================================
