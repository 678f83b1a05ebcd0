------------------------------- MODULE Startup -------------------------------
(***************************************************************************)
(* From vTaskStartScheduler to the first configuration by a host (main.c). *)
(* Every task starts with a prologue in which it publishes its own handle  *)
(* and then blocks, except USBConfigService, which polls without blocking  *)
(* until a host has configured the device.  The interrupts of the clock    *)
(* and of the frame counter are already enabled by then; their handlers    *)
(* give a notification to a task by its published handle.                  *)
(*                                                                         *)
(* A prologue takes no time to speak of; time passes - so that a second    *)
(* or 128 frames may go by - only while the processor is idle or polls.    *)
(***************************************************************************)
EXTENDS Integers

CONSTANT MaxPriorities  \* configMAX_PRIORITIES

\* The tasks main creates, with the priority it asks for.
TaskPriority ==
    [AudioTx |-> 5, AudioTxMonitor |-> 4, USBConfigService |-> 3,
     USBServiceAudioFeedbackEp |-> 3, USBSerialTx |-> 2, USBSerialRx |-> 2,
     SyncMonitor |-> 2, EarSaver |-> 2, AudioTxLogging |-> 1,
     KnobsUpdate |-> 1, Booter |-> 1, RTCUpdate |-> 1]

Tasks == DOMAIN TaskPriority

VARIABLES
    ready,     \* the tasks that are ready to run
    started,   \* the tasks that have published their handle
    host,      \* absent, attached (it sends frames) or configured
    notified   \* history: the tasks an interrupt has notified

vars == <<ready, started, host, notified>>

Init ==
    /\ ready = Tasks
    /\ started = {}
    /\ host = "absent"
    /\ notified = {}

\* xTaskCreate clamps the priority to the highest level.
Priority(t) ==
    IF TaskPriority[t] >= MaxPriorities THEN MaxPriorities - 1 ELSE TaskPriority[t]

\* The ready tasks of the highest level share the processor.
Runs(t) == t \in ready /\ \A u \in ready : Priority(u) <= Priority(t)

\* while (!USBFS_GetConfiguration());
Polling == "USBConfigService" \in started /\ host # "configured"

\* A task runs its prologue, and blocks.
Prologue(t) ==
    /\ Runs(t)
    /\ t \notin started
    /\ started' = started \cup {t}
    /\ ready' = (IF t = "USBConfigService" THEN ready ELSE ready \ {t})
    /\ UNCHANGED <<host, notified>>

\* A started task runs until it blocks again; USBConfigService cannot while it
\* polls.
Block(t) ==
    /\ Runs(t)
    /\ t \in started
    /\ t = "USBConfigService" => ~Polling
    /\ ready' = ready \ {t}
    /\ UNCHANGED <<started, host, notified>>

\* No task has anything to do but to poll: time may pass.
Quiet == \A t \in Tasks : Runs(t) => t = "USBConfigService" /\ Polling

\* A delay or a timeout of a blocked task ends.
Wake(t) ==
    /\ Quiet
    /\ t \in started
    /\ ready' = ready \cup {t}
    /\ UNCHANGED <<started, host, notified>>

HostAttaches ==
    /\ Quiet
    /\ host = "absent"
    /\ host' = "attached"
    /\ UNCHANGED <<ready, started, notified>>

HostConfigures ==
    /\ Quiet
    /\ host = "attached"
    /\ host' = "configured"
    /\ UNCHANGED <<ready, started, notified>>

\* vTaskNotifyGiveFromISR: the task is made ready.
Notify(t) ==
    /\ notified' = notified \cup {t}
    /\ ready' = (IF t \in started THEN ready \cup {t} ELSE ready)
    /\ UNCHANGED <<started, host>>

\* rtc_inc_isr, once a second.
RtcInc == Quiet /\ Notify("RTCUpdate")

\* sync_counter_update_isr, every 128 frames of an attached host.
SyncCounterUpdate ==
    /\ Quiet
    /\ host # "absent"
    /\ Notify("SyncMonitor")

Next ==
    \/ \E t \in Tasks : Prologue(t) \/ Block(t) \/ Wake(t)
    \/ HostAttaches
    \/ HostConfigures
    \/ RtcInc
    \/ SyncCounterUpdate

Spec == Init /\ [][Next]_vars

-----------------------------------------------------------------------------

\* configASSERT( xTaskToNotify ) in vTaskGenericNotifyGiveFromISR: no interrupt
\* notifies a task that has not published its handle.
NotifiedTaskExists == notified \subseteq started

=============================================================================
