---------------------------- MODULE KernelObject ----------------------------
(***************************************************************************)
(* What StreamBuffer, EventGroup and Timers have in common: tasks that are *)
(* in their own code or somewhere in a call of the kernel, one object of   *)
(* the kernel that they share, the tick and the context switch.            *)
(***************************************************************************)
EXTENDS TaskWaits

CONSTANTS
    Idle,     \* the idle task
    Scenes,   \* the applications: tasks, object, calls
    NoCall,
    MaxTicks  \* bound of this instance: the ticks of one run

VARIABLES
    k,     \* the kernel
    pc,    \* where each task is: "run" in its own code
    call,  \* the call it is in
    o,     \* the object
    calls  \* the calls of the application: <<who, call, ...>>

vars == <<k, pc, call, o, calls>>

\* The ticks since the start: within MaxTicks xNumOfOverflows does not wrap.
Clock == k.overflows * TickMod + k.tick

Init ==
    \E scene \in Scenes :
        /\ k = BootedKernel(scene.tasks, Idle)
        /\ pc = [t \in Task |-> "run"]
        /\ call = [t \in Task |-> NoCall]
        /\ o = scene.object
        /\ calls = scene.calls

At(t, where) == k.current = t /\ ~k.pendsv /\ pc[t] = where
Goes(t, where) == pc' = [pc EXCEPT ![t] = where]
Returns(t) == Goes(t, "run") /\ call' = [call EXCEPT ![t] = NoCall]

\* The calls t may make of an operation.
CallsOf(t, op) == {c \in calls : c[1] = t /\ c[2] = op}

\* vTaskDelay, which Scheduler has in full: a tick in which others run.
Delay(t) ==
    /\ At(t, "run")
    /\ CallsOf(t, "delay") # {}
    /\ k' = portYIELD(prvAddCurrentTaskToDelayedList(k, 1, FALSE))
    /\ UNCHANGED <<pc, call, o, calls>>

\* A task, or the idle task, that is busy with something else.
OwnCode(t) == At(t, "run") /\ UNCHANGED vars

\* xPortSysTickHandler
SysTick ==
    LET r == xTaskIncrementTick(k)
    IN  /\ Clock + k.pended < MaxTicks
        /\ k' = YieldIf(r.k, r.switch)
        /\ UNCHANGED <<pc, call, o, calls>>

\* xPortPendSVHandler
PendSV ==
    /\ k.pendsv
    /\ k' = vTaskSwitchContext(k)
    /\ UNCHANGED <<pc, call, o, calls>>

=============================================================================
