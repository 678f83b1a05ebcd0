----------------------------- MODULE SchedulerMC -----------------------------
(* Scheduler for TLC: two tasks and the idle task, and eight applications,*)
(* each of which makes some of the calls.                                   *)
EXTENDS Scheduler

CONSTANTS t1, t2, idle

MCTask == {t1, t2, idle}
MCFirstTasks == <<<<t1, 1>>, <<t2, 2>>>>

MCCalls ==
    {{"delay", "suspend_all", "catch_up"},
     {"delay_until", "suspend_all"},
     {"take", "notify", "notify_isr", "suspend_all"},
     {"wait", "notify", "clear", "notify_isr"},
     {"take", "suspend", "resume", "resume_isr_any", "notify_isr"},
     {"take", "suspend", "resume_isr", "suspend_all"},
     {"create", "delete", "delay", "priority"},
     {"take", "priority", "notify", "clear"}}

MCPendedCalls == {{"take", "suspend_all", "resume_isr_any", "notify_isr"}}

=============================================================================
