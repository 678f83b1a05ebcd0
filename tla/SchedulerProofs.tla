--------------------------- MODULE SchedulerProofs ---------------------------
(***************************************************************************)
(* What Scheduler promises, for every number of tasks and priorities and   *)
(* every width of the tick counter.                                        *)
(***************************************************************************)
EXTENDS Scheduler, TasksProofs

-----------------------------------------------------------------------------
(* The invariant *)

\* Resumptions and notifications from interrupts are not mixed while the
\* scheduler is suspended by an application that resumes any task from its
\* interrupts: then a task may be put twice in xPendingReadyList
\* (SchedulerPended shows it).
Suspends == {"delay", "delay_until", "suspend_all", "catch_up"}
ResumesKnown ==
    \A C \in Calls : {"resume_isr_any", "notify_isr"} \subseteq C =>
                       C \cap Suspends = {}

Existing == {t \in Task : Exists(t)}

KernelInv ==
    /\ Good(k) /\ NoEvents(k) /\ Timed(k)
    /\ k.running = TRUE /\ k.pended \in Nat /\ k.suspensions \in {0, 1}
    /\ k.base = k.priority
    /\ DOMAIN k.notify = Task /\ DOMAIN k.value = Task
    /\ Idle \in ReadyAt(k, 0)

TypeInv ==
    /\ DOMAIN pc = Task /\ DOMAIN arg = Task
    /\ prev \in [Task -> Int]
    /\ \A t \in Task : pc[t] \in {"delay", "delay_until"} => arg[t] \in Nat
    /\ calls \in Calls
    /\ held \subseteq Task

\* Where the scheduler is suspended.
Suspending == {"delay", "delay_until", "resume_all", "suspended_all", "catch_up"}

SuspensionInv ==
    /\ \A t \in Task : pc[t] \in Suspending => t = k.current /\ k.suspensions = 1
    /\ k.suspensions = 1 => pc[k.current] \in Suspending /\ calls \cap Suspends # {}

PlacesInv ==
    /\ Placed(k) = Existing
    /\ Elements(k.termination) = {t \in Task : pc[t] = "deleted"}
    /\ k.cleanup = Len(k.termination)
    /\ k.count = Cardinality(Existing)
    /\ pc[Idle] \in {"run", "free"}

PendingInv ==
    /\ k.suspensions = 0 => Elements(k.pending) = {} /\ k.pended = 0
    /\ \A t \in Elements(k.pending) :
         /\ Exists(t) /\ pc[t] # "deleted" /\ t \notin held
         /\ k.notify[t] = "waiting" => "notify_isr" \notin calls

HeldInv ==
    \A t \in held : t \in Elements(k.suspended) /\ k.notify[t] # "waiting"

FreeInv ==
    /\ \A t \in Task : pc[t] = "free" => arg[t] \in Task /\ pc[arg[t]] = "freed"
    /\ \A t, u \in Task : pc[t] = "free" /\ pc[u] = "free" /\ arg[t] = arg[u] => t = u

\* The switch that is due has been asked for, or will be.
TopInv ==
    /\ pc[k.current] # "resume_all" /\ ~BeforeYield(k.current)
       /\ (k.suspensions = 0 => ~k.pendsv) => OnTop(k)
    /\ pc[k.current] = "created" /\ ~k.pendsv =>
         /\ CurrentIsReady(k)
         /\ arg[k.current] \in Task
         /\ \A p \in k.top : \/ p <= k.priority[k.current]
                             \/ p <= k.priority[arg[k.current]]
    /\ \A t \in Task : pc[t] = "created" => arg[t] \in Task

SchedInv ==
    /\ KernelInv /\ TypeInv /\ SuspensionInv /\ PlacesInv /\ PendingInv
    /\ HeldInv /\ FreeInv /\ TopInv

-----------------------------------------------------------------------------
(* Steps that leave the tasks where they are, or make them ready *)

\* No task comes or goes, and the lists are still right.
Quiet(j, k0) ==
    /\ Good(j) /\ NoEvents(j) /\ Timed(j)
    /\ Placed(j) = Placed(k0)
    /\ j.termination = k0.termination
    /\ j.count = k0.count /\ j.cleanup = k0.cleanup
    /\ j.running = k0.running /\ j.base = j.priority
    /\ DOMAIN j.notify = Task /\ DOMAIN j.value = Task
    /\ Idle \in ReadyAt(j, 0)

\* Tasks are made ready that were waiting, or were ready.
LEMMA ReadiedPlaced ==
    ASSUME NEW k0, Good(k0), NEW j, NEW S, Readied(j, k0, S), S \subseteq Placed(k0),
           S \cap Elements(k0.termination) = {}
    PROVE  Placed(j) = Placed(k0) /\ j.termination = k0.termination
<1>1. j.termination = k0.termination
  BY DEF Readied
<1>2. S \subseteq Task
  <2>1. ASSUME NEW t \in Placed(k0) PROVE t \in Task
    <3>1. /\ \A p \in Priority : IsReadyList(k0.ready[p], Task)
          /\ IsList(k0.delayed, Task) /\ IsList(k0.overflow, Task)
          /\ IsList(k0.suspended, Task) /\ IsList(k0.termination, Task)
      BY DEF Good, Sound, Shape
    <3>2. QED
      BY <2>1, <3>1 DEF Placed, ReadyAt, Elements, IsReadyList, IsList
  <2>2. QED
    BY <2>1
<1>3. \A t \in S : k0.priority[t] \in Priority
  BY <1>2 DEF Good, Sound, Shape
<1>4. ASSUME NEW t PROVE t \in Placed(j) <=> t \in Placed(k0)
  <2>1. CASE t \in S
    <3>1. t \in ReadyAt(j, k0.priority[t])
      BY <1>3, <2>1 DEF Readied
    <3>2. QED
      BY <1>3, <2>1, <3>1, ReadyPlaced
  <2>2. CASE t \notin S
    <3>1. \A p \in Priority : t \in ReadyAt(j, p) <=> t \in ReadyAt(k0, p)
      BY <2>2 DEF Readied
    <3>2. t \in Late(j) <=> t \in Late(k0)
      BY <2>2 DEF Readied
    <3>3. t \in Elements(j.suspended) <=> t \in Elements(k0.suspended)
      BY <2>2 DEF Readied
    <3>4. QED
      BY <1>1, <3>1, <3>2, <3>3, PlacedIs
  <2>3. QED
    BY <2>1, <2>2
<1>5. QED
  BY <1>1, <1>4

\* The fields that a step leaves alone.
Settled == {"count", "cleanup", "running", "base", "priority"}

LEMMA ReadiedQuiet ==
    ASSUME KernelInv, NEW j, NEW S, Readied(j, k, S), Timed(j), NEW changed,
           Keeps(j, k, changed), changed \cap Settled = {},
           DOMAIN j.notify = Task, DOMAIN j.value = Task,
           S \subseteq Placed(k), S \cap Elements(k.termination) = {}
    PROVE  Quiet(j, k)
<1>1. Good(k) /\ NoEvents(k) /\ Idle \in ReadyAt(k, 0) /\ k.base = k.priority
  BY DEF KernelInv
<1>2. Placed(j) = Placed(k) /\ j.termination = k.termination
  BY <1>1, ReadiedPlaced
<1>3. Good(j) /\ j.priority = k.priority /\ NoEvents(j)
  BY <1>1 DEF Readied, NoEvents
<1>4. /\ j.count = k.count /\ j.cleanup = k.cleanup /\ j.running = k.running
      /\ j.base = k.base
  BY DEF Keeps, KernelFields, Settled
<1>5. Idle \in ReadyAt(j, 0)
  <2>1. k.priority[Idle] = 0
    BY <1>1, PrioritiesNumbers DEF Good, ByPriority
  <2>2. ReadyAt(j, 0) = (ReadyAt(k, 0) \ S) \cup {t \in S : k.priority[t] = 0}
    BY PrioritiesNumbers DEF Readied
  <2>3. QED
    BY <1>1, <2>1, <2>2
<1>6. QED
  BY <1>1, <1>2, <1>3, <1>4, <1>5 DEF Quiet

\* Only flags and numbers change.
LEMMA FlagsQuiet ==
    ASSUME KernelInv, NEW j, NEW changed, Keeps(j, k, changed),
           changed \subseteq Flags \ (Settled \cup {"current", "tick", "unblock"}),
           DOMAIN j.notify = Task, DOMAIN j.value = Task
    PROVE  Quiet(j, k) /\ Readied(j, k, {})
<1>1. Good(k) /\ Timed(k)
  BY DEF KernelInv
<1>2. Readied(j, k, {})
  BY <1>1, FlagsReadied
<1>3. j.current = k.current /\ j.tick = k.tick /\ j.unblock = k.unblock
  BY DEF Keeps, KernelFields
<1>4. QED
  BY <1>1, <1>2, <1>3, ReadiedQuiet DEF Timed

\* The current task, which is not the idle task, waits.
LEMMA WaitsQuiet ==
    ASSUME KernelInv, NEW j, Waits(j, k), Timed(j), NEW changed,
           Keeps(j, k, changed), changed \cap Settled = {},
           DOMAIN j.notify = Task, DOMAIN j.value = Task, CurrentIsReady(k),
           k.current # Idle
    PROVE  Quiet(j, k)
<1>1. Good(k) /\ NoEvents(k) /\ Idle \in ReadyAt(k, 0) /\ k.base = k.priority
  BY DEF KernelInv
<1>2. k.current \in Placed(k)
  <2>1. k.priority[k.current] \in Priority
    BY <1>1 DEF CurrentIsReady, Good, Sound, Shape
  <2>2. QED
    BY <2>1, ReadyPlaced DEF CurrentIsReady
<1>3. ASSUME NEW t PROVE t \in Placed(j) <=> t \in Placed(k)
  <2>1. \A p \in Priority : t \in ReadyAt(j, p)
                              <=> t \in ReadyAt(k, p) /\ t # k.current
    BY DEF Waits
  <2>2. t \in Late(j) \/ t \in Elements(j.suspended)
          <=> t \in Late(k) \/ t \in Elements(k.suspended) \/ t = k.current
    BY DEF Waits
  <2>3. Elements(j.termination) = Elements(k.termination)
    BY DEF Waits
  <2>4. QED
    BY <1>2, <2>1, <2>2, <2>3, PlacedIs
<1>4. /\ j.count = k.count /\ j.cleanup = k.cleanup /\ j.running = k.running
      /\ j.base = k.base
  BY DEF Keeps, KernelFields, Settled
<1>5. Idle \in ReadyAt(j, 0) /\ NoEvents(j) /\ j.priority = k.priority
  BY <1>1, PrioritiesNumbers DEF Waits, NoEvents
<1>6. QED
  BY <1>1, <1>3, <1>4, <1>5 DEF Quiet, Waits

-----------------------------------------------------------------------------
(* The parts of the invariant, step by step *)

Gone == {"none", "freed", "deleted"}

\* A task that takes a step while the scheduler is not suspended.
LEMMA Calling ==
    ASSUME SchedInv, NEW t \in Task, NEW w, At(t, w), w \notin Suspending
    PROVE  /\ k.current = t /\ ~k.pendsv /\ pc[t] = w
           /\ k.suspensions = 0 /\ k.pended = 0 /\ Elements(k.pending) = {}
           /\ \A u \in Task : pc[u] \notin Suspending
<1>1. k.current = t /\ ~k.pendsv /\ pc[t] = w
  BY DEF At
<1>2. k.suspensions # 1
  BY <1>1 DEF SchedInv, SuspensionInv
<1>3. k.suspensions = 0
  BY <1>2 DEF SchedInv, KernelInv
<1>4. QED
  BY <1>1, <1>2, <1>3 DEF SchedInv, SuspensionInv, PendingInv

\* Unless it has a switch to ask for, no ready task outranks it.
LEMMA CallingOnTop ==
    ASSUME SchedInv, NEW t \in Task, NEW w, At(t, w), w # "resume_all",
           ~BeforeYield(t)
    PROVE  OnTop(k) /\ CurrentIsReady(k)
BY DEF SchedInv, TopInv, At, OnTop

LEMMA PlacesGoes ==
    ASSUME PlacesInv, Quiet(k', k), NEW t \in Task, NEW w,
           \A u \in Task : pc'[u] = IF u = t THEN w ELSE pc[u],
           pc[t] \notin Gone, w \notin Gone, t = Idle => w \in {"run", "free"}
    PROVE  PlacesInv'
<1>1. \A u \in Task : pc'[u] = IF u = t THEN w ELSE pc[u]
  OBVIOUS
<1>2. \A u \in Task : Exists(u)' <=> Exists(u)
  BY <1>1 DEF Exists, Gone
<1>3. Existing' = Existing
  BY <1>2 DEF Existing
<1>4. {u \in Task : pc'[u] = "deleted"} = {u \in Task : pc[u] = "deleted"}
  BY <1>1 DEF Gone
<1>5. pc'[Idle] \in {"run", "free"}
  BY <1>1, TasksAssumption DEF PlacesInv
<1>6. QED
  BY <1>3, <1>4, <1>5 DEF PlacesInv, Quiet

LEMMA FreeGoes ==
    ASSUME FreeInv, NEW t \in Task, NEW w,
           \A u \in Task : pc'[u] = IF u = t THEN w ELSE pc[u],
           pc[t] # "freed", w # "free",
           \A u \in Task \ {t} : arg'[u] = arg[u]
    PROVE  FreeInv'
<1>1. \A u \in Task : pc'[u] = IF u = t THEN w ELSE pc[u]
  OBVIOUS
<1>2. ASSUME NEW u \in Task, pc'[u] = "free"
      PROVE  u # t /\ pc[u] = "free" /\ arg'[u] = arg[u]
  BY <1>1, <1>2
<1>3. ASSUME NEW u \in Task, pc'[u] = "free"
      PROVE  arg'[u] \in Task /\ pc'[arg'[u]] = "freed"
  <2>1. pc[u] = "free" /\ arg'[u] = arg[u]
    BY <1>2, <1>3
  <2>2. arg[u] \in Task /\ pc[arg[u]] = "freed"
    BY <2>1 DEF FreeInv
  <2>3. arg[u] # t
    BY <2>2
  <2>4. QED
    BY <1>1, <2>1, <2>2, <2>3
<1>4. ASSUME NEW u \in Task, NEW v \in Task, pc'[u] = "free", pc'[v] = "free",
             arg'[u] = arg'[v]
      PROVE  u = v
  <2>1. pc[u] = "free" /\ arg'[u] = arg[u] /\ pc[v] = "free" /\ arg'[v] = arg[v]
    BY <1>2, <1>4
  <2>2. QED
    BY <1>4, <2>1 DEF FreeInv
<1>5. QED
  BY <1>3, <1>4 DEF FreeInv

\* A step of a task outside the suspended scheduler that neither creates nor
\* deletes a task.
LEMMA CallStep ==
    ASSUME SchedInv, NEW t \in Task, NEW w, At(t, w),
           w \notin Suspending, w \notin Gone,
           NEW where \in {"run", "yield", "take", "wait", "suspend"},
           t = Idle => where = "run",
           pc' = [pc EXCEPT ![t] = where] \/ (pc' = pc /\ where = w),
           DOMAIN arg' = Task, \A u \in Task \ {t} : arg'[u] = arg[u],
           prev' = prev, calls' = calls,
           Quiet(k', k), k'.suspensions = 0, k'.pended = 0, Elements(k'.pending) = {},
           k'.current = t,
           OnTop(k') \/ k'.pendsv \/ where = "yield"
             \/ (where = "suspend" /\ arg'[t] = t),
           held' \subseteq Task, HeldInv'
    PROVE  SchedInv'
<1>1. /\ k.current = t /\ ~k.pendsv /\ pc[t] = w
      /\ k.suspensions = 0 /\ k.pended = 0 /\ Elements(k.pending) = {}
      /\ \A u \in Task : pc[u] \notin Suspending
  BY Calling
<1>2. DOMAIN pc = Task /\ k.running = TRUE
  BY DEF SchedInv, TypeInv, KernelInv
<1> where \notin Suspending /\ where \notin Gone /\ where \notin {"free", "created"}
  BY DEF Suspending, Gone
<1>3. DOMAIN pc' = Task /\ \A u \in Task : pc'[u] = IF u = t THEN where ELSE pc[u]
  BY <1>1, <1>2
<1>4. KernelInv'
  BY <1>2 DEF KernelInv, Quiet
<1>5. TypeInv'
  <2>1. ASSUME NEW u \in Task, pc'[u] \in {"delay", "delay_until"}
        PROVE  arg'[u] \in Nat
    BY <2>1, <1>1, <1>3 DEF Suspending
  <2>2. QED
    BY <1>3, <2>1 DEF SchedInv, TypeInv
<1>6. SuspensionInv'
  BY <1>1, <1>3 DEF SuspensionInv
<1>7. PlacesInv'
  BY <1>1, <1>3, PlacesGoes DEF SchedInv
<1>8. PendingInv'
  BY DEF PendingInv
<1>9. FreeInv'
  BY <1>1, <1>3, FreeGoes DEF SchedInv, Gone
<1>10. TopInv'
  <2>1. \A u \in Task : pc'[u] = "created" => arg'[u] \in Task
    BY <1>3 DEF SchedInv, TopInv
  <2>2. pc'[k'.current] = where
    BY <1>3
  <2>3. CASE OnTop(k')
    BY <2>1, <2>2, <2>3 DEF TopInv
  <2>4. CASE k'.pendsv
    BY <2>1, <2>2, <2>4 DEF TopInv
  <2>5. CASE where = "yield" \/ (where = "suspend" /\ arg'[t] = t)
    BY <2>1, <2>2, <2>5 DEF TopInv, BeforeYield
  <2>6. QED
    BY <2>3, <2>4, <2>5
<1>11. QED
  BY <1>4, <1>5, <1>6, <1>7, <1>8, <1>9, <1>10 DEF SchedInv

\* A step that leaves every task where it is: an interrupt, mostly.
LEMMA StayStep ==
    ASSUME SchedInv, pc' = pc, arg' = arg, prev' = prev, calls' = calls,
           Quiet(k', k), k'.suspensions = k.suspensions, k'.pended \in Nat,
           k.suspensions = 1 => k'.current = k.current,
           held' \subseteq Task, PendingInv', HeldInv', TopInv'
    PROVE  SchedInv'
<1>1. KernelInv'
  BY DEF KernelInv, Quiet, SchedInv
<1>2. TypeInv'
  BY DEF TypeInv, SchedInv
<1>3. SuspensionInv'
  BY DEF SuspensionInv, SchedInv, KernelInv
<1>4. PlacesInv'
  <2>1. Existing' = Existing
    BY DEF Existing, Exists
  <2>2. QED
    BY <2>1 DEF PlacesInv, SchedInv, Quiet
<1>5. FreeInv'
  BY DEF FreeInv, SchedInv
<1>6. QED
  BY <1>1, <1>2, <1>3, <1>4, <1>5 DEF SchedInv

\* Nobody is put away or taken back, and no one of those put away is touched.
LEMMA HeldKept ==
    ASSUME HeldInv, held' \subseteq held,
           \A t \in held' : t \in Elements(k.suspended) => t \in Elements(k'.suspended),
           \A t \in held' : k.notify[t] # "waiting" => k'.notify[t] # "waiting"
    PROVE  HeldInv'
BY DEF HeldInv

-----------------------------------------------------------------------------
(* The scheduler is suspended and resumed *)

\* A task suspends the scheduler.
LEMMA SuspendsStep ==
    ASSUME SchedInv, NEW t \in Task, NEW call, May(t, call), call \in Suspends,
           k' = vTaskSuspendAll(k),
           NEW where, where \in Suspending \ {"resume_all"},
           pc' = [pc EXCEPT ![t] = where],
           DOMAIN arg' = Task, \A u \in Task \ {t} : arg'[u] = arg[u],
           where \in {"delay", "delay_until"} => arg'[t] \in Nat,
           prev' = prev, calls' = calls, held' = held
    PROVE  SchedInv'
<1>1. At(t, "run") /\ t # Idle
  BY DEF May
<1>2. /\ k.current = t /\ ~k.pendsv /\ pc[t] = "run"
      /\ k.suspensions = 0 /\ k.pended = 0 /\ Elements(k.pending) = {}
      /\ \A u \in Task : pc[u] \notin Suspending
  BY <1>1, Calling DEF Suspending
<1>3. OnTop(k)
  BY <1>1, <1>2, CallingOnTop DEF BeforeYield
<1>4. /\ KernelInv /\ DOMAIN pc = Task /\ DOMAIN k = KernelFields
  BY DEF SchedInv, TypeInv, KernelInv, Good, Sound, Shape
<1>5. Keeps(k', k, {"suspensions"}) /\ k'.suspensions = 1
  BY <1>2, <1>4 DEF vTaskSuspendAll, Keeps, KernelFields
<1>6. /\ k'.current = t /\ k'.notify = k.notify /\ k'.value = k.value
      /\ k'.pended = 0 /\ k'.pending = k.pending /\ k'.suspended = k.suspended
      /\ k'.running = k.running
  BY <1>2, <1>5 DEF Keeps, KernelFields
<1>7. Quiet(k', k) /\ Readied(k', k, {})
  BY <1>4, <1>5, <1>6, FlagsQuiet DEF Flags, Settled, KernelInv
<1>8. \A u \in Task : pc'[u] = IF u = t THEN where ELSE pc[u]
  BY <1>4
<1>9. KernelInv'
  BY <1>4, <1>5, <1>6, <1>7 DEF KernelInv, Quiet
<1>10. TypeInv'
  <2>1. ASSUME NEW u \in Task, pc'[u] \in {"delay", "delay_until"}
        PROVE  arg'[u] \in Nat
    BY <2>1, <1>2, <1>8 DEF Suspending
  <2>2. QED
    BY <1>4, <2>1 DEF SchedInv, TypeInv
<1>11. SuspensionInv'
  <2>1. calls \cap Suspends # {}
    BY DEF May
  <2>2. QED
    BY <1>2, <1>5, <1>6, <1>8, <2>1 DEF SuspensionInv
<1>12. PlacesInv'
  BY <1>1, <1>2, <1>7, <1>8, PlacesGoes DEF SchedInv, Gone, Suspending
<1>13. PendingInv'
  BY <1>2, <1>5, <1>6 DEF PendingInv
<1>14. HeldInv'
  BY <1>6, HeldKept DEF SchedInv
<1>15. FreeInv'
  BY <1>2, <1>8, FreeGoes DEF SchedInv, Suspending
<1>16. TopInv'
  <2>1. \A u \in Task : pc'[u] = "created" => arg'[u] \in Task
    BY <1>2, <1>8 DEF SchedInv, TopInv, Suspending
  <2>2. OnTop(k')
    <3>1. k'.top = k.top /\ k'.priority = k.priority /\ k'.ready = k.ready
      BY <1>5 DEF Keeps, KernelFields
    <3>2. QED
      BY <1>2, <1>3, <1>6, <3>1 DEF OnTop, CurrentIsReady, ReadyAt
  <2>3. pc'[k'.current] # "created"
    BY <1>6, <1>8 DEF Suspending
  <2>4. QED
    BY <2>1, <2>2, <2>3 DEF TopInv
<1>17. QED
  BY <1>9, <1>10, <1>11, <1>12, <1>13, <1>14, <1>15, <1>16 DEF SchedInv

\* It goes on with the scheduler suspended.
LEMMA InsideStep ==
    ASSUME SchedInv, NEW t \in Task, NEW w, At(t, w), w \in Suspending,
           NEW where, where \in {"resume_all", "suspended_all"},
           pc' = [pc EXCEPT ![t] = where],
           arg' = arg, prev' \in [Task -> Int], calls' = calls, held' = held,
           Quiet(k', k), k'.suspensions = k.suspensions, k'.pended \in Nat,
           k'.current = k.current, k'.pending = k.pending, k'.notify = k.notify,
           Elements(k.suspended) \subseteq Elements(k'.suspended),
           where = "resume_all" \/ OnTop(k')
    PROVE  SchedInv'
<1>1. k.current = t /\ ~k.pendsv /\ pc[t] = w /\ k.suspensions = 1
  BY DEF At, SchedInv, SuspensionInv
<1>2. /\ KernelInv /\ DOMAIN pc = Task
  BY DEF SchedInv, TypeInv
<1>3. \A u \in Task : pc'[u] = IF u = t THEN where ELSE pc[u]
  BY <1>2
<1>4. KernelInv'
  BY <1>1, <1>2 DEF KernelInv, Quiet
<1>5. TypeInv'
  BY <1>2, <1>3 DEF SchedInv, TypeInv
<1>6. SuspensionInv'
  BY <1>1, <1>3 DEF SuspensionInv, SchedInv, Suspending
<1>7. t # Idle
  BY <1>1 DEF SchedInv, PlacesInv, Suspending
<1>8. PlacesInv'
  BY <1>1, <1>3, <1>7, PlacesGoes DEF SchedInv, Gone, Suspending
<1>9. PendingInv'
  <2>1. ASSUME NEW u \in Elements(k'.pending)
        PROVE  /\ Exists(u)' /\ pc'[u] # "deleted" /\ u \notin held'
               /\ k'.notify[u] = "waiting" => "notify_isr" \notin calls'
    <3>1. /\ Exists(u) /\ pc[u] # "deleted" /\ u \notin held
          /\ k.notify[u] = "waiting" => "notify_isr" \notin calls
      BY <2>1 DEF SchedInv, PendingInv
    <3>2. u \in Task
      <4>1. IsList(k'.pending, Task)
        BY DEF Quiet, Good, Sound, Shape
      <4>2. QED
        BY <2>1, <4>1 DEF IsList, Elements
    <3>3. QED
      BY <1>3, <3>1, <3>2 DEF Exists
  <2>2. QED
    BY <1>1, <2>1 DEF PendingInv
<1>10. HeldInv'
  BY HeldKept DEF SchedInv
<1>11. FreeInv'
  BY <1>1, <1>3, FreeGoes DEF SchedInv, Suspending
<1>12. TopInv'
  <2>1. \A u \in Task : pc'[u] = "created" => arg'[u] \in Task
    BY <1>3 DEF SchedInv, TopInv
  <2>2. pc'[k'.current] = where
    BY <1>1, <1>3
  <2>3. QED
    BY <2>1, <2>2 DEF TopInv
<1>13. QED
  BY <1>4, <1>5, <1>6, <1>8, <1>9, <1>10, <1>11, <1>12 DEF SchedInv

\* It resumes the scheduler.
LEMMA ResumesStep ==
    ASSUME SchedInv, NEW t \in Task, NEW w, At(t, w),
           w \in {"resume_all", "suspended_all"}, k' = xTaskResumeAll(k),
           NEW where, where \in {"run", "yield"},
           pc' = [pc EXCEPT ![t] = where],
           w = "suspended_all" \/ where = "yield" \/ AlreadyYielded(k'),
           DOMAIN arg' = Task, \A u \in Task \ {t} : arg'[u] = arg[u],
           prev' = prev, calls' = calls, held' = held
    PROVE  SchedInv'
<1>1. k.current = t /\ ~k.pendsv /\ pc[t] = w /\ k.suspensions = 1
  BY DEF At, SchedInv, SuspensionInv, Suspending
<1>2. /\ KernelInv /\ DOMAIN pc = Task /\ k.running = TRUE
      /\ Good(k) /\ Timed(k) /\ k.pended \in Nat
  BY DEF SchedInv, TypeInv, KernelInv
<1>3. t # Idle
  BY <1>1 DEF SchedInv, PlacesInv, Suspending
<1>4. /\ Keeps(k', k, ResumeFields)
      /\ k'.suspensions = 0 /\ k'.pended = 0 /\ Timed(k')
      /\ k'.yield => k'.pendsv
      /\ ~k'.yield => k'.pendsv = k.pendsv
      /\ k.yield => k'.yield
      /\ \E S \in SUBSET (Late(k) \cup Elements(k.pending)) :
           /\ Elements(k.pending) \subseteq S
           /\ Readied(k', k, S)
           /\ (\E u \in S : k.priority[u] > k.priority[k.current]) => k'.yield
  BY <1>1, <1>2, ResumeAllIs
<1>5. PICK S \in SUBSET (Late(k) \cup Elements(k.pending)) :
           /\ Elements(k.pending) \subseteq S
           /\ Readied(k', k, S)
           /\ (\E u \in S : k.priority[u] > k.priority[k.current]) => k'.yield
  BY <1>4
<1>6. k'.current = t /\ k'.notify = k.notify /\ k'.value = k.value
  BY <1>1, <1>4 DEF Keeps, KernelFields, ResumeFields, TickFields, WakeFields, StateLists
<1>7. \A u \in Elements(k.pending) :
           u \in Placed(k) /\ u \notin Elements(k.termination) /\ u \notin held
  <2>1. Elements(k.pending) \subseteq Task
    BY <1>2 DEF Good, Sound, Shape, IsList, Elements
  <2>2. QED
    BY <2>1 DEF SchedInv, PendingInv, PlacesInv, Existing
<1>8. \A u \in Late(k) :
           u \in Placed(k) /\ u \notin Elements(k.termination) /\ u \notin held
  <2>1. ASSUME NEW u \in Late(k) PROVE u \in Placed(k)
    BY PlacedIs
  <2>2. ASSUME NEW u \in Late(k)
        PROVE  u \notin Elements(k.termination) /\ u \notin Elements(k.suspended)
    BY <1>2 DEF Late, Good, Sound, Apart
  <2>3. QED
    BY <2>1, <2>2 DEF SchedInv, HeldInv
<1>9. S \subseteq Placed(k) /\ S \cap Elements(k.termination) = {} /\ S \cap held = {}
  BY <1>5, <1>7, <1>8
<1>10. Quiet(k', k)
  <2>1. ResumeFields \cap Settled = {}
    BY DEF ResumeFields, TickFields, WakeFields, StateLists, Settled
  <2>2. QED
    BY <1>2, <1>4, <1>5, <1>6, <1>9, <2>1, ReadiedQuiet DEF KernelInv
<1>11. \A u \in Task : pc'[u] = IF u = t THEN where ELSE pc[u]
  BY <1>2
<1>12. KernelInv'
  BY <1>2, <1>4, <1>10 DEF KernelInv, Quiet
<1>13. \A u \in Task \ {t} : pc[u] \notin Suspending
  BY <1>1 DEF SchedInv, SuspensionInv
<1>14. TypeInv'
  <2>1. ASSUME NEW u \in Task, pc'[u] \in {"delay", "delay_until"}
        PROVE  arg'[u] \in Nat
    BY <2>1, <1>11, <1>13 DEF Suspending
  <2>2. QED
    BY <1>2, <2>1 DEF SchedInv, TypeInv
<1>15. SuspensionInv'
  BY <1>4, <1>11, <1>13 DEF SuspensionInv, Suspending
<1>16. PlacesInv'
  BY <1>1, <1>3, <1>10, <1>11, PlacesGoes DEF SchedInv, Gone
<1>17. PendingInv'
  <2>1. Elements(k'.pending) = {}
    BY <1>5 DEF Readied
  <2>2. QED
    BY <1>4, <2>1 DEF PendingInv
<1>18. HeldInv'
  <2>1. \A u \in held : u \in Elements(k.suspended) => u \in Elements(k'.suspended)
    BY <1>5, <1>9 DEF Readied
  <2>2. QED
    BY <1>6, <2>1, HeldKept DEF SchedInv
<1>19. FreeInv'
  BY <1>1, <1>11, FreeGoes DEF SchedInv
<1>20. TopInv'
  <2>1. \A u \in Task : pc'[u] = "created" => arg'[u] \in Task
    BY <1>11 DEF SchedInv, TopInv
  <2>2. pc'[k'.current] = where /\ where # "created"
    BY <1>6, <1>11
  <2>3. CASE where = "yield" \/ k'.yield
    BY <1>4, <2>1, <2>2, <2>3 DEF TopInv, BeforeYield
  <2>4. CASE where # "yield" /\ ~k'.yield
    <3>1. w = "suspended_all"
      BY <2>4 DEF AlreadyYielded
    <3>2. OnTop(k)
      BY <1>1, <3>1, CallingOnTop DEF BeforeYield
    <3>3. ASSUME NEW u \in S
          PROVE u \in Task /\ ~(k.priority[u] > k.priority[k.current])
      <4>1. u \in Existing
        BY <1>9, <3>3 DEF SchedInv, PlacesInv
      <4>2. QED
        BY <1>5, <2>4, <3>3, <4>1 DEF Existing
    <3>4. OnTop(k')
      BY <1>1, <1>2, <1>5, <1>6, <3>2, <3>3, OnTopStays
    <3>5. QED
      BY <2>1, <2>2, <3>4 DEF TopInv
  <2>5. QED
    BY <2>3, <2>4
<1>21. QED
  BY <1>12, <1>14, <1>15, <1>16, <1>17, <1>18, <1>19, <1>20 DEF SchedInv

-----------------------------------------------------------------------------
(* Every action keeps the invariant: those of a task, in turn *)

LEMMA YieldKeeps ==
    ASSUME SchedInv, NEW t \in Task, Yield(t)
    PROVE  SchedInv'
<1>1. /\ At(t, "yield") /\ k' = portYIELD(k) /\ pc' = [pc EXCEPT ![t] = "run"]
      /\ arg' = arg /\ prev' = prev /\ calls' = calls /\ held' = held
  BY DEF Yield, Goes
<1>2. /\ k.current = t /\ pc[t] = "yield" /\ k.suspensions = 0 /\ k.pended = 0
      /\ Elements(k.pending) = {}
  BY <1>1, Calling DEF Suspending
<1>3. KernelInv /\ DOMAIN k = KernelFields /\ DOMAIN arg = Task /\ held \subseteq Task
  BY DEF SchedInv, KernelInv, TypeInv, Good, Sound, Shape
<1>4. Keeps(k', k, {"pendsv"}) /\ k'.pendsv = TRUE
  BY <1>1, <1>3 DEF portYIELD, Keeps, KernelFields
<1>5. /\ k'.current = t /\ k'.notify = k.notify /\ k'.value = k.value
      /\ k'.pended = 0 /\ k'.pending = k.pending /\ k'.suspended = k.suspended
      /\ k'.suspensions = 0
  BY <1>2, <1>4 DEF Keeps, KernelFields
<1>6. Quiet(k', k)
  BY <1>3, <1>4, <1>5, FlagsQuiet DEF Flags, Settled, KernelInv
<1>7. HeldInv'
  BY <1>1, <1>5, HeldKept DEF SchedInv
<1>8. QED
  BY <1>1, <1>2, <1>3, <1>4, <1>5, <1>6, <1>7, CallStep DEF Suspending, Gone

LEMMA DelayKeeps ==
    ASSUME SchedInv, NEW t \in Task, Delay(t)
    PROVE  SchedInv'
<1>1. May(t, "delay") /\ prev' = prev /\ calls' = calls /\ held' = held
  BY DEF Delay
<1>2. DOMAIN arg = Task /\ DOMAIN pc = Task /\ Good(k) /\ Timed(k) /\ held \subseteq Task
  BY DEF SchedInv, TypeInv, KernelInv
<1>3. PICK n \in Delays :
         \/ n = 0 /\ Goes(t, "yield") /\ k' = k /\ arg' = arg
         \/ /\ n > 0 /\ k' = vTaskSuspendAll(k)
            /\ arg' = [arg EXCEPT ![t] = n] /\ Goes(t, "delay")
  BY DEF Delay
<1>4. CASE n = 0 /\ Goes(t, "yield") /\ k' = k /\ arg' = arg
  <2>1. At(t, "run") /\ t # Idle
    BY <1>1 DEF May
  <2>2. /\ k.current = t /\ pc[t] = "run" /\ k.suspensions = 0 /\ k.pended = 0
        /\ Elements(k.pending) = {}
    BY <2>1, Calling DEF Suspending
  <2>3. Quiet(k, k)
    BY DEF Quiet, SchedInv, KernelInv
  <2>4. HeldInv'
    BY <1>1, <1>4, HeldKept DEF SchedInv
  <2>5. /\ Quiet(k', k) /\ k'.suspensions = 0 /\ k'.pended = 0 /\ Elements(k'.pending) = {}
        /\ k'.current = t /\ DOMAIN arg' = Task /\ \A u \in Task \ {t} : arg'[u] = arg[u]
        /\ pc' = [pc EXCEPT ![t] = "yield"]
    BY <1>2, <1>4, <2>2, <2>3 DEF Goes
  <2>6. QED
    BY <1>1, <1>2, <2>1, <2>2, <2>4, <2>5, CallStep DEF Suspending, Gone
<1>5. CASE n > 0 /\ k' = vTaskSuspendAll(k) /\ arg' = [arg EXCEPT ![t] = n] /\ Goes(t, "delay")
  <2>1. arg'[t] \in Nat /\ DOMAIN arg' = Task /\ \A u \in Task \ {t} : arg'[u] = arg[u]
    BY <1>2, <1>5, ValuesAssumption DEF Tick
  <2>2. QED
    BY <1>1, <1>5, <2>1, SuspendsStep DEF Suspends, Suspending, Goes
<1>6. QED
  BY <1>3, <1>4, <1>5

LEMMA DelayUntilKeeps ==
    ASSUME SchedInv, NEW t \in Task, DelayUntil(t)
    PROVE  SchedInv'
<1>1. /\ May(t, "delay_until") /\ prev' = prev /\ calls' = calls /\ held' = held
      /\ k' = vTaskSuspendAll(k) /\ pc' = [pc EXCEPT ![t] = "delay_until"]
  BY DEF DelayUntil, Goes
<1>2. PICK n \in Delays : arg' = [arg EXCEPT ![t] = n]
  BY DEF DelayUntil
<1>3. DOMAIN arg = Task
  BY DEF SchedInv, TypeInv
<1>4. arg'[t] \in Nat /\ DOMAIN arg' = Task /\ \A u \in Task \ {t} : arg'[u] = arg[u]
  BY <1>2, <1>3, ValuesAssumption DEF Tick
<1>5. QED
  BY <1>1, <1>4, SuspendsStep DEF Suspends, Suspending

LEMMA SuspendAllKeeps ==
    ASSUME SchedInv, NEW t \in Task, SuspendAll(t) \/ CatchUpTicks(t)
    PROVE  SchedInv'
<1>1. DOMAIN arg = Task
  BY DEF SchedInv, TypeInv
<1>2. CASE SuspendAll(t)
  BY <1>1, <1>2, SuspendsStep DEF SuspendAll, Suspends, Suspending, Goes
<1>3. CASE CatchUpTicks(t)
  BY <1>1, <1>3, SuspendsStep DEF CatchUpTicks, Suspends, Suspending, Goes
<1>4. QED
  BY <1>2, <1>3

\* The wait of vTaskDelay and xTaskDelayUntil.
LEMMA AddStep ==
    ASSUME SchedInv, NEW t \in Task, NEW w \in {"delay", "delay_until"}, At(t, w),
           NEW ticks \in Int,
           k' = prvAddCurrentTaskToDelayedList(k, ticks, FALSE) \/ k' = k,
           pc' = [pc EXCEPT ![t] = "resume_all"],
           arg' = arg, prev' \in [Task -> Int], calls' = calls, held' = held
    PROVE  SchedInv'
<1>1. /\ KernelInv /\ Good(k) /\ Timed(k) /\ DOMAIN k.notify = Task /\ DOMAIN k.value = Task
      /\ k.pended \in Nat
  BY DEF SchedInv, KernelInv
<1>2. k.current = t /\ pc[t] = w
  BY DEF At
<1>3. CurrentIsReady(k)
  BY <1>2, CallingOnTop DEF BeforeYield
<1>4. t # Idle
  BY <1>2 DEF SchedInv, PlacesInv
<1>5. CASE k' = k
  <2>1. Quiet(k, k)
    BY DEF Quiet, SchedInv, KernelInv
  <2>2. QED
    BY <1>1, <1>5, <2>1, InsideStep DEF Suspending
<1>6. CASE k' = prvAddCurrentTaskToDelayedList(k, ticks, FALSE)
  <2>1. Keeps(k', k, DelayFields) /\ Waits(k', k) /\ Timed(k')
    BY <1>1, <1>3, <1>6, DelayWaits
  <2>2. /\ k'.notify = k.notify /\ k'.value = k.value /\ k'.suspensions = k.suspensions
        /\ k'.pended = k.pended /\ k'.current = k.current
    BY <2>1 DEF Keeps, KernelFields, DelayFields, StateLists
  <2>3. Quiet(k', k)
    <3>1. DelayFields \cap Settled = {}
      BY DEF DelayFields, StateLists, Settled
    <3>2. QED
      BY <1>1, <1>2, <1>3, <1>4, <2>1, <2>2, <3>1, WaitsQuiet
  <2>4. k'.pending = k.pending /\ Elements(k.suspended) \subseteq Elements(k'.suspended)
    BY <2>1 DEF Waits
  <2>5. QED
    BY <1>1, <2>2, <2>3, <2>4, InsideStep DEF Suspending
<1>7. QED
  BY <1>5, <1>6

LEMMA DelayAddKeeps ==
    ASSUME SchedInv, NEW t \in Task, DelayAdd(t)
    PROVE  SchedInv'
<1>1. /\ At(t, "delay") /\ k' = prvAddCurrentTaskToDelayedList(k, arg[t], FALSE)
      /\ pc' = [pc EXCEPT ![t] = "resume_all"] /\ arg' = arg /\ prev' = prev
      /\ calls' = calls /\ held' = held
  BY DEF DelayAdd, Goes
<1>2. arg[t] \in Int /\ prev \in [Task -> Int]
  BY <1>1 DEF At, SchedInv, TypeInv
<1>3. QED
  BY <1>1, <1>2, AddStep

LEMMA DelayUntilAddKeeps ==
    ASSUME SchedInv, NEW t \in Task, DelayUntilAdd(t)
    PROVE  SchedInv'
<1> DEFINE wake == (prev[t] + arg[t]) % TickMod
           ticks == (wake - k.tick) % TickMod
<1>1. /\ At(t, "delay_until") /\ prev' = [prev EXCEPT ![t] = wake]
      /\ k' = prvAddCurrentTaskToDelayedList(k, ticks, FALSE) \/ k' = k
      /\ pc' = [pc EXCEPT ![t] = "resume_all"] /\ arg' = arg
      /\ calls' = calls /\ held' = held
  BY DEF DelayUntilAdd, Goes
<1>2. arg[t] \in Int /\ prev \in [Task -> Int] /\ k.tick \in Int
  BY <1>1 DEF At, SchedInv, TypeInv, KernelInv, Timed
<1>3. wake \in Int /\ ticks \in Int
  BY <1>2, TickAssumption
<1> HIDE DEF wake, ticks
<1>4. prev' \in [Task -> Int]
  BY <1>1, <1>2, <1>3
<1>5. QED
  BY <1>1, <1>3, <1>4, AddStep

LEMMA ResumeAllKeeps ==
    ASSUME SchedInv, NEW t \in Task, ResumeAllAndYield(t) \/ ResumeAll(t)
    PROVE  SchedInv'
<1>1. DOMAIN arg = Task
  BY DEF SchedInv, TypeInv
<1>2. CASE ResumeAllAndYield(t)
  <2> DEFINE where == IF AlreadyYielded(k') THEN "run" ELSE "yield"
  <2>1. /\ At(t, "resume_all") /\ k' = xTaskResumeAll(k)
        /\ pc' = [pc EXCEPT ![t] = where] /\ arg' = [arg EXCEPT ![t] = 0]
        /\ prev' = prev /\ calls' = calls /\ held' = held
    BY <1>2 DEF ResumeAllAndYield, Goes, Returned
  <2>2. where \in {"run", "yield"} /\ (where = "yield" \/ AlreadyYielded(k'))
    OBVIOUS
  <2>3. DOMAIN arg' = Task /\ \A u \in Task \ {t} : arg'[u] = arg[u]
    BY <1>1, <2>1
  <2> HIDE DEF where
  <2>4. QED
    BY <2>1, <2>2, <2>3, ResumesStep
<1>3. CASE ResumeAll(t)
  BY <1>1, <1>3, ResumesStep DEF ResumeAll, Goes
<1>4. QED
  BY <1>2, <1>3

LEMMA CatchUpTicksPendKeeps ==
    ASSUME SchedInv, NEW t \in Task, NEW n \in Delays, CatchUpTicksPend(t, n)
    PROVE  SchedInv'
<1>1. /\ At(t, "catch_up") /\ k' = PendTicks(k, n)
      /\ pc' = [pc EXCEPT ![t] = "suspended_all"]
      /\ arg' = arg /\ prev' = prev /\ calls' = calls /\ held' = held
  BY DEF CatchUpTicksPend, Goes
<1>2. /\ KernelInv /\ DOMAIN k = KernelFields /\ k.pended \in Nat /\ n \in Nat
      /\ Good(k) /\ DOMAIN k.notify = Task /\ DOMAIN k.value = Task
      /\ prev \in [Task -> Int]
  BY ValuesAssumption DEF SchedInv, KernelInv, Good, Sound, Shape, Tick, TypeInv
<1>3. Keeps(k', k, {"pended"}) /\ k'.pended = k.pended + n
  BY <1>1, <1>2 DEF PendTicks, Keeps, KernelFields
<1>4. /\ k'.current = k.current /\ k'.notify = k.notify /\ k'.value = k.value
      /\ k'.pending = k.pending /\ k'.suspended = k.suspended
      /\ k'.suspensions = k.suspensions
      /\ k'.top = k.top /\ k'.priority = k.priority /\ k'.ready = k.ready
  BY <1>3 DEF Keeps, KernelFields
<1>5. Quiet(k', k)
  BY <1>2, <1>3, <1>4, FlagsQuiet DEF Flags, Settled
<1>6. OnTop(k)
  BY <1>1, CallingOnTop DEF BeforeYield, At
<1>7. OnTop(k')
  BY <1>4, <1>6 DEF OnTop, CurrentIsReady, ReadyAt
<1>8. k'.pended \in Nat
  BY <1>2, <1>3
<1>9. QED
  BY <1>1, <1>2, <1>4, <1>5, <1>7, <1>8, InsideStep DEF Suspending

-----------------------------------------------------------------------------
(* Notifications *)

\* What is known of a task that may be named in a call.
LEMMA OthersAre ==
    ASSUME SchedInv, NEW u \in Others
    PROVE  /\ u \in Task /\ u # Idle /\ pc[u] \notin Gone
           /\ u \in Placed(k) /\ u \notin Elements(k.termination)
<1>1. u \in Task /\ u # Idle /\ pc[u] \notin Gone
  BY DEF Others, Gone
<1>2. QED
  BY <1>1 DEF SchedInv, PlacesInv, Existing, Exists, Gone

\* A task that is ready is not one of those put away.
LEMMA ReadyNotHeld ==
    ASSUME SchedInv, CurrentIsReady(k)
    PROVE  k.current \notin held
<1>1. Good(k) /\ k.priority[k.current] \in Priority
  BY DEF SchedInv, KernelInv, CurrentIsReady, Good, Sound, Shape
<1>2. ReadyAt(k, k.priority[k.current]) \cap Elements(k.suspended) = {}
  BY <1>1 DEF Good, Sound, Apart
<1>3. QED
  BY <1>2 DEF CurrentIsReady, SchedInv, HeldInv

\* Only notifications change, those of the current task.
LEMMA GoesOnFacts ==
    ASSUME SchedInv, NEW j, GoesOn(j, k)
    PROVE  /\ Quiet(j, k) /\ Readied(j, k, {})
           /\ j.current = k.current /\ j.suspensions = k.suspensions
           /\ j.pended = k.pended /\ j.pending = k.pending /\ j.pendsv = k.pendsv
           /\ j.suspended = k.suspended
           /\ OnTop(k) => OnTop(j)
<1>1. KernelInv /\ Good(k)
  BY DEF SchedInv, KernelInv
<1>2. /\ Keeps(j, k, NotifyFields)
      /\ DOMAIN j.notify = Task /\ DOMAIN j.value = Task
  BY DEF GoesOn
<1>3. Quiet(j, k) /\ Readied(j, k, {})
  BY <1>1, <1>2, FlagsQuiet DEF NotifyFields, Flags, Settled
<1>4. /\ j.current = k.current /\ j.suspensions = k.suspensions
      /\ j.pended = k.pended /\ j.pending = k.pending /\ j.pendsv = k.pendsv
      /\ j.suspended = k.suspended
  BY <1>2 DEF Keeps, KernelFields, NotifyFields
<1>5. OnTop(k) => OnTop(j)
  BY <1>1, <1>3, <1>4, OnTopStays
<1>6. QED
  BY <1>3, <1>4, <1>5

\* A task calls to wait for a notification.
LEMMA EnterStep ==
    ASSUME SchedInv, NEW t \in Task, NEW call, May(t, call), NEW n \in Nat,
           GoesOn(k', k) \/ Blocks(k', k, n),
           NEW where, where \in {"take", "wait"},
           pc' = [pc EXCEPT ![t] = where], arg' = [arg EXCEPT ![t] = n],
           prev' = prev, calls' = calls, held' = held
    PROVE  SchedInv'
<1>1. At(t, "run") /\ t # Idle
  BY DEF May
<1>2. /\ k.current = t /\ pc[t] = "run" /\ k.suspensions = 0 /\ k.pended = 0
      /\ Elements(k.pending) = {}
  BY <1>1, Calling DEF Suspending
<1>3. OnTop(k) /\ CurrentIsReady(k)
  BY <1>1, <1>2, CallingOnTop DEF BeforeYield
<1>4. t \notin held
  BY <1>2, <1>3, ReadyNotHeld
<1>5. KernelInv /\ DOMAIN arg = Task /\ held \subseteq Task /\ DOMAIN k.notify = Task
  BY DEF SchedInv, TypeInv, KernelInv
<1>6. DOMAIN arg' = Task /\ \A u \in Task \ {t} : arg'[u] = arg[u]
  BY <1>5
<1>7. CASE GoesOn(k', k)
  <2>1. /\ Quiet(k', k) /\ Readied(k', k, {})
        /\ k'.current = k.current /\ k'.suspensions = k.suspensions
        /\ k'.pended = k.pended /\ k'.pending = k.pending /\ k'.pendsv = k.pendsv
        /\ k'.suspended = k.suspended
        /\ OnTop(k) => OnTop(k')
    BY <1>7, GoesOnFacts
  <2>2. \A u \in held : k'.notify[u] = k.notify[u]
    BY <1>2, <1>4, <1>5, <1>7 DEF GoesOn
  <2>3. HeldInv'
    BY <2>1, <2>2, HeldKept DEF SchedInv
  <2>4. QED
    BY <1>1, <1>2, <1>3, <1>5, <1>6, <2>1, <2>3, CallStep DEF Suspending, Gone
<1>8. CASE Blocks(k', k, n)
  <2>1. /\ Keeps(k', k, BlockFields \cup {"value"})
        /\ Waits(k', k) /\ Timed(k') /\ k'.pendsv = TRUE
        /\ k'.notify = [k.notify EXCEPT ![t] = "waiting"]
        /\ DOMAIN k'.value = Task
    BY <1>2, <1>8 DEF Blocks
  <2>2. (BlockFields \cup {"value"}) \cap Settled = {}
    BY DEF BlockFields, DelayFields, StateLists, Settled
  <2>3. Quiet(k', k)
    BY <1>1, <1>2, <1>3, <1>5, <2>1, <2>2, WaitsQuiet
  <2>4. /\ k'.current = k.current /\ k'.suspensions = k.suspensions
        /\ k'.pended = k.pended
    BY <2>1 DEF Keeps, KernelFields, BlockFields, DelayFields, StateLists
  <2>5. k'.pending = k.pending /\ Elements(k.suspended) \subseteq Elements(k'.suspended)
    BY <2>1 DEF Waits
  <2>6. \A u \in held : k'.notify[u] = k.notify[u]
    BY <1>4, <1>5, <2>1
  <2>7. HeldInv'
    BY <2>5, <2>6, HeldKept DEF SchedInv
  <2>8. QED
    BY <1>1, <1>2, <1>3, <1>5, <1>6, <2>1, <2>3, <2>4, <2>5, <2>7, CallStep, ZenonT(30)
       DEF Suspending, Gone
<1>9. QED
  BY <1>7, <1>8

LEMMA DelaysNumbers == \A n \in Delays \cup {portMAX_DELAY} : n \in Nat
BY ValuesAssumption, TickAssumption DEF Tick, portMAX_DELAY

LEMMA NotifyTakeKeeps ==
    ASSUME SchedInv, NEW t \in Task, NotifyTake(t)
    PROVE  SchedInv'
<1>1. /\ May(t, "take") /\ pc' = [pc EXCEPT ![t] = "take"]
      /\ prev' = prev /\ calls' = calls /\ held' = held
  BY DEF NotifyTake, Goes
<1>2. PICK n \in Delays \cup {portMAX_DELAY} :
         k' = NotifyTakeEnter(k, n) /\ arg' = [arg EXCEPT ![t] = n]
  BY DEF NotifyTake
<1>3. n \in Nat
  BY DelaysNumbers
<1>4. CurrentIsReady(k)
  BY <1>1, CallingOnTop DEF May, BeforeYield, At
<1>5. Good(k) /\ Timed(k) /\ DOMAIN k.notify = Task /\ DOMAIN k.value = Task
  BY DEF SchedInv, KernelInv
<1>6. GoesOn(k', k) \/ Blocks(k', k, n)
  BY <1>2, <1>3, <1>4, <1>5, TakeEnterIs
<1>7. QED
  BY <1>1, <1>2, <1>3, <1>6, EnterStep

LEMMA NotifyWaitKeeps ==
    ASSUME SchedInv, NEW t \in Task, NotifyWait(t)
    PROVE  SchedInv'
<1>1. /\ May(t, "wait") /\ pc' = [pc EXCEPT ![t] = "wait"]
      /\ prev' = prev /\ calls' = calls /\ held' = held
  BY DEF NotifyWait, Goes
<1>2. PICK n \in Delays \cup {portMAX_DELAY} :
         k' = NotifyWaitEnter(k, 0, n) /\ arg' = [arg EXCEPT ![t] = n]
  BY DEF NotifyWait
<1>3. n \in Nat
  BY DelaysNumbers
<1>4. CurrentIsReady(k)
  BY <1>1, CallingOnTop DEF May, BeforeYield, At
<1>5. Good(k) /\ Timed(k) /\ DOMAIN k.notify = Task /\ DOMAIN k.value = Task
  BY DEF SchedInv, KernelInv
<1>6. GoesOn(k', k) \/ Blocks(k', k, n)
  BY <1>2, <1>3, <1>4, <1>5, WaitEnterIs
<1>7. QED
  BY <1>1, <1>2, <1>3, <1>6, EnterStep

\* It returns with the notification, or without.
LEMMA NotifyReturnKeeps ==
    ASSUME SchedInv, NEW t \in Task, NotifyTakeReturn(t) \/ NotifyWaitReturn(t)
    PROVE  SchedInv'
<1>1. PICK w \in {"take", "wait"} : At(t, w)
  BY DEF NotifyTakeReturn, NotifyWaitReturn
<1>2. /\ pc' = [pc EXCEPT ![t] = "run"] /\ arg' = [arg EXCEPT ![t] = 0]
      /\ prev' = prev /\ calls' = calls /\ held' = held
  BY DEF NotifyTakeReturn, NotifyWaitReturn, Goes, Returned
<1>3. /\ k.current = t /\ pc[t] = w /\ k.suspensions = 0 /\ k.pended = 0
      /\ Elements(k.pending) = {}
  BY <1>1, Calling DEF Suspending
<1>4. OnTop(k)
  BY <1>1, <1>3, CallingOnTop DEF BeforeYield
<1>5. /\ Good(k) /\ k.current \in Task /\ DOMAIN k.notify = Task /\ DOMAIN k.value = Task
      /\ DOMAIN arg = Task /\ held \subseteq Task
  BY <1>3 DEF SchedInv, KernelInv, TypeInv
<1>6. GoesOn(k', k) /\ k'.notify = [k.notify EXCEPT ![k.current] = "not_waiting"]
  BY <1>5, ExitGoesOn DEF NotifyTakeReturn, NotifyWaitReturn
<1>7. /\ Quiet(k', k) /\ Readied(k', k, {})
      /\ k'.current = k.current /\ k'.suspensions = k.suspensions
      /\ k'.pended = k.pended /\ k'.pending = k.pending /\ k'.pendsv = k.pendsv
      /\ k'.suspended = k.suspended
      /\ OnTop(k) => OnTop(k')
  BY <1>6, GoesOnFacts
<1>8. HeldInv'
  <2>1. \A u \in held : k.notify[u] # "waiting" => k'.notify[u] # "waiting"
    BY <1>5, <1>6
  <2>2. QED
    BY <1>2, <1>7, <2>1, HeldKept DEF SchedInv
<1>9. /\ OnTop(k') /\ k'.suspensions = 0 /\ k'.pended = 0 /\ Elements(k'.pending) = {}
      /\ k'.current = t /\ DOMAIN arg' = Task /\ \A u \in Task \ {t} : arg'[u] = arg[u]
  BY <1>2, <1>3, <1>4, <1>5, <1>7
<1>10. w \notin Suspending /\ w \notin Gone
  BY DEF Suspending, Gone
<1>11. QED
  BY <1>1, <1>2, <1>5, <1>7, <1>8, <1>9, <1>10, CallStep DEF Suspending, Gone

\* A task is notified, and is made ready if it waited.
LEMMA NotifiedFacts ==
    ASSUME SchedInv, NEW u \in Others, NEW v, NEW action, NEW j, NEW S,
           NotifiedBy(j, k, u, v, action, S),
           S = {} \/ (S = {u} /\ k.notify[u] = "waiting")
    PROVE  /\ Quiet(j, k) /\ Readied(j, k, S) /\ S \subseteq Task
           /\ j.current = k.current /\ j.suspensions = k.suspensions
           /\ j.pended = k.pended /\ Elements(j.pending) = Elements(k.pending) \ S
           /\ \A x \in S : k.priority[x] > k.priority[k.current] => j.pendsv
           /\ OnTop(k) => OnTop(j) \/ j.pendsv
           /\ \A x \in held : x \in Elements(j.suspended) /\ j.notify[x] # "waiting"
<1>1. /\ Keeps(j, k, NotifyReadyFields)
      /\ Readied(j, k, S)
      /\ j.notify = [k.notify EXCEPT ![u] = "received"]
      /\ j.value = [k.value EXCEPT ![u] = NotifiedValue(k, u, v, action)]
      /\ \A x \in S : k.priority[x] > k.priority[k.current] => j.pendsv
  BY DEF NotifiedBy
<1>2. /\ KernelInv /\ Good(k) /\ Timed(k)
      /\ DOMAIN k.notify = Task /\ DOMAIN k.value = Task /\ held \subseteq Task
  BY DEF SchedInv, KernelInv, TypeInv
<1>3. u \in Task /\ u \in Placed(k) /\ u \notin Elements(k.termination)
  BY OthersAre
<1>4. /\ S \subseteq Task /\ S \subseteq Placed(k) /\ S \cap Elements(k.termination) = {}
  BY <1>3
<1>5. /\ j.current = k.current /\ j.suspensions = k.suspensions
      /\ j.pended = k.pended /\ j.tick = k.tick /\ j.unblock = k.unblock
      /\ j.priority = k.priority
  BY <1>1 DEF Keeps, KernelFields, NotifyReadyFields, NotifyFields, StateLists
<1>6. Timed(j) /\ DOMAIN j.notify = Task /\ DOMAIN j.value = Task
  BY <1>1, <1>2, <1>5 DEF Timed
<1>7. Quiet(j, k)
  <2>1. NotifyReadyFields \cap Settled = {}
    BY DEF NotifyReadyFields, NotifyFields, StateLists, Settled
  <2>2. QED
    BY <1>1, <1>2, <1>4, <1>6, <2>1, ReadiedQuiet
<1>8. OnTop(k) => OnTop(j) \/ j.pendsv
  <2>1. SUFFICES ASSUME OnTop(k), ~j.pendsv PROVE OnTop(j)
    OBVIOUS
  <2>2. \A x \in S : x \in Task /\ ~(k.priority[x] > k.priority[k.current])
    BY <1>1, <1>4, <2>1
  <2>3. QED
    BY <1>1, <1>2, <1>5, <2>1, <2>2, OnTopStays
<1>9. ASSUME NEW x \in held PROVE x \in Elements(j.suspended) /\ j.notify[x] # "waiting"
  <2>1. x \in Elements(k.suspended) /\ k.notify[x] # "waiting" /\ x \in Task
    BY <1>2, <1>9 DEF SchedInv, HeldInv
  <2>2. x \notin S
    BY <2>1
  <2>3. x \in Elements(j.suspended)
    BY <1>1, <2>1, <2>2 DEF Readied
  <2>4. QED
    BY <1>1, <1>2, <2>1, <2>3
<1>10. Elements(j.pending) = Elements(k.pending) \ S
  BY <1>1 DEF Readied
<1>11. QED
  BY <1>1, <1>4, <1>5, <1>7, <1>8, <1>9, <1>10

LEMMA NotifyKeeps ==
    ASSUME SchedInv, NEW t \in Task, Notify(t)
    PROVE  SchedInv'
<1>1. /\ May(t, "notify") /\ pc' = pc /\ arg' = arg
      /\ prev' = prev /\ calls' = calls /\ held' = held
  BY DEF Notify
<1>2. PICK u \in Others, action \in Actions : k' = xTaskGenericNotify(k, u, 1, action)
  BY DEF Notify
<1>3. At(t, "run") /\ t # Idle
  BY <1>1 DEF May
<1>4. /\ k.current = t /\ pc[t] = "run" /\ k.suspensions = 0 /\ k.pended = 0
      /\ Elements(k.pending) = {}
  BY <1>3, Calling DEF Suspending
<1>5. OnTop(k)
  BY <1>3, <1>4, CallingOnTop DEF BeforeYield
<1>6. /\ Good(k) /\ NoEvents(k) /\ DOMAIN k.notify = Task /\ DOMAIN k.value = Task
      /\ DOMAIN arg = Task /\ DOMAIN pc = Task /\ held \subseteq Task
  BY DEF SchedInv, KernelInv, TypeInv
<1>7. u \in Task /\ u \notin Elements(k.pending)
  BY <1>4, OthersAre
<1> DEFINE S == IF k.notify[u] = "waiting" THEN {u} ELSE {}
<1>8. NotifiedBy(k', k, u, 1, action, S)
  BY <1>2, <1>6, <1>7, NotifyIdleIs, NotifyIs
<1>9. S = {} \/ (S = {u} /\ k.notify[u] = "waiting")
  OBVIOUS
<1> HIDE DEF S
<1>10. /\ Quiet(k', k) /\ Readied(k', k, S) /\ S \subseteq Task
       /\ k'.current = k.current /\ k'.suspensions = k.suspensions
       /\ k'.pended = k.pended /\ Elements(k'.pending) = Elements(k.pending) \ S
       /\ \A x \in S : k.priority[x] > k.priority[k.current] => k'.pendsv
       /\ OnTop(k) => OnTop(k') \/ k'.pendsv
       /\ \A x \in held : x \in Elements(k'.suspended) /\ k'.notify[x] # "waiting"
  BY <1>8, <1>9, NotifiedFacts
<1>11. HeldInv'
  BY <1>1, <1>10 DEF HeldInv
<1>12. QED
  BY <1>1, <1>3, <1>4, <1>5, <1>6, <1>10, <1>11, CallStep DEF Suspending, Gone

LEMMA NotifyClearKeeps ==
    ASSUME SchedInv, NEW t \in Task, NotifyClear(t)
    PROVE  SchedInv'
<1>1. /\ May(t, "clear") /\ pc' = pc /\ arg' = arg
      /\ prev' = prev /\ calls' = calls /\ held' = held
  BY DEF NotifyClear
<1>2. PICK u \in Others :
         \/ k' = xTaskGenericNotifyStateClear(k, u)
         \/ k' = ulTaskGenericNotifyValueClear(k, u, NotifyMod - 1)
  BY DEF NotifyClear
<1>3. At(t, "run") /\ t # Idle
  BY <1>1 DEF May
<1>4. /\ k.current = t /\ pc[t] = "run" /\ k.suspensions = 0 /\ k.pended = 0
      /\ Elements(k.pending) = {}
  BY <1>3, Calling DEF Suspending
<1>5. OnTop(k)
  BY <1>3, <1>4, CallingOnTop DEF BeforeYield
<1>6. /\ KernelInv /\ Good(k) /\ DOMAIN k.notify = Task /\ DOMAIN k.value = Task
      /\ DOMAIN arg = Task /\ DOMAIN pc = Task /\ held \subseteq Task
  BY DEF SchedInv, KernelInv, TypeInv
<1>7. u \in Task
  BY OthersAre
<1>8. /\ Keeps(k', k, NotifyFields) /\ DOMAIN k'.notify = Task /\ DOMAIN k'.value = Task
      /\ \A x \in Task : k.notify[x] # "waiting" => k'.notify[x] # "waiting"
  <2>1. CASE k' = xTaskGenericNotifyStateClear(k, u)
    <3>1. /\ Keeps(k', k, {"notify"})
          /\ k'.notify = [k.notify EXCEPT ![u] = IF @ = "received" THEN "not_waiting" ELSE @]
      BY <1>6, <1>7, <2>1, ClearIs
    <3>2. k'.value = k.value
      BY <3>1 DEF Keeps, KernelFields
    <3>3. QED
      BY <1>6, <3>1, <3>2 DEF Keeps, NotifyFields
  <2>2. CASE k' = ulTaskGenericNotifyValueClear(k, u, NotifyMod - 1)
    <3>1. Keeps(k', k, {"value"}) /\ DOMAIN k'.value = Task
      BY <1>6, <1>7, <2>2, ClearIs
    <3>2. k'.notify = k.notify
      BY <3>1 DEF Keeps, KernelFields
    <3>3. QED
      BY <1>6, <3>1, <3>2 DEF Keeps, NotifyFields
  <2>3. QED
    BY <1>2, <2>1, <2>2
<1>9. Quiet(k', k) /\ Readied(k', k, {})
  BY <1>6, <1>8, FlagsQuiet DEF NotifyFields, Flags, Settled
<1>10. /\ k'.current = k.current /\ k'.suspensions = k.suspensions
       /\ k'.pended = k.pended /\ k'.pending = k.pending /\ k'.suspended = k.suspended
  BY <1>8 DEF Keeps, KernelFields, NotifyFields
<1>11. OnTop(k')
  BY <1>5, <1>6, <1>9, <1>10, OnTopStays
<1>12. HeldInv'
  BY <1>1, <1>6, <1>8, <1>10, HeldKept DEF SchedInv
<1>13. QED
  BY <1>1, <1>3, <1>4, <1>6, <1>9, <1>10, <1>11, <1>12, CallStep DEF Suspending, Gone

-----------------------------------------------------------------------------
(* Tasks are suspended, resumed, and given priorities *)

\* A task that is not the current one leaves its list.
LEMMA OutOfOnTop ==
    ASSUME NEW k0, Good(k0), OnTop(k0), NEW j, NEW u, OutOf(j, k0, u),
           u # k0.current, j.current = k0.current
    PROVE  OnTop(j)
<1>1. /\ k0.current \in Task /\ k0.current \in ReadyAt(k0, k0.priority[k0.current])
      /\ \A p \in Priority : ReadyAt(k0, p) # {} => p <= k0.priority[k0.current]
  BY OnTopIs DEF CurrentIsReady
<1>2. k0.priority[k0.current] \in Priority
  BY <1>1 DEF Good, Sound, Shape
<1>3. /\ Good(j) /\ j.priority = k0.priority
      /\ \A p \in Priority : ReadyAt(j, p) = ReadyAt(k0, p) \ {u}
  BY DEF OutOf
<1>4. CurrentIsReady(j)
  BY <1>1, <1>2, <1>3 DEF CurrentIsReady
<1>5. \A p \in Priority : ReadyAt(j, p) # {} => p <= j.priority[j.current]
  BY <1>1, <1>3
<1>6. QED
  BY <1>3, <1>4, <1>5, OnTopIs

LEMMA CreateReturnKeeps ==
    ASSUME SchedInv, NEW t \in Task, CreateReturn(t)
    PROVE  SchedInv'
<1> DEFINE where == IF k.priority[arg[t]] > k.priority[t] THEN "yield" ELSE "run"
<1>1. /\ At(t, "created") /\ k' = k /\ pc' = [pc EXCEPT ![t] = where]
      /\ arg' = [arg EXCEPT ![t] = 0] /\ prev' = prev /\ calls' = calls /\ held' = held
  BY DEF CreateReturn, Goes, Returned
<1>2. /\ k.current = t /\ ~k.pendsv /\ pc[t] = "created" /\ k.suspensions = 0
      /\ k.pended = 0 /\ Elements(k.pending) = {}
  BY <1>1, Calling DEF Suspending
<1>3. /\ DOMAIN arg = Task /\ held \subseteq Task /\ k.priority \in [Task -> Priority]
      /\ k.top \subseteq Priority
  BY DEF SchedInv, TypeInv, KernelInv, Good, Sound, Shape
<1>4. /\ CurrentIsReady(k) /\ arg[t] \in Task
      /\ \A p \in k.top : p <= k.priority[t] \/ p <= k.priority[arg[t]]
  BY <1>2 DEF SchedInv, TopInv
<1>5. t # Idle
  BY <1>2 DEF SchedInv, PlacesInv
<1>6. OnTop(k) \/ where = "yield"
  <2>1. SUFFICES ASSUME ~(k.priority[arg[t]] > k.priority[t]) PROVE OnTop(k)
    OBVIOUS
  <2>2. k.priority[arg[t]] \in Int /\ k.priority[t] \in Int /\ k.top \subseteq Int
    BY <1>3, <1>4, PrioritiesNumbers
  <2>3. k.priority[arg[t]] <= k.priority[t]
    BY <2>1, <2>2
  <2>4. ASSUME NEW p \in k.top PROVE p <= k.priority[t]
    BY <1>4, <2>2, <2>3
  <2>5. QED
    BY <1>2, <1>4, <2>4 DEF OnTop
<1>7. where \in {"run", "yield"}
  OBVIOUS
<1> HIDE DEF where
<1>8. Quiet(k, k)
  BY DEF Quiet, SchedInv, KernelInv
<1>9. HeldInv'
  BY <1>1, HeldKept DEF SchedInv
<1>10. /\ Quiet(k', k) /\ k'.suspensions = 0 /\ k'.pended = 0 /\ Elements(k'.pending) = {}
       /\ k'.current = t /\ (OnTop(k') \/ where = "yield")
  BY <1>1, <1>2, <1>6, <1>8
<1>11. DOMAIN arg' = Task /\ \A u \in Task \ {t} : arg'[u] = arg[u]
  BY <1>1, <1>3
<1>12. QED
  BY <1>1, <1>3, <1>5, <1>7, <1>9, <1>10, <1>11, CallStep DEF Suspending, Gone

LEMMA SuspendKeeps ==
    ASSUME SchedInv, NEW t \in Task, Suspend(t)
    PROVE  SchedInv'
<1>1. /\ May(t, "suspend") /\ pc' = [pc EXCEPT ![t] = "suspend"]
      /\ prev' = prev /\ calls' = calls
  BY DEF Suspend, Goes
<1>2. PICK u \in Others :
         k' = vTaskSuspend(k, u) /\ arg' = [arg EXCEPT ![t] = u] /\ held' = held \cup {u}
  BY DEF Suspend
<1>3. At(t, "run") /\ t # Idle
  BY <1>1 DEF May
<1>4. /\ k.current = t /\ pc[t] = "run" /\ k.suspensions = 0 /\ k.pended = 0
      /\ Elements(k.pending) = {}
  BY <1>3, Calling DEF Suspending
<1>5. OnTop(k)
  BY <1>3, <1>4, CallingOnTop DEF BeforeYield
<1>6. /\ Good(k) /\ NoEvents(k) /\ Timed(k)
      /\ DOMAIN k.notify = Task /\ DOMAIN k.value = Task
      /\ DOMAIN arg = Task /\ held \subseteq Task /\ k.base = k.priority
      /\ Idle \in ReadyAt(k, 0)
  BY DEF SchedInv, KernelInv, TypeInv
<1>7. u \in Task /\ u # Idle /\ u \in Placed(k) /\ u \notin Elements(k.termination)
  BY OthersAre
<1>8. /\ Keeps(k', k, OutFields \cup {"notify"})
      /\ OutOf(k', k, u)
      /\ Elements(k'.suspended) = Elements(k.suspended) \cup {u}
      /\ Elements(k'.termination) = Elements(k.termination) \ {u}
      /\ k'.termination = Without(k.termination, u)
      /\ k'.notify = [k.notify EXCEPT ![u] = IF @ = "waiting" THEN "not_waiting" ELSE @]
  BY <1>2, <1>6, <1>7, SuspendIs
<1>9. /\ k'.current = k.current /\ k'.suspensions = k.suspensions /\ k'.value = k.value
      /\ k'.pended = k.pended /\ k'.tick = k.tick /\ k'.unblock = k.unblock
      /\ k'.count = k.count /\ k'.cleanup = k.cleanup /\ k'.running = k.running
      /\ k'.base = k.base
  BY <1>8 DEF Keeps, KernelFields, OutFields, StateLists
<1>10. k'.termination = k.termination
  BY <1>7, <1>8, WithoutAbsent
<1>11. Placed(k') = Placed(k)
  <2>1. ASSUME NEW x PROVE x \in Placed(k') <=> x \in Placed(k)
    <3>1. \A p \in Priority : x \in ReadyAt(k', p) <=> x \in ReadyAt(k, p) /\ x # u
      BY <1>8 DEF OutOf
    <3>2. x \in Late(k') <=> x \in Late(k) /\ x # u
      BY <1>8 DEF OutOf
    <3>3. x \in Elements(k'.suspended) <=> x \in Elements(k.suspended) \/ x = u
      BY <1>8
    <3>4. QED
      BY <1>7, <1>10, <3>1, <3>2, <3>3, PlacedIs
  <2>2. QED
    BY <2>1
<1>12. Quiet(k', k)
  <2>1. Idle \in ReadyAt(k', 0) /\ NoEvents(k')
    BY <1>6, <1>7, <1>8, PrioritiesNumbers DEF OutOf, NoEvents
  <2>2. Timed(k')
    BY <1>6, <1>9 DEF Timed
  <2>3. DOMAIN k'.notify = Task /\ DOMAIN k'.value = Task
    BY <1>6, <1>8, <1>9
  <2>4. QED
    BY <1>6, <1>8, <1>9, <1>10, <1>11, <2>1, <2>2, <2>3 DEF Quiet, OutOf
<1>13. OnTop(k') \/ arg'[t] = t
  BY <1>2, <1>4, <1>5, <1>6, <1>8, <1>9, OutOfOnTop
<1>14. HeldInv'
  <2>1. ASSUME NEW x \in held' PROVE x \in Elements(k'.suspended) /\ k'.notify[x] # "waiting"
    <3>1. CASE x = u
      BY <1>6, <1>7, <1>8, <3>1
    <3>2. CASE x # u
      BY <1>2, <1>6, <1>8, <2>1, <3>2 DEF SchedInv, HeldInv
    <3>3. QED
      BY <3>1, <3>2
  <2>2. QED
    BY <2>1 DEF HeldInv
<1>15. /\ k'.suspensions = 0 /\ k'.pended = 0 /\ Elements(k'.pending) = {} /\ k'.current = t
  BY <1>4, <1>8, <1>9 DEF OutOf
<1>16. DOMAIN arg' = Task /\ (\A x \in Task \ {t} : arg'[x] = arg[x]) /\ held' \subseteq Task
  BY <1>2, <1>6, <1>7
<1>17. "run" \notin Suspending /\ "run" \notin Gone
  BY DEF Suspending, Gone
<1>18. QED
  BY <1>1, <1>3, <1>12, <1>13, <1>14, <1>15, <1>16, <1>17, CallStep

LEMMA SuspendReturnKeeps ==
    ASSUME SchedInv, NEW t \in Task, SuspendReturn(t)
    PROVE  SchedInv'
<1> DEFINE where == IF arg[t] = t THEN "yield" ELSE "run"
<1>1. /\ At(t, "suspend") /\ k' = prvResetNextTaskUnblockTime(k)
      /\ pc' = [pc EXCEPT ![t] = where]
      /\ arg' = [arg EXCEPT ![t] = 0] /\ prev' = prev /\ calls' = calls /\ held' = held
  BY DEF SuspendReturn, Goes, Returned
<1>2. /\ k.current = t /\ ~k.pendsv /\ pc[t] = "suspend" /\ k.suspensions = 0
      /\ k.pended = 0 /\ Elements(k.pending) = {}
  BY <1>1, Calling DEF Suspending
<1>3. /\ KernelInv /\ Good(k) /\ Timed(k) /\ DOMAIN arg = Task /\ held \subseteq Task
      /\ DOMAIN k.notify = Task /\ DOMAIN k.value = Task
  BY DEF SchedInv, TypeInv, KernelInv
<1>4. Keeps(k', k, {"unblock"}) /\ Good(k') /\ k'.unblock \in Int
  BY <1>1, <1>3, ResetUnblockIs
<1>5. /\ k'.current = t /\ k'.suspensions = 0 /\ k'.pended = 0 /\ k'.pending = k.pending
      /\ k'.notify = k.notify /\ k'.value = k.value /\ k'.suspended = k.suspended
      /\ k'.tick = k.tick
  BY <1>2, <1>4 DEF Keeps, KernelFields
<1>6. Readied(k', k, {})
  BY <1>3, <1>4, FlagsReadied DEF Flags
<1>7. Timed(k')
  BY <1>3, <1>4, <1>5 DEF Timed
<1>8. Quiet(k', k)
  BY <1>3, <1>4, <1>5, <1>6, <1>7, ReadiedQuiet DEF Settled
<1>9. OnTop(k') \/ where = "yield"
  <2>1. SUFFICES ASSUME arg[t] # t PROVE OnTop(k')
    OBVIOUS
  <2>2. OnTop(k)
    BY <1>1, <1>2, <2>1, CallingOnTop DEF BeforeYield
  <2>3. QED
    BY <1>2, <1>3, <1>5, <1>6, <2>2, OnTopStays
<1>10. where \in {"run", "yield"}
  OBVIOUS
<1> HIDE DEF where
<1>11. HeldInv'
  BY <1>1, <1>5, HeldKept DEF SchedInv
<1>12. DOMAIN arg' = Task /\ \A u \in Task \ {t} : arg'[u] = arg[u]
  BY <1>1, <1>3
<1>13. t # Idle
  BY <1>2 DEF SchedInv, PlacesInv
<1>14. QED
  BY <1>1, <1>2, <1>3, <1>5, <1>8, <1>9, <1>10, <1>11, <1>12, <1>13, CallStep
     DEF Suspending, Gone

\* A task that is resumed.
LEMMA ResumedFacts ==
    ASSUME SchedInv, NEW u \in Others, NEW j, MadeReadyBy(j, k, u), SuspendedTask(k, u)
    PROVE  /\ Quiet(j, k) /\ Readied(j, k, {u})
           /\ j.current = k.current /\ j.suspensions = k.suspensions
           /\ j.pended = k.pended /\ Elements(j.pending) = Elements(k.pending) \ {u}
           /\ j.notify = k.notify
           /\ k.priority[u] > k.priority[k.current] => j.pendsv
           /\ OnTop(k) => OnTop(j) \/ j.pendsv
           /\ \A x \in held \ {u} : x \in Elements(j.suspended) /\ j.notify[x] # "waiting"
<1>1. /\ Keeps(j, k, ResumedFields) /\ Readied(j, k, {u})
      /\ k.priority[u] > k.priority[k.current] => j.pendsv
  BY DEF MadeReadyBy
<1>2. /\ KernelInv /\ Good(k) /\ Timed(k)
      /\ DOMAIN k.notify = Task /\ DOMAIN k.value = Task
  BY DEF SchedInv, KernelInv
<1>3. u \in Task /\ u \in Placed(k) /\ u \notin Elements(k.termination)
  BY OthersAre
<1>4. /\ j.current = k.current /\ j.suspensions = k.suspensions
      /\ j.pended = k.pended /\ j.tick = k.tick /\ j.unblock = k.unblock
      /\ j.notify = k.notify /\ j.value = k.value
  BY <1>1 DEF Keeps, KernelFields, ResumedFields, StateLists
<1>5. Quiet(j, k)
  <2>1. ResumedFields \cap Settled = {}
    BY DEF ResumedFields, StateLists, Settled
  <2>2. Timed(j)
    BY <1>2, <1>4 DEF Timed
  <2>3. {u} \subseteq Placed(k) /\ {u} \cap Elements(k.termination) = {}
    BY <1>3
  <2>4. QED
    BY <1>1, <1>2, <1>4, <2>1, <2>2, <2>3, ReadiedQuiet
<1>6. OnTop(k) => OnTop(j) \/ j.pendsv
  <2>1. SUFFICES ASSUME OnTop(k), ~j.pendsv PROVE OnTop(j)
    OBVIOUS
  <2>2. \A x \in {u} : x \in Task /\ ~(k.priority[x] > k.priority[k.current])
    BY <1>1, <1>3, <2>1
  <2>3. QED
    BY <1>1, <1>2, <1>4, <2>1, <2>2, OnTopStays
<1>7. ASSUME NEW x \in held \ {u} PROVE x \in Elements(j.suspended) /\ j.notify[x] # "waiting"
  <2>1. x \in Elements(k.suspended) /\ k.notify[x] # "waiting"
    BY <1>7 DEF SchedInv, HeldInv
  <2>2. QED
    BY <1>1, <1>4, <1>7, <2>1 DEF Readied
<1>8. QED
  BY <1>1, <1>4, <1>5, <1>6, <1>7 DEF Readied

LEMMA ResumeKeeps ==
    ASSUME SchedInv, NEW t \in Task, Resume(t)
    PROVE  SchedInv'
<1>1. /\ May(t, "resume") /\ pc' = pc /\ arg' = arg
      /\ prev' = prev /\ calls' = calls
  BY DEF Resume
<1>2. PICK u \in Others \ {t} : k' = vTaskResume(k, u) /\ held' = held \ {u}
  BY DEF Resume
<1>3. At(t, "run") /\ t # Idle
  BY <1>1 DEF May
<1>4. /\ k.current = t /\ pc[t] = "run" /\ k.suspensions = 0 /\ k.pended = 0
      /\ Elements(k.pending) = {}
  BY <1>3, Calling DEF Suspending
<1>5. OnTop(k)
  BY <1>3, <1>4, CallingOnTop DEF BeforeYield
<1>6. /\ Good(k) /\ NoEvents(k) /\ k.current \in Task
      /\ DOMAIN arg = Task /\ held \subseteq Task
  BY <1>4 DEF SchedInv, KernelInv, TypeInv
<1>7. u \in Others /\ u \in Task
  BY OthersAre
<1>8. /\ Quiet(k', k) /\ k'.current = t /\ k'.suspensions = 0 /\ k'.pended = 0
      /\ Elements(k'.pending) = {} /\ (OnTop(k') \/ k'.pendsv) /\ HeldInv'
  <2>1. CASE SuspendedTask(k, u)
    <3>1. MadeReadyBy(k', k, u)
      BY <1>2, <1>6, <1>7, <2>1, ResumeIs
    <3>2. /\ Quiet(k', k)
          /\ k'.current = k.current /\ k'.suspensions = k.suspensions
          /\ k'.pended = k.pended /\ Elements(k'.pending) = Elements(k.pending) \ {u}
          /\ OnTop(k) => OnTop(k') \/ k'.pendsv
          /\ \A x \in held \ {u} : x \in Elements(k'.suspended) /\ k'.notify[x] # "waiting"
      BY <1>7, <2>1, <3>1, ResumedFacts
    <3>3. HeldInv'
      BY <1>2, <3>2 DEF HeldInv
    <3>4. QED
      BY <1>4, <1>5, <3>2, <3>3
  <2>2. CASE ~SuspendedTask(k, u)
    <3>1. k' = k
      BY <1>2, <1>6, <2>2, ResumeNotSuspended
    <3>2. Quiet(k, k)
      BY DEF Quiet, SchedInv, KernelInv
    <3>3. HeldInv'
      BY <1>2, <3>1, HeldKept DEF SchedInv
    <3>4. QED
      BY <1>4, <1>5, <3>1, <3>2, <3>3
  <2>3. QED
    BY <2>1, <2>2
<1>9. held' \subseteq Task
  BY <1>2, <1>6
<1>10. QED
  BY <1>1, <1>3, <1>4, <1>6, <1>8, <1>9, CallStep DEF Suspending, Gone

LEMMA PrioritySetKeeps ==
    ASSUME SchedInv, NEW t \in Task, PrioritySet(t)
    PROVE  SchedInv'
<1>1. /\ May(t, "priority") /\ pc' = pc /\ arg' = arg
      /\ prev' = prev /\ calls' = calls /\ held' = held
  BY DEF PrioritySet
<1>2. PICK u \in Others, p \in Priorities : k' = vTaskPrioritySet(k, u, p)
  BY DEF PrioritySet
<1>3. At(t, "run") /\ t # Idle
  BY <1>1 DEF May
<1>4. /\ k.current = t /\ pc[t] = "run" /\ k.suspensions = 0 /\ k.pended = 0
      /\ Elements(k.pending) = {}
  BY <1>3, Calling DEF Suspending
<1>5. OnTop(k)
  BY <1>3, <1>4, CallingOnTop DEF BeforeYield
<1>6. /\ Good(k) /\ NoEvents(k) /\ Timed(k) /\ k.current \in Task /\ k.base = k.priority
      /\ DOMAIN k.notify = Task /\ DOMAIN k.value = Task /\ Idle \in ReadyAt(k, 0)
      /\ DOMAIN arg = Task /\ held \subseteq Task
  BY <1>4 DEF SchedInv, KernelInv, TypeInv
<1>7. u \in Task /\ u # Idle /\ p \in Nat
  BY OthersAre, ValuesAssumption
<1>8. /\ Keeps(k', k, PriorityFields)
      /\ Good(k') /\ k'.base = k'.priority
      /\ k'.delayed = k.delayed /\ k'.overflow = k.overflow
      /\ k'.suspended = k.suspended /\ k'.termination = k.termination
      /\ Ready(k') = Ready(k)
      /\ \A q \in Priority : ReadyAt(k', q) \ {u} = ReadyAt(k, q) \ {u}
      /\ \A x \in Task \ Ready(k) : k'.wake[x] = k.wake[x]
      /\ OnTop(k) /\ ~k'.pendsv => OnTop(k')
  BY <1>2, <1>6, <1>7, PrioritySetIs
<1>9. /\ k'.current = k.current /\ k'.suspensions = k.suspensions /\ k'.value = k.value
      /\ k'.pended = k.pended /\ k'.tick = k.tick /\ k'.unblock = k.unblock
      /\ k'.count = k.count /\ k'.cleanup = k.cleanup /\ k'.running = k.running
      /\ k'.pending = k.pending /\ k'.events = k.events /\ k'.notify = k.notify
  BY <1>8 DEF Keeps, KernelFields, PriorityFields, StateLists
<1>10. Placed(k') = Placed(k)
  <2>1. \A j : Placed(j) = Ready(j) \cup Elements(j.delayed) \cup Elements(j.overflow)
                             \cup Elements(j.suspended) \cup Elements(j.termination)
    BY DEF Placed, Ready
  <2>2. QED
    BY <1>8, <2>1
<1>11. Quiet(k', k)
  <2>1. Idle \in ReadyAt(k', 0)
    BY <1>6, <1>7, <1>8, PrioritiesNumbers
  <2>2. Timed(k') /\ NoEvents(k')
    BY <1>6, <1>9 DEF Timed, NoEvents
  <2>3. QED
    BY <1>6, <1>8, <1>9, <1>10, <2>1, <2>2 DEF Quiet
<1>12. HeldInv'
  BY <1>1, <1>8, <1>9, HeldKept DEF SchedInv
<1>13. /\ k'.current = t /\ k'.suspensions = 0 /\ k'.pended = 0 /\ Elements(k'.pending) = {}
       /\ (OnTop(k') \/ k'.pendsv)
  BY <1>4, <1>5, <1>8, <1>9
<1>14. QED
  BY <1>1, <1>3, <1>6, <1>11, <1>12, <1>13, CallStep DEF Suspending, Gone

-----------------------------------------------------------------------------
(* Tasks come and go *)

LEMMA ExistingFinite ==
    IsFiniteSet(Existing) /\ Existing \subseteq Task
<1>1. Existing \in SUBSET Task
  BY DEF Existing
<1>2. IsFiniteSet(Task)
  BY TasksAssumption
<1> HIDE DEF Existing
<1>3. QED
  BY <1>1, <1>2, FS_Subset

LEMMA CreateKeeps ==
    ASSUME SchedInv, NEW t \in Task, Create(t)
    PROVE  SchedInv'
<1>1. May(t, "create") /\ prev' = prev /\ calls' = calls /\ held' = held
  BY DEF Create
<1>2. PICK u \in Task, p \in Priorities :
         /\ pc[u] = "none"
         /\ k' = xTaskCreate(k, <<u, p>>)
         /\ pc' = [pc EXCEPT ![u] = "run", ![t] = "created"]
         /\ arg' = [arg EXCEPT ![t] = u]
  BY DEF Create
<1>3. At(t, "run") /\ t # Idle
  BY <1>1 DEF May
<1>4. /\ k.current = t /\ ~k.pendsv /\ pc[t] = "run" /\ k.suspensions = 0 /\ k.pended = 0
      /\ Elements(k.pending) = {} /\ \A x \in Task : pc[x] \notin Suspending
  BY <1>3, Calling DEF Suspending
<1>5. OnTop(k) /\ CurrentIsReady(k)
  BY <1>3, <1>4, CallingOnTop DEF BeforeYield
<1>6. /\ Good(k) /\ NoEvents(k) /\ Timed(k) /\ k.running = TRUE
      /\ k.base = k.priority /\ k.priority \in [Task -> Priority]
      /\ DOMAIN k.notify = Task /\ DOMAIN k.value = Task /\ Idle \in ReadyAt(k, 0)
      /\ DOMAIN arg = Task /\ DOMAIN pc = Task /\ held \subseteq Task
      /\ prev \in [Task -> Int] /\ calls \in Calls
  BY DEF SchedInv, KernelInv, TypeInv, Good, Sound, Shape
<1>7. /\ Placed(k) = Existing /\ Elements(k.termination) = {x \in Task : pc[x] = "deleted"}
      /\ k.cleanup = Len(k.termination) /\ k.count = Cardinality(Existing)
      /\ pc[Idle] \in {"run", "free"}
  BY DEF SchedInv, PlacesInv
<1>8. u # t /\ u # Idle /\ u \notin Existing /\ Nowhere(k, u) /\ p \in Nat
  BY <1>2, <1>4, <1>7, ValuesAssumption DEF Existing, Exists, Nowhere
<1> DEFINE q == Clamped(p)
<1>9. k.current \in (Task \ {u}) \cup {NoTask} /\ ~ComesFirst(k, u, q)
  BY <1>4, <1>6, <1>8, NoTaskAssumption DEF ComesFirst
<1>10. /\ Keeps(k', k, CreateFields)
       /\ Good(k')
       /\ \A x \in Priority :
            ReadyAt(k', x) = ReadyAt(k, x) \cup (IF x = q THEN {u} ELSE {})
       /\ k'.priority = [k.priority EXCEPT ![u] = q]
       /\ k'.base = [k.base EXCEPT ![u] = q]
       /\ k'.notify = [k.notify EXCEPT ![u] = "not_waiting"]
       /\ k'.value = [k.value EXCEPT ![u] = 0]
       /\ k'.count = k.count + 1
       /\ k'.current = IF ComesFirst(k, u, q) THEN u ELSE k.current
  <2>1. DOMAIN k.base = Task
    BY <1>6
  <2>2. k.current \in (Task \ {u}) \cup {NoTask}
    BY <1>4, <1>8
  <2>3. CreatedBy(xTaskCreate(k, <<u, p>>), k, u, q)
    BY <1>6, <1>8, <2>1, <2>2, CreateIs
  <2>4. QED
    BY <1>2, <2>3 DEF CreatedBy
<1>11. q \in Priority
  BY <1>8, ClampedIs
<1> HIDE DEF q
<1>12. /\ k'.current = t /\ k'.suspensions = 0 /\ k'.pended = 0 /\ k'.pending = k.pending
       /\ k'.events = k.events /\ k'.tick = k.tick /\ k'.unblock = k.unblock
       /\ k'.running = TRUE /\ k'.delayed = k.delayed /\ k'.overflow = k.overflow
       /\ k'.suspended = k.suspended /\ k'.termination = k.termination
       /\ k'.cleanup = k.cleanup
  BY <1>4, <1>6, <1>9, <1>10 DEF Keeps, KernelFields, CreateFields, NewFields
<1>13. \A x \in Task : pc'[x] = IF x = t THEN "created" ELSE IF x = u THEN "run" ELSE pc[x]
  BY <1>2, <1>6, <1>8
<1>14. \A x \in Task \ {t} : arg'[x] = arg[x]
  BY <1>2, <1>6
<1>15. arg'[t] = u /\ DOMAIN arg' = Task /\ DOMAIN pc' = Task
  BY <1>2, <1>6
<1>16. KernelInv'
  <2>1. Timed(k') /\ NoEvents(k') /\ k'.base = k'.priority
    BY <1>4, <1>6, <1>10, <1>12, SMTT(20) DEF Timed, NoEvents
  <2>2. Idle \in ReadyAt(k', 0)
    BY <1>6, <1>10, PrioritiesNumbers
  <2>3. DOMAIN k'.notify = Task /\ DOMAIN k'.value = Task
    BY <1>6, <1>10
  <2>4. QED
    BY <1>10, <1>12, <2>1, <2>2, <2>3 DEF KernelInv
<1>17. TypeInv'
  <2>1. ASSUME NEW x \in Task, pc'[x] \in {"delay", "delay_until"}
        PROVE  arg'[x] \in Nat
    BY <2>1, <1>4, <1>13 DEF Suspending
  <2>2. QED
    BY <1>1, <1>6, <1>15, <2>1 DEF TypeInv
<1>18. SuspensionInv'
  BY <1>4, <1>12, <1>13 DEF SuspensionInv, Suspending
<1>19. PlacesInv'
  <2>1. Existing' = Existing \cup {u}
    BY <1>4, <1>13 DEF Existing, Exists
  <2>2. Placed(k') = Placed(k) \cup {u}
    <3>1. ASSUME NEW x PROVE x \in Placed(k') <=> x \in Placed(k) \/ x = u
      <4>1. Late(k') = Late(k)
        BY <1>12 DEF Late
      <4>2. (\E y \in Priority : x \in ReadyAt(k', y))
               <=> (\E y \in Priority : x \in ReadyAt(k, y)) \/ x = u
        BY <1>10, <1>11
      <4>3. QED
        BY <1>12, <4>1, <4>2, PlacedIs
    <3>2. QED
      BY <3>1
  <2>3. Cardinality(Existing \cup {u}) = Cardinality(Existing) + 1
    <3>1. IsFiniteSet(Existing)
      BY ExistingFinite
    <3>2. u \notin Existing
      BY <1>8
    <3> HIDE DEF Existing
    <3>3. Cardinality(Existing \cup {u})
            = IF u \in Existing THEN Cardinality(Existing) ELSE Cardinality(Existing) + 1
      BY <3>1, FS_AddElement
    <3>4. QED
      BY <3>2, <3>3
  <2>4. {x \in Task : pc'[x] = "deleted"} = {x \in Task : pc[x] = "deleted"}
    <3>1. pc[u] = "none" /\ pc[t] = "run"
      BY <1>2, <1>4
    <3>2. QED
      BY <1>13, <3>1
  <2>5. pc'[Idle] \in {"run", "free"}
    BY <1>3, <1>7, <1>8, <1>13, TasksAssumption
  <2>6. QED
    BY <1>7, <1>10, <1>12, <2>1, <2>2, <2>3, <2>4, <2>5 DEF PlacesInv
<1>20. PendingInv'
  BY <1>4, <1>12 DEF PendingInv
<1>21. HeldInv'
  <2>1. \A x \in held : k.notify[x] # "waiting" => k'.notify[x] # "waiting"
    BY <1>6, <1>10
  <2>2. QED
    BY <1>1, <1>12, <2>1, HeldKept DEF SchedInv
<1>22. FreeInv'
  <2>1. ASSUME NEW x \in Task, pc'[x] = "free"
        PROVE  /\ pc[x] = "free" /\ arg'[x] = arg[x]
               /\ arg[x] \in Task /\ pc'[arg[x]] = "freed"
    <3>1. pc[x] = "free" /\ arg'[x] = arg[x]
      BY <1>13, <1>14, <2>1
    <3>2. arg[x] \in Task /\ pc[arg[x]] = "freed"
      BY <3>1 DEF SchedInv, FreeInv
    <3>3. QED
      BY <1>2, <1>4, <1>13, <3>1, <3>2
  <2>2. ASSUME NEW x \in Task, NEW y \in Task, pc'[x] = "free", pc'[y] = "free",
               arg'[x] = arg'[y]
        PROVE  x = y
    <3>1. pc[x] = "free" /\ arg'[x] = arg[x] /\ pc[y] = "free" /\ arg'[y] = arg[y]
      BY <2>1, <2>2
    <3>2. QED
      BY <2>2, <3>1 DEF SchedInv, FreeInv
  <2>3. QED
    BY <2>1, <2>2 DEF FreeInv
<1>23. TopInv'
  <2>2. k'.priority[t] = k.priority[t] /\ k'.priority[u] = q
    BY <1>6, <1>8, <1>10
  <2>3. k.priority[t] \in Priority /\ t \in ReadyAt(k, k.priority[t])
    BY <1>4, <1>5, <1>6 DEF CurrentIsReady
  <2>4. CurrentIsReady(k')
    BY <1>10, <1>12, <2>2, <2>3 DEF CurrentIsReady
  <2>5. ASSUME NEW y \in k'.top PROVE y <= k'.priority[t] \/ y <= k'.priority[u]
    <3>1. y \in Priority /\ ReadyAt(k', y) # {}
      BY <1>10 DEF Good, TopRight, Sound, Shape
    <3>2. CASE y = q
      BY <1>11, <2>2, <3>2, PrioritiesNumbers
    <3>3. CASE y # q
      <4>1. ReadyAt(k, y) # {}
        BY <1>10, <3>1, <3>3
      <4>2. y <= k.priority[t]
        BY <1>4, <1>5, <1>6, <3>1, <4>1, OnTopIs
      <4>3. QED
        BY <2>2, <4>2
    <3>4. QED
      BY <3>2, <3>3
  <2>6. \A x \in Task : pc'[x] = "created" => arg'[x] \in Task
    BY <1>13, <1>14, <1>15 DEF SchedInv, TopInv
  <2>7. BeforeYield(k.current)'
    BY <1>12, <1>13 DEF BeforeYield
  <2>8. QED
    BY <1>12, <1>15, <2>4, <2>5, <2>6, <2>7 DEF TopInv
<1>24. QED
  BY <1>16, <1>17, <1>18, <1>19, <1>20, <1>21, <1>22, <1>23 DEF SchedInv

LEMMA NobodySuspends ==
    ASSUME k'.suspensions = 0, \A x \in Task : pc'[x] \notin Suspending
    PROVE  SuspensionInv'
BY DEF SuspensionInv, Suspending

\* vTaskDelete of the task itself: the idle task will clean up.
LEMMA DeleteSelfKeeps ==
    ASSUME SchedInv, NEW t \in Task, Delete(t), k' = vTaskDelete(k, t),
           pc' = [pc EXCEPT ![t] = "deleted"], arg' = [arg EXCEPT ![t] = 0],
           held' = held \ {t}
    PROVE  SchedInv'
<1>1. May(t, "delete") /\ prev' = prev /\ calls' = calls
  BY DEF Delete
<1>2. At(t, "run") /\ t # Idle
  BY <1>1 DEF May
<1>3. /\ k.current = t /\ pc[t] = "run" /\ k.suspensions = 0 /\ k.pended = 0
      /\ Elements(k.pending) = {} /\ \A x \in Task : pc[x] \notin Suspending
  BY <1>2, Calling DEF Suspending
<1>4. /\ Good(k) /\ NoEvents(k) /\ Timed(k) /\ k.running = TRUE
      /\ DOMAIN k.notify = Task /\ DOMAIN k.value = Task
      /\ DOMAIN arg = Task /\ DOMAIN pc = Task /\ held \subseteq Task
      /\ k.base = k.priority /\ Idle \in ReadyAt(k, 0)
      /\ prev \in [Task -> Int] /\ calls \in Calls
  BY DEF SchedInv, KernelInv, TypeInv
<1>5. /\ Placed(k) = Existing /\ Elements(k.termination) = {x \in Task : pc[x] = "deleted"}
      /\ k.cleanup = Len(k.termination) /\ k.count = Cardinality(Existing)
      /\ pc[Idle] \in {"run", "free"}
  BY DEF SchedInv, PlacesInv
<1>6. t \in Placed(k) /\ t \notin Elements(k.termination)
  BY <1>3, <1>5 DEF Existing, Exists
<1>7. /\ Keeps(k', k, OutFields \cup {"cleanup"})
      /\ OutOf(k', k, t)
      /\ Elements(k'.suspended) = Elements(k.suspended) \ {t}
      /\ k'.termination = Append(k.termination, t)
      /\ Elements(k'.termination) = Elements(k.termination) \cup {t}
      /\ Len(k'.termination) = Len(k.termination) + 1
      /\ k'.cleanup = k.cleanup + 1
  <2>1. t = k.current
    BY <1>3
  <2>2. Good(k) /\ t \notin Elements(k.termination)
    BY <1>4, <1>6
  <2>3. QED
    BY <2>1, <2>2, DeleteSelfIs
<1>8. /\ k'.current = k.current /\ k'.suspensions = k.suspensions /\ k'.value = k.value
      /\ k'.pended = k.pended /\ k'.tick = k.tick /\ k'.unblock = k.unblock
      /\ k'.count = k.count /\ k'.running = k.running /\ k'.base = k.base
      /\ k'.notify = k.notify
  BY <1>7 DEF Keeps, KernelFields, OutFields, StateLists
<1>9. \A x \in Task : pc'[x] = IF x = t THEN "deleted" ELSE pc[x]
  BY <1>4
<1>10. KernelInv'
  <2>1. Idle \in ReadyAt(k', 0) /\ NoEvents(k')
    BY <1>2, <1>4, <1>7, PrioritiesNumbers DEF OutOf, NoEvents
  <2>2. Timed(k') /\ Good(k') /\ k'.priority = k.priority
    BY <1>4, <1>7, <1>8 DEF Timed, OutOf
  <2>3. QED
    BY <1>3, <1>4, <1>8, <2>1, <2>2 DEF KernelInv
<1>11. TypeInv'
  <2>1. DOMAIN pc' = Task /\ DOMAIN arg' = Task /\ held' \subseteq Task
    BY <1>4
  <2>2. ASSUME NEW x \in Task, pc'[x] \in {"delay", "delay_until"}
        PROVE  arg'[x] \in Nat
    BY <2>2, <1>3, <1>9 DEF Suspending
  <2>3. QED
    BY <1>1, <1>4, <2>1, <2>2 DEF TypeInv
<1>12. SuspensionInv'
  BY <1>3, <1>8, <1>9 DEF SuspensionInv, Suspending
<1>13. PlacesInv'
  <2>1. Existing' = Existing
    <3>1. \A x \in Task : Exists(x)' <=> Exists(x)
      BY <1>3, <1>9 DEF Exists
    <3>2. QED
      BY <3>1 DEF Existing
  <2>2. ASSUME NEW x PROVE x \in Placed(k') <=> x \in Placed(k)
    <3>1. \A p \in Priority : x \in ReadyAt(k', p) <=> x \in ReadyAt(k, p) /\ x # t
      BY <1>7 DEF OutOf
    <3>2. x \in Late(k') <=> x \in Late(k) /\ x # t
      BY <1>7 DEF OutOf
    <3>3. x \in Elements(k'.suspended) <=> x \in Elements(k.suspended) /\ x # t
      BY <1>7
    <3>4. x \in Elements(k'.termination) <=> x \in Elements(k.termination) \/ x = t
      BY <1>7
    <3>5. QED
      BY <1>6, <3>1, <3>2, <3>3, <3>4, PlacedIs
  <2>3. Placed(k') = Placed(k)
    BY <2>2
  <2>4. Elements(k'.termination) = {x \in Task : pc'[x] = "deleted"}
    BY <1>5, <1>7, <1>9
  <2>5. pc'[Idle] \in {"run", "free"}
    BY <1>2, <1>5, <1>9, TasksAssumption
  <2>6. QED
    BY <1>5, <1>7, <1>8, <2>1, <2>3, <2>4, <2>5 DEF PlacesInv
<1>14. PendingInv'
  <2>1. Elements(k'.pending) = {}
    BY <1>3, <1>7 DEF OutOf
  <2>2. QED
    BY <1>3, <1>8, <2>1 DEF PendingInv
<1>15. HeldInv'
  BY <1>7, <1>8 DEF SchedInv, HeldInv
<1>16. FreeInv'
  BY <1>3, <1>4, <1>9, FreeGoes DEF SchedInv
<1>17. TopInv'
  <2>1. BeforeYield(k.current)' /\ pc'[k'.current] # "created"
    BY <1>3, <1>8, <1>9 DEF BeforeYield
  <2>2. \A x \in Task : pc'[x] = "created" => arg'[x] \in Task
    BY <1>4, <1>9 DEF SchedInv, TopInv
  <2>3. QED
    BY <2>1, <2>2 DEF TopInv
<1>18. QED
  BY <1>10, <1>11, <1>12, <1>13, <1>14, <1>15, <1>16, <1>17 DEF SchedInv

\* A task frees the memory of another one, which leaves every list.
LEMMA FreesStep ==
    ASSUME SchedInv, NEW t \in Task, At(t, "run"), NEW u \in Task, u # t, u # Idle,
           pc[u] \notin {"none", "freed"}, u \in Placed(k),
           OutOf(k', k, u), Timed(k'),
           Elements(k'.suspended) = Elements(k.suspended) \ {u},
           Elements(k'.termination) = Elements(k.termination) \ {u},
           k'.count = k.count - 1, k'.cleanup = Len(k'.termination),
           k'.current = k.current, k'.suspensions = k.suspensions,
           k'.value = k.value, k'.pended = k.pended, k'.running = k.running,
           k'.base = k.base, k'.notify = k.notify,
           pc' = [pc EXCEPT ![t] = "free", ![u] = "freed"],
           arg' = [arg EXCEPT ![t] = u, ![u] = 0],
           prev' = prev, calls' = calls, held' \subseteq held, u \notin held'
    PROVE  SchedInv'
<1>1. /\ k.current = t /\ pc[t] = "run" /\ k.suspensions = 0 /\ k.pended = 0
      /\ Elements(k.pending) = {} /\ \A x \in Task : pc[x] \notin Suspending
  BY Calling DEF Suspending
<1>2. /\ Good(k) /\ NoEvents(k) /\ Timed(k) /\ k.running = TRUE
      /\ DOMAIN k.notify = Task /\ DOMAIN k.value = Task
      /\ DOMAIN arg = Task /\ DOMAIN pc = Task /\ held \subseteq Task
      /\ k.base = k.priority /\ Idle \in ReadyAt(k, 0)
      /\ prev \in [Task -> Int] /\ calls \in Calls
  BY DEF SchedInv, KernelInv, TypeInv
<1>3. /\ Placed(k) = Existing /\ Elements(k.termination) = {x \in Task : pc[x] = "deleted"}
      /\ k.cleanup = Len(k.termination) /\ k.count = Cardinality(Existing)
      /\ pc[Idle] \in {"run", "free"}
  BY DEF SchedInv, PlacesInv
<1>4. /\ pc'[u] = "freed" /\ pc'[t] = "free"
      /\ \A x \in Task : x # u /\ x # t => pc'[x] = pc[x]
  BY <1>2
<1>5. arg'[t] = u /\ \A x \in Task : x # t /\ x # u => arg'[x] = arg[x]
  BY <1>2
<1>6. KernelInv'
  <2>1. Idle \in ReadyAt(k', 0) /\ NoEvents(k')
    BY <1>2, PrioritiesNumbers DEF OutOf, NoEvents
  <2>2. Good(k') /\ k'.priority = k.priority
    BY DEF OutOf
  <2>3. QED
    BY <1>1, <1>2, <2>1, <2>2 DEF KernelInv
<1>7. TypeInv'
  <2>1. DOMAIN pc' = Task /\ DOMAIN arg' = Task /\ held' \subseteq Task
    BY <1>2
  <2>2. ASSUME NEW x \in Task, pc'[x] \in {"delay", "delay_until"}
        PROVE  arg'[x] \in Nat
    BY <2>2, <1>1, <1>4 DEF Suspending
  <2>3. QED
    BY <1>2, <2>1, <2>2 DEF TypeInv
<1>8. SuspensionInv'
  <2>1. \A x \in Task : pc'[x] \notin Suspending
    BY <1>1, <1>4 DEF Suspending
  <2>2. k'.suspensions = 0
    BY <1>1
  <2>3. QED
    BY <2>1, <2>2, NobodySuspends
<1>9. PlacesInv'
  <2>1. Existing' = Existing \ {u}
    <3>1. \A x \in Task : Exists(x)' <=> Exists(x) /\ x # u
      BY <1>1, <1>4 DEF Exists
    <3>2. QED
      BY <3>1 DEF Existing
  <2>2. ASSUME NEW x PROVE x \in Placed(k') <=> x \in Placed(k) /\ x # u
    <3>1. \A p \in Priority : x \in ReadyAt(k', p) <=> x \in ReadyAt(k, p) /\ x # u
      BY DEF OutOf
    <3>2. x \in Late(k') <=> x \in Late(k) /\ x # u
      BY DEF OutOf
    <3>3. x \in Elements(k'.suspended) <=> x \in Elements(k.suspended) /\ x # u
      OBVIOUS
    <3>4. x \in Elements(k'.termination) <=> x \in Elements(k.termination) /\ x # u
      OBVIOUS
    <3>5. QED
      BY <3>1, <3>2, <3>3, <3>4, PlacedIs
  <2>3. Placed(k') = Existing \ {u}
    BY <1>3, <2>2
  <2>4. {x \in Task : pc[x] = "deleted"} \ {u} = {x \in Task : pc'[x] = "deleted"}
    BY <1>1, <1>4
  <2>5. Elements(k'.termination) = {x \in Task : pc'[x] = "deleted"}
    BY <1>3, <2>4
  <2>6. pc'[Idle] \in {"run", "free"}
    <3>1. CASE t = Idle
      BY <1>4, <3>1
    <3>2. CASE t # Idle
      BY <1>3, <1>4, <3>2, TasksAssumption
    <3>3. QED
      BY <3>1, <3>2
  <2>7. Cardinality(Existing \ {u}) = Cardinality(Existing) - 1
    <3>1. IsFiniteSet(Existing)
      BY ExistingFinite
    <3>2. u \in Existing
      BY <1>3
    <3> HIDE DEF Existing
    <3>3. Cardinality(Existing \ {u})
            = IF u \in Existing THEN Cardinality(Existing) - 1 ELSE Cardinality(Existing)
      BY <3>1, FS_RemoveElement
    <3>4. QED
      BY <3>2, <3>3
  <2>8. QED
    BY <1>3, <2>1, <2>3, <2>5, <2>6, <2>7 DEF PlacesInv
<1>10. PendingInv'
  <2>1. Elements(k'.pending) = {}
    BY <1>1 DEF OutOf
  <2>2. QED
    BY <1>1, <2>1 DEF PendingInv
<1>11. HeldInv'
  BY DEF SchedInv, HeldInv
<1>12. FreeInv'
  <2>1. ASSUME NEW x \in Task, pc'[x] = "free"
        PROVE  \/ x = t /\ arg'[x] = u
               \/ x # t /\ pc[x] = "free" /\ arg'[x] = arg[x]
    BY <1>4, <1>5, <2>1
  <2>2. ASSUME NEW x \in Task, pc[x] = "free"
        PROVE  arg[x] \in Task /\ arg[x] # t /\ arg[x] # u /\ pc[arg[x]] = "freed"
    <3>1. arg[x] \in Task /\ pc[arg[x]] = "freed"
      BY <2>2 DEF SchedInv, FreeInv
    <3>2. QED
      BY <1>1, <1>4, <3>1
  <2>3. ASSUME NEW x \in Task, pc'[x] = "free"
        PROVE  arg'[x] \in Task /\ pc'[arg'[x]] = "freed"
    <3>1. CASE x = t
      BY <1>4, <1>5, <3>1
    <3>2. CASE x # t
      <4>1. pc[x] = "free" /\ arg'[x] = arg[x]
        BY <2>1, <2>3, <3>2
      <4>2. arg[x] \in Task /\ arg[x] # t /\ arg[x] # u /\ pc[arg[x]] = "freed"
        BY <2>2, <4>1
      <4>3. QED
        BY <1>4, <4>1, <4>2
    <3>3. QED
      BY <3>1, <3>2
  <2>4. ASSUME NEW x \in Task, NEW y \in Task, pc'[x] = "free", pc'[y] = "free",
               arg'[x] = arg'[y]
        PROVE  x = y
    <3>1. CASE x = t \/ y = t
      BY <2>1, <2>2, <2>4, <3>1
    <3>2. CASE x # t /\ y # t
      BY <2>1, <2>4, <3>2 DEF SchedInv, FreeInv
    <3>3. QED
      BY <3>1, <3>2
  <2>5. QED
    BY <2>3, <2>4 DEF FreeInv
<1>13. TopInv'
  <2>1. OnTop(k')
    <3>1. OnTop(k)
      BY <1>1, CallingOnTop DEF BeforeYield
    <3>2. QED
      BY <1>1, <1>2, <3>1, OutOfOnTop
  <2>2. pc'[k'.current] = "free"
    BY <1>1, <1>4
  <2>3. \A x \in Task : pc'[x] = "created" => arg'[x] \in Task
    BY <1>4, <1>5 DEF SchedInv, TopInv
  <2>4. QED
    BY <2>1, <2>2, <2>3 DEF TopInv
<1>14. QED
  BY <1>6, <1>7, <1>8, <1>9, <1>10, <1>11, <1>12, <1>13 DEF SchedInv

\* vTaskDelete of another task: its memory is freed after the section.
LEMMA DeleteOtherKeeps ==
    ASSUME SchedInv, NEW t \in Task, Delete(t), NEW u \in Others, u # t,
           k' = vTaskDelete(k, u), pc' = [pc EXCEPT ![t] = "free", ![u] = "freed"],
           arg' = [arg EXCEPT ![t] = u, ![u] = 0], held' = held \ {u}
    PROVE  SchedInv'
<1>1. At(t, "run") /\ prev' = prev /\ calls' = calls
  BY DEF Delete, May
<1>2. k.current = t /\ Good(k) /\ Timed(k)
  BY <1>1 DEF At, SchedInv, KernelInv
<1>3. /\ u \in Task /\ u # Idle /\ u \in Placed(k) /\ u \notin Elements(k.termination)
      /\ pc[u] \notin {"none", "freed"}
  BY OthersAre DEF Gone
<1>4. /\ Keeps(k', k, OutFields \cup {"count", "unblock"})
      /\ OutOf(k', k, u)
      /\ Elements(k'.suspended) = Elements(k.suspended) \ {u}
      /\ k'.termination = Without(k.termination, u)
      /\ Elements(k'.termination) = Elements(k.termination) \ {u}
      /\ k'.count = k.count - 1
      /\ k'.unblock \in Int
  BY <1>2, <1>3, DeleteOtherIs
<1>5. /\ k'.current = k.current /\ k'.suspensions = k.suspensions /\ k'.value = k.value
      /\ k'.pended = k.pended /\ k'.tick = k.tick
      /\ k'.cleanup = k.cleanup /\ k'.running = k.running /\ k'.base = k.base
      /\ k'.notify = k.notify
  BY <1>4 DEF Keeps, KernelFields, OutFields, StateLists
<1>6. Timed(k')
  BY <1>2, <1>4, <1>5 DEF Timed
<1>7. k'.termination = k.termination
  BY <1>3, <1>4, WithoutAbsent
<1>8. k'.cleanup = Len(k'.termination)
  BY <1>5, <1>7 DEF SchedInv, PlacesInv
<1>9. held' \subseteq held /\ u \notin held'
  OBVIOUS
<1>10. QED
  BY <1>1, <1>3, <1>4, <1>5, <1>6, <1>8, <1>9, FreesStep

LEMMA DeleteKeeps ==
    ASSUME SchedInv, NEW t \in Task, Delete(t)
    PROVE  SchedInv'
<1>1. PICK u \in Others :
         /\ k' = vTaskDelete(k, u)
         /\ pc' = IF u = t THEN [pc EXCEPT ![t] = "deleted"]
                  ELSE [pc EXCEPT ![t] = "free", ![u] = "freed"]
         /\ arg' = [arg EXCEPT ![t] = u, ![u] = 0]
         /\ held' = held \ {u}
  BY DEF Delete
<1>2. CASE u = t
  <2>1. [arg EXCEPT ![t] = t, ![t] = 0] = [arg EXCEPT ![t] = 0]
    OBVIOUS
  <2>2. QED
    BY <1>1, <1>2, <2>1, DeleteSelfKeeps
<1>3. CASE u # t
  BY <1>1, <1>3, DeleteOtherKeeps
<1>4. QED
  BY <1>2, <1>3

LEMMA DeleteYieldKeeps ==
    ASSUME SchedInv, NEW t \in Task, DeleteYield(t)
    PROVE  SchedInv'
<1>1. /\ At(t, "deleted") /\ k' = portYIELD(k) /\ pc' = pc
      /\ arg' = arg /\ prev' = prev /\ calls' = calls /\ held' = held
  BY DEF DeleteYield
<1>2. /\ k.suspensions = 0 /\ k.pended = 0 /\ Elements(k.pending) = {}
  BY <1>1, Calling DEF Suspending
<1>3. KernelInv /\ DOMAIN k = KernelFields /\ held \subseteq Task
  BY DEF SchedInv, KernelInv, TypeInv, Good, Sound, Shape
<1>4. Keeps(k', k, {"pendsv"}) /\ k'.pendsv = TRUE
  BY <1>1, <1>3 DEF portYIELD, Keeps, KernelFields
<1>5. /\ k'.notify = k.notify /\ k'.value = k.value /\ k'.current = k.current
      /\ k'.pended = 0 /\ k'.pending = k.pending /\ k'.suspended = k.suspended
      /\ k'.suspensions = k.suspensions
  BY <1>2, <1>4 DEF Keeps, KernelFields
<1>6. Quiet(k', k)
  BY <1>3, <1>4, <1>5, FlagsQuiet DEF Flags, Settled, KernelInv
<1>7. HeldInv'
  BY <1>1, <1>5, HeldKept DEF SchedInv
<1>8. PendingInv'
  BY <1>2, <1>5 DEF PendingInv
<1>9. TopInv'
  BY <1>1, <1>2, <1>4, <1>5 DEF TopInv, SchedInv
<1>10. QED
  BY <1>1, <1>2, <1>3, <1>5, <1>6, <1>7, <1>8, <1>9, StayStep

LEMMA IdleCleanUpKeeps ==
    ASSUME SchedInv, IdleCleanUp
    PROVE  SchedInv'
<1> DEFINE u == Head(k.termination)
<1>1. /\ At(Idle, "run") /\ k.cleanup > 0 /\ k' = prvCheckTasksWaitingTermination(k)
      /\ pc' = [pc EXCEPT ![Idle] = "free", ![u] = "freed"]
      /\ arg' = [arg EXCEPT ![Idle] = u, ![u] = 0]
      /\ prev' = prev /\ calls' = calls /\ held' = held
  BY DEF IdleCleanUp
<1>2. /\ Good(k) /\ Timed(k) /\ NoEvents(k) /\ Idle \in Task /\ pc[Idle] = "run"
      /\ k.cleanup = Len(k.termination)
      /\ Elements(k.termination) = {x \in Task : pc[x] = "deleted"}
  BY <1>1, TasksAssumption DEF At, SchedInv, KernelInv, PlacesInv
<1>3. Elements(k.pending) = {}
  BY <1>1, <1>2, Calling DEF Suspending
<1>4. /\ Len(k.termination) > 0 /\ u \notin Elements(k.pending)
      /\ \A e \in EventLists : Elements(k.events[e]) = {}
  BY <1>1, <1>2, <1>3 DEF NoEvents
<1>5. /\ Keeps(k', k, StateLists \cup {"count", "cleanup"})
      /\ u \in Task /\ u \in Elements(k.termination)
      /\ OutOf(k', k, u)
      /\ \A p \in Priority : ReadyAt(k', p) = ReadyAt(k, p)
      /\ k'.top = k.top
      /\ Elements(k'.suspended) = Elements(k.suspended) \ {u}
      /\ Elements(k'.termination) = Elements(k.termination) \ {u}
      /\ Len(k'.termination) = Len(k.termination) - 1
      /\ k'.count = k.count - 1 /\ k'.cleanup = k.cleanup - 1
  BY <1>1, <1>2, <1>4, CleanUpIs
<1> HIDE DEF u
<1>6. u # Idle /\ pc[u] \notin {"none", "freed"} /\ u \in Placed(k)
  <2>1. pc[u] = "deleted"
    BY <1>2, <1>5
  <2>2. QED
    BY <1>2, <1>5, <2>1, PlacedIs
<1>7. /\ k'.current = k.current /\ k'.suspensions = k.suspensions /\ k'.value = k.value
      /\ k'.pended = k.pended /\ k'.tick = k.tick /\ k'.unblock = k.unblock
      /\ k'.running = k.running /\ k'.base = k.base /\ k'.notify = k.notify
  BY <1>5 DEF Keeps, KernelFields, StateLists
<1>8. Timed(k') /\ k'.cleanup = Len(k'.termination)
  BY <1>2, <1>5, <1>7 DEF Timed
<1>9. u \notin held'
  <2>1. u \notin Elements(k.suspended)
    BY <1>2, <1>5 DEF Good, Sound, Apart
  <2>2. QED
    BY <1>1, <2>1 DEF SchedInv, HeldInv
<1>10. held' \subseteq held
  BY <1>1
<1>11. QED
  BY <1>1, <1>2, <1>5, <1>6, <1>7, <1>8, <1>9, <1>10, FreesStep

\* The memory of the task that was deleted may be used again.
LEMMA DeleteTCBKeeps ==
    ASSUME SchedInv, NEW t \in Task, DeleteTCB(t)
    PROVE  SchedInv'
<1> DEFINE u == arg[t]
<1>1. /\ At(t, "free") /\ k' = k /\ pc' = [pc EXCEPT ![t] = "run", ![u] = "none"]
      /\ arg' = [arg EXCEPT ![t] = 0] /\ prev' = [prev EXCEPT ![u] = 0]
      /\ calls' = calls /\ held' = held
  BY DEF DeleteTCB, Returned
<1>2. /\ k.current = t /\ pc[t] = "free" /\ k.suspensions = 0 /\ k.pended = 0
      /\ Elements(k.pending) = {} /\ \A x \in Task : pc[x] \notin Suspending
  BY <1>1, Calling DEF Suspending
<1>3. OnTop(k)
  BY <1>1, <1>2, CallingOnTop DEF BeforeYield
<1>4. u \in Task /\ pc[u] = "freed"
  BY <1>2 DEF SchedInv, FreeInv
<1>5. \A x \in Task : pc[x] = "free" /\ x # t => arg[x] \in Task /\ arg[x] # u
  BY <1>2 DEF SchedInv, FreeInv
<1> HIDE DEF u
<1>6. /\ DOMAIN arg = Task /\ DOMAIN pc = Task /\ held \subseteq Task
      /\ prev \in [Task -> Int] /\ calls \in Calls
  BY DEF SchedInv, TypeInv
<1>7. /\ pc'[u] = "none" /\ pc'[t] = "run"
      /\ \A x \in Task : x # u /\ x # t => pc'[x] = pc[x]
  BY <1>1, <1>2, <1>4, <1>6
<1>8. \A x \in Task : x # t => arg'[x] = arg[x]
  BY <1>1, <1>6
<1>9. KernelInv'
  BY <1>1 DEF SchedInv, KernelInv
<1>10. TypeInv'
  <2>1. DOMAIN pc' = Task /\ DOMAIN arg' = Task /\ prev' \in [Task -> Int]
    <3>1. DOMAIN pc' = Task /\ DOMAIN arg' = Task
      BY <1>1, <1>6
    <3>2. prev' = [prev EXCEPT ![u] = 0] /\ prev \in [Task -> Int] /\ 0 \in Int
      BY <1>1, <1>6
    <3>3. prev' \in [Task -> Int]
      BY <3>2
    <3>4. QED
      BY <3>1, <3>3
  <2>2. ASSUME NEW x \in Task, pc'[x] \in {"delay", "delay_until"}
        PROVE  arg'[x] \in Nat
    BY <2>2, <1>2, <1>7 DEF Suspending
  <2>3. QED
    BY <1>1, <1>6, <2>1, <2>2 DEF TypeInv
<1>11. SuspensionInv'
  <2>1. \A x \in Task : pc'[x] \notin Suspending
    BY <1>2, <1>7 DEF Suspending
  <2>2. k'.suspensions = 0
    BY <1>1, <1>2
  <2>3. QED
    BY <2>1, <2>2, NobodySuspends
<1>12. PlacesInv'
  <2>1. Existing' = Existing
    <3>1. \A x \in Task : Exists(x)' <=> Exists(x)
      BY <1>2, <1>4, <1>7 DEF Exists
    <3>2. QED
      BY <3>1 DEF Existing
  <2>2. {x \in Task : pc'[x] = "deleted"} = {x \in Task : pc[x] = "deleted"}
    BY <1>2, <1>4, <1>7
  <2>3. pc'[Idle] \in {"run", "free"}
    <3>1. pc[Idle] \in {"run", "free"}
      BY DEF SchedInv, PlacesInv
    <3>2. Idle # u
      BY <1>4, <3>1
    <3>3. CASE t = Idle
      BY <1>7, <3>3
    <3>4. CASE t # Idle
      BY <1>7, <3>1, <3>2, <3>4, TasksAssumption
    <3>5. QED
      BY <3>3, <3>4
  <2>4. QED
    BY <1>1, <2>1, <2>2, <2>3 DEF SchedInv, PlacesInv
<1>13. PendingInv'
  BY <1>1, <1>2 DEF PendingInv
<1>14. HeldInv'
  BY <1>1 DEF SchedInv, HeldInv
<1>15. FreeInv'
  <2>1. ASSUME NEW x \in Task, pc'[x] = "free"
        PROVE  x # t /\ pc[x] = "free" /\ arg'[x] = arg[x]
    BY <1>7, <1>8, <2>1
  <2>2. ASSUME NEW x \in Task, pc'[x] = "free"
        PROVE  arg'[x] \in Task /\ pc'[arg'[x]] = "freed"
    <3>1. x # t /\ pc[x] = "free" /\ arg'[x] = arg[x]
      BY <2>1, <2>2
    <3>2. arg[x] \in Task /\ arg[x] # u /\ pc[arg[x]] = "freed"
      BY <1>5, <3>1 DEF SchedInv, FreeInv
    <3>3. arg[x] # t
      BY <1>2, <3>2
    <3>4. QED
      BY <1>7, <3>1, <3>2, <3>3
  <2>3. ASSUME NEW x \in Task, NEW y \in Task, pc'[x] = "free", pc'[y] = "free",
               arg'[x] = arg'[y]
        PROVE  x = y
    BY <2>1, <2>3 DEF SchedInv, FreeInv
  <2>4. QED
    BY <2>2, <2>3 DEF FreeInv
<1>16. TopInv'
  <2>1. pc'[k'.current] = "run"
    BY <1>1, <1>2, <1>7
  <2>2. \A x \in Task : pc'[x] = "created" => arg'[x] \in Task
    BY <1>7, <1>8 DEF SchedInv, TopInv
  <2>3. OnTop(k')
    BY <1>1, <1>3
  <2>4. QED
    BY <2>1, <2>2, <2>3 DEF TopInv
<1>17. QED
  BY <1>9, <1>10, <1>11, <1>12, <1>13, <1>14, <1>15, <1>16 DEF SchedInv

-----------------------------------------------------------------------------
(* Every action keeps the invariant: those of the interrupts *)

\* Tasks are made ready, and a switch is asked for when one of them outranks
\* the current one.
LEMMA TopReadied ==
    ASSUME SchedInv, NEW S, S \subseteq Task, Readied(k', k, S),
           pc' = pc, arg' = arg, k'.current = k.current,
           k'.suspensions = k.suspensions, k.suspensions = 1 => S = {},
           \A u \in S : k.priority[u] > k.priority[k.current] => k'.pendsv,
           k.suspensions = 0 /\ k.pendsv => k'.pendsv
    PROVE  TopInv'
<1> DEFINE c == k.current
<1>1. /\ Good(k) /\ k.suspensions \in {0, 1} /\ TopInv /\ c \in Task
  BY DEF SchedInv, KernelInv, Timed
<1>2. /\ \A p \in Priority :
           ReadyAt(k', p) = (ReadyAt(k, p) \ S) \cup {u \in S : k.priority[u] = p}
      /\ k'.priority = k.priority /\ Good(k')
  BY DEF Readied
<1>3. BeforeYield(k.current)' <=> BeforeYield(k.current)
  BY DEF BeforeYield
<1>4. ASSUME pc'[k'.current] # "resume_all", ~BeforeYield(k.current)',
             k'.suspensions = 0 => ~k'.pendsv
      PROVE  OnTop(k')
  <2>1. k.suspensions = 0 => ~k.pendsv /\ ~k'.pendsv
    BY <1>4
  <2>2. OnTop(k)
    BY <1>1, <1>3, <1>4, <2>1 DEF TopInv
  <2>3. ASSUME NEW u \in S PROVE u \in Task /\ ~(k.priority[u] > k.priority[k.current])
    BY <1>1, <2>1
  <2>4. QED
    BY <1>1, <2>2, <2>3, OnTopStays
<1>5. ASSUME pc'[k'.current] = "created", ~k'.pendsv
      PROVE  /\ CurrentIsReady(k')
             /\ arg'[k'.current] \in Task
             /\ \A p \in k'.top : \/ p <= k'.priority[k'.current]
                                  \/ p <= k'.priority[arg'[k'.current]]
  <2>1. k.suspensions = 0 /\ ~k.pendsv
    <3>1. k.suspensions # 1
      BY <1>5 DEF SchedInv, SuspensionInv, Suspending
    <3>2. QED
      BY <1>1, <1>5, <3>1
  <2>2. /\ CurrentIsReady(k) /\ arg[c] \in Task
        /\ \A p \in k.top : p <= k.priority[c] \/ p <= k.priority[arg[c]]
    BY <1>1, <1>5, <2>1 DEF TopInv
  <2>3. /\ k.priority[c] \in Priority /\ c \in ReadyAt(k, k.priority[c])
        /\ k.priority \in [Task -> Priority]
    BY <1>1, <2>2 DEF Good, Sound, Shape, CurrentIsReady
  <2>4. c \in ReadyAt(k', k.priority[c])
    BY <1>2, <2>3
  <2>5. CurrentIsReady(k')
    BY <1>1, <1>2, <2>4 DEF CurrentIsReady
  <2>6. ASSUME NEW p \in k'.top PROVE p <= k.priority[c] \/ p <= k.priority[arg[c]]
    <3>1. p \in Priority /\ ReadyAt(k', p) # {}
      BY <1>2 DEF Good, TopRight, Sound, Shape
    <3>2. CASE ReadyAt(k, p) # {}
      <4>1. p \in k.top
        BY <1>1, <3>1, <3>2 DEF Good, TopRight
      <4>2. QED
        BY <2>2, <4>1
    <3>3. CASE ReadyAt(k, p) = {}
      <4>1. PICK u \in S : k.priority[u] = p
        BY <1>2, <3>1, <3>3
      <4>2. ~(p > k.priority[c])
        BY <1>5, <4>1
      <4>3. p \in Int /\ k.priority[c] \in Int
        BY <2>3, <3>1, PrioritiesNumbers
      <4>4. QED
        BY <4>2, <4>3
    <3>4. QED
      BY <3>2, <3>3
  <2>7. QED
    BY <1>2, <2>2, <2>5, <2>6
<1>6. \A u \in Task : pc'[u] = "created" => arg'[u] \in Task
  BY <1>1 DEF TopInv
<1>7. QED
  BY <1>4, <1>5, <1>6 DEF TopInv

\* A task that is late is in no list of those put away.
LEMMA LateFacts ==
    ASSUME SchedInv, NEW u \in Late(k)
    PROVE  u \in Placed(k) /\ u \notin Elements(k.termination) /\ u \notin held /\ u \in Task
<1>1. u \in Placed(k)
  BY PlacedIs
<1>2. u \notin Elements(k.termination) /\ u \notin Elements(k.suspended)
  BY DEF SchedInv, KernelInv, Late, Good, Sound, Apart
<1>3. u \in Task
  BY <1>1 DEF SchedInv, PlacesInv, Existing
<1>4. QED
  BY <1>1, <1>2, <1>3 DEF SchedInv, HeldInv

\* Nothing is pended while the scheduler is not suspended.
LEMMA NothingPended ==
    ASSUME k'.suspensions = 0, Elements(k'.pending) = {}, k'.pended = 0
    PROVE  PendingInv'
BY DEF PendingInv

\* While it is suspended a tick is only counted.
LEMMA SysTickLaterKeeps ==
    ASSUME SchedInv, SysTick, k.suspensions > 0
    PROVE  SchedInv'
<1>1. /\ KernelInv /\ Good(k) /\ DOMAIN k = KernelFields /\ k.pended \in Nat
      /\ k.suspensions = 1 /\ DOMAIN k.notify = Task /\ DOMAIN k.value = Task
      /\ held \subseteq Task
  BY DEF SchedInv, KernelInv, TypeInv, Good, Sound, Shape
<1>2. k' = [k EXCEPT !.pended = @ + 1]
  BY DEF SysTick, xTaskIncrementTick, YieldIf
<1>3. Keeps(k', k, {"pended"}) /\ k'.pended = k.pended + 1
  BY <1>1, <1>2 DEF Keeps, KernelFields
<1>4. /\ k'.current = k.current /\ k'.notify = k.notify /\ k'.value = k.value
      /\ k'.pending = k.pending /\ k'.suspended = k.suspended
      /\ k'.suspensions = k.suspensions /\ k'.pendsv = k.pendsv
  BY <1>3 DEF Keeps, KernelFields
<1>5. Quiet(k', k) /\ Readied(k', k, {})
  BY <1>1, <1>3, <1>4, FlagsQuiet DEF Flags, Settled
<1>6. pc' = pc /\ arg' = arg /\ prev' = prev /\ calls' = calls /\ held' = held
  BY DEF SysTick
<1>7. k'.pended \in Nat
  BY <1>1, <1>3
<1>8. PendingInv'
  BY <1>1, <1>4, <1>6 DEF SchedInv, PendingInv, Exists
<1>9. HeldInv'
  BY <1>4, <1>6, HeldKept DEF SchedInv
<1>10. TopInv'
  BY <1>4, <1>5, <1>6, TopReadied
<1>11. QED
  BY <1>1, <1>4, <1>5, <1>6, <1>7, <1>8, <1>9, <1>10, StayStep

LEMMA SysTickKeeps ==
    ASSUME SchedInv, SysTick
    PROVE  SchedInv'
<1> DEFINE r == xTaskIncrementTick(k)
           S == DueAt(k)
<1>1. /\ KernelInv /\ Good(k) /\ DOMAIN k = KernelFields /\ k.pended \in Nat /\ Timed(k)
      /\ k.suspensions \in {0, 1} /\ DOMAIN k.notify = Task /\ DOMAIN k.value = Task
      /\ held \subseteq Task
  BY DEF SchedInv, KernelInv, TypeInv, Good, Sound, Shape
<1>2. CASE k.suspensions > 0
  BY <1>2, SysTickLaterKeeps
<1>3. CASE ~(k.suspensions > 0)
  <2>1. /\ Keeps(r.k, k, TickFields)
        /\ Readied(r.k, k, S) /\ S \subseteq Late(k)
        /\ Timed(r.k)
        /\ (\E t \in S : k.priority[t] > k.priority[k.current]) => r.switch
    BY <1>1, <1>3, TickReadied
  <2>2. /\ k' = YieldIf(r.k, r.switch)
        /\ pc' = pc /\ arg' = arg /\ prev' = prev /\ calls' = calls /\ held' = held
    BY DEF SysTick
  <2> DEFINE j == r.k
             w == r.switch
  <2>3. /\ Keeps(j, k, TickFields) /\ Readied(j, k, S) /\ Timed(j) /\ k' = YieldIf(j, w)
        /\ (\E t \in S : k.priority[t] > k.priority[k.current]) => w
    BY <2>1, <2>2
  <2> HIDE DEF r, j, w, S
  <2>4. Good(j)
    BY <2>3 DEF Readied
  <2>5. /\ Keeps(k', j, {"pendsv"}) /\ Readied(k', j, {})
        /\ w => k'.pendsv
        /\ ~w => k' = j
    BY <2>3, <2>4, YieldIfIs
  <2>6. Readied(k', k, S)
    <3>1. Readied(k', k, S \cup {})
      BY <1>1, <2>3, <2>5, ReadiedBoth
    <3>2. QED
      BY <3>1
  <2>7. /\ j.notify = k.notify /\ j.value = k.value /\ j.current = k.current
        /\ j.suspensions = k.suspensions /\ j.pended = k.pended /\ j.pendsv = k.pendsv
    BY <2>3 DEF Keeps, KernelFields, TickFields, WakeFields, StateLists
  <2>8. /\ k'.notify = k.notify /\ k'.value = k.value /\ k'.current = k.current
        /\ k'.suspensions = k.suspensions /\ k'.pended = k.pended
        /\ k'.tick = j.tick /\ k'.unblock = j.unblock
    BY <2>5, <2>7 DEF Keeps, KernelFields
  <2>9. k.pendsv => k'.pendsv
    BY <2>5, <2>7
  <2>10. \A u \in S : u \in Placed(k) /\ u \notin Elements(k.termination) /\ u \notin held /\ u \in Task
    BY <2>1, LateFacts
  <2>11. Timed(k')
    BY <2>3, <2>7, <2>8 DEF Timed
  <2>12. Keeps(k', k, TickFields \cup {"pendsv"})
    BY <2>3, <2>5 DEF Keeps
  <2>13. Quiet(k', k)
    <3>1. (TickFields \cup {"pendsv"}) \cap Settled = {}
      BY DEF TickFields, WakeFields, StateLists, Settled
    <3>2. DOMAIN k'.notify = Task /\ DOMAIN k'.value = Task
      BY <1>1, <2>8
    <3>3. S \subseteq Placed(k) /\ S \cap Elements(k.termination) = {}
      BY <2>10
    <3>4. QED
      BY <1>1, <2>6, <2>11, <2>12, <3>1, <3>2, <3>3, ReadiedQuiet
  <2>14. k.suspensions = 0
    BY <1>1, <1>3
  <2>15. PendingInv'
    <3>1. Elements(k.pending) = {} /\ k.pended = 0
      BY <2>14 DEF SchedInv, PendingInv
    <3>2. Elements(k'.pending) = {}
      BY <2>6, <3>1 DEF Readied
    <3>3. QED
      BY <2>8, <2>14, <3>1, <3>2, NothingPended
  <2>16. HeldInv'
    <3>1. \A t \in held : t \in Elements(k.suspended) => t \in Elements(k'.suspended)
      BY <2>6, <2>10 DEF Readied
    <3>2. QED
      BY <2>2, <2>8, <3>1, HeldKept DEF SchedInv
  <2>17. TopInv'
    <3>1. S \subseteq Task
      BY <2>10
    <3>2. \A u \in S : k.priority[u] > k.priority[k.current] => k'.pendsv
      BY <2>3, <2>5
    <3>3. QED
      BY <2>2, <2>6, <2>8, <2>9, <2>14, <3>1, <3>2, TopReadied
  <2>18. QED
    BY <1>1, <2>2, <2>8, <2>13, <2>14, <2>15, <2>16, <2>17, StayStep
<1>4. QED
  BY <1>2, <1>3

\* PendSV switches to the first task of the highest priority.
LEMMA PendSVKeeps ==
    ASSUME SchedInv, PendSV
    PROVE  SchedInv'
<1>1. /\ k' = vTaskSwitchContext(k)
      /\ pc' = pc /\ arg' = arg /\ prev' = prev /\ calls' = calls /\ held' = held
  BY DEF PendSV
<1>2. /\ KernelInv /\ Good(k) /\ DOMAIN k = KernelFields /\ k.pended \in Nat /\ Timed(k)
      /\ k.suspensions \in {0, 1} /\ DOMAIN k.notify = Task /\ DOMAIN k.value = Task
      /\ held \subseteq Task
  BY DEF SchedInv, KernelInv, TypeInv, Good, Sound, Shape
<1>3. CASE k.suspensions > 0
  <2>1. Keeps(k', k, {"yield", "pendsv"}) /\ Readied(k', k, {})
    BY <1>1, <1>2, <1>3, SwitchLater
  <2>2. /\ k'.current = k.current /\ k'.notify = k.notify /\ k'.value = k.value
        /\ k'.pending = k.pending /\ k'.suspended = k.suspended
        /\ k'.suspensions = k.suspensions /\ k'.pended = k.pended
    BY <2>1 DEF Keeps, KernelFields
  <2>3. Quiet(k', k)
    BY <1>2, <2>1, <2>2, FlagsQuiet DEF Flags, Settled
  <2>4. k.suspensions = 1
    BY <1>2, <1>3
  <2>5. PendingInv'
    BY <1>1, <2>2, <2>4 DEF SchedInv, PendingInv, Exists
  <2>6. HeldInv'
    BY <1>1, <2>2, HeldKept DEF SchedInv
  <2>7. TopInv'
    BY <1>1, <2>1, <2>2, <2>4, TopReadied
  <2>8. QED
    BY <1>1, <1>2, <2>2, <2>3, <2>5, <2>6, <2>7, StayStep
<1>4. CASE ~(k.suspensions > 0)
  <2>1. k.top # {}
    BY PrioritiesNumbers DEF SchedInv, KernelInv, Good, TopRight
  <2>2. /\ Keeps(k', k, {"yield", "pendsv", "ready", "current"}) /\ Readied(k', k, {})
        /\ OnTop(k')
    BY <1>1, <1>2, <1>4, <2>1, SwitchIs
  <2>3. /\ k'.notify = k.notify /\ k'.value = k.value
        /\ k'.pending = k.pending /\ k'.suspended = k.suspended
        /\ k'.suspensions = k.suspensions /\ k'.pended = k.pended
        /\ k'.tick = k.tick /\ k'.unblock = k.unblock
    BY <2>2 DEF Keeps, KernelFields
  <2>4. k'.current \in Task
    BY <2>2 DEF OnTop, CurrentIsReady
  <2>5. Quiet(k', k)
    <3>1. Timed(k')
      BY <1>2, <2>3, <2>4 DEF Timed
    <3>2. {"yield", "pendsv", "ready", "current"} \cap Settled = {}
      BY DEF Settled
    <3>3. QED
      BY <1>2, <2>2, <2>3, <3>1, <3>2, ReadiedQuiet
  <2>6. k.suspensions = 0
    BY <1>2, <1>4
  <2>7. PendingInv'
    BY <2>3, <2>6, NothingPended DEF SchedInv, PendingInv
  <2>8. HeldInv'
    BY <1>1, <2>3, HeldKept DEF SchedInv
  <2>9. TopInv'
    <3>1. \A u \in Task : pc'[u] = "created" => arg'[u] \in Task
      BY <1>1 DEF SchedInv, TopInv
    <3>2. CurrentIsReady(k') /\ \A p \in k'.top : p <= k'.priority[k'.current]
      BY <2>2 DEF OnTop
    <3>3. QED
      BY <2>2, <2>4, <3>1, <3>2 DEF TopInv
  <2>10. QED
    BY <1>1, <1>2, <2>3, <2>5, <2>6, <2>7, <2>8, <2>9, StayStep
<1>5. QED
  BY <1>3, <1>4

\* A step that pends a task, or does nothing to the lists, while the scheduler
\* is suspended.
LEMMA PendsStep ==
    ASSUME SchedInv, k.suspensions = 1, Good(k'),
           Keeps(k', k, {"pending", "yield", "pendsv", "value", "notify"}),
           DOMAIN k'.notify = Task, DOMAIN k'.value = Task,
           pc' = pc, arg' = arg, prev' = prev, calls' = calls,
           held' \subseteq Task, PendingInv', HeldInv'
    PROVE  SchedInv'
<1>1. /\ k'.ready = k.ready /\ k'.delayed = k.delayed /\ k'.overflow = k.overflow
      /\ k'.suspended = k.suspended /\ k'.termination = k.termination
      /\ k'.top = k.top /\ k'.priority = k.priority /\ k'.events = k.events
      /\ k'.current = k.current /\ k'.suspensions = k.suspensions
      /\ k'.pended = k.pended
  BY DEF Keeps, KernelFields
<1>2. /\ k'.tick = k.tick /\ k'.unblock = k.unblock
      /\ k'.count = k.count /\ k'.cleanup = k.cleanup /\ k'.running = k.running
      /\ k'.base = k.base
  BY DEF Keeps, KernelFields
<1>3. \A p : ReadyAt(k', p) = ReadyAt(k, p)
  BY <1>1 DEF ReadyAt
<1>4. Placed(k') = Placed(k)
  BY <1>1, <1>3 DEF Placed
<1>5. Quiet(k', k)
  <2>1. NoEvents(k') /\ Timed(k') /\ Idle \in ReadyAt(k', 0) /\ k'.base = k'.priority
    BY <1>1, <1>2, <1>3 DEF SchedInv, KernelInv, NoEvents, Timed
  <2>2. QED
    BY <1>1, <1>2, <1>4, <2>1 DEF Quiet
<1>6. k'.pended \in Nat
  BY <1>1 DEF SchedInv, KernelInv
<1>7. TopInv'
  <2>1. pc[k.current] \in Suspending /\ TopInv
    BY DEF SchedInv, SuspensionInv
  <2>2. BeforeYield(k.current)' <=> BeforeYield(k.current)
    BY <1>1 DEF BeforeYield
  <2>3. OnTop(k) => OnTop(k')
    BY <1>1, <1>3 DEF OnTop, CurrentIsReady
  <2>4. pc'[k'.current] # "created"
    BY <1>1, <2>1 DEF Suspending
  <2>5. pc'[k'.current] # "resume_all" /\ ~BeforeYield(k.current)' => OnTop(k')
    BY <1>1, <2>1, <2>2, <2>3 DEF TopInv
  <2>6. QED
    BY <2>1, <2>4, <2>5 DEF TopInv
<1>8. QED
  BY <1>1, <1>5, <1>6, <1>7, StayStep

LEMMA NotifyFromISRKeeps ==
    ASSUME SchedInv, NotifyFromISR
    PROVE  SchedInv'
<1>1. /\ "notify_isr" \in calls
      /\ pc' = pc /\ arg' = arg /\ prev' = prev /\ calls' = calls /\ held' = held
  BY DEF NotifyFromISR
<1>2. PICK u \in Others, action \in Actions : k' = NotifyAndYield(k, u, 1, action)
  BY DEF NotifyFromISR, NotifyAndYield
<1>3. /\ Good(k) /\ NoEvents(k) /\ k.suspensions \in {0, 1} /\ k.pended \in Nat
      /\ DOMAIN k.notify = Task /\ DOMAIN k.value = Task /\ held \subseteq Task
  BY DEF SchedInv, KernelInv, TypeInv
<1>4. u \in Task /\ u \notin Elements(k.termination)
  BY OthersAre
<1> DEFINE S == IF k.suspensions = 0 /\ k.notify[u] = "waiting" THEN {u} ELSE {}
<1>5. CASE k.suspensions = 0 \/ k.notify[u] # "waiting"
  <2>1. NotifiedBy(k', k, u, 1, action, S)
    <3>1. CASE k.notify[u] = "waiting"
      <4>1. k.suspensions = 0 /\ S = {u}
        BY <1>5, <3>1
      <4>2. u \notin Elements(k.pending)
        BY <4>1 DEF SchedInv, PendingInv
      <4>3. NotifiedBy(NotifyAndYield(k, u, 1, action), k, u, 1, action, {u})
        BY <1>3, <1>4, <3>1, <4>1, <4>2, NotifyIs
      <4>4. QED
        BY <1>2, <4>1, <4>3
    <3>2. CASE k.notify[u] # "waiting"
      <4>1. S = {}
        BY <3>2
      <4>2. NotifiedBy(NotifyAndYield(k, u, 1, action), k, u, 1, action, {})
        BY <1>3, <1>4, <3>2, NotifyIdleIs
      <4>3. QED
        BY <1>2, <4>1, <4>2
    <3>3. QED
      BY <3>1, <3>2
  <2>2. /\ S = {} \/ (S = {u} /\ k.notify[u] = "waiting")
        /\ k.suspensions = 1 => S = {}
    OBVIOUS
  <2> HIDE DEF S
  <2>3. /\ Quiet(k', k) /\ Readied(k', k, S) /\ S \subseteq Task
        /\ k'.current = k.current /\ k'.suspensions = k.suspensions
        /\ k'.pended = k.pended /\ Elements(k'.pending) = Elements(k.pending) \ S
        /\ \A x \in S : k.priority[x] > k.priority[k.current] => k'.pendsv
        /\ OnTop(k) => OnTop(k') \/ k'.pendsv
        /\ \A x \in held : x \in Elements(k'.suspended) /\ k'.notify[x] # "waiting"
    BY <2>1, <2>2, NotifiedFacts
  <2>4. /\ k.pendsv => k'.pendsv
        /\ k'.notify = [k.notify EXCEPT ![u] = "received"]
    BY <2>1 DEF NotifiedBy
  <2>5. PendingInv'
    <3>1. \A x \in Task : k'.notify[x] = "waiting" => k.notify[x] = "waiting"
      BY <1>3, <2>4
    <3>2. Elements(k.pending) \subseteq Task
      BY <1>3 DEF Good, Sound, Shape, IsList, Elements
    <3>3. QED
      BY <1>1, <2>3, <3>1, <3>2 DEF SchedInv, PendingInv, Exists
  <2>6. HeldInv'
    BY <1>1, <2>3 DEF HeldInv
  <2>7. TopInv'
    BY <1>1, <2>2, <2>3, <2>4, TopReadied
  <2>8. k'.pended \in Nat
    BY <1>3, <2>3
  <2>9. QED
    BY <1>1, <1>3, <2>3, <2>5, <2>6, <2>7, <2>8, StayStep
<1>6. CASE k.suspensions # 0 /\ k.notify[u] = "waiting"
  <2>1. k.suspensions = 1 /\ k.notify[u] = "waiting"
    BY <1>3, <1>6
  <2>2. u \notin Elements(k.pending) /\ u \notin held
    BY <1>1, <2>1 DEF SchedInv, PendingInv, HeldInv
  <2> DEFINE j == NotifyAndYield(k, u, 1, action)
  <2>3. PendedBy(j, k, u, 1, action)
    BY <1>3, <1>4, <2>1, <2>2, NotifyLaterIs
  <2>4. k' = j
    BY <1>2
  <2> HIDE DEF j
  <2>5. {"pending", "yield", "pendsv"} \cup NotifyFields
          = {"pending", "yield", "pendsv", "value", "notify"}
    BY DEF NotifyFields
  <2>6. /\ Keeps(k', k, {"pending", "yield", "pendsv", "value", "notify"})
        /\ Good(k') /\ DOMAIN k'.notify = Task /\ DOMAIN k'.value = Task
        /\ Elements(k'.pending) = Elements(k.pending) \cup {u}
        /\ k'.notify = [k.notify EXCEPT ![u] = "received"]
    BY <1>3, <2>3, <2>4, <2>5 DEF PendedBy
  <2>7. k'.suspensions = 1 /\ k'.suspended = k.suspended
    BY <2>1, <2>6 DEF Keeps, KernelFields
  <2>8. \A x \in Task : k'.notify[x] = "waiting" => k.notify[x] = "waiting" /\ x # u
    BY <1>3, <2>6
  <2>9. PendingInv'
    <3>1. ASSUME NEW x \in Elements(k'.pending)
          PROVE  /\ Exists(x)' /\ pc'[x] # "deleted" /\ x \notin held'
                 /\ k'.notify[x] = "waiting" => "notify_isr" \notin calls'
      <4>1. CASE x = u
        BY <1>1, <1>4, <2>2, <2>8, <4>1 DEF Others, Exists
      <4>2. CASE x # u
        <5>1. x \in Elements(k.pending)
          BY <2>6, <3>1, <4>2
        <5>2. /\ Exists(x) /\ pc[x] # "deleted" /\ x \notin held
              /\ k.notify[x] = "waiting" => "notify_isr" \notin calls
          BY <5>1 DEF SchedInv, PendingInv
        <5>3. x \in Task
          BY <1>3, <5>1 DEF Good, Sound, Shape, IsList, Elements
        <5>4. QED
          BY <1>1, <2>8, <5>2, <5>3 DEF Exists
      <4>3. QED
        BY <4>1, <4>2
    <3>2. QED
      BY <2>7, <3>1 DEF PendingInv
  <2>10. HeldInv'
    <3>1. \A x \in held : x \in Elements(k.suspended) /\ k.notify[x] # "waiting" /\ x \in Task
      BY <1>3 DEF SchedInv, HeldInv
    <3>2. QED
      BY <1>1, <2>7, <2>8, <3>1 DEF HeldInv
  <2>11. QED
    BY <1>1, <1>3, <2>1, <2>6, <2>9, <2>10, PendsStep
<1>7. QED
  BY <1>5, <1>6

LEMMA ResumeFromISRKeeps ==
    ASSUME ResumesKnown, SchedInv, ResumeFromISR
    PROVE  SchedInv'
<1>1. pc' = pc /\ arg' = arg /\ prev' = prev /\ calls' = calls
  BY DEF ResumeFromISR
<1>2. PICK u \in Others :
         /\ ("resume_isr" \in calls /\ u \in held) \/ "resume_isr_any" \in calls
         /\ k' = ResumeAndYield(k, u)
         /\ held' = held \ {u}
  BY DEF ResumeFromISR, ResumeAndYield
<1>3. /\ Good(k) /\ NoEvents(k) /\ k.suspensions \in {0, 1} /\ k.pended \in Nat
      /\ DOMAIN k.notify = Task /\ DOMAIN k.value = Task /\ held \subseteq Task
      /\ k.current \in Task /\ calls \in Calls
  BY DEF SchedInv, KernelInv, TypeInv, Timed
<1>4. u \in Task /\ u \notin Elements(k.termination) /\ held' \subseteq Task
  BY <1>2, <1>3, OthersAre
<1>5. CASE ~SuspendedTask(k, u)
  <2>1. k' = k
    BY <1>2, <1>3, <1>5, ResumeNotSuspended
  <2>2. Quiet(k, k)
    BY DEF Quiet, SchedInv, KernelInv
  <2>3. HeldInv'
    BY <1>2, <2>1, HeldKept DEF SchedInv
  <2>4. PendingInv'
    BY <1>1, <1>2, <2>1 DEF SchedInv, PendingInv, Exists
  <2>5. TopInv'
    BY <1>1, <2>1 DEF SchedInv, TopInv, BeforeYield
  <2>6. QED
    BY <1>1, <1>3, <1>4, <2>1, <2>2, <2>3, <2>4, <2>5, StayStep
<1>6. CASE SuspendedTask(k, u) /\ k.suspensions = 0
  <2>1. MadeReadyBy(k', k, u)
    BY <1>2, <1>3, <1>4, <1>6, ResumeFromISRIs
  <2>2. /\ Quiet(k', k) /\ Readied(k', k, {u})
        /\ k'.current = k.current /\ k'.suspensions = k.suspensions
        /\ k'.pended = k.pended /\ Elements(k'.pending) = Elements(k.pending) \ {u}
        /\ k'.notify = k.notify
        /\ k.priority[u] > k.priority[k.current] => k'.pendsv
        /\ OnTop(k) => OnTop(k') \/ k'.pendsv
        /\ \A x \in held \ {u} : x \in Elements(k'.suspended) /\ k'.notify[x] # "waiting"
    BY <1>6, <2>1, ResumedFacts
  <2>3. PendingInv'
    BY <1>6, <2>2, NothingPended DEF SchedInv, PendingInv
  <2>4. HeldInv'
    BY <1>2, <2>2 DEF HeldInv
  <2>5. TopInv'
    <3>1. k.pendsv => k'.pendsv
      BY <2>1 DEF MadeReadyBy
    <3>2. {u} \subseteq Task /\ k.suspensions # 1
      BY <1>4, <1>6
    <3>3. \A x \in {u} : k.priority[x] > k.priority[k.current] => k'.pendsv
      BY <2>2
    <3>4. QED
      BY <1>1, <2>2, <3>1, <3>2, <3>3, TopReadied
  <2>6. k'.pended \in Nat
    BY <1>3, <2>2
  <2>7. QED
    BY <1>1, <1>4, <2>2, <2>3, <2>4, <2>5, <2>6, StayStep
<1>7. CASE SuspendedTask(k, u) /\ k.suspensions = 1
  <2>1. /\ Keeps(k', k, {"pending"})
        /\ Good(k')
        /\ Elements(k'.pending) = Elements(k.pending) \cup {u}
    BY <1>2, <1>3, <1>4, <1>7, ResumeLaterIs
  <2>2. /\ k'.suspensions = 1 /\ k'.suspended = k.suspended /\ k'.notify = k.notify
        /\ k'.value = k.value
    BY <1>7, <2>1 DEF Keeps, KernelFields
  <2>3. Keeps(k', k, {"pending", "yield", "pendsv", "value", "notify"})
    BY <2>1 DEF Keeps
  <2>4. k.notify[u] = "waiting" => "notify_isr" \notin calls
    <3>1. CASE u \in held
      BY <3>1 DEF SchedInv, HeldInv
    <3>2. CASE u \notin held
      <4>1. "resume_isr_any" \in calls
        BY <1>2, <3>2
      <4>2. calls \cap Suspends # {}
        BY <1>7 DEF SchedInv, SuspensionInv
      <4>3. QED
        BY <1>3, <4>1, <4>2 DEF ResumesKnown
    <3>3. QED
      BY <3>1, <3>2
  <2>5. PendingInv'
    <3>1. ASSUME NEW x \in Elements(k'.pending)
          PROVE  /\ Exists(x)' /\ pc'[x] # "deleted" /\ x \notin held'
                 /\ k'.notify[x] = "waiting" => "notify_isr" \notin calls'
      <4>1. CASE x = u
        BY <1>1, <1>2, <2>2, <2>4, <4>1 DEF Others, Exists
      <4>2. CASE x # u
        <5>1. x \in Elements(k.pending)
          BY <2>1, <3>1, <4>2
        <5>2. /\ Exists(x) /\ pc[x] # "deleted" /\ x \notin held
              /\ k.notify[x] = "waiting" => "notify_isr" \notin calls
          BY <5>1 DEF SchedInv, PendingInv
        <5>3. QED
          BY <1>1, <1>2, <2>2, <5>2 DEF Exists
      <4>3. QED
        BY <4>1, <4>2
    <3>2. QED
      BY <2>2, <3>1 DEF PendingInv
  <2>6. HeldInv'
    BY <1>2, <2>2, HeldKept DEF SchedInv
  <2>7. QED
    BY <1>1, <1>3, <1>4, <1>7, <2>1, <2>2, <2>3, <2>5, <2>6, PendsStep
<1>8. QED
  BY <1>3, <1>5, <1>6, <1>7

-----------------------------------------------------------------------------
(* The kernel main starts *)

LEMMA InitKeeps ==
    Init => SchedInv /\ k.tick = 0 /\ Late(k) = {} /\ k.value \in [Task -> Nat]
<1> SUFFICES ASSUME Init
             PROVE  SchedInv /\ k.tick = 0 /\ Late(k) = {} /\ k.value \in [Task -> Nat]
  OBVIOUS
<1> DEFINE b == FoldLeft(xTaskCreate, EmptyKernel, FirstTasks)
           c == xTaskCreate(b, <<Idle, 0>>)
           S == CreatedFirst(FirstTasks, Len(FirstTasks))
<1>1. /\ k = BootedKernel(FirstTasks, Idle)
      /\ pc = [t \in Task |->
                 IF t = Idle \/ \E i \in DOMAIN FirstTasks : FirstTasks[i][1] = t
                   THEN "run" ELSE "none"]
      /\ arg = [t \in Task |-> 0] /\ prev = [t \in Task |-> 0]
      /\ calls \in Calls /\ held = {}
  BY DEF Init
<1>2. k = [c EXCEPT !.running = TRUE, !.unblock = portMAX_DELAY]
  BY <1>1 DEF BootedKernel, vTaskStartScheduler
<1>3. DOMAIN FirstTasks = 1 .. Len(FirstTasks)
      /\ \A i \in DOMAIN FirstTasks : FirstTasks[i][1] # Idle
  <2>1. FirstTasks \in Seq((Task \ {Idle}) \X Priority)
    BY TasksAssumption
  <2>2. QED
    BY <2>1
<1>4. \A t : t \in S <=> \E i \in DOMAIN FirstTasks : FirstTasks[i][1] = t
  BY <1>3 DEF CreatedFirst
<1>5. Idle \in Task /\ Idle \notin S
  BY <1>3, <1>4, TasksAssumption
<1>6. Booting(b, S)
  <2>1. FirstTasks \in Seq(Task \X Priority)
    BY TasksAssumption
  <2>2. \A i, j \in DOMAIN FirstTasks : FirstTasks[i][1] = FirstTasks[j][1] => i = j
    BY TasksAssumption
  <2>3. QED
    BY <2>1, <2>2, BootTasks
<1>7. Clamped(0) = 0
  BY PrioritiesAssumption DEF Clamped
<1> HIDE DEF b, S
<1>8. Booting(c, S \cup {Idle}) /\ Idle \in ReadyAt(c, 0)
  <2>1. 0 \in Nat
    OBVIOUS
  <2>2. QED
    BY <1>5, <1>6, <1>7, <2>1, BootStep
<1> HIDE DEF c
<1>9. \A t \in Task : Exists(t) <=> t \in S \cup {Idle}
  BY <1>1, <1>4 DEF Exists
<1>10. Existing = S \cup {Idle}
  <2>1. S \cup {Idle} \subseteq Task
    BY <1>8 DEF Booting
  <2>2. QED
    BY <1>9, <2>1 DEF Existing
<1>11. Good(c) /\ NoEvents(c) /\ OnTop(c) /\ DOMAIN c = KernelFields
  BY <1>8 DEF Booting, Good, Sound, Shape
<1>12. Keeps(k, c, {"running", "unblock"}) /\ k.running = TRUE /\ k.unblock = portMAX_DELAY
  BY <1>2, <1>11 DEF Keeps, KernelFields
<1> HIDE DEF Init
<1>13. Readied(k, c, {})
  BY <1>11, <1>12, FlagsReadied DEF Flags
<1>14. /\ Good(k) /\ \A p \in Priority : ReadyAt(k, p) = ReadyAt(c, p)
       /\ k.top = c.top /\ k.delayed = c.delayed /\ k.overflow = c.overflow
       /\ k.suspended = c.suspended /\ k.termination = c.termination
       /\ k.pending = c.pending /\ k.events = c.events /\ k.priority = c.priority
       /\ k.current = c.current /\ k.base = c.base /\ k.notify = c.notify
       /\ k.value = c.value /\ k.tick = c.tick /\ k.pended = c.pended
       /\ k.suspensions = c.suspensions /\ k.pendsv = c.pendsv
       /\ k.count = c.count /\ k.cleanup = c.cleanup /\ k.ready = c.ready
  <2>1. Good(k)
    BY <1>13 DEF Readied
  <2>2. k.ready = c.ready
    BY <1>12 DEF Keeps, KernelFields
  <2>3. QED
    BY <1>12, <2>1, <2>2 DEF Keeps, KernelFields, ReadyAt
<1>15. portMAX_DELAY \in Int
  BY TickAssumption DEF portMAX_DELAY
<1>16. CurrentIsReady(k) /\ OnTop(k)
  BY <1>11, <1>14 DEF OnTop, CurrentIsReady, ReadyAt
<1>17. KernelInv
  <2>1. Timed(k)
    BY <1>8, <1>12, <1>14, <1>15, <1>16 DEF Timed, Booting, CurrentIsReady
  <2>2. NoEvents(k)
    BY <1>11, <1>14 DEF NoEvents
  <2>3. Idle \in ReadyAt(k, 0)
    BY <1>8, <1>14, PrioritiesNumbers
  <2>4. QED
    BY <1>8, <1>12, <1>14, <2>1, <2>2, <2>3 DEF KernelInv, Booting
<1>18. \A t \in Task : pc[t] \in {"run", "none"}
  BY <1>1
<1>19. TypeInv
  BY <1>1, <1>18 DEF TypeInv
<1>20. SuspensionInv
  BY <1>8, <1>14, <1>18 DEF SuspensionInv, Suspending, Booting
<1>21. PlacesInv
  <2>1. Placed(k) = Placed(c)
    BY <1>14 DEF Placed
  <2>2. Elements(k.termination) = {t \in Task : pc[t] = "deleted"}
    BY <1>8, <1>14, <1>18 DEF Booting
  <2>3. pc[Idle] = "run"
    BY <1>1, <1>5
  <2>4. QED
    BY <1>8, <1>10, <1>14, <2>1, <2>2, <2>3 DEF PlacesInv, Booting
<1>22. PendingInv
  BY <1>8, <1>14 DEF PendingInv, Booting
<1>23. HeldInv /\ FreeInv
  BY <1>1, <1>18 DEF HeldInv, FreeInv
<1>24. TopInv
  <2>1. k.current \in Task
    BY <1>16 DEF CurrentIsReady
  <2>2. pc[k.current] # "created"
    BY <1>18, <2>1
  <2>3. QED
    BY <1>16, <1>18, <2>2 DEF TopInv
<1>25. k.tick = 0 /\ Late(k) = {} /\ k.value \in [Task -> Nat]
  BY <1>8, <1>14 DEF Booting, Late
<1>26. QED
  BY <1>17, <1>19, <1>20, <1>21, <1>22, <1>23, <1>24, <1>25 DEF SchedInv

-----------------------------------------------------------------------------
(* Every step keeps the invariant *)

\* The calls of the tasks.
LEMMA TaskKeeps ==
    ASSUME SchedInv, NEW t \in Task, TaskStep(t)
    PROVE  SchedInv'
<1>1. CASE Yield(t)
  BY <1>1, YieldKeeps
<1>2. CASE Delay(t)
  BY <1>2, DelayKeeps
<1>3. CASE DelayAdd(t)
  BY <1>3, DelayAddKeeps
<1>4. CASE DelayUntil(t)
  BY <1>4, DelayUntilKeeps
<1>5. CASE DelayUntilAdd(t)
  BY <1>5, DelayUntilAddKeeps
<1>6. CASE ResumeAllAndYield(t) \/ ResumeAll(t)
  BY <1>6, ResumeAllKeeps
<1>7. CASE SuspendAll(t) \/ CatchUpTicks(t)
  BY <1>7, SuspendAllKeeps
<1>8. CASE NotifyTake(t)
  BY <1>8, NotifyTakeKeeps
<1>9. CASE NotifyWait(t)
  BY <1>9, NotifyWaitKeeps
<1>10. CASE NotifyTakeReturn(t) \/ NotifyWaitReturn(t)
  BY <1>10, NotifyReturnKeeps
<1>11. CASE Notify(t)
  BY <1>11, NotifyKeeps
<1>12. CASE NotifyClear(t)
  BY <1>12, NotifyClearKeeps
<1>13. CASE Create(t)
  BY <1>13, CreateKeeps
<1>14. CASE CreateReturn(t)
  BY <1>14, CreateReturnKeeps
<1>15. CASE Delete(t)
  BY <1>15, DeleteKeeps
<1>16. CASE DeleteYield(t)
  BY <1>16, DeleteYieldKeeps
<1>17. CASE DeleteTCB(t)
  BY <1>17, DeleteTCBKeeps
<1>18. CASE Suspend(t)
  BY <1>18, SuspendKeeps
<1>19. CASE SuspendReturn(t)
  BY <1>19, SuspendReturnKeeps
<1>20. CASE Resume(t)
  BY <1>20, ResumeKeeps
<1>21. CASE PrioritySet(t)
  BY <1>21, PrioritySetKeeps
<1>22. QED
  BY <1>1, <1>2, <1>3, <1>4, <1>5, <1>6, <1>7, <1>8, <1>9, <1>10, <1>11, <1>12, <1>13,
     <1>14, <1>15, <1>16, <1>17, <1>18, <1>19, <1>20, <1>21 DEF TaskStep

LEMMA NextKeeps ==
    ASSUME ResumesKnown, SchedInv, Next
    PROVE  SchedInv'
<1>1. CASE PendSV
  BY <1>1, PendSVKeeps
<1>2. CASE NotifyFromISR
  BY <1>2, NotifyFromISRKeeps
<1>3. CASE ResumeFromISR
  BY <1>3, ResumeFromISRKeeps
<1>4. CASE IdleCleanUp
  BY <1>4, IdleCleanUpKeeps
<1>5. CASE \E t \in Task : TaskStep(t)
  BY <1>5, TaskKeeps
<1>6. CASE SysTick
  BY <1>6, SysTickKeeps
<1>7. CASE \E t \in Task, n \in Delays : CatchUpTicksPend(t, n)
  BY <1>7, CatchUpTicksPendKeeps
<1>8. QED
  BY <1>1, <1>2, <1>3, <1>4, <1>5, <1>6, <1>7 DEF Next, Interrupt

LEMMA StutterKeeps ==
    ASSUME SchedInv, UNCHANGED vars
    PROVE  SchedInv'
<1>1. k' = k /\ pc' = pc /\ arg' = arg /\ prev' = prev /\ calls' = calls /\ held' = held
  BY DEF vars
<1>2. QED
  BY <1>1 DEF SchedInv, KernelInv, TypeInv, SuspensionInv, PlacesInv, PendingInv, HeldInv,
              FreeInv, TopInv, BeforeYield, Existing, Exists

\* SchedInv is an invariant: the state of every task and its place in the
\* lists agree, through every call, interrupt and switch.
THEOREM SchedulerInv ==
    ASSUME ResumesKnown PROVE Spec => []SchedInv
<1>1. SchedInv /\ [Next]_vars => SchedInv'
  BY NextKeeps, StutterKeeps
<1>2. QED
  BY <1>1, InitKeeps, PTL DEF Spec

-----------------------------------------------------------------------------
(* What the invariant says to the properties *)

\* The running task is the one the optimised selection would find.
LEMMA TopShows == SchedInv => HighestPriorityRuns
<1> SUFFICES ASSUME SchedInv, k.suspensions = 0, ~k.pendsv, ~BeforeYield(k.current)
             PROVE  /\ Contained(k.current, k.ready[k.priority[k.current]])
                    /\ k.top \subseteq 0 .. k.priority[k.current]
  BY DEF HighestPriorityRuns
<1>1. k.current \in Task
  BY DEF SchedInv, KernelInv, Timed
<1>2. pc[k.current] # "resume_all"
  BY <1>1 DEF SchedInv, SuspensionInv, Suspending
<1>3. OnTop(k)
  BY <1>2 DEF SchedInv, TopInv
<1>4. Contained(k.current, k.ready[k.priority[k.current]])
  BY <1>3 DEF OnTop, CurrentIsReady, ReadyAt, Elements, Contained, ToSet
<1>5. k.top \subseteq Priority /\ k.priority[k.current] \in Priority
  BY <1>1 DEF SchedInv, KernelInv, Good, Sound, Shape
<1>6. \A p \in k.top : p \in Nat /\ p <= k.priority[k.current]
  BY <1>3, <1>5 DEF OnTop, Priority
<1>7. k.priority[k.current] \in Nat
  BY <1>5 DEF Priority
<1>8. QED
  BY <1>4, <1>6, <1>7

\* A list has a task once, or not at all.
LEMMA OccurrencesAre ==
    ASSUME NEW s, Once(s), NEW t
    PROVE  Occurrences(t, s) = IF t \in Elements(s) THEN 1 ELSE 0
<1>1. CASE t \in Elements(s)
  <2>1. PICK i \in DOMAIN s : s[i] = t
    BY <1>1 DEF Elements
  <2>2. {x \in DOMAIN s : s[x] = t} = {i}
    BY <2>1 DEF Once
  <2>3. Cardinality({i}) = 1
    BY FS_Singleton
  <2>4. QED
    BY <1>1, <2>2, <2>3 DEF Occurrences
<1>2. CASE t \notin Elements(s)
  <2>1. {x \in DOMAIN s : s[x] = t} = {}
    BY <1>2 DEF Elements
  <2>2. Cardinality({}) = 0
    BY FS_EmptySet
  <2>3. QED
    BY <1>2, <2>1, <2>2 DEF Occurrences
<1>3. QED
  BY <1>1, <1>2

\* A list of tasks, each of them once, is no longer than there are tasks.
LEMMA ListLength ==
    ASSUME NEW s, IsList(s, Task)
    PROVE  Len(s) <= Cardinality(Task)
<1>1. s \in Seq(Task) /\ Len(s) \in Nat /\ DOMAIN s = 1 .. Len(s)
  BY DEF IsList
<1>2. s \in Injection(1 .. Len(s), Task)
  BY <1>1 DEF IsList, Once, Injection, IsInjective
<1>3. IsFiniteSet(Task)
  BY TasksAssumption
<1>4. Cardinality(1 .. Len(s)) <= Cardinality(Task)
  BY <1>2, <1>3, FS_Injection
<1>5. Cardinality(1 .. Len(s)) = IF 1 > Len(s) THEN 0 ELSE Len(s) - 1 + 1
  BY <1>1, FS_Interval, SMTT(20)
<1>6. Cardinality(1 .. Len(s)) = Len(s)
  BY <1>1, <1>5
<1>7. QED
  BY <1>4, <1>6

\* The places of a task in the ready lists.
ReadyPlaces(t) ==
    {x \in Priority \X (1 .. Cardinality(Task)) :
       /\ x[2] \in DOMAIN k.ready[x[1]].items
       /\ k.ready[x[1]].items[x[2]] = t}

LEMMA ReadyPlacesAre ==
    ASSUME Good(k), NEW t
    PROVE  Cardinality(ReadyPlaces(t)) = IF t \in Ready(k) THEN 1 ELSE 0
<1>1. \A p \in Priority : IsList(k.ready[p].items, Task)
  BY DEF Good, Sound, Shape, IsReadyList
<1>2. \A p, q \in Priority : p # q => ReadyAt(k, p) \cap ReadyAt(k, q) = {}
  BY DEF Good, Sound, Apart
<1>3. t \in Ready(k) <=> \E p \in Priority : t \in ReadyAt(k, p)
  BY DEF Ready
<1>4. CASE t \in Ready(k)
  <2>1. PICK p \in Priority : t \in ReadyAt(k, p)
    BY <1>3, <1>4
  <2>2. PICK i \in DOMAIN k.ready[p].items : k.ready[p].items[i] = t
    BY <2>1 DEF ReadyAt, Elements
  <2>3. i \in 1 .. Cardinality(Task)
    <3>1. IsList(k.ready[p].items, Task)
      BY <1>1
    <3>2. i \in 1 .. Len(k.ready[p].items) /\ Len(k.ready[p].items) \in Nat
      BY <2>2, <3>1 DEF IsList
    <3>3. Len(k.ready[p].items) <= Cardinality(Task)
      BY <3>1, ListLength
    <3>4. IsFiniteSet(Task)
      BY TasksAssumption
    <3>5. Cardinality(Task) \in Nat
      BY <3>4, FS_CardinalityType
    <3>6. QED
      BY <3>2, <3>3, <3>5
  <2>4. <<p, i>> \in ReadyPlaces(t)
    BY <2>2, <2>3 DEF ReadyPlaces
  <2>5. ASSUME NEW x \in ReadyPlaces(t) PROVE x = <<p, i>>
    <3>1. PICK q \in Priority, n \in 1 .. Cardinality(Task) : x = <<q, n>>
      BY DEF ReadyPlaces
    <3>2. n \in DOMAIN k.ready[q].items /\ k.ready[q].items[n] = t
      BY <3>1 DEF ReadyPlaces
    <3>3. t \in ReadyAt(k, q)
      BY <3>2 DEF ReadyAt, Elements
    <3>4. q = p
      BY <1>2, <2>1, <3>3
    <3>5. n = i
      BY <1>1, <2>2, <3>2, <3>4 DEF IsList, Once
    <3>6. QED
      BY <3>1, <3>4, <3>5
  <2>6. ReadyPlaces(t) = {<<p, i>>}
    BY <2>4, <2>5
  <2>7. Cardinality({<<p, i>>}) = 1
    BY FS_Singleton
  <2>8. QED
    BY <1>4, <2>6, <2>7
<1>5. CASE t \notin Ready(k)
  <2>1. ASSUME NEW x \in ReadyPlaces(t) PROVE FALSE
    <3>1. x[1] \in Priority /\ x[2] \in DOMAIN k.ready[x[1]].items
          /\ k.ready[x[1]].items[x[2]] = t
      BY DEF ReadyPlaces
    <3>2. t \in ReadyAt(k, x[1])
      BY <3>1 DEF ReadyAt, Elements
    <3>3. QED
      BY <1>3, <1>5, <3>1, <3>2
  <2>2. ReadyPlaces(t) = {}
    BY <2>1
  <2>3. Cardinality({}) = 0
    BY FS_EmptySet
  <2>4. QED
    BY <1>5, <2>2, <2>3
<1>6. QED
  BY <1>4, <1>5

\* What is counted agrees with what is in the lists.
LEMMA ListsShow == SchedInv => ListsConsistent
<1> SUFFICES ASSUME SchedInv PROVE ListsConsistent
  OBVIOUS
<1>1. /\ Good(k) /\ Placed(k) = Existing /\ k.cleanup = Len(k.termination)
      /\ k.count = Cardinality(Existing)
      /\ \A t \in Elements(k.pending) : Exists(t)
  BY DEF SchedInv, KernelInv, PlacesInv, PendingInv
<1>2. /\ Once(k.delayed) /\ Once(k.overflow) /\ Once(k.suspended) /\ Once(k.termination)
      /\ Once(k.pending)
  BY <1>1 DEF Good, Sound, Shape, IsList
<1>3. ASSUME NEW t \in Task
      PROVE  StateItemPlaces(t) = IF Exists(t) THEN 1 ELSE 0
  <2>1. /\ Occurrences(t, k.delayed) = IF t \in Elements(k.delayed) THEN 1 ELSE 0
        /\ Occurrences(t, k.overflow) = IF t \in Elements(k.overflow) THEN 1 ELSE 0
        /\ Occurrences(t, k.suspended) = IF t \in Elements(k.suspended) THEN 1 ELSE 0
        /\ Occurrences(t, k.termination) = IF t \in Elements(k.termination) THEN 1 ELSE 0
    BY <1>2, OccurrencesAre
  <2>2. Cardinality(ReadyPlaces(t)) = IF t \in Ready(k) THEN 1 ELSE 0
    BY <1>1, ReadyPlacesAre
  <2>3. Exists(t) <=> t \in Placed(k)
    BY <1>1 DEF Existing
  <2>4. t \in Placed(k) <=> \/ t \in Ready(k) \/ t \in Elements(k.delayed)
                            \/ t \in Elements(k.overflow) \/ t \in Elements(k.suspended)
                            \/ t \in Elements(k.termination)
    BY DEF Placed, Ready
  <2>5. /\ t \in Ready(k) => /\ t \notin Elements(k.delayed) /\ t \notin Elements(k.overflow)
                             /\ t \notin Elements(k.suspended) /\ t \notin Elements(k.termination)
        /\ t \in Elements(k.delayed) => /\ t \notin Elements(k.overflow)
                                     /\ t \notin Elements(k.suspended)
                                     /\ t \notin Elements(k.termination)
        /\ t \in Elements(k.overflow) => /\ t \notin Elements(k.suspended)
                                      /\ t \notin Elements(k.termination)
        /\ t \in Elements(k.suspended) => t \notin Elements(k.termination)
    BY <1>1 DEF Good, Sound, Apart, Ready
  <2>6. StateItemPlaces(t) = Occurrences(t, k.delayed) + Occurrences(t, k.overflow)
                             + Occurrences(t, k.suspended) + Occurrences(t, k.termination)
                             + Cardinality(ReadyPlaces(t))
    BY DEF StateItemPlaces, ReadyPlaces
  <2>7. QED
    BY <2>1, <2>2, <2>3, <2>4, <2>5, <2>6
<1>4. \A t \in Task : Occurrences(t, k.pending) <= IF Exists(t) THEN 1 ELSE 0
  BY <1>1, <1>2, OccurrencesAre
<1>5. ASSUME NEW p \in Priority
      PROVE  /\ p \in k.top <=> k.ready[p].items # << >>
             /\ k.ready[p].index \in 0 .. Len(k.ready[p].items)
             /\ \A i \in DOMAIN k.ready[p].items : k.priority[k.ready[p].items[i]] = p
  <2>1. IsReadyList(k.ready[p], Task) /\ k.top \subseteq Priority
    BY <1>1 DEF Good, Sound, Shape
  <2>2. k.ready[p].items \in Seq(Task) /\ k.ready[p].index \in 0 .. Len(k.ready[p].items)
    BY <2>1 DEF IsReadyList, IsList
  <2>3. ReadyAt(k, p) # {} <=> k.ready[p].items # << >>
    BY <2>2, ItemsEmpty DEF ReadyAt
  <2>4. p \in k.top <=> ReadyAt(k, p) # {}
    BY <1>1 DEF Good, TopRight
  <2>5. \A i \in DOMAIN k.ready[p].items : k.priority[k.ready[p].items[i]] = p
    BY <1>1 DEF Good, ByPriority, ReadyAt, Elements
  <2>6. QED
    BY <2>2, <2>3, <2>4, <2>5
<1>6. QED
  BY <1>1, <1>3, <1>4, <1>5 DEF ListsConsistent, Existing

\* A task that has been put away is in the suspended list, and waits for nothing.
LEMMA HeldShows == SchedInv => SuspendedStays
<1> SUFFICES ASSUME SchedInv, NEW t \in held
             PROVE  Occurrences(t, k.suspended) = 1 /\ ~EventItemInList(k, t)
  BY DEF SuspendedStays
<1>1. /\ Once(k.suspended) /\ NoEvents(k) /\ t \in Elements(k.suspended)
      /\ t \notin Elements(k.pending)
  BY DEF SchedInv, KernelInv, Good, Sound, Shape, IsList, HeldInv, PendingInv
<1>2. Occurrences(t, k.suspended) = 1
  BY <1>1, OccurrencesAre
<1>3. \A s : ToSet(s) = Elements(s)
  BY DEF ToSet, Elements
<1>4. QED
  BY <1>1, <1>2, <1>3 DEF EventItemInList, NoEvents

LEMMA PendedShows == SchedInv => PendedOnce
<1> SUFFICES ASSUME SchedInv, NEW t \in Task PROVE Occurrences(t, k.pending) <= 1
  BY DEF PendedOnce
<1>1. Once(k.pending)
  BY DEF SchedInv, KernelInv, Good, Sound, Shape, IsList
<1>2. QED
  BY <1>1, OccurrencesAre

\* The fields of the kernel that an interrupt may change while the scheduler
\* is suspended.
Deferred == {"pended", "pending", "yield", "pendsv", "value", "notify"}

LEMMA InterruptsDefer ==
    ASSUME SchedInv, k.suspensions = 1, Interrupt \/ SysTick
    PROVE  Keeps(k', k, Deferred)
<1>1. /\ Good(k) /\ NoEvents(k) /\ DOMAIN k = KernelFields
      /\ DOMAIN k.notify = Task /\ DOMAIN k.value = Task
  BY DEF SchedInv, KernelInv, Good, Sound, Shape
<1>2. k.suspensions > 0
  OBVIOUS
<1>3. CASE SysTick
  <2>1. k' = [k EXCEPT !.pended = @ + 1]
    BY <1>2, <1>3 DEF SysTick, xTaskIncrementTick, YieldIf
  <2>2. QED
    BY <1>1, <2>1 DEF Keeps, KernelFields, Deferred
<1>4. CASE PendSV
  <2>1. Keeps(vTaskSwitchContext(k), k, {"yield", "pendsv"})
    BY <1>1, <1>2, SwitchLater
  <2>2. QED
    BY <1>4, <2>1 DEF PendSV, Keeps, Deferred
<1>5. CASE NotifyFromISR
  <2>1. PICK u \in Others, action \in Actions : k' = NotifyAndYield(k, u, 1, action)
    BY <1>5 DEF NotifyFromISR, NotifyAndYield
  <2>2. u \in Task /\ "notify_isr" \in calls
    BY <1>5, OthersAre DEF NotifyFromISR
  <2>3. CASE k.notify[u] = "waiting"
    <3>1. u \notin Elements(k.pending)
      BY <2>2, <2>3 DEF SchedInv, PendingInv
    <3>2. PendedBy(NotifyAndYield(k, u, 1, action), k, u, 1, action)
      BY <1>1, <2>2, <2>3, <3>1, NotifyLaterIs
    <3>3. QED
      BY <2>1, <3>2 DEF PendedBy, Keeps, NotifyFields, Deferred
  <2>4. CASE k.notify[u] # "waiting"
    <3>1. Keeps(NotifyAndYield(k, u, 1, action), k, NotifyFields)
      BY <1>1, <2>2, <2>4, NotifyIdleKeeps
    <3>2. QED
      BY <2>1, <3>1 DEF Keeps, NotifyFields, Deferred
  <2>5. QED
    BY <2>3, <2>4
<1>6. CASE ResumeFromISR
  <2>1. PICK u \in Others : k' = ResumeAndYield(k, u)
    BY <1>6 DEF ResumeFromISR, ResumeAndYield
  <2>2. u \in Task
    BY OthersAre
  <2>3. CASE SuspendedTask(k, u)
    <3>1. Keeps(ResumeAndYield(k, u), k, {"pending"})
      BY <1>1, <2>2, <2>3, ResumeLaterIs
    <3>2. QED
      BY <2>1, <3>1 DEF Keeps, Deferred
  <2>4. CASE ~SuspendedTask(k, u)
    <3>1. k' = k
      BY <1>1, <2>1, <2>4, ResumeNotSuspended
    <3>2. QED
      BY <1>1, <3>1 DEF Keeps
  <2>5. QED
    BY <2>3, <2>4
<1>7. QED
  BY <1>3, <1>4, <1>5, <1>6 DEF Interrupt

\* A task that has suspended the scheduler moves on with every step it takes.
LEMMA SuspenderMoves ==
    ASSUME SchedInv, k.suspensions = 1, NEW t \in Task,
           TaskStep(t) \/ (t = Idle /\ IdleCleanUp)
             \/ \E n \in Delays : CatchUpTicksPend(t, n)
    PROVE  pc' # pc
<1>1. DOMAIN pc = Task /\ pc[k.current] \in Suspending
  BY DEF SchedInv, TypeInv, SuspensionInv
<1>2. \A w : At(t, w) => pc[t] = w /\ w \in Suspending
  BY <1>1 DEF At
<1>3. \A w : Goes(t, w) => pc'[t] = w
  BY <1>1 DEF Goes
<1>4. /\ ~At(t, "run") /\ ~At(t, "yield") /\ ~At(t, "take") /\ ~At(t, "wait")
      /\ ~At(t, "created") /\ ~At(t, "deleted") /\ ~At(t, "free") /\ ~At(t, "suspend")
      /\ \A call : ~May(t, call)
  BY <1>2 DEF Suspending, May
<1>5. CASE DelayAdd(t) \/ DelayUntilAdd(t)
  <2>1. pc[t] \in {"delay", "delay_until"} /\ pc'[t] = "resume_all"
    BY <1>2, <1>3, <1>5 DEF DelayAdd, DelayUntilAdd
  <2>2. QED
    BY <2>1
<1>6. CASE ResumeAllAndYield(t) \/ ResumeAll(t)
  <2>1. pc[t] \in {"resume_all", "suspended_all"} /\ pc'[t] \in {"run", "yield"}
    BY <1>2, <1>3, <1>6, Zenon DEF ResumeAllAndYield, ResumeAll
  <2>2. QED
    BY <2>1
<1>7. CASE \E n \in Delays : CatchUpTicksPend(t, n)
  <2>1. pc[t] = "catch_up" /\ pc'[t] = "suspended_all"
    BY <1>2, <1>3, <1>7 DEF CatchUpTicksPend
  <2>2. QED
    BY <2>1
<1>8. ~(t = Idle /\ IdleCleanUp)
  BY <1>4 DEF IdleCleanUp
<1>9. TaskStep(t) => DelayAdd(t) \/ DelayUntilAdd(t) \/ ResumeAllAndYield(t) \/ ResumeAll(t)
  BY <1>4 DEF TaskStep, Yield, Delay, DelayUntil, SuspendAll, CatchUpTicks, NotifyTake,
              NotifyTakeReturn, NotifyWait, NotifyWaitReturn, Notify, NotifyClear, Create,
              CreateReturn, Delete, DeleteYield, DeleteTCB, Suspend, SuspendReturn, Resume,
              PrioritySet
<1>10. QED
  BY <1>5, <1>6, <1>7, <1>8, <1>9

\* The lists and the clock are as they were.
ListsLeftAlone ==
    /\ k'.ready = k.ready /\ k'.top = k.top
    /\ k'.delayed = k.delayed /\ k'.overflow = k.overflow
    /\ k'.suspended = k.suspended
    /\ k'.tick = k.tick /\ k'.unblock = k.unblock

LEMMA InterruptsKeepOutStep ==
    ASSUME SchedInv, [Next]_vars, k.suspensions > 0, pc' = pc
    PROVE  ListsLeftAlone
<1>1. k.suspensions = 1
  BY DEF SchedInv, KernelInv
<1>2. CASE Interrupt \/ SysTick
  <2>1. Keeps(k', k, Deferred)
    BY <1>1, <1>2, InterruptsDefer
  <2>2. QED
    BY <2>1 DEF Keeps, KernelFields, Deferred, ListsLeftAlone
<1>3. CASE UNCHANGED vars
  BY <1>3 DEF vars, ListsLeftAlone
<1>4. ASSUME NEW t \in Task,
             TaskStep(t) \/ (t = Idle /\ IdleCleanUp)
               \/ \E n \in Delays : CatchUpTicksPend(t, n)
      PROVE  FALSE
  BY <1>1, <1>4, SuspenderMoves
<1>5. Idle \in Task
  BY TasksAssumption
<1>6. QED
  BY <1>2, <1>3, <1>4, <1>5 DEF Next

\* The lists are what the scheduler takes them for.
THEOREM SchedulerLists ==
    ASSUME ResumesKnown PROVE Spec => []ListsConsistent
BY SchedulerInv, ListsShow, PTL

\* When nothing is due, the running task is ready and none is before it.
THEOREM SchedulerTop ==
    ASSUME ResumesKnown PROVE Spec => []HighestPriorityRuns
BY SchedulerInv, TopShows, PTL

\* A task that has been put away stays away until it is resumed.
THEOREM SchedulerHeld ==
    ASSUME ResumesKnown PROVE Spec => []SuspendedStays
BY SchedulerInv, HeldShows, PTL

\* Where the application does not mix them, the assertion of the kernel on
\* xPendingReadyList holds.
THEOREM SchedulerPendsOnce ==
    ASSUME ResumesKnown PROVE Spec => []PendedOnce
BY SchedulerInv, PendedShows, PTL

\* While the scheduler is suspended the interrupts keep out of the lists.
THEOREM SchedulerKeepOut ==
    ASSUME ResumesKnown PROVE Spec => InterruptsKeepOut
<1>1. SchedInv /\ [Next]_vars
        => [k.suspensions > 0 /\ pc' = pc =>
              /\ k'.ready = k.ready /\ k'.top = k.top
              /\ k'.delayed = k.delayed /\ k'.overflow = k.overflow
              /\ k'.suspended = k.suspended
              /\ k'.tick = k.tick /\ k'.unblock = k.unblock]_vars
  BY InterruptsKeepOutStep DEF ListsLeftAlone
<1>2. QED
  BY <1>1, SchedulerInv, PTL DEF Spec, InterruptsKeepOut

-----------------------------------------------------------------------------
(* The times of the tasks that sleep *)

\* The ticks a task has left, those that are pended included.
Remaining == [t \in Task |-> left[t] + k.pended]

\* What a delay works with, and what it has set.
PlansInv ==
    /\ prev \in [Task -> Tick]
    /\ \A t \in Task : pc[t] \in {"delay", "delay_until"} => arg[t] \in 1 .. TickMod - 1

TimesInv == left \in [Task -> Int] /\ TimesRight(k, Remaining)

\* A task that is pended has been notified, or has been in the suspended list.
WhyPended ==
    \A t \in Elements(k.pending) : t \in Elements(k.suspended) \/ k.notify[t] = "received"

WakeInv == PlansInv /\ TimesInv /\ WhyPended

LEMMA DelayedLate ==
    ASSUME NEW k0, NEW t
    PROVE  IsDelayed(k0, t) <=> t \in Late(k0)
BY DEF IsDelayed, Late, Elements, ToSet

\* A task has been taken out of the delayed lists by something else than time.
TakenOff(t) == k'.notify[t] = "received" \/ t \in held' \/ pc'[t] = "freed"

\* Those that sleep go on sleeping, but for those that are taken off.
Undisturbed(n) ==
    /\ k'.pended = k.pended + n
    /\ Kept(k', k)
    /\ \A t \in Late(k) \ Late(k') : TakenOff(t)

LEMMA KeptLate ==
    ASSUME NEW k0, NEW j, Kept(j, k0)
    PROVE  Late(j) \subseteq Late(k0)
BY DEF Kept, Late

LEMMA UndisturbedTimes ==
    ASSUME SchedInv, TimesInv, NEW n \in Int, TimePasses(n), Undisturbed(n)
    PROVE  TimesInv'
<1>1. /\ left \in [Task -> Int] /\ k.pended \in Int /\ Sound(k)
      /\ k.tick \in Tick /\ Early(k) /\ Exact(k, Remaining)
  BY DEF TimesInv, TimesRight, SchedInv, KernelInv, Good
<1>2. Kept(k', k) /\ k'.pended = k.pended + n
  BY DEF Undisturbed
<1>3. Late(k') \subseteq Late(k)
  BY <1>2, KeptLate
<1>4. left' = [t \in Task |-> IF t \in Late(k') THEN left[t] - n ELSE 0]
  BY <1>3, DelayedLate DEF TimePasses
<1>5. left' \in [Task -> Int]
  BY <1>1, <1>4
<1>6. ASSUME NEW t \in Late(k') PROVE Remaining'[t] = Remaining[t]
  <2>1. t \in Task
    BY <1>3, LateFacts
  <2>2. left'[t] = left[t] - n
    BY <1>4, <2>1
  <2>3. left[t] \in Int
    BY <1>1, <2>1
  <2>4. Remaining'[t] = left'[t] + k'.pended /\ Remaining[t] = left[t] + k.pended
    BY <2>1 DEF Remaining
  <2>5. QED
    BY <1>1, <1>2, <2>2, <2>3, <2>4
<1>7. Exact(k', Remaining')
  BY <1>1, <1>2, <1>6, ExactKept
<1>8. k'.tick \in Tick /\ Early(k')
  BY <1>1, <1>2 DEF Kept
<1>9. QED
  BY <1>5, <1>7, <1>8 DEF TimesInv, TimesRight

\* Only other fields have changed.
LEMMA FieldsUndisturbed ==
    ASSUME NEW changed, Keeps(k', k, changed), changed \cap TimeFields = {},
           NEW n, k'.pended = k.pended + n
    PROVE  Undisturbed(n)
BY KeepsKept DEF Undisturbed

\* Nothing has been counted.
LEMMA NonePended ==
    ASSUME SchedInv, k'.pended = k.pended
    PROVE  k'.pended = k.pended + 0
<1>1. k.pended \in Nat
  BY DEF SchedInv, KernelInv
<1>2. QED
  BY <1>1

LEMMA SameUndisturbed ==
    ASSUME SchedInv, k' = k
    PROVE  Undisturbed(0)
<1>1. Keeps(k', k, {}) /\ {} \cap TimeFields = {}
  BY DEF Keeps, SchedInv, KernelInv, Good, Sound, Shape
<1>2. k'.pended = k.pended + 0
  BY NonePended
<1>3. QED
  BY <1>1, <1>2, FieldsUndisturbed

\* One task may have been taken off.
LEMMA KeptButUndisturbed ==
    ASSUME SchedInv, NEW u, KeptBut(k', k, {u}) \/ KeptBut(k', k, {}),
           k'.pended = k.pended, u \in Late(k) => TakenOff(u)
    PROVE  Undisturbed(0)
<1>1. k'.pended = k.pended + 0
  BY NonePended
<1>2. QED
  BY <1>1 DEF KeptBut, Undisturbed

-----------------------------------------------------------------------------
(* The calls that leave the times alone *)

\* Those that change flags only.
LEMMA FlagCalls ==
    ASSUME SchedInv, NEW t \in Task,
           \/ Yield(t) \/ Delay(t) \/ DelayUntil(t) \/ SuspendAll(t) \/ CatchUpTicks(t)
           \/ CreateReturn(t) \/ DeleteYield(t) \/ DeleteTCB(t)
    PROVE  Undisturbed(0)
<1>1. DOMAIN k = KernelFields
  BY DEF SchedInv, KernelInv, Good, Sound, Shape
<1>2. k' = portYIELD(k) \/ k' = vTaskSuspendAll(k) \/ k' = k
  BY DEF Yield, Delay, DelayUntil, SuspendAll, CatchUpTicks, CreateReturn, DeleteYield,
         DeleteTCB
<1>3. Keeps(k', k, {"pendsv", "suspensions"})
  BY <1>1, <1>2 DEF portYIELD, vTaskSuspendAll, Keeps, KernelFields
<1>4. k'.pended = k.pended
  BY <1>3 DEF Keeps, KernelFields
<1>5. {"pendsv", "suspensions"} \cap TimeFields = {}
  BY DEF TimeFields
<1>6. QED
  BY <1>3, <1>4, <1>5, NonePended, FieldsUndisturbed

LEMMA ReturnCalls ==
    ASSUME SchedInv, NEW t \in Task,
           NotifyTakeReturn(t) \/ NotifyWaitReturn(t) \/ NotifyClear(t)
    PROVE  Undisturbed(0)
<1>1. Good(k) /\ k.current \in Task /\ DOMAIN k.notify = Task /\ DOMAIN k.value = Task
  BY DEF SchedInv, KernelInv, Timed
<1>2. Keeps(k', k, NotifyFields)
  <2>1. CASE NotifyTakeReturn(t) \/ NotifyWaitReturn(t)
    <3>1. \/ \E clear \in BOOLEAN : k' = NotifyTakeExit(k, clear)
          \/ k' = NotifyWaitExit(k, NotifyMod - 1)
      BY <2>1 DEF NotifyTakeReturn, NotifyWaitReturn
    <3>2. GoesOn(k', k)
      <4>1. CASE k' = NotifyWaitExit(k, NotifyMod - 1)
        BY <1>1, <4>1, ExitGoesOn
      <4>2. CASE \E clear \in BOOLEAN : k' = NotifyTakeExit(k, clear)
        <5>1. PICK clear \in BOOLEAN : k' = NotifyTakeExit(k, clear)
          BY <4>2
        <5>2. QED
          BY <1>1, <5>1, ExitGoesOn
      <4>3. QED
        BY <3>1, <4>1, <4>2
    <3>3. QED
      BY <3>2 DEF GoesOn
  <2>2. CASE NotifyClear(t)
    <3>1. PICK u \in Others :
             \/ k' = xTaskGenericNotifyStateClear(k, u)
             \/ k' = ulTaskGenericNotifyValueClear(k, u, NotifyMod - 1)
      BY <2>2 DEF NotifyClear
    <3>2. u \in Task
      BY DEF Others
    <3>3. Keeps(k', k, {"notify"}) \/ Keeps(k', k, {"value"})
      <4>1. CASE k' = xTaskGenericNotifyStateClear(k, u)
        BY <1>1, <3>2, <4>1, ClearIs
      <4>2. CASE k' = ulTaskGenericNotifyValueClear(k, u, NotifyMod - 1)
        <5>1. Keeps(ulTaskGenericNotifyValueClear(k, u, NotifyMod - 1), k, {"value"})
          BY <1>1, <3>2, ClearIs
        <5>2. QED
          BY <4>2, <5>1
      <4>3. QED
        BY <3>1, <4>1, <4>2
    <3>4. QED
      BY <3>3 DEF Keeps, NotifyFields
  <2>3. QED
    BY <2>1, <2>2
<1>3. k'.pended = k.pended /\ NotifyFields \cap TimeFields = {}
  BY <1>2 DEF Keeps, KernelFields, NotifyFields, TimeFields
<1>4. QED
  BY <1>2, <1>3, NonePended, FieldsUndisturbed

LEMMA NotifyCalls ==
    ASSUME SchedInv, NEW t \in Task, Notify(t)
    PROVE  Undisturbed(0)
<1>1. PICK u \in Others, action \in Actions : k' = xTaskGenericNotify(k, u, 1, action)
  BY DEF Notify
<1>2. /\ Good(k) /\ NoEvents(k) /\ DOMAIN k.notify = Task /\ DOMAIN k.value = Task
      /\ u \in Task
  BY DEF SchedInv, KernelInv, Others
<1>3. At(t, "run")
  BY DEF Notify, May
<1>4. Elements(k.pending) = {}
  BY <1>3, Calling DEF Suspending
<1>5. KeptBut(k', k, {u}) \/ KeptBut(k', k, {})
  BY <1>1, <1>2, NotifyKept
<1>6. \E S : NotifiedBy(k', k, u, 1, action, S)
  BY <1>1, <1>2, <1>4, NotifyIdleIs, NotifyIs
<1>7. k'.notify = [k.notify EXCEPT ![u] = "received"] /\ k'.pended = k.pended
  BY <1>6 DEF NotifiedBy, Keeps, KernelFields, NotifyReadyFields, StateLists, NotifyFields
<1>8. TakenOff(u)
  BY <1>2, <1>7 DEF TakenOff
<1>9. QED
  BY <1>5, <1>7, <1>8, KeptButUndisturbed

\* A task that is suspended does not sleep.
LEMMA SuspendedNotLate ==
    ASSUME SchedInv, NEW u, u \in Elements(k.suspended)
    PROVE  u \notin Late(k)
BY DEF SchedInv, KernelInv, Good, Sound, Apart, Late

LEMMA CurrentNotLate ==
    ASSUME NEW k0, Good(k0), CurrentIsReady(k0)
    PROVE  k0.current \notin Late(k0)
<1>1. k0.current \in Task /\ k0.priority \in [Task -> Priority]
  BY DEF CurrentIsReady, Good, Sound, Shape
<1>2. k0.priority[k0.current] \in Priority
  BY <1>1
<1>3. QED
  BY <1>2 DEF CurrentIsReady, Good, Sound, Apart, Late

LEMMA ResumeCalls ==
    ASSUME SchedInv, NEW t \in Task, Resume(t)
    PROVE  Undisturbed(0)
<1>1. PICK u \in Others \ {t} : k' = vTaskResume(k, u)
  BY DEF Resume
<1>2. Good(k) /\ NoEvents(k) /\ k.current \in Task /\ u \in Task
  BY DEF SchedInv, KernelInv, Timed, Others
<1>3. CASE SuspendedTask(k, u)
  <2>1. MadeReadyBy(k', k, u)
    BY <1>1, <1>2, <1>3, ResumeIs
  <2>2. k'.pended = k.pended
    BY <2>1 DEF MadeReadyBy, Keeps, KernelFields, ResumedFields, StateLists
  <2>3. u \notin Late(k)
    BY <1>3, SuspendedNotLate DEF SuspendedTask
  <2>4. KeptBut(k', k, {u}) \/ k' = k
    BY <1>1, <1>2, ResumeKept
  <2>5. QED
    BY <2>2, <2>3, <2>4, KeptButUndisturbed, SameUndisturbed
<1>4. CASE ~SuspendedTask(k, u)
  <2>1. k' = k
    BY <1>1, <1>2, <1>4, ResumeNotSuspended
  <2>2. QED
    BY <2>1, SameUndisturbed
<1>5. QED
  BY <1>3, <1>4

LEMMA SuspendCalls ==
    ASSUME SchedInv, NEW t \in Task, Suspend(t)
    PROVE  Undisturbed(0)
<1>1. PICK u \in Others : k' = vTaskSuspend(k, u) /\ held' = held \cup {u}
  BY DEF Suspend
<1>2. Good(k) /\ DOMAIN k.notify = Task /\ u \in Task
  BY DEF SchedInv, KernelInv, Others
<1>3. KeptBut(k', k, {u})
  BY <1>1, <1>2, SuspendKept
<1>4. Keeps(k', k, OutFields \cup {"notify"})
  BY <1>1, <1>2, SuspendIs
<1>5. k'.pended = k.pended
  BY <1>4 DEF Keeps, KernelFields, OutFields, StateLists
<1>6. TakenOff(u)
  BY <1>1 DEF TakenOff
<1>7. QED
  BY <1>3, <1>5, <1>6, KeptButUndisturbed

LEMMA SuspendReturnCalls ==
    ASSUME SchedInv, NEW t \in Task, SuspendReturn(t)
    PROVE  Undisturbed(0)
<1>1. Good(k) /\ k' = prvResetNextTaskUnblockTime(k)
  BY DEF SchedInv, KernelInv, SuspendReturn
<1>2. Kept(k', k) /\ Late(k') = Late(k)
  BY <1>1, ResetKept
<1>3. Keeps(k', k, {"unblock"})
  BY <1>1, ResetUnblockIs
<1>4. k'.pended = k.pended + 0
  BY <1>3, NonePended DEF Keeps, KernelFields
<1>5. QED
  BY <1>2, <1>4 DEF Undisturbed

LEMMA PriorityCalls ==
    ASSUME SchedInv, NEW t \in Task, PrioritySet(t)
    PROVE  Undisturbed(0)
<1>1. PICK u \in Others, p \in Priorities : k' = vTaskPrioritySet(k, u, p)
  BY DEF PrioritySet
<1>2. /\ Good(k) /\ k.base = k.priority /\ k.current \in Task /\ u \in Task /\ p \in Nat
  BY ValuesAssumption DEF SchedInv, KernelInv, Timed, Others
<1>3. KeptBut(k', k, {})
  BY <1>1, <1>2, PrioritySetKept
<1>4. Keeps(k', k, PriorityFields)
  BY <1>1, <1>2, PrioritySetIs
<1>5. k'.pended = k.pended + 0
  BY <1>4, NonePended DEF Keeps, KernelFields, PriorityFields, StateLists
<1>6. QED
  BY <1>3, <1>5 DEF Undisturbed, KeptBut

LEMMA CreateCalls ==
    ASSUME SchedInv, NEW t \in Task, Create(t)
    PROVE  Undisturbed(0)
<1>1. PICK u \in Task, p \in Priorities : pc[u] = "none" /\ k' = xTaskCreate(k, <<u, p>>)
  BY DEF Create
<1>2. At(t, "run")
  BY DEF Create, May
<1>3. /\ Good(k) /\ DOMAIN k.notify = Task /\ DOMAIN k.value = Task /\ DOMAIN k.base = Task
      /\ p \in Nat
  BY ValuesAssumption DEF SchedInv, KernelInv, Good, Sound, Shape
<1>4. u \notin Placed(k)
  BY <1>1 DEF SchedInv, PlacesInv, Existing, Exists
<1>5. Nowhere(k, u)
  BY <1>4 DEF Nowhere
<1>6. k.current \in (Task \ {u}) \cup {NoTask}
  BY <1>1, <1>2 DEF At
<1>7. Keeps(k', k, CreateFields)
  BY <1>1, <1>3, <1>5, <1>6, CreateIs DEF CreatedBy
<1>8. CreateFields \cap TimeFields = {}
  BY DEF CreateFields, NewFields, TimeFields
<1>9. k'.pended = k.pended + 0
  BY <1>7, NonePended DEF Keeps, KernelFields, CreateFields, NewFields
<1>10. QED
  BY <1>7, <1>8, <1>9, FieldsUndisturbed

LEMMA DeleteCalls ==
    ASSUME SchedInv, NEW t \in Task, Delete(t)
    PROVE  Undisturbed(0)
<1>1. PICK u \in Others :
         /\ k' = vTaskDelete(k, u)
         /\ pc' = IF u = t THEN [pc EXCEPT ![t] = "deleted"]
                  ELSE [pc EXCEPT ![t] = "free", ![u] = "freed"]
  BY DEF Delete
<1>2. At(t, "run")
  BY DEF Delete, May
<1>3. Good(k) /\ u \in Task /\ DOMAIN pc = Task /\ k.current = t
  BY <1>2 DEF SchedInv, KernelInv, TypeInv, Others, At
<1>4. KeptBut(k', k, {u})
  BY <1>1, <1>3, DeleteKept
<1>5. CASE u = t
  <2>1. u \notin Late(k)
    <3>1. CurrentIsReady(k)
      BY <1>2, <1>3, CallingOnTop DEF BeforeYield, At
    <3>2. QED
      BY <1>3, <1>5, <3>1, CurrentNotLate
  <2>2. u \notin Elements(k.termination)
    BY OthersAre
  <2>3. Keeps(k', k, OutFields \cup {"cleanup"})
    BY <1>1, <1>3, <1>5, <2>2, DeleteSelfIs
  <2>4. k'.pended = k.pended
    BY <2>3 DEF Keeps, KernelFields, OutFields, StateLists
  <2>5. QED
    BY <1>4, <2>1, <2>4, KeptButUndisturbed
<1>6. CASE u # t
  <2>1. Keeps(k', k, OutFields \cup {"count", "unblock"})
    BY <1>1, <1>3, <1>6, DeleteOtherIs
  <2>2. k'.pended = k.pended
    BY <2>1 DEF Keeps, KernelFields, OutFields, StateLists
  <2>3. TakenOff(u)
    BY <1>1, <1>3, <1>6 DEF TakenOff
  <2>4. QED
    BY <1>4, <2>2, <2>3, KeptButUndisturbed
<1>7. QED
  BY <1>5, <1>6

LEMMA CleanUpCalls ==
    ASSUME SchedInv, IdleCleanUp
    PROVE  Undisturbed(0)
<1>1. At(Idle, "run") /\ k.cleanup > 0 /\ k' = prvCheckTasksWaitingTermination(k)
  BY DEF IdleCleanUp
<1>2. Good(k) /\ NoEvents(k) /\ k.cleanup = Len(k.termination) /\ Idle \in Task
  BY TasksAssumption DEF SchedInv, KernelInv, PlacesInv
<1>3. Elements(k.pending) = {}
  BY <1>1, <1>2, Calling DEF Suspending
<1>4. /\ Len(k.termination) > 0 /\ Head(k.termination) \notin Elements(k.pending)
      /\ \A e \in EventLists : Elements(k.events[e]) = {}
  BY <1>1, <1>2, <1>3 DEF NoEvents
<1>5. KeptBut(k', k, {})
  BY <1>1, <1>2, <1>4, CleanUpKept
<1>6. Keeps(k', k, StateLists \cup {"count", "cleanup"})
  BY <1>1, <1>2, <1>4, CleanUpIs
<1>7. k'.pended = k.pended + 0
  BY <1>6, NonePended DEF Keeps, KernelFields, StateLists
<1>8. QED
  BY <1>5, <1>7 DEF Undisturbed, KeptBut

-----------------------------------------------------------------------------
(* The interrupts that leave the times alone *)

LEMMA PendSVCalls ==
    ASSUME SchedInv, PendSV
    PROVE  Undisturbed(0)
<1>1. k' = vTaskSwitchContext(k) /\ Good(k)
  BY DEF PendSV, SchedInv, KernelInv
<1>2. Keeps(k', k, {"yield", "pendsv", "ready", "current"})
  <2>1. CASE k.suspensions > 0
    <3>1. Keeps(k', k, {"yield", "pendsv"})
      BY <1>1, <2>1, SwitchLater
    <3>2. QED
      BY <3>1 DEF Keeps
  <2>2. CASE ~(k.suspensions > 0)
    <3>1. k.top # {}
      BY PrioritiesNumbers DEF SchedInv, KernelInv, Good, TopRight
    <3>2. QED
      BY <1>1, <2>2, <3>1, SwitchIs
  <2>3. QED
    BY <2>1, <2>2
<1>3. k'.pended = k.pended + 0
  BY <1>2, NonePended DEF Keeps, KernelFields
<1>4. {"yield", "pendsv", "ready", "current"} \cap TimeFields = {}
  BY DEF TimeFields
<1>5. QED
  BY <1>2, <1>3, <1>4, FieldsUndisturbed

\* What a notification from an interrupt does, beyond the lists.
LEMMA NotifyISRFacts ==
    ASSUME SchedInv, NEW u \in Others, NEW v, NEW action, k' = NotifyAndYield(k, u, v, action)
    PROVE  /\ k'.notify = [k.notify EXCEPT ![u] = "received"]
           /\ k'.pended = k.pended
<1>1. /\ Good(k) /\ NoEvents(k) /\ k.suspensions \in {0, 1}
      /\ DOMAIN k.notify = Task /\ DOMAIN k.value = Task /\ u \in Task
  BY OthersAre DEF SchedInv, KernelInv
<1>2. CASE k.notify[u] # "waiting"
  <2>1. NotifiedBy(k', k, u, v, action, {})
    BY <1>1, <1>2, NotifyIdleIs
  <2>2. QED
    BY <2>1 DEF NotifiedBy, Keeps, KernelFields, NotifyReadyFields, StateLists, NotifyFields
<1>3. CASE k.notify[u] = "waiting" /\ k.suspensions = 0
  <2>1. u \notin Elements(k.pending)
    BY <1>3 DEF SchedInv, PendingInv
  <2>2. NotifiedBy(k', k, u, v, action, {u})
    BY <1>1, <1>3, <2>1, NotifyIs
  <2>3. QED
    BY <2>2 DEF NotifiedBy, Keeps, KernelFields, NotifyReadyFields, StateLists, NotifyFields
<1>4. CASE k.notify[u] = "waiting" /\ k.suspensions = 1
  <2> DEFINE r == Notified(k, u, v, action)
  <2>1. r.notify = [k.notify EXCEPT ![u] = "received"] /\ Keeps(r, k, NotifyFields)
    <3>1. /\ Keeps(r, k, NotifyFields)
          /\ Readied(r, k, {})
          /\ r.notify = [k.notify EXCEPT ![u] = "received"]
          /\ r.value = [k.value EXCEPT ![u] = NotifiedValue(k, u, v, action)]
      BY <1>1, NotifiedIs
    <3>2. QED
      BY <3>1
  <2> DEFINE p == [r EXCEPT !.pending = Append(@, u)]
             i == xTaskGenericNotifyFromISR(k, u, v, action)
  <2>2. i = [Unblock(r, u) EXCEPT !.yield = @ \/ Outranks(k, u)]
    BY <1>4 DEF xTaskGenericNotifyFromISR
  <2>3. r.suspensions = 1 /\ DOMAIN r = KernelFields /\ r.pended = k.pended
    BY <1>4, <2>1 DEF Keeps, KernelFields, NotifyFields
  <2> HIDE DEF r
  <2>4. Unblock(r, u) = p
    BY <2>3 DEF Unblock
  <2>5. k' = YieldIf(i, WokenByNotify(k, u))
    BY DEF NotifyAndYield
  <2>6. i.notify = r.notify /\ i.pended = r.pended /\ DOMAIN i = KernelFields
    BY <2>2, <2>3, <2>4 DEF KernelFields
  <2> HIDE DEF i
  <2>7. k'.notify = i.notify /\ k'.pended = i.pended
    BY <2>5, <2>6 DEF YieldIf, portYIELD, KernelFields
  <2>8. QED
    BY <2>1, <2>3, <2>6, <2>7 DEF r
<1>5. QED
  BY <1>1, <1>2, <1>3, <1>4

LEMMA NotifyISRCalls ==
    ASSUME SchedInv, NotifyFromISR
    PROVE  Undisturbed(0)
<1>1. PICK u \in Others, action \in Actions : k' = NotifyAndYield(k, u, 1, action)
  BY DEF NotifyFromISR, NotifyAndYield
<1>2. /\ Good(k) /\ DOMAIN k.notify = Task /\ DOMAIN k.value = Task /\ u \in Task
  BY OthersAre DEF SchedInv, KernelInv
<1>3. KeptBut(k', k, {u}) \/ KeptBut(k', k, {})
  BY <1>1, <1>2, NotifyKept
<1>4. k'.notify = [k.notify EXCEPT ![u] = "received"] /\ k'.pended = k.pended
  BY <1>1, NotifyISRFacts
<1>5. TakenOff(u)
  BY <1>2, <1>4 DEF TakenOff
<1>6. QED
  BY <1>3, <1>4, <1>5, KeptButUndisturbed

LEMMA ResumeISRCalls ==
    ASSUME SchedInv, ResumeFromISR
    PROVE  Undisturbed(0)
<1>1. PICK u \in Others : k' = ResumeAndYield(k, u)
  BY DEF ResumeFromISR, ResumeAndYield
<1>2. /\ Good(k) /\ NoEvents(k) /\ k.current \in Task /\ u \in Task
      /\ k.suspensions \in {0, 1}
  BY OthersAre DEF SchedInv, KernelInv, Timed
<1>3. CASE SuspendedTask(k, u)
  <2>1. u \notin Late(k)
    BY <1>3, SuspendedNotLate DEF SuspendedTask
  <2>2. KeptBut(k', k, {u}) \/ KeptBut(k', k, {})
    BY <1>1, <1>2, ResumeKept
  <2>3. MadeReadyBy(k', k, u) \/ Keeps(k', k, {"pending"})
    BY <1>1, <1>2, <1>3, ResumeFromISRIs, ResumeLaterIs
  <2>4. k'.pended = k.pended
    BY <2>3 DEF MadeReadyBy, Keeps, KernelFields, ResumedFields, StateLists
  <2>5. QED
    BY <2>1, <2>2, <2>4, KeptButUndisturbed
<1>4. CASE ~SuspendedTask(k, u)
  <2>1. k' = k
    BY <1>1, <1>2, <1>4, ResumeNotSuspended
  <2>2. QED
    BY <2>1, SameUndisturbed
<1>5. QED
  BY <1>3, <1>4

\* Ticks are counted while the scheduler is suspended.
LEMMA PendsTicks ==
    ASSUME SchedInv, NEW n \in Int, k' = PendTicks(k, n)
    PROVE  Undisturbed(n)
<1>1. DOMAIN k = KernelFields
  BY DEF SchedInv, KernelInv, Good, Sound, Shape
<1>2. Keeps(k', k, {"pended"}) /\ k'.pended = k.pended + n
  BY <1>1 DEF PendTicks, Keeps, KernelFields
<1>3. {"pended"} \cap TimeFields = {}
  BY DEF TimeFields
<1>4. QED
  BY <1>2, <1>3, FieldsUndisturbed

-----------------------------------------------------------------------------
(* The steps in which tasks wake, or go to sleep *)

\* What a step may not do: to wake a task early.
OnTimeStep ==
    \A t \in Task :
        IsDelayed(k, t) /\ ~IsDelayed(k', t) =>
            \/ left[t] + k.pended <= (k'.tick - k.tick) % TickMod
            \/ k'.notify[t] = "received"
            \/ t \in held' \/ pc'[t] = "freed"

LEMMA UndisturbedOnTime ==
    ASSUME NEW n, Undisturbed(n)
    PROVE  OnTimeStep
BY DelayedLate DEF Undisturbed, TakenOff, OnTimeStep

\* The times are those of the lists and of the clock.
LEMMA TimesSame ==
    ASSUME NEW j, NEW i, j.tick = i.tick, j.delayed = i.delayed, j.overflow = i.overflow,
           j.wake = i.wake, j.unblock = i.unblock,
           NEW m, NEW l, \A t \in Late(i) : l[t] = m[t], TimesRight(i, m)
    PROVE  TimesRight(j, l) /\ Late(j) = Late(i)
<1>1. Late(j) = Late(i)
  BY DEF Late
<1>2. \A t \in Late(i) : WakesIn(i, t, m[t]) => WakesIn(j, t, l[t])
  BY DEF WakesIn
<1>3. Exact(j, l)
  BY <1>1, <1>2 DEF TimesRight, Exact
<1>4. QED
  BY <1>1, <1>3 DEF TimesRight, Early

\* What is left when tasks have woken: nobody has gone to sleep.
LEMMA LeftAfter ==
    ASSUME SchedInv, left \in [Task -> Int], NEW n \in Int, TimePasses(n),
           Late(k') \subseteq Late(k), k'.pended = 0
    PROVE  /\ left' \in [Task -> Int]
           /\ \A t \in Late(k') : Remaining'[t] = left[t] - n
<1>1. Late(k) \subseteq Task
  BY LateFacts
<1>2. left' = [t \in Task |-> IF t \in Late(k') THEN left[t] - n ELSE 0]
  BY DelayedLate DEF TimePasses
<1>3. left' \in [Task -> Int]
  BY <1>2
<1>4. ASSUME NEW t \in Late(k') PROVE Remaining'[t] = left[t] - n
  <2>1. t \in Task
    BY <1>1
  <2>2. Remaining'[t] = left'[t] + 0
    BY <2>1 DEF Remaining
  <2>3. left'[t] = left[t] - n /\ left[t] \in Int
    BY <1>2, <2>1
  <2>4. QED
    BY <2>2, <2>3
<1>5. QED
  BY <1>3, <1>4

\* How far the clock has gone.
LEMMA ClockGoes ==
    ASSUME NEW tick \in Int, NEW n \in 0 .. TickMod - 1
    PROVE  (((tick + n) % TickMod) - tick) % TickMod = n
<1>1. TickMod \in Nat \ {0}
  BY TickAssumption
<1>2. (tick + n) % TickMod \in Int /\ -tick \in Int /\ tick + n \in Int
  BY <1>1, ModIs
<1>3. (-tick + ((tick + n) % TickMod)) % TickMod = (-tick + (tick + n)) % TickMod
  BY <1>1, <1>2, ModPlus
<1>4. -tick + (tick + n) = n
  OBVIOUS
<1>5. ((tick + n) % TickMod) - tick = -tick + ((tick + n) % TickMod)
  BY <1>2
<1>6. n % TickMod = n
  BY <1>1, ModSmall
<1>7. QED
  BY <1>3, <1>4, <1>5, <1>6

LEMMA SysTickTimes ==
    ASSUME SchedInv, TimesInv, SysTick, ~(k.suspensions > 0), TimePasses(1)
    PROVE  TimesInv' /\ OnTimeStep
<1> DEFINE r == xTaskIncrementTick(k)
           j == r.k
           w == r.switch
<1>1. /\ Good(k) /\ Timed(k) /\ k.suspensions = 0 /\ k.pended = 0
      /\ left \in [Task -> Int] /\ TimesRight(k, Remaining)
  BY DEF SchedInv, KernelInv, PendingInv, TimesInv
<1>2. k' = YieldIf(j, w)
  BY DEF SysTick
<1>3. Keeps(j, k, TickFields) /\ Good(j) /\ j.tick = NextTick(k)
  BY <1>1, TickReadied DEF Readied
<1>4. /\ Late(j) = {t \in Late(k) : Remaining[t] > 1}
      /\ \A m : (\A t \in Late(k) : m[t] = Remaining[t] - 1) => TimesRight(j, m)
  BY <1>1, TickExact
<1> HIDE DEF r, j, w
<1>5. Keeps(k', j, {"pendsv"})
  BY <1>2, <1>3, YieldIfIs
<1>6. /\ k'.tick = j.tick /\ k'.delayed = j.delayed /\ k'.overflow = j.overflow
      /\ k'.wake = j.wake /\ k'.unblock = j.unblock /\ k'.pended = j.pended
  BY <1>5 DEF Keeps, KernelFields
<1>7. j.pended = 0
  BY <1>1, <1>3 DEF Keeps, KernelFields, TickFields, WakeFields, StateLists
<1>8. \A t \in Task : Remaining[t] = left[t] /\ left[t] \in Int
  BY <1>1 DEF Remaining
<1>9. Late(k) \subseteq Task
  BY LateFacts
<1>10. TimesRight(j, Less(Remaining, 1))
  <2>1. \A t \in Late(k) : Less(Remaining, 1)[t] = Remaining[t] - 1
    BY <1>9 DEF Less
  <2>2. QED
    BY <1>4, <2>1
<1>11. Late(k') = Late(j) /\ Late(k') \subseteq Late(k)
  BY <1>4, <1>6 DEF Late
<1>12. left' \in [Task -> Int] /\ \A t \in Late(k') : Remaining'[t] = left[t] - 1
  BY <1>1, <1>6, <1>7, <1>11, LeftAfter
<1>13. \A t \in Late(j) : Remaining'[t] = Less(Remaining, 1)[t]
  BY <1>8, <1>9, <1>11, <1>12 DEF Less
<1>14. TimesRight(k', Remaining')
  BY <1>6, <1>10, <1>13, TimesSame
<1>15. OnTimeStep
  <2> SUFFICES ASSUME NEW t \in Task, t \in Late(k), t \notin Late(k')
               PROVE  left[t] + k.pended <= (k'.tick - k.tick) % TickMod
    BY DelayedLate DEF OnTimeStep
  <2>1. ~(Remaining[t] > 1)
    BY <1>4, <1>11
  <2>2. left[t] + k.pended <= 1
    BY <1>1, <1>8, <2>1
  <2>3. (k'.tick - k.tick) % TickMod = 1
    <3>1. k'.tick = (k.tick + 1) % TickMod /\ k.tick \in Int /\ 1 \in 0 .. TickMod - 1
      BY <1>1, <1>3, <1>6, TickAssumption DEF NextTick, Timed
    <3>2. QED
      BY <3>1, ClockGoes
  <2>4. QED
    BY <2>2, <2>3
<1>16. QED
  BY <1>12, <1>14, <1>15 DEF TimesInv

\* xTaskResumeAll: the ticks that were pended are counted, and the tasks that
\* were pended have been notified.
LEMMA ResumeAllTicks ==
    ASSUME SchedInv, TimesInv, WhyPended, k.suspensions = 1, k' = xTaskResumeAll(k),
           TimePasses(0)
    PROVE  TimesInv' /\ (k.pended < TickMod => OnTimeStep)
<1>1. /\ Good(k) /\ Timed(k) /\ k.pended \in Nat
      /\ left \in [Task -> Int] /\ TimesRight(k, Remaining)
  BY DEF SchedInv, KernelInv, TimesInv
<1>2. Remaining \in [Task -> Int]
  BY <1>1 DEF Remaining
<1>3. ResumedOn(k', k, Remaining)
  BY <1>1, <1>2, ResumeAllTimes
<1>4. /\ k'.tick = (k.tick + k.pended) % TickMod
      /\ Late(k') = {t \in Late(k) \ Elements(k.pending) : Remaining[t] > k.pended}
      /\ TimesRight(k', Less(Remaining, k.pended))
  BY <1>3 DEF ResumedOn
<1>5. Keeps(k', k, ResumeFields) /\ k'.pended = 0
  BY <1>1, ResumeAllIs
<1>6. k'.notify = k.notify
  BY <1>5 DEF Keeps, KernelFields, ResumeFields, TickFields, WakeFields, StateLists
<1>7. Late(k) \subseteq Task /\ Late(k') \subseteq Late(k)
  BY <1>4, LateFacts
<1>8. \A t \in Task : Remaining[t] = left[t] + k.pended /\ left[t] \in Int
  BY <1>1 DEF Remaining
<1>9. left' \in [Task -> Int] /\ \A t \in Late(k') : Remaining'[t] = left[t] - 0
  BY <1>1, <1>5, <1>7, LeftAfter
<1>10. \A t \in Late(k') : Remaining'[t] = Less(Remaining, k.pended)[t]
  BY <1>1, <1>7, <1>8, <1>9 DEF Less
<1>11. TimesRight(k', Remaining')
  BY <1>4, <1>10, TimesSame
<1>12. ASSUME k.pended < TickMod PROVE OnTimeStep
  <2> SUFFICES ASSUME NEW t \in Task, t \in Late(k), t \notin Late(k')
               PROVE  \/ left[t] + k.pended <= (k'.tick - k.tick) % TickMod
                      \/ k'.notify[t] = "received"
    BY DelayedLate DEF OnTimeStep
  <2>1. CASE t \in Elements(k.pending)
    <3>1. t \notin Elements(k.suspended)
      BY SuspendedNotLate
    <3>2. QED
      BY <1>6, <2>1, <3>1 DEF WhyPended
  <2>2. CASE t \notin Elements(k.pending)
    <3>1. ~(Remaining[t] > k.pended)
      BY <1>4, <2>2
    <3>2. left[t] + k.pended <= k.pended
      BY <1>1, <1>8, <3>1
    <3>3. k.tick \in Int /\ k.pended \in 0 .. TickMod - 1
      BY <1>1, <1>12, TickAssumption DEF Timed
    <3>4. (k'.tick - k.tick) % TickMod = k.pended
      BY <1>4, <3>3, ClockGoes
    <3>5. QED
      BY <3>2, <3>4
  <2>3. QED
    BY <2>1, <2>2
<1>13. QED
  BY <1>9, <1>11, <1>12 DEF TimesInv

\* The current task goes to sleep for a number of ticks.
LEMMA SleepTimes ==
    ASSUME SchedInv, TimesInv, CurrentIsReady(k), NEW ticks \in 1 .. TickMod - 1,
           NEW indefinitely, ~Forever(ticks, indefinitely),
           Keeps(k', k, BlockFields \cup {"value"}), DelayedFor(k', k, ticks, indefinitely),
           TimePasses(0), Asked(k.current) = ticks
    PROVE  TimesInv' /\ OnTimeStep
<1> DEFINE c == k.current
<1>1. /\ Good(k) /\ Timed(k) /\ k.pended \in Nat /\ c \in Task
      /\ left \in [Task -> Int] /\ TimesRight(k, Remaining)
  BY DEF SchedInv, KernelInv, TimesInv, Timed
<1>2. k'.pended = k.pended
  BY DEF Keeps, KernelFields, BlockFields, DelayFields, StateLists
<1>3. c \notin Late(k) /\ Late(k) \subseteq Task
  BY <1>1, CurrentNotLate, LateFacts
<1>4. ticks \in Int
  OBVIOUS
<1> DEFINE m == [t \in Task |-> IF t = c THEN ticks ELSE Remaining[t]]
<1>5. m[c] = ticks /\ \A t \in Late(k) : m[t] = Remaining[t]
  BY <1>1, <1>3
<1> HIDE DEF m, c
<1>6. /\ Late(k') = Late(k) \cup {c}
      /\ TimesRight(k', m)
  <2>1. m[k.current] = ticks /\ \A t \in Late(k) : m[t] = Remaining[t]
    BY <1>5 DEF c
  <2>2. Late(k') = Late(k) \cup {k.current} /\ k'.tick = k.tick /\ TimesRight(k', m)
    BY <1>1, <2>1, SleepsFor
  <2>3. QED
    BY <2>2 DEF c
<1>7. left' = [t \in Task |-> IF t \notin Late(k) \cup {c} THEN 0
                              ELSE IF t \in Late(k) THEN left[t] - 0
                              ELSE Asked(t) - k.pended]
  BY <1>6, DelayedLate DEF TimePasses
<1>8. Asked(c) = ticks
  BY DEF c
<1>9. \A t \in Task : left[t] \in Int
  BY <1>1
<1>10. left'[c] = ticks - k.pended /\ \A t \in Late(k) : left'[t] = left[t] - 0
  BY <1>1, <1>3, <1>7, <1>8
<1>11. left' \in [Task -> Int]
  <2>1. \A t \in Task : left'[t] \in Int
    BY <1>1, <1>4, <1>7, <1>8, <1>9
  <2>2. QED
    BY <1>7, <2>1
<1>12. \A t \in Late(k') : Remaining'[t] = m[t]
  <2>1. \A t \in Task : Remaining'[t] = left'[t] + k.pended
    BY <1>2 DEF Remaining
  <2>2. Remaining'[c] = m[c]
    BY <1>1, <1>4, <1>5, <1>10, <2>1
  <2>3. \A t \in Late(k) : Remaining'[t] = m[t]
    <3>1. \A t \in Late(k) : Remaining[t] = left[t] + k.pended /\ left[t] \in Int
      BY <1>3, <1>9 DEF Remaining
    <3>2. QED
      BY <1>1, <1>3, <1>5, <1>10, <2>1, <3>1
  <2>4. QED
    BY <1>6, <2>2, <2>3
<1>13. TimesRight(k', Remaining')
  BY <1>6, <1>12, TimesSame
<1>14. OnTimeStep
  BY <1>6, DelayedLate DEF OnTimeStep
<1>15. QED
  BY <1>11, <1>13, <1>14 DEF TimesInv

\* vTaskDelay puts the task to sleep.
LEMMA DelayTimes ==
    ASSUME SchedInv, PlansInv, TimesInv, NEW t \in Task, DelayAdd(t), TimePasses(0)
    PROVE  TimesInv' /\ OnTimeStep
<1>1. /\ At(t, "delay") /\ k' = prvAddCurrentTaskToDelayedList(k, arg[t], FALSE)
      /\ arg' = arg
  BY DEF DelayAdd
<1>2. k.current = t /\ pc[t] = "delay" /\ Good(k) /\ Timed(k)
  BY <1>1 DEF At, SchedInv, KernelInv
<1>3. CurrentIsReady(k)
  BY <1>1, <1>2, CallingOnTop DEF BeforeYield
<1>4. arg[t] \in 1 .. TickMod - 1 /\ arg[t] \in Int
  BY <1>2 DEF PlansInv
<1>5. Keeps(k', k, DelayFields) /\ DelayedFor(k', k, arg[t], FALSE)
  BY <1>1, <1>2, <1>3, <1>4, DelayWaits
<1>6. Keeps(k', k, BlockFields \cup {"value"})
  BY <1>5 DEF Keeps, BlockFields
<1>7. ~Forever(arg[t], FALSE)
  BY DEF Forever
<1>8. Asked(k.current) = arg[t]
  BY <1>1, <1>2 DEF Asked
<1>9. QED
  BY <1>3, <1>4, <1>5, <1>6, <1>7, <1>8, SleepTimes

\* Two values of the counter that differ are some ticks apart.
LEMMA TicksApart ==
    ASSUME NEW x \in Tick, NEW y \in Tick, x # y
    PROVE  (x - y) % TickMod \in 1 .. TickMod - 1
<1>1. TickMod \in Nat \ {0} /\ x \in 0 .. TickMod - 1 /\ y \in 0 .. TickMod
  BY TickAssumption DEF Tick
<1>2. x % TickMod = x
  BY <1>1, ModSmall
<1>3. (x - y) % TickMod = IF x >= y THEN x - y ELSE x - y + TickMod
  BY <1>1, <1>2, ModBefore
<1>4. QED
  BY <1>1, <1>3 DEF Tick

\* xTaskDelayUntil does, unless the time has passed.
LEMMA DelayUntilTimes ==
    ASSUME SchedInv, PlansInv, TimesInv, NEW t \in Task, DelayUntilAdd(t), TimePasses(0)
    PROVE  TimesInv' /\ OnTimeStep
<1> DEFINE wake == (prev[t] + arg[t]) % TickMod
           ticks == (wake - k.tick) % TickMod
<1>1. /\ At(t, "delay_until") /\ prev' = [prev EXCEPT ![t] = wake] /\ arg' = arg
      /\ \/ /\ WakeTimeAhead(prev[t], arg[t], k.tick)
            /\ k' = prvAddCurrentTaskToDelayedList(k, ticks, FALSE)
         \/ k' = k
  BY DEF DelayUntilAdd
<1>2. /\ k.current = t /\ pc[t] = "delay_until" /\ Good(k) /\ Timed(k)
      /\ prev \in [Task -> Tick] /\ k.tick \in Tick
  BY <1>1 DEF At, SchedInv, KernelInv, PlansInv, TimesInv, TimesRight
<1>3. wake \in Tick
  <2>1. TickMod \in Nat \ {0} /\ prev[t] \in Int /\ arg[t] \in Int
    BY <1>2, TickAssumption DEF PlansInv, Tick
  <2>2. prev[t] + arg[t] \in Int
    BY <2>1
  <2>3. QED
    BY <2>1, <2>2, ModIs DEF Tick
<1>4. CASE k' = k
  <2>1. Undisturbed(0)
    BY <1>4, SameUndisturbed
  <2>2. QED
    BY <2>1, UndisturbedTimes, UndisturbedOnTime
<1>5. CASE WakeTimeAhead(prev[t], arg[t], k.tick)
           /\ k' = prvAddCurrentTaskToDelayedList(k, ticks, FALSE)
  <2>1. wake # k.tick
    <3>1. prev[t] \in Int /\ k.tick \in Int /\ wake \in Int
      BY <1>2, <1>3, TickAssumption DEF Tick
    <3>2. IF k.tick < prev[t] THEN wake < prev[t] /\ wake > k.tick
          ELSE wake < prev[t] \/ wake > k.tick
      BY <1>5 DEF WakeTimeAhead
    <3> HIDE DEF wake
    <3>3. QED
      BY <3>1, <3>2
  <2> HIDE DEF wake
  <2>2. ticks \in 1 .. TickMod - 1
    BY <1>2, <1>3, <2>1, TicksApart
  <2>3. CurrentIsReady(k)
    BY <1>1, <1>2, CallingOnTop DEF BeforeYield
  <2>4. Asked(k.current) = ticks
    BY <1>1, <1>2 DEF Asked
  <2>5. k' = prvAddCurrentTaskToDelayedList(k, ticks, FALSE)
    BY <1>5
  <2> HIDE DEF ticks
  <2>6. ticks \in Int
    BY <2>2
  <2>7. Keeps(k', k, DelayFields) /\ DelayedFor(k', k, ticks, FALSE)
    BY <1>2, <2>3, <2>5, <2>6, DelayWaits
  <2>8. Keeps(k', k, BlockFields \cup {"value"})
    BY <2>7 DEF Keeps, BlockFields
  <2>9. ~Forever(ticks, FALSE)
    BY DEF Forever
  <2>10. QED
    BY <2>2, <2>3, <2>4, <2>7, <2>8, <2>9, SleepTimes
<1>6. QED
  BY <1>1, <1>4, <1>5

\* A task waits for a notification, with a timeout or for ever, or does not wait.
LEMMA WaitTimes ==
    ASSUME SchedInv, TimesInv, NEW t \in Task, At(t, "run"),
           NEW n \in Delays \cup {portMAX_DELAY},
           GoesOn(k', k) \/ (Blocks(k', k, n) /\ n > 0),
           arg' = [arg EXCEPT ![t] = n], TimePasses(0)
    PROVE  TimesInv' /\ OnTimeStep
<1>1. k.current = t /\ pc[t] = "run" /\ Good(k) /\ DOMAIN arg = Task
  BY DEF At, SchedInv, KernelInv, TypeInv
<1>2. CurrentIsReady(k)
  BY <1>1, CallingOnTop DEF BeforeYield
<1>3. CASE GoesOn(k', k)
  <2>1. Keeps(k', k, NotifyFields)
    BY <1>3 DEF GoesOn
  <2>2. k'.pended = k.pended /\ NotifyFields \cap TimeFields = {}
    BY <2>1 DEF Keeps, KernelFields, NotifyFields, TimeFields
  <2>3. Undisturbed(0)
    BY <2>1, <2>2, NonePended, FieldsUndisturbed
  <2>4. QED
    BY <2>3, UndisturbedTimes, UndisturbedOnTime
<1>4. CASE Blocks(k', k, n) /\ n > 0
  <2>1. Keeps(k', k, BlockFields \cup {"value"}) /\ DelayedFor(k', k, n, TRUE)
    BY <1>4 DEF Blocks
  <2>2. CASE Forever(n, TRUE)
    <3>1. Kept(k', k) /\ Late(k') = Late(k)
      BY <1>1, <1>2, <2>1, <2>2, SleepsForever
    <3>2. k'.pended = k.pended + 0
      BY <2>1, NonePended DEF Keeps, KernelFields, BlockFields, DelayFields, StateLists
    <3>3. Undisturbed(0)
      BY <3>1, <3>2 DEF Undisturbed
    <3>4. QED
      BY <3>3, UndisturbedTimes, UndisturbedOnTime
  <2>3. CASE ~Forever(n, TRUE)
    <3>1. n \in 1 .. TickMod - 1
      BY <1>4, TickAssumption, ValuesAssumption DEF portMAX_DELAY, Tick
    <3>2. Asked(k.current) = n
      BY <1>1 DEF Asked
    <3>3. QED
      BY <1>2, <2>1, <2>3, <3>1, <3>2, SleepTimes
  <2>4. QED
    BY <2>2, <2>3
<1>5. QED
  BY <1>3, <1>4

LEMMA NotifyWaitTimes ==
    ASSUME SchedInv, TimesInv, NEW t \in Task, NotifyTake(t) \/ NotifyWait(t), TimePasses(0)
    PROVE  TimesInv' /\ OnTimeStep
<1>1. At(t, "run")
  BY DEF NotifyTake, NotifyWait, May
<1>2. CurrentIsReady(k)
  BY <1>1, CallingOnTop DEF BeforeYield, At
<1>3. PICK n \in Delays \cup {portMAX_DELAY} :
         /\ k' = NotifyTakeEnter(k, n) \/ k' = NotifyWaitEnter(k, 0, n)
         /\ arg' = [arg EXCEPT ![t] = n]
  BY DEF NotifyTake, NotifyWait
<1>4. n \in Nat
  BY DelaysNumbers
<1>5. Good(k) /\ Timed(k) /\ DOMAIN k.notify = Task /\ DOMAIN k.value = Task
  BY DEF SchedInv, KernelInv
<1>6. GoesOn(k', k) \/ (Blocks(k', k, n) /\ n > 0)
  <2>1. CASE k' = NotifyTakeEnter(k, n)
    BY <1>2, <1>4, <1>5, <2>1, TakeEnterIs
  <2>2. CASE k' = NotifyWaitEnter(k, 0, n)
    BY <1>2, <1>4, <1>5, <2>2, WaitEnterIs
  <2>3. QED
    BY <1>3, <2>1, <2>2
<1>7. QED
  BY <1>1, <1>3, <1>6, WaitTimes

-----------------------------------------------------------------------------
(* Every step keeps the times *)

LEMMA UndisturbedBoth ==
    ASSUME SchedInv, TimesInv, NEW n \in Int, TimePasses(n), Undisturbed(n)
    PROVE  TimesInv' /\ OnTimeStep
BY UndisturbedTimes, UndisturbedOnTime

LEMMA TaskTimes ==
    ASSUME SchedInv, WakeInv, NEW t \in Task, TaskStep(t), TimePasses(0)
    PROVE  TimesInv' /\ (k.pended < TickMod => OnTimeStep)
<1>1. TimesInv /\ PlansInv /\ WhyPended /\ 0 \in Int
  BY DEF WakeInv
<1>2. CASE \/ Yield(t) \/ Delay(t) \/ DelayUntil(t) \/ SuspendAll(t) \/ CatchUpTicks(t)
           \/ CreateReturn(t) \/ DeleteYield(t) \/ DeleteTCB(t)
  BY <1>1, <1>2, FlagCalls, UndisturbedBoth
<1>3. CASE NotifyTakeReturn(t) \/ NotifyWaitReturn(t) \/ NotifyClear(t)
  BY <1>1, <1>3, ReturnCalls, UndisturbedBoth
<1>4. CASE Notify(t)
  BY <1>1, <1>4, NotifyCalls, UndisturbedBoth
<1>5. CASE Resume(t)
  BY <1>1, <1>5, ResumeCalls, UndisturbedBoth
<1>6. CASE Suspend(t)
  BY <1>1, <1>6, SuspendCalls, UndisturbedBoth
<1>7. CASE SuspendReturn(t)
  BY <1>1, <1>7, SuspendReturnCalls, UndisturbedBoth
<1>8. CASE PrioritySet(t)
  BY <1>1, <1>8, PriorityCalls, UndisturbedBoth
<1>9. CASE Create(t)
  BY <1>1, <1>9, CreateCalls, UndisturbedBoth
<1>10. CASE Delete(t)
  BY <1>1, <1>10, DeleteCalls, UndisturbedBoth
<1>11. CASE DelayAdd(t)
  BY <1>1, <1>11, DelayTimes
<1>12. CASE DelayUntilAdd(t)
  BY <1>1, <1>12, DelayUntilTimes
<1>13. CASE NotifyTake(t) \/ NotifyWait(t)
  BY <1>1, <1>13, NotifyWaitTimes
<1>14. CASE ResumeAllAndYield(t) \/ ResumeAll(t)
  <2>1. pc[t] \in {"resume_all", "suspended_all"} /\ k' = xTaskResumeAll(k)
    BY <1>14 DEF ResumeAllAndYield, ResumeAll, At
  <2>2. k.suspensions = 1
    BY <2>1 DEF SchedInv, SuspensionInv, Suspending
  <2>3. QED
    BY <1>1, <2>1, <2>2, ResumeAllTicks
<1>15. QED
  BY <1>2, <1>3, <1>4, <1>5, <1>6, <1>7, <1>8, <1>9, <1>10, <1>11, <1>12, <1>13, <1>14
     DEF TaskStep

LEMMA NextTimes ==
    ASSUME SchedInv, WakeInv, Next
    PROVE  TimesInv' /\ (k.pended < TickMod => OnTimeStep)
<1>1. TimesInv /\ 0 \in Int /\ 1 \in Int
  BY DEF WakeInv
<1>2. CASE Interrupt /\ TimePasses(0)
  <2>1. Undisturbed(0)
    BY <1>2, PendSVCalls, NotifyISRCalls, ResumeISRCalls DEF Interrupt
  <2>2. QED
    BY <1>1, <1>2, <2>1, UndisturbedBoth
<1>3. CASE IdleCleanUp /\ TimePasses(0)
  BY <1>1, <1>3, CleanUpCalls, UndisturbedBoth
<1>4. CASE (\E t \in Task : TaskStep(t)) /\ TimePasses(0)
  BY <1>4, TaskTimes
<1>5. CASE SysTick /\ TimePasses(1)
  <2>1. CASE k.suspensions > 0
    <3>1. k' = [k EXCEPT !.pended = @ + 1]
      BY <1>5, <2>1 DEF SysTick, xTaskIncrementTick, YieldIf
    <3>2. k' = PendTicks(k, 1)
      BY <3>1 DEF PendTicks
    <3>3. QED
      BY <1>1, <1>5, <3>2, PendsTicks, UndisturbedBoth
  <2>2. CASE ~(k.suspensions > 0)
    BY <1>1, <1>5, <2>2, SysTickTimes
  <2>3. QED
    BY <2>1, <2>2
<1>6. CASE \E t \in Task, n \in Delays : CatchUpTicksPend(t, n) /\ TimePasses(n)
  <2>1. PICK t \in Task, n \in Delays : CatchUpTicksPend(t, n) /\ TimePasses(n)
    BY <1>6
  <2>2. n \in Int
    BY ValuesAssumption, TickAssumption DEF Tick
  <2>3. k' = PendTicks(k, n)
    BY <2>1 DEF CatchUpTicksPend
  <2>4. QED
    BY <1>1, <2>1, <2>2, <2>3, PendsTicks, UndisturbedBoth
<1>7. QED
  BY <1>2, <1>3, <1>4, <1>5, <1>6 DEF Next

\* What the delays work with stays as it was.
LEMMA PlansStay ==
    ASSUME PlansInv, prev' \in [Task -> Tick],
           \A u \in Task : pc'[u] \in {"delay", "delay_until"} =>
              pc[u] = pc'[u] /\ arg'[u] = arg[u]
    PROVE  PlansInv'
BY DEF PlansInv

\* A task goes elsewhere.
LEMMA PlansGo ==
    ASSUME TypeInv, PlansInv, prev' = prev, NEW t \in Task, NEW w,
           w \notin {"delay", "delay_until"}, pc' = [pc EXCEPT ![t] = w],
           \A u \in Task \ {t} : arg'[u] = arg[u]
    PROVE  PlansInv'
<1>1. \A u \in Task : pc'[u] = IF u = t THEN w ELSE pc[u]
  BY DEF TypeInv
<1>2. prev' \in [Task -> Tick]
  BY DEF PlansInv
<1>3. QED
  BY <1>1, <1>2, PlansStay

LEMMA DelayPlans ==
    ASSUME TypeInv, PlansInv, NEW t \in Task, Delay(t) \/ DelayUntil(t)
    PROVE  PlansInv'
<1>1. DOMAIN pc = Task /\ DOMAIN arg = Task
  BY DEF TypeInv
<1>2. CASE Delay(t) /\ pc' = [pc EXCEPT ![t] = "yield"] /\ arg' = arg
  BY <1>2, PlansGo DEF Delay
<1>3. CASE \E n \in Delays \ {0} :
              /\ arg' = [arg EXCEPT ![t] = n] /\ prev' = prev
              /\ \E w : pc' = [pc EXCEPT ![t] = w]
  <2>1. PICK n \in Delays \ {0} :
           /\ arg' = [arg EXCEPT ![t] = n] /\ prev' = prev
           /\ \E w : pc' = [pc EXCEPT ![t] = w]
    BY <1>3
  <2>2. n \in 1 .. TickMod - 1
    BY ValuesAssumption, TickAssumption DEF Tick
  <2>3. \A u \in Task \ {t} : pc'[u] = pc[u] /\ arg'[u] = arg[u]
    BY <1>1, <2>1
  <2>4. arg'[t] = n
    BY <1>1, <2>1
  <2>5. QED
    BY <2>1, <2>2, <2>3, <2>4 DEF PlansInv
<1>4. DelayUntil(t) \/ (Delay(t) /\ ~(pc' = [pc EXCEPT ![t] = "yield"] /\ arg' = arg))
        => \E n \in Delays \ {0} :
              /\ arg' = [arg EXCEPT ![t] = n] /\ prev' = prev
              /\ \E w : pc' = [pc EXCEPT ![t] = w]
  <2>1. CASE DelayUntil(t)
    BY <2>1 DEF DelayUntil, Goes
  <2>2. CASE Delay(t) /\ ~(pc' = [pc EXCEPT ![t] = "yield"] /\ arg' = arg)
    <3>1. PICK n \in Delays :
             \/ /\ n = 0 /\ pc' = [pc EXCEPT ![t] = "yield"] /\ arg' = arg
             \/ /\ n > 0 /\ arg' = [arg EXCEPT ![t] = n] /\ pc' = [pc EXCEPT ![t] = "delay"]
      BY <2>2 DEF Delay, Goes
    <3>2. n > 0 /\ arg' = [arg EXCEPT ![t] = n] /\ pc' = [pc EXCEPT ![t] = "delay"]
      BY <2>2, <3>1
    <3>3. n \in Delays \ {0} /\ prev' = prev
      BY <2>2, <3>2 DEF Delay
    <3>4. QED
      BY <3>2, <3>3
  <2>3. QED
    BY <2>1, <2>2
<1>5. QED
  BY <1>2, <1>3, <1>4

LEMMA TaskPlans ==
    ASSUME SchedInv, PlansInv, NEW t \in Task, TaskStep(t)
    PROVE  PlansInv'
<1>1. TypeInv /\ DOMAIN pc = Task /\ DOMAIN arg = Task /\ prev \in [Task -> Tick]
  BY DEF SchedInv, TypeInv, PlansInv
<1>2. CASE pc' = pc /\ arg' = arg /\ prev' = prev
  BY <1>1, <1>2, PlansStay
<1>3. CASE \/ Notify(t) \/ NotifyClear(t) \/ Resume(t) \/ PrioritySet(t) \/ DeleteYield(t)
  BY <1>2, <1>3 DEF Notify, NotifyClear, Resume, PrioritySet, DeleteYield
<1>4. CASE Delay(t) \/ DelayUntil(t)
  BY <1>1, <1>4, DelayPlans
<1>5. CASE \/ Yield(t) \/ DelayAdd(t) \/ SuspendAll(t) \/ ResumeAll(t) \/ CatchUpTicks(t)
  BY <1>1, <1>5, PlansGo DEF Yield, DelayAdd, SuspendAll, ResumeAll, CatchUpTicks, Goes
<1>6. CASE \/ NotifyTake(t) \/ NotifyTakeReturn(t) \/ NotifyWait(t) \/ NotifyWaitReturn(t)
           \/ Suspend(t)
  <2>1. /\ prev' = prev /\ \E w \in {"take", "wait", "run", "suspend"} : pc' = [pc EXCEPT ![t] = w]
        /\ \E n : arg' = [arg EXCEPT ![t] = n]
    BY <1>6 DEF NotifyTake, NotifyTakeReturn, NotifyWait, NotifyWaitReturn, Suspend, Goes,
                Returned
  <2>2. \A u \in Task \ {t} : arg'[u] = arg[u]
    BY <1>1, <2>1
  <2>3. QED
    BY <1>1, <2>1, <2>2, PlansGo
<1>7. CASE ResumeAllAndYield(t) \/ CreateReturn(t) \/ SuspendReturn(t)
  <2>1. /\ prev' = prev /\ \E w \in {"run", "yield"} : pc' = [pc EXCEPT ![t] = w]
        /\ arg' = [arg EXCEPT ![t] = 0]
    BY <1>7, Zenon DEF ResumeAllAndYield, CreateReturn, SuspendReturn, Goes, Returned
  <2>2. \A u \in Task \ {t} : arg'[u] = arg[u]
    BY <1>1, <2>1
  <2>3. QED
    BY <1>1, <2>1, <2>2, PlansGo
<1>8. CASE DelayUntilAdd(t)
  <2>1. /\ prev' = [prev EXCEPT ![t] = (prev[t] + arg[t]) % TickMod]
        /\ pc' = [pc EXCEPT ![t] = "resume_all"] /\ arg' = arg /\ pc[t] = "delay_until"
    BY <1>8 DEF DelayUntilAdd, Goes, At
  <2>2. (prev[t] + arg[t]) % TickMod \in Tick
    <3>1. TickMod \in Nat \ {0} /\ prev[t] \in Int /\ arg[t] \in Int
      BY <1>1, <2>1, TickAssumption DEF PlansInv, Tick
    <3>2. prev[t] + arg[t] \in Int
      BY <3>1
    <3>3. QED
      BY <3>1, <3>2, ModIs DEF Tick
  <2>3. prev' \in [Task -> Tick]
    BY <1>1, <2>1, <2>2
  <2>4. \A u \in Task : pc'[u] \in {"delay", "delay_until"} => pc[u] = pc'[u]
    BY <1>1, <2>1
  <2>5. QED
    BY <2>1, <2>3, <2>4, PlansStay
<1>9. CASE Create(t)
  <2>1. PICK u \in Task : /\ pc' = [pc EXCEPT ![u] = "run", ![t] = "created"]
                          /\ arg' = [arg EXCEPT ![t] = u] /\ prev' = prev
    BY <1>9 DEF Create
  <2>2. \A y \in Task : y # t => arg'[y] = arg[y] /\ (pc'[y] = pc[y] \/ pc'[y] = "run")
    BY <1>1, <2>1
  <2>3. pc'[t] = "created"
    BY <1>1, <2>1
  <2>4. QED
    BY <1>1, <2>1, <2>2, <2>3, PlansStay
<1>10. CASE Delete(t)
  <2>1. PICK u \in Task :
           /\ pc' = IF u = t THEN [pc EXCEPT ![t] = "deleted"]
                    ELSE [pc EXCEPT ![t] = "free", ![u] = "freed"]
           /\ arg' = [arg EXCEPT ![t] = u, ![u] = 0] /\ prev' = prev
    BY <1>10 DEF Delete, Others
  <2>2. \A y \in Task : \/ pc'[y] \in {"deleted", "free", "freed"}
                        \/ pc'[y] = pc[y] /\ arg'[y] = arg[y]
    BY <1>1, <2>1
  <2>3. QED
    BY <1>1, <2>1, <2>2, PlansStay
<1>11. CASE DeleteTCB(t)
  <2>1. /\ pc' = [pc EXCEPT ![t] = "run", ![arg[t]] = "none"] /\ arg' = [arg EXCEPT ![t] = 0]
        /\ prev' = [prev EXCEPT ![arg[t]] = 0]
    BY <1>11 DEF DeleteTCB, Returned
  <2>2. 0 \in Tick
    BY TickAssumption DEF Tick
  <2>3. prev' \in [Task -> Tick]
    BY <1>1, <2>1, <2>2
  <2>4. \A y \in Task : \/ pc'[y] \in {"run", "none"}
                        \/ pc'[y] = pc[y] /\ arg'[y] = arg[y]
    BY <1>1, <2>1
  <2>5. QED
    BY <2>3, <2>4, PlansStay
<1>12. QED
  BY <1>3, <1>4, <1>5, <1>6, <1>7, <1>8, <1>9, <1>10, <1>11 DEF TaskStep

LEMMA NextPlans ==
    ASSUME SchedInv, PlansInv, Next
    PROVE  PlansInv'
<1>1. TypeInv /\ DOMAIN pc = Task /\ DOMAIN arg = Task /\ prev \in [Task -> Tick]
  BY DEF SchedInv, TypeInv, PlansInv
<1>2. CASE Interrupt \/ SysTick
  <2>1. pc' = pc /\ arg' = arg /\ prev' = prev
    BY <1>2 DEF Interrupt, PendSV, NotifyFromISR, ResumeFromISR, SysTick
  <2>2. QED
    BY <1>1, <2>1, PlansStay
<1>3. CASE IdleCleanUp
  <2> DEFINE u == Head(k.termination)
  <2>1. /\ pc' = [pc EXCEPT ![Idle] = "free", ![u] = "freed"]
        /\ arg' = [arg EXCEPT ![Idle] = u, ![u] = 0] /\ prev' = prev
    BY <1>3 DEF IdleCleanUp
  <2> HIDE DEF u
  <2>2. \A y \in Task : \/ pc'[y] \in {"free", "freed"}
                        \/ pc'[y] = pc[y] /\ arg'[y] = arg[y]
    BY <1>1, <2>1
  <2>3. QED
    BY <1>1, <2>1, <2>2, PlansStay
<1>4. CASE \E t \in Task : TaskStep(t)
  BY <1>4, TaskPlans
<1>5. CASE \E t \in Task, n \in Delays : CatchUpTicksPend(t, n)
  <2>1. PICK t \in Task : pc' = [pc EXCEPT ![t] = "suspended_all"] /\ arg' = arg /\ prev' = prev
    BY <1>5 DEF CatchUpTicksPend, Goes
  <2>2. QED
    BY <1>1, <2>1, PlansGo
<1>6. QED
  BY <1>2, <1>3, <1>4, <1>5 DEF Next

-----------------------------------------------------------------------------
(* Why tasks are pended, and how many ticks *)

\* The steps after which the scheduler is suspended, and was not before.
LEMMA SuspensionStarts ==
    ASSUME SchedInv, SchedInv', k.suspensions = 0, k'.suspensions = 1, Next
    PROVE  k' = vTaskSuspendAll(k)
<1>1. /\ k'.current \in Task /\ pc'[k'.current] \in Suspending
      /\ \A u \in Task : pc[u] \notin Suspending
      /\ DOMAIN pc = Task
  BY DEF SchedInv, KernelInv, Timed, SuspensionInv, TypeInv
<1>2. pc' # pc
  BY <1>1
<1>3. \A t, w : w \notin Suspending => pc' # [pc EXCEPT ![t] = w]
  BY <1>1
<1>4. \A t, u, w, v : w \notin Suspending /\ v \notin Suspending =>
        pc' # [pc EXCEPT ![t] = w, ![u] = v]
  BY <1>1
<1>5. \A t, w : w \notin Suspending => ~Goes(t, w)
  BY <1>3 DEF Goes
<1>6. ~Interrupt /\ ~SysTick
  BY <1>2 DEF Interrupt, SysTick, PendSV, NotifyFromISR, ResumeFromISR
<1>7. ~IdleCleanUp
  <2>1. IdleCleanUp =>
          pc' = [pc EXCEPT ![Idle] = "free", ![Head(k.termination)] = "freed"]
    BY DEF IdleCleanUp
  <2>2. "free" \notin Suspending /\ "freed" \notin Suspending
    BY DEF Suspending
  <2>3. QED
    BY <1>4, <2>1, <2>2, Zenon
<1>8. ASSUME NEW t \in Task, NEW n, CatchUpTicksPend(t, n) PROVE FALSE
  BY <1>1, <1>8 DEF CatchUpTicksPend, At, Suspending
<1>9. ASSUME NEW t \in Task, TaskStep(t) PROVE k' = vTaskSuspendAll(k)
  <2>1. ~At(t, "delay") /\ ~At(t, "delay_until") /\ ~At(t, "resume_all") /\ ~At(t, "suspended_all")
    BY <1>1 DEF At, Suspending
  <2>2. /\ ~Goes(t, "run") /\ ~Goes(t, "yield") /\ ~Goes(t, "take") /\ ~Goes(t, "wait")
        /\ ~Goes(t, "suspend")
        /\ \A c : ~Goes(t, IF c THEN "yield" ELSE "run")
    BY <1>5 DEF Suspending
  <2>3. /\ ~DelayAdd(t) /\ ~DelayUntilAdd(t) /\ ~ResumeAllAndYield(t) /\ ~ResumeAll(t)
    BY <2>1 DEF DelayAdd, DelayUntilAdd, ResumeAllAndYield, ResumeAll
  <2>4. /\ ~Yield(t) /\ ~NotifyTake(t) /\ ~NotifyTakeReturn(t) /\ ~NotifyWait(t)
        /\ ~NotifyWaitReturn(t) /\ ~CreateReturn(t) /\ ~Suspend(t) /\ ~SuspendReturn(t)
    BY <2>2, Zenon DEF Yield, NotifyTake, NotifyTakeReturn, NotifyWait, NotifyWaitReturn,
              CreateReturn, Suspend, SuspendReturn
  <2>5. /\ ~Notify(t) /\ ~NotifyClear(t) /\ ~DeleteYield(t) /\ ~Resume(t) /\ ~PrioritySet(t)
    BY <1>2, Zenon DEF Notify, NotifyClear, DeleteYield, Resume, PrioritySet
  <2>6. ~Create(t)
    <3>1. Create(t) => \E u \in Task : pc' = [pc EXCEPT ![u] = "run", ![t] = "created"]
      BY DEF Create
    <3>2. "run" \notin Suspending /\ "created" \notin Suspending
      BY DEF Suspending
    <3>3. QED
      BY <1>4, <3>1, <3>2, Zenon
  <2>7. ~Delete(t)
    BY <1>3, <1>4 DEF Delete, Suspending
  <2>8. ~DeleteTCB(t)
    BY <1>4 DEF DeleteTCB, Suspending
  <2>9. Delay(t) \/ DelayUntil(t) \/ SuspendAll(t) \/ CatchUpTicks(t)
    BY <1>9, <2>3, <2>4, <2>5, <2>6, <2>7, <2>8 DEF TaskStep
  <2>10. QED
    BY <2>2, <2>9, Zenon DEF Delay, DelayUntil, SuspendAll, CatchUpTicks
<1>10. QED
  BY <1>6, <1>7, <1>8, <1>9 DEF Next

\* Whoever is pended has been notified or was in the suspended list; the ticks
\* are as many as they were, or within the bound.
PendedWell ==
    /\ k'.pended = k.pended \/ k'.pended <= MaxPended
    /\ \A t \in Elements(k'.pending) :
         t \in Elements(k.pending) \/ t \in Elements(k.suspended) \/ k'.notify[t] = "received"
    /\ Elements(k.suspended) \subseteq Elements(k'.suspended)
    /\ \A t \in Task : k.notify[t] = "received" => k'.notify[t] = "received"

\* The task that suspended the scheduler goes to sleep.
LEMMA AddsWell ==
    ASSUME SchedInv, CurrentIsReady(k), NEW ticks \in Int,
           k' = prvAddCurrentTaskToDelayedList(k, ticks, FALSE)
    PROVE  PendedWell
<1>1. Good(k) /\ Timed(k)
  BY DEF SchedInv, KernelInv
<1>2. Keeps(k', k, DelayFields) /\ DelayedFor(k', k, ticks, FALSE)
  BY <1>1, DelayWaits
<1>3. k'.pended = k.pended /\ k'.pending = k.pending /\ k'.notify = k.notify
  BY <1>2 DEF Keeps, KernelFields, DelayFields, StateLists
<1>4. k'.suspended = k.suspended
  BY <1>2 DEF DelayedFor, Forever
<1>5. QED
  BY <1>3, <1>4 DEF PendedWell

LEMMA SuspenderWell ==
    ASSUME SchedInv, k.suspensions = 1, k'.suspensions = 1, NEW t \in Task,
           TaskStep(t) \/ (t = Idle /\ IdleCleanUp)
             \/ \E n \in Delays : CatchUpTicksPend(t, n)
    PROVE  PendedWell
<1>1. /\ Good(k) /\ Timed(k) /\ DOMAIN k = KernelFields
      /\ pc[k.current] \in Suspending /\ TypeInv /\ k.pended \in Nat
  BY DEF SchedInv, KernelInv, Good, Sound, Shape, SuspensionInv
<1>2. \A w : At(t, w) => pc[t] = w /\ w \in Suspending
  BY <1>1 DEF At
<1>3. /\ ~At(t, "run") /\ ~At(t, "yield") /\ ~At(t, "take") /\ ~At(t, "wait")
      /\ ~At(t, "created") /\ ~At(t, "deleted") /\ ~At(t, "free") /\ ~At(t, "suspend")
      /\ \A call : ~May(t, call)
  BY <1>2 DEF Suspending, May
<1>4. ~(t = Idle /\ IdleCleanUp)
  BY <1>3 DEF IdleCleanUp
<1>5. TaskStep(t) => DelayAdd(t) \/ DelayUntilAdd(t) \/ ResumeAllAndYield(t) \/ ResumeAll(t)
  BY <1>3 DEF TaskStep, Yield, Delay, DelayUntil, SuspendAll, CatchUpTicks, NotifyTake,
              NotifyTakeReturn, NotifyWait, NotifyWaitReturn, Notify, NotifyClear, Create,
              CreateReturn, Delete, DeleteYield, DeleteTCB, Suspend, SuspendReturn, Resume,
              PrioritySet
<1>6. CASE ResumeAllAndYield(t) \/ ResumeAll(t)
  <2>1. k' = xTaskResumeAll(k)
    BY <1>6 DEF ResumeAllAndYield, ResumeAll
  <2>2. k'.suspensions = 0
    BY <1>1, <2>1, ResumeAllIs
  <2>3. QED
    BY <2>2
<1>7. CASE \E n \in Delays : CatchUpTicksPend(t, n)
  <2>1. PICK n \in Delays : k' = PendTicks(k, n) /\ k.pended + n <= MaxPended
    BY <1>7 DEF CatchUpTicksPend
  <2>2. Keeps(k', k, {"pended"}) /\ k'.pended = k.pended + n
    BY <1>1, <2>1 DEF PendTicks, Keeps, KernelFields
  <2>3. k'.pending = k.pending /\ k'.notify = k.notify /\ k'.suspended = k.suspended
    BY <2>2 DEF Keeps, KernelFields
  <2>4. QED
    BY <2>1, <2>2, <2>3 DEF PendedWell
<1>8. CASE DelayAdd(t)
  <2>1. /\ At(t, "delay") /\ k' = prvAddCurrentTaskToDelayedList(k, arg[t], FALSE)
    BY <1>8 DEF DelayAdd
  <2>2. CurrentIsReady(k)
    BY <2>1, CallingOnTop DEF BeforeYield, At
  <2>3. arg[t] \in Int
    BY <1>1, <2>1 DEF TypeInv, At
  <2>4. QED
    BY <2>1, <2>2, <2>3, AddsWell
<1>9. CASE DelayUntilAdd(t)
  <2> DEFINE ticks == (((prev[t] + arg[t]) % TickMod) - k.tick) % TickMod
  <2>1. /\ At(t, "delay_until")
        /\ k' = prvAddCurrentTaskToDelayedList(k, ticks, FALSE) \/ k' = k
    BY <1>9 DEF DelayUntilAdd
  <2>2. CurrentIsReady(k)
    BY <2>1, CallingOnTop DEF BeforeYield, At
  <2>3. ticks \in Int
    <3>1. prev[t] \in Int /\ arg[t] \in Int /\ k.tick \in Int
      BY <1>1, <2>1 DEF TypeInv, At, Timed
    <3>2. TickMod \in Nat \ {0}
      BY TickAssumption
    <3>3. (prev[t] + arg[t]) \in Int
      BY <3>1
    <3>4. (prev[t] + arg[t]) % TickMod \in Int
      BY <3>2, <3>3, ModIs
    <3>5. ((prev[t] + arg[t]) % TickMod) - k.tick \in Int
      BY <3>1, <3>4
    <3>6. QED
      BY <3>2, <3>5, ModIs
  <2> HIDE DEF ticks
  <2>4. CASE k' = k
    BY <2>4 DEF PendedWell
  <2>5. CASE k' # k
    BY <2>1, <2>2, <2>3, <2>5, AddsWell
  <2>6. QED
    BY <2>4, <2>5
<1>10. QED
  BY <1>4, <1>5, <1>6, <1>7, <1>8, <1>9

\* The interrupts pend tasks, and ticks.
LEMMA InterruptsWell ==
    ASSUME SchedInv, k.suspensions = 1, Interrupt \/ SysTick
    PROVE  PendedWell
<1>1. /\ Good(k) /\ NoEvents(k) /\ DOMAIN k = KernelFields /\ k.pended \in Nat
      /\ DOMAIN k.notify = Task /\ DOMAIN k.value = Task
      /\ Elements(k.pending) \subseteq Task
  BY DEF SchedInv, KernelInv, Good, Sound, Shape, IsList, Elements
<1>2. k'.suspended = k.suspended
  BY InterruptsDefer DEF Keeps, KernelFields, Deferred
<1>3. CASE SysTick
  <2>1. k' = [k EXCEPT !.pended = @ + 1] /\ k.pended < MaxPended
    BY <1>3 DEF SysTick, xTaskIncrementTick, YieldIf
  <2>2. /\ k'.pended = k.pended + 1 /\ k'.pending = k.pending /\ k'.notify = k.notify
    BY <1>1, <2>1 DEF KernelFields
  <2>3. k'.pended <= MaxPended
    BY <1>1, <2>1, <2>2, ValuesAssumption
  <2>4. QED
    BY <1>2, <2>2, <2>3 DEF PendedWell
<1>4. CASE PendSV
  <2>1. Keeps(vTaskSwitchContext(k), k, {"yield", "pendsv"})
    <3>1. k.suspensions > 0
      OBVIOUS
    <3>2. QED
      BY <1>1, <3>1, SwitchLater
  <2>2. /\ k'.pended = k.pended /\ k'.pending = k.pending /\ k'.notify = k.notify
    BY <1>4, <2>1 DEF PendSV, Keeps, KernelFields
  <2>3. QED
    BY <1>2, <2>2 DEF PendedWell
<1>5. CASE NotifyFromISR
  <2>1. PICK u \in Others, action \in Actions : k' = NotifyAndYield(k, u, 1, action)
    BY <1>5 DEF NotifyFromISR, NotifyAndYield
  <2>2. u \in Task /\ "notify_isr" \in calls
    BY <1>5, OthersAre DEF NotifyFromISR
  <2>3. k'.notify = [k.notify EXCEPT ![u] = "received"] /\ k'.pended = k.pended
    BY <2>1, NotifyISRFacts
  <2>4. Elements(k'.pending) \subseteq Elements(k.pending) \cup {u}
    <3>1. CASE k.notify[u] = "waiting"
      <4>1. u \notin Elements(k.pending)
        BY <2>2, <3>1 DEF SchedInv, PendingInv
      <4>2. PendedBy(NotifyAndYield(k, u, 1, action), k, u, 1, action)
        BY <1>1, <2>2, <3>1, <4>1, NotifyLaterIs
      <4>3. QED
        BY <2>1, <4>2 DEF PendedBy
    <3>2. CASE k.notify[u] # "waiting"
      <4>1. Keeps(NotifyAndYield(k, u, 1, action), k, NotifyFields)
        BY <1>1, <2>2, <3>2, NotifyIdleKeeps
      <4>2. k'.pending = k.pending
        BY <2>1, <4>1 DEF Keeps, KernelFields, NotifyFields
      <4>3. QED
        BY <4>2
    <3>3. QED
      BY <3>1, <3>2
  <2>5. k'.notify[u] = "received" /\ \A t \in Task : t # u => k'.notify[t] = k.notify[t]
    BY <1>1, <2>2, <2>3
  <2>6. QED
    BY <1>2, <2>3, <2>4, <2>5 DEF PendedWell
<1>6. CASE ResumeFromISR
  <2>1. PICK u \in Others : k' = ResumeAndYield(k, u)
    BY <1>6 DEF ResumeFromISR, ResumeAndYield
  <2>2. u \in Task
    BY OthersAre
  <2>3. CASE SuspendedTask(k, u)
    <3>1. Keeps(k', k, {"pending"}) /\ Elements(k'.pending) = Elements(k.pending) \cup {u}
      BY <1>1, <2>1, <2>2, <2>3, ResumeLaterIs
    <3>2. k'.notify = k.notify /\ k'.pended = k.pended
      BY <3>1 DEF Keeps, KernelFields
    <3>3. u \in Elements(k.suspended)
      BY <2>3 DEF SuspendedTask
    <3>4. QED
      BY <1>2, <3>1, <3>2, <3>3 DEF PendedWell
  <2>4. CASE ~SuspendedTask(k, u)
    <3>1. k' = k
      BY <1>1, <2>1, <2>4, ResumeNotSuspended
    <3>2. QED
      BY <3>1 DEF PendedWell
  <2>5. QED
    BY <2>3, <2>4
<1>7. QED
  BY <1>3, <1>4, <1>5, <1>6 DEF Interrupt

\* The bound of the instance on the ticks that are pended.
PendedBound == k.pended <= MaxPended

LEMMA NextPended ==
    ASSUME SchedInv, SchedInv', Next
    PROVE  /\ WhyPended => WhyPended'
           /\ PendedBound => PendedBound'
<1>1. k.suspensions \in {0, 1} /\ k'.suspensions \in {0, 1} /\ Elements(k.pending) \subseteq Task
  BY DEF SchedInv, KernelInv, Good, Sound, Shape, IsList, Elements
<1>2. CASE k'.suspensions = 0
  <2>1. Elements(k'.pending) = {} /\ k'.pended = 0
    BY <1>2 DEF SchedInv, PendingInv
  <2>2. QED
    BY <2>1, ValuesAssumption DEF WhyPended, PendedBound
<1>3. CASE k.suspensions = 0 /\ k'.suspensions = 1
  <2>1. k' = vTaskSuspendAll(k)
    BY <1>3, SuspensionStarts
  <2>2. k'.pending = k.pending /\ k'.pended = k.pended
    BY <2>1 DEF vTaskSuspendAll
  <2>3. Elements(k.pending) = {} /\ k.pended = 0
    BY <1>3 DEF SchedInv, PendingInv
  <2>4. QED
    BY <2>2, <2>3, ValuesAssumption DEF WhyPended, PendedBound
<1>4. CASE k.suspensions = 1 /\ k'.suspensions = 1
  <2>1. Idle \in Task
    BY TasksAssumption
  <2>2. PendedWell
    BY <1>4, <2>1, InterruptsWell, SuspenderWell DEF Next
  <2>3. QED
    BY <1>1, <2>2 DEF PendedWell, WhyPended, PendedBound
<1>5. QED
  BY <1>1, <1>2, <1>3, <1>4

\* Nobody sleeps when the kernel starts.
LEMMA InitWakes == Init => WakeInv /\ PendedBound
<1> SUFFICES ASSUME Init PROVE WakeInv /\ PendedBound
  OBVIOUS
<1>1. /\ SchedInv /\ k.tick = 0 /\ Late(k) = {}
  BY InitKeeps
<1>2. /\ left = [t \in Task |-> 0] /\ prev = [t \in Task |-> 0]
      /\ \A t \in Task : pc[t] \in {"run", "none"}
  BY DEF Init
<1>3. 0 \in Tick
  BY TickAssumption DEF Tick
<1>4. PlansInv
  BY <1>2, <1>3 DEF PlansInv
<1>5. TimesInv
  <2>1. Elements(k.delayed) = {}
    BY <1>1 DEF Late
  <2>2. QED
    BY <1>1, <1>2, <1>3, <2>1 DEF TimesInv, TimesRight, Early, Exact
<1>6. k.suspensions = 0
  <2>1. k.current \in Task /\ pc[k.current] \notin Suspending
    BY <1>1, <1>2 DEF SchedInv, KernelInv, Timed, Suspending
  <2>2. QED
    BY <1>1, <2>1 DEF SchedInv, KernelInv, SuspensionInv
<1>7. Elements(k.pending) = {} /\ k.pended = 0
  BY <1>1, <1>6 DEF SchedInv, PendingInv
<1>8. QED
  BY <1>4, <1>5, <1>7, ValuesAssumption DEF WakeInv, WhyPended, PendedBound

LEMMA StutterWakes ==
    ASSUME WakeInv, PendedBound, UNCHANGED vars
    PROVE  WakeInv' /\ PendedBound'
<1>1. /\ k' = k /\ pc' = pc /\ arg' = arg /\ prev' = prev /\ left' = left
  BY DEF vars
<1>2. QED
  BY <1>1 DEF WakeInv, PlansInv, TimesInv, WhyPended, PendedBound, Remaining

\* WakeInv is an invariant: the ticks a sleeping task has left and its place in
\* the delayed lists agree, whatever has been pended.
THEOREM SchedulerTimes ==
    ASSUME ResumesKnown PROVE Spec => [](SchedInv /\ WakeInv /\ PendedBound)
<1>1. Init => SchedInv /\ WakeInv /\ PendedBound
  BY InitKeeps, InitWakes
<1>2. SchedInv /\ WakeInv /\ PendedBound /\ [Next]_vars
        => SchedInv' /\ WakeInv' /\ PendedBound'
  <2> SUFFICES ASSUME SchedInv, WakeInv, PendedBound, [Next]_vars
               PROVE  SchedInv' /\ WakeInv' /\ PendedBound'
    OBVIOUS
  <2>1. CASE Next
    <3>1. SchedInv'
      BY <2>1, NextKeeps
    <3>2. TimesInv'
      BY <2>1, NextTimes
    <3>3. PlansInv'
      BY <2>1, NextPlans DEF WakeInv
    <3>4. WhyPended' /\ PendedBound'
      BY <2>1, <3>1, NextPended DEF WakeInv
    <3>5. QED
      BY <3>1, <3>2, <3>3, <3>4 DEF WakeInv
  <2>2. CASE UNCHANGED vars
    BY <2>2, StutterKeeps, StutterWakes
  <2>3. QED
    BY <2>1, <2>2
<1>3. QED
  BY <1>1, <1>2, PTL DEF Spec

\* What is left until a task wakes is in its wake time and in its list.
LEMMA TimesShow == SchedInv /\ WakeInv => WakeTimesExact
<1> SUFFICES ASSUME SchedInv, WakeInv PROVE WakeTimesExact
  OBVIOUS
<1>1. /\ k.tick \in Tick /\ Early(k) /\ Exact(k, Remaining)
      /\ IsList(k.delayed, Task) /\ Sorted(k.delayed, k.wake)
      /\ Elements(k.delayed) \cap Elements(k.overflow) = {}
  BY DEF WakeInv, TimesInv, TimesRight, SchedInv, KernelInv, Good, Sound, Shape, Apart
<1>2. k.tick \in Int /\ TickMod \in Int
  BY <1>1, TickAssumption DEF Tick
<1>3. ASSUME NEW t \in Task, IsDelayed(k, t)
      PROVE  LET n == left[t] + k.pended
             IN  /\ n >= 1
                 /\ k.wake[t] = (k.tick + n) % TickMod
                 /\ t \in {k.delayed[i] : i \in DOMAIN k.delayed}
                      <=> k.tick + n < TickMod
  <2> DEFINE n == left[t] + k.pended
  <2>1. t \in Late(k) /\ Remaining[t] = n
    BY <1>3, DelayedLate DEF Remaining
  <2> HIDE DEF n
  <2>2. n \in 1 .. TickMod - 1 /\ WakesIn(k, t, n)
    BY <1>1, <2>1 DEF Exact
  <2>3. n \in 0 .. TickMod /\ n >= 1
    BY <1>2, <2>2
  <2>4. (k.tick + n) % TickMod
           = IF k.tick + n < TickMod THEN k.tick + n ELSE k.tick + n - TickMod
    BY <1>1, <2>3, WakeTimeIs
  <2>5. k.wake[t] = (k.tick + n) % TickMod
    BY <2>2, <2>4, Zenon DEF WakesIn
  <2>6. t \in Elements(k.delayed) <=> k.tick + n < TickMod
    BY <1>1, <2>2 DEF WakesIn
  <2>7. Elements(k.delayed) = {k.delayed[i] : i \in DOMAIN k.delayed}
    BY DEF Elements
  <2>8. QED
    BY <2>3, <2>5, <2>6, <2>7 DEF n
<1>4. k.delayed # << >> => k.unblock <= k.wake[Head(k.delayed)]
  <2> SUFFICES ASSUME k.delayed # << >> PROVE k.unblock <= k.wake[Head(k.delayed)]
    OBVIOUS
  <2>1. k.delayed \in Seq(Task)
    BY <1>1 DEF IsList
  <2>2. 1 \in DOMAIN k.delayed /\ Head(k.delayed) = k.delayed[1]
    BY <2>1
  <2>3. Head(k.delayed) \in Elements(k.delayed)
    BY <2>2 DEF Elements
  <2>4. QED
    BY <1>1, <2>3 DEF Early
<1>5. \A i, j \in DOMAIN k.delayed :
        i < j => k.wake[k.delayed[i]] <= k.wake[k.delayed[j]]
  BY <1>1 DEF Sorted
<1>6. QED
  BY <1>3, <1>4, <1>5 DEF WakeTimesExact

\* A sleeping task wakes as many ticks from now as it has left, on the list of
\* the turn of the counter it wakes in, and no tick passes it by.
THEOREM SchedulerWakes ==
    ASSUME ResumesKnown PROVE Spec => []WakeTimesExact
BY SchedulerTimes, TimesShow, PTL

\* Where fewer ticks are pended than the counter has values (xPendedTicks has
\* no more bits than the counter), no task wakes early: not by a tick, not by
\* xTaskResumeAll, not by a call or an interrupt.
THEOREM SchedulerOnTime ==
    ASSUME ResumesKnown, MaxPended < TickMod PROVE Spec => WakesOnTime
<1>1. SchedInv /\ WakeInv /\ PendedBound /\ [Next]_vars
        => [\A t \in Task :
              IsDelayed(k, t) /\ ~IsDelayed(k', t) =>
                  \/ left[t] + k.pended <= (k'.tick - k.tick) % TickMod
                  \/ k'.notify[t] = "received"
                  \/ t \in held' \/ pc'[t] = "freed"]_vars
  <2> SUFFICES ASSUME SchedInv, WakeInv, PendedBound, Next PROVE OnTimeStep
    BY DEF OnTimeStep
  <2>1. k.pended < TickMod
    <3>1. k.pended \in Nat /\ MaxPended \in Nat /\ TickMod \in Nat
      BY ValuesAssumption, TickAssumption DEF SchedInv, KernelInv
    <3>2. QED
      BY <3>1 DEF PendedBound
  <2>2. QED
    BY <2>1, NextTimes
<1>2. QED
  BY <1>1, SchedulerTimes, PTL DEF Spec, WakesOnTime

-----------------------------------------------------------------------------
(* The notifications that tasks wait for *)

\* An application uses notifications in one way: as counts that NotifyTake
\* takes, or as values that NotifyWait waits for.
NotMixed == \A C \in Calls : ~({"take", "wait"} \subseteq C)

\* Where a task waits for a notification, or is about to return with one.
Waiters == {"take", "wait"}

\* The tasks that are ready, or that xTaskResumeAll will make ready.
Awake(k0) == Ready(k0) \cup Elements(k0.pending)

ValuesInv == \A t \in Task : k.value[t] \in Nat

\* What a call finds of a notification that is to be seen.
Noticed(t) ==
    /\ k.notify[t] # "waiting"
    /\ IF "take" \in calls THEN k.value[t] # 0 ELSE k.notify[t] = "received"

OwedInv == owed \subseteq Task /\ \A t \in owed : pc[t] # "none" /\ Noticed(t)

CallsInv == \A t \in Task : pc[t] \in Waiters => pc[t] \in calls

\* A task in a call goes on, has been put away, or waits to be notified.
Accounted(t) == t \in held \/ t \in Awake(k) \/ k.notify[t] = "waiting"

AccountsInv == \A t \in Task : pc[t] \in Waiters => Accounted(t)

NotifyInv == ValuesInv /\ OwedInv /\ CallsInv /\ AccountsInv

\* Nothing is owed to a task that waits: what the run checks.
LEMMA NotifyShows == SchedInv /\ NotifyInv => NoNotificationMissed
<1> SUFFICES ASSUME SchedInv, NotifyInv, NEW t \in Task, pc[t] \in Waiters,
                    t \notin held, ~IsReady(k, t), ~EventItemInList(k, t), t \in owed
             PROVE  FALSE
  BY DEF NoNotificationMissed, Waiters
<1>1. k.notify[t] # "waiting"
  BY DEF NotifyInv, OwedInv, Noticed
<1>2. t \in Awake(k)
  BY <1>1 DEF NotifyInv, AccountsInv, Accounted
<1>3. t \notin Elements(k.pending)
  BY DEF EventItemInList, ToSet, Elements
<1>4. t \notin Ready(k)
  BY DEF IsReady, Contained, ToSet, Ready, ReadyAt, Elements
<1>5. QED
  BY <1>2, <1>3, <1>4 DEF Awake

\* Tasks that are made ready are awake, and nobody falls asleep.
LEMMA ReadiedAwake ==
    ASSUME NEW k0, Good(k0), NEW j, NEW S, S \subseteq Task, Readied(j, k0, S)
    PROVE  Awake(k0) \subseteq Awake(j) /\ S \subseteq Awake(j)
<1>1. \A p \in Priority :
        ReadyAt(j, p) = (ReadyAt(k0, p) \ S) \cup {t \in S : k0.priority[t] = p}
  BY DEF Readied
<1>2. \A t \in S : k0.priority[t] \in Priority
  BY DEF Good, Sound, Shape
<1>3. S \subseteq Ready(j)
  <2> SUFFICES ASSUME NEW t \in S PROVE t \in Ready(j)
    OBVIOUS
  <2>1. t \in ReadyAt(j, k0.priority[t])
    BY <1>1, <1>2
  <2>2. QED
    BY <1>2, <2>1, ReadyIs
<1>4. Ready(k0) \subseteq Ready(j)
  <2> SUFFICES ASSUME NEW t \in Ready(k0), t \notin S PROVE t \in Ready(j)
    BY <1>3
  <2>1. PICK p \in Priority : t \in ReadyAt(k0, p)
    BY ReadyIs
  <2>2. t \in ReadyAt(j, p)
    BY <1>1, <2>1
  <2>3. QED
    BY <2>2, ReadyIs
<1>5. Elements(j.pending) = Elements(k0.pending) \ S
  BY DEF Readied
<1>6. QED
  BY <1>3, <1>4, <1>5 DEF Awake

LEMMA KeepsAwake ==
    ASSUME NEW k0, NEW j, NEW changed, Keeps(j, k0, changed),
           changed \cap {"ready", "pending"} = {}
    PROVE  Awake(j) = Awake(k0)
<1>1. j.ready = k0.ready /\ j.pending = k0.pending
  BY DEF Keeps, KernelFields
<1>2. QED
  BY <1>1 DEF Awake, Ready, ReadyAt

\* Nobody comes to wait, and no task that is owed a notification goes.
PcKept ==
    \A t \in Task : /\ pc'[t] \in Waiters => pc'[t] = pc[t]
                    /\ t \in owed' => pc'[t] # "none"

LEMMA PcSame == ASSUME OwedInv, owed' \subseteq owed, pc' = pc PROVE PcKept
BY DEF OwedInv, PcKept

LEMMA PcGoes ==
    ASSUME OwedInv, owed' \subseteq owed,
           \A x \in Task : \/ pc'[x] = pc[x]
                           \/ pc'[x] \notin Waiters /\ (pc'[x] = "none" => x \notin owed')
    PROVE  PcKept
BY DEF OwedInv, PcKept

\* A step in which nobody is notified.
LEMMA UnnotifiedStep ==
    ASSUME NotifyInv, calls' = calls, k'.value = k.value, k'.notify = k.notify,
           owed' \subseteq owed, PcKept,
           \A t \in Task : pc'[t] \in Waiters /\ (t \in held \/ t \in Awake(k)) =>
                             t \in held' \/ t \in Awake(k')
    PROVE  NotifyInv'
<1>1. ValuesInv'
  BY DEF NotifyInv, ValuesInv
<1>2. OwedInv'
  BY DEF NotifyInv, OwedInv, PcKept, Noticed
<1>3. CallsInv'
  BY DEF NotifyInv, CallsInv, PcKept
<1>4. AccountsInv'
  BY DEF NotifyInv, AccountsInv, PcKept, Accounted
<1>5. QED
  BY <1>1, <1>2, <1>3, <1>4 DEF NotifyInv

\* Nobody is put away or taken back, and those who were awake stay so.
LEMMA AwakeStep ==
    ASSUME NotifyInv, calls' = calls, held' = held, owed' \subseteq owed, PcKept,
           NEW changed, Keeps(k', k, changed), changed \cap NotifyFields = {},
           Awake(k) \subseteq Awake(k')
    PROVE  NotifyInv'
<1>1. k'.value = k.value /\ k'.notify = k.notify
  BY DEF Keeps, KernelFields, NotifyFields
<1>2. QED
  BY <1>1, UnnotifiedStep

-----------------------------------------------------------------------------
(* The steps in which nobody is notified *)

LEMMA FlagsNotify ==
    ASSUME SchedInv, NotifyInv, NEW t \in Task,
           \/ Yield(t) \/ Delay(t) \/ DelayUntil(t) \/ SuspendAll(t) \/ CatchUpTicks(t)
           \/ CreateReturn(t) \/ DeleteYield(t) \/ SuspendReturn(t) \/ DeleteTCB(t)
           \/ \E n \in Delays : CatchUpTicksPend(t, n)
    PROVE  NotifyInv'
<1>1. DOMAIN k = KernelFields /\ Good(k) /\ DOMAIN pc = Task /\ OwedInv
  BY DEF SchedInv, KernelInv, Good, Sound, Shape, TypeInv, NotifyInv
<1>2. \/ k' = portYIELD(k) \/ k' = vTaskSuspendAll(k) \/ k' = k
      \/ k' = prvResetNextTaskUnblockTime(k) \/ \E n \in Delays : k' = PendTicks(k, n)
  BY DEF Yield, Delay, DelayUntil, SuspendAll, CatchUpTicks, CreateReturn, DeleteYield,
         DeleteTCB, SuspendReturn, CatchUpTicksPend
<1> DEFINE changed == {"pendsv", "suspensions", "pended", "unblock"}
<1>3. Keeps(k', k, changed)
  <2>1. CASE k' = prvResetNextTaskUnblockTime(k)
    <3>1. Keeps(k', k, {"unblock"})
      BY <1>1, <2>1, ResetUnblockIs
    <3>2. QED
      BY <3>1 DEF Keeps
  <2>2. CASE \E n \in Delays : k' = PendTicks(k, n)
    BY <1>1, <2>2 DEF PendTicks, Keeps, KernelFields
  <2>3. QED
    BY <1>1, <1>2, <2>1, <2>2 DEF portYIELD, vTaskSuspendAll, Keeps, KernelFields
<1>4. changed \cap NotifyFields = {} /\ changed \cap {"ready", "pending"} = {}
  BY DEF NotifyFields
<1>5. Awake(k') = Awake(k)
  BY <1>3, <1>4, KeepsAwake
<1>6. calls' = calls /\ held' = held /\ owed' \subseteq owed
  BY DEF Yield, Delay, DelayUntil, SuspendAll, CatchUpTicks, CreateReturn, DeleteYield,
         DeleteTCB, SuspendReturn, CatchUpTicksPend
<1>7. PcKept
  <2>1. CASE DeleteYield(t)
    BY <1>1, <1>6, <2>1, PcSame DEF DeleteYield
  <2>2. CASE DeleteTCB(t)
    <3>1. pc' = [pc EXCEPT ![t] = "run", ![arg[t]] = "none"] /\ owed' = owed \ {arg[t]}
      BY <2>2 DEF DeleteTCB
    <3>2. \A x \in Task : pc'[x] = pc[x] \/ pc'[x] = "run" \/ x \notin owed'
      BY <1>1, <3>1
    <3>3. \A x \in Task : pc'[x] = pc[x] \/ pc'[x] \in {"run", "none"}
      BY <1>1, <3>1
    <3>4. QED
      BY <1>1, <1>6, <3>2, <3>3, PcGoes DEF Waiters
  <2>3. CASE \/ Yield(t) \/ Delay(t) \/ DelayUntil(t) \/ SuspendAll(t) \/ CatchUpTicks(t)
             \/ CreateReturn(t) \/ SuspendReturn(t) \/ \E n \in Delays : CatchUpTicksPend(t, n)
    <3>1. \E w \in {"run", "yield", "delay", "delay_until", "suspended_all", "catch_up"} :
             pc' = [pc EXCEPT ![t] = w]
      BY <2>3, Zenon DEF Yield, Delay, DelayUntil, SuspendAll, CatchUpTicks, CreateReturn,
                  SuspendReturn, CatchUpTicksPend, Goes
    <3>2. \A x \in Task : \/ pc'[x] = pc[x]
                          \/ pc'[x] \in {"run", "yield", "delay", "delay_until",
                                         "suspended_all", "catch_up"}
      BY <1>1, <3>1
    <3>3. QED
      BY <1>1, <1>6, <3>2, PcGoes DEF Waiters
  <2>4. QED
    BY <2>1, <2>2, <2>3
<1> HIDE DEF changed
<1>8. QED
  BY <1>3, <1>4, <1>5, <1>6, <1>7, AwakeStep

\* The current task goes to sleep: it waits for a time.
LEMMA AddNotify ==
    ASSUME SchedInv, NotifyInv, NEW t \in Task, NEW w \in {"delay", "delay_until"}, At(t, w),
           NEW ticks \in Int,
           k' = prvAddCurrentTaskToDelayedList(k, ticks, FALSE) \/ k' = k,
           pc' = [pc EXCEPT ![t] = "resume_all"],
           calls' = calls, held' = held, owed' = owed
    PROVE  NotifyInv'
<1>1. Good(k) /\ Timed(k) /\ DOMAIN pc = Task /\ OwedInv /\ t = k.current
  BY DEF SchedInv, KernelInv, TypeInv, NotifyInv, At
<1>2. CurrentIsReady(k)
  BY <1>1, CallingOnTop DEF BeforeYield, At
<1>3. PcKept
  <2>1. \A x \in Task : pc'[x] = pc[x] \/ pc'[x] = "resume_all"
    BY <1>1
  <2>2. QED
    BY <1>1, <2>1, PcGoes DEF Waiters
<1>4. k'.value = k.value /\ k'.notify = k.notify /\ \A u \in Task \ {t} : u \in Awake(k) => u \in Awake(k')
  <2>1. CASE k' = k
    BY <2>1
  <2>2. CASE k' = prvAddCurrentTaskToDelayedList(k, ticks, FALSE)
    <3>1. Keeps(k', k, DelayFields) /\ Waits(k', k)
      BY <1>1, <1>2, <2>2, DelayWaits
    <3>2. k'.notify = k.notify /\ k'.value = k.value
      BY <3>1 DEF Keeps, KernelFields, DelayFields, StateLists
    <3>3. \A p \in Priority : ReadyAt(k', p) = ReadyAt(k, p) \ {t}
      BY <1>1, <3>1 DEF Waits
    <3>4. k'.pending = k.pending
      BY <3>1 DEF Waits
    <3>5. QED
      BY <3>2, <3>3, <3>4 DEF Awake, Ready
  <2>3. QED
    BY <2>1, <2>2
<1>5. \A u \in Task : pc'[u] \in Waiters => u # t
  BY <1>1 DEF Waiters
<1>6. QED
  BY <1>3, <1>4, <1>5, UnnotifiedStep

LEMMA SleepNotify ==
    ASSUME SchedInv, NotifyInv, NEW t \in Task, DelayAdd(t) \/ DelayUntilAdd(t)
    PROVE  NotifyInv'
<1>1. CASE DelayAdd(t)
  <2>1. /\ At(t, "delay") /\ k' = prvAddCurrentTaskToDelayedList(k, arg[t], FALSE)
        /\ pc' = [pc EXCEPT ![t] = "resume_all"]
        /\ calls' = calls /\ held' = held /\ owed' = owed
    BY <1>1 DEF DelayAdd, Goes
  <2>2. arg[t] \in Int
    BY <2>1 DEF At, SchedInv, TypeInv
  <2>3. QED
    BY <2>1, <2>2, AddNotify
<1>2. CASE DelayUntilAdd(t)
  <2> DEFINE wake == (prev[t] + arg[t]) % TickMod
             ticks == (wake - k.tick) % TickMod
  <2>1. /\ At(t, "delay_until")
        /\ k' = prvAddCurrentTaskToDelayedList(k, ticks, FALSE) \/ k' = k
        /\ pc' = [pc EXCEPT ![t] = "resume_all"]
        /\ calls' = calls /\ held' = held /\ owed' = owed
    BY <1>2 DEF DelayUntilAdd, Goes
  <2>2. arg[t] \in Int /\ prev \in [Task -> Int] /\ k.tick \in Int
    BY <2>1 DEF At, SchedInv, TypeInv, KernelInv, Timed
  <2>3. ticks \in Int
    BY <2>2, TickAssumption
  <2> HIDE DEF ticks
  <2>4. QED
    BY <2>1, <2>3, AddNotify
<1>3. QED
  BY <1>1, <1>2

\* xTaskResumeAll makes tasks ready.
LEMMA ResumeAllNotify ==
    ASSUME SchedInv, NotifyInv, NEW t \in Task, ResumeAllAndYield(t) \/ ResumeAll(t)
    PROVE  NotifyInv'
<1>1. /\ \E w \in {"resume_all", "suspended_all"} : At(t, w)
      /\ k' = xTaskResumeAll(k) /\ calls' = calls /\ held' = held /\ owed' = owed
      /\ \E w \in {"run", "yield"} : pc' = [pc EXCEPT ![t] = w]
  BY Zenon DEF ResumeAllAndYield, ResumeAll, Goes
<1>2. /\ Good(k) /\ Timed(k) /\ DOMAIN pc = Task /\ OwedInv /\ k.suspensions = 1 /\ k.pended \in Nat
  BY <1>1 DEF SchedInv, KernelInv, TypeInv, NotifyInv, At, SuspensionInv, Suspending
<1>3. PcKept
  <2>1. \A x \in Task : pc'[x] = pc[x] \/ pc'[x] \in {"run", "yield"}
    BY <1>1, <1>2
  <2>2. QED
    BY <1>1, <1>2, <2>1, PcGoes DEF Waiters
<1>4. /\ Keeps(k', k, ResumeFields)
      /\ \E S \in SUBSET (Late(k) \cup Elements(k.pending)) : Readied(k', k, S)
  BY <1>1, <1>2, ResumeAllIs
<1>5. Late(k) \cup Elements(k.pending) \subseteq Task
  BY <1>2 DEF Late, Good, Sound, Shape, IsList, Elements
<1>6. Awake(k) \subseteq Awake(k')
  BY <1>2, <1>4, <1>5, ReadiedAwake
<1>7. ResumeFields \cap NotifyFields = {}
  BY DEF ResumeFields, TickFields, WakeFields, StateLists, NotifyFields
<1>8. QED
  BY <1>1, <1>3, <1>4, <1>6, <1>7, AwakeStep

\* A task is taken out of its lists, and does not go on.
LEMMA OutAwake ==
    ASSUME NEW k0, NEW j, NEW u, OutOf(j, k0, u)
    PROVE  \A t \in Awake(k0) : t # u => t \in Awake(j)
BY DEF OutOf, Awake, Ready

LEMMA DeleteNotify ==
    ASSUME SchedInv, NotifyInv, NEW t \in Task, Delete(t)
    PROVE  NotifyInv'
<1>1. PICK u \in Others :
         /\ k' = vTaskDelete(k, u)
         /\ pc' = IF u = t THEN [pc EXCEPT ![t] = "deleted"]
                  ELSE [pc EXCEPT ![t] = "free", ![u] = "freed"]
         /\ held' = held \ {u} /\ calls' = calls /\ owed' = owed
  BY DEF Delete
<1>2. At(t, "run")
  BY DEF Delete, May
<1>3. Good(k) /\ u \in Task /\ DOMAIN pc = Task /\ k.current = t /\ OwedInv
  BY <1>2 DEF SchedInv, KernelInv, TypeInv, Others, At, NotifyInv
<1>4. OutOf(k', k, u) /\ k'.value = k.value /\ k'.notify = k.notify
  <2>1. CASE u = t
    <3>1. u \notin Elements(k.termination)
      BY OthersAre
    <3>2. Keeps(k', k, OutFields \cup {"cleanup"}) /\ OutOf(k', k, u)
      BY <1>1, <1>3, <2>1, <3>1, DeleteSelfIs
    <3>3. QED
      BY <3>2 DEF Keeps, KernelFields, OutFields, StateLists
  <2>2. CASE u # t
    <3>1. Keeps(k', k, OutFields \cup {"count", "unblock"}) /\ OutOf(k', k, u)
      BY <1>1, <1>3, <2>2, DeleteOtherIs
    <3>2. QED
      BY <3>1 DEF Keeps, KernelFields, OutFields, StateLists
  <2>3. QED
    BY <2>1, <2>2
<1>5. PcKept
  <2>1. \A x \in Task : pc'[x] = pc[x] \/ pc'[x] \in {"deleted", "free", "freed"}
    BY <1>1, <1>3
  <2>2. QED
    BY <1>1, <1>3, <2>1, PcGoes DEF Waiters
<1>6. \A x \in Task : pc'[x] \in Waiters => x # u
  BY <1>1, <1>3 DEF Waiters
<1>7. \A x \in Awake(k) : x # u => x \in Awake(k')
  BY <1>4, OutAwake
<1>8. QED
  BY <1>1, <1>4, <1>5, <1>6, <1>7, UnnotifiedStep

LEMMA CleanUpNotify ==
    ASSUME SchedInv, NotifyInv, IdleCleanUp
    PROVE  NotifyInv'
<1> DEFINE u == Head(k.termination)
<1>1. /\ At(Idle, "run") /\ k.cleanup > 0 /\ k' = prvCheckTasksWaitingTermination(k)
      /\ pc' = [pc EXCEPT ![Idle] = "free", ![u] = "freed"]
      /\ held' = held /\ calls' = calls /\ owed' = owed
  BY DEF IdleCleanUp
<1>2. /\ Good(k) /\ NoEvents(k) /\ k.cleanup = Len(k.termination) /\ Idle \in Task
      /\ DOMAIN pc = Task /\ OwedInv
  BY TasksAssumption DEF SchedInv, KernelInv, PlacesInv, TypeInv, NotifyInv
<1>3. Elements(k.pending) = {}
  BY <1>1, <1>2, Calling DEF Suspending
<1>4. /\ Len(k.termination) > 0 /\ u \notin Elements(k.pending)
      /\ \A e \in EventLists : Elements(k.events[e]) = {}
  BY <1>1, <1>2, <1>3 DEF NoEvents
<1>5. /\ Keeps(k', k, StateLists \cup {"count", "cleanup"})
      /\ u \in Task /\ OutOf(k', k, u)
  BY <1>1, <1>2, <1>4, CleanUpIs
<1> HIDE DEF u
<1>6. k'.value = k.value /\ k'.notify = k.notify
  BY <1>5 DEF Keeps, KernelFields, StateLists
<1>7. PcKept
  <2>1. \A x \in Task : pc'[x] = pc[x] \/ pc'[x] \in {"free", "freed"}
    BY <1>1, <1>2, <1>5
  <2>2. QED
    BY <1>1, <1>2, <2>1, PcGoes DEF Waiters
<1>8. \A x \in Task : pc'[x] \in Waiters => x # u
  BY <1>1, <1>2 DEF Waiters
<1>9. \A x \in Awake(k) : x # u => x \in Awake(k')
  BY <1>5, OutAwake
<1>10. QED
  BY <1>1, <1>6, <1>7, <1>8, <1>9, UnnotifiedStep

\* A task that has been put away is suspended, and in no other list.
LEMMA HeldSuspended ==
    ASSUME SchedInv, NEW u \in held
    PROVE  SuspendedTask(k, u)
BY DEF SchedInv, HeldInv, PendingInv, SuspendedTask

\* It is resumed, and is awake.
LEMMA ResumedStep ==
    ASSUME SchedInv, NotifyInv, NEW u \in Task, calls' = calls, pc' = pc, owed' = owed,
           held' = held \ {u},
           \/ k' = k /\ ~SuspendedTask(k, u)
           \/ MadeReadyBy(k', k, u)
           \/ Keeps(k', k, {"pending"}) /\ Elements(k'.pending) = Elements(k.pending) \cup {u}
    PROVE  NotifyInv'
<1>1. Good(k) /\ OwedInv
  BY DEF SchedInv, KernelInv, NotifyInv
<1>2. PcKept
  BY <1>1, PcSame
<1>3. CASE k' = k /\ ~SuspendedTask(k, u)
  <2>1. u \notin held
    BY <1>3, HeldSuspended
  <2>2. QED
    BY <1>2, <1>3, <2>1, UnnotifiedStep
<1>4. CASE MadeReadyBy(k', k, u)
  <2>1. Keeps(k', k, ResumedFields) /\ Readied(k', k, {u})
    BY <1>4 DEF MadeReadyBy
  <2>2. k'.value = k.value /\ k'.notify = k.notify
    BY <2>1 DEF Keeps, KernelFields, ResumedFields, StateLists
  <2>3. Awake(k) \subseteq Awake(k') /\ {u} \subseteq Awake(k')
    BY <1>1, <2>1, ReadiedAwake
  <2>4. QED
    BY <1>2, <2>2, <2>3, UnnotifiedStep
<1>5. CASE Keeps(k', k, {"pending"}) /\ Elements(k'.pending) = Elements(k.pending) \cup {u}
  <2>1. k'.value = k.value /\ k'.notify = k.notify /\ k'.ready = k.ready
    BY <1>5 DEF Keeps, KernelFields
  <2>2. Awake(k) \subseteq Awake(k') /\ u \in Awake(k')
    BY <1>5, <2>1 DEF Awake, Ready, ReadyAt
  <2>3. QED
    BY <1>2, <2>1, <2>2, UnnotifiedStep
<1>6. QED
  BY <1>3, <1>4, <1>5

LEMMA ResumeNotify ==
    ASSUME SchedInv, NotifyInv, NEW t \in Task, Resume(t)
    PROVE  NotifyInv'
<1>1. PICK u \in Others \ {t} : k' = vTaskResume(k, u) /\ held' = held \ {u}
  BY DEF Resume
<1>2. /\ Good(k) /\ NoEvents(k) /\ k.current \in Task /\ u \in Task
      /\ pc' = pc /\ calls' = calls /\ owed' = owed
  BY DEF SchedInv, KernelInv, Timed, Others, Resume
<1>3. CASE SuspendedTask(k, u)
  <2>1. MadeReadyBy(k', k, u)
    BY <1>1, <1>2, <1>3, ResumeIs
  <2>2. QED
    BY <1>1, <1>2, <2>1, ResumedStep
<1>4. CASE ~SuspendedTask(k, u)
  <2>1. k' = k
    BY <1>1, <1>2, <1>4, ResumeNotSuspended
  <2>2. QED
    BY <1>1, <1>2, <1>4, <2>1, ResumedStep
<1>5. QED
  BY <1>3, <1>4

LEMMA ResumeISRNotify ==
    ASSUME SchedInv, NotifyInv, ResumeFromISR
    PROVE  NotifyInv'
<1>1. PICK u \in Others : k' = ResumeAndYield(k, u) /\ held' = held \ {u}
  BY DEF ResumeFromISR, ResumeAndYield
<1>2. /\ Good(k) /\ NoEvents(k) /\ k.current \in Task /\ u \in Task
      /\ k.suspensions \in {0, 1}
      /\ pc' = pc /\ calls' = calls /\ owed' = owed
  BY OthersAre DEF SchedInv, KernelInv, Timed, ResumeFromISR
<1>3. CASE SuspendedTask(k, u)
  <2>1. CASE k.suspensions = 0
    <3>1. MadeReadyBy(k', k, u)
      BY <1>1, <1>2, <1>3, <2>1, ResumeFromISRIs
    <3>2. QED
      BY <1>1, <1>2, <3>1, ResumedStep
  <2>2. CASE k.suspensions = 1
    <3>1. Keeps(k', k, {"pending"}) /\ Elements(k'.pending) = Elements(k.pending) \cup {u}
      BY <1>1, <1>2, <1>3, <2>2, ResumeLaterIs
    <3>2. QED
      BY <1>1, <1>2, <3>1, ResumedStep
  <2>3. QED
    BY <1>2, <2>1, <2>2
<1>4. CASE ~SuspendedTask(k, u)
  <2>1. k' = k
    BY <1>1, <1>2, <1>4, ResumeNotSuspended
  <2>2. QED
    BY <1>1, <1>2, <1>4, <2>1, ResumedStep
<1>5. QED
  BY <1>3, <1>4

LEMMA PriorityNotify ==
    ASSUME SchedInv, NotifyInv, NEW t \in Task, PrioritySet(t)
    PROVE  NotifyInv'
<1>1. /\ \E u \in Others, p \in Priorities : k' = vTaskPrioritySet(k, u, p)
      /\ pc' = pc /\ calls' = calls /\ held' = held /\ owed' = owed
  BY DEF PrioritySet
<1>2. PICK u \in Others, p \in Priorities : k' = vTaskPrioritySet(k, u, p)
  BY <1>1
<1>3. /\ Good(k) /\ k.base = k.priority /\ k.current \in Task /\ u \in Task /\ p \in Nat
      /\ OwedInv
  BY ValuesAssumption DEF SchedInv, KernelInv, Timed, Others, NotifyInv
<1>4. Keeps(k', k, PriorityFields) /\ Ready(k') = Ready(k)
  BY <1>2, <1>3, PrioritySetIs
<1>5. k'.pending = k.pending
  BY <1>4 DEF Keeps, KernelFields, PriorityFields, StateLists
<1>6. Awake(k) \subseteq Awake(k')
  BY <1>4, <1>5 DEF Awake
<1>7. PriorityFields \cap NotifyFields = {}
  BY DEF PriorityFields, StateLists, NotifyFields
<1>8. PcKept
  BY <1>1, <1>3, PcSame
<1>9. QED
  BY <1>1, <1>4, <1>6, <1>7, <1>8, AwakeStep

LEMMA TimeNotify ==
    ASSUME SchedInv, NotifyInv, SysTick \/ PendSV
    PROVE  NotifyInv'
<1>1. /\ Good(k) /\ Timed(k) /\ OwedInv
      /\ pc' = pc /\ calls' = calls /\ held' = held /\ owed' = owed
  BY DEF SchedInv, KernelInv, NotifyInv, SysTick, PendSV
<1>2. PcKept
  BY <1>1, PcSame
<1> DEFINE changed == TickFields \cup {"pended", "pendsv", "current"}
<1>3. Keeps(k', k, changed) /\ \E S \in SUBSET Task : Readied(k', k, S)
  <2>1. CASE SysTick
    <3> DEFINE r == xTaskIncrementTick(k)
    <3>1. k' = YieldIf(r.k, r.switch)
      BY <2>1 DEF SysTick
    <3>2. CASE k.suspensions > 0
      <4>1. r.k = [k EXCEPT !.pended = @ + 1]
        BY <3>2 DEF xTaskIncrementTick
      <4> DEFINE j == r.k
      <4>2. Keeps(j, k, {"pended"})
        BY <1>1, <4>1 DEF Keeps, KernelFields, Good, Sound, Shape
      <4> HIDE DEF r
      <4>3. Good(j) /\ Readied(j, k, {})
        BY <1>1, <4>2, FlagsReadied DEF Flags, Readied
      <4>4. Keeps(k', j, {"pendsv"}) /\ Readied(k', j, {})
        BY <3>1, <4>3, YieldIfIs
      <4>5. Readied(k', k, {} \cup {})
        BY <4>3, <4>4, ReadiedBoth
      <4>6. Keeps(k', k, changed)
        BY <4>2, <4>4 DEF Keeps
      <4>7. {} \cup {} = {}
        OBVIOUS
      <4>8. QED
        BY <4>5, <4>6, <4>7
    <3>3. CASE ~(k.suspensions > 0)
      <4> DEFINE j == r.k
      <4>1. /\ Keeps(j, k, TickFields)
            /\ Readied(j, k, DueAt(k)) /\ DueAt(k) \subseteq Late(k)
        BY <1>1, <3>3, TickReadied
      <4>2. Late(k) \subseteq Task
        BY <1>1, LateTasks
      <4> HIDE DEF r
      <4>3. Good(j)
        BY <4>1 DEF Readied
      <4>4. Keeps(k', j, {"pendsv"}) /\ Readied(k', j, {})
        BY <3>1, <4>3, YieldIfIs
      <4>5. Readied(k', k, DueAt(k) \cup {})
        BY <4>1, <4>4, ReadiedBoth
      <4>6. Keeps(k', k, changed)
        BY <4>1, <4>4 DEF Keeps
      <4>7. DueAt(k) \cup {} = DueAt(k)
        OBVIOUS
      <4>8. QED
        BY <4>1, <4>2, <4>5, <4>6, <4>7
    <3>4. QED
      BY <3>2, <3>3
  <2>2. CASE PendSV
    <3>1. k' = vTaskSwitchContext(k)
      BY <2>2 DEF PendSV
    <3>2. CASE k.suspensions > 0
      <4>1. Keeps(k', k, {"yield", "pendsv"}) /\ Readied(k', k, {})
        BY <1>1, <3>1, <3>2, SwitchLater
      <4>2. QED
        BY <4>1 DEF Keeps, TickFields, WakeFields
    <3>3. CASE ~(k.suspensions > 0)
      <4>1. k.top # {}
        BY PrioritiesNumbers DEF SchedInv, KernelInv, Good, TopRight
      <4>2. Keeps(k', k, {"yield", "pendsv", "ready", "current"}) /\ Readied(k', k, {})
        BY <1>1, <3>1, <3>3, <4>1, SwitchIs
      <4>3. QED
        BY <4>2 DEF Keeps, TickFields, WakeFields, StateLists
    <3>4. QED
      BY <3>2, <3>3
  <2>3. QED
    BY <1>1, <2>1, <2>2 DEF SysTick, PendSV
<1>4. Awake(k) \subseteq Awake(k')
  BY <1>1, <1>3, ReadiedAwake
<1>5. changed \cap NotifyFields = {}
  BY DEF TickFields, WakeFields, StateLists, NotifyFields
<1> HIDE DEF changed
<1>6. QED
  BY <1>1, <1>2, <1>3, <1>4, <1>5, AwakeStep

-----------------------------------------------------------------------------
(* The calls that wait for a notification *)

\* A task comes to wait: it blocks only if it is owed nothing.
LEMMA EnterNotify ==
    ASSUME SchedInv, NotifyInv, NEW t \in Task, NEW w \in Waiters, May(t, w),
           pc' = [pc EXCEPT ![t] = w], calls' = calls, held' = held, owed' = owed,
           k'.value[t] \in Nat, NEW n,
           \/ k' = k
           \/ t \notin owed /\ (GoesOn(k', k) \/ Blocks(k', k, n))
    PROVE  NotifyInv'
<1>1. /\ Good(k) /\ DOMAIN k.notify = Task /\ DOMAIN pc = Task /\ OwedInv
      /\ ValuesInv /\ k.current = t /\ At(t, "run") /\ w \in calls
  BY DEF SchedInv, KernelInv, TypeInv, NotifyInv, May, At
<1>2. CurrentIsReady(k)
  BY <1>1, CallingOnTop DEF BeforeYield, At
<1>3. t \in Awake(k)
  <2>1. k.priority[t] \in Priority
    BY <1>1 DEF Good, Sound, Shape
  <2>2. QED
    BY <1>1, <1>2, <2>1, ReadyIs DEF CurrentIsReady, Awake
<1>4. \A x \in Task \ {t} : pc'[x] = pc[x] /\ k'.notify[x] = k.notify[x] /\ k'.value[x] = k.value[x]
  <2>1. k'.notify = [k.notify EXCEPT ![t] = "waiting"] => \A x \in Task \ {t} : k'.notify[x] = k.notify[x]
    BY <1>1
  <2>2. QED
    BY <1>1, <2>1 DEF GoesOn, Blocks
<1>6. \A x \in Task \ {t} : x \in Awake(k) => x \in Awake(k')
  <2>1. CASE k' = k
    BY <2>1
  <2>2. CASE GoesOn(k', k)
    <3>1. Awake(k) \subseteq Awake(k')
      BY <1>1, <2>2, ReadiedAwake DEF GoesOn
    <3>2. QED
      BY <3>1
  <2>3. CASE Blocks(k', k, n)
    <3>1. /\ \A p \in Priority : ReadyAt(k', p) = ReadyAt(k, p) \ {t}
          /\ k'.pending = k.pending
      BY <1>1, <2>3 DEF Blocks, Waits
    <3>2. QED
      BY <3>1 DEF Awake, Ready
  <2>4. QED
    BY <2>1, <2>2, <2>3
<1>7. Accounted(t)'
  <2>1. CASE k' = k
    BY <1>3, <2>1 DEF Accounted
  <2>2. CASE GoesOn(k', k)
    <3>1. Awake(k) \subseteq Awake(k')
      BY <1>1, <2>2, ReadiedAwake DEF GoesOn
    <3>2. QED
      BY <1>3, <3>1 DEF Accounted
  <2>3. CASE Blocks(k', k, n)
    <3>1. k'.notify[t] = "waiting"
      BY <1>1, <2>3 DEF Blocks
    <3>2. QED
      BY <3>1 DEF Accounted
  <2>4. QED
    BY <2>1, <2>2, <2>3
<1>8. pc'[t] = w /\ w # "none"
  BY <1>1 DEF Waiters
<1>9. ValuesInv'
  BY <1>1, <1>4 DEF ValuesInv
<1>10. OwedInv'
  <2>1. ASSUME NEW x \in owed, x # t PROVE pc'[x] # "none" /\ Noticed(x)'
    BY <1>1, <1>4, <2>1 DEF OwedInv, Noticed
  <2>2. ASSUME t \in owed PROVE Noticed(t)'
    BY <1>1, <2>2 DEF OwedInv, Noticed
  <2>3. QED
    BY <1>1, <1>8, <2>1, <2>2 DEF OwedInv
<1>11. CallsInv'
  BY <1>1, <1>4, <1>8 DEF NotifyInv, CallsInv
<1>12. AccountsInv'
  <2>1. ASSUME NEW x \in Task, x # t, pc'[x] \in Waiters PROVE Accounted(x)'
    BY <1>4, <1>6, <2>1 DEF NotifyInv, AccountsInv, Accounted
  <2>2. QED
    BY <1>7, <2>1 DEF AccountsInv
<1>13. QED
  BY <1>9, <1>10, <1>11, <1>12 DEF NotifyInv


LEMMA TakeNotify ==
    ASSUME SchedInv, NotifyInv, NEW t \in Task, NotifyTake(t)
    PROVE  NotifyInv'
<1>1. /\ May(t, "take") /\ pc' = [pc EXCEPT ![t] = "take"]
      /\ calls' = calls /\ held' = held /\ owed' = owed
  BY DEF NotifyTake, Goes
<1>2. PICK n \in Delays \cup {portMAX_DELAY} : k' = NotifyTakeEnter(k, n)
  BY DEF NotifyTake
<1>3. /\ Good(k) /\ Timed(k) /\ DOMAIN k.notify = Task /\ DOMAIN k.value = Task
      /\ OwedInv /\ ValuesInv /\ k.current = t /\ "take" \in calls /\ n \in Nat
  BY <1>1, DelaysNumbers DEF SchedInv, KernelInv, NotifyInv, May, At
<1>4. CurrentIsReady(k)
  BY <1>1, CallingOnTop DEF May, BeforeYield, At
<1>5. (GoesOn(k', k) \/ Blocks(k', k, n)) /\ k'.value = k.value
  BY <1>2, <1>3, <1>4, TakeEnterIs
<1>6. t \in owed => k' = k
  BY <1>2, <1>3 DEF OwedInv, Noticed, NotifyTakeEnter
<1>7. k'.value[t] \in Nat
  BY <1>3, <1>5 DEF ValuesInv
<1>8. "take" \in Waiters
  BY DEF Waiters
<1>9. QED
  BY <1>1, <1>5, <1>6, <1>7, <1>8, EnterNotify

LEMMA WaitNotify ==
    ASSUME NotMixed, SchedInv, NotifyInv, NEW t \in Task, NotifyWait(t)
    PROVE  NotifyInv'
<1>1. /\ May(t, "wait") /\ pc' = [pc EXCEPT ![t] = "wait"]
      /\ calls' = calls /\ held' = held /\ owed' = owed
  BY DEF NotifyWait, Goes
<1>2. PICK n \in Delays \cup {portMAX_DELAY} : k' = NotifyWaitEnter(k, 0, n)
  BY DEF NotifyWait
<1>3. /\ Good(k) /\ Timed(k) /\ DOMAIN k.notify = Task /\ DOMAIN k.value = Task
      /\ OwedInv /\ ValuesInv /\ k.current = t /\ "wait" \in calls /\ n \in Nat
      /\ calls \in Calls
  BY <1>1, DelaysNumbers DEF SchedInv, KernelInv, TypeInv, NotifyInv, May, At
<1>4. CurrentIsReady(k)
  BY <1>1, CallingOnTop DEF May, BeforeYield, At
<1>5. /\ GoesOn(k', k) \/ Blocks(k', k, n)
      /\ k'.value[t] = k.value[t] \/ k'.value[t] = ClearBits(k.value[t], 0)
  BY <1>2, <1>3, <1>4, WaitEnterIs
<1>6. t \in owed => k' = k
  <2>1. "take" \notin calls
    BY <1>3 DEF NotMixed
  <2>2. QED
    BY <1>2, <1>3, <2>1 DEF OwedInv, Noticed, NotifyWaitEnter
<1>7. k'.value[t] \in Nat
  BY <1>3, <1>5, BitsAre DEF ValuesInv
<1>8. "wait" \in Waiters
  BY DEF Waiters
<1>9. QED
  BY <1>1, <1>5, <1>6, <1>7, <1>8, EnterNotify

\* It returns, and is owed what it leaves.
LEMMA ReturnNotify ==
    ASSUME SchedInv, NotifyInv, NEW t \in Task, NotifyTakeReturn(t) \/ NotifyWaitReturn(t)
    PROVE  NotifyInv'
<1>1. PICK w \in Waiters : At(t, w)
  BY DEF NotifyTakeReturn, NotifyWaitReturn, Waiters
<1>2. /\ pc' = [pc EXCEPT ![t] = "run"] /\ calls' = calls /\ held' = held
  BY DEF NotifyTakeReturn, NotifyWaitReturn, Goes
<1>3. /\ Good(k) /\ k.current = t /\ DOMAIN k.notify = Task /\ DOMAIN k.value = Task
      /\ DOMAIN pc = Task /\ OwedInv /\ ValuesInv /\ CallsInv /\ DOMAIN k = KernelFields
  BY <1>1 DEF SchedInv, KernelInv, TypeInv, NotifyInv, At, Good, Sound, Shape
<1>4. GoesOn(k', k) /\ k'.notify = [k.notify EXCEPT ![t] = "not_waiting"]
  BY <1>3, ExitGoesOn DEF NotifyTakeReturn, NotifyWaitReturn
<1>5. \A x \in Task \ {t} : pc'[x] = pc[x] /\ k'.notify[x] = k.notify[x] /\ k'.value[x] = k.value[x]
  BY <1>2, <1>3, <1>4 DEF GoesOn
<1>6. k'.value[t] \in Nat
  <2>1. CASE NotifyTakeReturn(t)
    <3>1. PICK clear \in BOOLEAN : k' = NotifyTakeExit(k, clear)
      BY <2>1 DEF NotifyTakeReturn
    <3>2. k.value[t] \in Nat
      BY <1>3 DEF ValuesInv
    <3>3. k'.value[t] = IF k.value[t] = 0 \/ clear THEN 0 ELSE k.value[t] - 1
      BY <1>3, <3>1 DEF NotifyTakeExit, KernelFields
    <3>4. QED
      BY <3>2, <3>3
  <2>2. CASE NotifyWaitReturn(t)
    <3>1. k' = NotifyWaitExit(k, NotifyMod - 1)
      BY <2>2 DEF NotifyWaitReturn
    <3>2. k.value[t] \in Nat /\ ClearBits(k.value[t], NotifyMod - 1) \in Nat
      BY <1>3, BitsAre DEF ValuesInv
    <3>3. k'.value[t] = IF k.notify[t] = "received"
                          THEN ClearBits(k.value[t], NotifyMod - 1) ELSE k.value[t]
      BY <1>3, <3>1 DEF NotifyWaitExit, KernelFields
    <3>4. QED
      BY <3>2, <3>3
  <2>3. QED
    BY <2>1, <2>2
<1>7. owed' \subseteq owed /\ (t \in owed' => "take" \in calls /\ k'.value[t] # 0)
  <2>1. CASE NotifyTakeReturn(t)
    <3>1. At(t, "take") /\ owed' = IF k'.value[t] = 0 THEN owed \ {t} ELSE owed
      BY <2>1 DEF NotifyTakeReturn
    <3>2. "take" \in calls
      BY <1>3, <3>1 DEF CallsInv, Waiters, At
    <3>3. QED
      BY <3>1, <3>2
  <2>2. CASE NotifyWaitReturn(t)
    BY <2>2 DEF NotifyWaitReturn
  <2>3. QED
    BY <2>1, <2>2
<1>8. Awake(k) \subseteq Awake(k')
  BY <1>3, <1>4, ReadiedAwake DEF GoesOn
<1>9. pc'[t] = "run" /\ k'.notify[t] = "not_waiting"
  BY <1>2, <1>3, <1>4
<1>10. ValuesInv'
  BY <1>3, <1>5, <1>6 DEF ValuesInv
<1>11. OwedInv'
  <2>1. ASSUME NEW x \in owed', x # t PROVE pc'[x] # "none" /\ Noticed(x)'
    <3>1. x \in Task /\ x \in owed
      BY <1>3, <1>7, <2>1 DEF OwedInv
    <3>2. QED
      BY <1>2, <1>3, <1>5, <2>1, <3>1 DEF OwedInv, Noticed
  <2>2. ASSUME t \in owed' PROVE Noticed(t)'
    BY <1>2, <1>7, <1>9, <2>2 DEF Noticed
  <2>3. QED
    BY <1>3, <1>7, <1>9, <2>1, <2>2 DEF OwedInv
<1>12. CallsInv'
  BY <1>2, <1>3, <1>5, <1>9 DEF CallsInv, Waiters
<1>13. AccountsInv'
  BY <1>2, <1>5, <1>8, <1>9 DEF NotifyInv, AccountsInv, Accounted, Waiters
<1>14. QED
  BY <1>10, <1>11, <1>12, <1>13 DEF NotifyInv

-----------------------------------------------------------------------------
(* The calls and the interrupt that notify *)

\* The value a notification leaves, and when it is 0.
LEMMA NotifiedValueIs ==
    ASSUME NEW u, NEW action \in Actions, k.value[u] \in Nat, Countable(u, action)
    PROVE  LET v == NotifiedValue(k, u, 1, action)
           IN  /\ v \in Nat
               /\ v # 0 \/ (v = k.value[u] /\ (NotifyFails(k, u, action) \/ action = "eNoAction"))
<1> DEFINE v == NotifiedValue(k, u, 1, action)
<1>1. action \in {"eNoAction", "eSetBits", "eIncrement", "eSetValueWithOverwrite",
                  "eSetValueWithoutOverwrite"}
  BY ValuesAssumption
<1>2. CASE action = "eSetBits"
  <2>1. v = SetBits(k.value[u], 1)
    BY <1>2 DEF NotifiedValue
  <2>2. QED
    BY <2>1, BitsAre
<1>3. CASE action = "eIncrement"
  <2>1. v = (k.value[u] + 1) % NotifyMod
    BY <1>3 DEF NotifiedValue
  <2>2. k.value[u] + 1 \in 0 .. NotifyMod - 1 /\ NotifyMod \in Nat \ {0}
    BY <1>3, NotifyModIs DEF Countable
  <2>3. v = k.value[u] + 1
    BY <2>1, <2>2, ModSmall
  <2>4. QED
    BY <2>3
<1>4. CASE action = "eSetValueWithOverwrite"
  BY <1>4 DEF NotifiedValue
<1>5. CASE action = "eSetValueWithoutOverwrite"
  BY <1>5 DEF NotifiedValue, NotifyFails
<1>6. CASE action = "eNoAction"
  BY <1>6 DEF NotifiedValue
<1>7. QED
  BY <1>1, <1>2, <1>3, <1>4, <1>5, <1>6

\* A task is notified: it is awake from now on.
LEMMA NotifiedStep ==
    ASSUME SchedInv, NotifyInv, NEW u \in Others, NEW action \in Actions,
           Countable(u, action), Owe(u, action),
           pc' = pc, calls' = calls, held' = held,
           k'.notify = [k.notify EXCEPT ![u] = "received"],
           k'.value = [k.value EXCEPT ![u] = NotifiedValue(k, u, 1, action)],
           Awake(k) \subseteq Awake(k'), k.notify[u] = "waiting" => u \in Awake(k')
    PROVE  NotifyInv'
<1> DEFINE v == NotifiedValue(k, u, 1, action)
<1>1. /\ DOMAIN k.notify = Task /\ DOMAIN k.value = Task /\ u \in Task /\ pc[u] # "none"
      /\ OwedInv /\ ValuesInv /\ CallsInv /\ AccountsInv
  BY OthersAre DEF SchedInv, KernelInv, NotifyInv, Others
<1>2. /\ v \in Nat
      /\ v # 0 \/ (v = k.value[u] /\ (NotifyFails(k, u, action) \/ action = "eNoAction"))
  BY <1>1, NotifiedValueIs DEF ValuesInv
<1>3. k'.value[u] = v /\ k'.notify[u] = "received"
  BY <1>1
<1> HIDE DEF v
<1>4. \A x \in Task \ {u} : k'.value[x] = k.value[x] /\ k'.notify[x] = k.notify[x]
  BY <1>1
<1>5. /\ owed' \subseteq owed \cup {u}
      /\ u \in owed' => \/ u \in owed
                        \/ ~NotifyFails(k, u, action)
                           /\ ~(action = "eNoAction" /\ "take" \in calls)
  BY DEF Owe
<1>6. ASSUME u \in owed', "take" \in calls PROVE k'.value[u] # 0
  <2>1. CASE u \in owed
    <3>1. k.value[u] # 0
      BY <1>1, <1>6, <2>1 DEF OwedInv, Noticed
    <3>2. QED
      BY <1>2, <1>3, <3>1
  <2>2. CASE u \notin owed
    BY <1>2, <1>3, <1>5, <1>6, <2>2
  <2>3. QED
    BY <2>1, <2>2
<1>7. ValuesInv'
  BY <1>1, <1>2, <1>3, <1>4 DEF ValuesInv
<1>8. OwedInv'
  <2>1. ASSUME NEW x \in owed', x # u PROVE x \in Task /\ pc'[x] # "none" /\ Noticed(x)'
    <3>1. x \in Task /\ x \in owed
      BY <1>1, <1>5, <2>1 DEF OwedInv
    <3>2. QED
      BY <1>1, <1>4, <2>1, <3>1 DEF OwedInv, Noticed
  <2>2. ASSUME u \in owed' PROVE Noticed(u)'
    BY <1>3, <1>6, <2>2 DEF Noticed
  <2>3. QED
    BY <1>1, <2>1, <2>2 DEF OwedInv
<1>9. CallsInv'
  BY <1>1 DEF CallsInv
<1>10. AccountsInv'
  BY <1>1, <1>4 DEF AccountsInv, Accounted
<1>11. QED
  BY <1>7, <1>8, <1>9, <1>10 DEF NotifyInv

LEMMA GiveNotify ==
    ASSUME SchedInv, NotifyInv, NEW t \in Task, Notify(t)
    PROVE  NotifyInv'
<1>1. pc' = pc /\ calls' = calls /\ held' = held /\ At(t, "run")
  BY DEF Notify, May
<1>2. PICK u \in Others, action \in Actions :
         /\ Countable(u, action) /\ Owe(u, action)
         /\ k' = xTaskGenericNotify(k, u, 1, action)
  BY DEF Notify
<1>3. /\ Good(k) /\ NoEvents(k) /\ DOMAIN k.notify = Task /\ DOMAIN k.value = Task
      /\ u \in Task
  BY OthersAre DEF SchedInv, KernelInv
<1>4. u \notin Elements(k.pending)
  BY <1>1, Calling DEF Suspending
<1> DEFINE S == IF k.notify[u] = "waiting" THEN {u} ELSE {}
<1>5. NotifiedBy(k', k, u, 1, action, S)
  BY <1>2, <1>3, <1>4, NotifyIdleIs, NotifyIs
<1>6. S \subseteq Task /\ (k.notify[u] = "waiting" => u \in S)
  BY <1>3
<1> HIDE DEF S
<1>7. Awake(k) \subseteq Awake(k') /\ S \subseteq Awake(k')
  BY <1>3, <1>5, <1>6, ReadiedAwake DEF NotifiedBy
<1>8. QED
  BY <1>1, <1>2, <1>5, <1>6, <1>7, NotifiedStep DEF NotifiedBy

LEMMA GiveISRNotify ==
    ASSUME SchedInv, NotifyInv, NotifyFromISR
    PROVE  NotifyInv'
<1>1. pc' = pc /\ calls' = calls /\ held' = held /\ "notify_isr" \in calls
  BY DEF NotifyFromISR
<1>2. PICK u \in Others, action \in Actions :
         /\ Countable(u, action) /\ Owe(u, action)
         /\ k' = NotifyAndYield(k, u, 1, action)
  BY DEF NotifyFromISR, NotifyAndYield
<1>3. /\ Good(k) /\ NoEvents(k) /\ DOMAIN k.notify = Task /\ DOMAIN k.value = Task
      /\ u \in Task /\ k.suspensions \in {0, 1}
  BY OthersAre DEF SchedInv, KernelInv
<1>4. CASE k.notify[u] # "waiting"
  <2>1. NotifiedBy(k', k, u, 1, action, {})
    BY <1>2, <1>3, <1>4, NotifyIdleIs
  <2>2. Awake(k) \subseteq Awake(k')
    BY <1>3, <2>1, ReadiedAwake DEF NotifiedBy
  <2>3. QED
    BY <1>1, <1>2, <1>4, <2>1, <2>2, NotifiedStep DEF NotifiedBy
<1>5. CASE k.notify[u] = "waiting" /\ k.suspensions = 0
  <2>1. u \notin Elements(k.pending)
    BY <1>5 DEF SchedInv, PendingInv
  <2>2. NotifiedBy(k', k, u, 1, action, {u})
    BY <1>2, <1>3, <1>5, <2>1, NotifyIs
  <2>3. Awake(k) \subseteq Awake(k') /\ {u} \subseteq Awake(k')
    BY <1>3, <2>2, ReadiedAwake DEF NotifiedBy
  <2>4. QED
    BY <1>1, <1>2, <2>2, <2>3, NotifiedStep DEF NotifiedBy
<1>6. CASE k.notify[u] = "waiting" /\ k.suspensions = 1
  <2>1. u \notin Elements(k.pending)
    BY <1>1, <1>6 DEF SchedInv, PendingInv
  <2>2. PendedBy(k', k, u, 1, action)
    BY <1>2, <1>3, <1>6, <2>1, NotifyLaterIs
  <2>3. k'.ready = k.ready /\ Elements(k'.pending) = Elements(k.pending) \cup {u}
    BY <2>2 DEF PendedBy, Keeps, KernelFields, NotifyFields
  <2>4. Awake(k) \subseteq Awake(k') /\ u \in Awake(k')
    BY <2>3 DEF Awake, Ready, ReadyAt
  <2>5. QED
    BY <1>1, <1>2, <2>2, <2>4, NotifiedStep DEF PendedBy
<1>7. QED
  BY <1>3, <1>4, <1>5, <1>6

LEMMA ClearNotify ==
    ASSUME SchedInv, NotifyInv, NEW t \in Task, NotifyClear(t)
    PROVE  NotifyInv'
<1>1. pc' = pc /\ calls' = calls /\ held' = held
  BY DEF NotifyClear
<1>2. PICK u \in Others :
         \/ /\ k' = xTaskGenericNotifyStateClear(k, u)
            /\ owed' = IF "take" \in calls THEN owed ELSE owed \ {u}
         \/ /\ k' = ulTaskGenericNotifyValueClear(k, u, NotifyMod - 1)
            /\ owed' = IF "take" \in calls /\ k'.value[u] = 0
                       THEN owed \ {u} ELSE owed
  BY DEF NotifyClear
<1>3. /\ Good(k) /\ DOMAIN k.notify = Task /\ DOMAIN k.value = Task /\ u \in Task
      /\ OwedInv /\ ValuesInv /\ CallsInv /\ AccountsInv /\ DOMAIN k = KernelFields
  BY OthersAre DEF SchedInv, KernelInv, NotifyInv, Good, Sound, Shape
<1>4. /\ Keeps(k', k, NotifyFields) /\ owed' \subseteq owed
      /\ \A x \in Task \ {u} : k'.value[x] = k.value[x] /\ k'.notify[x] = k.notify[x]
      /\ k'.value[u] \in Nat
      /\ k.notify[u] = "waiting" <=> k'.notify[u] = "waiting"
      /\ u \in owed' => /\ "take" \in calls => k'.value[u] # 0
                        /\ "take" \notin calls => k'.notify[u] = k.notify[u]
  <2>1. CASE /\ k' = xTaskGenericNotifyStateClear(k, u)
             /\ owed' = IF "take" \in calls THEN owed ELSE owed \ {u}
    <3>1. /\ Keeps(k', k, {"notify"})
          /\ k'.notify = [k.notify EXCEPT ![u] = IF @ = "received" THEN "not_waiting" ELSE @]
      BY <1>3, <2>1, ClearIs
    <3>2. k'.value = k.value
      BY <3>1 DEF Keeps, KernelFields
    <3>3. k'.notify[u] = (IF k.notify[u] = "received" THEN "not_waiting" ELSE k.notify[u])
          /\ \A x \in Task \ {u} : k'.notify[x] = k.notify[x]
      BY <1>3, <3>1
    <3>4. Keeps(k', k, NotifyFields)
      BY <3>1 DEF Keeps, NotifyFields
    <3>5. QED
      BY <1>3, <2>1, <3>2, <3>3, <3>4 DEF ValuesInv, OwedInv, Noticed
  <2>2. CASE /\ k' = ulTaskGenericNotifyValueClear(k, u, NotifyMod - 1)
             /\ owed' = IF "take" \in calls /\ k'.value[u] = 0
                        THEN owed \ {u} ELSE owed
    <3>0. LET j == ulTaskGenericNotifyValueClear(k, u, NotifyMod - 1)
          IN  Keeps(j, k, {"value"}) /\ \A x \in Task \ {u} : j.value[x] = k.value[x]
      BY <1>3, ClearIs
    <3>1. /\ Keeps(k', k, {"value"})
          /\ \A x \in Task \ {u} : k'.value[x] = k.value[x]
      BY <2>2, <3>0
    <3>2. k'.value[u] = ClearBits(k.value[u], NotifyMod - 1)
      BY <1>3, <2>2 DEF ulTaskGenericNotifyValueClear, KernelFields
    <3>3. k'.notify = k.notify /\ Keeps(k', k, NotifyFields)
      BY <3>1 DEF Keeps, KernelFields, NotifyFields
    <3>4. QED
      BY <1>3, <2>2, <3>1, <3>2, <3>3, BitsAre
  <2>3. QED
    BY <1>2, <2>1, <2>2
<1>5. Awake(k') = Awake(k)
  BY <1>4, KeepsAwake DEF NotifyFields
<1>6. ValuesInv'
  BY <1>3, <1>4 DEF ValuesInv
<1>7. OwedInv'
  <2>1. ASSUME NEW x \in owed', x # u PROVE pc'[x] # "none" /\ Noticed(x)'
    BY <1>1, <1>3, <1>4, <2>1 DEF OwedInv, Noticed
  <2>2. ASSUME u \in owed' PROVE pc'[u] # "none" /\ Noticed(u)'
    BY <1>1, <1>3, <1>4, <2>2 DEF OwedInv, Noticed
  <2>3. QED
    BY <1>3, <1>4, <2>1, <2>2 DEF OwedInv
<1>8. CallsInv'
  BY <1>1, <1>3 DEF CallsInv
<1>9. AccountsInv'
  BY <1>1, <1>3, <1>4, <1>5 DEF AccountsInv, Accounted
<1>10. QED
  BY <1>6, <1>7, <1>8, <1>9 DEF NotifyInv

-----------------------------------------------------------------------------
(* The calls that make tasks and put them away *)

LEMMA CreateNotify ==
    ASSUME SchedInv, NotifyInv, NEW t \in Task, Create(t)
    PROVE  NotifyInv'
<1>1. calls' = calls /\ held' = held /\ owed' = owed /\ At(t, "run")
  BY DEF Create, May
<1>2. PICK u \in Task, p \in Priorities :
         /\ pc[u] = "none" /\ k' = xTaskCreate(k, <<u, p>>)
         /\ pc' = [pc EXCEPT ![u] = "run", ![t] = "created"]
  BY DEF Create
<1>3. /\ Good(k) /\ DOMAIN k.notify = Task /\ DOMAIN k.value = Task /\ DOMAIN k.base = Task
      /\ p \in Nat /\ DOMAIN pc = Task /\ OwedInv /\ ValuesInv /\ CallsInv /\ AccountsInv
  BY ValuesAssumption DEF SchedInv, KernelInv, TypeInv, NotifyInv, Good, Sound, Shape
<1>4. u \notin Placed(k)
  BY <1>2 DEF SchedInv, PlacesInv, Existing, Exists
<1>5. Nowhere(k, u) /\ k.current \in (Task \ {u}) \cup {NoTask}
  BY <1>1, <1>2, <1>4 DEF Nowhere, At
<1>6. CreatedBy(k', k, u, Clamped(p))
  BY <1>2, <1>3, <1>5, CreateIs
<1>7. /\ \A x \in Task \ {u} : k'.value[x] = k.value[x] /\ k'.notify[x] = k.notify[x]
      /\ k'.value[u] = 0
  BY <1>3, <1>6 DEF CreatedBy
<1>8. Awake(k) \subseteq Awake(k')
  <2>1. \A x \in Priority : ReadyAt(k, x) \subseteq ReadyAt(k', x)
    BY <1>6 DEF CreatedBy
  <2>2. k'.pending = k.pending
    BY <1>6 DEF CreatedBy, Keeps, KernelFields, CreateFields, NewFields
  <2>3. QED
    BY <2>1, <2>2 DEF Awake, Ready
<1>9. u \notin owed
  BY <1>2, <1>3 DEF OwedInv
<1>10. \A x \in Task : pc'[x] = pc[x] \/ pc'[x] \in {"run", "created"}
  BY <1>2, <1>3
<1>11. \A x \in Task : pc'[x] \in Waiters => x # u /\ pc'[x] = pc[x]
  BY <1>2, <1>3, <1>10 DEF Waiters
<1>12. ValuesInv'
  BY <1>3, <1>7 DEF ValuesInv
<1>13. OwedInv'
  BY <1>1, <1>3, <1>7, <1>9, <1>10 DEF OwedInv, Noticed
<1>14. CallsInv'
  BY <1>1, <1>3, <1>11 DEF CallsInv
<1>15. AccountsInv'
  BY <1>1, <1>3, <1>7, <1>8, <1>11 DEF AccountsInv, Accounted
<1>16. QED
  BY <1>12, <1>13, <1>14, <1>15 DEF NotifyInv

LEMMA SuspendNotify ==
    ASSUME SchedInv, NotifyInv, NEW t \in Task, Suspend(t)
    PROVE  NotifyInv'
<1>1. calls' = calls /\ owed' = owed /\ pc' = [pc EXCEPT ![t] = "suspend"]
  BY DEF Suspend, Goes
<1>2. PICK u \in Others : k' = vTaskSuspend(k, u) /\ held' = held \cup {u}
  BY DEF Suspend
<1>3. /\ Good(k) /\ DOMAIN k.notify = Task /\ u \in Task /\ DOMAIN pc = Task
      /\ OwedInv /\ ValuesInv /\ CallsInv /\ AccountsInv
  BY OthersAre DEF SchedInv, KernelInv, TypeInv, NotifyInv
<1>4. /\ Keeps(k', k, OutFields \cup {"notify"}) /\ OutOf(k', k, u)
      /\ k'.notify = [k.notify EXCEPT ![u] = IF @ = "waiting" THEN "not_waiting" ELSE @]
  BY <1>2, <1>3, SuspendIs
<1>5. k'.value = k.value
  BY <1>4 DEF Keeps, KernelFields, OutFields, StateLists
<1>6. /\ \A x \in Task \ {u} : k'.notify[x] = k.notify[x]
      /\ k.notify[u] # "waiting" => k'.notify[u] = k.notify[u]
  BY <1>3, <1>4
<1>7. \A x \in Awake(k) : x # u => x \in Awake(k')
  BY <1>4, OutAwake
<1>8. \A x \in Task : pc'[x] = pc[x] \/ pc'[x] = "suspend"
  BY <1>1, <1>3
<1>9. ValuesInv'
  BY <1>3, <1>5 DEF ValuesInv
<1>10. OwedInv'
  BY <1>1, <1>3, <1>5, <1>6, <1>8 DEF OwedInv, Noticed
<1>11. CallsInv'
  BY <1>1, <1>3, <1>8 DEF CallsInv, Waiters
<1>12. AccountsInv'
  BY <1>2, <1>3, <1>6, <1>7, <1>8 DEF AccountsInv, Accounted, Waiters
<1>13. QED
  BY <1>9, <1>10, <1>11, <1>12 DEF NotifyInv

-----------------------------------------------------------------------------
(* Every step, and the kernel main starts *)

LEMMA TaskNotify ==
    ASSUME NotMixed, SchedInv, NotifyInv, NEW t \in Task, TaskStep(t)
    PROVE  NotifyInv'
<1>1. CASE \/ Yield(t) \/ Delay(t) \/ DelayUntil(t) \/ SuspendAll(t) \/ CatchUpTicks(t)
           \/ CreateReturn(t) \/ DeleteYield(t) \/ SuspendReturn(t) \/ DeleteTCB(t)
  BY <1>1, FlagsNotify
<1>2. CASE DelayAdd(t) \/ DelayUntilAdd(t)
  BY <1>2, SleepNotify
<1>3. CASE ResumeAllAndYield(t) \/ ResumeAll(t)
  BY <1>3, ResumeAllNotify
<1>4. CASE NotifyTake(t)
  BY <1>4, TakeNotify
<1>5. CASE NotifyWait(t)
  BY <1>5, WaitNotify
<1>6. CASE NotifyTakeReturn(t) \/ NotifyWaitReturn(t)
  BY <1>6, ReturnNotify
<1>7. CASE Notify(t)
  BY <1>7, GiveNotify
<1>8. CASE NotifyClear(t)
  BY <1>8, ClearNotify
<1>9. CASE Create(t)
  BY <1>9, CreateNotify
<1>10. CASE Delete(t)
  BY <1>10, DeleteNotify
<1>11. CASE Suspend(t)
  BY <1>11, SuspendNotify
<1>12. CASE Resume(t)
  BY <1>12, ResumeNotify
<1>13. CASE PrioritySet(t)
  BY <1>13, PriorityNotify
<1>14. QED
  BY <1>1, <1>2, <1>3, <1>4, <1>5, <1>6, <1>7, <1>8, <1>9, <1>10, <1>11, <1>12, <1>13
     DEF TaskStep

LEMMA NextNotify ==
    ASSUME NotMixed, SchedInv, NotifyInv, Next
    PROVE  NotifyInv'
<1>1. CASE SysTick \/ PendSV
  BY <1>1, TimeNotify
<1>2. CASE NotifyFromISR
  BY <1>2, GiveISRNotify
<1>3. CASE ResumeFromISR
  BY <1>3, ResumeISRNotify
<1>4. CASE IdleCleanUp
  BY <1>4, CleanUpNotify
<1>5. CASE \E t \in Task : TaskStep(t)
  BY <1>5, TaskNotify
<1>6. CASE \E t \in Task, n \in Delays : CatchUpTicksPend(t, n)
  BY <1>6, FlagsNotify
<1>7. QED
  BY <1>1, <1>2, <1>3, <1>4, <1>5, <1>6 DEF Next, Interrupt

\* Nobody has been notified when the kernel starts.
LEMMA InitNotify == Init => NotifyInv
<1> SUFFICES ASSUME Init PROVE NotifyInv
  OBVIOUS
<1>1. k.value \in [Task -> Nat] /\ owed = {} /\ \A t \in Task : pc[t] \in {"run", "none"}
  BY InitKeeps DEF Init
<1>2. QED
  BY <1>1 DEF NotifyInv, ValuesInv, OwedInv, CallsInv, AccountsInv, Waiters

LEMMA StutterNotify ==
    ASSUME NotifyInv, UNCHANGED vars
    PROVE  NotifyInv'
<1>1. k' = k /\ pc' = pc /\ calls' = calls /\ held' = held /\ owed' = owed
  BY DEF vars
<1>2. QED
  BY <1>1 DEF NotifyInv, ValuesInv, OwedInv, Noticed, CallsInv, AccountsInv, Accounted

\* A notification is not missed: a task that waits for one has not been given
\* one it has not returned with, whatever interrupts came before it blocked,
\* and whatever it was doing when it was notified.
THEOREM SchedulerNotices ==
    ASSUME ResumesKnown, NotMixed PROVE Spec => []NoNotificationMissed
<1>1. Init => SchedInv /\ NotifyInv
  BY InitKeeps, InitNotify
<1>2. SchedInv /\ NotifyInv /\ [Next]_vars => SchedInv' /\ NotifyInv'
  <2> SUFFICES ASSUME SchedInv, NotifyInv, [Next]_vars PROVE SchedInv' /\ NotifyInv'
    OBVIOUS
  <2>1. CASE Next
    BY <2>1, NextKeeps, NextNotify
  <2>2. CASE UNCHANGED vars
    BY <2>2, StutterKeeps, StutterNotify
  <2>3. QED
    BY <2>1, <2>2
<1>3. QED
  BY <1>1, <1>2, NotifyShows, PTL DEF Spec

=============================================================================
