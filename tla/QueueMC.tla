------------------------------- MODULE QueueMC -------------------------------
(* Queue for TLC: two or three tasks, and applications each of which works  *)
(* with one kind of queue.                                                  *)
EXTENDS Queue

CONSTANTS t1, t2, t3, idle, A, B, S, a, b

MCTask == {t1, t2, t3, idle}
MCQueue == {A, B, S}
MCEventLists == MCQueue \X {"send", "receive"}

Unused == NewQueue("queue", 1)
Only(x, queue) == [y \in MCQueue |-> IF y = x THEN queue ELSE Unused]
On(x, ops, items, ticks) == {<<op, x, item, n>> : op \in ops, item \in items, n \in ticks}
Now(x, ops) == On(x, ops, {NoItem}, {0})
Waits(x, ops) == On(x, ops, {NoItem}, {1, portMAX_DELAY})
Forever(x, ops) == On(x, ops, {NoItem}, {portMAX_DELAY})
Ticks == Now(NoQueue, {"tick"})
Delays == Now(NoQueue, {"delay", "tick"})

Two == <<<<t1, 1>>, <<t2, 2>>>>
Three == <<<<t1, 1>>, <<t2, 2>>, <<t3, 2>>>>
Scene(tasks, queues, ops) == [tasks |-> tasks, queues |-> queues, calls |-> ops]

Pair == [Only(A, NewQueue("mutex", 1)) EXCEPT ![B] = NewQueue("mutex", 1)]
Set == [x \in MCQueue |->
          CASE x = A -> [NewQueue("queue", 1) EXCEPT !.set = S]
            [] x = B -> [NewQueue("semaphore", 1) EXCEPT !.set = S]
            [] x = S -> NewQueue("queue", 2)]

MCScenes ==
    {Scene(Two, Only(A, NewQueue("queue", 1)),
           Waits(A, {"receive"}) \cup On(A, {"back_isr"}, {a}, {0}) \cup Ticks),
     Scene(Two, Only(A, NewQueue("queue", 1)),
           On(A, {"back"}, {a}, {2}) \cup Now(A, {"receive_isr", "reset"}) \cup Ticks),
     Scene(Two, Only(A, NewQueue("queue", 2)),
           On(A, {"back", "back_isr"}, {a}, {0}) \cup On(A, {"front"}, {b}, {2})
             \cup Forever(A, {"receive", "peek"})),
     Scene(Two, Only(A, NewQueue("queue", 1)),
           On(A, {"overwrite", "overwrite_isr"}, {a, b}, {0}) \cup Forever(A, {"receive"})
             \cup Now(A, {"reset"}) \cup On(A, {"back"}, {a}, {2})),
     Scene(Three, Only(A, NewQueue("semaphore", 2)), Forever(A, {"take"}) \cup Now(A, {"give_isr"})),
     Scene(Two, Only(A, NewQueue("semaphore", 1)),
           Forever(A, {"take"}) \cup Now(A, {"give_isr"}) \cup Now(NoQueue, {"priority"})),
     Scene(Three, Only(A, NewQueue("mutex", 1)), Waits(A, {"take"}) \cup Now(A, {"give"}) \cup Delays),
     Scene(Two, Pair, UNION {Waits(x, {"take"}) \cup Now(x, {"give"}) : x \in {A, B}} \cup Delays),
     Scene(Two, Only(A, NewQueue("recursive", 1)), Waits(A, {"take_recursive"}) \cup Now(A, {"give_recursive"}) \cup Delays),
     Scene(Two, Set, On(A, {"back"}, {a}, {2}) \cup On(A, {"back_isr"}, {a}, {0})
             \cup Forever(S, {"select"}) \cup Now(S, {"select_isr"})),
     Scene(Two, Set, On(A, {"back"}, {a}, {0}) \cup Now(B, {"give_isr"}) \cup Forever(S, {"select"})
             \cup Now(S, {"select_isr"}) \cup On(A, {"member"}, {S}, {0}))}

MCPriorityScenes ==
    {Scene(Two, Only(A, NewQueue("mutex", 1)),
           On(A, {"take"}, {NoItem}, {1}) \cup Now(NoQueue, {"delay", "tick", "priority"}))}

=============================================================================
