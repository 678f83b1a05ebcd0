----------------------------- MODULE QueueProofs -----------------------------
(***************************************************************************)
(* Queues deliver in order, whatever tasks and interrupts do to them and   *)
(* between the steps of whose calls: the refinement of Fifo.  A locked     *)
(* queue is left to the task that locked it, while the kernel has a task   *)
(* to run whatever the queues ask of it.  And the holder of a mutex runs   *)
(* at the priority of those that sleep for it.                             *)
(***************************************************************************)
EXTENDS Queue, TasksProofs

-----------------------------------------------------------------------------
(* The ring of a queue *)

QueueFields ==
    {"type", "length", "count", "slots", "writeTo", "readFrom", "holder",
     "depth", "rx", "tx", "set"}

\* What may be in a slot.
Stored == Items \cup Queue_t \cup {NoItem}

\* Its items are those from behind the read position up to the write position.
Ring(r) ==
    /\ r.length \in Nat \ {0}
    /\ r.count \in 0 .. r.length
    /\ r.readFrom \in 0 .. r.length - 1
    /\ r.writeTo = (r.readFrom + 1 + r.count) % r.length
    /\ r.slots \in [0 .. r.length - 1 -> Stored]

\* The i-th item.
ItemAt(r, i) == r.slots[(r.readFrom + i) % r.length]

\* What is not of the ring may change.
SameRing(m, r) ==
    /\ m.count = r.count /\ m.slots = r.slots
    /\ m.readFrom = r.readFrom /\ m.writeTo = r.writeTo

\* Every item has a slot of its own, and what is in it may be stored.
LEMMA PlacesDistinct ==
    ASSUME NEW n \in Nat \ {0}, NEW p \in Int, NEW i \in Int, NEW j \in Int,
           i < j, j - i < n
    PROVE  (p + i) % n # (p + j) % n
<1>1. p + i \in Int /\ j - i \in 1 .. n - 1 /\ (p + i) + (j - i) = p + j
  OBVIOUS
<1>2. ((p + i) + (j - i)) % n # (p + i) % n
  BY <1>1, ModDistinct
<1>3. QED
  BY <1>1, <1>2

\* A place counted from another one.
LEMMA PlaceFrom ==
    ASSUME NEW n \in Nat \ {0}, NEW p \in Int, NEW d \in Int, NEW i \in Int
    PROVE  /\ (p + d) % n \in 0 .. n - 1
           /\ (((p + d) % n) + i) % n = (p + (d + i)) % n
<1>1. p + d \in Int
  OBVIOUS
<1>2. (p + d) % n \in 0 .. n - 1
  BY <1>1, ModIs
<1>3. (i + ((p + d) % n)) % n = (i + (p + d)) % n
  BY <1>1, ModPlus
<1>4. i + (p + d) = p + (d + i)
  OBVIOUS
<1>5. ASSUME NEW e \in Int PROVE i + e = e + i
  OBVIOUS
<1>6. i + ((p + d) % n) = ((p + d) % n) + i
  BY <1>2, <1>5
<1>7. QED
  BY <1>2, <1>3, <1>4, <1>6

LEMMA ItemsStored ==
    ASSUME NEW r, Ring(r), NEW i \in Int
    PROVE  ItemAt(r, i) \in Stored
<1>1. r.length \in Nat \ {0} /\ r.readFrom + i \in Int
  BY DEF Ring
<1>2. (r.readFrom + i) % r.length \in 0 .. r.length - 1
  BY <1>1, ModIs
<1>3. QED
  BY <1>2 DEF Ring, ItemAt

\* An item is put at the back.
SentBack(m, r, item) ==
    /\ m.length = r.length /\ m.readFrom = r.readFrom
    /\ m.slots = [r.slots EXCEPT ![r.writeTo] = item]
    /\ m.writeTo = (r.writeTo + 1) % r.length
    /\ m.count = r.count + 1

LEMMA SentBackIs ==
    ASSUME NEW r, Ring(r), r.count # r.length, NEW item \in Stored,
           NEW m, SentBack(m, r, item)
    PROVE  /\ Ring(m)
           /\ \A i \in 1 .. r.count : ItemAt(m, i) = ItemAt(r, i)
           /\ ItemAt(m, r.count + 1) = item
<1>1. PICK n \in Nat \ {0}, p \in 0 .. r.length - 1, c \in 0 .. r.length - 1 :
        n = r.length /\ p = r.readFrom /\ c = r.count
  BY DEF Ring
<1>2. p \in Int /\ c + 1 \in Int /\ p + 1 + c = p + (c + 1)
      /\ p + (c + 1) + 1 = p + (c + 2) /\ c < n /\ c + 1 <= n
  BY <1>1
<1>3. \A d, i \in Int : /\ (p + d) % n \in 0 .. n - 1
                         /\ (((p + d) % n) + i) % n = (p + (d + i)) % n
  BY <1>2, PlaceFrom
<1>4. r.writeTo = (p + (c + 1)) % n /\ r.writeTo \in 0 .. n - 1
  <2>1. (p + (c + 1)) % n \in 0 .. n - 1
    BY <1>2, <1>3
  <2>2. r.writeTo = (p + 1 + c) % n
    BY <1>1 DEF Ring
  <2>3. QED
    BY <1>2, <2>1, <2>2
<1>5. r.slots \in [0 .. n - 1 -> Stored]
  BY <1>1 DEF Ring
<1>6. m.slots \in [0 .. n - 1 -> Stored] /\ m.slots[r.writeTo] = item
  BY <1>4, <1>5 DEF SentBack
<1>7. m.writeTo = (p + 1 + m.count) % n
  <2>1. (((p + (c + 1)) % n) + 1) % n = (p + ((c + 1) + 1)) % n
    <3>1. 1 \in Int
      OBVIOUS
    <3>2. QED
      BY <1>2, <1>3, <3>1, Zenon
  <2>2. p + ((c + 1) + 1) = p + 1 + m.count
    BY <1>1 DEF SentBack
  <2>3. QED
    BY <1>1, <1>4, <2>1, <2>2 DEF SentBack
<1>8. ASSUME NEW i \in 1 .. c
      PROVE  ItemAt(m, i) = ItemAt(r, i)
  <2>1. i \in Int /\ i < c + 1 /\ (c + 1) - i < n
    BY <1>1
  <2>2. (p + i) % n # (p + (c + 1)) % n
    BY <1>2, <2>1, PlacesDistinct
  <2>3. (p + i) % n \in 0 .. n - 1
    BY <1>2, <2>1, PlaceFrom
  <2>4. m.slots[(p + i) % n] = r.slots[(p + i) % n]
    BY <1>4, <1>5, <2>2, <2>3 DEF SentBack
  <2>5. QED
    BY <1>1, <2>4 DEF ItemAt, SentBack
<1>9. ItemAt(m, c + 1) = item
  BY <1>1, <1>4, <1>6 DEF ItemAt, SentBack
<1>10. m.length = n /\ m.readFrom = p /\ m.count = c + 1
  BY <1>1 DEF SentBack
<1>11. Ring(m)
  <2>1. m.writeTo = (m.readFrom + 1 + m.count) % m.length
    BY <1>7, <1>10, Zenon
  <2>2. m.count \in 0 .. m.length /\ m.readFrom \in 0 .. m.length - 1
        /\ m.length \in Nat \ {0}
    BY <1>1, <1>10
  <2>3. QED
    BY <1>6, <1>10, <2>1, <2>2 DEF Ring
<1>12. QED
  BY <1>1, <1>8, <1>9, <1>11

\* An item is put at the front.
SentFront(m, r, item) ==
    /\ m.length = r.length /\ m.writeTo = r.writeTo
    /\ m.slots = [r.slots EXCEPT ![r.readFrom] = item]
    /\ m.readFrom = (r.readFrom - 1) % r.length
    /\ m.count = r.count + 1

LEMMA SentFrontIs ==
    ASSUME NEW r, Ring(r), r.count # r.length, NEW item \in Stored,
           NEW m, SentFront(m, r, item)
    PROVE  /\ Ring(m)
           /\ \A i \in 1 .. r.count : ItemAt(m, i + 1) = ItemAt(r, i)
           /\ ItemAt(m, 1) = item
<1>1. PICK n \in Nat \ {0}, p \in 0 .. r.length - 1, c \in 0 .. r.length - 1 :
        n = r.length /\ p = r.readFrom /\ c = r.count
  BY DEF Ring
<1>2. p \in Int /\ p - 1 = p + (-1) /\ p + 0 = p /\ -1 \in Int
  BY <1>1
<1>3. p % n = p
  BY <1>1, ModSmall
<1>4. r.slots \in [0 .. n - 1 -> Stored]
  BY <1>1 DEF Ring
<1>5. m.slots \in [0 .. n - 1 -> Stored] /\ m.slots[p] = item
  BY <1>1, <1>4 DEF SentFront
<1>6. m.readFrom = (p + (-1)) % n
  BY <1>1, <1>2 DEF SentFront
<1>7. m.readFrom \in 0 .. n - 1
      /\ \A i \in Int : (m.readFrom + i) % n = (p + ((-1) + i)) % n
  <2>1. \A d, i \in Int : /\ (p + d) % n \in 0 .. n - 1
                         /\ (((p + d) % n) + i) % n = (p + (d + i)) % n
    BY <1>2, PlaceFrom
  <2>2. QED
    BY <1>2, <1>6, <2>1, Zenon
<1>8. m.writeTo = (m.readFrom + 1 + m.count) % n
  <2>1. m.readFrom + 1 + m.count = m.readFrom + (c + 2) /\ c + 2 \in Int
    BY <1>1, <1>7 DEF SentFront
  <2>2. p + ((-1) + (c + 2)) = p + 1 + c
    BY <1>1
  <2>3. (m.readFrom + (c + 2)) % n = (p + ((-1) + (c + 2))) % n
    BY <1>7, <2>1
  <2>4. m.writeTo = (p + 1 + c) % n
    BY <1>1 DEF SentFront, Ring
  <2>5. QED
    BY <2>1, <2>2, <2>3, <2>4
<1>9. ASSUME NEW i \in 1 .. c
      PROVE  ItemAt(m, i + 1) = ItemAt(r, i)
  <2>1. i \in Int /\ i + 1 \in Int /\ (-1) + (i + 1) = i /\ 0 < i /\ i - 0 < n /\ 0 \in Int
    BY <1>1
  <2>2. (p + 0) % n # (p + i) % n
    BY <1>2, <2>1, PlacesDistinct
  <2>3. (p + i) % n \in 0 .. n - 1 /\ (p + i) % n # p
    BY <1>2, <1>3, <2>1, <2>2, PlaceFrom
  <2>4. (m.readFrom + (i + 1)) % n = (p + i) % n
    BY <1>7, <2>1
  <2>5. m.slots[(p + i) % n] = r.slots[(p + i) % n]
    BY <1>1, <1>4, <2>3 DEF SentFront
  <2>6. QED
    BY <1>1, <2>4, <2>5 DEF ItemAt, SentFront
<1>10. ItemAt(m, 1) = item
  <2>1. (m.readFrom + 1) % n = (p + ((-1) + 1)) % n
    BY <1>7
  <2>2. (-1) + 1 = 0
    OBVIOUS
  <2>3. (m.readFrom + 1) % n = p
    BY <1>2, <1>3, <2>1, <2>2
  <2>4. QED
    BY <1>1, <1>5, <2>3 DEF ItemAt, SentFront
<1>11. m.length = n /\ m.count = c + 1
  BY <1>1 DEF SentFront
<1>12. Ring(m)
  <2>1. m.writeTo = (m.readFrom + 1 + m.count) % m.length
    BY <1>8, <1>11, Zenon
  <2>2. m.count \in 0 .. m.length /\ m.readFrom \in 0 .. m.length - 1
        /\ m.length \in Nat \ {0}
    BY <1>1, <1>7, <1>11
  <2>3. QED
    BY <1>5, <1>11, <2>1, <2>2 DEF Ring
<1>13. QED
  BY <1>1, <1>9, <1>10, <1>12

\* The first item is taken out.
TakenOff(m, r) ==
    /\ m.length = r.length /\ m.slots = r.slots /\ m.writeTo = r.writeTo
    /\ m.readFrom = (r.readFrom + 1) % r.length
    /\ m.count = r.count - 1

LEMMA TakenOffIs ==
    ASSUME NEW r, Ring(r), r.count # 0, NEW m, TakenOff(m, r)
    PROVE  /\ Ring(m)
           /\ \A i \in 1 .. r.count - 1 : ItemAt(m, i) = ItemAt(r, i + 1)
<1>1. PICK n \in Nat \ {0}, p \in 0 .. r.length - 1, c \in 1 .. r.length :
        n = r.length /\ p = r.readFrom /\ c = r.count
  BY DEF Ring
<1>2. p \in Int
  BY <1>1
<1>3. m.readFrom = (p + 1) % n
  BY <1>1 DEF TakenOff
<1>4. m.readFrom \in 0 .. n - 1
      /\ \A i \in Int : (m.readFrom + i) % n = (p + (1 + i)) % n
  <2>1. \A d, i \in Int : /\ (p + d) % n \in 0 .. n - 1
                         /\ (((p + d) % n) + i) % n = (p + (d + i)) % n
    BY <1>2, PlaceFrom
  <2>2. 1 \in Int
    OBVIOUS
  <2>3. QED
    BY <1>3, <2>1, <2>2, Zenon
<1>5. m.writeTo = (m.readFrom + 1 + m.count) % n
  <2>1. m.readFrom + 1 + m.count = m.readFrom + c /\ p + (1 + c) = p + 1 + c
        /\ c \in Int
    <3>1. m.count = c - 1 /\ m.readFrom \in Int
      BY <1>1, <1>4 DEF TakenOff
    <3>2. QED
      BY <1>1, <3>1
  <2>2. (m.readFrom + c) % n = (p + (1 + c)) % n
    BY <1>4, <2>1
  <2>3. m.writeTo = (p + 1 + c) % n
    BY <1>1 DEF TakenOff, Ring
  <2>4. QED
    BY <2>1, <2>2, <2>3
<1>6. ASSUME NEW i \in 1 .. c - 1
      PROVE  ItemAt(m, i) = ItemAt(r, i + 1)
  <2>1. i \in Int /\ 1 + i = i + 1
    OBVIOUS
  <2>2. (m.readFrom + i) % n = (p + (i + 1)) % n
    BY <1>4, <2>1
  <2>3. QED
    BY <1>1, <2>2 DEF ItemAt, TakenOff
<1>7. m.length = n /\ m.count = c - 1 /\ m.slots \in [0 .. n - 1 -> Stored]
  <2>1. r.slots \in [0 .. r.length - 1 -> Stored]
    BY DEF Ring
  <2>2. QED
    BY <1>1, <2>1 DEF TakenOff
<1>8. Ring(m)
  <2>1. m.writeTo = (m.readFrom + 1 + m.count) % m.length
    BY <1>5, <1>7, Zenon
  <2>2. m.count \in 0 .. m.length /\ m.length \in Nat \ {0}
    BY <1>1, <1>7
  <2>3. m.readFrom \in 0 .. m.length - 1
    BY <1>4, <1>7
  <2>4. QED
    BY <1>7, <2>1, <2>2, <2>3 DEF Ring
<1>9. QED
  BY <1>1, <1>6, <1>8

-----------------------------------------------------------------------------
(* What the critical sections do to the queues *)

QueueOK(r) ==
    /\ DOMAIN r = QueueFields
    /\ r.rx \in Int /\ r.tx \in Int
    /\ r.type = "queue" => Ring(r)

\* The queues of a state, whose queue sets are queues.
StateOK(u) ==
    /\ DOMAIN u = {"k", "q"}
    /\ DOMAIN u.q = Queue_t
    /\ \A y \in Queue_t :
         /\ QueueOK(u.q[y])
         /\ u.q[y].set # NoQueue =>
              u.q[y].set \in Queue_t \ {y} /\ u.q[u.q[y].set].type = "queue"

\* Only the kernel is another.
OfSameQueues(v, u) == DOMAIN v = {"k", "q"} /\ v.q = u.q

\* What no critical section changes, or only the two of queue sets.
KeepsKind(m, r) ==
    /\ DOMAIN m = QueueFields
    /\ m.rx \in Int /\ m.tx \in Int
    /\ m.type = r.type /\ m.length = r.length /\ m.set = r.set

\* Items of S came to the back, or one to the front, or over the only one.
AtBack(m, r, S) ==
    /\ Ring(m) /\ m.count > r.count
    /\ \A i \in 1 .. r.count : ItemAt(m, i) = ItemAt(r, i)
    /\ \A i \in r.count + 1 .. m.count : ItemAt(m, i) \in S

AtFront(m, r, S) ==
    /\ Ring(m) /\ m.count = r.count + 1
    /\ \A i \in 1 .. r.count : ItemAt(m, i + 1) = ItemAt(r, i)
    /\ ItemAt(m, 1) \in S

Over(m, r, S) ==
    /\ r.length = 1
    /\ Ring(m) /\ m.count = 1
    /\ ItemAt(m, 1) \in S

Sent(m, r, S) ==
    /\ KeepsKind(m, r)
    /\ r.type = "queue" => AtBack(m, r, S) \/ AtFront(m, r, S) \/ Over(m, r, S)

\* Items of S came to the back, if any.
Joined(m, r, S) ==
    KeepsKind(m, r) /\ (r.type = "queue" => SameRing(m, r) \/ AtBack(m, r, S))

\* The first was taken.
Took(m, r) ==
    /\ KeepsKind(m, r)
    /\ r.type = "queue" =>
         /\ Ring(m) /\ m.count = r.count - 1
         /\ \A i \in 1 .. r.count - 1 : ItemAt(m, i) = ItemAt(r, i + 1)

Alike(m, r) == KeepsKind(m, r) /\ SameRing(m, r)

\* The states before and after differ in the queues of S.
Within(v, u, S) ==
    /\ DOMAIN v = {"k", "q"} /\ DOMAIN v.q = Queue_t
    /\ \A y \in Queue_t \ S : v.q[y] = u.q[y]

LEMMA SameRingIs ==
    ASSUME NEW r, NEW m, Ring(r), SameRing(m, r), m.length = r.length
    PROVE  Ring(m) /\ \A i : ItemAt(m, i) = ItemAt(r, i)
BY DEF Ring, SameRing, ItemAt

LEMMA WokenIs ==
    ASSUME NEW u, StateOK(u), NEW list
    PROVE  /\ OfSameQueues(Woken(u, list), u)
           /\ OfSameQueues(WakeHead(u, list), u)
           /\ OfSameQueues(WakeMissed(u, list), u)
BY DEF StateOK, OfSameQueues, Woken, WakeHead, WakeMissed

LEMMA LocksCount ==
    ASSUME NEW u, NEW x \in Queue_t, DOMAIN u = {"k", "q"}, DOMAIN u.q = Queue_t,
           QueueOK(u.q[x]),
           NEW v, \/ v = prvIncrementQueueTxLock(u, x)
                  \/ v = prvIncrementQueueRxLock(u, x)
                  \/ v = prvLockQueue(u, x)
    PROVE  Within(v, u, {x}) /\ Alike(v.q[x], u.q[x])
<1>1. CASE v = prvIncrementQueueTxLock(u, x)
  BY <1>1 DEF QueueOK, Within, Alike, KeepsKind, SameRing, QueueFields,
              prvIncrementQueueTxLock
<1>2. CASE v = prvIncrementQueueRxLock(u, x)
  BY <1>2 DEF QueueOK, Within, Alike, KeepsKind, SameRing, QueueFields,
              prvIncrementQueueRxLock
<1>3. CASE v = prvLockQueue(u, x)
  BY <1>3 DEF QueueOK, Within, Alike, KeepsKind, SameRing, QueueFields, prvLockQueue,
              queueUNLOCKED, queueLOCKED_UNMODIFIED
<1>4. QED
  BY <1>1, <1>2, <1>3

LEMMA BackOnly ==
    ASSUME NEW r, Ring(r), r.count # r.length, NEW item \in Stored,
           NEW m, SentBack(m, r, item)
    PROVE  AtBack(m, r, {item})
<1>1. r.count \in Nat /\ m.count = r.count + 1
  BY DEF Ring, SentBack
<1>2. /\ Ring(m)
      /\ \A i \in 1 .. r.count : ItemAt(m, i) = ItemAt(r, i)
      /\ ItemAt(m, r.count + 1) = item
  BY SentBackIs
<1>3. \A i \in r.count + 1 .. m.count : i = r.count + 1
  BY <1>1
<1>4. m.count > r.count
  BY <1>1
<1>5. QED
  BY <1>2, <1>3, <1>4 DEF AtBack

\* prvCopyDataToQueue puts the item where it is to go.
LEMMA CopiedIs ==
    ASSUME NEW u, StateOK(u), NEW x \in Queue_t, NEW item \in Stored,
           NEW position \in {"back", "front", "overwrite"},
           u.q[x].type = "queue" =>
             IF position = "overwrite" THEN u.q[x].length = 1
             ELSE ~prvIsQueueFull(u, x)
    PROVE  LET v == prvCopyDataToQueue(u, x, item, position)
           IN  Within(v, u, {x}) /\ Sent(v.q[x], u.q[x], {item})
<1> DEFINE v == prvCopyDataToQueue(u, x, item, position)
           r == u.q[x]
           m == v.q[x]
<1>1. DOMAIN r = QueueFields /\ r.rx \in Int /\ r.tx \in Int
  BY DEF StateOK, QueueOK
<1>2. Within(v, u, {x})
  BY DEF StateOK, Within, prvCopyDataToQueue
<1>3. KeepsKind(m, r)
  BY <1>1 DEF StateOK, KeepsKind, QueueFields, prvCopyDataToQueue
<1>4. ASSUME r.type = "queue"
      PROVE  AtBack(m, r, {item}) \/ AtFront(m, r, {item}) \/ Over(m, r, {item})
  <2>1. Ring(r)
    BY <1>4 DEF StateOK, QueueOK
  <2>2. ~IsMutex(u, x) /\ HasItems(u, x)
    BY <1>4 DEF IsMutex, HasItems
  <2>3. CASE position = "back"
    <3>1. SentBack(m, r, item)
      BY <1>1, <2>2, <2>3 DEF StateOK, QueueFields, prvCopyDataToQueue, SentBack
    <3>2. r.count # r.length
      BY <1>4, <2>3 DEF prvIsQueueFull
    <3>3. QED
      BY <2>1, <3>1, <3>2, BackOnly
  <2>4. CASE position # "back" /\ r.count # r.length /\ ~(position = "overwrite" /\ r.count > 0)
    <3>1. SentFront(m, r, item)
      BY <1>1, <2>2, <2>4 DEF StateOK, QueueFields, prvCopyDataToQueue, SentFront
    <3>2. /\ Ring(m) /\ m.count = r.count + 1
          /\ \A i \in 1 .. r.count : ItemAt(m, i + 1) = ItemAt(r, i)
          /\ ItemAt(m, 1) = item
      BY <2>1, <2>4, <3>1, SentFrontIs DEF SentFront
    <3>3. QED
      BY <3>2 DEF AtFront
  <2>5. CASE position = "overwrite" /\ r.count > 0
    <3>1. r.length = 1
      BY <1>4, <2>5
    <3>2. r.length = 1 /\ r.count = 1 /\ r.readFrom = 0
      <4> HIDE DEF r
      <4>1. QED
        BY <2>1, <2>5, <3>1 DEF Ring
    <3>3. /\ m.slots = [r.slots EXCEPT ![0] = item] /\ m.count = 1 /\ m.length = 1
          /\ m.readFrom = (0 - 1) % 1 /\ m.writeTo = r.writeTo
      BY <1>1, <2>2, <2>5, <3>2 DEF StateOK, QueueFields, prvCopyDataToQueue
    <3>4. \A i \in Int : i % 1 = 0
      BY ModIs
    <3>5. /\ m.readFrom = 0 /\ r.writeTo = 0
          /\ (m.readFrom + 1) % 1 = 0 /\ (m.readFrom + 1 + m.count) % 1 = 0
      BY <2>1, <3>2, <3>3, <3>4 DEF Ring
    <3>6. r.slots \in [0 .. 0 -> Stored]
      BY <2>1, <3>2 DEF Ring
    <3>7. Ring(m)
      BY <3>3, <3>5, <3>6 DEF Ring
    <3>8. ItemAt(m, 1) = item
      BY <3>3, <3>5, <3>6 DEF ItemAt
    <3>9. QED
      BY <3>2, <3>3, <3>7, <3>8 DEF Over
  <2>6. position # "back" =>
         r.count # r.length \/ (position = "overwrite" /\ r.count > 0)
    <3>1. r.count \in Nat /\ r.length \in Nat \ {0}
      BY <2>1 DEF Ring
    <3>2. IF position = "overwrite" THEN r.length = 1 ELSE r.count # r.length
      BY <1>4 DEF prvIsQueueFull
    <3>3. CASE position = "overwrite"
      <4>1. r.length = 1
        BY <3>3, <3>2
      <4>2. r.count # r.length \/ r.count > 0
        BY <3>1, <4>1
      <4>3. QED
        BY <3>3, <4>2
    <3>4. QED
      BY <3>3, <3>2
  <2>7. QED
    BY <2>3, <2>4, <2>5, <2>6
<1>5. QED
  BY <1>2, <1>3, <1>4 DEF Sent

\* What one step leaves as it is may follow on what another has done.
LEMMA AlikeAfter ==
    ASSUME NEW r, NEW m, NEW S, NEW w, QueueOK(r), Alike(w, m)
    PROVE  /\ Alike(r, r)
           /\ Sent(m, r, S) => Sent(w, r, S)
           /\ Joined(m, r, S) => Joined(w, r, S)
           /\ Took(m, r) => Took(w, r)
           /\ Alike(m, r) => Alike(w, r)
<1>1. Alike(r, r)
  BY DEF QueueOK, Alike, KeepsKind, SameRing
<1>2. KeepsKind(m, r) => KeepsKind(w, r)
  BY DEF Alike, KeepsKind
<1>3. ASSUME Ring(m) PROVE Ring(w) /\ \A i : ItemAt(w, i) = ItemAt(m, i)
  BY <1>3, SameRingIs DEF Alike, KeepsKind
<1>4. w.count = m.count
  BY DEF Alike, SameRing
<1>5. AtBack(m, r, S) => AtBack(w, r, S)
  BY <1>3, <1>4 DEF AtBack
<1>6. AtFront(m, r, S) => AtFront(w, r, S)
  BY <1>3, <1>4 DEF AtFront
<1>7. Over(m, r, S) => Over(w, r, S)
  BY <1>3, <1>4 DEF Over
<1>8. Took(m, r) => Took(w, r)
  BY <1>2, <1>3, <1>4 DEF Took
<1>9. SameRing(m, r) => SameRing(w, r)
  BY DEF Alike, SameRing
<1>10. QED
  BY <1>1, <1>2, <1>5, <1>6, <1>7, <1>8, <1>9 DEF Sent, Joined, Alike

LEMMA JoinedAgain ==
    ASSUME NEW r, NEW m, NEW S, NEW w, QueueOK(r), Joined(m, r, S), Joined(w, m, S)
    PROVE  QueueOK(m) /\ Joined(w, r, S)
<1>1. KeepsKind(w, r) /\ KeepsKind(m, r)
  BY DEF Joined, KeepsKind
<1>2. CASE r.type = "queue"
  <2>1. Ring(r) /\ m.type = "queue" /\ m.length = r.length
    BY <1>1, <1>2 DEF QueueOK, KeepsKind
  <2>2. Ring(m) /\ r.count \in Nat
    BY <1>2, <2>1, SameRingIs DEF Joined, AtBack, Ring
  <2>3. CASE SameRing(w, m)
    <3>1. Alike(w, m)
      BY <2>3 DEF Alike, Joined
    <3>2. QED
      BY <3>1, <2>2, <1>1, AlikeAfter DEF QueueOK, KeepsKind
  <2>4. CASE AtBack(w, m, S)
    <3>1. CASE SameRing(m, r)
      <4>1. m.count = r.count /\ \A i : ItemAt(m, i) = ItemAt(r, i)
        BY <2>1, <3>1, SameRingIs DEF SameRing
      <4>2. AtBack(w, r, S)
        BY <2>4, <4>1 DEF AtBack
      <4>3. QED
        BY <4>2, <1>1, <2>2 DEF Joined, QueueOK, KeepsKind
    <3>2. CASE AtBack(m, r, S)
      <4>1. m.count \in Nat /\ w.count \in Nat
        BY <2>2, <2>4 DEF Ring, AtBack
      <4>2. m.count > r.count /\ w.count > m.count
        BY <2>4, <3>2 DEF AtBack
      <4>3. ASSUME NEW i \in 1 .. r.count
            PROVE  ItemAt(w, i) = ItemAt(r, i)
        <5>1. i \in 1 .. m.count
          BY <2>2, <4>1, <4>2
        <5>2. QED
          BY <5>1, <2>4, <3>2 DEF AtBack
      <4>4. ASSUME NEW i \in r.count + 1 .. w.count
            PROVE  ItemAt(w, i) \in S
        <5>1. i \in m.count + 1 .. w.count \/ (i \in 1 .. m.count /\ i \in r.count + 1 .. m.count)
          BY <2>2, <4>1, <4>2
        <5>2. CASE i \in m.count + 1 .. w.count
          BY <5>2, <2>4 DEF AtBack
        <5>3. CASE i \in 1 .. m.count /\ i \in r.count + 1 .. m.count
          BY <5>3, <2>4, <3>2 DEF AtBack
        <5>4. QED
          BY <5>1, <5>2, <5>3
      <4>5. w.count > r.count /\ Ring(w)
        BY <2>2, <2>4, <4>1, <4>2 DEF AtBack
      <4>6. AtBack(w, r, S)
        BY <4>3, <4>4, <4>5 DEF AtBack
      <4>7. QED
        BY <4>6, <1>1, <2>2 DEF Joined, QueueOK, KeepsKind
    <3>3. QED
      BY <1>2, <3>1, <3>2 DEF Joined
  <2>5. QED
    BY <2>1, <2>3, <2>4 DEF Joined
<1>3. CASE r.type # "queue"
  BY <1>1, <1>3 DEF Joined, QueueOK, KeepsKind
<1>4. QED
  BY <1>2, <1>3

\* What keeps the queues as they should be.
LEMMA StateKept ==
    ASSUME NEW u, StateOK(u), NEW v, DOMAIN v = {"k", "q"}, DOMAIN v.q = Queue_t,
           \A y \in Queue_t : /\ KeepsKind(v.q[y], u.q[y])
                              /\ u.q[y].type = "queue" => Ring(v.q[y])
    PROVE  StateOK(v)
<1>1. \A y \in Queue_t : QueueOK(v.q[y])
  BY DEF QueueOK, KeepsKind
<1>2. ASSUME NEW y \in Queue_t, v.q[y].set # NoQueue
      PROVE  v.q[y].set \in Queue_t \ {y} /\ v.q[v.q[y].set].type = "queue"
  <2>1. v.q[y].set = u.q[y].set
    BY DEF KeepsKind
  <2>2. u.q[y].set \in Queue_t \ {y} /\ u.q[u.q[y].set].type = "queue"
    BY <1>2, <2>1 DEF StateOK
  <2>3. QED
    BY <2>1, <2>2 DEF KeepsKind
<1>3. QED
  BY <1>1, <1>2 DEF StateOK

LEMMA RelationsKeep ==
    ASSUME NEW r, QueueOK(r), NEW m, NEW S,
           Sent(m, r, S) \/ Joined(m, r, S) \/ Took(m, r) \/ Alike(m, r)
    PROVE  KeepsKind(m, r) /\ (r.type = "queue" => Ring(m))
<1>1. KeepsKind(m, r)
  BY DEF Sent, Joined, Took, Alike
<1>2. ASSUME r.type = "queue" PROVE Ring(m)
  <2>1. Ring(r) /\ m.length = r.length
    BY <1>1, <1>2 DEF QueueOK, KeepsKind
  <2>2. QED
    BY <1>2, <2>1, SameRingIs DEF Sent, Joined, Took, Alike, AtBack, AtFront, Over
<1>3. QED
  BY <1>1, <1>2

\* The queue set of x is sent its handle, if there is room.
SetTold(v, u, x, set) ==
    Within(v, u, {set}) /\ Joined(v.q[set], u.q[set], {x})

LEMMA SetToldIs ==
    ASSUME NEW u, StateOK(u), NEW x \in Queue_t, u.q[x].set # NoQueue,
           NEW v, v = prvNotifyQueueSetContainer(u, x) \/ v = NotifyMissed(u, x)
    PROVE  SetTold(v, u, x, u.q[x].set)
<1> DEFINE set == u.q[x].set
           n == prvNotifyQueueSetContainer(u, x)
           sent == prvCopyDataToQueue(u, set, x, "back")
           r == u.q[set]
<1>1. set \in Queue_t \ {x} /\ r.type = "queue" /\ QueueOK(r)
  BY DEF StateOK
<1>2. CASE prvIsQueueFull(u, set)
  <2>1. n = u
    BY <1>2 DEF prvNotifyQueueSetContainer
  <2>2. v.q = u.q /\ DOMAIN v = {"k", "q"}
    <3>1. CASE v = n
      BY <2>1, <3>1 DEF StateOK
    <3>2. CASE v = NotifyMissed(u, x)
      BY <2>1, <3>2 DEF StateOK, NotifyMissed
    <3>3. QED
      BY <3>1, <3>2
  <2>3. Alike(r, r)
    BY <1>1 DEF Alike, QueueOK, KeepsKind, SameRing
  <2>4. QED
    BY <2>2, <2>3 DEF StateOK, Within, Joined, Alike, SetTold
<1>3. CASE ~prvIsQueueFull(u, set)
  <2>1. Within(sent, u, {set}) /\ Sent(sent.q[set], r, {x})
    <3>1. x \in Stored /\ "back" \in {"back", "front", "overwrite"}
      BY DEF Stored
    <3>2. QED
      BY <1>1, <1>3, <3>1, CopiedIs
  <2>2. /\ AtBack(sent.q[set], r, {x}) \/ AtFront(sent.q[set], r, {x}) \/ Over(sent.q[set], r, {x})
        /\ KeepsKind(sent.q[set], r)
    BY <1>1, <2>1 DEF Sent
  <2>3. AtBack(sent.q[set], r, {x})
    <3>1. SentBack(sent.q[set], r, x)
      <4>1. ~IsMutex(u, set) /\ HasItems(u, set)
        BY <1>1 DEF IsMutex, HasItems
      <4>2. QED
        BY <1>1, <4>1 DEF StateOK, QueueOK, QueueFields, prvCopyDataToQueue, SentBack
    <3>2. Ring(r) /\ r.count # r.length /\ x \in Stored
      BY <1>1, <1>3 DEF QueueOK, prvIsQueueFull, Stored
    <3>3. QED
      BY <3>1, <3>2, BackOnly
  <2>4. Joined(sent.q[set], r, {x})
    BY <2>2, <2>3 DEF Joined
  <2>5. Within(n, u, {set}) /\ Joined(n.q[set], r, {x})
    <3>1. QueueOK(sent.q[set])
      BY <1>1, <2>2, <2>3 DEF QueueOK, KeepsKind, AtBack
    <3>2. CASE u.q[set].tx # queueUNLOCKED
      <4>1. n = prvIncrementQueueTxLock(sent, set)
        BY <1>3, <3>2 DEF prvNotifyQueueSetContainer
      <4>2. Within(n, sent, {set}) /\ Alike(n.q[set], sent.q[set])
        BY <1>1, <2>1, <3>1, <4>1, LocksCount DEF Within
      <4>3. Joined(n.q[set], r, {x})
        BY <1>1, <2>4, <4>2, AlikeAfter
      <4>4. QED
        BY <2>1, <4>2, <4>3 DEF Within
    <3>3. CASE u.q[set].tx = queueUNLOCKED
      <4>1. n = sent \/ n = Woken(sent, ToReceive(set))
        BY <1>3, <3>3 DEF prvNotifyQueueSetContainer
      <4>2. n.q = sent.q /\ DOMAIN n = {"k", "q"}
        BY <2>1, <4>1 DEF Within, Woken
      <4>3. QED
        BY <2>1, <2>4, <4>2 DEF Within
    <3>4. QED
      BY <3>2, <3>3
  <2>6. v.q = n.q /\ DOMAIN v = {"k", "q"}
    <3>1. CASE v = n
      BY <2>5, <3>1 DEF Within
    <3>2. CASE v = NotifyMissed(u, x)
      BY <2>5, <3>2 DEF Within, NotifyMissed
    <3>3. QED
      BY <3>1, <3>2
  <2>7. QED
    BY <2>5, <2>6 DEF Within, SetTold
<1>4. QED
  BY <1>2, <1>3

\* x is sent something of S, and its queue set is told.
SendsTo(v, u, x, S) ==
    /\ DOMAIN v = {"k", "q"} /\ DOMAIN v.q = Queue_t
    /\ \A y \in Queue_t \ {x} : y = u.q[x].set \/ v.q[y] = u.q[y]
    /\ Sent(v.q[x], u.q[x], S)
    /\ u.q[x].set # NoQueue => Joined(v.q[u.q[x].set], u.q[u.q[x].set], {x})

LEMMA ToldIs ==
    ASSUME NEW u, StateOK(u), NEW x \in Queue_t, NEW v, NEW e,
           \/ v = Tell(u, x)
           \/ v = [Tell(u, x) EXCEPT !.k = e]
    PROVE  /\ Within(v, u, {u.q[x].set})
           /\ v.q[x] = u.q[x]
           /\ u.q[x].set # NoQueue => Joined(v.q[u.q[x].set], u.q[u.q[x].set], {x})
<1> DEFINE w == Tell(u, x)
<1>1. /\ Within(w, u, {u.q[x].set})
      /\ u.q[x].set # NoQueue => Joined(w.q[u.q[x].set], u.q[u.q[x].set], {x})
  <2>1. CASE u.q[x].set = NoQueue
    BY <2>1 DEF StateOK, Tell, Woken, Within
  <2>2. CASE u.q[x].set # NoQueue
    <3>1. w = prvNotifyQueueSetContainer(u, x)
      BY <2>2 DEF Tell
    <3>2. SetTold(w, u, x, u.q[x].set)
      BY <2>2, <3>1, SetToldIs
    <3>3. QED
      BY <3>2 DEF SetTold
  <2>3. QED
    BY <2>1, <2>2
<1>2. v.q = w.q /\ DOMAIN v = {"k", "q"}
  <2> HIDE DEF w
  <2>1. QED
    BY <1>1 DEF Within, w
<1>3. u.q[x].set = NoQueue \/ u.q[x].set # x
  BY DEF StateOK
<1>4. x \in Queue_t \ {u.q[x].set}
  BY <1>3, QueueAssumption DEF QueueAssumption
<1>5. QED
  BY <1>1, <1>2, <1>4 DEF Within

LEMMA SentIs ==
    ASSUME NEW u, StateOK(u), NEW x \in Queue_t, NEW item \in Stored,
           NEW position \in {"back", "front", "overwrite"},
           u.q[x].type = "queue" =>
             IF position = "overwrite" THEN u.q[x].length = 1
             ELSE ~prvIsQueueFull(u, x)
    PROVE  /\ SendsTo(Send(u, x, item, position), u, x, {item})
           /\ SendsTo(SendFromISR(u, x, item, position), u, x, {item})
<1> DEFINE copied == prvCopyDataToQueue(u, x, item, position)
<1>1. Within(copied, u, {x}) /\ Sent(copied.q[x], u.q[x], {item})
  BY CopiedIs
<1>2. StateOK(copied)
  <2>1. ASSUME NEW y \in Queue_t
        PROVE  /\ KeepsKind(copied.q[y], u.q[y])
               /\ u.q[y].type = "queue" => Ring(copied.q[y])
    <3>1. QueueOK(u.q[y])
      BY DEF StateOK
    <3>2. Sent(copied.q[y], u.q[y], {item}) \/ Alike(copied.q[y], u.q[y])
      BY <1>1, <3>1, AlikeAfter DEF Within, QueueOK, Alike, KeepsKind, SameRing
    <3>3. QED
      BY <3>1, <3>2, RelationsKeep
  <2>2. QED
    BY <1>1, <2>1, StateKept DEF Within
<1>3. copied.q[x].set = u.q[x].set
  BY <1>1 DEF Sent, KeepsKind
<1>4. u.q[x].set = NoQueue \/ (u.q[x].set \in Queue_t \ {x} /\ QueueOK(u.q[u.q[x].set]))
  BY DEF StateOK
<1>5. u.q[x].set # NoQueue =>
        /\ copied.q[u.q[x].set] = u.q[u.q[x].set]
        /\ Joined(u.q[u.q[x].set], u.q[u.q[x].set], {x})
  BY <1>1, <1>4 DEF Within, Joined, KeepsKind, QueueOK, SameRing
<1>6. SendsTo(copied, u, x, {item})
  BY <1>1, <1>5 DEF SendsTo, Within
<1>7. ASSUME NEW e, NEW v, v = [Tell(copied, x) EXCEPT !.k = e]
      PROVE  SendsTo(v, u, x, {item})
  <2>1. /\ Within(v, copied, {u.q[x].set})
        /\ v.q[x] = copied.q[x]
        /\ u.q[x].set # NoQueue =>
             Joined(v.q[u.q[x].set], copied.q[u.q[x].set], {x})
    BY <1>2, <1>3, <1>7, ToldIs
  <2>2. QED
    BY <1>1, <1>5, <2>1 DEF SendsTo, Within
<1>8. ASSUME NEW v, v = prvIncrementQueueTxLock(copied, x)
      PROVE  SendsTo(v, u, x, {item})
  <2>1. Within(v, copied, {x}) /\ Alike(v.q[x], copied.q[x])
    BY <1>2, <1>8, LocksCount DEF StateOK
  <2>2. Sent(v.q[x], u.q[x], {item})
    BY <1>1, <2>1, AlikeAfter DEF StateOK
  <2>3. QED
    BY <1>1, <1>4, <1>5, <2>1, <2>2 DEF SendsTo, Within
<1> HIDE DEF copied
<1>9. SendsTo(Send(u, x, item, position), u, x, {item})
  BY <1>6, <1>7 DEF Send, copied
<1>10. SendsTo(SendFromISR(u, x, item, position), u, x, {item})
  BY <1>6, <1>7, <1>8 DEF SendFromISR, copied
<1>11. QED
  BY <1>9, <1>10

\* The first item is taken, and a task that waits for room is woken.
LEMMA ReceivedIs ==
    ASSUME NEW u, StateOK(u), NEW x \in Queue_t, ~prvIsQueueEmpty(u, x)
    PROVE  Within(Received(u, x), u, {x}) /\ Took(Received(u, x).q[x], u.q[x])
<1> DEFINE v == Received(u, x)
           r == u.q[x]
           m == v.q[x]
<1>1. DOMAIN r = QueueFields /\ r.rx \in Int /\ r.tx \in Int
  BY DEF StateOK, QueueOK
<1>2. Within(v, u, {x}) /\ KeepsKind(m, r)
  BY <1>1 DEF StateOK, Within, KeepsKind, QueueFields, Received
<1>3. ASSUME r.type = "queue"
      PROVE  /\ Ring(m) /\ m.count = r.count - 1
             /\ \A i \in 1 .. r.count - 1 : ItemAt(m, i) = ItemAt(r, i + 1)
  <2>1. Ring(r) /\ r.count # 0
    BY <1>3 DEF StateOK, QueueOK, prvIsQueueEmpty
  <2>2. HasItems(u, x)
    BY <1>3 DEF HasItems
  <2>3. TakenOff(m, r)
    BY <1>1, <2>2 DEF StateOK, QueueFields, Received, TakenOff
  <2> HIDE DEF v, r, m
  <2>4. QED
    BY <2>1, <2>3, TakenOffIs DEF TakenOff
<1>4. QED
  BY <1>2, <1>3 DEF Took

LEMMA TookIs ==
    ASSUME NEW u, StateOK(u), NEW x \in Queue_t, ~prvIsQueueEmpty(u, x),
           NEW v, \/ v = Receive(u, x)
                  \/ v = Take(u, x) /\ u.q[x].type # "queue"
                  \/ v = ReceiveFromISR(u, x)
    PROVE  Within(v, u, {x}) /\ Took(v.q[x], u.q[x])
<1> DEFINE w == Received(u, x)
<1>1. Within(w, u, {x}) /\ Took(w.q[x], u.q[x])
  BY ReceivedIs
<1>2. CASE v = Receive(u, x)
  <2>1. v.q = w.q /\ DOMAIN v = {"k", "q"}
    <3> HIDE DEF w
    <3>1. QED
      BY <1>1, <1>2 DEF Within, Receive, WakeHead, Woken, w
  <2>2. QED
    BY <1>1, <2>1 DEF Within
<1>3. CASE v = ReceiveFromISR(u, x)
  <2>1. CASE u.q[x].rx # queueUNLOCKED
    <3>1. v = prvIncrementQueueRxLock(w, x)
      BY <1>3, <2>1 DEF ReceiveFromISR
    <3>2. QueueOK(w.q[x]) /\ QueueOK(u.q[x])
      BY <1>1 DEF StateOK, QueueOK, Took, KeepsKind
    <3>3. Within(v, w, {x}) /\ Alike(v.q[x], w.q[x])
      BY <1>1, <3>1, <3>2, LocksCount DEF Within
    <3>4. Took(v.q[x], u.q[x])
      BY <1>1, <3>2, <3>3, AlikeAfter
    <3>5. QED
      BY <1>1, <3>3, <3>4 DEF Within
  <2>2. CASE u.q[x].rx = queueUNLOCKED
    <3>1. v = WakeHead(w, ToSend(x))
      BY <1>3, <2>2 DEF ReceiveFromISR
    <3>2. v.q = w.q /\ DOMAIN v = {"k", "q"}
      <4> HIDE DEF w
      <4>1. QED
        BY <1>1, <3>1 DEF Within, WakeHead, Woken
    <3>3. QED
      BY <1>1, <3>2 DEF Within
  <2>3. QED
    BY <2>1, <2>2
<1>4. CASE v = Take(u, x) /\ u.q[x].type # "queue"
  <2>1. PICK taken : /\ taken = u \/ (/\ DOMAIN taken = {"k", "q"}
                                      /\ taken.q = [u.q EXCEPT ![x].holder = u.k.current])
                     /\ v = WakeHead(Received(taken, x), ToSend(x))
    BY <1>4 DEF Take
  <2>2. Within(Received(taken, x), u, {x}) /\ KeepsKind(Received(taken, x).q[x], u.q[x])
    <3>1. DOMAIN u.q[x] = QueueFields /\ u.q[x].rx \in Int /\ u.q[x].tx \in Int
      BY DEF StateOK, QueueOK
    <3>2. CASE taken = u
      BY <3>1, <3>2 DEF StateOK, Within, KeepsKind, QueueFields, Received
    <3>3. CASE DOMAIN taken = {"k", "q"} /\ taken.q = [u.q EXCEPT ![x].holder = u.k.current]
      BY <3>1, <3>3 DEF StateOK, Within, KeepsKind, QueueFields, Received
    <3>4. QED
      BY <2>1, <3>2, <3>3
  <2>3. v.q = Received(taken, x).q /\ DOMAIN v = {"k", "q"}
    BY <2>1, <2>2 DEF Within, WakeHead, Woken
  <2>4. QED
    BY <1>4, <2>2, <2>3 DEF Within, Took
<1>5. QED
  BY <1>2, <1>3, <1>4

LEMMA PeekedIs ==
    ASSUME NEW u, StateOK(u), NEW x
    PROVE  OfSameQueues(Peek(u, x), u)
BY WokenIs DEF Peek

LEMMA WholeResetIs ==
    ASSUME NEW u, StateOK(u), NEW x \in Queue_t
    PROVE  LET v == xQueueGenericReset(u, x)
           IN  /\ Within(v, u, {x}) /\ KeepsKind(v.q[x], u.q[x])
               /\ u.q[x].type = "queue" => Ring(v.q[x]) /\ v.q[x].count = 0
<1> DEFINE v == xQueueGenericReset(u, x)
           r == u.q[x]
           m == v.q[x]
<1>1. DOMAIN r = QueueFields /\ r.rx \in Int /\ r.tx \in Int
  BY DEF StateOK, QueueOK
<1> DEFINE w == [u EXCEPT !.q[x].count = 0, !.q[x].writeTo = 0,
                         !.q[x].readFrom = u.q[x].length - 1,
                         !.q[x].rx = queueUNLOCKED, !.q[x].tx = queueUNLOCKED]
<1>2. v = WakeHead(w, ToSend(x))
  BY DEF xQueueGenericReset
<1>3. Within(w, u, {x}) /\ KeepsKind(w.q[x], r)
  BY <1>1 DEF StateOK, Within, KeepsKind, QueueFields, queueUNLOCKED
<1>4. /\ w.q[x].count = 0 /\ w.q[x].writeTo = 0 /\ w.q[x].readFrom = r.length - 1
      /\ w.q[x].slots = r.slots /\ w.q[x].length = r.length
  BY <1>1 DEF StateOK, QueueFields
<1> HIDE DEF w, v
<1>5. v.q = w.q /\ DOMAIN v = {"k", "q"}
  BY <1>2, <1>3 DEF Within, WakeHead, Woken
<1>6. Within(v, u, {x}) /\ KeepsKind(m, r)
  BY <1>3, <1>5 DEF Within
<1>7. /\ m.count = 0 /\ m.writeTo = 0 /\ m.readFrom = r.length - 1
      /\ m.slots = r.slots /\ m.length = r.length
  BY <1>4, <1>5
<1>8. ASSUME r.type = "queue" PROVE Ring(m)
  <2>1. Ring(r)
    BY <1>8 DEF StateOK, QueueOK
  <2>2. PICK n \in Nat \ {0} : r.length = n
    BY <2>1 DEF Ring
  <2>3. (m.readFrom + 1 + m.count) % n = n % n /\ n % n = 0
    <3>1. m.readFrom + 1 + m.count = n
      BY <1>7, <2>2
    <3>2. n = n * 1 + 0 /\ 0 \in 0 .. n - 1 /\ n \in Int /\ 1 \in Int
      OBVIOUS
    <3>3. n % n = 0
      BY <3>2, ModOf
    <3>4. QED
      BY <3>1, <3>3
  <2>4. QED
    BY <1>7, <2>1, <2>2, <2>3 DEF Ring
<1>9. QED
  BY <1>6, <1>7, <1>8 DEF v

-----------------------------------------------------------------------------
(* The turns of prvUnlockQueue, one after the other *)

Turns(f, u, x, list, n) ==
    /\ DOMAIN f = 0 .. n
    /\ f[0] = u
    /\ \A i \in 1 .. n : f[i] = UnlockTurn(f[i - 1], x, list)

LEMMA TurnsExist ==
    ASSUME NEW u, NEW x, NEW list, NEW n \in Nat
    PROVE  \E f : Turns(f, u, x, list, n)
<1> DEFINE T == {i \in Nat : \E f : Turns(f, u, x, list, i)}
<1>1. 0 \in T
  <2>1. Turns([i \in 0 .. 0 |-> u], u, x, list, 0)
    BY DEF Turns
  <2>2. QED
    BY <2>1
<1>2. ASSUME NEW i \in Nat, i \in T PROVE i + 1 \in T
  <2>1. PICK f : Turns(f, u, x, list, i)
    BY <1>2
  <2> DEFINE g == [j \in 0 .. i + 1 |-> IF j = i + 1 THEN UnlockTurn(f[i], x, list)
                                        ELSE f[j]]
  <2>2. DOMAIN g = 0 .. i + 1 /\ g[0] = u
    BY <2>1 DEF Turns
  <2>3. ASSUME NEW j \in 1 .. i + 1 PROVE g[j] = UnlockTurn(g[j - 1], x, list)
    <3>1. j - 1 \in 0 .. i /\ j - 1 # i + 1 /\ j \in 0 .. i + 1 /\ j - 1 \in 0 .. i + 1
      OBVIOUS
    <3>2. g[j - 1] = f[j - 1]
      BY <3>1
    <3>3. CASE j = i + 1
      <4>1. j - 1 = i
        BY <3>3
      <4>2. QED
        BY <3>2, <3>3, <4>1
    <3>4. CASE j # i + 1
      <4>1. j \in 1 .. i
        BY <3>4
      <4>2. g[j] = f[j]
        BY <3>1, <3>4
      <4>3. QED
        BY <2>1, <3>2, <4>1, <4>2 DEF Turns
    <3>5. QED
      BY <3>3, <3>4
  <2> HIDE DEF g
  <2>4. Turns(g, u, x, list, i + 1)
    BY <2>2, <2>3 DEF Turns
  <2>5. QED
    BY <2>4
<1> HIDE DEF T
<1>3. Nat \subseteq T
  BY <1>1, <1>2, NatInduct
<1>4. QED
  BY <1>3 DEF T

\* The state after the last of them.
LEMMA UnlockTurnsAre ==
    ASSUME NEW u, NEW x, NEW list, NEW n \in Nat
    PROVE  \E f : Turns(f, u, x, list, n) /\ UnlockTurns(u, x, list, n) = f[n]
<1> DEFINE F(f) == [i \in 0 .. n |-> IF i = 0 THEN u
                                     ELSE UnlockTurn(f[i - 1], x, list)]
<1>1. PICK f : Turns(f, u, x, list, n)
  BY TurnsExist
<1>2. \E g : g = F(g)
  <2> DEFINE g == [i \in 0 .. n |-> f[i]]
  <2>1. \A i \in 0 .. n : g[i] = F(g)[i]
    <3>1. \A i \in 0 .. n : i # 0 => i - 1 \in 0 .. n /\ i \in 1 .. n
      OBVIOUS
    <3>2. QED
      BY <1>1, <3>1 DEF Turns
  <2>2. g = F(g)
    BY <2>1
  <2>3. QED
    BY <2>2
<1> DEFINE a == CHOOSE g : g = F(g)
<1>3. a = F(a)
  <2> HIDE DEF F
  <2>1. QED
    BY <1>2
<1>4. UnlockTurns(u, x, list, n) = a[n]
  BY DEF UnlockTurns
<1> HIDE DEF a
<1>5. Turns(a, u, x, list, n)
  <2>1. DOMAIN a = 0 .. n /\ \A i \in 0 .. n : a[i] = F(a)[i]
    BY <1>3
  <2>2. \A i \in 1 .. n : i \in 0 .. n /\ i # 0
    OBVIOUS
  <2>3. QED
    BY <2>1, <2>2 DEF Turns
<1>6. QED
  BY <1>4, <1>5

\* x stays as it is, and its queue set may have been told, how often or not.
Tells(v, u, x) ==
    /\ Within(v, u, {u.q[x].set})
    /\ u.q[x].set # NoQueue => Joined(v.q[u.q[x].set], u.q[u.q[x].set], {x})

LEMMA TurnTells ==
    ASSUME NEW u, StateOK(u), NEW x \in Queue_t, NEW list, NEW v, Tells(v, u, x)
    PROVE  Tells(UnlockTurn(v, x, list), u, x)
<1> DEFINE w == UnlockTurn(v, x, list)
           set == u.q[x].set
<1>1. x # set /\ (set # NoQueue => set \in Queue_t /\ QueueOK(u.q[set]))
  BY QueueAssumption DEF StateOK, QueueAssumption
<1>2. v.q[x] = u.q[x]
  BY <1>1 DEF Tells, Within
<1>3. StateOK(v)
  <2>1. ASSUME NEW y \in Queue_t
        PROVE  /\ KeepsKind(v.q[y], u.q[y])
               /\ u.q[y].type = "queue" => Ring(v.q[y])
    <3>1. QueueOK(u.q[y])
      BY DEF StateOK
    <3>2. CASE y = set
      <4>1. Joined(v.q[y], u.q[y], {x})
        BY <3>2, QueueAssumption DEF Tells, QueueAssumption
      <4>2. QED
        BY <3>1, <4>1, RelationsKeep
    <3>3. CASE y # set
      <4>1. v.q[y] = u.q[y]
        BY <3>3 DEF Tells, Within
      <4>2. QED
        BY <3>1, <4>1 DEF QueueOK, KeepsKind
    <3>4. QED
      BY <3>2, <3>3
  <2>2. QED
    BY <2>1, StateKept DEF Tells, Within
<1>4. CASE list = ToReceive(x) /\ set # NoQueue
  <2>1. w = NotifyMissed(v, x)
    BY <1>2, <1>4 DEF UnlockTurn
  <2>2. SetTold(w, v, x, set)
    BY <1>2, <1>3, <1>4, <2>1, SetToldIs
  <2>3. Joined(w.q[set], u.q[set], {x})
    BY <1>1, <1>4, <2>2, JoinedAgain DEF SetTold, Tells
  <2>4. QED
    BY <1>4, <2>2, <2>3 DEF Tells, SetTold, Within
<1>5. CASE ~(list = ToReceive(x) /\ set # NoQueue)
  <2>1. w = WakeMissed(v, list)
    BY <1>2, <1>5 DEF UnlockTurn
  <2>2. OfSameQueues(w, v)
    BY <1>3, <2>1, WokenIs
  <2>3. QED
    BY <2>2 DEF Tells, Within, OfSameQueues
<1>6. QED
  BY <1>4, <1>5

LEMMA TurnsTell ==
    ASSUME NEW u, StateOK(u), NEW x \in Queue_t, NEW list, NEW n \in Nat
    PROVE  Tells(UnlockTurns(u, x, list, n), u, x)
<1>1. PICK f : Turns(f, u, x, list, n) /\ UnlockTurns(u, x, list, n) = f[n]
  BY UnlockTurnsAre
<1> DEFINE T == {i \in Nat : i <= n => Tells(f[i], u, x)}
<1>2. 0 \in T
  <2>1. \A y \in Queue_t : Joined(u.q[y], u.q[y], {x})
    BY DEF StateOK, QueueOK, Joined, KeepsKind, SameRing
  <2>2. Tells(u, u, x)
    BY <2>1 DEF Tells, Within, StateOK
  <2>3. QED
    BY <1>1, <2>2 DEF Turns
<1>3. ASSUME NEW i \in Nat, i \in T PROVE i + 1 \in T
  <2>1. SUFFICES ASSUME i + 1 <= n PROVE Tells(f[i + 1], u, x)
    OBVIOUS
  <2>2. Tells(f[i], u, x)
    BY <1>3, <2>1
  <2>3. i + 1 \in 1 .. n /\ i + 1 - 1 = i
    BY <2>1
  <2>4. f[i + 1] = UnlockTurn(f[i], x, list)
    BY <1>1, <2>3 DEF Turns
  <2>5. QED
    BY <2>2, <2>4, TurnTells
<1> HIDE DEF T
<1>4. Nat \subseteq T
  BY <1>2, <1>3, NatInduct
<1>5. QED
  BY <1>1, <1>4 DEF T

LEMMA LargerIs ==
    ASSUME NEW i \in Int, NEW j \in Int
    PROVE  Max({i, j}) = IF i >= j THEN i ELSE j
<1>1. \E m \in {i, j} : \A y \in {i, j} : m >= y
  OBVIOUS
<1>2. Max({i, j}) \in {i, j} /\ Max({i, j}) >= i /\ Max({i, j}) >= j
  BY <1>1 DEF Max
<1>3. QED
  BY <1>2

LEMMA UnlockedIs ==
    ASSUME NEW u, StateOK(u), NEW x \in Queue_t,
           NEW v, v = prvUnlockQueueTx(u, x) \/ v = prvUnlockQueueRx(u, x)
    PROVE  /\ DOMAIN v = {"k", "q"} /\ DOMAIN v.q = Queue_t
           /\ \A y \in Queue_t \ {x} : y = u.q[x].set \/ v.q[y] = u.q[y]
           /\ Alike(v.q[x], u.q[x])
           /\ u.q[x].set # NoQueue =>
                Joined(v.q[u.q[x].set], u.q[u.q[x].set], {x})
<1>1. \E w : /\ Tells(w, u, x)
             /\ \/ v = [w EXCEPT !.q[x].tx = queueUNLOCKED]
                \/ v = [w EXCEPT !.q[x].rx = queueUNLOCKED]
  <2>1. u.q[x].tx \in Int /\ u.q[x].rx \in Int
    BY DEF StateOK, QueueOK
  <2>2. Max({u.q[x].tx, 0}) \in Nat /\ Max({u.q[x].rx, 0}) \in Nat
    BY <2>1, LargerIs
  <2>3. CASE v = prvUnlockQueueTx(u, x)
    BY <2>2, <2>3, TurnsTell DEF prvUnlockQueueTx
  <2>4. CASE v = prvUnlockQueueRx(u, x)
    BY <2>2, <2>4, TurnsTell DEF prvUnlockQueueRx
  <2>5. QED
    BY <2>3, <2>4
<1>2. PICK w : /\ Tells(w, u, x)
               /\ \/ v = [w EXCEPT !.q[x].tx = queueUNLOCKED]
                  \/ v = [w EXCEPT !.q[x].rx = queueUNLOCKED]
  BY <1>1
<1>3. x # u.q[x].set
  BY QueueAssumption DEF StateOK, QueueAssumption
<1>4. w.q[x] = u.q[x] /\ QueueOK(u.q[x])
  BY <1>2, <1>3 DEF Tells, Within, StateOK
<1>5. /\ DOMAIN v = {"k", "q"} /\ DOMAIN v.q = Queue_t
      /\ \A y \in Queue_t \ {x} : v.q[y] = w.q[y]
  BY <1>2 DEF Tells, Within
<1>6. Alike(v.q[x], u.q[x])
  <2>1. DOMAIN w = {"k", "q"} /\ DOMAIN w.q = Queue_t
    BY <1>2 DEF Tells, Within
  <2>2. CASE v = [w EXCEPT !.q[x].tx = queueUNLOCKED]
    BY <1>4, <2>1, <2>2 DEF QueueOK, Alike, KeepsKind, SameRing, QueueFields, queueUNLOCKED
  <2>3. CASE v = [w EXCEPT !.q[x].rx = queueUNLOCKED]
    BY <1>4, <2>1, <2>3 DEF QueueOK, Alike, KeepsKind, SameRing, QueueFields, queueUNLOCKED
  <2>4. QED
    BY <1>2, <2>2, <2>3
<1>7. ASSUME u.q[x].set # NoQueue
      PROVE  Joined(v.q[u.q[x].set], u.q[u.q[x].set], {x})
  <2>1. u.q[x].set \in Queue_t \ {x}
    BY <1>7 DEF StateOK
  <2>2. QED
    BY <1>2, <1>5, <1>7, <2>1 DEF Tells
<1>8. \A y \in Queue_t \ {x} : y = u.q[x].set \/ v.q[y] = u.q[y]
  BY <1>2, <1>5 DEF Tells, Within
<1>9. QED
  BY <1>5, <1>6, <1>7, <1>8

-----------------------------------------------------------------------------
(* The invariant *)

\* What is sent to a queue: handles, if the application selects from it.
Accepted(y) == IF y \in SelectedFrom(calls) THEN Queue_t \ {y} ELSE Stored

HandlesOnly ==
    \A y \in Queue_t \cap SelectedFrom(calls) :
        \A i \in 1 .. q[y].count : ItemAt(q[y], i) \in Queue_t \ {y}

\* A call that goes on was allowed.
CallFields ==
    {"op", "x", "item", "ticks", "timeout", "inherited", "expired", "placed", "until"}

CallOK(c, queues, ops) ==
    /\ DOMAIN c = CallFields
    /\ c.x \in Queue_t
    /\ c.op \in {"back", "front", "overwrite", "receive", "peek", "select", "take",
                 "take_recursive"}
    /\ Sends(c) => /\ c.item \in Items
                   /\ c.x \notin SelectedFrom(ops)
                   /\ c.op = "overwrite" => queues[c.x].length = 1
    /\ queues[c.x].type = "queue" <=> ~Takes(c)
    /\ c.op = "select" => c.x \in SelectedFrom(ops)

CallsOK ==
    /\ DOMAIN pc = Task /\ DOMAIN call = Task
    /\ \A t \in Task :
         /\ pc[t] = "remove" => call[t].x \in Queue_t
         /\ pc[t] \notin {"run", "remove"} => CallOK(call[t], q, calls)

FifoInv ==
    /\ StateOK(s)
    /\ IsApplication(q, calls)
    /\ delivered \in [Queue_t -> Stored]
    /\ HandlesOnly
    /\ CallsOK

\* What a step does to one queue.
KindKept(m, r) ==
    /\ DOMAIN m = QueueFields
    /\ m.rx \in Int /\ m.tx \in Int
    /\ m.type = r.type /\ m.length = r.length

Moves(y, m, r, S) ==
    \/ /\ \/ SameRing(m, r) \/ AtBack(m, r, S) \/ AtFront(m, r, S) \/ Over(m, r, S)
          \/ Ring(m) /\ m.count = 0
       /\ delivered'[y] = delivered[y]
    \/ /\ r.count # 0
       /\ SameRing(m, r) \/ Took(m, r)
       /\ delivered'[y] = ItemAt(r, 1)

Moved(y) ==
    /\ KindKept(q'[y], q[y])
    /\ \/ q'[y].set \in {q[y].set, NoQueue}
       \/ MemberOf(y, q'[y].set, q, calls)
    /\ IF q[y].type = "queue" THEN Moves(y, q'[y], q[y], Accepted(y))
       ELSE delivered'[y] = delivered[y]

QueuesMove ==
    /\ calls' = calls
    /\ DOMAIN q' = Queue_t
    /\ delivered' \in [Queue_t -> Stored]
    /\ \A y \in Queue_t : Moved(y)

\* It has a ring again, whose items are from before or may be there.
LEMMA RingMoved ==
    ASSUME NEW y \in Queue_t, NEW r, NEW m, NEW S, Ring(r), r.type = "queue",
           KindKept(m, r), Moves(y, m, r, S)
    PROVE  /\ Ring(m)
           /\ (\A i \in 1 .. r.count : ItemAt(r, i) \in S)
                => \A i \in 1 .. m.count : ItemAt(m, i) \in S
<1>1. m.length = r.length /\ r.count \in Nat
  BY DEF KindKept, Ring
<1>2. CASE SameRing(m, r)
  <2>1. Ring(m) /\ m.count = r.count /\ \A i : ItemAt(m, i) = ItemAt(r, i)
    BY <1>1, <1>2, SameRingIs DEF SameRing
  <2>2. QED
    BY <2>1
<1>3. CASE AtBack(m, r, S)
  <2>1. Ring(m) /\ m.count \in Nat
    BY <1>3 DEF AtBack, Ring
  <2>2. \A i \in 1 .. m.count : i \in 1 .. r.count \/ i \in r.count + 1 .. m.count
    BY <1>1, <2>1
  <2>3. QED
    BY <1>3, <2>1, <2>2 DEF AtBack
<1>4. CASE AtFront(m, r, S)
  <2>1. Ring(m) /\ m.count = r.count + 1
    BY <1>4 DEF AtFront
  <2>2. ASSUME \A i \in 1 .. r.count : ItemAt(r, i) \in S, NEW i \in 1 .. m.count
        PROVE  ItemAt(m, i) \in S
    <3>1. CASE i = 1
      BY <1>4, <3>1 DEF AtFront
    <3>2. CASE i # 1
      <4>1. i - 1 \in 1 .. r.count /\ (i - 1) + 1 = i
        BY <1>1, <2>1, <3>2
      <4>2. ItemAt(m, (i - 1) + 1) = ItemAt(r, i - 1)
        BY <1>4, <4>1 DEF AtFront
      <4>3. QED
        BY <2>2, <4>1, <4>2
    <3>3. QED
      BY <3>1, <3>2
  <2>3. QED
    BY <2>1, <2>2
<1>5. CASE Over(m, r, S)
  <2>1. \A i \in 1 .. 1 : i = 1
    OBVIOUS
  <2>2. QED
    BY <1>5, <2>1 DEF Over
<1>6. CASE Ring(m) /\ m.count = 0
  BY <1>6
<1>7. CASE r.count # 0 /\ Took(m, r) /\ r.type = "queue"
  <2>1. Ring(m) /\ m.count = r.count - 1
        /\ \A i \in 1 .. r.count - 1 : ItemAt(m, i) = ItemAt(r, i + 1)
    BY <1>7 DEF Took
  <2>2. \A i \in 1 .. r.count - 1 : i + 1 \in 1 .. r.count
    BY <1>1
  <2>3. QED
    BY <2>1, <2>2
<1>8. QED
  BY <1>2, <1>3, <1>4, <1>5, <1>6, <1>7 DEF Moves

\* Types and lengths are what the application is allowed its calls for.
LEMMA AllowedStill ==
    ASSUME FifoInv, NEW r, \A y \in Queue_t : r[y].type = q[y].type /\ r[y].length = q[y].length
    PROVE  /\ \A c : CallOK(c, q, calls) => CallOK(c, r, calls)
           /\ \A c : Allowed(c, q, calls) => Allowed(c, r, calls)
           /\ \A set : \A x \in Queue_t : MemberOf(x, set, q, calls) => MemberOf(x, set, r, calls)
<1>1. \A c : CallOK(c, q, calls) => CallOK(c, r, calls)
  BY DEF CallOK
<1>2. \A c : Allowed(c, q, calls) => Allowed(c, r, calls)
  BY DEF Allowed
<1>3. \A set : \A x \in Queue_t : MemberOf(x, set, q, calls) => MemberOf(x, set, r, calls)
  BY DEF MemberOf
<1>4. QED
  BY <1>1, <1>2, <1>3

LEMMA QueuesKept ==
    ASSUME FifoInv, QueuesMove
    PROVE  /\ StateOK(s)' /\ IsApplication(q, calls)' /\ HandlesOnly'
           /\ (delivered \in [Queue_t -> Stored])'
           /\ \A c : CallOK(c, q, calls) => CallOK(c, q', calls)
<1>1. \A y \in Queue_t : q'[y].type = q[y].type /\ q'[y].length = q[y].length
  BY DEF QueuesMove, Moved, KindKept
<1>2. /\ \A c : CallOK(c, q, calls) => CallOK(c, q', calls)
      /\ \A c : Allowed(c, q, calls) => Allowed(c, q', calls)
      /\ \A set : \A x \in Queue_t : MemberOf(x, set, q, calls) => MemberOf(x, set, q', calls)
  BY <1>1, AllowedStill
<1>3. calls' = calls
  BY DEF QueuesMove
<1>4. \A x \in Queue_t : q'[x].set # NoQueue => MemberOf(x, q'[x].set, q, calls)
  BY DEF QueuesMove, Moved, FifoInv, IsApplication
<1>5. IsApplication(q', calls)
  <2>1. \A x \in Queue_t :
          /\ q[x].type \in {"queue", "semaphore"} \cup Mutexes
          /\ q[x].length \in Nat \ {0}
          /\ q[x].type \in Mutexes => q[x].length = 1
    BY DEF FifoInv, IsApplication
  <2>2. \A x \in Queue_t : q'[x].set # NoQueue => MemberOf(x, q'[x].set, q', calls)
    BY <1>2, <1>4
  <2>3. \A c \in calls : /\ Allowed(c, q', calls)
                         /\ c[1] = "member" => MemberOf(c[2], c[3], q', calls)
    <3>1. ASSUME NEW c \in calls
          PROVE  /\ Allowed(c, q', calls)
                 /\ c[1] = "member" => MemberOf(c[2], c[3], q', calls)
      <4>1. Allowed(c, q, calls) /\ (c[1] = "member" => MemberOf(c[2], c[3], q, calls))
        BY DEF FifoInv, IsApplication
      <4>2. c[1] = "member" => c[2] \in Queue_t
        BY <4>1 DEF Allowed
      <4>3. QED
        BY <1>2, <4>1, <4>2
    <3>2. QED
      BY <3>1
  <2>4. QED
    BY <1>1, <2>1, <2>2, <2>3 DEF IsApplication
<1>6. \A y \in Queue_t :
        q[y].type = "queue" =>
          /\ Ring(q'[y])
          /\ (\A i \in 1 .. q[y].count : ItemAt(q[y], i) \in Accepted(y))
               => \A i \in 1 .. q'[y].count : ItemAt(q'[y], i) \in Accepted(y)
  <2>1. ASSUME NEW y \in Queue_t, q[y].type = "queue"
        PROVE  /\ Ring(q'[y])
               /\ (\A i \in 1 .. q[y].count : ItemAt(q[y], i) \in Accepted(y))
                    => \A i \in 1 .. q'[y].count : ItemAt(q'[y], i) \in Accepted(y)
    <3>1. Ring(q[y])
      BY <2>1 DEF FifoInv, StateOK, QueueOK, s
    <3>2. KindKept(q'[y], q[y]) /\ Moves(y, q'[y], q[y], Accepted(y))
      BY <2>1 DEF QueuesMove, Moved
    <3>3. QED
      BY <2>1, <3>1, <3>2, RingMoved
  <2>2. QED
    BY <2>1
<1>7. StateOK([k |-> k', q |-> q'])
  <2>1. DOMAIN q' = Queue_t
    BY DEF QueuesMove
  <2>2. ASSUME NEW y \in Queue_t
        PROVE  /\ QueueOK(q'[y])
               /\ q'[y].set # NoQueue =>
                    q'[y].set \in Queue_t \ {y} /\ q'[q'[y].set].type = "queue"
    <3>1. QueueOK(q'[y])
      BY <1>6 DEF QueueOK, QueuesMove, Moved, KindKept
    <3>2. q'[y].set # NoQueue => MemberOf(y, q'[y].set, q', calls)
      BY <1>2, <1>4
    <3>3. QED
      BY <3>1, <3>2 DEF MemberOf
  <2>3. QED
    BY <2>1, <2>2 DEF StateOK
<1>8. HandlesOnly'
  <2>1. ASSUME NEW y \in Queue_t \cap SelectedFrom(calls)
        PROVE  \A i \in 1 .. q'[y].count : ItemAt(q'[y], i) \in Queue_t \ {y}
    <3>1. Accepted(y) = Queue_t \ {y}
      BY DEF Accepted
    <3>2. q[y].type = "queue"
      <4>1. PICK c \in calls : c[1] \in {"select", "select_isr"} /\ y = c[2]
        BY DEF SelectedFrom
      <4>2. QED
        BY <4>1 DEF FifoInv, IsApplication, Allowed
    <3>3. \A i \in 1 .. q[y].count : ItemAt(q[y], i) \in Queue_t \ {y}
      BY DEF FifoInv, HandlesOnly
    <3>4. QED
      BY <1>6, <3>1, <3>2, <3>3
  <2>2. QED
    BY <1>3, <2>1 DEF HandlesOnly
<1>9. QED
  BY <1>2, <1>3, <1>5, <1>7, <1>8 DEF QueuesMove, s

-----------------------------------------------------------------------------
(* The refinement *)

ContentOf(r) == IF r.type = "queue" THEN [i \in 1 .. r.count |-> ItemAt(r, i)] ELSE <<>>

LEMMA ContentsAre ==
    ASSUME NEW r, Ring(r), r.type = "queue"
    PROVE  /\ r.count \in Nat /\ r.count <= r.length
           /\ ContentOf(r) \in Seq(Stored)
           /\ Len(ContentOf(r)) = r.count
           /\ \A i \in 1 .. r.count : ContentOf(r)[i] = ItemAt(r, i)
<1> DEFINE f == [i \in 1 .. r.count |-> ItemAt(r, i)]
<1>1. r.count \in Nat /\ r.count <= r.length
  BY DEF Ring
<1>2. \A i \in 1 .. r.count : ItemAt(r, i) \in Stored
  BY ItemsStored
<1>3. f \in [1 .. r.count -> Stored]
  BY <1>2
<1>4. f \in Seq(Stored)
  BY <1>1, <1>3
<1>5. Len(f) = r.count
  BY <1>1, <1>3, <1>4
<1>6. ContentOf(r) = f
  BY DEF ContentOf
<1>7. QED
  BY <1>1, <1>4, <1>5, <1>6

LEMMA SameSequence ==
    ASSUME NEW S, NEW a \in Seq(S), NEW b \in Seq(S), Len(a) = Len(b),
           \A i \in 1 .. Len(a) : a[i] = b[i]
    PROVE  a = b
OBVIOUS

\* What Fifo allows the contents of a queue.
FifoMoves(y, A, B, length) ==
    LET Lasts == delivered'[y] = delivered[y]
    IN  \/ /\ \/ \E item \in Stored : B = <<item>> \o A
              \/ /\ Len(B) > Len(A)
                 /\ \A i \in 1 .. Len(A) : B[i] = A[i]
                 /\ \A i \in 1 .. Len(B) : B[i] \in Stored
           /\ Len(B) <= length
           /\ Lasts
        \/ length = 1 /\ (\E item \in Stored : B = <<item>>) /\ Lasts
        \/ A # <<>> /\ B = Tail(A) /\ delivered'[y] = Head(A)
        \/ A # <<>> /\ B = A /\ delivered'[y] = Head(A)
        \/ B = <<>> /\ Lasts
        \/ B = A /\ Lasts

LEMMA MoveIsFifo ==
    ASSUME NEW y \in Queue_t, NEW r, NEW m, NEW S, S \subseteq Stored,
           Ring(r), r.type = "queue", KindKept(m, r), Moves(y, m, r, S)
    PROVE  FifoMoves(y, ContentOf(r), ContentOf(m), r.length)
<1> DEFINE A == ContentOf(r)
           B == ContentOf(m)
           Lasts == delivered'[y] = delivered[y]
<1>1. Ring(m) /\ m.type = "queue" /\ m.length = r.length
  BY RingMoved DEF KindKept
<1>2. /\ r.count \in Nat /\ A \in Seq(Stored) /\ Len(A) = r.count
      /\ \A i \in 1 .. r.count : A[i] = ItemAt(r, i)
  BY ContentsAre
<1>3. /\ m.count \in Nat /\ m.count <= r.length /\ B \in Seq(Stored) /\ Len(B) = m.count
      /\ \A i \in 1 .. m.count : B[i] = ItemAt(m, i)
  BY <1>1, ContentsAre
<1> HIDE DEF A, B, FifoMoves
<1>4. CASE SameRing(m, r)
  <2>1. \A i : ItemAt(m, i) = ItemAt(r, i)
    BY <1>1, <1>4, SameRingIs
  <2>2. B = A
    BY <1>2, <1>3, <1>4, <2>1, SameSequence DEF SameRing
  <2>3. r.count # 0 => A # <<>> /\ Head(A) = ItemAt(r, 1)
    BY <1>2
  <2>4. \/ Lasts
        \/ r.count # 0 /\ delivered'[y] = ItemAt(r, 1)
    BY DEF Moves
  <2>5. QED
    BY <2>2, <2>3, <2>4 DEF A, B, FifoMoves
<1>5. CASE AtBack(m, r, S) /\ Lasts
  <2>1. Len(B) > Len(A) /\ \A i \in 1 .. Len(A) : B[i] = A[i]
    <3>1. \A i \in 1 .. r.count : i \in 1 .. m.count
      BY <1>2, <1>3, <1>5 DEF AtBack
    <3>2. QED
      BY <1>2, <1>3, <1>5, <3>1 DEF AtBack
  <2>2. \A i \in 1 .. Len(B) : B[i] \in Stored
    BY <1>3
  <2>3. QED
    BY <1>3, <1>5, <2>1, <2>2 DEF A, B, FifoMoves
<1>6. CASE AtFront(m, r, S) /\ Lasts
  <2> DEFINE item == ItemAt(m, 1)
  <2>1. item \in Stored /\ m.count = r.count + 1
    BY <1>6 DEF AtFront
  <2>2. \A i \in 1 .. r.count : ItemAt(m, i + 1) = ItemAt(r, i)
    BY <1>6 DEF AtFront
  <2>3. <<item>> \o A \in Seq(Stored) /\ Len(<<item>> \o A) = m.count
    <3> HIDE DEF item
    <3>1. QED
      BY <1>2, <2>1
  <2>4. ASSUME NEW i \in 1 .. m.count
        PROVE  B[i] = (<<item>> \o A)[i]
    <3>1. CASE i = 1
      <4>1. B[i] = item
        BY <1>3, <3>1
      <4> HIDE DEF item
      <4>2. QED
        BY <1>2, <2>1, <3>1, <4>1
    <3>2. CASE i # 1
      <4>1. i - 1 \in 1 .. r.count /\ (i - 1) + 1 = i
        BY <1>2, <2>1, <3>2
      <4>2. B[i] = A[i - 1]
        BY <1>2, <1>3, <2>2, <4>1
      <4> HIDE DEF item
      <4>3. (<<item>> \o A)[i] = A[i - 1]
        BY <1>2, <2>1, <3>2, <4>1
      <4>4. QED
        BY <4>2, <4>3
    <3>3. QED
      BY <3>1, <3>2
  <2> HIDE DEF item
  <2>5. B = <<item>> \o A
    BY <1>3, <2>3, <2>4, SameSequence
  <2>6. QED
    BY <1>3, <1>6, <2>1, <2>5 DEF A, B, FifoMoves
<1>7. CASE Over(m, r, S) /\ Lasts
  <2> DEFINE item == ItemAt(m, 1)
  <2>1. item \in Stored /\ m.count = 1 /\ r.length = 1
    BY <1>7 DEF Over
  <2>2. B[1] = item
    BY <1>3, <2>1
  <2> HIDE DEF item
  <2>3. B = <<item>>
    BY <1>3, <2>1, <2>2
  <2>4. QED
    BY <1>7, <2>1, <2>3 DEF A, B, FifoMoves
<1>8. CASE m.count = 0 /\ Lasts
  <2>1. B = <<>>
    BY <1>3, <1>8
  <2>2. QED
    BY <1>8, <2>1 DEF A, B, FifoMoves
<1>9. CASE r.count # 0 /\ Took(m, r) /\ delivered'[y] = ItemAt(r, 1)
  <2>1. m.count = r.count - 1 /\ \A i \in 1 .. r.count - 1 : ItemAt(m, i) = ItemAt(r, i + 1)
    BY <1>9 DEF Took
  <2>2. A # <<>> /\ Head(A) = ItemAt(r, 1)
    BY <1>2, <1>9
  <2>3. Tail(A) \in Seq(Stored) /\ Len(Tail(A)) = m.count
    BY <1>2, <1>9, <2>1
  <2>4. ASSUME NEW i \in 1 .. m.count
        PROVE  B[i] = Tail(A)[i]
    <3>1. i \in 1 .. r.count - 1 /\ i + 1 \in 1 .. r.count /\ i \in 1 .. Len(A) - 1
      BY <1>2, <2>1
    <3>2. Tail(A)[i] = A[i + 1]
      BY <1>2, <1>9, <2>2, <3>1
    <3>3. B[i] = ItemAt(r, i + 1)
      BY <1>3, <2>1, <3>1
    <3>4. QED
      BY <1>2, <3>1, <3>2, <3>3
  <2>5. B = Tail(A)
    BY <1>3, <2>3, <2>4, SameSequence
  <2>6. QED
    BY <1>9, <2>2, <2>5 DEF A, B, FifoMoves
<1>10. QED
  BY <1>4, <1>5, <1>6, <1>7, <1>8, <1>9 DEF Moves

\* All of them together.
LEMMA QueuesMoveIsFifo == ASSUME FifoInv, QueuesMove PROVE Fifo!Next
<1> DEFINE con == [x \in Queue_t |-> IF HasItems(s, x) THEN Contents(x) ELSE <<>>]
           len == [x \in Queue_t |-> q[x].length]
<1>1. \A y \in Queue_t : con[y] = ContentOf(q[y]) /\ len[y] = q[y].length
  BY DEF HasItems, s, Contents, ContentOf, ItemAt
<1>2. \A y \in Queue_t : con'[y] = ContentOf(q'[y]) /\ len'[y] = q'[y].length
  BY DEF HasItems, s, Contents, ContentOf, ItemAt
<1>3. len' = len
  BY DEF QueuesMove, Moved, KindKept
<1>4. ASSUME NEW y \in Queue_t
      PROVE  \/ Fifo!Send(y) \/ Fifo!Overwrite(y) \/ Fifo!Receive(y)
             \/ Fifo!Peek(y) \/ Fifo!Reset(y) \/ Fifo!Idles(y)
  <2>1. KindKept(q'[y], q[y])
    BY DEF QueuesMove, Moved
  <2>2. CASE q[y].type = "queue"
    <3>1. Ring(q[y]) /\ Moves(y, q'[y], q[y], Accepted(y)) /\ Accepted(y) \subseteq Stored
      BY <2>2 DEF FifoInv, StateOK, QueueOK, s, QueuesMove, Moved, Accepted, Stored
    <3>2. FifoMoves(y, con[y], con'[y], len[y])
      <4>1. FifoMoves(y, ContentOf(q[y]), ContentOf(q'[y]), q[y].length)
        BY <2>1, <2>2, <3>1, MoveIsFifo
      <4> HIDE DEF con, len
      <4>2. QED
        BY <1>1, <1>2, <4>1
    <3>3. QED
      BY <3>2 DEF Fifo!Send, Fifo!Overwrite, Fifo!Receive, Fifo!Peek, Fifo!Reset,
                  Fifo!Idles, Stored, FifoMoves
  <2>3. CASE q[y].type # "queue"
    <3>1. con[y] = <<>> /\ con'[y] = <<>>
      <4> HIDE DEF con
      <4>1. QED
        BY <1>1, <1>2, <2>1, <2>3 DEF ContentOf, KindKept
    <3>2. delivered'[y] = delivered[y]
      BY <2>3 DEF QueuesMove, Moved
    <3>3. QED
      BY <3>1, <3>2 DEF Fifo!Idles
  <2>4. QED
    BY <2>2, <2>3
<1>5. QED
  BY <1>3, <1>4 DEF Fifo!Next

-----------------------------------------------------------------------------
(* Every step moves the queues so *)

LEMMA MovedBy ==
    ASSUME FifoInv, NEW y \in Queue_t, NEW S, S \subseteq Accepted(y),
           \/ /\ delivered'[y] = delivered[y]
              /\ \/ q'[y] = q[y] \/ Alike(q'[y], q[y])
                 \/ Sent(q'[y], q[y], S) \/ Joined(q'[y], q[y], S)
           \/ /\ q[y].count # 0
              /\ Took(q'[y], q[y]) \/ Alike(q'[y], q[y])
              /\ delivered'[y] = IF q[y].type = "queue" THEN ItemAt(q[y], 1)
                                 ELSE delivered[y]
    PROVE  Moved(y)
<1>1. QueueOK(q[y])
  BY DEF FifoInv, StateOK, s
<1>2. KeepsKind(q'[y], q[y])
  BY <1>1 DEF Sent, Joined, Took, Alike, KeepsKind, QueueOK
<1>3. KindKept(q'[y], q[y]) /\ q'[y].set = q[y].set
  BY <1>2 DEF KeepsKind, KindKept
<1>4. \A m, r : /\ AtBack(m, r, S) => AtBack(m, r, Accepted(y))
                /\ AtFront(m, r, S) => AtFront(m, r, Accepted(y))
                /\ Over(m, r, S) => Over(m, r, Accepted(y))
  BY DEF AtBack, AtFront, Over
<1>5. q'[y] = q[y] => SameRing(q'[y], q[y])
  BY DEF SameRing
<1>6. ASSUME q[y].type = "queue" PROVE Moves(y, q'[y], q[y], Accepted(y))
  BY <1>4, <1>5, <1>6 DEF Sent, Joined, Alike, Moves
<1>7. ASSUME q[y].type # "queue" PROVE delivered'[y] = delivered[y]
  BY <1>7
<1>8. QED
  BY <1>3, <1>6, <1>7 DEF Moved

LEMMA SendMoves ==
    ASSUME FifoInv, NEW x \in Queue_t, NEW S, S \subseteq Accepted(x),
           NEW w, SendsTo(w, s, x, S),
           q' = w.q, UNCHANGED <<delivered, calls>>
    PROVE  QueuesMove
<1>1. s.q = q
  BY DEF s
<1>2. ASSUME NEW y \in Queue_t PROVE Moved(y)
  <2>1. CASE y = x
    BY <1>1, <2>1, MovedBy DEF SendsTo
  <2>2. CASE y # x /\ y = q[x].set
    <3>1. y # NoQueue /\ {x} \subseteq Accepted(y)
      BY <2>2, QueueAssumption DEF QueueAssumption, Accepted, Stored
    <3>2. Joined(q'[y], q[y], {x})
      BY <1>1, <2>2, <3>1 DEF SendsTo
    <3>3. QED
      BY <3>1, <3>2, MovedBy
  <2>3. CASE y # x /\ y # q[x].set
    <3>1. q'[y] = q[y] /\ {} \subseteq Accepted(y)
      BY <1>1, <2>3 DEF SendsTo
    <3>2. QED
      BY <3>1, MovedBy
  <2>4. QED
    BY <2>1, <2>2, <2>3
<1>3. DOMAIN q' = Queue_t /\ delivered' \in [Queue_t -> Stored]
  BY DEF SendsTo, FifoInv
<1>4. QED
  BY <1>2, <1>3 DEF QueuesMove

LEMMA TookMoves ==
    ASSUME FifoInv, NEW x \in Queue_t, q[x].count # 0,
           NEW w, Within(w, s, {x}), Took(w.q[x], q[x]) \/ Alike(w.q[x], q[x]), q' = w.q,
           delivered' = IF HasItems(s, x)
                          THEN [delivered EXCEPT ![x] = NextItem(s, x)]
                        ELSE delivered,
           UNCHANGED calls
    PROVE  QueuesMove
<1>1. s.q = q
  BY DEF s
<1>2. delivered \in [Queue_t -> Stored]
  BY DEF FifoInv
<1>3. HasItems(s, x) <=> q[x].type = "queue"
  BY <1>1 DEF HasItems
<1>4. NextItem(s, x) = ItemAt(q[x], 1)
  BY <1>1 DEF NextItem, ItemAt
<1>5. q[x].type = "queue" => ItemAt(q[x], 1) \in Stored
  <2>1. q[x].type = "queue" => Ring(q[x])
    BY <1>1 DEF FifoInv, StateOK, QueueOK
  <2>2. QED
    BY <2>1, ItemsStored
<1>6. ASSUME NEW y \in Queue_t PROVE Moved(y)
  <2>1. {} \subseteq Accepted(y)
    OBVIOUS
  <2>2. CASE y = x
    <3>1. delivered'[x] = IF q[x].type = "queue" THEN ItemAt(q[x], 1) ELSE delivered[x]
      BY <1>2, <1>3, <1>4
    <3>2. QED
      BY <2>1, <2>2, <3>1, MovedBy
  <2>3. CASE y # x
    <3>1. q'[y] = q[y] /\ delivered'[y] = delivered[y]
      BY <1>1, <1>2, <2>3 DEF Within
    <3>2. QED
      BY <2>1, <3>1, MovedBy
  <2>4. QED
    BY <2>2, <2>3
<1>7. DOMAIN q' = Queue_t /\ delivered' \in [Queue_t -> Stored]
  BY <1>2, <1>3, <1>4, <1>5 DEF Within
<1>8. QED
  BY <1>6, <1>7 DEF QueuesMove

\* A step that leaves the queues as they are, or only those of their fields
\* that are not of the ring.
LEMMA OthersMove ==
    ASSUME FifoInv, DOMAIN q' = Queue_t, UNCHANGED <<delivered, calls>>,
           \A y \in Queue_t : q'[y] = q[y] \/ Alike(q'[y], q[y])
    PROVE  QueuesMove
<1>1. ASSUME NEW y \in Queue_t PROVE Moved(y)
  <2>1. {} \subseteq Accepted(y)
    OBVIOUS
  <2>2. QED
    BY <2>1, MovedBy
<1>2. QED
  BY <1>1 DEF QueuesMove, FifoInv

\* The critical section that a call waits for.
LEMMA DoMoves ==
    ASSUME FifoInv, NEW c, CallOK(c, q, calls), Can(c), Becomes(Do(c)), Deliver(c),
           UNCHANGED calls
    PROVE  QueuesMove
<1>1. s.q = q /\ StateOK(s) /\ c.x \in Queue_t
  BY DEF s, FifoInv, CallOK
<1>2. CASE Sends(c)
  <2>1. q' = Send(s, c.x, c.item, c.op).q /\ delivered' = delivered
    BY <1>2 DEF Becomes, Do, Deliver, Sends
  <2>2. c.op \in {"back", "front", "overwrite"} /\ c.item \in Stored
    BY <1>2 DEF Sends, CallOK, Stored
  <2>3. s.q[c.x].type = "queue" =>
          IF c.op = "overwrite" THEN s.q[c.x].length = 1 ELSE ~prvIsQueueFull(s, c.x)
    BY <1>1, <1>2 DEF CallOK, Can
  <2>4. SendsTo(Send(s, c.x, c.item, c.op), s, c.x, {c.item})
    BY <1>1, <2>2, <2>3, SentIs
  <2>5. {c.item} \subseteq Accepted(c.x)
    BY <1>2, <2>2 DEF CallOK, Accepted
  <2>6. QED
    BY <1>1, <2>1, <2>4, <2>5, SendMoves
<1>3. ASSUME ~Sends(c) PROVE q[c.x].count # 0 /\ ~prvIsQueueEmpty(s, c.x)
  BY <1>1, <1>3 DEF Can, prvIsQueueEmpty
<1>4. CASE c.op \in {"receive", "select"}
  <2>1. ~Sends(c) /\ HasItems(s, c.x)
    BY <1>1, <1>4 DEF Sends, CallOK, Takes, HasItems
  <2>2. q' = Receive(s, c.x).q /\ delivered' = [delivered EXCEPT ![c.x] = NextItem(s, c.x)]
    BY <1>4, <2>1 DEF Becomes, Do, Deliver
  <2>3. Within(Receive(s, c.x), s, {c.x}) /\ Took(Receive(s, c.x).q[c.x], q[c.x])
    BY <1>1, <1>3, <2>1, TookIs
  <2>4. QED
    BY <1>1, <1>3, <2>1, <2>2, <2>3, TookMoves
<1>5. CASE c.op = "peek"
  <2>1. ~Sends(c) /\ HasItems(s, c.x)
    BY <1>1, <1>5 DEF Sends, CallOK, Takes, HasItems
  <2>2. q' = Peek(s, c.x).q /\ delivered' = [delivered EXCEPT ![c.x] = NextItem(s, c.x)]
    BY <1>5, <2>1 DEF Becomes, Do, Deliver
  <2>3. OfSameQueues(Peek(s, c.x), s)
    BY <1>1, PeekedIs
  <2>4. Within(Peek(s, c.x), s, {c.x}) /\ Alike(Peek(s, c.x).q[c.x], q[c.x])
    BY <1>1, <2>3 DEF OfSameQueues, Within, StateOK, QueueOK, Alike, KeepsKind, SameRing
  <2>5. QED
    BY <1>1, <1>3, <2>1, <2>2, <2>4, TookMoves
<1>6. CASE Takes(c)
  <2>1. ~Sends(c) /\ ~HasItems(s, c.x) /\ s.q[c.x].type # "queue"
    BY <1>1, <1>6 DEF Sends, CallOK, Takes, HasItems
  <2>2. delivered' = delivered
    BY <1>6 DEF Deliver, Takes
  <2>3. Within(Take(s, c.x), s, {c.x}) /\ Took(Take(s, c.x).q[c.x], s.q[c.x])
    BY <1>1, <1>3, <2>1, TookIs
  <2>4. CASE c.op = "take"
    <3>1. q' = Take(s, c.x).q
      BY <2>1, <2>4 DEF Becomes, Do
    <3>2. QED
      BY <1>1, <1>3, <2>1, <2>2, <2>3, <3>1, TookMoves
  <2>5. CASE c.op = "take_recursive"
    <3> DEFINE taken == Take(s, c.x)
               w == [taken EXCEPT !.q[c.x].depth = @ + 1]
    <3>1. q' = w.q
      BY <2>1, <2>5 DEF Becomes, Do
    <3>2. QueueOK(s.q[c.x]) /\ KeepsKind(taken.q[c.x], s.q[c.x])
      BY <1>1, <2>3 DEF StateOK, Took
    <3> HIDE DEF taken
    <3>3. Within(w, taken, {c.x}) /\ Alike(w.q[c.x], taken.q[c.x])
      BY <1>1, <2>3, <3>2 DEF Within, Alike, KeepsKind, SameRing, QueueFields, taken
    <3>4. Took(w.q[c.x], s.q[c.x])
      BY <2>3, <3>2, <3>3, AlikeAfter DEF taken
    <3>5. Within(w, s, {c.x})
      BY <2>3, <3>3 DEF Within, taken
    <3> HIDE DEF w
    <3>6. QED
      BY <1>1, <1>3, <2>1, <2>2, <3>1, <3>4, <3>5, TookMoves
  <2>6. QED
    BY <1>6, <2>4, <2>5 DEF Takes
<1>7. QED
  BY <1>2, <1>4, <1>5, <1>6 DEF CallOK, Sends, Takes

\* The task that takes a step goes on with a call that is allowed.
CallGoesOn(t, where, c) ==
    /\ pc' = [pc EXCEPT ![t] = where]
    /\ call' = [call EXCEPT ![t] = c] \/ (call' = call /\ c = call[t])
    /\ \/ where = "run"
       \/ where = "remove" /\ c.x \in Queue_t
       \/ where \notin {"run", "remove"} /\ CallOK(c, q, calls)

LEMMA CallsGoOn ==
    ASSUME FifoInv, QueuesMove, NEW t \in Task, NEW where, NEW c, CallGoesOn(t, where, c)
    PROVE  FifoInv'
<1>1. /\ StateOK(s)' /\ IsApplication(q, calls)' /\ HandlesOnly'
      /\ (delivered \in [Queue_t -> Stored])'
      /\ \A d : CallOK(d, q, calls) => CallOK(d, q', calls)
  BY QueuesKept
<1>2. DOMAIN pc = Task /\ DOMAIN call = Task
  BY DEF FifoInv, CallsOK
<1>3. \A u \in Task : /\ pc[u] = "remove" => call[u].x \in Queue_t
                      /\ pc[u] \notin {"run", "remove"} => CallOK(call[u], q', calls)
  BY <1>1 DEF FifoInv, CallsOK
<1>4. DOMAIN pc' = Task /\ DOMAIN call' = Task
  BY <1>2 DEF CallGoesOn
<1>5. pc'[t] = where /\ call'[t] = c
  BY <1>2 DEF CallGoesOn
<1>6. \A u \in Task \ {t} : pc'[u] = pc[u] /\ call'[u] = call[u]
  BY <1>2 DEF CallGoesOn
<1>7. where \notin {"run", "remove"} => CallOK(c, q', calls)
  BY <1>1 DEF CallGoesOn
<1>8. /\ DOMAIN pc' = Task /\ DOMAIN call' = Task
      /\ \A u \in Task :
           /\ pc'[u] = "remove" => call'[u].x \in Queue_t
           /\ pc'[u] \notin {"run", "remove"} => CallOK(call'[u], q', calls)
  BY <1>3, <1>4, <1>5, <1>6, <1>7 DEF CallGoesOn
<1>9. CallsOK'
  BY <1>8 DEF CallsOK, QueuesMove
<1>10. QED
  BY <1>1, <1>9 DEF FifoInv

\* The tasks stay where they are.
LEMMA CallsStay ==
    ASSUME FifoInv, QueuesMove, UNCHANGED <<pc, call>>
    PROVE  FifoInv'
<1>1. /\ StateOK(s)' /\ IsApplication(q, calls)' /\ HandlesOnly'
      /\ (delivered \in [Queue_t -> Stored])'
      /\ \A d : CallOK(d, q, calls) => CallOK(d, q', calls)
  BY QueuesKept
<1>2. /\ DOMAIN pc' = Task /\ DOMAIN call' = Task
      /\ \A u \in Task :
           /\ pc'[u] = "remove" => call'[u].x \in Queue_t
           /\ pc'[u] \notin {"run", "remove"} => CallOK(call'[u], q', calls)
  BY <1>1 DEF FifoInv, CallsOK
<1>3. CallsOK'
  BY <1>2 DEF CallsOK, QueuesMove
<1>4. QED
  BY <1>1, <1>3 DEF FifoInv

-----------------------------------------------------------------------------
(* The steps *)

LEMMA QueuesStay ==
    ASSUME FifoInv, UNCHANGED <<q, delivered, calls>>
    PROVE  QueuesMove
BY OthersMove DEF FifoInv, StateOK, s

\* A call that is what it was, but for when it gives up.
LEMMA CallOnly ==
    ASSUME NEW c, CallOK(c, q, calls), NEW d, DOMAIN d = CallFields,
           d.op = c.op, d.x = c.x, d.item = c.item
    PROVE  CallOK(d, q, calls)
BY DEF CallOK, Sends, Takes

LEMMA AttemptKeeps ==
    ASSUME FifoInv, NEW t \in Task, NEW c, CallOK(c, q, calls), AttemptCall(t, c),
           UNCHANGED calls
    PROVE  QueuesMove /\ FifoInv'
<1>1. CASE Can(c) /\ Becomes(Do(c)) /\ Deliver(c) /\ Proceeds(t, c)
  <2>1. QueuesMove
    BY <1>1, DoMoves
  <2>2. CASE c.op # "select"
    <3>1. CallGoesOn(t, "run", NoCall)
      BY <1>1, <2>2 DEF Proceeds, Returns, Goes, CallGoesOn
    <3>2. QED
      BY <2>1, <3>1, CallsGoOn
  <2>3. CASE c.op = "select"
    <3> DEFINE x == NextItem(s, c.x)
               new == NewCall(IF q[x].type = "queue" THEN "receive" ELSE "take", x, NoItem, 0)
    <3>1. pc' = [pc EXCEPT ![t] = "attempt"] /\ call' = [call EXCEPT ![t] = new]
      BY <1>1, <2>3 DEF Proceeds, Goes
    <3>2. /\ c.x \in Queue_t \cap SelectedFrom(calls) /\ Ring(q[c.x]) /\ q[c.x].count # 0
          /\ x = ItemAt(q[c.x], 1)
      <4>1. c.x \in Queue_t \cap SelectedFrom(calls) /\ q[c.x].type = "queue"
        BY <2>3 DEF CallOK, Takes
      <4>2. Ring(q[c.x])
        BY <4>1 DEF FifoInv, StateOK, QueueOK, s
      <4>3. q[c.x].count # 0
        BY <1>1, <2>3 DEF Can, Sends, prvIsQueueEmpty, s
      <4>4. x = ItemAt(q[c.x], 1)
        BY DEF NextItem, ItemAt, s
      <4>5. QED
        BY <4>1, <4>2, <4>3, <4>4
    <3>3. 1 \in 1 .. q[c.x].count
      BY <3>2 DEF Ring
    <3>4. x \in Queue_t
      BY <3>2, <3>3 DEF FifoInv, HandlesOnly
    <3> HIDE DEF x
    <3>5. CallOK(new, q, calls)
      BY <3>4 DEF NewCall, CallOK, CallFields, Sends, Takes
    <3> HIDE DEF new
    <3>6. CallGoesOn(t, "attempt", new)
      BY <3>1, <3>5 DEF CallGoesOn
    <3>7. QED
      BY <2>1, <3>6, CallsGoOn
  <2>4. QED
    BY <2>2, <2>3
<1>2. CASE Returns(t) /\ UNCHANGED <<k, q, delivered>>
  <2>1. QueuesMove
    BY <1>2, QueuesStay
  <2>2. CallGoesOn(t, "run", NoCall)
    BY <1>2 DEF Returns, Goes, CallGoesOn
  <2>3. QED
    BY <2>1, <2>2, CallsGoOn
<1>3. CASE /\ call' = [call EXCEPT ![t] = Entered(c)] /\ Goes(t, "suspend")
           /\ UNCHANGED <<k, q, delivered>>
  <2>1. QueuesMove
    BY <1>3, QueuesStay
  <2>2. pc' = [pc EXCEPT ![t] = "suspend"]
    BY <1>3 DEF Goes
  <2>3. CallOK(Entered(c), q, calls)
    <3>1. DOMAIN c = CallFields
      BY DEF CallOK
    <3>2. /\ DOMAIN Entered(c) = CallFields
          /\ Entered(c).op = c.op /\ Entered(c).x = c.x /\ Entered(c).item = c.item
      BY <3>1 DEF Entered, CallFields
    <3>3. QED
      BY <3>2, CallOnly
  <2>4. CallGoesOn(t, "suspend", Entered(c))
    BY <1>3, <2>2, <2>3 DEF CallGoesOn
  <2>5. QED
    BY <2>1, <2>4, CallsGoOn
<1>4. QED
  BY <1>1, <1>2, <1>3 DEF AttemptCall

LEMMA CallKeeps ==
    ASSUME FifoInv, NEW t \in Task, Call(t)
    PROVE  QueuesMove /\ FifoInv'
<1>1. PICK c \in calls :
        LET new == NewCall(c[1], c[2], c[3], c[4])
        IN  /\ Sends(new) \/ new.op \in {"receive", "peek", "select"} \/ Takes(new)
            /\ AttemptCall(t, new)
  BY DEF Call
<1> DEFINE new == NewCall(c[1], c[2], c[3], c[4])
<1>2. Allowed(c, q, calls) /\ (c[1] = "select" => c[2] \in SelectedFrom(calls))
  BY DEF FifoInv, IsApplication, SelectedFrom
<1>3. /\ new.op = c[1] /\ new.x = c[2] /\ new.item = c[3]
      /\ DOMAIN new = CallFields
  BY DEF NewCall, CallFields
<1>4. CallOK(new, q, calls)
  BY <1>1, <1>2, <1>3 DEF CallOK, Allowed, Sends, Takes
<1>5. AttemptCall(t, new) /\ UNCHANGED calls
  BY <1>1 DEF Call
<1>6. QED
  BY <1>4, <1>5, AttemptKeeps

LEMMA InCallIsOK ==
    ASSUME FifoInv, NEW t \in Task, pc[t] \notin {"run", "remove"}
    PROVE  CallOK(call[t], q, calls) /\ call[t].x \in Queue_t
BY DEF FifoInv, CallsOK, CallOK

LEMMA AttemptAgainKeeps ==
    ASSUME FifoInv, NEW t \in Task, Attempt(t)
    PROVE  QueuesMove /\ FifoInv'
<1>1. pc[t] = "attempt" /\ AttemptCall(t, call[t]) /\ UNCHANGED calls
  BY DEF Attempt, At
<1>2. CallOK(call[t], q, calls)
  BY <1>1, InCallIsOK
<1>3. QED
  BY <1>1, <1>2, AttemptKeeps

\* The task goes on in its call, and no queue changes.
LEMMA WaitKeeps ==
    ASSUME FifoInv, NEW t \in Task \ {Idle},
           \/ SuspendAll(t) \/ Check(t) \/ Place(t) \/ ResumeAll(t) \/ Recheck(t)
           \/ DisinheritAfterTimeout(t)
    PROVE  QueuesMove /\ FifoInv'
<1>1. UNCHANGED <<q, delivered, calls>>
  BY DEF SuspendAll, Check, Place, ResumeAll, Recheck, DisinheritAfterTimeout
<1>2. QueuesMove
  BY <1>1, QueuesStay
<1>3. ASSUME NEW where, NEW c, CallGoesOn(t, where, c) PROVE QueuesMove /\ FifoInv'
  BY <1>1, <1>2, <1>3, CallsGoOn
<1>4. ASSUME Returns(t) PROVE QueuesMove /\ FifoInv'
  <2>1. CallGoesOn(t, "run", NoCall)
    BY <1>4 DEF Returns, Goes, CallGoesOn
  <2>2. QED
    BY <1>3, <2>1
<1>5. CallOK(call[t], q, calls)
  <2>1. pc[t] \in {"suspend", "resume", "recheck", "disinherit", "place", "check"}
    BY DEF SuspendAll, ResumeAll, Recheck, DisinheritAfterTimeout, Place, Check, At
  <2>2. QED
    BY <2>1, InCallIsOK
<1>6. DOMAIN call = Task /\ DOMAIN call[t] = CallFields
  BY <1>5 DEF FifoInv, CallsOK, CallOK
<1>7. CASE SuspendAll(t)
  <2>1. CallGoesOn(t, "lock", call[t])
    BY <1>5, <1>7 DEF SuspendAll, Goes, CallGoesOn
  <2>2. QED
    BY <1>3, <2>1
<1>8. CASE ResumeAll(t)
  <2>1. \/ Returns(t) \/ CallGoesOn(t, "recheck", call[t]) \/ CallGoesOn(t, "attempt", call[t])
    BY <1>5, <1>8 DEF ResumeAll, Goes, CallGoesOn
  <2>2. QED
    BY <1>3, <1>4, <2>1
<1>9. CASE Recheck(t)
  <2>1. \/ Returns(t) \/ CallGoesOn(t, "attempt", call[t]) \/ CallGoesOn(t, "disinherit", call[t])
    BY <1>5, <1>9 DEF Recheck, Goes, CallGoesOn
  <2>2. QED
    BY <1>3, <1>4, <2>1
<1>10. CASE DisinheritAfterTimeout(t)
  BY <1>4, <1>10 DEF DisinheritAfterTimeout
<1>11. CASE Place(t)
  <2>1. PICK inherited :
          call' = [call EXCEPT ![t].inherited = inherited, ![t].placed = TRUE]
    BY <1>11 DEF Place
  <2> DEFINE d == [call[t] EXCEPT !.inherited = inherited, !.placed = TRUE]
  <2>2. call' = [call EXCEPT ![t] = d]
    BY <1>6, <2>1
  <2>3. CallOK(d, q, calls)
    BY <1>5, <1>6, CallOnly DEF CallFields
  <2> HIDE DEF d
  <2>4. CallGoesOn(t, "unlockTx", d)
    BY <1>11, <2>2, <2>3 DEF Place, Goes, CallGoesOn
  <2>5. QED
    BY <1>3, <2>4
<1>12. CASE Check(t)
  <2>1. PICK timeout, ticks, expired :
          call' = [call EXCEPT ![t].timeout = timeout, ![t].ticks = ticks,
                               ![t].expired = expired, ![t].placed = FALSE]
    BY <1>12 DEF Check
  <2> DEFINE d == [call[t] EXCEPT !.timeout = timeout, !.ticks = ticks,
                                  !.expired = expired, !.placed = FALSE]
  <2>2. call' = [call EXCEPT ![t] = d]
    BY <1>6, <2>1
  <2>3. CallOK(d, q, calls)
    BY <1>5, <1>6, CallOnly DEF CallFields
  <2>4. \E where \in {"unlockTx", "place"} : pc' = [pc EXCEPT ![t] = where]
    BY <1>12 DEF Check, Goes
  <2> HIDE DEF d
  <2>5. CallGoesOn(t, "unlockTx", d) \/ CallGoesOn(t, "place", d)
    BY <2>2, <2>3, <2>4 DEF CallGoesOn
  <2>6. QED
    BY <1>3, <2>5
<1>13. QED
  BY <1>7, <1>8, <1>9, <1>10, <1>11, <1>12

LEMMA SelectedAreQueues ==
    ASSUME FifoInv, NEW x \in SelectedFrom(calls)
    PROVE  x \in Queue_t /\ q[x].type = "queue"
<1>1. PICK c \in calls : c[1] \in {"select", "select_isr"} /\ x = c[2]
  BY DEF SelectedFrom
<1>2. QED
  BY <1>1 DEF FifoInv, IsApplication, Allowed

\* A queue has nothing to change but its lock, or the count of calls of a
\* recursive mutex.
LEMMA LockKeeps ==
    ASSUME FifoInv, NEW t \in Task, LockQueue(t) \/ TakeAgain(t)
    PROVE  QueuesMove /\ FifoInv'
<1>1. s.q = q /\ StateOK(s)
  BY DEF s, FifoInv
<1>2. CASE LockQueue(t)
  <2>1. CallOK(call[t], q, calls) /\ call[t].x \in Queue_t
    <3>1. pc[t] = "lock"
      BY <1>2 DEF LockQueue, At
    <3>2. QED
      BY <3>1, InCallIsOK
  <2> DEFINE x == call[t].x
             w == prvLockQueue(s, x)
  <2>2. q' = w.q /\ UNCHANGED <<call, delivered, calls>> /\ pc' = [pc EXCEPT ![t] = "check"]
    BY <1>2 DEF LockQueue, Becomes, Goes
  <2>3. Within(w, s, {x}) /\ Alike(w.q[x], s.q[x])
    BY <1>1, <2>1, LocksCount DEF StateOK
  <2> HIDE DEF w
  <2>4. DOMAIN q' = Queue_t /\ \A y \in Queue_t : q'[y] = q[y] \/ Alike(q'[y], q[y])
    BY <1>1, <2>2, <2>3 DEF Within
  <2>5. QueuesMove
    BY <2>2, <2>4, OthersMove
  <2>6. CallGoesOn(t, "check", call[t])
    BY <2>1, <2>2 DEF CallGoesOn
  <2>7. QED
    BY <2>5, <2>6, CallsGoOn
<1>3. CASE TakeAgain(t)
  <2>1. PICK c \in calls : /\ c[1] = "take_recursive"
                           /\ q' = [q EXCEPT ![c[2]].depth = @ + 1]
    BY <1>3 DEF TakeAgain
  <2>2. UNCHANGED <<pc, call, delivered, calls>>
    BY <1>3 DEF TakeAgain
  <2>3. DOMAIN q = Queue_t /\ \A y \in Queue_t : QueueOK(q[y])
    BY <1>1 DEF StateOK
  <2>4. ASSUME NEW y \in Queue_t PROVE q'[y] = q[y] \/ Alike(q'[y], q[y])
    <3>1. CASE y = c[2]
      <4>1. q'[y] = [q[y] EXCEPT !.depth = @ + 1]
        BY <2>1, <2>3, <3>1
      <4>2. QED
        BY <2>3, <4>1 DEF QueueOK, QueueFields, Alike, KeepsKind, SameRing
    <3>2. CASE y # c[2]
      BY <2>1, <2>3, <3>2
    <3>3. QED
      BY <3>1, <3>2
  <2>5. QueuesMove
    BY <2>1, <2>2, <2>3, <2>4, OthersMove
  <2>6. QED
    BY <2>2, <2>5, CallsStay
<1>4. QED
  BY <1>2, <1>3

LEMMA UnlockKeeps ==
    ASSUME FifoInv, NEW t \in Task, UnlockQueueTx(t) \/ UnlockQueueRx(t)
    PROVE  QueuesMove /\ FifoInv'
<1>1. s.q = q /\ StateOK(s)
  BY DEF s, FifoInv
<1>2. CallOK(call[t], q, calls) /\ call[t].x \in Queue_t
  <2>1. pc[t] \in {"unlockTx", "unlockRx"}
    BY DEF UnlockQueueTx, UnlockQueueRx, At
  <2>2. QED
    BY <2>1, InCallIsOK
<1> DEFINE x == call[t].x
<1>3. PICK w, where :
        /\ w = prvUnlockQueueTx(s, x) \/ w = prvUnlockQueueRx(s, x)
        /\ q' = w.q /\ UNCHANGED <<call, delivered, calls>>
        /\ pc' = [pc EXCEPT ![t] = where] /\ where \in {"unlockRx", "resume"}
  BY DEF UnlockQueueTx, UnlockQueueRx, Becomes, Goes
<1>4. /\ DOMAIN w = {"k", "q"} /\ DOMAIN w.q = Queue_t
      /\ \A y \in Queue_t \ {x} : y = q[x].set \/ w.q[y] = q[y]
      /\ Alike(w.q[x], q[x])
      /\ q[x].set # NoQueue => Joined(w.q[q[x].set], q[q[x].set], {x})
  <2>1. w = prvUnlockQueueTx(s, x) \/ w = prvUnlockQueueRx(s, x)
    BY <1>3
  <2>2. x \in Queue_t
    BY <1>2
  <2> HIDE DEF x
  <2>3. /\ DOMAIN w = {"k", "q"} /\ DOMAIN w.q = Queue_t
        /\ \A y \in Queue_t \ {x} : y = s.q[x].set \/ w.q[y] = s.q[y]
        /\ Alike(w.q[x], s.q[x])
        /\ s.q[x].set # NoQueue => Joined(w.q[s.q[x].set], s.q[s.q[x].set], {x})
    BY <1>1, <2>1, <2>2, UnlockedIs
  <2>4. QED
    BY <1>1, <2>3
<1>5. ASSUME NEW y \in Queue_t PROVE Moved(y)
  <2>1. {} \subseteq Accepted(y) /\ delivered'[y] = delivered[y]
    BY <1>3
  <2>2. CASE y = x
    BY <1>3, <1>4, <2>1, <2>2, MovedBy
  <2>3. CASE y # x /\ y = q[x].set
    <3>1. y # NoQueue /\ {x} \subseteq Accepted(y)
      BY <1>2, <2>3, QueueAssumption DEF QueueAssumption, Accepted, Stored
    <3>2. Joined(q'[y], q[y], {x})
      BY <1>3, <1>4, <2>3, <3>1
    <3>3. QED
      BY <2>1, <3>1, <3>2, MovedBy
  <2>4. CASE y # x /\ y # q[x].set
    <3>1. q'[y] = q[y]
      BY <1>3, <1>4, <2>4
    <3>2. QED
      BY <2>1, <3>1, MovedBy
  <2>5. QED
    BY <2>2, <2>3, <2>4
<1>6. QueuesMove
  BY <1>3, <1>4, <1>5 DEF QueuesMove, FifoInv
<1>7. CallGoesOn(t, where, call[t])
  BY <1>2, <1>3 DEF CallGoesOn
<1>8. QED
  BY <1>6, <1>7, CallsGoOn

\* A semaphore or a mutex is given back.
LEMMA GiveKeeps ==
    ASSUME FifoInv, NEW t \in Task, Give(t) \/ GiveMutexRecursive(t)
    PROVE  QueuesMove /\ FifoInv'
<1>1. s.q = q /\ StateOK(s)
  BY DEF s, FifoInv
<1>2. UNCHANGED <<pc, call, delivered, calls>>
  BY DEF Give, GiveMutexRecursive
<1>3. ASSUME NEW x \in Queue_t, q[x].type # "queue"
      PROVE  {NoItem} \subseteq Accepted(x) /\ NoItem \in Stored
  BY <1>3, SelectedAreQueues DEF Accepted, Stored
<1>4. CASE Give(t)
  <2>1. PICK c \in calls : c[1] = "give" /\ Becomes(Send(s, c[2], NoItem, "back"))
    BY <1>4 DEF Give
  <2>2. c[2] \in Queue_t /\ q[c[2]].type # "queue"
    <3>1. Allowed(c, q, calls)
      BY DEF FifoInv, IsApplication
    <3>2. QED
      BY <2>1, <3>1 DEF Allowed
  <2>3. SendsTo(Send(s, c[2], NoItem, "back"), s, c[2], {NoItem})
    BY <1>1, <1>3, <2>2, SentIs
  <2>4. QueuesMove
    BY <1>2, <1>3, <2>1, <2>2, <2>3, SendMoves DEF Becomes
  <2>5. QED
    BY <1>2, <2>4, CallsStay
<1>5. CASE GiveMutexRecursive(t)
  <2>1. PICK c \in calls :
          LET less == [s EXCEPT !.q[c[2]].depth = @ - 1]
          IN  /\ c[1] = "give_recursive"
              /\ Becomes(IF less.q[c[2]].depth > 0 THEN less
                         ELSE Send(less, c[2], NoItem, "back"))
    BY <1>5 DEF GiveMutexRecursive
  <2> DEFINE x == c[2]
             less == [s EXCEPT !.q[x].depth = @ - 1]
  <2>2. x \in Queue_t /\ q[x].type # "queue"
    <3>1. Allowed(c, q, calls)
      BY DEF FifoInv, IsApplication
    <3>2. QED
      BY <2>1, <3>1 DEF Allowed
  <2>3. \A y \in Queue_t : QueueOK(s.q[y])
    BY <1>1 DEF StateOK
  <2>4. Within(less, s, {x}) /\ Alike(less.q[x], s.q[x])
    BY <1>1, <2>2, <2>3 DEF StateOK, Within, QueueOK, QueueFields, Alike, KeepsKind, SameRing
  <2>5. (q' = less.q) \/ (q' = Send(less, x, NoItem, "back").q)
    BY <2>1 DEF Becomes
  <2> HIDE DEF less
  <2>6. CASE q' = less.q
    <3>1. DOMAIN q' = Queue_t /\ \A y \in Queue_t : q'[y] = q[y] \/ Alike(q'[y], q[y])
      BY <1>1, <2>4, <2>6 DEF Within
    <3>2. QueuesMove
      BY <1>2, <3>1, OthersMove
    <3>3. QED
      BY <1>2, <3>2, CallsStay
  <2>7. CASE q' = Send(less, x, NoItem, "back").q
    <3> DEFINE w == Send(less, x, NoItem, "back")
    <3>1. StateOK(less)
      <4>1. ASSUME NEW y \in Queue_t
            PROVE  /\ KeepsKind(less.q[y], s.q[y])
                   /\ s.q[y].type = "queue" => Ring(less.q[y])
        <5>1. less.q[y] = s.q[y] \/ Alike(less.q[y], s.q[y])
          BY <2>4 DEF Within
        <5>2. Alike(less.q[y], s.q[y])
          BY <2>3, <5>1 DEF QueueOK, Alike, KeepsKind, SameRing
        <5>3. QED
          BY <2>3, <5>2, RelationsKeep
      <4>2. QED
        BY <1>1, <2>4, <4>1, StateKept DEF Within
    <3>2. less.q[x].type # "queue" /\ less.q[x].set = q[x].set
      BY <1>1, <2>2, <2>4 DEF Alike, KeepsKind
    <3>3. SendsTo(w, less, x, {NoItem})
      BY <1>3, <2>2, <3>1, <3>2, SentIs
    <3> HIDE DEF w
    <3>4. SendsTo(w, s, x, {NoItem})
      <4>1. KeepsKind(w.q[x], less.q[x]) /\ KeepsKind(less.q[x], s.q[x])
        BY <2>4, <3>3 DEF SendsTo, Sent, Alike
      <4>2. Sent(w.q[x], s.q[x], {NoItem})
        BY <1>1, <2>2, <4>1 DEF Sent, KeepsKind
      <4>3. \A y \in Queue_t \ {x} : less.q[y] = s.q[y]
        BY <2>4 DEF Within
      <4>4. q[x].set # NoQueue => q[x].set \in Queue_t \ {x}
        BY <1>1, <2>2 DEF StateOK
      <4>5. QED
        BY <1>1, <3>2, <3>3, <4>2, <4>3, <4>4 DEF SendsTo
    <3>5. q' = w.q
      BY <2>7 DEF w
    <3>6. QueuesMove
      BY <1>2, <1>3, <2>2, <3>4, <3>5, SendMoves
    <3>7. QED
      BY <1>2, <3>6, CallsStay
  <2>8. QED
    BY <2>5, <2>6, <2>7
<1>6. QED
  BY <1>4, <1>5

LEMMA ResetKeeps ==
    ASSUME FifoInv, NEW t \in Task, Reset(t)
    PROVE  QueuesMove /\ FifoInv'
<1>1. s.q = q /\ StateOK(s)
  BY DEF s, FifoInv
<1>2. PICK c \in calls : c[1] = "reset" /\ Becomes(xQueueGenericReset(s, c[2]))
  BY DEF Reset
<1> DEFINE x == c[2]
           w == xQueueGenericReset(s, x)
<1>3. UNCHANGED <<pc, call, delivered, calls>> /\ q' = w.q
  BY <1>2 DEF Reset, Becomes
<1>4. x \in Queue_t
  <2>1. Allowed(c, q, calls)
    BY DEF FifoInv, IsApplication
  <2>2. QED
    BY <1>2, <2>1 DEF Allowed
<1>5. /\ Within(w, s, {x}) /\ KeepsKind(w.q[x], s.q[x])
      /\ s.q[x].type = "queue" => Ring(w.q[x]) /\ w.q[x].count = 0
  BY <1>1, <1>4, WholeResetIs
<1> HIDE DEF w
<1>6. ASSUME NEW y \in Queue_t PROVE Moved(y)
  <2>1. CASE y = x
    <3>1. KindKept(q'[y], q[y]) /\ q'[y].set = q[y].set
      BY <1>1, <1>3, <1>5, <2>1 DEF KeepsKind, KindKept
    <3>2. q[y].type = "queue" => Moves(y, q'[y], q[y], Accepted(y))
      BY <1>1, <1>3, <1>5, <2>1 DEF Moves
    <3>3. QED
      BY <1>3, <3>1, <3>2 DEF Moved
  <2>2. CASE y # x
    <3>1. q'[y] = q[y] /\ {} \subseteq Accepted(y) /\ delivered'[y] = delivered[y]
      BY <1>1, <1>3, <1>5, <2>2 DEF Within
    <3>2. QED
      BY <3>1, MovedBy
  <2>3. QED
    BY <2>1, <2>2
<1>7. QueuesMove
  BY <1>3, <1>5, <1>6 DEF QueuesMove, FifoInv, Within
<1>8. QED
  BY <1>3, <1>7, CallsStay

\* A queue joins a queue set, or leaves it.
LEMMA SetKeeps ==
    ASSUME FifoInv, NEW t \in Task, AddToSet(t) \/ RemoveFromSet(t) \/ Removed(t)
    PROVE  QueuesMove /\ FifoInv'
<1>1. s.q = q /\ DOMAIN s.q = Queue_t /\ \A y \in Queue_t : QueueOK(q[y])
  BY DEF s, FifoInv, StateOK
<1>2. UNCHANGED <<delivered, calls>>
  BY DEF AddToSet, RemoveFromSet, Removed
<1>3. \A c \in calls : c[1] = "member" => c[2] \in Queue_t /\ MemberOf(c[2], c[3], q, calls)
  BY DEF FifoInv, IsApplication, Allowed
<1>4. ASSUME NEW x \in Queue_t, NEW set, set = NoQueue \/ MemberOf(x, set, q, calls),
             q' = [q EXCEPT ![x].set = set]
      PROVE  QueuesMove
  <2>1. DOMAIN q' = Queue_t
    BY <1>1, <1>4
  <2>2. ASSUME NEW y \in Queue_t PROVE Moved(y)
    <3>1. CASE y = x
      <4>1. q'[y] = [q[y] EXCEPT !.set = set]
        BY <1>1, <1>4, <3>1
      <4>2. KindKept(q'[y], q[y]) /\ q'[y].set = set /\ SameRing(q'[y], q[y])
        BY <1>1, <4>1 DEF QueueOK, QueueFields, KindKept, SameRing
      <4>3. QED
        BY <1>2, <1>4, <3>1, <4>2 DEF Moved, Moves
    <3>2. CASE y # x
      <4>1. q'[y] = q[y] /\ {} \subseteq Accepted(y) /\ delivered'[y] = delivered[y]
        BY <1>1, <1>2, <1>4, <3>2
      <4>2. QED
        BY <4>1, MovedBy
    <3>3. QED
      BY <3>1, <3>2
  <2>3. QED
    BY <1>2, <2>1, <2>2 DEF QueuesMove, FifoInv
<1>5. CASE AddToSet(t)
  <2>1. PICK c \in calls : c[1] = "member" /\ Becomes(xQueueAddToSet(s, c[2], c[3]))
    BY <1>5 DEF AddToSet
  <2>2. UNCHANGED <<pc, call>>
    BY <1>5 DEF AddToSet
  <2>3. q' = q \/ q' = [q EXCEPT ![c[2]].set = c[3]]
    BY <2>1 DEF Becomes, xQueueAddToSet, s
  <2>4. QueuesMove
    BY <1>2, <1>3, <1>4, <2>1, <2>3, QueuesStay
  <2>5. QED
    BY <2>2, <2>4, CallsStay
<1>6. CASE RemoveFromSet(t)
  <2>1. PICK c \in calls :
          c[1] = "member" /\ call' = [call EXCEPT ![t] = NewCall("remove", c[2], NoItem, 0)]
    BY <1>6 DEF RemoveFromSet
  <2>2. pc' = [pc EXCEPT ![t] = "remove"] /\ q' = q
    BY <1>6 DEF RemoveFromSet, Goes
  <2>3. QueuesMove
    BY <1>2, <2>2, QueuesStay
  <2> DEFINE d == NewCall("remove", c[2], NoItem, 0)
  <2>4. d.x \in Queue_t
    BY <1>3, <2>1 DEF NewCall
  <2> HIDE DEF d
  <2>5. CallGoesOn(t, "remove", d)
    BY <2>1, <2>2, <2>4 DEF CallGoesOn, d
  <2>6. QED
    BY <2>3, <2>5, CallsGoOn
<1>7. CASE Removed(t)
  <2>1. call[t].x \in Queue_t
    BY <1>7 DEF Removed, At, FifoInv, CallsOK
  <2>2. q' = [q EXCEPT ![call[t].x].set = NoQueue]
    BY <1>7 DEF Removed, Becomes, xQueueRemoveFromSet, s
  <2>3. QueuesMove
    BY <1>4, <2>1, <2>2
  <2>4. CallGoesOn(t, "run", NoCall)
    BY <1>7 DEF Removed, Returns, Goes, CallGoesOn
  <2>5. QED
    BY <2>3, <2>4, CallsGoOn
<1>8. QED
  BY <1>5, <1>6, <1>7

LEMMA InterruptSendKeeps ==
    ASSUME FifoInv, InterruptSends
    PROVE  QueuesMove /\ FifoInv'
<1>1. s.q = q /\ StateOK(s)
  BY DEF s, FifoInv
<1>2. UNCHANGED <<pc, call, delivered, calls>>
  BY DEF InterruptSends
<1>3. PICK c \in calls :
        \/ /\ c[1] \in {"back_isr", "overwrite_isr"}
           /\ ~prvIsQueueFull(s, c[2]) \/ c[1] = "overwrite_isr"
           /\ Becomes(SendFromISR(s, c[2], c[3], IF c[1] = "back_isr" THEN "back"
                                                 ELSE "overwrite"))
        \/ /\ c[1] = "give_isr"
           /\ ~prvIsQueueFull(s, c[2])
           /\ Becomes(SendFromISR(s, c[2], NoItem, "back"))
  BY DEF InterruptSends
<1>4. Allowed(c, q, calls)
  BY DEF FifoInv, IsApplication
<1>5. PICK item \in Stored, position \in {"back", "overwrite"} :
        /\ q' = SendFromISR(s, c[2], item, position).q
        /\ c[2] \in Queue_t /\ {item} \subseteq Accepted(c[2])
        /\ s.q[c[2]].type = "queue" =>
             IF position = "overwrite" THEN s.q[c[2]].length = 1
             ELSE ~prvIsQueueFull(s, c[2])
  <2>1. CASE c[1] = "give_isr"
    <3>1. c[2] \in Queue_t /\ s.q[c[2]].type # "queue"
      BY <1>1, <1>4, <2>1 DEF Allowed
    <3>2. {NoItem} \subseteq Accepted(c[2]) /\ NoItem \in Stored
      BY <1>1, <3>1, SelectedAreQueues DEF Accepted, Stored
    <3>3. q' = SendFromISR(s, c[2], NoItem, "back").q
      BY <1>3, <2>1 DEF Becomes
    <3>4. QED
      BY <3>1, <3>2, <3>3
  <2>2. CASE c[1] = "back_isr"
    <3>1. c[2] \in Queue_t /\ c[3] \in Items /\ c[2] \notin SelectedFrom(calls)
      BY <1>4, <2>2 DEF Allowed
    <3>2. c[3] \in Stored /\ {c[3]} \subseteq Accepted(c[2])
      BY <3>1 DEF Accepted, Stored
    <3>3. q' = SendFromISR(s, c[2], c[3], "back").q /\ ~prvIsQueueFull(s, c[2])
      BY <1>3, <2>2 DEF Becomes
    <3>4. QED
      BY <3>1, <3>2, <3>3
  <2>3. CASE c[1] = "overwrite_isr"
    <3>1. c[2] \in Queue_t /\ c[3] \in Items /\ c[2] \notin SelectedFrom(calls)
          /\ s.q[c[2]].length = 1
      BY <1>1, <1>4, <2>3 DEF Allowed
    <3>2. c[3] \in Stored /\ {c[3]} \subseteq Accepted(c[2])
      BY <3>1 DEF Accepted, Stored
    <3>3. q' = SendFromISR(s, c[2], c[3], "overwrite").q
      BY <1>3, <2>3 DEF Becomes
    <3>4. QED
      BY <3>1, <3>2, <3>3
  <2>4. QED
    BY <1>3, <2>1, <2>2, <2>3
<1>6. SendsTo(SendFromISR(s, c[2], item, position), s, c[2], {item})
  BY <1>1, <1>5, SentIs
<1>7. QueuesMove
  BY <1>2, <1>5, <1>6, SendMoves
<1>8. QED
  BY <1>2, <1>7, CallsStay

LEMMA InterruptReceiveKeeps ==
    ASSUME FifoInv, InterruptReceives
    PROVE  QueuesMove /\ FifoInv'
<1>1. s.q = q /\ StateOK(s)
  BY DEF s, FifoInv
<1>2. UNCHANGED <<pc, call, calls>>
  BY DEF InterruptReceives
<1>3. PICK c \in calls :
        /\ c[1] = "receive_isr"
        /\ ~prvIsQueueEmpty(s, c[2])
        /\ q' = ReceiveFromISR(s, c[2]).q
        /\ delivered' = [delivered EXCEPT ![c[2]] = NextItem(s, c[2])]
  BY DEF InterruptReceives, Becomes
<1>4. c[2] \in Queue_t /\ HasItems(s, c[2]) /\ q[c[2]].count # 0
  <2>1. Allowed(c, q, calls)
    BY DEF FifoInv, IsApplication
  <2>2. QED
    BY <1>1, <1>3, <2>1 DEF Allowed, HasItems, prvIsQueueEmpty
<1>5. Within(ReceiveFromISR(s, c[2]), s, {c[2]})
      /\ Took(ReceiveFromISR(s, c[2]).q[c[2]], q[c[2]])
  BY <1>1, <1>3, <1>4, TookIs
<1>6. QueuesMove
  BY <1>2, <1>3, <1>4, <1>5, TookMoves
<1>7. QED
  BY <1>2, <1>6, CallsStay


LEMMA SelectMoves ==
    ASSUME FifoInv, NEW z \in Queue_t, NEW x \in Queue_t \ {z}, HasItems(s, z),
           ~prvIsQueueEmpty(s, z), x = NextItem(s, z), NEW w,
           w = IF prvIsQueueEmpty(s, x) THEN ReceiveFromISR(s, z)
               ELSE ReceiveFromISR(ReceiveFromISR(s, z), x),
           q' = w.q,
           delivered' =
             [delivered EXCEPT ![z] = x,
                               ![x] = IF ~prvIsQueueEmpty(s, x) /\ HasItems(s, x)
                                        THEN NextItem(s, x) ELSE @],
           UNCHANGED calls
    PROVE  QueuesMove
<1> DEFINE selected == ReceiveFromISR(s, z)
<1>1. s.q = q /\ StateOK(s) /\ delivered \in [Queue_t -> Stored]
  BY DEF s, FifoInv
<1>2. Within(selected, s, {z}) /\ Took(selected.q[z], q[z])
  BY <1>1, TookIs
<1>3. StateOK(selected)
  <2>1. \A y \in Queue_t : /\ KeepsKind(selected.q[y], s.q[y])
                           /\ s.q[y].type = "queue" => Ring(selected.q[y])
    <3>1. ASSUME NEW y \in Queue_t, y # z
          PROVE  /\ KeepsKind(selected.q[y], s.q[y])
                 /\ s.q[y].type = "queue" => Ring(selected.q[y])
      <4>1. selected.q[y] = s.q[y] /\ QueueOK(s.q[y])
        BY <1>1, <1>2, <3>1 DEF Within, StateOK
      <4>2. QED
        BY <4>1 DEF QueueOK, KeepsKind
    <3>2. KeepsKind(selected.q[z], s.q[z]) /\ (s.q[z].type = "queue" => Ring(selected.q[z]))
      <4>1. QueueOK(q[z])
        BY <1>1 DEF StateOK
      <4>2. QED
        BY <1>1, <1>2, <4>1, RelationsKeep
    <3>3. QED
      BY <3>1, <3>2
  <2>2. DOMAIN selected = {"k", "q"} /\ DOMAIN selected.q = Queue_t
    BY <1>2 DEF Within
  <2>3. QED
    BY <1>1, <2>1, <2>2, StateKept
<1> HIDE DEF selected
<1>4. selected.q[x] = q[x]
  BY <1>1, <1>2 DEF Within
<1>5. \A y \in Queue_t : HasItems(s, y) <=> q[y].type = "queue"
  BY <1>1 DEF HasItems
<1>6. \A y \in Queue_t : NextItem(s, y) = ItemAt(q[y], 1)
  BY <1>1 DEF NextItem, ItemAt
<1>7. \A y \in Queue_t : prvIsQueueEmpty(s, y) <=> q[y].count = 0
  BY <1>1 DEF prvIsQueueEmpty
<1>8. /\ DOMAIN q' = Queue_t
      /\ \A y \in Queue_t \ {x, z} : q'[y] = q[y]
      /\ Took(q'[z], q[z])
      /\ IF q[x].count = 0 THEN q'[x] = q[x] ELSE Took(q'[x], q[x])
  <2>1. CASE q[x].count = 0
    <3>1. w = selected
      BY <1>7, <2>1 DEF selected
    <3>2. QED
      BY <1>1, <1>2, <1>4, <2>1, <3>1 DEF Within
  <2>2. CASE q[x].count # 0
    <3>1. w = ReceiveFromISR(selected, x)
      BY <1>7, <2>2 DEF selected
    <3>2. ~prvIsQueueEmpty(selected, x)
      BY <1>4, <2>2 DEF prvIsQueueEmpty
    <3>3. Within(w, selected, {x}) /\ Took(w.q[x], selected.q[x])
      BY <1>3, <3>1, <3>2, TookIs
    <3>4. QED
      BY <1>1, <1>2, <1>4, <2>2, <3>3 DEF Within
  <2>3. QED
    BY <2>1, <2>2
<1>9. \A y \in Queue_t : q[y].type = "queue" => ItemAt(q[y], 1) \in Stored
  <2>1. \A y \in Queue_t : q[y].type = "queue" => Ring(q[y])
    BY <1>1 DEF StateOK, QueueOK
  <2>2. QED
    BY <2>1, ItemsStored
<1>10. /\ delivered' \in [Queue_t -> Stored]
       /\ delivered'[z] = ItemAt(q[z], 1)
       /\ delivered'[x] = IF q[x].count # 0 /\ q[x].type = "queue" THEN ItemAt(q[x], 1)
                          ELSE delivered[x]
       /\ \A y \in Queue_t \ {x, z} : delivered'[y] = delivered[y]
  BY <1>1, <1>5, <1>6, <1>7, <1>9
<1>11. ASSUME NEW y \in Queue_t PROVE Moved(y)
  <2>1. {} \subseteq Accepted(y)
    OBVIOUS
  <2>2. CASE y = z
    <3>1. q[z].count # 0 /\ q[z].type = "queue"
      BY <1>5, <1>7
    <3>2. QED
      BY <1>8, <1>10, <2>1, <2>2, <3>1, MovedBy
  <2>3. CASE y = x
    BY <1>8, <1>10, <2>1, <2>3, MovedBy
  <2>4. CASE y \notin {x, z}
    BY <1>8, <1>10, <2>1, <2>4, MovedBy
  <2>5. QED
    BY <2>2, <2>3, <2>4
<1>12. QED
  BY <1>8, <1>10, <1>11 DEF QueuesMove

LEMMA InterruptSelectKeeps ==
    ASSUME FifoInv, InterruptSelects
    PROVE  QueuesMove /\ FifoInv'
<1>1. s.q = q /\ StateOK(s)
  BY DEF s, FifoInv
<1>2. UNCHANGED <<pc, call, calls>>
  BY DEF InterruptSelects
<1>3. PICK c \in calls :
        LET x == NextItem(s, c[2])
            selected == ReceiveFromISR(s, c[2])
            receives == ~prvIsQueueEmpty(s, x)
        IN  /\ c[1] = "select_isr"
            /\ ~prvIsQueueEmpty(s, c[2])
            /\ q' = (IF receives THEN ReceiveFromISR(selected, x) ELSE selected).q
            /\ delivered' = [delivered EXCEPT ![c[2]] = x,
                                              ![x] = IF receives /\ HasItems(s, x)
                                                       THEN NextItem(s, x) ELSE @]
  BY DEF InterruptSelects, Becomes
<1> DEFINE z == c[2]
           x == NextItem(s, z)
           w == IF prvIsQueueEmpty(s, x) THEN ReceiveFromISR(s, z)
                ELSE ReceiveFromISR(ReceiveFromISR(s, z), x)
<1>4. z \in SelectedFrom(calls)
  BY <1>3 DEF SelectedFrom
<1>5. z \in Queue_t /\ HasItems(s, z)
  BY <1>1, <1>4, SelectedAreQueues DEF HasItems
<1>6. x \in Queue_t \ {z}
  <2>1. Ring(q[z]) /\ q[z].count # 0
    BY <1>1, <1>3, <1>5 DEF StateOK, QueueOK, HasItems, prvIsQueueEmpty
  <2>2. 1 \in 1 .. q[z].count
    BY <2>1 DEF Ring
  <2>3. x = ItemAt(q[z], 1)
    BY <1>1 DEF NextItem, ItemAt
  <2> HIDE DEF x, z
  <2>4. QED
    BY <1>4, <1>5, <2>2, <2>3 DEF FifoInv, HandlesOnly
<1>7. /\ q' = w.q
      /\ delivered' =
           [delivered EXCEPT ![z] = x,
                             ![x] = IF ~prvIsQueueEmpty(s, x) /\ HasItems(s, x)
                                      THEN NextItem(s, x) ELSE @]
      /\ ~prvIsQueueEmpty(s, z)
  BY <1>3
<1>8. QueuesMove
  <2> HIDE DEF z
  <2>1. QED
    BY <1>2, <1>5, <1>6, <1>7, SelectMoves
<1>9. QED
  BY <1>2, <1>8, CallsStay

LEMMA KernelKeeps ==
    ASSUME FifoInv,
           \/ SysTick \/ PendSV \/ UNCHANGED vars
           \/ \E t \in Task : Delay(t) \/ PrioritySet(t) \/ OwnCode(t)
    PROVE  QueuesMove /\ FifoInv'
<1>1. UNCHANGED <<q, pc, call, delivered, calls>>
  BY DEF SysTick, PendSV, vars, Delay, PrioritySet, OwnCode
<1>2. QueuesMove
  BY <1>1, QueuesStay
<1>3. QED
  BY <1>1, <1>2, CallsStay

LEMMA StepMoves ==
    ASSUME FifoInv, [Next]_vars
    PROVE  QueuesMove /\ FifoInv'
<1>1. CASE Interrupt
  BY <1>1, InterruptSendKeeps, InterruptSelectKeeps, InterruptReceiveKeeps, KernelKeeps
     DEF Interrupt
<1>2. CASE UNCHANGED vars \/ \E t \in Task : OwnCode(t)
  BY <1>2, KernelKeeps
<1>3. ASSUME NEW t \in Task \ {Idle}, TaskStep(t)
      PROVE  QueuesMove /\ FifoInv'
  <2>1. CASE Call(t) \/ Attempt(t)
    BY <2>1, CallKeeps, AttemptAgainKeeps
  <2>2. CASE \/ SuspendAll(t) \/ Check(t) \/ Place(t) \/ ResumeAll(t) \/ Recheck(t)
             \/ DisinheritAfterTimeout(t)
    BY <2>2, WaitKeeps
  <2>3. CASE LockQueue(t) \/ TakeAgain(t)
    BY <2>3, LockKeeps
  <2>4. CASE UnlockQueueTx(t) \/ UnlockQueueRx(t)
    BY <2>4, UnlockKeeps
  <2>5. CASE Give(t) \/ GiveMutexRecursive(t)
    BY <2>5, GiveKeeps
  <2>6. CASE Reset(t)
    BY <2>6, ResetKeeps
  <2>7. CASE AddToSet(t) \/ RemoveFromSet(t) \/ Removed(t)
    BY <2>7, SetKeeps
  <2>8. CASE Delay(t) \/ PrioritySet(t)
    BY <2>8, KernelKeeps
  <2>9. QED
    BY <1>3, <2>1, <2>2, <2>3, <2>4, <2>5, <2>6, <2>7, <2>8 DEF TaskStep
<1>4. QED
  BY <1>1, <1>2, <1>3 DEF Next

-----------------------------------------------------------------------------
(* New queues *)

LEMMA NewQueueIs ==
    ASSUME NEW n \in Nat \ {0}, NEW type, NEW set, NEW r,
           r = [NewQueue(type, n) EXCEPT !.set = set]
    PROVE  /\ QueueOK(r)
           /\ r.type = type /\ r.length = n /\ r.set = set
           /\ type = "queue" => r.count = 0
<1>1. /\ DOMAIN r = QueueFields
      /\ r.type = type /\ r.length = n /\ r.set = set
      /\ r.writeTo = 0 /\ r.readFrom = n - 1
      /\ r.slots = [i \in 0 .. n - 1 |-> NoItem]
      /\ r.rx = queueUNLOCKED /\ r.tx = queueUNLOCKED
      /\ type = "queue" => r.count = 0
  BY DEF NewQueue, QueueFields
<1>2. ASSUME type = "queue" PROVE Ring(r)
  <2>1. (n - 1) + 1 + 0 = n /\ n % n = 0
    <3>1. n = 0 + n /\ 0 \in Int
      OBVIOUS
    <3>2. (0 + n) % n = 0 % n /\ 0 % n = 0
      OBVIOUS
    <3>3. QED
      BY <3>1, <3>2
  <2>2. r.count = 0 /\ r.readFrom \in 0 .. n - 1
    BY <1>1, <1>2
  <2>3. r.writeTo = (r.readFrom + 1 + r.count) % r.length
    BY <1>1, <2>1, <2>2
  <2>4. r.slots \in [0 .. n - 1 -> Stored]
    BY <1>1 DEF Stored
  <2>5. QED
    BY <1>1, <2>2, <2>3, <2>4 DEF Ring
<1>3. queueUNLOCKED \in Int
  BY DEF queueUNLOCKED
<1>4. QED
  BY <1>1, <1>2, <1>3 DEF QueueOK

LEMMA NewQueuesAre ==
    ASSUME Init
    PROVE  /\ FifoInv
           /\ \A y \in Queue_t : q[y].type = "queue" => q[y].count = 0
<1>1. PICK scene \in Scenes :
        /\ q = scene.queues /\ calls = scene.calls
        /\ pc = [t \in Task |-> "run"]
        /\ call = [t \in Task |-> NoCall]
        /\ delivered = [x \in Queue_t |-> NoItem]
  BY DEF Init
<1>2. /\ IsApplication(q, calls)
      /\ q = [x \in Queue_t |-> [NewQueue(q[x].type, q[x].length) EXCEPT !.set = q[x].set]]
  BY <1>1, ScenesAssumption DEF ScenesAssumption
<1>3. ASSUME NEW y \in Queue_t
      PROVE  QueueOK(q[y]) /\ (q[y].type = "queue" => q[y].count = 0)
  <2>1. q[y].length \in Nat \ {0}
    BY <1>2 DEF IsApplication
  <2>2. q[y] = [NewQueue(q[y].type, q[y].length) EXCEPT !.set = q[y].set]
    <3> DEFINE f == [x \in Queue_t |->
                       [NewQueue(q[x].type, q[x].length) EXCEPT !.set = q[x].set]]
    <3>1. f[y] = [NewQueue(q[y].type, q[y].length) EXCEPT !.set = q[y].set]
      OBVIOUS
    <3>2. q = f
      BY <1>2
    <3> HIDE DEF f
    <3>3. QED
      BY <3>1, <3>2
  <2>3. QED
    BY <2>1, <2>2, NewQueueIs
<1>4. StateOK(s)
  <2>1. ASSUME NEW y \in Queue_t, q[y].set # NoQueue
        PROVE  q[y].set \in Queue_t \ {y} /\ q[q[y].set].type = "queue"
    BY <1>2, <2>1 DEF IsApplication, MemberOf
  <2>2. DOMAIN q = Queue_t
    BY <1>2
  <2>3. QED
    BY <1>3, <2>1, <2>2 DEF StateOK, s
<1>5. delivered \in [Queue_t -> Stored]
  BY <1>1 DEF Stored
<1>6. HandlesOnly
  <2>1. ASSUME NEW y \in Queue_t \cap SelectedFrom(calls) PROVE q[y].count = 0
    <3>1. PICK c \in calls : c[1] \in {"select", "select_isr"} /\ y = c[2]
      BY DEF SelectedFrom
    <3>2. q[y].type = "queue"
      BY <1>2, <3>1 DEF IsApplication, Allowed
    <3>3. QED
      BY <1>3, <3>2
  <2>2. 1 .. 0 = {}
    OBVIOUS
  <2>3. QED
    BY <2>1, <2>2 DEF HandlesOnly
<1>7. CallsOK
  BY <1>1 DEF CallsOK
<1>8. QED
  BY <1>2, <1>3, <1>4, <1>5, <1>6, <1>7 DEF FifoInv

LEMMA FifoInit == Init => Fifo!Init
<1> SUFFICES ASSUME Init PROVE Fifo!Init
  OBVIOUS
<1>1. FifoInv /\ \A y \in Queue_t : q[y].type = "queue" => q[y].count = 0
  BY NewQueuesAre
<1>2. ASSUME NEW y \in Queue_t, HasItems(s, y) PROVE Contents(y) = <<>>
  <2>1. q[y].count = 0
    BY <1>1, <1>2 DEF HasItems, s
  <2>2. QED
    BY <2>1 DEF Contents
<1>3. delivered \in [Queue_t -> Items \cup Queue_t \cup {NoItem}]
  BY <1>1 DEF FifoInv, Stored
<1>4. QED
  BY <1>2, <1>3 DEF Fifo!Init

\* The queues stay rings, their queue sets hold the handles of members only,
\* and a task that waits does so in a call that is allowed.
THEOREM QueuesStayWhole == Spec => []FifoInv
<1>1. Init => FifoInv
  BY NewQueuesAre
<1>2. FifoInv /\ [Next]_vars => FifoInv'
  BY StepMoves
<1>3. QED
  BY <1>1, <1>2, PTL DEF Spec

\* FifoSpec: the items of each queue come out in the order they went in, but
\* for those sent to the front and over another, for any number of tasks and
\* queues of any length, sent to and received from by tasks and interrupts
\* with the scheduler running, suspended or in between, and the handles in the
\* queue sets with them.
THEOREM QueuesAreFifo == Spec => FifoSpec
<1>1. Init => Fifo!Init
  BY FifoInit
<1>2. FifoInv /\ [Next]_vars => Fifo!Next
  BY StepMoves, QueuesMoveIsFifo
<1>3. Spec => []FifoInv
  BY QueuesStayWhole
<1>4. QED
  BY <1>1, <1>2, <1>3, PTL DEF Spec, FifoSpec, Fifo!Spec

-----------------------------------------------------------------------------
(* The kernel that the queues work with *)

\* A task that waits in an event list is not ready, and is in no other one.
EventsApart(j) ==
    /\ \A e \in EventLists : Elements(j.events[e]) \cap Ready(j) = {}
    /\ \A e, f \in EventLists :
         e # f => Elements(j.events[e]) \cap Elements(j.events[f]) = {}

KernelOK(j) ==
    /\ Good(j) /\ Timed(j) /\ EventsApart(j)
    /\ j.base \in [Task -> Priority]
    /\ j.event \in [Task -> 1 .. MaxPriorities]
    /\ j.pended \in Nat
    /\ j.suspensions \in {0, 1}

\* The locks of a queue are taken together, and that for those who send is
\* given up first.
LockOK(r) ==
    /\ DOMAIN r = QueueFields
    /\ r.tx \in Nat \cup {queueUNLOCKED} /\ r.rx \in Nat \cup {queueUNLOCKED}
    /\ r.tx # queueUNLOCKED => r.rx # queueUNLOCKED
    /\ r.holder \in Task \cup {NoTask}

ServiceOK(u) ==
    /\ DOMAIN u = {"k", "q"} /\ DOMAIN u.q = Queue_t
    /\ KernelOK(u.k)
    /\ \A y \in Queue_t : LockOK(u.q[y]) /\ u.q[y].set \in Queue_t \cup {NoQueue}

\* Where a task is that has suspended the scheduler, has a queue locked, and
\* may have left the ready lists.
Suspending == {"lock", "check", "place", "unlockTx", "unlockRx", "resume"}
Locking == {"check", "place", "unlockTx"}
Leaving == {"unlockTx", "unlockRx", "resume"}

\* A task is there while the scheduler is suspended, and goes on until it
\* resumes it: so no two of them have locked a queue.
Suspended ==
    \A t \in Task : pc[t] \in Suspending <=> k.suspensions = 1 /\ t = k.current

LocksHeld ==
    \A y \in Queue_t : q[y].tx # queueUNLOCKED =>
        /\ k.suspensions = 1
        /\ pc[k.current] \in Locking
        /\ call[k.current].x = y

\* The running task is ready, or about to be switched out.
CurrentGoesOn ==
    k.current \notin Ready(k) =>
        IF k.suspensions = 1 THEN pc[k.current] \in Leaving /\ call[k.current].placed
        ELSE k.pendsv

\* What a call in progress has measured its time from.
CallWaits(c, where) ==
    /\ c.ticks \in Int
    /\ (where = "attempt" /\ c.timeout = NoTimeOut) \/ c.timeout.entering \in Int

CallsWait ==
    \A t \in Task : pc[t] \notin {"run", "remove"} => CallWaits(call[t], pc[t])

LockInv ==
    /\ ServiceOK(s)
    /\ Idle \in Ready(k)
    /\ Suspended
    /\ LocksHeld
    /\ CurrentGoesOn
    /\ CallsWait

\* A task gives up on a mutex, and the holder falls from a ready list that it
\* is alone in: the bit of that list stays set.
LeavesBit ==
    \E t \in Task :
        LET h == q[call[t].x].holder
        IN  /\ DisinheritAfterTimeout(t)
            /\ h # NoTask
            /\ ReadyAt(k, k.priority[h]) = {h}
            /\ k' # k

BitsKept == [][~LeavesBit]_vars

-----------------------------------------------------------------------------
(* What the critical sections do to the kernel *)

\* The same task runs, and no task stops being ready.
Wakes(j, g) ==
    /\ KernelOK(j)
    /\ j.current = g.current /\ j.suspensions = g.suspensions
    /\ Ready(g) \subseteq Ready(j)
    /\ g.pendsv => j.pendsv

LEMMA WakesSelf ==
    ASSUME NEW g, KernelOK(g)
    PROVE  Wakes(g, g)
BY DEF Wakes

LEMMA WakesBoth ==
    ASSUME NEW g, NEW j, NEW i, Wakes(j, g), Wakes(i, j)
    PROVE  Wakes(i, g)
BY DEF Wakes

LEMMA ReadiedApart ==
    ASSUME NEW g, Good(g), EventsApart(g), NEW j, NEW S, Readied(j, g, S)
    PROVE  EventsApart(j) /\ Ready(g) \subseteq Ready(j) /\ Good(j)
<1>1. \A p \in Priority : ReadyAt(j, p) = (ReadyAt(g, p) \ S) \cup {t \in S : g.priority[t] = p}
  BY DEF Readied
<1>2. Good(j) /\ \A e \in EventLists : Elements(j.events[e]) = Elements(g.events[e]) \ S
  BY DEF Readied
<1>3. Ready(j) \subseteq Ready(g) \cup S
  BY <1>1 DEF Ready
<1>4. ASSUME NEW p \in Priority, NEW t \in ReadyAt(g, p) PROVE t \in Ready(j)
  <2>1. g.priority[t] = p
    BY ReadyTasks
  <2>2. t \in ReadyAt(j, p)
    BY <1>1, <2>1
  <2>3. QED
    BY <2>2 DEF Ready
<1>5. Ready(g) \subseteq Ready(j)
  BY <1>4 DEF Ready
<1>6. EventsApart(j)
  BY <1>2, <1>3 DEF EventsApart
<1>7. QED
  BY <1>2, <1>5, <1>6

\* The tasks of a set are made ready, and the state is otherwise as it was.
LEMMA WakesThose ==
    ASSUME NEW g, KernelOK(g), NEW j, NEW S, Readied(j, g, S), Timed(j),
           j.current = g.current, j.suspensions = g.suspensions, j.base = g.base,
           j.event = g.event, j.pended \in Nat, g.pendsv => j.pendsv
    PROVE  Wakes(j, g)
<1>1. EventsApart(j) /\ Ready(g) \subseteq Ready(j) /\ Good(j)
  BY ReadiedApart DEF KernelOK
<1>2. QED
  BY <1>1 DEF KernelOK, Wakes

\* The lists stay as they are.
OtherFields == {"yield", "pendsv", "value", "notify", "count", "cleanup", "running",
                "bits", "mutexes", "overflows"}

LEMMA WakesNone ==
    ASSUME NEW g, KernelOK(g), NEW j, Keeps(j, g, OtherFields), g.pendsv => j.pendsv
    PROVE  Wakes(j, g) /\ j.events = g.events /\ Ready(j) = Ready(g)
<1>1. Readied(j, g, {})
  BY FlagsReadied DEF Flags, OtherFields, KernelOK
<1>2. /\ j.current = g.current /\ j.suspensions = g.suspensions /\ j.base = g.base
      /\ j.pended = g.pended /\ j.tick = g.tick /\ j.unblock = g.unblock
      /\ j.events = g.events /\ j.ready = g.ready /\ j.event = g.event
  BY DEF Keeps, KernelFields, OtherFields
<1>3. Timed(j)
  BY <1>2 DEF Timed, KernelOK
<1>4. Ready(j) = Ready(g)
  BY <1>2 DEF Ready, ReadyAt
<1>5. QED
  BY <1>1, <1>2, <1>3, <1>4, WakesThose DEF KernelOK

\* Flags that are set.
LEMMA FlagSet ==
    ASSUME NEW g, KernelOK(g), NEW j, NEW e,
           \/ j = [g EXCEPT !.yield = e] \/ j = vTaskMissedYield(g) \/ j = YieldIf(g, e)
           \/ j = g
    PROVE  Wakes(j, g) /\ j.events = g.events
<1>1. DOMAIN g = KernelFields
  BY DEF KernelOK, Good, Sound, Shape
<1>2. Keeps(j, g, OtherFields)
  BY <1>1 DEF Keeps, KernelFields, OtherFields, vTaskMissedYield, YieldIf, portYIELD
<1>3. g.pendsv => j.pendsv
  BY <1>1 DEF KernelFields, vTaskMissedYield, YieldIf, portYIELD
<1>4. QED
  BY <1>2, <1>3, WakesNone

\* A task in an event list is in no other.
LEMMA ListsApart ==
    ASSUME NEW g, EventsApart(g), NEW e \in EventLists, NEW t \in Elements(g.events[e]),
           NEW f \in EventLists, f # e
    PROVE  Without(g.events[f], t) = g.events[f]
<1>1. t \notin Elements(g.events[f])
  BY DEF EventsApart
<1>2. QED
  BY <1>1, WithoutAbsent

LEMMA HeadIs ==
    ASSUME NEW list, IsList(list, Task), list # << >>
    PROVE  Head(list) \in Elements(list) /\ Head(list) \in Task
<1>1. list \in Seq(Task) /\ Len(list) \in Nat /\ DOMAIN list = 1 .. Len(list)
  BY DEF IsList
<1>2. Len(list) # 0
  BY <1>1
<1>3. 1 \in DOMAIN list /\ Head(list) = list[1]
  BY <1>1, <1>2
<1>4. QED
  BY <1>1, <1>3 DEF Elements

\* The first task of an event list stops waiting; the other lists stay.
LEMMA RemovedWakes ==
    ASSUME NEW g, KernelOK(g), NEW list \in EventLists, g.events[list] # << >>
    PROVE  /\ Wakes(xTaskRemoveFromEventList(g, list), g)
           /\ \A f \in EventLists \ {list} :
                xTaskRemoveFromEventList(g, list).events[f] = g.events[f]
<1> DEFINE t == Head(g.events[list])
           e == RemoveEventItem(g, t)
           r == Unblock(e, t)
           j == xTaskRemoveFromEventList(g, list)
<1>1. /\ Good(g) /\ DOMAIN g = KernelFields /\ IsList(g.events[list], Task)
      /\ DOMAIN g.events = EventLists /\ Timed(g)
  BY DEF KernelOK, Good, Sound, Shape
<1>2. t \in Elements(g.events[list]) /\ t \in Task
  BY <1>1, HeadIs
<1>3. EventGone(e, g, t)
  BY <1>1, <1>2, EventGoneIs
<1>4. \A f \in EventLists \ {list} : e.events[f] = g.events[f]
  <2>1. e.events = [f \in EventLists |-> Without(g.events[f], t)]
    BY <1>1 DEF RemoveEventItem, KernelFields
  <2>2. QED
    BY <1>2, <2>1, ListsApart DEF KernelOK
<1>5. j = [r EXCEPT !.yield = @ \/ Outranks(g, t)]
  BY DEF xTaskRemoveFromEventList
<1> HIDE DEF e, t
<1>6. /\ e.current = g.current /\ e.suspensions = g.suspensions /\ e.base = g.base
      /\ e.pended = g.pended /\ e.tick = g.tick /\ e.unblock = g.unblock
      /\ e.pendsv = g.pendsv /\ e.ready = g.ready /\ e.event = g.event
  BY <1>3 DEF EventGone, Keeps, KernelFields
<1>7. CASE g.suspensions = 0
  <2>1. r = MoveToReadyList(e, t)
    BY <1>6, <1>7 DEF Unblock
  <2>2. MadeReady(r, e, t)
    BY <1>2, <1>3, <2>1, MadeReadyIs DEF EventGone
  <2> HIDE DEF r
  <2>3. Readied(r, g, {t})
    BY <1>1, <1>2, <1>3, <2>2, WokenByMove, WokenReadied
  <2>4. /\ r.current = e.current /\ r.suspensions = e.suspensions /\ r.base = e.base
        /\ r.pended = e.pended /\ r.tick = e.tick /\ r.unblock = e.unblock
        /\ r.pendsv = e.pendsv /\ r.events = e.events /\ r.event = e.event
    BY <2>2 DEF MadeReady, Keeps, KernelFields, StateLists
  <2>5. Timed(r)
    BY <1>1, <1>6, <2>4 DEF Timed
  <2>6. Wakes(r, g)
    BY <1>6, <2>3, <2>4, <2>5, WakesThose DEF KernelOK
  <2>7. Wakes(j, r) /\ j.events = r.events
    BY <1>5, <2>6, FlagSet DEF Wakes
  <2>8. QED
    BY <1>4, <2>4, <2>6, <2>7, WakesBoth
<1>8. CASE g.suspensions # 0
  <2>1. r = WithPended(e, t)
    BY <1>6, <1>8 DEF Unblock, WithPended
  <2>2. Good(e) /\ t \notin Elements(e.pending)
    BY <1>3 DEF EventGone
  <2>3. Keeps(r, e, {"pending"}) /\ Good(r)
    BY <1>2, <2>1, <2>2, PendIs
  <2> HIDE DEF r
  <2>4. /\ r.current = e.current /\ r.suspensions = e.suspensions /\ r.base = e.base
        /\ r.pended = e.pended /\ r.tick = e.tick /\ r.unblock = e.unblock
        /\ r.pendsv = e.pendsv /\ r.events = e.events /\ r.ready = e.ready
        /\ r.event = e.event
    BY <2>3 DEF Keeps, KernelFields
  <2>5. Ready(r) = Ready(g)
    BY <1>6, <2>4 DEF Ready, ReadyAt
  <2>6. \A f \in EventLists : Elements(r.events[f]) = Elements(g.events[f]) \ {t}
    BY <1>3, <2>4 DEF EventGone
  <2>7. EventsApart(r)
    BY <2>5, <2>6 DEF EventsApart, KernelOK
  <2>8. Timed(r)
    BY <1>1, <1>6, <2>4 DEF Timed
  <2>9. Wakes(r, g)
    BY <1>6, <2>3, <2>4, <2>5, <2>7, <2>8 DEF Wakes, KernelOK
  <2>10. Wakes(j, r) /\ j.events = r.events
    BY <1>5, <2>9, FlagSet DEF Wakes
  <2>11. QED
    BY <1>4, <2>4, <2>9, <2>10, WakesBoth
<1>9. QED
  BY <1>7, <1>8

\* The priority of a task changes, and its ready list with it.
Follows(j, g, set) ==
    /\ Wakes(j, g) /\ j.events = g.events
    /\ Ready(j) = Ready(g) /\ Keeps(j, set, StateLists \cup {"top"})

LEMMA RenumberedWakes ==
    ASSUME NEW g, KernelOK(g), NEW t \in Task, NEW new \in Priority,
           NEW set, Renumbered(set, g, t, new), set.base \in [Task -> Priority],
           set.event \in [Task -> 1 .. MaxPriorities],
           NEW j, j = IF Contained(t, g.ready[g.priority[t]]) THEN Requeued(g, set, t) ELSE set
    PROVE  Follows(j, g, set)
<1>1. /\ Good(g) /\ Timed(g) /\ g.priority \in [Task -> Priority]
      /\ \A p \in Priority : \A u \in ReadyAt(g, p) : g.priority[u] = p
  BY DEF KernelOK, Good, Sound, Shape, ByPriority
<1>2. /\ set.current = g.current /\ set.suspensions = g.suspensions
      /\ set.pended = g.pended /\ set.tick = g.tick /\ set.unblock = g.unblock
      /\ set.pendsv = g.pendsv /\ set.events = g.events /\ set.ready = g.ready
  BY DEF Renumbered, Keeps, KernelFields
<1>3. Contained(t, g.ready[g.priority[t]]) <=> t \in ReadyAt(g, g.priority[t])
  BY DEF Contained, ToSet, ReadyAt, Elements
<1>4. CASE Contained(t, g.ready[g.priority[t]])
  <2>1. MovedTo(j, set, g, t, new)
    BY <1>1, <1>3, <1>4, RequeuedIs
  <2>2. /\ j.current = set.current /\ j.suspensions = set.suspensions
        /\ j.pended = set.pended /\ j.tick = set.tick /\ j.unblock = set.unblock
        /\ j.pendsv = set.pendsv /\ j.events = set.events /\ j.base = set.base
        /\ j.event = set.event
    BY <2>1 DEF MovedTo, Keeps, KernelFields, StateLists
  <2>3. Ready(j) = Ready(g)
    <3>1. \A p \in Priority :
            ReadyAt(j, p) = (ReadyAt(g, p) \ {t}) \cup (IF p = new THEN {t} ELSE {})
      BY <2>1 DEF MovedTo
    <3>2. t \in Ready(g)
      BY <1>1, <1>3, <1>4 DEF Ready
    <3>3. t \in ReadyAt(j, new)
      BY <3>1
    <3>4. t \in Ready(j)
      BY <3>3 DEF Ready
    <3>5. ASSUME NEW u, u # t PROVE u \in Ready(j) <=> u \in Ready(g)
      <4>1. \A p \in Priority : u \in ReadyAt(j, p) <=> u \in ReadyAt(g, p)
        BY <3>1, <3>5
      <4>2. QED
        BY <4>1 DEF Ready
    <3>6. \A u : u \in Ready(j) <=> u \in Ready(g)
      BY ONLY <3>2, <3>4, <3>5
    <3>7. QED
      BY ONLY <3>6
  <2>4. EventsApart(j)
    BY <1>2, <2>2, <2>3 DEF EventsApart, KernelOK
  <2>5. Timed(j) /\ Good(j)
    BY <1>1, <1>2, <2>1, <2>2 DEF Timed, MovedTo
  <2>6. Wakes(j, g) /\ j.events = g.events
    BY <1>2, <2>2, <2>3, <2>4, <2>5 DEF Wakes, KernelOK
  <2>7. QED
    BY <2>1, <2>3, <2>6 DEF MovedTo, Follows
<1>5. CASE ~Contained(t, g.ready[g.priority[t]])
  <2>1. j = set
    BY <1>5
  <2>2. \A p \in Priority : t \notin ReadyAt(g, p)
    BY <1>1, <1>3, <1>5
  <2>3. Good(j)
    BY <1>1, <2>1, <2>2, RenumberedIs
  <2>4. Ready(j) = Ready(g)
    BY <1>2, <2>1 DEF Ready, ReadyAt
  <2>5. EventsApart(j) /\ Timed(j)
    BY <1>1, <1>2, <2>1, <2>4 DEF EventsApart, KernelOK, Timed
  <2>6. Wakes(j, g) /\ j.events = g.events
    BY <1>2, <2>1, <2>3, <2>4, <2>5 DEF Wakes, KernelOK
  <2>7. QED
    BY <2>1, <2>4, <2>6 DEF Renumbered, Keeps, Follows
<1>6. QED
  BY <1>4, <1>5

\* A task has another priority, and is ready when it was.
Repriced(j, g, t, new) ==
    /\ j.priority = [g.priority EXCEPT ![t] = new]
    /\ j.event = [g.event EXCEPT ![t] = IF g.bits[t].used THEN @ ELSE MaxPriorities - new]
    /\ j.base = g.base /\ j.bits = g.bits /\ j.mutexes = g.mutexes
    /\ j.events = g.events /\ j.pending = g.pending /\ Ready(j) = Ready(g)

LEMMA PriorityWakes ==
    ASSUME NEW g, KernelOK(g), NEW t \in Task, NEW new \in Priority
    PROVE  /\ Wakes(ChangePriority(g, t, new, g.priority[t]), g)
           /\ ChangePriority(g, t, new, g.priority[t]).events = g.events
           /\ Repriced(ChangePriority(g, t, new, g.priority[t]), g, t, new)
<1> DEFINE set == [g EXCEPT !.priority[t] = new,
                            !.event[t] = IF g.bits[t].used THEN @ ELSE MaxPriorities - new]
           j == ChangePriority(g, t, new, g.priority[t])
<1>1. /\ DOMAIN g = KernelFields /\ g.base \in [Task -> Priority]
      /\ g.event \in [Task -> 1 .. MaxPriorities] /\ MaxPriorities - new \in 1 .. MaxPriorities
  BY PrioritiesAssumption DEF KernelOK, Good, Sound, Shape, Priority
<1>2. Renumbered(set, g, t, new) /\ set.base = g.base
  BY <1>1 DEF Renumbered, Keeps, KernelFields
<1>6. set.event \in [Task -> 1 .. MaxPriorities]
  BY <1>1 DEF KernelFields
<1>3. j = IF Contained(t, g.ready[g.priority[t]]) THEN Requeued(g, set, t) ELSE set
  BY DEF ChangePriority, Requeued
<1> HIDE DEF set, j
<1>4. Follows(j, g, set)
  BY <1>1, <1>2, <1>3, <1>6, RenumberedWakes
<1>7. /\ set.event = [g.event EXCEPT ![t] = IF g.bits[t].used THEN @ ELSE MaxPriorities - new]
      /\ set.priority = [g.priority EXCEPT ![t] = new]
      /\ set.bits = g.bits /\ set.mutexes = g.mutexes /\ set.pending = g.pending
  BY <1>1 DEF KernelFields, set
<1>8. Repriced(j, g, t, new)
  BY <1>2, <1>4, <1>7 DEF Repriced, Follows, Keeps, KernelFields, StateLists
<1>5. QED
  BY <1>4, <1>8 DEF Follows, j

\* The holder of a mutex inherits a priority, and gives it back with the mutex.
LEMMA InheritWakes ==
    ASSUME NEW g, KernelOK(g), NEW holder \in Task \cup {NoTask}
    PROVE  /\ Wakes(xTaskPriorityInherit(g, holder), g)
           /\ xTaskPriorityInherit(g, holder).events = g.events
<1>1. g.current \in Task /\ g.priority \in [Task -> Priority]
  BY DEF KernelOK, Timed, Good, Sound, Shape
<1>2. holder # NoTask => holder \in Task /\ g.priority[g.current] \in Priority
  BY <1>1
<1>3. QED
  BY <1>2, PriorityWakes, WakesSelf DEF xTaskPriorityInherit

LEMMA DisinheritWakes ==
    ASSUME NEW g, KernelOK(g), NEW holder \in Task \cup {NoTask}
    PROVE  /\ Wakes(xTaskPriorityDisinherit(g, holder), g)
           /\ xTaskPriorityDisinherit(g, holder).events = g.events
<1> DEFINE h == [g EXCEPT !.mutexes[holder] = @ - 1]
           j == xTaskPriorityDisinherit(g, holder)
<1>1. DOMAIN g = KernelFields /\ g.base \in [Task -> Priority]
  BY DEF KernelOK, Good, Sound, Shape
<1>2. Keeps(h, g, OtherFields) /\ h.pendsv = g.pendsv /\ h.base = g.base
  BY <1>1 DEF Keeps, KernelFields, OtherFields
<1>3. Wakes(h, g) /\ h.events = g.events
  BY <1>2, WakesNone
<1>4. j = IF holder = NoTask THEN g
          ELSE IF Disinherits(g, holder)
            THEN ChangePriority(h, holder, h.base[holder], h.priority[holder])
          ELSE h
  BY DEF xTaskPriorityDisinherit
<1> HIDE DEF h, j
<1>5. ASSUME holder # NoTask
      PROVE  LET i == ChangePriority(h, holder, h.base[holder], h.priority[holder])
             IN  Wakes(i, h) /\ i.events = h.events
  <2>1. holder \in Task /\ h.base[holder] \in Priority
    BY <1>1, <1>2, <1>5
  <2>2. QED
    BY <1>3, <2>1, PriorityWakes DEF Wakes
<1>6. Wakes(j, g) /\ j.events = g.events
  BY <1>3, <1>4, <1>5, WakesBoth, WakesSelf
<1>7. QED
  BY <1>6 DEF j

\* vTaskPrioritySet
LEMMA PrioritySetWakes ==
    ASSUME NEW g, KernelOK(g), NEW t \in Task, NEW n \in Nat
    PROVE  Wakes(vTaskPrioritySet(g, t, n), g)
<1> DEFINE base == Clamped(n)
           set == Reprioritised(g, t, base)
           new == IF g.base[t] = g.priority[t] THEN base ELSE g.priority[t]
           moved == IF Contained(t, g.ready[g.priority[t]]) THEN Requeued(g, set, t) ELSE set
<1>1. /\ DOMAIN g = KernelFields /\ g.base \in [Task -> Priority]
      /\ g.priority \in [Task -> Priority] /\ base \in Priority
  BY ClampedIs DEF KernelOK, Good, Sound, Shape
<1>2. vTaskPrioritySet(g, t, n)
        = IF g.base[t] = base THEN g ELSE YieldIf(moved, YieldRequired(g, t, base))
  BY DEF vTaskPrioritySet, Clamped, YieldRequired, Reprioritised, Requeued
<1> HIDE DEF base
<1>3. Renumbered(set, g, t, new) /\ set.base \in [Task -> Priority] /\ new \in Priority
  BY <1>1 DEF Renumbered, Keeps, KernelFields, Reprioritised
<1>7. set.event \in [Task -> 1 .. MaxPriorities]
  <2>1. /\ g.event \in [Task -> 1 .. MaxPriorities]
        /\ MaxPriorities - base \in 1 .. MaxPriorities
    BY <1>1, PrioritiesAssumption DEF KernelOK, Priority
  <2>2. QED
    BY <1>1, <2>1 DEF KernelFields, Reprioritised
<1> HIDE DEF set, new
<1>4. Wakes(moved, g)
  BY <1>3, <1>7, RenumberedWakes DEF Follows
<1> HIDE DEF moved
<1>5. \A e : Wakes(YieldIf(moved, e), moved)
  BY <1>4, FlagSet DEF Wakes
<1>6. QED
  BY <1>2, <1>4, <1>5, WakesBoth, WakesSelf

\* vTaskPriorityDisinheritAfterTimeout, where the holder is not alone in the ready
\* list that it leaves: which bit would be cleared does not matter.
LEMMA GaveUpWakes ==
    ASSUME NEW g, KernelOK(g), NEW h \in Task \cup {NoTask}, NEW n \in Priority,
           NEW j, j = vTaskPriorityDisinheritAfterTimeout(g, h, n),
           \/ h = NoTask \/ j = g \/ ReadyAt(g, g.priority[h]) # {h}
    PROVE  Wakes(j, g) /\ j.events = g.events
<1> DEFINE p == Max({g.base[h], n})
<1>1. CASE j = g
  BY <1>1, WakesSelf
<1>2. CASE j # g
  <2>1. h # NoTask /\ j = ChangePriority(g, h, p, p)
    BY <1>2 DEF vTaskPriorityDisinheritAfterTimeout
  <2>2. h \in Task /\ ReadyAt(g, g.priority[h]) # {h}
    BY <1>2, <2>1
  <2>3. /\ Sound(g) /\ g.priority[h] \in Priority /\ g.base[h] \in Priority
        /\ IsReadyList(g.ready[g.priority[h]], Task)
    BY <2>2 DEF KernelOK, Good, Sound, Shape
  <2>4. p \in Priority
    <3>1. {g.base[h], n} \subseteq 0 .. MaxPriorities - 1 /\ MaxPriorities - 1 \in Nat
      BY <2>3, PrioritiesAssumption DEF Priority
    <3>2. p \in {g.base[h], n}
      BY <3>1, MaxIs
    <3>3. QED
      BY <2>3, <3>2
  <2> HIDE DEF p
  <2>5. ASSUME Contained(h, g.ready[g.priority[h]])
        PROVE  ~LeavesListEmpty(g, h)
    <3>1. h \in ReadyAt(g, g.priority[h])
      BY <2>3, <2>5 DEF Contained, ToSet, ReadyAt, Elements
    <3>2. QED
      BY <2>2, <2>3, <3>1, LeavesEmptyIs
  <2>6. ChangePriority(g, h, p, p) = ChangePriority(g, h, p, g.priority[h])
    BY <2>5 DEF ChangePriority
  <2>7. QED
    BY <2>1, <2>2, <2>4, <2>6, PriorityWakes
<1>3. QED
  BY <1>1, <1>2

\* What the priorities of the tasks are, and which they lend.
SamePrices(j, g) ==
    /\ j.priority = g.priority /\ j.base = g.base /\ j.event = g.event
    /\ j.bits = g.bits /\ j.mutexes = g.mutexes

\* The running task leaves the ready lists, and it only.
LeavesReady(j, g) ==
    /\ KernelOK(j)
    /\ j.current = g.current /\ j.suspensions = g.suspensions
    /\ Ready(j) = Ready(g) \ {g.current} /\ j.pending = g.pending
    /\ SamePrices(j, g)
    /\ g.pendsv => j.pendsv

Delayed(j, g, h) == LeavesReady(j, g) /\ j.events = h.events

\* It may have been put in an event list before.
LEMMA DelayLeaves ==
    ASSUME NEW g, KernelOK(g), g.current \in Ready(g),
           NEW h, Good(h), Keeps(h, g, {"events"}), NEW list,
           \A e \in EventLists :
             Elements(h.events[e])
               \subseteq Elements(g.events[e]) \cup (IF e = list THEN {g.current} ELSE {}),
           NEW ticks \in Int, NEW indefinitely
    PROVE  Delayed(prvAddCurrentTaskToDelayedList(h, ticks, indefinitely), g, h)
<1> DEFINE t == g.current
           j == prvAddCurrentTaskToDelayedList(h, ticks, indefinitely)
<1>1. /\ h.current = t /\ h.suspensions = g.suspensions /\ h.base = g.base
      /\ h.pended = g.pended /\ h.tick = g.tick /\ h.unblock = g.unblock
      /\ h.pendsv = g.pendsv /\ h.ready = g.ready /\ h.priority = g.priority
      /\ h.event = g.event /\ h.pending = g.pending
      /\ h.bits = g.bits /\ h.mutexes = g.mutexes
  BY DEF Keeps, KernelFields
<1>2. Good(g) /\ t \in Task /\ Timed(h)
  BY <1>1 DEF KernelOK, Timed
<1>3. t \in ReadyAt(g, g.priority[t])
  <2>1. PICK p \in Priority : t \in ReadyAt(g, p)
    BY DEF Ready
  <2>2. g.priority[t] = p
    BY <1>2, <2>1, ReadyTasks
  <2>3. QED
    BY <2>1, <2>2
<1>4. CurrentIsReady(h)
  BY <1>1, <1>2, <1>3 DEF CurrentIsReady, ReadyAt
<1>5. Keeps(j, h, DelayFields) /\ Waits(j, h) /\ Timed(j)
  BY <1>2, <1>4, DelayWaits
<1> HIDE DEF j
<1>6. /\ j.current = h.current /\ j.suspensions = h.suspensions /\ j.base = h.base
      /\ j.pended = h.pended /\ j.pendsv = h.pendsv /\ j.events = h.events
      /\ j.event = h.event /\ j.pending = h.pending /\ j.priority = h.priority
      /\ j.bits = h.bits /\ j.mutexes = h.mutexes
  BY <1>5 DEF Keeps, KernelFields, DelayFields, StateLists
<1>7. Good(j) /\ \A p \in Priority : ReadyAt(j, p) = ReadyAt(h, p) \ {t}
  BY <1>1, <1>5 DEF Waits
<1>8. Ready(j) = Ready(g) \ {t}
  BY <1>1, <1>7 DEF Ready, ReadyAt
<1>9. EventsApart(j)
  <2>1. EventsApart(g)
    BY DEF KernelOK
  <2>2. \A e \in EventLists : t \notin Elements(g.events[e])
    BY <2>1 DEF EventsApart
  <2>3. \A e \in EventLists : Elements(j.events[e]) \cap Ready(j) = {}
    BY <1>6, <1>8, <2>1 DEF EventsApart
  <2>4. ASSUME NEW e \in EventLists, NEW f \in EventLists, e # f
        PROVE  Elements(j.events[e]) \cap Elements(j.events[f]) = {}
    <3>1. Elements(g.events[e]) \cap Elements(g.events[f]) = {}
      BY <2>1, <2>4 DEF EventsApart
    <3>2. e # list \/ f # list
      BY <2>4
    <3>3. QED
      BY <1>6, <2>2, <3>1, <3>2
  <2>5. QED
    BY <2>3, <2>4 DEF EventsApart
<1>10. KernelOK(j)
  BY <1>1, <1>5, <1>6, <1>7, <1>9 DEF KernelOK
<1>11. LeavesReady(j, g)
  BY <1>1, <1>6, <1>8, <1>10 DEF LeavesReady, SamePrices
<1>12. QED
  BY <1>6, <1>11 DEF Delayed, j

\* vListInsert, whatever the order of the list.
LEMMA SortedInsertAdds ==
    ASSUME NEW list, IsList(list, Task), NEW t \in Task, t \notin Elements(list), NEW value
    PROVE  /\ IsList(SortedInsert(list, t, value), Task)
           /\ Elements(SortedInsert(list, t, value)) = Elements(list) \cup {t}
<1> DEFINE greater == {i \in DOMAIN list : value[list[i]] > value[t]}
           at == IF greater = {} THEN Len(list) + 1
                 ELSE CHOOSE i \in greater : \A j \in greater : i <= j
<1>1. Len(list) \in Nat /\ DOMAIN list = 1 .. Len(list)
  BY DEF IsList
<1>2. ASSUME greater # {}
      PROVE  at \in greater
  <2>1. greater \subseteq Nat
    BY <1>1
  <2>2. QED
    BY <1>2, <2>1, LeastExists
<1>3. at \in 1 .. Len(list) + 1
  BY <1>1, <1>2
<1>4. SortedInsert(list, t, value) = InsertAt(list, at, t)
  BY DEF SortedInsert
<1> HIDE DEF at
<1>5. QED
  BY <1>3, <1>4, InsertedAt

\* vTaskPlaceOnEventList
LEMMA PlaceLeaves ==
    ASSUME NEW g, KernelOK(g), g.current \in Ready(g), NEW list \in EventLists,
           NEW ticks \in Int
    PROVE  LET j == vTaskPlaceOnEventList(g, list, ticks)
           IN  /\ LeavesReady(j, g)
               /\ \A f \in EventLists \ {list} : j.events[f] = g.events[f]
               /\ Elements(j.events[list]) = Elements(g.events[list]) \cup {g.current}
               /\ Sorted(g.events[list], g.event) => Sorted(j.events[list], j.event)
<1> DEFINE t == g.current
           h == [g EXCEPT !.events[list] = SortedInsert(@, t, g.event)]
<1>1. /\ Good(g) /\ DOMAIN g = KernelFields /\ DOMAIN g.events = EventLists
      /\ \A e \in EventLists : IsList(g.events[e], Task)
      /\ t \in Task
  BY DEF KernelOK, Good, Sound, Shape, Timed
<1>2. t \notin Elements(g.events[list])
  BY DEF KernelOK, EventsApart
<1>3. /\ IsList(SortedInsert(g.events[list], t, g.event), Task)
      /\ Elements(SortedInsert(g.events[list], t, g.event)) = Elements(g.events[list]) \cup {t}
  BY <1>1, <1>2, SortedInsertAdds
<1>11. Sorted(g.events[list], g.event) => Sorted(SortedInsert(g.events[list], t, g.event), g.event)
  <2>1. g.event \in [Task -> Int]
    BY PrioritiesAssumption DEF KernelOK
  <2>2. QED
    BY <1>1, <1>2, <2>1, SortedInsertIs
<1>4. /\ Keeps(h, g, {"events"})
      /\ h.events = [g.events EXCEPT ![list] = SortedInsert(g.events[list], t, g.event)]
  BY <1>1 DEF Keeps, KernelFields
<1>5. vTaskPlaceOnEventList(g, list, ticks) = prvAddCurrentTaskToDelayedList(h, ticks, TRUE)
  BY DEF vTaskPlaceOnEventList
<1> HIDE DEF h
<1>6. DOMAIN h.events = EventLists /\ \A e \in EventLists : IsList(h.events[e], Task)
  BY <1>1, <1>3, <1>4
<1>7. Good(h)
  <2>1. /\ h.ready = g.ready /\ h.delayed = g.delayed /\ h.overflow = g.overflow
        /\ h.suspended = g.suspended /\ h.termination = g.termination
        /\ h.pending = g.pending /\ h.wake = g.wake /\ h.priority = g.priority
        /\ h.top = g.top /\ DOMAIN h = KernelFields
    BY <1>4 DEF Keeps, KernelFields
  <2>2. Shape(h)
    BY <1>1, <1>6, <2>1 DEF Good, Sound, Shape
  <2>3. Apart(h)
    BY <1>1, <2>1 DEF Good, Sound, Apart, ReadyAt
  <2>4. QED
    BY <1>1, <2>1, <2>2, <2>3, ReadySame DEF Good, Sound
<1>8. \A e \in EventLists :
        Elements(h.events[e]) \subseteq Elements(g.events[e]) \cup (IF e = list THEN {t} ELSE {})
  BY <1>1, <1>3, <1>4
<1>12. /\ \A f \in EventLists \ {list} : h.events[f] = g.events[f]
       /\ Elements(h.events[list]) = Elements(g.events[list]) \cup {t}
       /\ Sorted(g.events[list], g.event) => Sorted(h.events[list], g.event)
  BY <1>1, <1>3, <1>4, <1>11
<1> HIDE DEF t
<1>9. Delayed(prvAddCurrentTaskToDelayedList(h, ticks, TRUE), g, h)
  BY <1>4, <1>7, <1>8, DelayLeaves DEF t
<1>10. QED
  BY <1>5, <1>9, <1>12 DEF Delayed, LeavesReady, SamePrices, t

-----------------------------------------------------------------------------
(* Time, and who runs *)

LEMMA KernelAfter ==
    ASSUME NEW g, KernelOK(g), NEW j, NEW S, Readied(j, g, S), Timed(j), j.base = g.base,
           j.event = g.event, j.pended \in Nat, j.suspensions \in {0, 1}
    PROVE  KernelOK(j) /\ Ready(g) \subseteq Ready(j)
<1>1. EventsApart(j) /\ Ready(g) \subseteq Ready(j) /\ Good(j)
  BY ReadiedApart DEF KernelOK
<1>2. QED
  BY <1>1 DEF KernelOK

\* xPortSysTickHandler: with the scheduler suspended the tick is counted.
LEMMA TickWakes ==
    ASSUME NEW g, KernelOK(g), NEW r, r = xTaskIncrementTick(g)
    PROVE  /\ Wakes(YieldIf(r.k, r.switch), g)
           /\ g.suspensions = 1 => YieldIf(r.k, r.switch).events = g.events
<1>1. Good(g) /\ Timed(g) /\ g.pended \in Nat /\ DOMAIN g = KernelFields
  BY DEF KernelOK, Good, Sound, Shape
<1>2. CASE g.suspensions = 0
  <2>1. Keeps(r.k, g, TickFields) /\ Readied(r.k, g, DueAt(g)) /\ Timed(r.k)
    BY <1>1, <1>2, TickReadied
  <2>2. /\ r.k.current = g.current /\ r.k.suspensions = g.suspensions
        /\ r.k.base = g.base /\ r.k.pended = g.pended /\ r.k.pendsv = g.pendsv
        /\ r.k.event = g.event
    BY <2>1 DEF Keeps, KernelFields, TickFields, WakeFields, StateLists
  <2>3. Wakes(r.k, g)
    BY <1>1, <2>1, <2>2, WakesThose
  <2>4. Wakes(YieldIf(r.k, r.switch), r.k)
    BY <2>3, FlagSet DEF Wakes
  <2>5. QED
    BY <1>2, <2>3, <2>4, WakesBoth
<1>3. CASE g.suspensions = 1
  <2> DEFINE j == [g EXCEPT !.pended = @ + 1]
  <2>1. r = [k |-> j, switch |-> FALSE]
    BY <1>3 DEF xTaskIncrementTick
  <2>2. YieldIf(r.k, r.switch) = j
    BY <2>1 DEF YieldIf
  <2>3. /\ Keeps(j, g, {"pended"}) /\ j.pended \in Nat
    BY <1>1 DEF Keeps, KernelFields
  <2> HIDE DEF j
  <2>4. /\ j.current = g.current /\ j.suspensions = g.suspensions /\ j.base = g.base
        /\ j.pendsv = g.pendsv /\ j.tick = g.tick /\ j.unblock = g.unblock
        /\ j.events = g.events /\ j.event = g.event
    BY <2>3 DEF Keeps, KernelFields
  <2>5. Readied(j, g, {}) /\ Timed(j)
    BY <1>1, <2>3, <2>4, FlagsReadied DEF Flags, Timed
  <2>6. Wakes(j, g)
    BY <1>1, <2>3, <2>4, <2>5, WakesThose
  <2>7. QED
    BY <2>2, <2>4, <2>6
<1>4. QED
  BY <1>2, <1>3 DEF KernelOK

\* vTaskSuspendAll
LEMMA SuspendAllIs ==
    ASSUME NEW g, KernelOK(g), g.suspensions = 0
    PROVE  LET j == vTaskSuspendAll(g)
           IN  /\ KernelOK(j)
               /\ j.suspensions = 1 /\ j.current = g.current /\ j.pendsv = g.pendsv
               /\ Ready(j) = Ready(g) /\ j.events = g.events
<1> DEFINE j == vTaskSuspendAll(g)
<1>1. Good(g) /\ Timed(g) /\ g.pended \in Nat /\ DOMAIN g = KernelFields
  BY DEF KernelOK, Good, Sound, Shape
<1>2. Keeps(j, g, {"suspensions"}) /\ j.suspensions = 1
  BY <1>1 DEF Keeps, KernelFields, vTaskSuspendAll
<1> HIDE DEF j
<1>3. /\ j.current = g.current /\ j.base = g.base /\ j.pended = g.pended
      /\ j.pendsv = g.pendsv /\ j.tick = g.tick /\ j.unblock = g.unblock
      /\ j.events = g.events /\ j.ready = g.ready /\ j.event = g.event
  BY <1>2 DEF Keeps, KernelFields
<1>4. Readied(j, g, {}) /\ Timed(j)
  BY <1>1, <1>2, <1>3, FlagsReadied DEF Flags, Timed
<1>5. KernelOK(j)
  BY <1>1, <1>2, <1>3, <1>4, KernelAfter
<1>6. Ready(j) = Ready(g)
  BY <1>3 DEF Ready, ReadyAt
<1>7. QED
  BY <1>2, <1>3, <1>5, <1>6 DEF j

\* xTaskResumeAll
LEMMA ResumeWakes ==
    ASSUME NEW g, KernelOK(g), g.suspensions = 1
    PROVE  LET j == xTaskResumeAll(g)
           IN  /\ KernelOK(j)
               /\ j.suspensions = 0 /\ j.current = g.current
               /\ Ready(g) \subseteq Ready(j)
               /\ g.pendsv \/ j.yield => j.pendsv
<1> DEFINE j == xTaskResumeAll(g)
<1>1. Good(g) /\ Timed(g) /\ g.pended \in Nat
  BY DEF KernelOK
<1>2. /\ Keeps(j, g, ResumeFields)
      /\ j.suspensions = 0 /\ j.pended = 0 /\ Timed(j)
      /\ j.yield => j.pendsv
      /\ ~j.yield => j.pendsv = g.pendsv
      /\ \E S : Readied(j, g, S)
  BY <1>1, ResumeAllIs
<1> HIDE DEF j
<1>3. j.base = g.base /\ j.current = g.current /\ j.event = g.event
  BY <1>2 DEF Keeps, KernelFields, ResumeFields, TickFields, WakeFields, StateLists
<1>4. KernelOK(j) /\ Ready(g) \subseteq Ready(j)
  BY <1>2, <1>3, KernelAfter
<1>5. QED
  BY <1>2, <1>3, <1>4 DEF j

\* vTaskSwitchContext: the task that runs next is ready, or with the scheduler
\* suspended the one that runs goes on.
LEMMA SwitchWakes ==
    ASSUME NEW g, KernelOK(g), Ready(g) # {}
    PROVE  LET j == vTaskSwitchContext(g)
           IN  /\ KernelOK(j)
               /\ j.suspensions = g.suspensions
               /\ Ready(g) \subseteq Ready(j)
               /\ g.suspensions = 0 => j.current \in Ready(j)
               /\ g.suspensions = 1 => j.current = g.current /\ j.events = g.events
<1> DEFINE j == vTaskSwitchContext(g)
<1>1. Good(g) /\ Timed(g) /\ g.pended \in Nat
  BY DEF KernelOK
<1> DEFINE Switched == /\ KernelOK(j)
                       /\ j.suspensions = g.suspensions
                       /\ Ready(g) \subseteq Ready(j)
                       /\ g.suspensions = 0 => j.current \in Ready(j)
                       /\ g.suspensions = 1 => j.current = g.current /\ j.events = g.events
<1>2. ASSUME g.suspensions = 0 PROVE Switched
  <2>1. g.top # {}
    <3>1. PICK p \in Priority : ReadyAt(g, p) # {}
      BY DEF Ready
    <3>2. p \in g.top
      BY <1>1, <3>1 DEF Good, TopRight
    <3>3. QED
      BY <3>2
  <2>0. ~(g.suspensions > 0)
    BY <1>2
  <2>2. /\ Keeps(j, g, {"yield", "pendsv", "ready", "current"})
        /\ Readied(j, g, {}) /\ OnTop(j)
    BY <1>1, <2>0, <2>1, SwitchIs
  <2> HIDE DEF j
  <2>3. /\ j.base = g.base /\ j.pended = g.pended /\ j.suspensions = g.suspensions
        /\ j.tick = g.tick /\ j.unblock = g.unblock /\ j.event = g.event
    BY <2>2 DEF Keeps, KernelFields
  <2>4. j.current \in Task /\ j.current \in ReadyAt(j, j.priority[j.current])
    BY <2>2 DEF OnTop, CurrentIsReady
  <2>5. j.current \in Ready(j)
    <3>1. j.priority \in [Task -> Priority]
      BY <2>2 DEF Readied, Good, Sound, Shape
    <3>2. QED
      BY <2>4, <3>1 DEF Ready
  <2>6. Timed(j)
    BY <1>1, <2>3, <2>4 DEF Timed
  <2>7. KernelOK(j) /\ Ready(g) \subseteq Ready(j)
    BY <1>1, <1>2, <2>2, <2>3, <2>6, KernelAfter
  <2>8. ~(g.suspensions = 1)
    BY <1>2
  <2>9. QED
    BY <2>3, <2>5, <2>7, <2>8
<1>3. ASSUME g.suspensions = 1 PROVE Switched
  <2>0. g.suspensions > 0
    BY <1>3
  <2>1. Keeps(j, g, {"yield", "pendsv"}) /\ Readied(j, g, {})
    BY <1>1, <2>0, SwitchLater
  <2> HIDE DEF j
  <2>2. /\ j.base = g.base /\ j.pended = g.pended /\ j.suspensions = g.suspensions
        /\ j.tick = g.tick /\ j.unblock = g.unblock /\ j.current = g.current
        /\ j.events = g.events /\ j.event = g.event
    BY <2>1 DEF Keeps, KernelFields
  <2>3. Timed(j)
    BY <1>1, <2>2 DEF Timed
  <2>4. KernelOK(j) /\ Ready(g) \subseteq Ready(j)
    BY <1>1, <1>3, <2>1, <2>2, <2>3, KernelAfter
  <2>5. QED
    BY <1>3, <2>2, <2>4
<1>4. g.suspensions \in {0, 1}
  BY DEF KernelOK
<1>5. QED
  BY <1>2, <1>3, <1>4 DEF j

\* The kernel that main starts.
LEMMA BootedIs ==
    ASSUME NEW tasks, tasks \in Seq((Task \ {Idle}) \X Priority),
           \A i, j \in DOMAIN tasks : tasks[i][1] = tasks[j][1] => i = j
    PROVE  LET g == BootedKernel(tasks, Idle)
           IN  /\ KernelOK(g)
               /\ g.suspensions = 0
               /\ g.current \in Ready(g) /\ Idle \in Ready(g)
               /\ Unlent(g) /\ g.base = g.priority
               /\ NoEvents(g) /\ Elements(g.pending) = {}
<1> DEFINE b == FoldLeft(xTaskCreate, EmptyKernel, tasks)
           c == xTaskCreate(b, <<Idle, 0>>)
           g == BootedKernel(tasks, Idle)
           S == CreatedFirst(tasks, Len(tasks))
<1>1. g = [c EXCEPT !.running = TRUE, !.unblock = portMAX_DELAY]
  BY DEF BootedKernel, vTaskStartScheduler
<1>2. /\ DOMAIN tasks = 1 .. Len(tasks) /\ tasks \in Seq(Task \X Priority)
      /\ \A i \in DOMAIN tasks : tasks[i][1] # Idle
  OBVIOUS
<1>3. Idle \in Task /\ Idle \notin S
  BY <1>2, IdleAssumption DEF CreatedFirst
<1>4. Booting(b, S)
  BY <1>2, BootTasks
<1>5. Clamped(0) = 0 /\ 0 \in Nat /\ 0 \in Priority
  BY PrioritiesAssumption DEF Clamped, Priority
<1> HIDE DEF b, S
<1>6. Booting(c, S \cup {Idle}) /\ Idle \in ReadyAt(c, 0)
  BY <1>3, <1>4, <1>5, BootStep
<1> HIDE DEF c, g
<1>7. /\ Good(c) /\ NoEvents(c) /\ DOMAIN c = KernelFields
      /\ c.base \in [Task -> Priority] /\ c.priority \in [Task -> Priority]
      /\ c.event \in [Task -> 1 .. MaxPriorities]
      /\ c.tick = 0 /\ c.pended = 0 /\ c.suspensions = 0
  BY <1>6 DEF Booting, Good, Sound, Shape
<1>8. c.current \in Task /\ c.current \in ReadyAt(c, c.priority[c.current])
  <2>1. S \cup {Idle} # {}
    OBVIOUS
  <2>2. OnTop(c)
    BY <1>6, <2>1 DEF Booting
  <2>3. QED
    BY <2>2 DEF OnTop, CurrentIsReady
<1>9. Keeps(g, c, {"running", "unblock"}) /\ g.unblock = portMAX_DELAY
  BY <1>1, <1>7 DEF Keeps, KernelFields
<1>10. Readied(g, c, {})
  BY <1>7, <1>9, FlagsReadied DEF Flags
<1>11. /\ g.current = c.current /\ g.base = c.base /\ g.pended = c.pended /\ g.tick = c.tick
       /\ g.suspensions = c.suspensions /\ g.events = c.events /\ g.ready = c.ready
       /\ g.event = c.event
  BY <1>9 DEF Keeps, KernelFields
<1>12. Timed(g)
  BY <1>7, <1>8, <1>9, <1>11, TickAssumption DEF Timed, portMAX_DELAY
<1>13. EventsApart(g)
  BY <1>7, <1>11 DEF NoEvents, EventsApart
<1>14. KernelOK(g)
  BY <1>7, <1>10, <1>11, <1>12, <1>13 DEF KernelOK, Readied
<1>15. g.current \in Ready(g) /\ Idle \in Ready(g)
  BY <1>5, <1>6, <1>7, <1>8, <1>11 DEF Ready, ReadyAt
<1>16. Unlent(g) /\ g.base = g.priority /\ NoEvents(g) /\ Elements(g.pending) = {}
  <2>1. Unlent(c) /\ c.base = c.priority /\ NoEvents(c) /\ Elements(c.pending) = {}
    BY <1>6 DEF Booting
  <2>2. /\ g.mutexes = c.mutexes /\ g.bits = c.bits /\ g.event = c.event
        /\ g.priority = c.priority /\ g.pending = c.pending
    BY <1>9 DEF Keeps, KernelFields
  <2>3. QED
    BY <1>11, <2>1, <2>2 DEF Unlent, NoEvents
<1>17. QED
  BY <1>7, <1>11, <1>14, <1>15, <1>16 DEF g

-----------------------------------------------------------------------------
(* What they do to the locks and to the event lists *)

\* No queue is locked or unlocked, and only lists of the queues of X change.
Serves(v, u, X) ==
    /\ ServiceOK(v)
    /\ Wakes(v.k, u.k)
    /\ \A y \in Queue_t :
         /\ v.q[y].type = u.q[y].type /\ v.q[y].set = u.q[y].set
         /\ v.q[y].tx = queueUNLOCKED <=> u.q[y].tx = queueUNLOCKED
    /\ \A y \in Queue_t \ X :
         /\ v.k.events[ToReceive(y)] = u.k.events[ToReceive(y)]
         /\ v.k.events[ToSend(y)] = u.k.events[ToSend(y)]

Unlocked(u) == {y \in Queue_t : u.q[y].tx = queueUNLOCKED}

LEMMA ServesSelf ==
    ASSUME NEW u, ServiceOK(u), NEW X
    PROVE  Serves(u, u, X)
BY WakesSelf DEF Serves, ServiceOK

LEMMA ServesBoth ==
    ASSUME NEW u, NEW v, NEW w, NEW X, Serves(v, u, X), Serves(w, v, X)
    PROVE  Serves(w, u, X)
<1>1. Wakes(w.k, u.k)
  BY WakesBoth DEF Serves
<1>2. QED
  BY <1>1 DEF Serves

LEMMA StillUnlocked ==
    ASSUME NEW u, NEW v, NEW X, Serves(v, u, X)
    PROVE  Unlocked(v) = Unlocked(u)
BY DEF Serves, Unlocked

\* The kernel changes, but for its event lists.
LEMMA KernelServes ==
    ASSUME NEW u, ServiceOK(u), NEW v, DOMAIN v = {"k", "q"}, v.q = u.q,
           Wakes(v.k, u.k), v.k.events = u.k.events, NEW X
    PROVE  Serves(v, u, X)
BY DEF Serves, ServiceOK, Wakes

\* A queue changes, but for what is looked at here.
LEMMA QueueServes ==
    ASSUME NEW u, ServiceOK(u), NEW x \in Queue_t,
           NEW v, DOMAIN v = {"k", "q"}, v.k = u.k, DOMAIN v.q = Queue_t,
           \A y \in Queue_t \ {x} : v.q[y] = u.q[y],
           LockOK(v.q[x]), v.q[x].type = u.q[x].type, v.q[x].set = u.q[x].set,
           v.q[x].tx = queueUNLOCKED <=> u.q[x].tx = queueUNLOCKED, NEW X
    PROVE  Serves(v, u, X)
<1>1. ASSUME NEW y \in Queue_t
      PROVE  /\ LockOK(v.q[y]) /\ v.q[y].set \in Queue_t \cup {NoQueue}
             /\ v.q[y].type = u.q[y].type /\ v.q[y].set = u.q[y].set
             /\ v.q[y].tx = queueUNLOCKED <=> u.q[y].tx = queueUNLOCKED
  <2>1. CASE y = x
    BY <2>1 DEF ServiceOK
  <2>2. CASE y # x
    BY <2>2 DEF ServiceOK
  <2>3. QED
    BY <2>1, <2>2
<1>2. Wakes(v.k, u.k) /\ KernelOK(v.k)
  BY WakesSelf DEF ServiceOK
<1>3. ServiceOK(v)
  BY <1>1, <1>2 DEF ServiceOK
<1>4. QED
  BY <1>1, <1>2, <1>3 DEF Serves

\* What the critical sections change of a queue alone.
SameLocks(m, r) ==
    /\ DOMAIN m = QueueFields
    /\ m.tx = r.tx /\ m.rx = r.rx /\ m.type = r.type /\ m.set = r.set
    /\ m.holder \in Task \cup {NoTask}

LEMMA SameLocksServe ==
    ASSUME NEW u, ServiceOK(u), NEW x \in Queue_t,
           NEW v, DOMAIN v = {"k", "q"}, v.k = u.k, DOMAIN v.q = Queue_t,
           \A y \in Queue_t \ {x} : v.q[y] = u.q[y], SameLocks(v.q[x], u.q[x]), NEW X
    PROVE  Serves(v, u, X)
<1>1. LockOK(u.q[x])
  BY DEF ServiceOK
<1>2. LockOK(v.q[x])
  BY <1>1 DEF LockOK, SameLocks
<1>3. QED
  BY <1>2, QueueServes DEF SameLocks

\* The head of a list of x is woken, with what is noted of it.
LEMMA WokenServes ==
    ASSUME NEW u, ServiceOK(u), NEW X, NEW x \in Queue_t, x \in X,
           NEW list \in {ToSend(x), ToReceive(x)}, u.k.events[list] # << >>
    PROVE  Serves(Woken(u, list), u, X)
<1> DEFINE j == xTaskRemoveFromEventList(u.k, list)
           v == Woken(u, list)
<1>1. list \in EventLists
  BY EventListsAssumption
<1>2. Wakes(j, u.k) /\ \A f \in EventLists \ {list} : j.events[f] = u.k.events[f]
  BY <1>1, RemovedWakes DEF ServiceOK
<1>3. DOMAIN v = {"k", "q"} /\ v.q = u.q /\ v.k = j
  BY DEF ServiceOK, Woken
<1> HIDE DEF j, v
<1>4. ASSUME NEW y \in Queue_t \ X
      PROVE  {ToSend(y), ToReceive(y)} \subseteq EventLists \ {list}
  <2>1. y # x
    OBVIOUS
  <2>2. {ToSend(y), ToReceive(y)} \subseteq EventLists
    BY EventListsAssumption
  <2>3. ToSend(y) # list /\ ToReceive(y) # list
    BY <2>1 DEF ToSend, ToReceive
  <2>4. QED
    BY <2>2, <2>3
<1>5. ASSUME NEW y \in Queue_t \ X
      PROVE  /\ v.k.events[ToReceive(y)] = u.k.events[ToReceive(y)]
             /\ v.k.events[ToSend(y)] = u.k.events[ToSend(y)]
  BY <1>2, <1>3, <1>4
<1>6. ServiceOK(v)
  BY <1>2, <1>3 DEF ServiceOK, Wakes
<1>7. Serves(v, u, X)
  BY <1>2, <1>3, <1>5, <1>6 DEF Serves
<1>8. QED
  BY <1>7 DEF v

\* A flag is set in the kernel.
LEMMA FlagServes ==
    ASSUME NEW u, NEW v, NEW X, Serves(v, u, X), NEW e,
           NEW w, \/ w = [v EXCEPT !.k = YieldIf(@, e)]
                  \/ w = [v EXCEPT !.k = IF e THEN vTaskMissedYield(@) ELSE @]
    PROVE  Serves(w, u, X)
<1>1. ServiceOK(v) /\ KernelOK(v.k) /\ DOMAIN v = {"k", "q"}
  BY DEF Serves, ServiceOK
<1>2. /\ DOMAIN w = {"k", "q"} /\ w.q = v.q
      /\ w.k = YieldIf(v.k, e) \/ w.k = vTaskMissedYield(v.k) \/ w.k = v.k
  <2>1. CASE w = [v EXCEPT !.k = YieldIf(@, e)]
    BY <1>1, <2>1
  <2>2. CASE w = [v EXCEPT !.k = IF e THEN vTaskMissedYield(@) ELSE @]
    BY <1>1, <2>2
  <2>3. QED
    BY <2>1, <2>2
<1>3. Wakes(w.k, v.k) /\ w.k.events = v.k.events
  BY <1>1, <1>2, FlagSet
<1>4. Serves(w, v, X)
  BY <1>1, <1>2, <1>3, KernelServes
<1>5. QED
  BY <1>4, ServesBoth

LEMMA WakeServes ==
    ASSUME NEW u, ServiceOK(u), NEW X, NEW x \in Queue_t, x \in X,
           NEW list \in {ToSend(x), ToReceive(x)}
    PROVE  /\ Serves(WakeHead(u, list), u, X)
           /\ Serves(WakeMissed(u, list), u, X)
<1>1. CASE u.k.events[list] = << >>
  BY <1>1, ServesSelf DEF WakeHead, WakeMissed
<1>2. CASE u.k.events[list] # << >>
  <2>1. Serves(Woken(u, list), u, X)
    BY <1>2, WokenServes
  <2>2. /\ WakeHead(u, list) = [Woken(u, list) EXCEPT !.k = YieldIf(@, WakesHigher(u, list))]
        /\ WakeMissed(u, list)
             = [Woken(u, list) EXCEPT !.k = IF WakesHigher(u, list) THEN vTaskMissedYield(@)
                                            ELSE @]
    BY <1>2 DEF WakeHead, WakeMissed
  <2>3. Serves(WakeHead(u, list), u, X)
    BY <2>1, <2>2, FlagServes
  <2>4. Serves(WakeMissed(u, list), u, X)
    BY <2>1, <2>2, FlagServes
  <2>5. QED
    BY <2>3, <2>4
<1>3. QED
  BY <1>1, <1>2

\* prvCopyDataToQueue
LEMMA CopiedServes ==
    ASSUME NEW u, ServiceOK(u), NEW x \in Queue_t, NEW item, NEW position, NEW X
    PROVE  Serves(prvCopyDataToQueue(u, x, item, position), u, X)
<1> DEFINE v == prvCopyDataToQueue(u, x, item, position)
           r == u.q[x]
<1>1. /\ DOMAIN u = {"k", "q"} /\ DOMAIN u.q = Queue_t /\ DOMAIN r = QueueFields
      /\ r.holder \in Task \cup {NoTask} /\ KernelOK(u.k)
  BY DEF ServiceOK, LockOK
<1>2. CASE IsMutex(u, x)
  <2> DEFINE w == [u EXCEPT !.k = xTaskPriorityDisinherit(u.k, r.holder)]
  <2>1. Serves(w, u, X)
    BY <1>1, DisinheritWakes, KernelServes
  <2>2. /\ DOMAIN v = {"k", "q"} /\ v.k = w.k /\ DOMAIN v.q = Queue_t
        /\ \A y \in Queue_t \ {x} : v.q[y] = w.q[y]
        /\ SameLocks(v.q[x], w.q[x])
    BY <1>1, <1>2 DEF prvCopyDataToQueue, SameLocks, QueueFields
  <2> HIDE DEF v, w
  <2>3. Serves(v, w, X)
    BY <2>1, <2>2, SameLocksServe DEF Serves
  <2>4. QED
    BY <2>1, <2>3, ServesBoth DEF v
<1>3. CASE ~IsMutex(u, x)
  <2>1. /\ DOMAIN v = {"k", "q"} /\ v.k = u.k /\ DOMAIN v.q = Queue_t
        /\ \A y \in Queue_t \ {x} : v.q[y] = u.q[y]
    BY <1>1, <1>3 DEF prvCopyDataToQueue
  <2>2. SameLocks(v.q[x], r)
    BY <1>1, <1>3 DEF prvCopyDataToQueue, SameLocks, QueueFields
  <2> HIDE DEF v
  <2>3. QED
    BY <2>1, <2>2, SameLocksServe DEF v
<1>4. QED
  BY <1>2, <1>3

\* Those who would have been woken are counted.
LEMMA CountedServes ==
    ASSUME NEW u, ServiceOK(u), NEW x \in Queue_t, NEW X, NEW v,
           \/ v = prvIncrementQueueTxLock(u, x) /\ u.q[x].tx # queueUNLOCKED
           \/ v = prvIncrementQueueRxLock(u, x) /\ u.q[x].rx # queueUNLOCKED
    PROVE  Serves(v, u, X)
<1>1. /\ DOMAIN u = {"k", "q"} /\ DOMAIN u.q = Queue_t /\ DOMAIN u.q[x] = QueueFields
      /\ LockOK(u.q[x])
  BY DEF ServiceOK, LockOK
<1>2. /\ DOMAIN v = {"k", "q"} /\ v.k = u.k /\ DOMAIN v.q = Queue_t
      /\ \A y \in Queue_t \ {x} : v.q[y] = u.q[y]
      /\ DOMAIN v.q[x] = QueueFields
      /\ v.q[x].type = u.q[x].type /\ v.q[x].set = u.q[x].set
      /\ v.q[x].holder = u.q[x].holder
  BY <1>1 DEF prvIncrementQueueTxLock, prvIncrementQueueRxLock, QueueFields
<1>3. /\ v.q[x].tx = u.q[x].tx \/ (u.q[x].tx # queueUNLOCKED /\ v.q[x].tx = u.q[x].tx + 1)
      /\ v.q[x].rx = u.q[x].rx \/ (u.q[x].rx # queueUNLOCKED /\ v.q[x].rx = u.q[x].rx + 1)
  BY <1>1 DEF prvIncrementQueueTxLock, prvIncrementQueueRxLock, QueueFields
<1>4. LockOK(v.q[x]) /\ (v.q[x].tx = queueUNLOCKED <=> u.q[x].tx = queueUNLOCKED)
  <2> DEFINE a == u.q[x].tx
             b == u.q[x].rx
  <2>1. a \in Nat \cup {queueUNLOCKED} /\ b \in Nat \cup {queueUNLOCKED}
        /\ (a # queueUNLOCKED => b # queueUNLOCKED)
    BY <1>1 DEF LockOK
  <2> HIDE DEF a, b
  <2>2. /\ v.q[x].tx \in Nat \cup {queueUNLOCKED} /\ v.q[x].rx \in Nat \cup {queueUNLOCKED}
        /\ v.q[x].tx = queueUNLOCKED <=> a = queueUNLOCKED
        /\ v.q[x].rx = queueUNLOCKED <=> b = queueUNLOCKED
    BY <1>3, <2>1 DEF a, b, queueUNLOCKED
  <2>3. QED
    BY <1>1, <1>2, <2>1, <2>2 DEF LockOK, a
<1>5. QED
  BY <1>1, <1>2, <1>4, QueueServes

\* prvNotifyQueueSetContainer
LEMMA NotifyServes ==
    ASSUME NEW u, ServiceOK(u), NEW x \in Queue_t, u.q[x].set # NoQueue, NEW X,
           Unlocked(u) \subseteq X
    PROVE  /\ Serves(prvNotifyQueueSetContainer(u, x), u, X)
           /\ Serves(NotifyMissed(u, x), u, X)
<1> DEFINE set == u.q[x].set
           n == prvNotifyQueueSetContainer(u, x)
           sent == prvCopyDataToQueue(u, set, x, "back")
<1>1. set \in Queue_t
  BY DEF ServiceOK
<1>2. Serves(sent, u, X)
  BY <1>1, CopiedServes
<1>3. n = IF prvIsQueueFull(u, set) THEN u
          ELSE IF u.q[set].tx # queueUNLOCKED THEN prvIncrementQueueTxLock(sent, set)
          ELSE IF u.k.events[ToReceive(set)] = <<>> THEN sent
          ELSE Woken(sent, ToReceive(set))
  BY DEF prvNotifyQueueSetContainer
<1>4. sent.k.events = u.k.events
  BY <1>1, DisinheritWakes DEF prvCopyDataToQueue, ServiceOK, LockOK
<1> HIDE DEF sent, n
<1>5. ServiceOK(sent) /\ (sent.q[set].tx = queueUNLOCKED <=> u.q[set].tx = queueUNLOCKED)
  BY <1>1, <1>2 DEF Serves
<1>6. ASSUME u.q[set].tx # queueUNLOCKED
      PROVE  Serves(prvIncrementQueueTxLock(sent, set), u, X)
  BY <1>1, <1>2, <1>5, <1>6, CountedServes, ServesBoth
<1>7. ASSUME u.q[set].tx = queueUNLOCKED, u.k.events[ToReceive(set)] # << >>
      PROVE  Serves(Woken(sent, ToReceive(set)), u, X)
  <2>1. set \in X
    BY <1>1, <1>7 DEF Unlocked
  <2>2. Serves(Woken(sent, ToReceive(set)), sent, X)
    BY <1>1, <1>4, <1>5, <1>7, <2>1, WokenServes
  <2>3. QED
    BY <1>2, <2>2, ServesBoth
<1>8. Serves(n, u, X)
  BY <1>2, <1>3, <1>6, <1>7, ServesSelf
<1>9. NotifyMissed(u, x) = [n EXCEPT !.k = IF NotifyWakesHigher(u, x) THEN vTaskMissedYield(@)
                                         ELSE @]
  BY DEF NotifyMissed, n
<1>10. Serves(NotifyMissed(u, x), u, X)
  BY <1>8, <1>9, FlagServes
<1>11. QED
  BY <1>8, <1>10 DEF n

\* Who is told of an item in x: its queue set, or one that waits for it.
LEMMA TellServes ==
    ASSUME NEW u, ServiceOK(u), NEW X, NEW x \in Queue_t, x \in X, Unlocked(u) \subseteq X,
           NEW e
    PROVE  /\ Serves(Tell(u, x), u, X)
           /\ Serves([Tell(u, x) EXCEPT !.k = YieldIf(@, e)], u, X)
<1>1. Serves(Tell(u, x), u, X)
  <2>1. CASE u.q[x].set # NoQueue
    BY <2>1, NotifyServes DEF Tell
  <2>2. CASE u.q[x].set = NoQueue /\ u.k.events[ToReceive(x)] = << >>
    BY <2>2, ServesSelf DEF Tell
  <2>3. CASE u.q[x].set = NoQueue /\ u.k.events[ToReceive(x)] # << >>
    BY <2>3, WokenServes DEF Tell
  <2>4. QED
    BY <2>1, <2>2, <2>3
<1>2. QED
  BY <1>1, FlagServes

\* xQueueGenericSend, by a task
LEMMA SendServes ==
    ASSUME NEW u, ServiceOK(u), NEW X, NEW x \in Queue_t, x \in X, Unlocked(u) \subseteq X,
           NEW item, NEW position
    PROVE  Serves(Send(u, x, item, position), u, X)
<1> DEFINE copied == prvCopyDataToQueue(u, x, item, position)
<1>1. Serves(copied, u, X)
  BY CopiedServes
<1>2. ServiceOK(copied) /\ Unlocked(copied) \subseteq X
  BY <1>1, StillUnlocked DEF Serves
<1>3. \E e : \/ Send(u, x, item, position) = copied
             \/ Send(u, x, item, position) = [Tell(copied, x) EXCEPT !.k = YieldIf(@, e)]
  BY DEF Send
<1> HIDE DEF copied
<1>4. QED
  BY <1>1, <1>2, <1>3, TellServes, ServesBoth

\* and by an interrupt, which leaves the lists of a locked queue alone.
LEMMA SendISRServes ==
    ASSUME NEW u, ServiceOK(u), NEW X, NEW x \in Queue_t, Unlocked(u) \subseteq X,
           NEW item, NEW position
    PROVE  Serves(SendFromISR(u, x, item, position), u, X)
<1> DEFINE copied == prvCopyDataToQueue(u, x, item, position)
           v == SendFromISR(u, x, item, position)
<1>1. Serves(copied, u, X)
  BY CopiedServes
<1>2. ServiceOK(copied) /\ Unlocked(copied) = Unlocked(u)
  BY <1>1, StillUnlocked DEF Serves
<1>3. \E e : v = IF u.q[x].tx # queueUNLOCKED THEN prvIncrementQueueTxLock(copied, x)
                 ELSE IF u.q[x].set # NoQueue /\ Unnoticed(u, x, position) THEN copied
                 ELSE [Tell(copied, x) EXCEPT !.k = YieldIf(@, e)]
  BY DEF SendFromISR
<1> HIDE DEF copied, v
<1>4. CASE u.q[x].tx # queueUNLOCKED
  <2>1. copied.q[x].tx # queueUNLOCKED
    BY <1>1, <1>4 DEF Serves
  <2>2. Serves(v, copied, X)
    BY <1>2, <1>3, <1>4, <2>1, CountedServes
  <2>3. QED
    BY <1>1, <2>2, ServesBoth DEF v
<1>5. CASE u.q[x].tx = queueUNLOCKED
  <2>1. x \in X /\ Unlocked(copied) \subseteq X
    BY <1>2, <1>5 DEF Unlocked
  <2>2. v = copied \/ \E e : v = [Tell(copied, x) EXCEPT !.k = YieldIf(@, e)]
    BY <1>3, <1>5
  <2>3. Serves(v, u, X)
    BY <1>1, <1>2, <2>1, <2>2, TellServes, ServesBoth
  <2>4. QED
    BY <2>3 DEF v
<1>6. QED
  BY <1>4, <1>5

LEMMA ReceivedServes ==
    ASSUME NEW u, ServiceOK(u), NEW x \in Queue_t, NEW X
    PROVE  Serves(Received(u, x), u, X)
<1> DEFINE v == Received(u, x)
<1>1. /\ DOMAIN u = {"k", "q"} /\ DOMAIN u.q = Queue_t /\ DOMAIN u.q[x] = QueueFields
      /\ u.q[x].holder \in Task \cup {NoTask}
  BY DEF ServiceOK, LockOK
<1>2. /\ DOMAIN v = {"k", "q"} /\ v.k = u.k /\ DOMAIN v.q = Queue_t
      /\ \A y \in Queue_t \ {x} : v.q[y] = u.q[y]
      /\ SameLocks(v.q[x], u.q[x])
  BY <1>1 DEF Received, SameLocks, QueueFields
<1> HIDE DEF v
<1>3. QED
  BY <1>2, SameLocksServe DEF v

\* xQueueReceive, xQueuePeek and xQueueSemaphoreTake
LEMMA TakenServes ==
    ASSUME NEW u, ServiceOK(u), NEW x \in Queue_t, NEW X, x \in X,
           NEW v, v = Receive(u, x) \/ v = Peek(u, x) \/ v = Take(u, x)
    PROVE  Serves(v, u, X)
<1>1. /\ DOMAIN u = {"k", "q"} /\ DOMAIN u.q = Queue_t /\ DOMAIN u.q[x] = QueueFields
      /\ KernelOK(u.k)
  BY DEF ServiceOK, LockOK
<1>2. ASSUME NEW w, Serves(w, u, X), v = WakeHead(Received(w, x), ToSend(x))
      PROVE  Serves(v, u, X)
  <2> DEFINE r == Received(w, x)
  <2>1. Serves(r, w, X) /\ ServiceOK(r)
    BY <1>2, ReceivedServes DEF Serves
  <2> HIDE DEF r
  <2>2. Serves(v, r, X)
    BY <1>2, <2>1, WakeServes DEF r
  <2>3. QED
    BY <1>2, <2>1, <2>2, ServesBoth
<1>3. CASE v = Receive(u, x)
  BY <1>2, <1>3, ServesSelf DEF Receive
<1>4. CASE v = Peek(u, x)
  BY <1>4, WakeServes DEF Peek
<1>5. CASE v = Take(u, x)
  <2> DEFINE j == pvTaskIncrementMutexHeldCount(u.k)
             h == [u EXCEPT !.k = j]
             w == [k |-> j, q |-> [u.q EXCEPT ![x].holder = u.k.current]]
  <2>1. v = WakeHead(Received(IF IsMutex(u, x) THEN w ELSE u, x), ToSend(x))
    BY <1>5 DEF Take
  <2>2. DOMAIN u.k = KernelFields /\ u.k.current \in Task
    BY <1>1 DEF KernelOK, Good, Sound, Shape, Timed
  <2>3. Keeps(j, u.k, OtherFields) /\ j.pendsv = u.k.pendsv
    BY <2>2 DEF Keeps, KernelFields, OtherFields, pvTaskIncrementMutexHeldCount
  <2> HIDE DEF j
  <2>4. Wakes(j, u.k) /\ j.events = u.k.events
    BY <1>1, <2>3, WakesNone
  <2>5. DOMAIN h = {"k", "q"} /\ h.q = u.q /\ h.k = j
    BY <1>1
  <2> HIDE DEF h
  <2>6. Serves(h, u, X)
    BY <2>4, <2>5, KernelServes
  <2>7. /\ DOMAIN w = {"k", "q"} /\ w.k = h.k /\ DOMAIN w.q = Queue_t
        /\ \A y \in Queue_t \ {x} : w.q[y] = h.q[y]
    BY <1>1, <2>5
  <2>8. SameLocks(w.q[x], h.q[x])
    BY <1>1, <2>2, <2>5 DEF SameLocks, QueueFields
  <2> HIDE DEF w
  <2>9. Serves(w, h, X)
    BY <2>6, <2>7, <2>8, SameLocksServe DEF Serves
  <2>10. Serves(w, u, X)
    BY <2>6, <2>9, ServesBoth
  <2>11. QED
    BY <1>2, <2>1, <2>10, ServesSelf
<1>6. QED
  BY <1>3, <1>4, <1>5

\* xQueueReceiveFromISR: those who wait for room in a locked queue are counted.
LEMMA ReceiveISRServes ==
    ASSUME NEW u, ServiceOK(u), NEW x \in Queue_t, NEW X, Unlocked(u) \subseteq X
    PROVE  Serves(ReceiveFromISR(u, x), u, X)
<1> DEFINE r == Received(u, x)
           v == ReceiveFromISR(u, x)
<1>1. v = IF u.q[x].rx # queueUNLOCKED THEN prvIncrementQueueRxLock(r, x)
          ELSE WakeHead(r, ToSend(x))
  BY DEF ReceiveFromISR
<1>2. DOMAIN u = {"k", "q"} /\ DOMAIN u.q = Queue_t /\ LockOK(u.q[x])
  BY DEF ServiceOK
<1>3. r.q[x].rx = u.q[x].rx
  BY <1>2 DEF Received, LockOK, QueueFields
<1>4. Serves(r, u, X) /\ ServiceOK(r)
  BY ReceivedServes DEF Serves
<1> HIDE DEF r, v
<1>5. CASE u.q[x].rx # queueUNLOCKED
  <2>1. Serves(v, r, X)
    BY <1>1, <1>3, <1>4, <1>5, CountedServes
  <2>2. QED
    BY <1>4, <2>1, ServesBoth DEF v
<1>6. CASE u.q[x].rx = queueUNLOCKED
  <2>1. x \in X
    BY <1>2, <1>6 DEF Unlocked, LockOK
  <2>2. Serves(v, r, X)
    BY <1>1, <1>4, <1>6, <2>1, WakeServes
  <2>3. QED
    BY <1>4, <2>2, ServesBoth DEF v
<1>7. QED
  BY <1>5, <1>6

\* The turns of prvUnlockQueue
LEMMA TurnsServe ==
    ASSUME NEW u, ServiceOK(u), NEW x \in Queue_t, NEW list \in {ToSend(x), ToReceive(x)},
           NEW n \in Nat
    PROVE  Serves(UnlockTurns(u, x, list, n), u, Queue_t)
<1>1. PICK f : Turns(f, u, x, list, n) /\ UnlockTurns(u, x, list, n) = f[n]
  BY UnlockTurnsAre
<1> DEFINE T == {i \in Nat : i <= n => Serves(f[i], u, Queue_t)}
<1>2. 0 \in T
  BY <1>1, ServesSelf DEF Turns
<1>3. ASSUME NEW i \in Nat, i \in T PROVE i + 1 \in T
  <2>1. SUFFICES ASSUME i + 1 <= n PROVE Serves(f[i + 1], u, Queue_t)
    OBVIOUS
  <2>2. Serves(f[i], u, Queue_t)
    BY <1>3, <2>1
  <2>3. i + 1 \in 1 .. n /\ i + 1 - 1 = i
    BY <2>1
  <2>4. f[i + 1] = UnlockTurn(f[i], x, list)
    BY <1>1, <2>3 DEF Turns
  <2>5. ServiceOK(f[i]) /\ Unlocked(f[i]) \subseteq Queue_t
    BY <2>2 DEF Serves, Unlocked
  <2>6. Serves(UnlockTurn(f[i], x, list), f[i], Queue_t)
    BY <2>5, NotifyServes, WakeServes DEF UnlockTurn
  <2>7. QED
    BY <2>2, <2>4, <2>6, ServesBoth
<1> HIDE DEF T
<1>4. Nat \subseteq T
  BY <1>2, <1>3, NatInduct
<1>5. QED
  BY <1>1, <1>4 DEF T

\* The lock of x apart.
ServesBut(v, u, x) ==
    /\ ServiceOK(v)
    /\ Wakes(v.k, u.k)
    /\ \A y \in Queue_t \ {x} : v.q[y].tx = queueUNLOCKED <=> u.q[y].tx = queueUNLOCKED

LEMMA LockChanges ==
    ASSUME NEW u, ServiceOK(u), NEW w, NEW x \in Queue_t, ServesBut(w, u, x),
           NEW v, DOMAIN v = {"k", "q"}, v.k = w.k, DOMAIN v.q = Queue_t,
           \A y \in Queue_t \ {x} : v.q[y] = w.q[y], LockOK(v.q[x]),
           v.q[x].set \in Queue_t \cup {NoQueue}
    PROVE  ServesBut(v, u, x)
<1>1. ASSUME NEW y \in Queue_t PROVE LockOK(v.q[y]) /\ v.q[y].set \in Queue_t \cup {NoQueue}
  <2>1. CASE y = x
    BY <2>1
  <2>2. CASE y # x
    BY <2>2 DEF ServesBut, ServiceOK
  <2>3. QED
    BY <2>1, <2>2
<1>2. ServiceOK(v)
  BY <1>1 DEF ServesBut, ServiceOK
<1>3. QED
  BY <1>2 DEF ServesBut

\* prvUnlockQueue: the side of those who receive first,
LEMMA UnlockTxServes ==
    ASSUME NEW u, ServiceOK(u), NEW x \in Queue_t
    PROVE  LET v == prvUnlockQueueTx(u, x)
           IN  ServesBut(v, u, x) /\ v.q[x].tx = queueUNLOCKED
<1> DEFINE n == Max({u.q[x].tx, 0})
           w == UnlockTurns(u, x, ToReceive(x), n)
           v == prvUnlockQueueTx(u, x)
<1>1. n \in Nat
  <2>1. u.q[x].tx \in Int
    BY DEF ServiceOK, LockOK, queueUNLOCKED
  <2>2. QED
    BY <2>1, LargerIs
<1> HIDE DEF n
<1>2. Serves(w, u, Queue_t)
  BY <1>1, TurnsServe
<1>3. v = [w EXCEPT !.q[x].tx = queueUNLOCKED]
  BY DEF prvUnlockQueueTx, n
<1> HIDE DEF w, v
<1>4. DOMAIN w = {"k", "q"} /\ DOMAIN w.q = Queue_t /\ LockOK(w.q[x])
      /\ w.q[x].set \in Queue_t \cup {NoQueue}
  BY <1>2 DEF Serves, ServiceOK
<1>5. /\ DOMAIN v = {"k", "q"} /\ v.k = w.k /\ DOMAIN v.q = Queue_t
      /\ \A y \in Queue_t \ {x} : v.q[y] = w.q[y]
      /\ v.q[x].tx = queueUNLOCKED /\ v.q[x].set = w.q[x].set /\ LockOK(v.q[x])
  BY <1>3, <1>4 DEF LockOK, QueueFields
<1>6. ServesBut(w, u, x)
  BY <1>2 DEF Serves, ServesBut
<1>7. QED
  BY <1>4, <1>5, <1>6, LockChanges DEF v

\* then that of those who send.
LEMMA UnlockRxServes ==
    ASSUME NEW u, ServiceOK(u), NEW x \in Queue_t, u.q[x].tx = queueUNLOCKED
    PROVE  ServesBut(prvUnlockQueueRx(u, x), u, x)
           /\ prvUnlockQueueRx(u, x).q[x].tx = queueUNLOCKED
<1> DEFINE n == Max({u.q[x].rx, 0})
           w == UnlockTurns(u, x, ToSend(x), n)
           v == prvUnlockQueueRx(u, x)
<1>1. n \in Nat
  <2>1. u.q[x].rx \in Int
    BY DEF ServiceOK, LockOK, queueUNLOCKED
  <2>2. QED
    BY <2>1, LargerIs
<1> HIDE DEF n
<1>2. Serves(w, u, Queue_t)
  BY <1>1, TurnsServe
<1>3. v = [w EXCEPT !.q[x].rx = queueUNLOCKED]
  BY DEF prvUnlockQueueRx, n
<1> HIDE DEF w, v
<1>4. DOMAIN w = {"k", "q"} /\ DOMAIN w.q = Queue_t /\ LockOK(w.q[x])
      /\ w.q[x].set \in Queue_t \cup {NoQueue} /\ w.q[x].tx = queueUNLOCKED
  BY <1>2 DEF Serves, ServiceOK
<1>5. /\ DOMAIN v = {"k", "q"} /\ v.k = w.k /\ DOMAIN v.q = Queue_t
      /\ \A y \in Queue_t \ {x} : v.q[y] = w.q[y]
      /\ v.q[x].tx = queueUNLOCKED /\ v.q[x].set = w.q[x].set /\ LockOK(v.q[x])
  BY <1>3, <1>4 DEF LockOK, QueueFields
<1>6. ServesBut(w, u, x)
  BY <1>2 DEF Serves, ServesBut
<1>7. QED
  BY <1>4, <1>5, <1>6, LockChanges DEF v

\* prvLockQueue
LEMMA LockServes ==
    ASSUME NEW u, ServiceOK(u), NEW x \in Queue_t
    PROVE  ServesBut(prvLockQueue(u, x), u, x)
<1> DEFINE v == prvLockQueue(u, x)
<1>1. DOMAIN u = {"k", "q"} /\ DOMAIN u.q = Queue_t /\ LockOK(u.q[x])
      /\ u.q[x].set \in Queue_t \cup {NoQueue}
  BY DEF ServiceOK
<1>2. /\ DOMAIN v = {"k", "q"} /\ v.k = u.k /\ DOMAIN v.q = Queue_t
      /\ \A y \in Queue_t \ {x} : v.q[y] = u.q[y]
      /\ v.q[x].set = u.q[x].set /\ LockOK(v.q[x])
  BY <1>1 DEF prvLockQueue, LockOK, QueueFields, queueUNLOCKED, queueLOCKED_UNMODIFIED
<1>3. ServesBut(u, u, x)
  BY WakesSelf DEF ServesBut, ServiceOK
<1> HIDE DEF v
<1>4. QED
  BY <1>1, <1>2, <1>3, LockChanges DEF v

\* xQueueGenericReset gives up the locks too.
LEMMA ResetServes ==
    ASSUME NEW u, ServiceOK(u), NEW x \in Queue_t
    PROVE  ServesBut(xQueueGenericReset(u, x), u, x)
           /\ xQueueGenericReset(u, x).q[x].tx = queueUNLOCKED
<1> DEFINE w == [u EXCEPT !.q[x].count = 0, !.q[x].writeTo = 0,
                         !.q[x].readFrom = u.q[x].length - 1,
                         !.q[x].rx = queueUNLOCKED, !.q[x].tx = queueUNLOCKED]
           v == xQueueGenericReset(u, x)
<1>1. DOMAIN u = {"k", "q"} /\ DOMAIN u.q = Queue_t /\ LockOK(u.q[x])
      /\ u.q[x].set \in Queue_t \cup {NoQueue}
  BY DEF ServiceOK
<1>2. v = WakeHead(w, ToSend(x))
  BY DEF xQueueGenericReset
<1>3. /\ DOMAIN w = {"k", "q"} /\ w.k = u.k /\ DOMAIN w.q = Queue_t
      /\ \A y \in Queue_t \ {x} : w.q[y] = u.q[y]
      /\ w.q[x].tx = queueUNLOCKED /\ w.q[x].set = u.q[x].set /\ LockOK(w.q[x])
  BY <1>1 DEF LockOK, QueueFields
<1>4. ServesBut(u, u, x)
  BY WakesSelf DEF ServesBut, ServiceOK
<1> HIDE DEF w, v
<1>5. ServesBut(w, u, x)
  BY <1>1, <1>3, <1>4, LockChanges
<1>6. Serves(v, w, Queue_t)
  BY <1>2, <1>5, WakeServes DEF ServesBut
<1>7. QED
  BY <1>3, <1>5, <1>6, WakesBoth DEF ServesBut, Serves, v

\* The count of calls of a recursive mutex,
LEMMA DepthServes ==
    ASSUME NEW u, ServiceOK(u), NEW x \in Queue_t, NEW d, NEW X
    PROVE  Serves([u EXCEPT !.q[x].depth = d], u, X)
<1> DEFINE v == [u EXCEPT !.q[x].depth = d]
<1>1. /\ DOMAIN u = {"k", "q"} /\ DOMAIN u.q = Queue_t /\ DOMAIN u.q[x] = QueueFields
      /\ u.q[x].holder \in Task \cup {NoTask}
  BY DEF ServiceOK, LockOK
<1>2. /\ DOMAIN v = {"k", "q"} /\ v.k = u.k /\ DOMAIN v.q = Queue_t
      /\ \A y \in Queue_t \ {x} : v.q[y] = u.q[y]
      /\ SameLocks(v.q[x], u.q[x])
  BY <1>1 DEF SameLocks, QueueFields
<1> HIDE DEF v
<1>3. QED
  BY <1>2, SameLocksServe DEF v

\* and its queue set change alone.
LEMMA SetServes ==
    ASSUME NEW u, ServiceOK(u), NEW x \in Queue_t, NEW set \in Queue_t \cup {NoQueue}
    PROVE  LET v == [u EXCEPT !.q[x].set = set]
           IN  ServesBut(v, u, x) /\ v.q[x].tx = u.q[x].tx
<1> DEFINE v == [u EXCEPT !.q[x].set = set]
<1>1. DOMAIN u = {"k", "q"} /\ DOMAIN u.q = Queue_t /\ LockOK(u.q[x])
  BY DEF ServiceOK
<1>2. /\ DOMAIN v = {"k", "q"} /\ v.k = u.k /\ DOMAIN v.q = Queue_t
      /\ \A y \in Queue_t \ {x} : v.q[y] = u.q[y]
      /\ v.q[x].tx = u.q[x].tx /\ LockOK(v.q[x]) /\ v.q[x].set \in Queue_t \cup {NoQueue}
  BY <1>1 DEF LockOK, QueueFields
<1>3. ServesBut(u, u, x)
  BY WakesSelf DEF ServesBut, ServiceOK
<1> HIDE DEF v
<1>4. QED
  BY <1>2, <1>3, LockChanges DEF v

-----------------------------------------------------------------------------
(* A step of a task or an interrupt *)

LEMMA KernelFine ==
    ASSUME LockInv
    PROVE  /\ ServiceOK(s) /\ KernelOK(k) /\ s.k = k /\ s.q = q
           /\ k.current \in Task /\ k.suspensions \in {0, 1}
           /\ Idle \in Ready(k)
BY DEF LockInv, ServiceOK, KernelOK, Timed, s

\* A task in its own code, or elsewhere with the scheduler running.
LEMMA OwnIs ==
    ASSUME LockInv, NEW t \in Task, NEW where, At(t, where), where \notin Suspending
    PROVE  /\ k.current = t /\ ~k.pendsv /\ k.suspensions = 0
           /\ t \in Ready(k)
           /\ \A y \in Queue_t : q[y].tx = queueUNLOCKED
<1>1. k.current = t /\ ~k.pendsv /\ pc[t] \notin Suspending
  BY DEF At
<1>2. k.suspensions = 0
  BY <1>1, KernelFine DEF LockInv, Suspended
<1>3. k.suspensions # 1
  BY <1>2
<1>4. QED
  BY <1>1, <1>2, <1>3 DEF LockInv, LocksHeld, CurrentGoesOn

LEMMA WaitsStay ==
    ASSUME CallsWait, UNCHANGED <<pc, call>>
    PROVE  CallsWait'
BY DEF CallsWait

LEMMA WaitsGoOn ==
    ASSUME FifoInv, CallsWait, NEW t \in Task, NEW where, NEW c,
           pc' = [pc EXCEPT ![t] = where],
           call' = [call EXCEPT ![t] = c] \/ (call' = call /\ c = call[t]),
           where \notin {"run", "remove"} => CallWaits(c, where)
    PROVE  CallsWait'
<1>1. DOMAIN pc = Task /\ DOMAIN call = Task
  BY DEF FifoInv, CallsOK
<1>2. pc'[t] = where /\ call'[t] = c
  BY <1>1
<1>3. \A u \in Task \ {t} : pc'[u] = pc[u] /\ call'[u] = call[u]
  BY <1>1
<1>4. ASSUME NEW u \in Task, pc'[u] \notin {"run", "remove"}
      PROVE  CallWaits(call'[u], pc'[u])
  <2>1. CASE u = t
    BY <1>2, <1>4, <2>1
  <2>2. CASE u # t
    BY <1>3, <1>4, <2>2 DEF CallsWait
  <2>3. QED
    BY <2>1, <2>2
<1>5. QED
  BY <1>4 DEF CallsWait

LEMMA ServiceAfter ==
    ASSUME NEW w, ServiceOK(w), Becomes(w)
    PROVE  ServiceOK(s)'
BY DEF ServiceOK, Becomes, s

\* With the scheduler running, the running task goes on, or its call does.
LEMMA RunsOn ==
    ASSUME FifoInv, LockInv, QueuesMove, CallsWait', NEW t \in Task,
           k.current = t, k.suspensions = 0,
           NEW w, ServiceOK(w), Wakes(w.k, k), Becomes(w),
           \A y \in Queue_t : w.q[y].tx = queueUNLOCKED,
           \A u \in Task \ {t} : pc'[u] = pc[u], pc'[t] \notin Suspending
    PROVE  LockInv'
<1>1. k' = w.k /\ q' = w.q
  BY DEF Becomes
<1>2. /\ k'.current = t /\ k'.suspensions = 0 /\ Ready(k) \subseteq Ready(k')
      /\ k.pendsv => k'.pendsv
  BY <1>1 DEF Wakes
<1>3. ServiceOK(s)' /\ Idle \in Ready(k')
  BY <1>2, ServiceAfter DEF LockInv
<1>4. Suspended'
  <2>1. \A u \in Task : pc[u] \notin Suspending
    BY DEF LockInv, Suspended
  <2>2. \A u \in Task : pc'[u] \notin Suspending
    BY <2>1
  <2>3. QED
    BY <1>2, <2>2 DEF Suspended
<1>5. LocksHeld'
  BY <1>1 DEF LocksHeld
<1>6. CurrentGoesOn'
  <2>1. k.current \notin Ready(k) => k.pendsv
    BY DEF LockInv, CurrentGoesOn
  <2>2. k'.current \notin Ready(k') => k'.pendsv
    BY <1>2, <2>1
  <2>3. k'.suspensions # 1
    BY <1>2
  <2>4. QED
    BY <2>2, <2>3 DEF CurrentGoesOn
<1>7. QED
  BY <1>3, <1>4, <1>5, <1>6 DEF LockInv

\* What an interrupt does, wherever the tasks are.
LEMMA InterruptsIn ==
    ASSUME FifoInv, LockInv, QueuesMove, UNCHANGED <<pc, call>>,
           NEW w, NEW X, Serves(w, s, X), Becomes(w)
    PROVE  LockInv'
<1>1. k' = w.k /\ q' = w.q /\ s.k = k /\ s.q = q
  BY DEF Becomes, s
<1>2. /\ k'.current = k.current /\ k'.suspensions = k.suspensions
      /\ Ready(k) \subseteq Ready(k')
      /\ k.pendsv => k'.pendsv
  BY <1>1 DEF Serves, Wakes
<1>3. \A y \in Queue_t : q'[y].tx = queueUNLOCKED <=> q[y].tx = queueUNLOCKED
  BY <1>1 DEF Serves
<1>4. ServiceOK(s)' /\ Idle \in Ready(k')
  BY <1>2, ServiceAfter DEF LockInv, Serves
<1> DEFINE c == k.current
           n == k.suspensions
<1>0. /\ pc' = pc /\ call' = call /\ k'.current = c /\ k'.suspensions = n
  BY <1>2
<1>5. Suspended'
  <2>1. \A t \in Task : pc[t] \in Suspending <=> n = 1 /\ t = c
    BY DEF LockInv, Suspended
  <2> HIDE DEF c, n
  <2>2. QED
    BY <1>0, <2>1 DEF Suspended
<1>6. LocksHeld'
  <2>1. \A y \in Queue_t : q[y].tx # queueUNLOCKED =>
          n = 1 /\ pc[c] \in Locking /\ call[c].x = y
    BY DEF LockInv, LocksHeld
  <2> HIDE DEF c, n
  <2>2. QED
    BY <1>0, <1>3, <2>1 DEF LocksHeld
<1>7. CurrentGoesOn'
  <2>1. c \notin Ready(k) =>
          IF n = 1 THEN pc[c] \in Leaving /\ call[c].placed ELSE k.pendsv
    BY DEF LockInv, CurrentGoesOn
  <2>2. (c \in Ready(k) => c \in Ready(k')) /\ (k.pendsv => k'.pendsv)
    BY <1>2
  <2> HIDE DEF c, n
  <2>3. QED
    BY <1>0, <2>1, <2>2 DEF CurrentGoesOn
<1>8. CallsWait'
  BY WaitsStay DEF LockInv
<1>9. QED
  BY <1>4, <1>5, <1>6, <1>7, <1>8 DEF LockInv

-----------------------------------------------------------------------------
(* The steps of a task that waits *)

\* With the scheduler suspended, the task that suspended it goes on.
LEMMA LocksOn ==
    ASSUME FifoInv, LockInv, QueuesMove, CallsWait', NEW t \in Task,
           k.suspensions = 1 => k.current = t,
           NEW w, ServiceOK(w), Becomes(w), w.k.current = t, w.k.suspensions = 1,
           Idle \in Ready(w.k),
           \A u \in Task \ {t} : pc'[u] = pc[u], pc'[t] \in Suspending,
           \A y \in Queue_t : w.q[y].tx # queueUNLOCKED =>
             pc'[t] \in Locking /\ call'[t].x = y,
           t \notin Ready(w.k) => pc'[t] \in Leaving /\ call'[t].placed
    PROVE  LockInv'
<1>1. k' = w.k /\ q' = w.q
  BY DEF Becomes
<1>2. k'.current = t /\ k'.suspensions = 1
  BY <1>1
<1>3. ServiceOK(s)' /\ Idle \in Ready(k')
  BY <1>1, ServiceAfter
<1>4. Suspended'
  <2>1. \A u \in Task \ {t} : pc[u] \notin Suspending
    BY DEF LockInv, Suspended
  <2>2. \A u \in Task : pc'[u] \in Suspending <=> u = t
    BY <2>1
  <2>3. QED
    BY <1>2, <2>2 DEF Suspended
<1>5. LocksHeld'
  BY <1>1, <1>2 DEF LocksHeld
<1>6. CurrentGoesOn'
  BY <1>1, <1>2 DEF CurrentGoesOn
<1>7. QED
  BY <1>3, <1>4, <1>5, <1>6 DEF LockInv

LEMMA LockingIs ==
    ASSUME LockInv, NEW t \in Task, NEW where, At(t, where), where \in Suspending
    PROVE  /\ k.current = t /\ k.suspensions = 1
           /\ where \notin Leaving => t \in Ready(k)
           /\ t \notin Ready(k) => call[t].placed
           /\ \A y \in Queue_t : q[y].tx # queueUNLOCKED => where \in Locking /\ call[t].x = y
<1>1. k.current = t /\ pc[t] = where
  BY DEF At
<1>2. k.suspensions = 1
  BY <1>1 DEF LockInv, Suspended
<1>3. QED
  BY <1>1, <1>2 DEF LockInv, LocksHeld, CurrentGoesOn

LEMMA GoesIs ==
    ASSUME FifoInv, NEW t \in Task, NEW where, Goes(t, where)
    PROVE  pc'[t] = where /\ \A u \in Task \ {t} : pc'[u] = pc[u]
BY DEF FifoInv, CallsOK, Goes

\* What the critical section that a call waits for leaves.
Served(w) ==
    /\ ServiceOK(w) /\ Wakes(w.k, k)
    /\ \A y \in Queue_t : w.q[y].tx = queueUNLOCKED

LEMMA ServedIs ==
    ASSUME LockInv, \A y \in Queue_t : q[y].tx = queueUNLOCKED, NEW w,
           \/ Serves(w, s, Queue_t)
           \/ \E x \in Queue_t : ServesBut(w, s, x) /\ w.q[x].tx = queueUNLOCKED
    PROVE  Served(w)
BY DEF Served, Serves, ServesBut, s

LEMMA DoServes ==
    ASSUME LockInv, \A y \in Queue_t : q[y].tx = queueUNLOCKED,
           NEW c, CallOK(c, q, calls)
    PROVE  Served(Do(c))
<1>1. ServiceOK(s) /\ c.x \in Queue_t /\ Unlocked(s) \subseteq Queue_t
  BY DEF LockInv, CallOK, Unlocked
<1>2. CASE Sends(c)
  <2>1. Do(c) = Send(s, c.x, c.item, c.op)
    BY <1>2 DEF Do, Sends
  <2>2. QED
    BY <1>1, <2>1, SendServes, ServedIs
<1>3. CASE c.op \in {"receive", "select", "peek", "take"}
  <2>1. Do(c) \in {Receive(s, c.x), Peek(s, c.x), Take(s, c.x)}
    BY <1>3 DEF Do, Sends
  <2>2. QED
    BY <1>1, <2>1, TakenServes, ServedIs
<1>4. CASE c.op = "take_recursive"
  <2> DEFINE w == Take(s, c.x)
             x == c.x
  <2>1. Do(c) = [w EXCEPT !.q[x].depth = w.q[x].depth + 1]
    BY <1>4 DEF Do, Sends
  <2>2. Serves(w, s, Queue_t)
    BY <1>1, TakenServes
  <2> HIDE DEF w, x
  <2>3. Serves(Do(c), w, Queue_t)
    <3>1. x \in Queue_t /\ ServiceOK(w)
      BY <1>1, <2>2 DEF Serves, x
    <3>2. \A d : Serves([w EXCEPT !.q[x].depth = d], w, Queue_t)
      BY <3>1, DepthServes
    <3>3. QED
      BY <2>1, <3>2
  <2>4. QED
    BY <2>2, <2>3, ServesBoth, ServedIs
<1>5. QED
  BY <1>2, <1>3, <1>4 DEF CallOK, Sends

\* RunsOn, when queues change or not.
LEMMA ServedOn ==
    ASSUME FifoInv, LockInv, QueuesMove, CallsWait', NEW t \in Task,
           k.current = t, k.suspensions = 0,
           NEW w, Served(w), Becomes(w),
           \A u \in Task \ {t} : pc'[u] = pc[u], pc'[t] \notin Suspending
    PROVE  LockInv'
BY RunsOn DEF Served

LEMMA ServedNone ==
    ASSUME LockInv, \A y \in Queue_t : q[y].tx = queueUNLOCKED, UNCHANGED <<k, q>>
    PROVE  Served(s) /\ Becomes(s)
<1>1. Served(s)
  BY ServesSelf, ServedIs DEF LockInv
<1>2. QED
  BY <1>1 DEF Becomes, s

LEMMA AttemptLocks ==
    ASSUME FifoInv, LockInv, QueuesMove, FifoInv', NEW t \in Task,
           k.current = t, k.suspensions = 0, \A y \in Queue_t : q[y].tx = queueUNLOCKED,
           NEW c, CallOK(c, q, calls), CallWaits(c, "attempt"), AttemptCall(t, c)
    PROVE  LockInv'
<1>1. CallsWait
  BY DEF LockInv
<1>2. CASE Can(c) /\ Becomes(Do(c)) /\ Deliver(c) /\ Proceeds(t, c)
  <2>1. Served(Do(c))
    BY DoServes
  <2>2. CallsWait' /\ (\A u \in Task \ {t} : pc'[u] = pc[u]) /\ pc'[t] \notin Suspending
    <3>1. CASE c.op # "select"
      <4>1. Goes(t, "run") /\ call' = [call EXCEPT ![t] = NoCall]
        BY <1>2, <3>1 DEF Proceeds, Returns
      <4>2. CallsWait'
        BY <1>1, <4>1, WaitsGoOn DEF Goes
      <4>3. QED
        BY <4>1, <4>2, GoesIs DEF Suspending
    <3>2. CASE c.op = "select"
      <4> DEFINE x == NextItem(s, c.x)
                 new == NewCall(IF q[x].type = "queue" THEN "receive" ELSE "take", x,
                                NoItem, 0)
      <4>1. Goes(t, "attempt") /\ call' = [call EXCEPT ![t] = new]
        BY <1>2, <3>2 DEF Proceeds
      <4>2. CallWaits(new, "attempt")
        BY DEF CallWaits, NewCall
      <4> HIDE DEF new
      <4>3. CallsWait'
        BY <1>1, <4>1, <4>2, WaitsGoOn DEF Goes
      <4>4. QED
        BY <4>1, <4>3, GoesIs DEF Suspending
    <3>3. QED
      BY <3>1, <3>2
  <2>3. QED
    BY <1>2, <2>1, <2>2, ServedOn
<1>3. CASE Returns(t) /\ UNCHANGED <<k, q, delivered>>
  <2>1. Goes(t, "run") /\ call' = [call EXCEPT ![t] = NoCall]
    BY <1>3 DEF Returns
  <2>2. CallsWait'
    BY <1>1, <2>1, WaitsGoOn DEF Goes
  <2>3. Served(s) /\ Becomes(s)
    BY <1>3, ServedNone
  <2>4. QED
    BY <2>1, <2>2, <2>3, GoesIs, ServedOn DEF Suspending
<1>4. CASE /\ c.ticks > 0
           /\ call' = [call EXCEPT ![t] = Entered(c)] /\ Goes(t, "suspend")
           /\ UNCHANGED <<k, q, delivered>>
  <2>1. DOMAIN c = CallFields /\ k.tick \in Int
    BY KernelFine DEF CallOK, KernelOK, Timed, Tick
  <2>2. CallWaits(Entered(c), "suspend")
    <3>1. Entered(c).ticks = c.ticks
      BY <2>1 DEF Entered, CallFields
    <3>2. Entered(c).timeout.entering \in Int
      <4>1. CASE c.timeout = NoTimeOut
        BY <2>1, <4>1 DEF Entered, CallFields, vTaskInternalSetTimeOutState
      <4>2. CASE c.timeout # NoTimeOut
        BY <4>2 DEF Entered, CallWaits
      <4>3. QED
        BY <4>1, <4>2
    <3>3. QED
      BY <3>1, <3>2 DEF CallWaits
  <2>3. CallsWait'
    BY <1>1, <1>4, <2>2, WaitsGoOn DEF Goes
  <2>4. Served(s) /\ Becomes(s)
    BY <1>4, ServedNone
  <2>5. QED
    BY <1>4, <2>3, <2>4, GoesIs, ServedOn DEF Suspending
<1>5. QED
  BY <1>2, <1>3, <1>4 DEF AttemptCall

LEMMA CallLocks ==
    ASSUME FifoInv, LockInv, QueuesMove, FifoInv', NEW t \in Task, Call(t) \/ Attempt(t)
    PROVE  LockInv'
<1>1. CASE Call(t)
  <2>1. PICK c \in calls :
          LET new == NewCall(c[1], c[2], c[3], c[4])
          IN  /\ Sends(new) \/ new.op \in {"receive", "peek", "select"} \/ Takes(new)
              /\ AttemptCall(t, new)
    BY <1>1 DEF Call
  <2> DEFINE new == NewCall(c[1], c[2], c[3], c[4])
  <2>2. Allowed(c, q, calls) /\ (c[1] = "select" => c[2] \in SelectedFrom(calls))
    BY DEF FifoInv, IsApplication, SelectedFrom
  <2>3. /\ new.op = c[1] /\ new.x = c[2] /\ new.item = c[3] /\ new.ticks = c[4]
        /\ new.timeout = NoTimeOut
        /\ DOMAIN new = CallFields
    BY DEF NewCall, CallFields
  <2>4. AttemptCall(t, new)
        /\ (Sends(new) \/ new.op \in {"receive", "peek", "select"} \/ Takes(new))
    BY <2>1
  <2> HIDE DEF new
  <2>5. CallOK(new, q, calls)
    BY <2>2, <2>3, <2>4 DEF CallOK, Allowed, Sends, Takes
  <2>6. CallWaits(new, "attempt")
    <3>1. new.ticks \in Int
      BY <2>2, <2>3, TickAssumption DEF Allowed, Tick
    <3>2. QED
      BY <2>3, <3>1 DEF CallWaits
  <2>7. /\ k.current = t /\ k.suspensions = 0
        /\ \A y \in Queue_t : q[y].tx = queueUNLOCKED
    BY <1>1, OwnIs DEF Call, Suspending
  <2>8. QED
    BY <2>4, <2>5, <2>6, <2>7, AttemptLocks
<1>2. CASE Attempt(t)
  <2>1. pc[t] = "attempt" /\ AttemptCall(t, call[t]) /\ At(t, "attempt")
    BY <1>2 DEF Attempt, At
  <2>2. CallOK(call[t], q, calls) /\ CallWaits(call[t], "attempt")
    BY <2>1, InCallIsOK DEF LockInv, CallsWait
  <2>3. /\ k.current = t /\ k.suspensions = 0
        /\ \A y \in Queue_t : q[y].tx = queueUNLOCKED
    BY <2>1, OwnIs DEF Suspending
  <2>4. QED
    BY <2>1, <2>2, <2>3, AttemptLocks
<1>3. QED
  BY <1>1, <1>2

LEMMA WaitsOn ==
    ASSUME FifoInv, LockInv, NEW t \in Task, NEW from,
           pc[t] = from, from \notin {"run", "remove", "attempt"}, NEW where,
           pc' = [pc EXCEPT ![t] = where], call' = call
    PROVE  CallsWait'
<1>1. CallWaits(call[t], from) /\ CallsWait
  BY DEF LockInv, CallsWait
<1>2. CallWaits(call[t], where)
  BY <1>1 DEF CallWaits
<1>3. QED
  BY <1>1, <1>2, WaitsGoOn

LEMMA SuspendLocks ==
    ASSUME FifoInv, LockInv, QueuesMove, FifoInv', NEW t \in Task, SuspendAll(t)
    PROVE  LockInv'
<1> DEFINE w == [s EXCEPT !.k = vTaskSuspendAll(k)]
<1>1. /\ At(t, "suspend") /\ Goes(t, "lock") /\ UNCHANGED <<q, call>>
      /\ k' = vTaskSuspendAll(k)
  BY DEF SuspendAll
<1>2. /\ k.current = t /\ k.suspensions = 0 /\ t \in Ready(k)
      /\ \A y \in Queue_t : q[y].tx = queueUNLOCKED
  BY <1>1, OwnIs DEF Suspending
<1>3. /\ KernelOK(k') /\ k'.suspensions = 1 /\ k'.current = t /\ Ready(k') = Ready(k)
  BY <1>1, <1>2, SuspendAllIs, KernelFine
<1>4. w.k = k' /\ w.q = q /\ DOMAIN w = {"k", "q"}
  BY <1>1 DEF s
<1> HIDE DEF w
<1>5. ServiceOK(w) /\ Becomes(w)
  BY <1>1, <1>3, <1>4 DEF LockInv, ServiceOK, Becomes, s
<1>6. CallsWait'
  BY <1>1, WaitsOn DEF At, Goes
<1>7. pc'[t] = "lock" /\ \A u \in Task \ {t} : pc'[u] = pc[u]
  BY <1>1, GoesIs
<1>8. QED
  BY <1>2, <1>3, <1>4, <1>5, <1>6, <1>7, KernelFine, LocksOn DEF Suspending

LEMMA LockLocks ==
    ASSUME FifoInv, LockInv, QueuesMove, FifoInv', NEW t \in Task, LockQueue(t)
    PROVE  LockInv'
<1> DEFINE x == call[t].x
           w == prvLockQueue(s, x)
<1>1. /\ At(t, "lock") /\ Goes(t, "check") /\ UNCHANGED call /\ Becomes(w)
  BY DEF LockQueue
<1>2. /\ k.current = t /\ k.suspensions = 1 /\ t \in Ready(k)
      /\ \A y \in Queue_t : q[y].tx = queueUNLOCKED
  BY <1>1, LockingIs DEF Suspending, Leaving, Locking
<1>3. x \in Queue_t
  BY <1>1, InCallIsOK DEF At
<1>4. ServesBut(w, s, x)
  BY <1>3, LockServes, KernelFine
<1> HIDE DEF w, x
<1>5. /\ ServiceOK(w) /\ w.k.current = t /\ w.k.suspensions = 1
      /\ Ready(k) \subseteq Ready(w.k)
      /\ \A y \in Queue_t : w.q[y].tx # queueUNLOCKED => y = x
  BY <1>2, <1>4, KernelFine DEF ServesBut, Wakes
<1>6. CallsWait'
  BY <1>1, WaitsOn DEF At, Goes
<1>7. pc'[t] = "check" /\ \A u \in Task \ {t} : pc'[u] = pc[u]
  BY <1>1, GoesIs
<1>8. \A y \in Queue_t : w.q[y].tx # queueUNLOCKED =>
        pc'[t] \in Locking /\ call'[t].x = y
  BY <1>1, <1>5, <1>7 DEF Locking, x
<1>9. QED
  BY <1>1, <1>2, <1>5, <1>6, <1>7, <1>8, KernelFine, LocksOn DEF Suspending

LEMMA UnlockLocks ==
    ASSUME FifoInv, LockInv, QueuesMove, FifoInv', NEW t \in Task,
           UnlockQueueTx(t) \/ UnlockQueueRx(t)
    PROVE  LockInv'
<1>1. PICK w, from, where :
        /\ At(t, from) /\ Goes(t, where) /\ UNCHANGED call /\ Becomes(w)
        /\ \/ from = "unlockTx" /\ where = "unlockRx" /\ w = prvUnlockQueueTx(s, call[t].x)
           \/ from = "unlockRx" /\ where = "resume" /\ w = prvUnlockQueueRx(s, call[t].x)
  BY DEF UnlockQueueTx, UnlockQueueRx
<1> DEFINE x == call[t].x
<1>2. /\ k.current = t /\ k.suspensions = 1
      /\ t \notin Ready(k) => call[t].placed
      /\ \A y \in Queue_t : q[y].tx # queueUNLOCKED => from \in Locking /\ x = y
  BY <1>1, LockingIs DEF Suspending
<1>3. x \in Queue_t
  BY <1>1, InCallIsOK DEF At
<1>4. ServesBut(w, s, x) /\ w.q[x].tx = queueUNLOCKED
  <2>1. CASE from = "unlockTx"
    BY <1>1, <1>3, <2>1, UnlockTxServes, KernelFine
  <2>2. CASE from = "unlockRx"
    <3>1. q[x].tx = queueUNLOCKED
      BY <1>2, <1>3, <2>2 DEF Locking
    <3>2. QED
      BY <1>1, <1>3, <2>2, <3>1, UnlockRxServes, KernelFine
  <2>3. QED
    BY <1>1, <2>1, <2>2
<1> HIDE DEF x
<1>5. /\ ServiceOK(w) /\ w.k.current = t /\ w.k.suspensions = 1
      /\ Ready(k) \subseteq Ready(w.k)
      /\ \A y \in Queue_t : w.q[y].tx = queueUNLOCKED
  BY <1>2, <1>4, KernelFine DEF ServesBut, Wakes
<1>6. CallsWait'
  BY <1>1, WaitsOn DEF At, Goes
<1>7. pc'[t] = where /\ \A u \in Task \ {t} : pc'[u] = pc[u]
  BY <1>1, GoesIs
<1>8. pc'[t] \in Leaving /\ pc'[t] \in Suspending
  BY <1>1, <1>7 DEF Leaving, Suspending
<1>9. QED
  BY <1>1, <1>2, <1>5, <1>6, <1>7, <1>8, KernelFine, LocksOn

LEMMA CheckLocks ==
    ASSUME FifoInv, LockInv, QueuesMove, FifoInv', NEW t \in Task, Check(t)
    PROVE  LockInv'
<1> DEFINE c == call[t]
           r == xTaskCheckForTimeOut(k, c.timeout, c.ticks)
           where == IF r.expired \/ Can(c) THEN "unlockTx" ELSE "place"
           d == [c EXCEPT !.timeout = r.timeout, !.ticks = r.ticks,
                          !.expired = r.expired, !.placed = FALSE]
<1>1. At(t, "check") /\ Goes(t, where) /\ UNCHANGED <<k, q>>
  BY DEF Check
<1>2. /\ k.current = t /\ k.suspensions = 1 /\ t \in Ready(k)
      /\ \A y \in Queue_t : q[y].tx # queueUNLOCKED => c.x = y
  BY <1>1, LockingIs DEF Suspending, Leaving
<1>3. CallOK(c, q, calls) /\ CallWaits(c, "check")
  BY <1>1, InCallIsOK DEF At, LockInv, CallsWait
<1>4. DOMAIN c = CallFields /\ DOMAIN call = Task
  BY <1>3 DEF CallOK, FifoInv, CallsOK
<1>5. call' = [call EXCEPT ![t] = d]
  BY <1>4 DEF Check, CallFields
<1>6. d.timeout = r.timeout /\ d.ticks = r.ticks /\ d.x = c.x
  BY <1>4 DEF CallFields
<1>7. r.ticks \in Int /\ r.timeout.entering \in Int
  <2>1. c.ticks \in Int /\ c.timeout.entering \in Int /\ k.tick \in Int
    BY <1>3, KernelFine DEF CallWaits, KernelOK, Timed, Tick
  <2>2. (k.tick - c.timeout.entering) % TickMod \in Int
    <3>1. k.tick - c.timeout.entering \in Int /\ TickMod \in Nat \ {0}
      BY <2>1, TickAssumption
    <3>2. (k.tick - c.timeout.entering) % TickMod \in 0 .. TickMod - 1
      BY <3>1, ModIs
    <3>3. QED
      BY <3>1, <3>2
  <2> DEFINE a == c.ticks
             o == c.timeout
             e == (k.tick - o.entering) % TickMod
  <2>3. r = LET lapped == k.overflows # o.overflows /\ k.tick >= o.entering
            IN  IF a = portMAX_DELAY
                  THEN [expired |-> FALSE, timeout |-> o, ticks |-> a]
                ELSE IF ~lapped /\ e < a
                  THEN [expired |-> FALSE, timeout |-> vTaskInternalSetTimeOutState(k),
                        ticks |-> a - e]
                ELSE [expired |-> TRUE, timeout |-> o, ticks |-> 0]
    BY DEF xTaskCheckForTimeOut
  <2> HIDE DEF a, e, r
  <2>4. a \in Int /\ o.entering \in Int /\ e \in Int
    BY <2>1, <2>2 DEF a, e
  <2>5. a - e \in Int
    BY <2>4
  <2>6. CASE a = portMAX_DELAY
    BY <2>3, <2>4, <2>6 DEF a
  <2>7. CASE a # portMAX_DELAY
    BY <2>1, <2>3, <2>4, <2>5, <2>7 DEF a, vTaskInternalSetTimeOutState
  <2>8. QED
    BY <2>6, <2>7
<1>8. CallWaits(d, where)
  <2> HIDE DEF d, r
  <2>1. QED
    BY <1>6, <1>7 DEF CallWaits
<1> HIDE DEF d, r
<1>9. CallsWait'
  BY <1>1, <1>5, <1>8, WaitsGoOn DEF LockInv, Goes
<1>10. pc'[t] = where /\ \A u \in Task \ {t} : pc'[u] = pc[u]
  BY <1>1, GoesIs
<1>11. pc'[t] \in Locking /\ pc'[t] \in Suspending /\ call'[t].x = c.x
  BY <1>4, <1>5, <1>6, <1>10 DEF Locking, Suspending
<1>12. Becomes(s)
  BY <1>1 DEF Becomes, s
<1>13. QED
  BY <1>2, <1>9, <1>10, <1>11, <1>12, KernelFine, LocksOn

LEMMA PlaceLocks ==
    ASSUME FifoInv, LockInv, QueuesMove, FifoInv', NEW t \in Task \ {Idle}, Place(t)
    PROVE  LockInv'
<1> DEFINE c == call[t]
           lends == Takes(c) /\ IsMutex(s, c.x)
           lent == IF lends THEN xTaskPriorityInherit(k, q[c.x].holder) ELSE k
           j == vTaskPlaceOnEventList(lent, ListOf(c), c.ticks)
           d == [c EXCEPT !.inherited = lends /\ Inherits(k, q[c.x].holder),
                          !.placed = TRUE]
           w == [s EXCEPT !.k = j]
<1>1. At(t, "place") /\ Goes(t, "unlockTx") /\ UNCHANGED q /\ k' = j
  BY DEF Place
<1>2. /\ k.current = t /\ k.suspensions = 1 /\ t \in Ready(k)
      /\ \A y \in Queue_t : q[y].tx # queueUNLOCKED => c.x = y
  BY <1>1, LockingIs DEF Suspending, Leaving
<1>3. CallOK(c, q, calls) /\ CallWaits(c, "place")
  BY <1>1, InCallIsOK DEF At, LockInv, CallsWait
<1>4. DOMAIN c = CallFields /\ DOMAIN call = Task /\ c.x \in Queue_t
  BY <1>3 DEF CallOK, FifoInv, CallsOK
<1>5. call' = [call EXCEPT ![t] = d]
  BY <1>4 DEF Place, CallFields
<1>6. d.timeout = c.timeout /\ d.ticks = c.ticks /\ d.x = c.x /\ d.placed = TRUE
  BY <1>4 DEF CallFields
<1>7. CallWaits(d, "unlockTx")
  <2> HIDE DEF d
  <2>1. QED
    BY <1>3, <1>6 DEF CallWaits
<1>8. Wakes(lent, k)
  <2>1. q[c.x].holder \in Task \cup {NoTask}
    BY <1>4, KernelFine DEF ServiceOK, LockOK
  <2>2. QED
    BY <2>1, InheritWakes, WakesSelf, KernelFine
<1>9. ListOf(c) \in EventLists /\ c.ticks \in Int
  BY <1>3, <1>4, EventListsAssumption DEF ListOf, CallWaits
<1> HIDE DEF lent, d, lends
<1>10. KernelOK(lent) /\ lent.current = t /\ t \in Ready(lent) /\ lent.suspensions = 1
       /\ Idle \in Ready(lent)
  BY <1>2, <1>8, KernelFine DEF Wakes
<1>11. LeavesReady(j, lent)
  BY <1>9, <1>10, PlaceLeaves
<1> HIDE DEF j
<1>12. KernelOK(j) /\ j.current = t /\ j.suspensions = 1 /\ Idle \in Ready(j)
  BY <1>10, <1>11 DEF LeavesReady
<1>13. w.k = j /\ w.q = q /\ DOMAIN w = {"k", "q"}
  BY DEF s
<1> HIDE DEF w
<1>14. ServiceOK(w) /\ Becomes(w)
  BY <1>1, <1>12, <1>13 DEF LockInv, ServiceOK, Becomes, s
<1>15. CallsWait'
  BY <1>1, <1>5, <1>7, WaitsGoOn DEF LockInv, Goes
<1>16. pc'[t] = "unlockTx" /\ \A u \in Task \ {t} : pc'[u] = pc[u]
  BY <1>1, GoesIs
<1>17. pc'[t] \in Locking /\ pc'[t] \in Leaving /\ pc'[t] \in Suspending
       /\ call'[t].x = c.x /\ call'[t].placed
  BY <1>4, <1>5, <1>6, <1>16 DEF Locking, Leaving, Suspending
<1>18. \A y \in Queue_t : w.q[y].tx # queueUNLOCKED => call'[t].x = y
  BY <1>2, <1>13, <1>17
<1> HIDE DEF c
<1>19. QED
  BY <1>2, <1>12, <1>13, <1>14, <1>15, <1>16, <1>17, <1>18, LocksOn

LEMMA ResumeLocks ==
    ASSUME FifoInv, LockInv, QueuesMove, FifoInv', NEW t \in Task, ResumeAll(t)
    PROVE  LockInv'
<1> DEFINE c == call[t]
           r == xTaskResumeAll(k)
           e == c.placed /\ ~AlreadyYielded(r)
<1>1. At(t, "resume") /\ UNCHANGED q /\ k' = YieldIf(r, e)
  BY DEF ResumeAll
<1>2. /\ k.current = t /\ k.suspensions = 1
      /\ t \notin Ready(k) => c.placed
      /\ \A y \in Queue_t : q[y].tx = queueUNLOCKED
  BY <1>1, LockingIs DEF Suspending, Locking
<1>3. /\ KernelOK(r) /\ r.suspensions = 0 /\ r.current = t /\ Ready(k) \subseteq Ready(r)
      /\ r.yield => r.pendsv
  BY <1>2, ResumeWakes, KernelFine
<1> HIDE DEF r
<1>4. Wakes(k', r)
  BY <1>1, <1>3, FlagSet
<1>5. e => k'.pendsv
  BY <1>1, <1>3 DEF YieldIf, portYIELD, KernelOK, Good, Sound, Shape, KernelFields
<1>6. /\ KernelOK(k') /\ k'.suspensions = 0 /\ k'.current = t /\ Ready(k) \subseteq Ready(k')
      /\ r.pendsv => k'.pendsv
  BY <1>3, <1>4 DEF Wakes
<1>7. ServiceOK(s)' /\ Idle \in Ready(k')
  BY <1>1, <1>6 DEF LockInv, ServiceOK, s
<1>8. PICK where : /\ where \in {"run", "recheck", "attempt"} /\ Goes(t, where)
                   /\ where = "run" \/ call' = call
                   /\ where = "run" => call' = [call EXCEPT ![t] = NoCall]
  BY DEF ResumeAll, Returns
<1>9. CallsWait'
  <2>1. CASE where = "run"
    BY <1>8, <2>1, WaitsGoOn DEF LockInv, Goes
  <2>2. CASE where # "run"
    BY <1>1, <1>8, <2>2, WaitsOn DEF At, Goes
  <2>3. QED
    BY <2>1, <2>2
<1>10. pc'[t] = where /\ \A u \in Task \ {t} : pc'[u] = pc[u]
  BY <1>8, GoesIs
<1>11. Suspended'
  <2>1. \A u \in Task \ {t} : pc[u] \notin Suspending
    BY <1>2 DEF LockInv, Suspended
  <2>2. \A u \in Task : pc'[u] \notin Suspending
    BY <1>8, <1>10, <2>1 DEF Suspending
  <2>3. QED
    BY <1>6, <2>2 DEF Suspended
<1>12. LocksHeld'
  BY <1>1, <1>2 DEF LocksHeld
<1>13. CurrentGoesOn'
  <2>1. AlreadyYielded(r) => k'.pendsv
    BY <1>3, <1>6 DEF AlreadyYielded
  <2>2. t \notin Ready(k') => k'.pendsv
    BY <1>2, <1>5, <1>6, <2>1
  <2>3. QED
    BY <1>6, <2>2 DEF CurrentGoesOn
<1>14. QED
  BY <1>7, <1>9, <1>11, <1>12, <1>13 DEF LockInv

LEMMA RecheckLocks ==
    ASSUME FifoInv, LockInv, QueuesMove, NEW t \in Task, Recheck(t)
    PROVE  LockInv'
<1>1. At(t, "recheck") /\ UNCHANGED <<k, q>>
  BY DEF Recheck
<1>2. CallWaits(call[t], "recheck") /\ CallsWait
  BY <1>1 DEF At, LockInv, CallsWait
<1>3. PICK where : /\ where \in {"run", "attempt", "disinherit"} /\ Goes(t, where)
                   /\ where # "run" => call' = call
                   /\ where = "run" => call' = [call EXCEPT ![t] = NoCall]
  BY DEF Recheck, Returns
<1>4. CallWaits(call[t], where)
  BY <1>2 DEF CallWaits
<1>5. CallsWait'
  BY <1>2, <1>3, <1>4, WaitsGoOn DEF Goes
<1>6. /\ k.current = t /\ k.suspensions = 0
      /\ \A y \in Queue_t : q[y].tx = queueUNLOCKED
  BY <1>1, OwnIs DEF Suspending
<1>7. Served(s) /\ Becomes(s)
  BY <1>1, <1>6, ServedNone
<1>8. (\A u \in Task \ {t} : pc'[u] = pc[u]) /\ pc'[t] \notin Suspending
  BY <1>3, GoesIs DEF Suspending
<1>9. QED
  BY <1>5, <1>6, <1>7, <1>8, ServedOn

-----------------------------------------------------------------------------
(* The other steps of a task *)

\* A task in its own code, whose call if any ends.
LEMMA OwnOn ==
    ASSUME FifoInv, LockInv, QueuesMove, FifoInv', NEW t \in Task, NEW from, At(t, from),
           from \notin Suspending, NEW w, Served(w), Becomes(w),
           \/ UNCHANGED <<pc, call>>
           \/ \E where \in {"run", "remove"} : \E c :
                Goes(t, where) /\ call' = [call EXCEPT ![t] = c]
    PROVE  LockInv'
<1>1. k.current = t /\ k.suspensions = 0
  BY OwnIs
<1>2. CASE UNCHANGED <<pc, call>>
  <2>1. CallsWait'
    BY <1>2, WaitsStay DEF LockInv
  <2>2. pc' = pc /\ pc[t] \notin Suspending
    BY <1>2 DEF At
  <2>3. QED
    BY <1>1, <2>1, <2>2, ServedOn
<1>3. ASSUME NEW where \in {"run", "remove"}, NEW c,
             Goes(t, where), call' = [call EXCEPT ![t] = c]
      PROVE  LockInv'
  <2>1. CallsWait'
    BY <1>3, WaitsGoOn DEF LockInv, Goes
  <2>2. (\A u \in Task \ {t} : pc'[u] = pc[u]) /\ pc'[t] \notin Suspending
    BY <1>3, GoesIs DEF Suspending
  <2>3. QED
    BY <1>1, <2>1, <2>2, ServedOn
<1>4. QED
  BY <1>2, <1>3

LEMMA GiveLocks ==
    ASSUME FifoInv, LockInv, QueuesMove, FifoInv', NEW t \in Task,
           Give(t) \/ GiveMutexRecursive(t)
    PROVE  LockInv'
<1>1. At(t, "run") /\ UNCHANGED <<pc, call>>
  BY DEF Give, GiveMutexRecursive
<1>2. \A y \in Queue_t : q[y].tx = queueUNLOCKED
  BY <1>1, OwnIs DEF Suspending
<1>3. ServiceOK(s) /\ Unlocked(s) \subseteq Queue_t
  BY DEF LockInv, Unlocked
<1>4. \A c \in calls : c[1] \in {"give", "give_recursive"} => c[2] \in Queue_t
  BY DEF FifoInv, IsApplication, Allowed
<1>5. CASE Give(t)
  <2>1. PICK c \in calls : c[1] = "give" /\ Becomes(Send(s, c[2], NoItem, "back"))
    BY <1>5 DEF Give
  <2>2. Served(Send(s, c[2], NoItem, "back"))
    BY <1>2, <1>3, <1>4, <2>1, SendServes, ServedIs
  <2>3. QED
    BY <1>1, <2>1, <2>2, OwnOn DEF Suspending
<1>6. CASE GiveMutexRecursive(t)
  <2>1. PICK c \in calls :
          LET less == [s EXCEPT !.q[c[2]].depth = @ - 1]
          IN  /\ c[1] = "give_recursive"
              /\ Becomes(IF less.q[c[2]].depth > 0 THEN less
                         ELSE Send(less, c[2], NoItem, "back"))
    BY <1>6 DEF GiveMutexRecursive
  <2> DEFINE x == c[2]
             less == [s EXCEPT !.q[x].depth = s.q[x].depth - 1]
  <2>2. PICK w : Becomes(w) /\ (w = less \/ w = Send(less, x, NoItem, "back"))
    BY <2>1
  <2>3. Serves(less, s, Queue_t)
    <3> HIDE DEF x
    <3>1. x \in Queue_t
      BY <1>4, <2>1 DEF x
    <3>2. \A d : Serves([s EXCEPT !.q[x].depth = d], s, Queue_t)
      BY <1>3, <3>1, DepthServes
    <3>3. QED
      BY <3>2
  <2> HIDE DEF less
  <2>4. Serves(w, s, Queue_t)
    <3>1. x \in Queue_t
      BY <1>4, <2>1
    <3>2. ServiceOK(less) /\ Unlocked(less) \subseteq Queue_t
      BY <2>3 DEF Serves, Unlocked
    <3> HIDE DEF x
    <3>3. Serves(Send(less, x, NoItem, "back"), less, Queue_t)
      BY <3>1, <3>2, SendServes
    <3>4. QED
      BY <2>2, <2>3, <3>3, ServesBoth
  <2>5. Served(w)
    BY <1>2, <2>4, ServedIs
  <2>6. QED
    BY <1>1, <2>2, <2>5, OwnOn DEF Suspending
<1>7. QED
  BY <1>5, <1>6

LEMMA AgainLocks ==
    ASSUME FifoInv, LockInv, QueuesMove, FifoInv', NEW t \in Task, TakeAgain(t)
    PROVE  LockInv'
<1>1. At(t, "run") /\ UNCHANGED <<k, pc, call>>
  BY DEF TakeAgain
<1>2. PICK c \in calls : c[1] = "take_recursive" /\ q' = [q EXCEPT ![c[2]].depth = @ + 1]
  BY DEF TakeAgain
<1> DEFINE x == c[2]
           d == q[x].depth + 1
           w == [s EXCEPT !.q[x].depth = d]
<1>3. x \in Queue_t
  BY <1>2 DEF FifoInv, IsApplication, Allowed
<1>4. Becomes(w)
  BY <1>1, <1>2 DEF Becomes, s
<1> HIDE DEF x, d
<1>5. Serves(w, s, Queue_t)
  BY <1>3, DepthServes, KernelFine
<1> HIDE DEF w
<1>6. Served(w)
  BY <1>1, <1>5, OwnIs, ServedIs DEF Suspending
<1>7. QED
  BY <1>1, <1>4, <1>6, OwnOn DEF Suspending

LEMMA ResetLocks ==
    ASSUME FifoInv, LockInv, QueuesMove, FifoInv', NEW t \in Task, Reset(t)
    PROVE  LockInv'
<1>1. At(t, "run") /\ UNCHANGED <<pc, call>>
  BY DEF Reset
<1>2. PICK c \in calls : c[1] = "reset" /\ Becomes(xQueueGenericReset(s, c[2]))
  BY DEF Reset
<1>3. c[2] \in Queue_t
  BY <1>2 DEF FifoInv, IsApplication, Allowed
<1>4. Served(xQueueGenericReset(s, c[2]))
  BY <1>1, <1>3, OwnIs, ResetServes, ServedIs, KernelFine DEF Suspending
<1>5. QED
  BY <1>1, <1>2, <1>4, OwnOn DEF Suspending

LEMMA SetLocks ==
    ASSUME FifoInv, LockInv, QueuesMove, FifoInv', NEW t \in Task,
           AddToSet(t) \/ RemoveFromSet(t) \/ Removed(t)
    PROVE  LockInv'
<1>1. ASSUME NEW x \in Queue_t, NEW set \in Queue_t \cup {NoQueue}, NEW from, At(t, from),
             from \notin Suspending
      PROVE  Served([s EXCEPT !.q[x].set = set])
  <2> DEFINE w == [s EXCEPT !.q[x].set = set]
  <2>1. ServesBut(w, s, x) /\ w.q[x].tx = s.q[x].tx
    BY SetServes, KernelFine
  <2>2. \A y \in Queue_t : q[y].tx = queueUNLOCKED
    BY <1>1, OwnIs
  <2>3. s.q[x].tx = queueUNLOCKED
    BY <2>2 DEF s
  <2> HIDE DEF w
  <2>4. Served(w)
    BY <2>1, <2>2, <2>3, ServedIs
  <2>5. QED
    BY <2>4 DEF w
<1>2. CASE AddToSet(t)
  <2>1. At(t, "run") /\ UNCHANGED <<pc, call>>
    BY <1>2 DEF AddToSet
  <2>2. PICK c \in calls : c[1] = "member" /\ Becomes(xQueueAddToSet(s, c[2], c[3]))
    BY <1>2 DEF AddToSet
  <2>3. c[2] \in Queue_t /\ c[3] \in Queue_t
    BY <2>2 DEF FifoInv, IsApplication, Allowed, MemberOf
  <2>4. Served(s)
    BY <2>1, OwnIs, ServesSelf, ServedIs, KernelFine DEF Suspending
  <2>5. Served([s EXCEPT !.q[c[2]].set = c[3]])
    <3> DEFINE x == c[2]
               set == c[3]
    <3> HIDE DEF x, set
    <3>1. Served([s EXCEPT !.q[x].set = set])
      BY <1>1, <2>1, <2>3 DEF Suspending, x, set
    <3>2. QED
      BY <3>1 DEF x, set
  <2>6. Served(xQueueAddToSet(s, c[2], c[3]))
    BY <2>4, <2>5 DEF xQueueAddToSet
  <2>7. QED
    BY <2>1, <2>2, <2>6, OwnOn DEF Suspending
<1>3. CASE RemoveFromSet(t)
  <2>1. /\ At(t, "run") /\ Goes(t, "remove") /\ UNCHANGED <<k, q>>
        /\ \E c : call' = [call EXCEPT ![t] = c]
    BY <1>3 DEF RemoveFromSet
  <2>2. Served(s) /\ Becomes(s)
    BY <2>1, OwnIs, ServedNone DEF Suspending
  <2>3. QED
    BY <2>1, <2>2, OwnOn DEF Suspending
<1>4. CASE Removed(t)
  <2> DEFINE x == call[t].x
             w == [s EXCEPT !.q[x].set = NoQueue]
  <2>1. At(t, "remove") /\ Returns(t) /\ Becomes(w)
    BY <1>4 DEF Removed, xQueueRemoveFromSet
  <2>2. x \in Queue_t
    BY <2>1 DEF At, FifoInv, CallsOK
  <2> HIDE DEF x
  <2>3. Served(w)
    BY <1>1, <2>1, <2>2 DEF Suspending
  <2> HIDE DEF w
  <2>4. QED
    BY <2>1, <2>3, OwnOn DEF Suspending, Returns
<1>5. QED
  BY <1>2, <1>3, <1>4

\* The kernel alone goes on.
LEMMA KernelServed ==
    ASSUME LockInv, NEW j, Wakes(j, k)
    PROVE  LET w == [s EXCEPT !.k = j]
           IN  /\ ServiceOK(w) /\ Wakes(w.k, k) /\ w.k = j /\ w.q = q
               /\ k' = j /\ q' = q => Becomes(w)
<1>1. DOMAIN s = {"k", "q"}
  BY DEF s
<1>2. KernelOK(j)
  BY DEF Wakes
<1>3. QED
  BY <1>1, <1>2 DEF LockInv, ServiceOK, Becomes, s

LEMMA PriorityLocks ==
    ASSUME FifoInv, LockInv, QueuesMove, FifoInv', NEW t \in Task, PrioritySet(t)
    PROVE  LockInv'
<1>1. At(t, "run") /\ UNCHANGED <<q, pc, call>>
  BY DEF PrioritySet
<1>2. PICK u \in Task, p \in Priority : k' = vTaskPrioritySet(k, u, p)
  BY DEF PrioritySet
<1>3. p \in Nat
  BY PrioritiesAssumption DEF Priority
<1>4. Wakes(k', k)
  BY <1>2, <1>3, PrioritySetWakes, KernelFine
<1> DEFINE w == [s EXCEPT !.k = k']
<1>5. ServiceOK(w) /\ Wakes(w.k, k) /\ w.q = q /\ Becomes(w)
  BY <1>1, <1>4, KernelServed
<1> HIDE DEF w
<1>6. Served(w)
  BY <1>1, <1>5, OwnIs DEF Served, Suspending
<1>7. QED
  BY <1>1, <1>5, <1>6, OwnOn DEF Suspending

\* The highest priority that waits for a mutex.
LEMMA WaitingPriority ==
    ASSUME LockInv, NEW x \in Queue_t
    PROVE  prvGetDisinheritPriorityAfterTimeout(s, x) \in Priority
<1> DEFINE list == k.events[ToReceive(x)]
<1>1. /\ IsList(list, Task) /\ k.event \in [Task -> 1 .. MaxPriorities]
  BY KernelFine, EventListsAssumption DEF KernelOK, Good, Sound, Shape
<1>2. prvGetDisinheritPriorityAfterTimeout(s, x)
        = IF list = <<>> THEN 0 ELSE MaxPriorities - k.event[Head(list)]
  BY DEF prvGetDisinheritPriorityAfterTimeout, s
<1> HIDE DEF list
<1>3. CASE list = <<>>
  BY <1>2, <1>3, PrioritiesAssumption DEF Priority
<1>4. CASE list # <<>>
  <2>1. k.event[Head(list)] \in 1 .. MaxPriorities
    BY <1>1, <1>4, HeadIs
  <2>2. QED
    BY <1>2, <1>4, <2>1, PrioritiesAssumption DEF Priority
<1>5. QED
  BY <1>3, <1>4

\* A task gives up on a mutex, and no bit is left behind.
LEMMA GivesUpLocks ==
    ASSUME FifoInv, LockInv, QueuesMove, FifoInv', NEW t \in Task,
           DisinheritAfterTimeout(t), ~LeavesBit \/ k' = k
    PROVE  LockInv'
<1> DEFINE x == call[t].x
           h == q[x].holder
           n == prvGetDisinheritPriorityAfterTimeout(s, x)
           w == [s EXCEPT !.k = k']
<1>1. /\ At(t, "disinherit") /\ Returns(t) /\ UNCHANGED q
      /\ k' = vTaskPriorityDisinheritAfterTimeout(k, h, n)
  BY DEF DisinheritAfterTimeout
<1>2. x \in Queue_t
  BY <1>1, InCallIsOK DEF At, CallOK
<1>3. h \in Task \cup {NoTask} /\ n \in Priority
  BY <1>2, WaitingPriority, KernelFine DEF ServiceOK, LockOK
<1>4. h = NoTask \/ k' = k \/ ReadyAt(k, k.priority[h]) # {h}
  BY DEF LeavesBit
<1> HIDE DEF h, n
<1>5. Wakes(k', k) /\ k'.events = k.events
  BY <1>1, <1>3, <1>4, GaveUpWakes, KernelFine
<1>6. ServiceOK(w) /\ Wakes(w.k, k) /\ w.q = q /\ Becomes(w)
  BY <1>1, <1>5, KernelServed
<1> HIDE DEF w, x
<1>7. Served(w)
  BY <1>1, <1>6, OwnIs DEF Served, Suspending
<1>8. \E where \in {"run", "remove"} : \E c :
        Goes(t, where) /\ call' = [call EXCEPT ![t] = c]
  BY <1>1 DEF Returns
<1>9. At(t, "disinherit") /\ "disinherit" \notin Suspending
  BY <1>1 DEF Suspending
<1>10. QED
  BY <1>6, <1>7, <1>8, <1>9, OwnOn

LEMMA DelayLocks ==
    ASSUME FifoInv, LockInv, QueuesMove, FifoInv', NEW t \in Task \ {Idle}, Delay(t)
    PROVE  LockInv'
<1> DEFINE j == prvAddCurrentTaskToDelayedList(k, 1, FALSE)
<1>1. At(t, "run") /\ UNCHANGED <<q, pc, call>> /\ k' = portYIELD(j)
  BY DEF Delay
<1>2. /\ k.current = t /\ k.suspensions = 0 /\ t \in Ready(k)
      /\ \A y \in Queue_t : q[y].tx = queueUNLOCKED
  BY <1>1, OwnIs DEF Suspending
<1>3. LeavesReady(j, k)
  <2>1. Good(k) /\ Keeps(k, k, {"events"}) /\ 1 \in Int
    BY KernelFine DEF KernelOK, Good, Sound, Shape, Keeps
  <2>2. \A e \in EventLists :
          Elements(k.events[e])
            \subseteq Elements(k.events[e]) \cup (IF e = NoItem THEN {k.current} ELSE {})
    OBVIOUS
  <2>3. QED
    BY <1>2, <2>1, <2>2, DelayLeaves, KernelFine DEF Delayed
<1> HIDE DEF j
<1>4. KernelOK(j) /\ j.current = t /\ j.suspensions = 0 /\ Ready(k) \ {t} \subseteq Ready(j)
  BY <1>2, <1>3 DEF LeavesReady
<1>5. portYIELD(j) = YieldIf(j, TRUE)
  BY DEF YieldIf
<1>6. Wakes(k', j) /\ k'.pendsv
  <2>1. DOMAIN j = KernelFields
    BY <1>4 DEF KernelOK, Good, Sound, Shape
  <2>2. k'.pendsv
    BY <1>1, <2>1 DEF portYIELD, KernelFields
  <2>3. Wakes(k', j)
    BY <1>1, <1>4, <1>5, FlagSet
  <2>4. QED
    BY <2>2, <2>3
<1>7. /\ KernelOK(k') /\ k'.current = t /\ k'.suspensions = 0 /\ Idle \in Ready(k')
  BY <1>4, <1>6, KernelFine DEF Wakes
<1>8. ServiceOK(s)'
  BY <1>1, <1>7 DEF LockInv, ServiceOK, s
<1>9. pc' = pc /\ call' = call /\ q' = q
  BY <1>1
<1>10. Suspended'
  <2>1. \A u \in Task : pc[u] \notin Suspending
    BY <1>2 DEF LockInv, Suspended
  <2>2. QED
    BY <1>7, <1>9, <2>1 DEF Suspended
<1>11. LocksHeld' /\ CurrentGoesOn'
  BY <1>2, <1>6, <1>7, <1>9 DEF LocksHeld, CurrentGoesOn
<1>12. CallsWait'
  BY <1>9, WaitsStay DEF LockInv
<1>13. QED
  BY <1>7, <1>8, <1>10, <1>11, <1>12 DEF LockInv

-----------------------------------------------------------------------------
(* The interrupts *)

\* What a handler is handed by a queue set is a queue.
LEMMA SelectHands ==
    ASSUME FifoInv, NEW c \in calls, c[1] = "select_isr", ~prvIsQueueEmpty(s, c[2])
    PROVE  c[2] \in Queue_t /\ NextItem(s, c[2]) \in Queue_t
<1> DEFINE z == c[2]
           x == NextItem(s, z)
<1>1. s.q = q /\ StateOK(s)
  BY DEF s, FifoInv
<1>2. z \in SelectedFrom(calls)
  BY DEF SelectedFrom
<1>3. z \in Queue_t /\ HasItems(s, z)
  BY <1>1, <1>2, SelectedAreQueues DEF HasItems
<1>4. Ring(q[z]) /\ q[z].count # 0
  BY <1>1, <1>3 DEF StateOK, QueueOK, HasItems, prvIsQueueEmpty
<1>5. 1 \in 1 .. q[z].count
  BY <1>4 DEF Ring
<1>6. x = ItemAt(q[z], 1)
  BY <1>1 DEF NextItem, ItemAt
<1> HIDE DEF x, z
<1>7. x \in Queue_t
  BY <1>2, <1>3, <1>5, <1>6 DEF FifoInv, HandlesOnly
<1>8. QED
  BY <1>3, <1>7 DEF x, z

\* An interrupt that is handed a queue leaves the lists of a locked one alone.
LEMMA InterruptServes ==
    ASSUME FifoInv, LockInv, InterruptSends \/ InterruptSelects \/ InterruptReceives
    PROVE  \E w : Serves(w, s, Unlocked(s)) /\ Becomes(w)
<1>1. ServiceOK(s) /\ s.q = q /\ Unlocked(s) \subseteq Unlocked(s)
  BY KernelFine
<1>2. \A c \in calls :
        c[1] \in {"back_isr", "overwrite_isr", "give_isr", "receive_isr"} => c[2] \in Queue_t
  BY DEF FifoInv, IsApplication, Allowed
<1>3. CASE InterruptSends
  <2>1. PICK c \in calls :
          /\ c[1] \in {"back_isr", "overwrite_isr", "give_isr"}
          /\ \E item, position : Becomes(SendFromISR(s, c[2], item, position))
    BY <1>3 DEF InterruptSends
  <2>2. PICK item, position : Becomes(SendFromISR(s, c[2], item, position))
    BY <2>1
  <2>3. Serves(SendFromISR(s, c[2], item, position), s, Unlocked(s))
    BY <1>1, <1>2, <2>1, SendISRServes
  <2>4. QED
    BY <2>2, <2>3
<1>4. CASE InterruptReceives
  <2>1. PICK c \in calls : c[1] = "receive_isr" /\ Becomes(ReceiveFromISR(s, c[2]))
    BY <1>4 DEF InterruptReceives
  <2>2. Serves(ReceiveFromISR(s, c[2]), s, Unlocked(s))
    BY <1>1, <1>2, <2>1, ReceiveISRServes
  <2>3. QED
    BY <2>1, <2>2
<1>5. CASE InterruptSelects
  <2>1. PICK c \in calls :
          LET x == NextItem(s, c[2])
              selected == ReceiveFromISR(s, c[2])
              receives == ~prvIsQueueEmpty(s, x)
          IN  /\ c[1] = "select_isr"
              /\ ~prvIsQueueEmpty(s, c[2])
              /\ Becomes(IF receives THEN ReceiveFromISR(selected, x) ELSE selected)
    BY <1>5 DEF InterruptSelects
  <2> DEFINE z == c[2]
             x == NextItem(s, z)
             selected == ReceiveFromISR(s, z)
             both == ReceiveFromISR(selected, x)
  <2>2. z \in Queue_t /\ x \in Queue_t
    BY <2>1, SelectHands
  <2>3. Becomes(both) \/ Becomes(selected)
    BY <2>1
  <2>4. Serves(selected, s, Unlocked(s))
    BY <1>1, <2>2, ReceiveISRServes
  <2> HIDE DEF x, z, selected
  <2>5. ServiceOK(selected) /\ Unlocked(selected) = Unlocked(s)
    BY <2>4, StillUnlocked DEF Serves
  <2>6. Serves(both, selected, Unlocked(s))
    BY <2>2, <2>5, ReceiveISRServes
  <2>7. Serves(both, s, Unlocked(s))
    BY <2>4, <2>6, ServesBoth
  <2>8. QED
    BY <2>3, <2>4, <2>7
<1>6. QED
  BY <1>3, <1>4, <1>5

LEMMA QueueInterruptLocks ==
    ASSUME FifoInv, LockInv, QueuesMove,
           InterruptSends \/ InterruptSelects \/ InterruptReceives
    PROVE  LockInv'
<1>1. PICK w : Serves(w, s, Unlocked(s)) /\ Becomes(w)
  BY InterruptServes
<1>2. UNCHANGED <<pc, call>>
  BY DEF InterruptSends, InterruptSelects, InterruptReceives
<1>3. QED
  BY <1>1, <1>2, InterruptsIn

LEMMA TickLocks ==
    ASSUME FifoInv, LockInv, QueuesMove, SysTick
    PROVE  LockInv' /\ (k.suspensions = 1 => k'.events = k.events)
<1>1. PICK r : r = xTaskIncrementTick(k) /\ k' = YieldIf(r.k, r.switch)
  BY DEF SysTick
<1>2. UNCHANGED <<q, pc, call>>
  BY DEF SysTick
<1>3. Wakes(k', k) /\ (k.suspensions = 1 => k'.events = k.events)
  BY <1>1, TickWakes, KernelFine
<1> DEFINE w == [s EXCEPT !.k = k']
<1>4. ServiceOK(w) /\ Wakes(w.k, k) /\ w.q = q /\ Becomes(w)
  BY <1>2, <1>3, KernelServed
<1> HIDE DEF w
<1>5. Serves(w, s, Queue_t)
  BY <1>4, KernelFine DEF Serves
<1>6. QED
  BY <1>2, <1>3, <1>4, <1>5, InterruptsIn

LEMMA PendSVLocks ==
    ASSUME FifoInv, LockInv, QueuesMove, PendSV
    PROVE  LockInv' /\ (k.suspensions = 1 => k'.events = k.events)
<1>1. k' = vTaskSwitchContext(k) /\ q' = q /\ pc' = pc /\ call' = call
  BY DEF PendSV
<1>2. /\ KernelOK(k')
      /\ k'.suspensions = k.suspensions
      /\ Ready(k) \subseteq Ready(k')
      /\ k.suspensions = 0 => k'.current \in Ready(k')
      /\ k.suspensions = 1 => k'.current = k.current /\ k'.events = k.events
  BY <1>1, SwitchWakes, KernelFine
<1>3. ServiceOK(s)' /\ Idle \in Ready(k')
  BY <1>1, <1>2 DEF LockInv, ServiceOK, s
<1>4. CallsWait'
  BY <1>1, WaitsStay DEF LockInv
<1>5. k.suspensions \in {0, 1}
  BY KernelFine
<1>6. CASE k.suspensions = 0
  <2>1. /\ \A t \in Task : pc[t] \notin Suspending
        /\ \A y \in Queue_t : q[y].tx = queueUNLOCKED
    BY <1>6 DEF LockInv, Suspended, LocksHeld
  <2>2. Suspended' /\ LocksHeld' /\ CurrentGoesOn'
    BY <1>1, <1>2, <1>6, <2>1 DEF Suspended, LocksHeld, CurrentGoesOn
  <2>3. QED
    BY <1>2, <1>3, <1>4, <1>6, <2>2 DEF LockInv
<1>7. CASE k.suspensions = 1
  <2> DEFINE c == k.current
  <2>1. /\ \A t \in Task : pc[t] \in Suspending <=> t = c
        /\ \A y \in Queue_t : q[y].tx # queueUNLOCKED =>
             pc[c] \in Locking /\ call[c].x = y
        /\ c \notin Ready(k) => pc[c] \in Leaving /\ call[c].placed
    BY <1>7 DEF LockInv, Suspended, LocksHeld, CurrentGoesOn
  <2>2. k'.current = c /\ k'.suspensions = 1
    BY <1>2, <1>7
  <2> HIDE DEF c
  <2>3. Suspended' /\ LocksHeld'
    BY <1>1, <2>1, <2>2 DEF Suspended, LocksHeld
  <2>4. CurrentGoesOn'
    BY <1>1, <1>2, <2>1, <2>2 DEF CurrentGoesOn
  <2>5. QED
    BY <1>2, <1>3, <1>4, <1>7, <2>3, <2>4 DEF LockInv
<1>8. QED
  BY <1>5, <1>6, <1>7

\* Nothing happens.
LEMMA IdleLocks ==
    ASSUME FifoInv, LockInv, QueuesMove, UNCHANGED vars
    PROVE  LockInv'
<1>1. Serves(s, s, Queue_t) /\ Becomes(s) /\ UNCHANGED <<pc, call>>
  BY ServesSelf, KernelFine DEF vars, Becomes
<1>2. QED
  BY <1>1, InterruptsIn

-----------------------------------------------------------------------------
(* Every step *)

LEMMA LockInit ==
    ASSUME Init
    PROVE  FifoInv /\ LockInv
<1>1. FifoInv
  BY NewQueuesAre
<1>2. PICK scene \in Scenes :
        /\ k = BootedKernel(scene.tasks, Idle) /\ q = scene.queues
        /\ pc = [t \in Task |-> "run"]
  BY DEF Init
<1>3. KernelOK(k) /\ k.suspensions = 0 /\ k.current \in Ready(k) /\ Idle \in Ready(k)
  BY <1>2, BootedIs, ScenesAssumption DEF ScenesAssumption
<1>4. ASSUME NEW y \in Queue_t
      PROVE  /\ LockOK(q[y]) /\ q[y].set \in Queue_t \cup {NoQueue}
             /\ q[y].tx = queueUNLOCKED
  <2> DEFINE f == [x \in Queue_t |->
                     [NewQueue(q[x].type, q[x].length) EXCEPT !.set = q[x].set]]
  <2>1. q = f
    BY <1>2, ScenesAssumption DEF ScenesAssumption
  <2>2. f[y] = [NewQueue(q[y].type, q[y].length) EXCEPT !.set = q[y].set]
    OBVIOUS
  <2> HIDE DEF f
  <2>3. q[y] = [NewQueue(q[y].type, q[y].length) EXCEPT !.set = q[y].set]
    BY <2>1, <2>2
  <2>4. LockOK(q[y]) /\ q[y].tx = queueUNLOCKED
    BY <2>3 DEF NewQueue, LockOK, QueueFields
  <2>5. q[y].set \in Queue_t \cup {NoQueue}
    BY <1>2, ScenesAssumption DEF ScenesAssumption, IsApplication, MemberOf
  <2>6. QED
    BY <2>4, <2>5
<1>5. ServiceOK(s)
  BY <1>1, <1>3, <1>4 DEF ServiceOK, FifoInv, StateOK, s
<1>6. Suspended /\ CallsWait
  BY <1>2, <1>3 DEF Suspended, CallsWait, Suspending
<1>7. LocksHeld /\ CurrentGoesOn
  BY <1>3, <1>4 DEF LocksHeld, CurrentGoesOn
<1>8. QED
  BY <1>1, <1>3, <1>5, <1>6, <1>7 DEF LockInv

LEMMA StepLocks ==
    ASSUME FifoInv, LockInv, [Next]_vars, ~LeavesBit \/ UNCHANGED vars
    PROVE  LockInv'
<1>1. QueuesMove /\ FifoInv'
  BY StepMoves
<1>2. CASE Interrupt
  BY <1>1, <1>2, QueueInterruptLocks, TickLocks, PendSVLocks DEF Interrupt
<1>3. CASE UNCHANGED vars \/ \E t \in Task : OwnCode(t)
  BY <1>1, <1>3, IdleLocks DEF OwnCode
<1>4. ASSUME NEW t \in Task \ {Idle}, TaskStep(t)
      PROVE  LockInv'
  <2>1. CASE Call(t) \/ Attempt(t)
    BY <1>1, <2>1, CallLocks
  <2>2. CASE SuspendAll(t) \/ LockQueue(t)
    BY <1>1, <2>2, SuspendLocks, LockLocks
  <2>3. CASE Check(t) \/ Place(t)
    BY <1>1, <2>3, CheckLocks, PlaceLocks
  <2>4. CASE UnlockQueueTx(t) \/ UnlockQueueRx(t)
    BY <1>1, <2>4, UnlockLocks
  <2>5. CASE ResumeAll(t) \/ Recheck(t)
    BY <1>1, <2>5, ResumeLocks, RecheckLocks
  <2>6. CASE DisinheritAfterTimeout(t)
    BY <1>1, <1>4, <2>6, GivesUpLocks, IdleLocks
  <2>7. CASE Give(t) \/ TakeAgain(t) \/ GiveMutexRecursive(t)
    BY <1>1, <2>7, GiveLocks, AgainLocks
  <2>8. CASE Reset(t) \/ AddToSet(t) \/ RemoveFromSet(t) \/ Removed(t)
    BY <1>1, <2>8, ResetLocks, SetLocks
  <2>9. CASE Delay(t) \/ PrioritySet(t)
    BY <1>1, <2>9, DelayLocks, PriorityLocks
  <2>10. QED
    BY <1>4, <2>1, <2>2, <2>3, <2>4, <2>5, <2>6, <2>7, <2>8, <2>9 DEF TaskStep
<1>5. QED
  BY <1>2, <1>3, <1>4 DEF Next

\* With a queue locked, the task that locked it goes on to its next place, and
\* an interrupt in between leaves the lists of the queue as they are.
LEMMA StepKeepsOut ==
    ASSUME FifoInv, LockInv, [Next]_vars, NEW x \in Queue_t, q[x].tx # queueUNLOCKED,
           pc' = pc
    PROVE  /\ k'.events[ToReceive(x)] = k.events[ToReceive(x)]
           /\ k'.events[ToSend(x)] = k.events[ToSend(x)]
<1>1. k.suspensions = 1 /\ pc[k.current] \in Locking
  BY DEF LockInv, LocksHeld
<1>2. QueuesMove
  BY StepMoves
<1>3. CASE UNCHANGED vars \/ \E t \in Task : OwnCode(t)
  BY <1>3 DEF OwnCode, vars
<1>4. CASE InterruptSends \/ InterruptSelects \/ InterruptReceives
  <2>1. PICK w : Serves(w, s, Unlocked(s)) /\ Becomes(w)
    BY <1>4, InterruptServes
  <2>2. x \in Queue_t \ Unlocked(s) /\ w.k = k' /\ s.k = k
    BY <2>1 DEF Unlocked, Becomes, s
  <2>3. QED
    BY <2>1, <2>2 DEF Serves
<1>5. CASE SysTick \/ PendSV
  BY <1>1, <1>2, <1>5, TickLocks, PendSVLocks
<1>6. ASSUME NEW t \in Task \ {Idle} PROVE ~TaskStep(t)
  <2>1. SUFFICES ASSUME TaskStep(t) PROVE FALSE
    OBVIOUS
  <2>2. CASE Check(t) \/ Place(t) \/ UnlockQueueTx(t)
    <3>1. PICK from, where : At(t, from) /\ Goes(t, where) /\ from # where
      BY <2>2 DEF Check, Place, UnlockQueueTx
    <3>2. QED
      BY <3>1, GoesIs DEF At
  <2>3. CASE ~(Check(t) \/ Place(t) \/ UnlockQueueTx(t))
    <3>1. \/ At(t, "run") \/ At(t, "attempt") \/ At(t, "suspend") \/ At(t, "lock")
          \/ At(t, "unlockRx") \/ At(t, "resume") \/ At(t, "recheck")
          \/ At(t, "disinherit") \/ At(t, "remove")
      <4>1. CASE \/ Call(t) \/ Give(t) \/ TakeAgain(t) \/ GiveMutexRecursive(t) \/ Reset(t)
                 \/ AddToSet(t) \/ RemoveFromSet(t) \/ Delay(t) \/ PrioritySet(t)
        BY <4>1 DEF Call, Give, TakeAgain, GiveMutexRecursive, Reset, AddToSet,
           RemoveFromSet, Delay, PrioritySet
      <4>2. CASE \/ Attempt(t) \/ SuspendAll(t) \/ LockQueue(t) \/ UnlockQueueRx(t)
                 \/ ResumeAll(t) \/ Recheck(t) \/ DisinheritAfterTimeout(t) \/ Removed(t)
        BY <4>2 DEF Attempt, SuspendAll, LockQueue, UnlockQueueRx, ResumeAll, Recheck,
           DisinheritAfterTimeout, Removed
      <4>3. QED
        BY <2>1, <2>3, <4>1, <4>2 DEF TaskStep
    <3>2. QED
      BY <1>1, <3>1 DEF At, Locking
  <2>4. QED
    BY <2>2, <2>3
<1>7. QED
  BY <1>3, <1>4, <1>5, <1>6 DEF Next, Interrupt

\* The idle task is always ready.
LEMMA TopIs ==
    ASSUME LockInv
    PROVE  TopPriorityHasTask
<1>1. Good(k) /\ Ready(k) # {}
  BY KernelFine DEF KernelOK
<1>2. PICK p \in Priority : ReadyAt(k, p) # {}
  BY <1>1 DEF Ready
<1>3. k.top \subseteq Priority /\ p \in k.top
  BY <1>1, <1>2 DEF Good, Sound, Shape, TopRight
<1> DEFINE m == Max(k.top)
<1>4. m \in k.top
  <2>1. MaxPriorities - 1 \in Nat /\ k.top \subseteq 0 .. MaxPriorities - 1
    BY <1>3, PrioritiesAssumption DEF Priority
  <2>2. QED
    BY <1>3, <2>1, MaxIs
<1> HIDE DEF m
<1>5. k.ready[m].items \in Seq(Task) /\ Elements(k.ready[m].items) # {}
  BY <1>1, <1>3, <1>4
     DEF Good, Sound, Shape, TopRight, ReadyAt, IsReadyList, IsList
<1>6. k.ready[m].items # <<>>
  BY <1>5, ItemsEmpty
<1>7. QED
  BY <1>6 DEF TopPriorityHasTask, m

\* As long as no bit of an empty list is left behind, the kernel stays sound under
\* what the queues do to it, the scheduler is suspended exactly while a task is
\* between suspending and resuming it, and only that task has a queue locked.
THEOREM QueuesStayLocked == Spec /\ BitsKept => [](FifoInv /\ LockInv)
<1>1. Init => FifoInv /\ LockInv
  BY LockInit
<1>2. FifoInv /\ LockInv /\ [Next]_vars /\ [~LeavesBit]_vars => (FifoInv /\ LockInv)'
  BY StepMoves, StepLocks
<1>3. QED
  BY <1>1, <1>2, PTL DEF Spec, BitsKept

\* LockKeepsOut: an interrupt that finds a queue locked leaves the lists of those
\* that wait for it alone, for any number of tasks, queues and queue sets.
THEOREM LockedListsStay == Spec /\ BitsKept => LockKeepsOut
<1> DEFINE KeepsOut ==
             \A x \in Queue_t : q[x].tx # queueUNLOCKED /\ pc' = pc =>
               /\ k'.events[ToReceive(x)] = k.events[ToReceive(x)]
               /\ k'.events[ToSend(x)] = k.events[ToSend(x)]
<1>1. FifoInv /\ LockInv /\ [Next]_vars => KeepsOut
  BY StepKeepsOut
<1>2. QED
  BY <1>1, QueuesStayLocked, PTL DEF Spec, LockKeepsOut

\* TopPriorityHasTask: the switch finds a task to run, unless a task gave up on a
\* mutex and left the bit of an empty list behind.  There is no other way.
THEOREM QueuesKeepReady == Spec /\ BitsKept => []TopPriorityHasTask
<1>1. LockInv => TopPriorityHasTask
  BY TopIs
<1>2. QED
  BY <1>1, QueuesStayLocked, PTL

-----------------------------------------------------------------------------
(* Mutexes that are waited for without a timeout *)

\* Who takes a mutex waits for ever or not at all.
MutexesUntimed ==
    \A c \in calls :
        /\ c[1] \in {"take", "take_recursive"}
        /\ q[c[2]].type \in Mutexes
        => c[4] \in {0, portMAX_DELAY}

TakesMutex(c, queues) == Takes(c) /\ queues[c.x].type \in Mutexes

UntimedWait(c, where, queues) ==
    /\ c.inherited => TakesMutex(c, queues)
    /\ TakesMutex(c, queues) =>
         /\ ~c.expired
         /\ c.ticks = portMAX_DELAY \/ (where = "attempt" /\ c.ticks = 0)
    /\ where = "recheck" => c.expired
    /\ where # "disinherit"

NobodyGivesUp ==
    /\ MutexesUntimed
    /\ \A t \in Task : pc[t] \notin {"run", "remove"} => UntimedWait(call[t], pc[t], q)

LEMMA TypesStay ==
    ASSUME FifoInv, MutexesUntimed, QueuesMove
    PROVE  /\ MutexesUntimed'
           /\ \A y \in Queue_t : q'[y].type = q[y].type
<1>1. calls' = calls /\ \A y \in Queue_t : q'[y].type = q[y].type
  BY DEF QueuesMove, Moved, KindKept
<1>2. ASSUME NEW c \in calls, c[1] \in {"take", "take_recursive"} PROVE c[2] \in Queue_t
  BY <1>2 DEF FifoInv, IsApplication, Allowed
<1>3. ASSUME NEW c \in calls, c[1] \in {"take", "take_recursive"}, q'[c[2]].type \in Mutexes
      PROVE  c[4] \in {0, portMAX_DELAY}
  BY <1>1, <1>2, <1>3 DEF MutexesUntimed
<1>4. QED
  BY <1>1, <1>3 DEF MutexesUntimed

LEMMA UntimedGoesOn ==
    ASSUME FifoInv, FifoInv', NobodyGivesUp, QueuesMove, NEW t \in Task, NEW where, NEW c,
           Goes(t, where),
           call' = [call EXCEPT ![t] = c] \/ (call' = call /\ c = call[t]),
           where \notin {"run", "remove"} => UntimedWait(c, where, q)
    PROVE  NobodyGivesUp'
<1>1. DOMAIN pc = Task /\ DOMAIN call = Task
  BY DEF FifoInv, CallsOK
<1>2. pc'[t] = where /\ call'[t] = c
  BY <1>1 DEF Goes
<1>3. \A u \in Task \ {t} : pc'[u] = pc[u] /\ call'[u] = call[u]
  BY <1>1 DEF Goes
<1>4. ASSUME NEW u \in Task, pc'[u] \notin {"run", "remove"}
      PROVE  UntimedWait(call'[u], pc'[u], q')
  <2>1. call'[u].x \in Queue_t
    BY <1>4 DEF FifoInv, CallsOK, CallOK
  <2>2. q'[call'[u].x].type = q[call'[u].x].type
    BY <2>1, TypesStay DEF NobodyGivesUp
  <2>3. UntimedWait(call'[u], pc'[u], q)
    BY <1>2, <1>3, <1>4 DEF NobodyGivesUp
  <2>4. QED
    BY <2>2, <2>3 DEF UntimedWait, TakesMutex
<1>5. QED
  BY <1>4, TypesStay DEF NobodyGivesUp

LEMMA UntimedStays ==
    ASSUME FifoInv, FifoInv', NobodyGivesUp, QueuesMove, UNCHANGED <<pc, call>>
    PROVE  NobodyGivesUp'
<1>1. ASSUME NEW u \in Task, pc[u] \notin {"run", "remove"}
      PROVE  UntimedWait(call[u], pc[u], q')
  <2>1. q'[call[u].x].type = q[call[u].x].type
    BY <1>1, InCallIsOK, TypesStay DEF NobodyGivesUp
  <2>2. QED
    BY <1>1, <2>1 DEF NobodyGivesUp, UntimedWait, TakesMutex
<1>2. QED
  BY <1>1, TypesStay DEF NobodyGivesUp

LEMMA AttemptUntimed ==
    ASSUME FifoInv, FifoInv', NobodyGivesUp, QueuesMove, NEW t \in Task,
           NEW c, CallOK(c, q, calls), UntimedWait(c, "attempt", q), AttemptCall(t, c)
    PROVE  NobodyGivesUp'
<1>1. CASE Proceeds(t, c)
  <2>1. CASE c.op # "select"
    BY <1>1, <2>1, UntimedGoesOn DEF Proceeds, Returns
  <2>2. CASE c.op = "select"
    <3> DEFINE x == NextItem(s, c.x)
               new == NewCall(IF q[x].type = "queue" THEN "receive" ELSE "take", x,
                              NoItem, 0)
    <3>1. Goes(t, "attempt") /\ call' = [call EXCEPT ![t] = new]
      BY <1>1, <2>2 DEF Proceeds
    <3>2. UntimedWait(new, "attempt", q)
      BY DEF UntimedWait, NewCall
    <3> HIDE DEF new
    <3>3. QED
      BY <3>1, <3>2, UntimedGoesOn
  <2>3. QED
    BY <2>1, <2>2
<1>2. CASE Returns(t)
  BY <1>2, UntimedGoesOn DEF Returns
<1>3. CASE c.ticks > 0 /\ call' = [call EXCEPT ![t] = Entered(c)] /\ Goes(t, "suspend")
  <2>1. /\ Entered(c).ticks = c.ticks /\ Entered(c).inherited = c.inherited
        /\ Entered(c).expired = c.expired /\ Entered(c).op = c.op /\ Entered(c).x = c.x
    BY DEF Entered, CallOK, CallFields
  <2>2. c.ticks # 0
    BY <1>3
  <2> HIDE DEF CallOK
  <2>3. UntimedWait(Entered(c), "suspend", q)
    BY <2>1, <2>2 DEF UntimedWait, TakesMutex, Takes
  <2>4. QED
    BY <1>3, <2>3, UntimedGoesOn
<1>4. QED
  BY <1>1, <1>2, <1>3 DEF AttemptCall

LEMMA CallUntimed ==
    ASSUME FifoInv, FifoInv', NobodyGivesUp, QueuesMove, NEW t \in Task, Call(t)
    PROVE  NobodyGivesUp'
<1>1. PICK c \in calls :
        LET new == NewCall(c[1], c[2], c[3], c[4])
        IN  /\ Sends(new) \/ new.op \in {"receive", "peek", "select"} \/ Takes(new)
            /\ AttemptCall(t, new)
  BY DEF Call
<1> DEFINE new == NewCall(c[1], c[2], c[3], c[4])
<1>2. Allowed(c, q, calls) /\ (c[1] = "select" => c[2] \in SelectedFrom(calls))
  BY DEF FifoInv, IsApplication, SelectedFrom
<1>3. /\ new.op = c[1] /\ new.x = c[2] /\ new.item = c[3] /\ new.ticks = c[4]
      /\ ~new.inherited /\ ~new.expired /\ DOMAIN new = CallFields
  BY DEF NewCall, CallFields
<1>4. AttemptCall(t, new)
      /\ (Sends(new) \/ new.op \in {"receive", "peek", "select"} \/ Takes(new))
  BY <1>1
<1> HIDE DEF new
<1>5. CallOK(new, q, calls)
  BY <1>2, <1>3, <1>4 DEF CallOK, Allowed, Sends, Takes
<1>6. TakesMutex(new, q) => new.ticks \in {0, portMAX_DELAY}
  BY <1>3 DEF TakesMutex, Takes, NobodyGivesUp, MutexesUntimed
<1>7. UntimedWait(new, "attempt", q)
  BY <1>3, <1>6 DEF UntimedWait
<1>8. QED
  BY <1>4, <1>5, <1>7, AttemptUntimed

\* The time of who waits for ever does not run out.
LEMMA CheckUntimed ==
    ASSUME FifoInv, FifoInv', NobodyGivesUp, QueuesMove, NEW t \in Task, Check(t)
    PROVE  NobodyGivesUp'
<1> DEFINE c == call[t]
           r == xTaskCheckForTimeOut(k, c.timeout, c.ticks)
           where == IF r.expired \/ Can(c) THEN "unlockTx" ELSE "place"
           d == [c EXCEPT !.timeout = r.timeout, !.ticks = r.ticks,
                          !.expired = r.expired, !.placed = FALSE]
<1>1. At(t, "check") /\ Goes(t, where)
  BY DEF Check
<1>2. CallOK(c, q, calls) /\ UntimedWait(c, "check", q)
  BY <1>1, InCallIsOK DEF At, NobodyGivesUp
<1>3. DOMAIN c = CallFields /\ DOMAIN call = Task
  BY <1>2 DEF CallOK, FifoInv, CallsOK
<1>4. call' = [call EXCEPT ![t] = d]
  BY <1>3 DEF Check, CallFields
<1>5. /\ d.ticks = r.ticks /\ d.expired = r.expired
      /\ d.x = c.x /\ d.op = c.op /\ d.inherited = c.inherited
  BY <1>3 DEF CallFields
<1>6. c.ticks = portMAX_DELAY => ~r.expired /\ r.ticks = portMAX_DELAY
  BY DEF xTaskCheckForTimeOut
<1>7. TakesMutex(d, q) <=> TakesMutex(c, q)
  BY <1>5 DEF TakesMutex, Takes
<1>8. where \in {"unlockTx", "place"}
  OBVIOUS
<1> HIDE DEF d, r, where
<1>9. UntimedWait(d, where, q)
  BY <1>2, <1>5, <1>6, <1>7, <1>8 DEF UntimedWait
<1>10. QED
  BY <1>1, <1>4, <1>9, UntimedGoesOn

LEMMA PlaceUntimed ==
    ASSUME FifoInv, FifoInv', NobodyGivesUp, QueuesMove, NEW t \in Task, Place(t)
    PROVE  NobodyGivesUp'
<1> DEFINE c == call[t]
           lends == Takes(c) /\ IsMutex(s, c.x)
           d == [c EXCEPT !.inherited = lends /\ Inherits(k, q[c.x].holder),
                          !.placed = TRUE]
<1>1. At(t, "place") /\ Goes(t, "unlockTx")
  BY DEF Place
<1>2. CallOK(c, q, calls) /\ UntimedWait(c, "place", q)
  BY <1>1, InCallIsOK DEF At, NobodyGivesUp
<1>3. DOMAIN c = CallFields /\ DOMAIN call = Task
  BY <1>2 DEF CallOK, FifoInv, CallsOK
<1>4. call' = [call EXCEPT ![t] = d]
  BY <1>3 DEF Place, CallFields
<1>5. /\ d.ticks = c.ticks /\ d.expired = c.expired /\ d.x = c.x /\ d.op = c.op
      /\ d.inherited => lends
  BY <1>3 DEF CallFields
<1>6. lends => TakesMutex(c, q)
  BY DEF IsMutex, s, TakesMutex, Mutexes
<1>7. TakesMutex(d, q) <=> TakesMutex(c, q)
  BY <1>5 DEF TakesMutex, Takes
<1> HIDE DEF d, lends
<1>8. UntimedWait(d, "unlockTx", q)
  BY <1>2, <1>5, <1>6, <1>7 DEF UntimedWait
<1>9. QED
  BY <1>1, <1>4, <1>8, UntimedGoesOn

\* The other steps of a call that waits.
LEMMA WaitUntimed ==
    ASSUME FifoInv, FifoInv', NobodyGivesUp, QueuesMove, NEW t \in Task,
           \/ SuspendAll(t) \/ LockQueue(t) \/ UnlockQueueTx(t) \/ UnlockQueueRx(t)
           \/ ResumeAll(t) \/ Recheck(t)
    PROVE  NobodyGivesUp'
<1>1. PICK from, where :
        /\ At(t, from) /\ Goes(t, where) /\ from \notin {"run", "remove", "attempt"}
        /\ where \in {"run", "lock", "check", "unlockRx", "resume", "recheck", "attempt",
                      "disinherit"}
        /\ where = "run" \/ call' = call
        /\ where = "run" => call' = [call EXCEPT ![t] = NoCall]
        /\ where = "recheck" => call[t].expired
        /\ where = "disinherit" => call[t].inherited /\ from = "recheck"
  <2>1. CASE SuspendAll(t) \/ LockQueue(t) \/ UnlockQueueTx(t) \/ UnlockQueueRx(t)
    BY <2>1 DEF SuspendAll, LockQueue, UnlockQueueTx, UnlockQueueRx
  <2>2. CASE ResumeAll(t)
    BY <2>2 DEF ResumeAll, Returns
  <2>3. CASE Recheck(t)
    BY <2>3 DEF Recheck, Returns
  <2>4. QED
    BY <2>1, <2>2, <2>3
<1>2. UntimedWait(call[t], from, q)
  BY <1>1 DEF At, NobodyGivesUp
<1>3. where # "run" => UntimedWait(call[t], where, q)
  BY <1>1, <1>2 DEF UntimedWait
<1>4. QED
  BY <1>1, <1>3, UntimedGoesOn

LEMMA StepUntimed ==
    ASSUME FifoInv, NobodyGivesUp, [Next]_vars
    PROVE  FifoInv' /\ NobodyGivesUp' /\ ~LeavesBit
<1>1. QueuesMove /\ FifoInv'
  BY StepMoves
<1>2. \A t \in Task : ~DisinheritAfterTimeout(t)
  BY DEF DisinheritAfterTimeout, At, NobodyGivesUp, UntimedWait
<1>3. CASE UNCHANGED vars \/ Interrupt \/ \E t \in Task : OwnCode(t)
  <2>1. UNCHANGED <<pc, call>>
    BY <1>3 DEF vars, Interrupt, InterruptSends, InterruptSelects, InterruptReceives,
       SysTick, PendSV, OwnCode
  <2>2. QED
    BY <1>1, <1>2, <2>1, UntimedStays DEF LeavesBit
<1>4. ASSUME NEW t \in Task \ {Idle}, TaskStep(t)
      PROVE  NobodyGivesUp'
  <2>1. CASE Call(t)
    BY <1>1, <2>1, CallUntimed
  <2>2. CASE Attempt(t)
    <3>1. /\ AttemptCall(t, call[t]) /\ UntimedWait(call[t], "attempt", q)
          /\ CallOK(call[t], q, calls)
      BY <2>2, InCallIsOK DEF Attempt, At, NobodyGivesUp
    <3>2. QED
      BY <1>1, <3>1, AttemptUntimed
  <2>3. CASE Check(t) \/ Place(t)
    BY <1>1, <2>3, CheckUntimed, PlaceUntimed
  <2>4. CASE \/ SuspendAll(t) \/ LockQueue(t) \/ UnlockQueueTx(t) \/ UnlockQueueRx(t)
             \/ ResumeAll(t) \/ Recheck(t)
    BY <1>1, <2>4, WaitUntimed
  <2>5. CASE RemoveFromSet(t) \/ Removed(t)
    <3>1. PICK where \in {"run", "remove"} : \E c :
            Goes(t, where) /\ call' = [call EXCEPT ![t] = c]
      BY <2>5 DEF RemoveFromSet, Removed, Returns
    <3>2. QED
      BY <1>1, <3>1, UntimedGoesOn
  <2>6. CASE \/ Give(t) \/ TakeAgain(t) \/ GiveMutexRecursive(t) \/ Reset(t) \/ AddToSet(t)
             \/ Delay(t) \/ PrioritySet(t)
    <3>1. UNCHANGED <<pc, call>>
      BY <2>6 DEF Give, TakeAgain, GiveMutexRecursive, Reset, AddToSet, Delay, PrioritySet
    <3>2. QED
      BY <1>1, <3>1, UntimedStays
  <2>7. QED
    BY <1>2, <1>4, <2>1, <2>2, <2>3, <2>4, <2>5, <2>6 DEF TaskStep
<1>5. QED
  BY <1>1, <1>2, <1>3, <1>4 DEF Next, LeavesBit

\* Where mutexes are waited for for ever or not at all, no bit is left behind: nobody
\* gives up on one, and vTaskPriorityDisinheritAfterTimeout is never reached.
THEOREM UntimedKeepBits == Spec /\ MutexesUntimed => BitsKept
<1>1. Init /\ MutexesUntimed => FifoInv /\ NobodyGivesUp
  BY NewQueuesAre DEF NobodyGivesUp, Init
<1>2. FifoInv /\ NobodyGivesUp /\ [Next]_vars =>
        (FifoInv /\ NobodyGivesUp)' /\ [~LeavesBit]_vars
  BY StepUntimed
<1>3. QED
  BY <1>1, <1>2, PTL DEF Spec, BitsKept

-----------------------------------------------------------------------------
(* What a step leaves to the tasks that wait for a mutex *)

\* xPendingReadyList is used while the scheduler is suspended.
NonePended(g) == g.suspensions = 0 => Elements(g.pending) = {}

\* Where a task is that has been woken or runs.
Up(g) == Ready(g) \cup Elements(g.pending)

\* No priority changes; who leaves an event list has been woken, and those who
\* are left in it stay in turn.
Staying(j, g) ==
    /\ SamePrices(j, g)
    /\ Ready(g) \subseteq Ready(j)
    /\ Up(g) \subseteq Up(j)
    /\ \A e \in EventLists :
         /\ Elements(j.events[e]) \subseteq Elements(g.events[e])
         /\ Elements(g.events[e]) \subseteq Elements(j.events[e]) \cup Up(j)
    /\ InTurn(j, g)
    /\ NonePended(g) => NonePended(j)

LEMMA StayingSelf ==
    ASSUME NEW g
    PROVE  Staying(g, g)
BY DEF Staying, SamePrices, InTurn

LEMMA StayingBoth ==
    ASSUME NEW g, NEW j, NEW i, Staying(j, g), Staying(i, j)
    PROVE  Staying(i, g)
<1>1. InTurn(i, g)
  BY TurnsBoth DEF Staying
<1>2. \A e \in EventLists :
        /\ Elements(i.events[e]) \subseteq Elements(g.events[e])
        /\ Elements(g.events[e]) \subseteq Elements(i.events[e]) \cup Up(i)
  BY DEF Staying
<1>3. QED
  BY <1>1, <1>2 DEF Staying, SamePrices

LEMMA ReadiedStays ==
    ASSUME NEW g, KernelOK(g), NEW j, NEW S, Readied(j, g, S), SamePrices(j, g),
           j.suspensions = 0 => g.suspensions = 0 \/ Elements(g.pending) \subseteq S
    PROVE  Staying(j, g)
<1>1. Ready(g) \subseteq Ready(j)
  BY ReadiedApart DEF KernelOK
<1>2. /\ \A p \in Priority : ReadyAt(j, p) = (ReadyAt(g, p) \ S) \cup {t \in S : g.priority[t] = p}
      /\ Elements(j.pending) = Elements(g.pending) \ S
      /\ \A e \in EventLists : Elements(j.events[e]) = Elements(g.events[e]) \ S
      /\ InTurn(j, g)
  BY DEF Readied
<1>3. /\ Good(g) /\ g.priority \in [Task -> Priority] /\ IsList(g.pending, Task)
      /\ \A e \in EventLists : IsList(g.events[e], Task)
  BY DEF KernelOK, Good, Sound, Shape
<1>4. ASSUME NEW t \in Task, t \in S PROVE t \in Ready(j)
  <2>1. t \in ReadyAt(j, g.priority[t]) /\ g.priority[t] \in Priority
    BY <1>2, <1>3, <1>4
  <2>2. QED
    BY <2>1 DEF Ready
<1>5. Elements(g.pending) \subseteq Task /\ \A e \in EventLists : Elements(g.events[e]) \subseteq Task
  BY <1>3 DEF IsList, Elements
<1>6. Up(g) \subseteq Up(j)
  BY <1>1, <1>2, <1>4, <1>5 DEF Up
<1>7. \A e \in EventLists :
        /\ Elements(j.events[e]) \subseteq Elements(g.events[e])
        /\ Elements(g.events[e]) \subseteq Elements(j.events[e]) \cup Up(j)
  BY <1>2, <1>4, <1>5 DEF Up
<1>8. NonePended(g) => NonePended(j)
  BY <1>2 DEF NonePended
<1>9. QED
  BY <1>1, <1>2, <1>6, <1>7, <1>8 DEF Staying

\* The flags of the kernel.
LEMMA FlagsStay ==
    ASSUME NEW g, KernelOK(g), NEW j, Keeps(j, g, {"yield", "pendsv", "pended"})
    PROVE  Staying(j, g)
<1>1. /\ SamePrices(j, g) /\ j.suspensions = g.suspensions
      /\ Readied(j, g, {})
  BY FlagsReadied DEF Keeps, KernelFields, SamePrices, Flags, KernelOK
<1>2. QED
  BY <1>1, ReadiedStays

LEMMA FlagStays ==
    ASSUME NEW g, KernelOK(g), NEW j, NEW e,
           \/ j = [g EXCEPT !.yield = e] \/ j = vTaskMissedYield(g) \/ j = YieldIf(g, e)
           \/ j = g
    PROVE  Staying(j, g)
<1>1. DOMAIN g = KernelFields
  BY DEF KernelOK, Good, Sound, Shape
<1>2. Keeps(j, g, {"yield", "pendsv", "pended"})
  BY <1>1 DEF Keeps, KernelFields, vTaskMissedYield, YieldIf, portYIELD
<1>3. QED
  BY <1>2, FlagsStay

\* The head of an event list is woken.
LEMMA RemovedStays ==
    ASSUME NEW g, KernelOK(g), NEW list \in EventLists, g.events[list] # << >>
    PROVE  LET j == xTaskRemoveFromEventList(g, list)
           IN  /\ Staying(j, g)
               /\ Elements(j.events[list]) = Elements(g.events[list]) \ {Head(g.events[list])}
               /\ j.pendsv = g.pendsv
<1> DEFINE t == Head(g.events[list])
           e == RemoveEventItem(g, t)
           r == Unblock(e, t)
           j == xTaskRemoveFromEventList(g, list)
<1>1. /\ Good(g) /\ DOMAIN g = KernelFields /\ IsList(g.events[list], Task)
      /\ DOMAIN g.events = EventLists
  BY DEF KernelOK, Good, Sound, Shape
<1>2. t \in Elements(g.events[list]) /\ t \in Task
  BY <1>1, HeadIs
<1>3. EventGone(e, g, t)
  BY <1>1, <1>2, EventGoneIs
<1>5. j = [r EXCEPT !.yield = @ \/ Outranks(g, t)]
  BY DEF xTaskRemoveFromEventList
<1> HIDE DEF e, t
<1>6. /\ SamePrices(e, g) /\ e.suspensions = g.suspensions
      /\ e.pendsv = g.pendsv /\ e.ready = g.ready
  BY <1>3 DEF EventGone, Keeps, KernelFields, SamePrices
<1> DEFINE Removed0(h) == /\ Staying(h, g) /\ h.pendsv = g.pendsv /\ DOMAIN h = KernelFields
                          /\ Elements(h.events[list]) = Elements(g.events[list]) \ {t}
<1>7. ASSUME g.suspensions = 0 PROVE Removed0(r)
  <2>1. r = MoveToReadyList(e, t)
    BY <1>6, <1>7 DEF Unblock
  <2>2. MadeReady(r, e, t)
    BY <1>2, <1>3, <2>1, MadeReadyIs DEF EventGone
  <2> HIDE DEF r
  <2>3. Readied(r, g, {t})
    BY <1>1, <1>2, <1>3, <2>2, WokenByMove, WokenReadied
  <2>4. SamePrices(r, e) /\ r.suspensions = e.suspensions /\ r.pendsv = e.pendsv
        /\ DOMAIN r = KernelFields
    BY <2>2 DEF MadeReady, Keeps, KernelFields, StateLists, SamePrices
  <2>5. Staying(r, g)
    BY <1>6, <1>7, <2>3, <2>4, ReadiedStays DEF SamePrices
  <2>6. QED
    BY <1>6, <2>3, <2>4, <2>5 DEF Readied
<1>8. ASSUME g.suspensions # 0 PROVE Removed0(r)
  <2>1. r = WithPended(e, t)
    BY <1>6, <1>8 DEF Unblock, WithPended
  <2>2. /\ Good(e) /\ t \notin Elements(e.pending) /\ InTurn(e, g)
        /\ Elements(e.pending) = Elements(g.pending) \ {t}
        /\ \A f \in EventLists : Elements(e.events[f]) = Elements(g.events[f]) \ {t}
    BY <1>3 DEF EventGone
  <2>3. Keeps(r, e, {"pending"}) /\ Elements(r.pending) = Elements(e.pending) \cup {t}
    BY <1>2, <2>1, <2>2, PendIs
  <2> HIDE DEF r
  <2>4. /\ SamePrices(r, e) /\ r.suspensions = e.suspensions /\ r.pendsv = e.pendsv
        /\ r.events = e.events /\ r.ready = e.ready /\ DOMAIN r = KernelFields
    BY <2>3 DEF Keeps, KernelFields, SamePrices
  <2>5. Ready(r) = Ready(g)
    BY <1>6, <2>4 DEF Ready, ReadyAt
  <2>6. \A f \in EventLists : Elements(r.events[f]) = Elements(g.events[f]) \ {t}
    BY <2>2, <2>4
  <2>7. InTurn(r, g)
    BY <2>2, <2>4, TurnsSame, TurnsBoth
  <2>8. Elements(g.pending) \cup {t} = Elements(r.pending)
    BY <2>2, <2>3
  <2>9. Staying(r, g)
    BY <1>6, <1>8, <2>4, <2>5, <2>6, <2>7, <2>8 DEF Staying, SamePrices, NonePended, Up
  <2>10. QED
    BY <1>6, <2>4, <2>6, <2>9
<1>9. Removed0(r)
  BY <1>7, <1>8
<1> HIDE DEF r, j
<1>10. /\ Removed0(j)
  <2>1. Keeps(j, r, {"yield"})
    BY <1>5, <1>9 DEF Keeps, KernelFields
  <2>2. /\ SamePrices(j, r) /\ j.suspensions = r.suspensions /\ j.pendsv = r.pendsv
        /\ j.events = r.events /\ j.ready = r.ready /\ j.pending = r.pending
        /\ DOMAIN j = KernelFields
    BY <2>1 DEF Keeps, KernelFields, SamePrices
  <2>3. Ready(j) = Ready(r) /\ InTurn(j, r)
    BY <2>2, TurnsSame DEF Ready, ReadyAt
  <2>4. Staying(j, r)
    BY <2>2, <2>3 DEF Staying, NonePended, Up
  <2>5. QED
    BY <1>9, <2>2, <2>4, StayingBoth
<1>11. QED
  BY <1>10 DEF j, t

\* xPortSysTickHandler
LEMMA TickStays ==
    ASSUME NEW g, KernelOK(g), NEW r, r = xTaskIncrementTick(g)
    PROVE  Staying(YieldIf(r.k, r.switch), g)
<1>1. Good(g) /\ Timed(g) /\ DOMAIN g = KernelFields
  BY DEF KernelOK, Good, Sound, Shape
<1>2. CASE g.suspensions = 0
  <2>1. Keeps(r.k, g, TickFields) /\ Readied(r.k, g, DueAt(g))
    BY <1>1, <1>2, TickReadied
  <2>2. SamePrices(r.k, g) /\ DOMAIN r.k = KernelFields
    BY <2>1 DEF Keeps, KernelFields, TickFields, WakeFields, StateLists, SamePrices
  <2>3. Staying(r.k, g)
    BY <1>2, <2>1, <2>2, ReadiedStays
  <2> DEFINE j == YieldIf(r.k, r.switch)
  <2>4. Keeps(j, r.k, {"pendsv"})
    BY <2>2 DEF Keeps, KernelFields, YieldIf, portYIELD
  <2> HIDE DEF j
  <2>5. /\ SamePrices(j, r.k) /\ j.suspensions = r.k.suspensions
        /\ j.events = r.k.events /\ j.ready = r.k.ready /\ j.pending = r.k.pending
    BY <2>4 DEF Keeps, KernelFields, SamePrices
  <2>6. Ready(j) = Ready(r.k) /\ InTurn(j, r.k)
    BY <2>5, TurnsSame DEF Ready, ReadyAt
  <2>7. Staying(j, r.k)
    BY <2>5, <2>6 DEF Staying, NonePended, Up
  <2>8. QED
    BY <2>3, <2>7, StayingBoth DEF j
<1>3. CASE g.suspensions = 1
  <2> DEFINE j == [g EXCEPT !.pended = @ + 1]
  <2>1. r = [k |-> j, switch |-> FALSE]
    BY <1>3 DEF xTaskIncrementTick
  <2>2. YieldIf(r.k, r.switch) = j
    BY <2>1 DEF YieldIf
  <2>3. Keeps(j, g, {"yield", "pendsv", "pended"})
    BY <1>1 DEF Keeps, KernelFields
  <2> HIDE DEF j
  <2>4. QED
    BY <2>2, <2>3, FlagsStay
<1>4. QED
  BY <1>2, <1>3 DEF KernelOK

LEMMA SuspendStays ==
    ASSUME NEW g, KernelOK(g), g.suspensions = 0
    PROVE  Staying(vTaskSuspendAll(g), g)
<1> DEFINE j == vTaskSuspendAll(g)
<1>1. Good(g) /\ DOMAIN g = KernelFields
  BY DEF KernelOK, Good, Sound, Shape
<1>2. Keeps(j, g, {"suspensions"})
  BY <1>1 DEF Keeps, KernelFields, vTaskSuspendAll
<1> HIDE DEF j
<1>3. SamePrices(j, g) /\ Readied(j, g, {})
  BY <1>1, <1>2, FlagsReadied DEF Keeps, KernelFields, SamePrices, Flags
<1>4. QED
  BY <1>3, ReadiedStays DEF j

LEMMA ResumeStays ==
    ASSUME NEW g, KernelOK(g), g.suspensions = 1
    PROVE  Staying(xTaskResumeAll(g), g)
<1> DEFINE j == xTaskResumeAll(g)
<1>1. Good(g) /\ Timed(g) /\ g.pended \in Nat
  BY DEF KernelOK
<1>2. /\ Keeps(j, g, ResumeFields)
      /\ \E S : Elements(g.pending) \subseteq S /\ Readied(j, g, S)
  BY <1>1, ResumeAllIs
<1> HIDE DEF j
<1>3. SamePrices(j, g)
  BY <1>2 DEF Keeps, KernelFields, ResumeFields, TickFields, WakeFields, StateLists, SamePrices
<1>4. QED
  BY <1>2, <1>3, ReadiedStays DEF j

\* The switch is to a task that no ready one outranks.
LEMMA SwitchStays ==
    ASSUME NEW g, KernelOK(g), Ready(g) # {}
    PROVE  LET j == vTaskSwitchContext(g)
           IN  /\ Staying(j, g)
               /\ g.suspensions = 0 =>
                    \A t \in Ready(j) : j.priority[t] <= j.priority[j.current]
<1> DEFINE j == vTaskSwitchContext(g)
<1>1. Good(g)
  BY DEF KernelOK
<1> DEFINE Switched == /\ Staying(j, g)
                       /\ g.suspensions = 0 =>
                            \A t \in Ready(j) : j.priority[t] <= j.priority[j.current]
<1>2. ASSUME g.suspensions = 0 PROVE Switched
  <2>1. g.top # {}
    <3>1. PICK p \in Priority : ReadyAt(g, p) # {}
      BY DEF Ready
    <3>2. p \in g.top
      BY <1>1, <3>1 DEF Good, TopRight
    <3>3. QED
      BY <3>2
  <2>0. ~(g.suspensions > 0)
    BY <1>2
  <2>2. /\ Keeps(j, g, {"yield", "pendsv", "ready", "current"})
        /\ Readied(j, g, {}) /\ OnTop(j)
    BY <1>1, <2>0, <2>1, SwitchIs
  <2> HIDE DEF j
  <2>3. SamePrices(j, g)
    BY <2>2 DEF Keeps, KernelFields, SamePrices
  <2>4. Staying(j, g)
    BY <1>2, <2>2, <2>3, ReadiedStays
  <2>5. ASSUME NEW t \in Ready(j) PROVE j.priority[t] <= j.priority[j.current]
    <3>1. PICK p \in Priority : t \in ReadyAt(j, p)
      BY <2>5 DEF Ready
    <3>2. Good(j)
      BY <2>2 DEF Readied
    <3>3. j.priority[t] = p /\ p \in j.top
      BY <3>1, <3>2, ReadyTasks DEF Good, TopRight
    <3>4. QED
      BY <2>2, <3>3 DEF OnTop
  <2>6. QED
    BY <2>4, <2>5
<1>3. ASSUME g.suspensions = 1 PROVE Switched
  <2>0. g.suspensions > 0
    BY <1>3
  <2>1. Keeps(j, g, {"yield", "pendsv"})
    BY <1>1, <2>0, SwitchLater
  <2> HIDE DEF j
  <2>2. Keeps(j, g, {"yield", "pendsv", "pended"})
    BY <2>1 DEF Keeps
  <2>3. Staying(j, g)
    BY <2>2, FlagsStay
  <2>4. g.suspensions # 0
    BY <1>3
  <2>5. QED
    BY <2>3, <2>4
<1>4. g.suspensions \in {0, 1}
  BY DEF KernelOK
<1>5. QED
  BY <1>2, <1>3, <1>4 DEF j

-----------------------------------------------------------------------------
(* Priorities that are lent *)

\* Only the holder of the mutex runs at another priority than its own, and no
\* lower one.
Fair(g, h) ==
    \A t \in Task :
        /\ ~g.bits[t].used /\ g.event[t] = MaxPriorities - g.priority[t]
        /\ g.base[t] <= g.priority[t]
        /\ t # h => g.priority[t] = g.base[t]

Counted(g, h) ==
    /\ DOMAIN g.mutexes = Task
    /\ \A t \in Task : g.mutexes[t] = IF t = h THEN 1 ELSE 0

Priced(g, h) == Fair(g, h) /\ Counted(g, h)

\* The priority of a task has changed, and nothing else has.
Beside(j, g, h) ==
    /\ j.base = g.base /\ j.events = g.events /\ j.pending = g.pending
    /\ Ready(j) = Ready(g)
    /\ \A t \in Task \ {h} : j.event[t] = g.event[t] /\ j.priority[t] = g.priority[t]

LEMMA BesideSelf ==
    ASSUME NEW g, NEW h
    PROVE  Beside(g, g, h)
BY DEF Beside

LEMMA PricesSame ==
    ASSUME NEW g, NEW j, NEW h, Priced(g, h), SamePrices(j, g)
    PROVE  Priced(j, h)
BY DEF Priced, Fair, Counted, SamePrices

LEMMA RepricedIs ==
    ASSUME NEW g, KernelOK(g), NEW h \in Task, NEW new \in Priority, Fair(g, h),
           NEW j, Repriced(j, g, h, new), g.base[h] <= new
    PROVE  Fair(j, h) /\ Beside(j, g, h) /\ j.priority[h] = new /\ j.mutexes = g.mutexes
<1>1. /\ g.priority \in [Task -> Priority] /\ g.base \in [Task -> Priority]
      /\ g.event \in [Task -> 1 .. MaxPriorities]
  BY DEF KernelOK, Good, Sound, Shape
<1>2. j.priority[h] = new /\ \A t \in Task \ {h} : j.priority[t] = g.priority[t]
  BY <1>1 DEF Repriced
<1>3. j.event[h] = MaxPriorities - new /\ \A t \in Task \ {h} : j.event[t] = g.event[t]
  BY <1>1 DEF Repriced, Fair
<1>4. j.base = g.base /\ j.bits = g.bits /\ j.mutexes = g.mutexes
  BY DEF Repriced
<1>5. Beside(j, g, h)
  BY <1>2, <1>3 DEF Repriced, Beside
<1>6. ASSUME NEW t \in Task
      PROVE  /\ ~j.bits[t].used /\ j.event[t] = MaxPriorities - j.priority[t]
             /\ j.base[t] <= j.priority[t]
             /\ t # h => j.priority[t] = j.base[t]
  <2>1. CASE t = h
    BY <1>2, <1>3, <1>4, <2>1 DEF Fair
  <2>2. CASE t # h
    BY <1>2, <1>3, <1>4, <2>2 DEF Fair
  <2>3. QED
    BY <2>1, <2>2
<1>7. QED
  BY <1>2, <1>4, <1>5, <1>6 DEF Fair

\* The holder inherits the priority of the task that is about to wait.
LEMMA LentIs ==
    ASSUME NEW g, KernelOK(g), NEW h \in Task, Priced(g, h),
           NEW j, j = xTaskPriorityInherit(g, h)
    PROVE  /\ Priced(j, h) /\ Beside(j, g, h)
           /\ j.priority[h] = IF g.priority[h] < g.priority[g.current]
                                THEN g.priority[g.current] ELSE g.priority[h]
<1> DEFINE new == g.priority[g.current]
<1>1. /\ new \in Priority /\ g.base[h] \in Int /\ g.priority[h] \in Int /\ new \in Int
      /\ g.base[h] <= g.priority[h] /\ h # NoTask
  BY NoTaskAssumption, PrioritiesAssumption
     DEF KernelOK, Good, Sound, Shape, Timed, Priced, Fair, Priority
<1>2. CASE g.priority[h] < new
  <2>1. j = ChangePriority(g, h, new, g.priority[h])
    BY <1>1, <1>2 DEF xTaskPriorityInherit
  <2> HIDE DEF new
  <2>2. Repriced(j, g, h, new)
    BY <1>1, <2>1, PriorityWakes
  <2>3. g.base[h] <= new
    BY <1>1, <1>2
  <2>4. Fair(j, h) /\ Beside(j, g, h) /\ j.priority[h] = new /\ j.mutexes = g.mutexes
    BY <1>1, <2>2, <2>3, RepricedIs DEF Priced
  <2>5. QED
    BY <1>2, <2>4 DEF Priced, Counted, new
<1>3. CASE ~(g.priority[h] < new)
  <2>1. j = g
    BY <1>3 DEF xTaskPriorityInherit
  <2>2. QED
    BY <1>3, <2>1, BesideSelf
<1>4. QED
  BY <1>2, <1>3

\* The holder gives the mutex back, and what it inherited.
LEMMA GivenIs ==
    ASSUME NEW g, KernelOK(g), NEW h \in Task, Priced(g, h),
           NEW j, j = xTaskPriorityDisinherit(g, h)
    PROVE  Priced(j, NoTask) /\ Beside(j, g, h) /\ j.priority[h] = g.base[h]
<1> DEFINE d == [g EXCEPT !.mutexes[h] = @ - 1]
<1>1. DOMAIN g = KernelFields /\ g.base \in [Task -> Priority] /\ h # NoTask
  BY NoTaskAssumption DEF KernelOK, Good, Sound, Shape
<1>2. /\ Keeps(d, g, {"mutexes"}) /\ d.mutexes = [g.mutexes EXCEPT ![h] = @ - 1]
  BY <1>1 DEF Keeps, KernelFields
<1>3. j = IF Disinherits(g, h) THEN ChangePriority(d, h, d.base[h], d.priority[h]) ELSE d
  BY <1>1 DEF xTaskPriorityDisinherit
<1> HIDE DEF d
<1>4. /\ d.priority = g.priority /\ d.base = g.base /\ d.event = g.event /\ d.bits = g.bits
      /\ d.events = g.events /\ d.pending = g.pending /\ d.ready = g.ready
      /\ d.pendsv = g.pendsv
  BY <1>2 DEF Keeps, KernelFields
<1>5. KernelOK(d)
  <2>1. Keeps(d, g, OtherFields)
    BY <1>2 DEF Keeps, OtherFields
  <2>2. QED
    BY <1>4, <2>1, WakesNone DEF Wakes
<1>6. Fair(d, h) /\ Ready(d) = Ready(g)
  BY <1>4 DEF Priced, Fair, Ready, ReadyAt
<1>7. Counted(d, NoTask)
  BY <1>2, NoTaskAssumption DEF Priced, Counted
<1>8. g.mutexes[h] = 1
  BY DEF Priced, Counted
<1>9. Fair(j, h) /\ Beside(j, g, h) /\ j.priority[h] = g.base[h] /\ j.mutexes = d.mutexes
      /\ j.base = g.base
  <2>1. CASE Disinherits(g, h)
    <3>1. d.base[h] \in Priority /\ d.base[h] <= d.base[h]
      BY <1>1, <1>4, PrioritiesAssumption DEF Priority
    <3>2. Repriced(j, d, h, d.base[h])
      BY <1>3, <1>5, <2>1, <3>1, PriorityWakes
    <3>3. Fair(j, h) /\ Beside(j, d, h) /\ j.priority[h] = d.base[h] /\ j.mutexes = d.mutexes
      BY <1>5, <1>6, <3>1, <3>2, RepricedIs
    <3>4. QED
      BY <1>4, <1>6, <3>3 DEF Beside
  <2>2. CASE ~Disinherits(g, h)
    <3>1. j = d /\ g.priority[h] = g.base[h]
      BY <1>1, <1>3, <1>8, <2>2 DEF Disinherits
    <3>2. QED
      BY <1>4, <1>6, <3>1 DEF Beside
  <2>3. QED
    BY <2>1, <2>2
<1>10. Fair(j, NoTask)
  BY <1>9, NoTaskAssumption DEF Fair
<1>11. QED
  BY <1>7, <1>9, <1>10 DEF Priced, Counted

\* A waiter has given up: the holder falls to the highest priority that waits.
LEMMA GaveUpIs ==
    ASSUME NEW g, KernelOK(g), NEW h \in Task, Priced(g, h), NEW n \in Priority,
           NEW j, j = vTaskPriorityDisinheritAfterTimeout(g, h, n),
           g.priority[h] = Max({g.base[h], n}) \/ ReadyAt(g, g.priority[h]) # {h}
    PROVE  Priced(j, h) /\ Beside(j, g, h) /\ j.priority[h] = Max({g.base[h], n})
<1> DEFINE p == Max({g.base[h], n})
<1>1. /\ Sound(g) /\ g.priority[h] \in Priority /\ g.base[h] \in Priority
      /\ IsReadyList(g.ready[g.priority[h]], Task) /\ h # NoTask
  BY NoTaskAssumption DEF KernelOK, Good, Sound, Shape
<1>2. p \in Priority /\ g.base[h] <= p
  <2>1. {g.base[h], n} \subseteq 0 .. MaxPriorities - 1 /\ MaxPriorities - 1 \in Nat
    BY <1>1, PrioritiesAssumption DEF Priority
  <2>2. p \in {g.base[h], n} /\ \A i \in {g.base[h], n} : i <= p
    BY <2>1, MaxIs
  <2>3. QED
    BY <1>1, <2>2
<1>3. g.mutexes[h] = 1
  BY DEF Priced, Counted
<1>4. CASE g.priority[h] = p
  <2>1. j = g
    BY <1>4 DEF vTaskPriorityDisinheritAfterTimeout
  <2>2. QED
    BY <1>4, <2>1, BesideSelf
<1>5. CASE g.priority[h] # p
  <2>1. j = ChangePriority(g, h, p, p) /\ ReadyAt(g, g.priority[h]) # {h}
    BY <1>1, <1>3, <1>5 DEF vTaskPriorityDisinheritAfterTimeout
  <2> HIDE DEF p
  <2>2. ASSUME Contained(h, g.ready[g.priority[h]])
        PROVE  ~LeavesListEmpty(g, h)
    <3>1. h \in ReadyAt(g, g.priority[h])
      BY <1>1, <2>2 DEF Contained, ToSet, ReadyAt, Elements
    <3>2. QED
      BY <1>1, <2>1, <3>1, LeavesEmptyIs
  <2>3. j = ChangePriority(g, h, p, g.priority[h])
    BY <2>1, <2>2 DEF ChangePriority
  <2>4. Repriced(j, g, h, p)
    BY <1>1, <1>2, <2>3, PriorityWakes
  <2>5. Fair(j, h) /\ Beside(j, g, h) /\ j.priority[h] = p /\ j.mutexes = g.mutexes
    BY <1>1, <1>2, <2>4, RepricedIs DEF Priced
  <2>6. QED
    BY <2>5 DEF Priced, Counted, p
<1>6. QED
  BY <1>4, <1>5

-----------------------------------------------------------------------------
(* What the critical sections of the other queues leave to a mutex *)

\* The waiters, the queue sets and the holders stay, and the mutex m.
Spares(v, u, m) ==
    /\ Staying(v.k, u.k)
    /\ \A y \in Queue_t : v.q[y].set = u.q[y].set /\ v.q[y].holder = u.q[y].holder
    /\ v.q[m].count = u.q[m].count /\ v.q[m].depth = u.q[m].depth

LEMMA SparesSelf ==
    ASSUME NEW u, NEW m
    PROVE  Spares(u, u, m)
BY StayingSelf DEF Spares

LEMMA SparesBoth ==
    ASSUME NEW u, NEW v, NEW w, NEW m \in Queue_t, Spares(v, u, m), Spares(w, v, m)
    PROVE  Spares(w, u, m)
<1>1. Staying(w.k, u.k)
  BY StayingBoth DEF Spares
<1>2. QED
  BY <1>1 DEF Spares

\* The kernel changes, and no queue,
LEMMA KernelSpares ==
    ASSUME NEW u, NEW v, v.q = u.q, Staying(v.k, u.k), NEW m
    PROVE  Spares(v, u, m)
BY DEF Spares

\* or another queue does, but for what is looked at here.
LEMMA OtherSpares ==
    ASSUME NEW u, NEW v, v.k = u.k, NEW m \in Queue_t, NEW x \in Queue_t,
           \A y \in Queue_t \ {x} : v.q[y] = u.q[y],
           v.q[x].set = u.q[x].set, v.q[x].holder = u.q[x].holder,
           x # m \/ (v.q[x].count = u.q[x].count /\ v.q[x].depth = u.q[x].depth)
    PROVE  Spares(v, u, m)
<1>1. Staying(v.k, u.k)
  BY StayingSelf
<1>2. \A y \in Queue_t : v.q[y].set = u.q[y].set /\ v.q[y].holder = u.q[y].holder
  OBVIOUS
<1>3. v.q[m].count = u.q[m].count /\ v.q[m].depth = u.q[m].depth
  OBVIOUS
<1>4. QED
  BY <1>1, <1>2, <1>3 DEF Spares

LEMMA WokenSpares ==
    ASSUME NEW u, ServiceOK(u), NEW list \in EventLists, u.k.events[list] # << >>, NEW m
    PROVE  Spares(Woken(u, list), u, m)
<1> DEFINE j == xTaskRemoveFromEventList(u.k, list)
           v == Woken(u, list)
<1>1. Staying(j, u.k)
  BY RemovedStays DEF ServiceOK
<1>2. v.q = u.q /\ v.k = j
  BY DEF ServiceOK, Woken
<1> HIDE DEF j, v
<1>3. Spares(v, u, m)
  BY <1>1, <1>2, KernelSpares
<1>4. QED
  BY <1>3 DEF v

LEMMA FlagSpares ==
    ASSUME NEW u, NEW v, NEW m \in Queue_t, Spares(v, u, m), ServiceOK(v), NEW e,
           NEW w, \/ w = [v EXCEPT !.k = YieldIf(@, e)]
                  \/ w = [v EXCEPT !.k = IF e THEN vTaskMissedYield(@) ELSE @]
    PROVE  Spares(w, u, m)
<1>1. KernelOK(v.k) /\ DOMAIN v = {"k", "q"}
  BY DEF ServiceOK
<1>2. /\ w.q = v.q
      /\ w.k = YieldIf(v.k, e) \/ w.k = vTaskMissedYield(v.k) \/ w.k = v.k
  <2>1. CASE w = [v EXCEPT !.k = YieldIf(@, e)]
    BY <1>1, <2>1
  <2>2. CASE w = [v EXCEPT !.k = IF e THEN vTaskMissedYield(@) ELSE @]
    BY <1>1, <2>2
  <2>3. QED
    BY <2>1, <2>2
<1>3. Staying(w.k, v.k)
  BY <1>1, <1>2, FlagStays
<1>4. Spares(w, v, m)
  BY <1>2, <1>3, KernelSpares
<1>5. QED
  BY <1>4, SparesBoth

LEMMA WakeSpares ==
    ASSUME NEW u, ServiceOK(u), NEW x \in Queue_t, NEW m \in Queue_t,
           NEW list \in {ToSend(x), ToReceive(x)}
    PROVE  /\ Spares(WakeHead(u, list), u, m)
           /\ Spares(WakeMissed(u, list), u, m)
<1>1. CASE u.k.events[list] = << >>
  BY <1>1, SparesSelf DEF WakeHead, WakeMissed
<1>2. CASE u.k.events[list] # << >>
  <2>0. list \in EventLists
    BY EventListsAssumption
  <2>1. Spares(Woken(u, list), u, m) /\ ServiceOK(Woken(u, list))
    BY <1>2, <2>0, WokenSpares, WokenServes DEF Serves
  <2>2. /\ WakeHead(u, list) = [Woken(u, list) EXCEPT !.k = YieldIf(@, WakesHigher(u, list))]
        /\ WakeMissed(u, list)
             = [Woken(u, list) EXCEPT !.k = IF WakesHigher(u, list) THEN vTaskMissedYield(@)
                                            ELSE @]
    BY <1>2 DEF WakeHead, WakeMissed
  <2>3. Spares(WakeHead(u, list), u, m)
    BY <2>1, <2>2, FlagSpares
  <2>4. Spares(WakeMissed(u, list), u, m)
    BY <2>1, <2>2, FlagSpares
  <2>5. QED
    BY <2>3, <2>4
<1>3. QED
  BY <1>1, <1>2

LEMMA CopiedSpares ==
    ASSUME NEW u, ServiceOK(u), NEW m \in Queue_t, NEW x \in Queue_t \ {m}, ~IsMutex(u, x),
           NEW item, NEW position
    PROVE  Spares(prvCopyDataToQueue(u, x, item, position), u, m)
<1> DEFINE v == prvCopyDataToQueue(u, x, item, position)
<1>1. DOMAIN u = {"k", "q"} /\ DOMAIN u.q = Queue_t /\ DOMAIN u.q[x] = QueueFields
  BY DEF ServiceOK, LockOK
<1>2. /\ v.k = u.k
      /\ \A y \in Queue_t \ {x} : v.q[y] = u.q[y]
      /\ v.q[x].set = u.q[x].set /\ v.q[x].holder = u.q[x].holder
  BY <1>1 DEF prvCopyDataToQueue, QueueFields
<1> HIDE DEF v
<1>3. Spares(v, u, m)
  BY <1>2, OtherSpares
<1>4. QED
  BY <1>3 DEF v

\* Without queue sets, those who wait for an item are told.
LEMMA TellSpares ==
    ASSUME NEW u, ServiceOK(u), NEW x \in Queue_t, u.q[x].set = NoQueue, NEW m \in Queue_t,
           NEW e
    PROVE  Spares([Tell(u, x) EXCEPT !.k = YieldIf(@, e)], u, m)
<1>1. ToReceive(x) \in EventLists /\ Unlocked(u) \subseteq Queue_t
  BY EventListsAssumption DEF Unlocked
<1>2. Spares(Tell(u, x), u, m)
  BY <1>1, SparesSelf, WokenSpares DEF Tell
<1>3. ServiceOK(Tell(u, x))
  BY <1>1, TellServes DEF Serves
<1>4. QED
  BY <1>2, <1>3, FlagSpares

LEMMA SendSpares ==
    ASSUME NEW u, ServiceOK(u), NEW m \in Queue_t, NEW x \in Queue_t \ {m}, ~IsMutex(u, x),
           u.q[x].set = NoQueue, NEW item, NEW position
    PROVE  /\ Spares(Send(u, x, item, position), u, m)
           /\ Spares(SendFromISR(u, x, item, position), u, m)
<1> DEFINE copied == prvCopyDataToQueue(u, x, item, position)
<1>1. Spares(copied, u, m) /\ Serves(copied, u, Queue_t)
  BY CopiedSpares, CopiedServes
<1>2. \E e : Send(u, x, item, position) = [Tell(copied, x) EXCEPT !.k = YieldIf(@, e)]
  BY DEF Send
<1>3. \E e : SendFromISR(u, x, item, position)
               = IF u.q[x].tx # queueUNLOCKED THEN prvIncrementQueueTxLock(copied, x)
                 ELSE [Tell(copied, x) EXCEPT !.k = YieldIf(@, e)]
  BY DEF SendFromISR
<1> HIDE DEF copied
<1>4. ServiceOK(copied) /\ copied.q[x].set = NoQueue
  BY <1>1 DEF Serves
<1>5. \A e : Spares([Tell(copied, x) EXCEPT !.k = YieldIf(@, e)], u, m)
  BY <1>1, <1>4, TellSpares, SparesBoth
<1>6. Spares(prvIncrementQueueTxLock(copied, x), u, m)
  <2> DEFINE v == prvIncrementQueueTxLock(copied, x)
  <2>1. DOMAIN copied = {"k", "q"} /\ DOMAIN copied.q = Queue_t
        /\ DOMAIN copied.q[x] = QueueFields
    BY <1>4 DEF ServiceOK, LockOK
  <2>2. /\ v.k = copied.k
        /\ \A y \in Queue_t \ {x} : v.q[y] = copied.q[y]
        /\ v.q[x].set = copied.q[x].set /\ v.q[x].holder = copied.q[x].holder
    BY <2>1 DEF prvIncrementQueueTxLock, QueueFields
  <2> HIDE DEF v
  <2>3. Spares(v, copied, m)
    BY <2>2, OtherSpares
  <2>4. QED
    BY <1>1, <2>3, SparesBoth DEF v
<1>7. QED
  BY <1>2, <1>3, <1>5, <1>6

LEMMA ReceivedSpares ==
    ASSUME NEW u, ServiceOK(u), NEW m \in Queue_t, NEW x \in Queue_t \ {m}
    PROVE  Spares(Received(u, x), u, m)
<1> DEFINE v == Received(u, x)
<1>1. DOMAIN u = {"k", "q"} /\ DOMAIN u.q = Queue_t /\ DOMAIN u.q[x] = QueueFields
  BY DEF ServiceOK, LockOK
<1>2. /\ v.k = u.k
      /\ \A y \in Queue_t \ {x} : v.q[y] = u.q[y]
      /\ v.q[x].set = u.q[x].set /\ v.q[x].holder = u.q[x].holder
  BY <1>1 DEF Received, QueueFields
<1> HIDE DEF v
<1>3. QED
  BY <1>2, OtherSpares DEF v

LEMMA TakenSpares ==
    ASSUME NEW u, ServiceOK(u), NEW m \in Queue_t, NEW x \in Queue_t \ {m}, ~IsMutex(u, x),
           NEW v, \/ v = Receive(u, x) \/ v = Peek(u, x) \/ v = Take(u, x)
                  \/ v = ReceiveFromISR(u, x)
    PROVE  Spares(v, u, m)
<1> DEFINE r == Received(u, x)
<1>1. Spares(r, u, m) /\ ServiceOK(r)
  BY ReceivedSpares, ReceivedServes DEF Serves
<1>2. \/ v = WakeHead(r, ToSend(x)) \/ v = WakeHead(u, ToReceive(x))
      \/ v = prvIncrementQueueRxLock(r, x)
  BY DEF Receive, Peek, Take, ReceiveFromISR
<1> HIDE DEF r
<1>3. Spares(WakeHead(r, ToSend(x)), r, m) /\ Spares(WakeHead(u, ToReceive(x)), u, m)
  BY <1>1, WakeSpares
<1>4. Spares(prvIncrementQueueRxLock(r, x), r, m)
  <2> DEFINE w == prvIncrementQueueRxLock(r, x)
  <2>1. DOMAIN r = {"k", "q"} /\ DOMAIN r.q = Queue_t /\ DOMAIN r.q[x] = QueueFields
    BY <1>1 DEF ServiceOK, LockOK
  <2>2. /\ w.k = r.k
        /\ \A y \in Queue_t \ {x} : w.q[y] = r.q[y]
        /\ w.q[x].set = r.q[x].set /\ w.q[x].holder = r.q[x].holder
    BY <2>1 DEF prvIncrementQueueRxLock, QueueFields
  <2> HIDE DEF w
  <2>3. QED
    BY <2>2, OtherSpares DEF w
<1>5. QED
  BY <1>1, <1>2, <1>3, <1>4, SparesBoth

\* The turns of prvUnlockQueue,
LEMMA TurnsSpare ==
    ASSUME NEW u, ServiceOK(u), NEW x \in Queue_t, u.q[x].set = NoQueue, NEW m \in Queue_t,
           NEW list \in {ToSend(x), ToReceive(x)}, NEW n \in Nat
    PROVE  Spares(UnlockTurns(u, x, list, n), u, m)
<1>1. PICK f : Turns(f, u, x, list, n) /\ UnlockTurns(u, x, list, n) = f[n]
  BY UnlockTurnsAre
<1> DEFINE T == {i \in Nat : i <= n => Spares(f[i], u, m) /\ ServiceOK(f[i])}
<1>2. 0 \in T
  BY <1>1, SparesSelf DEF Turns
<1>3. ASSUME NEW i \in Nat, i \in T PROVE i + 1 \in T
  <2>1. SUFFICES ASSUME i + 1 <= n PROVE Spares(f[i + 1], u, m) /\ ServiceOK(f[i + 1])
    OBVIOUS
  <2>2. Spares(f[i], u, m) /\ ServiceOK(f[i])
    BY <1>3, <2>1
  <2>3. i + 1 \in 1 .. n /\ i + 1 - 1 = i
    BY <2>1
  <2>4. f[i + 1] = UnlockTurn(f[i], x, list)
    BY <1>1, <2>3 DEF Turns
  <2>5. f[i].q[x].set = NoQueue
    BY <2>2 DEF Spares
  <2>6. f[i + 1] = WakeMissed(f[i], list)
    BY <2>4, <2>5 DEF UnlockTurn
  <2>7. Spares(f[i + 1], f[i], m)
    BY <2>2, <2>6, WakeSpares
  <2>8. Serves(f[i + 1], f[i], Queue_t)
    BY <2>2, <2>6, WakeServes
  <2>9. QED
    BY <2>2, <2>7, <2>8, SparesBoth DEF Serves
<1> HIDE DEF T
<1>4. Nat \subseteq T
  BY <1>2, <1>3, NatInduct
<1>5. QED
  BY <1>1, <1>4 DEF T

\* its two critical sections,
LEMMA UnlockSpares ==
    ASSUME NEW u, ServiceOK(u), NEW x \in Queue_t, u.q[x].set = NoQueue, NEW m \in Queue_t,
           NEW v, v = prvUnlockQueueTx(u, x) \/ v = prvUnlockQueueRx(u, x)
    PROVE  Spares(v, u, m)
<1>1. /\ Max({u.q[x].tx, 0}) \in Nat /\ Max({u.q[x].rx, 0}) \in Nat
  <2>1. u.q[x].tx \in Int /\ u.q[x].rx \in Int
    BY DEF ServiceOK, LockOK, queueUNLOCKED
  <2>2. QED
    BY <2>1, LargerIs
<1>2. PICK list \in {ToSend(x), ToReceive(x)}, n \in Nat :
        LET w == UnlockTurns(u, x, list, n)
        IN  \/ v = [w EXCEPT !.q[x].tx = queueUNLOCKED]
            \/ v = [w EXCEPT !.q[x].rx = queueUNLOCKED]
  BY <1>1 DEF prvUnlockQueueTx, prvUnlockQueueRx
<1> DEFINE w == UnlockTurns(u, x, list, n)
<1>3. Spares(w, u, m) /\ ServiceOK(w)
  BY TurnsSpare, TurnsServe DEF Serves
<1>4. \/ v = [w EXCEPT !.q[x].tx = queueUNLOCKED]
      \/ v = [w EXCEPT !.q[x].rx = queueUNLOCKED]
  BY <1>2
<1> HIDE DEF w
<1>5. DOMAIN w = {"k", "q"} /\ DOMAIN w.q = Queue_t /\ DOMAIN w.q[x] = QueueFields
  BY <1>3 DEF ServiceOK, LockOK
<1>6. /\ v.k = w.k
      /\ \A y \in Queue_t \ {x} : v.q[y] = w.q[y]
      /\ v.q[x].set = w.q[x].set /\ v.q[x].holder = w.q[x].holder
      /\ v.q[x].count = w.q[x].count /\ v.q[x].depth = w.q[x].depth
  BY <1>4, <1>5 DEF QueueFields
<1>7. Spares(v, w, m)
  BY <1>6, OtherSpares
<1>8. QED
  BY <1>3, <1>7, SparesBoth

\* prvLockQueue
LEMMA LockSpares ==
    ASSUME NEW u, ServiceOK(u), NEW x \in Queue_t, NEW m \in Queue_t
    PROVE  Spares(prvLockQueue(u, x), u, m)
<1> DEFINE v == prvLockQueue(u, x)
<1>1. DOMAIN u = {"k", "q"} /\ DOMAIN u.q = Queue_t /\ DOMAIN u.q[x] = QueueFields
  BY DEF ServiceOK, LockOK
<1>2. /\ v.k = u.k
      /\ \A y \in Queue_t \ {x} : v.q[y] = u.q[y]
      /\ v.q[x].set = u.q[x].set /\ v.q[x].holder = u.q[x].holder
      /\ v.q[x].count = u.q[x].count /\ v.q[x].depth = u.q[x].depth
  BY <1>1 DEF prvLockQueue, QueueFields
<1> HIDE DEF v
<1>3. QED
  BY <1>2, OtherSpares DEF v

\* and xQueueGenericReset.
LEMMA ResetSpares ==
    ASSUME NEW u, ServiceOK(u), NEW m \in Queue_t, NEW x \in Queue_t \ {m}
    PROVE  Spares(xQueueGenericReset(u, x), u, m)
<1> DEFINE w == [u EXCEPT !.q[x].count = 0, !.q[x].writeTo = 0,
                         !.q[x].readFrom = u.q[x].length - 1,
                         !.q[x].rx = queueUNLOCKED, !.q[x].tx = queueUNLOCKED]
           v == xQueueGenericReset(u, x)
<1>1. DOMAIN u = {"k", "q"} /\ DOMAIN u.q = Queue_t /\ LockOK(u.q[x])
      /\ u.q[x].set \in Queue_t \cup {NoQueue}
  BY DEF ServiceOK
<1>2. v = WakeHead(w, ToSend(x))
  BY DEF xQueueGenericReset
<1>3. /\ DOMAIN w = {"k", "q"} /\ w.k = u.k /\ DOMAIN w.q = Queue_t
      /\ \A y \in Queue_t \ {x} : w.q[y] = u.q[y]
      /\ w.q[x].set = u.q[x].set /\ LockOK(w.q[x]) /\ w.q[x].holder = u.q[x].holder
  BY <1>1 DEF LockOK, QueueFields
<1>4. ServesBut(u, u, x)
  BY WakesSelf DEF ServesBut, ServiceOK
<1> HIDE DEF w, v
<1>5. ServiceOK(w)
  BY <1>1, <1>3, <1>4, LockChanges DEF ServesBut
<1>6. Spares(v, w, m)
  BY <1>2, <1>5, WakeSpares
<1>7. Spares(w, u, m)
  BY <1>3, OtherSpares
<1>8. QED
  BY <1>6, <1>7, SparesBoth DEF v

-----------------------------------------------------------------------------
(* An application with one mutex *)

\* Its other queues are no mutexes and in no queue sets, and its tasks stay with the
\* priorities that they were created with.
OneMutexIs(m) ==
    /\ q[m].type \in Mutexes
    /\ \A y \in Queue_t \ {m} : q[y].type \notin Mutexes
    /\ \A y \in Queue_t : q[y].set = NoQueue
    /\ \A c \in calls : c[1] \notin {"priority", "select", "select_isr", "member"}

\* The mutex has a holder or is there to be taken; what has none is no mutex.
Whole(r) ==
    /\ r.count = IF r.holder = NoTask THEN 1 ELSE 0
    /\ r.depth \in Nat
    /\ r.type = "recursive" => (r.depth > 0 <=> r.holder # NoTask)

MutexIsWhole(m) ==
    /\ Whole(q[m])
    /\ \A y \in Queue_t \ {m} : q[y].holder = NoTask

\* The tasks in a call that takes m, and those that sleep in its list.
Wants(u, m) == pc[u] \notin {"run", "remove"} /\ Takes(call[u]) /\ call[u].x = m
Line(m) == Elements(k.events[ToReceive(m)])

\* A call that sleeps has time left, as has one on the way there.
Sleeping(c, where) == where \in {"attempt"} \cup Leaving /\ c.ticks > 0 /\ ~c.expired

TimeLeft(c, where) ==
    /\ where \in {"suspend", "lock", "check", "place"} => c.ticks > 0
    /\ where \in Leaving => c.expired \/ c.ticks > 0
    /\ where = "place" => ~c.expired

\* A recursive mutex is taken as such.
Suits(op, type) == op = "take_recursive" <=> type = "recursive"

SleeperOK(u, m) == u \in Line(m) => Wants(u, m) /\ Sleeping(call[u], pc[u])

WaiterOK(u, m) ==
    Wants(u, m) =>
        /\ u # q[m].holder
        /\ u \in Line(m) \cup Up(k)
        /\ pc[u] = "place" => q[m].holder # NoTask
        /\ TimeLeft(call[u], pc[u])
        /\ Suits(call[u].op, q[m].type)

LineIsOK(m) ==
    /\ Priced(k, q[m].holder)
    /\ Sorted(k.events[ToReceive(m)], k.event)
    /\ NonePended(k)
    /\ \A u \in Task : SleeperOK(u, m) /\ WaiterOK(u, m)

\* The holder runs at the priority of those who sleep at least, and each of them that
\* has raised it knows.
LentToHolder(m) ==
    LET h == q[m].holder
    IN  h # NoTask =>
          \A u \in Line(m) : /\ k.base[u] <= k.priority[h]
                             /\ k.base[u] > k.base[h] => call[u].inherited

\* Who is in a call, has lent its priority, and will sleep again or give it up.
Lends(u, m) ==
    Wants(u, m) /\ call[u].inherited /\ (pc[u] = "attempt" => call[u].ticks > 0)

\* What the holder has inherited is the priority of a task that still waits.
HasLender(m) ==
    LET h == q[m].holder
    IN  h # NoTask /\ k.priority[h] > k.base[h] =>
          \E u \in Task : Lends(u, m) /\ k.base[u] = k.priority[h]

\* The running task has at least the priority of v, or is about to be switched out.
Abreast(g, v) ==
    g.suspensions = 1 \/ ~g.pendsv => g.priority[v] <= g.priority[g.current]

Comes(u, m) == Wants(u, m) /\ pc[u] = "attempt"

\* A mutex that tasks sleep for and that nobody holds has been offered to a task that
\* none of them outranks, and a task of a lower priority does not get in before it.
IsOffered(m) ==
    q[m].holder = NoTask /\ Line(m) # {} =>
        \E v \in Ready(k) \ Line(m) :
            /\ v \in Task /\ Comes(v, m) /\ Abreast(k, v)
            /\ \A u \in Line(m) : k.priority[u] <= k.priority[v]

HeldInv(m) ==
    /\ OneMutexIs(m)
    /\ MutexIsWhole(m)
    /\ LineIsOK(m)
    /\ LentToHolder(m)
    /\ HasLender(m)
    /\ IsOffered(m)

-----------------------------------------------------------------------------
(* The steps that leave the mutex with its holder *)

\* Who waits for m goes on to do so, or gives up for good reason.
StillWaits(u, m) ==
    /\ SleeperOK(u, m)' /\ WaiterOK(u, m)'
    /\ q[m].holder # NoTask /\ Lends(u, m) => Lends(u, m)'
    /\ q[m].holder = NoTask /\ Comes(u, m) => Comes(u, m)'

\* What is left of the list, apart from the tasks that do not wait for m.
LineStays(m) ==
    /\ SamePrices(k', k)
    /\ \A u \in Task : Wants(u, m)' => /\ u \in Ready(k) => u \in Ready(k')
                                       /\ u \in Up(k) => u \in Up(k')
    /\ Line(m)' \subseteq Line(m)
    /\ Line(m) \subseteq Line(m)' \cup Up(k')
    /\ Sorted(k.events[ToReceive(m)], k.event) => Sorted(k.events[ToReceive(m)], k.event)'
    /\ NonePended(k) => NonePended(k')

\* The tasks that the step is not about.
Aside(u, m) ==
    \/ pc'[u] = pc[u] /\ call'[u] = call[u]
    \/ ~Wants(u, m) /\ ~Wants(u, m)'

LEMMA TypeStays ==
    ASSUME QueuesMove, NEW m \in Queue_t
    PROVE  q'[m].type = q[m].type
BY DEF QueuesMove, Moved, KindKept

LEMMA ApartGoesOn ==
    ASSUME QueuesMove, NEW m \in Queue_t, LineIsOK(m), LineStays(m),
           q'[m].holder = q[m].holder, NEW u \in Task, Aside(u, m)
    PROVE  StillWaits(u, m)
<1>1. SleeperOK(u, m) /\ WaiterOK(u, m) /\ q'[m].type = q[m].type
  BY TypeStays DEF LineIsOK
<1>2. CASE pc'[u] = pc[u] /\ call'[u] = call[u]
  <2>1. Wants(u, m)' <=> Wants(u, m)
    BY <1>2 DEF Wants
  <2>2. SleeperOK(u, m)'
    BY <1>1, <1>2, <2>1 DEF SleeperOK, LineStays
  <2>3. WaiterOK(u, m)'
    BY <1>1, <1>2, <2>1 DEF WaiterOK, LineStays
  <2>4. QED
    BY <1>2, <2>1, <2>2, <2>3 DEF StillWaits, Lends, Comes
<1>3. CASE ~Wants(u, m) /\ ~Wants(u, m)'
  <2>1. SleeperOK(u, m)' /\ WaiterOK(u, m)'
    BY <1>1, <1>3 DEF SleeperOK, WaiterOK, LineStays
  <2>2. QED
    BY <1>3, <2>1 DEF StillWaits, Lends, Comes
<1>4. QED
  BY <1>2, <1>3 DEF Aside

LEMMA HeldOn ==
    ASSUME QueuesMove, NEW m \in Queue_t, HeldInv(m), LineStays(m), Line(m) \subseteq Task,
           OneMutexIs(m)', Whole(q'[m]), \A y \in Queue_t : q'[y].holder = q[y].holder,
           \A v \in Ready(k') : Abreast(k, v) => Abreast(k', v),
           \A u \in Task : Aside(u, m) \/ StillWaits(u, m)
    PROVE  HeldInv(m)'
<1> DEFINE h == q[m].holder
<1>1. q'[m].holder = h /\ LineIsOK(m) /\ SamePrices(k', k)
  BY DEF HeldInv, LineStays
<1>2. \A u \in Task : StillWaits(u, m)
  BY <1>1, ApartGoesOn
<1>3. MutexIsWhole(m)'
  BY DEF HeldInv, MutexIsWhole
<1>4. Priced(k', h)
  BY <1>1, PricesSame DEF LineIsOK
<1>5. LineIsOK(m)'
  BY <1>1, <1>2, <1>4 DEF LineIsOK, LineStays, StillWaits
<1>6. k'.base = k.base /\ k'.priority = k.priority /\ Line(m)' \subseteq Line(m)
  BY DEF LineStays, SamePrices
<1>7. LentToHolder(m)'
  <2>1. SUFFICES ASSUME h # NoTask, NEW u \in Line(m)'
                 PROVE  /\ k.base[u] <= k.priority[h]
                        /\ k.base[u] > k.base[h] => call'[u].inherited
    BY <1>1, <1>6 DEF LentToHolder
  <2>2. u \in Line(m) /\ u \in Task
    BY <1>6, <2>1
  <2>3. /\ k.base[u] <= k.priority[h]
        /\ k.base[u] > k.base[h] => call[u].inherited
    BY <2>1, <2>2 DEF HeldInv, LentToHolder
  <2>4. Wants(u, m) /\ Sleeping(call[u], pc[u])
    BY <1>1, <2>2 DEF LineIsOK, SleeperOK
  <2>5. call[u].inherited => Lends(u, m)
    BY <2>4 DEF Lends, Sleeping
  <2>6. call[u].inherited => call'[u].inherited
    BY <1>2, <2>1, <2>2, <2>5 DEF StillWaits, Lends
  <2>7. QED
    BY <2>3, <2>6
<1>8. HasLender(m)'
  <2>1. SUFFICES ASSUME h # NoTask, k.priority[h] > k.base[h]
                 PROVE  \E u \in Task : Lends(u, m)' /\ k.base[u] = k.priority[h]
    BY <1>1, <1>6 DEF HasLender
  <2>2. PICK u \in Task : Lends(u, m) /\ k.base[u] = k.priority[h]
    BY <2>1 DEF HeldInv, HasLender
  <2>3. QED
    BY <1>2, <2>1, <2>2 DEF StillWaits
<1>9. IsOffered(m)'
  <2>1. SUFFICES ASSUME h = NoTask, Line(m)' # {}
                 PROVE  \E v \in Ready(k') \ Line(m)' :
                          /\ v \in Task /\ Comes(v, m)' /\ Abreast(k', v)
                          /\ \A u \in Line(m)' : k.priority[u] <= k.priority[v]
    BY <1>1, <1>6 DEF IsOffered
  <2>2. Line(m) # {}
    BY <1>6, <2>1
  <2>3. PICK v \in Ready(k) \ Line(m) :
          /\ v \in Task /\ Comes(v, m) /\ Abreast(k, v)
          /\ \A u \in Line(m) : k.priority[u] <= k.priority[v]
    BY <2>1, <2>2 DEF HeldInv, IsOffered
  <2>4. Comes(v, m)'
    BY <1>2, <2>1, <2>3 DEF StillWaits
  <2>5. v \in Ready(k') /\ v \notin Line(m)'
    BY <1>6, <2>3, <2>4 DEF LineStays, Comes
  <2>6. QED
    BY <1>6, <2>3, <2>4, <2>5
<1>10. QED
  BY <1>3, <1>5, <1>7, <1>8, <1>9 DEF HeldInv

LEMMA LineIs ==
    ASSUME LockInv, NEW m \in Queue_t
    PROVE  /\ IsList(k.events[ToReceive(m)], Task) /\ Line(m) \subseteq Task
           /\ Line(m) \cap Ready(k) = {}
<1>1. ToReceive(m) \in EventLists /\ KernelOK(k)
  BY EventListsAssumption, KernelFine
<1>2. IsList(k.events[ToReceive(m)], Task)
  BY <1>1 DEF KernelOK, Good, Sound, Shape
<1>3. QED
  BY <1>1, <1>2 DEF Line, IsList, Elements, KernelOK, EventsApart

LEMMA StayingLine ==
    ASSUME Staying(k', k), NEW m \in Queue_t
    PROVE  LineStays(m)
<1>1. ToReceive(m) \in EventLists
  BY EventListsAssumption
<1>2. Sorted(k.events[ToReceive(m)], k.event) => Sorted(k.events[ToReceive(m)], k.event)'
  BY <1>1 DEF Staying, InTurn, SamePrices, Sorted
<1>3. QED
  BY <1>1, <1>2 DEF Staying, LineStays, Line

LEMMA OneMutexStays ==
    ASSUME FifoInv, QueuesMove, NEW m \in Queue_t, OneMutexIs(m),
           \A y \in Queue_t : q'[y].set = q[y].set
    PROVE  OneMutexIs(m)'
<1>1. calls' = calls /\ \A y \in Queue_t : q'[y].type = q[y].type
  BY DEF QueuesMove, Moved, KindKept
<1>2. QED
  BY <1>1 DEF OneMutexIs

\* A step that wakes tasks of m, and is about other queues.
LEMMA SparedOn ==
    ASSUME FifoInv, LockInv, QueuesMove, NEW m \in Queue_t, HeldInv(m),
           NEW w, Spares(w, s, m), Becomes(w),
           Wakes(w.k, k) \/ (w.k.current = k.current /\ ~k.pendsv),
           \A u \in Task : Aside(u, m) \/ StillWaits(u, m)
    PROVE  HeldInv(m)'
<1>1. k' = w.k /\ q' = w.q /\ s.k = k /\ s.q = q
  BY DEF Becomes, s
<1>2. Staying(k', k) /\ \A y \in Queue_t : q'[y].set = q[y].set /\ q'[y].holder = q[y].holder
  BY <1>1 DEF Spares
<1>3. OneMutexIs(m)' /\ LineStays(m)
  BY <1>2, OneMutexStays, StayingLine DEF HeldInv
<1>4. Whole(q'[m])
  <2>1. q'[m].type = q[m].type
    BY DEF QueuesMove, Moved, KindKept
  <2>2. q'[m].count = q[m].count /\ q'[m].depth = q[m].depth
    BY <1>1 DEF Spares
  <2>3. QED
    BY <1>2, <2>1, <2>2 DEF HeldInv, MutexIsWhole, Whole
<1>5. \A v \in Ready(k') : Abreast(k, v) => Abreast(k', v)
  BY <1>1, <1>2 DEF Abreast, Wakes, Staying, SamePrices
<1>6. QED
  BY <1>2, <1>3, <1>4, <1>5, LineIs, HeldOn

LEMMA SameAside ==
    ASSUME UNCHANGED <<pc, call>>, NEW m
    PROVE  \A u \in Task : Aside(u, m)
BY DEF Aside

\* The task t of a call goes on, and the others stay where they are.
LEMMA OthersAside ==
    ASSUME FifoInv, NEW t \in Task, NEW where, Goes(t, where), NEW m,
           call' = call \/ \E c : call' = [call EXCEPT ![t] = c]
    PROVE  \A u \in Task \ {t} : Aside(u, m)
BY GoesIs DEF FifoInv, CallsOK, Aside

\* Where t gets to is all there is to show.
LEMMA WaiterGoesOn ==
    ASSUME QueuesMove, NEW m \in Queue_t, LineIsOK(m), LineStays(m), q'[m].holder = q[m].holder,
           NEW t \in Task, t \in Up(k) \cup Line(m), t # q[m].holder,
           t \in Line(m) => Wants(t, m)' /\ Sleeping(call'[t], pc'[t]),
           Wants(t, m)' => /\ TimeLeft(call'[t], pc'[t])
                           /\ pc'[t] = "place" => q[m].holder # NoTask
                           /\ Suits(call'[t].op, q[m].type),
           q[m].holder # NoTask /\ Lends(t, m) => Lends(t, m)',
           q[m].holder = NoTask /\ Comes(t, m) => Comes(t, m)'
    PROVE  StillWaits(t, m)
<1>1. SleeperOK(t, m)'
  BY DEF SleeperOK, LineStays
<1>2. WaiterOK(t, m)'
  BY TypeStays DEF WaiterOK, LineStays
<1>3. QED
  BY <1>1, <1>2 DEF StillWaits

-----------------------------------------------------------------------------
(* Interrupts, and the tasks in their own code *)

\* What a call to another queue is about is no mutex.
LEMMA OtherQueue ==
    ASSUME FifoInv, NEW m \in Queue_t, OneMutexIs(m), NEW x \in Queue_t
    PROVE  /\ x # m <=> ~IsMutex(s, x)
           /\ s.q[x].set = NoQueue
BY DEF OneMutexIs, IsMutex, Mutexes, s

LEMMA QueueInterruptHeld ==
    ASSUME FifoInv, LockInv, QueuesMove, NEW m \in Queue_t, HeldInv(m),
           InterruptSends \/ InterruptSelects \/ InterruptReceives
    PROVE  HeldInv(m)'
<1>0. OneMutexIs(m) /\ ServiceOK(s) /\ s.q = q /\ s.k = k
  BY KernelFine DEF HeldInv
<1>1. \A c \in calls :
        c[1] \in {"back_isr", "overwrite_isr", "give_isr", "receive_isr"} =>
          c[2] \in Queue_t /\ q[c[2]].type \notin Mutexes
  BY DEF FifoInv, IsApplication, Allowed, Mutexes
<1>2. UNCHANGED <<pc, call>>
  BY DEF InterruptSends, InterruptSelects, InterruptReceives
<1>3. ~InterruptSelects
  BY <1>0 DEF InterruptSelects, OneMutexIs
<1>4. PICK x \in Queue_t \ {m} : \E w :
        /\ Becomes(w) /\ q[x].type \notin Mutexes
        /\ \/ w = ReceiveFromISR(s, x)
           \/ \E item, position : w = SendFromISR(s, x, item, position)
  <2>1. CASE InterruptSends
    BY <1>0, <1>1, <2>1 DEF InterruptSends, OneMutexIs
  <2>2. CASE InterruptReceives
    BY <1>0, <1>1, <2>2 DEF InterruptReceives, OneMutexIs
  <2>3. QED
    BY <1>3, <2>1, <2>2
<1>4a. PICK w :
        /\ Becomes(w) /\ q[x].type \notin Mutexes
        /\ \/ w = ReceiveFromISR(s, x)
           \/ \E item, position : w = SendFromISR(s, x, item, position)
  BY <1>4
<1>5. ~IsMutex(s, x) /\ s.q[x].set = NoQueue
  BY <1>0, OtherQueue
<1>6. Spares(w, s, m)
  BY <1>0, <1>4a, <1>5, SendSpares, TakenSpares
<1>7. Wakes(w.k, k)
  <2>1. Unlocked(s) \subseteq Queue_t
    BY DEF Unlocked
  <2>2. Serves(w, s, Queue_t)
    BY <1>0, <1>4a, <2>1, SendISRServes, ReceiveISRServes
  <2>3. QED
    BY <1>0, <2>2 DEF Serves
<1>8. QED
  BY <1>2, <1>4a, <1>6, <1>7, SameAside, SparedOn

LEMMA TickHeld ==
    ASSUME FifoInv, LockInv, QueuesMove, NEW m \in Queue_t, HeldInv(m), SysTick
    PROVE  HeldInv(m)'
<1>1. PICK r : r = xTaskIncrementTick(k) /\ k' = YieldIf(r.k, r.switch)
  BY DEF SysTick
<1>2. UNCHANGED <<q, pc, call>>
  BY DEF SysTick
<1>3. Wakes(k', k) /\ Staying(k', k)
  BY <1>1, TickWakes, TickStays, KernelFine
<1> DEFINE w == [s EXCEPT !.k = k']
<1>4. w.k = k' /\ w.q = s.q /\ Becomes(w) /\ s.k = k
  BY <1>2 DEF s, Becomes
<1> HIDE DEF w
<1>5. Spares(w, s, m)
  BY <1>3, <1>4, KernelSpares
<1>6. QED
  BY <1>2, <1>3, <1>4, <1>5, SameAside, SparedOn

\* The switch finds the task that the mutex was offered to, or one that it waits for.
LEMMA PendSVHeld ==
    ASSUME FifoInv, LockInv, QueuesMove, NEW m \in Queue_t, HeldInv(m), PendSV
    PROVE  HeldInv(m)'
<1>1. k' = vTaskSwitchContext(k) /\ q' = q /\ pc' = pc /\ call' = call
  BY DEF PendSV
<1>2. KernelOK(k) /\ Ready(k) # {} /\ k.suspensions \in {0, 1}
  BY KernelFine
<1>3. /\ Staying(k', k)
      /\ k.suspensions = 0 => \A t \in Ready(k') : k'.priority[t] <= k'.priority[k'.current]
      /\ k'.suspensions = k.suspensions
      /\ k.suspensions = 1 => k'.current = k.current
  BY <1>1, <1>2, SwitchStays, SwitchWakes
<1>4. OneMutexIs(m)' /\ LineStays(m) /\ Whole(q'[m])
  BY <1>1, <1>3, OneMutexStays, StayingLine DEF HeldInv, MutexIsWhole
<1>5. ASSUME NEW v \in Ready(k'), Abreast(k, v) PROVE Abreast(k', v)
  <2>1. CASE k.suspensions = 0
    BY <1>3, <2>1 DEF Abreast
  <2>2. CASE k.suspensions = 1
    BY <1>3, <1>5, <2>2 DEF Abreast, Staying, SamePrices
  <2>3. QED
    BY <1>2, <2>1, <2>2
<1>6. \A u \in Task : Aside(u, m)
  BY <1>1 DEF Aside
<1>7. QED
  BY <1>1, <1>4, <1>5, <1>6, LineIs, HeldOn

\* A task in its own code that is served by another queue, or by none.
LEMMA OwnHeld ==
    ASSUME FifoInv, LockInv, QueuesMove, NEW m \in Queue_t, HeldInv(m), NEW t \in Task,
           pc[t] \in {"run", "remove"}, NEW w, Spares(w, s, m), Served(w), Becomes(w),
           \/ UNCHANGED <<pc, call>>
           \/ \E where \in {"run", "remove"} : \E c :
                Goes(t, where) /\ call' = [call EXCEPT ![t] = c]
    PROVE  HeldInv(m)'
<1>1. \A u \in Task \ {t} : Aside(u, m)
  BY SameAside, OthersAside
<1>2. Aside(t, m)
  <2>1. CASE UNCHANGED <<pc, call>>
    BY <2>1, SameAside
  <2>2. CASE ~UNCHANGED <<pc, call>>
    BY <2>2, GoesIs DEF Aside, Wants
  <2>3. QED
    BY <2>1, <2>2
<1>3. Wakes(w.k, k)
  BY DEF Served
<1>4. QED
  BY <1>1, <1>2, <1>3, SparedOn

LEMMA ResetHeld ==
    ASSUME FifoInv, LockInv, QueuesMove, NEW m \in Queue_t, HeldInv(m), NEW t \in Task,
           Reset(t)
    PROVE  HeldInv(m)'
<1>1. At(t, "run") /\ UNCHANGED <<pc, call>>
  BY DEF Reset
<1>2. PICK c \in calls : c[1] = "reset" /\ Becomes(xQueueGenericReset(s, c[2]))
  BY DEF Reset
<1>3. c[2] \in Queue_t \ {m}
  BY <1>2 DEF FifoInv, IsApplication, Allowed, HeldInv, OneMutexIs
<1> DEFINE w == xQueueGenericReset(s, c[2])
<1>4. Served(w)
  BY <1>1, <1>3, OwnIs, ResetServes, ServedIs, KernelFine DEF Suspending
<1>5. Spares(w, s, m)
  BY <1>3, ResetSpares, KernelFine
<1> HIDE DEF w
<1>6. Becomes(w)
  BY <1>2 DEF w
<1>7. QED
  BY <1>1, <1>4, <1>5, <1>6, OwnHeld DEF At

LEMMA SetHeld ==
    ASSUME FifoInv, LockInv, QueuesMove, NEW m \in Queue_t, HeldInv(m), NEW t \in Task,
           AddToSet(t) \/ RemoveFromSet(t) \/ Removed(t) \/ PrioritySet(t)
    PROVE  HeldInv(m)'
<1> DEFINE x == call[t].x
           w == [s EXCEPT !.q[x].set = NoQueue]
<1>1. Removed(t)
  BY DEF AddToSet, RemoveFromSet, PrioritySet, HeldInv, OneMutexIs
<1>2. At(t, "remove") /\ Returns(t) /\ Becomes(w)
  BY <1>1 DEF Removed, xQueueRemoveFromSet
<1>3. x \in Queue_t
  BY <1>2 DEF At, FifoInv, CallsOK
<1> HIDE DEF x
<1>4. ServesBut(w, s, x) /\ w.q[x].tx = s.q[x].tx
  BY <1>3, SetServes, KernelFine
<1>5. \A y \in Queue_t : q[y].tx = queueUNLOCKED
  BY <1>2, OwnIs DEF Suspending
<1>6. s.q[x].tx = queueUNLOCKED
  BY <1>3, <1>5 DEF s
<1>7. Spares(w, s, m)
  <2>1. DOMAIN s = {"k", "q"} /\ DOMAIN s.q = Queue_t /\ DOMAIN s.q[x] = QueueFields
    BY <1>3, KernelFine DEF ServiceOK, LockOK
  <2>2. s.q[x].set = NoQueue
    BY <1>3, OtherQueue DEF HeldInv
  <2>3. /\ w.k = s.k
        /\ \A y \in Queue_t \ {x} : w.q[y] = s.q[y]
        /\ w.q[x].set = s.q[x].set /\ w.q[x].holder = s.q[x].holder
        /\ w.q[x].count = s.q[x].count /\ w.q[x].depth = s.q[x].depth
    BY <1>3, <2>1, <2>2 DEF QueueFields
  <2> HIDE DEF w
  <2>4. QED
    BY <1>3, <2>3, OtherSpares
<1> HIDE DEF w
<1>8. Served(w)
  BY <1>3, <1>4, <1>5, <1>6, ServedIs
<1>9. QED
  BY <1>2, <1>7, <1>8, OwnHeld DEF At, Returns

\* A delay is of a task that does not wait.
LEMMA DelayHeld ==
    ASSUME FifoInv, LockInv, QueuesMove, NEW m \in Queue_t, HeldInv(m), NEW t \in Task,
           Delay(t)
    PROVE  HeldInv(m)'
<1> DEFINE j == prvAddCurrentTaskToDelayedList(k, 1, FALSE)
<1>1. At(t, "run") /\ UNCHANGED <<q, pc, call>> /\ k' = portYIELD(j)
  BY DEF Delay
<1>2. k.current = t /\ k.suspensions = 0 /\ t \in Ready(k)
  BY <1>1, OwnIs DEF Suspending
<1>3. Delayed(j, k, k)
  <2>1. Good(k) /\ Keeps(k, k, {"events"}) /\ 1 \in Int
    BY KernelFine DEF KernelOK, Good, Sound, Shape, Keeps
  <2>2. \A e \in EventLists :
          Elements(k.events[e])
            \subseteq Elements(k.events[e]) \cup (IF e = NoItem THEN {k.current} ELSE {})
    OBVIOUS
  <2>3. QED
    BY <1>2, <2>1, <2>2, DelayLeaves, KernelFine
<1> HIDE DEF j
<1>4. /\ KernelOK(j) /\ j.suspensions = 0 /\ Ready(j) = Ready(k) \ {t}
      /\ j.pending = k.pending /\ j.events = k.events /\ SamePrices(j, k)
  BY <1>2, <1>3 DEF Delayed, LeavesReady
<1>5. Keeps(k', j, {"pendsv"}) /\ k'.pendsv
  BY <1>1, <1>4 DEF portYIELD, KernelOK, Good, Sound, Shape, Keeps, KernelFields
<1>6. /\ k'.pending = k.pending /\ k'.events = k.events /\ SamePrices(k', k)
      /\ k'.ready = j.ready /\ k'.suspensions = 0
  BY <1>4, <1>5 DEF Keeps, KernelFields, SamePrices
<1>7. Ready(k') = Ready(k) \ {t}
  BY <1>4, <1>6 DEF Ready, ReadyAt
<1>8. pc'[t] = "run" /\ ~Wants(t, m)'
  BY <1>1 DEF At, Wants
<1>9. LineStays(m)
  BY <1>2, <1>6, <1>7, <1>8 DEF LineStays, Line, Up, NonePended, SamePrices
<1>10. \A v \in Ready(k') : Abreast(k', v)
  BY <1>5, <1>6 DEF Abreast
<1>11. OneMutexIs(m)' /\ Whole(q'[m])
  BY <1>1, OneMutexStays DEF HeldInv, MutexIsWhole
<1>12. \A u \in Task : Aside(u, m)
  BY <1>1, SameAside
<1>13. QED
  BY <1>1, <1>9, <1>10, <1>11, <1>12, LineIs, HeldOn

\* Nothing changes but the depth of the recursive mutex, which somebody holds.
LEMMA DepthHeld ==
    ASSUME FifoInv, LockInv, QueuesMove, NEW m \in Queue_t, HeldInv(m),
           UNCHANGED <<k, pc, call>>, Whole(q'[m]),
           \A y \in Queue_t : q'[y].holder = q[y].holder /\ q'[y].set = q[y].set
    PROVE  HeldInv(m)'
<1>1. OneMutexIs(m)' /\ LineStays(m)
  BY OneMutexStays, StayingSelf, StayingLine DEF HeldInv
<1>2. \A v \in Ready(k') : Abreast(k, v) => Abreast(k', v)
  OBVIOUS
<1>3. \A u \in Task : Aside(u, m)
  BY SameAside
<1>4. QED
  BY <1>1, <1>2, <1>3, LineIs, HeldOn

LEMMA IdleHeld ==
    ASSUME FifoInv, LockInv, QueuesMove, NEW m \in Queue_t, HeldInv(m), UNCHANGED vars
    PROVE  HeldInv(m)'
BY DepthHeld DEF vars, HeldInv, MutexIsWhole

\* A recursive mutex is m.
LEMMA RecursiveIs ==
    ASSUME FifoInv, NEW m \in Queue_t, OneMutexIs(m), NEW c \in calls,
           c[1] \in {"take_recursive", "give_recursive"}
    PROVE  c[2] = m /\ q[m].type = "recursive"
BY DEF FifoInv, IsApplication, Allowed, OneMutexIs, Mutexes

LEMMA AgainHeld ==
    ASSUME FifoInv, LockInv, QueuesMove, NEW m \in Queue_t, HeldInv(m), NEW t \in Task,
           TakeAgain(t)
    PROVE  HeldInv(m)'
<1>1. UNCHANGED <<k, pc, call>>
  BY DEF TakeAgain
<1>2. PICK c \in calls : /\ c[1] = "take_recursive" /\ q[c[2]].holder = t
                         /\ q' = [q EXCEPT ![c[2]].depth = @ + 1]
  BY DEF TakeAgain
<1>3. c[2] = m
  BY <1>2, RecursiveIs DEF HeldInv
<1>4. DOMAIN q = Queue_t /\ DOMAIN q[m] = QueueFields /\ Whole(q[m]) /\ t # NoTask
  BY KernelFine, NoTaskAssumption DEF ServiceOK, LockOK, HeldInv, MutexIsWhole
<1>5. /\ \A y \in Queue_t \ {m} : q'[y] = q[y]
      /\ q'[m].depth = q[m].depth + 1 /\ q'[m].count = q[m].count
      /\ q'[m].type = q[m].type /\ q'[m].holder = q[m].holder /\ q'[m].set = q[m].set
  BY <1>2, <1>3, <1>4 DEF QueueFields
<1>6. Whole(q'[m])
  BY <1>2, <1>3, <1>4, <1>5 DEF Whole
<1>7. \A y \in Queue_t : q'[y].holder = q[y].holder /\ q'[y].set = q[y].set
  BY <1>5
<1>8. QED
  BY <1>1, <1>6, <1>7, DepthHeld

-----------------------------------------------------------------------------
(* A call that goes on *)

\* What a call takes is a semaphore or the mutex.
LEMMA TakesIs ==
    ASSUME FifoInv, NEW m \in Queue_t, OneMutexIs(m), NEW c, CallOK(c, q, calls), c.x = m
    PROVE  Takes(c)
BY DEF CallOK, OneMutexIs, Mutexes

\* A task that is about to run its code is ready, and in no list.
LEMMA RunnerIs ==
    ASSUME FifoInv, LockInv, NEW m \in Queue_t, NEW t \in Task, t \in Ready(k)
    PROVE  t \notin Line(m) /\ t \in Up(k)
BY LineIs DEF Up

LEMMA WaitAside ==
    ASSUME FifoInv, FifoInv', LockInv, QueuesMove, NEW m \in Queue_t, HeldInv(m), NEW t \in Task,
           NEW from, At(t, from), from \notin {"run", "remove"},
           NEW where, Goes(t, where), NEW c,
           call' = [call EXCEPT ![t] = c] \/ (call' = call /\ c = call[t]),
           where # "run" => c.op = call[t].op /\ c.x = call[t].x,
           NEW w, Spares(w, s, m), w.k.current = t, Becomes(w),
           Wants(t, m) => StillWaits(t, m)
    PROVE  HeldInv(m)'
<1>1. \A u \in Task \ {t} : Aside(u, m)
  BY OthersAside
<1>2. pc[t] = from /\ pc'[t] = where /\ call'[t] = c /\ k.current = t /\ ~k.pendsv
  BY GoesIs DEF At, FifoInv, CallsOK
<1>3. ~Wants(t, m) => ~Wants(t, m)'
  BY <1>2 DEF Wants, Takes
<1>4. QED
  BY <1>1, <1>2, <1>3, SparedOn DEF Aside

\* The steps of a waiter that change its place alone.
LEMMA PlaceGoesOn ==
    ASSUME FifoInv, LockInv, QueuesMove, NEW m \in Queue_t, HeldInv(m), NEW t \in Task, Wants(t, m),
           pc[t] # "attempt", LineStays(m), q'[m].holder = q[m].holder,
           call'[t] = call[t], pc'[t] \notin {"run", "remove", "place"},
           t \in Line(m) => Sleeping(call[t], pc'[t]), TimeLeft(call[t], pc'[t]),
           pc'[t] = "attempt" => call[t].ticks > 0 \/ q[m].holder = NoTask
    PROVE  StillWaits(t, m)
<1>1. WaiterOK(t, m) /\ LineIsOK(m)
  BY DEF HeldInv, LineIsOK
<1>2. t # q[m].holder /\ t \in Up(k) \cup Line(m) /\ Suits(call[t].op, q[m].type)
  BY <1>1 DEF WaiterOK
<1>3. Wants(t, m)'
  BY DEF Wants
<1>4. q[m].holder # NoTask /\ Lends(t, m) => Lends(t, m)'
  BY <1>3 DEF Lends
<1>5. ~Comes(t, m)
  BY DEF Comes
<1>6. QED
  BY <1>1, <1>2, <1>3, <1>4, <1>5, WaiterGoesOn

LEMMA SuspendHeld ==
    ASSUME FifoInv, LockInv, QueuesMove, FifoInv', NEW m \in Queue_t, HeldInv(m),
           NEW t \in Task, SuspendAll(t)
    PROVE  HeldInv(m)'
<1> DEFINE w == [s EXCEPT !.k = k']
<1>1. /\ At(t, "suspend") /\ Goes(t, "lock") /\ UNCHANGED <<q, call>>
      /\ k' = vTaskSuspendAll(k)
  BY DEF SuspendAll
<1>2. k.current = t /\ k.suspensions = 0 /\ t \in Ready(k)
  BY <1>1, OwnIs DEF Suspending
<1>3. Staying(k', k) /\ k'.current = t
  BY <1>1, <1>2, SuspendAllIs, SuspendStays, KernelFine
<1>4. w.k = k' /\ w.q = s.q /\ Becomes(w) /\ s.k = k
  BY <1>1 DEF s, Becomes
<1> HIDE DEF w
<1>5. Spares(w, s, m) /\ LineStays(m)
  BY <1>3, <1>4, KernelSpares, StayingLine
<1>6. pc[t] = "suspend" /\ pc'[t] = "lock" /\ call'[t] = call[t]
  BY <1>1, GoesIs DEF At
<1>7. ASSUME Wants(t, m) PROVE StillWaits(t, m)
  <2>1. TimeLeft(call[t], "suspend")
    BY <1>6, <1>7 DEF HeldInv, LineIsOK, WaiterOK
  <2>2. TimeLeft(call[t], "lock")
    BY <2>1 DEF TimeLeft, Leaving
  <2>3. t \notin Line(m)
    BY <1>2, RunnerIs
  <2>4. q'[m].holder = q[m].holder
    BY <1>1
  <2>5. QED
    BY <1>5, <1>6, <1>7, <2>2, <2>3, <2>4, PlaceGoesOn
<1>8. QED
  BY <1>1, <1>3, <1>4, <1>5, <1>7, WaitAside

LEMMA LockHeld ==
    ASSUME FifoInv, LockInv, QueuesMove, FifoInv', NEW m \in Queue_t, HeldInv(m),
           NEW t \in Task, LockQueue(t)
    PROVE  HeldInv(m)'
<1> DEFINE x == call[t].x
           w == prvLockQueue(s, x)
<1>1. /\ At(t, "lock") /\ Goes(t, "check") /\ UNCHANGED call /\ Becomes(w)
  BY DEF LockQueue
<1>2. k.current = t /\ t \in Ready(k)
  BY <1>1, LockingIs DEF Suspending, Leaving, Locking
<1>3. x \in Queue_t
  BY <1>1, InCallIsOK DEF At
<1>4. Spares(w, s, m) /\ Wakes(w.k, k)
  BY <1>3, LockServes, LockSpares, KernelFine DEF ServesBut
<1> HIDE DEF w, x
<1>5. w.k.current = t /\ LineStays(m) /\ q'[m].holder = q[m].holder
  BY <1>1, <1>2, <1>4, StayingLine DEF Spares, Wakes, Becomes, s
<1>6. pc[t] = "lock" /\ pc'[t] = "check" /\ call'[t] = call[t]
  BY <1>1, GoesIs DEF At
<1>7. ASSUME Wants(t, m) PROVE StillWaits(t, m)
  <2>1. TimeLeft(call[t], "lock")
    BY <1>6, <1>7 DEF HeldInv, LineIsOK, WaiterOK
  <2>2. TimeLeft(call[t], "check")
    BY <2>1 DEF TimeLeft, Leaving
  <2>3. t \notin Line(m)
    BY <1>2, RunnerIs
  <2>4. QED
    BY <1>5, <1>6, <1>7, <2>2, <2>3, PlaceGoesOn
<1>8. QED
  BY <1>1, <1>4, <1>5, <1>7, WaitAside

LEMMA UnlockHeld ==
    ASSUME FifoInv, LockInv, QueuesMove, FifoInv', NEW m \in Queue_t, HeldInv(m),
           NEW t \in Task, UnlockQueueTx(t) \/ UnlockQueueRx(t)
    PROVE  HeldInv(m)'
<1>1. PICK w, from, where :
        /\ At(t, from) /\ Goes(t, where) /\ UNCHANGED call /\ Becomes(w)
        /\ \/ from = "unlockTx" /\ where = "unlockRx" /\ w = prvUnlockQueueTx(s, call[t].x)
           \/ from = "unlockRx" /\ where = "resume" /\ w = prvUnlockQueueRx(s, call[t].x)
  BY DEF UnlockQueueTx, UnlockQueueRx
<1> DEFINE x == call[t].x
<1>2. /\ k.current = t
      /\ \A y \in Queue_t : q[y].tx # queueUNLOCKED => from \in Locking /\ x = y
  BY <1>1, LockingIs DEF Suspending
<1>3. x \in Queue_t
  BY <1>1, InCallIsOK DEF At
<1>4. Spares(w, s, m)
  <2>1. s.q[x].set = NoQueue
    BY <1>3, OtherQueue DEF HeldInv
  <2>2. QED
    BY <1>1, <1>3, <2>1, UnlockSpares, KernelFine
<1>5. Wakes(w.k, k)
  <2>1. CASE from = "unlockTx"
    BY <1>1, <1>3, <2>1, UnlockTxServes, KernelFine DEF ServesBut
  <2>2. CASE from = "unlockRx"
    <3>1. q[x].tx = queueUNLOCKED
      BY <1>2, <1>3, <2>2 DEF Locking
    <3>2. QED
      BY <1>1, <1>3, <2>2, <3>1, UnlockRxServes, KernelFine DEF ServesBut
  <2>3. QED
    BY <1>1, <2>1, <2>2
<1> HIDE DEF x
<1>6. w.k.current = t /\ LineStays(m) /\ q'[m].holder = q[m].holder
  BY <1>1, <1>2, <1>4, <1>5, StayingLine DEF Spares, Wakes, Becomes, s
<1>7. /\ pc[t] = from /\ pc'[t] = where /\ call'[t] = call[t]
      /\ {from, where} \subseteq Leaving /\ from \in {"unlockTx", "unlockRx"}
      /\ where \in {"unlockRx", "resume"}
  BY <1>1, GoesIs DEF At, Leaving
<1>8. ASSUME Wants(t, m) PROVE StillWaits(t, m)
  <2>1. TimeLeft(call[t], from) /\ (t \in Line(m) => Sleeping(call[t], from))
    BY <1>7, <1>8 DEF HeldInv, LineIsOK, WaiterOK, SleeperOK
  <2>2. TimeLeft(call[t], where) /\ (t \in Line(m) => Sleeping(call[t], where))
    BY <1>7, <2>1 DEF TimeLeft, Sleeping
  <2>3. QED
    BY <1>6, <1>7, <1>8, <2>2, PlaceGoesOn
<1>9. QED
  BY <1>1, <1>4, <1>6, <1>7, <1>8, WaitAside

-----------------------------------------------------------------------------
(* Looking at the time, and resuming *)

LEMMA FreeIs ==
    ASSUME NEW m, HeldInv(m)
    PROVE  prvIsQueueEmpty(s, m) <=> q[m].holder # NoTask
BY DEF HeldInv, MutexIsWhole, Whole, prvIsQueueEmpty, s

\* xTaskCheckForTimeOut
LEMMA TimeIsLeft ==
    ASSUME LockInv, NEW c, CallWaits(c, "check"), c.ticks > 0,
           NEW r, r = xTaskCheckForTimeOut(k, c.timeout, c.ticks)
    PROVE  r.expired \in BOOLEAN /\ (~r.expired => r.ticks > 0)
<1> DEFINE a == c.ticks
           o == c.timeout
           e == (k.tick - o.entering) % TickMod
<1>1. a \in Int /\ o.entering \in Int /\ k.tick \in Int /\ a > 0
  BY KernelFine DEF CallWaits, KernelOK, Timed, Tick
<1>2. e \in Int
  <2>1. k.tick - o.entering \in Int /\ TickMod \in Nat \ {0}
    BY <1>1, TickAssumption
  <2>2. (k.tick - o.entering) % TickMod \in 0 .. TickMod - 1
    BY <2>1, ModIs
  <2>3. QED
    BY <2>1, <2>2
<1>3. r = LET lapped == k.overflows # o.overflows /\ k.tick >= o.entering
          IN  IF a = portMAX_DELAY
                THEN [expired |-> FALSE, timeout |-> o, ticks |-> a]
              ELSE IF ~lapped /\ e < a
                THEN [expired |-> FALSE, timeout |-> vTaskInternalSetTimeOutState(k),
                      ticks |-> a - e]
              ELSE [expired |-> TRUE, timeout |-> o, ticks |-> 0]
  BY DEF xTaskCheckForTimeOut
<1> HIDE DEF a, e
<1>4. e < a => a - e > 0
  BY <1>1, <1>2
<1>5. QED
  BY <1>1, <1>3, <1>4

LEMMA CheckHeld ==
    ASSUME FifoInv, LockInv, QueuesMove, FifoInv', NEW m \in Queue_t, HeldInv(m),
           NEW t \in Task, Check(t)
    PROVE  HeldInv(m)'
<1> DEFINE c == call[t]
           r == xTaskCheckForTimeOut(k, c.timeout, c.ticks)
           where == IF r.expired \/ Can(c) THEN "unlockTx" ELSE "place"
           d == [c EXCEPT !.timeout = r.timeout, !.ticks = r.ticks,
                          !.expired = r.expired, !.placed = FALSE]
<1>1. At(t, "check") /\ Goes(t, where) /\ UNCHANGED <<k, q>>
  BY DEF Check
<1>2. k.current = t /\ t \in Ready(k)
  BY <1>1, LockingIs DEF Suspending, Leaving
<1>3. CallOK(c, q, calls) /\ CallWaits(c, "check")
  BY <1>1, InCallIsOK DEF At, LockInv, CallsWait
<1>4. DOMAIN c = CallFields /\ DOMAIN call = Task
  BY <1>3 DEF CallOK, FifoInv, CallsOK
<1>5. call' = [call EXCEPT ![t] = d]
  BY <1>4 DEF Check, CallFields
<1>6. /\ d.ticks = r.ticks /\ d.expired = r.expired /\ d.inherited = c.inherited
      /\ d.op = c.op /\ d.x = c.x
  BY <1>4 DEF CallFields
<1>7. c.ticks > 0 => r.expired \in BOOLEAN /\ (~r.expired => r.ticks > 0)
  BY <1>3, TimeIsLeft
<1>8. where \in {"unlockTx", "place"} /\ (where = "place" => ~r.expired /\ ~Can(c))
  OBVIOUS
<1> HIDE DEF d, r, where
<1>9. pc[t] = "check" /\ pc'[t] = where /\ call'[t] = d
  BY <1>1, <1>4, <1>5, GoesIs DEF At
<1>10. ASSUME Wants(t, m) PROVE StillWaits(t, m)
  <2>1. Takes(c) /\ c.x = m /\ WaiterOK(t, m) /\ LineIsOK(m)
    BY <1>10 DEF Wants, HeldInv, LineIsOK
  <2>2. t # q[m].holder /\ c.ticks > 0 /\ Suits(d.op, q[m].type)
    BY <1>6, <1>9, <1>10, <2>1 DEF WaiterOK, TimeLeft
  <2>3. t \notin Line(m) /\ t \in Up(k)
    BY <1>2, RunnerIs
  <2>4. where = "place" => q[m].holder # NoTask
    <3>1. ~Can(c) => prvIsQueueEmpty(s, m)
      BY <2>1 DEF Can, Takes, Sends
    <3>2. QED
      BY <1>8, <3>1, FreeIs
  <2>5. TimeLeft(d, where)
    BY <1>6, <1>7, <1>8, <2>2 DEF TimeLeft, Leaving
  <2>6. Lends(t, m) => Lends(t, m)'
    BY <1>6, <1>8, <1>9 DEF Lends, Wants, Takes
  <2>7. ~Comes(t, m)
    BY <1>9 DEF Comes
  <2>8. LineStays(m) /\ q'[m].holder = q[m].holder
    BY <1>1, StayingSelf, StayingLine
  <2> HIDE DEF c
  <2>9. QED
    BY <1>9, <2>1, <2>2, <2>3, <2>4, <2>5, <2>6, <2>7, <2>8, WaiterGoesOn
<1>11. Becomes(s) /\ Spares(s, s, m) /\ s.k.current = t
  BY <1>1, <1>2, SparesSelf DEF Becomes, s
<1> HIDE DEF c
<1>12. QED
  BY <1>1, <1>5, <1>6, <1>8, <1>10, <1>11, WaitAside DEF c

LEMMA ResumeHeld ==
    ASSUME FifoInv, LockInv, QueuesMove, FifoInv', NEW m \in Queue_t, HeldInv(m),
           NEW t \in Task, ResumeAll(t)
    PROVE  HeldInv(m)'
<1> DEFINE c == call[t]
           r == xTaskResumeAll(k)
           e == c.placed /\ ~AlreadyYielded(r)
           w == [s EXCEPT !.k = k']
<1>1. At(t, "resume") /\ UNCHANGED q /\ k' = YieldIf(r, e)
  BY DEF ResumeAll
<1>2. k.current = t /\ k.suspensions = 1
  BY <1>1, LockingIs DEF Suspending
<1>3. KernelOK(r) /\ r.current = t /\ Staying(r, k)
  BY <1>2, ResumeWakes, ResumeStays, KernelFine
<1> HIDE DEF r, e
<1>4. Staying(k', r) /\ k'.current = t
  BY <1>1, <1>3, FlagStays, FlagSet DEF Wakes
<1>5. Staying(k', k)
  BY <1>3, <1>4, StayingBoth
<1>6. w.k = k' /\ w.q = s.q /\ Becomes(w) /\ s.k = k
  BY <1>1 DEF s, Becomes
<1> HIDE DEF w
<1>7. Spares(w, s, m) /\ LineStays(m) /\ w.k.current = t
  BY <1>4, <1>5, <1>6, KernelSpares, StayingLine
<1>8. PICK where, d :
        /\ Goes(t, where)
        /\ call' = [call EXCEPT ![t] = d] \/ (call' = call /\ d = call[t])
        /\ where \in {"run", "recheck", "attempt"}
        /\ where # "run" => call' = call /\ d = c
        /\ Takes(c) => where # "run"
        /\ where = "attempt" => ~c.expired
        /\ where = "recheck" => c.expired
  BY DEF ResumeAll, Returns, Takes, Sends
<1>9. pc[t] = "resume" /\ pc'[t] = where
  BY <1>1, <1>8, GoesIs DEF At
<1>10. ASSUME Wants(t, m) PROVE StillWaits(t, m)
  <2>1. TimeLeft(c, "resume") /\ (t \in Line(m) => Sleeping(c, "resume"))
    BY <1>9, <1>10 DEF HeldInv, LineIsOK, WaiterOK, SleeperOK
  <2>2. /\ TimeLeft(c, where) /\ where \in {"recheck", "attempt"} /\ call' = call
        /\ t \in Line(m) => ~c.expired /\ c.ticks > 0
        /\ ~c.expired => c.ticks > 0
    BY <1>8, <1>10, <2>1 DEF TimeLeft, Sleeping, Leaving, Wants
  <2>3. t \in Line(m) => Sleeping(c, where)
    BY <1>8, <2>2 DEF Sleeping
  <2>4. q'[m].holder = q[m].holder
    BY <1>1
  <2> HIDE DEF c
  <2>5. QED
    BY <1>7, <1>8, <1>9, <1>10, <2>2, <2>3, <2>4, PlaceGoesOn DEF c
<1>11. QED
  BY <1>1, <1>6, <1>7, <1>8, <1>10, WaitAside

LEMMA RecheckHeld ==
    ASSUME FifoInv, LockInv, QueuesMove, FifoInv', NEW m \in Queue_t, HeldInv(m),
           NEW t \in Task, Recheck(t)
    PROVE  HeldInv(m)'
<1> DEFINE c == call[t]
<1>1. At(t, "recheck") /\ UNCHANGED <<k, q>>
  BY DEF Recheck
<1>2. k.current = t /\ t \in Ready(k)
  BY <1>1, OwnIs DEF Suspending
<1>3. PICK where, d :
        /\ Goes(t, where)
        /\ call' = [call EXCEPT ![t] = d] \/ (call' = call /\ d = call[t])
        /\ where \in {"run", "disinherit", "attempt"}
        /\ where # "run" => call' = call /\ d = c
        /\ where = "attempt" => ~prvIsQueueEmpty(s, c.x)
        /\ where = "run" => ~c.inherited
  BY DEF Recheck, Returns
<1>4. pc[t] = "recheck" /\ pc'[t] = where
  BY <1>1, <1>3, GoesIs DEF At
<1>5. LineStays(m) /\ q'[m].holder = q[m].holder /\ t \notin Line(m) /\ t \in Up(k)
  BY <1>1, <1>2, RunnerIs, StayingSelf, StayingLine
<1>6. ASSUME Wants(t, m) PROVE StillWaits(t, m)
  <2>1. c.x = m /\ WaiterOK(t, m) /\ LineIsOK(m)
    BY <1>6 DEF Wants, HeldInv, LineIsOK
  <2>2. t # q[m].holder
    BY <1>6, <2>1 DEF WaiterOK
  <2>3. CASE where = "run"
    <3>1. ~Wants(t, m)' /\ ~Lends(t, m) /\ ~Comes(t, m)
      BY <1>3, <1>4, <2>3 DEF Wants, Lends, Comes
    <3> HIDE DEF c
    <3>2. QED
      BY <1>5, <2>1, <2>2, <3>1, WaiterGoesOn
  <2>4. CASE where # "run"
    <3>1. TimeLeft(c, where)
      BY <1>3, <2>4 DEF TimeLeft, Leaving
    <3>2. where = "attempt" => q[m].holder = NoTask
      BY <1>3, <2>1, FreeIs
    <3>3. call'[t] = call[t]
      BY <1>3, <2>4
    <3> HIDE DEF c
    <3>4. QED
      BY <1>3, <1>4, <1>5, <1>6, <2>4, <3>1, <3>2, <3>3, PlaceGoesOn DEF c
  <2>5. QED
    BY <2>3, <2>4
<1>7. Becomes(s) /\ Spares(s, s, m) /\ s.k.current = t
  BY <1>1, <1>2, SparesSelf DEF Becomes, s
<1>8. QED
  BY <1>1, <1>3, <1>6, <1>7, WaitAside

-----------------------------------------------------------------------------
(* The first critical section of a call *)

\* A call that begins, or goes round its loop.
Begins(t, c, m) ==
    \/ pc[t] = "attempt" /\ c = call[t]
    \/ pc[t] = "run" /\ (Takes(c) /\ c.x = m => t # q[m].holder /\ Suits(c.op, q[m].type))

Attempts(t, c, m) ==
    /\ k.current = t /\ ~k.pendsv /\ k.suspensions = 0 /\ t \in Ready(k)
    /\ \A y \in Queue_t : q[y].tx = queueUNLOCKED
    /\ CallOK(c, q, calls)
    /\ Begins(t, c, m)

LEMMA NoSelect ==
    ASSUME NEW m, OneMutexIs(m), NEW c, CallOK(c, q, calls)
    PROVE  c.op # "select"
<1>1. c.op = "select" => \E d \in calls : d[1] \in {"select", "select_isr"}
  BY DEF CallOK, SelectedFrom
<1>2. QED
  BY <1>1 DEF OneMutexIs

LEMMA BeginsIs ==
    ASSUME FifoInv, LockInv, NEW m \in Queue_t, HeldInv(m), NEW t \in Task, NEW c,
           Attempts(t, c, m)
    PROVE  /\ t \notin Line(m) /\ t \in Up(k)
           /\ Wants(t, m) <=> pc[t] = "attempt" /\ Takes(c) /\ c.x = m
           /\ Takes(c) /\ c.x = m => t # q[m].holder /\ Suits(c.op, q[m].type)
<1>1. t \in Ready(k) /\ Begins(t, c, m)
  BY DEF Attempts
<1>2. Wants(t, m) <=> pc[t] = "attempt" /\ Takes(c) /\ c.x = m
  BY <1>1 DEF Begins, Wants
<1>3. WaiterOK(t, m)
  BY DEF HeldInv, LineIsOK
<1>4. Takes(c) /\ c.x = m => t # q[m].holder /\ Suits(c.op, q[m].type)
  BY <1>1, <1>2, <1>3 DEF Begins, WaiterOK
<1>5. QED
  BY <1>1, <1>2, <1>4, RunnerIs

\* It does not succeed.
LEMMA FailsHeld ==
    ASSUME FifoInv, LockInv, QueuesMove, FifoInv', NEW m \in Queue_t, HeldInv(m),
           NEW t \in Task, NEW c, Attempts(t, c, m), ~Can(c), UNCHANGED <<k, q>>,
           \/ c.ticks = 0 /\ Returns(t)
           \/ c.ticks > 0 /\ call' = [call EXCEPT ![t] = Entered(c)] /\ Goes(t, "suspend")
    PROVE  HeldInv(m)'
<1>1. LineStays(m) /\ q'[m].holder = q[m].holder /\ t \notin Line(m) /\ t \in Up(k)
  BY BeginsIs, StayingSelf, StayingLine
<1>2. PICK where, d :
        /\ Goes(t, where) /\ call' = [call EXCEPT ![t] = d]
        /\ \/ c.ticks = 0 /\ where = "run"
           \/ c.ticks > 0 /\ where = "suspend" /\ d = Entered(c)
  BY DEF Returns
<1>3. pc'[t] = where /\ call'[t] = d
  BY <1>2, GoesIs DEF FifoInv, CallsOK
<1>4. /\ d = Entered(c) => d.ticks = c.ticks /\ d.inherited = c.inherited
                           /\ d.expired = c.expired /\ d.op = c.op /\ d.x = c.x
  BY DEF Attempts, Entered, CallOK, CallFields
<1>5. Takes(c) /\ c.x = m => q[m].holder # NoTask
  <2>1. Takes(c) /\ c.x = m => prvIsQueueEmpty(s, m)
    BY DEF Can, Takes, Sends
  <2>2. QED
    BY <2>1, FreeIs
<1>6. Aside(t, m) \/ StillWaits(t, m)
  <2>1. CASE Takes(c) /\ c.x = m
    <3>1. t # q[m].holder /\ Suits(c.op, q[m].type) /\ LineIsOK(m)
      BY <2>1, BeginsIs DEF HeldInv
    <3>2. Wants(t, m)' => TimeLeft(d, where) /\ where # "place" /\ d.op = c.op
      BY <1>2, <1>3, <1>4 DEF Wants, TimeLeft, Leaving
    <3>3. Lends(t, m) => pc[t] = "attempt" /\ c.ticks > 0 /\ c.inherited
      BY BeginsIs DEF Lends, Attempts, Begins
    <3>4. Lends(t, m) => Lends(t, m)'
      <4>1. SUFFICES ASSUME Lends(t, m) PROVE Lends(t, m)'
        OBVIOUS
      <4>2. c.ticks # 0
        BY <3>3, <4>1
      <4>3. where = "suspend" /\ d = Entered(c)
        BY <1>2, <4>2
      <4>4. QED
        BY <1>3, <1>4, <2>1, <3>3, <4>1, <4>3 DEF Lends, Wants, Takes
    <3>5. QED
      BY <1>1, <1>3, <1>5, <2>1, <3>1, <3>2, <3>4, WaiterGoesOn
  <2>2. CASE ~(Takes(c) /\ c.x = m)
    <3>1. ~Wants(t, m)
      BY <2>2, BeginsIs
    <3>2. ~Wants(t, m)'
      BY <1>2, <1>3, <1>4, <2>2 DEF Wants, Takes
    <3>3. QED
      BY <3>1, <3>2 DEF Aside
  <2>3. QED
    BY <2>1, <2>2
<1>7. \A u \in Task \ {t} : Aside(u, m)
  BY <1>2, OthersAside
<1>8. Becomes(s) /\ Spares(s, s, m) /\ s.k.current = k.current /\ ~k.pendsv
  BY SparesSelf DEF Becomes, s, Attempts
<1>9. \A u \in Task : Aside(u, m) \/ StillWaits(u, m)
  BY <1>6, <1>7
<1>10. QED
  BY <1>8, <1>9, SparedOn

\* It is served by another queue.
LEMMA DoHeld ==
    ASSUME FifoInv, LockInv, QueuesMove, FifoInv', NEW m \in Queue_t, HeldInv(m),
           NEW t \in Task, NEW c, Attempts(t, c, m), c.x # m, Becomes(Do(c)), Returns(t)
    PROVE  HeldInv(m)'
<1>1. CallOK(c, q, calls) /\ c.op # "select" /\ c.x \in Queue_t /\ OneMutexIs(m)
  BY NoSelect DEF Attempts, CallOK, HeldInv
<1>2. ServiceOK(s) /\ ~IsMutex(s, c.x) /\ s.q[c.x].set = NoQueue /\ c.x \in Queue_t \ {m}
  BY <1>1, OtherQueue, KernelFine
<1>4. Spares(Do(c), s, m)
  <2>1. CASE Sends(c)
    <3>1. Do(c) = Send(s, c.x, c.item, c.op)
      BY <2>1 DEF Do, Sends
    <3>2. QED
      BY <1>2, <3>1, SendSpares
  <2>2. CASE c.op \in {"receive", "peek", "take"}
    <3>1. Do(c) \in {Receive(s, c.x), Peek(s, c.x), Take(s, c.x)}
      BY <2>2 DEF Do, Sends
    <3>2. QED
      BY <1>2, <3>1, TakenSpares
  <2>3. CASE c.op = "take_recursive"
    <3> DEFINE x == c.x
               v == Take(s, x)
               w == [v EXCEPT !.q[x].depth = v.q[x].depth + 1]
    <3>1. Do(c) = w /\ Spares(v, s, m) /\ Serves(v, s, Queue_t)
      BY <1>2, <2>3, TakenSpares, TakenServes DEF Do, Sends
    <3>2. x \in Queue_t \ {m} /\ ServiceOK(v)
      BY <1>2, <3>1 DEF Serves
    <3> HIDE DEF v, x
    <3>3. DOMAIN v = {"k", "q"} /\ DOMAIN v.q = Queue_t /\ DOMAIN v.q[x] = QueueFields
      BY <3>2 DEF ServiceOK, LockOK
    <3>4. /\ w.k = v.k /\ \A y \in Queue_t \ {x} : w.q[y] = v.q[y]
          /\ w.q[x].set = v.q[x].set /\ w.q[x].holder = v.q[x].holder
      BY <3>2, <3>3 DEF QueueFields
    <3>5. Spares(w, v, m)
      BY <3>2, <3>4, OtherSpares
    <3>6. QED
      BY <3>1, <3>5, SparesBoth
  <2>4. QED
    BY <1>1, <2>1, <2>2, <2>3 DEF CallOK, Sends
<1>5. Served(Do(c))
  BY <1>1, DoServes DEF Attempts
<1>6. Aside(t, m)
  <2>1. ~Wants(t, m) /\ ~Wants(t, m)'
    BY BeginsIs, GoesIs DEF Returns, Wants
  <2>2. QED
    BY <2>1 DEF Aside
<1>7. \A u \in Task \ {t} : Aside(u, m)
  BY OthersAside DEF Returns
<1>8. Wakes(Do(c).k, k)
  BY <1>5 DEF Served
<1>9. QED
  BY <1>4, <1>6, <1>7, <1>8, SparedOn

\* The count of the mutexes of the running task.
LEMMA CountedIs ==
    ASSUME NEW g, KernelOK(g), Priced(g, NoTask), NEW j, j = pvTaskIncrementMutexHeldCount(g)
    PROVE  /\ KernelOK(j) /\ Priced(j, g.current) /\ Keeps(j, g, {"mutexes"})
<1>1. DOMAIN g = KernelFields /\ g.current \in Task
  BY DEF KernelOK, Timed, Good, Sound, Shape
<1>2. Keeps(j, g, {"mutexes"}) /\ j.mutexes = [g.mutexes EXCEPT ![g.current] = @ + 1]
  BY <1>1 DEF pvTaskIncrementMutexHeldCount, Keeps, KernelFields
<1>3. /\ j.priority = g.priority /\ j.base = g.base /\ j.event = g.event /\ j.bits = g.bits
      /\ j.pendsv = g.pendsv
  BY <1>2 DEF Keeps, KernelFields
<1>4. KernelOK(j)
  <2>1. Keeps(j, g, OtherFields)
    BY <1>2 DEF Keeps, OtherFields
  <2>2. QED
    BY <1>3, <2>1, WakesNone DEF Wakes
<1>5. Fair(j, g.current)
  BY <1>3, NoTaskAssumption DEF Priced, Fair
<1>6. Counted(j, g.current)
  BY <1>1, <1>2, NoTaskAssumption DEF Priced, Counted
<1>7. QED
  BY <1>2, <1>4, <1>5, <1>6 DEF Priced

\* Somebody has taken the mutex m.
TookMutex(v, u, m, g, depth) ==
    /\ Staying(v.k, g)
    /\ \A y \in Queue_t : v.q[y].set = u.q[y].set
    /\ \A y \in Queue_t \ {m} : v.q[y].holder = u.q[y].holder
    /\ v.q[m].holder = u.k.current /\ v.q[m].count = u.q[m].count - 1
    /\ v.q[m].depth = depth

LEMMA TakeMutexIs ==
    ASSUME NEW u, ServiceOK(u), NEW m \in Queue_t, IsMutex(u, m), Priced(u.k, NoTask),
           NEW v, v = Take(u, m), NEW g, g = pvTaskIncrementMutexHeldCount(u.k)
    PROVE  ServiceOK(v) /\ TookMutex(v, u, m, g, u.q[m].depth)
<1> DEFINE taken == [k |-> g, q |-> [u.q EXCEPT ![m].holder = u.k.current]]
           r == Received(taken, m)
<1>1. /\ DOMAIN u.q = Queue_t /\ LockOK(u.q[m]) /\ DOMAIN u.q[m] = QueueFields
      /\ KernelOK(g) /\ u.k.current \in Task
  BY CountedIs DEF ServiceOK, LockOK, KernelOK, Timed
<1>2. /\ taken.k = g /\ DOMAIN taken = {"k", "q"} /\ DOMAIN taken.q = Queue_t
      /\ \A y \in Queue_t \ {m} : taken.q[y] = u.q[y]
      /\ DOMAIN taken.q[m] = QueueFields
      /\ \A f \in QueueFields \ {"holder"} : taken.q[m][f] = u.q[m][f]
      /\ taken.q[m].holder = u.k.current
  BY <1>1 DEF QueueFields
<1>3. v = WakeHead(r, ToSend(m))
  BY DEF Take
<1> HIDE DEF taken
<1>4. ServiceOK(taken)
  BY <1>1, <1>2 DEF ServiceOK, LockOK, QueueFields
<1>5. ServiceOK(r)
  BY <1>4, ReceivedServes DEF Serves
<1>6. /\ r.k = g /\ \A y \in Queue_t \ {m} : r.q[y] = taken.q[y]
      /\ r.q[m].holder = taken.q[m].holder /\ r.q[m].count = taken.q[m].count - 1
      /\ r.q[m].depth = taken.q[m].depth /\ r.q[m].set = taken.q[m].set
  BY <1>2 DEF Received, QueueFields
<1> HIDE DEF r
<1>7. Spares(v, r, m) /\ ServiceOK(v)
  BY <1>3, <1>5, WakeSpares, WakeServes DEF Serves
<1>8. /\ taken.q[m].count = u.q[m].count /\ taken.q[m].depth = u.q[m].depth
      /\ taken.q[m].set = u.q[m].set
  BY <1>2 DEF QueueFields
<1>9. QED
  BY <1>2, <1>6, <1>7, <1>8 DEF Spares, TookMutex

\* The mutex is taken, by a task that none of those who sleep for it outranks.
LEMMA TakeHeld ==
    ASSUME FifoInv, LockInv, QueuesMove, FifoInv', NEW m \in Queue_t, HeldInv(m),
           NEW t \in Task, NEW c, Attempts(t, c, m), Takes(c), c.x = m, Can(c),
           Becomes(Do(c)), Returns(t)
    PROVE  HeldInv(m)'
<1> DEFINE g == pvTaskIncrementMutexHeldCount(k)
           v == Take(s, m)
           w == Do(c)
           depth == IF c.op = "take_recursive" THEN q[m].depth + 1 ELSE q[m].depth
<1>1. /\ ServiceOK(s) /\ s.k = k /\ s.q = q /\ IsMutex(s, m) /\ KernelOK(k)
      /\ k.current = t /\ ~k.pendsv /\ k.suspensions = 0 /\ t # NoTask
  BY OtherQueue, KernelFine, NoTaskAssumption DEF Attempts, HeldInv
<1>2. q[m].holder = NoTask /\ q[m].count = 1
  <2>1. ~prvIsQueueEmpty(s, m)
    BY DEF Can, Takes, Sends
  <2>2. QED
    BY <2>1, FreeIs DEF HeldInv, MutexIsWhole, Whole
<1>3. Priced(k, NoTask)
  BY <1>2 DEF HeldInv, LineIsOK
<1>4. KernelOK(g) /\ Priced(g, t) /\ Keeps(g, k, {"mutexes"})
  BY <1>1, <1>3, CountedIs
<1>5. /\ g.priority = k.priority /\ g.base = k.base /\ g.event = k.event
      /\ g.events = k.events /\ g.pending = k.pending /\ Ready(g) = Ready(k)
      /\ g.suspensions = k.suspensions
  BY <1>4 DEF Keeps, KernelFields, Ready, ReadyAt
<1>6. ServiceOK(v) /\ TookMutex(v, s, m, g, q[m].depth)
  BY <1>1, <1>3, TakeMutexIs
<1> HIDE DEF g
<1>7. TookMutex(w, s, m, g, depth)
  <2>1. CASE c.op = "take"
    BY <1>6, <2>1 DEF Do, Sends
  <2>2. CASE c.op = "take_recursive"
    <3>1. w = [v EXCEPT !.q[m].depth = v.q[m].depth + 1]
      BY <2>2 DEF Do, Sends
    <3> HIDE DEF v, w
    <3>2. /\ w.k = v.k /\ \A y \in Queue_t \ {m} : w.q[y] = v.q[y]
          /\ w.q[m].set = v.q[m].set /\ w.q[m].holder = v.q[m].holder
          /\ w.q[m].count = v.q[m].count /\ w.q[m].depth = v.q[m].depth + 1
      BY <1>6, <3>1 DEF ServiceOK, LockOK, QueueFields
    <3>3. v.q[m].depth = q[m].depth
      BY <1>6 DEF TookMutex
    <3> HIDE DEF ServiceOK
    <3>4. QED
      BY <1>6, <2>2, <3>2, <3>3 DEF TookMutex
  <2>3. QED
    BY <2>1, <2>2 DEF Takes
<1> HIDE DEF v, w
<1>8. /\ k' = w.k /\ q' = w.q
  BY DEF Becomes, w
<1>9. /\ Staying(k', g) /\ q'[m].holder = t /\ q'[m].count = 0 /\ q'[m].depth = depth
      /\ \A y \in Queue_t \ {m} : q'[y].holder = q[y].holder
      /\ \A y \in Queue_t : q'[y].set = q[y].set
  BY <1>1, <1>2, <1>7, <1>8 DEF TookMutex
<1>10. /\ t \notin Line(m) /\ Suits(c.op, q[m].type) /\ q'[m].type = q[m].type
  BY BeginsIs, TypeStays
<1>11. OneMutexIs(m)'
  BY <1>9, OneMutexStays DEF HeldInv
<1>12. MutexIsWhole(m)'
  <2>1. Whole(q[m]) /\ \A y \in Queue_t \ {m} : q[y].holder = NoTask
    BY DEF HeldInv, MutexIsWhole
  <2>2. q[m].depth \in Nat /\ (q[m].type = "recursive" => q[m].depth = 0)
    BY <1>2, <2>1 DEF Whole
  <2>3. depth \in Nat /\ (q[m].type = "recursive" => depth > 0)
    BY <1>10, <2>2 DEF Suits
  <2>4. QED
    BY <1>1, <1>9, <1>10, <2>1, <2>3 DEF MutexIsWhole, Whole
<1>13. /\ k'.priority = k.priority /\ k'.base = k.base
       /\ Line(m)' \subseteq Line(m) /\ Line(m) \subseteq Line(m)' \cup Up(k')
       /\ Up(k) \subseteq Up(k')
  <2>1. ToReceive(m) \in EventLists
    BY EventListsAssumption
  <2>2. QED
    BY <1>5, <1>9, <2>1 DEF Staying, SamePrices, Line, Up
<1>14. pc'[t] = "run" /\ \A u \in Task \ {t} : pc'[u] = pc[u] /\ call'[u] = call[u]
  BY GoesIs DEF Returns, FifoInv, CallsOK
<1>15. ASSUME NEW u \in Task PROVE SleeperOK(u, m)' /\ WaiterOK(u, m)'
  <2>1. SleeperOK(u, m) /\ WaiterOK(u, m)
    BY DEF HeldInv, LineIsOK
  <2>2. CASE u = t
    BY <1>10, <1>13, <1>14, <2>2 DEF SleeperOK, WaiterOK, Wants
  <2>3. CASE u # t
    <3>1. Wants(u, m)' <=> Wants(u, m)
      BY <1>14, <2>3 DEF Wants
    <3>2. SleeperOK(u, m)'
      BY <1>13, <1>14, <2>1, <2>3, <3>1 DEF SleeperOK
    <3>3. WaiterOK(u, m)'
      BY <1>1, <1>9, <1>10, <1>13, <1>14, <2>1, <2>3, <3>1 DEF WaiterOK
    <3>4. QED
      BY <3>2, <3>3
  <2>4. QED
    BY <2>2, <2>3
<1>16. LineIsOK(m)'
  <2>1. Priced(k', t)
    BY <1>4, <1>9, PricesSame DEF Staying
  <2>2. Sorted(k.events[ToReceive(m)], k.event) /\ NonePended(k)
    BY DEF HeldInv, LineIsOK
  <2>3. Sorted(k.events[ToReceive(m)], k.event)' /\ NonePended(k')
    <3>1. ToReceive(m) \in EventLists
      BY EventListsAssumption
    <3>2. QED
      BY <1>5, <1>9, <2>2, <3>1 DEF Staying, InTurn, SamePrices, Sorted, NonePended
  <2>4. QED
    BY <1>9, <1>15, <2>1, <2>3 DEF LineIsOK
<1>17. /\ k.priority[t] = k.base[t] /\ \A u \in Task : k.priority[u] = k.base[u]
  BY <1>3, NoTaskAssumption DEF Priced, Fair
<1>18. \A u \in Line(m) : k.base[u] <= k.base[t]
  <2>1. SUFFICES ASSUME NEW u \in Line(m) PROVE k.base[u] <= k.base[t]
    OBVIOUS
  <2>2. PICK b \in Task : Abreast(k, b) /\ k.priority[u] <= k.priority[b]
    BY <1>2, <2>1 DEF HeldInv, IsOffered
  <2>3. k.priority[b] <= k.priority[t]
    BY <1>1, <2>2 DEF Abreast
  <2>4. u \in Task
    BY <2>1, LineIs
  <2>5. k.base[u] \in Int /\ k.base[b] \in Int /\ k.base[t] \in Int
    BY <1>1, <2>4, PrioritiesAssumption DEF KernelOK, Priority
  <2>6. QED
    BY <1>17, <2>2, <2>3, <2>4, <2>5
<1>19. LentToHolder(m)'
  <2>1. SUFFICES ASSUME NEW u \in Line(m)'
                 PROVE  k.base[u] <= k.base[t] /\ ~(k.base[u] > k.base[t])
    BY <1>9, <1>13, <1>17 DEF LentToHolder
  <2>2. k.base[u] <= k.base[t] /\ u \in Task
    BY <1>13, <1>18, <2>1, LineIs
  <2>3. k.base[u] \in Int /\ k.base[t] \in Int
    BY <1>1, <2>2, PrioritiesAssumption DEF KernelOK, Priority
  <2>4. QED
    BY <2>2, <2>3
<1>20. HasLender(m)'
  <2>1. ~(k.base[t] > k.base[t])
    BY <1>1, PrioritiesAssumption DEF KernelOK, Priority
  <2>2. QED
    BY <1>9, <1>13, <1>17, <2>1 DEF HasLender
<1>21. IsOffered(m)'
  BY <1>1, <1>9 DEF IsOffered
<1>22. QED
  BY <1>11, <1>12, <1>16, <1>19, <1>20, <1>21 DEF HeldInv

LEMMA AttemptHeld ==
    ASSUME FifoInv, LockInv, QueuesMove, FifoInv', NEW m \in Queue_t, HeldInv(m),
           NEW t \in Task, NEW c, Attempts(t, c, m), AttemptCall(t, c)
    PROVE  HeldInv(m)'
<1>1. CallOK(c, q, calls) /\ c.op # "select" /\ OneMutexIs(m)
  BY NoSelect DEF Attempts, HeldInv
<1>2. CASE Can(c) /\ Becomes(Do(c)) /\ Proceeds(t, c)
  <2>1. Returns(t)
    BY <1>1, <1>2 DEF Proceeds
  <2>2. CASE c.x # m
    BY <1>2, <2>1, <2>2, DoHeld
  <2>3. CASE c.x = m
    BY <1>1, <1>2, <2>1, <2>3, TakesIs, TakeHeld
  <2>4. QED
    BY <2>2, <2>3
<1>3. CASE /\ ~Can(c) /\ UNCHANGED <<k, q>>
           /\ \/ c.ticks = 0 /\ Returns(t)
              \/ c.ticks > 0 /\ call' = [call EXCEPT ![t] = Entered(c)] /\ Goes(t, "suspend")
  BY <1>3, FailsHeld
<1>4. QED
  BY <1>2, <1>3 DEF AttemptCall

LEMMA CallHeld ==
    ASSUME FifoInv, LockInv, QueuesMove, FifoInv', NEW m \in Queue_t, HeldInv(m),
           NEW t \in Task, Call(t) \/ Attempt(t)
    PROVE  HeldInv(m)'
<1>1. CASE Call(t)
  <2>1. PICK c \in calls :
          LET new == NewCall(c[1], c[2], c[3], c[4])
          IN  /\ Sends(new) \/ new.op \in {"receive", "peek", "select"} \/ Takes(new)
              /\ Takes(new) => q[c[2]].holder # t
              /\ AttemptCall(t, new)
    BY <1>1 DEF Call
  <2> DEFINE new == NewCall(c[1], c[2], c[3], c[4])
  <2>2. Allowed(c, q, calls) /\ (c[1] = "select" => c[2] \in SelectedFrom(calls))
    BY DEF FifoInv, IsApplication, SelectedFrom
  <2>3. /\ new.op = c[1] /\ new.x = c[2] /\ new.item = c[3] /\ new.ticks = c[4]
        /\ DOMAIN new = CallFields
    BY DEF NewCall, CallFields
  <2>4. /\ AttemptCall(t, new) /\ (Takes(new) => q[c[2]].holder # t)
        /\ Sends(new) \/ new.op \in {"receive", "peek", "select"} \/ Takes(new)
    BY <2>1
  <2> HIDE DEF new
  <2>5. CallOK(new, q, calls)
    BY <2>2, <2>3, <2>4 DEF CallOK, Allowed, Sends, Takes
  <2>6. Takes(new) /\ new.x = m => Suits(new.op, q[m].type)
    BY <2>2, <2>3 DEF Takes, Allowed, Suits, HeldInv, OneMutexIs, Mutexes
  <2>7. /\ k.current = t /\ ~k.pendsv /\ k.suspensions = 0 /\ t \in Ready(k) /\ pc[t] = "run"
        /\ \A y \in Queue_t : q[y].tx = queueUNLOCKED
    BY <1>1, OwnIs DEF Call, At, Suspending
  <2>8. Attempts(t, new, m)
    BY <2>3, <2>4, <2>5, <2>6, <2>7 DEF Attempts, Begins
  <2>9. QED
    BY <2>4, <2>8, AttemptHeld
<1>2. CASE Attempt(t)
  <2>1. pc[t] = "attempt" /\ AttemptCall(t, call[t]) /\ At(t, "attempt")
    BY <1>2 DEF Attempt, At
  <2>2. CallOK(call[t], q, calls)
    BY <2>1, InCallIsOK
  <2>3. /\ k.current = t /\ ~k.pendsv /\ k.suspensions = 0 /\ t \in Ready(k)
        /\ \A y \in Queue_t : q[y].tx = queueUNLOCKED
    BY <2>1, OwnIs DEF Suspending
  <2>4. Attempts(t, call[t], m)
    BY <2>1, <2>2, <2>3 DEF Attempts, Begins
  <2>5. QED
    BY <2>1, <2>4, AttemptHeld
<1>3. QED
  BY <1>1, <1>2

-----------------------------------------------------------------------------
(* Going to sleep, and lending *)

\* Another task's priority is not what the line of a mutex is in the order of.
LEMMA SortedBeside ==
    ASSUME NEW g, NEW j, NEW h, Beside(j, g, h), NEW list, Elements(list) \subseteq Task \ {h},
           Sorted(list, g.event)
    PROVE  Sorted(list, j.event)
<1>1. \A i \in DOMAIN list : j.event[list[i]] = g.event[list[i]]
  BY DEF Beside, Elements
<1>2. QED
  BY <1>1 DEF Sorted

\* The holder is not among those who sleep.
LEMMA HolderAwake ==
    ASSUME NEW m, LineIsOK(m), Line(m) \subseteq Task
    PROVE  q[m].holder \notin Line(m)
BY DEF LineIsOK, SleeperOK, WaiterOK

LEMMA PlaceOther ==
    ASSUME FifoInv, LockInv, QueuesMove, FifoInv', NEW m \in Queue_t, HeldInv(m),
           NEW t \in Task, Place(t), call[t].x # m
    PROVE  HeldInv(m)'
<1> DEFINE c == call[t]
           j == vTaskPlaceOnEventList(k, ListOf(c), c.ticks)
<1>1. At(t, "place") /\ Goes(t, "unlockTx") /\ UNCHANGED q
  BY DEF Place
<1>2. k.current = t /\ k.suspensions = 1 /\ t \in Ready(k)
  BY <1>1, LockingIs DEF Suspending, Leaving
<1>3. CallOK(c, q, calls) /\ CallWaits(c, "place")
  BY <1>1, InCallIsOK DEF At, LockInv, CallsWait
<1>4. DOMAIN c = CallFields /\ DOMAIN call = Task /\ c.x \in Queue_t
  BY <1>3 DEF CallOK, FifoInv, CallsOK
<1>5. ~IsMutex(s, c.x)
  BY <1>4, OtherQueue DEF HeldInv
<1>6. k' = j
  BY <1>5 DEF Place
<1>7. \E d : call' = [call EXCEPT ![t] = d] /\ d.x = c.x
  <2> DEFINE d == [c EXCEPT !.inherited = FALSE, !.placed = TRUE]
  <2>1. call' = [call EXCEPT ![t] = d]
    BY <1>4, <1>5 DEF Place, CallFields
  <2>2. d.x = c.x
    BY <1>4 DEF CallFields
  <2>3. QED
    BY <2>1, <2>2
<1>8. ListOf(c) \in EventLists /\ c.ticks \in Int /\ ListOf(c) # ToReceive(m)
      /\ ToReceive(m) \in EventLists
  BY <1>3, <1>4, EventListsAssumption DEF ListOf, CallWaits, ToSend, ToReceive
<1> HIDE DEF c
<1>9. LeavesReady(j, k) /\ j.events[ToReceive(m)] = k.events[ToReceive(m)]
  BY <1>2, <1>8, PlaceLeaves, KernelFine
<1> HIDE DEF j
<1>10. pc'[t] = "unlockTx" /\ ~Wants(t, m) /\ ~Wants(t, m)'
  BY <1>1, <1>4, <1>7, GoesIs DEF Wants, c
<1>11. LineStays(m)
  <2>1. \A u \in Task : Wants(u, m)' => u # t
    BY <1>10
  <2>2. QED
    BY <1>2, <1>6, <1>9, <2>1 DEF LeavesReady, LineStays, Line, Up, NonePended, SamePrices
<1>12. \A v \in Ready(k') : Abreast(k, v) => Abreast(k', v)
  BY <1>2, <1>6, <1>9 DEF LeavesReady, SamePrices, Abreast
<1>13. OneMutexIs(m)' /\ Whole(q'[m])
  BY <1>1, OneMutexStays DEF HeldInv, MutexIsWhole
<1>14. \A u \in Task \ {t} : Aside(u, m)
  BY <1>1, <1>7, OthersAside
<1>15. \A u \in Task : Aside(u, m)
  BY <1>10, <1>14 DEF Aside
<1>16. QED
  BY <1>1, <1>11, <1>12, <1>13, <1>15, LineIs, HeldOn

LEMMA PlaceMutex ==
    ASSUME FifoInv, LockInv, QueuesMove, FifoInv', NEW m \in Queue_t, HeldInv(m),
           NEW t \in Task, Place(t), call[t].x = m
    PROVE  HeldInv(m)'
<1> DEFINE c == call[t]
           h == q[m].holder
           lent == xTaskPriorityInherit(k, h)
           j == vTaskPlaceOnEventList(lent, ToReceive(m), c.ticks)
           lends == Takes(c) /\ IsMutex(s, c.x)
           d == [c EXCEPT !.inherited = lends /\ Inherits(k, q[c.x].holder), !.placed = TRUE]
<1>1. At(t, "place") /\ Goes(t, "unlockTx") /\ UNCHANGED q
  BY DEF Place
<1>2. k.current = t /\ k.suspensions = 1 /\ t \in Ready(k) /\ pc[t] = "place"
  BY <1>1, LockingIs DEF Suspending, Leaving, At
<1>3. CallOK(c, q, calls) /\ CallWaits(c, "place") /\ Takes(c) /\ IsMutex(s, m)
  BY <1>1, InCallIsOK, TakesIs, OtherQueue DEF At, LockInv, CallsWait, HeldInv
<1>4. DOMAIN c = CallFields /\ DOMAIN call = Task /\ c.ticks \in Int
  BY <1>3 DEF CallOK, FifoInv, CallsOK, CallWaits
<1>5. ListOf(c) = ToReceive(m) /\ ToReceive(m) \in EventLists
  BY <1>3, EventListsAssumption DEF ListOf, Takes, Sends
<1>6. k' = j
  BY <1>3, <1>5 DEF Place
<1>7. call' = [call EXCEPT ![t] = d]
  BY <1>3, <1>4 DEF Place, CallFields
<1>8. /\ d.inherited <=> Inherits(k, h)
      /\ d.ticks = c.ticks /\ d.expired = c.expired /\ d.op = c.op /\ d.x = c.x
  BY <1>3, <1>4 DEF CallFields
<1>9. /\ LineIsOK(m) /\ KernelOK(k) /\ MutexIsWhole(m)
      /\ Line(m) \subseteq Task /\ Wants(t, m) /\ WaiterOK(t, m)
  BY <1>2, <1>3, LineIs, KernelFine DEF HeldInv, LineIsOK, Wants
<1>10. /\ h # NoTask /\ h # t /\ h \in Task /\ h \notin Line(m) /\ Priced(k, h)
       /\ c.ticks > 0 /\ ~c.expired /\ Suits(c.op, q[m].type)
  <2>1. h \in Task \cup {NoTask}
    BY KernelFine DEF ServiceOK, LockOK
  <2>2. h \notin Line(m)
    BY <1>9, HolderAwake
  <2>3. QED
    BY <1>2, <1>9, <2>1, <2>2 DEF WaiterOK, LineIsOK, TimeLeft
<1>11. Wakes(lent, k)
  BY <1>9, <1>10, InheritWakes
<1>12. /\ Priced(lent, h) /\ Beside(lent, k, h)
       /\ lent.priority[h] = IF k.priority[h] < k.priority[t] THEN k.priority[t] ELSE k.priority[h]
  BY <1>2, <1>9, <1>10, LentIs
<1> HIDE DEF lent, d, c, h, lends
<1>13. /\ KernelOK(lent) /\ lent.current = t /\ t \in Ready(lent) /\ lent.suspensions = 1
  BY <1>2, <1>11 DEF Wakes
<1>14. /\ LeavesReady(j, lent)
       /\ Elements(j.events[ToReceive(m)]) = Elements(lent.events[ToReceive(m)]) \cup {t}
       /\ Sorted(lent.events[ToReceive(m)], lent.event) => Sorted(j.events[ToReceive(m)], j.event)
  BY <1>4, <1>5, <1>13, PlaceLeaves
<1> HIDE DEF j
<1>15. /\ SamePrices(k', lent) /\ k'.suspensions = 1 /\ k'.pending = k.pending
       /\ Ready(k') = Ready(k) \ {t} /\ Line(m)' = Line(m) \cup {t}
       /\ k'.base = k.base /\ k'.priority = lent.priority
  BY <1>6, <1>12, <1>13, <1>14 DEF LeavesReady, SamePrices, Beside, Line
<1>16. pc'[t] = "unlockTx" /\ call'[t] = d
       /\ \A u \in Task \ {t} : pc'[u] = pc[u] /\ call'[u] = call[u]
  BY <1>1, <1>4, <1>7, GoesIs
<1>17. q' = q /\ OneMutexIs(m)' /\ MutexIsWhole(m)'
  BY <1>1, <1>9, OneMutexStays DEF HeldInv, MutexIsWhole
<1>18. Wants(t, m)'
  BY <1>3, <1>8, <1>16 DEF Wants, Takes, c
<1>19. ASSUME NEW u \in Task PROVE SleeperOK(u, m)' /\ WaiterOK(u, m)'
  <2>1. CASE u = t
    <3>1. Sleeping(d, "unlockTx") /\ TimeLeft(d, "unlockTx") /\ Suits(d.op, q[m].type)
      BY <1>8, <1>10 DEF Sleeping, TimeLeft, Leaving
    <3>2. QED
      BY <1>10, <1>15, <1>16, <1>17, <1>18, <2>1, <3>1 DEF SleeperOK, WaiterOK, h
  <2>2. CASE u # t
    <3>1. SleeperOK(u, m) /\ WaiterOK(u, m)
      BY <1>9 DEF LineIsOK
    <3>2. Wants(u, m)' <=> Wants(u, m)
      BY <1>16, <2>2 DEF Wants
    <3>3. SleeperOK(u, m)'
      BY <1>15, <1>16, <2>2, <3>1, <3>2 DEF SleeperOK
    <3>4. u \in Line(m) \cup Up(k) => u \in Line(m)' \cup Up(k')
      BY <1>15, <2>2 DEF Up
    <3>5. WaiterOK(u, m)'
      BY <1>16, <1>17, <2>2, <3>1, <3>2, <3>4 DEF WaiterOK
    <3>6. QED
      BY <3>3, <3>5
  <2>3. QED
    BY <2>1, <2>2
<1>20. LineIsOK(m)'
  <2>1. Priced(k', h)
    BY <1>12, <1>15, PricesSame
  <2>2. Sorted(k.events[ToReceive(m)], lent.event)
    <3>1. Sorted(k.events[ToReceive(m)], k.event) /\ Elements(k.events[ToReceive(m)]) \subseteq Task \ {h}
      BY <1>9, <1>10 DEF LineIsOK, Line
    <3>2. QED
      BY <1>12, <3>1, SortedBeside
  <2>3. Sorted(k.events[ToReceive(m)], k.event)'
    BY <1>6, <1>12, <1>14, <2>2 DEF Beside
  <2>4. NonePended(k')
    BY <1>15 DEF NonePended
  <2>5. QED
    BY <1>17, <1>19, <2>1, <2>3, <2>4 DEF LineIsOK, h
<1>21. /\ k.base \in [Task -> Priority] /\ k.priority \in [Task -> Priority] /\ Priority \subseteq Int
       /\ k.base[t] = k.priority[t] /\ k.base[h] <= k.priority[h]
  BY <1>9, <1>10, PrioritiesAssumption DEF KernelOK, Good, Sound, Shape, Priced, Fair, Priority
<1>22. /\ k.base[t] \in Int /\ k.base[h] \in Int /\ k.priority[h] \in Int
  BY <1>10, <1>21
<1>23. d.inherited <=> k.base[h] < k.base[t]
  BY <1>2, <1>8, <1>10, <1>21 DEF Inherits
<1>24. LentToHolder(m)'
  <2>1. SUFFICES ASSUME NEW u \in Line(m)'
                 PROVE  k.base[u] <= lent.priority[h]
                        /\ (k.base[u] > k.base[h] => call'[u].inherited)
    BY <1>15, <1>17 DEF LentToHolder, h
  <2>2. CASE u = t
    BY <1>12, <1>16, <1>21, <1>22, <1>23, <2>2
  <2>3. CASE u # t
    <3>1. u \in Line(m) /\ u \in Task
      BY <1>9, <1>15, <2>1, <2>3
    <3>2. /\ k.base[u] <= k.priority[h]
          /\ k.base[u] > k.base[h] => call[u].inherited
      BY <1>10, <3>1 DEF HeldInv, LentToHolder, h
    <3>3. k.base[u] \in Int
      BY <1>21, <3>1
    <3>4. QED
      BY <1>12, <1>16, <1>21, <1>22, <2>3, <3>1, <3>2, <3>3
  <2>4. QED
    BY <2>2, <2>3
<1>25. HasLender(m)'
  <2>1. SUFFICES ASSUME lent.priority[h] > k.base[h]
                 PROVE  \E u \in Task : Lends(u, m)' /\ k.base[u] = lent.priority[h]
    BY <1>15, <1>17 DEF HasLender, h
  <2>2. k.base[h] < k.base[t] => Lends(t, m)'
    BY <1>16, <1>18, <1>23 DEF Lends
  <2>3. CASE k.priority[h] < k.priority[t]
    BY <1>12, <1>21, <1>22, <2>2, <2>3
  <2>4. CASE ~(k.priority[h] < k.priority[t])
    <3>1. lent.priority[h] = k.priority[h]
      BY <1>12, <2>4
    <3>2. PICK u \in Task : Lends(u, m) /\ k.base[u] = k.priority[h]
      BY <1>10, <2>1, <3>1 DEF HeldInv, HasLender, h
    <3>3. CASE u = t
      BY <1>22, <2>1, <2>2, <3>1, <3>2, <3>3
    <3>4. CASE u # t
      <4>1. Lends(u, m)'
        BY <1>16, <3>2, <3>4 DEF Lends, Wants
      <4>2. QED
        BY <3>1, <3>2, <4>1
    <3>5. QED
      BY <3>3, <3>4
  <2>5. QED
    BY <2>3, <2>4
<1>26. IsOffered(m)'
  BY <1>10, <1>17 DEF IsOffered, h
<1>27. QED
  BY <1>17, <1>20, <1>24, <1>25, <1>26 DEF HeldInv

LEMMA PlaceHeld ==
    ASSUME FifoInv, LockInv, QueuesMove, FifoInv', NEW m \in Queue_t, HeldInv(m),
           NEW t \in Task, Place(t)
    PROVE  HeldInv(m)'
BY PlaceOther, PlaceMutex

-----------------------------------------------------------------------------
(* Giving the mutex back *)

\* Those who wait are in the order of their priorities.
LEMMA HeadOutranks ==
    ASSUME NEW g, NEW h, Fair(g, h), g.priority \in [Task -> Int], NEW list, IsList(list, Task),
           list # << >>, Sorted(list, g.event)
    PROVE  /\ Head(list) \in Elements(list) /\ Head(list) \in Task
           /\ \A u \in Elements(list) : g.priority[u] <= g.priority[Head(list)]
<1>1. Head(list) \in Elements(list) /\ Head(list) \in Task /\ Head(list) = list[1]
  BY HeadIs DEF IsList
<1>2. Len(list) \in Nat /\ DOMAIN list = 1 .. Len(list) /\ MaxPriorities \in Int
  BY PrioritiesAssumption DEF IsList
<1>3. ASSUME NEW u \in Elements(list) PROVE g.priority[u] <= g.priority[Head(list)]
  <2>1. PICK i \in DOMAIN list : u = list[i]
    BY <1>3 DEF Elements
  <2>2. 1 \in DOMAIN list /\ i \in Int
    BY <1>2, <2>1
  <2>3. i = 1 \/ g.event[list[1]] <= g.event[u]
    BY <1>2, <2>1, <2>2 DEF Sorted
  <2>4. u \in Task
    BY <2>1 DEF IsList
  <2>5. /\ g.event[u] = MaxPriorities - g.priority[u]
        /\ g.event[list[1]] = MaxPriorities - g.priority[list[1]]
        /\ g.priority[u] \in Int /\ g.priority[list[1]] \in Int
    BY <1>1, <2>4 DEF Fair
  <2>6. QED
    BY <1>1, <1>2, <2>1, <2>3, <2>5
<1>4. QED
  BY <1>1, <1>3

\* The first who waits is woken, and the task that wakes it yields if it has to.
LEMMA OfferedIs ==
    ASSUME NEW g, KernelOK(g), g.suspensions = 0, NonePended(g), NEW list \in EventLists,
           g.events[list] # << >>, NEW v, v = Head(g.events[list]),
           NEW j, j = YieldIf(xTaskRemoveFromEventList(g, list), Outranks(g, v))
    PROVE  /\ Staying(j, g) /\ Elements(j.events[list]) = Elements(g.events[list]) \ {v}
           /\ v \in Ready(j) /\ Abreast(j, v)
<1> DEFINE r == xTaskRemoveFromEventList(g, list)
<1>1. /\ Staying(r, g) /\ Elements(r.events[list]) = Elements(g.events[list]) \ {v}
  BY RemovedStays
<1>2. Wakes(r, g)
  BY RemovedWakes
<1>3. IsList(g.events[list], Task) /\ g.priority \in [Task -> Int] /\ g.current \in Task
  BY PrioritiesAssumption DEF KernelOK, Good, Sound, Shape, Timed, Priority
<1> HIDE DEF r
<1>4. KernelOK(r) /\ DOMAIN r = KernelFields
  BY <1>2 DEF Wakes, KernelOK, Good, Sound, Shape
<1>5. Staying(j, r) /\ Wakes(j, r) /\ j.events = r.events
  BY <1>4, FlagStays, FlagSet DEF r
<1>6. Outranks(g, v) => j.pendsv
  <2> DEFINE o == Outranks(g, v)
  <2>1. j = YieldIf(r, o)
    BY DEF r
  <2> HIDE DEF o
  <2>2. o => j.pendsv
    BY <1>4, <2>1 DEF YieldIf, portYIELD, KernelFields
  <2>3. QED
    BY <2>2 DEF o
<1>7. Staying(j, g) /\ j.suspensions = 0 /\ j.current = g.current /\ SamePrices(j, g)
  <2>1. Staying(j, g)
    BY <1>1, <1>5, StayingBoth
  <2>2. j.suspensions = 0 /\ j.current = g.current
    BY <1>2, <1>5 DEF Wakes
  <2>3. QED
    BY <2>1, <2>2 DEF Staying
<1>8. v \in Elements(g.events[list]) /\ v \in Task
  BY <1>3, HeadIs
<1>9. v \in Ready(j)
  <2>1. NonePended(j) /\ Elements(g.events[list]) \subseteq Elements(j.events[list]) \cup Up(j)
    BY <1>7 DEF Staying
  <2>2. Elements(j.pending) = {}
    BY <1>7, <2>1 DEF NonePended
  <2>3. QED
    BY <1>1, <1>5, <1>8, <2>1, <2>2 DEF Up
<1>10. Abreast(j, v)
  <2>1. SUFFICES ASSUME ~j.pendsv PROVE g.priority[v] <= g.priority[g.current]
    BY <1>7 DEF Abreast, SamePrices
  <2>2. ~(g.priority[v] > g.priority[g.current])
    BY <1>6, <2>1 DEF Outranks
  <2>3. QED
    BY <1>3, <1>8, <2>2
<1>11. QED
  BY <1>1, <1>5, <1>7, <1>9, <1>10

\* prvCopyDataToQueue of a mutex, and who is told.
LEMMA SendMutexIs ==
    ASSUME NEW u, ServiceOK(u), NEW m \in Queue_t, IsMutex(u, m), u.q[m].set = NoQueue,
           NEW g, g = xTaskPriorityDisinherit(u.k, u.q[m].holder),
           NEW v, v = Send(u, m, NoItem, "back")
    PROVE  /\ v.q = [u.q EXCEPT ![m].holder = NoTask, ![m].count = @ + 1]
           /\ g.events[ToReceive(m)] = << >> => \E e : v.k = YieldIf(g, e)
           /\ g.events[ToReceive(m)] # << >> =>
                v.k = YieldIf(xTaskRemoveFromEventList(g, ToReceive(m)),
                              Outranks(g, Head(g.events[ToReceive(m)])))
<1> DEFINE copied == prvCopyDataToQueue(u, m, NoItem, "back")
           moved == [u.q EXCEPT ![m].holder = NoTask, ![m].count = @ + 1]
           list == ToReceive(m)
           woken == xTaskRemoveFromEventList(g, list)
<1>1. DOMAIN u.q = Queue_t /\ DOMAIN u.q[m] = QueueFields /\ u.q[m].holder \in Task \cup {NoTask}
      /\ KernelOK(u.k)
  BY DEF ServiceOK, LockOK
<1>2. copied = [k |-> g, q |-> moved]
  BY DEF prvCopyDataToQueue
<1>3. moved[m].set = NoQueue /\ g.events = u.k.events
  BY <1>1, DisinheritWakes DEF QueueFields
<1> HIDE DEF moved, copied, list
<1>4. copied.k = g /\ copied.q = moved /\ copied.q[m].set = NoQueue
  BY <1>2, <1>3
<1>5. \E e : /\ v = [Tell(copied, m) EXCEPT !.k = YieldIf(@, e)]
             /\ g.events[list] # << >> => e = WakesHigher(copied, list)
  <2>1. PICK waited, e :
          /\ waited = (u.q[m].set # NoQueue \/ u.k.events[list] # << >>)
          /\ e = IF waited THEN TellWakesHigher(copied, m) ELSE CopyDisinherits(u, m)
          /\ v = [Tell(copied, m) EXCEPT !.k = YieldIf(@, e)]
    BY DEF Send, copied, list
  <2>2. g.events[list] # << >> => e = TellWakesHigher(copied, m)
    BY <1>3, <2>1
  <2>3. TellWakesHigher(copied, m) = WakesHigher(copied, list)
    BY <1>4 DEF TellWakesHigher, list
  <2>4. QED
    BY <2>1, <2>2, <2>3
<1>6. Tell(copied, m) = IF g.events[list] = << >> THEN copied ELSE Woken(copied, list)
  BY <1>4 DEF Tell, list
<1>7. CASE g.events[list] = << >>
  <2>1. PICK e : v = [copied EXCEPT !.k = YieldIf(@, e)]
    BY <1>5, <1>6, <1>7
  <2>2. v.k = YieldIf(g, e) /\ v.q = moved
    BY <1>2, <2>1
  <2>3. QED
    BY <1>7, <2>2 DEF moved, list
<1>8. CASE g.events[list] # << >>
  <2> DEFINE told == Tell(copied, m)
             higher == WakesHigher(copied, list)
  <2>0. told = Woken(copied, list)
    BY <1>6, <1>8
  <2> HIDE DEF told, higher
  <2>1. v = [Woken(copied, list) EXCEPT !.k = YieldIf(@, higher)]
    <3>1. PICK e : v = [told EXCEPT !.k = YieldIf(@, e)] /\ e = higher
      BY <1>5, <1>8 DEF told, higher
    <3>2. QED
      BY <2>0, <3>1
  <2>2. Woken(copied, list) = [k |-> woken, q |-> moved]
    BY <1>2 DEF Woken
  <2>3. higher = Outranks(g, Head(g.events[list]))
    BY <1>4, <1>8 DEF WakesHigher, Outranks, higher
  <2> HIDE DEF woken
  <2>4. v.k = YieldIf(woken, Outranks(g, Head(g.events[list]))) /\ v.q = moved
    BY <2>1, <2>2, <2>3
  <2>5. QED
    BY <1>8, <2>4 DEF woken, moved, list
<1>9. QED
  BY <1>7, <1>8

\* The holder gives the mutex back, and the first of those who sleep is offered it.
LEMMA GaveHeld ==
    ASSUME FifoInv, LockInv, QueuesMove, FifoInv', NEW m \in Queue_t, HeldInv(m),
           NEW t \in Task, At(t, "run"), q[m].holder = t, UNCHANGED <<pc, call>>,
           NEW u, ServiceOK(u), u.k = k,
           \A y \in Queue_t : u.q[y].set = q[y].set /\ u.q[y].holder = q[y].holder
                              /\ u.q[y].count = q[y].count /\ u.q[y].type = q[y].type,
           u.q[m].depth \in Nat, q[m].type = "recursive" => u.q[m].depth = 0,
           Becomes(Send(u, m, NoItem, "back"))
    PROVE  HeldInv(m)'
<1> DEFINE g == xTaskPriorityDisinherit(k, t)
           v == Send(u, m, NoItem, "back")
           list == ToReceive(m)
<1>1. /\ k.current = t /\ ~k.pendsv /\ k.suspensions = 0 /\ t # NoTask
      /\ KernelOK(k) /\ list \in EventLists
  BY OwnIs, KernelFine, NoTaskAssumption, EventListsAssumption DEF Suspending
<1>2. OneMutexIs(m) /\ MutexIsWhole(m) /\ LineIsOK(m) /\ IsMutex(u, m) /\ u.q[m].set = NoQueue
  BY DEF HeldInv, OneMutexIs, IsMutex, Mutexes
<1>3. IsList(k.events[list], Task) /\ Line(m) \subseteq Task /\ t \notin Line(m)
  BY <1>2, LineIs, HolderAwake
<1>4. Wakes(g, k) /\ g.events = k.events
  BY <1>1, DisinheritWakes
<1>5. Priced(g, NoTask) /\ Beside(g, k, t)
  BY <1>1, <1>2, GivenIs DEF LineIsOK
<1>6. /\ v.q = [u.q EXCEPT ![m].holder = NoTask, ![m].count = @ + 1]
      /\ k.events[list] = << >> => \E e : v.k = YieldIf(g, e)
      /\ k.events[list] # << >> =>
           v.k = YieldIf(xTaskRemoveFromEventList(g, list), Outranks(g, Head(k.events[list])))
  <2>1. g = xTaskPriorityDisinherit(u.k, u.q[m].holder)
    OBVIOUS
  <2> HIDE DEF g, v, list
  <2>2. v = Send(u, m, NoItem, "back") /\ list = ToReceive(m) /\ g.events[list] = k.events[list]
    BY <1>4 DEF v, list
  <2>3. QED
    BY <1>2, <2>1, <2>2, SendMutexIs
<1>7. k' = v.k /\ q' = v.q
  BY DEF Becomes
<1> HIDE DEF g, v, list
<1>8. KernelOK(g) /\ g.suspensions = 0 /\ g.pending = k.pending /\ g.base = k.base
      /\ Ready(g) = Ready(k)
  BY <1>1, <1>4, <1>5 DEF Wakes, Beside
<1>9. NonePended(g)
  BY <1>1, <1>2, <1>8 DEF NonePended, LineIsOK
<1>10. Sorted(k.events[list], g.event)
  <2>1. Sorted(k.events[list], k.event) /\ Elements(k.events[list]) \subseteq Task \ {t}
    BY <1>2, <1>3 DEF LineIsOK, Line, list
  <2>2. QED
    BY <1>5, <2>1, SortedBeside
<1>11. Staying(k', g)
  <2>1. CASE k.events[list] = << >>
    BY <1>6, <1>7, <1>8, <2>1, FlagStays
  <2>2. CASE k.events[list] # << >>
    BY <1>1, <1>4, <1>6, <1>7, <1>8, <1>9, <2>2, OfferedIs
  <2>3. QED
    BY <2>1, <2>2
<1>12. /\ SamePrices(k', g) /\ k'.base = k.base /\ Priced(k', NoTask)
       /\ Line(m)' \subseteq Line(m) /\ Line(m) \subseteq Line(m)' \cup Up(k')
       /\ Up(k) \subseteq Up(k') /\ NonePended(k')
       /\ Sorted(k'.events[list], k'.event)
  <2>1. SamePrices(k', g) /\ InTurn(k', g) /\ NonePended(k')
    BY <1>9, <1>11 DEF Staying
  <2>2. Priced(k', NoTask)
    BY <1>5, <2>1, PricesSame
  <2>3. Up(g) = Up(k)
    BY <1>8 DEF Up
  <2>4. Sorted(k'.events[list], k'.event)
    BY <1>1, <1>4, <1>10, <2>1 DEF InTurn, SamePrices
  <2>5. QED
    BY <1>1, <1>4, <1>8, <1>11, <2>1, <2>2, <2>3, <2>4 DEF Staying, SamePrices, Line, list
<1>13. /\ q'[m].holder = NoTask /\ q'[m].count = q[m].count + 1 /\ q'[m].depth = u.q[m].depth
       /\ \A y \in Queue_t \ {m} : q'[y].holder = q[y].holder
       /\ \A y \in Queue_t : q'[y].set = q[y].set
       /\ q'[m].type = q[m].type
  <2>1. DOMAIN u.q = Queue_t /\ DOMAIN u.q[m] = QueueFields
    BY DEF ServiceOK, LockOK
  <2>2. q'[m].type = q[m].type
    BY TypeStays
  <2>3. QED
    BY <1>6, <1>7, <2>1, <2>2 DEF QueueFields
<1>14. OneMutexIs(m)'
  BY <1>2, <1>13, OneMutexStays
<1>15. MutexIsWhole(m)'
  <2>1. q[m].count = 0
    BY <1>1, <1>2 DEF MutexIsWhole, Whole
  <2>2. QED
    BY <1>2, <1>13, <2>1 DEF MutexIsWhole, Whole
<1>16. \A w \in Task : pc[w] \notin Suspending
  BY <1>1 DEF LockInv, Suspended
<1>17. ASSUME NEW w \in Task PROVE SleeperOK(w, m)' /\ WaiterOK(w, m)'
  <2>1. SleeperOK(w, m) /\ WaiterOK(w, m) /\ (Wants(w, m)' <=> Wants(w, m))
    BY <1>2 DEF LineIsOK, Wants
  <2>2. SleeperOK(w, m)'
    BY <1>12, <2>1 DEF SleeperOK
  <2>3. pc[w] # "place" /\ w # NoTask
    BY <1>16, NoTaskAssumption DEF Suspending
  <2>4. WaiterOK(w, m)'
    BY <1>12, <1>13, <2>1, <2>3 DEF WaiterOK
  <2>5. QED
    BY <2>2, <2>4
<1>18. LineIsOK(m)'
  BY <1>12, <1>13, <1>17 DEF LineIsOK, list
<1>19. LentToHolder(m)' /\ HasLender(m)'
  BY <1>13 DEF LentToHolder, HasLender
<1>20. IsOffered(m)'
  <2>1. SUFFICES ASSUME Line(m)' # {}
                 PROVE  \E w \in Ready(k') \ Line(m)' :
                          /\ w \in Task /\ Comes(w, m)' /\ Abreast(k', w)
                          /\ \A b \in Line(m)' : k'.priority[b] <= k'.priority[w]
    BY DEF IsOffered
  <2>2. k.events[list] # << >>
    <3>1. Line(m) # {}
      BY <1>12, <2>1
    <3>2. Elements(<< >>) = {}
      BY DEF Elements
    <3>3. QED
      BY <3>1, <3>2 DEF Line, list
  <2>0. PICK w : w = Head(k.events[list])
    OBVIOUS
  <2>3. /\ w \in Line(m) /\ w \in Task
        /\ \A b \in Line(m) : g.priority[b] <= g.priority[w]
    <3>1. g.priority \in [Task -> Int] /\ Fair(g, NoTask)
      BY <1>5, <1>8, PrioritiesAssumption DEF KernelOK, Good, Sound, Shape, Priority, Priced
    <3>2. QED
      BY <1>3, <1>10, <2>0, <2>2, <3>1, HeadOutranks DEF Line, list
  <2>4. /\ Elements(k'.events[list]) = Elements(k.events[list]) \ {w}
        /\ w \in Ready(k') /\ Abreast(k', w)
    <3>1. /\ k' = YieldIf(xTaskRemoveFromEventList(g, list), Outranks(g, w))
          /\ g.events[list] # << >> /\ w = Head(g.events[list])
      BY <1>4, <1>6, <1>7, <2>0, <2>2
    <3>2. Elements(k'.events[list]) = Elements(g.events[list]) \ {w}
          /\ w \in Ready(k') /\ Abreast(k', w)
      BY ONLY <1>1, <1>8, <1>9, <3>1, OfferedIs
    <3>3. QED
      BY <1>4, <3>2
  <2>5. Comes(w, m)
    <3>1. Wants(w, m) /\ Sleeping(call[w], pc[w])
      BY <1>2, <2>3 DEF LineIsOK, SleeperOK
    <3>2. QED
      BY <1>16, <2>3, <3>1 DEF Comes, Sleeping, Leaving, Suspending
  <2>6. Comes(w, m)' /\ w \notin Line(m)'
    <3>1. Comes(w, m)'
      BY <2>5 DEF Comes, Wants
    <3>2. Line(m)' = Elements(k'.events[list])
      BY DEF Line, list
    <3>3. QED
      BY <2>4, <3>1, <3>2
  <2>7. \A b \in Line(m)' : k'.priority[b] <= k'.priority[w]
    BY <1>12, <2>3 DEF SamePrices
  <2>8. QED
    BY <2>3, <2>4, <2>6, <2>7
<1>21. QED
  BY <1>14, <1>15, <1>18, <1>19, <1>20 DEF HeldInv

LEMMA GiveHeld ==
    ASSUME FifoInv, LockInv, QueuesMove, FifoInv', NEW m \in Queue_t, HeldInv(m),
           NEW t \in Task, Give(t)
    PROVE  HeldInv(m)'
<1>1. At(t, "run") /\ UNCHANGED <<pc, call>>
  BY DEF Give
<1>2. PICK c \in calls : /\ c[1] = "give" /\ (IsMutex(s, c[2]) => q[c[2]].holder = t)
                         /\ Becomes(Send(s, c[2], NoItem, "back"))
  BY DEF Give
<1> DEFINE x == c[2]
<1>3. x \in Queue_t /\ OneMutexIs(m)
  BY <1>2 DEF FifoInv, IsApplication, Allowed, HeldInv
<1>4. ServiceOK(s) /\ s.k = k /\ s.q = q /\ Unlocked(s) \subseteq Queue_t
      /\ \A y \in Queue_t : q[y].tx = queueUNLOCKED
  BY <1>1, KernelFine, OwnIs DEF Unlocked, Suspending
<1>5. CASE x = m
  <2>1. q[m].holder = t
    BY <1>2, <1>3, <1>5, OtherQueue
  <2>2. Whole(q[m]) /\ t # NoTask /\ q[m].type # "recursive"
    BY <1>2, <1>5, NoTaskAssumption DEF FifoInv, IsApplication, Allowed, HeldInv, MutexIsWhole
  <2>3. q[m].depth \in Nat
    BY <2>2 DEF Whole
  <2>4. Becomes(Send(s, m, NoItem, "back"))
    BY <1>2, <1>5
  <2>5. QED
    BY <1>1, <1>4, <2>1, <2>2, <2>3, <2>4, GaveHeld
<1>6. CASE x # m
  <2> DEFINE w == Send(s, x, NoItem, "back")
  <2>1. x \in Queue_t \ {m} /\ ~IsMutex(s, x) /\ s.q[x].set = NoQueue
    BY <1>3, <1>6, OtherQueue
  <2> HIDE DEF x
  <2>2. Spares(w, s, m)
    BY <1>4, <2>1, SendSpares
  <2>3. Served(w)
    BY <1>3, <1>4, SendServes, ServedIs
  <2> HIDE DEF w
  <2>4. Becomes(w)
    BY <1>2 DEF w, x
  <2>5. QED
    BY <1>1, <2>2, <2>3, <2>4, OwnHeld DEF At
<1>7. QED
  BY <1>5, <1>6

LEMMA GiveAgainHeld ==
    ASSUME FifoInv, LockInv, QueuesMove, FifoInv', NEW m \in Queue_t, HeldInv(m),
           NEW t \in Task, GiveMutexRecursive(t)
    PROVE  HeldInv(m)'
<1>1. At(t, "run") /\ UNCHANGED <<pc, call>>
  BY DEF GiveMutexRecursive
<1>2. PICK c \in calls :
        LET less == [s EXCEPT !.q[c[2]].depth = @ - 1]
        IN  /\ c[1] = "give_recursive"
            /\ q[c[2]].holder = t
            /\ Becomes(IF less.q[c[2]].depth > 0 THEN less
                       ELSE Send(less, c[2], NoItem, "back"))
  BY DEF GiveMutexRecursive
<1>3. c[2] = m /\ q[m].type = "recursive" /\ q[m].holder = t /\ t # NoTask /\ OneMutexIs(m)
  BY <1>2, RecursiveIs, NoTaskAssumption DEF HeldInv
<1>4. Whole(q[m]) /\ ServiceOK(s) /\ s.k = k /\ s.q = q
  BY KernelFine DEF HeldInv, MutexIsWhole
<1>5. q[m].depth \in Nat \ {0} /\ q[m].count = 0
  BY <1>3, <1>4 DEF Whole
<1> DEFINE less == [s EXCEPT !.q[m].depth = s.q[m].depth - 1]
<1>6. Becomes(IF less.q[m].depth > 0 THEN less ELSE Send(less, m, NoItem, "back"))
  BY <1>2, <1>3
<1>7. ServiceOK(less)
  <2>1. \A d : Serves([s EXCEPT !.q[m].depth = d], s, {})
    BY <1>4, DepthServes
  <2>2. QED
    BY <2>1 DEF Serves
<1>8. /\ less.k = k /\ less.q[m].depth = q[m].depth - 1
      /\ \A y \in Queue_t : less.q[y].set = q[y].set /\ less.q[y].holder = q[y].holder
                            /\ less.q[y].count = q[y].count /\ less.q[y].type = q[y].type
  BY <1>4 DEF ServiceOK, LockOK, QueueFields
<1> HIDE DEF less
<1>9. CASE less.q[m].depth > 0
  <2>1. k' = k /\ q' = less.q
    BY <1>6, <1>8, <1>9 DEF Becomes
  <2>2. Whole(q'[m])
    BY <1>3, <1>5, <1>8, <1>9, <2>1 DEF Whole
  <2>3. QED
    BY <1>1, <1>8, <2>1, <2>2, DepthHeld
<1>10. CASE ~(less.q[m].depth > 0)
  <2>1. less.q[m].depth = 0
    BY <1>5, <1>8, <1>10
  <2>2. Becomes(Send(less, m, NoItem, "back"))
    BY <1>6, <1>10
  <2>3. QED
    BY <1>1, <1>3, <1>7, <1>8, <2>1, <2>2, GaveHeld
<1>11. QED
  BY <1>9, <1>10

-----------------------------------------------------------------------------
(* Giving up on the mutex *)

LEMMA GreaterOf ==
    ASSUME NEW a \in Priority, NEW b \in Priority, NEW p, p = Max({a, b})
    PROVE  p \in {a, b} /\ p \in Priority /\ a <= p /\ b <= p /\ Priority \subseteq Int
<1>1. {a, b} \subseteq 0 .. MaxPriorities - 1 /\ MaxPriorities - 1 \in Nat /\ Priority \subseteq Int
  BY PrioritiesAssumption DEF Priority
<1>2. p \in {a, b} /\ \A i \in {a, b} : p >= i
  BY <1>1, MaxIs
<1>3. a \in Int /\ b \in Int /\ p \in Int
  BY <1>1, <1>2
<1>4. QED
  BY <1>1, <1>2, <1>3

WaitsAt(n, h, m) ==
    /\ n \in Priority /\ n <= k.priority[h]
    /\ Line(m) = {} => n = 0
    /\ Line(m) # {} => (\E v \in Line(m) : k.base[v] = n)
    /\ \A u \in Line(m) : k.base[u] <= n

\* prvGetDisinheritPriorityAfterTimeout is the highest priority that sleeps, and the
\* holder does not run below it.
LEMMA SleepersWait ==
    ASSUME LockInv, NEW m \in Queue_t, HeldInv(m), NEW h, h = q[m].holder, h # NoTask,
           NEW n, n = prvGetDisinheritPriorityAfterTimeout(s, m)
    PROVE  WaitsAt(n, h, m)
<1> DEFINE list == k.events[ToReceive(m)]
<1>1. /\ IsList(list, Task) /\ Line(m) \subseteq Task /\ h \notin Line(m) /\ LineIsOK(m)
      /\ KernelOK(k) /\ Line(m) = Elements(list) /\ n \in Priority /\ LentToHolder(m)
  BY LineIs, HolderAwake, KernelFine, WaitingPriority DEF HeldInv, Line
<1>2. /\ k.priority \in [Task -> Priority] /\ k.base \in [Task -> Priority] /\ Priority \subseteq Nat
      /\ h \in Task
  <2>1. k.priority \in [Task -> Priority] /\ k.base \in [Task -> Priority]
    BY <1>1 DEF KernelOK, Good, Sound, Shape
  <2>2. h \in Task
    BY KernelFine DEF ServiceOK, LockOK
  <2>3. QED
    BY <2>1, <2>2, PrioritiesAssumption DEF Priority
<1>3. n = IF list = << >> THEN 0 ELSE MaxPriorities - k.event[Head(list)]
  BY DEF prvGetDisinheritPriorityAfterTimeout, s
<1>4. Sorted(list, k.event) /\ Fair(k, h)
  BY <1>1 DEF LineIsOK, Priced
<1> HIDE DEF list
<1>5. CASE list = << >>
  <2>1. Line(m) = {} /\ n = 0
    BY <1>1, <1>3, <1>5 DEF Elements
  <2>2. QED
    <3>1. k.priority[h] \in Nat /\ n = 0
      BY <1>2, <2>1
    <3>2. n <= k.priority[h]
      BY <3>1
    <3>3. n \in Priority
      BY <1>1
    <3>4. QED
      BY <2>1, <3>2, <3>3 DEF WaitsAt
<1>6. CASE list # << >>
  <2>0. k.priority \in [Task -> Int]
    <3>1. Priority \subseteq Int
      BY <1>2
    <3>2. QED
      BY <1>2, <3>1
  <2>1. PICK v : /\ v = Head(list) /\ v \in Line(m) /\ v \in Task
                 /\ \A u \in Line(m) : k.priority[u] <= k.priority[v]
    BY <1>1, <1>4, <1>6, <2>0, HeadOutranks
  <2>2. \A u \in Line(m) : k.base[u] = k.priority[u]
    BY <1>1, <1>4 DEF Fair
  <2>3. n = k.priority[v]
    <3>1. k.event[v] = MaxPriorities - k.priority[v] /\ k.priority[v] \in Int /\ MaxPriorities \in Int
      BY <1>4, <2>0, <2>1, PrioritiesAssumption DEF Fair
    <3>2. n = MaxPriorities - k.event[v]
      BY <1>3, <1>6, <2>1
    <3>3. QED
      BY <3>1, <3>2
  <2>4. k.base[v] <= k.priority[h]
    BY <1>1, <2>1 DEF LentToHolder
  <2>5. QED
    BY <1>1, <2>1, <2>2, <2>3, <2>4 DEF WaitsAt
<1>7. QED
  BY <1>5, <1>6

\* The holder falls from a ready list that another task is in, one which lends it the
\* priority: its bit is not cleared, and is to stay.
LEMMA LenderReady ==
    ASSUME LockInv, NEW m \in Queue_t, HeldInv(m), NEW h, h = q[m].holder, h # NoTask,
           NEW n, n = prvGetDisinheritPriorityAfterTimeout(s, m), k.suspensions = 0
    PROVE  k.priority[h] = Max({k.base[h], n}) \/ ReadyAt(k, k.priority[h]) # {h}
<1> DEFINE p == Max({k.base[h], n})
<1>1. /\ n \in Priority /\ n <= k.priority[h] /\ \A u \in Line(m) : k.base[u] <= n
  <2>1. WaitsAt(n, h, m)
    BY SleepersWait
  <2>2. QED
    BY <2>1 DEF WaitsAt
<1>2. /\ k.priority \in [Task -> Priority] /\ k.base \in [Task -> Priority]
      /\ h \in Task /\ Good(k) /\ LineIsOK(m)
  <2>1. KernelOK(k) /\ ServiceOK(s) /\ s.q = q
    BY KernelFine
  <2>0. Good(k)
    BY <2>1 DEF KernelOK
  <2>2. k.priority \in [Task -> Priority] /\ k.base \in [Task -> Priority]
    BY <2>1 DEF KernelOK, Good, Sound, Shape
  <2>3. h \in Task
    BY <2>1 DEF ServiceOK, LockOK
  <2>4. QED
    BY <2>0, <2>2, <2>3 DEF HeldInv
<1>3. Priced(k, h) /\ k.base[h] <= k.priority[h] /\ k.base[h] \in Priority /\ k.priority[h] \in Priority
  <2>1. Priced(k, h) /\ k.base[h] \in Priority /\ k.priority[h] \in Priority
    BY <1>2 DEF LineIsOK
  <2>2. Fair(k, h)
    BY <2>1 DEF Priced
  <2>3. k.base[h] <= k.priority[h]
    BY <1>2, <2>2 DEF Fair
  <2>4. QED
    BY <2>1, <2>3
<1>4. p \in {k.base[h], n} /\ k.base[h] <= p /\ n <= p /\ Priority \subseteq Int
  <2>1. p = Max({k.base[h], n})
    OBVIOUS
  <2> HIDE DEF p
  <2>2. QED
    BY <1>1, <1>3, <2>1, GreaterOf
<1>5. k.base[h] \in Int /\ k.priority[h] \in Int /\ n \in Int /\ p \in Int
  BY <1>1, <1>3, <1>4
<1> HIDE DEF p
<1>6. CASE k.priority[h] = k.base[h]
  BY <1>1, <1>4, <1>5, <1>6 DEF p
<1>7. CASE k.priority[h] # k.base[h]
  <2>1. k.priority[h] > k.base[h]
    BY <1>3, <1>5, <1>7
  <2>2. PICK u \in Task : Lends(u, m) /\ k.base[u] = k.priority[h]
    BY <2>1 DEF HeldInv, HasLender
  <2>3. u # h /\ u \in Line(m) \cup Up(k) /\ k.priority[u] = k.priority[h]
    BY <1>2, <1>3, <2>2 DEF Lends, LineIsOK, WaiterOK, Priced, Fair
  <2>4. CASE u \in Line(m)
    BY <1>1, <1>3, <1>4, <1>5, <2>2, <2>4 DEF p
  <2>5. CASE u \notin Line(m)
    <3>1. u \in Ready(k)
      BY <1>2, <2>3, <2>5 DEF Up, LineIsOK, NonePended
    <3>2. u \in ReadyAt(k, k.priority[h])
      <4>1. PICK r \in Priority : u \in ReadyAt(k, r)
        BY <3>1 DEF Ready
      <4>2. k.priority[u] = r
        BY <1>2, <4>1, ReadyTasks
      <4>3. QED
        BY <2>3, <4>1, <4>2
    <3>3. QED
      BY <2>3, <3>2
  <2>6. QED
    BY <2>4, <2>5
<1>8. QED
  BY <1>6, <1>7

\* Nobody holds what the task has given up on, or it is no mutex.
LEMMA DisinheritAlone ==
    ASSUME FifoInv, LockInv, QueuesMove, FifoInv', NEW m \in Queue_t, HeldInv(m),
           NEW t \in Task, At(t, "disinherit"), Returns(t), UNCHANGED <<k, q>>,
           Wants(t, m) => q[m].holder = NoTask
    PROVE  HeldInv(m)'
<1>1. k.current = t /\ t \in Ready(k) /\ pc[t] = "disinherit" /\ pc'[t] = "run"
  BY OwnIs, GoesIs DEF Suspending, Returns, At
<1>2. ASSUME Wants(t, m) PROVE StillWaits(t, m)
  <2>1. t \notin Line(m) /\ t \in Up(k) /\ t # q[m].holder /\ LineIsOK(m)
    BY <1>1, <1>2, RunnerIs DEF HeldInv, LineIsOK, WaiterOK
  <2>2. ~Wants(t, m)' /\ ~Comes(t, m) /\ q[m].holder = NoTask
    BY <1>1, <1>2 DEF Wants, Comes
  <2>3. LineStays(m) /\ q'[m].holder = q[m].holder
    BY StayingSelf, StayingLine
  <2>4. QED
    BY <2>1, <2>2, <2>3, WaiterGoesOn
<1>3. Becomes(s) /\ Spares(s, s, m) /\ s.k.current = t
  BY <1>1, SparesSelf DEF Becomes, s
<1>4. Goes(t, "run") /\ call' = [call EXCEPT ![t] = NoCall]
  BY DEF Returns
<1>5. QED
  BY <1>2, <1>3, <1>4, WaitAside

\* The holder falls to the highest priority that still waits for it.
LEMMA DisinheritMutex ==
    ASSUME FifoInv, LockInv, QueuesMove, FifoInv', NEW m \in Queue_t, HeldInv(m),
           NEW t \in Task, DisinheritAfterTimeout(t), Wants(t, m), NEW h, h = q[m].holder,
           h # NoTask
    PROVE  HeldInv(m)' /\ (k' = k \/ ReadyAt(k, k.priority[h]) # {h})
<1>1. PICK n : n = prvGetDisinheritPriorityAfterTimeout(s, m)
  OBVIOUS
<1>2. /\ At(t, "disinherit") /\ Returns(t) /\ UNCHANGED q /\ call[t].x = m
      /\ k' = vTaskPriorityDisinheritAfterTimeout(k, h, n)
  BY <1>1 DEF DisinheritAfterTimeout, Wants
<1>3. k.current = t /\ t \in Ready(k) /\ pc[t] = "disinherit" /\ k.suspensions = 0
  BY <1>2, OwnIs DEF Suspending, At
<1>4. /\ OneMutexIs(m) /\ MutexIsWhole(m) /\ LineIsOK(m) /\ LentToHolder(m)
      /\ Priced(k, h) /\ KernelOK(k) /\ ServiceOK(s) /\ s.q = q
  BY KernelFine DEF HeldInv, LineIsOK
<1>5. h \in Task /\ t # h /\ t \notin Line(m) /\ h \notin Line(m) /\ Line(m) \subseteq Task
  <2>1. h \in Task
    BY <1>4 DEF ServiceOK, LockOK
  <2>2. t # h
    BY <1>4 DEF LineIsOK, WaiterOK
  <2>3. QED
    BY <1>3, <1>4, <2>1, <2>2, LineIs, RunnerIs, HolderAwake
<1>6. WaitsAt(n, h, m) /\ n \in Priority
  BY <1>1, SleepersWait DEF WaitsAt
<1>7. k.priority[h] = Max({k.base[h], n}) \/ ReadyAt(k, k.priority[h]) # {h}
  BY <1>1, <1>3, LenderReady
<1>8. k.priority[h] = Max({k.base[h], n}) => k' = k
  BY <1>2 DEF vTaskPriorityDisinheritAfterTimeout
<1>9. Priced(k', h) /\ Beside(k', k, h) /\ k'.priority[h] = Max({k.base[h], n})
  BY <1>2, <1>4, <1>5, <1>6, <1>7, GaveUpIs
<1>10. Wakes(k', k)
  BY <1>2, <1>4, <1>5, <1>6, <1>7, <1>8, GaveUpWakes
<1>11. PICK p : p = k'.priority[h]
  OBVIOUS
<1>12. /\ k.base \in [Task -> Priority] /\ Priority \subseteq Int
       /\ p \in {k.base[h], n} /\ p \in Priority /\ k.base[h] <= p /\ n <= p
  <2>1. k.base \in [Task -> Priority]
    BY <1>4 DEF KernelOK
  <2>2. k.base[h] \in Priority /\ p = Max({k.base[h], n})
    BY <1>5, <1>9, <1>11, <2>1
  <2>3. PICK b : b = k.base[h]
    OBVIOUS
  <2>4. b \in Priority /\ n \in Priority /\ p = Max({b, n})
    BY <1>6, <2>2, <2>3
  <2>5. p \in {b, n} /\ p \in Priority /\ b <= p /\ n <= p /\ Priority \subseteq Int
    BY ONLY <2>4, GreaterOf
  <2>6. QED
    BY <2>1, <2>3, <2>5
<1>13. /\ k'.base = k.base /\ k'.events = k.events /\ k'.pending = k.pending
       /\ Ready(k') = Ready(k) /\ k'.suspensions = k.suspensions
       /\ Line(m)' = Line(m) /\ Up(k') = Up(k)
  BY <1>9, <1>10 DEF Beside, Wakes, Line, Up
<1>14. /\ pc'[t] = "run" /\ \A u \in Task \ {t} : pc'[u] = pc[u] /\ call'[u] = call[u]
  BY <1>2, GoesIs DEF Returns, FifoInv, CallsOK
<1>15. q'[m].holder = h /\ OneMutexIs(m)' /\ MutexIsWhole(m)'
  <2>1. q' = q
    BY <1>2
  <2>2. OneMutexIs(m)'
    BY <1>4, <2>1, OneMutexStays
  <2>3. QED
    BY <1>4, <2>1, <2>2 DEF MutexIsWhole
<1>16. LineIsOK(m)'
  <2>1. Sorted(k'.events[ToReceive(m)], k'.event)
    <3>1. /\ Sorted(k.events[ToReceive(m)], k.event)
          /\ Elements(k.events[ToReceive(m)]) \subseteq Task \ {h}
      BY <1>4, <1>5 DEF LineIsOK, Line
    <3>2. QED
      BY <1>9, <1>13, <3>1, SortedBeside
  <2>2. NonePended(k')
    BY <1>4, <1>13 DEF LineIsOK, NonePended
  <2>3. ASSUME NEW u \in Task PROVE SleeperOK(u, m)' /\ WaiterOK(u, m)'
    <3>1. SleeperOK(u, m) /\ WaiterOK(u, m)
      BY <1>4 DEF LineIsOK
    <3>2. CASE u = t
      BY <1>5, <1>13, <1>14, <3>2 DEF SleeperOK, WaiterOK, Wants
    <3>3. CASE u # t
      <4>1. (Wants(u, m)' <=> Wants(u, m)) /\ pc'[u] = pc[u] /\ call'[u] = call[u]
        BY <1>14, <3>3 DEF Wants
      <4>2. q'[m].holder = q[m].holder /\ q'[m].type = q[m].type
        BY <1>2
      <4>3. QED
        BY <1>13, <3>1, <4>1, <4>2 DEF SleeperOK, WaiterOK
    <3>4. QED
      BY <3>2, <3>3
  <2>4. QED
    BY <1>9, <1>15, <2>1, <2>2, <2>3 DEF LineIsOK
<1>17. LentToHolder(m)'
  <2>1. SUFFICES ASSUME NEW u \in Line(m)
                 PROVE  k.base[u] <= p /\ (k.base[u] > k.base[h] => call'[u].inherited)
    BY <1>11, <1>13, <1>15 DEF LentToHolder
  <2>2. u \in Task /\ u # t
    BY <1>5, <2>1
  <2>3. k.base[u] <= n
    BY <1>6, <2>1 DEF WaitsAt
  <2>4. k.base[u] \in Int /\ n \in Int /\ p \in Int
    BY <1>6, <1>12, <2>2
  <2>5. k.base[u] > k.base[h] => call[u].inherited
    BY <1>4, <2>1 DEF LentToHolder
  <2>6. QED
    BY <1>12, <1>14, <2>2, <2>3, <2>4, <2>5
<1>18. HasLender(m)'
  <2>1. SUFFICES ASSUME p > k.base[h]
                 PROVE  \E u \in Task : Lends(u, m)' /\ k.base[u] = p
    BY <1>11, <1>13, <1>15 DEF HasLender
  <2>2. p \in Int /\ k.base[h] \in Int /\ k.base[h] >= 0
    BY <1>5, <1>12, PrioritiesAssumption DEF Priority
  <2>3. p = n /\ n # 0
    BY <1>12, <2>1, <2>2
  <2>4. PICK v \in Line(m) : k.base[v] = n
    BY <1>6, <2>3 DEF WaitsAt
  <2>5. v \in Task /\ v # t /\ Wants(v, m) /\ Sleeping(call[v], pc[v])
    BY <1>4, <1>5, <2>4 DEF LineIsOK, SleeperOK
  <2>6. call[v].inherited
    BY <1>4, <2>1, <2>3, <2>4 DEF LentToHolder
  <2>7. Lends(v, m)'
    BY <1>14, <2>5, <2>6 DEF Lends, Wants, Sleeping
  <2>8. QED
    BY <2>3, <2>4, <2>5, <2>7
<1>19. IsOffered(m)'
  BY <1>15 DEF IsOffered
<1>20. QED
  BY <1>7, <1>8, <1>15, <1>16, <1>17, <1>18, <1>19 DEF HeldInv

\* The bit of a ready list is not left behind: the holder falls from a list that it is
\* not alone in, or does not fall.
LEMMA DisinheritHeld ==
    ASSUME FifoInv, LockInv, QueuesMove, FifoInv', NEW m \in Queue_t, HeldInv(m),
           NEW t \in Task, DisinheritAfterTimeout(t)
    PROVE  HeldInv(m)' /\ ~LeavesBit
<1>1. /\ At(t, "disinherit") /\ Returns(t) /\ UNCHANGED q
      /\ k' = vTaskPriorityDisinheritAfterTimeout(
                k, q[call[t].x].holder, prvGetDisinheritPriorityAfterTimeout(s, call[t].x))
  BY DEF DisinheritAfterTimeout
<1>2. k.current = t /\ pc[t] = "disinherit" /\ call[t].x \in Queue_t /\ CallOK(call[t], q, calls)
  BY <1>1, InCallIsOK DEF At
<1>3. k' = k \/ ReadyAt(k, k.priority[q[call[t].x].holder]) # {q[call[t].x].holder}
        => ~LeavesBit
  <2>1. \A u \in Task : DisinheritAfterTimeout(u) => u = t
    BY <1>2 DEF DisinheritAfterTimeout, At
  <2>2. QED
    BY <2>1 DEF LeavesBit
<1>4. CASE call[t].x = m /\ q[m].holder # NoTask
  <2>1. Wants(t, m)
    BY <1>2, <1>4, TakesIs DEF HeldInv, Wants
  <2>2. QED
    BY <1>3, <1>4, <2>1, DisinheritMutex
<1>5. CASE ~(call[t].x = m /\ q[m].holder # NoTask)
  <2>1. q[call[t].x].holder = NoTask
    BY <1>2, <1>5 DEF HeldInv, MutexIsWhole
  <2>2. k' = k
    BY <1>1, <2>1 DEF vTaskPriorityDisinheritAfterTimeout
  <2>3. Wants(t, m) => q[m].holder = NoTask
    BY <2>1 DEF Wants
  <2>4. QED
    BY <1>1, <1>3, <2>2, <2>3, DisinheritAlone
<1>6. QED
  BY <1>4, <1>5

-----------------------------------------------------------------------------
(* Every step, with one mutex *)

\* The application has one mutex, no queue sets, and changes no task's priority.
OneMutex == \E m \in Queue_t : OneMutexIs(m)

MutexKept == \E m \in Queue_t : HeldInv(m)

LEMMA HeldInit ==
    ASSUME Init, NEW m \in Queue_t, OneMutexIs(m)
    PROVE  HeldInv(m)
<1>1. PICK scene \in Scenes :
        /\ k = BootedKernel(scene.tasks, Idle) /\ q = scene.queues
        /\ pc = [t \in Task |-> "run"]
  BY DEF Init
<1>2. Unlent(k) /\ k.base = k.priority /\ NoEvents(k) /\ Elements(k.pending) = {} /\ KernelOK(k)
  BY <1>1, BootedIs, ScenesAssumption DEF ScenesAssumption
<1>3. ASSUME NEW y \in Queue_t
      PROVE  /\ q[y].holder = NoTask /\ q[y].depth = 0
             /\ q[y].type \in {"mutex", "recursive"} => q[y].count = 1
  <2> DEFINE f == [x \in Queue_t |->
                     [NewQueue(q[x].type, q[x].length) EXCEPT !.set = q[x].set]]
  <2>1. q = f
    BY <1>1, ScenesAssumption DEF ScenesAssumption
  <2>2. f[y] = [NewQueue(q[y].type, q[y].length) EXCEPT !.set = q[y].set]
    OBVIOUS
  <2> HIDE DEF f
  <2>3. q[y] = [NewQueue(q[y].type, q[y].length) EXCEPT !.set = q[y].set]
    BY <2>1, <2>2
  <2>4. QED
    BY <2>3 DEF NewQueue
<1>4. q[m].depth = 0 /\ q[m].count = 1
  BY <1>3 DEF OneMutexIs, Mutexes
<1>5. MutexIsWhole(m)
  BY <1>3, <1>4 DEF MutexIsWhole, Whole
<1>6. Line(m) = {} /\ Sorted(k.events[ToReceive(m)], k.event)
  <2>1. Elements(k.events[ToReceive(m)]) = {}
    BY <1>2, EventListsAssumption DEF NoEvents
  <2>2. IsList(k.events[ToReceive(m)], Task)
    BY <1>2, EventListsAssumption DEF KernelOK, Good, Sound, Shape
  <2>3. DOMAIN k.events[ToReceive(m)] = {}
    BY <2>1 DEF Elements
  <2>4. QED
    BY <2>1, <2>2, <2>3 DEF Line, Sorted, IsList
<1>7. Priced(k, NoTask)
  <2>1. k.priority \in [Task -> Priority] /\ Priority \subseteq Int
    BY <1>2, PrioritiesNumbers DEF KernelOK, Good, Sound, Shape
  <2>2. Counted(k, NoTask)
    BY <1>2, NoTaskAssumption DEF Unlent, Counted
  <2>3. \A t \in Task : ~k.bits[t].used /\ k.event[t] = MaxPriorities - k.priority[t]
    BY <1>2 DEF Unlent, NoBits
  <2>4. \A t \in Task : k.base[t] <= k.priority[t] /\ k.priority[t] = k.base[t]
    <3>1. ASSUME NEW t \in Task PROVE k.base[t] <= k.priority[t]
      <4>1. k.priority[t] \in Int /\ k.base[t] = k.priority[t]
        BY <1>2, <2>1
      <4>2. QED
        BY <4>1
    <3>2. QED
      BY <1>2, <3>1
  <2>5. QED
    BY <2>2, <2>3, <2>4 DEF Priced, Fair
<1>8. LineIsOK(m)
  BY <1>1, <1>2, <1>3, <1>6, <1>7 DEF LineIsOK, NonePended, SleeperOK, WaiterOK, Wants
<1>9. LentToHolder(m) /\ HasLender(m) /\ IsOffered(m)
  BY <1>3, <1>6 DEF LentToHolder, HasLender, IsOffered
<1>10. QED
  BY <1>5, <1>8, <1>9 DEF HeldInv

LEMMA StepHeld ==
    ASSUME FifoInv, LockInv, [Next]_vars, NEW m \in Queue_t, HeldInv(m)
    PROVE  HeldInv(m)' /\ ~LeavesBit
<1>1. QueuesMove /\ FifoInv'
  BY StepMoves
<1>2. CASE \E t \in Task : DisinheritAfterTimeout(t)
  BY <1>1, <1>2, DisinheritHeld
<1>3. CASE \A t \in Task : ~DisinheritAfterTimeout(t)
  <2>0. ~LeavesBit
    BY <1>3 DEF LeavesBit
  <2>1. CASE Interrupt
    BY <1>1, <2>0, <2>1, QueueInterruptHeld, TickHeld, PendSVHeld DEF Interrupt
  <2>2. CASE UNCHANGED vars \/ \E t \in Task : OwnCode(t)
    BY <1>1, <2>0, <2>2, IdleHeld DEF OwnCode
  <2>3. ASSUME NEW t \in Task \ {Idle}, TaskStep(t)
        PROVE  HeldInv(m)'
    <3>1. CASE Call(t) \/ Attempt(t)
      BY <1>1, <3>1, CallHeld
    <3>2. CASE SuspendAll(t) \/ LockQueue(t)
      BY <1>1, <3>2, SuspendHeld, LockHeld
    <3>3. CASE Check(t) \/ Place(t)
      BY <1>1, <3>3, CheckHeld, PlaceHeld
    <3>4. CASE UnlockQueueTx(t) \/ UnlockQueueRx(t)
      BY <1>1, <3>4, UnlockHeld
    <3>5. CASE ResumeAll(t) \/ Recheck(t)
      BY <1>1, <3>5, ResumeHeld, RecheckHeld
    <3>6. CASE Give(t) \/ TakeAgain(t) \/ GiveMutexRecursive(t)
      BY <1>1, <3>6, GiveHeld, AgainHeld, GiveAgainHeld
    <3>7. CASE Reset(t) \/ AddToSet(t) \/ RemoveFromSet(t) \/ Removed(t) \/ PrioritySet(t)
      BY <1>1, <3>7, ResetHeld, SetHeld
    <3>8. CASE Delay(t)
      BY <1>1, <3>8, DelayHeld
    <3>9. QED
      BY <1>3, <2>3, <3>1, <3>2, <3>3, <3>4, <3>5, <3>6, <3>7, <3>8 DEF TaskStep
  <2>4. QED
    BY <2>0, <2>1, <2>2, <2>3 DEF Next
<1>4. QED
  BY <1>2, <1>3

LEMMA StepKept ==
    ASSUME FifoInv, LockInv, MutexKept, [Next]_vars
    PROVE  (FifoInv /\ LockInv /\ MutexKept)' /\ ~LeavesBit
<1>1. PICK m \in Queue_t : HeldInv(m)
  BY DEF MutexKept
<1>2. HeldInv(m)' /\ ~LeavesBit
  BY <1>1, StepHeld
<1>3. FifoInv' /\ LockInv'
  BY <1>2, StepMoves, StepLocks
<1>4. QED
  BY <1>2, <1>3 DEF MutexKept

\* With one mutex that tasks give up waiting for, no bit is left behind: where its
\* holder falls from a priority, a task that waits still lends it.
THEOREM OneMutexKeepsBits == Spec /\ OneMutex => BitsKept
<1>1. Init /\ OneMutex => FifoInv /\ LockInv /\ MutexKept
  BY LockInit, HeldInit DEF OneMutex, MutexKept
<1>2. FifoInv /\ LockInv /\ MutexKept /\ [Next]_vars =>
        (FifoInv /\ LockInv /\ MutexKept)' /\ [~LeavesBit]_vars
  BY StepKept
<1>3. QED
  BY <1>1, <1>2, PTL DEF Spec, BitsKept

LEMMA HeldInherits ==
    ASSUME LockInv, MutexKept
    PROVE  HolderInherits
<1>1. PICK m \in Queue_t : HeldInv(m)
  BY DEF MutexKept
<1>2. /\ OneMutexIs(m) /\ MutexIsWhole(m) /\ Priced(k, q[m].holder) /\ LentToHolder(m)
      /\ Line(m) \subseteq Task
  BY <1>1, LineIs DEF HeldInv, LineIsOK
<1>3. ASSUME NEW x \in Queue_t, IsMutex(s, x)
      PROVE  /\ q[x].holder = NoTask <=> q[x].count = 1
             /\ q[x].type = "recursive" => (q[x].depth > 0 <=> q[x].holder # NoTask)
             /\ \A t \in ToSet(k.events[ToReceive(x)]) :
                  q[x].holder # NoTask => k.priority[q[x].holder] >= k.base[t]
  <2>1. x = m
    BY <1>2, <1>3 DEF OneMutexIs, IsMutex, Mutexes, s
  <2>2. ToSet(k.events[ToReceive(m)]) = Line(m)
    BY DEF ToSet, Line, Elements
  <2>3. /\ q[m].holder = NoTask <=> q[m].count = 1
        /\ q[m].type = "recursive" => (q[m].depth > 0 <=> q[m].holder # NoTask)
    BY <1>2 DEF MutexIsWhole, Whole
  <2>4. ASSUME NEW t \in Line(m), q[m].holder # NoTask
        PROVE  k.priority[q[m].holder] >= k.base[t]
    <3>1. k.base[t] <= k.priority[q[m].holder]
      BY <1>2, <2>4 DEF LentToHolder
    <3>2. QED
      BY <3>1
  <2>5. QED
    BY <2>1, <2>2, <2>3, <2>4
<1>4. ASSUME NEW t \in Task
      PROVE  k.mutexes[t] = Cardinality(Held(t)) /\ (Held(t) = {} => k.priority[t] = k.base[t])
  <2>1. t # NoTask /\ \A y \in Queue_t \ {m} : q[y].holder # t
    BY <1>2, NoTaskAssumption DEF MutexIsWhole
  <2>2. CASE t = q[m].holder
    <3>1. Held(t) = {m}
      BY <2>1, <2>2 DEF Held
    <3>2. Cardinality({m}) = 1 /\ {m} # {}
      BY FS_Singleton
    <3>3. k.mutexes[t] = 1
      BY <1>2, <2>2 DEF Priced, Counted
    <3>4. QED
      BY <3>1, <3>2, <3>3
  <2>3. CASE t # q[m].holder
    <3>1. Held(t) = {}
      BY <2>1, <2>3 DEF Held
    <3>2. Cardinality({}) = 0
      BY FS_EmptySet
    <3>3. k.mutexes[t] = 0 /\ k.priority[t] = k.base[t]
      BY <1>2, <2>3 DEF Priced, Counted, Fair
    <3>4. QED
      BY <3>1, <3>2, <3>3
  <2>4. QED
    BY <2>2, <2>3
<1>5. QED
  BY <1>3, <1>4 DEF HolderInherits

\* HolderInherits: whatever waiters come, give up or are interrupted, the holder of a
\* mutex runs at no lower priority than those that sleep, and a task that holds none
\* at its own; for any number of tasks, and any other queues beside the mutex.
THEOREM HoldersInherit == Spec /\ OneMutex => []HolderInherits
<1>1. Init /\ OneMutex => FifoInv /\ LockInv /\ MutexKept
  BY LockInit, HeldInit DEF OneMutex, MutexKept
<1>2. FifoInv /\ LockInv /\ MutexKept /\ [Next]_vars => (FifoInv /\ LockInv /\ MutexKept)'
  BY StepKept
<1>3. FifoInv /\ LockInv /\ MutexKept => HolderInherits
  BY HeldInherits
<1>4. QED
  BY <1>1, <1>2, <1>3, PTL DEF Spec

=============================================================================
