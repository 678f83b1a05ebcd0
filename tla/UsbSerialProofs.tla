--------------------------- MODULE UsbSerialProofs ---------------------------
(***************************************************************************)
(* The ring of the serial port, for every size of the ring, the endpoint   *)
(* and the messages and any number of writers: the backlog is kept, and    *)
(* the host reads the stream in order.                                     *)
(***************************************************************************)
EXTENDS UsbSerial, DataFacts, TLAPS

-----------------------------------------------------------------------------
(* Positions in the ring *)

\* The slot of the byte n places further, at most a whole ring away.
LEMMA SlotAfter ==
    ASSUME NEW x \in Int, NEW n \in 0 .. RingSize
    PROVE  (x + n) % RingSize = CptrInc(x % RingSize, n)
BY ModAfter, SerialAssumption DEF CptrInc

\* The slot of the byte n places earlier.
LEMMA SlotBefore ==
    ASSUME NEW x \in Int, NEW n \in 0 .. RingSize
    PROVE  (x - n) % RingSize =
             IF x % RingSize >= n THEN (x % RingSize) - n
             ELSE (x % RingSize) - n + RingSize
BY ModBefore, SerialAssumption

-----------------------------------------------------------------------------
(* The invariant *)

Serial == "SerialTx"

TypeOK ==
    /\ wr_pc \in [Writers -> {"idle", "take", "copy", "count", "give", "notify"}]
    /\ amount \in [Writers -> 0 .. RingSize]
    /\ tx_buf_lock \in Writers \cup {Serial, "free"}
    /\ serial_tx_buf \in [Offsets -> Nat]
    /\ serial_tx_buf_size \in Nat
    /\ serial_tx_write_ptr \in Offsets /\ serial_tx_read_ptr \in Offsets
    /\ tx_pc \in {"start", "wait", "size", "check", "take", "copy", "give", "load"}
    /\ copy_amount \in 0 .. RingSize
    /\ ep_full \in BOOLEAN
    /\ written \in Nat /\ sent \in Nat

\* Who is between the take and the give of the mutex holds it.
MutexHeld ==
    /\ \A w \in Writers : wr_pc[w] \in {"copy", "count", "give"} <=> tx_buf_lock = w
    /\ tx_pc \in {"copy", "give"} <=> tx_buf_lock = Serial

\* The size is the backlog, and what USBSerialTx is about to take is there.
SizeKept == SizeIsBacklog /\ SendsNoMore

\* The pointers are the slots of the first byte to send and the next to write.
PointersFollow ==
    /\ serial_tx_read_ptr = sent % RingSize
    /\ serial_tx_write_ptr = (written - Uncounted) % RingSize

\* The newest bytes of the stream are in their slots.
NewestInSlots ==
    \A b \in 1 .. written :
        written - b < RingSize => serial_tx_buf[(b - 1) % RingSize] = b

\* The endpoint that was seen empty is empty until it is loaded.
EndpointFree == tx_pc \in {"take", "copy", "give", "load"} => ~ep_full

IInv == TypeOK /\ MutexHeld /\ SizeKept /\ PointersFollow /\ NewestInSlots /\ EndpointFree

\* The ring is empty and nobody holds the mutex.
LEMMA InitIInv == Init => IInv
<1> SUFFICES ASSUME Init PROVE IInv
  OBVIOUS
<1> USE SerialAssumption DEF Init
<1>1. TypeOK
  <2>1. 0 \in Offsets /\ 0 \in 0 .. RingSize
    BY DEF Offsets
  <2>2. wr_pc \in [Writers -> {"idle", "take", "copy", "count", "give"}]
        /\ amount \in [Writers -> 0 .. RingSize]
    BY <2>1
  <2>3. QED
    BY <2>1, <2>2 DEF TypeOK, Serial
<1>2. MutexHeld
  BY DEF MutexHeld, Serial
<1>3. Uncounted = 0
  BY DEF Uncounted
<1>4. SizeKept
  BY <1>3 DEF SizeKept, SizeIsBacklog, SendsNoMore
<1>5. PointersFollow
  <2>1. 0 % RingSize = 0
    <3>1. RingSize \in Nat \ {0}
      OBVIOUS
    <3>2. 0 \in 0 .. RingSize - 1
      BY <3>1
    <3>3. QED
      BY <3>1, <3>2, ModSmall
  <2>2. QED
    BY <1>3, <2>1 DEF PointersFollow
<1>6. NewestInSlots
  BY DEF NewestInSlots
<1>7. EndpointFree
  BY DEF EndpointFree
<1>8. QED
  BY <1>1, <1>2, <1>4, <1>5, <1>6, <1>7 DEF IInv

\* Only a writer in its copy and USBSerialTx in its copy touch the stream.
LEMMA StreamSteps ==
    ASSUME [Next]_vars
    PROVE  \/ \E w \in Writers : WriteCopy(w)
           \/ TxCopy
           \/ UNCHANGED <<serial_tx_buf, written, sent, serial_tx_read_ptr, ep_buf>>
BY DEF Next, vars, Write, WriterStep, WriteTake, WriteTimeout, WriteCount, WriteGive,
       WriteNotify, TxStep, TxStart, TxWait, TxSize, TxCheck, TxGiveUp, TxTake, TxGive,
       TxLoad, Configure, HostRead, writerVars, ringVars, epVars, history

\* What is copied into a ring is a ring.
LEMMA CopyIsRing ==
    ASSUME NEW buf \in [Offsets -> Nat], NEW ptr \in Offsets, NEW src \in Nat,
           NEW n \in 0 .. RingSize
    PROVE  CopyInto(buf, ptr, src, n) \in [Offsets -> Nat]
<1>1. ASSUME NEW i \in Offsets
      PROVE  /\ i \in ptr .. ptr + n - 1 => src + (i - ptr) \in Nat
             /\ src + (RingSize - ptr) + i \in Nat
             /\ buf[i] \in Nat
  BY SerialAssumption DEF Offsets
<1>2. QED
  BY <1>1 DEF CopyInto

\* A pointer that is moved by at most a whole ring stays in it.
LEMMA PointerStays ==
    ASSUME NEW ptr \in Offsets, NEW n \in 0 .. RingSize
    PROVE  CptrInc(ptr, n) \in Offsets
BY SerialAssumption DEF CptrInc, Offsets

\* Every step keeps the types.
LEMMA StepType ==
    ASSUME TypeOK, SizeKept, [Next]_vars
    PROVE  TypeOK'
<1> USE SerialAssumption DEF TypeOK, writerVars, ringVars, epVars, history, Serial
<1>1. CASE \E w \in Writers, n \in MsgSizes : Write(w, n)
  BY <1>1 DEF Write
<1>2. ASSUME NEW w \in Writers, WriteTake(w) PROVE TypeOK'
  BY <1>2 DEF WriteTake
<1>3. ASSUME NEW w \in Writers, WriteTimeout(w) PROVE TypeOK'
  BY <1>3 DEF WriteTimeout
<1>4. ASSUME NEW w \in Writers, WriteCopy(w) PROVE TypeOK'
  <2>1. amount[w] \in 0 .. RingSize /\ written' = written + amount[w] /\ written + 1 \in Nat
    BY <1>4 DEF WriteCopy
  <2>2. serial_tx_buf' \in [Offsets -> Nat]
    BY <1>4, <2>1, CopyIsRing DEF WriteCopy
  <2>3. wr_pc' \in [Writers -> {"idle", "take", "copy", "count", "give", "notify"}]
    BY <1>4 DEF WriteCopy
  <2>4. written' \in Nat
    BY <2>1
  <2>5. QED
    BY <1>4, <2>2, <2>3, <2>4 DEF WriteCopy
<1>5. ASSUME NEW w \in Writers, WriteCount(w) PROVE TypeOK'
  BY <1>5, PointerStays DEF WriteCount
<1>6. ASSUME NEW w \in Writers, WriteGive(w) PROVE TypeOK'
  BY <1>6 DEF WriteGive
<1>7. ASSUME NEW w \in Writers, WriteNotify(w) PROVE TypeOK'
  BY <1>7 DEF WriteNotify
<1>8. CASE TxStart
  BY <1>8 DEF TxStart
<1>9. CASE TxWait
  BY <1>9 DEF TxWait
<1>10. CASE TxSize
  BY <1>10 DEF TxSize
<1>11. CASE TxCheck
  <2>1. /\ tx_pc' = "take" /\ tx_buf_lock' = tx_buf_lock /\ copy_amount' = copy_amount
        /\ UNCHANGED <<writerVars, ringVars, epVars, history>>
    BY <1>11 DEF TxCheck
  <2>2. QED
    BY <2>1
<1>12. CASE TxGiveUp
  BY <1>12 DEF TxGiveUp
<1>13. CASE TxTake
  BY <1>13 DEF TxTake
<1>14. CASE TxCopy
  BY <1>14, PointerStays DEF TxCopy, SizeKept, SendsNoMore
<1>15. CASE TxGive
  BY <1>15 DEF TxGive
<1>16. CASE TxLoad
  BY <1>16 DEF TxLoad
<1>17. CASE Configure
  BY <1>17 DEF Configure
<1>18. CASE HostRead
  BY <1>18 DEF HostRead
<1>19. CASE UNCHANGED vars
  BY <1>19 DEF vars
<1>20. QED
  BY <1>1, <1>2, <1>3, <1>4, <1>5, <1>6, <1>7, <1>8, <1>9, <1>10, <1>11, <1>12, <1>13,
     <1>14, <1>15, <1>16, <1>17, <1>18, <1>19 DEF Next, WriterStep, TxStep

\* Nobody is between the take and the give of the mutex but its holder.
LEMMA StepMutex ==
    ASSUME TypeOK, MutexHeld, [Next]_vars
    PROVE  MutexHeld'
<1> USE SerialAssumption DEF TypeOK, MutexHeld, Serial
<1>1. CASE \E w \in Writers, n \in MsgSizes : Write(w, n)
  BY <1>1 DEF Write
<1>2. ASSUME NEW w \in Writers, WriterStep(w) PROVE MutexHeld'
  BY <1>2 DEF WriterStep, WriteTake, WriteTimeout, WriteCopy, WriteCount, WriteGive, WriteNotify
<1>3. CASE TxStep
  BY <1>3 DEF TxStep, TxStart, TxWait, TxSize, TxCheck, TxGiveUp, TxTake, TxCopy, TxGive,
     TxLoad, writerVars
<1>4. CASE Configure \/ HostRead \/ UNCHANGED vars
  BY <1>4 DEF Configure, HostRead, vars, writerVars
<1>5. QED
  BY <1>1, <1>2, <1>3, <1>4 DEF Next

\* Who counts is the holder of the mutex, and there is nothing to count when
\* no writer does.
LEMMA WhoCounts ==
    ASSUME TypeOK, MutexHeld
    PROVE  /\ Uncounted \in 0 .. RingSize
           /\ \A w \in Writers : wr_pc[w] = "count" => Uncounted = amount[w]
           /\ (\A w \in Writers : wr_pc[w] # "count") => Uncounted = 0
BY SerialAssumption DEF TypeOK, MutexHeld, Uncounted

\* What is not counted yet changes with a copy and a count only.
LEMMA UncountedChanges ==
    ASSUME TypeOK, MutexHeld, [Next]_vars
    PROVE  \/ \E w \in Writers : WriteCopy(w) /\ Uncounted = 0 /\ Uncounted' = amount[w]
           \/ \E w \in Writers : WriteCount(w) /\ Uncounted = amount[w] /\ Uncounted' = 0
           \/ UNCHANGED <<Uncounted, written, serial_tx_write_ptr>>
<1> USE SerialAssumption DEF TypeOK, MutexHeld, Serial
<1>1. ASSUME NEW w \in Writers, WriteCopy(w)
      PROVE  Uncounted = 0 /\ Uncounted' = amount[w]
  BY <1>1 DEF WriteCopy, Uncounted
<1>2. ASSUME NEW w \in Writers, WriteCount(w)
      PROVE  Uncounted = amount[w] /\ Uncounted' = 0
  BY <1>2 DEF WriteCount, Uncounted
<1> DEFINE Same == UNCHANGED <<Uncounted, written, serial_tx_write_ptr>>
<1>3. CASE \E w \in Writers, n \in MsgSizes : Write(w, n)
  BY <1>3 DEF Write, Uncounted, ringVars, history
<1>4. ASSUME NEW w \in Writers, \/ WriteTake(w) \/ WriteTimeout(w)
                                \/ WriteGive(w) \/ WriteNotify(w)
      PROVE  Same
  <2>1. CASE WriteTake(w)
    BY <2>1 DEF WriteTake, Uncounted, ringVars, history
  <2>2. CASE WriteTimeout(w)
    BY <2>2 DEF WriteTimeout, Uncounted, ringVars, history
  <2>3. CASE WriteGive(w)
    BY <2>3 DEF WriteGive, Uncounted, ringVars, history
  <2>4. CASE WriteNotify(w)
    BY <2>4 DEF WriteNotify, Uncounted, ringVars, history
  <2>5. QED
    BY <1>4, <2>1, <2>2, <2>3, <2>4
<1>5. CASE TxStep
  BY <1>5 DEF TxStep, TxStart, TxWait, TxSize, TxCheck, TxGiveUp, TxTake, TxCopy, TxGive,
     TxLoad, writerVars, ringVars, history, Uncounted
<1>6. CASE Configure \/ HostRead \/ UNCHANGED vars
  BY <1>6 DEF Configure, HostRead, vars, writerVars, ringVars, history, Uncounted
<1>7. QED
  BY <1>1, <1>2, <1>3, <1>4, <1>5, <1>6 DEF Next, WriterStep

\* The size changes with the count of a writer and the copy of USBSerialTx.
LEMMA SizeChanges ==
    ASSUME [Next]_vars
    PROVE  \/ \E w \in Writers : WriteCount(w)
           \/ TxCopy
           \/ UNCHANGED <<serial_tx_buf_size, serial_tx_read_ptr, sent>>
BY DEF Next, vars, Write, WriterStep, WriteTake, WriteTimeout, WriteCopy, WriteGive,
       WriteNotify, TxStep, TxStart, TxWait, TxSize, TxCheck, TxGiveUp, TxTake, TxGive,
       TxLoad, Configure, HostRead, writerVars, ringVars, epVars, history

\* The size keeps up with the backlog.
LEMMA StepBacklog ==
    ASSUME TypeOK, MutexHeld, SizeIsBacklog, [Next]_vars
    PROVE  SizeIsBacklog'
<1> USE SerialAssumption DEF SizeIsBacklog, TypeOK
<1>1. CASE TxCopy
  <2>1. /\ UNCHANGED <<written, serial_tx_write_ptr, wr_pc, amount, tx_buf_lock>>
        /\ sent' = sent + copy_amount
        /\ serial_tx_buf_size' = serial_tx_buf_size - copy_amount
    BY <1>1 DEF TxCopy, writerVars
  <2>2. Uncounted' = Uncounted
    BY <2>1 DEF Uncounted
  <2>3. Uncounted \in Int
    BY WhoCounts
  <2>4. QED
    BY <2>1, <2>2, <2>3
<1>2. ASSUME NEW w \in Writers, WriteCount(w) PROVE SizeIsBacklog'
  <2>1. Uncounted = amount[w] /\ Uncounted' = 0
    BY <1>2 DEF MutexHeld, WriteCount, Uncounted
  <2>2. QED
    BY <1>2, <2>1 DEF WriteCount, history
<1>3. ASSUME NEW w \in Writers, WriteCopy(w) PROVE SizeIsBacklog'
  <2>1. Uncounted = 0 /\ Uncounted' = amount[w]
    BY <1>3 DEF MutexHeld, WriteCopy, Uncounted
  <2>2. QED
    BY <1>3, <2>1 DEF WriteCopy
<1>4. CASE UNCHANGED <<Uncounted, written, serial_tx_buf_size, sent>>
  BY <1>4
<1>5. QED
  BY <1>1, <1>2, <1>3, <1>4, UncountedChanges, SizeChanges

\* Nothing but USBSerialTx itself makes the size smaller than what it has read.
LEMMA StepSends ==
    ASSUME TypeOK, MutexHeld, SizeKept, [Next]_vars
    PROVE  SendsNoMore'
<1> USE SerialAssumption DEF SendsNoMore, SizeKept, TypeOK
<1>1. ASSUME NEW w \in Writers, WriteCount(w) PROVE SendsNoMore'
  BY <1>1 DEF WriteCount
<1>2. CASE TxCopy
  BY <1>2 DEF TxCopy
<1>3. CASE TxSize
  BY <1>3 DEF TxSize, ringVars
<1>4. CASE /\ serial_tx_buf_size' = serial_tx_buf_size
           /\ \/ tx_pc' \notin {"check", "take", "copy"}
              \/ /\ tx_pc \in {"check", "take", "copy"}
                 /\ copy_amount' = copy_amount
  BY <1>4
<1>5. TxStep => TxCopy \/ TxSize \/ tx_pc' \notin {"check", "take", "copy"}
                \/ (tx_pc \in {"check", "take", "copy"} /\ copy_amount' = copy_amount)
  BY DEF TxStep, TxStart, TxWait, TxCheck, TxGiveUp, TxTake, TxGive, TxLoad
<1>6. \/ TxStep
      \/ UNCHANGED <<tx_pc, copy_amount>>
  BY DEF Next, vars, Write, WriterStep, WriteTake, WriteTimeout, WriteCopy, WriteCount,
         WriteGive, WriteNotify, Configure, HostRead
<1>7. QED
  BY <1>1, <1>2, <1>3, <1>4, <1>5, <1>6, SizeChanges

\* The pointers move as the stream does.
LEMMA StepPointers ==
    ASSUME TypeOK, MutexHeld, PointersFollow, [Next]_vars
    PROVE  PointersFollow'
<1>1. serial_tx_read_ptr' = sent' % RingSize
  <2>1. CASE TxCopy
    <3>1. serial_tx_read_ptr' = CptrInc(serial_tx_read_ptr, copy_amount)
          /\ sent' = sent + copy_amount
      BY <2>1 DEF TxCopy
    <3>2. sent \in Int /\ copy_amount \in 0 .. RingSize
      BY DEF TypeOK
    <3>3. QED
      BY <3>1, <3>2, SlotAfter DEF PointersFollow
  <2>2. CASE UNCHANGED <<serial_tx_read_ptr, sent>>
    BY <2>2 DEF PointersFollow
  <2>3. ASSUME NEW w \in Writers, WriteCount(w) PROVE UNCHANGED <<serial_tx_read_ptr, sent>>
    BY <2>3 DEF WriteCount, history
  <2>4. QED
    BY <2>1, <2>2, <2>3, SizeChanges
<1>2. serial_tx_write_ptr' = (written' - Uncounted') % RingSize
  <2>1. ASSUME NEW w \in Writers, WriteCopy(w), Uncounted = 0, Uncounted' = amount[w]
        PROVE  serial_tx_write_ptr' = (written' - Uncounted') % RingSize
    <3>1. written' - Uncounted' = written - Uncounted
      BY <2>1 DEF WriteCopy, TypeOK
    <3>2. serial_tx_write_ptr' = serial_tx_write_ptr
      BY <2>1 DEF WriteCopy
    <3>3. QED
      BY <3>1, <3>2 DEF PointersFollow
  <2>2. ASSUME NEW w \in Writers, WriteCount(w), Uncounted = amount[w], Uncounted' = 0
        PROVE  serial_tx_write_ptr' = (written' - Uncounted') % RingSize
    <3>1. serial_tx_write_ptr' = CptrInc(serial_tx_write_ptr, amount[w])
      BY <2>2 DEF WriteCount
    <3>2. amount[w] \in 0 .. RingSize /\ written - amount[w] \in Int
      BY DEF TypeOK
    <3>3. written' - Uncounted' = (written - amount[w]) + amount[w]
      BY <2>2, <3>2 DEF WriteCount, history, TypeOK
    <3>4. serial_tx_write_ptr = (written - amount[w]) % RingSize
      BY <2>2 DEF PointersFollow
    <3>5. QED
      BY <3>1, <3>2, <3>3, <3>4, SlotAfter
  <2>3. CASE UNCHANGED <<Uncounted, written, serial_tx_write_ptr>>
    BY <2>3 DEF PointersFollow
  <2>4. QED
    BY <2>1, <2>2, <2>3, UncountedChanges
<1>3. QED
  BY <1>1, <1>2 DEF PointersFollow

\* A message is copied behind the newest bytes: it takes the slots that are
\* next and leaves the others alone, at most a whole ring of them.
LEMMA CopyTakesSlots ==
    ASSUME NEW buf, NEW n \in 0 .. RingSize, NEW last \in Nat, NEW b \in 1 .. last + n,
           last + n - b < RingSize
    PROVE  CopyInto(buf, last % RingSize, last + 1, n)[(b - 1) % RingSize] =
             IF b > last THEN b ELSE buf[(b - 1) % RingSize]
<1>1. RingSize \in Nat \ {0}
  BY SerialAssumption
<1> DEFINE p == last % RingSize
           i == (b - 1) % RingSize
<1>2. p \in 0 .. RingSize - 1 /\ i \in 0 .. RingSize - 1
  <2>1. b - 1 \in Int /\ last \in Int
    OBVIOUS
  <2>2. QED
    BY <1>1, <2>1, ModIs
<1>3. CopyInto(buf, p, last + 1, n)[i] =
        IF i \in p .. p + n - 1 THEN last + 1 + (i - p)
        ELSE IF i < n - (RingSize - p) THEN last + 1 + (RingSize - p) + i
        ELSE buf[i]
  BY <1>2 DEF CopyInto, Offsets
<1>4. CASE b > last
  <2> DEFINE k == b - 1 - last
  <2>1. k \in 0 .. n - 1 /\ k \in 0 .. RingSize /\ b - 1 = last + k
    BY <1>1, <1>4
  <2>2. i = IF p + k >= RingSize THEN p + k - RingSize ELSE p + k
    BY <2>1, SlotAfter DEF CptrInc
  <2> HIDE DEF p, i
  <2>3. QED
    BY <1>1, <1>2, <1>3, <1>4, <2>1, <2>2 DEF p, i
<1>5. CASE ~(b > last)
  <2> DEFINE j == last - (b - 1)
  <2>1. j \in 1 .. RingSize - n /\ j \in 0 .. RingSize /\ b - 1 = last - j
    BY <1>1, <1>5
  <2>2. i = IF p >= j THEN p - j ELSE p - j + RingSize
    BY <2>1, SlotBefore
  <2> HIDE DEF p, i
  <2>3. QED
    BY <1>1, <1>2, <1>3, <1>5, <2>1, <2>2 DEF p, i
<1>6. QED
  BY <1>4, <1>5

\* The newest bytes stay in their slots.
LEMMA StepSlots ==
    ASSUME TypeOK, MutexHeld, PointersFollow, NewestInSlots, [Next]_vars
    PROVE  NewestInSlots'
<1>1. ASSUME NEW w \in Writers, WriteCopy(w) PROVE NewestInSlots'
  <2> DEFINE n == amount[w]
  <2>1. n \in 0 .. RingSize /\ written \in Nat /\ written' = written + n
    BY <1>1 DEF WriteCopy, TypeOK
  <2>2. Uncounted = 0
    BY <1>1, SerialAssumption DEF WriteCopy, MutexHeld, Uncounted
  <2>3. serial_tx_write_ptr = written % RingSize
    <3>1. written - 0 = written
      BY <2>1
    <3>2. QED
      BY <2>2, <3>1 DEF PointersFollow
  <2>4. serial_tx_buf' = CopyInto(serial_tx_buf, written % RingSize, written + 1, n)
    BY <1>1, <2>3 DEF WriteCopy
  <2>5. SUFFICES ASSUME NEW b \in 1 .. written + n, written + n - b < RingSize
                 PROVE  serial_tx_buf'[(b - 1) % RingSize] = b
    BY <2>1 DEF NewestInSlots
  <2>6. serial_tx_buf'[(b - 1) % RingSize] =
          IF b > written THEN b ELSE serial_tx_buf[(b - 1) % RingSize]
    BY <2>1, <2>4, <2>5, CopyTakesSlots
  <2>7. ~(b > written) => serial_tx_buf[(b - 1) % RingSize] = b
    BY <2>1, <2>5, SerialAssumption DEF NewestInSlots
  <2>8. QED
    BY <2>6, <2>7
<1>2. CASE UNCHANGED <<serial_tx_buf, written>>
  BY <1>2 DEF NewestInSlots
<1>3. TxCopy => UNCHANGED <<serial_tx_buf, written>>
  BY DEF TxCopy
<1>4. QED
  BY <1>1, <1>2, <1>3, StreamSteps

\* USBSerialTx fills the endpoint only after it has seen it empty.
LEMMA StepEndpoint ==
    ASSUME EndpointFree, [Next]_vars
    PROVE  EndpointFree'
BY DEF EndpointFree, Next, vars, Write, WriterStep, WriteTake, WriteTimeout, WriteCopy,
       WriteCount, WriteGive, WriteNotify, TxStep, TxStart, TxWait, TxSize, TxCheck,
       TxGiveUp, TxTake, TxCopy, TxGive, TxLoad, Configure, HostRead, epVars

\* The invariant is inductive.
LEMMA StepIInv == IInv /\ [Next]_vars => IInv'
BY StepType, StepMutex, StepBacklog, StepSends, StepPointers, StepSlots, StepEndpoint
DEF IInv, SizeKept

\* Ring, pointers, size and mutex agree in every state.
THEOREM Invariance == Spec => []IInv
BY InitIInv, StepIInv, PTL DEF Spec

-----------------------------------------------------------------------------
(* What follows *)

\* The size is the backlog, a size read without the mutex is never too large,
\* and the newest bytes lie where USBSerialTx will look, however often the
\* writers have overrun the host.
THEOREM BacklogIsKept == Spec => []BacklogKept
<1>1. ASSUME IInv PROVE NewestInOrder
  <2> SUFFICES ASSUME NEW b \in sent + 1 .. written, written - b < RingSize
               PROVE  serial_tx_buf[(serial_tx_read_ptr + b - sent - 1) % RingSize] = b
    BY DEF NewestInOrder
  <2>1. RingSize \in Nat \ {0} /\ sent \in Nat /\ written \in Nat
    BY <1>1, SerialAssumption DEF IInv, TypeOK
  <2> DEFINE p == sent % RingSize
             q == sent \div RingSize
             i == (b - 1) % RingSize
             t == (b - 1) \div RingSize
  <2>2. p \in 0 .. RingSize - 1 /\ q \in Int /\ sent = RingSize * q + p
    BY <2>1, ModIs
  <2>3. b - 1 \in Int
    BY <2>1
  <2>4. i \in 0 .. RingSize - 1 /\ t \in Int /\ b - 1 = RingSize * t + i
    BY <2>1, <2>3, ModIs
  <2>5. serial_tx_read_ptr = p
    BY <1>1 DEF IInv, PointersFollow
  <2>6. serial_tx_buf[i] = b
    BY <1>1, <2>1 DEF IInv, NewestInSlots
  <2> HIDE DEF p, q, i, t
  <2>7. p + b - sent - 1 \in Int /\ p + b - sent - 1 = RingSize * (t - q) + i /\ t - q \in Int
    BY <2>1, <2>2, <2>4
  <2>8. (p + b - sent - 1) % RingSize = i
    BY <2>1, <2>4, <2>7, ModOf
  <2>9. QED
    BY <2>5, <2>6, <2>8
<1>2. IInv => BacklogKept
  BY <1>1 DEF IInv, SizeKept, BacklogKept
<1>3. QED
  BY <1>2, Invariance, PTL

\* The endpoint gets the next bytes of the stream, whole and in order, while
\* the backlog fits the ring, and is not touched while the host may read it.
THEOREM HostReadsTheStream == Spec => HostReadsStream
<1>1. ASSUME IInv, [Next]_vars, ep_full PROVE ep_buf' = ep_buf
  <2>1. ~TxCopy
    BY <1>1 DEF TxCopy, IInv, EndpointFree
  <2>2. ASSUME NEW w \in Writers, WriteCopy(w) PROVE ep_buf' = ep_buf
    BY <2>2 DEF WriteCopy, epVars
  <2>3. QED
    BY <1>1, <2>1, <2>2, StreamSteps
<1>2. ASSUME IInv, [Next]_vars, sent' # sent, written - sent <= RingSize
      PROVE  ep_buf' = [k \in 1 .. copy_amount |-> sent + k]
  <2>1. TxCopy
    <3>1. ASSUME NEW w \in Writers, WriteCopy(w) PROVE sent' = sent
      BY <3>1 DEF WriteCopy
    <3>2. QED
      BY <1>2, <3>1, StreamSteps
  <2> DEFINE p == sent % RingSize
             n == copy_amount
  <2>2. RingSize \in Nat \ {0} /\ sent \in Nat /\ written \in Nat /\ n \in 0 .. RingSize
    BY <1>2, SerialAssumption DEF IInv, TypeOK
  <2>3. n <= written - sent
    <3>1. Uncounted = 0
      BY <1>2, <2>1, SerialAssumption DEF IInv, TxCopy, MutexHeld, Uncounted, Serial
    <3>2. n <= serial_tx_buf_size /\ serial_tx_buf_size + 0 = written - sent
      BY <1>2, <2>1, <3>1 DEF IInv, SizeKept, SizeIsBacklog, SendsNoMore, TxCopy
    <3>3. QED
      BY <1>2, <3>2 DEF IInv, TypeOK
  <2>4. ep_buf' = CopyFrom(serial_tx_buf, p, n)
    BY <1>2, <2>1 DEF TxCopy, IInv, PointersFollow
  <2>5. ASSUME NEW k \in 1 .. n
        PROVE  (IF k <= RingSize - p THEN serial_tx_buf[p + k - 1]
                ELSE serial_tx_buf[k - (RingSize - p) - 1]) = sent + k
    <3>1. sent + k \in 1 .. written /\ written - (sent + k) < RingSize
      BY <1>2, <2>2, <2>3
    <3>2. serial_tx_buf[(sent + k - 1) % RingSize] = sent + k
      <4>1. \A b \in 1 .. written :
              written - b < RingSize => serial_tx_buf[(b - 1) % RingSize] = b
        BY <1>2 DEF IInv, NewestInSlots
      <4> DEFINE c == sent + k
      <4>2. c \in 1 .. written /\ written - c < RingSize
        BY <3>1
      <4> HIDE DEF c
      <4>3. serial_tx_buf[(c - 1) % RingSize] = c
        BY <4>1, <4>2, Zenon
      <4>4. sent + k - 1 = c - 1 /\ c = sent + k
        BY <2>2 DEF c
      <4>5. QED
        BY <4>3, <4>4
    <3>3. k - 1 \in 0 .. RingSize /\ sent + k - 1 = sent + (k - 1) /\ sent \in Int
      BY <2>2
    <3>4. (sent + k - 1) % RingSize = IF p + (k - 1) >= RingSize THEN p + (k - 1) - RingSize
                                      ELSE p + (k - 1)
      BY <3>3, SlotAfter DEF CptrInc
    <3>5. p \in 0 .. RingSize - 1
      BY <2>2, ModIs
    <3> HIDE DEF p
    <3>6. IF p + (k - 1) >= RingSize
          THEN ~(k <= RingSize - p) /\ p + (k - 1) - RingSize = k - (RingSize - p) - 1
          ELSE k <= RingSize - p /\ p + (k - 1) = p + k - 1
      BY <2>2, <3>5
    <3>7. QED
      BY <3>2, <3>4, <3>6
  <2>6. QED
    BY <2>4, <2>5 DEF CopyFrom
<1>3. IInv /\ [Next]_vars =>
        /\ [sent' # sent /\ written - sent <= RingSize =>
              ep_buf' = [k \in 1 .. copy_amount |-> sent + k]]_vars
        /\ [ep_full => ep_buf' = ep_buf]_vars
  BY <1>1, <1>2
<1>4. QED
  BY <1>3, Invariance, PTL DEF Spec, HostReadsStream, SendsInOrder, EndpointStable

=============================================================================
