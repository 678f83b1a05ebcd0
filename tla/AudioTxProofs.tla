---------------------------- MODULE AudioTxProofs ----------------------------
(***************************************************************************)
(* Proofs about the audio path, for every block size, buffer size, limits, *)
(* queue length and lateness that satisfy the assumptions.  At any speed   *)
(* (AudioTx): the flags follow the size with hysteresis, the monitor's     *)
(* books and the two pointers agree with the content of the buffer, the    *)
(* output starts half full, and the copy DMA is given the whole packet.    *)
(* At the pace of the hardware (AudioTxTimed): no delta is lost, each byte *)
(* is written once and played once in turn, drops happen only above half   *)
(* full, and the path implements ElasticBuffer.                            *)
(***************************************************************************)
EXTENDS AudioTxTimed, DataFacts, TLAPS

-----------------------------------------------------------------------------
(* Sums over the delta queue *)

Delta == -TransferSize .. TransferSize

\* The two weights of a delta: the bytes it adds and the bytes it takes.
Added == [d \in Delta |-> IF d > 0 THEN d ELSE 0]
Taken == [d \in Delta |-> IF d < 0 THEN -d ELSE 0]

\* n is the sum of the weights of q: some function holds the sums of all the
\* tails of q, the empty one included, and n is its first value.  A sum given
\* by a witness needs no recursion.
HasTotal(q, w, n) ==
    \E s \in [1 .. Len(q) + 1 -> Nat] :
        /\ s[1] = n
        /\ s[Len(q) + 1] = 0
        /\ \A i \in 1 .. Len(q) : s[i] = w[q[i]] + s[i + 1]

\* The weights are natural numbers.
LEMMA WeightTypes == Added \in [Delta -> Nat] /\ Taken \in [Delta -> Nat]
BY SizeAssumption DEF Added, Taken, Delta

\* The sum over the empty queue is zero, and only zero.
LEMMA TotalEmpty ==
    ASSUME NEW w, NEW n
    PROVE  HasTotal(<<>>, w, n) <=> n = 0
<1>1. ASSUME n = 0 PROVE HasTotal(<<>>, w, n)
  <2>. DEFINE z == [i \in 1 .. 1 |-> 0]
  <2>1. Len(<<>>) = 0
    OBVIOUS
  <2>2. z \in [1 .. 1 -> Nat] /\ z[1] = 0
    OBVIOUS
  <2>. HIDE DEF z
  <2>. QED BY <1>1, <2>1, <2>2 DEF HasTotal
<1>2. ASSUME HasTotal(<<>>, w, n) PROVE n = 0
  BY <1>2 DEF HasTotal
<1>. QED BY <1>1, <1>2

\* Posting a delta adds its weight to the sum.
LEMMA TotalAppend ==
    ASSUME NEW q \in Seq(Delta), NEW d \in Delta, NEW w \in [Delta -> Nat],
           NEW n \in Nat, HasTotal(q, w, n)
    PROVE  HasTotal(Append(q, d), w, n + w[d])
<1>1. PICK s \in [1 .. Len(q) + 1 -> Nat] :
        /\ s[1] = n
        /\ s[Len(q) + 1] = 0
        /\ \A i \in 1 .. Len(q) : s[i] = w[q[i]] + s[i + 1]
  BY DEF HasTotal
<1>. DEFINE r == Append(q, d)
            t == [i \in 1 .. Len(q) + 2 |->
                    IF i <= Len(q) + 1 THEN s[i] + w[d] ELSE 0]
<1>2. /\ Len(q) \in Nat
      /\ Len(r) = Len(q) + 1
      /\ \A i \in 1 .. Len(q) : r[i] = q[i]
      /\ r[Len(q) + 1] = d
  OBVIOUS
<1>3. w[d] \in Nat /\ \A i \in 1 .. Len(q) : w[q[i]] \in Nat
  BY <1>2
<1>4. t \in [1 .. Len(r) + 1 -> Nat]
  BY <1>2, <1>3
<1>5. t[1] = n + w[d] /\ t[Len(r) + 1] = 0
  BY <1>1, <1>2
<1>6. ASSUME NEW i \in 1 .. Len(r) PROVE t[i] = w[r[i]] + t[i + 1]
  <2>1. CASE i \in 1 .. Len(q)
    <3>1. t[i] = s[i] + w[d] /\ t[i + 1] = s[i + 1] + w[d]
      BY <2>1, <1>2
    <3>2. r[i] = q[i]
      BY <2>1, <1>2
    <3>3. s[i] = w[q[i]] + s[i + 1]
      BY <2>1, <1>1
    <3>4. s[i + 1] \in Nat
      BY <2>1, <1>2
    <3>5. w[q[i]] \in Nat /\ w[d] \in Nat
      BY <1>3, <2>1
    <3>. HIDE DEF r, t
    <3>. QED BY <3>1, <3>2, <3>3, <3>4, <3>5, SMTT(20)
  <2>2. CASE i = Len(q) + 1
    <3>. HIDE DEF r
    <3>1. /\ i \in 1 .. Len(q) + 2 /\ i + 1 \in 1 .. Len(q) + 2
          /\ i <= Len(q) + 1 /\ ~(i + 1 <= Len(q) + 1)
      BY <2>2, <1>2
    <3>2. t[i] = s[i] + w[d] /\ t[i + 1] = 0
      BY <3>1
    <3>3. s[i] = 0 /\ r[i] = d
      BY <2>2, <1>1, <1>2
    <3>. QED BY <3>2, <3>3, <1>3
  <2>. QED BY <2>1, <2>2, <1>2
<1>. HIDE DEF t, r
<1>7. HasTotal(r, w, n + w[d])
  BY <1>4, <1>5, <1>6 DEF HasTotal
<1>. QED BY <1>7 DEF r

\* Receiving a delta takes its weight off the sum.
LEMMA TotalTail ==
    ASSUME NEW q \in Seq(Delta), q # <<>>, NEW w \in [Delta -> Nat],
           NEW n \in Nat, HasTotal(q, w, n)
    PROVE  \E m \in Nat : n = w[Head(q)] + m /\ HasTotal(Tail(q), w, m)
<1>1. PICK s \in [1 .. Len(q) + 1 -> Nat] :
        /\ s[1] = n
        /\ s[Len(q) + 1] = 0
        /\ \A i \in 1 .. Len(q) : s[i] = w[q[i]] + s[i + 1]
  BY DEF HasTotal
<1>. DEFINE r == Tail(q)
            t == [i \in 1 .. Len(q) |-> s[i + 1]]
<1>2. /\ Len(q) \in Nat \ {0}
      /\ Len(r) = Len(q) - 1
      /\ \A i \in 1 .. Len(r) : r[i] = q[i + 1]
      /\ Head(q) = q[1]
  OBVIOUS
<1>3. t \in [1 .. Len(r) + 1 -> Nat]
  BY <1>2
<1>4. t[Len(r) + 1] = 0 /\ t[1] = s[1 + 1] /\ s[1 + 1] \in Nat
  <2>1. 1 \in 1 .. Len(q) /\ Len(q) \in 1 .. Len(q) /\ Len(r) + 1 = Len(q)
    BY <1>2
  <2>2. t[1] = s[1 + 1] /\ t[Len(q)] = s[Len(q) + 1]
    BY <2>1
  <2>3. 1 + 1 \in 1 .. Len(q) + 1
    BY <1>2
  <2>. QED BY <2>1, <2>2, <2>3, <1>1
<1>5. ASSUME NEW i \in 1 .. Len(r) PROVE t[i] = w[r[i]] + t[i + 1]
  <2>1. i + 1 \in 1 .. Len(q) /\ t[i] = s[i + 1] /\ t[i + 1] = s[i + 1 + 1]
    BY <1>2
  <2>. QED BY <2>1, <1>1, <1>2
<1>6. n = w[Head(q)] + t[1]
  <2>1. s[1] = w[q[1]] + s[1 + 1]
    BY <1>1, <1>2
  <2>. QED BY <2>1, <1>1, <1>2, <1>4
<1>7. t[1] \in Nat
  BY <1>4
<1>. HIDE DEF t, r
<1>8. HasTotal(r, w, t[1])
  BY <1>3, <1>4, <1>5 DEF HasTotal
<1>. QED BY <1>6, <1>7, <1>8 DEF r

-----------------------------------------------------------------------------
(* Any speed: type correctness and hysteresis *)

\* cptr_inc of at most one block stays inside the ring: one wrap is enough.
LEMMA CptrIncInRing ==
    ASSUME NEW ptr \in 0 .. BufSize - 1, NEW n \in 0 .. TransferSize
    PROVE  CptrInc(ptr, n) \in 0 .. BufSize - 1
BY SizeAssumption DEF CptrInc

\* Sending a delta keeps the type of the queue and of the history variable.
LEMMA SendDeltaTypes ==
    ASSUME TypeOK, NEW d \in -TransferSize .. TransferSize, SendDelta(d)
    PROVE  /\ txq' \in Seq(-TransferSize .. TransferSize)
           /\ lost' \in Int
<1>1. CASE txq' = Append(txq, d) /\ UNCHANGED lost
  BY <1>1 DEF TypeOK
<1>2. CASE lost' = lost + d /\ UNCHANGED txq
  BY <1>2, SizeAssumption DEF TypeOK
<1>. QED BY <1>1, <1>2 DEF SendDelta

\* The new flags are flags, and say what MonUpdate computed.
LEMMA StatusAfterUpdate ==
    ASSUME MonUpdate
    PROVE  LET newSize == tx_buffer_size + buffer_delta_update
           IN  /\ tx_status' \in SUBSET {"ACTIVE", "OVERFLOW"}
               /\ "ACTIVE" \in tx_status' <=>
                      "ACTIVE" \in tx_status /\ ~Underflows(newSize)
               /\ "OVERFLOW" \in tx_status' <=> OverflowAfter(newSize)
<1>. DEFINE newSize == tx_buffer_size + buffer_delta_update
            active == "ACTIVE" \in tx_status /\ ~Underflows(newSize)
            overflow == OverflowAfter(newSize)
<1>1. tx_status' = {f \in {"ACTIVE", "OVERFLOW"} :
                      IF f = "ACTIVE" THEN active ELSE overflow}
  BY DEF MonUpdate
<1>. HIDE DEF active, overflow
<1>2. /\ tx_status' \in SUBSET {"ACTIVE", "OVERFLOW"}
      /\ "ACTIVE" \in tx_status' <=> active
      /\ "OVERFLOW" \in tx_status' <=> overflow
  BY <1>1
<1>. QED BY <1>2 DEF active, overflow

\* Every step of every actor keeps the types.
LEMMA TypeStep == TypeOK /\ [Next]_vars => TypeOK'
<1>. SUFFICES ASSUME TypeOK, [Next]_vars PROVE TypeOK'
  OBVIOUS
<1>. USE SizeAssumption DEF TypeOK
<1>1. CASE \E n \in PacketSizes : UsbPacket(n)
  BY <1>1, PacketAssumption
     DEF UsbPacket, txVars, i2sVars, monVars
<1>2. CASE TxWake
  <2>1. /\ notified' = FALSE
        /\ notify_value' = 0
        /\ source_buffer_size' = notify_value
        /\ tx_pc' = "check"
    BY <1>2, Zenon DEF TxWake
  <2>2. UNCHANGED <<tx_write_ptr, i2s_ptr, i2s_on, txq, mon_pc,
                    buffer_delta_update, tx_buffer_size, tx_status, fill, lost>>
    BY <1>2 DEF TxWake, i2sVars, monVars
  <2>3. notified' \in BOOLEAN
    BY <2>1, Zenon
  <2>4. notify_value' \in 0 .. TransferSize
    BY <2>1
  <2>. QED BY <2>1, <2>2, <2>3, <2>4
<1>3. CASE TxDrop
  BY <1>3 DEF TxDrop, usbVars, i2sVars, monVars
<1>4. CASE TxAccept
  BY <1>4 DEF TxAccept, usbVars, i2sVars, monVars
<1>5. CASE TxCopy
  <2>1. tx_write_ptr' \in 0 .. BufSize - 1
    BY <1>5, CptrIncInRing DEF TxCopy
  <2>. QED BY <1>5, <2>1 DEF TxCopy, usbVars, i2sVars, monVars
<1>6. CASE TxPost
  <2>1. txq' \in Seq(-TransferSize .. TransferSize) /\ lost' \in Int
    BY <1>6, SendDeltaTypes DEF TxPost
  <2>. QED BY <1>6, <2>1 DEF TxPost, usbVars, i2sVars, monVars
<1>7. CASE I2sBlockDone
  <2>1. i2s_ptr' \in 0 .. BufSize - 1
    BY <1>7, CptrIncInRing DEF I2sBlockDone
  <2>2. txq' \in Seq(-TransferSize .. TransferSize) /\ lost' \in Int
    BY <1>7, SendDeltaTypes DEF I2sBlockDone
  <2>. QED BY <1>7, <2>1, <2>2 DEF I2sBlockDone, usbVars, txVars, monVars
<1>8. CASE MonReceive
  <2>1. Head(txq) \in -TransferSize .. TransferSize
        /\ Tail(txq) \in Seq(-TransferSize .. TransferSize)
    BY <1>8 DEF MonReceive
  <2>. QED BY <1>8, <2>1 DEF MonReceive, usbVars, txVars, i2sVars
<1>9. CASE MonUpdate
  <2>1. tx_status' \in SUBSET {"ACTIVE", "OVERFLOW"}
    BY <1>9, StatusAfterUpdate
  <2>2. i2s_on' \in BOOLEAN
    BY <1>9, Zenon DEF MonUpdate
  <2>. QED BY <1>9, <2>1, <2>2 DEF MonUpdate, usbVars, txVars, i2sVars
<1>10. CASE MonTimeout
  BY <1>10 DEF MonTimeout, usbVars, txVars, i2sVars
<1>11. CASE MonEnable
  BY <1>11 DEF MonEnable, usbVars, txVars, i2sVars
<1>12. CASE MonKeep
  BY <1>12 DEF MonKeep, usbVars, txVars, i2sVars
<1>13. CASE UNCHANGED vars
  BY <1>13 DEF vars, usbVars, txVars, i2sVars, monVars
<1>. QED
  BY <1>1, <1>2, <1>3, <1>4, <1>5, <1>6, <1>7, <1>8, <1>9, <1>10, <1>11,
     <1>12, <1>13 DEF Next, TxStep, MonStep

\* Type correctness of the audio path at any speed: in particular both
\* pointers stay inside tx_buffer, for packets of every admissible size.
THEOREM TypeCorrect == Spec => []TypeOK
<1>1. Init => TypeOK
  <2>1. ASSUME Init PROVE TypeOK
    <3>1. <<>> \in Seq(-TransferSize .. TransferSize)
      OBVIOUS
    <3>2. /\ 0 \in 0 .. TransferSize
          /\ 0 \in 0 .. BufSize - 1
          /\ 0 \in -TransferSize .. TransferSize
      BY SizeAssumption
    <3>3. notified \in BOOLEAN /\ i2s_on \in BOOLEAN
      BY <2>1, Zenon DEF Init
    <3>4. tx_status \in SUBSET {"ACTIVE", "OVERFLOW"}
      BY <2>1 DEF Init
    <3>. QED BY <2>1, <3>1, <3>2, <3>3, <3>4 DEF Init, TypeOK
  <2>. QED BY <2>1
<1>2. TypeOK /\ [Next]_vars => TypeOK'
  BY TypeStep
<1>. QED BY <1>1, <1>2, PTL DEF Spec

\* Only the monitor touches the flags and the size, and both of its handlers
\* leave them consistent.
LEMMA HysteresisStep ==
    TypeOK /\ Hysteresis /\ [Next]_vars => Hysteresis'
<1>. SUFFICES ASSUME TypeOK, Hysteresis, [Next]_vars PROVE Hysteresis'
  OBVIOUS
<1>1. CASE UNCHANGED <<tx_buffer_size, tx_status, i2s_on>>
  BY <1>1 DEF Hysteresis
<1>2. CASE MonUpdate
  <2>. DEFINE newSize == tx_buffer_size + buffer_delta_update
  <2>1. tx_buffer_size' = newSize /\ newSize \in Int
    BY <1>2 DEF MonUpdate, TypeOK
  <2>2. "OVERFLOW" \in tx_status' <=> OverflowAfter(newSize)
    BY <1>2, StatusAfterUpdate
  <2>3. "ACTIVE" \in tx_status' <=>
          "ACTIVE" \in tx_status /\ ~Underflows(newSize)
    BY <1>2, StatusAfterUpdate
  <2>4. i2s_on' <=> i2s_on /\ ~Underflows(newSize)
    BY <1>2 DEF MonUpdate
  <2>. HIDE DEF newSize
  <2>5. i2s_on' <=> "ACTIVE" \in tx_status'
    BY <2>3, <2>4, Zenon DEF Hysteresis
  <2>6. /\ "OVERFLOW" \in tx_status' => newSize > ActiveLimit
        /\ "OVERFLOW" \notin tx_status' => newSize < OverflowLimit
    BY <2>1, <2>2, LimitAssumption DEF OverflowAfter
  <2>7. "ACTIVE" \in tx_status' => newSize > UnderflowLimit
    BY <2>1, <2>3, LimitAssumption DEF Underflows
  <2>. QED BY <2>1, <2>5, <2>6, <2>7 DEF Hysteresis
<1>3. CASE MonEnable
  <2>1. tx_buffer_size' = tx_buffer_size /\ tx_buffer_size >= ActiveLimit
    BY <1>3 DEF MonEnable
  <2>2. "OVERFLOW" \in tx_status' <=> "OVERFLOW" \in tx_status
    BY <1>3 DEF MonEnable
  <2>3. i2s_on' /\ "ACTIVE" \in tx_status'
    BY <1>3 DEF MonEnable
  <2>4. tx_buffer_size > UnderflowLimit
    BY <2>1, LimitAssumption DEF TypeOK
  <2>. QED BY <2>1, <2>2, <2>3, <2>4 DEF Hysteresis
<1>. QED
  <2>1. CASE \E n \in PacketSizes : UsbPacket(n)
    BY <2>1, <1>1 DEF UsbPacket, monVars
  <2>2. CASE TxStep \/ I2sBlockDone
    BY <2>2, <1>1
       DEF TxStep, TxWake, TxDrop, TxAccept, TxCopy, TxPost, I2sBlockDone,
           monVars
  <2>3. CASE MonStep
    BY <2>3, <1>1, <1>2, <1>3
       DEF MonStep, MonReceive, MonTimeout, MonKeep
  <2>4. CASE UNCHANGED vars
    BY <2>4, <1>1 DEF vars, monVars
  <2>. QED BY <2>1, <2>2, <2>3, <2>4 DEF Next

\* The flags AudioTx and the hardware see always agree with the size the
\* monitor keeps, with the hysteresis project_config.h asks for.
THEOREM HysteresisHolds == Spec => []Hysteresis
<1>1. Init => Hysteresis
  BY LimitAssumption DEF Init, Hysteresis
<1>2. TypeOK /\ Hysteresis /\ [Next]_vars => Hysteresis'
  BY HysteresisStep
<1>. QED BY <1>1, <1>2, TypeCorrect, PTL DEF Spec

-----------------------------------------------------------------------------
(* Any speed: what the books and the pointers tell *)

\* What AudioTx has copied and not posted.
Unposted == IF tx_pc = "post" THEN source_buffer_size ELSE 0

\* Outside its update the monitor has no delta in hand.
InHand == mon_pc # "update" => buffer_delta_update = 0

\* A timeout found the queue empty, and while the output is off only AudioTx
\* posts: what is on the queue then adds to the buffer.
StartCounted == mon_pc = "timeout" /\ ~i2s_on => SumSeq(txq) >= 0

\* The DMA plays whole blocks.
BlockAligned == \E j \in Nat : i2s_ptr = j * TransferSize

AnyInv == TypeOK /\ Hysteresis /\ ContentAgreed /\ InHand /\ StartCounted /\ BlockAligned

\* The accounting as an equation of numbers.
LEMMA AccountingIs ==
    /\ Accounting <=>
         fill = tx_buffer_size + (buffer_delta_update + SumSeq(txq) + Unposted) + lost
    /\ Accounting' <=>
         fill' = tx_buffer_size' + (buffer_delta_update' + SumSeq(txq') + Unposted') + lost'
<1>1. SumSeq(txq) = FoldFunction(+, 0, txq) /\ SumSeq(txq') = FoldFunction(+, 0, txq')
  BY DEF SumSeq, FoldFunction, FoldFunctionOnSet, MapThenFoldSet
<1>2. QED
  BY <1>1 DEF Accounting, Uncounted, Unposted, FoldFunction, FoldFunctionOnSet, MapThenFoldSet

LEMMA QueueType ==
    ASSUME TypeOK
    PROVE  txq \in Seq(Int)
<1>1. \A i \in 1 .. Len(txq) : txq[i] \in Int
  BY SizeAssumption DEF TypeOK
<1>2. QED
  BY <1>1 DEF TypeOK

LEMMA CountTypes ==
    ASSUME TypeOK
    PROVE  /\ SumSeq(txq) \in Int
           /\ buffer_delta_update \in Int /\ Unposted \in 0 .. TransferSize
           /\ tx_buffer_size \in Int /\ fill \in Int /\ lost \in Int
           /\ TransferSize \in Nat \ {0} /\ source_buffer_size \in 0 .. TransferSize
<1>1. \E p : SumsUpTo(txq, p)
  BY QueueType, SumIsLast
<1>2. SumSeq(txq) \in Int
  BY <1>1, QueueType, SumOf
<1>3. QED
  BY <1>2, SizeAssumption DEF TypeOK, Unposted

\* A delta that is sent is on the queue or among the lost ones.
LEMMA SendDeltaCounts ==
    ASSUME TypeOK, NEW d \in Int, SendDelta(d)
    PROVE  /\ SumSeq(txq') \in Int /\ lost' \in Int
           /\ SumSeq(txq') + lost' = SumSeq(txq) + lost + d
           /\ d >= 0 => SumSeq(txq') >= SumSeq(txq)
<1>1. CASE txq' = Append(txq, d) /\ lost' = lost
  <2>1. SumSeq(txq') = SumSeq(txq) + d
    BY <1>1, QueueType, SumAppend
  <2>2. QED
    BY <1>1, <2>1, CountTypes
<1>2. CASE lost' = lost + d /\ txq' = txq
  BY <1>2, CountTypes
<1>3. QED
  BY <1>1, <1>2 DEF SendDelta

\* A delta that is received moves from the queue into the monitor's hand.
LEMMA ReceiveCounts ==
    ASSUME TypeOK, MonReceive
    PROVE  /\ SumSeq(txq') \in Int /\ buffer_delta_update' \in Int
           /\ buffer_delta_update' + SumSeq(txq') = SumSeq(txq)
<1>1. txq # <<>> /\ txq' = Tail(txq) /\ buffer_delta_update' = Head(txq)
  BY DEF MonReceive
<1>2. Head(txq) \in Int
  BY <1>1, QueueType
<1>3. SumSeq(txq') = SumSeq(txq) - Head(txq)
  BY <1>1, QueueType, SumTail
<1>4. QED
  BY <1>1, <1>2, <1>3, CountTypes

\* Every delta is counted once, wherever it is.
LEMMA AccountingStep ==
    ASSUME TypeOK, InHand, Accounting, [Next]_vars
    PROVE  Accounting' /\ InHand'
<1>1. fill = tx_buffer_size + (buffer_delta_update + SumSeq(txq) + Unposted) + lost
  BY AccountingIs
<1>2. ASSUME UNCHANGED <<fill, tx_buffer_size, buffer_delta_update, txq, lost, mon_pc>>,
             Unposted' = Unposted
      PROVE  Accounting' /\ InHand'
  BY <1>1, <1>2, AccountingIs DEF InHand
<1>3. CASE \E n \in PacketSizes : UsbPacket(n)
  BY <1>2, <1>3 DEF UsbPacket, txVars, monVars, Unposted
<1>4. CASE TxWake \/ TxDrop \/ TxAccept
  BY <1>2, <1>4 DEF TxWake, TxDrop, TxAccept, monVars, Unposted
<1>5. CASE TxCopy
  <2>1. /\ fill' = fill + source_buffer_size
        /\ UNCHANGED <<tx_buffer_size, buffer_delta_update, txq, lost, mon_pc>>
    BY <1>5 DEF TxCopy, monVars
  <2>2. Unposted = 0 /\ Unposted' = source_buffer_size
    BY <1>5 DEF TxCopy, Unposted
  <2>3. fill' = tx_buffer_size' + (buffer_delta_update' + SumSeq(txq') + Unposted') + lost'
    BY <1>1, <2>1, <2>2, CountTypes
  <2>4. QED
    BY <2>1, <2>3, AccountingIs DEF InHand
<1>6. CASE TxPost
  <2>1. /\ SendDelta(source_buffer_size)
        /\ UNCHANGED <<fill, tx_buffer_size, buffer_delta_update, mon_pc>>
    BY <1>6 DEF TxPost, monVars
  <2>2. Unposted = source_buffer_size /\ Unposted' = 0
    BY <1>6 DEF TxPost, Unposted
  <2>3. /\ SumSeq(txq') \in Int /\ lost' \in Int
        /\ SumSeq(txq') + lost' = SumSeq(txq) + lost + source_buffer_size
    BY <2>1, CountTypes, SendDeltaCounts
  <2>4. fill' = tx_buffer_size' + (buffer_delta_update' + SumSeq(txq') + Unposted') + lost'
    <3>1. SumSeq(txq') = SumSeq(txq) + lost + (source_buffer_size) - lost'
      BY <2>3, CountTypes
    <3>2. tx_buffer_size' = tx_buffer_size /\ buffer_delta_update' = buffer_delta_update
      BY <2>1
    <3>3. QED
      BY <1>1, <2>1, <2>2, <2>3, <3>1, <3>2, CountTypes
  <2>5. QED
    BY <2>1, <2>4, AccountingIs DEF InHand
<1>7. CASE I2sBlockDone
  <2>1. /\ SendDelta(-TransferSize) /\ fill' = fill - TransferSize
        /\ UNCHANGED <<tx_buffer_size, buffer_delta_update, mon_pc>>
    BY <1>7 DEF I2sBlockDone, monVars
  <2>2. Unposted' = Unposted
    BY <1>7 DEF I2sBlockDone, txVars, Unposted
  <2>3. /\ SumSeq(txq') \in Int /\ lost' \in Int
        /\ SumSeq(txq') + lost' = SumSeq(txq) + lost + (-TransferSize)
    <3>1. -TransferSize \in Int
      BY CountTypes
    <3>2. QED
      BY <2>1, <3>1, SendDeltaCounts
  <2>4. fill' = tx_buffer_size' + (buffer_delta_update' + SumSeq(txq') + Unposted') + lost'
    <3>1. SumSeq(txq') = SumSeq(txq) + lost + (-TransferSize) - lost'
      BY <2>3, CountTypes
    <3>2. tx_buffer_size' = tx_buffer_size /\ buffer_delta_update' = buffer_delta_update
      BY <2>1
    <3>3. QED
      BY <1>1, <2>1, <2>2, <2>3, <3>1, <3>2, CountTypes
  <2>5. QED
    BY <2>1, <2>4, AccountingIs DEF InHand
<1>8. CASE MonReceive
  <2>1. /\ mon_pc = "receive" /\ mon_pc' = "update"
        /\ UNCHANGED <<fill, tx_buffer_size, lost>>
    BY <1>8 DEF MonReceive
  <2>2. Unposted' = Unposted
    BY <1>8 DEF MonReceive, txVars, Unposted
  <2>3. buffer_delta_update = 0
    BY <2>1 DEF InHand
  <2>4. /\ SumSeq(txq') \in Int /\ buffer_delta_update' \in Int
        /\ buffer_delta_update' + SumSeq(txq') = SumSeq(txq)
    BY <1>8, ReceiveCounts
  <2>5. fill' = tx_buffer_size' + (buffer_delta_update' + SumSeq(txq') + Unposted') + lost'
    BY <1>1, <2>1, <2>2, <2>3, <2>4, CountTypes
  <2>6. QED
    BY <2>1, <2>5, AccountingIs DEF InHand
<1>9. CASE MonUpdate
  <2>1. /\ tx_buffer_size' = tx_buffer_size + buffer_delta_update
        /\ buffer_delta_update' = 0 /\ UNCHANGED <<fill, txq, lost>>
    BY <1>9 DEF MonUpdate
  <2>2. Unposted' = Unposted
    BY <1>9 DEF MonUpdate, txVars, Unposted
  <2>3. fill' = tx_buffer_size' + (buffer_delta_update' + SumSeq(txq') + Unposted') + lost'
    BY <1>1, <2>1, <2>2, CountTypes
  <2>4. QED
    BY <2>1, <2>3, AccountingIs DEF InHand
<1>10. CASE MonTimeout \/ MonEnable \/ MonKeep
  <2>1. /\ UNCHANGED <<fill, tx_buffer_size, buffer_delta_update, txq, lost>>
        /\ mon_pc # "update" /\ Unposted' = Unposted
    BY <1>10 DEF MonTimeout, MonEnable, MonKeep, txVars, Unposted
  <2>2. QED
    BY <1>1, <2>1, AccountingIs DEF InHand
<1>11. CASE UNCHANGED vars
  BY <1>2, <1>11 DEF vars, txVars, monVars, Unposted
<1>12. QED
  BY <1>3, <1>4, <1>5, <1>6, <1>7, <1>8, <1>9, <1>10, <1>11 DEF Next, TxStep, MonStep

\* cptr_inc goes round the ring.
LEMMA RingAfter ==
    ASSUME NEW x \in Int, NEW n \in 0 .. BufSize
    PROVE  (x + n) % BufSize = CptrInc(x % BufSize, n)
BY ModAfter, SizeAssumption DEF CptrInc

\* The write pointer moves with the content, and so does the DMA's block.
LEMMA RingStep ==
    ASSUME TypeOK, RingAligned, [Next]_vars
    PROVE  RingAligned'
<1>1. BufSize \in Nat \ {0} /\ i2s_ptr \in 0 .. BufSize - 1
      /\ TransferSize \in 0 .. BufSize /\ TransferSize \in Nat
  BY SizeAssumption DEF TypeOK
<1>2. tx_write_ptr = (i2s_ptr + fill) % BufSize
  BY DEF RingAligned
<1>3. CASE UNCHANGED <<tx_write_ptr, i2s_ptr, fill>>
  BY <1>3 DEF RingAligned
<1>4. CASE TxCopy
  <2>1. /\ fill' = fill + source_buffer_size /\ i2s_ptr' = i2s_ptr
        /\ tx_write_ptr' = CptrInc(tx_write_ptr, source_buffer_size)
    BY <1>4 DEF TxCopy, i2sVars
  <2>2. source_buffer_size \in 0 .. BufSize /\ i2s_ptr + fill \in Int
        /\ i2s_ptr' + fill' = i2s_ptr + fill + source_buffer_size
    BY <1>1, <2>1, CountTypes
  <2>3. QED
    BY <1>2, <2>1, <2>2, RingAfter DEF RingAligned
<1>5. CASE I2sBlockDone
  <2>1. /\ fill' = fill - TransferSize /\ tx_write_ptr' = tx_write_ptr
        /\ i2s_ptr' = CptrInc(i2s_ptr, TransferSize)
    BY <1>5 DEF I2sBlockDone, txVars
  <2>2. CASE i2s_ptr + TransferSize >= BufSize
    <3>1. i2s_ptr' + fill' = (i2s_ptr + fill) - BufSize /\ i2s_ptr + fill \in Int
      BY <1>1, <2>1, <2>2, CountTypes DEF CptrInc
    <3>2. ((i2s_ptr + fill) - BufSize) % BufSize = (i2s_ptr + fill) % BufSize
      <4>1. BufSize \in 0 .. BufSize /\ (i2s_ptr + fill) % BufSize \in 0 .. BufSize - 1
        BY <1>1, <3>1, ModIs
      <4>2. ((i2s_ptr + fill) - BufSize) % BufSize
              = IF (i2s_ptr + fill) % BufSize >= BufSize
                THEN ((i2s_ptr + fill) % BufSize) - BufSize
                ELSE ((i2s_ptr + fill) % BufSize) - BufSize + BufSize
        BY <1>1, <3>1, <4>1, ModBefore
      <4>3. QED
        BY <1>1, <4>1, <4>2
    <3>3. QED
      BY <1>2, <2>1, <3>1, <3>2 DEF RingAligned
  <2>3. CASE ~(i2s_ptr + TransferSize >= BufSize)
    <3>1. i2s_ptr' + fill' = i2s_ptr + fill
      BY <1>1, <2>1, <2>3, CountTypes DEF CptrInc
    <3>2. QED
      BY <1>2, <2>1, <3>1 DEF RingAligned
  <2>4. QED
    BY <2>2, <2>3
<1>6. QED
  <2>1. CASE \E n \in PacketSizes : UsbPacket(n)
    BY <2>1, <1>3 DEF UsbPacket, txVars, i2sVars
  <2>2. CASE TxStep \/ I2sBlockDone
    BY <2>2, <1>3, <1>4, <1>5 DEF TxStep, TxWake, TxDrop, TxAccept, TxPost, i2sVars
  <2>3. CASE MonStep
    BY <2>3, <1>3
       DEF MonStep, MonReceive, MonUpdate, MonTimeout, MonEnable, MonKeep, txVars, i2sVars
  <2>4. CASE UNCHANGED vars
    BY <2>4, <1>3 DEF vars, txVars, i2sVars
  <2>5. QED
    BY <2>1, <2>2, <2>3, <2>4 DEF Next

\* While the output is off after a timeout, only AudioTx posts.
LEMMA StartStep ==
    ASSUME TypeOK, StartCounted, [Next]_vars
    PROVE  StartCounted'
<1>1. CASE UNCHANGED <<mon_pc, i2s_on, txq>>
  BY <1>1 DEF StartCounted
<1>2. CASE mon_pc' # "timeout"
  BY <1>2 DEF StartCounted
<1>3. CASE TxPost
  <2>1. SendDelta(source_buffer_size) /\ UNCHANGED <<mon_pc, i2s_on>>
    BY <1>3 DEF TxPost, monVars
  <2>2. source_buffer_size \in Int /\ source_buffer_size >= 0
    BY CountTypes
  <2>3. SumSeq(txq') \in Int /\ SumSeq(txq') >= SumSeq(txq)
    BY <2>1, <2>2, SendDeltaCounts
  <2>4. QED
    BY <2>1, <2>3, CountTypes DEF StartCounted
<1>4. CASE I2sBlockDone
  BY <1>4 DEF I2sBlockDone, monVars, StartCounted
<1>5. CASE MonTimeout
  BY <1>5, SumEmpty DEF MonTimeout, StartCounted
<1>6. QED
  <2>1. CASE \E n \in PacketSizes : UsbPacket(n)
    BY <2>1, <1>1 DEF UsbPacket, monVars
  <2>2. CASE TxStep
    BY <2>2, <1>1, <1>3 DEF TxStep, TxWake, TxDrop, TxAccept, TxCopy, monVars
  <2>3. CASE MonStep
    BY <2>3, <1>2, <1>5 DEF MonStep, MonReceive, MonUpdate, MonEnable, MonKeep
  <2>4. CASE UNCHANGED vars
    BY <2>4, <1>1 DEF vars, monVars
  <2>5. QED
    BY <2>1, <2>2, <2>3, <2>4, <1>4 DEF Next

\* A block that starts inside the ring ends inside the ring.
LEMMA BlockFits ==
    ASSUME TypeOK, BlockAligned
    PROVE  i2s_ptr + TransferSize <= BufSize
<1>1. PICK n \in 1 .. BufSize : BufSize = n * TransferSize
  BY BlockAssumption
<1>2. PICK j \in Nat : i2s_ptr = j * TransferSize
  BY DEF BlockAligned
<1>3. /\ n \in Nat /\ TransferSize \in Nat \ {0} /\ BufSize \in Nat
      /\ i2s_ptr \in Nat /\ i2s_ptr < BufSize
  BY SizeAssumption DEF TypeOK
<1>4. CASE j < n
  <2>1. PICK m \in Nat : n = (j + 1) + m
    <3>1. n - (j + 1) \in Nat /\ n = (j + 1) + (n - (j + 1))
      BY <1>3, <1>4
    <3>2. QED
      BY <3>1
  <2>2. n * TransferSize = j * TransferSize + TransferSize + m * TransferSize
    BY <1>3, <2>1
  <2>3. m * TransferSize \in Nat
    BY <1>3
  <2>4. QED
    BY <1>1, <1>2, <1>3, <2>2, <2>3
<1>5. CASE ~(j < n)
  <2>1. PICK m \in Nat : j = n + m
    <3>1. j - n \in Nat /\ j = n + (j - n)
      BY <1>3, <1>5
    <3>2. QED
      BY <3>1
  <2>2. j * TransferSize = n * TransferSize + m * TransferSize
    BY <1>3, <2>1
  <2>3. m * TransferSize \in Nat
    BY <1>3
  <2>4. QED
    BY <1>1, <1>2, <1>3, <2>2, <2>3
<1>6. QED
  BY <1>4, <1>5

LEMMA BlockStep ==
    ASSUME TypeOK, BlockAligned, [Next]_vars
    PROVE  BlockAligned'
<1>1. CASE UNCHANGED i2s_ptr
  BY <1>1 DEF BlockAligned
<1>2. CASE I2sBlockDone
  <2>1. i2s_ptr' = CptrInc(i2s_ptr, TransferSize)
    BY <1>2 DEF I2sBlockDone
  <2>2. /\ i2s_ptr + TransferSize <= BufSize /\ i2s_ptr \in Nat
        /\ TransferSize \in Nat /\ BufSize \in Nat
    BY BlockFits, SizeAssumption DEF TypeOK
  <2>3. CASE i2s_ptr + TransferSize = BufSize
    <3>1. i2s_ptr' = 0 /\ 0 = 0 * TransferSize
      BY <2>1, <2>2, <2>3 DEF CptrInc
    <3>2. QED
      BY <3>1 DEF BlockAligned
  <2>4. CASE i2s_ptr + TransferSize # BufSize
    <3>1. PICK j \in Nat : i2s_ptr = j * TransferSize
      BY DEF BlockAligned
    <3>2. i2s_ptr' = i2s_ptr + TransferSize
      BY <2>1, <2>2, <2>4 DEF CptrInc
    <3>3. i2s_ptr' = (j + 1) * TransferSize /\ j + 1 \in Nat
      BY <2>2, <3>1, <3>2
    <3>4. QED
      BY <3>3 DEF BlockAligned
  <2>5. QED
    BY <2>3, <2>4
<1>3. QED
  BY <1>1, <1>2
     DEF Next, UsbPacket, TxStep, TxWake, TxDrop, TxAccept, TxCopy, TxPost, MonStep,
         MonReceive, MonUpdate, MonTimeout, MonEnable, MonKeep, vars, i2sVars

LEMMA AnyInit == Init => ContentAgreed /\ InHand /\ StartCounted /\ BlockAligned
<1> SUFFICES ASSUME Init PROVE ContentAgreed /\ InHand /\ StartCounted /\ BlockAligned
  OBVIOUS
<1>1. /\ txq = <<>> /\ mon_pc = "receive" /\ tx_pc = "wait" /\ buffer_delta_update = 0
      /\ tx_buffer_size = 0 /\ fill = 0 /\ lost = 0 /\ tx_write_ptr = 0 /\ i2s_ptr = 0
  BY DEF Init
<1>2. Accounting
  BY <1>1, SumEmpty, AccountingIs DEF Unposted
<1>3. RingAligned
  <2>1. BufSize \in Nat \ {0} /\ 0 \in 0 .. BufSize - 1
    BY SizeAssumption
  <2>2. 0 % BufSize = 0
    BY <2>1, ModSmall
  <2>3. QED
    BY <1>1, <2>2 DEF RingAligned
<1>4. BlockAligned
  <2>1. 0 = 0 * TransferSize
    BY SizeAssumption
  <2>2. QED
    BY <1>1, <2>1 DEF BlockAligned
<1>5. QED
  BY <1>1, <1>2, <1>3, <1>4 DEF ContentAgreed, InHand, StartCounted

\* The invariant of the audio path at any speed.
THEOREM AnyInvariance == Spec => []AnyInv
<1>1. Init => ContentAgreed /\ InHand /\ StartCounted /\ BlockAligned
  BY AnyInit
<1>2. ASSUME TypeOK, ContentAgreed, InHand, StartCounted, BlockAligned, [Next]_vars
      PROVE  (ContentAgreed /\ InHand /\ StartCounted /\ BlockAligned)'
  BY <1>2, AccountingStep, RingStep, StartStep, BlockStep DEF ContentAgreed
<1>3. QED
  BY <1>1, <1>2, TypeCorrect, HysteresisHolds, PTL DEF Spec, AnyInv

\* The monitor's size and the two pointers tell the same content of the
\* buffer, however the tasks and the interrupts interleave and whatever the
\* full queue refuses.
THEOREM ContentIsAgreed == Spec => []ContentAgreed
<1>1. AnyInv => ContentAgreed
  BY DEF AnyInv
<1>2. QED
  BY <1>1, AnyInvariance, PTL

\* Every start of the output finds half the buffer in truth: what is still
\* uncounted then can only add to what the monitor knows.
THEOREM OutputStartsHalfFull == Spec => StartsHalfFull
<1>1. ASSUME AnyInv, [Next]_vars
      PROVE  [~i2s_on /\ i2s_on' => fill - lost >= ActiveLimit]_vars
  <2> SUFFICES ASSUME ~i2s_on, i2s_on' PROVE fill - lost >= ActiveLimit
    OBVIOUS
  <2>1. MonEnable
    BY <1>1 DEF Next, UsbPacket, TxStep, TxWake, TxDrop, TxAccept, TxCopy, TxPost,
         I2sBlockDone, MonStep, MonReceive, MonUpdate, MonTimeout, MonKeep, vars, monVars
  <2>2. mon_pc = "timeout" /\ tx_buffer_size >= ActiveLimit
    BY <2>1 DEF MonEnable
  <2>3. buffer_delta_update = 0 /\ SumSeq(txq) >= 0
    BY <1>1, <2>2 DEF AnyInv, InHand, StartCounted
  <2>4. fill = tx_buffer_size + (buffer_delta_update + SumSeq(txq) + Unposted) + lost
    BY <1>1, AccountingIs DEF AnyInv, ContentAgreed
  <2>5. TypeOK /\ ActiveLimit \in Nat
    BY <1>1, LimitAssumption DEF AnyInv
  <2>6. QED
    BY <2>2, <2>3, <2>4, <2>5, CountTypes
<1>2. QED
  BY <1>1, AnyInvariance, PTL DEF Spec, StartsHalfFull

\* The bytes of the transfers that copy_into_with_dma chains.
Bytes(chunks) == UNION {c.at .. c.at + c.size - 1 : c \in chunks}

\* The places in the ring of the n bytes from ptr on.
Places(ptr, n) == {(ptr + k) % BufSize : k \in 0 .. n - 1}

\* The chunks are the packet: one or two of them, none of them empty, and
\* their bytes are the next n places of the ring.
LEMMA ChunksArePacket ==
    ASSUME NEW w \in 0 .. BufSize - 1, NEW n \in 0 .. TransferSize
    PROVE  /\ Cardinality(CopyChunks(w, n)) <= 2
           /\ \A c \in CopyChunks(w, n) : c.size > 0
           /\ Bytes(CopyChunks(w, n)) = Places(w, n)
<1>1. /\ BufSize \in Nat \ {0} /\ TransferSize \in Nat /\ TransferSize <= BufSize
      /\ n \in Nat /\ w \in Nat /\ w < BufSize /\ n <= BufSize
  BY SizeAssumption
<1>2. CASE n = 0
  <2>1. CopyChunks(w, n) = {} /\ Places(w, n) = {}
    BY <1>2 DEF CopyChunks, Places
  <2>2. QED
    BY <2>1, FS_EmptySet DEF Bytes
<1>3. CASE n # 0 /\ n <= BufSize - w
  <2> DEFINE c == [at |-> w, size |-> n]
  <2>1. CopyChunks(w, n) = {c}
    BY <1>3 DEF CopyChunks
  <2>2. c.at = w /\ c.size = n
    OBVIOUS
  <2> HIDE DEF c
  <2>3. Cardinality({c}) = 1
    BY FS_Singleton
  <2>4. Bytes({c}) = w .. w + n - 1
    BY <2>2 DEF Bytes
  <2>5. \A k \in 0 .. n - 1 : w + k \in 0 .. BufSize - 1 /\ (w + k) % BufSize = w + k
    BY <1>1, <1>3, ModSmall
  <2>6. Places(w, n) = w .. w + n - 1
    <3>1. ASSUME NEW x \in w .. w + n - 1 PROVE x \in Places(w, n)
      <4>1. x - w \in 0 .. n - 1 /\ w + (x - w) = x
        BY <1>1
      <4>2. QED
        BY <2>5, <4>1 DEF Places
    <3>2. ASSUME NEW k \in 0 .. n - 1 PROVE (w + k) % BufSize \in w .. w + n - 1
      <4>1. w + k \in w .. w + n - 1
        BY <1>1
      <4>2. QED
        BY <2>5, <4>1
    <3>3. QED
      BY <3>1, <3>2 DEF Places
  <2>7. QED
    BY <1>1, <1>3, <2>1, <2>2, <2>3, <2>4, <2>6
<1>4. CASE n > BufSize - w
  <2> DEFINE r == BufSize - w
             c == [at |-> w, size |-> r]
             d == [at |-> 0, size |-> n - r]
  <2>1. n # 0 /\ ~(n <= r) /\ r \in 1 .. n - 1
    BY <1>1, <1>4
  <2>2. CopyChunks(w, n) = {c, d}
    BY <2>1 DEF CopyChunks
  <2>3. c.at = w /\ c.size = r /\ d.at = 0 /\ d.size = n - r
    OBVIOUS
  <2> HIDE DEF c, d
  <2>4. Cardinality({c, d}) <= 2
    <3>1. Cardinality({c}) = 1 /\ IsFiniteSet({c}) /\ {c, d} = {c} \cup {d}
      BY FS_Singleton
    <3>2. Cardinality({c} \cup {d}) \in {1, 2}
      BY <3>1, FS_AddElement
    <3>3. QED
      BY <3>1, <3>2
  <2>5. Bytes({c, d}) = (w .. w + r - 1) \cup (0 .. n - r - 1)
    <3>1. Bytes({c, d}) = (c.at .. c.at + c.size - 1) \cup (d.at .. d.at + d.size - 1)
      BY DEF Bytes
    <3>2. 0 + (n - r) - 1 = n - r - 1
      BY <1>1
    <3>3. QED
      BY <2>3, <3>1, <3>2
  <2>6. \A k \in 0 .. n - 1 :
          (w + k) % BufSize = IF k < r THEN w + k ELSE k - r
    <3>1. ASSUME NEW k \in 0 .. n - 1 PROVE (w + k) % BufSize = IF k < r THEN w + k ELSE k - r
      <4>1. k \in 0 .. BufSize /\ w % BufSize = w
        BY <1>1, ModSmall
      <4>2. (w + k) % BufSize = IF w + k >= BufSize THEN w + k - BufSize ELSE w + k
        BY <1>1, <4>1, ModAfter
      <4>3. QED
        BY <1>1, <4>2
    <3>2. QED
      BY <3>1
  <2>7. Places(w, n) = (w .. w + r - 1) \cup (0 .. n - r - 1)
    <3>1. ASSUME NEW x \in w .. w + r - 1 PROVE x \in Places(w, n)
      <4>1. x - w \in 0 .. n - 1 /\ x - w < r /\ w + (x - w) = x
        BY <1>1, <2>1
      <4>2. (w + (x - w)) % BufSize = x
        BY <2>6, <4>1
      <4>3. QED
        BY <4>1, <4>2 DEF Places
    <3>2. ASSUME NEW x \in 0 .. n - r - 1 PROVE x \in Places(w, n)
      <4>1. PICK k \in 0 .. n - 1 : ~(k < r) /\ k - r = x
        <5>1. r \in Int /\ r \in 1 .. n - 1 /\ n \in Nat
          BY <1>1, <2>1
        <5> DEFINE k == x + r
        <5> HIDE DEF r
        <5>2. k \in 0 .. n - 1 /\ ~(k < r) /\ k - r = x
          BY <5>1
        <5> HIDE DEF k
        <5>3. QED
          BY <5>2
      <4>2. (w + k) % BufSize = x
        BY <2>6, <4>1
      <4>3. QED
        BY <4>2 DEF Places
    <3>3. ASSUME NEW k \in 0 .. n - 1
          PROVE  (w + k) % BufSize \in (w .. w + r - 1) \cup (0 .. n - r - 1)
      <4>1. IF k < r THEN w + k \in w .. w + r - 1 ELSE k - r \in 0 .. n - r - 1
        BY <1>1, <2>1
      <4>2. QED
        BY <2>6, <4>1
    <3>4. QED
      BY <3>1, <3>2, <3>3 DEF Places
  <2>8. c.size > 0 /\ d.size > 0
    BY <1>1, <2>1, <2>3
  <2>9. QED
    BY <2>2, <2>4, <2>5, <2>7, <2>8
<1>5. QED
  BY <1>1, <1>2, <1>3, <1>4

\* The copy DMA is given the whole packet, in one or two pieces that stay
\* inside the buffer, and the write pointer goes where the last one ends.
THEOREM PacketIsCovered == Spec => ChunksCoverPacket
<1>1. ASSUME TypeOK, [Next]_vars
      PROVE  [tx_pc = "copy" /\ tx_pc' = "post" =>
                LET chunks == CopyChunks(tx_write_ptr, source_buffer_size)
                    bytes  == UNION {c.at .. c.at + c.size - 1 : c \in chunks}
                IN  /\ Cardinality(chunks) <= 2
                    /\ \A c \in chunks : c.size > 0
                    /\ bytes = {(tx_write_ptr + k) % BufSize :
                                   k \in 0 .. source_buffer_size - 1}
                    /\ tx_write_ptr' = (tx_write_ptr + source_buffer_size) % BufSize
             ]_vars
  <2> SUFFICES ASSUME tx_pc = "copy", tx_pc' = "post"
               PROVE  LET chunks == CopyChunks(tx_write_ptr, source_buffer_size)
                          bytes  == UNION {c.at .. c.at + c.size - 1 : c \in chunks}
                      IN  /\ Cardinality(chunks) <= 2
                          /\ \A c \in chunks : c.size > 0
                          /\ bytes = {(tx_write_ptr + k) % BufSize :
                                         k \in 0 .. source_buffer_size - 1}
                          /\ tx_write_ptr' = (tx_write_ptr + source_buffer_size) % BufSize
    OBVIOUS
  <2>1. tx_write_ptr' = CptrInc(tx_write_ptr, source_buffer_size)
    BY <1>1 DEF Next, UsbPacket, TxStep, TxWake, TxDrop, TxAccept, TxCopy, TxPost,
         I2sBlockDone, MonStep, MonReceive, MonUpdate, MonTimeout, MonEnable, MonKeep,
         vars, txVars
  <2>2. /\ BufSize \in Nat \ {0} /\ tx_write_ptr \in 0 .. BufSize - 1
        /\ source_buffer_size \in 0 .. TransferSize
        /\ source_buffer_size \in 0 .. BufSize /\ tx_write_ptr \in Int
    BY <1>1, SizeAssumption DEF TypeOK
  <2>3. (tx_write_ptr + source_buffer_size) % BufSize
          = CptrInc(tx_write_ptr % BufSize, source_buffer_size)
    BY <2>2, RingAfter
  <2>4. tx_write_ptr % BufSize = tx_write_ptr
    BY <2>2, ModSmall
  <2>5. QED
    BY <2>1, <2>2, <2>3, <2>4, ChunksArePacket DEF Bytes, Places
<1>2. QED
  BY <1>1, TypeCorrect, PTL DEF Spec, ChunksCoverPacket

-----------------------------------------------------------------------------
(* Spans: the bytes of k blocks *)

Span(k) == k * TransferSize

\* A span grows by one block at a time, from nothing.
LEMMA SpanStep ==
    /\ Span(0) = 0
    /\ \A k \in Nat : Span(k) \in Nat /\ Span(k + 1) = Span(k) + TransferSize
<1>1. Span(0) = 0
  BY SizeAssumption DEF Span
<1>2. ASSUME NEW k \in Nat
      PROVE  Span(k) \in Nat /\ Span(k + 1) = Span(k) + TransferSize
  BY SizeAssumption DEF Span
<1>. QED BY <1>1, <1>2

\* Whatever the monitor's lateness is, one more block fits the limits.
LEMMA SpanBound ==
    ASSUME NEW k \in 0 .. MaxLate
    PROVE  /\ Span(k) <= Span(MaxLate + 1)
           /\ Span(k + 1) <= Span(MaxLate + 1)
<1>1. \A m \in Nat : m * TransferSize \in Nat
  BY SizeAssumption
<1>2. PICK m \in Nat : MaxLate + 1 = k + m
  BY LatenessAssumption
<1>3. (k + m) * TransferSize = k * TransferSize + m * TransferSize
  BY <1>2, SizeAssumption
<1>4. PICK j \in Nat : MaxLate + 1 = (k + 1) + j
  BY LatenessAssumption
<1>5. ((k + 1) + j) * TransferSize
        = (k + 1) * TransferSize + j * TransferSize
  BY <1>4, SizeAssumption
<1>6. Span(k) <= Span(MaxLate + 1)
  BY <1>1, <1>2, <1>3 DEF Span
<1>7. Span(k + 1) <= Span(MaxLate + 1)
  BY <1>1, <1>4, <1>5 DEF Span
<1>. QED BY <1>6, <1>7

\* The limits leave a span of MaxLate + 1 blocks above and below.
LEMMA Margins ==
    /\ Span(MaxLate + 1) \in Nat
    /\ OverflowLimit + Span(MaxLate + 1) <= BufSize
    /\ Span(MaxLate + 1) <= UnderflowLimit
<1>1. MaxLate + 1 \in Nat
  BY LatenessAssumption
<1>. QED BY <1>1, SpanStep, LatenessAssumption DEF Span

-----------------------------------------------------------------------------
(* The inductive invariant *)

One(p) == IF p THEN 1 ELSE 0
Up(d) == IF d > 0 THEN d ELSE 0
Down(d) == IF d < 0 THEN -d ELSE 0

\* AudioTx has a packet, or is about to be told of one.
Busy == notified \/ tx_pc # "wait"

\* Bytes AudioTx has accepted and not posted; a packet it has yet to decide
\* on is reserved a whole block.
Accepted == IF tx_pc \in {"copy", "post"} THEN source_buffer_size ELSE 0
Reserved == IF tx_pc \in {"copy", "post"} THEN source_buffer_size
            ELSE IF Busy THEN TransferSize ELSE 0

\* The pace: AudioTx works on this frame's packet only, and there are no more
\* deltas on their way than frames since the monitor was idle allow.
Pace ==
    /\ packet_in \in BOOLEAN
    /\ block_out \in BOOLEAN
    /\ mon_late \in 0 .. MaxLate
    /\ Busy => packet_in
    /\ notified => tx_pc = "wait"
    /\ CaughtUp => mon_late = 0
    /\ mon_pc # "update" => buffer_delta_update = 0
    /\ Len(txq) + One(mon_pc = "update") + One(Busy)
           <= 2 * mon_late + One(packet_in) + One(block_out)
    /\ lost = 0

\* The books, p and n being what the queued deltas add and take: they balance
\* with the buffer, and what is on its way is bounded by the lateness, so that
\* the buffer cannot leave its bounds before the monitor has noticed.
Books(p, n) ==
    /\ HasTotal(txq, Added, p)
    /\ HasTotal(txq, Taken, n)
    /\ fill = tx_buffer_size + buffer_delta_update + p - n + Unposted
    /\ p + Up(buffer_delta_update) + Reserved <= Span(mon_late + One(packet_in))
    /\ n + Down(buffer_delta_update) <= Span(mon_late + One(block_out))
    /\ tx_buffer_size + Up(buffer_delta_update) + p + Accepted
           < OverflowLimit + Span(MaxLate + 1)
    /\ n + Down(buffer_delta_update) <= tx_buffer_size
    /\ mon_pc = "timeout" /\ ~i2s_on => n = 0

Booked == \E p, n \in Nat : Books(p, n)

IInv == TypeOK /\ Hysteresis /\ Pace /\ Booked

-----------------------------------------------------------------------------
(* The pace is kept *)

LEMMA OneFacts == One(TRUE) = 1 /\ One(FALSE) = 0
BY DEF One

\* While AudioTx is busy the queue has room for its delta, and until this
\* frame's block is played it has room for that one too.
LEMMA QueueHasRoom ==
    ASSUME TypeOK, Pace
    PROVE  Busy \/ ~block_out => Len(txq) < QueueSize
<1>1. Len(txq) \in Nat
  BY DEF TypeOK
<1>2. /\ One(mon_pc = "update") \in {0, 1}
      /\ One(packet_in) \in {0, 1}
      /\ One(block_out) \in {0, 1}
      /\ One(Busy) \in {0, 1}
      /\ Busy => One(Busy) = 1
      /\ ~block_out => One(block_out) = 0
  BY DEF One
<1>3. /\ Len(txq) + One(mon_pc = "update") + One(Busy)
           <= 2 * mon_late + One(packet_in) + One(block_out)
      /\ mon_late \in 0 .. MaxLate
  BY DEF Pace
<1>4. MaxLate \in Nat /\ 2 * (MaxLate + 1) <= QueueSize /\ QueueSize \in Nat
  BY LatenessAssumption, SizeAssumption
<1>. QED BY <1>1, <1>2, <1>3, <1>4

\* So a delta that is sent is queued.
LEMMA SendSucceeds ==
    ASSUME TypeOK, Pace, Busy \/ ~block_out, NEW d, SendDelta(d)
    PROVE  txq' = Append(txq, d) /\ UNCHANGED lost
<1>1. Len(txq) < QueueSize /\ Len(txq) \in Nat /\ QueueSize \in Nat
  BY QueueHasRoom, SizeAssumption DEF TypeOK
<1>. QED BY <1>1 DEF SendDelta

LEMMA PaceStep == TypeOK /\ Pace /\ [TimedNext]_timedVars => Pace'
<1>. SUFFICES ASSUME TypeOK, Pace, [TimedNext]_timedVars PROVE Pace'
  OBVIOUS
<1>1. /\ Len(txq) \in Nat
      /\ mon_late \in Nat
      /\ MaxLate \in Nat
  BY LatenessAssumption DEF TypeOK, Pace
<1>2. ASSUME NEW n \in PacketSizes, TimedPacket(n) PROVE Pace'
  <2>1. /\ packet_in' = TRUE /\ ~packet_in
        /\ notified' = TRUE
        /\ UNCHANGED <<block_out, mon_late, tx_pc, txq, mon_pc,
                       buffer_delta_update, lost>>
    BY <1>2 DEF TimedPacket, UsbPacket, txVars, monVars
  <2>2. ~Busy /\ tx_pc = "wait" /\ Busy'
    BY <2>1 DEF Pace, Busy
  <2>3. One(packet_in') = 1 /\ One(packet_in) = 0 /\ One(Busy') = 1
        /\ One(Busy) = 0
    BY <2>1, <2>2 DEF One
  <2>4. CaughtUp' <=> CaughtUp
    BY <2>1 DEF CaughtUp
  <2>5. One(block_out) \in {0, 1} /\ One(mon_pc = "update") \in {0, 1}
    BY DEF One
  <2>6. (Len(txq) + One(mon_pc = "update") + One(Busy)
           <= 2 * mon_late + One(packet_in) + One(block_out))'
    BY <1>1, <2>1, <2>3, <2>5 DEF Pace
  <2>. QED BY <2>1, <2>2, <2>4, <2>6 DEF Pace
<1>3. CASE TimedTx
  <2>1. UNCHANGED <<packet_in, block_out, mon_late, mon_pc,
                    buffer_delta_update>>
    BY <1>3 DEF TimedTx, frameVars, TxStep, TxWake, TxDrop, TxAccept, TxCopy,
                TxPost, monVars
  <2>2. ~notified' /\ (Busy' => Busy)
    BY <1>3 DEF TimedTx, TxStep, TxWake, TxDrop, TxAccept, TxCopy, TxPost,
                usbVars, Busy, Pace
  <2>3. CASE TxPost
    <3>1. Busy /\ ~Busy'
      BY <2>3, <2>2 DEF TxPost, Busy
    <3>2. txq' = Append(txq, source_buffer_size) /\ UNCHANGED lost
      BY <2>3, <3>1, SendSucceeds DEF TxPost
    <3>3. Len(txq') = Len(txq) + 1 /\ txq' # <<>>
      BY <3>2 DEF TypeOK
    <3>4. One(Busy) = 1 /\ One(Busy') = 0
      BY <3>1 DEF One
    <3>5. One(mon_pc = "update") \in {0, 1}
      BY DEF One
    <3>6. (Len(txq) + One(mon_pc = "update") + One(Busy)
             <= 2 * mon_late + One(packet_in) + One(block_out))'
      BY <1>1, <2>1, <3>3, <3>4, <3>5 DEF Pace
    <3>. QED BY <2>1, <2>2, <3>1, <3>2, <3>3, <3>6 DEF Pace, CaughtUp
  <2>4. CASE TxWake \/ TxDrop \/ TxAccept \/ TxCopy
    <3>1. UNCHANGED <<txq, lost>>
      BY <2>4 DEF TxWake, TxDrop, TxAccept, TxCopy
    <3>2. One(Busy) \in {0, 1} /\ One(Busy') \in {0, 1}
          /\ One(Busy') <= One(Busy)
      BY <2>2 DEF One
    <3>3. One(mon_pc = "update") \in {0, 1} /\ One(packet_in) \in {0, 1}
          /\ One(block_out) \in {0, 1}
      BY DEF One
    <3>4. (Len(txq) + One(mon_pc = "update") + One(Busy)
             <= 2 * mon_late + One(packet_in) + One(block_out))'
      BY <1>1, <2>1, <3>1, <3>2, <3>3 DEF Pace
    <3>. QED BY <2>1, <2>2, <3>1, <3>4 DEF Pace, CaughtUp
  <2>. QED BY <1>3, <2>3, <2>4 DEF TimedTx, TxStep
<1>4. CASE TimedBlock
  <2>1. /\ ~block_out /\ block_out' = TRUE
        /\ SendDelta(-TransferSize)
        /\ UNCHANGED <<packet_in, mon_late, mon_pc, buffer_delta_update,
                       tx_pc, notified>>
    BY <1>4 DEF TimedBlock, I2sBlockDone, usbVars, txVars, monVars
  <2>2. txq' = Append(txq, -TransferSize) /\ UNCHANGED lost
    BY <2>1, SendSucceeds
  <2>3. Len(txq') = Len(txq) + 1 /\ txq' # <<>>
    BY <2>2, SizeAssumption DEF TypeOK
  <2>4. One(block_out) = 0 /\ One(block_out') = 1
    BY <2>1 DEF One
  <2>5. Busy' <=> Busy
    BY <2>1 DEF Busy
  <2>6. One(Busy') = One(Busy)
    BY <2>5 DEF One
  <2>7. One(mon_pc = "update") \in {0, 1} /\ One(packet_in) \in {0, 1}
        /\ One(Busy) \in {0, 1}
    BY DEF One
  <2>8. (Len(txq) + One(mon_pc = "update") + One(Busy)
           <= 2 * mon_late + One(packet_in) + One(block_out))'
    BY <1>1, <2>1, <2>3, <2>4, <2>6, <2>7 DEF Pace
  <2>. QED BY <2>1, <2>2, <2>3, <2>5, <2>8 DEF Pace, CaughtUp
<1>5. CASE TimedMon
  <2>1. /\ mon_late' = (IF CaughtUp' THEN 0 ELSE mon_late)
        /\ UNCHANGED <<packet_in, block_out, tx_pc, notified, lost>>
    BY <1>5 DEF TimedMon, MonStep, MonReceive, MonUpdate, MonTimeout,
                MonEnable, MonKeep, usbVars, txVars
  <2>2. Busy' <=> Busy
    BY <2>1 DEF Busy
  <2>3. /\ Len(txq') \in Nat
        /\ Len(txq') + One(mon_pc' = "update")
             <= Len(txq) + One(mon_pc = "update")
        /\ mon_pc' # "update" => buffer_delta_update' = 0
    <3>1. CASE MonReceive
      <4>1. Len(txq') = Len(txq) - 1 /\ Len(txq) \in Nat \ {0}
            /\ mon_pc = "receive" /\ mon_pc' = "update"
        BY <3>1 DEF MonReceive, TypeOK
      <4>2. One(mon_pc' = "update") = 1 /\ One(mon_pc = "update") = 0
        BY <4>1 DEF One
      <4>. QED BY <4>1, <4>2
    <3>2. CASE MonUpdate
      <4>1. txq' = txq /\ mon_pc' = "receive" /\ buffer_delta_update' = 0
        BY <3>2 DEF MonUpdate
      <4>2. One(mon_pc' = "update") = 0 /\ One(mon_pc = "update") \in {0, 1}
        BY <4>1 DEF One
      <4>. QED BY <4>1, <4>2, <1>1
    <3>3. CASE MonTimeout \/ MonEnable \/ MonKeep
      <4>1. /\ txq' = txq
            /\ buffer_delta_update' = buffer_delta_update
            /\ mon_pc # "update" /\ mon_pc' # "update"
        BY <3>3 DEF MonTimeout, MonEnable, MonKeep
      <4>2. One(mon_pc' = "update") = 0 /\ One(mon_pc = "update") = 0
        BY <4>1 DEF One
      <4>. QED BY <4>1, <4>2, <1>1 DEF Pace
    <3>. QED BY <1>5, <3>1, <3>2, <3>3 DEF TimedMon, MonStep
  <2>4. /\ One(Busy') = One(Busy)
        /\ One(Busy) \in {0, 1}
        /\ Busy => One(packet_in) = 1
        /\ ~Busy => One(Busy) = 0
        /\ One(packet_in) \in {0, 1}
        /\ One(block_out) \in {0, 1}
        /\ One(mon_pc = "update") \in {0, 1}
        /\ One(mon_pc' = "update") \in {0, 1}
    BY <2>2 DEF One, Pace
  <2>5. (Len(txq) + One(mon_pc = "update") + One(Busy)
           <= 2 * mon_late + One(packet_in) + One(block_out))'
    <3>1. CASE CaughtUp'
      <4>1. Len(txq') = 0 /\ mon_pc' = "receive" /\ mon_late' = 0
        BY <3>1, <2>1 DEF CaughtUp
      <4>2. One(mon_pc' = "update") = 0
        BY <4>1 DEF One
      <4>3. One(Busy') <= One(packet_in) /\ One(packet_in') = One(packet_in)
            /\ One(block_out') = One(block_out)
        BY <2>1, <2>4
      <4>. QED BY <4>1, <4>2, <4>3, <2>4
    <3>2. CASE ~CaughtUp'
      <4>1. mon_late' = mon_late
        BY <3>2, <2>1
      <4>2. One(packet_in') = One(packet_in) /\ One(block_out') = One(block_out)
        BY <2>1
      <4>. QED BY <4>1, <4>2, <2>3, <2>4, <1>1 DEF Pace
    <3>. QED BY <3>1, <3>2
  <2>6. mon_late' \in 0 .. MaxLate /\ (CaughtUp' => mon_late' = 0)
    BY <2>1, LatenessAssumption DEF Pace
  <2>. QED BY <2>1, <2>2, <2>3, <2>5, <2>6 DEF Pace
<1>6. CASE Frame
  <2>1. /\ tx_pc = "wait" /\ ~notified
        /\ packet_in' = FALSE /\ block_out' = FALSE
        /\ UNCHANGED <<tx_pc, notified, txq, mon_pc, buffer_delta_update, lost>>
    BY <1>6 DEF Frame, vars, usbVars, txVars, monVars
  <2>2. ~Busy /\ ~Busy'
    BY <2>1 DEF Busy
  <2>3. One(Busy) = 0 /\ One(Busy') = 0 /\ One(packet_in') = 0
        /\ One(block_out') = 0 /\ One(packet_in) \in {0, 1}
        /\ One(block_out) \in {0, 1} /\ One(mon_pc = "update") \in {0, 1}
    BY <2>1, <2>2 DEF One
  <2>4. CaughtUp' <=> CaughtUp
    BY <2>1 DEF CaughtUp
  <2>5. CASE CaughtUp /\ UNCHANGED mon_late
    <3>1. Len(txq) = 0 /\ mon_pc = "receive" /\ mon_late = 0
      BY <2>5 DEF CaughtUp, Pace
    <3>2. One(mon_pc = "update") = 0
      BY <3>1 DEF One
    <3>3. (Len(txq) + One(mon_pc = "update") + One(Busy)
             <= 2 * mon_late + One(packet_in) + One(block_out))'
      BY <2>1, <2>3, <2>5, <3>1, <3>2
    <3>. QED BY <2>1, <2>2, <2>4, <2>5, <3>3 DEF Pace
  <2>6. CASE ~CaughtUp /\ mon_late < MaxLate /\ mon_late' = mon_late + 1
    <3>1. (Len(txq) + One(mon_pc = "update") + One(Busy)
             <= 2 * mon_late + One(packet_in) + One(block_out))'
      BY <1>1, <2>1, <2>3, <2>6 DEF Pace
    <3>2. mon_late' \in 0 .. MaxLate
      BY <1>1, <2>6
    <3>. QED BY <2>1, <2>2, <2>4, <2>6, <3>1, <3>2 DEF Pace
  <2>. QED BY <1>6, <2>5, <2>6 DEF Frame
<1>7. CASE UNCHANGED timedVars
  <2>1. UNCHANGED <<packet_in, block_out, mon_late, tx_pc, notified, txq,
                    mon_pc, buffer_delta_update, lost>>
    BY <1>7 DEF timedVars, frameVars, vars, usbVars, txVars, monVars
  <2>. QED BY <2>1 DEF Pace, Busy, CaughtUp
<1>. QED BY <1>2, <1>3, <1>4, <1>5, <1>6, <1>7 DEF TimedNext

-----------------------------------------------------------------------------
(* The books stay balanced and bounded *)

\* What the types say of the quantities the books add up.
LEMMA Quantities ==
    ASSUME TypeOK, Pace
    PROVE  /\ tx_buffer_size \in Int
           /\ fill \in Int
           /\ buffer_delta_update \in Int
           /\ Up(buffer_delta_update) \in Nat
           /\ Down(buffer_delta_update) \in Nat
           /\ buffer_delta_update
                = Up(buffer_delta_update) - Down(buffer_delta_update)
           /\ source_buffer_size \in 0 .. TransferSize
           /\ TransferSize \in Nat
           /\ OverflowLimit \in Nat
           /\ Accepted \in 0 .. TransferSize
           /\ Unposted \in Nat
           /\ Unposted <= Accepted
           /\ Accepted <= Reserved
           /\ Reserved \in 0 .. TransferSize
           /\ Span(MaxLate + 1) \in Nat
           /\ mon_late \in Nat
           /\ MaxLate \in Nat
<1>1. /\ buffer_delta_update \in Int
      /\ source_buffer_size \in 0 .. TransferSize
      /\ TransferSize \in Nat
  BY SizeAssumption DEF TypeOK
<1>2. /\ Up(buffer_delta_update) \in Nat
      /\ Down(buffer_delta_update) \in Nat
      /\ buffer_delta_update
           = Up(buffer_delta_update) - Down(buffer_delta_update)
  BY <1>1 DEF Up, Down
<1>3. /\ Accepted \in 0 .. TransferSize
      /\ Unposted \in Nat
      /\ Unposted <= Accepted
      /\ Accepted <= Reserved
      /\ Reserved \in 0 .. TransferSize
  BY <1>1 DEF Accepted, Unposted, Reserved
<1>. QED
  BY <1>1, <1>2, <1>3, LimitAssumption, LatenessAssumption, Margins
     DEF TypeOK, Pace

\* The span of the deltas on their way fits the margins.
LEMMA PaceSpans ==
    ASSUME TypeOK, Pace
    PROVE  /\ Span(mon_late + One(packet_in)) \in Nat
           /\ Span(mon_late + One(block_out)) \in Nat
           /\ Span(mon_late + One(packet_in)) <= Span(MaxLate + 1)
           /\ Span(mon_late + One(block_out)) <= Span(MaxLate + 1)
           /\ Span(mon_late + One(TRUE)) = Span(mon_late) + TransferSize
           /\ Span(mon_late + One(FALSE)) = Span(mon_late)
           /\ Span(mon_late) \in Nat
<1>1. mon_late \in 0 .. MaxLate /\ mon_late \in Nat
  BY LatenessAssumption DEF Pace
<1>2. mon_late + 0 = mon_late
  BY <1>1
<1>3. One(packet_in) \in {0, 1} /\ One(block_out) \in {0, 1}
  BY DEF One
<1>4. /\ Span(mon_late) \in Nat
      /\ Span(mon_late + 1) = Span(mon_late) + TransferSize
      /\ Span(mon_late + 1) \in Nat
  BY <1>1, SpanStep, SizeAssumption
<1>5. /\ Span(mon_late) <= Span(MaxLate + 1)
      /\ Span(mon_late + 1) <= Span(MaxLate + 1)
  BY <1>1, SpanBound
<1>. QED BY <1>2, <1>3, <1>4, <1>5, OneFacts

\* A step that leaves the monitor's side and the queue alone keeps the books
\* if what AudioTx holds balances.
LEMMA BooksTxOnly ==
    ASSUME NEW p \in Nat, NEW n \in Nat, Books(p, n),
           UNCHANGED <<txq, tx_buffer_size, buffer_delta_update, mon_late,
                       block_out, mon_pc, i2s_on>>,
           NEW c \in Int, fill' = fill + c, Unposted' = Unposted + c,
           fill \in Int, Unposted \in Int,
           buffer_delta_update \in Int, tx_buffer_size \in Int,
           p + Up(buffer_delta_update) + Reserved'
             <= Span(mon_late + One(packet_in')),
           tx_buffer_size + Up(buffer_delta_update) + p + Accepted'
             < OverflowLimit + Span(MaxLate + 1)
    PROVE  Booked'
<1>1. fill = tx_buffer_size + buffer_delta_update + p - n + Unposted
  BY DEF Books
<1>2. fill' = tx_buffer_size + buffer_delta_update + p - n + Unposted'
  BY <1>1
<1>3. Books(p, n)'
  BY <1>2 DEF Books
<1>. QED BY <1>3 DEF Booked

\* A packet is announced and reserves its block.
LEMMA BooksPacket ==
    ASSUME TypeOK, Pace, Booked, NEW m \in PacketSizes, TimedPacket(m)
    PROVE  Booked'
<1>1. PICK p \in Nat, n \in Nat : Books(p, n)
  BY DEF Booked
<1>2. UNCHANGED <<txq, tx_buffer_size, buffer_delta_update, mon_late,
                  block_out, mon_pc, i2s_on, fill, tx_pc, source_buffer_size>>
  BY DEF TimedPacket, UsbPacket, txVars, monVars
<1>3. packet_in' = TRUE /\ ~packet_in /\ notified'
  BY DEF TimedPacket, UsbPacket
<1>4. tx_pc = "wait" /\ ~notified /\ packet_in = FALSE
  BY <1>3 DEF Pace, Busy
<1>5. Reserved = 0 /\ Reserved' = TransferSize /\ Accepted' = Accepted
      /\ Unposted' = Unposted
  BY <1>2, <1>3, <1>4 DEF Reserved, Accepted, Unposted, Busy
<1>6. Span(mon_late + One(packet_in')) = Span(mon_late) + TransferSize
      /\ Span(mon_late + One(packet_in)) = Span(mon_late)
      /\ Span(mon_late) \in Nat
  BY <1>3, <1>4, PaceSpans
<1>7. p + Up(buffer_delta_update) + Reserved
        <= Span(mon_late + One(packet_in))
  BY <1>1 DEF Books
<1>8. p + Up(buffer_delta_update) + Reserved'
        <= Span(mon_late + One(packet_in'))
  BY <1>5, <1>6, <1>7, Quantities
<1>9. tx_buffer_size + Up(buffer_delta_update) + p + Accepted'
        < OverflowLimit + Span(MaxLate + 1)
  BY <1>1, <1>5 DEF Books
<1>10. fill' = fill + 0 /\ Unposted' = Unposted + 0
  BY <1>2, <1>5, Quantities
<1>. QED BY <1>1, <1>2, <1>8, <1>9, <1>10, Quantities, BooksTxOnly

\* AudioTx accepts a packet only below the overflow limit, and from then on
\* the sum the ceiling bounds can only fall.
LEMMA BooksTx ==
    ASSUME TypeOK, Hysteresis, Pace, Booked, TimedTx
    PROVE  Booked'
<1>1. PICK p \in Nat, n \in Nat : Books(p, n)
  BY DEF Booked
<1>2. UNCHANGED <<packet_in, block_out, mon_late, mon_pc, buffer_delta_update,
                  tx_buffer_size, i2s_on>>
  BY DEF TimedTx, frameVars, TxStep, TxWake, TxDrop, TxAccept, TxCopy, TxPost,
         monVars
<1>3. /\ p + Up(buffer_delta_update) + Reserved
           <= Span(mon_late + One(packet_in))
      /\ tx_buffer_size + Up(buffer_delta_update) + p + Accepted
           < OverflowLimit + Span(MaxLate + 1)
  BY <1>1 DEF Books
<1>4. CASE TxWake
  <2>1. UNCHANGED <<txq, fill>>
    BY <1>4 DEF TxWake
  <2>2. Reserved' = Reserved /\ Accepted' = Accepted /\ Unposted' = Unposted
    BY <1>4 DEF TxWake, Reserved, Accepted, Unposted, Busy
  <2>3. fill' = fill + 0 /\ Unposted' = Unposted + 0
    BY <2>1, <2>2, Quantities
  <2>4. /\ p + Up(buffer_delta_update) + Reserved'
             <= Span(mon_late + One(packet_in'))
        /\ tx_buffer_size + Up(buffer_delta_update) + p + Accepted'
             < OverflowLimit + Span(MaxLate + 1)
    BY <1>2, <1>3, <2>2
  <2>. QED BY <1>1, <1>2, <2>1, <2>3, <2>4, Quantities, BooksTxOnly
<1>5. CASE TxDrop
  <2>1. UNCHANGED <<txq, fill>>
    BY <1>5 DEF TxDrop
  <2>2. Accepted' = 0 /\ Unposted' = 0 /\ Unposted = 0 /\ Reserved' = 0
    BY <1>5 DEF TxDrop, usbVars, Reserved, Accepted, Unposted, Busy, Pace
  <2>3. fill' = fill + 0 /\ Unposted' = Unposted + 0
    BY <2>1, <2>2, Quantities
  <2>4. /\ p + Up(buffer_delta_update) + Reserved'
             <= Span(mon_late + One(packet_in'))
        /\ tx_buffer_size + Up(buffer_delta_update) + p + Accepted'
             < OverflowLimit + Span(MaxLate + 1)
    BY <1>2, <1>3, <2>2, Quantities, PaceSpans
  <2>. QED BY <1>1, <1>2, <2>1, <2>3, <2>4, Quantities, BooksTxOnly
<1>6. CASE TxAccept
  <2>1. UNCHANGED <<txq, fill, source_buffer_size>>
        /\ tx_pc = "check" /\ tx_pc' = "copy"
    BY <1>6 DEF TxAccept
  <2>2. /\ Reserved = TransferSize /\ Reserved' = source_buffer_size
        /\ Accepted' = source_buffer_size /\ Unposted' = 0 /\ Unposted = 0
    BY <2>1 DEF Reserved, Accepted, Unposted, Busy
  <2>3. fill' = fill + 0 /\ Unposted' = Unposted + 0
    BY <2>1, <2>2, Quantities
  <2>4. p + Up(buffer_delta_update) + Reserved'
          <= Span(mon_late + One(packet_in'))
    BY <1>2, <1>3, <2>2, Quantities, PaceSpans
  <2>5. tx_buffer_size < OverflowLimit
    BY <1>6 DEF TxAccept, Hysteresis
  <2>6. tx_buffer_size + Up(buffer_delta_update) + p + Accepted'
          < OverflowLimit + Span(MaxLate + 1)
    BY <1>3, <2>2, <2>5, Quantities, PaceSpans
  <2>. QED BY <1>1, <1>2, <2>1, <2>3, <2>4, <2>6, Quantities, BooksTxOnly
<1>7. CASE TxCopy
  <2>1. /\ UNCHANGED <<txq, source_buffer_size>>
        /\ tx_pc = "copy" /\ tx_pc' = "post"
        /\ fill' = fill + source_buffer_size
    BY <1>7 DEF TxCopy
  <2>2. /\ Reserved' = Reserved /\ Accepted' = Accepted
        /\ Unposted = 0 /\ Unposted' = source_buffer_size
    BY <2>1 DEF Reserved, Accepted, Unposted
  <2>3. Unposted' = Unposted + source_buffer_size /\ source_buffer_size \in Int
    BY <2>2, Quantities
  <2>4. /\ p + Up(buffer_delta_update) + Reserved'
             <= Span(mon_late + One(packet_in'))
        /\ tx_buffer_size + Up(buffer_delta_update) + p + Accepted'
             < OverflowLimit + Span(MaxLate + 1)
    BY <1>2, <1>3, <2>2
  <2>. QED BY <1>1, <1>2, <2>1, <2>3, <2>4, Quantities, BooksTxOnly
<1>8. CASE TxPost
  <2>0. PICK d \in Nat : d = source_buffer_size
    BY Quantities
  <2>1. /\ tx_pc = "post" /\ tx_pc' = "wait" /\ UNCHANGED <<fill, notified>>
        /\ SendDelta(d)
    BY <1>8, <2>0 DEF TxPost, usbVars
  <2>2. ~notified /\ Busy
    BY <2>1 DEF Pace, Busy
  <2>3. txq' = Append(txq, d)
    BY <2>1, <2>2, SendSucceeds
  <2>4. /\ Reserved = d /\ Reserved' = 0 /\ Accepted = d /\ Accepted' = 0
        /\ Unposted = d /\ Unposted' = 0
    BY <2>0, <2>1, <2>2 DEF Reserved, Accepted, Unposted, Busy
  <2>5. d \in Delta /\ d \in Nat /\ txq \in Seq(Delta)
    BY <2>0, SizeAssumption DEF TypeOK, Delta
  <2>6. Added[d] = d /\ Taken[d] = 0
    BY <2>5 DEF Added, Taken
  <2>7. HasTotal(txq', Added, p + d)
    BY <1>1, <2>3, <2>5, <2>6, TotalAppend, WeightTypes DEF Books
  <2>8. HasTotal(txq', Taken, n)
    <3>1. HasTotal(txq', Taken, n + Taken[d])
      BY <1>1, <2>3, <2>5, TotalAppend, WeightTypes DEF Books
    <3>2. n + Taken[d] = n
      BY <2>6
    <3>. QED BY <3>1, <3>2
  <2>9. fill' = tx_buffer_size' + buffer_delta_update' + (p + d) - n + Unposted'
    <3>1. fill = tx_buffer_size + buffer_delta_update + p - n + Unposted
      BY <1>1 DEF Books
    <3>2. fill = tx_buffer_size + buffer_delta_update + (p + d) - n + 0
      <4>1. Unposted = d
        BY <2>4
      <4>. QED BY <3>1, <4>1, Quantities
    <3>. QED BY <3>2, <1>2, <2>1, <2>4
  <2>10. (p + d) + Up(buffer_delta_update') + Reserved'
           <= Span(mon_late' + One(packet_in'))
    <3>1. (p + d) + Up(buffer_delta_update) + 0
            <= Span(mon_late + One(packet_in))
      BY <1>3, <2>4, <2>5, Quantities
    <3>. QED BY <3>1, <1>2, <2>4
  <2>11. tx_buffer_size' + Up(buffer_delta_update') + (p + d) + Accepted'
           < OverflowLimit + Span(MaxLate + 1)
    <3>1. tx_buffer_size + Up(buffer_delta_update) + (p + d) + 0
            < OverflowLimit + Span(MaxLate + 1)
      <4>1. Accepted = d
        BY <2>4
      <4>. QED BY <1>3, <4>1, Quantities
    <3>. QED BY <3>1, <1>2, <2>4
  <2>12. /\ n + Down(buffer_delta_update') <= Span(mon_late' + One(block_out'))
         /\ n + Down(buffer_delta_update') <= tx_buffer_size'
         /\ mon_pc' = "timeout" /\ ~i2s_on' => n = 0
    BY <1>1, <1>2 DEF Books
  <2>13. Books(p + d, n)'
    BY <2>7, <2>8, <2>9, <2>10, <2>11, <2>12 DEF Books
  <2>14. p + d \in Nat
    BY <2>5
  <2>. QED BY <2>13, <2>14 DEF Booked
<1>. QED BY <1>4, <1>5, <1>6, <1>7, <1>8 DEF TimedTx, TxStep

\* A block is played only above the underflow limit, which leaves room for
\* every block the monitor has not counted.
LEMMA BooksBlock ==
    ASSUME TypeOK, Hysteresis, Pace, Booked, TimedBlock
    PROVE  Booked'
<1>1. PICK p \in Nat, n \in Nat : Books(p, n)
  BY DEF Booked
<1>2. /\ UNCHANGED <<mon_late, mon_pc, buffer_delta_update, tx_buffer_size,
                     i2s_on, tx_pc, source_buffer_size, notified, packet_in>>
      /\ SendDelta(-TransferSize)
      /\ fill' = fill - TransferSize
  BY DEF TimedBlock, I2sBlockDone, usbVars, txVars, monVars
<1>3. i2s_on /\ ~block_out /\ block_out = FALSE /\ block_out' = TRUE
  BY DEF TimedBlock, I2sBlockDone, Pace
<1>4. txq' = Append(txq, -TransferSize)
  BY <1>2, <1>3, SendSucceeds
<1>5. -TransferSize \in Delta /\ txq \in Seq(Delta)
  BY SizeAssumption DEF TypeOK, Delta
<1>6. Added[-TransferSize] = 0 /\ Taken[-TransferSize] = TransferSize
  BY <1>5, SizeAssumption DEF Added, Taken
<1>7. HasTotal(txq', Taken, n + TransferSize)
  BY <1>1, <1>4, <1>5, <1>6, TotalAppend, WeightTypes DEF Books
<1>8. HasTotal(txq', Added, p)
  <2>1. HasTotal(txq', Added, p + Added[-TransferSize])
    BY <1>1, <1>4, <1>5, TotalAppend, WeightTypes DEF Books
  <2>2. p + Added[-TransferSize] = p
    BY <1>6
  <2>. QED BY <2>1, <2>2
<1>9. /\ Reserved' = Reserved /\ Accepted' = Accepted /\ Unposted' = Unposted
  BY <1>2 DEF Reserved, Accepted, Unposted, Busy
<1>10. fill' = tx_buffer_size' + buffer_delta_update' + p
                 - (n + TransferSize) + Unposted'
  <2>1. fill = tx_buffer_size + buffer_delta_update + p - n + Unposted
    BY <1>1 DEF Books
  <2>2. fill - TransferSize = tx_buffer_size + buffer_delta_update + p
                                - (n + TransferSize) + Unposted
    BY <2>1, Quantities
  <2>. QED BY <2>2, <1>2, <1>9
<1>11. /\ p + Up(buffer_delta_update') + Reserved'
            <= Span(mon_late' + One(packet_in'))
       /\ tx_buffer_size' + Up(buffer_delta_update') + p + Accepted'
            < OverflowLimit + Span(MaxLate + 1)
  BY <1>1, <1>2, <1>9 DEF Books
<1>12. (n + TransferSize) + Down(buffer_delta_update')
         <= Span(mon_late' + One(block_out'))
  <2>1. n + Down(buffer_delta_update) <= Span(mon_late + One(block_out))
    BY <1>1 DEF Books
  <2>2. /\ Span(mon_late + One(block_out)) = Span(mon_late)
        /\ Span(mon_late + One(block_out')) = Span(mon_late) + TransferSize
        /\ Span(mon_late) \in Nat
    BY <1>3, PaceSpans
  <2>3. (n + TransferSize) + Down(buffer_delta_update)
          <= Span(mon_late + One(block_out'))
    BY <2>1, <2>2, Quantities
  <2>. QED BY <2>3, <1>2
<1>13. (n + TransferSize) + Down(buffer_delta_update') <= tx_buffer_size'
  <2>1. mon_late \in 0 .. MaxLate /\ Span(mon_late) + TransferSize
          = Span(mon_late + 1)
    BY PaceSpans, OneFacts DEF Pace
  <2>2. Span(mon_late + 1) <= Span(MaxLate + 1)
    BY <2>1, SpanBound
  <2>3. n + Down(buffer_delta_update) <= Span(mon_late)
    BY <1>1, <1>3, PaceSpans DEF Books
  <2>4. tx_buffer_size > UnderflowLimit /\ Span(MaxLate + 1) <= UnderflowLimit
    BY <1>3, Margins DEF Hysteresis
  <2>5. Span(mon_late) \in Nat /\ UnderflowLimit \in Nat
    BY PaceSpans, LimitAssumption
  <2>6. (n + TransferSize) + Down(buffer_delta_update) <= tx_buffer_size
    BY <2>1, <2>2, <2>3, <2>4, <2>5, Quantities
  <2>. QED BY <2>6, <1>2
<1>14. ~(mon_pc' = "timeout" /\ ~i2s_on')
  BY <1>2, <1>3
<1>15. Books(p, n + TransferSize)'
  BY <1>7, <1>8, <1>10, <1>11, <1>12, <1>13, <1>14 DEF Books
<1>16. n + TransferSize \in Nat
  BY SizeAssumption
<1>. QED BY <1>15, <1>16 DEF Booked

\* The books after a monitor step, given those on the delta it holds and the
\* queue: if it is idle again nothing is on its way, so lateness may restart.
LEMMA BooksMonLate ==
    ASSUME TypeOK, Pace, NEW p \in Nat, NEW n \in Nat,
           NEW u \in Nat, NEW d \in Nat,
           p + u + Reserved <= Span(mon_late + One(packet_in)),
           n + d <= Span(mon_late + One(block_out)),
           mon_late' = (IF CaughtUp' THEN 0 ELSE mon_late),
           CaughtUp' => p = 0 /\ n = 0 /\ u = 0 /\ d = 0,
           UNCHANGED <<packet_in, block_out>>
    PROVE  /\ p + u + Reserved <= Span(mon_late' + One(packet_in'))
           /\ n + d <= Span(mon_late' + One(block_out'))
<1>1. CASE ~CaughtUp'
  BY <1>1
<1>2. CASE CaughtUp'
  <2>1. mon_late' = 0
    BY <1>2
  <2>2. p = 0 /\ n = 0 /\ u = 0 /\ d = 0
    BY <1>2
  <2>3. /\ Span(0 + One(packet_in)) \in Nat
        /\ Span(0 + One(block_out)) \in Nat
        /\ packet_in => Span(0 + One(packet_in)) = TransferSize
    <3>1. Span(0) = 0 /\ Span(0 + 1) = TransferSize /\ Span(0 + 0) = 0
      BY SpanStep, SizeAssumption
    <3>. QED BY <3>1, SizeAssumption DEF One
  <2>4. Reserved <= Span(0 + One(packet_in))
    <3>1. Reserved # 0 => packet_in
      BY DEF Reserved, Busy, Pace
    <3>. QED BY <3>1, <2>3, Quantities
  <2>5. p + u + Reserved = Reserved /\ n + d = 0
    BY <2>2, Quantities
  <2>. QED BY <2>1, <2>3, <2>4, <2>5
<1>. QED BY <1>1, <1>2

\* What AudioTx holds does not change when another actor moves.
LEMMA TxSideUnchanged ==
    ASSUME UNCHANGED <<notified, tx_pc, source_buffer_size>>
    PROVE  UNCHANGED <<Reserved, Accepted, Unposted>>
BY DEF Reserved, Accepted, Unposted, Busy

\* The monitor moves a delta from the queue to its hands and from there into
\* the size; a timeout finds the queue empty.
LEMMA BooksMon ==
    ASSUME TypeOK, Hysteresis, Pace, Booked, TimedMon
    PROVE  Booked'
<1>1. PICK p \in Nat, n \in Nat : Books(p, n)
  BY DEF Booked
<1>2. /\ UNCHANGED <<notified, tx_pc, source_buffer_size, fill>>
      /\ mon_late' = (IF CaughtUp' THEN 0 ELSE mon_late)
  BY DEF TimedMon, MonStep, MonReceive, MonUpdate, MonTimeout, MonEnable,
         MonKeep, usbVars, txVars
<1>3. UNCHANGED <<packet_in, block_out>>
  BY DEF TimedMon
<1>4. Reserved' = Reserved /\ Accepted' = Accepted /\ Unposted' = Unposted
  BY <1>2, TxSideUnchanged
<1>5. /\ HasTotal(txq, Added, p)
      /\ HasTotal(txq, Taken, n)
      /\ fill = tx_buffer_size + buffer_delta_update + p - n + Unposted
      /\ p + Up(buffer_delta_update) + Reserved
           <= Span(mon_late + One(packet_in))
      /\ n + Down(buffer_delta_update) <= Span(mon_late + One(block_out))
      /\ tx_buffer_size + Up(buffer_delta_update) + p + Accepted
           < OverflowLimit + Span(MaxLate + 1)
      /\ n + Down(buffer_delta_update) <= tx_buffer_size
  BY <1>1 DEF Books
<1>6. CASE MonReceive
  <2>1. /\ mon_pc = "receive" /\ mon_pc' = "update" /\ txq # <<>>
        /\ txq \in Seq(Delta) /\ txq' = Tail(txq)
        /\ buffer_delta_update' = Head(txq)
        /\ UNCHANGED <<tx_buffer_size, i2s_on>>
    BY <1>6 DEF MonReceive, TypeOK, Delta
  <2>2. PICK a \in Nat : p = Added[Head(txq)] + a /\ HasTotal(txq', Added, a)
    BY <1>5, <2>1, TotalTail, WeightTypes
  <2>3. PICK b \in Nat : n = Taken[Head(txq)] + b /\ HasTotal(txq', Taken, b)
    BY <1>5, <2>1, TotalTail, WeightTypes
  <2>4. Head(txq) \in Delta /\ Head(txq) \in Int
    BY <2>1, SizeAssumption DEF Delta
  <2>5. /\ Added[Head(txq)] = Up(buffer_delta_update')
        /\ Taken[Head(txq)] = Down(buffer_delta_update')
    BY <2>1, <2>4 DEF Added, Taken, Up, Down
  <2>6. /\ Up(buffer_delta_update') \in Nat
        /\ Down(buffer_delta_update') \in Nat
        /\ buffer_delta_update'
             = Up(buffer_delta_update') - Down(buffer_delta_update')
    BY <2>1, <2>4 DEF Up, Down
  <2>7. /\ buffer_delta_update = 0
        /\ Up(buffer_delta_update) = 0 /\ Down(buffer_delta_update) = 0
    BY <2>1 DEF Pace, Up, Down
  <2>8. ~CaughtUp' /\ mon_late' = mon_late
    BY <1>2, <2>1 DEF CaughtUp
  <2>9. p = Up(buffer_delta_update') + a /\ n = Down(buffer_delta_update') + b
    BY <2>2, <2>3, <2>5
  <2>10. fill' = tx_buffer_size' + buffer_delta_update' + a - b + Unposted'
    <3>1. fill = tx_buffer_size + buffer_delta_update' + a - b + Unposted
      BY <1>5, <2>6, <2>7, <2>9, Quantities
    <3>. QED BY <3>1, <1>2, <1>4, <2>1
  <2>11. a + Up(buffer_delta_update') + Reserved'
           <= Span(mon_late' + One(packet_in'))
    <3>1. a + Up(buffer_delta_update') + Reserved
            <= Span(mon_late + One(packet_in))
      BY <1>5, <2>6, <2>7, <2>9, Quantities
    <3>. QED BY <3>1, <1>3, <1>4, <2>8
  <2>12. b + Down(buffer_delta_update') <= Span(mon_late' + One(block_out'))
    <3>1. b + Down(buffer_delta_update') <= Span(mon_late + One(block_out))
      BY <1>5, <2>6, <2>7, <2>9, Quantities
    <3>. QED BY <3>1, <1>3, <2>8
  <2>13. tx_buffer_size' + Up(buffer_delta_update') + a + Accepted'
           < OverflowLimit + Span(MaxLate + 1)
    <3>1. tx_buffer_size + Up(buffer_delta_update') + a + Accepted
            < OverflowLimit + Span(MaxLate + 1)
      BY <1>5, <2>6, <2>7, <2>9, Quantities
    <3>. QED BY <3>1, <1>4, <2>1
  <2>14. b + Down(buffer_delta_update') <= tx_buffer_size'
    <3>1. b + Down(buffer_delta_update') <= tx_buffer_size
      BY <1>5, <2>6, <2>7, <2>9, Quantities
    <3>. QED BY <3>1, <2>1
  <2>15. Books(a, b)'
    BY <2>1, <2>2, <2>3, <2>10, <2>11, <2>12, <2>13, <2>14 DEF Books
  <2>. QED BY <2>15 DEF Booked
<1>7. CASE MonUpdate
  <2>1. /\ mon_pc' = "receive" /\ txq' = txq
        /\ buffer_delta_update' = 0
        /\ tx_buffer_size' = tx_buffer_size + buffer_delta_update
    BY <1>7 DEF MonUpdate
  <2>2. /\ Up(buffer_delta_update') = 0 /\ Down(buffer_delta_update') = 0
    BY <2>1 DEF Up, Down
  <2>3. /\ p + 0 + Reserved <= Span(mon_late + One(packet_in))
        /\ n + 0 <= Span(mon_late + One(block_out))
    BY <1>5, Quantities, PaceSpans
  <2>4. CaughtUp' => p = 0 /\ n = 0
    <3>1. CaughtUp' => txq = <<>>
      BY <2>1 DEF CaughtUp
    <3>. QED BY <3>1, <1>5, TotalEmpty
  <2>5. /\ p + 0 + Reserved <= Span(mon_late' + One(packet_in'))
        /\ n + 0 <= Span(mon_late' + One(block_out'))
    BY <1>2, <1>3, <2>3, <2>4, BooksMonLate
  <2>6. /\ p + Up(buffer_delta_update') + Reserved'
             <= Span(mon_late' + One(packet_in'))
        /\ n + Down(buffer_delta_update') <= Span(mon_late' + One(block_out'))
    BY <2>2, <2>5, <1>4
  <2>7. fill' = tx_buffer_size' + buffer_delta_update' + p - n + Unposted'
    <3>1. fill = (tx_buffer_size + buffer_delta_update) + 0 + p - n + Unposted
      BY <1>5, Quantities
    <3>. QED BY <3>1, <1>2, <1>4, <2>1
  <2>8. tx_buffer_size' + Up(buffer_delta_update') + p + Accepted'
          < OverflowLimit + Span(MaxLate + 1)
    <3>1. (tx_buffer_size + buffer_delta_update) + 0 + p + Accepted
            < OverflowLimit + Span(MaxLate + 1)
      BY <1>5, Quantities
    <3>. QED BY <3>1, <1>4, <2>1, <2>2
  <2>9. n + Down(buffer_delta_update') <= tx_buffer_size'
    <3>1. n + 0 <= tx_buffer_size + buffer_delta_update
      BY <1>5, Quantities
    <3>. QED BY <3>1, <2>1, <2>2
  <2>10. Books(p, n)'
    BY <1>5, <2>1, <2>6, <2>7, <2>8, <2>9 DEF Books
  <2>. QED BY <2>10 DEF Booked
<1>8. CASE MonTimeout
  <2>1. /\ mon_pc' = "timeout" /\ txq = <<>>
        /\ UNCHANGED <<txq, buffer_delta_update, tx_buffer_size, i2s_on>>
    BY <1>8 DEF MonTimeout
  <2>2. mon_late' = mon_late
    BY <1>2, <2>1 DEF CaughtUp
  <2>3. n = 0
    BY <1>5, <2>1, TotalEmpty
  <2>4. Books(p, n)'
    BY <1>2, <1>3, <1>4, <1>5, <2>1, <2>2, <2>3 DEF Books
  <2>. QED BY <2>4 DEF Booked
<1>9. CASE MonEnable \/ MonKeep
  <2>1. /\ mon_pc = "timeout" /\ mon_pc' = "receive"
        /\ UNCHANGED <<txq, buffer_delta_update, tx_buffer_size>>
    BY <1>9 DEF MonEnable, MonKeep
  <2>2. /\ Up(buffer_delta_update) = 0 /\ Down(buffer_delta_update) = 0
    BY <2>1 DEF Pace, Up, Down
  <2>3. /\ p + 0 + Reserved <= Span(mon_late + One(packet_in))
        /\ n + 0 <= Span(mon_late + One(block_out))
    BY <1>5, <2>2
  <2>4. CaughtUp' => p = 0 /\ n = 0
    <3>1. CaughtUp' => txq = <<>>
      BY <2>1 DEF CaughtUp
    <3>. QED BY <3>1, <1>5, TotalEmpty
  <2>5. /\ p + 0 + Reserved <= Span(mon_late' + One(packet_in'))
        /\ n + 0 <= Span(mon_late' + One(block_out'))
    BY <1>2, <1>3, <2>3, <2>4, BooksMonLate
  <2>6. /\ p + Up(buffer_delta_update') + Reserved'
             <= Span(mon_late' + One(packet_in'))
        /\ n + Down(buffer_delta_update') <= Span(mon_late' + One(block_out'))
    BY <2>1, <2>2, <2>5, <1>4
  <2>7. Books(p, n)'
    BY <1>2, <1>4, <1>5, <2>1, <2>6 DEF Books
  <2>. QED BY <2>7 DEF Booked
<1>. QED BY <1>6, <1>7, <1>8, <1>9 DEF TimedMon, MonStep

\* A frame boundary widens the span by the block the frame flags gave back.
LEMMA BooksFrame ==
    ASSUME TypeOK, Pace, Booked, Frame
    PROVE  Booked'
<1>1. PICK p \in Nat, n \in Nat : Books(p, n)
  BY DEF Booked
<1>2. /\ UNCHANGED <<txq, fill, tx_buffer_size, buffer_delta_update, mon_pc,
                     i2s_on, notified, tx_pc, source_buffer_size>>
      /\ tx_pc = "wait"
  BY DEF Frame, vars, usbVars, txVars, monVars
<1>3. packet_in' = FALSE /\ block_out' = FALSE
  BY DEF Frame
<1>4. Reserved' = Reserved /\ Accepted' = Accepted /\ Unposted' = Unposted
  BY <1>2, TxSideUnchanged
<1>5. Reserved = 0
  BY <1>2 DEF Frame, Reserved, Busy
<1>6. /\ p + Up(buffer_delta_update) + Reserved
           <= Span(mon_late + One(packet_in))
      /\ n + Down(buffer_delta_update) <= Span(mon_late + One(block_out))
  BY <1>1 DEF Books
<1>7. /\ p + Up(buffer_delta_update) + Reserved <= Span(mon_late')
      /\ n + Down(buffer_delta_update) <= Span(mon_late')
  <2>1. CASE CaughtUp /\ UNCHANGED mon_late
    <3>1. txq = <<>> /\ mon_pc # "update" /\ mon_late' = 0
      BY <2>1 DEF CaughtUp, Pace
    <3>2. p = 0 /\ n = 0
      BY <1>1, <3>1, TotalEmpty DEF Books
    <3>3. Up(buffer_delta_update) = 0 /\ Down(buffer_delta_update) = 0
      BY <3>1 DEF Pace, Up, Down
    <3>. QED BY <1>5, <3>1, <3>2, <3>3, SpanStep
  <2>2. CASE ~CaughtUp /\ mon_late < MaxLate /\ mon_late' = mon_late + 1
    <3>1. /\ Span(mon_late') = Span(mon_late) + TransferSize
          /\ Span(mon_late) \in Nat
      BY <2>2, SpanStep, Quantities
    <3>2. /\ Span(mon_late + One(packet_in)) <= Span(mon_late')
          /\ Span(mon_late + One(block_out)) <= Span(mon_late')
      <4>1. /\ Span(mon_late + One(packet_in))
                 \in {Span(mon_late), Span(mon_late) + TransferSize}
            /\ Span(mon_late + One(block_out))
                 \in {Span(mon_late), Span(mon_late) + TransferSize}
        BY PaceSpans DEF Pace
      <4>. QED BY <4>1, <3>1, Quantities
    <3>. QED BY <1>6, <3>1, <3>2, Quantities, PaceSpans
  <2>. QED BY <2>1, <2>2 DEF Frame
<1>8. Span(mon_late' + One(packet_in')) = Span(mon_late')
      /\ Span(mon_late' + One(block_out')) = Span(mon_late')
  <2>1. mon_late' \in Nat
    BY Quantities DEF Frame
  <2>2. One(packet_in') = 0 /\ One(block_out') = 0
    BY <1>3 DEF One
  <2>3. mon_late' + 0 = mon_late'
    <3>1. \A k \in Nat : k + 0 = k
      OBVIOUS
    <3>. QED BY <2>1, <3>1
  <2>. QED BY <2>2, <2>3
<1>9. Books(p, n)'
  BY <1>1, <1>2, <1>4, <1>7, <1>8 DEF Books
<1>. QED BY <1>9 DEF Booked

-----------------------------------------------------------------------------
(* Theorems *)

\* Every step of the timed path is a step of AudioTx or leaves it alone.
LEMMA TimedStepIsStep == [TimedNext]_timedVars => [Next]_vars
<1>. SUFFICES ASSUME [TimedNext]_timedVars PROVE [Next]_vars
  OBVIOUS
<1>1. CASE \E n \in PacketSizes : TimedPacket(n)
  BY <1>1 DEF TimedPacket, Next
<1>2. CASE TimedTx \/ TimedBlock \/ TimedMon
  BY <1>2 DEF TimedTx, TimedBlock, TimedMon, Next
<1>3. CASE Frame \/ UNCHANGED timedVars
  BY <1>3 DEF Frame, timedVars
<1>. QED BY <1>1, <1>2, <1>3 DEF TimedNext

\* Pacing only takes behaviours away: what holds of AudioTx at any speed
\* holds at the pace of the hardware.
THEOREM TimedImplementsAudioTx == TimedSpec => Spec
<1>1. TimedInit => Init
  BY DEF TimedInit
<1>. QED BY <1>1, TimedStepIsStep, PTL DEF TimedSpec, Spec

LEMMA BookedStep ==
    TypeOK /\ Hysteresis /\ Pace /\ Booked /\ [TimedNext]_timedVars => Booked'
<1>. SUFFICES ASSUME TypeOK, Hysteresis, Pace, Booked, [TimedNext]_timedVars
              PROVE  Booked'
  OBVIOUS
<1>1. CASE UNCHANGED timedVars
  <2>1. PICK p \in Nat, n \in Nat : Books(p, n)
    BY DEF Booked
  <2>2. UNCHANGED <<txq, fill, tx_buffer_size, buffer_delta_update, mon_pc,
                    mon_late, packet_in, block_out, i2s_on, notified, tx_pc,
                    source_buffer_size>>
    BY <1>1 DEF timedVars, vars, usbVars, txVars, monVars, frameVars
  <2>3. Reserved' = Reserved /\ Accepted' = Accepted /\ Unposted' = Unposted
    BY <2>2, TxSideUnchanged
  <2>4. Books(p, n)'
    BY <2>1, <2>2, <2>3 DEF Books
  <2>. QED BY <2>4 DEF Booked
<1>2. CASE \E n \in PacketSizes : TimedPacket(n)
  BY <1>2, BooksPacket
<1>3. CASE TimedTx
  BY <1>3, BooksTx
<1>4. CASE TimedBlock
  BY <1>4, BooksBlock
<1>5. CASE TimedMon
  BY <1>5, BooksMon
<1>6. CASE Frame
  BY <1>6, BooksFrame
<1>. QED BY <1>1, <1>2, <1>3, <1>4, <1>5, <1>6 DEF TimedNext

\* IInv holds at first ...
LEMMA InvInit == TimedInit => Pace /\ Booked
<1>. SUFFICES ASSUME TimedInit PROVE Pace /\ Booked
  OBVIOUS
<1>1. /\ notified = FALSE /\ packet_in = FALSE /\ block_out = FALSE
      /\ i2s_on = FALSE
  BY Zenon DEF TimedInit, Init
<1>2. /\ tx_pc = "wait" /\ txq = <<>> /\ mon_pc = "receive"
      /\ buffer_delta_update = 0 /\ tx_buffer_size = 0 /\ fill = 0
      /\ lost = 0 /\ mon_late = 0 /\ source_buffer_size = 0
  BY DEF TimedInit, Init
<1>3. ~Busy /\ One(Busy) = 0 /\ One(packet_in) = 0 /\ One(block_out) = 0
      /\ One(mon_pc = "update") = 0
  BY <1>1, <1>2 DEF Busy, One
<1>4. Reserved = 0 /\ Accepted = 0 /\ Unposted = 0
  BY <1>2, <1>3 DEF Reserved, Accepted, Unposted
<1>5. Len(txq) = 0 /\ 0 \in 0 .. MaxLate
  BY <1>2, LatenessAssumption
<1>6. Pace
  <2>1. packet_in \in BOOLEAN /\ block_out \in BOOLEAN /\ ~notified
    BY <1>1, Zenon
  <2>2. Len(txq) + One(mon_pc = "update") + One(Busy)
          <= 2 * mon_late + One(packet_in) + One(block_out)
    BY <1>2, <1>3, <1>5
  <2>. QED BY <1>2, <1>3, <1>5, <2>1, <2>2 DEF Pace
<1>7. Up(buffer_delta_update) = 0 /\ Down(buffer_delta_update) = 0
  BY <1>2 DEF Up, Down
<1>8. HasTotal(txq, Added, 0) /\ HasTotal(txq, Taken, 0)
  BY <1>2, TotalEmpty
<1>9. Span(mon_late + One(packet_in)) = 0 /\ Span(mon_late + One(block_out)) = 0
  BY <1>2, <1>3, SpanStep
<1>10. 0 < OverflowLimit + Span(MaxLate + 1)
  BY Margins, LimitAssumption
<1>11. Books(0, 0)
  BY <1>2, <1>4, <1>7, <1>8, <1>9, <1>10 DEF Books
<1>. QED BY <1>6, <1>11 DEF Booked

\* ... and always.
THEOREM Invariance == TimedSpec => []IInv
<1>1. TimedInit => Pace /\ Booked
  BY InvInit
<1>2. TypeOK /\ Pace /\ [TimedNext]_timedVars => Pace'
  BY PaceStep
<1>3. TypeOK /\ Hysteresis /\ Pace /\ Booked /\ [TimedNext]_timedVars
        => Booked'
  BY BookedStep
<1>. QED
  BY <1>1, <1>2, <1>3, TimedImplementsAudioTx, TypeCorrect, HysteresisHolds,
     PTL DEF TimedSpec, IInv

\* The delta queue of 2 * (MaxLate + 1) items never refuses a delta, although
\* neither sender waits nor looks: the monitor's books are exact.
THEOREM NoDeltaIsLost == TimedSpec => []NoLostDelta
<1>1. IInv => NoLostDelta
  BY DEF IInv, Pace, NoLostDelta
<1>. QED BY <1>1, Invariance, PTL

\* What the books say of the buffer itself: it is never less than empty, and
\* with the packet AudioTx is about to copy it is at most full.
LEMMA FillBounds ==
    ASSUME IInv
    PROVE  /\ fill \in Nat
           /\ fill + (Accepted - Unposted) <= BufSize
<1>1. PICK p \in Nat, n \in Nat : Books(p, n)
  BY DEF IInv, Booked
<1>2. TypeOK /\ Pace
  BY DEF IInv
<1>3. /\ fill = tx_buffer_size + buffer_delta_update + p - n + Unposted
      /\ tx_buffer_size + Up(buffer_delta_update) + p + Accepted
           < OverflowLimit + Span(MaxLate + 1)
      /\ n + Down(buffer_delta_update) <= tx_buffer_size
  BY <1>1 DEF Books
<1>4. fill >= 0
  BY <1>2, <1>3, Quantities
<1>5. fill + (Accepted - Unposted)
        < OverflowLimit + Span(MaxLate + 1)
  BY <1>2, <1>3, Quantities
<1>6. BufSize \in Nat
  BY SizeAssumption
<1>. QED BY <1>2, <1>4, <1>5, <1>6, Quantities, Margins

\* A block that is played was in the buffer as a whole: the output runs only
\* above the underflow limit, which exceeds what the monitor can have missed.
LEMMA BlockIsThere ==
    ASSUME IInv, TimedBlock
    PROVE  fill >= TransferSize
<1>1. PICK p \in Nat, n \in Nat : Books(p, n)
  BY DEF IInv, Booked
<1>2. TypeOK /\ Pace
  BY DEF IInv
<1>3. ~block_out /\ i2s_on
  BY DEF TimedBlock, I2sBlockDone
<1>4. tx_buffer_size > UnderflowLimit /\ UnderflowLimit \in Nat
  BY <1>3, LimitAssumption DEF IInv, Hysteresis
<1>5. block_out = FALSE
  BY <1>2, <1>3 DEF Pace
<1>6. Span(mon_late + One(block_out)) = Span(mon_late)
  BY <1>2, <1>5, PaceSpans
<1>7. /\ fill = tx_buffer_size + buffer_delta_update + p - n + Unposted
      /\ n + Down(buffer_delta_update) <= Span(mon_late)
  BY <1>1, <1>6 DEF Books
<1>8. mon_late \in 0 .. MaxLate /\ Span(mon_late + 1)
        = Span(mon_late) + TransferSize
  BY <1>2, SpanStep, Quantities DEF Pace
<1>9. Span(mon_late) + TransferSize <= UnderflowLimit
  BY <1>2, <1>4, <1>8, SpanBound, Margins, PaceSpans, Quantities
<1>. QED BY <1>2, <1>4, <1>7, <1>9, PaceSpans, Quantities

\* A start finds at least the active limit in the buffer: a timeout means the
\* queue was empty, and while the output is off nothing takes bytes away.
LEMMA StartHasReserve ==
    ASSUME IInv, MonEnable
    PROVE  fill >= ActiveLimit
<1>1. PICK p \in Nat, n \in Nat : Books(p, n)
  BY DEF IInv, Booked
<1>2. TypeOK /\ Pace
  BY DEF IInv
<1>3. ~i2s_on /\ tx_buffer_size >= ActiveLimit /\ mon_pc = "timeout"
  BY DEF MonEnable, IInv, Hysteresis
<1>4. n = 0
  BY <1>1, <1>3 DEF Books
<1>5. buffer_delta_update = 0
  BY <1>2, <1>3 DEF Pace
<1>6. fill = tx_buffer_size + buffer_delta_update + p - n + Unposted
  BY <1>1 DEF Books
<1>. QED BY <1>2, <1>3, <1>4, <1>5, <1>6, LimitAssumption, Quantities

\* A stop finds at most the underflow limit and what was on its way.
LEMMA StopIsLow ==
    ASSUME IInv, Underflows(tx_buffer_size + buffer_delta_update)
    PROVE  fill <= UnderflowLimit + Span(MaxLate + 1)
<1>1. PICK p \in Nat, n \in Nat : Books(p, n)
  BY DEF IInv, Booked
<1>2. TypeOK /\ Pace
  BY DEF IInv
<1>3. /\ fill = tx_buffer_size + buffer_delta_update + p - n + Unposted
      /\ p + Up(buffer_delta_update) + Reserved
           <= Span(mon_late + One(packet_in))
  BY <1>1 DEF Books
<1>4. p + Unposted <= Span(MaxLate + 1)
  BY <1>2, <1>3, Quantities, PaceSpans
<1>5. tx_buffer_size + buffer_delta_update <= UnderflowLimit
  BY DEF Underflows
<1>. QED BY <1>2, <1>3, <1>4, <1>5, LimitAssumption, Quantities

\* Every step of the path is a step of the abstract buffer, or a stutter.
LEMMA ElasticStep ==
    IInv /\ [TimedNext]_timedVars => [Elastic!Next]_<<fill, i2s_on>>
<1>. SUFFICES ASSUME IInv, [TimedNext]_timedVars
              PROVE  [Elastic!Next]_<<fill, i2s_on>>
  OBVIOUS
<1>1. CASE UNCHANGED <<fill, i2s_on>>
  BY <1>1
<1>2. CASE TxCopy
  <2>1. /\ tx_pc = "copy"
        /\ fill' = fill + source_buffer_size
        /\ UNCHANGED i2s_on
    BY <1>2 DEF TxCopy, monVars
  <2>2. Accepted = source_buffer_size /\ Unposted = 0
    BY <2>1 DEF Accepted, Unposted
  <2>3. source_buffer_size \in 0 .. TransferSize
    BY DEF IInv, TypeOK
  <2>4. fill + source_buffer_size <= BufSize
    BY <2>2, <2>3, FillBounds
  <2>5. Elastic!Write(source_buffer_size)
    BY <2>1, <2>4 DEF Elastic!Write
  <2>. QED BY <2>3, <2>5 DEF Elastic!Next
<1>3. CASE TimedBlock
  <2>1. i2s_on /\ fill' = fill - TransferSize /\ UNCHANGED i2s_on
    BY <1>3 DEF TimedBlock, I2sBlockDone, monVars
  <2>2. fill >= TransferSize
    BY <1>3, BlockIsThere
  <2>. QED BY <2>1, <2>2 DEF Elastic!Play, Elastic!Next
<1>4. CASE MonEnable
  <2>1. /\ ~i2s_on /\ i2s_on' = TRUE /\ UNCHANGED fill
    BY <1>4 DEF MonEnable, IInv, Hysteresis
  <2>2. fill >= ActiveLimit
    BY <1>4, StartHasReserve
  <2>. QED BY <2>1, <2>2 DEF Elastic!Start, Elastic!Next
<1>5. CASE MonUpdate
  <2>. DEFINE low == Underflows(tx_buffer_size + buffer_delta_update)
  <2>1. i2s_on' = (i2s_on /\ ~low) /\ UNCHANGED fill
    BY <1>5 DEF MonUpdate
  <2>2. CASE low
    <3>1. fill <= UnderflowLimit + Span(MaxLate + 1)
      BY <2>2, StopIsLow
    <3>2. i2s_on /\ i2s_on' = FALSE
      BY <2>1, <2>2 DEF Underflows, IInv, Hysteresis
    <3>. QED BY <2>1, <3>1, <3>2 DEF Elastic!Stop, Elastic!Next, Span
  <2>3. CASE ~low
    <3>1. i2s_on' = i2s_on
      BY <2>1, <2>3 DEF IInv, TypeOK
    <3>. QED BY <2>1, <3>1
  <2>. QED BY <2>2, <2>3
<1>6. UNCHANGED <<fill, i2s_on>> \/ TxCopy \/ TimedBlock \/ MonEnable
        \/ MonUpdate
  <2>1. CASE UNCHANGED timedVars \/ Frame
    BY <2>1 DEF timedVars, Frame, vars, monVars
  <2>2. CASE \E n \in PacketSizes : TimedPacket(n)
    BY <2>2 DEF TimedPacket, UsbPacket, monVars
  <2>3. CASE TimedTx
    BY <2>3 DEF TimedTx, TxStep, TxWake, TxDrop, TxAccept, TxPost, monVars
  <2>4. CASE TimedBlock
    BY <2>4
  <2>5. CASE TimedMon
    BY <2>5 DEF TimedMon, MonStep, MonReceive, MonTimeout, MonKeep
  <2>. QED BY <2>1, <2>2, <2>3, <2>4, <2>5 DEF TimedNext
<1>. QED BY <1>1, <1>2, <1>3, <1>4, <1>5, <1>6

\* The tasks, the queue and the interrupt together implement the abstract
\* buffer: no overrun, no underrun, a start from half full, a stop when low.
THEOREM ElasticRefinement == TimedSpec => ElasticSpec
<1>1. TimedInit => Elastic!Init
  BY DEF TimedInit, Init, Elastic!Init
<1>2. IInv /\ [TimedNext]_timedVars => [Elastic!Next]_<<fill, i2s_on>>
  BY ElasticStep
<1>. QED BY <1>1, <1>2, Invariance, PTL DEF TimedSpec, ElasticSpec, Elastic!Spec

\* A packet is dropped only when the buffer holds more than half, less the
\* blocks the monitor can have missed.
THEOREM DropsOnlyAboveHalf == TimedSpec => DropsAboveHalf
<1>1. ASSUME IInv, [TimedNext]_timedVars
      PROVE  [tx_pc = "check" /\ tx_pc' = "wait" =>
                fill > ActiveLimit - (MaxLate + 1) * TransferSize]_timedVars
  <2>. SUFFICES ASSUME tx_pc = "check", tx_pc' = "wait"
                PROVE  fill > ActiveLimit - (MaxLate + 1) * TransferSize
    OBVIOUS
  <2>1. TxDrop
    BY <1>1 DEF TimedNext, TimedPacket, UsbPacket, TimedTx, TxStep, TxWake,
                TxAccept, TxCopy, TxPost, TimedBlock, I2sBlockDone, TimedMon,
                MonStep, MonReceive, MonUpdate, MonTimeout, MonEnable, MonKeep,
                Frame, timedVars, vars, txVars
  <2>2. tx_buffer_size > ActiveLimit
    BY <1>1, <2>1 DEF TxDrop, IInv, Hysteresis
  <2>3. TypeOK /\ Pace
    BY <1>1 DEF IInv
  <2>4. PICK p \in Nat, n \in Nat : Books(p, n)
    BY <1>1 DEF IInv, Booked
  <2>5. /\ fill = tx_buffer_size + buffer_delta_update + p - n + Unposted
        /\ n + Down(buffer_delta_update) <= Span(mon_late + One(block_out))
    BY <2>4 DEF Books
  <2>6. n + Down(buffer_delta_update) <= Span(MaxLate + 1)
    BY <2>3, <2>5, Quantities, PaceSpans
  <2>7. fill > ActiveLimit - Span(MaxLate + 1)
    BY <2>2, <2>3, <2>5, <2>6, LimitAssumption, Quantities
  <2>. QED BY <2>7 DEF Span
<1>. QED BY <1>1, Invariance, PTL DEF TimedSpec, DropsAboveHalf

\* A place counted from a place of the ring.
LEMMA RingPlace ==
    ASSUME NEW x \in Int, NEW k \in 0 .. BufSize
    PROVE  ((x % BufSize) + k) % BufSize = (x + k) % BufSize
<1> DEFINE p == x % BufSize
<1>1. BufSize \in Nat \ {0}
  BY SizeAssumption
<1>2. p \in 0 .. BufSize - 1 /\ p \in Int
  BY <1>1, ModIs
<1>3. (x + k) % BufSize = CptrInc(p, k)
  BY RingAfter
<1> HIDE DEF p
<1>4. p % BufSize = p
  BY <1>1, <1>2, ModSmall
<1>5. (p + k) % BufSize = CptrInc(p, k)
  BY <1>2, <1>4, RingAfter
<1>6. QED
  BY <1>3, <1>5 DEF p

\* The packet goes where nothing waits to be played.
LEMMA PacketIsBehind ==
    ASSUME IInv, AnyInv, tx_pc = "copy"
    PROVE  Places(tx_write_ptr, source_buffer_size) \cap Unplayed = {}
<1>1. /\ fill \in Nat /\ fill + source_buffer_size <= BufSize
      /\ source_buffer_size \in Nat
  <2>1. Accepted = source_buffer_size /\ Unposted = 0
    BY DEF Accepted, Unposted
  <2>2. source_buffer_size \in Nat
    BY SizeAssumption DEF IInv, TypeOK
  <2>3. QED
    BY <2>1, <2>2, FillBounds
<1>2. /\ BufSize \in Nat \ {0} /\ i2s_ptr \in Nat
      /\ tx_write_ptr = (i2s_ptr + fill) % BufSize
  BY SizeAssumption DEF IInv, TypeOK, AnyInv, ContentAgreed, RingAligned
<1>3. ASSUME NEW k \in 0 .. source_buffer_size - 1, NEW j \in 0 .. fill - 1
      PROVE  (tx_write_ptr + k) % BufSize # (i2s_ptr + j) % BufSize
  <2>1. i2s_ptr + fill \in Int /\ k \in 0 .. BufSize
    BY <1>1, <1>2
  <2>2. (tx_write_ptr + k) % BufSize = (i2s_ptr + fill + k) % BufSize
    BY <1>2, <2>1, RingPlace
  <2> DEFINE x == i2s_ptr + j
             d == fill - j + k
  <2>3. x \in Int /\ d \in 1 .. BufSize - 1 /\ i2s_ptr + fill + k = x + d
    BY <1>1, <1>2
  <2> HIDE DEF x, d
  <2>4. (x + d) % BufSize # x % BufSize
    BY <1>2, <2>3, ModDistinct
  <2>5. QED
    BY <2>2, <2>3, <2>4 DEF x
<1>4. QED
  BY <1>3 DEF Places, Unplayed

\* The block the DMA has played was there as a whole, in one piece.
LEMMA BlockIsUnplayed ==
    ASSUME IInv, AnyInv, TimedBlock
    PROVE  (i2s_ptr .. i2s_ptr + TransferSize - 1) \subseteq Unplayed
<1>1. /\ fill \in Int /\ fill >= TransferSize /\ i2s_ptr + TransferSize <= BufSize
      /\ i2s_ptr \in Nat /\ BufSize \in Nat \ {0} /\ TransferSize \in Nat
  BY BlockIsThere, BlockFits, SizeAssumption DEF IInv, TypeOK, AnyInv
<1>2. ASSUME NEW x \in i2s_ptr .. i2s_ptr + TransferSize - 1
      PROVE  x \in Unplayed
  <2> DEFINE k == x - i2s_ptr
  <2>1. k \in 0 .. fill - 1 /\ i2s_ptr + k = x /\ x \in 0 .. BufSize - 1
    BY <1>1
  <2> HIDE DEF k
  <2>2. (i2s_ptr + k) % BufSize = x
    BY <1>1, <2>1, ModSmall
  <2>3. QED
    BY <2>1, <2>2 DEF Unplayed
<1>3. QED
  BY <1>2

\* Every byte of the ring is written once and played once, in turn: the copy
\* DMA touches no byte that waits to be played, and the I2S DMA plays none
\* that was not copied in since it was last there.
THEOREM BytesAreInTurn == TimedSpec => BytesInTurn
<1>1. ASSUME IInv, AnyInv, [TimedNext]_timedVars
      PROVE  [tx_pc = "copy" /\ tx_pc' = "post" =>
                \A c \in CopyChunks(tx_write_ptr, source_buffer_size) :
                   (c.at .. c.at + c.size - 1) \cap Unplayed = {}]_timedVars
  <2> SUFFICES ASSUME tx_pc = "copy",
                      NEW c \in CopyChunks(tx_write_ptr, source_buffer_size)
               PROVE  (c.at .. c.at + c.size - 1) \cap Unplayed = {}
    OBVIOUS
  <2>1. tx_write_ptr \in 0 .. BufSize - 1 /\ source_buffer_size \in 0 .. TransferSize
    BY <1>1 DEF IInv, TypeOK
  <2>2. (c.at .. c.at + c.size - 1) \subseteq Bytes(CopyChunks(tx_write_ptr, source_buffer_size))
    BY DEF Bytes
  <2>3. (c.at .. c.at + c.size - 1) \subseteq Places(tx_write_ptr, source_buffer_size)
    BY <2>1, <2>2, ChunksArePacket
  <2>4. QED
    BY <1>1, <2>3, PacketIsBehind
<1>2. ASSUME IInv, AnyInv, [TimedNext]_timedVars
      PROVE  [i2s_ptr' # i2s_ptr =>
                (i2s_ptr .. i2s_ptr + TransferSize - 1) \subseteq Unplayed]_timedVars
  <2>1. i2s_ptr' # i2s_ptr => TimedBlock
    BY <1>2 DEF TimedNext, TimedPacket, UsbPacket, TimedTx, TxStep, TxWake, TxDrop,
         TxAccept, TxCopy, TxPost, TimedMon, MonStep, MonReceive, MonUpdate,
         MonTimeout, MonEnable, MonKeep, Frame, timedVars, vars, i2sVars
  <2>2. QED
    BY <1>2, <2>1, BlockIsUnplayed
<1>3. TimedSpec => []AnyInv
  BY TimedImplementsAudioTx, AnyInvariance, PTL
<1>4. TimedSpec => NoOverwrite
  BY <1>1, <1>3, Invariance, PTL DEF TimedSpec, NoOverwrite
<1>5. TimedSpec => PlaysFresh
  BY <1>2, <1>3, Invariance, PTL DEF TimedSpec, PlaysFresh
<1>6. QED
  BY <1>4, <1>5, PTL DEF BytesInTurn

=============================================================================
