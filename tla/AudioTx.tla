------------------------------- MODULE AudioTx -------------------------------
(***************************************************************************)
(* The audio output path of the DAC (audio_tx.c): USB packets go through   *)
(* the AudioTx task into a circular transmit buffer, the I2S DMA plays the *)
(* buffer block by block, and the AudioTxMonitor task keeps the size of    *)
(* the buffer from the deltas that AudioTx and the I2S interrupt post on   *)
(* TxBufferDeltaQueue.  From that size alone the monitor decides when the  *)
(* output runs (ACTIVE) and when packets are dropped (OVERFLOW).           *)
(*                                                                         *)
(* This module lets the two tasks and the interrupts interleave in every   *)
(* order and at every speed.  AudioTxTimed adds the pace of the hardware.  *)
(***************************************************************************)
EXTENDS Integers, Sequences, FiniteSets, Functions

CONSTANTS
    TransferSize,    \* AUDIO_TX_TRANSFER_SIZE: bytes of one I2S DMA block
    BufSize,         \* AUDIO_TX_BUF_SIZE
    ActiveLimit,     \* AUDIO_TX_ACTIVE_LIMIT
    OverflowLimit,   \* AUDIO_TX_OVERFLOW_LIMIT
    UnderflowLimit,  \* AUDIO_TX_UNDERFLOW_LIMIT
    QueueSize,       \* AUDIO_TX_DELTA_QUEUE_SIZE
    PacketSizes      \* the byte counts a USB packet may have

ASSUME SizeAssumption ==
    /\ TransferSize \in Nat \ {0}
    /\ BufSize \in Nat \ {0}
    /\ QueueSize \in Nat \ {0}
    /\ TransferSize <= BufSize

\* The buffer is a whole number of blocks (AUDIO_TX_N_TDS of them), so that
\* the block the DMA reads never straddles its end.
ASSUME BlockAssumption == \E n \in 1 .. BufSize : BufSize = n * TransferSize

\* project_config.h orders the limits; USB_AUDIO_EP_BUF_SIZE is one block.
ASSUME LimitAssumption ==
    /\ UnderflowLimit \in Nat
    /\ ActiveLimit \in Nat
    /\ OverflowLimit \in Nat
    /\ UnderflowLimit < ActiveLimit
    /\ ActiveLimit < OverflowLimit

ASSUME PacketAssumption == PacketSizes \subseteq 0 .. TransferSize

-----------------------------------------------------------------------------

VARIABLES
    notified,            \* AudioTx's task notification is pending
    notify_value,        \* and its value: the bytes of the last packet
    tx_pc,               \* where AudioTx is: wait, check, copy or post
    source_buffer_size,  \* AudioTx's local: bytes of the packet in hand, 0 if none
    tx_write_ptr,        \* offset of tx_write_ptr in tx_buffer
    i2s_ptr,             \* offset of the block the I2S DMA plays
    i2s_on,              \* I2S transmit (and the mute relay) enabled
    txq,                 \* TxBufferDeltaQueue
    mon_pc,              \* where the monitor is: receive, update, timeout
    buffer_delta_update, \* the monitor's local: the delta in hand, 0 if none
    tx_buffer_size,      \* the size as the monitor knows it
    tx_status,           \* the set of AUDIO_OUT_STS flags that are up
    fill,                \* history: bytes copied in minus bytes played
    lost                 \* history: sum of the deltas a full queue refused

usbVars == <<notified, notify_value>>
txVars  == <<tx_pc, source_buffer_size, tx_write_ptr>>
i2sVars == <<i2s_ptr>>
monVars == <<mon_pc, buffer_delta_update, tx_buffer_size, tx_status, i2s_on>>
vars == <<usbVars, txVars, i2sVars, monVars, txq, fill, lost>>

Init ==
    /\ notified = FALSE
    /\ notify_value = 0
    /\ tx_pc = "wait"
    /\ source_buffer_size = 0
    /\ tx_write_ptr = 0
    /\ i2s_ptr = 0
    /\ i2s_on = FALSE
    /\ txq = <<>>
    /\ mon_pc = "receive"
    /\ buffer_delta_update = 0
    /\ tx_buffer_size = 0
    /\ tx_status = {}
    /\ fill = 0
    /\ lost = 0

-----------------------------------------------------------------------------
(* Helpers *)

\* cptr_inc: advance an offset of the ring by n and wrap it once.
CptrInc(ptr, n) ==
    IF ptr + n >= BufSize THEN ptr + n - BufSize ELSE ptr + n

\* Mutant: a packet that ends exactly at the end of the ring is split too.
CopyChunksSplit(ptr, amount) ==
    LET remaining == BufSize - ptr
    IN  IF amount = 0 THEN {}
        ELSE IF amount < remaining THEN {[at |-> ptr, size |-> amount]}
        ELSE {[at |-> ptr, size |-> remaining],
              [at |-> 0, size |-> amount - remaining]}

\* The transfers copy_into_with_dma chains for a packet: one, or two when the
\* packet would cross the end of the ring, or none for an empty packet.
CopyChunks(ptr, amount) ==
    LET remaining == BufSize - ptr
    IN  IF amount = 0 THEN {}
        ELSE IF amount <= remaining THEN {[at |-> ptr, size |-> amount]}
        ELSE {[at |-> ptr, size |-> remaining],
              [at |-> 0, size |-> amount - remaining]}

\* Mutant: the queue counts as full one item early.
SendDeltaShort(delta) ==
    \/ /\ Len(txq) < QueueSize - 1
       /\ txq' = Append(txq, delta)
       /\ UNCHANGED lost
    \/ /\ Len(txq) >= QueueSize - 1
       /\ lost' = lost + delta
       /\ UNCHANGED txq

\* Both senders use a zero wait: a full queue refuses the delta and neither
\* of them looks at the result.
SendDelta(delta) ==
    \/ /\ Len(txq) < QueueSize
       /\ txq' = Append(txq, delta)
       /\ UNCHANGED lost
    \/ /\ Len(txq) >= QueueSize
       /\ lost' = lost + delta
       /\ UNCHANGED txq

-----------------------------------------------------------------------------
(* The USB out endpoint interrupt *)

\* A packet of n bytes is in the endpoint buffer.  The notification is sent
\* with eSetValueWithOverwrite: one that AudioTx has not taken yet is gone.
UsbPacket(n) ==
    /\ notified' = TRUE
    /\ notify_value' = n
    /\ UNCHANGED <<txVars, i2sVars, monVars, txq, fill, lost>>

-----------------------------------------------------------------------------
(* The AudioTx task *)

\* xTaskNotifyWait returns with the value and clears both.
TxWake ==
    /\ tx_pc = "wait"
    /\ notified
    /\ source_buffer_size' = notify_value
    /\ notified' = FALSE
    /\ notify_value' = 0
    /\ tx_pc' = "check"
    /\ UNCHANGED <<tx_write_ptr, i2sVars, monVars, txq, fill, lost>>

\* Mutant: the monitor is told of a dropped packet too, as of zero bytes.
TxDropTold ==
    /\ tx_pc = "check"
    /\ "OVERFLOW" \in tx_status
    /\ SendDelta(0)
    /\ source_buffer_size' = 0
    /\ tx_pc' = "wait"
    /\ UNCHANGED <<usbVars, tx_write_ptr, i2sVars, monVars, fill>>

\* In overflow the packet is dropped: nothing is copied and nothing posted.
TxDrop ==
    /\ tx_pc = "check"
    /\ "OVERFLOW" \in tx_status
    /\ source_buffer_size' = 0
    /\ tx_pc' = "wait"
    /\ UNCHANGED <<usbVars, tx_write_ptr, i2sVars, monVars,
                   txq, fill, lost>>

TxAccept ==
    /\ tx_pc = "check"
    /\ "OVERFLOW" \notin tx_status
    /\ tx_pc' = "copy"
    /\ UNCHANGED <<usbVars, source_buffer_size, tx_write_ptr, i2sVars, monVars,
                   txq, fill, lost>>

\* The packet is scaled, packed and handed to the copy DMA; the write pointer
\* advances chunk by chunk.
TxCopy ==
    /\ tx_pc = "copy"
    /\ tx_write_ptr' = CptrInc(tx_write_ptr, source_buffer_size)
    /\ fill' = fill + source_buffer_size
    /\ tx_pc' = "post"
    /\ UNCHANGED <<usbVars, source_buffer_size, i2sVars, monVars, txq, lost>>

\* Mutant: every packet is posted as a full block.
TxPostBlock ==
    /\ tx_pc = "post"
    /\ SendDelta(TransferSize)
    /\ source_buffer_size' = 0
    /\ tx_pc' = "wait"
    /\ UNCHANGED <<usbVars, tx_write_ptr, i2sVars, monVars, fill>>

TxPost ==
    /\ tx_pc = "post"
    /\ SendDelta(source_buffer_size)
    /\ source_buffer_size' = 0
    /\ tx_pc' = "wait"
    /\ UNCHANGED <<usbVars, tx_write_ptr, i2sVars, monVars, fill>>

-----------------------------------------------------------------------------
(* The I2S DMA and its interrupt *)

\* The DMA has played one block: it goes on to the next descriptor of the
\* circular chain, and the interrupt posts minus one block.
I2sBlockDone ==
    /\ i2s_on
    /\ i2s_ptr' = CptrInc(i2s_ptr, TransferSize)
    /\ fill' = fill - TransferSize
    /\ SendDelta(-TransferSize)
    /\ UNCHANGED <<usbVars, txVars, monVars>>

-----------------------------------------------------------------------------
(* The AudioTxMonitor task *)

MonReceive ==
    /\ mon_pc = "receive"
    /\ txq # <<>>
    /\ buffer_delta_update' = Head(txq)
    /\ txq' = Tail(txq)
    /\ mon_pc' = "update"
    /\ UNCHANGED <<usbVars, txVars, i2sVars, tx_buffer_size, tx_status, i2s_on,
                   fill, lost>>

\* Mutant: the output is disabled only when the books say it is empty.
UnderflowsLate(newSize) ==
    "ACTIVE" \in tx_status /\ newSize <= 0

\* Whether audio_tx_disable is called once the size is newSize.
Underflows(newSize) ==
    "ACTIVE" \in tx_status /\ newSize <= UnderflowLimit

\* Mutant: the flag is set only above the overflow limit.
OverflowAfterLoose(newSize) ==
    IF "OVERFLOW" \in tx_status THEN newSize > ActiveLimit
                                ELSE newSize > OverflowLimit

\* Mutant: the flag is cleared at the underflow limit.
OverflowAfterSticky(newSize) ==
    IF "OVERFLOW" \in tx_status THEN newSize > UnderflowLimit
                                ELSE newSize >= OverflowLimit

\* Mutant: the flag is never cleared.
OverflowAfterForever(newSize) ==
    "OVERFLOW" \in tx_status \/ newSize >= OverflowLimit

\* The OVERFLOW flag once the size is newSize: set at the overflow limit,
\* cleared only when the size is back at the active limit.
OverflowAfter(newSize) ==
    IF "OVERFLOW" \in tx_status THEN newSize > ActiveLimit
                                ELSE newSize >= OverflowLimit

\* The size is updated, then the output is disabled on underflow, then the
\* overflow flag is cleared or set.
MonUpdate ==
    LET newSize == tx_buffer_size + buffer_delta_update
    IN  /\ mon_pc = "update"
        /\ tx_buffer_size' = newSize
        /\ i2s_on' = (i2s_on /\ ~Underflows(newSize))
        /\ tx_status' = {f \in {"ACTIVE", "OVERFLOW"} :
                            IF f = "ACTIVE"
                            THEN "ACTIVE" \in tx_status /\ ~Underflows(newSize)
                            ELSE OverflowAfter(newSize)}
        /\ buffer_delta_update' = 0
        /\ mon_pc' = "receive"
        /\ UNCHANGED <<usbVars, txVars, i2sVars, txq, fill, lost>>

\* xQueueReceive gives up after AUDIO_TX_MONITOR_MAX_WAIT on an empty queue.
MonTimeout ==
    /\ mon_pc = "receive"
    /\ txq = <<>>
    /\ mon_pc' = "timeout"
    /\ UNCHANGED <<usbVars, txVars, i2sVars, buffer_delta_update,
                   tx_buffer_size, tx_status, i2s_on, txq, fill, lost>>

\* Mutant: the output starts as soon as there is anything to play.
MonEnableEarly ==
    /\ mon_pc = "timeout"
    /\ "ACTIVE" \notin tx_status
    /\ tx_buffer_size > 0
    /\ tx_status' = tx_status \cup {"ACTIVE"}
    /\ i2s_on' = TRUE
    /\ mon_pc' = "receive"
    /\ UNCHANGED <<usbVars, txVars, i2sVars, buffer_delta_update,
                   tx_buffer_size, txq, fill, lost>>

\* Only a timeout starts the output, once the buffer is half full.
MonEnable ==
    /\ mon_pc = "timeout"
    /\ "ACTIVE" \notin tx_status
    /\ tx_buffer_size >= ActiveLimit
    /\ tx_status' = tx_status \cup {"ACTIVE"}
    /\ i2s_on' = TRUE
    /\ mon_pc' = "receive"
    /\ UNCHANGED <<usbVars, txVars, i2sVars, buffer_delta_update,
                   tx_buffer_size, txq, fill, lost>>

MonKeep ==
    /\ mon_pc = "timeout"
    /\ "ACTIVE" \in tx_status \/ tx_buffer_size < ActiveLimit
    /\ mon_pc' = "receive"
    /\ UNCHANGED <<usbVars, txVars, i2sVars, buffer_delta_update,
                   tx_buffer_size, tx_status, i2s_on, txq, fill, lost>>

-----------------------------------------------------------------------------

TxStep == TxWake \/ TxDrop \/ TxAccept \/ TxCopy \/ TxPost
MonStep == MonReceive \/ MonUpdate \/ MonTimeout \/ MonEnable \/ MonKeep

Next ==
    \/ \E n \in PacketSizes : UsbPacket(n)
    \/ TxStep
    \/ I2sBlockDone
    \/ MonStep

Spec == Init /\ [][Next]_vars

-----------------------------------------------------------------------------
(* Type correctness *)

\* Every variable has its type; the two pointers stay inside the ring.
TypeOK ==
    /\ notified \in BOOLEAN
    /\ notify_value \in 0 .. TransferSize
    /\ tx_pc \in {"wait", "check", "copy", "post"}
    /\ source_buffer_size \in 0 .. TransferSize
    /\ tx_write_ptr \in 0 .. BufSize - 1
    /\ i2s_ptr \in 0 .. BufSize - 1
    /\ i2s_on \in BOOLEAN
    /\ txq \in Seq(-TransferSize .. TransferSize)
    /\ mon_pc \in {"receive", "update", "timeout"}
    /\ buffer_delta_update \in -TransferSize .. TransferSize
    /\ tx_buffer_size \in Int
    /\ tx_status \in SUBSET {"ACTIVE", "OVERFLOW"}
    /\ fill \in Int
    /\ lost \in Int

-----------------------------------------------------------------------------
(* Safety *)

\* The flags follow the size with hysteresis, at every moment AudioTx or the
\* interrupt can look: OVERFLOW is up only above the active limit and down
\* only below the overflow limit, and the output runs only above the
\* underflow limit.
Hysteresis ==
    /\ "OVERFLOW" \in tx_status => tx_buffer_size > ActiveLimit
    /\ "OVERFLOW" \notin tx_status => tx_buffer_size < OverflowLimit
    /\ i2s_on <=> "ACTIVE" \in tx_status
    /\ i2s_on => tx_buffer_size > UnderflowLimit

\* Bytes that are in the buffer, or out of it, but that the monitor has not
\* counted: the delta in its hands, those on the queue and the one AudioTx
\* is about to post.
Uncounted ==
    buffer_delta_update
    + FoldFunction(+, 0, txq)
    + (IF tx_pc = "post" THEN source_buffer_size ELSE 0)

\* The monitor's size is the true content of the buffer once every delta on
\* its way is counted, up to the deltas a full queue refused - whatever the
\* order in which the tasks and the interrupt run, and although a packet's
\* notification may overwrite the one before it.
Accounting == fill = tx_buffer_size + Uncounted + lost

\* The write pointer leads the block the DMA plays by the content of the
\* buffer, modulo the ring: neither wraps a byte early or late.
RingAligned == tx_write_ptr = (i2s_ptr + fill) % BufSize

\* The monitor's size and the two pointers all tell the same content.
ContentAgreed == Accounting /\ RingAligned

\* When the monitor starts the output the buffer holds the active limit in
\* truth and not only in the monitor's books: no block played before an
\* underflow is still uncounted at that moment.
StartsHalfFull ==
    [][~i2s_on /\ i2s_on' => fill - lost >= ActiveLimit]_vars

\* The chunks handed to the copy DMA are not empty, stay inside tx_buffer, at
\* most two (there are two descriptors), carry the whole packet, and the last
\* one ends where the write pointer goes.
ChunksCoverPacket ==
    [][tx_pc = "copy" /\ tx_pc' = "post" =>
         LET chunks == CopyChunks(tx_write_ptr, source_buffer_size)
             bytes  == UNION {c.at .. c.at + c.size - 1 : c \in chunks}
         IN  /\ Cardinality(chunks) <= 2
             /\ \A c \in chunks : c.size > 0
             /\ bytes = {(tx_write_ptr + k) % BufSize :
                            k \in 0 .. source_buffer_size - 1}
             /\ tx_write_ptr' = (tx_write_ptr + source_buffer_size) % BufSize
      ]_vars

=============================================================================
