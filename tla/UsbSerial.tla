------------------------------ MODULE UsbSerial ------------------------------
(***************************************************************************)
(* The transmit side of the USB serial port (usb_serial.c).  Any task may  *)
(* write a message: it is copied into a circular buffer under a mutex.     *)
(* The USBSerialTx task takes at most one endpoint's worth out of the      *)
(* buffer whenever the endpoint is empty, woken by a notification or by a  *)
(* timeout.  A write does not look at the free space, and the task reads   *)
(* the size before it takes the mutex.                                     *)
(*                                                                         *)
(* The bytes are numbered in the order in which they are copied in, so     *)
(* that the ring, the endpoint buffer and the host can be compared with    *)
(* the stream the writers produced.                                        *)
(***************************************************************************)
EXTENDS Integers

CONSTANTS
    Writers,   \* the tasks that call usb_serial_write
    RingSize,  \* USB_SERIAL_TX_BUF_SIZE
    EpSize,    \* USB_SERIAL_EP_BUF_SIZE
    MsgSizes   \* the lengths of a message

\* log_ formats into LOG_MESSAGE_BUF_SIZE bytes, which is the ring's size, and
\* a message has at least a header.
ASSUME SerialAssumption ==
    /\ RingSize \in Nat \ {0}
    /\ EpSize \in 1 .. RingSize
    /\ MsgSizes \subseteq 1 .. RingSize
    /\ "SerialTx" \notin Writers
    /\ "free" \notin Writers

VARIABLES
    wr_pc,               \* where each writer is in usb_serial_write
    amount,              \* the length of its message, 0 if it has none
    tx_buf_lock,         \* holder of the mutex
    serial_tx_buf,       \* the ring: offset to number of the byte, 0 at first
    serial_tx_buf_size,
    serial_tx_write_ptr,
    serial_tx_read_ptr,
    notified,            \* USBSerialTx has a pending notification
    tx_pc,               \* where USBSerialTx is
    copy_amount,         \* its local, 0 outside a pass of its loop
    is_configured,       \* what usb_is_configured returns
    ep_buf,              \* usb_serial_tx_ep_buf, as far as it was filled
    ep_full,             \* the endpoint has data the host did not read
    written,             \* history: bytes copied into the ring
    sent                 \* history: bytes taken out of it

writerVars == <<wr_pc, amount>>
ringVars == <<serial_tx_buf, serial_tx_buf_size, serial_tx_write_ptr,
              serial_tx_read_ptr>>
epVars == <<ep_buf, ep_full, is_configured>>
history == <<written, sent>>
vars == <<writerVars, tx_buf_lock, ringVars, notified, tx_pc, copy_amount,
          epVars, history>>

Offsets == 0 .. RingSize - 1

Init ==
    /\ wr_pc = [w \in Writers |-> "idle"]
    /\ amount = [w \in Writers |-> 0]
    /\ tx_buf_lock = "free"
    /\ serial_tx_buf = [i \in Offsets |-> 0]
    /\ serial_tx_buf_size = 0
    /\ serial_tx_write_ptr = 0
    /\ serial_tx_read_ptr = 0
    /\ notified = FALSE
    /\ tx_pc = "start"
    /\ copy_amount = 0
    /\ is_configured = FALSE
    /\ ep_buf = <<>>
    /\ ep_full = FALSE
    /\ written = 0
    /\ sent = 0

-----------------------------------------------------------------------------
(* The circular pointer (cptr.h) *)

CptrInc(ptr, n) ==
    IF ptr + n >= RingSize THEN ptr + n - RingSize ELSE ptr + n

\* cptr_copy_into: n bytes, numbered from src on, up to the end of the ring
\* and the rest from its beginning.
CopyInto(buf, ptr, src, n) ==
    LET remain == RingSize - ptr
    IN  [i \in Offsets |->
            IF i \in ptr .. ptr + n - 1 THEN src + (i - ptr)
            ELSE IF i < n - remain THEN src + remain + i
            ELSE buf[i]]

\* cptr_copy_from: n bytes, up to the end of the ring and then from its
\* beginning.
CopyFrom(buf, ptr, n) ==
    LET remain == RingSize - ptr
    IN  [k \in 1 .. n |->
            IF k <= remain THEN buf[ptr + k - 1] ELSE buf[k - remain - 1]]

-----------------------------------------------------------------------------
(* usb_serial_write, called by any task *)

\* A task logs a message of n bytes.
Write(w, n) ==
    /\ wr_pc[w] = "idle"
    /\ wr_pc' = [wr_pc EXCEPT ![w] = "take"]
    /\ amount' = [amount EXCEPT ![w] = n]
    /\ UNCHANGED <<tx_buf_lock, ringVars, notified, tx_pc, copy_amount, epVars,
                   history>>

\* Mutant: the mutex is not waited for.
WriteTakeOpen(w) ==
    /\ wr_pc[w] = "take"
    /\ tx_buf_lock' = w
    /\ wr_pc' = [wr_pc EXCEPT ![w] = "copy"]
    /\ UNCHANGED <<amount, ringVars, notified, tx_pc, copy_amount, epVars,
                   history>>

WriteTake(w) ==
    /\ wr_pc[w] = "take"
    /\ tx_buf_lock = "free"
    /\ tx_buf_lock' = w
    /\ wr_pc' = [wr_pc EXCEPT ![w] = "copy"]
    /\ UNCHANGED <<amount, ringVars, notified, tx_pc, copy_amount, epVars,
                   history>>

\* The mutex was not free within a millisecond: the message is dropped.
WriteTimeout(w) ==
    /\ wr_pc[w] = "take"
    /\ tx_buf_lock # "free"
    /\ wr_pc' = [wr_pc EXCEPT ![w] = "idle"]
    /\ amount' = [amount EXCEPT ![w] = 0]
    /\ UNCHANGED <<tx_buf_lock, ringVars, notified, tx_pc, copy_amount, epVars,
                   history>>

\* The bytes are copied in, whatever room there is.
WriteCopy(w) ==
    /\ wr_pc[w] = "copy"
    /\ serial_tx_buf' = CopyInto(serial_tx_buf, serial_tx_write_ptr,
                                 written + 1, amount[w])
    /\ written' = written + amount[w]
    /\ wr_pc' = [wr_pc EXCEPT ![w] = "count"]
    /\ UNCHANGED <<amount, tx_buf_lock, serial_tx_buf_size, serial_tx_write_ptr,
                   serial_tx_read_ptr, notified, tx_pc, copy_amount, epVars,
                   sent>>

\* The pointer and the size follow.
WriteCount(w) ==
    /\ wr_pc[w] = "count"
    /\ serial_tx_write_ptr' = CptrInc(serial_tx_write_ptr, amount[w])
    /\ serial_tx_buf_size' = serial_tx_buf_size + amount[w]
    /\ amount' = [amount EXCEPT ![w] = 0]
    /\ wr_pc' = [wr_pc EXCEPT ![w] = "give"]
    /\ UNCHANGED <<tx_buf_lock, serial_tx_buf, serial_tx_read_ptr, notified,
                   tx_pc, copy_amount, epVars, history>>

WriteGive(w) ==
    /\ wr_pc[w] = "give"
    /\ tx_buf_lock' = "free"
    /\ wr_pc' = [wr_pc EXCEPT ![w] = "notify"]
    /\ UNCHANGED <<amount, ringVars, notified, tx_pc, copy_amount, epVars,
                   history>>

WriteNotify(w) ==
    /\ wr_pc[w] = "notify"
    /\ notified' = TRUE
    /\ wr_pc' = [wr_pc EXCEPT ![w] = "idle"]
    /\ UNCHANGED <<amount, tx_buf_lock, ringVars, tx_pc, copy_amount, epVars,
                   history>>

WriterStep(w) ==
    \/ WriteTake(w) \/ WriteTimeout(w) \/ WriteCopy(w)
    \/ WriteCount(w) \/ WriteGive(w) \/ WriteNotify(w)

-----------------------------------------------------------------------------
(* The USBSerialTx task *)

\* The task polls usb_is_configured and then enters its loop.
TxStart ==
    /\ tx_pc = "start"
    /\ is_configured
    /\ tx_pc' = "wait"
    /\ UNCHANGED <<writerVars, tx_buf_lock, ringVars, notified, copy_amount,
                   epVars, history>>

\* Mutant: a timeout goes back to waiting.
TxWaitNotified ==
    /\ tx_pc = "wait"
    /\ notified' = FALSE
    /\ tx_pc' = (IF notified THEN "size" ELSE "wait")
    /\ UNCHANGED <<writerVars, tx_buf_lock, ringVars, copy_amount, epVars,
                   history>>

\* ulTaskNotifyTake returns with a notification or after 2 ms without one;
\* the task goes on in either case.
TxWait ==
    /\ tx_pc = "wait"
    /\ notified' = FALSE
    /\ tx_pc' = "size"
    /\ UNCHANGED <<writerVars, tx_buf_lock, ringVars, copy_amount, epVars,
                   history>>

\* The size is read without the mutex and clipped to the endpoint.
TxSize ==
    /\ tx_pc = "size"
    /\ copy_amount' = (IF serial_tx_buf_size > EpSize THEN EpSize
                                                      ELSE serial_tx_buf_size)
    /\ tx_pc' = "check"
    /\ UNCHANGED <<writerVars, tx_buf_lock, ringVars, notified, epVars, history>>

\* Mutant: the state of the endpoint is not looked at.
TxCheckBlind ==
    /\ tx_pc = "check"
    /\ copy_amount > 0
    /\ tx_pc' = "take"
    /\ UNCHANGED <<writerVars, tx_buf_lock, ringVars, notified, copy_amount,
                   epVars, history>>

\* There is something to send and the endpoint is empty.
TxCheck ==
    /\ tx_pc = "check"
    /\ copy_amount > 0
    /\ ~ep_full
    /\ tx_pc' = "take"
    /\ UNCHANGED <<writerVars, tx_buf_lock, ringVars, notified, copy_amount,
                   epVars, history>>

\* Nothing to send, the endpoint is full, or the mutex was not free for 10 ms.
TxGiveUp ==
    /\ \/ tx_pc = "check" /\ (copy_amount = 0 \/ ep_full)
       \/ tx_pc = "take" /\ tx_buf_lock # "free"
    /\ copy_amount' = 0
    /\ tx_pc' = "wait"
    /\ UNCHANGED <<writerVars, tx_buf_lock, ringVars, notified, epVars, history>>

TxTake ==
    /\ tx_pc = "take"
    /\ tx_buf_lock = "free"
    /\ tx_buf_lock' = "SerialTx"
    /\ tx_pc' = "copy"
    /\ UNCHANGED <<writerVars, ringVars, notified, copy_amount, epVars, history>>

\* The bytes go to the endpoint buffer and leave the ring.
TxCopy ==
    /\ tx_pc = "copy"
    /\ ep_buf' = CopyFrom(serial_tx_buf, serial_tx_read_ptr, copy_amount)
    /\ serial_tx_read_ptr' = CptrInc(serial_tx_read_ptr, copy_amount)
    /\ serial_tx_buf_size' = serial_tx_buf_size - copy_amount
    /\ sent' = sent + copy_amount
    /\ tx_pc' = "give"
    /\ UNCHANGED <<writerVars, tx_buf_lock, serial_tx_buf, serial_tx_write_ptr,
                   notified, copy_amount, ep_full, is_configured, written>>

TxGive ==
    /\ tx_pc = "give"
    /\ tx_buf_lock' = "free"
    /\ tx_pc' = "load"
    /\ UNCHANGED <<writerVars, ringVars, notified, copy_amount, epVars, history>>

\* USBFS_LoadEP hands the buffer to the endpoint.
TxLoad ==
    /\ tx_pc = "load"
    /\ ep_full' = TRUE
    /\ copy_amount' = 0
    /\ tx_pc' = "wait"
    /\ UNCHANGED <<writerVars, tx_buf_lock, ringVars, notified, ep_buf,
                   is_configured, history>>

TxStep ==
    \/ TxStart \/ TxWait \/ TxSize \/ TxCheck \/ TxGiveUp
    \/ TxTake \/ TxCopy \/ TxGive \/ TxLoad

-----------------------------------------------------------------------------
(* The host *)

\* USBConfigService has seen the host configure the device.
Configure ==
    /\ ~is_configured
    /\ is_configured' = TRUE
    /\ UNCHANGED <<writerVars, tx_buf_lock, ringVars, notified, tx_pc,
                   copy_amount, ep_buf, ep_full, history>>

\* The host reads the endpoint, which is empty again.
HostRead ==
    /\ ep_full
    /\ ep_full' = FALSE
    /\ UNCHANGED <<writerVars, tx_buf_lock, ringVars, notified, tx_pc,
                   copy_amount, ep_buf, is_configured, history>>

-----------------------------------------------------------------------------

Next ==
    \/ \E w \in Writers, n \in MsgSizes : Write(w, n)
    \/ \E w \in Writers : WriterStep(w)
    \/ TxStep
    \/ Configure
    \/ HostRead

Spec == Init /\ [][Next]_vars

\* A task that is in a call finishes it, USBSerialTx runs, and a terminal on
\* the host configures the device and reads.
Fairness ==
    /\ \A w \in Writers : WF_vars(WriterStep(w))
    /\ WF_vars(TxStep)
    /\ WF_vars(Configure)
    /\ WF_vars(HostRead)

FairSpec == Spec /\ Fairness

-----------------------------------------------------------------------------

\* Bytes that are in the ring but not yet in its size: the mutex is held by a
\* writer in the middle of its write.
Uncounted ==
    IF tx_buf_lock \in Writers /\ wr_pc[tx_buf_lock] = "count"
    THEN amount[tx_buf_lock] ELSE 0

\* The size is the backlog - what was written and not sent - up to a write
\* whose holder of the mutex has not counted it yet, even after an overrun.
SizeIsBacklog == serial_tx_buf_size + Uncounted = written - sent

\* The size was read before the mutex was taken, yet there is never less in
\* the ring than was read: nothing is sent that was not written.
SendsNoMore == tx_pc \in {"check", "take", "copy"} =>
                   copy_amount <= serial_tx_buf_size

\* The newest bytes of the backlog, as many as the ring holds, lie where
\* USBSerialTx will look for them, in order.  Writers that outrun the host
\* overwrite the oldest ones, and the port heals once it has caught up.
NewestInOrder ==
    \A b \in sent + 1 .. written :
        written - b < RingSize =>
            serial_tx_buf[(serial_tx_read_ptr + b - sent - 1) % RingSize] = b

\* What was written and not sent is in the ring, counted and in order.
BacklogKept == SizeIsBacklog /\ SendsNoMore /\ NewestInOrder

\* While the backlog fits the ring the endpoint is given the next bytes of
\* the stream, whole and in order, whoever wrote them.
SendsInOrder ==
    [][sent' # sent /\ written - sent <= RingSize =>
         ep_buf' = [k \in 1 .. copy_amount |-> sent + k]]_vars

\* The endpoint buffer is not touched while the host may read it, although
\* the state of the endpoint is looked at long before the copy.
EndpointStable == [][ep_full => ep_buf' = ep_buf]_vars

\* The host reads the stream, whole and in order.
HostReadsStream == SendsInOrder /\ EndpointStable

=============================================================================
