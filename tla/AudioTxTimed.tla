---------------------------- MODULE AudioTxTimed ----------------------------
(***************************************************************************)
(* AudioTx at the pace of the hardware.  Time is counted in USB frames of  *)
(* one millisecond: the isochronous endpoint delivers at most one packet a *)
(* frame, and the I2S block clock (a block is 98 stereo samples of at most *)
(* 96 kHz) completes at most one block a frame.  AudioTx has the highest   *)
(* priority the kernel grants and finishes a packet before the next frame; *)
(* the monitor, at the same priority, catches up with its queue within     *)
(* MaxLate frame boundaries.                                               *)
(***************************************************************************)
EXTENDS AudioTx

CONSTANT MaxLate  \* frame boundaries the monitor may let pass behind its queue

\* What the limits of project_config.h leave room for: every delta that can
\* be on its way in MaxLate + 1 frames fits the queue, and their bytes fit
\* above the overflow limit and below the underflow limit.  With 588-byte
\* blocks, four of them either way and a queue of 8, MaxLate may be 3.
ASSUME LatenessAssumption ==
    /\ MaxLate \in Nat
    /\ 2 * (MaxLate + 1) <= QueueSize
    /\ OverflowLimit + (MaxLate + 1) * TransferSize <= BufSize
    /\ (MaxLate + 1) * TransferSize <= UnderflowLimit

VARIABLES
    packet_in,  \* this frame's packet has arrived
    block_out,  \* this frame's block has been played
    mon_late    \* frame boundaries passed since the monitor was idle

frameVars == <<packet_in, block_out, mon_late>>
timedVars == <<vars, frameVars>>

TimedInit ==
    /\ Init
    /\ packet_in = FALSE
    /\ block_out = FALSE
    /\ mon_late = 0

\* The monitor waits on an empty queue.
CaughtUp == mon_pc = "receive" /\ txq = <<>>

TimedPacket(n) ==
    /\ ~packet_in
    /\ UsbPacket(n)
    /\ packet_in' = TRUE
    /\ UNCHANGED <<block_out, mon_late>>

TimedBlock ==
    /\ ~block_out
    /\ I2sBlockDone
    /\ block_out' = TRUE
    /\ UNCHANGED <<packet_in, mon_late>>

TimedTx ==
    /\ TxStep
    /\ UNCHANGED frameVars

TimedMon ==
    /\ MonStep
    /\ mon_late' = (IF CaughtUp' THEN 0 ELSE mon_late)
    /\ UNCHANGED <<packet_in, block_out>>

\* The next frame begins.  AudioTx is done with the packet of this one.
Frame ==
    /\ tx_pc = "wait"
    /\ ~notified
    /\ \/ CaughtUp /\ UNCHANGED mon_late
       \/ ~CaughtUp /\ mon_late < MaxLate /\ mon_late' = mon_late + 1
    /\ packet_in' = FALSE
    /\ block_out' = FALSE
    /\ UNCHANGED vars

TimedNext ==
    \/ \E n \in PacketSizes : TimedPacket(n)
    \/ TimedTx
    \/ TimedBlock
    \/ TimedMon
    \/ Frame

TimedSpec == TimedInit /\ [][TimedNext]_timedVars

\* The highest-priority tasks run, the I2S clock does, and so does time.
\* Nothing makes the host send.
Fairness ==
    /\ WF_timedVars(TimedTx)
    /\ WF_timedVars(TimedMon)
    /\ WF_timedVars(TimedBlock)
    /\ WF_timedVars(Frame)

FairSpec == TimedSpec /\ Fairness

\* A host that streams: it is for ever sending packets that carry audio.
Streaming == SF_timedVars(\E n \in PacketSizes \ {0} : TimedPacket(n))

-----------------------------------------------------------------------------
(* Safety *)

\* The delta queue never refuses a delta, so the monitor's books are exact.
NoLostDelta == lost = 0

\* AudioTx and the DMA together behave like the abstract buffer: no overrun,
\* no underrun, a start from the active limit, a stop only when running low.
Elastic == INSTANCE ElasticBuffer WITH
    Capacity <- BufSize,
    Block    <- TransferSize,
    Reserve  <- ActiveLimit,
    LowMark  <- UnderflowLimit + (MaxLate + 1) * TransferSize,
    level    <- fill,
    playing  <- i2s_on

ElasticSpec == Elastic!Spec

\* The bytes copied in and not yet played, as offsets of tx_buffer.
Unplayed == {(i2s_ptr + k) % BufSize : k \in 0 .. fill - 1}

\* No chunk of the copy DMA touches a byte that waits to be played.
NoOverwrite ==
    [][tx_pc = "copy" /\ tx_pc' = "post" =>
         \A c \in CopyChunks(tx_write_ptr, source_buffer_size) :
            (c.at .. c.at + c.size - 1) \cap Unplayed = {}]_timedVars

\* Every block the DMA completes consists of bytes that were copied in since
\* the DMA last passed there.
PlaysFresh ==
    [][i2s_ptr' # i2s_ptr =>
         (i2s_ptr .. i2s_ptr + TransferSize - 1) \subseteq Unplayed]_timedVars

\* Each byte of the ring is written once and played once, in turn.
BytesInTurn == NoOverwrite /\ PlaysFresh

\* A packet is dropped only when the buffer is above half full, give or take
\* the blocks the monitor has not counted yet (audio_tx.c:146).
DropsAboveHalf ==
    [][tx_pc = "check" /\ tx_pc' = "wait" =>
         fill > ActiveLimit - (MaxLate + 1) * TransferSize]_timedVars

-----------------------------------------------------------------------------
(* Liveness *)

\* Dropping does not last: OVERFLOW comes down again, whatever the host does.
OverflowClears == "OVERFLOW" \in tx_status ~> "OVERFLOW" \notin tx_status

\* A host that streams is heard.  The start needs a timeout of the monitor's
\* queue although packets keep arriving: if none comes earlier, the buffer
\* fills to the overflow limit, and the dropping itself makes the queue idle.
StreamIsHeard == Streaming => []<>i2s_on

=============================================================================
