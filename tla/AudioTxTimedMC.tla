--------------------------- MODULE AudioTxTimedMC ---------------------------
(* AudioTxTimed for TLC.  A block is BlockUnits units instead of 588 bytes; *)
(* the other sizes are the formulas of project_config.h.                    *)
EXTENDS AudioTxTimed

CONSTANTS
    BlockUnits,     \* units a block has in this instance
    Blocks,         \* AUDIO_TX_N_TDS
    OverflowBlocks  \* AUDIO_TX_OVERFLOW_BLOCKS

ASSUME ConfigAssumption ==
    /\ TransferSize = BlockUnits
    /\ BufSize = BlockUnits * Blocks
    /\ ActiveLimit = (BlockUnits * Blocks) \div 2
    /\ OverflowLimit = BufSize - BlockUnits * OverflowBlocks
    /\ UnderflowLimit = BlockUnits * OverflowBlocks

=============================================================================
