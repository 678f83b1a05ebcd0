---------------------------- MODULE ElasticBuffer ----------------------------
(***************************************************************************)
(* What the audio output path promises, with no task, queue or interrupt:  *)
(* a buffer between a writer and a player.  Nothing is written over bytes  *)
(* not yet played, nothing is played that was not written, playing starts  *)
(* only from a reserve, and it is given up only when the buffer runs low.  *)
(***************************************************************************)
EXTENDS Integers

CONSTANTS
    Capacity,  \* bytes the buffer holds
    Block,     \* bytes played at a time, and the most written at a time
    Reserve,   \* the least content from which playing starts
    LowMark    \* the most content at which playing may stop

VARIABLES level, playing

Init == level = 0 /\ playing = FALSE

Write(n) ==
    /\ level + n <= Capacity
    /\ level' = level + n
    /\ UNCHANGED playing

Play ==
    /\ playing
    /\ level >= Block
    /\ level' = level - Block
    /\ UNCHANGED playing

Start ==
    /\ ~playing
    /\ level >= Reserve
    /\ playing' = TRUE
    /\ UNCHANGED level

Stop ==
    /\ playing
    /\ level <= LowMark
    /\ playing' = FALSE
    /\ UNCHANGED level

Next ==
    \/ \E n \in 0 .. Block : Write(n)
    \/ Play
    \/ Start
    \/ Stop

Spec == Init /\ [][Next]_<<level, playing>>

=============================================================================
