------------------------------ MODULE AudioTxMC ------------------------------
(* AudioTx for TLC, with the two history variables kept within bounds.      *)
EXTENDS AudioTx

CONSTANTS
    MaxFill,  \* bound of this instance on fill, either way
    MaxLost   \* bound of this instance on lost, either way

\* Without the bounds a host, or a DMA, that outruns the tasks for ever could
\* drive the balance of copied and played bytes without end.
BoundedNext ==
    /\ Next
    /\ fill' \in -MaxFill .. MaxFill
    /\ lost' \in -MaxLost .. MaxLost

BoundedSpec == Init /\ [][BoundedNext]_vars

=============================================================================
