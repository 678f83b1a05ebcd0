----------------------------- MODULE UsbSerialMC -----------------------------
(* UsbSerial with a bound on the bytes that are ever written. *)
EXTENDS UsbSerial, Functions

CONSTANT MaxBytes  \* bytes that all messages together may have

\* Bytes of messages that were accepted for writing and are not copied yet.
Promised ==
    FoldFunction(+, 0, [w \in Writers |->
                           IF wr_pc[w] \in {"take", "copy"} THEN amount[w] ELSE 0])

BoundedNext == Next /\ (written + Promised)' <= MaxBytes

BoundedSpec == Init /\ [][BoundedNext]_vars

BoundedFairSpec == BoundedSpec /\ Fairness

\* Every byte that was written is taken out in the end, also what is left of a
\* message longer than the endpoint, for which there is no notification any
\* more, and although USBSerialTx may lose the mutex to a writer.
AllSent == \A b \in 1 .. MaxBytes : written >= b ~> sent >= b

=============================================================================
