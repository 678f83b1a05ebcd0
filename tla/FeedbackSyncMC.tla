--------------------------- MODULE FeedbackSyncMC ---------------------------
(* FeedbackSync with a bound on the captures that may wait for SyncMonitor. *)
EXTENDS FeedbackSync

CONSTANT MaxPending  \* captures SyncMonitor may be behind

BoundedNext == Next /\ sync_notified' <= MaxPending

BoundedSpec == Init /\ [][BoundedNext]_vars

BoundedFairSpec == BoundedSpec /\ Fairness

=============================================================================
