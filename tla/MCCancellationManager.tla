----------------------- MODULE MCCancellationManager -----------------------
(* CancellationManager with a few operations and concurrent cancellers.    *)
EXTENDS CancellationManager, TLC

=============================================================================
