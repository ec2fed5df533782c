----------------------------- MODULE MCLifecycle -----------------------------
(* A small instance of Lifecycle for TLC.                                   *)
EXTENDS Lifecycle, TLC

CONSTANTS scan, settlement, t1, t2, t3, t4

\* Two jobs in the scan loop, so that a round can be cut short.
Rounds == scan :> 2 @@ settlement :> 1
=============================================================================
