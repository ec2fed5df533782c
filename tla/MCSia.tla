-------------------------------- MODULE MCSia --------------------------------
(* A small instance of Sia for TLC.                                         *)
EXTENDS Sia, TLC

CONSTANTS gfs, ecmwf, gem, loop

ThreeWeights == (gfs :> 5000) @@ (ecmwf :> 3000) @@ (gem :> 2000)
\* A win rate and a return on either side of each threshold.
Results == {[win |-> 40, roi |-> -20], [win |-> 50, roi |-> 0], [win |-> 65, roi |-> 15]}
\* A strategy configured one step below the largest min_edge: three cycles go
\* past that limit, and past the smallest kelly_fraction.
Strict == [edge |-> 140, kelly |-> 150]
=============================================================================
