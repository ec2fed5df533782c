----------------------------- MODULE MCEvolution -----------------------------
(* A small instance of Evolution for TLC.                                   *)
EXTENDS Evolution, TLC

CONSTANTS gfs, ecmwf, loop, first, second

Equal == (gfs :> 5000) @@ (ecmwf :> 5000)
\* The last weight is below the shift: the clamp at one percent is met.
Global == (gfs :> 9700) @@ (ecmwf :> 300)
Results == {[win |-> 40, roi |-> -20], [win |-> 65, roi |-> 15]}
Shipped == [edge |-> 50, kelly |-> 150]
Shifts == {450}
\* Worse than the prior; better than the prior.
Returns == {-50, 200}
\* No run is told from the other.
Either == Permutations(Request)
=============================================================================
