-------------------------------- MODULE MCScan --------------------------------
(* Small instances of Scan for TLC.                                         *)
EXTENDS Scan, TLC

CONSTANTS near, far, highest

MCQueries == <<highest>>

\* One market of tomorrow; one of the twelfth, whose title the search for the
\* first lets through.
MCMarkets == <<near, far>>
MCDay   == near :> 2 @@ far :> 12
MCShape == near :> "good" @@ far :> "no_coords"

\* A fair quote and one with a wide spread.
MCOffers  == {[yes |-> 40, no |-> 60], [yes |-> 60, no |-> 55]}
\* One forecast for either side, the second of models that disagree.
MCBeliefs == {[prob |-> 70, wide |-> FALSE], [prob |-> 42, wide |-> TRUE]}

\* One forecast, and quotes either side of it: YES is recommended at one, NO
\* at the other, which comes with a spread.
EvenBeliefs == {[prob |-> 50, wide |-> FALSE]}
SwingOffers == {[yes |-> 40, no |-> 60], [yes |-> 62, no |-> 40]}
=============================================================================
