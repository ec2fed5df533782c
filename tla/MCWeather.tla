------------------------------ MODULE MCWeather ------------------------------
(* A small instance of Weather for TLC.                                     *)
EXTENDS Weather

CONSTANTS scan, left, london, max, min
=============================================================================
