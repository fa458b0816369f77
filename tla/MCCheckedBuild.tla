--------------------------- MODULE MCCheckedBuild ----------------------------
(* A small instance of CheckedBuild for TLC.                               *)
EXTENDS CheckedBuild, TLC

CONSTANT c1

MCcyctim == c1 :> 2
MCcycphs == c1 :> 1
=============================================================================
