------------------------- MODULE MCUpdateActivation -------------------------
(* Small instances of UpdateActivation for TLC. The runs that check        *)
(* liveness use no symmetry.                                               *)
EXTENDS UpdateActivation
=============================================================================
