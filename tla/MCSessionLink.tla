--------------------------- MODULE MCSessionLink ---------------------------
(***************************************************************************)
(* Instances of SessionLink for TLC; the cfg files give the constants.     *)
(***************************************************************************)
EXTENDS SessionLink
=============================================================================
