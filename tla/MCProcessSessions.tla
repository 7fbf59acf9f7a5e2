------------------------- MODULE MCProcessSessions -------------------------
(* Small instances of ProcessSessions for TLC.                             *)
EXTENDS ProcessSessions, TLC
=============================================================================
