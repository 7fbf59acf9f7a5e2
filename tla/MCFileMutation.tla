--------------------------- MODULE MCFileMutation ---------------------------
(* Small instances of FileMutation for TLC.                                *)
EXTENDS FileMutation
=============================================================================
