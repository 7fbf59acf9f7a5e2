---------------------------- MODULE MCHostPolicy ----------------------------
(* A small instance of HostPolicy for TLC. Jobs that have not started are  *)
(* alike, and no liveness is checked: symmetry is sound.                   *)
EXTENDS HostPolicy, TLC

Op(tool, origin) == [tool |-> tool, option |-> FALSE, origin |-> origin]

\* A mutation, with its gate, and an update that needs a capability.
MCOperations ==
    {Op("file_edit", "mcp"), Op("client_update", "automatic_update")}

MCProfiles == {{}, {"file_write", "automatic_client_updates"}}

Symmetry == Permutations(Jobs)
=============================================================================
