\* Two jobs, two revisions, two welcomes and one restart: any two fetches and a
\* welcome overlap. No deadlock check: the jobs come to an end.
CONSTANTS
    Jobs = {j1, j2}
    Operations <- MCOperations
    Profiles <- MCProfiles
    MaxRevision = 2
    MaxHellos = 2
    MaxRestarts = 1
SYMMETRY Symmetry
SPECIFICATION Spec
INVARIANTS AuthorizedInForce DenialsAreTrue MutationUnderItsPolicy GateAgrees ActivatedInForce
CHECK_DEADLOCK FALSE
