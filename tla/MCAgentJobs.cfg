\* Two jobs at once, either of them an update whose handler may throw; the
\* process dies of its own errors only.
CONSTANTS
    NoJob = NoJob
    Jobs = {j1, j2}
    UpdateJobs = {j1, j2}
    ThrowingJobs = {j1, j2}
    OtherWriters = FALSE
    MaxKills = 0
    MaxWriteFaults = 0
SPECIFICATION Spec
INVARIANTS
    AtMostOnce
    SpawnRecorded
    NoResultForgotten
    VerdictMatchesRun
PROPERTY
    KeepsLedger
SYMMETRY JobSymmetry
