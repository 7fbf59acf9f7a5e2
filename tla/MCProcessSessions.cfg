\* Two children, two numbers, one call that terminates, two crashes: the second
\* may come in the sweep after the first.
CONSTANTS
    Sessions = {s1, s2}
    Readers = {s1}
    Pids = {p1, p2}
    Jobs = {j}
    Sweep = sweep
    Nobody = Nobody
    Other = Other
    None = None
    Cap = 2
    MaxCrashes = 2
SPECIFICATION Spec
INVARIANTS
    RecordOutlivesChild
    SkippedIsTold
CHECK_DEADLOCK FALSE
PROPERTIES
    EveryChildEnds
