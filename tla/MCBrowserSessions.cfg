\* Two ids, one profile, two jobs and the sweep, one crash.
CONSTANTS
    Ids = {i1, i2}
    Profiles = {p}
    Sessions = {o1, o2}
    Browsers = {b1, b2}
    Jobs = {j1, j2}
    Sweeper = sweeper
    None = None
    MaxLosses = 1
SPECIFICATION Spec
INVARIANTS
    ProfileExclusive
    
    SweepSparesOpen
SYMMETRY Interchangeable
CHECK_DEADLOCK FALSE
