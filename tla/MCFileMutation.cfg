\* Two calls of any kind on two paths and one trouble of any kind. No deadlock
\* check: the calls end.
CONSTANTS
    Ops = {o1, o2}
    NoOp = NoOp
    Paths = {1, 2}
    Absent = Absent
    Outsider = Outsider
    MaxTroubles = 1
SPECIFICATION FairSpec
INVARIANTS
    OneAtATime
    NoHalfReplacement
PROPERTIES
    ActsOnWhatItChecked
    EveryCallAnswered
    OneEffect
CHECK_DEADLOCK FALSE
