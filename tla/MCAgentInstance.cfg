\* Two process numbers, two confirmations over one tick, one kill or fault.
CONSTANTS
    Pids = {p1, p2}
    Confirmations = 2
    Window = 1
    NoLock = NoLock
    MaxTrouble = 1
SPECIFICATION FairSpec
INVARIANTS
    OneAgent
PROPERTIES
    RetiredOnEvidence
    StartsAgain
    RetiresInTheEnd
CHECK_DEADLOCK FALSE
