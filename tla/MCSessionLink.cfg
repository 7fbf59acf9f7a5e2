CONSTANTS
    Heartbeat = 3
    PongWindow = 2
    BadFrames = TRUE
    MaxBackoff = 5
    MaxOrphans = 2
SPECIFICATION FairSpec
PROPERTIES
    LeavesNoSocket
    SurvivesSocketEvents
    HalfOpenIsLeft
