\* As the Linux unit sets it up: what a process leaves is killed with it.
CONSTANTS
    Files = {f1}
    MaxVersion = 2
    BadVersions = {2}
    MaxUpdates = 1
    MaxActivations = 1
    KillsGroup = TRUE
    MaxMishaps = 0
SPECIFICATION FairSpec
PROPERTY BadReleaseIsLeft
CHECK_DEADLOCK FALSE
