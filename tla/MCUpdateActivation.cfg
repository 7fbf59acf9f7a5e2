\* Two update jobs, release 2 is bad, two activations that may be of one job
\* or of two, one after the other or crossing, one kill or failed rename. No
\* deadlock check: the updates come to an end.
CONSTANTS
    Files = {f1, f2}
    MaxVersion = 3
    BadVersions = {2}
    MaxUpdates = 2
    MaxActivations = 2
    KillsGroup = FALSE
    MaxMishaps = 1
SPECIFICATION FairSpec
PROPERTIES HealthyStays RollbackRestores Recovers BadReleaseIsLeft OneRelease
CHECK_DEADLOCK FALSE
