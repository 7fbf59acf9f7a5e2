\* One job, kills at any point, a failed write and a second writer.
CONSTANTS
    NoJob = NoJob
    Jobs = {j1}
    UpdateJobs = {j1}
    ThrowingJobs = {}
    OtherWriters = TRUE
    MaxKills = 2
    MaxWriteFaults = 1
SPECIFICATION FairSpec
INVARIANTS
    TypeOK
    ActivatedAfterAck
PROPERTY
    RunningIsReported
