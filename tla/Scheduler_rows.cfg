CONSTANTS
    hourly = hourly
    nightly = nightly
    once = once
    Jobs = {hourly, once}
    OneShots = {once}
    MaxRunAttempts = 3
    MaxRequests = 1
    MaxFaults = 1
    MaxCrashes = 1
    NoJob = NoJob
SPECIFICATION FairSpec
INVARIANTS AttemptsBounded EnabledRecurs
PROPERTY DueRuns
CHECK_DEADLOCK FALSE
