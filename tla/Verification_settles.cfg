\* Liveness of one run, with fewer faults than attempts.
CONSTANTS
    b1 = b1
    r1 = r1
    r2 = r2
    none = none
    NoRun = none
    Pairs = {b1}
    Runs = {r1}
    PairOf <- SamePair
    Deliveries = {1}
    CliCalls = {}
    FailureSets <- OneCodeEach
    LastDay = 2
    MaxAttempts = 3
    MaxFaults = 2
SPECIFICATION FairSpec
CHECK_DEADLOCK FALSE

PROPERTIES
    FinishedRunsSettle
    FailedJobsAreRaised
