\* Events may arrive before the receipts.
CONSTANTS
    b1 = b1
    r1 = r1
    r2 = r2
    none = none
    NoRun = none
    Pairs = {b1}
    Runs = {r1}
    PairOf <- SamePair
    Deliveries = {1}
    CliCalls = {}
    FailureSets = {}
    LastDay = 1
    MaxAttempts = 3
    MaxFaults = 0
SPECIFICATION FairSpec
CHECK_DEADLOCK FALSE

PROPERTIES
    CompletedRunsAreReported
