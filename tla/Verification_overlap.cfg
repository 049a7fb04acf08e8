\* Two runs of one pair overlap.
CONSTANTS
    b1 = b1
    r1 = r1
    r2 = r2
    none = none
    NoRun = none
    Pairs = {b1}
    Runs = {r1, r2}
    PairOf <- SamePair
    Deliveries = {1}
    CliCalls = {}
    FailureSets = {}
    LastDay = 1
    MaxAttempts = 1
    MaxFaults = 0
SPECIFICATION Spec
CHECK_DEADLOCK FALSE
SYMMETRY RunSymmetry
INVARIANTS
    LatestIsNewest
PROPERTIES
    CsvKeepsPromise
    StatsKeepPromise
