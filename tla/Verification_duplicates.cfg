\* One run: every job outcome, each event delivered twice, a CLI call, one fault.
CONSTANTS
    b1 = b1
    r1 = r1
    r2 = r2
    none = none
    NoRun = none
    Pairs = {b1}
    Runs = {r1}
    PairOf <- SamePair
    Deliveries = {1, 2}
    CliCalls = {1}
    FailureSets <- OneCodeEach
    LastDay = 1
    MaxAttempts = 1
    MaxFaults = 1
SPECIFICATION Spec
CHECK_DEADLOCK FALSE

INVARIANTS
    TypeOK
    StoredReportsAreSound
    HandoffIsNeverLost
    AlarmsAreJustified
