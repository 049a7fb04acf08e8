SPECIFICATION Spec
CONSTANTS
    Buckets = {"a", "b"}
    Objects = {"o", "p", "d"}
    Directories = {"d"}
    Missing <- MCMissing
    LastDay = 2
    EventCalls <- MCEventCalls
    CliRuns <- MCCliRuns
    MaxAttempts = 2
    MaxFaults = 1
    MaxStarts = 3
    None = None
    RequestEvents <- MCRequestEvents
    Unsummed = {"p"}
    StorageRuns = {"scheduled", "byhand"}
    NewYear = {1}
    CliStorageRuns = {"byhand"}
CHECK_DEADLOCK FALSE
INVARIANTS
    StackTypeOK
    ReportsAgree
    InventoriesAreReported
    ChecksumRequestsAreAnswered
    ChecksumInventoriesAreTrue
    NothingIsLeftOut
    StoragePagesAgree
PROPERTIES
    ReportsKeepPromise
