SPECIFICATION Spec
CONSTANTS
    Requests = {"r1", "r2", "r3"}
    CliRequests = {"r1", "r3"}
    Unreadable = {}
    Names = {"p", "old"}
    PublicNames = {"p"}
    Lines <- MCLines
    LinesOf <- Overlapping
    Canonical <- MCCanonical
    Rejected = Rejected
    Existing = {"old"}
    MaxNames = 2
    Deliveries = {1, 2}
    MaxAttempts = 2
    MaxFaults = 1
CHECK_DEADLOCK FALSE
INVARIANTS
    TypeOK
    AcknowledgedPairsAreWhole
    FeedbackNamesEveryGap
    OneFailureIsUndone
    RequestsAreAnswered
