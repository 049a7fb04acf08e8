SPECIFICATION Spec
CONSTANTS
    Requests = {"r2"}
    CliRequests = {}
    Unreadable = {}
    Names = {"p", "old"}
    PublicNames = {"p"}
    Lines <- MCLines
    LinesOf <- Overlapping
    Canonical <- MCCanonical
    Rejected = Rejected
    Existing = {"old"}
    MaxNames = 1
    Deliveries = {1}
    MaxAttempts = 1
    MaxFaults = 0
CHECK_DEADLOCK FALSE
INVARIANTS
    UploadsAreMirrored
