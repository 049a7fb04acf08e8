SPECIFICATION DispatchSpec
CONSTANTS
    Requests = {"r1"}
    CliRequests = {}
    Unreadable = {}
    Names = {"a", "p"}
    PublicNames = {"p"}
    Lines <- MCLines
    LinesOf <- PublicPair
    Canonical <- MCCanonical
    Rejected = Rejected
    Existing = {"a"}
    MaxNames = 5
    Deliveries = {1}
    MaxAttempts = 1
    MaxFaults = 1
    DispatchAttempts = 2
CHECK_DEADLOCK FALSE
INVARIANTS
    DispatchTypeOK
    NoPairIsForgotten
    UndisturbedVerdictsAreRight
PROPERTIES
    ReplicationCheckIsConclusive
