SPECIFICATION Spec
CONSTANTS
    Users = {"ann", "bob", "carl"}
    Accounts = {"ann", "bob"}
    KeyOf <- SharedKeyOf
    Groups = {"alpha", "beta", "staff"}
    Stacks = {"alpha", "beta"}
    Buckets = {"a", "c"}
    StackOf <- MCStackOf
    InitialGroups <- TwoStacks
    InitialBuckets = {"a"}
    Syncs = {"s1", "s2"}
    CliSyncs = {"s2"}
    None = None
    MAX_FOLDER_ATTEMPTS = 2
    MaxAttempts = 2
    MaxChanges = 1
    MaxFaults = 2
CHECK_DEADLOCK FALSE
INVARIANTS
    TypeOK
    MountsAreEntitled
    
PROPERTIES
    FailuresHaveACause
