SPECIFICATION Spec
CONSTANTS
    Users = {"ann", "bob", "carl"}
    Accounts = {"ann", "bob"}
    KeyOf <- MCKeyOf
    Groups = {"alpha", "beta", "staff"}
    Stacks = {"alpha", "beta"}
    Buckets = {"a", "c"}
    StackOf <- MCStackOf
    InitialGroups <- TwoStacks
    InitialBuckets = {"a"}
    Syncs = {"s1", "s2"}
    CliSyncs = {}
    None = None
    MAX_FOLDER_ATTEMPTS = 2
    MaxAttempts = 1
    MaxChanges = 1
    MaxFaults = 0
CHECK_DEADLOCK FALSE
INVARIANTS
    NewBucketsAreMounted
