SPECIFICATION FairSpec
CONSTANTS
    Files = {"a", "b", "odd", "old"}
    Collections = {"c1"}
    CollectionOf <- MCCollectionOf
    Expired = {"old"}
    Undated = {"odd"}
    InitialRemote <- MCRemote
    Lost = {"old"}
    Damaged = {"a", "old"}
    Syncs = {"s1", "s2"}
    Scheduled = "s1"
    PageSize = 1
    None = None
    MaxEvents = 2
CHECK_DEADLOCK FALSE
INVARIANTS
    TypeOK
    NoRowIsRepeated
    RecordedBeforeLive
    UndisturbedInventoriesAreComplete
    AuditsMissNothing
PROPERTIES
    BackupsCatchUp
