\* Every mode; a request may be turned down.
CONSTANTS
    lobby = lobby
    field = field
    towerA = towerA
    towerB = towerB
    Channel = {lobby, field, towerA}
    CHANNEL_ROOT = root
    CHANNEL_NOT_CHILD_OF_ROOT = notChild
    CHANNEL_ID_NOT_FOUND = notFound
    NoPosition = noPosition
    RootRow <- MCRootRow
    Tree <- MCSmallTree
    Frequency <- TowerOrNone
    RootChannel = field
    Untuned = TRUE
    UntunedChannel = lobby
    Modes = {"AUTO", "MANUAL", "DISABLED"}
    Prompt = TRUE
    MaxEvents = 1
    MaxDenials = 1
SPECIFICATION FairSpec
CHECK_DEADLOCK FALSE
INVARIANTS
    TypeOK
PROPERTIES
    HandsOff
    LocksIn
    RecordComesRight
