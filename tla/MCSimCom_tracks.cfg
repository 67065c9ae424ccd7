\* No automatic mode, three things that happen.
CONSTANTS
    lobby = lobby
    field = field
    towerA = towerA
    towerB = towerB
    Channel = {lobby, field, towerA}
    CHANNEL_ROOT = root
    CHANNEL_NOT_CHILD_OF_ROOT = notChild
    CHANNEL_ID_NOT_FOUND = notFound
    NoPosition = noPosition
    RootRow <- MCRootRow
    Tree <- MCSmallTree
    Frequency <- TowerOrNone
    RootChannel = field
    Untuned = TRUE
    UntunedChannel = lobby
    Modes = {"MANUAL", "DISABLED"}
    Prompt = TRUE
    MaxEvents = 3
    MaxDenials = 1
SPECIFICATION Spec
CHECK_DEADLOCK FALSE
INVARIANTS
    RecordIsTrue
