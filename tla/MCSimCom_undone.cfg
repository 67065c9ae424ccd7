\* Automatic mode; a move may be over before the callback that asked for it.
CONSTANTS
    lobby = lobby
    field = field
    towerA = towerA
    towerB = towerB
    Channel = {lobby, field, towerA}
    CHANNEL_ROOT = root
    CHANNEL_NOT_CHILD_OF_ROOT = notChild
    CHANNEL_ID_NOT_FOUND = notFound
    NoPosition = noPosition
    RootRow <- MCRootRow
    Tree <- MCSmallTree
    Frequency <- OneTower
    RootChannel = field
    Untuned = TRUE
    UntunedChannel = lobby
    Modes = {"AUTO"}
    Prompt = FALSE
    MaxEvents = 1
    MaxDenials = 0
SPECIFICATION Spec
CHECK_DEADLOCK FALSE
PROPERTIES
    OwnMoveStands
