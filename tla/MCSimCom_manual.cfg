\* Manual mode, two towers: the user moves, then the position changes.
CONSTANTS
    lobby = lobby
    field = field
    towerA = towerA
    towerB = towerB
    Channel = {lobby, field, towerA, towerB}
    CHANNEL_ROOT = root
    CHANNEL_NOT_CHILD_OF_ROOT = notChild
    CHANNEL_ID_NOT_FOUND = notFound
    NoPosition = noPosition
    RootRow <- MCRootRow
    Tree <- MCTree
    Frequency <- TwoTowers
    RootChannel = field
    Untuned = FALSE
    UntunedChannel = lobby
    Modes = {"MANUAL"}
    Prompt = TRUE
    MaxEvents = 3
    MaxDenials = 0
SPECIFICATION Spec
CHECK_DEADLOCK FALSE
PROPERTIES
    ManualMoveStands
