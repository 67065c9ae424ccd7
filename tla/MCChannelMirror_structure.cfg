\* Three channels whose descriptions change; military radios, which read every frequency.
CONSTANTS
    Channel = {c1, c2, c3}
    CHANNEL_ROOT = root
    CHANNEL_NOT_CHILD_OF_ROOT = notChild
    CHANNEL_ID_NOT_FOUND = notFound
    NoIdent = noIdent
    NoPlace = noPlace
    Here = here
    Ident <- MCIdent
    Place = {here}
    StationData <- MCStationData
    Names <- Silent
    Descriptions <- TwoDescriptions
    FrequencyModes = {TRUE}
    MaxReplies = 3
SYMMETRY Symmetry
SPECIFICATION Spec
INVARIANTS
    TypeOK
    NoGhostChannels
    ClosureIsTrue
    TopLevelLoaded
    FrequenciesFresh
