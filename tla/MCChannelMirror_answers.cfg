\* Two channels whose names change, in both frequency modes; every request answered.
CONSTANTS
    Channel = {c1, c2}
    CHANNEL_ROOT = root
    CHANNEL_NOT_CHILD_OF_ROOT = notChild
    CHANNEL_ID_NOT_FOUND = notFound
    NoIdent = noIdent
    NoPlace = noPlace
    Here = here
    Ident <- MCIdent
    Place = {here}
    StationData <- MCStationData
    Names <- TwoNames
    Descriptions <- Silent
    FrequencyModes = {FALSE, TRUE}
    MaxReplies = 2
SPECIFICATION FairSpec
INVARIANT
    FrequenciesFresh
PROPERTIES
    CallsTables
    AwaitedIsLoaded
