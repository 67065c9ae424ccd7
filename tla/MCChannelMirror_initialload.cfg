\* Two channels: one goes while its description is awaited.
CONSTANTS
    Channel = {c1, c2}
    CHANNEL_ROOT = root
    CHANNEL_NOT_CHILD_OF_ROOT = notChild
    CHANNEL_ID_NOT_FOUND = notFound
    NoIdent = noIdent
    NoPlace = noPlace
    Here = here
    Ident <- MCIdent
    Place = {here}
    StationData <- MCStationData
    Names <- Silent
    Descriptions <- Silent
    FrequencyModes = {FALSE, TRUE}
    MaxReplies = 3
SYMMETRY Symmetry
SPECIFICATION Spec
INVARIANT
    InitialLoadCompletes
