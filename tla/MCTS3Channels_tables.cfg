\* Four channels, each a tower, a wide station or an area, any sequence of calls.
CONSTANTS
    Channel = {c1, c2, c3, c4}
    CHANNEL_ROOT = root
    CHANNEL_NOT_CHILD_OF_ROOT = notChild
    CHANNEL_ID_NOT_FOUND = notFound
    NoLink = noLink
    NoPosition = noPosition
    near = near
    far = far
    Facts <- MCFacts
    RootRow <- MCRootRow
    Distances <- MCDistances
SYMMETRY Symmetry
SPECIFICATION Spec
INVARIANTS
    TablesConsistent
    LoadTakesEffect
    LookupIsNearest
    LookupIsClosest
    ListShowsTree
PROPERTIES
    ImplementsForest
