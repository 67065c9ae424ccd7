CONSTANTS
    Channel = {c1, c2}
    Combinations <- MCCombinations
    Root = root
    NotFound = notFound
    Spacings = {"auto", "force833"}
    FrequencyModes = {"civil"}
SYMMETRY Symmetry
SPECIFICATION Spec
PROPERTIES
    RootRetained
