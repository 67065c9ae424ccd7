CONSTANTS
    Channel = {c1, c2}
    Combinations <- MCCombinations
    Root = root
    NotFound = notFound
    Spacings = {"auto", "force833"}
    FrequencyModes = {"civil", "military"}
SYMMETRY Symmetry
SPECIFICATION Spec
INVARIANTS
    TypeOK
    InForce
    UntunedUnderRoot
    NothingUnsaved
