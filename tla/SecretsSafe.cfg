SPECIFICATION Spec
CONSTANTS
    Admins = {a1, a2}
    Keys = {k1, k2}
    NoKey = NoKey
    MaxTokens = 2
SYMMETRY Symmetry
INVARIANTS StoreAgreesWithHost PairsWhole
