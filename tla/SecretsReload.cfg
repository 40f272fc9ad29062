SPECIFICATION Spec
CONSTANTS
    Admins = {a1}
    Keys = {k1}
    NoKey = NoKey
    MaxTokens = 2
SYMMETRY Symmetry
INVARIANT ReloadTakesEffect
