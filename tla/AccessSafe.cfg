SPECIFICATION Spec
CONSTANTS
    Requests = {r1, r2}
    Followed = {r1}
    Keys = {k1}
    None = None
    Ttl = 1
    Skew = 1
    MaxTime = 2
INVARIANTS TypeOK KeyHonoured KeyLearned 
SYMMETRY Symmetry
CHECK_DEADLOCK FALSE
