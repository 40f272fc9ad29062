SPECIFICATION Spec
CONSTANTS
    Requests = {r1, r2}
    Runs = {k1, k2}
    NoRun = NoRun
    Rotation = 3
    TokenLife = 4
    Safety = 1
    MaxTime = 4
SYMMETRY Symmetry
INVARIANTS SingleFlight InSync RetryUsesNewToken
PROPERTY SentTokenWorks
CHECK_DEADLOCK FALSE
