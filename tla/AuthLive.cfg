SPECIFICATION FairSpec
CONSTANTS
    Requests = {r1, r2}
    Runs = {k1}
    NoRun = NoRun
    Rotation = 1
    TokenLife = 2
    Safety = 0
    MaxTime = 2
PROPERTY RequestsEnd
CHECK_DEADLOCK FALSE
