SPECIFICATION FairSpec
CONSTANTS
    Key = {x, y}
    Call = {k1, k2}
    None = None
    MaxAge = 1
    Latency = 1
    MaxTime = 3
    MaxRotations = 1
    Restarts = TRUE
INVARIANTS
    IInv
    CacheIsThere
    AnswersFollowIssuer
PROPERTIES
    CallReturns
CHECK_DEADLOCK FALSE
