SPECIFICATION FairSpec
CONSTANTS
    u1 = u1
    u2 = u2
    u3 = u3
    User = {u1, u2, u3}
    Call = {k1, k2, k3}
    None = None
    Error = Error
    Exhausted = Exhausted
    Id <- Ids
    Deterministic <- SharedDeterministic
    MaxAttempts = 3
    Faults = TRUE
INVARIANTS
    IInv
    CallsAgree
    RereadFindsRow
    DeterministicUnlessTaken
    ExhaustedOnlyByCollision
PROPERTIES
    ImplementsAllocation
    CallReturns
CHECK_DEADLOCK FALSE
