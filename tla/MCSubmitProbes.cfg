SPECIFICATION Spec
CONSTANTS
    u1 = u1
    u2 = u2
    a1 = a1
    None = None
    V4 = V4
    User = {u1, u2}
    Agent = {a1}
    Width = 3
    IdBits = 1
    MaxBatchSize = 3
    Input <- Inputs
    PrefixSets <- SomePrefixSets
    Request <- Requests
INVARIANTS
    SubmitInv
    BatchesPartition
    BatchesFit
    BatchesAreFull
    AcceptedIsPacked
    SourcesAreOwn
PROPERTIES
    OfferedIsAccepted
CHECK_DEADLOCK FALSE
