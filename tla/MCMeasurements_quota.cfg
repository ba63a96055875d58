SPECIFICATION Spec
CONSTANTS
    a1 = a1
    a2 = a2
    c1 = c1
    c2 = c2
    s1 = s1
    s2 = s2
    u1 = u1
    u2 = u2
    None = None
    User = {u1}
    Submission = {s1, s2, s3}
    Canceller = {}
    Agent = {a1}
    Limit <- LimitOfTwo
    Metadata <- OneAgent
    MaxProbes = 2
    MaxBatches = 1
    MaxDay = 1
    Faults = TRUE
    InOrder = TRUE
INVARIANTS
    QuotaKeptWhenAlone
VIEW HealthView
SYMMETRY Submissions
CHECK_DEADLOCK FALSE
