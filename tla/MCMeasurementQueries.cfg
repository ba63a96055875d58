SPECIFICATION QSpec
CONSTANTS
    a1 = a1
    a2 = a2
    c1 = c1
    c2 = c2
    s1 = s1
    s2 = s2
    u1 = u1
    u2 = u2
    None = None
    User = {u1}
    Submission = {s1}
    Canceller = {c1}
    Agent = {a1, a2}
    Limit <- LimitOfTwo
    Metadata <- AgentLists
    MaxProbes = 2
    MaxBatches = 2
    MaxDay = 0
    Reader = {r1}
    r1 = r1
    Faults = TRUE
    InOrder = TRUE
INVARIANTS
    QueriesInv
    DetailsCoverSummary
    PartsMissNothing
PROPERTIES
    ProgressNeverRegresses
    TerminalIsStable
    ImplementsLife
VIEW HealthView
CONSTRAINT QueryUnderWay
CHECK_DEADLOCK FALSE
