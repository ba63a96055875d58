SPECIFICATION Spec
CONSTANTS
    a1 = a1
    a2 = a2
    k1 = k1
    k2 = k2
    Agent = {a1}
    Secret = {x, y}
    Call = {k1, k2}
    None = None
    MaxAge = 3
    Period = 2
    Latency = 2
    Behind = 0
    Ahead = 0
    MaxTime = 6
    Restarts = FALSE
INVARIANTS
    RegisteredIsThere
CHECK_DEADLOCK FALSE
