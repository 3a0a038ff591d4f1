SPECIFICATION Spec
CONSTANTS
    Conns = {c1, c2}
    Reqs = {r1, r2, r3}
    None = None
    Concurrency = 2
    PendingResponses = 1
    MaxStarts = 2
SYMMETRY Symmetric
INVARIANTS
    RequestsExact
    WorkersExact
    
CHECK_DEADLOCK FALSE
