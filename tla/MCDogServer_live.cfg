SPECIFICATION FairSpec
CONSTANTS
    Conns = {c1}
    Reqs = {r1, r2}
    None = None
    Concurrency = 1
    PendingResponses = 1
    MaxStarts = 2
PROPERTIES
    StopReturns
    RequestsEnd
CHECK_DEADLOCK FALSE
