SPECIFICATION FairSpec
CONSTANTS
    Callers = {k1, k2}
    Conns = {c1}
    Objs = {m1, m2, m3}
    NoObj = NoObj
    Kinds = {"call"}
    PendingRequests = 1
    RetryNum = 0
    MaxSeq = 2
    CountMod = 8
INVARIANTS
    CountExact
PROPERTIES
    EveryCallReturns
    TeardownEnds
    BufferFlushed
CHECK_DEADLOCK FALSE
