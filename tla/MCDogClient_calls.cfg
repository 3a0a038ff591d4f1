SPECIFICATION Spec
CONSTANTS
    Callers = {k1, k2}
    Conns = {c1}
    Objs = {m1, m2, m3, m4}
    NoObj = NoObj
    Kinds = {"call", "async", "udp"}
    PendingRequests = 1
    RetryNum = 1
    MaxSeq = 2
    CountMod = 8
SYMMETRY Symmetric
VIEW LiveState
INVARIANTS
    IInv
    CloseIsSafe
    NoLostCall
    ReplyMatches
CHECK_DEADLOCK FALSE
