SPECIFICATION Spec
CONSTANTS
    Callers = {k1}
    Conns = {c1}
    Objs = {m1, m2, m3, m4, m5}
    NoObj = NoObj
    Kinds = {"call"}
    PendingRequests = 1
    RetryNum = 0
    MaxSeq = 5
    CountMod = 8
SYMMETRY Symmetric
VIEW LiveState
INVARIANTS
    PendingBounded
    EncodesOwnRequest
CHECK_DEADLOCK FALSE
