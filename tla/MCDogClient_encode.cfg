SPECIFICATION Spec
CONSTANTS
    Callers = {k1, k2}
    Conns = {c1}
    Objs = {m1, m2, m3, m4}
    NoObj = NoObj
    Kinds = {"call"}
    PendingRequests = 1
    RetryNum = 1
    MaxSeq = 2
    CountMod = 8
INVARIANTS
    EncodesAPacket
CHECK_DEADLOCK FALSE
