SPECIFICATION Spec
CONSTANTS
    Users = {u1, u2}
    Handlers = {h1, h2, h3}
    Chans = {s1, s2, s3, s4}
    Nil = Nil
    Conns = 1
    DialRetryTime = 0
    UsersStop = TRUE
SYMMETRY Symmetric
INVARIANTS
    OneCreator
CHECK_DEADLOCK FALSE
