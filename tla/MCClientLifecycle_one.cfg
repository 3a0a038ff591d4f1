SPECIFICATION FairSpec
CONSTANTS
    Users = {u1}
    Handlers = {h1, h2}
    Chans = {s1, s2, s3}
    Nil = Nil
    Conns = 1
    DialRetryTime = 1
    UsersStop = FALSE

    
PROPERTIES
    StopsEnd
