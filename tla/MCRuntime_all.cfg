SPECIFICATION FairSpec
CONSTANTS
    GrTasks = {"t1", "t2"}
    GrReserved = {"k"}
    GrTimed = {"w"}
    GrMaxSize = 1
    TgTasks = {"a", "b", "c"}
    TgStoppers = {"g1", "g2"}
    PcKeys = {"a", "b"}
    PcGauges = {"b"}
    PcCallers = {"c1"}
    PcCap = 1
    PcSendCount = 1
    PcReports = 2
    PcCalls = 2
    PcInits = 2
    GlRoutines = {"g1", "g2"}
    GlKeys = {"cost", "id"}
    GlCosts = {"cost"}
    GlSteps = 5
    StStats = {"s1"}
    StCmds = {"c1", "c2"}
    StCap = 1
    StFiles = 2
    StEnds = 3
INVARIANTS
    GrExact
    TgKept
    PcExact
    GlPrivate
    
PROPERTIES
    GrImplements
    GrReturns
CHECK_DEADLOCK FALSE
