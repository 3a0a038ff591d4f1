SPECIFICATION FairSpec
CONSTANTS
    Subjects = {"eg"}
    LgRoutines = {"g1"}
    LgLevels = {2, 4}
    LgConfigs <- Configs
    LgCap = 1
    LgMaxLines = 1
    LgMaxNum = 1
    LgDays = 2
    LgCalls = 2
    RgRetries = 2
    RgLives = 1
    ZrProcs = {"p1"}
    ZrSessions = 1
    DsAddrs = {"a"}
    DsBad = "x"
    DsChanges = 1
    DsAdds = 1
    EgServers <- Servers
    EgSignals = 2
    RpAddrs = {"s1", "s2"}
    RpConfigs <- AddrLists
    RpCallers = {"k1"}
    RpReqs = {"q1", "q2"}
    RpRetry = 2
    RpMaxActive = 1
    RpWorkers = 1
    RcCallers = {"k1", "k2"}
    RcKeys = {"a", "b"}
    RcVals = {"v"}
    RcLists <- Lists
    RcCalls = 2
    MyConfs <- MyLists
    MyCallers = {"k1"}
    MyVals = {"v", "w"}
    MyRetry = 1
    MyCalls = 3
    HcTypes = {"form", "text", "multipart", "html"}
    HcRetries = {1}
    HcSteps = 4
PROPERTY EgInterruptStops
CHECK_DEADLOCK FALSE
