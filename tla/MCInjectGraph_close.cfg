SPECIFICATION Spec
CONSTANTS
    Names = {"a", "b"}
    NoName = ""
    Structs = {"Log", "Store", "Server", "Odd"}
    Plains = {"int"}
    Interfaces = {"Storage"}
    Fields <- MCFields
    Impls <- MCImpls
    Assignable <- MCAssignable
    StartAble = {"Log", "Server"}
    CloseAble = {"Log", "Store", "Server"}
    MaxCalls = 3
INVARIANTS
    WalkMeetsAll
    ClosedExactly
    UsersFirst
PROPERTIES
    CloseEmpties
