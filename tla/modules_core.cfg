SPECIFICATION MCSpec
CONSTANTS
    i1 = i1
    i2 = i2
    p1 = p1
    p2 = p2
    p3 = p3
    Ids = {i1, i2}
    Paths = {p1, p2, p3}
    IdOf <- SameId
    Broken = {p3}
    SettableStates = {"Running", "Error"}
    RegistryTasks = {t1, t2}
    Absent = Absent
    Names = {"m1"}
    Puts = {"Loaded", "Error"}
    Callers = {u1, u2}
    GraphModules = {"a", "b", "c", "d"}
    MayDepend <- Diamond
    KeyLists <- ThreeOrders
    Declarations <- SomeDeclarations
INVARIANTS
    RegistryHolds
    LifecycleHolds
    WalksAgree
    ResolutionHolds
PROPERTIES
    
    
    CallsReturn
CHECK_DEADLOCK FALSE
