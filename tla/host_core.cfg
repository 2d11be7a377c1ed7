SPECIFICATION MCSpec
CONSTANTS
    Peers = {p1, p2}
    Admins = {k1, k2}
    MaxConnections = 1
    MaxLoops = 2
    RequestNumbers = {1, 2, 3, 4}
    KindOf <- Kind4
    WellFormed = {1, 2, 4}
    RouteCalls = {r1, r2, r3}
    AutoLoad = {m1}
INVARIANTS
    ConnectionsCounted
    FlagTellsTheTruth
    AnswersInStep
    CoreAndRouterAgree
PROPERTIES
    ToldEnds
CHECK_DEADLOCK FALSE
