SPECIFICATION Spec
CONSTANTS
    Producers = {p1, p2}
    Consumers = {c1, c2}
    x1 = x1
    x2 = x2
    x3 = x3
    Items = {x1, x2, x3}
    PriorityOf <- MixedPriority
    MaxSize = 1
    WordMod = 8
    MaxClears = 1
    TimedDequeue = TRUE
    NoOne = NoOne
PROPERTY Implements
CHECK_DEADLOCK FALSE
