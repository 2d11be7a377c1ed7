SPECIFICATION Spec
CONSTANTS
    r1 = r1
    r2 = r2
    m1 = m1
    Requests = {r1, r2}
    Modules = {m1}
    ModuleOf <- OneModule
    Panicking = {m1}
    Workers = {w1, w2}
    Controllers = {k1, k2}
    WorkerCount = 1
    MaxConcurrent = 1
    QueueSize = 1
    MaxStarts = 2
    Nobody = Nobody
SYMMETRY Interchangeable
INVARIANTS
    PermitsConserved
    RequestsConserved
    AnswersExplained
    StoppedMeansIdle
CHECK_DEADLOCK FALSE
