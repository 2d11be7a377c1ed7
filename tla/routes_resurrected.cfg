SPECIFICATION Spec
CONSTANTS
    a1 = a1
    a2 = a2
    m1 = m1
    m2 = m2
    e1 = e1
    e2 = e2
    c1 = c1
    p2 = p2
    d1 = d1
    d2 = d2
    Actions = {a1, a2}
    FastActions = {a2}
    Modules = {m1, m2}
    Routes = {e1, e2, c1, p2}
    ModuleOf <- SomeModules
    KindOf <- SomeKinds
    Covers <- SomeCovers
    Priority <- SomePriorities
    Enabled = {e1, e2, c1, p2}
    Finders = {f1}
    CacheCapacity = 1
    None = None
INVARIANTS
    RemovedIsForgotten
