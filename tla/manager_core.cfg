SPECIFICATION Spec
CONSTANTS
    m1 = m1
    m2 = m2
    Modules = {m1, m2}
    Deps <- TwoDependsOnOne
    Present = {m1}
    Failing = {m1}
    Tasks = {t1, t2}
    Nothing = Nothing
SYMMETRY Interchangeable
CONSTRAINT OnlyOneRaced
INVARIANTS
    RegistryTruthful
    RoutesFollowInstances
    DependentsTracked
PROPERTY NotUnloadedUnderDependents
