SPECIFICATION FairSpec
CONSTANTS
    s1 = s1
    s2 = s2
    m1 = m1
    e1 = e1
    e2 = e2
    Subs = {s1, s2}
    Subscribers = {m1}
    SubscriberOf <- OneSubscriber
    Wild = {}
    Events = {e1}
    Wants <- AllAndOne
    Panicking = {s1}
    Tasks = {t1, t2}
    Threads = 1
    MaxResets = 1
    MaxOps = 2
    Nothing = Nothing
INVARIANTS
    ListIndexAgree
    GoneForGood
    StatsAccounted
PROPERTY PublishReturns
CHECK_DEADLOCK FALSE
