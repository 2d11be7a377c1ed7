SPECIFICATION Spec
CONSTANTS
    s1 = s1
    s2 = s2
    m1 = m1
    e1 = e1
    e2 = e2
    Subs = {s1, s2}
    Subscribers = {m1}
    SubscriberOf <- OneSubscriber
    Wild = {s1}
    Events = {e1}
    Wants <- AllAndOne
    Panicking = {s1}
    Tasks = {}
    Threads = 1
    MaxResets = 0
    MaxOps = 2
    Nothing = Nothing
PROPERTY AnswerCountsSubscribers
CHECK_DEADLOCK FALSE
