SPECIFICATION QueueSpec
CONSTANTS
    Punches = {p1, p2}
    Pages = {t1, t2}
    Garbage = {g1}
    MaxMishaps = 2
INVARIANTS
    ShownIsKept
PROPERTIES
    NothingUnreadIsLost
    ShownIsAnswered
CHECK_DEADLOCK FALSE
