CONSTANTS
    Waiters = {w1, w2}
    Posters = {p1}
    Initial = 0
    InitValues = {}
    SEM_VALUE_MAX = 2
    MaxPosts = 2
SPECIFICATION FairSpec
PROPERTY WaitTakesPermit
CHECK_DEADLOCK FALSE
