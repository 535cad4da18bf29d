CONSTANTS
    Threads = {w1, c1}
    Waiters = {w1}
    Signallers = {}
    Cancellers = {c1}
    SeqMod = 2
    MaxItems = 1
SPECIFICATION FairSpec
PROPERTY CancelWakes
CHECK_DEADLOCK FALSE
