\* Two failed kernel calls: a second roll-back meets the fields of the first.
SPECIFICATION Spec
CONSTANTS
    WorkerCount = 3
    PoolSize = 3
    Ranges = {1, 2, 3, 4, 5, 6, 7}
    MaxFailures = 2
    MaxApp = 1
INVARIANT OthersKeepTheirs
CHECK_DEADLOCK FALSE
