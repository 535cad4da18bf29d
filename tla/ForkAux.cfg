\* The thread in slot 1, not the main thread, calls fork.
SPECIFICATION Spec
CONSTANTS
    MAX_THREADS = 3
    GenMod = 4
    MaxCreates = 2
    MaxFailures = 1
    Overlap = FALSE
    Forkers = {1}
INVARIANT StackStaysMapped
CHECK_DEADLOCK FALSE
