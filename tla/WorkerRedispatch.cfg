\* One expired receive and two failed calls.
SPECIFICATION Spec
CONSTANTS
    WorkerCount = 2
    Requests = {"m1", "m2"}
    MaxErrors = 2
    MaxTimeouts = 1
INVARIANT HandlesOnce
CHECK_DEADLOCK FALSE
