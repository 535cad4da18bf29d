CONSTANTS
    Components = {"Once", "Semaphore", "Barrier", "RWLock", "Condvar", "SlotAlloc", "WorkerLoop"}
    OnceThreads = {t1, t2, t3}
    SemWaiters = {t1}
    SemPosters = {t2, t3}
    SemInitial = 0
    SemInitValues = {}
    MaxPosts = 2
    BarrierThreads = {t1, t2, t3}
    MaxArrivals = 9
    Readers = {t1}
    Writers = {t3}
    MaxCalls = 4
    TypedThreads = {t1}
    MaxDepth = 1
    Waiters = {t1, t2}
    Signallers = {t3}
    Cancellers = {}
    MaxItems = 2
    SlotThreads = {t1, t2}
    InitCounts = {0, 1}
    SegmentSlots = 2
    Requests = {"m1", "m2"}
    MaxErrors = 1
    MaxTimeouts = 1
    SEM_VALUE_MAX = 2
    PhaseMod = 2
    WRITER_BIT = 8
    WakeMod = 2
    NoOwner = "u64::MAX"
    SeqMod = 3
    SlotBase = 3
    Ntfns = {TRUE, FALSE}
    MAX_SEGMENTS = 2
    MAX_CSPACE_EXPANSIONS = 2
    ExpandBase = 20
    ExpandSlots = 1
    MaxRun = 2
    LoopWorkers = 2
    BarrierCount = 3
SPECIFICATION FairSpec
PROPERTY EveryCallReturns
PROPERTY WaitTakesPermit
PROPERTY TimedCallsReturn
PROPERTY CompleteRoundLeaves
PROPERTY NoLostSignal
PROPERTY AllocReturns
PROPERTY RequestsServed
CHECK_DEADLOCK FALSE
