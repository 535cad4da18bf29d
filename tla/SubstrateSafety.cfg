CONSTANTS
    Components = {"Once", "Semaphore", "Barrier", "RWLock", "TypedMutex", "Condvar", "SlotAlloc", "WorkerLoop"}
    OnceThreads = {t1, t2, t3}
    SemWaiters = {t1, t2}
    SemPosters = {t3}
    SemInitial = 1
    SemInitValues = {0, 3}
    MaxPosts = 2
    BarrierThreads = {t1, t2, t3}
    MaxArrivals = 9
    Readers = {t1, t2}
    Writers = {w1, w2}
    MaxCalls = 3
    TypedThreads = {t1, t2, t3}
    MaxDepth = 2
    Waiters = {t1, t2}
    Signallers = {t3}
    Cancellers = {t3}
    MaxItems = 1
    SlotThreads = {t1, t2}
    InitCounts = {0, 1, 5, 9}
    SegmentSlots = 4
    Requests = {"m1", "m2"}
    MaxErrors = 2
    MaxTimeouts = 1
    SEM_VALUE_MAX = 2
    PhaseMod = 2
    WRITER_BIT = 8
    WakeMod = 2
    NoOwner = "u64::MAX"
    SeqMod = 3
    SlotBase = 3
    Ntfns = {TRUE, FALSE}
    MAX_SEGMENTS = 2
    MAX_CSPACE_EXPANSIONS = 2
    ExpandBase = 20
    ExpandSlots = 1
    MaxRun = 2
    LoopWorkers = 2
    BarrierCount = 3
SYMMETRY Symm
SPECIFICATION Spec
INVARIANT TypeOK
INVARIANT CallOnceSound
INVARIANT PermitsConserved
INVARIANT RoundsSound
INVARIANT RWLockSound
INVARIANT TypedMutexSound
INVARIANT CondvarSound
INVARIANT SlotsAccounted
INVARIANT RequestsSound
PROPERTY MissMeansFull
CHECK_DEADLOCK FALSE
