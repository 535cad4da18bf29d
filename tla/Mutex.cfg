CONSTANT Threads = {t1, t2, t3}
SPECIFICATION FairSpec
INVARIANT TypeOK
INVARIANT MutualExclusion
INVARIANT NoLostWakeup
PROPERTY ImplementsLock
PROPERTY NotStranded
PROPERTY TimedLockReturns
