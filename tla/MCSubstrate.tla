---------------------------- MODULE MCSubstrate -----------------------------
(***************************************************************************)
(* One model for the parts of the substrate that do not share state: the   *)
(* primitives of sync.rs other than Mutex, the slot allocator and the      *)
(* workers' receive loop.  A behaviour exercises one of them (component)   *)
(* and leaves the others in their initial state: the states explored are   *)
(* the sum of those of the instances, not the product.                     *)
(***************************************************************************)
EXTENDS SyncPrimitives, GroupLocks, SlotService, ServerLoop, TLC

CONSTANT Components  \* the parts this run exercises

Threads ==
    UNION {OnceThreads, SemWaiters, SemPosters, BarrierThreads, Readers, Writers,
           TypedThreads, CondThreads, SlotThreads}

(* Readers, and writers, are interchangeable wherever else they appear. *)
Symm == Permutations(Readers) \cup Permutations(Writers)

VARIABLE component

-----------------------------------------------------------------------------
ASSUME SubstrateAssumption ==
    /\ Sem!SemaphoreAssumption /\ Bar!BarrierAssumption /\ RW!RWLockAssumption
    /\ Typed!TypedMutexAssumption /\ Cond!CondvarAssumption
    /\ Slot!SlotAllocAssumption /\ Loop!WorkerLoopAssumption

-----------------------------------------------------------------------------
Init ==
    /\ component \in Components
    /\ Once!Init /\ Sem!Init /\ Bar!Init /\ RW!Init /\ Typed!Init /\ Cond!Init
    /\ Slot!Init /\ Loop!Init
    /\ component # "TypedMutex" => t_mutex_type = Typed!MUTEX_NORMAL
    /\ component # "SlotAlloc" => a_seg_count = 1 /\ a_segments[0].count = 0 /\ a_cspace_ntfn
    /\ component # "WorkerLoop" => ~l_timed

OnceOnly ==
    /\ component = "Once"
    /\ UNCHANGED <<component, SemVars, BarVars, RWVars, TypedVars, CondVars, SlotVars, LoopVars>>

SemOnly ==
    /\ component = "Semaphore"
    /\ UNCHANGED <<component, OnceVars, BarVars, RWVars, TypedVars, CondVars, SlotVars, LoopVars>>

BarOnly ==
    /\ component = "Barrier"
    /\ UNCHANGED <<component, OnceVars, SemVars, RWVars, TypedVars, CondVars, SlotVars, LoopVars>>

RWOnly ==
    /\ component = "RWLock"
    /\ UNCHANGED <<component, OnceVars, SemVars, BarVars, TypedVars, CondVars, SlotVars, LoopVars>>

TypedOnly ==
    /\ component = "TypedMutex"
    /\ UNCHANGED <<component, OnceVars, SemVars, BarVars, RWVars, CondVars, SlotVars, LoopVars>>

CondOnly ==
    /\ component = "Condvar"
    /\ UNCHANGED <<component, OnceVars, SemVars, BarVars, RWVars, TypedVars, SlotVars, LoopVars>>

SlotOnly ==
    /\ component = "SlotAlloc"
    /\ UNCHANGED <<component, OnceVars, SemVars, BarVars, RWVars, TypedVars, CondVars, LoopVars>>

LoopOnly ==
    /\ component = "WorkerLoop"
    /\ UNCHANGED <<component, OnceVars, SemVars, BarVars, RWVars, TypedVars, CondVars, SlotVars>>

Next ==
    \/ OnceOnly /\ Once!Next
    \/ SemOnly /\ Sem!Next
    \/ BarOnly /\ Bar!Next
    \/ RWOnly /\ RW!Next
    \/ TypedOnly /\ Typed!Next
    \/ CondOnly /\ Cond!Next
    \/ SlotOnly /\ Slot!Next
    \/ LoopOnly /\ Loop!Next

vars == <<component, OnceVars, SemVars, BarVars, RWVars, TypedVars, CondVars, SlotVars, LoopVars>>

Spec == Init /\ [][Next]_vars

(* The threads that run the two workers. *)
LoopThread == CHOOSE f \in [Loop!Workers -> Threads] : f[0] # f[1]

(* The fairness each primitive states for itself, under one WF per thread: *)
(* only the component's own disjunct is ever enabled.                      *)
Progress(t) ==
    \/ OnceOnly /\ t \in OnceThreads /\ Once!Progress(t)
    \/ SemOnly /\ t \in Sem!Threads /\ Sem!Progress(t)
    \/ BarOnly /\ t \in BarrierThreads /\ Bar!Progress(t)
    \/ RWOnly /\ t \in RW!Threads /\ RW!Progress(t)
    \/ CondOnly /\ t \in CondThreads /\ Cond!Progress(t)
    \/ SlotOnly /\ t \in SlotThreads /\ Slot!Progress(t)
    \/ LoopOnly /\ \E w \in Loop!Workers : LoopThread[w] = t /\ Loop!Step(w)

Timer(t) ==
    \/ SemOnly /\ t \in Sem!Threads /\ Sem!Timer(t)
    \/ RWOnly /\ t \in RW!Threads /\ RW!Timer(t)

Unlock(t) == RWOnly /\ t \in RW!Threads /\ RW!Unlock(t)

Procmgr == SlotOnly /\ Slot!Procmgr

FairSpec ==
    /\ Spec
    /\ \A t \in Threads : WF_vars(Progress(t)) /\ WF_vars(Timer(t)) /\ WF_vars(Unlock(t))
    /\ WF_vars(Procmgr)
-----------------------------------------------------------------------------
(* Properties: those of the components, one per guarantee. *)

(* The type invariant of each part. *)
TypeOK ==
    /\ Once!TypeOK /\ Sem!TypeOK /\ Bar!TypeOK
    /\ RW!TypeOK /\ Typed!TypeOK /\ Cond!TypeOK
    /\ component = "SlotAlloc" => Slot!TypeOK
    /\ component = "WorkerLoop" => Loop!TypeOK

(* "Execute a closure exactly once": no two threads enter the f of        *)
(* call_once, and a caller that returned finds f finished; with the       *)
(* inductive invariant behind the two.                                    *)
CallOnceSound == Once!RunsOnce /\ Once!ReturnsAfterF /\ Once!OnceInv

(* The semaphore's count is the value last set plus posts minus successful *)
(* waits.                                                                  *)
PermitsConserved == Sem!PermitsConserved

(* Nobody leaves Barrier::wait before count threads have arrived, and it *)
(* returns true to exactly one thread of a round.                        *)
RoundsSound == Bar!LeavesOnlyWithRound /\ Bar!OneLeaderPerRound

(* Writers exclude everybody, the word of the RWLock counts the holders, *)
(* and writer_waiting the queued writers without the timed-out ones.     *)
RWLockSound == RW!Exclusion /\ RW!QueueCounted

(* TypedMutex: at most one thread owes unlocks and it holds the inner lock; *)
(* owner names the holder or nobody; count is the number of unlocks owed,   *)
(* across a condvar wait too; with none owed the inner lock is free.        *)
TypedMutexSound ==
    Typed!EntitledIsHolder /\ Typed!OwnerIsHolder /\ Typed!CountIsDepth /\ Typed!NotLeaked

(* Condvar waits give the mutex up while blocked and return with it, and a *)
(* sleeper has published its futex for pthread_cancel.                     *)
CondvarSound == Cond!WaitReleasesAndRegains /\ Cond!SleepersPublished

(* No slot is handed out twice at once and none is lost; segments do not *)
(* overlap and their used counters are right.                            *)
SlotsAccounted == component = "SlotAlloc" => Slot!NoDoubleHandOut /\ Slot!SegmentsConsistent

(* A blocking allocation asks procmgr only when no free run is left. *)
MissMeansFull == Slot!MissMeansFull

(* No path through the workers' receive loop swallows a request, and *)
(* without receive timeouts a request is handled and answered once.  *)
RequestsSound == component = "WorkerLoop" => Loop!RequestsConserved /\ Loop!UntimedHandlesOnce

(* Every call_once returns, given that f does. *)
EveryCallReturns == Once!EveryCallReturns

(* One sleeping waiter is roused when a permit is left for it. *)
WaitTakesPermit == Sem!WaitTakesPermit

(* Semaphore::wait_timeout, read_lock_timeout and write_lock_timeout come *)
(* back once their deadline passes.                                       *)
TimedCallsReturn == Sem!TimedWaitReturns /\ RW!TimedLockReturns

(* Every member of a complete round leaves the barrier. *)
CompleteRoundLeaves == Bar!CompleteRoundLeaves

(* No signalled item is left lying beside a waiter asleep for ever. *)
NoLostSignal == Cond!NoLostSignal

(* Every blocking slot allocation returns while procmgr answers. *)
AllocReturns == Slot!AllocReturns

(* A queued request is received while a worker is left. *)
RequestsServed == Loop!RequestsServed
=============================================================================
