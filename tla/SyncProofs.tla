----------------------------- MODULE SyncProofs -----------------------------
(***************************************************************************)
(* Proofs about the primitives of SyncPrimitives and about the workers'    *)
(* receive loop, for every set of threads and every value of the other     *)
(* constants: Once, Semaphore, TypedMutex, Condvar and WorkerLoop.         *)
(***************************************************************************)
EXTENDS SyncPrimitives, ServerLoop, TLAPS

(* A leaf may take half a minute. *)
USE SMTT(120)

-----------------------------------------------------------------------------
(***************************************************************************)
(* Once is correct for every set of callers.  RunsOnce is not inductive by *)
(* itself: nothing in it says that a thread whose CAS succeeds is the      *)
(* first.  OnceInv ties the word to the two history sets (UNINIT exactly   *)
(* as long as nobody has started f, COMPLETE only when it has ended) and   *)
(* places the thread that won the CAS, and is inductive with TypeOK.       *)
(***************************************************************************)

(* Every step of call_once keeps the word and the program counters in      *)
(* their ranges.                                                           *)
LEMMA OnceTypeInductive == Once!TypeOK /\ [Once!Next]_Once!onceVars => Once!TypeOK'
<1> SUFFICES ASSUME Once!TypeOK, [Once!Next]_Once!onceVars PROVE Once!TypeOK'
  OBVIOUS
<1> USE DEF Once!TypeOK, Once!PCs, Once!Goto, Once!ONCE_UNINIT, Once!ONCE_RUNNING, Once!ONCE_COMPLETE
<1>1. CASE UNCHANGED Once!onceVars
  BY Zenon, <1>1 DEF Once!onceVars
<1>2. ASSUME NEW t \in OnceThreads, Once!call_once(t) PROVE Once!TypeOK'
  BY Zenon, <1>2 DEF Once!call_once
<1>3. ASSUME NEW t \in OnceThreads, Once!Progress(t) PROVE Once!TypeOK'
  BY Zenon, <1>3 DEF Once!Progress, Once!TryRun, Once!FReturns, Once!Complete, Once!WakeAll, Once!WaitLoad, Once!FutexWait
<1>4. ASSUME NEW t \in OnceThreads, Once!FutexInterrupt(t) PROVE Once!TypeOK'
  BY Zenon, <1>4 DEF Once!FutexInterrupt
<1>5. QED
  BY Zenon, <1>1, <1>2, <1>3, <1>4 DEF Once!Next

(* The phase invariant of call_once is kept by every step: the CAS, the    *)
(* return of f, the store of COMPLETE, the wake-up and the wait loop.      *)
LEMMA OnceInductive == Once!TypeOK /\ Once!OnceInv /\ [Once!Next]_Once!onceVars => Once!OnceInv'
<1> SUFFICES ASSUME Once!TypeOK, Once!OnceInv, [Once!Next]_Once!onceVars PROVE Once!OnceInv'
  OBVIOUS
<1> USE DEF Once!TypeOK, Once!PCs, Once!OnceInv, Once!RunsOnce, Once!ONCE_UNINIT, Once!ONCE_RUNNING, Once!ONCE_COMPLETE
<1>1. CASE UNCHANGED Once!onceVars
  BY Zenon, <1>1 DEF Once!onceVars
<1>2. ASSUME NEW t \in OnceThreads, Once!call_once(t) PROVE Once!OnceInv'
  BY Zenon, <1>2 DEF Once!call_once, Once!Goto
<1>3. ASSUME NEW t \in OnceThreads, Once!TryRun(t) PROVE Once!OnceInv'
  <2>1. CASE o_state = Once!ONCE_UNINIT
    BY <1>3, <2>1 DEF Once!TryRun, Once!Goto
  <2>2. CASE o_state # Once!ONCE_UNINIT
    BY <1>3, <2>2 DEF Once!TryRun, Once!Goto
  <2>3. QED
    BY Zenon, <2>1, <2>2
<1>4. ASSUME NEW t \in OnceThreads, Once!FReturns(t) PROVE Once!OnceInv'
  BY <1>4 DEF Once!FReturns, Once!Goto
<1>5. ASSUME NEW t \in OnceThreads, Once!Complete(t) PROVE Once!OnceInv'
  BY <1>5 DEF Once!Complete, Once!Goto
<1>6. ASSUME NEW t \in OnceThreads, Once!WakeAll(t) PROVE Once!OnceInv'
  BY Zenon, <1>6 DEF Once!WakeAll
<1>7. ASSUME NEW t \in OnceThreads, Once!WaitLoad(t) \/ Once!FutexWait(t) \/ Once!FutexInterrupt(t)
      PROVE  Once!OnceInv'
  BY <1>7 DEF Once!WaitLoad, Once!FutexWait, Once!FutexInterrupt, Once!Goto
<1>8. QED
  BY ZenonT(60), <1>1, <1>2, <1>3, <1>4, <1>5, <1>6, <1>7 DEF Once!Next, Once!Progress

(* call_once: the word, the history of f and the place of every thread     *)
(* agree at all times, for every set of callers.                           *)
THEOREM OnceCorrect == Once!Spec => []Once!OnceInv
<1>1. Once!Init => Once!TypeOK /\ Once!OnceInv
  BY DEF Once!Init, Once!TypeOK, Once!OnceInv, Once!RunsOnce, Once!PCs, Once!ONCE_UNINIT, Once!ONCE_RUNNING, Once!ONCE_COMPLETE
<1>2. QED
  BY <1>1, OnceTypeInductive, OnceInductive, PTL DEF Once!Spec

(* The word and the program counters keep their ranges. *)
THEOREM OnceTypes == Once!Spec => []Once!TypeOK
<1>1. Once!Init => Once!TypeOK
  BY Zenon DEF Once!Init, Once!TypeOK, Once!PCs, Once!ONCE_UNINIT, Once!ONCE_RUNNING, Once!ONCE_COMPLETE
<1>2. QED
  BY <1>1, OnceTypeInductive, PTL DEF Once!Spec

(* "Execute a closure exactly once, even across multiple threads". *)
THEOREM OnceRunsOnce == Once!Spec => []Once!RunsOnce
<1>1. Once!OnceInv => Once!RunsOnce
  BY Zenon DEF Once!OnceInv
<1>2. QED
  BY <1>1, OnceCorrect, PTL

(* Nobody returns from call_once before f has returned. *)
THEOREM OnceReturnsAfterF == Once!Spec => []Once!ReturnsAfterF
<1>1. Once!OnceInv => Once!ReturnsAfterF
  BY Zenon DEF Once!OnceInv, Once!ReturnsAfterF
<1>2. QED
  BY <1>1, OnceCorrect, PTL

-----------------------------------------------------------------------------
(***************************************************************************)
(* Semaphore: permits are conserved and the count stays in its range, for  *)
(* every number of waiters and posters.  Each successful CAS adds or takes *)
(* one permit; what keeps the count in 0..SEM_VALUE_MAX is that a thread   *)
(* about to CAS has seen a value that allows it (SeenAllows), and the CAS  *)
(* succeeds only on that value.                                            *)
(***************************************************************************)

SeenAllows ==
    \A t \in Sem!Threads :
        /\ s_pc[t] \in {"take", "lasttake", "trytake"} => s_seen[t] > 0
        /\ s_pc[t] = "padd" => s_seen[t] < SEM_VALUE_MAX

SemInv == Sem!SemaphoreAssumption /\ Sem!TypeOK /\ SeenAllows /\ Sem!PermitsConserved

(* wait, try_wait and wait_timeout up to the CAS, and the sleeps and       *)
(* wake-ups in between: no permit changes hands.                           *)
LEMMA SemWaits ==
    ASSUME SemInv, NEW t \in Sem!Threads,
           \/ Sem!wait(t) \/ Sem!wait_timeout(t) \/ Sem!try_wait(t) \/ Sem!ReadClock(t) \/ Sem!FutexWait(t)
           \/ Sem!Expire(t) \/ Sem!FutexTimeout(t) \/ Sem!FutexInterrupt(t) \/ Sem!post(t)
    PROVE  SemInv'
<1> USE DEF SemInv, Sem!SemaphoreAssumption, Sem!TypeOK, SeenAllows, Sem!PermitsConserved, Sem!PCs, Sem!WaitPCs, Sem!Goto
<1>1. UNCHANGED <<s_count, s_seen, s_base, s_posts, s_takes>> /\ s_pc' \in [Sem!Threads -> Sem!PCs]
  BY Zenon DEF Sem!wait, Sem!wait_timeout, Sem!try_wait, Sem!ReadClock, Sem!FutexWait, Sem!Expire, Sem!FutexTimeout, Sem!FutexInterrupt, Sem!post
<1>2. s_timed' \in [Sem!Threads -> BOOLEAN] /\ s_expired' \in [Sem!Threads -> BOOLEAN]
  BY ZenonT(60) DEF Sem!wait, Sem!wait_timeout, Sem!try_wait, Sem!ReadClock, Sem!FutexWait, Sem!Expire, Sem!FutexTimeout, Sem!FutexInterrupt, Sem!post
<1>3. \A u \in Sem!Threads : s_pc'[u] = s_pc[u] \/ s_pc'[u] \in {"load", "tryload", "last", "wait", "sleep", "pload"}
  BY Zenon DEF Sem!wait, Sem!wait_timeout, Sem!try_wait, Sem!ReadClock, Sem!FutexWait, Sem!Expire, Sem!FutexTimeout, Sem!FutexInterrupt, Sem!post
<1>4. QED
  BY Zenon, <1>1, <1>2, <1>3

(* The loads: a caller goes on to its CAS only with a value that allows it. *)
LEMMA SemLoads ==
    ASSUME SemInv, NEW t \in Sem!Threads, Sem!Load(t) \/ Sem!LastLoad(t) \/ Sem!TryLoad(t) \/ Sem!PostLoad(t)
    PROVE  SemInv'
<1> USE DEF SemInv, Sem!SemaphoreAssumption, Sem!TypeOK, SeenAllows, Sem!PermitsConserved, Sem!PCs, Sem!WaitPCs, Sem!Goto, Sem!See
<1>1. CASE Sem!Load(t)
  BY Zenon, <1>1 DEF Sem!Load
<1>2. CASE Sem!LastLoad(t)
  BY Zenon, <1>2 DEF Sem!LastLoad
<1>3. CASE Sem!TryLoad(t)
  BY <1>3 DEF Sem!TryLoad
<1>4. CASE Sem!PostLoad(t)
  BY <1>4 DEF Sem!PostLoad
<1>5. QED
  BY Zenon, <1>1, <1>2, <1>3, <1>4

(* The CASes of wait, try_wait, wait_timeout and post, and init. *)
LEMMA SemSwaps ==
    ASSUME SemInv, NEW t \in Sem!Threads,
           \/ Sem!Take(t) \/ Sem!LastTake(t) \/ Sem!TryTake(t) \/ Sem!PostAdd(t)
           \/ \E value \in SemInitValues : Sem!init(t, value)
    PROVE  SemInv'
<1> USE DEF SemInv, Sem!SemaphoreAssumption, Sem!TypeOK, SeenAllows, Sem!PermitsConserved, Sem!PCs, Sem!WaitPCs, Sem!Goto, Sem!Decrement
<1>1. CASE Sem!Take(t)
  BY <1>1 DEF Sem!Take
<1>2. CASE Sem!LastTake(t)
  BY <1>2 DEF Sem!LastTake
<1>3. CASE Sem!TryTake(t)
  BY <1>3 DEF Sem!TryTake
<1>4. CASE Sem!PostAdd(t)
  BY <1>4 DEF Sem!PostAdd
<1>5. ASSUME NEW value \in SemInitValues, Sem!init(t, value) PROVE SemInv'
  BY <1>5 DEF Sem!init
<1>6. QED
  BY Zenon, <1>1, <1>2, <1>3, <1>4, <1>5

(* The wake-ups of post and init only move sleepers back to their loop. *)
LEMMA SemWakes ==
    ASSUME SemInv, NEW t \in Sem!Threads, Sem!FutexWake(t) \/ Sem!FutexWakeAll(t)
    PROVE  SemInv'
<1> USE DEF SemInv, Sem!SemaphoreAssumption, Sem!TypeOK, SeenAllows, Sem!PermitsConserved, Sem!PCs, Sem!WaitPCs, Sem!Goto, Sem!Sleepers
<1>1. UNCHANGED <<s_count, s_seen, s_timed, s_expired, s_base, s_posts, s_takes>>
  BY Zenon DEF Sem!FutexWake, Sem!FutexWakeAll
<1>2. s_pc' \in [Sem!Threads -> Sem!PCs] /\ \A u \in Sem!Threads : s_pc'[u] = s_pc[u] \/ s_pc'[u] \in {"idle", "load"}
  <2>1. CASE Sem!FutexWake(t)
    BY Zenon, <2>1 DEF Sem!FutexWake, Sem!Threads
  <2>2. CASE Sem!FutexWakeAll(t)
    BY Zenon, <2>2 DEF Sem!FutexWakeAll
  <2>3. QED
    BY Zenon, <2>1, <2>2
<1>3. QED
  BY Zenon, <1>1, <1>2

(* No semaphore operation makes up or loses a permit, and none takes the   *)
(* count below 0 or above SEM_VALUE_MAX.                                   *)
THEOREM SemaphoreInvariant ==
    ASSUME Sem!SemaphoreAssumption
    PROVE  Sem!Spec => []SemInv
<1>1. Sem!Init => SemInv
  BY DEF Sem!Init, SemInv, Sem!SemaphoreAssumption, Sem!TypeOK, SeenAllows, Sem!PermitsConserved, Sem!PCs, Sem!WaitPCs
<1>2. SemInv /\ [Sem!Next]_Sem!semVars => SemInv'
  <2> SUFFICES ASSUME SemInv, [Sem!Next]_Sem!semVars PROVE SemInv'
    OBVIOUS
  <2>1. CASE UNCHANGED Sem!semVars
    BY Zenon, <2>1 DEF SemInv, Sem!TypeOK, SeenAllows, Sem!PermitsConserved, Sem!semVars
  <2>2. CASE Sem!Next
    BY Zenon, <2>2, SemWaits, SemLoads, SemSwaps, SemWakes DEF Sem!Next, Sem!Progress, Sem!Timer, Sem!Threads
  <2>3. QED
    BY Zenon, <2>1, <2>2
<1>3. QED
  BY <1>1, <1>2, PTL DEF Sem!Spec

(* "count" is the value last set plus the successful posts minus the       *)
(* successful waits since then, and stays in its range.                    *)
THEOREM SemaphoreConserves ==
    ASSUME Sem!SemaphoreAssumption
    PROVE  Sem!Spec => [](Sem!PermitsConserved /\ Sem!TypeOK)
<1>1. SemInv => Sem!PermitsConserved /\ Sem!TypeOK
  BY Zenon DEF SemInv
<1>2. QED
  BY <1>1, SemaphoreInvariant, PTL

-----------------------------------------------------------------------------
(***************************************************************************)
(* The typed mutex is correct for every set of threads, every recursion    *)
(* depth and every mutex type, over any lock that behaves like Lock.       *)
(*                                                                         *)
(* The properties of TypedMutex speak of the threads entitled by the       *)
(* results of their calls; they are not inductive, because lock and unlock *)
(* store owner and count in steps of their own.  TypedInv says, for every  *)
(* such intermediate step, who holds the inner lock and what owner, count  *)
(* and saved are.                                                          *)
(***************************************************************************)

(* The steps taken between acquiring and releasing the inner lock. *)
InsidePCs == {"own", "cnt", "disown", "zero", "release", "cvown", "cvrel", "cvset", "cvcnt"}

(* The inner lock has one holder at most: the thread that owes an unlock,  *)
(* or one inside lock, unlock or a condvar wait past the acquisition.      *)
HolderInv ==
    /\ \A t \in TypedThreads : t \in t_holders <=>
           \/ t_pc[t] \in InsidePCs
           \/ t_pc[t] = "idle" /\ t_depth[t] > 0
    /\ \A t, u \in t_holders : t = u

(* What a thread owes at each step, and what a condvar wait has saved. *)
DepthInv ==
    \A t \in TypedThreads :
        /\ t_pc[t] \in {"lock", "own", "cnt", "disown", "zero", "release"} => t_depth[t] = 0
        /\ t_pc[t] \in Typed!CondvarPCs => t_depth[t] > 0
        /\ t_pc[t] \in Typed!CondvarPCs /\ t_mutex_type = Typed!MUTEX_RECURSIVE => t_saved[t] = t_depth[t]

(* The owner of a RECURSIVE or ERRORCHECK mutex is a thread between the    *)
(* store of its id and the store of NO_OWNER.                              *)
OwnerInv ==
    t_mutex_type # Typed!MUTEX_NORMAL =>
        \A t \in TypedThreads : t_owner = t <=>
            \/ t_pc[t] \in {"cnt", "disown", "cvown", "cvcnt"}
            \/ t_pc[t] = "idle" /\ t_depth[t] > 0

(* The count of a RECURSIVE mutex, outside the steps that store it. *)
CountInv ==
    t_mutex_type = Typed!MUTEX_RECURSIVE =>
        \A t \in TypedThreads : t_pc[t] = "idle" /\ t_depth[t] > 0 => t_count = t_depth[t]

TypedInv ==
    Typed!TypedMutexAssumption /\ Typed!TypeOK /\ HolderInv /\ DepthInv /\ OwnerInv /\ CountInv
-----------------------------------------------------------------------------
(* lock, try_lock and lock_timeout: re-entry, blocking, the grant, the     *)
(* timeout and the stores of owner and count keep TypedInv.                *)
LEMMA LockKeepsInv ==
    ASSUME TypedInv, NEW t \in TypedThreads,
           \/ Typed!Reenter(t) \/ Typed!Block(t) \/ Typed!LockFree(t) \/ Typed!LockGranted(t)
           \/ Typed!TimeOut(t) \/ Typed!StoreOwner(t) \/ Typed!StoreCount(t)
    PROVE  TypedInv'
<1> USE DEF TypedInv, Typed!TypedMutexAssumption, Typed!TypeOK, HolderInv, DepthInv, OwnerInv, CountInv,
            Typed!PCs, Typed!CondvarPCs, InsidePCs, Typed!MUTEX_NORMAL, Typed!MUTEX_RECURSIVE, Typed!MUTEX_ERRORCHECK,
            Typed!Goto, Typed!SetDepth, Typed!lockVars
<1>1. CASE Typed!Reenter(t)
  BY <1>1 DEF Typed!Reenter
<1>2. CASE Typed!Block(t)
  BY <1>2 DEF Typed!Block, Typed!MayEnter, Typed!Contend
<1>3. CASE Typed!LockFree(t)
  BY <1>3 DEF Typed!LockFree, Typed!MayEnter, Typed!Acquired, Typed!Acquire
<1>4. CASE Typed!LockGranted(t)
  BY <1>4 DEF Typed!LockGranted, Typed!Acquired, Typed!Acquire
<1>5. CASE Typed!TimeOut(t)
  BY <1>5 DEF Typed!TimeOut, Typed!GiveUp
<1>6. CASE Typed!StoreOwner(t)
  BY <1>6 DEF Typed!StoreOwner
<1>7. CASE Typed!StoreCount(t)
  BY <1>7 DEF Typed!StoreCount
<1>8. QED
  BY ZenonT(60), <1>1, <1>2, <1>3, <1>4, <1>5, <1>6, <1>7

(* unlock: the counted release and the three steps of the final one.       *)
LEMMA UnlockKeepsInv ==
    ASSUME TypedInv, NEW t \in TypedThreads,
           \/ Typed!unlock(t) \/ Typed!Disown(t) \/ Typed!ZeroCount(t) \/ Typed!UnlockInner(t)
    PROVE  TypedInv'
<1> USE DEF TypedInv, Typed!TypedMutexAssumption, Typed!TypeOK, HolderInv, DepthInv, OwnerInv, CountInv,
            Typed!PCs, Typed!CondvarPCs, InsidePCs, Typed!MUTEX_NORMAL, Typed!MUTEX_RECURSIVE, Typed!MUTEX_ERRORCHECK,
            Typed!Goto, Typed!SetDepth, Typed!lockVars
<1>1. CASE Typed!unlock(t)
  BY <1>1 DEF Typed!unlock
<1>2. CASE Typed!Disown(t)
  BY <1>2 DEF Typed!Disown
<1>3. CASE Typed!ZeroCount(t)
  BY <1>3 DEF Typed!ZeroCount
<1>4. CASE Typed!UnlockInner(t)
  BY <1>4 DEF Typed!UnlockInner, Typed!Release
<1>5. QED
  BY ZenonT(60), <1>1, <1>2, <1>3, <1>4

(* A condvar wait: condvar_unlock, the release, and condvar_relock.        *)
LEMMA CondvarKeepsInv ==
    ASSUME TypedInv, NEW t \in TypedThreads,
           \/ Typed!condvar_unlock(t) \/ Typed!CondvarDisown(t) \/ Typed!CondvarRelease(t) \/ Typed!condvar_relock(t)
           \/ Typed!CondvarGranted(t) \/ Typed!CondvarOwner(t) \/ Typed!CondvarCount(t)
    PROVE  TypedInv'
<1> USE DEF TypedInv, Typed!TypedMutexAssumption, Typed!TypeOK, HolderInv, DepthInv, OwnerInv, CountInv,
            Typed!PCs, Typed!CondvarPCs, InsidePCs, Typed!MUTEX_NORMAL, Typed!MUTEX_RECURSIVE, Typed!MUTEX_ERRORCHECK,
            Typed!Goto, Typed!SetDepth, Typed!lockVars
<1>1. CASE Typed!condvar_unlock(t)
  BY <1>1 DEF Typed!condvar_unlock
<1>2. CASE Typed!CondvarDisown(t)
  BY <1>2 DEF Typed!CondvarDisown
<1>3. CASE Typed!CondvarRelease(t)
  BY <1>3 DEF Typed!CondvarRelease, Typed!Release
<1>4. CASE Typed!condvar_relock(t)
  BY <1>4 DEF Typed!condvar_relock, Typed!Contend
<1>5. CASE Typed!CondvarGranted(t)
  BY ZenonT(60), <1>5 DEF Typed!CondvarGranted, Typed!Acquire
<1>6. CASE Typed!CondvarOwner(t)
  BY <1>6 DEF Typed!CondvarOwner
<1>7. CASE Typed!CondvarCount(t)
  BY <1>7 DEF Typed!CondvarCount
<1>8. QED
  BY ZenonT(60), <1>1, <1>2, <1>3, <1>4, <1>5, <1>6, <1>7

(* Every step of the typed mutex keeps TypedInv. *)
LEMMA TypedInductive == TypedInv /\ [Typed!Next]_Typed!typedVars => TypedInv'
<1> SUFFICES ASSUME TypedInv, [Typed!Next]_Typed!typedVars PROVE TypedInv'
  BY Zenon
<1>1. CASE UNCHANGED Typed!typedVars
  BY Zenon, <1>1 DEF Typed!typedVars, Typed!lockVars, TypedInv, Typed!TypedMutexAssumption, Typed!TypeOK, HolderInv,
              DepthInv, OwnerInv, CountInv
<1>2. CASE Typed!Next
  BY Zenon, <1>2, LockKeepsInv, UnlockKeepsInv, CondvarKeepsInv DEF Typed!Next
<1>3. QED
  BY Zenon, <1>1, <1>2

(* TypedInv holds throughout, for all threads, types and depths. *)
THEOREM TypedCorrect == Typed!TypedMutexAssumption /\ Typed!Spec => []TypedInv
<1>1. Typed!TypedMutexAssumption /\ Typed!Init => TypedInv
  BY DEF Typed!Init, Typed!LockInit, TypedInv, Typed!TypedMutexAssumption, Typed!TypeOK, HolderInv, DepthInv, OwnerInv,
         CountInv, Typed!PCs, Typed!CondvarPCs, InsidePCs, Typed!MUTEX_NORMAL, Typed!MUTEX_RECURSIVE, Typed!MUTEX_ERRORCHECK
<1>2. QED
  BY <1>1, TypedInductive, PTL DEF Typed!Spec

(* The counted unlocks never release the inner lock early: the thread that *)
(* still owes an unlock holds it, alone.                                   *)
THEOREM TypedExcludes == Typed!TypedMutexAssumption /\ Typed!Spec => []Typed!EntitledIsHolder
<1>1. TypedInv => Typed!EntitledIsHolder
  <2> SUFFICES ASSUME TypedInv, NEW t \in Typed!Entitled PROVE t_holders = {t}
    BY Zenon DEF Typed!EntitledIsHolder
  <2>1. t \in TypedThreads /\ t_pc[t] = "idle" /\ t_depth[t] > 0
    BY DEF TypedInv, Typed!TypeOK, DepthInv, Typed!Entitled, Typed!PCs, Typed!CondvarPCs
  <2>2. t \in t_holders
    BY Zenon, <2>1 DEF TypedInv, HolderInv
  <2>3. QED
    BY Zenon, <2>2 DEF TypedInv, HolderInv
<1>2. QED
  BY <1>1, TypedCorrect, PTL

(* lock never takes another thread's mutex for a re-entry, and unlock      *)
(* never refuses the holder: owner names the holder or nobody.             *)
THEOREM TypedOwner == Typed!TypedMutexAssumption /\ Typed!Spec => []Typed!OwnerIsHolder
<1>1. TypedInv => Typed!OwnerIsHolder
  BY DEF TypedInv, Typed!TypedMutexAssumption, Typed!TypeOK, HolderInv, DepthInv, OwnerInv, Typed!OwnerIsHolder,
         Typed!Entitled, Typed!PCs, Typed!CondvarPCs, InsidePCs
<1>2. QED
  BY <1>1, TypedCorrect, PTL

(* count is the number of unlocks owed, and a condvar wait restores it. *)
THEOREM TypedCount == Typed!TypedMutexAssumption /\ Typed!Spec => []Typed!CountIsDepth
<1>1. TypedInv => Typed!CountIsDepth
  BY DEF TypedInv, Typed!TypeOK, DepthInv, CountInv, Typed!CountIsDepth, Typed!Entitled, Typed!PCs, Typed!CondvarPCs
<1>2. QED
  BY <1>1, TypedCorrect, PTL

(* The inner lock is free whenever all threads are idle and owe nothing. *)
THEOREM TypedNotLeaked == Typed!TypedMutexAssumption /\ Typed!Spec => []Typed!NotLeaked
<1>1. TypedInv => Typed!NotLeaked
  BY DEF TypedInv, Typed!TypeOK, HolderInv, Typed!NotLeaked, InsidePCs
<1>2. QED
  BY <1>1, TypedCorrect, PTL

-----------------------------------------------------------------------------
(***************************************************************************)
(* Condvar: a wait gives the mutex up while it blocks and returns with it, *)
(* and its futex is published exactly while it may be asleep.  CondInv     *)
(* ties the abstract lock to the steps of all its users, the signallers    *)
(* included: without that an unlock could be one of a lock not held.       *)
(***************************************************************************)

HoldingPCs == {"test", "unlock", "check", "done", "add", "bumpin", "wakein"}
PublishedPCs == {"wait", "sleep", "clear"}

(* Which thread runs which steps. *)
Roles ==
    \A t \in CondThreads :
        /\ c_pc[t] \in Cond!WaitPCs \cup {"test", "done", "exit"} => t \in Waiters
        /\ c_pc[t] \in {"add", "bumpin", "wakein", "bumpout", "wakeout"} => t \in Signallers
        /\ c_pc[t] \in {"look", "kick"} => t \in Cancellers
        /\ c_pc[t] = "lock" => t \in Waiters \cup Signallers

(* The lock is held by whoever is between a lock and an unlock. *)
LockFollows ==
    /\ \A t \in CondThreads : t \in c_holders <=> c_pc[t] \in HoldingPCs
    /\ \A t, u \in c_holders : t = u

CondInv == Cond!CondvarAssumption /\ Cond!TypeOK /\ Roles /\ LockFollows /\ Cond!SleepersPublished

-----------------------------------------------------------------------------
(* Entering lock(), the first time and after the wait. *)
LEMMA CondContends ==
    ASSUME CondInv, NEW t \in CondThreads, Cond!EnterLock(t) \/ Cond!clear_blocked_futex(t)
    PROVE  CondInv'
<1> USE DEF CondInv, Cond!CondvarAssumption, Cond!TypeOK, Roles, LockFollows, Cond!SleepersPublished, Cond!PCs, Cond!WaitPCs,
            HoldingPCs, PublishedPCs, Cond!Goto, Cond!Contend, Cond!waitVars, Cond!tlsVars, Cond!userVars
<1>1. CASE Cond!EnterLock(t)
  BY <1>1 DEF Cond!EnterLock
<1>2. CASE Cond!clear_blocked_futex(t)
  <2>1. t \in Waiters
    BY Zenon, <1>2 DEF Cond!clear_blocked_futex
  <2>2. Cond!TypeOK' /\ Roles' /\ Cond!SleepersPublished'
    BY <1>2, <2>1 DEF Cond!clear_blocked_futex
  <2>3. LockFollows'
    BY Zenon, <1>2 DEF Cond!clear_blocked_futex
  <2>4. QED
    BY Zenon, <2>2, <2>3
<1>3. QED
  BY Zenon, <1>1, <1>2

(* The lock is granted, and given back. *)
LEMMA CondLocks ==
    ASSUME CondInv, NEW t \in CondThreads,
           \/ Cond!LockGranted(t) \/ (t \in Waiters /\ Cond!Leave(t)) \/ Cond!Unlock(t) \/ Cond!check_cancellation(t)
           \/ Cond!AddItem(t)
    PROVE  CondInv'
<1> USE DEF CondInv, Cond!CondvarAssumption, Cond!TypeOK, Roles, LockFollows, Cond!SleepersPublished, Cond!PCs, Cond!WaitPCs,
            HoldingPCs, PublishedPCs, Cond!Goto, Cond!waitVars, Cond!tlsVars, Cond!userVars, Cond!lockVars
<1>1. CASE Cond!LockGranted(t)
  BY <1>1 DEF Cond!LockGranted, Cond!Acquire
<1>2. CASE t \in Waiters /\ Cond!Leave(t)
  BY Zenon, <1>2 DEF Cond!Leave, Cond!Release
<1>3. CASE Cond!Unlock(t)
  BY ZenonT(60), <1>3 DEF Cond!Unlock, Cond!Release
<1>4. CASE Cond!check_cancellation(t)
  BY <1>4 DEF Cond!check_cancellation, Cond!Release
<1>5. CASE Cond!AddItem(t)
  BY <1>5 DEF Cond!AddItem, Cond!Release
<1>6. QED
  BY ZenonT(60), <1>1, <1>2, <1>3, <1>4, <1>5

(* The steps of a waiter that leave the lock alone. *)
LEMMA CondWaits ==
    ASSUME CondInv, NEW t \in CondThreads,
           \/ Cond!TakeItem(t) \/ Cond!GiveUpWaiting(t)
           \/ (t \in Waiters /\ \E d \in BOOLEAN : Cond!wait(t, d))
           \/ Cond!set_blocked_futex(t) \/ Cond!FutexWait(t) \/ Cond!FutexTimeout(t) \/ Cond!FutexInterrupt(t)
    PROVE  CondInv'
<1> USE DEF CondInv, Cond!CondvarAssumption, Cond!TypeOK, Roles, LockFollows, Cond!SleepersPublished, Cond!PCs, Cond!WaitPCs,
            HoldingPCs, PublishedPCs, Cond!Goto, Cond!waitVars, Cond!tlsVars, Cond!userVars, Cond!lockVars
<1>1. CASE Cond!TakeItem(t)
  BY <1>1 DEF Cond!TakeItem
<1>2. CASE Cond!GiveUpWaiting(t)
  BY ZenonT(60), <1>2 DEF Cond!GiveUpWaiting
<1>3. ASSUME t \in Waiters, NEW d \in BOOLEAN, Cond!wait(t, d)
      PROVE  CondInv'
  BY <1>3 DEF Cond!wait
<1>4. CASE Cond!set_blocked_futex(t)
  BY <1>4 DEF Cond!set_blocked_futex
<1>5. CASE Cond!FutexWait(t)
  BY ZenonT(60), <1>5 DEF Cond!FutexWait
<1>6. CASE Cond!FutexTimeout(t)
  BY Zenon, <1>6 DEF Cond!FutexTimeout
<1>7. CASE Cond!FutexInterrupt(t)
  BY ZenonT(60), <1>7 DEF Cond!FutexInterrupt
<1>8. QED
  BY ZenonT(60), <1>1, <1>2, <1>3, <1>4, <1>5, <1>6, <1>7

(* The wakes, of signal, broadcast and pthread_cancel: one thread goes     *)
(* back to idle, and some sleepers withdraw their futex.                   *)
LEMMA CondWakes ==
    ASSUME CondInv, NEW t \in CondThreads, Cond!signal(t) \/ Cond!broadcast(t) \/ Cond!CancelKick(t)
    PROVE  CondInv'
<1> USE DEF CondInv, Cond!CondvarAssumption, Cond!TypeOK, Cond!PCs, Cond!WaitPCs, Cond!waitVars, Cond!tlsVars, Cond!userVars
<1>1. c_pc[t] \in {"wakein", "wakeout", "kick"}
  BY Zenon DEF Cond!signal, Cond!broadcast, Cond!CancelKick
<1>2. /\ c_pc' \in [CondThreads -> Cond!PCs] /\ c_pc'[t] = "idle"
      /\ \A u \in CondThreads : u # t => c_pc'[u] = c_pc[u] \/ (c_pc[u] = "sleep" /\ c_pc'[u] = "clear")
  <2>1. CASE Cond!signal(t)
    BY Zenon, <1>1, <2>1 DEF Cond!signal, Cond!Sleepers, Cond!Goto
  <2>2. CASE Cond!broadcast(t)
    BY Zenon, <1>1, <2>2 DEF Cond!broadcast, Cond!Sleepers
  <2>3. CASE Cond!CancelKick(t)
    BY ZenonT(60), <1>1, <2>3 DEF Cond!CancelKick, Cond!Sleepers, Cond!Goto
  <2>4. QED
    BY Zenon, <2>1, <2>2, <2>3
<1>3. UNCHANGED <<c_seq, Cond!waitVars, Cond!tlsVars, Cond!userVars, c_contending, c_bounded>>
  BY Zenon DEF Cond!signal, Cond!broadcast, Cond!CancelKick, Cond!AfterWake, Cond!Release, Cond!lockVars
<1>4. c_holders' = IF c_pc[t] = "wakein" THEN c_holders \ {t} ELSE c_holders
  BY Zenon DEF Cond!signal, Cond!broadcast, Cond!CancelKick, Cond!AfterWake, Cond!Release, Cond!lockVars
<1>5. Cond!TypeOK' /\ Roles'
  BY Zenon, <1>2, <1>3, <1>4 DEF Roles
<1>6. LockFollows'
  BY <1>1, <1>2, <1>4 DEF LockFollows, HoldingPCs
<1>7. Cond!SleepersPublished'
  BY Zenon, <1>1, <1>2, <1>3 DEF Cond!SleepersPublished
<1>8. QED
  BY Zenon, <1>5, <1>6, <1>7

(* Signalling and cancelling up to the wake. *)
LEMMA CondSignals ==
    ASSUME CondInv, NEW t \in CondThreads,
           \/ Cond!BumpSeq(t) \/ Cond!CancelLook(t) \/ (\E w \in Waiters : Cond!pthread_cancel(t, w))
           \/ \E new \in {"enable", "disable"} : Cond!pthread_setcancelstate(t, new)
    PROVE  CondInv'
<1> USE DEF CondInv, Cond!CondvarAssumption, Cond!TypeOK, Roles, LockFollows, Cond!SleepersPublished, Cond!PCs, Cond!WaitPCs,
            HoldingPCs, PublishedPCs, Cond!Goto, Cond!waitVars, Cond!tlsVars, Cond!userVars, Cond!lockVars
<1>1. CASE Cond!BumpSeq(t)
  BY <1>1 DEF Cond!BumpSeq
<1>2. CASE Cond!CancelLook(t)
  BY ZenonT(60), <1>2 DEF Cond!CancelLook
<1>3. ASSUME NEW w \in Waiters, Cond!pthread_cancel(t, w)
      PROVE  CondInv'
  BY <1>3 DEF Cond!pthread_cancel
<1>4. ASSUME NEW new \in {"enable", "disable"}, Cond!pthread_setcancelstate(t, new)
      PROVE  CondInv'
  BY Zenon, <1>4 DEF Cond!pthread_setcancelstate
<1>5. QED
  BY ZenonT(60), <1>1, <1>2, <1>3, <1>4

(* Every step of a waiter, a signaller or a canceller keeps CondInv. *)
THEOREM CondvarInvariant ==
    ASSUME Cond!CondvarAssumption
    PROVE  Cond!Spec => []CondInv
<1>1. Cond!Init => CondInv
  BY DEF Cond!Init, Cond!LockInit, CondInv, Cond!CondvarAssumption, Cond!TypeOK, Roles, LockFollows, Cond!SleepersPublished, Cond!PCs,
         Cond!WaitPCs, HoldingPCs
<1>2. CondInv /\ [Cond!Next]_Cond!condvarVars => CondInv'
  <2> SUFFICES ASSUME CondInv, [Cond!Next]_Cond!condvarVars PROVE CondInv'
    BY Zenon
  <2>1. CASE UNCHANGED Cond!condvarVars
    BY Zenon, <2>1 DEF Cond!condvarVars, Cond!lockVars, CondInv, Cond!CondvarAssumption, Cond!TypeOK, Roles, LockFollows,
                Cond!SleepersPublished
  <2>2. CASE Cond!Next
    BY Zenon, <2>2, CondContends, CondLocks, CondWaits, CondWakes, CondSignals DEF Cond!Next, Cond!Progress
  <2>3. QED
    BY Zenon, <2>1, <2>2
<1>3. QED
  BY <1>1, <1>2, PTL DEF Cond!Spec

(* Condvar::wait and wait_timeout release the mutex before they block and  *)
(* come back, time out and run the cancellation hook only with it; the     *)
(* futex they block on is published for pthread_cancel exactly from        *)
(* set_blocked_futex to clear_blocked_futex.                               *)
THEOREM CondvarWaits ==
    ASSUME Cond!CondvarAssumption
    PROVE  Cond!Spec => [](Cond!WaitReleasesAndRegains /\ Cond!SleepersPublished /\ Cond!TypeOK)
<1>1. CondInv => Cond!WaitReleasesAndRegains /\ Cond!SleepersPublished /\ Cond!TypeOK
  <2> SUFFICES ASSUME CondInv, NEW t \in Waiters
               PROVE  /\ c_pc[t] \in {"test", "unlock", "check", "done"} => c_holders = {t}
                      /\ c_pc[t] \in {"publish", "wait", "sleep", "clear", "relock", "exit"} => t \notin c_holders
    BY Zenon DEF Cond!WaitReleasesAndRegains, CondInv
  <2>1. t \in CondThreads /\ c_holders \subseteq CondThreads
    BY Zenon DEF CondInv, Cond!CondvarAssumption, Cond!TypeOK
  <2>2. QED
    BY Zenon, <2>1 DEF CondInv, LockFollows, HoldingPCs
<1>2. QED
  BY <1>1, CondvarInvariant, PTL

-----------------------------------------------------------------------------
(***************************************************************************)
(* worker_ipc_loop loses no request and, without timeouts, serves none     *)
(* twice, for every number of workers, set of requests and bound on        *)
(* failures.  RequestsConserved needs only that a worker about to call the *)
(* handler holds a real request.  UntimedHandlesOnce is not inductive: it  *)
(* says nothing of the requests still on their way.  SingleCourse follows  *)
(* a request from the queue through the one worker that has it.            *)
(***************************************************************************)

(* The workers between receiving m and waiting for the next request. *)
Has(w, m) == l_pc[w] \in {"handle", "post"} /\ l_msg[w] = m

HoldsRequest == \A w \in Loop!Workers : l_pc[w] \in {"handle", "post", "wait", "recover"} => l_msg[w] \in Requests

SingleCourse ==
    ~l_timed => \A m \in Requests :
        /\ m \notin l_sent => l_handled[m] = 0 /\ \A w \in Loop!Workers : ~Has(w, m)
        /\ m \in l_queue => l_handled[m] = 0 /\ \A w \in Loop!Workers : ~Has(w, m)
        /\ \A w \in Loop!Workers : Has(w, m) =>
              IF l_pc[w] = "handle" THEN l_handled[m] = 0 ELSE l_handled[m] = 1 /\ l_answered[m] = 0
        /\ \A v, w \in Loop!Workers : Has(v, m) /\ Has(w, m) => v = w
        /\ l_handled[m] <= 1 /\ l_answered[m] <= l_handled[m]

(* Every step of the loop and of its clients keeps the types, and with     *)
(* them that a worker in the loop proper has received a request.           *)
LEMMA LoopTypeInductive ==
    Loop!WorkerLoopAssumption /\ Loop!TypeOK /\ HoldsRequest /\ [Loop!Next]_Loop!loopVars => Loop!TypeOK' /\ HoldsRequest'
<1> SUFFICES ASSUME Loop!WorkerLoopAssumption, Loop!TypeOK, HoldsRequest, [Loop!Next]_Loop!loopVars PROVE Loop!TypeOK' /\ HoldsRequest'
  BY Zenon
<1> USE DEF Loop!WorkerLoopAssumption, Loop!TypeOK, HoldsRequest, Loop!PCs, Loop!Goto
<1>1. CASE UNCHANGED Loop!loopVars
  BY Zenon, <1>1 DEF Loop!loopVars
<1>2. ASSUME NEW m \in Requests, Loop!Call(m) PROVE Loop!TypeOK' /\ HoldsRequest'
  BY Zenon, <1>2 DEF Loop!Call
<1>3. ASSUME NEW w \in Loop!Workers, Loop!Enter(w) PROVE Loop!TypeOK' /\ HoldsRequest'
  BY Zenon, <1>3 DEF Loop!Enter
<1>4. ASSUME NEW w \in Loop!Workers, Loop!FirstReceive(w) PROVE Loop!TypeOK' /\ HoldsRequest'
  <2>1. l_errors' \in 0 .. MaxErrors /\ l_timeouts' \in 0 .. MaxTimeouts
    BY <1>4 DEF Loop!FirstReceive, Loop!TimesOut, Loop!Fails
  <2>2. QED
    BY ZenonT(60), <1>4, <2>1 DEF Loop!FirstReceive, Loop!worker_exit
<1>5. ASSUME NEW w \in Loop!Workers, Loop!Handler(w) PROVE Loop!TypeOK' /\ HoldsRequest'
  <2>1. l_handled' \in [Requests -> Nat]
    BY <1>5 DEF Loop!Handler
  <2>2. QED
    BY Zenon, <1>5, <2>1 DEF Loop!Handler, Loop!worker_exit
<1>6. ASSUME NEW w \in Loop!Workers, Loop!ReplyRecv(w) PROVE Loop!TypeOK' /\ HoldsRequest'
  <2>1. l_errors' \in 0 .. MaxErrors /\ l_timeouts' \in 0 .. MaxTimeouts
    BY <1>6 DEF Loop!ReplyRecv, Loop!Fails
  <2>2. l_answered' \in [Requests -> Nat]
    BY <1>6 DEF Loop!ReplyRecv
  <2>3. QED
    BY Zenon, <1>6, <2>1, <2>2 DEF Loop!ReplyRecv
<1>7. ASSUME NEW w \in Loop!Workers, Loop!Receive(w) PROVE Loop!TypeOK' /\ HoldsRequest'
  <2>1. l_errors' \in 0 .. MaxErrors /\ l_timeouts' \in 0 .. MaxTimeouts
    BY <1>7 DEF Loop!Receive, Loop!NextReceive, Loop!TimesOut, Loop!Fails
  <2>2. QED
    BY ZenonT(60), <1>7, <2>1 DEF Loop!Receive, Loop!NextReceive, Loop!Reap, Loop!worker_exit
<1>8. QED
  BY ZenonT(60), <1>1, <1>2, <1>3, <1>4, <1>5, <1>6, <1>7 DEF Loop!Next, Loop!Step

(* Init has no request sent and no worker in the loop. *)
LEMMA LoopInitHolds ==
    Loop!WorkerLoopAssumption /\ Loop!Init => Loop!TypeOK /\ HoldsRequest /\ Loop!RequestsConserved /\ SingleCourse
BY DEF Loop!WorkerLoopAssumption, Loop!Init, Loop!TypeOK, HoldsRequest, Loop!RequestsConserved, SingleCourse, Has, Loop!PCs, Loop!Workers

(* A request leaves the queue into a worker's hands and those only through *)
(* the handler.                                                            *)
LEMMA ConservedInductive ==
    Loop!WorkerLoopAssumption /\ Loop!TypeOK /\ HoldsRequest /\ Loop!RequestsConserved /\ [Loop!Next]_Loop!loopVars => Loop!RequestsConserved'
<1> SUFFICES ASSUME Loop!WorkerLoopAssumption, Loop!TypeOK, HoldsRequest, Loop!RequestsConserved, [Loop!Next]_Loop!loopVars
             PROVE Loop!RequestsConserved'
  BY Zenon
<1> USE DEF Loop!TypeOK, HoldsRequest, Loop!RequestsConserved, Loop!Goto
<1>1. CASE UNCHANGED Loop!loopVars
  BY Zenon, <1>1 DEF Loop!loopVars
<1>2. ASSUME NEW m \in Requests, Loop!Call(m) PROVE Loop!RequestsConserved'
  BY Zenon, <1>2 DEF Loop!Call
<1>3. ASSUME NEW w \in Loop!Workers, Loop!Enter(w) PROVE Loop!RequestsConserved'
  BY Zenon, <1>3 DEF Loop!Enter
<1>4. ASSUME NEW w \in Loop!Workers, Loop!FirstReceive(w) PROVE Loop!RequestsConserved'
  BY <1>4 DEF Loop!FirstReceive, Loop!TimesOut, Loop!Fails, Loop!worker_exit
<1>5. ASSUME NEW w \in Loop!Workers, Loop!Handler(w) PROVE Loop!RequestsConserved'
  BY <1>5 DEF Loop!Handler, Loop!worker_exit
<1>6. ASSUME NEW w \in Loop!Workers, Loop!ReplyRecv(w) PROVE Loop!RequestsConserved'
  BY <1>6 DEF Loop!ReplyRecv, Loop!Fails
<1>7. ASSUME NEW w \in Loop!Workers, Loop!Receive(w) PROVE Loop!RequestsConserved'
  BY <1>7 DEF Loop!Receive, Loop!NextReceive, Loop!Reap, Loop!TimesOut, Loop!Fails, Loop!worker_exit
<1>8. QED
  BY ZenonT(60), <1>1, <1>2, <1>3, <1>4, <1>5, <1>6, <1>7 DEF Loop!Next, Loop!Step

(* Without timeouts a request keeps its single course: only a receive      *)
(* gives it to a worker, only that worker's handler call counts it, and    *)
(* only that worker's reply answers it.                                    *)
LEMMA CourseInductive ==
    Loop!WorkerLoopAssumption /\ Loop!TypeOK /\ HoldsRequest /\ SingleCourse /\ [Loop!Next]_Loop!loopVars => SingleCourse'
<1> SUFFICES ASSUME Loop!WorkerLoopAssumption, Loop!TypeOK, HoldsRequest, SingleCourse, [Loop!Next]_Loop!loopVars, ~l_timed'
             PROVE SingleCourse'
  BY ZenonT(60) DEF SingleCourse
<1> USE DEF Loop!TypeOK, HoldsRequest, SingleCourse, Has, Loop!Goto
<1>1. CASE UNCHANGED Loop!loopVars
  BY Zenon, <1>1 DEF Loop!loopVars
<1>2. ASSUME NEW m \in Requests, Loop!Call(m) PROVE SingleCourse'
  BY ZenonT(60), <1>2 DEF Loop!Call
<1>3. ASSUME NEW w \in Loop!Workers, Loop!Enter(w) PROVE SingleCourse'
  BY <1>3 DEF Loop!Enter
<1>4. ASSUME NEW w \in Loop!Workers, Loop!FirstReceive(w) PROVE SingleCourse'
  BY <1>4 DEF Loop!FirstReceive, Loop!TimesOut, Loop!Fails, Loop!worker_exit
<1>5. ASSUME NEW w \in Loop!Workers, Loop!Handler(w) PROVE SingleCourse'
  BY <1>5 DEF Loop!Handler, Loop!worker_exit
<1>6. ASSUME NEW w \in Loop!Workers, Loop!ReplyRecv(w) PROVE SingleCourse'
  BY <1>6 DEF Loop!ReplyRecv, Loop!Fails
<1>7. ASSUME NEW w \in Loop!Workers, Loop!Receive(w) PROVE SingleCourse'
  <2>1. ASSUME NEW m \in l_queue, l_pc[w] \in {"wait", "recover"}, l_queue' = l_queue \ {m},
               l_msg' = [l_msg EXCEPT ![w] = m],
               l_pc' = [v \in Loop!Workers |-> IF v = w THEN "handle" ELSE Loop!Reap(w, l_pc[v])]
        PROVE  SingleCourse'
    BY <1>7, <2>1 DEF Loop!Receive, Loop!Reap
  <2>2. CASE l_pc[w] = "wait" /\ Loop!Fails /\ Loop!Goto(w, "recover") /\ UNCHANGED <<l_msg, l_queue>>
    BY <1>7, <2>2 DEF Loop!Receive, Loop!Fails
  <2>3. CASE l_pc[w] = "recover" /\ Loop!Fails /\ Loop!worker_exit(w) /\ UNCHANGED <<l_msg, l_queue>>
    BY <1>7, <2>3 DEF Loop!Receive, Loop!Fails, Loop!worker_exit
  <2>4. ~Loop!TimesOut
    BY Zenon, <1>7 DEF Loop!Receive, Loop!TimesOut
  <2>5. QED
    BY ZenonT(60), <1>7, <2>1, <2>2, <2>3, <2>4 DEF Loop!Receive, Loop!NextReceive
<1>8. QED
  BY ZenonT(60), <1>1, <1>2, <1>3, <1>4, <1>5, <1>6, <1>7 DEF Loop!Next, Loop!Step

(* No path through receive errors, timeouts and the recovery of            *)
(* worker_ipc_loop swallows a request, for any pool and any clients.       *)
THEOREM WorkersConserve == ASSUME Loop!WorkerLoopAssumption PROVE Loop!Spec => []Loop!RequestsConserved
<1>1. Loop!Init => Loop!TypeOK /\ HoldsRequest /\ Loop!RequestsConserved
  BY Zenon, LoopInitHolds
<1>2. Loop!TypeOK /\ HoldsRequest /\ Loop!RequestsConserved /\ [Loop!Next]_Loop!loopVars
      => (Loop!TypeOK /\ HoldsRequest /\ Loop!RequestsConserved)'
  BY Zenon, LoopTypeInductive, ConservedInductive
<1>3. QED
  BY <1>1, <1>2, PTL DEF Loop!Spec

(* The state of the workers and their messages keeps its types. *)
THEOREM WorkersTyped == ASSUME Loop!WorkerLoopAssumption PROVE Loop!Spec => []Loop!TypeOK
<1>1. Loop!Init => Loop!TypeOK /\ HoldsRequest
  BY Zenon, LoopInitHolds
<1>2. Loop!TypeOK /\ HoldsRequest /\ [Loop!Next]_Loop!loopVars => (Loop!TypeOK /\ HoldsRequest)'
  BY Zenon, LoopTypeInductive
<1>3. QED
  BY <1>1, <1>2, PTL DEF Loop!Spec

(* In a pool without receive timeouts the handler sees each request once   *)
(* at most and its client gets one reply at most.                          *)
THEOREM WorkersHandleOnce == ASSUME Loop!WorkerLoopAssumption PROVE Loop!Spec => []Loop!UntimedHandlesOnce
<1>1. Loop!Init => Loop!TypeOK /\ HoldsRequest /\ SingleCourse
  BY Zenon, LoopInitHolds
<1>2. Loop!TypeOK /\ HoldsRequest /\ SingleCourse /\ [Loop!Next]_Loop!loopVars
      => (Loop!TypeOK /\ HoldsRequest /\ SingleCourse)'
  BY Zenon, LoopTypeInductive, CourseInductive
<1>3. SingleCourse => Loop!UntimedHandlesOnce
  BY Zenon DEF SingleCourse, Loop!UntimedHandlesOnce
<1>4. QED
  BY <1>1, <1>2, <1>3, PTL DEF Loop!Spec
=============================================================================
