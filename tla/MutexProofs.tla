---------------------------- MODULE MutexProofs -----------------------------
(***************************************************************************)
(* Mutex is correct for every set of threads: type correctness, mutual     *)
(* exclusion, no lost wakeup, and the implementation of the abstract lock. *)
(*                                                                         *)
(* MutualExclusion is inductive together with TypeOK because it ties the   *)
(* word to the holders.  NoLostWakeup is inductive with TypeOK alone: a    *)
(* thread enters "sleep" only when the word is 2, and whoever takes the    *)
(* word away from 2 is at "wake" until it has roused a sleeper, which is   *)
(* then at "swap".                                                         *)
(***************************************************************************)
EXTENDS Mutex, TLAPS

(* Every step of the mutex keeps the word, the program counters and the    *)
(* two timer flags in their ranges.                                        *)
LEMMA TypeInductive == TypeOK /\ [Next]_mutexVars => TypeOK'
<1> SUFFICES ASSUME TypeOK, [Next]_mutexVars PROVE TypeOK'
  OBVIOUS
<1> USE DEF TypeOK, PCs, Goto
<1>1. CASE UNCHANGED mutexVars
  BY <1>1 DEF mutexVars
<1>2. ASSUME NEW t \in Threads, Call(t) PROVE TypeOK'
  BY <1>2 DEF Call, lock, lock_timeout, try_lock, unlock
<1>3. ASSUME NEW t \in Threads, Progress(t) PROVE TypeOK'
  <2>1. CASE SpinAcquire(t) \/ SpinEnd(t) \/ SwapTwo(t) \/ LastTry(t) \/ FutexWait(t)
    BY <2>1 DEF SpinAcquire, SpinEnd, SwapTwo, LastTry, FutexWait
  <2>2. CASE FutexWake(t)
    BY <2>2 DEF FutexWake, Sleepers
  <2>3. QED
    BY <1>3, <2>1, <2>2 DEF Progress
<1>4. ASSUME NEW t \in Threads, Timer(t) \/ FutexInterrupt(t) PROVE TypeOK'
  BY <1>4 DEF Timer, Expire, FutexTimeout, FutexInterrupt
<1>5. QED
  BY <1>1, <1>2, <1>3, <1>4 DEF Next

(* Type correctness of the mutex for every set of threads. *)
THEOREM TypeCorrect == Spec => []TypeOK
<1>1. Init => TypeOK
  BY DEF Init, TypeOK, PCs
<1>2. QED
  BY <1>1, TypeInductive, PTL DEF Spec

(* Every step of lock, lock_timeout, try_lock and unlock preserves the     *)
(* correspondence between the word and the thread inside.                  *)
LEMMA ExclusionInductive ==
    TypeOK /\ MutualExclusion /\ [Next]_mutexVars => MutualExclusion'
<1> SUFFICES ASSUME TypeOK, MutualExclusion, [Next]_mutexVars
             PROVE  MutualExclusion'
  OBVIOUS
<1> USE DEF TypeOK, PCs, Goto, MutualExclusion
<1>1. CASE UNCHANGED mutexVars
  BY <1>1 DEF mutexVars
<1>2. ASSUME NEW t \in Threads, Call(t) PROVE MutualExclusion'
  <2>1. CASE lock(t)
    BY <2>1 DEF lock
  <2>2. CASE lock_timeout(t)
    BY <2>2 DEF lock_timeout
  <2>3. CASE try_lock(t)
    BY <2>3 DEF try_lock
  <2>4. CASE unlock(t)
    BY <2>4 DEF unlock
  <2>5. QED
    BY <1>2, <2>1, <2>2, <2>3, <2>4 DEF Call
<1>3. ASSUME NEW t \in Threads, Progress(t) PROVE MutualExclusion'
  <2>1. CASE SpinAcquire(t)
    BY <2>1 DEF SpinAcquire
  <2>2. CASE SpinEnd(t)
    BY <2>2 DEF SpinEnd
  <2>3. CASE SwapTwo(t)
    BY <2>3 DEF SwapTwo
  <2>4. CASE LastTry(t)
    BY <2>4 DEF LastTry
  <2>5. CASE FutexWait(t)
    BY <2>5 DEF FutexWait
  <2>6. CASE FutexWake(t)
    BY <2>6 DEF FutexWake, Sleepers
  <2>7. QED
    BY <1>3, <2>1, <2>2, <2>3, <2>4, <2>5, <2>6 DEF Progress
<1>4. ASSUME NEW t \in Threads, Timer(t) \/ FutexInterrupt(t) PROVE MutualExclusion'
  BY <1>4 DEF Timer, Expire, FutexTimeout, FutexInterrupt
<1>5. QED
  BY <1>1, <1>2, <1>3, <1>4 DEF Next

(* At most one thread is inside the mutex, and the word is 0 exactly when  *)
(* none is.                                                                *)
THEOREM MutexExcludes == Spec => []MutualExclusion
<1>1. Init => TypeOK /\ MutualExclusion
  BY DEF Init, TypeOK, PCs, MutualExclusion
<1>2. QED
  BY <1>1, TypeInductive, ExclusionInductive, PTL DEF Spec

(* Every step keeps a waker in sight of a sleeper: the word stays 2, or    *)
(* the wake is pending, or a roused thread is about to write 2.            *)
LEMMA WakeupInductive == TypeOK /\ NoLostWakeup /\ [Next]_mutexVars => NoLostWakeup'
<1> SUFFICES ASSUME TypeOK, NoLostWakeup, [Next]_mutexVars
             PROVE  NoLostWakeup'
  OBVIOUS
<1> USE DEF TypeOK, PCs, Goto, NoLostWakeup, Sleepers
<1>1. CASE UNCHANGED mutexVars
  BY <1>1 DEF mutexVars
<1>2. ASSUME NEW t \in Threads, Call(t) PROVE NoLostWakeup'
  <2>1. CASE lock(t)
    BY <2>1 DEF lock
  <2>2. CASE lock_timeout(t)
    BY <2>2 DEF lock_timeout
  <2>3. CASE try_lock(t)
    BY <2>3 DEF try_lock
  <2>4. CASE unlock(t)
    BY <2>4 DEF unlock
  <2>5. QED
    BY <1>2, <2>1, <2>2, <2>3, <2>4 DEF Call
<1>3. ASSUME NEW t \in Threads, Progress(t) PROVE NoLostWakeup'
  <2>1. CASE SpinAcquire(t)
    BY <2>1 DEF SpinAcquire
  <2>2. CASE SpinEnd(t)
    BY <2>2 DEF SpinEnd
  <2>3. CASE SwapTwo(t)
    BY <2>3 DEF SwapTwo
  <2>4. CASE LastTry(t)
    BY <2>4 DEF LastTry
  <2>5. CASE FutexWait(t)
    BY <2>5 DEF FutexWait
  <2>6. CASE FutexWake(t)
    BY <2>6 DEF FutexWake
  <2>7. QED
    BY <1>3, <2>1, <2>2, <2>3, <2>4, <2>5, <2>6 DEF Progress
<1>4. ASSUME NEW t \in Threads, Timer(t) \/ FutexInterrupt(t) PROVE NoLostWakeup'
  <2>1. CASE Timer(t)
    BY <2>1 DEF Timer, Expire, FutexTimeout
  <2>2. CASE FutexInterrupt(t)
    BY <2>2 DEF FutexInterrupt
  <2>3. QED
    BY <1>4, <2>1, <2>2
<1>5. QED
  BY <1>1, <1>2, <1>3, <1>4 DEF Next

(* The waiter flag protocol of lock, lock_timeout and unlock never loses a *)
(* wakeup.                                                                 *)
THEOREM MutexKeepsWakeups == Spec => []NoLostWakeup
<1>1. Init => TypeOK /\ NoLostWakeup
  BY DEF Init, TypeOK, PCs, NoLostWakeup, Sleepers
<1>2. QED
  BY <1>1, TypeInductive, WakeupInductive, PTL DEF Spec

-----------------------------------------------------------------------------
(* The refinement mapping, and what one step of a thread does to it. *)
H == {t \in Threads : pc[t] = "cs"}

C == {t \in Threads : pc[t] \in Acquiring /\ ~timed[t]}

B == {t \in Threads : pc[t] \in Acquiring /\ timed[t]}

(* A step that takes t into the critical section is the abstract Acquire:  *)
(* the word was 0, so by MutualExclusion nobody was inside.                *)
LEMMA EntryIsAcquire ==
    ASSUME TypeOK, MutualExclusion, NEW t \in Threads, state = 0,
           pc[t] # "cs", Goto(t, "cs"),
           \A u \in Threads \ {t} : timed'[u] = timed[u]
    PROVE  Abstract!Acquire(t)
<1> USE DEF TypeOK, PCs, Goto, MutualExclusion, Acquiring
<1>1. H = {} /\ H' = {t}
  BY DEF H
<1>2. C' = C \ {t}
  BY DEF C
<1>3. B' = B \ {t}
  BY DEF B
<1>4. QED
  BY <1>1, <1>2, <1>3 DEF Abstract!Acquire, H, C, B

(* A step that moves threads about within the slow path, or within idle    *)
(* and wake, is invisible to the abstract lock.                            *)
LEMMA InternalIsStutter ==
    ASSUME TypeOK,
           \A u \in Threads :
               /\ timed'[u] = timed[u]
               /\ pc'[u] = "cs" <=> pc[u] = "cs"
               /\ pc'[u] \in Acquiring <=> pc[u] \in Acquiring
    PROVE  UNCHANGED Abstract!lockVars
  BY DEF Abstract!lockVars

(* The last swap(2) is reached only from lock_timeout, so only that call    *)
(* can return without the lock.                                            *)
LastIsTimed == \A t \in Threads : pc[t] = "last" => timed[t]

(* LastIsTimed is an invariant: SwapTwo and FutexTimeout lead to "last"     *)
(* only when the call is timed, and a new call starts from idle.           *)
LEMMA LastTryIsTimed == Spec => []LastIsTimed
<1>1. Init => LastIsTimed
  BY DEF Init, LastIsTimed
<1>2. TypeOK /\ LastIsTimed /\ [Next]_mutexVars => LastIsTimed'
  <2> SUFFICES ASSUME TypeOK, LastIsTimed, [Next]_mutexVars
               PROVE  LastIsTimed'
    OBVIOUS
  <2> USE DEF TypeOK, PCs, Goto, LastIsTimed
  <2>1. CASE UNCHANGED mutexVars
    BY <2>1 DEF mutexVars
  <2>2. ASSUME NEW t \in Threads, Call(t) PROVE LastIsTimed'
    BY <2>2 DEF Call, lock, lock_timeout, try_lock, unlock
  <2>3. ASSUME NEW t \in Threads, Progress(t) PROVE LastIsTimed'
    BY <2>3 DEF Progress, SpinAcquire, SpinEnd, SwapTwo, LastTry, FutexWait,
                FutexWake, Sleepers
  <2>4. ASSUME NEW t \in Threads, Timer(t) \/ FutexInterrupt(t) PROVE LastIsTimed'
    BY <2>4 DEF Timer, Expire, FutexTimeout, FutexInterrupt
  <2>5. QED
    BY <2>1, <2>2, <2>3, <2>4 DEF Next
<1>3. QED
  BY <1>1, <1>2, TypeCorrect, PTL DEF Spec

(* Each step of the mutex is a step of the abstract lock or a stutter. *)
LEMMA StepRefines ==
    TypeOK /\ MutualExclusion /\ LastIsTimed /\ [Next]_mutexVars
        => [Abstract!LockNext]_(Abstract!lockVars)
<1> SUFFICES ASSUME TypeOK, MutualExclusion, LastIsTimed, [Next]_mutexVars
             PROVE  Abstract!LockNext \/ UNCHANGED Abstract!lockVars
  BY DEF Abstract!lockVars
<1> USE DEF TypeOK, PCs, Goto, Acquiring
<1>1. CASE UNCHANGED mutexVars
  BY <1>1, InternalIsStutter DEF mutexVars
<1>2. ASSUME NEW t \in Threads, lock(t) \/ lock_timeout(t)
      PROVE  Abstract!LockNext
  <2>1. CASE state = 0
    <3>1. Abstract!Acquire(t)
      BY <1>2, <2>1, EntryIsAcquire DEF lock, lock_timeout
    <3>2. QED
      BY <3>1 DEF Abstract!LockNext
  <2>2. CASE state # 0
    <3>1. /\ H' = H
          /\ t \notin H \cup C \cup B
          /\ \/ C' = C \cup {t} /\ B' = B
             \/ B' = B \cup {t} /\ C' = C
      BY <1>2, <2>2 DEF lock, lock_timeout, H, C, B
    <3>2. Abstract!Contend(t)
      BY <3>1 DEF Abstract!Contend, H, C, B
    <3>3. QED
      BY <3>2 DEF Abstract!LockNext
  <2>3. QED
    BY <2>1, <2>2
<1>3. ASSUME NEW t \in Threads, try_lock(t) PROVE Abstract!LockNext
  <2>1. Abstract!Acquire(t)
    BY <1>3, EntryIsAcquire DEF try_lock
  <2>2. QED
    BY <2>1 DEF Abstract!LockNext
<1>4. ASSUME NEW t \in Threads, unlock(t) PROVE Abstract!LockNext
  <2>1. t \in H /\ H' = H \ {t} /\ C' = C /\ B' = B
    BY <1>4 DEF unlock, H, C, B
  <2>2. Abstract!Release(t)
    BY <2>1 DEF Abstract!Release, H, C, B
  <2>3. QED
    BY <2>2 DEF Abstract!LockNext
<1>5. ASSUME NEW t \in Threads, SpinAcquire(t) PROVE Abstract!LockNext
  <2>1. Abstract!Acquire(t)
    BY <1>5, EntryIsAcquire DEF SpinAcquire
  <2>2. QED
    BY <2>1 DEF Abstract!LockNext
<1>6. ASSUME NEW t \in Threads, SwapTwo(t)
      PROVE  Abstract!LockNext \/ UNCHANGED Abstract!lockVars
  <2>1. CASE state = 0
    <3>1. Abstract!Acquire(t)
      BY <1>6, <2>1, EntryIsAcquire DEF SwapTwo
    <3>2. QED
      BY <3>1 DEF Abstract!LockNext
  <2>2. CASE state # 0
    BY <1>6, <2>2, InternalIsStutter DEF SwapTwo
  <2>3. QED
    BY <2>1, <2>2
<1>7. ASSUME NEW t \in Threads, LastTry(t) PROVE Abstract!LockNext
  <2>1. CASE state = 0
    <3>1. Abstract!Acquire(t)
      BY <1>7, <2>1, EntryIsAcquire DEF LastTry
    <3>2. QED
      BY <3>1 DEF Abstract!LockNext
  <2>2. CASE state # 0
    <3>1. H' = H /\ C' = C /\ t \in B /\ B' = B \ {t}
      BY <1>7, <2>2 DEF LastTry, LastIsTimed, H, C, B
    <3>2. Abstract!GiveUp(t)
      BY <3>1 DEF Abstract!GiveUp, H, C, B
    <3>3. QED
      BY <3>2 DEF Abstract!LockNext
  <2>3. QED
    BY <2>1, <2>2
<1>8. ASSUME NEW t \in Threads,
             SpinEnd(t) \/ FutexWait(t) \/ FutexWake(t) \/ Timer(t) \/ FutexInterrupt(t)
      PROVE  UNCHANGED Abstract!lockVars
  BY <1>8, InternalIsStutter
     DEF SpinEnd, FutexWait, FutexWake, Timer, Expire, FutexTimeout, FutexInterrupt, Sleepers
<1>9. QED
  BY <1>1, <1>2, <1>3, <1>4, <1>5, <1>6, <1>7, <1>8 DEF Next, Call, Progress

(* The futex mutex implements the abstract lock for every set of threads.  *)
THEOREM MutexImplementsLock == Spec => ImplementsLock
<1>1. Init => Abstract!LockInit
  BY DEF Init, Abstract!LockInit, Acquiring
<1>2. QED
  BY <1>1, StepRefines, TypeCorrect, MutexExcludes, LastTryIsTimed, PTL
     DEF Spec, ImplementsLock, Abstract!LockSpec
=============================================================================
