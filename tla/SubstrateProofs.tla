--------------------------- MODULE SubstrateProofs --------------------------
(***************************************************************************)
(* What sync_safety checks of the substrate on a small instance, proved    *)
(* for every value of the constants.  A step of MCSubstrate is a step of   *)
(* one part and leaves the others alone, so that its behaviours are        *)
(* behaviours of each part, and the theorems about the parts carry over.   *)
(***************************************************************************)
EXTENDS MCSubstrate, SyncProofs, GroupProofs, SlotProofs

(* MCSubstrate runs call_once as its specification does. *)
LEMMA OnceRuns == Spec => Once!Spec
<1>1. Init => Once!Init
  BY DEF Init
<1>2. [Next]_vars => [Once!Next]_Once!onceVars
  BY DEF Next, vars, OnceOnly, SemOnly, BarOnly, RWOnly, TypedOnly, CondOnly, SlotOnly, LoopOnly,
         OnceVars, Once!onceVars
<1>3. QED
  BY <1>1, <1>2, PTL DEF Spec, Once!Spec

(* MCSubstrate runs the semaphore as its specification does. *)
LEMMA SemRuns == Spec => Sem!Spec
<1>1. Init => Sem!Init
  BY DEF Init
<1>2. [Next]_vars => [Sem!Next]_Sem!semVars
  BY DEF Next, vars, OnceOnly, SemOnly, BarOnly, RWOnly, TypedOnly, CondOnly, SlotOnly, LoopOnly,
         SemVars, Sem!semVars
<1>3. QED
  BY <1>1, <1>2, PTL DEF Spec, Sem!Spec

(* MCSubstrate runs the barrier as its specification does. *)
LEMMA BarRuns == Spec => Bar!Spec
<1>1. Init => Bar!Init
  BY DEF Init
<1>2. [Next]_vars => [Bar!Next]_Bar!barrierVars
  BY DEF Next, vars, OnceOnly, SemOnly, BarOnly, RWOnly, TypedOnly, CondOnly, SlotOnly, LoopOnly,
         BarVars, Bar!barrierVars
<1>3. QED
  BY <1>1, <1>2, PTL DEF Spec, Bar!Spec

(* MCSubstrate runs the reader-writer lock as its specification does. *)
LEMMA RWRuns == Spec => RW!Spec
<1>1. Init => RW!Init
  BY DEF Init
<1>2. [Next]_vars => [RW!Next]_RW!rwVars
  BY DEF Next, vars, OnceOnly, SemOnly, BarOnly, RWOnly, TypedOnly, CondOnly, SlotOnly, LoopOnly,
         RWVars, RW!rwVars
<1>3. QED
  BY <1>1, <1>2, PTL DEF Spec, RW!Spec

(* MCSubstrate runs TypedMutex as its specification does. *)
LEMMA TypedRuns == Spec => Typed!Spec
<1>1. Init => Typed!Init
  BY DEF Init
<1>2. [Next]_vars => [Typed!Next]_Typed!typedVars
  BY DEF Next, vars, OnceOnly, SemOnly, BarOnly, RWOnly, TypedOnly, CondOnly, SlotOnly, LoopOnly,
         TypedVars, Typed!typedVars, Typed!lockVars
<1>3. QED
  BY <1>1, <1>2, PTL DEF Spec, Typed!Spec

(* MCSubstrate runs Condvar as its specification does. *)
LEMMA CondRuns == Spec => Cond!Spec
<1>1. Init => Cond!Init
  BY DEF Init
<1>2. [Next]_vars => [Cond!Next]_Cond!condvarVars
  BY DEF Next, vars, OnceOnly, SemOnly, BarOnly, RWOnly, TypedOnly, CondOnly, SlotOnly, LoopOnly,
         CondVars, Cond!condvarVars, Cond!lockVars
<1>3. QED
  BY <1>1, <1>2, PTL DEF Spec, Cond!Spec

(* MCSubstrate runs the slot allocator as its specification does. *)
LEMMA SlotRuns == Spec => Slot!Spec
<1>1. Init => Slot!Init
  BY DEF Init
<1>2. [Next]_vars => [Slot!Next]_Slot!slotVars
  BY DEF Next, vars, OnceOnly, SemOnly, BarOnly, RWOnly, TypedOnly, CondOnly, SlotOnly, LoopOnly,
         SlotVars, Slot!slotVars
<1>3. QED
  BY <1>1, <1>2, PTL DEF Spec, Slot!Spec

(* MCSubstrate runs the workers' receive loop as its specification does. *)
LEMMA LoopRuns == Spec => Loop!Spec
<1>1. Init => Loop!Init
  BY DEF Init
<1>2. [Next]_vars => [Loop!Next]_Loop!loopVars
  BY DEF Next, vars, OnceOnly, SemOnly, BarOnly, RWOnly, TypedOnly, CondOnly, SlotOnly, LoopOnly,
         LoopVars, Loop!loopVars
<1>3. QED
  BY <1>1, <1>2, PTL DEF Spec, Loop!Spec

-----------------------------------------------------------------------------
(* Once: no two threads enter f, and whoever returned finds it finished. *)
THEOREM OnceSound == Spec => []CallOnceSound
<1>1. Once!RunsOnce /\ Once!ReturnsAfterF /\ Once!OnceInv => CallOnceSound
  BY DEF CallOnceSound
<1>2. QED
  BY <1>1, OnceRuns, OnceCorrect, OnceRunsOnce, OnceReturnsAfterF, PTL

(* Semaphore: the count is what was put in less what was taken out. *)
THEOREM SemaphoreSound == Spec => []PermitsConserved
<1>1. Sem!Spec => [](Sem!PermitsConserved /\ Sem!TypeOK)
  BY SemaphoreConserves, SubstrateAssumption DEF SubstrateAssumption
<1>2. Sem!PermitsConserved => PermitsConserved
  BY DEF PermitsConserved
<1>3. QED
  BY <1>1, <1>2, SemRuns, PTL

(* Barrier: while no more threads share it than a round takes, nobody      *)
(* leaves before its round is full and every round has one leader.         *)
THEOREM BarrierSound ==
    ASSUME Shared
    PROVE  Spec => []RoundsSound
<1>1. Bar!Spec => [](Bar!LeavesOnlyWithRound /\ Bar!OneLeaderPerRound /\ Bar!TypeOK)
  BY BarrierRounds
<1>2. Bar!LeavesOnlyWithRound /\ Bar!OneLeaderPerRound => RoundsSound
  BY DEF RoundsSound
<1>3. QED
  BY <1>1, <1>2, BarRuns, PTL

(* RWLock: writers exclude everybody, and the word and the queue counter   *)
(* are exact.                                                              *)
THEOREM ReadersWriters == Spec => []RWLockSound
<1>1. RW!RWLockAssumption
  BY SubstrateAssumption DEF SubstrateAssumption
<1>2. (RW!Spec => []RW!Exclusion) /\ (RW!Spec => []RW!QueueCounted)
  BY <1>1, RWLockExcludes, RWLockCountsQueue
<1>3. RW!Exclusion /\ RW!QueueCounted => RWLockSound
  BY DEF RWLockSound
<1>4. QED
  BY <1>2, <1>3, RWRuns, PTL

(* TypedMutex: the holder, the owner and the count agree in every state,   *)
(* condvar waits included.                                                 *)
THEOREM TypedMutexIsSound == Spec => []TypedMutexSound
<1>1. Typed!TypedMutexAssumption
  BY SubstrateAssumption DEF SubstrateAssumption
<1>2. Typed!EntitledIsHolder /\ Typed!OwnerIsHolder /\ Typed!CountIsDepth /\ Typed!NotLeaked => TypedMutexSound
  BY DEF TypedMutexSound
<1>3. QED
  BY <1>1, <1>2, TypedRuns, TypedExcludes, TypedOwner, TypedCount, TypedNotLeaked, PTL

(* Condvar: a wait gives the mutex up while it blocks and returns with it. *)
THEOREM CondvarIsSound == Spec => []CondvarSound
<1>1. Cond!Spec => [](Cond!WaitReleasesAndRegains /\ Cond!SleepersPublished /\ Cond!TypeOK)
  BY CondvarWaits, SubstrateAssumption DEF SubstrateAssumption
<1>2. Cond!WaitReleasesAndRegains /\ Cond!SleepersPublished => CondvarSound
  BY DEF CondvarSound
<1>3. QED
  BY <1>1, <1>2, CondRuns, PTL

(* The slot allocator: no slot is handed out twice and none is lost. *)
THEOREM SlotsSound == Spec => []SlotsAccounted
<1>1. Slot!Spec => [](Slot!NoDoubleHandOut /\ Slot!SegmentsConsistent /\ Slot!TypeOK)
  BY SlotsExact, SubstrateAssumption DEF SubstrateAssumption
<1>2. Slot!NoDoubleHandOut /\ Slot!SegmentsConsistent => SlotsAccounted
  BY DEF SlotsAccounted
<1>3. QED
  BY <1>1, <1>2, SlotRuns, PTL

(* A blocking allocation turns to procmgr only when no run is free. *)
THEOREM AsksOnlyWhenFull == Spec => MissMeansFull
<1>1. Slot!Spec => Slot!MissMeansFull
  BY MissesMeanFull, SubstrateAssumption DEF SubstrateAssumption
<1>2. QED
  BY <1>1, SlotRuns, PTL DEF MissMeansFull

(* The receive loop swallows no request, and without timeouts handles and  *)
(* answers each one once.                                                  *)
THEOREM LoopSound == Spec => []RequestsSound
<1>1. (Loop!Spec => []Loop!RequestsConserved) /\ (Loop!Spec => []Loop!UntimedHandlesOnce)
  BY WorkersConserve, WorkersHandleOnce, SubstrateAssumption DEF SubstrateAssumption
<1>2. Loop!RequestsConserved /\ Loop!UntimedHandlesOnce => RequestsSound
  BY DEF RequestsSound
<1>3. QED
  BY <1>1, <1>2, LoopRuns, PTL

(* Every part keeps its types. *)
THEOREM SubstrateTypes ==
    ASSUME Shared
    PROVE  Spec => []TypeOK
<1>1. /\ Sem!SemaphoreAssumption /\ RW!RWLockAssumption /\ Typed!TypedMutexAssumption
      /\ Cond!CondvarAssumption /\ Slot!SlotAllocAssumption /\ Loop!WorkerLoopAssumption
  BY SubstrateAssumption DEF SubstrateAssumption
<1>2. /\ Sem!Spec => [](Sem!PermitsConserved /\ Sem!TypeOK)
      /\ Bar!Spec => [](Bar!LeavesOnlyWithRound /\ Bar!OneLeaderPerRound /\ Bar!TypeOK)
      /\ RW!Spec => []RW!TypeOK
      /\ Cond!Spec => [](Cond!WaitReleasesAndRegains /\ Cond!SleepersPublished /\ Cond!TypeOK)
      /\ Slot!Spec => [](Slot!NoDoubleHandOut /\ Slot!SegmentsConsistent /\ Slot!TypeOK)
      /\ Loop!Spec => []Loop!TypeOK
  BY <1>1, SemaphoreConserves, BarrierRounds, RWLockTypes, CondvarWaits, SlotsExact, WorkersTyped
<1>3. TypedInv => Typed!TypeOK
  BY DEF TypedInv
<1>4. Once!TypeOK /\ Sem!TypeOK /\ Bar!TypeOK /\ RW!TypeOK /\ Typed!TypeOK /\ Cond!TypeOK
      /\ Slot!TypeOK /\ Loop!TypeOK => TypeOK
  BY DEF TypeOK
<1>5. QED
  BY <1>1, <1>2, <1>3, <1>4, OnceTypes, TypedCorrect, OnceRuns, SemRuns, BarRuns, RWRuns, TypedRuns, CondRuns,
     SlotRuns, LoopRuns, PTL
=============================================================================
