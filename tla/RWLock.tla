------------------------------- MODULE RWLock -------------------------------
(***************************************************************************)
(* The reader-writer lock of substrate/sync.rs: read_lock, write_lock,     *)
(* their timed and try variants and the two unlocks, one atomic access to  *)
(* state, writer_wake or writer_waiting per step.  Readers and writers     *)
(* sleep on the same futex word, writer_wake.                              *)
(*                                                                         *)
(* A failed compare_exchange_weak inside a loop goes round the loop again, *)
(* so a spurious failure is a stuttering step; outside a loop it is an     *)
(* explicit alternative (WriteFast).                                       *)
(***************************************************************************)
EXTENDS Integers, FiniteSets

CONSTANTS Readers, Writers,  \* the threads that read-lock and that write-lock
          WRITER_BIT,        \* 2^31 in the code
          WakeMod,           \* writer_wake is a u32: 2^32 in the code
          MaxCalls           \* bound on lock calls, all threads together

RWLockAssumption ==
    /\ Readers \cap Writers = {} /\ IsFiniteSet(Readers \cup Writers)
    /\ WRITER_BIT \in Nat \ {0}
    /\ WakeMod \in Nat \ {0, 1}
    /\ MaxCalls \in Nat

Threads == Readers \cup Writers

VARIABLES state, writer_wake, writer_waiting,
          pc,
          seen,     \* the local s of the call in progress
          wake_val, \* the local copy of writer_wake
          timed,    \* the call in progress has a deadline
          expired,  \* ... which has passed
          calls

rwVars == <<state, writer_wake, writer_waiting, pc, seen, wake_val, timed, expired, calls>>

(* Steps of the read side (r...) and of the write side (w...).  ww: look   *)
(* at writer_waiting; inc/cas: the CAS; clock: deadline check; wk: load    *)
(* writer_wake; wait: about to futex_wait; sleep: asleep; last...: the one *)
(* last try after a timeout; queue/deq/quit: writer_waiting up, down after *)
(* success, down after failure; ...bump/...wake: the two halves of an      *)
(* unlock that wakes; try...: try_read_lock.                               *)
ReadPCs == {"rload", "rww", "rinc", "rclock", "rwk", "rwait", "rsleep", "rlast", "rlastinc"}

QueuedPCs == {"wcas", "wload", "wclock", "wwk", "wwait", "wsleep", "wlast", "wdeq", "wquit"}

WritePCs == {"wqueue"} \cup QueuedPCs

PCs == {"idle", "tryload", "tryinc", "rcs", "rbump", "rwake", "wcs", "wbump", "wwake"}
           \cup ReadPCs \cup WritePCs

Init ==
    /\ state = 0 /\ writer_wake = 0 /\ writer_waiting = 0
    /\ pc = [t \in Threads |-> "idle"]
    /\ seen = [t \in Threads |-> 0]
    /\ wake_val = [t \in Threads |-> 0]
    /\ timed = [t \in Threads |-> FALSE]
    /\ expired = [t \in Threads |-> FALSE]
    /\ calls = 0

Goto(t, to) == pc' = [pc EXCEPT ![t] = to]

WriterHeld(s) == s >= WRITER_BIT

Sleepers == {t \in Threads : pc[t] \in {"rsleep", "wsleep"}}

(* Where a thread roused from futex_wait resumes. *)
Resume(u) == IF pc[u] = "rsleep" THEN "rload" ELSE "wcas"

locals == <<seen, wake_val, timed, expired, calls>>

words == <<state, writer_wake, writer_waiting>>

(* A call begins, with or without a deadline. *)
Begin(t, first, deadline) ==
    /\ pc[t] = "idle"
    /\ calls < MaxCalls
    /\ calls' = calls + 1
    /\ Goto(t, first)
    /\ timed' = [timed EXCEPT ![t] = deadline]
    /\ expired' = [expired EXCEPT ![t] = FALSE]
    /\ UNCHANGED <<words, seen, wake_val>>

-----------------------------------------------------------------------------
(* read_lock and read_lock_timeout.  The timed variant's fast path is one  *)
(* more round of its loop.                                                 *)

read_lock(t) == Begin(t, "rload", FALSE)

read_lock_timeout(t) == Begin(t, "rload", TRUE)

ReadLoad(t) ==
    /\ pc[t] = "rload"
    /\ seen' = [seen EXCEPT ![t] = state]
    /\ Goto(t, IF ~WriterHeld(state) THEN "rww" ELSE IF timed[t] THEN "rclock" ELSE "rwk")
    /\ UNCHANGED <<words, wake_val, timed, expired, calls>>

ReadCheckQueue(t) ==
    /\ pc[t] = "rww"
    /\ Goto(t, IF writer_waiting = 0 THEN "rinc" ELSE IF timed[t] THEN "rclock" ELSE "rwk")
    /\ UNCHANGED <<words, locals>>

(* CAS(s, s + 1). *)
ReadInc(t) ==
    /\ pc[t] = "rinc"
    /\ IF state = seen[t] THEN state' = state + 1 /\ Goto(t, "rcs")
                          ELSE Goto(t, "rload") /\ UNCHANGED state
    /\ UNCHANGED <<writer_wake, writer_waiting, locals>>

(* remaining == 0: read_lock_timeout returns false. *)
ReadClock(t) ==
    /\ pc[t] = "rclock"
    /\ Goto(t, IF expired[t] THEN "idle" ELSE "rwk")
    /\ UNCHANGED <<words, locals>>

(* The expected value of the wait is read after the lock was found taken. *)
LoadWake(t) ==
    /\ pc[t] \in {"rwk", "wwk"}
    /\ wake_val' = [wake_val EXCEPT ![t] = writer_wake]
    /\ Goto(t, IF pc[t] = "rwk" THEN "rwait" ELSE "wwait")
    /\ UNCHANGED <<words, seen, timed, expired, calls>>

FutexWait(t) ==
    /\ pc[t] \in {"rwait", "wwait"}
    /\ Goto(t, IF writer_wake = wake_val[t]
               THEN (IF pc[t] = "rwait" THEN "rsleep" ELSE "wsleep")
               ELSE (IF pc[t] = "rwait" THEN "rload" ELSE "wcas"))
    /\ UNCHANGED <<words, locals>>

ReadLast(t) ==
    /\ pc[t] = "rlast"
    /\ seen' = [seen EXCEPT ![t] = state]
    /\ Goto(t, IF WriterHeld(state) THEN "idle" ELSE "rlastinc")
    /\ UNCHANGED <<words, wake_val, timed, expired, calls>>

ReadLastInc(t) ==
    /\ pc[t] = "rlastinc"
    /\ IF state = seen[t] THEN state' = state + 1 /\ Goto(t, "rcs")
                          ELSE Goto(t, "idle") /\ UNCHANGED state
    /\ UNCHANGED <<writer_wake, writer_waiting, locals>>

(* read_unlock: the last reader bumps writer_wake and wakes one sleeper. *)
read_unlock(t) ==
    /\ pc[t] = "rcs"
    /\ state' = state - 1
    /\ Goto(t, IF state = 1 THEN "rbump" ELSE "idle")
    /\ UNCHANGED <<writer_wake, writer_waiting, locals>>

try_read_lock(t) == Begin(t, "tryload", FALSE)

TryReadLoad(t) ==
    /\ pc[t] = "tryload"
    /\ seen' = [seen EXCEPT ![t] = state]
    /\ Goto(t, IF WriterHeld(state) THEN "idle" ELSE "tryinc")
    /\ UNCHANGED <<words, wake_val, timed, expired, calls>>

TryReadInc(t) ==
    /\ pc[t] = "tryinc"
    /\ IF state = seen[t] THEN state' = state + 1 /\ Goto(t, "rcs")
                          ELSE Goto(t, "tryload") /\ UNCHANGED state
    /\ UNCHANGED <<writer_wake, writer_waiting, locals>>

-----------------------------------------------------------------------------
(* write_lock and write_lock_timeout.                                      *)

(* The fast path of both: one weak CAS 0 -> WRITER_BIT. *)
WriteFast(t, deadline) ==
    \/ Begin(t, "wqueue", deadline)
    \/ /\ pc[t] = "idle" /\ calls < MaxCalls
       /\ state = 0
       /\ state' = WRITER_BIT
       /\ calls' = calls + 1
       /\ Goto(t, "wcs")
       /\ UNCHANGED <<writer_wake, writer_waiting, seen, wake_val, timed, expired>>

write_lock(t) == WriteFast(t, FALSE)

write_lock_timeout(t) == WriteFast(t, TRUE)

WriteQueue(t) ==
    /\ pc[t] = "wqueue"
    /\ writer_waiting' = writer_waiting + 1
    /\ Goto(t, "wcas")
    /\ UNCHANGED <<state, writer_wake, locals>>

WriteCas(t) ==
    /\ pc[t] = "wcas"
    /\ IF state = 0 THEN state' = WRITER_BIT /\ Goto(t, "wdeq")
                    ELSE Goto(t, "wload") /\ UNCHANGED state
    /\ UNCHANGED <<writer_wake, writer_waiting, locals>>

WriteLoad(t) ==
    /\ pc[t] = "wload"
    /\ Goto(t, IF state = 0 THEN "wcas" ELSE IF timed[t] THEN "wclock" ELSE "wwk")
    /\ UNCHANGED <<words, locals>>

WriteClock(t) ==
    /\ pc[t] = "wclock"
    /\ Goto(t, IF expired[t] THEN "wquit" ELSE "wwk")
    /\ UNCHANGED <<words, locals>>

(* Mistaken form: the last try looks at the writer bit only. *)
WriteLastOverReaders(t) ==
    /\ pc[t] = "wlast"
    /\ IF ~WriterHeld(state) THEN state' = state + WRITER_BIT /\ Goto(t, "wdeq")
                             ELSE Goto(t, "wquit") /\ UNCHANGED state
    /\ UNCHANGED <<writer_wake, writer_waiting, locals>>

WriteLast(t) ==
    /\ pc[t] = "wlast"
    /\ IF state = 0 THEN state' = WRITER_BIT /\ Goto(t, "wdeq")
                    ELSE Goto(t, "wquit") /\ UNCHANGED state
    /\ UNCHANGED <<writer_wake, writer_waiting, locals>>

(* writer_waiting.fetch_sub(1), with the lock (wdeq) or without (wquit). *)
WriteDequeue(t) ==
    /\ pc[t] \in {"wdeq", "wquit"}
    /\ writer_waiting' = writer_waiting - 1
    /\ Goto(t, IF pc[t] = "wdeq" THEN "wcs" ELSE "idle")
    /\ UNCHANGED <<state, writer_wake, locals>>

try_write_lock(t) ==
    /\ pc[t] = "idle" /\ calls < MaxCalls
    /\ state = 0
    /\ state' = WRITER_BIT
    /\ calls' = calls + 1
    /\ Goto(t, "wcs")
    /\ UNCHANGED <<writer_wake, writer_waiting, seen, wake_val, timed, expired>>

(* write_unlock: clear the bit, bump writer_wake, wake everybody. *)
write_unlock(t) ==
    /\ pc[t] = "wcs"
    /\ state' = state % WRITER_BIT
    /\ Goto(t, "wbump")
    /\ UNCHANGED <<writer_wake, writer_waiting, locals>>

-----------------------------------------------------------------------------
BumpWake(t) ==
    /\ pc[t] \in {"rbump", "wbump"}
    /\ writer_wake' = (writer_wake + 1) % WakeMod
    /\ Goto(t, IF pc[t] = "rbump" THEN "rwake" ELSE "wwake")
    /\ UNCHANGED <<state, writer_waiting, locals>>

WakeOne(t) ==
    /\ pc[t] = "rwake"
    /\ \/ Sleepers = {} /\ Goto(t, "idle")
       \/ \E s \in Sleepers : pc' = [pc EXCEPT ![t] = "idle", ![s] = Resume(s)]
    /\ UNCHANGED <<words, locals>>

WakeAll(t) ==
    /\ pc[t] = "wwake"
    /\ pc' = [u \in Threads |-> IF u = t THEN "idle"
                                ELSE IF u \in Sleepers THEN Resume(u) ELSE pc[u]]
    /\ UNCHANGED <<words, locals>>

Expire(t) ==
    /\ timed[t] /\ ~expired[t] /\ pc[t] \in ReadPCs \cup WritePCs
    /\ expired' = [expired EXCEPT ![t] = TRUE]
    /\ UNCHANGED <<words, pc, seen, wake_val, timed, calls>>

(* Mistaken form: write_lock_timeout waits without its deadline. *)
FutexTimeoutReaders(t) ==
    /\ pc[t] = "rsleep" /\ timed[t] /\ expired[t]
    /\ Goto(t, "rlast")
    /\ UNCHANGED <<words, locals>>

FutexTimeout(t) ==
    /\ t \in Sleepers /\ timed[t] /\ expired[t]
    /\ Goto(t, IF pc[t] = "rsleep" THEN "rlast" ELSE "wlast")
    /\ UNCHANGED <<words, locals>>

FutexInterrupt(t) ==
    /\ t \in Sleepers
    /\ Goto(t, Resume(t))
    /\ UNCHANGED <<words, locals>>

-----------------------------------------------------------------------------
ReadProgress(t) ==
    \/ ReadLoad(t) \/ ReadCheckQueue(t) \/ ReadInc(t) \/ ReadClock(t) \/ ReadLast(t)
    \/ ReadLastInc(t) \/ TryReadLoad(t) \/ TryReadInc(t)

WriteProgress(t) ==
    \/ WriteQueue(t) \/ WriteCas(t) \/ WriteLoad(t) \/ WriteClock(t) \/ WriteLast(t)
    \/ WriteDequeue(t)

Progress(t) ==
    \/ ReadProgress(t) \/ WriteProgress(t)
    \/ LoadWake(t) \/ FutexWait(t) \/ BumpWake(t) \/ WakeOne(t) \/ WakeAll(t)

Timer(t) == Expire(t) \/ FutexTimeout(t)

Unlock(t) == read_unlock(t) \/ write_unlock(t)

Next ==
    \/ \E t \in Readers : read_lock(t) \/ read_lock_timeout(t) \/ try_read_lock(t)
    \/ \E t \in Writers : write_lock(t) \/ write_lock_timeout(t) \/ try_write_lock(t)
    \/ \E t \in Threads : Unlock(t) \/ Progress(t) \/ Timer(t) \/ FutexInterrupt(t)

Spec == Init /\ [][Next]_rwVars

(* Threads inside a call keep running, the timer ticks, and a holder       *)
(* eventually unlocks; nobody is obliged to call in.                       *)
Fairness ==
    \A t \in Threads :
        WF_rwVars(Progress(t)) /\ WF_rwVars(Timer(t)) /\ WF_rwVars(Unlock(t))

FairSpec == Spec /\ Fairness
-----------------------------------------------------------------------------
(* Properties *)

TypeOK ==
    /\ state \in 0..(2 * WRITER_BIT - 1)
    /\ writer_wake \in 0..(WakeMod - 1)
    /\ writer_waiting \in 0..Cardinality(Writers)
    /\ pc \in [Threads -> PCs]
    /\ seen \in [Threads -> 0..(2 * WRITER_BIT - 1)]
    /\ wake_val \in [Threads -> 0..(WakeMod - 1)]
    /\ timed \in [Threads -> BOOLEAN]
    /\ expired \in [Threads -> BOOLEAN]
    /\ calls \in 0..MaxCalls

ReadHolders == {t \in Threads : pc[t] = "rcs"}

WriteHolders == {t \in Threads : pc[t] \in {"wcs", "wdeq"}}

(* A writer excludes everybody and readers exclude writers, through every  *)
(* path of the seven lock functions including the last tries after a       *)
(* timeout; and the word counts exactly the holders.                       *)
Exclusion ==
    /\ WriteHolders # {} => Cardinality(WriteHolders) = 1 /\ ReadHolders = {}
    /\ state = Cardinality(ReadHolders) + WRITER_BIT * Cardinality(WriteHolders)

(* writer_waiting, which holds new readers back, counts exactly the queued *)
(* writers: a writer that timed out does not leave its mark behind.        *)
QueueCounted ==
    writer_waiting = Cardinality({t \in Threads : pc[t] \in QueuedPCs})

(* The timed calls come back once their deadline passes (with finitely     *)
(* many calls of other threads to fail their CASes).                       *)
TimedLockReturns ==
    \A t \in Threads :
        ~<>[](timed[t] /\ pc[t] \in ReadPCs \cup WritePCs)

(* read_lock waits while a "Writer holds lock or is waiting" and the "Last *)
(* reader" is to "wake a waiting writer": nobody stays asleep for ever on  *)
(* a lock that nobody holds.                                               *)
NotStranded == \A t \in Threads : ~<>[](t \in Sleepers /\ state = 0)
=============================================================================
