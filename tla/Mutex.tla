------------------------------- MODULE Mutex --------------------------------
(***************************************************************************)
(* The three-state futex mutex of substrate/sync.rs (struct Mutex):        *)
(* lock, lock_timeout, try_lock and unlock, one atomic access to the futex *)
(* word per step.  TypedMutex::lock_inner, lock_inner_timeout and          *)
(* unlock_inner are the same algorithm on the same word.                   *)
(*                                                                         *)
(* The kernel's futex is external: a wait compares the word and goes to    *)
(* sleep in one step, a wake rouses one sleeper of the kernel's choice, a  *)
(* sleeper with a deadline is roused by the timer, and a sleeper may be    *)
(* roused by a signal, which every caller here treats as a wake.           *)
(***************************************************************************)
EXTENDS Integers

CONSTANT Threads

VARIABLES state,    \* the futex word: 0 free, 1 locked, 2 locked and contended
          pc,       \* where each thread is, see PCs
          timed,    \* the call in progress is lock_timeout
          expired   \* its deadline has passed

mutexVars == <<state, pc, timed, expired>>

(* idle: outside; spin: the spin loop of lock; swap: about to swap(2);     *)
(* wait: about to enter futex_wait; sleep: asleep in the kernel; last: the *)
(* last swap(2) of a call whose deadline passed; cs: lock held; wake: word *)
(* cleared by unlock, futex_wake not yet called.                           *)
PCs == {"idle", "spin", "swap", "wait", "sleep", "last", "cs", "wake"}

Acquiring == {"spin", "swap", "wait", "sleep", "last"}

Init ==
    /\ state = 0
    /\ pc = [t \in Threads |-> "idle"]
    /\ timed = [t \in Threads |-> FALSE]
    /\ expired = [t \in Threads |-> FALSE]

Sleepers == {t \in Threads : pc[t] = "sleep"}

Goto(t, to) == pc' = [pc EXCEPT ![t] = to]

-----------------------------------------------------------------------------
(* Entry: the fast path is one CAS 0 -> 1.                                 *)

lock(t) ==
    /\ pc[t] = "idle"
    /\ IF state = 0 THEN state' = 1 /\ Goto(t, "cs")
                    ELSE Goto(t, "spin") /\ UNCHANGED state
    /\ timed' = [timed EXCEPT ![t] = FALSE]
    /\ expired' = [expired EXCEPT ![t] = FALSE]

lock_timeout(t) ==
    /\ pc[t] = "idle"
    /\ IF state = 0 THEN state' = 1 /\ Goto(t, "cs")
                    ELSE Goto(t, "swap") /\ UNCHANGED state
    /\ timed' = [timed EXCEPT ![t] = TRUE]
    /\ expired' = [expired EXCEPT ![t] = FALSE]

(* A failed try_lock changes nothing and is not a step. *)
try_lock(t) ==
    /\ pc[t] = "idle"
    /\ state = 0
    /\ state' = 1
    /\ Goto(t, "cs")
    /\ UNCHANGED <<timed, expired>>

-----------------------------------------------------------------------------
(* The slow path.                                                          *)

(* One useful iteration of the spin loop: the word was seen free and the   *)
(* CAS 0 -> 2 succeeded.  An iteration that fails changes nothing.         *)
SpinAcquire(t) ==
    /\ pc[t] = "spin"
    /\ state = 0
    /\ state' = 2
    /\ Goto(t, "cs")
    /\ UNCHANGED <<timed, expired>>

(* The 40 iterations are used up. *)
SpinEnd(t) ==
    /\ pc[t] = "spin"
    /\ Goto(t, "swap")
    /\ UNCHANGED <<state, timed, expired>>

(* Mistaken forms: fetch_add(2) for swap(2); swap(1), which forgets the    *)
(* waiter flag.                                                            *)
SwapTwoAdds(t) ==
    /\ pc[t] = "swap"
    /\ state' = state + 2
    /\ Goto(t, IF state = 0 THEN "cs"
               ELSE IF timed[t] /\ expired[t] THEN "last" ELSE "wait")
    /\ UNCHANGED <<timed, expired>>

SwapTwoWritesOne(t) ==
    /\ pc[t] = "swap"
    /\ state' = IF state = 0 THEN 1 ELSE state
    /\ Goto(t, IF state = 0 THEN "cs"
               ELSE IF timed[t] /\ expired[t] THEN "last" ELSE "wait")
    /\ UNCHANGED <<timed, expired>>

(* swap(2), which acquires iff the word was 0; a timed call then looks at  *)
(* the clock before it goes to wait.                                       *)
SwapTwo(t) ==
    /\ pc[t] = "swap"
    /\ state' = 2
    /\ Goto(t, IF state = 0 THEN "cs"
               ELSE IF timed[t] /\ expired[t] THEN "last" ELSE "wait")
    /\ UNCHANGED <<timed, expired>>

(* Mistaken forms: a timed-out caller undoes its mark; it tries for ever.  *)
LastTryClears(t) ==
    /\ pc[t] = "last"
    /\ state' = IF state = 0 THEN 2 ELSE 0
    /\ Goto(t, IF state = 0 THEN "cs" ELSE "idle")
    /\ UNCHANGED <<timed, expired>>

LastTryLoops(t) ==
    /\ pc[t] = "last"
    /\ state' = 2
    /\ Goto(t, IF state = 0 THEN "cs" ELSE "swap")
    /\ UNCHANGED <<timed, expired>>

LastTry(t) ==
    /\ pc[t] = "last"
    /\ state' = 2
    /\ Goto(t, IF state = 0 THEN "cs" ELSE "idle")
    /\ UNCHANGED <<timed, expired>>

(* futex_wait(word, 2): sleep, or return at once when the word is not 2. *)
FutexWait(t) ==
    /\ pc[t] = "wait"
    /\ Goto(t, IF state = 2 THEN "sleep" ELSE "swap")
    /\ UNCHANGED <<state, timed, expired>>

(* The clock reaches the deadline of a timed call. *)
Expire(t) ==
    /\ timed[t] /\ ~expired[t]
    /\ pc[t] \in Acquiring
    /\ expired' = [expired EXCEPT ![t] = TRUE]
    /\ UNCHANGED <<state, pc, timed>>

(* futex_wait_timeout returns TRONA_CANCELLED. *)
FutexTimeout(t) ==
    /\ pc[t] = "sleep" /\ timed[t] /\ expired[t]
    /\ Goto(t, "last")
    /\ UNCHANGED <<state, timed, expired>>

(* Mistaken form: lock returns when its wait is interrupted. *)
FutexInterruptReturns(t) ==
    /\ pc[t] = "sleep"
    /\ Goto(t, "idle")
    /\ UNCHANGED <<state, timed, expired>>

(* A signal ends the wait; the status is neither OK nor TRONA_CANCELLED. *)
FutexInterrupt(t) ==
    /\ pc[t] = "sleep"
    /\ Goto(t, "swap")
    /\ UNCHANGED <<state, timed, expired>>

-----------------------------------------------------------------------------
(* unlock: swap(0), and a wake only when the word was 2.                   *)

(* Mistaken form: nobody is woken. *)
unlockSilent(t) ==
    /\ pc[t] = "cs"
    /\ state' = 0
    /\ Goto(t, "idle")
    /\ UNCHANGED <<timed, expired>>

unlock(t) ==
    /\ pc[t] = "cs"
    /\ state' = 0
    /\ Goto(t, IF state = 2 THEN "wake" ELSE "idle")
    /\ UNCHANGED <<timed, expired>>

FutexWake(t) ==
    /\ pc[t] = "wake"
    /\ \/ Sleepers = {} /\ Goto(t, "idle")
       \/ \E s \in Sleepers : pc' = [pc EXCEPT ![t] = "idle", ![s] = "swap"]
    /\ UNCHANGED <<state, timed, expired>>

-----------------------------------------------------------------------------
(* What a thread does by itself once it has entered lock or unlock. *)
Progress(t) ==
    \/ SpinAcquire(t) \/ SpinEnd(t) \/ SwapTwo(t) \/ LastTry(t) \/ FutexWait(t)
    \/ FutexWake(t)

(* What the clock and the kernel do to it. *)
Timer(t) == Expire(t) \/ FutexTimeout(t)

Call(t) == lock(t) \/ lock_timeout(t) \/ try_lock(t) \/ unlock(t)

Next == \E t \in Threads : Call(t) \/ Progress(t) \/ Timer(t) \/ FutexInterrupt(t)

Spec == Init /\ [][Next]_mutexVars

(* A thread in the middle of a call keeps running and the timer keeps      *)
(* ticking.  Nothing obliges a thread to call lock or unlock.              *)
FairSpec ==
    /\ Spec
    /\ \A t \in Threads : WF_mutexVars(Progress(t))
    /\ \A t \in Threads : WF_mutexVars(Timer(t))
-----------------------------------------------------------------------------
(* Properties *)

TypeOK ==
    /\ state \in {0, 1, 2}
    /\ pc \in [Threads -> PCs]
    /\ timed \in [Threads -> BOOLEAN]
    /\ expired \in [Threads -> BOOLEAN]

(* Mutex::lock, lock_timeout and try_lock let at most one thread in, and   *)
(* the word is 0 exactly when nobody is in: no path acquires without       *)
(* setting it and no failed or timed-out path clears it.                   *)
MutualExclusion ==
    /\ \A t, u \in Threads : pc[t] = "cs" /\ pc[u] = "cs" => t = u
    /\ (state = 0) <=> (\A t \in Threads : pc[t] # "cs")

(* The "waiter flag" of lock and lock_timeout is never lost: while anyone  *)
(* sleeps in futex_wait, the word is 2 (so unlock will wake), or a wake is *)
(* on its way, or a thread that will write 2 again is already running.     *)
NoLostWakeup ==
    Sleepers # {} =>
        \/ state = 2
        \/ \E t \in Threads : pc[t] \in {"wake", "swap", "last"}

(* A thread blocked in lock is never stranded beside a free lock: whenever *)
(* some thread is acquiring, some thread gets to hold the lock, even if no *)
(* thread ever calls in again, unless the last of them timed out.          *)
NotStranded ==
    (\E t \in Threads : pc[t] \in Acquiring)
        ~> \/ \E t \in Threads : pc[t] = "cs"
           \/ \A t \in Threads : pc[t] \notin Acquiring

(* lock_timeout comes back once its deadline passes, whatever the holder   *)
(* and the other waiters do.                                               *)
TimedLockReturns ==
    \A t \in Threads :
        pc[t] \in Acquiring /\ timed[t] ~> pc[t] \notin Acquiring

(* The mutex implements the abstract lock: grants only when free, and only *)
(* lock_timeout comes back without the lock.                               *)
Abstract == INSTANCE Lock WITH
    holders    <- {t \in Threads : pc[t] = "cs"},
    contending <- {t \in Threads : pc[t] \in Acquiring /\ ~timed[t]},
    bounded    <- {t \in Threads : pc[t] \in Acquiring /\ timed[t]}

ImplementsLock == Abstract!LockSpec
=============================================================================
