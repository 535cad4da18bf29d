------------------------------ MODULE Condvar -------------------------------
(***************************************************************************)
(* The condition variable of substrate/sync.rs over an abstract lock, with *)
(* the cancellation protocol that runs through it: Condvar::wait and       *)
(* wait_timeout publish the futex they block on, pthread_cancel sets       *)
(* cancel_pending, reads the published address and wakes it.               *)
(*                                                                         *)
(* The callers are external and follow the usual discipline: a waiter      *)
(* locks, waits while there is no item, takes one, unlocks; a signaller    *)
(* locks, adds an item, and calls signal or broadcast before or after      *)
(* unlocking.                                                              *)
(***************************************************************************)
EXTENDS Lock, Integers

CONSTANTS Waiters, Signallers, Cancellers,
          SeqMod,    \* seq is a u32: 2^32 in the code
          MaxItems   \* bound on items added

CondvarAssumption ==
    /\ Threads = Waiters \cup Signallers \cup Cancellers
    /\ Waiters # {} /\ Waiters \cap (Signallers \cup Cancellers) = {}
    /\ SeqMod \in Nat \ {0, 1}
    /\ MaxItems \in Nat

VARIABLES seq,             \* Condvar::seq, the futex word
          pc,
          current_seq,     \* the local current_seq of each wait
          timed,           \* the wait in progress is wait_timeout
          timed_out,       \* ... and the kernel answered TRONA_CANCELLED
          blocked,         \* blocked_futex_addr is the futex (not 0)
          cancel_pending,
          cancel_state,    \* "enable" or "disable"
          target,          \* whom each canceller is cancelling
          items,           \* the caller's condition
          added            \* items added so far

condvarVars == <<lockVars, seq, pc, current_seq, timed, timed_out, blocked,
                 cancel_pending, cancel_state, target, items, added>>

(* Waiters.  lock: in lock(); test: holding, testing the condition;        *)
(* unlock: seq loaded, unlock next; publish: set_blocked_futex next; wait: *)
(* futex_wait next; sleep: asleep; clear: clear_blocked_futex next;        *)
(* relock: in the lock() after the wait; check: check_cancellation next;   *)
(* done: leaving with the lock; exit: cancelled.                           *)
WaitPCs == {"unlock", "publish", "wait", "sleep", "clear", "relock", "check"}

(* Signallers.  add: holding; bump, wake: signal or broadcast, with the    *)
(* lock still held (in) or not (out).  Cancellers.  look, kick.            *)
PCs == {"idle", "lock", "test", "done", "exit"} \cup WaitPCs
           \cup {"add", "bumpin", "wakein", "bumpout", "wakeout"}
           \cup {"look", "kick"}

Init ==
    /\ LockInit
    /\ seq = 0
    /\ pc = [t \in Threads |-> "idle"]
    /\ current_seq = [t \in Waiters |-> 0]
    /\ timed = [t \in Waiters |-> FALSE]
    /\ timed_out = [t \in Waiters |-> FALSE]
    /\ blocked = [t \in Waiters |-> FALSE]
    /\ cancel_pending = [t \in Waiters |-> FALSE]
    /\ cancel_state = [t \in Waiters |-> "enable"]
    /\ target = [c \in Cancellers |-> "nobody"]
    /\ items = 0 /\ added = 0

Goto(t, to) == pc' = [pc EXCEPT ![t] = to]

tlsVars == <<blocked, cancel_pending, cancel_state, target>>

waitVars == <<current_seq, timed, timed_out>>

userVars == <<items, added>>

-----------------------------------------------------------------------------
(* Locking, by waiters and signallers alike. *)
EnterLock(t) ==
    /\ pc[t] = "idle"
    /\ t \in Waiters \cup Signallers
    /\ t \in Signallers => added < MaxItems
    /\ Contend(t) /\ t \in contending'
    /\ Goto(t, "lock")
    /\ UNCHANGED <<seq, waitVars, tlsVars, userVars>>

LockGranted(t) ==
    /\ pc[t] \in {"lock", "relock"}
    /\ Acquire(t)
    /\ Goto(t, IF pc[t] = "relock" THEN "check" ELSE IF t \in Waiters THEN "test" ELSE "add")
    /\ UNCHANGED <<seq, waitVars, tlsVars, userVars>>

-----------------------------------------------------------------------------
(* The waiter's caller: take an item, give up after a timeout, or wait.    *)
TakeItem(t) ==
    /\ pc[t] = "test" /\ items > 0
    /\ items' = items - 1
    /\ Goto(t, "done")
    /\ UNCHANGED <<lockVars, seq, waitVars, tlsVars, added>>

GiveUpWaiting(t) ==
    /\ pc[t] = "test" /\ items = 0 /\ timed_out[t]
    /\ Goto(t, "done")
    /\ UNCHANGED <<lockVars, seq, waitVars, tlsVars, userVars>>

Leave(t) ==
    /\ pc[t] = "done"
    /\ Release(t)
    /\ Goto(t, "idle")
    /\ timed_out' = [timed_out EXCEPT ![t] = FALSE]
    /\ UNCHANGED <<seq, current_seq, timed, tlsVars, userVars>>

(* Condvar::wait and wait_timeout. *)
wait(t, deadline) ==
    /\ pc[t] = "test" /\ items = 0 /\ ~timed_out[t]
    /\ current_seq' = [current_seq EXCEPT ![t] = seq]
    /\ timed' = [timed EXCEPT ![t] = deadline]
    /\ Goto(t, "unlock")
    /\ UNCHANGED <<lockVars, seq, timed_out, tlsVars, userVars>>

Unlock(t) ==
    /\ pc[t] = "unlock"
    /\ Release(t)
    /\ Goto(t, "publish")
    /\ UNCHANGED <<seq, waitVars, tlsVars, userVars>>

(* Mistaken form: the sequence is read after the unlock. *)
PublishLoadsSeq(t) ==
    /\ pc[t] = "publish"
    /\ blocked' = [blocked EXCEPT ![t] = TRUE]
    /\ current_seq' = [current_seq EXCEPT ![t] = seq]
    /\ Goto(t, "wait")
    /\ UNCHANGED <<lockVars, seq, timed, timed_out, cancel_pending, cancel_state, target, userVars>>

set_blocked_futex(t) ==
    /\ pc[t] = "publish"
    /\ blocked' = [blocked EXCEPT ![t] = TRUE]
    /\ Goto(t, "wait")
    /\ UNCHANGED <<lockVars, seq, waitVars, cancel_pending, cancel_state, target, userVars>>

FutexWait(t) ==
    /\ pc[t] = "wait"
    /\ Goto(t, IF seq = current_seq[t] THEN "sleep" ELSE "clear")
    /\ UNCHANGED <<lockVars, seq, waitVars, tlsVars, userVars>>

(* Mistaken form: a timeout returns without locking again. *)
FutexTimeoutReturns(t) ==
    /\ pc[t] = "sleep" /\ timed[t]
    /\ timed_out' = [timed_out EXCEPT ![t] = TRUE]
    /\ Goto(t, "check")
    /\ UNCHANGED <<lockVars, seq, current_seq, timed, tlsVars, userVars>>

FutexTimeout(t) ==
    /\ pc[t] = "sleep" /\ timed[t]
    /\ timed_out' = [timed_out EXCEPT ![t] = TRUE]
    /\ Goto(t, "clear")
    /\ UNCHANGED <<lockVars, seq, current_seq, timed, tlsVars, userVars>>

FutexInterrupt(t) ==
    /\ pc[t] = "sleep"
    /\ Goto(t, "clear")
    /\ UNCHANGED <<lockVars, seq, waitVars, tlsVars, userVars>>

clear_blocked_futex(t) ==
    /\ pc[t] = "clear"
    /\ blocked' = [blocked EXCEPT ![t] = FALSE]
    /\ Contend(t) /\ t \in contending'
    /\ Goto(t, "relock")
    /\ UNCHANGED <<seq, waitVars, cancel_pending, cancel_state, target, userVars>>

(* The hook runs the cleanup handlers, which release the lock, and exits.  *)
check_cancellation(t) ==
    /\ pc[t] = "check"
    /\ IF cancel_pending[t] /\ cancel_state[t] = "enable"
       THEN Release(t) /\ Goto(t, "exit")
       ELSE Goto(t, "test") /\ UNCHANGED lockVars
    /\ UNCHANGED <<seq, waitVars, tlsVars, userVars>>

-----------------------------------------------------------------------------
(* The signaller adds an item and calls signal or broadcast, inside the    *)
(* critical section or just after it.                                      *)
AddItem(t) ==
    /\ pc[t] = "add"
    /\ items' = items + 1
    /\ added' = added + 1
    /\ \/ Goto(t, "bumpin") /\ UNCHANGED lockVars
       \/ Goto(t, "bumpout") /\ Release(t)
    /\ UNCHANGED <<seq, waitVars, tlsVars>>

BumpSeq(t) ==
    /\ pc[t] \in {"bumpin", "bumpout"}
    /\ seq' = (seq + 1) % SeqMod
    /\ Goto(t, IF pc[t] = "bumpin" THEN "wakein" ELSE "wakeout")
    /\ UNCHANGED <<lockVars, waitVars, tlsVars, userVars>>

Sleepers == {u \in Waiters : pc[u] = "sleep"}

(* After the wake: unlock, if that has not been done. *)
AfterWake(t) ==
    IF pc[t] = "wakein" THEN Release(t) ELSE UNCHANGED lockVars

signal(t) ==
    /\ pc[t] \in {"wakein", "wakeout"}
    /\ \/ Sleepers = {} /\ Goto(t, "idle")
       \/ \E s \in Sleepers : pc' = [pc EXCEPT ![t] = "idle", ![s] = "clear"]
    /\ AfterWake(t)
    /\ UNCHANGED <<seq, waitVars, tlsVars, userVars>>

broadcast(t) ==
    /\ pc[t] \in {"wakein", "wakeout"}
    /\ pc' = [u \in Threads |-> IF u = t THEN "idle"
                                ELSE IF u \in Sleepers THEN "clear" ELSE pc[u]]
    /\ AfterWake(t)
    /\ UNCHANGED <<seq, waitVars, tlsVars, userVars>>

-----------------------------------------------------------------------------
(* pthread_setcancelstate, by the thread itself.  Where nobody cancels,    *)
(* the state is never read and stays as it is.                             *)
pthread_setcancelstate(t, new) ==
    /\ t \in Waiters /\ pc[t] = "idle"
    /\ Cancellers # {}
    /\ cancel_state' = [cancel_state EXCEPT ![t] = new]
    /\ UNCHANGED <<lockVars, seq, pc, waitVars, blocked, cancel_pending, target, userVars>>

(* pthread_cancel: set the flag, read the address, wake one sleeper there. *)
pthread_cancel(c, t) ==
    /\ pc[c] = "idle" /\ c \in Cancellers
    /\ pc[t] # "exit"
    /\ target' = [target EXCEPT ![c] = t]
    /\ cancel_pending' = [cancel_pending EXCEPT ![t] = TRUE]
    /\ Goto(c, "look")
    /\ UNCHANGED <<lockVars, seq, waitVars, blocked, cancel_state, userVars>>

CancelLook(c) ==
    /\ pc[c] = "look"
    /\ Goto(c, IF blocked[target[c]] THEN "kick" ELSE "idle")
    /\ UNCHANGED <<lockVars, seq, waitVars, tlsVars, userVars>>

CancelKick(c) ==
    /\ pc[c] = "kick"
    /\ \/ Sleepers = {} /\ Goto(c, "idle")
       \/ \E s \in Sleepers : pc' = [pc EXCEPT ![c] = "idle", ![s] = "clear"]
    /\ UNCHANGED <<lockVars, seq, waitVars, tlsVars, userVars>>

-----------------------------------------------------------------------------
Progress(t) ==
    \/ LockGranted(t) \/ TakeItem(t) \/ GiveUpWaiting(t) \/ (t \in Waiters /\ Leave(t))
    \/ (t \in Waiters /\ \E d \in BOOLEAN : wait(t, d))
    \/ Unlock(t) \/ set_blocked_futex(t) \/ FutexWait(t) \/ FutexTimeout(t)
    \/ clear_blocked_futex(t) \/ check_cancellation(t)
    \/ AddItem(t) \/ BumpSeq(t) \/ signal(t) \/ broadcast(t)
    \/ CancelLook(t) \/ CancelKick(t)

Next ==
    \E t \in Threads :
        \/ EnterLock(t) \/ Progress(t) \/ FutexInterrupt(t)
        \/ \E w \in Waiters : pthread_cancel(t, w)
        \/ \E new \in {"enable", "disable"} : pthread_setcancelstate(t, new)

Spec == Init /\ [][Next]_condvarVars

(* Threads inside a call keep running and deadlines pass.  Calls in are    *)
(* not obligatory.                                                         *)
Fairness == \A t \in Threads : WF_condvarVars(Progress(t))

FairSpec == Spec /\ Fairness
-----------------------------------------------------------------------------
(* Properties *)

TypeOK ==
    /\ holders \subseteq Threads /\ contending \subseteq Threads /\ bounded = {}
    /\ seq \in 0..(SeqMod - 1)
    /\ pc \in [Threads -> PCs]
    /\ current_seq \in [Waiters -> 0..(SeqMod - 1)]
    /\ timed \in [Waiters -> BOOLEAN] /\ timed_out \in [Waiters -> BOOLEAN]
    /\ blocked \in [Waiters -> BOOLEAN]
    /\ cancel_pending \in [Waiters -> BOOLEAN]
    /\ cancel_state \in [Waiters -> {"enable", "disable"}]
    /\ target \in [Cancellers -> Waiters \cup {"nobody"}]
    /\ added \in Nat /\ items \in 0..added

(* wait releases the mutex before it blocks and returns, times out and     *)
(* runs the cancellation hook only with the mutex re-acquired: a thread    *)
(* between its lock and its unlock, a wait included, shares the lock with  *)
(* nobody, and a thread blocked in the wait does not hold it.              *)
WaitReleasesAndRegains ==
    \A t \in Waiters :
        /\ pc[t] \in {"test", "unlock", "check", "done"} => holders = {t}
        /\ pc[t] \in {"publish", "wait", "sleep", "clear", "relock", "exit"} => t \notin holders

(* Whoever is asleep in the wait has published the futex, and whoever is   *)
(* past it has withdrawn it: pthread_cancel never misses a sleeper and     *)
(* never wakes a futex its target has stopped using.                       *)
SleepersPublished ==
    \A t \in Waiters : blocked[t] <=> pc[t] \in {"wait", "sleep", "clear"}

(* "This avoids lost wakeups": as long as no thread is being cancelled, an *)
(* item added and signalled is not left lying while a waiter sleeps for    *)
(* ever, wherever the signal falls in the waiter's unlock and wait.        *)
NoLostSignal ==
    \A t \in Waiters :
        ~<>[](items > 0 /\ pc[t] = "sleep" /\ \A u \in Waiters : ~cancel_pending[u])

(* "The thread will be cancelled at the next cancellation point": a thread *)
(* that is waiting on the condition variable with cancellation enabled     *)
(* when pthread_cancel is called does not go on sleeping for ever.         *)
CancelWakes ==
    \A t \in Waiters :
        ~<>[](pc[t] = "sleep" /\ cancel_pending[t] /\ cancel_state[t] = "enable")
=============================================================================
