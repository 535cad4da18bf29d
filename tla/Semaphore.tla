----------------------------- MODULE Semaphore ------------------------------
(***************************************************************************)
(* The counting semaphore of substrate/sync.rs: init, wait, try_wait,      *)
(* wait_timeout and post, one atomic access to the count (which is the     *)
(* futex word) per step.  Waiters and posters are separate sets of threads *)
(* so that an instance can say how many of each there are.                 *)
(***************************************************************************)
EXTENDS Integers

CONSTANTS Waiters,        \* threads that call wait, try_wait, wait_timeout
          Posters,        \* threads that call post
          Initial,        \* the value the semaphore is created with
          InitValues,     \* the values init is called with
          SEM_VALUE_MAX,  \* i32::MAX in the code
          MaxPosts        \* bound on successful posts

SemaphoreAssumption ==
    /\ SEM_VALUE_MAX \in Nat \ {0}
    /\ Initial \in 0..SEM_VALUE_MAX
    /\ InitValues \subseteq Nat
    /\ MaxPosts \in Nat
    /\ Waiters \cap Posters = {}

Threads == Waiters \cup Posters

VARIABLES count,    \* the futex word
          pc,
          seen,     \* the local c (or c2) of the call in progress
          timed,    \* the call in progress is wait_timeout
          expired,  \* its deadline has passed
          base,     \* history: the value last set by new or init
          posts,    \* history: successful posts since then
          takes     \* history: successful waits since then

semVars == <<count, pc, seen, timed, expired, base, posts, takes>>

(* load: top of the wait loop; take: c > 0 seen, CAS next; clock: c = 0    *)
(* seen by a timed call, deadline check next; wait: about to futex_wait;   *)
(* sleep: asleep; last: last-chance load; lasttake: last-chance CAS;       *)
(* tryload, trytake: try_wait; pload, padd: post; wake: word raised from   *)
(* 0, futex_wake of one next; wakeall: init has stored, futex_wake of all  *)
(* next.                                                                   *)
WaitPCs == {"load", "take", "clock", "wait", "sleep", "last", "lasttake"}

PCs == {"idle", "tryload", "trytake", "pload", "padd", "wake", "wakeall"} \cup WaitPCs

Init ==
    /\ count = Initial
    /\ pc = [t \in Threads |-> "idle"]
    /\ seen = [t \in Threads |-> 0]
    /\ timed = [t \in Threads |-> FALSE]
    /\ expired = [t \in Threads |-> FALSE]
    /\ base = Initial
    /\ posts = 0
    /\ takes = 0

Goto(t, to) == pc' = [pc EXCEPT ![t] = to]

See(t) == seen' = [seen EXCEPT ![t] = count]

Sleepers == {t \in Waiters : pc[t] = "sleep"}

(* Mistaken form: a plain store of seen - 1. *)
DecrementStores(t, taken, failed) ==
    count' = seen[t] - 1 /\ takes' = takes + 1 /\ Goto(t, taken)

(* CAS(seen, seen - 1): the permit is taken, or the caller goes on. *)
Decrement(t, taken, failed) ==
    IF count = seen[t]
    THEN count' = count - 1 /\ takes' = takes + 1 /\ Goto(t, taken)
    ELSE Goto(t, failed) /\ UNCHANGED <<count, takes>>

-----------------------------------------------------------------------------
(* wait and wait_timeout.  The fast path of wait_timeout, tried before the *)
(* deadline is computed, is one more round of the same loop.               *)

wait(t) ==
    /\ pc[t] = "idle"
    /\ Goto(t, "load")
    /\ timed' = [timed EXCEPT ![t] = FALSE]
    /\ expired' = [expired EXCEPT ![t] = FALSE]
    /\ UNCHANGED <<count, seen, base, posts, takes>>

wait_timeout(t) ==
    /\ pc[t] = "idle"
    /\ Goto(t, "load")
    /\ timed' = [timed EXCEPT ![t] = TRUE]
    /\ expired' = [expired EXCEPT ![t] = FALSE]
    /\ UNCHANGED <<count, seen, base, posts, takes>>

Load(t) ==
    /\ pc[t] = "load"
    /\ See(t)
    /\ Goto(t, IF count > 0 THEN "take" ELSE IF timed[t] THEN "clock" ELSE "wait")
    /\ UNCHANGED <<count, timed, expired, base, posts, takes>>

Take(t) ==
    /\ pc[t] = "take"
    /\ Decrement(t, "idle", "load")
    /\ UNCHANGED <<seen, timed, expired, base, posts>>

ReadClock(t) ==
    /\ pc[t] = "clock"
    /\ Goto(t, IF expired[t] THEN "last" ELSE "wait")
    /\ UNCHANGED <<count, seen, timed, expired, base, posts, takes>>

(* futex_wait(word, 0). *)
FutexWait(t) ==
    /\ pc[t] = "wait"
    /\ Goto(t, IF count = 0 THEN "sleep" ELSE "load")
    /\ UNCHANGED <<count, seen, timed, expired, base, posts, takes>>

Expire(t) ==
    /\ timed[t] /\ ~expired[t] /\ pc[t] \in WaitPCs
    /\ expired' = [expired EXCEPT ![t] = TRUE]
    /\ UNCHANGED <<count, pc, seen, timed, base, posts, takes>>

FutexTimeout(t) ==
    /\ pc[t] = "sleep" /\ timed[t] /\ expired[t]
    /\ Goto(t, "last")
    /\ UNCHANGED <<count, seen, timed, expired, base, posts, takes>>

LastLoad(t) ==
    /\ pc[t] = "last"
    /\ See(t)
    /\ Goto(t, IF count > 0 THEN "lasttake" ELSE "idle")
    /\ UNCHANGED <<count, timed, expired, base, posts, takes>>

LastTake(t) ==
    /\ pc[t] = "lasttake"
    /\ Decrement(t, "idle", "idle")
    /\ UNCHANGED <<seen, timed, expired, base, posts>>

-----------------------------------------------------------------------------
try_wait(t) ==
    /\ pc[t] = "idle"
    /\ Goto(t, "tryload")
    /\ UNCHANGED <<count, seen, timed, expired, base, posts, takes>>

TryLoad(t) ==
    /\ pc[t] = "tryload"
    /\ See(t)
    /\ Goto(t, IF count = 0 THEN "idle" ELSE "trytake")
    /\ UNCHANGED <<count, timed, expired, base, posts, takes>>

TryTake(t) ==
    /\ pc[t] = "trytake"
    /\ Decrement(t, "idle", "tryload")
    /\ UNCHANGED <<seen, timed, expired, base, posts>>

-----------------------------------------------------------------------------
post(t) ==
    /\ pc[t] = "idle"
    /\ posts < MaxPosts
    /\ Goto(t, "pload")
    /\ UNCHANGED <<count, seen, timed, expired, base, posts, takes>>

(* Mistaken form: no overflow check. *)
PostLoadUnchecked(t) ==
    /\ pc[t] = "pload"
    /\ See(t)
    /\ Goto(t, "padd")
    /\ UNCHANGED <<count, timed, expired, base, posts, takes>>

(* A post at the maximum returns -1 and changes nothing. *)
PostLoad(t) ==
    /\ pc[t] = "pload"
    /\ See(t)
    /\ Goto(t, IF count >= SEM_VALUE_MAX THEN "idle" ELSE "padd")
    /\ UNCHANGED <<count, timed, expired, base, posts, takes>>

(* Mistaken form: the wake is forgotten. *)
PostAddSilent(t) ==
    /\ pc[t] = "padd"
    /\ IF count = seen[t]
       THEN count' = count + 1 /\ posts' = posts + 1 /\ Goto(t, "idle")
       ELSE Goto(t, "pload") /\ UNCHANGED <<count, posts>>
    /\ UNCHANGED <<seen, timed, expired, base, takes>>

(* CAS(c, c + 1); the waker is called only when c was 0. *)
PostAdd(t) ==
    /\ pc[t] = "padd"
    /\ IF count = seen[t]
       THEN /\ count' = count + 1
            /\ posts' = posts + 1
            /\ Goto(t, IF seen[t] = 0 THEN "wake" ELSE "idle")
       ELSE Goto(t, "pload") /\ UNCHANGED <<count, posts>>
    /\ UNCHANGED <<seen, timed, expired, base, takes>>

FutexWake(t) ==
    /\ pc[t] = "wake"
    /\ \/ Sleepers = {} /\ Goto(t, "idle")
       \/ \E s \in Sleepers : pc' = [pc EXCEPT ![t] = "idle", ![s] = "load"]
    /\ UNCHANGED <<count, seen, timed, expired, base, posts, takes>>

-----------------------------------------------------------------------------
(* init: store the value, then wake everybody if it is positive.  A value  *)
(* above the maximum is refused with -1.                                   *)
init(t, value) ==
    /\ pc[t] = "idle"
    /\ value <= SEM_VALUE_MAX
    /\ count' = value
    /\ Goto(t, IF value > 0 THEN "wakeall" ELSE "idle")
    /\ base' = value /\ posts' = 0 /\ takes' = 0
    /\ UNCHANGED <<seen, timed, expired>>

FutexWakeAll(t) ==
    /\ pc[t] = "wakeall"
    /\ pc' = [u \in Threads |-> IF u = t THEN "idle"
                                ELSE IF u \in Sleepers THEN "load" ELSE pc[u]]
    /\ UNCHANGED <<count, seen, timed, expired, base, posts, takes>>

(* A signal ends the wait; every caller goes round its loop again. *)
FutexInterrupt(t) ==
    /\ pc[t] = "sleep"
    /\ Goto(t, "load")
    /\ UNCHANGED <<count, seen, timed, expired, base, posts, takes>>

-----------------------------------------------------------------------------
Progress(t) ==
    \/ Load(t) \/ Take(t) \/ ReadClock(t) \/ FutexWait(t) \/ LastLoad(t) \/ LastTake(t)
    \/ TryLoad(t) \/ TryTake(t) \/ PostLoad(t) \/ PostAdd(t) \/ FutexWake(t) \/ FutexWakeAll(t)

Timer(t) == Expire(t) \/ FutexTimeout(t)

Next ==
    \/ \E t \in Waiters : wait(t) \/ wait_timeout(t) \/ try_wait(t)
    \/ \E t \in Posters : post(t) \/ \E value \in InitValues : init(t, value)
    \/ \E t \in Threads : Progress(t) \/ Timer(t) \/ FutexInterrupt(t)

Spec == Init /\ [][Next]_semVars

(* A thread inside a call keeps running, the timer keeps ticking; nobody   *)
(* is obliged to make a call.                                              *)
Fairness == \A t \in Threads : WF_semVars(Progress(t)) /\ WF_semVars(Timer(t))

FairSpec == Spec /\ Fairness
-----------------------------------------------------------------------------
(* Properties *)

TypeOK ==
    /\ count \in 0..SEM_VALUE_MAX
    /\ pc \in [Threads -> PCs]
    /\ seen \in [Threads -> 0..SEM_VALUE_MAX]
    /\ timed \in [Threads -> BOOLEAN]
    /\ expired \in [Threads -> BOOLEAN]
    /\ base \in 0..SEM_VALUE_MAX
    /\ posts \in Nat
    /\ takes \in Nat

(* No permit is made up or lost: whatever the interleaving of the loads    *)
(* and the CASes of wait, try_wait, wait_timeout and post, the count is    *)
(* the value last set plus the successful posts minus the successful waits *)
(* since then.                                                             *)
PermitsConserved == count + takes = base + posts

(* wait_timeout comes back once its deadline passes.  The loop does not    *)
(* look at the clock after a failed CAS, so this is claimed for an         *)
(* instance in which only finitely many posts (MaxPosts) get in its way.   *)
TimedWaitReturns ==
    \A t \in Waiters : ~<>[](pc[t] \in WaitPCs /\ timed[t])

(* "Blocks if the count is zero": a caller of wait that sleeps is roused   *)
(* when permits are left for it.  It does not stay asleep for ever beside  *)
(* a count that stays positive.                                            *)
WaitTakesPermit ==
    \A t \in Waiters : ~<>[](pc[t] = "sleep" /\ count > 0)
=============================================================================
