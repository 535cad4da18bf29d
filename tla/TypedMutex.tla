----------------------------- MODULE TypedMutex -----------------------------
(***************************************************************************)
(* The typed mutex of substrate/sync.rs: NORMAL, RECURSIVE and ERRORCHECK  *)
(* bookkeeping (owner, count) around an inner futex lock, and the full     *)
(* release and re-acquisition a condition-variable wait performs.  The     *)
(* inner lock is the abstract Lock, which Mutex implements and             *)
(* lock_inner, lock_inner_timeout and unlock_inner copy.                   *)
(*                                                                         *)
(* One store to owner or count per step.  A thread's load of owner is      *)
(* merged with the step it decides: only the thread itself stores its own  *)
(* id there, so the comparison cannot change under it.                     *)
(***************************************************************************)
EXTENDS Lock, Integers

CONSTANTS NoOwner,   \* u64::MAX
          MaxDepth   \* bound on the recursion depth (2^32 - 1 in the code)

TypedMutexAssumption ==
    /\ NoOwner \notin Threads
    /\ MaxDepth \in Nat \ {0}

MUTEX_NORMAL == "NORMAL"

MUTEX_RECURSIVE == "RECURSIVE"

MUTEX_ERRORCHECK == "ERRORCHECK"

VARIABLES mutex_type, owner, count,
          pc,
          saved,   \* what condvar_unlock returned to the waiting thread
          depth    \* history: successful locks minus successful unlocks

typedVars == <<lockVars, mutex_type, owner, count, pc, saved, depth>>

(* idle; lock: in lock_inner or lock_inner_timeout; own, cnt: inner lock   *)
(* acquired, owner and count not yet stored; disown, zero, release: the    *)
(* final unlock's three steps; cvown, cvrel: condvar_unlock; cvwait:       *)
(* blocked on the condition variable; cvlock, cvset, cvcnt: condvar_relock *)
PCs == {"idle", "lock", "own", "cnt", "disown", "zero", "release",
        "cvown", "cvrel", "cvwait", "cvlock", "cvset", "cvcnt"}

CondvarPCs == {"cvown", "cvrel", "cvwait", "cvlock", "cvset", "cvcnt"}

Init ==
    /\ LockInit
    /\ mutex_type \in {MUTEX_NORMAL, MUTEX_RECURSIVE, MUTEX_ERRORCHECK}
    /\ owner = NoOwner
    /\ count = 0
    /\ pc = [t \in Threads |-> "idle"]
    /\ saved = [t \in Threads |-> 0]
    /\ depth = [t \in Threads |-> 0]

Goto(t, to) == pc' = [pc EXCEPT ![t] = to]

SetDepth(t, d) == depth' = [depth EXCEPT ![t] = d]

(* lock, try_lock, lock_timeout on a mutex this thread owns: a RECURSIVE   *)
(* one is counted up; an ERRORCHECK one answers TRONA_DEADLOCK or          *)
(* TRONA_BUSY and changes nothing.                                         *)
Reenter(t) ==
    /\ pc[t] = "idle"
    /\ mutex_type = MUTEX_RECURSIVE /\ owner = t
    /\ count < MaxDepth
    /\ count' = count + 1
    /\ SetDepth(t, depth[t] + 1)
    /\ UNCHANGED <<lockVars, mutex_type, owner, pc, saved>>

(* The entry test of the three lock functions.  A NORMAL mutex is not      *)
(* locked twice by its holder: that call never returns.                    *)
MayEnter(t) ==
    /\ pc[t] = "idle"
    /\ IF mutex_type = MUTEX_NORMAL THEN depth[t] = 0 ELSE owner # t

(* lock_inner or lock_inner_timeout finds the word taken. *)
Block(t) ==
    /\ MayEnter(t)
    /\ holders # {}
    /\ Contend(t)
    /\ Goto(t, "lock")
    /\ UNCHANGED <<mutex_type, owner, count, saved, depth>>

Acquired(t) ==
    /\ Acquire(t)
    /\ IF mutex_type = MUTEX_NORMAL
       THEN Goto(t, "idle") /\ SetDepth(t, 1)
       ELSE Goto(t, "own") /\ UNCHANGED depth
    /\ UNCHANGED <<mutex_type, owner, count, saved>>

(* try_lock, or a lock that did not have to wait. *)
LockFree(t) == MayEnter(t) /\ Acquired(t)

LockGranted(t) == pc[t] = "lock" /\ Acquired(t)

(* TRONA_TIMED_OUT. *)
TimeOut(t) ==
    /\ pc[t] = "lock"
    /\ GiveUp(t)
    /\ Goto(t, "idle")
    /\ UNCHANGED <<mutex_type, owner, count, saved, depth>>

StoreOwner(t) ==
    /\ pc[t] = "own"
    /\ owner' = t
    /\ IF mutex_type = MUTEX_RECURSIVE
       THEN Goto(t, "cnt") /\ UNCHANGED depth
       ELSE Goto(t, "idle") /\ SetDepth(t, 1)
    /\ UNCHANGED <<lockVars, mutex_type, count, saved>>

StoreCount(t) ==
    /\ pc[t] = "cnt"
    /\ count' = 1
    /\ Goto(t, "idle")
    /\ SetDepth(t, 1)
    /\ UNCHANGED <<lockVars, mutex_type, owner, saved>>

-----------------------------------------------------------------------------

(* unlock.  Called by a thread that is not the owner it answers            *)
(* TRONA_INVALID_OPERATION and changes nothing (RECURSIVE, ERRORCHECK);    *)
(* a NORMAL mutex is unlocked by its holder.                               *)
unlock(t) ==
    /\ pc[t] = "idle"
    /\ \/ /\ mutex_type = MUTEX_RECURSIVE /\ owner = t
          /\ count' = count - 1
          /\ SetDepth(t, depth[t] - 1)
          /\ Goto(t, IF count <= 1 THEN "disown" ELSE "idle")
       \/ /\ mutex_type = MUTEX_ERRORCHECK /\ owner = t
          /\ SetDepth(t, 0) /\ Goto(t, "disown") /\ UNCHANGED count
       \/ /\ mutex_type = MUTEX_NORMAL /\ depth[t] > 0
          /\ SetDepth(t, 0) /\ Goto(t, "release") /\ UNCHANGED count
    /\ UNCHANGED <<lockVars, mutex_type, owner, saved>>

Disown(t) ==
    /\ pc[t] = "disown"
    /\ owner' = NoOwner
    /\ Goto(t, IF mutex_type = MUTEX_RECURSIVE THEN "zero" ELSE "release")
    /\ UNCHANGED <<lockVars, mutex_type, count, saved, depth>>

ZeroCount(t) ==
    /\ pc[t] = "zero"
    /\ count' = 0
    /\ Goto(t, "release")
    /\ UNCHANGED <<lockVars, mutex_type, owner, saved, depth>>

UnlockInner(t) ==
    /\ pc[t] = "release"
    /\ Release(t)
    /\ Goto(t, "idle")
    /\ UNCHANGED <<mutex_type, owner, count, saved, depth>>

-----------------------------------------------------------------------------
(* Condvar::wait_typed and wait_timeout_typed: condvar_unlock, the wait,   *)
(* condvar_relock.  Called by a non-owner, condvar_unlock returns 0 and    *)
(* the wait is skipped.                                                    *)
condvar_unlock(t) ==
    /\ pc[t] = "idle"
    /\ \/ /\ mutex_type = MUTEX_RECURSIVE /\ owner = t
          /\ saved' = [saved EXCEPT ![t] = count]
          /\ count' = 0
          /\ Goto(t, "cvown")
       \/ /\ mutex_type = MUTEX_ERRORCHECK /\ owner = t
          /\ saved' = [saved EXCEPT ![t] = 1]
          /\ Goto(t, "cvown") /\ UNCHANGED count
       \/ /\ mutex_type = MUTEX_NORMAL /\ depth[t] > 0
          /\ saved' = [saved EXCEPT ![t] = 1]
          /\ Goto(t, "cvrel") /\ UNCHANGED count
    /\ UNCHANGED <<lockVars, mutex_type, owner, depth>>

CondvarDisown(t) ==
    /\ pc[t] = "cvown"
    /\ owner' = NoOwner
    /\ Goto(t, "cvrel")
    /\ UNCHANGED <<lockVars, mutex_type, count, saved, depth>>

CondvarRelease(t) ==
    /\ pc[t] = "cvrel"
    /\ Release(t)
    /\ Goto(t, "cvwait")
    /\ UNCHANGED <<mutex_type, owner, count, saved, depth>>

(* The wait is over; lock_inner, which has no deadline. *)
condvar_relock(t) ==
    /\ pc[t] = "cvwait"
    /\ Contend(t) /\ t \in contending'
    /\ Goto(t, "cvlock")
    /\ UNCHANGED <<mutex_type, owner, count, saved, depth>>

CondvarGranted(t) ==
    /\ pc[t] = "cvlock"
    /\ Acquire(t)
    /\ Goto(t, "cvset")
    /\ UNCHANGED <<mutex_type, owner, count, saved, depth>>

(* The owner is stored for every type, a NORMAL mutex included. *)
CondvarOwner(t) ==
    /\ pc[t] = "cvset"
    /\ owner' = t
    /\ Goto(t, IF mutex_type = MUTEX_RECURSIVE THEN "cvcnt" ELSE "idle")
    /\ UNCHANGED <<lockVars, mutex_type, count, saved, depth>>

(* Mistaken form: the depth comes back as 1. *)
CondvarCountOne(t) ==
    /\ pc[t] = "cvcnt"
    /\ count' = 1
    /\ Goto(t, "idle")
    /\ UNCHANGED <<lockVars, mutex_type, owner, saved, depth>>

CondvarCount(t) ==
    /\ pc[t] = "cvcnt"
    /\ count' = saved[t]
    /\ Goto(t, "idle")
    /\ UNCHANGED <<lockVars, mutex_type, owner, saved, depth>>

-----------------------------------------------------------------------------
Next ==
    \E t \in Threads :
        \/ Reenter(t) \/ Block(t) \/ LockFree(t) \/ LockGranted(t) \/ TimeOut(t)
        \/ StoreOwner(t) \/ StoreCount(t)
        \/ unlock(t) \/ Disown(t) \/ ZeroCount(t) \/ UnlockInner(t)
        \/ condvar_unlock(t) \/ CondvarDisown(t) \/ CondvarRelease(t)
        \/ condvar_relock(t) \/ CondvarGranted(t) \/ CondvarOwner(t) \/ CondvarCount(t)

Spec == Init /\ [][Next]_typedVars
-----------------------------------------------------------------------------
(* Properties *)

TypeOK ==
    /\ holders \subseteq Threads /\ contending \subseteq Threads /\ bounded \subseteq Threads
    /\ mutex_type \in {MUTEX_NORMAL, MUTEX_RECURSIVE, MUTEX_ERRORCHECK}
    /\ owner \in Threads \cup {NoOwner}
    /\ count \in 0..MaxDepth
    /\ pc \in [Threads -> PCs]
    /\ saved \in [Threads -> 0..MaxDepth]
    /\ depth \in [Threads -> 0..MaxDepth]

(* The threads that, by the results their calls returned, own the mutex:   *)
(* more successful locks than unlocks, and not inside a condvar wait.      *)
Entitled == {t \in Threads : depth[t] > 0 /\ pc[t] \notin CondvarPCs}

(* However locks, re-entries, unlocks, timeouts and condvar waits mix, at  *)
(* most one thread is entitled, and it is the holder of the inner lock:    *)
(* the counted unlocks never release the futex early.                      *)
EntitledIsHolder == \A t \in Entitled : holders = {t}

(* The owner field of a RECURSIVE or ERRORCHECK mutex names the holder of  *)
(* the inner lock or nobody: lock never takes another thread's lock for a  *)
(* re-entry, and unlock never refuses the thread that holds it.            *)
OwnerIsHolder ==
    mutex_type # MUTEX_NORMAL =>
        /\ owner # NoOwner => holders = {owner}
        /\ \A t \in Entitled : owner = t

(* count is the number of unlocks the owner still owes, before and after a *)
(* condvar wait: condvar_relock restores what condvar_unlock saved.        *)
CountIsDepth ==
    mutex_type = MUTEX_RECURSIVE =>
        /\ \A t \in Entitled : count = depth[t]
        /\ \A t \in Threads : pc[t] \in CondvarPCs => saved[t] = depth[t]

(* The inner lock is not leaked: when every thread is idle and owes no     *)
(* unlock, the lock is free.                                               *)
NotLeaked ==
    (\A t \in Threads : pc[t] = "idle" /\ depth[t] = 0) => holders = {}
=============================================================================
