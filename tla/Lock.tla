-------------------------------- MODULE Lock --------------------------------
(***************************************************************************)
(* What a mutual-exclusion lock of substrate/sync.rs promises its callers, *)
(* with no word about the futex that implements it: a thread asks for the  *)
(* lock, is granted it only when nobody holds it, and only a caller that   *)
(* gave a deadline may go away without it.  Mutex is shown to implement    *)
(* this module; Condvar is built on it.                                    *)
(***************************************************************************)
CONSTANT Threads

VARIABLES holders,     \* the threads inside the critical section
          contending,  \* the threads blocked in lock()
          bounded      \* the threads blocked in lock_timeout()

lockVars == <<holders, contending, bounded>>

LockInit ==
    /\ holders = {}
    /\ contending = {}
    /\ bounded = {}

(* A blocking call has found the lock taken. *)
Contend(t) ==
    /\ t \notin holders \cup contending \cup bounded
    /\ \/ contending' = contending \cup {t} /\ UNCHANGED bounded
       \/ bounded' = bounded \cup {t} /\ UNCHANGED contending
    /\ UNCHANGED holders

(* The lock is granted, to a thread that waited or to one that did not. *)
Acquire(t) ==
    /\ holders = {}
    /\ holders' = {t}
    /\ contending' = contending \ {t}
    /\ bounded' = bounded \ {t}

(* Only a call with a deadline returns empty-handed. *)
GiveUp(t) ==
    /\ t \in bounded
    /\ bounded' = bounded \ {t}
    /\ UNCHANGED <<holders, contending>>

Release(t) ==
    /\ t \in holders
    /\ holders' = holders \ {t}
    /\ UNCHANGED <<contending, bounded>>

LockNext == \E t \in Threads : Contend(t) \/ Acquire(t) \/ GiveUp(t) \/ Release(t)

LockSpec == LockInit /\ [][LockNext]_lockVars
=============================================================================
