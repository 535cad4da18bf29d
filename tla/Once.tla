-------------------------------- MODULE Once --------------------------------
(***************************************************************************)
(* Once::call_once of substrate/sync.rs: the first caller runs f, every    *)
(* concurrent caller blocks on the futex word until f has returned, later  *)
(* callers return at once.  One atomic access to the word per step; the    *)
(* kernel's futex is external, as in Mutex.                                *)
(***************************************************************************)
EXTENDS Integers

CONSTANT Threads

VARIABLES state,   \* ONCE_UNINIT, ONCE_RUNNING or ONCE_COMPLETE
          pc,
          started, \* history: the threads that entered f
          ended    \* history: the threads whose f returned

onceVars == <<state, pc, started, ended>>

ONCE_UNINIT == 0

ONCE_RUNNING == 1

ONCE_COMPLETE == 2

(* out: not called yet; cas: word seen UNINIT, CAS not yet tried; run: in  *)
(* f; store: f returned; wakeall: word set, waiters not yet woken; load:   *)
(* top of the wait loop; wait: word seen incomplete, about to futex_wait;  *)
(* sleep: asleep in the kernel; ret: call_once has returned.               *)
PCs == {"out", "cas", "run", "store", "wakeall", "load", "wait", "sleep", "ret"}

Init ==
    /\ state = ONCE_UNINIT
    /\ pc = [t \in Threads |-> "out"]
    /\ started = {}
    /\ ended = {}

Goto(t, to) == pc' = [pc EXCEPT ![t] = to]

(* The match on the first load. *)
call_once(t) ==
    /\ pc[t] = "out"
    /\ Goto(t, CASE state = ONCE_COMPLETE -> "ret"
                 [] state = ONCE_UNINIT -> "cas"
                 [] OTHER -> "load")
    /\ UNCHANGED <<state, started, ended>>

(* Mistaken form: a load and a store in place of the CAS. *)
TryRunStores(t) ==
    /\ pc[t] = "cas"
    /\ state' = ONCE_RUNNING /\ Goto(t, "run") /\ started' = started \cup {t}
    /\ UNCHANGED ended

(* compare_exchange(UNINIT, RUNNING); the loser joins the wait loop. *)
TryRun(t) ==
    /\ pc[t] = "cas"
    /\ IF state = ONCE_UNINIT
       THEN state' = ONCE_RUNNING /\ Goto(t, "run") /\ started' = started \cup {t}
       ELSE Goto(t, "load") /\ UNCHANGED <<state, started>>
    /\ UNCHANGED ended

(* f returns.  The code runs it without any bound on its duration. *)
FReturns(t) ==
    /\ pc[t] = "run"
    /\ Goto(t, "store")
    /\ ended' = ended \cup {t}
    /\ UNCHANGED <<state, started>>

Complete(t) ==
    /\ pc[t] = "store"
    /\ state' = ONCE_COMPLETE
    /\ Goto(t, "wakeall")
    /\ UNCHANGED <<started, ended>>

(* Mistaken form: futex_wake(word, 1). *)
WakeAllWakesOne(t) ==
    /\ pc[t] = "wakeall"
    /\ \/ Goto(t, "ret")
       \/ \E u \in Threads : pc[u] = "sleep" /\ pc' = [pc EXCEPT ![t] = "ret", ![u] = "load"]
    /\ UNCHANGED <<state, started, ended>>

(* futex_wake(word, u32::MAX), then return. *)
WakeAll(t) ==
    /\ pc[t] = "wakeall"
    /\ pc' = [u \in Threads |-> IF u = t THEN "ret"
                                ELSE IF pc[u] = "sleep" THEN "load" ELSE pc[u]]
    /\ UNCHANGED <<state, started, ended>>

WaitLoad(t) ==
    /\ pc[t] = "load"
    /\ Goto(t, IF state = ONCE_COMPLETE THEN "ret" ELSE "wait")
    /\ UNCHANGED <<state, started, ended>>

(* futex_wait(word, RUNNING). *)
FutexWait(t) ==
    /\ pc[t] = "wait"
    /\ Goto(t, IF state = ONCE_RUNNING THEN "sleep" ELSE "load")
    /\ UNCHANGED <<state, started, ended>>

FutexInterrupt(t) ==
    /\ pc[t] = "sleep"
    /\ Goto(t, "load")
    /\ UNCHANGED <<state, started, ended>>

Progress(t) ==
    \/ TryRun(t) \/ FReturns(t) \/ Complete(t) \/ WakeAll(t)
    \/ WaitLoad(t) \/ FutexWait(t)

Next == \E t \in Threads : call_once(t) \/ Progress(t) \/ FutexInterrupt(t)

Spec == Init /\ [][Next]_onceVars

(* Threads inside call_once keep running, and f terminates. *)
Fairness == \A t \in Threads : WF_onceVars(Progress(t))
-----------------------------------------------------------------------------
(* Properties *)

TypeOK ==
    /\ state \in {ONCE_UNINIT, ONCE_RUNNING, ONCE_COMPLETE}
    /\ pc \in [Threads -> PCs]
    /\ started \subseteq Threads
    /\ ended \subseteq Threads

(* "Execute a closure exactly once, even across multiple threads": no two  *)
(* threads ever enter f, however their loads and CASes interleave.         *)
RunsOnce == \A t, u \in started : t = u

(* "Concurrent callers block until the first caller's f returns": whoever  *)
(* has returned from call_once finds f finished, not merely started.       *)
ReturnsAfterF == \A t \in Threads : pc[t] = "ret" => ended # {} /\ started = ended

(* A caller that goes to sleep on the word is roused: every thread that    *)
(* called call_once returns, given that f does; none stays inside for ever. *)
EveryCallReturns == \A t \in Threads : ~<>[](pc[t] \notin {"out", "ret"})

(* Why the properties hold: the word names the phase that f is in, the one *)
(* thread that won the CAS is where the phase says, and a sleeper is       *)
(* asleep only while that thread has yet to wake everybody.                *)
OnceInv ==
    /\ RunsOnce
    /\ ended \subseteq started
    /\ \A t \in Threads : pc[t] \in {"run", "store", "wakeall"} => t \in started
    /\ \A t \in Threads : pc[t] = "run" => ended = {} /\ state = ONCE_RUNNING
    /\ \A t \in Threads : pc[t] = "store" => started = ended /\ state = ONCE_RUNNING
    /\ state = ONCE_UNINIT <=> started = {}
    /\ state = ONCE_RUNNING => \E t \in Threads : pc[t] \in {"run", "store"}
    /\ state = ONCE_COMPLETE => ended # {} /\ started = ended
    /\ \A t \in Threads : pc[t] \in {"ret", "wakeall"} => state = ONCE_COMPLETE
    /\ \A t \in Threads : pc[t] \in {"load", "wait", "sleep"} => state # ONCE_UNINIT
    /\ \A t \in Threads : pc[t] = "sleep" =>
           \E u \in Threads : pc[u] \in {"run", "store", "wakeall"}
=============================================================================
