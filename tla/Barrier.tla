------------------------------ MODULE Barrier -------------------------------
(***************************************************************************)
(* The thread barrier of substrate/sync.rs: wait, one atomic access to     *)
(* `waiting` or to the futex word `phase` per step.  The number of threads *)
(* that share the barrier is a parameter beside `count`, because the code  *)
(* behaves differently when it exceeds count.                              *)
(***************************************************************************)
EXTENDS Integers, FiniteSets

CONSTANTS Threads,    \* the threads that use the barrier
          count,      \* Barrier::count
          PhaseMod,   \* 2^32 in the code: phase is a u32 that wraps
          MaxArrivals \* bound on calls of wait

BarrierAssumption ==
    /\ count \in Nat \ {0}
    /\ PhaseMod \in Nat \ {0, 1}
    /\ MaxArrivals \in Nat

VARIABLES waiting,   \* Barrier::waiting
          phase,     \* Barrier::phase, the futex word
          pc,
          myphase,   \* the local `phase` of the call in progress
          arrivals,  \* history: number of fetch_adds so far
          ticket,    \* history: the number of this thread's fetch_add
          leaders    \* history: tickets for which wait returned true

barrierVars == <<waiting, phase, pc, myphase, arrivals, ticket, leaders>>

(* out: not in wait; arrive: phase loaded; reset, advance, wakeall: the    *)
(* last arrival's three steps; wait: about to futex_wait; sleep: asleep;   *)
(* check: about to compare the phase.                                      *)
PCs == {"out", "arrive", "reset", "advance", "wakeall", "wait", "sleep", "check"}

Init ==
    /\ waiting = 0
    /\ phase = 0
    /\ pc = [t \in Threads |-> "out"]
    /\ myphase = [t \in Threads |-> 0]
    /\ arrivals = 0
    /\ ticket = [t \in Threads |-> 0]
    /\ leaders = {}

Goto(t, to) == pc' = [pc EXCEPT ![t] = to]

(* wait: the phase is loaded before the arrival is counted. *)
wait(t) ==
    /\ pc[t] = "out"
    /\ arrivals + Cardinality({u \in Threads : pc[u] = "arrive"}) < MaxArrivals
    /\ myphase' = [myphase EXCEPT ![t] = phase]
    /\ Goto(t, "arrive")
    /\ UNCHANGED <<waiting, phase, arrivals, ticket, leaders>>

Arrive(t) ==
    /\ pc[t] = "arrive"
    /\ waiting' = waiting + 1
    /\ arrivals' = arrivals + 1
    /\ ticket' = [ticket EXCEPT ![t] = arrivals + 1]
    /\ Goto(t, IF waiting + 1 = count THEN "reset" ELSE "wait")
    /\ UNCHANGED <<phase, myphase, leaders>>

ResetWaiting(t) ==
    /\ pc[t] = "reset"
    /\ waiting' = 0
    /\ Goto(t, "advance")
    /\ UNCHANGED <<phase, myphase, arrivals, ticket, leaders>>

AdvancePhase(t) ==
    /\ pc[t] = "advance"
    /\ phase' = (phase + 1) % PhaseMod
    /\ Goto(t, "wakeall")
    /\ UNCHANGED <<waiting, myphase, arrivals, ticket, leaders>>

(* Mistaken form: futex_wake(phase, 1). *)
WakeAllWakesOne(t) ==
    /\ pc[t] = "wakeall"
    /\ \/ Goto(t, "out")
       \/ \E u \in Threads : pc[u] = "sleep" /\ pc' = [pc EXCEPT ![t] = "out", ![u] = "check"]
    /\ leaders' = leaders \cup {ticket[t]}
    /\ UNCHANGED <<waiting, phase, myphase, arrivals, ticket>>

(* futex_wake(phase, u32::MAX), and the leader returns true. *)
WakeAll(t) ==
    /\ pc[t] = "wakeall"
    /\ pc' = [u \in Threads |-> IF u = t THEN "out"
                                ELSE IF pc[u] = "sleep" THEN "check" ELSE pc[u]]
    /\ leaders' = leaders \cup {ticket[t]}
    /\ UNCHANGED <<waiting, phase, myphase, arrivals, ticket>>

FutexWait(t) ==
    /\ pc[t] = "wait"
    /\ Goto(t, IF phase = myphase[t] THEN "sleep" ELSE "check")
    /\ UNCHANGED <<waiting, phase, myphase, arrivals, ticket, leaders>>

FutexInterrupt(t) ==
    /\ pc[t] = "sleep"
    /\ Goto(t, "check")
    /\ UNCHANGED <<waiting, phase, myphase, arrivals, ticket, leaders>>

(* Mistaken form: a wait that returns is taken for the end of the phase. *)
CheckPhaseTrusts(t) ==
    /\ pc[t] = "check"
    /\ Goto(t, "out")
    /\ UNCHANGED <<waiting, phase, myphase, arrivals, ticket, leaders>>

(* The loop is left, and false returned, once the phase has changed. *)
CheckPhase(t) ==
    /\ pc[t] = "check"
    /\ Goto(t, IF phase # myphase[t] THEN "out" ELSE "wait")
    /\ UNCHANGED <<waiting, phase, myphase, arrivals, ticket, leaders>>

Progress(t) ==
    \/ Arrive(t) \/ ResetWaiting(t) \/ AdvancePhase(t) \/ WakeAll(t)
    \/ FutexWait(t) \/ CheckPhase(t)

Next == \E t \in Threads : wait(t) \/ Progress(t) \/ FutexInterrupt(t)

Spec == Init /\ [][Next]_barrierVars

Fairness == \A t \in Threads : WF_barrierVars(Progress(t))
-----------------------------------------------------------------------------
(* Properties *)

TypeOK ==
    /\ waiting \in 0..Cardinality(Threads)
    /\ phase \in 0..(PhaseMod - 1)
    /\ pc \in [Threads -> PCs]
    /\ myphase \in [Threads -> 0..(PhaseMod - 1)]
    /\ arrivals \in 0..MaxArrivals
    /\ ticket \in [Threads -> 0..MaxArrivals]
    /\ leaders \subseteq 1..MaxArrivals

(* The round an arrival belongs to: tickets 1..count are round 1, ... *)
Round(k) == (k + count - 1) \div count

(* The threads whose arrival has been counted and that have not left. *)
Inside == {t \in Threads : pc[t] \notin {"out", "arrive"}}

(* "Blocks threads until `count` threads have arrived": a thread that has  *)
(* left wait belongs to a round all of whose arrivals have been counted.   *)
LeavesOnlyWithRound ==
    \A t \in Threads :
        pc[t] = "out" /\ ticket[t] > 0 => arrivals >= count * Round(ticket[t])

(* "Returns true for exactly one thread": no round has two leaders, and a  *)
(* round none of whose members is still inside has had one.                *)
OneLeaderPerRound ==
    /\ \A k, m \in leaders : Round(k) = Round(m) => k = m
    /\ \A t \in Threads :
          pc[t] = "out" /\ ticket[t] > 0
             /\ (\A u \in Inside : Round(ticket[u]) # Round(ticket[t]))
          => \E k \in leaders : Round(k) = Round(ticket[t])

(* Nobody is left behind: once a round is complete, each of its members    *)
(* leaves, even if no thread ever calls wait again.                        *)
CompleteRoundLeaves ==
    \A t \in Threads :
        ~<>[](t \in Inside /\ arrivals >= count * Round(ticket[t]))
=============================================================================
