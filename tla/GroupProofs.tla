----------------------------- MODULE GroupProofs ----------------------------
(***************************************************************************)
(* Proofs about the primitives of GroupLocks, for every set of threads and *)
(* every value of the other constants: Barrier and RWLock.                 *)
(***************************************************************************)
EXTENDS GroupLocks, FiniteSetTheorems, TLAPS

(* A leaf may take half a minute. *)
USE SMTT(120)

-----------------------------------------------------------------------------
(***************************************************************************)
(* Barrier: rounds are sound as long as no more than `count` threads share *)
(* the barrier.  Then nobody can arrive for a round before everybody has   *)
(* left the one before the last, so that one phase bit tells the members   *)
(* of the round being filled from those still leaving.  BarInv(k), for k   *)
(* completed rounds, says who is a member, who is leaving, which tickets   *)
(* they hold, and which leaders there have been.                           *)
(***************************************************************************)

(* The barrier is shared by at most count threads. *)
Shared == Bar!BarrierAssumption /\ IsFiniteSet(BarrierThreads) /\ Cardinality(BarrierThreads) <= BarrierCount

(* The tickets of the first k rounds. *)
Tickets(k) == BarrierCount * k

LastSteps == {"reset", "advance"}
WaitSteps == {"wait", "sleep", "check"}

(* The threads that have arrived for the round being filled. *)
Members == {t \in BarrierThreads : b_pc[t] \in WaitSteps \cup LastSteps /\ b_myphase[t] = b_phase}

Arriving == {t \in BarrierThreads : b_pc[t] = "arrive"}

BarTypes ==
    /\ b_waiting \in Nat /\ b_arrivals \in Nat
    /\ b_phase \in 0..(PhaseMod - 1)
    /\ b_pc \in [BarrierThreads -> Bar!PCs]
    /\ b_myphase \in [BarrierThreads -> 0..(PhaseMod - 1)]
    /\ b_ticket \in [BarrierThreads -> Nat]

(* The round being filled: the counter, and the step of its last arrival, *)
(* during which everybody is a member.                                    *)
Filling(k) ==
    /\ b_arrivals = Tickets(k) + Cardinality(Members)
    /\ b_waiting = IF \E t \in BarrierThreads : b_pc[t] = "advance" THEN 0 ELSE Cardinality(Members)
    /\ \A t \in BarrierThreads : b_pc[t] \in {"arrive"} \cup LastSteps => b_myphase[t] = b_phase
    /\ \A t \in BarrierThreads : b_pc[t] \in LastSteps =>
          /\ Members = BarrierThreads /\ Cardinality(Members) = BarrierCount
          /\ \A u \in BarrierThreads : b_pc[u] \in LastSteps => u = t

(* Who holds which tickets. *)
Ticketed(k) ==
    \A t \in BarrierThreads :
        /\ b_pc[t] \in {"out", "arrive"} => b_ticket[t] <= Tickets(k)
        /\ b_pc[t] \in WaitSteps /\ b_myphase[t] = b_phase => Tickets(k) < b_ticket[t] /\ b_ticket[t] <= b_arrivals
        /\ b_pc[t] \in LastSteps => b_ticket[t] = Tickets(k) + BarrierCount
        /\ b_pc[t] \in WaitSteps /\ b_myphase[t] # b_phase => b_ticket[t] <= Tickets(k)
        /\ b_pc[t] = "wakeall" => k > 0 /\ b_ticket[t] = Tickets(k)

(* Each completed round has had its leader, or the leader of the last one  *)
(* is about to return.                                                     *)
Led(k) ==
    /\ \A l \in b_leaders : \E j \in 1..k : l = Tickets(j)
    /\ \A j \in 1..k : Tickets(j) \in b_leaders \/ (j = k /\ \E t \in BarrierThreads : b_pc[t] = "wakeall")

(* The calls counted and those about to be counted stay below the bound. *)
Budgeted == b_arrivals + Cardinality(Arriving) <= MaxArrivals

BarInv(k) == k \in Nat /\ Shared /\ BarTypes /\ Filling(k) /\ Ticketed(k) /\ Led(k)

-----------------------------------------------------------------------------
(* Arithmetic of rounds. *)
LEMMA TicketsOrdered ==
    ASSUME Bar!BarrierAssumption, NEW k \in Nat
    PROVE  /\ Tickets(k) \in Nat /\ Tickets(0) = 0
           /\ Tickets(k + 1) = Tickets(k) + BarrierCount
           /\ \A j \in 0..k : Tickets(j) <= Tickets(k)
<1> USE DEF Bar!BarrierAssumption, Tickets
<1>1. Tickets(k) \in Nat /\ Tickets(0) = 0 /\ Tickets(k + 1) = Tickets(k) + BarrierCount
  OBVIOUS
<1>2. ASSUME NEW j \in 0..k PROVE Tickets(j) <= Tickets(k)
  <2>1. BarrierCount * k = BarrierCount * j + BarrierCount * (k - j)
    OBVIOUS
  <2>2. BarrierCount * (k - j) >= 0
    OBVIOUS
  <2>3. QED
    BY <2>1, <2>2
<1>3. QED
  BY Zenon, <1>1, <1>2

(* The round of a ticket. *)
LEMMA RoundOfTicket ==
    ASSUME Bar!BarrierAssumption, NEW k \in Nat, NEW x \in Nat,
           Tickets(k) < x, x <= Tickets(k) + BarrierCount
    PROVE  Bar!Round(x) = k + 1
<1> USE DEF Bar!BarrierAssumption
<1> DEFINE y == x + BarrierCount - 1
<1>1. y = BarrierCount * (k + 1) + (x - Tickets(k) - 1) /\ x - Tickets(k) - 1 \in 0..(BarrierCount - 1)
  BY DEF Tickets
<1>2. y \in Nat /\ y \div BarrierCount \in Nat /\ y = BarrierCount * (y \div BarrierCount) + (y % BarrierCount) /\ y % BarrierCount \in 0..(BarrierCount - 1)
  OBVIOUS
<1>3. y \div BarrierCount = k + 1
  BY <1>1, <1>2
<1>4. QED
  BY Zenon, <1>3 DEF Bar!Round

(* The operators of FiniteSets that Barrier counts with. *)
LEMMA BarCounts ==
    \A S : Bar!Cardinality(S) = Cardinality(S) /\ (Bar!IsFiniteSet(S) <=> IsFiniteSet(S))
BY Zenon DEF Bar!Cardinality, Cardinality, Bar!IsFiniteSet, IsFiniteSet

(* Members and arriving threads are finitely many, at most count. *)
LEMMA BarCounting ==
    ASSUME Shared, NEW t \in BarrierThreads, NEW S \in SUBSET BarrierThreads
    PROVE  /\ IsFiniteSet(S) /\ Cardinality(S) \in Nat /\ Cardinality(S) <= BarrierCount
           /\ t \notin S => Cardinality(S \cup {t}) = Cardinality(S) + 1
           /\ Cardinality(S) = BarrierCount => S = BarrierThreads
           /\ Cardinality({}) = 0
<1>1. IsFiniteSet(BarrierThreads) /\ Cardinality(BarrierThreads) \in Nat /\ Cardinality(BarrierThreads) <= BarrierCount /\ BarrierCount \in Nat
  BY Zenon, FS_CardinalityType DEF Shared, Bar!BarrierAssumption
<1>2. IsFiniteSet(S) /\ Cardinality(S) <= Cardinality(BarrierThreads) /\ (Cardinality(S) = Cardinality(BarrierThreads) => S = BarrierThreads)
  BY Zenon, <1>1, FS_Subset
<1>3. Cardinality(S) \in Nat /\ Cardinality({}) = 0 /\ (t \notin S => Cardinality(S \cup {t}) = Cardinality(S) + 1)
  BY Zenon, <1>2, FS_CardinalityType, FS_AddElement, FS_EmptySet
<1>4. QED
  BY <1>1, <1>2, <1>3

(* wait, and the futex calls of threads that have to go on waiting. *)
LEMMA BarMoves ==
    ASSUME NEW k, BarInv(k), NEW t \in BarrierThreads, Bar!wait(t) \/ Bar!FutexWait(t) \/ Bar!FutexInterrupt(t) \/ Bar!CheckPhase(t)
    PROVE  BarInv(k)'
<1> USE DEF BarInv, BarTypes, WaitSteps, LastSteps, Bar!PCs, Bar!Goto, Bar!BarrierAssumption
<1>1. UNCHANGED <<b_waiting, b_phase, b_arrivals, b_ticket, b_leaders>>
  BY Zenon DEF Bar!wait, Bar!FutexWait, Bar!FutexInterrupt, Bar!CheckPhase
<1>2. BarTypes'
  BY ZenonT(60), <1>1 DEF Bar!wait, Bar!FutexWait, Bar!FutexInterrupt, Bar!CheckPhase, Shared
<1>3. Members' = Members
  BY Zenon, <1>1 DEF Bar!wait, Bar!FutexWait, Bar!FutexInterrupt, Bar!CheckPhase, Members
<1>4. \A u \in BarrierThreads : b_pc'[u] \in {"advance", "reset", "wakeall"} <=> b_pc[u] \in {"advance", "reset", "wakeall"}
  BY ZenonT(60), <1>1 DEF Bar!wait, Bar!FutexWait, Bar!FutexInterrupt, Bar!CheckPhase
<1>5. \A u \in BarrierThreads : b_pc'[u] \in {"advance", "reset", "wakeall"} => b_pc'[u] = b_pc[u] /\ b_myphase'[u] = b_myphase[u]
  BY Zenon, <1>1 DEF Bar!wait, Bar!FutexWait, Bar!FutexInterrupt, Bar!CheckPhase
<1>6. Filling(k)'
  <2>1. \A u \in BarrierThreads : b_pc'[u] \in {"arrive"} \cup LastSteps => b_myphase'[u] = b_phase'
    BY ZenonT(60), <1>1 DEF Filling, Bar!wait, Bar!FutexWait, Bar!FutexInterrupt, Bar!CheckPhase
  <2>2. QED
    BY Zenon, <1>1, <1>3, <1>4, <1>5, <2>1 DEF Filling, Tickets
<1>7. Ticketed(k)'
  BY <1>1 DEF Ticketed, Tickets, Bar!wait, Bar!FutexWait, Bar!FutexInterrupt, Bar!CheckPhase
<1>8. Led(k)'
  BY Zenon, <1>1, <1>4, <1>5 DEF Led, Tickets
<1>9. QED
  BY Zenon, <1>2, <1>6, <1>7, <1>8 DEF Shared

(* The arrival: one member more, and with the last one all are members. *)
LEMMA BarArrives ==
    ASSUME NEW k, BarInv(k), NEW t \in BarrierThreads, Bar!Arrive(t)
    PROVE  BarInv(k)'
<1> USE DEF BarInv, BarTypes, WaitSteps, LastSteps, Bar!PCs, Bar!Goto, Bar!BarrierAssumption
<1>1. t \notin Members /\ Members \in SUBSET BarrierThreads /\ (Members \cup {t}) \in SUBSET BarrierThreads
  BY Zenon DEF Bar!Arrive, Members
<1>2. \A u \in BarrierThreads : b_pc[u] \notin LastSteps
  BY Zenon, <1>1 DEF Filling
<1>3. b_waiting = Cardinality(Members) /\ Cardinality(Members \cup {t}) = b_waiting + 1 /\ b_myphase[t] = b_phase
  BY ZenonT(60), <1>1, <1>2, BarCounting DEF Filling, Bar!Arrive
<1>4. Members' = Members \cup {t}
  BY Zenon, <1>3 DEF Members, Bar!Arrive
<1>5. Tickets(k) \in Nat /\ b_arrivals = Tickets(k) + b_waiting /\ BarrierCount \in Nat /\ b_waiting + 1 <= BarrierCount
  BY ZenonT(60), <1>1, <1>3, TicketsOrdered, BarCounting DEF Filling, Shared
<1>6. Filling(k)'
  <2>1. CASE b_waiting + 1 = BarrierCount
    <3>1. Members' = BarrierThreads
      BY ZenonT(60), <1>1, <1>3, <1>4, <2>1, BarCounting
    <3>2. \A u \in BarrierThreads : b_pc'[u] \in LastSteps <=> u = t
      BY Zenon, <1>2, <2>1 DEF Bar!Arrive
    <3>3. \A u \in BarrierThreads : b_pc'[u] # "advance"
      BY Zenon, <1>2, <2>1 DEF Bar!Arrive
    <3>4. b_arrivals' = Tickets(k) + Cardinality(Members') /\ b_waiting' = Cardinality(Members')
      BY <1>3, <1>4, <1>5 DEF Bar!Arrive
    <3>5. \A u \in BarrierThreads : b_pc'[u] \in {"arrive"} \cup LastSteps => b_myphase'[u] = b_phase'
      BY Zenon, <1>3, <3>2 DEF Filling, Bar!Arrive
    <3>6. Cardinality(Members') = BarrierCount
      BY Zenon, <1>3, <1>4, <2>1
    <3>7. QED
      BY Zenon, <3>1, <3>2, <3>3, <3>4, <3>5, <3>6 DEF Filling, Tickets
  <2>2. CASE b_waiting + 1 # BarrierCount
    <3>1. \A u \in BarrierThreads : b_pc'[u] \notin LastSteps
      BY Zenon, <1>2, <2>2 DEF Bar!Arrive
    <3>2. \A u \in BarrierThreads : b_pc'[u] = "arrive" => b_pc[u] = "arrive" /\ b_myphase'[u] = b_myphase[u]
      BY Zenon DEF Bar!Arrive
    <3>3. QED
      BY <1>3, <1>4, <1>5, <3>1, <3>2 DEF Filling, Bar!Arrive, Tickets
  <2>3. QED
    BY Zenon, <2>1, <2>2
<1>7. Ticketed(k)'
  BY <1>2, <1>3, <1>5 DEF Ticketed, Tickets, Bar!Arrive
<1>8. Led(k)'
  BY Zenon DEF Led, Tickets, Bar!Arrive
<1>9. BarTypes'
  BY DEF Bar!Arrive
<1>10. QED
  BY Zenon, <1>6, <1>7, <1>8, <1>9 DEF Shared

(* The last arrival resets the counter: nobody is outside to arrive. *)
LEMMA BarResets ==
    ASSUME NEW k, BarInv(k), NEW t \in BarrierThreads, Bar!ResetWaiting(t)
    PROVE  BarInv(k)'
<1> USE DEF BarInv, BarTypes, WaitSteps, LastSteps, Bar!PCs, Bar!Goto, Bar!BarrierAssumption
<1>1. Members' = Members
  BY Zenon DEF Bar!ResetWaiting, Members
<1>2. Filling(k)'
  BY Zenon, <1>1 DEF Filling, Bar!ResetWaiting, Tickets
<1>3. Ticketed(k)' /\ Led(k)' /\ BarTypes'
  BY Zenon DEF Ticketed, Led, Tickets, Bar!ResetWaiting
<1>4. QED
  BY Zenon, <1>2, <1>3 DEF Shared

(* The phase moves on: the members of the complete round become those that *)
(* are leaving, the last arrival its leader.                               *)
LEMMA BarAdvances ==
    ASSUME NEW k, BarInv(k), NEW t \in BarrierThreads, Bar!AdvancePhase(t)
    PROVE  BarInv(k + 1)'
<1> USE DEF BarInv, BarTypes, WaitSteps, LastSteps, Bar!PCs, Bar!Goto
<1>1. Members = BarrierThreads /\ \A u \in BarrierThreads : b_pc[u] \in LastSteps => u = t
  BY Zenon DEF Filling, Bar!AdvancePhase
<1>2. b_phase' # b_phase /\ b_phase' \in 0..(PhaseMod - 1)
  BY DEF Bar!AdvancePhase, Shared, Bar!BarrierAssumption
<1>3. \A u \in BarrierThreads : u # t => b_pc[u] \in WaitSteps /\ b_pc'[u] = b_pc[u] /\ b_myphase[u] = b_phase
  BY Zenon, <1>1 DEF Members, Bar!AdvancePhase
<1>4. b_pc'[t] = "wakeall" /\ UNCHANGED <<b_waiting, b_myphase, b_arrivals, b_ticket, b_leaders>>
  BY Zenon DEF Bar!AdvancePhase
<1>5. Members' = {}
  BY Zenon, <1>2, <1>3, <1>4 DEF Members
<1>6. Tickets(k + 1) = Tickets(k) + BarrierCount /\ Tickets(k) \in Nat /\ BarrierCount \in Nat
  BY Zenon, TicketsOrdered DEF Shared, Bar!BarrierAssumption
<1>7. Cardinality(Members) = BarrierCount /\ Cardinality({}) = 0 /\ b_waiting = 0 /\ b_arrivals = Tickets(k) + BarrierCount
  <2>1. b_waiting = 0 /\ b_arrivals = Tickets(k) + Cardinality(Members)
    BY Zenon DEF Filling, Bar!AdvancePhase
  <2>2. Cardinality(Members) = BarrierCount
    BY Zenon DEF Filling, Bar!AdvancePhase
  <2>3. Cardinality({}) = 0
    BY Zenon, BarCounting
  <2>4. QED
    BY Zenon, <2>1, <2>2, <2>3
<1>8. Filling(k + 1)'
  BY <1>3, <1>4, <1>5, <1>6, <1>7 DEF Filling, Tickets
<1>9. Ticketed(k + 1)'
  BY <1>2, <1>3, <1>4, <1>6, <1>7 DEF Ticketed, Tickets, Bar!AdvancePhase
<1>10. Led(k + 1)'
  <2>1. \A j \in 1..k : Tickets(j) \in b_leaders
    BY Zenon, <1>3 DEF Led, Bar!AdvancePhase
  <2>2. \A j \in 1..(k + 1) : j \in 1..k \/ j = k + 1
    OBVIOUS
  <2>3. \A j \in 1..k : j \in 1..(k + 1)
    OBVIOUS
  <2>4. \A l \in b_leaders : \E j \in 1..k : l = Tickets(j)
    BY Zenon DEF Led
  <2>5. QED
    BY Zenon, <1>4, <2>1, <2>2, <2>3, <2>4 DEF Led, Tickets
<1>11. BarTypes'
  BY Zenon, <1>2 DEF Bar!AdvancePhase, Shared, Bar!BarrierAssumption
<1>12. QED
  BY <1>8, <1>9, <1>10, <1>11 DEF Shared

(* The leader wakes the others and returns true. *)
LEMMA BarWakes ==
    ASSUME NEW k, BarInv(k), NEW t \in BarrierThreads, Bar!WakeAll(t)
    PROVE  BarInv(k)'
<1> USE DEF BarInv, BarTypes, WaitSteps, LastSteps, Bar!PCs, Bar!BarrierAssumption
<1>1. UNCHANGED <<b_waiting, b_phase, b_myphase, b_arrivals, b_ticket>> /\ BarTypes'
  BY Zenon DEF Bar!WakeAll
<1>2. \A u \in BarrierThreads : b_pc[u] \in {"arrive"} \cup LastSteps <=> b_pc'[u] \in {"arrive"} \cup LastSteps
  BY Zenon DEF Bar!WakeAll
<1>3. \A u \in BarrierThreads : b_pc'[u] \in {"arrive"} \cup LastSteps => b_pc'[u] = b_pc[u]
  BY Zenon DEF Bar!WakeAll
<1>4. \A u \in BarrierThreads : b_pc[u] \in WaitSteps <=> b_pc'[u] \in WaitSteps
  BY Zenon DEF Bar!WakeAll
<1>5. Members' = Members
  BY Zenon, <1>1, <1>2, <1>3, <1>4 DEF Members
<1>6. Filling(k)'
  BY Zenon, <1>1, <1>2, <1>3, <1>5 DEF Filling, Tickets
<1>7. Ticketed(k)'
  <2>1. b_ticket[t] <= Tickets(k) /\ b_pc'[t] = "out"
    BY TicketsOrdered DEF Ticketed, Bar!WakeAll, Shared
  <2>2. \A u \in BarrierThreads : u # t => (b_pc'[u] = b_pc[u] \/ (b_pc[u] = "sleep" /\ b_pc'[u] = "check"))
    BY Zenon DEF Bar!WakeAll
  <2>3. QED
    BY ZenonT(60), <1>1, <2>1, <2>2 DEF Ticketed, Tickets
<1>8. Led(k)'
  <2>1. b_leaders' = b_leaders \cup {Tickets(k)} /\ k \in 1..k
    BY DEF Ticketed, Bar!WakeAll
  <2>2. QED
    BY Zenon, <2>1 DEF Led, Tickets
<1>9. QED
  BY Zenon, <1>1, <1>6, <1>7, <1>8 DEF Shared

(* The bound on calls: a call claims its place before it is counted. *)
LEMMA BarBudget ==
    ASSUME NEW k, BarInv(k), Budgeted, [Bar!Next]_Bar!barrierVars
    PROVE  Budgeted'
<1> USE DEF BarInv, BarTypes, Bar!PCs, Bar!Goto
<1>1. CASE UNCHANGED Bar!barrierVars
  BY Zenon, <1>1 DEF Bar!barrierVars, Budgeted, Arriving
<1>2. ASSUME NEW t \in BarrierThreads, Bar!wait(t)
      PROVE  Budgeted'
  <2>1. Arriving' = Arriving \cup {t} /\ t \notin Arriving /\ Arriving \in SUBSET BarrierThreads
    BY Zenon, <1>2 DEF Bar!wait, Arriving
  <2>2. Cardinality(Arriving') = Cardinality(Arriving) + 1 /\ Cardinality(Arriving) \in Nat
    BY ZenonT(60), <2>1, BarCounting
  <2>3. QED
    BY <1>2, <2>2, BarCounts DEF Bar!wait, Budgeted, Arriving, Shared, Bar!BarrierAssumption
<1>3. ASSUME NEW t \in BarrierThreads, Bar!Arrive(t)
      PROVE  Budgeted'
  <2>1. Arriving = Arriving' \cup {t} /\ t \notin Arriving' /\ Arriving' \in SUBSET BarrierThreads
    BY Zenon, <1>3 DEF Bar!Arrive, Arriving
  <2>2. Cardinality(Arriving) = Cardinality(Arriving') + 1 /\ Cardinality(Arriving') \in Nat
    BY ZenonT(60), <2>1, BarCounting
  <2>3. QED
    BY <1>3, <2>2 DEF Bar!Arrive, Budgeted, Shared, Bar!BarrierAssumption
<1>4. ASSUME NEW t \in BarrierThreads,
             \/ Bar!ResetWaiting(t) \/ Bar!AdvancePhase(t) \/ Bar!WakeAll(t)
             \/ Bar!FutexWait(t) \/ Bar!FutexInterrupt(t) \/ Bar!CheckPhase(t)
      PROVE  Budgeted'
  <2>1. b_arrivals' = b_arrivals /\ Arriving' = Arriving
    BY Zenon, <1>4 DEF Bar!ResetWaiting, Bar!AdvancePhase, Bar!WakeAll, Bar!FutexWait, Bar!FutexInterrupt, Bar!CheckPhase, Arriving
  <2>2. QED
    BY Zenon, <2>1 DEF Budgeted
<1>5. QED
  BY Zenon, <1>1, <1>2, <1>3, <1>4 DEF Bar!Next, Bar!Progress

(* Every reachable state has completed some number of rounds k and is in   *)
(* BarInv(k): who is a member, who is leaving, with which tickets.         *)
THEOREM BarrierInvariant ==
    ASSUME Shared
    PROVE  Bar!Spec => [](Budgeted /\ \E k \in Nat : BarInv(k))
<1> DEFINE Inv == Budgeted /\ \E k \in Nat : BarInv(k)
<1>1. Bar!Init => Inv
  <2> SUFFICES ASSUME Bar!Init PROVE Inv
    OBVIOUS
  <2>1. Cardinality({}) = 0
    BY Zenon, FS_EmptySet
  <2>2. Members = {} /\ Arriving = {}
    BY Zenon DEF Bar!Init, Members, Arriving, WaitSteps, LastSteps
  <2>3. Tickets(0) = 0
    BY Zenon, TicketsOrdered DEF Shared
  <2>4. BarTypes
    BY DEF Bar!Init, BarTypes, Bar!PCs, Shared, Bar!BarrierAssumption
  <2>5. Filling(0) /\ Ticketed(0)
    BY <2>1, <2>2, <2>3 DEF Bar!Init, Filling, Ticketed, WaitSteps, LastSteps
  <2>6. Led(0)
    BY DEF Led, Bar!Init
  <2>7. Budgeted
    BY <2>1, <2>2 DEF Bar!Init, Budgeted, Shared, Bar!BarrierAssumption
  <2>8. QED
    BY Zenon, <2>4, <2>5, <2>6, <2>7 DEF BarInv
<1>2. Inv /\ [Bar!Next]_Bar!barrierVars => Inv'
  <2> SUFFICES ASSUME Inv, [Bar!Next]_Bar!barrierVars PROVE Inv'
    OBVIOUS
  <2>1. PICK k \in Nat : BarInv(k)
    OBVIOUS
  <2>2. Budgeted'
    BY Zenon, <2>1, BarBudget
  <2>3. BarInv(k)' \/ BarInv(k + 1)'
    <3>1. CASE UNCHANGED Bar!barrierVars
      BY ZenonT(60), <2>1, <3>1 DEF Bar!barrierVars, BarInv, BarTypes, Filling, Ticketed, Led, Members, Tickets, Shared
    <3>2. QED
      BY Zenon, <2>1, <3>1, BarMoves, BarArrives, BarResets, BarAdvances, BarWakes DEF Bar!Next, Bar!Progress
  <2>4. QED
    BY <2>2, <2>3
<1>3. QED
  BY <1>1, <1>2, PTL DEF Bar!Spec

(* A thread that has left wait belongs to a round all of whose arrivals    *)
(* have been counted (Barrier::wait, sync.rs), for every number of threads *)
(* up to count, every phase width and every number of calls.               *)
THEOREM BarrierRounds ==
    ASSUME Shared
    PROVE  Bar!Spec => [](Bar!LeavesOnlyWithRound /\ Bar!OneLeaderPerRound /\ Bar!TypeOK)
<1>1. ASSUME NEW k \in Nat, BarInv(k), NEW x \in Nat, x > 0, x <= Tickets(k)
      PROVE  \E j \in 1..k : Bar!Round(x) = j /\ Tickets(j - 1) < x /\ x <= Tickets(j)
  <2> USE DEF BarInv, Shared, Bar!BarrierAssumption
  <2> DEFINE q == (x - 1) \div BarrierCount
  <2>1. q \in Nat /\ x - 1 = BarrierCount * q + ((x - 1) % BarrierCount) /\ (x - 1) % BarrierCount \in 0..(BarrierCount - 1)
    BY <1>1
  <2> HIDE DEF q
  <2>2. Tickets(q) < x /\ x <= Tickets(q) + BarrierCount
    BY <1>1, <2>1 DEF Tickets
  <2>3. Bar!Round(x) = q + 1
    BY Zenon, <2>1, <2>2, <1>1, RoundOfTicket
  <2>4. q < k
    <3> SUFFICES ASSUME k <= q PROVE FALSE
      BY <2>1
    <3>1. Tickets(k) <= Tickets(q)
      BY <1>1, <2>1, TicketsOrdered
    <3>2. QED
      BY <1>1, <2>1, <2>2, <3>1, TicketsOrdered
  <2>5. Tickets(q + 1) = Tickets(q) + BarrierCount
    BY Zenon, <1>1, <2>1, TicketsOrdered
  <2>6. QED
    BY <1>1, <2>1, <2>2, <2>3, <2>4, <2>5
<1>2. ASSUME NEW k \in Nat, BarInv(k)
      PROVE  /\ b_arrivals >= Tickets(k)
             /\ \A t \in BarrierThreads : b_ticket[t] <= b_arrivals
             /\ \A t \in BarrierThreads : b_pc[t] = "out" => b_ticket[t] <= Tickets(k)
  <2> USE <1>2 DEF BarInv, BarTypes
  <2>1. Tickets(k) \in Nat
    BY Zenon, TicketsOrdered DEF Shared
  <2>2. Cardinality(Members) \in Nat
    BY Zenon, FS_CardinalityType, FS_Subset DEF Members, Shared
  <2>3. b_arrivals >= Tickets(k)
    BY <2>1, <2>2 DEF Filling
  <2> SUFFICES ASSUME NEW t \in BarrierThreads
               PROVE  b_ticket[t] <= b_arrivals /\ (b_pc[t] = "out" => b_ticket[t] <= Tickets(k))
    BY Zenon, <2>3
  <2>4. b_pc[t] \in LastSteps => b_arrivals = Tickets(k) + BarrierCount
    BY Zenon DEF Filling
  <2>5. b_ticket[t] <= b_arrivals
    BY <2>1, <2>3, <2>4 DEF Ticketed, Bar!PCs, WaitSteps, LastSteps, Shared, Bar!BarrierAssumption
  <2>6. QED
    BY Zenon, <2>3, <2>5 DEF Ticketed
<1>3. ASSUME NEW k \in Nat, BarInv(k)
      PROVE  Bar!LeavesOnlyWithRound
  <2> SUFFICES ASSUME NEW t \in BarrierThreads, b_pc[t] = "out", b_ticket[t] > 0
               PROVE  b_arrivals >= BarrierCount * Bar!Round(b_ticket[t])
    BY Zenon DEF Bar!LeavesOnlyWithRound
  <2>1. PICK j \in 1..k : Bar!Round(b_ticket[t]) = j
    BY Zenon, <1>1, <1>2, <1>3 DEF BarInv, BarTypes
  <2>2. Tickets(j) <= Tickets(k) /\ Tickets(j) \in Nat /\ Tickets(k) \in Nat
    BY SMTT(120), <1>3, TicketsOrdered DEF BarInv, Shared
  <2>3. QED
    BY <1>2, <1>3, <2>1, <2>2 DEF Tickets, BarInv, BarTypes
<1>4. ASSUME NEW k \in Nat, BarInv(k)
      PROVE  Bar!OneLeaderPerRound
  <2>1. ASSUME NEW j \in 1..k
        PROVE  Bar!Round(Tickets(j)) = j
    <3>1. Tickets(j - 1) \in Nat /\ Tickets(j) = Tickets(j - 1) + BarrierCount /\ j - 1 \in Nat /\ (j - 1) + 1 = j
      BY SMTT(120), <1>4, TicketsOrdered, j - 1 \in Nat, (j - 1) + 1 = j DEF BarInv, Shared
    <3>2. QED
      BY <1>4, <3>1, RoundOfTicket DEF BarInv, Shared, Bar!BarrierAssumption
  <2>2. \A a, b \in b_leaders : Bar!Round(a) = Bar!Round(b) => a = b
    BY ZenonT(60), <1>4, <2>1 DEF BarInv, Led
  <2>3. ASSUME NEW t \in BarrierThreads, b_pc[t] = "out", b_ticket[t] > 0,
               \A u \in Bar!Inside : Bar!Round(b_ticket[u]) # Bar!Round(b_ticket[t])
        PROVE  \E a \in b_leaders : Bar!Round(a) = Bar!Round(b_ticket[t])
    <3>1. PICK j \in 1..k : Bar!Round(b_ticket[t]) = j
      BY Zenon, <1>1, <1>2, <1>4, <2>3 DEF BarInv, BarTypes
    <3>2. CASE Tickets(j) \in b_leaders
      BY Zenon, <2>1, <3>1, <3>2
    <3>3. CASE Tickets(j) \notin b_leaders
      <4>1. PICK u \in BarrierThreads : b_pc[u] = "wakeall" /\ j = k
        BY Zenon, <1>4, <3>1, <3>3 DEF BarInv, Led
      <4>2. u \in Bar!Inside /\ b_ticket[u] = Tickets(j)
        BY Zenon, <1>4, <4>1 DEF Bar!Inside, BarInv, Ticketed
      <4>3. QED
        BY Zenon, <2>1, <2>3, <3>1, <4>2
    <3>4. QED
      BY Zenon, <3>2, <3>3
  <2>4. QED
    BY Zenon, <2>2, <2>3 DEF Bar!OneLeaderPerRound
<1>5. ASSUME NEW k \in Nat, BarInv(k), Budgeted
      PROVE  Bar!TypeOK
  <2> USE <1>5 DEF BarInv, BarTypes
  <2>1. b_arrivals <= MaxArrivals
    <3>1. Arriving \in SUBSET BarrierThreads
      BY Zenon DEF Arriving
    <3>2. Cardinality(Arriving) \in Nat
      BY Zenon, <3>1, FS_CardinalityType, FS_Subset DEF Shared
    <3>3. QED
      BY <3>2 DEF Budgeted, Shared, Bar!BarrierAssumption
  <2>2. b_waiting \in 0..Cardinality(BarrierThreads)
    <3>1. Cardinality(Members) \in Nat /\ Cardinality(Members) <= Cardinality(BarrierThreads) /\ Cardinality(BarrierThreads) \in Nat
      BY Zenon, FS_CardinalityType, FS_Subset DEF Shared, Members
    <3>2. QED
      BY <3>1 DEF Filling
  <2>3. \A l \in b_leaders : l \in 1..MaxArrivals
    <3> SUFFICES ASSUME NEW j \in 1..k PROVE Tickets(j) \in 1..MaxArrivals
      BY Zenon DEF Led
    <3>1. Tickets(j) \in Nat /\ Tickets(j) <= Tickets(k) /\ Tickets(k) \in Nat
      BY SMTT(120), TicketsOrdered DEF Shared
    <3>2. Tickets(j) >= 1
      <4>1. Tickets(j - 1) \in Nat /\ Tickets(j) = Tickets(j - 1) + BarrierCount
        <5>1. j - 1 \in Nat /\ (j - 1) + 1 = j
          OBVIOUS
        <5>2. QED
          BY ZenonT(60), <5>1, TicketsOrdered DEF Shared
      <4>2. QED
        BY <4>1 DEF Shared, Bar!BarrierAssumption
    <3>3. QED
      BY <1>2, <2>1, <3>1, <3>2 DEF Shared, Bar!BarrierAssumption
  <2>4. b_ticket \in [BarrierThreads -> 0..MaxArrivals]
    BY <1>2, <2>1 DEF Shared, Bar!BarrierAssumption
  <2>5. QED
    BY <2>1, <2>2, <2>3, <2>4, BarCounts DEF Bar!TypeOK, Shared, Bar!BarrierAssumption
<1>6. Budgeted /\ (\E k \in Nat : BarInv(k)) => Bar!LeavesOnlyWithRound /\ Bar!OneLeaderPerRound /\ Bar!TypeOK
  BY Zenon, <1>3, <1>4, <1>5
<1>7. QED
  BY <1>6, BarrierInvariant, PTL

-----------------------------------------------------------------------------
(***************************************************************************)
(* The reader-writer lock excludes, and its word and its queue counter are *)
(* exact, for every finite set of readers and writers, every width of the  *)
(* words and any number of calls.                                          *)
(*                                                                         *)
(* Exclusion is not inductive: a reader decides from seen, loaded a step   *)
(* or many before its compare-and-swap, so the invariant also says that    *)
(* whoever is on the way to it saw a value below WRITER_BIT.  As the swap  *)
(* succeeds on that value alone, a reader never enters over a writer,      *)
(* however the word went up and down meanwhile.                            *)
(***************************************************************************)

(* The threads that the labelling p puts in L. *)
In(p, L) == {u \in RW!Threads : p[u] \in L}

(* Labels of a reader that has seen no writer. *)
SwapPCs == {"rww", "rinc", "rlastinc", "tryinc"}
(* Labels outside the lock and the queue, and in the queue only. *)
PlainPCs == RW!PCs \ ({"rcs", "wcs"} \cup RW!QueuedPCs)
WaitingPCs == RW!QueuedPCs \ {"wdeq"}

RWTypes ==
    /\ r_pc \in [RW!Threads -> RW!PCs]
    /\ r_state \in Nat
    /\ r_seen \in [RW!Threads -> Nat]
    /\ \A t \in RW!Threads : r_pc[t] \in SwapPCs => r_seen[t] < WRITER_BIT

HoldersCounted ==
    \/ In(r_pc, {"wcs", "wdeq"}) = {} /\ r_state = Cardinality(In(r_pc, {"rcs"}))
    \/ \E w \in RW!Threads : In(r_pc, {"wcs", "wdeq"}) = {w} /\ In(r_pc, {"rcs"}) = {} /\ r_state = WRITER_BIT

RWInv == RWTypes /\ HoldersCounted /\ r_writer_waiting = Cardinality(In(r_pc, RW!QueuedPCs))

(* The operators of FiniteSets that RWLock counts with. *)
LEMMA RWCounts ==
    \A S : RW!Cardinality(S) = Cardinality(S) /\ (RW!IsFiniteSet(S) <=> IsFiniteSet(S))
BY Zenon DEF RW!Cardinality, Cardinality, RW!IsFiniteSet, IsFiniteSet

(* Counting one member more or less. *)
LEMMA Counting ==
    ASSUME RW!RWLockAssumption, NEW L, NEW t \in RW!Threads
    PROVE  /\ IsFiniteSet(In(r_pc, L)) /\ Cardinality(In(r_pc, L)) \in Nat
           /\ Cardinality(In(r_pc, L)) = 0 <=> In(r_pc, L) = {}
           /\ t \notin In(r_pc, L) => Cardinality(In(r_pc, L) \cup {t}) = Cardinality(In(r_pc, L)) + 1
           /\ t \in In(r_pc, L) => Cardinality(In(r_pc, L) \ {t}) = Cardinality(In(r_pc, L)) - 1
<1>1. IsFiniteSet(RW!Threads) /\ In(r_pc, L) \in SUBSET RW!Threads
    BY Zenon, RWCounts DEF RW!RWLockAssumption, RW!Threads, In
<1>2. IsFiniteSet(In(r_pc, L))
    BY Zenon, <1>1, FS_Subset
<1> QED
    BY ZenonT(60), <1>2, FS_CardinalityType, FS_EmptySet, FS_AddElement, FS_RemoveElement

(* A move within the plain labels or within the waiting ones changes no count. *)
LEMMA NeutralMove ==
    ASSUME RWTypes, NEW t \in RW!Threads, NEW b \in RW!PCs, r_pc' = [r_pc EXCEPT ![t] = b],
           (r_pc[t] \in PlainPCs /\ b \in PlainPCs) \/ (r_pc[t] \in WaitingPCs /\ b \in WaitingPCs)
    PROVE  /\ In(r_pc', {"rcs"}) = In(r_pc, {"rcs"}) /\ In(r_pc', {"wcs", "wdeq"}) = In(r_pc, {"wcs", "wdeq"})
           /\ In(r_pc', RW!QueuedPCs) = In(r_pc, RW!QueuedPCs)
<1>1. /\ PlainPCs \cap ({"rcs", "wcs", "wdeq"} \cup RW!QueuedPCs) = {}
      /\ WaitingPCs \subseteq RW!QueuedPCs /\ WaitingPCs \cap {"rcs", "wcs", "wdeq"} = {}
    BY Zenon DEF PlainPCs, WaitingPCs, RW!QueuedPCs
<1>2. \A L \in {{"rcs"}, {"wcs", "wdeq"}, RW!QueuedPCs} : b \in L <=> r_pc[t] \in L
    BY Zenon, <1>1
<1>3. \A L \in {{"rcs"}, {"wcs", "wdeq"}, RW!QueuedPCs} : \A u \in RW!Threads : r_pc'[u] \in L <=> r_pc[u] \in L
    BY Zenon, <1>2 DEF RWTypes
<1> QED
    BY Zenon, <1>3 DEF In

(* A step that changes neither the words nor a count. *)
Idle ==
    /\ UNCHANGED <<r_state, r_writer_waiting>>
    /\ In(r_pc', {"rcs"}) = In(r_pc, {"rcs"})
    /\ In(r_pc', {"wcs", "wdeq"}) = In(r_pc, {"wcs", "wdeq"})
    /\ In(r_pc', RW!QueuedPCs) = In(r_pc, RW!QueuedPCs)

(* What each kind of step does to the counts. *)
LEMMA IdleInductive ==
    ASSUME RWInv, RWTypes', Idle
    PROVE  RWInv'
    BY Zenon DEF RWInv, HoldersCounted, Idle

LEMMA ReadTakes ==
    ASSUME RW!RWLockAssumption, RWInv, RWTypes', NEW t \in RW!Threads,
           r_pc[t] \in PlainPCs, r_pc' = [r_pc EXCEPT ![t] = "rcs"],
           r_state < WRITER_BIT, r_state' = r_state + 1, r_writer_waiting' = r_writer_waiting
    PROVE  RWInv'
<1>1. r_pc[t] \notin {"rcs"} /\ r_pc[t] \notin {"wcs", "wdeq"} /\ r_pc[t] \notin RW!QueuedPCs
    BY Zenon DEF PlainPCs, RW!QueuedPCs
<1>2. "rcs" \in RW!PCs /\ "rcs" \notin {"wcs", "wdeq"} /\ "rcs" \notin RW!QueuedPCs
    BY Zenon DEF RW!PCs, RW!QueuedPCs
<1>3. /\ In(r_pc', {"rcs"}) = In(r_pc, {"rcs"}) \cup {t} /\ t \notin In(r_pc, {"rcs"})
      /\ In(r_pc', {"wcs", "wdeq"}) = In(r_pc, {"wcs", "wdeq"}) /\ In(r_pc', RW!QueuedPCs) = In(r_pc, RW!QueuedPCs)
    BY Zenon, <1>1, <1>2 DEF In, RWInv, RWTypes
<1>4. Cardinality(In(r_pc, {"rcs"}) \cup {t}) = Cardinality(In(r_pc, {"rcs"})) + 1
    BY Zenon, <1>3, Counting
<1>5. In(r_pc, {"wcs", "wdeq"}) = {} /\ r_state = Cardinality(In(r_pc, {"rcs"}))
    BY DEF RWInv, RWTypes, HoldersCounted, RW!RWLockAssumption
<1> QED
    BY ZenonT(60), <1>3, <1>4, <1>5 DEF RWInv, HoldersCounted

LEMMA WriteTakes ==
    ASSUME RW!RWLockAssumption, RWInv, RWTypes', NEW t \in RW!Threads, NEW b,
           \/ r_pc[t] \in PlainPCs /\ b = "wcs"
           \/ r_pc[t] \in WaitingPCs /\ b = "wdeq",
           r_pc' = [r_pc EXCEPT ![t] = b],
           r_state = 0, r_state' = WRITER_BIT, r_writer_waiting' = r_writer_waiting
    PROVE  RWInv'
<1>1. b \in RW!PCs /\ b \in {"wcs", "wdeq"} /\ b \notin {"rcs"}
      /\ (b \in RW!QueuedPCs <=> r_pc[t] \in RW!QueuedPCs) /\ r_pc[t] \notin {"wcs", "wdeq"} /\ r_pc[t] \notin {"rcs"}
    BY Zenon DEF RW!PCs, RW!WritePCs, PlainPCs, WaitingPCs, RW!QueuedPCs
<1>2. /\ In(r_pc', {"wcs", "wdeq"}) = In(r_pc, {"wcs", "wdeq"}) \cup {t} /\ In(r_pc', {"rcs"}) = In(r_pc, {"rcs"})
    BY Zenon, <1>1 DEF In, RWInv, RWTypes
<1>3. In(r_pc', RW!QueuedPCs) = In(r_pc, RW!QueuedPCs)
    BY Zenon, <1>1 DEF In, RWInv, RWTypes
<1>4. In(r_pc, {"wcs", "wdeq"}) = {} /\ r_state = Cardinality(In(r_pc, {"rcs"}))
    BY Zenon DEF RWInv, HoldersCounted, RW!RWLockAssumption
<1>5. In(r_pc, {"rcs"}) = {}
    BY ZenonT(60), <1>4, Counting
<1> QED
    BY ZenonT(60), <1>2, <1>3, <1>4, <1>5 DEF RWInv, HoldersCounted

LEMMA ReadGives ==
    ASSUME RW!RWLockAssumption, RWInv, RWTypes', NEW t \in RW!Threads, NEW b \in PlainPCs,
           r_pc[t] = "rcs", r_pc' = [r_pc EXCEPT ![t] = b],
           r_state' = r_state - 1, r_writer_waiting' = r_writer_waiting
    PROVE  RWInv'
<1>1. b \in RW!PCs /\ b \notin {"rcs"} /\ b \notin {"wcs", "wdeq"} /\ b \notin RW!QueuedPCs
      /\ r_pc[t] \in {"rcs"} /\ r_pc[t] \notin {"wcs", "wdeq"} /\ r_pc[t] \notin RW!QueuedPCs
    BY Zenon DEF PlainPCs, RW!QueuedPCs
<1>2. /\ In(r_pc', {"rcs"}) = In(r_pc, {"rcs"}) \ {t} /\ t \in In(r_pc, {"rcs"})
      /\ In(r_pc', {"wcs", "wdeq"}) = In(r_pc, {"wcs", "wdeq"}) /\ In(r_pc', RW!QueuedPCs) = In(r_pc, RW!QueuedPCs)
    BY Zenon, <1>1 DEF In, RWInv, RWTypes
<1>3. Cardinality(In(r_pc, {"rcs"}) \ {t}) = Cardinality(In(r_pc, {"rcs"})) - 1
    BY Zenon, <1>2, Counting
<1>4. In(r_pc, {"wcs", "wdeq"}) = {} /\ r_state = Cardinality(In(r_pc, {"rcs"}))
    BY Zenon, <1>2 DEF RWInv, HoldersCounted
<1> QED
    BY ZenonT(60), <1>2, <1>3, <1>4 DEF RWInv, HoldersCounted

LEMMA WriteGives ==
    ASSUME RW!RWLockAssumption, RWInv, RWTypes', NEW t \in RW!Threads, NEW b \in PlainPCs,
           r_pc[t] = "wcs", r_pc' = [r_pc EXCEPT ![t] = b],
           r_state' = r_state % WRITER_BIT, r_writer_waiting' = r_writer_waiting
    PROVE  RWInv'
<1>1. b \in RW!PCs /\ b \notin {"rcs"} /\ b \notin {"wcs", "wdeq"} /\ b \notin RW!QueuedPCs
      /\ r_pc[t] \notin {"rcs"} /\ r_pc[t] \in {"wcs", "wdeq"} /\ r_pc[t] \notin RW!QueuedPCs
    BY Zenon DEF PlainPCs, RW!QueuedPCs
<1>2. /\ In(r_pc', {"wcs", "wdeq"}) = In(r_pc, {"wcs", "wdeq"}) \ {t} /\ t \in In(r_pc, {"wcs", "wdeq"})
      /\ In(r_pc', {"rcs"}) = In(r_pc, {"rcs"}) /\ In(r_pc', RW!QueuedPCs) = In(r_pc, RW!QueuedPCs)
    BY Zenon, <1>1 DEF In, RWInv, RWTypes
<1>3. In(r_pc, {"wcs", "wdeq"}) = {t} /\ In(r_pc, {"rcs"}) = {} /\ r_state = WRITER_BIT
    BY Zenon, <1>2 DEF RWInv, HoldersCounted
<1>4. \A n \in Nat \ {0} : n % n = 0
    OBVIOUS
<1>5. r_state' = 0
    BY Zenon, <1>3, <1>4 DEF RW!RWLockAssumption
<1>6. Cardinality(In(r_pc, {"rcs"})) = 0
    BY ZenonT(60), <1>3, Counting
<1> QED
    BY ZenonT(60), <1>2, <1>3, <1>5, <1>6 DEF RWInv, HoldersCounted

LEMMA QueueMoves ==
    ASSUME RW!RWLockAssumption, RWInv, RWTypes', NEW t \in RW!Threads, NEW b, r_pc' = [r_pc EXCEPT ![t] = b],
           r_state' = r_state,
           \/ r_pc[t] \in PlainPCs /\ b \in WaitingPCs /\ r_writer_waiting' = r_writer_waiting + 1
           \/ r_pc[t] \in WaitingPCs /\ b \in PlainPCs /\ r_writer_waiting' = r_writer_waiting - 1
           \/ r_pc[t] = "wdeq" /\ b = "wcs" /\ r_writer_waiting' = r_writer_waiting - 1
    PROVE  RWInv'
<1>1. /\ b \in RW!PCs /\ b \notin {"rcs"} /\ r_pc[t] \notin {"rcs"}
      /\ b \in {"wcs", "wdeq"} <=> r_pc[t] \in {"wcs", "wdeq"}
    BY Zenon DEF RW!PCs, RW!WritePCs, PlainPCs, WaitingPCs, RW!QueuedPCs
<1>2. \/ r_pc[t] \notin RW!QueuedPCs /\ b \in RW!QueuedPCs /\ r_writer_waiting' = r_writer_waiting + 1
      \/ r_pc[t] \in RW!QueuedPCs /\ b \notin RW!QueuedPCs /\ r_writer_waiting' = r_writer_waiting - 1
    BY Zenon DEF PlainPCs, WaitingPCs, RW!QueuedPCs
<1>3. In(r_pc', {"wcs", "wdeq"}) = In(r_pc, {"wcs", "wdeq"}) /\ In(r_pc', {"rcs"}) = In(r_pc, {"rcs"})
    BY Zenon, <1>1 DEF In, RWInv, RWTypes
<1>4. r_writer_waiting' = Cardinality(In(r_pc', RW!QueuedPCs))
    <2>1. CASE r_pc[t] \notin RW!QueuedPCs /\ b \in RW!QueuedPCs /\ r_writer_waiting' = r_writer_waiting + 1
        <3>1. In(r_pc', RW!QueuedPCs) = In(r_pc, RW!QueuedPCs) \cup {t} /\ t \notin In(r_pc, RW!QueuedPCs)
            BY Zenon, <2>1, <1>1 DEF In, RWInv, RWTypes
        <3> QED
            BY ZenonT(60), <2>1, <3>1, Counting DEF RWInv
    <2>2. CASE r_pc[t] \in RW!QueuedPCs /\ b \notin RW!QueuedPCs /\ r_writer_waiting' = r_writer_waiting - 1
        <3>1. In(r_pc', RW!QueuedPCs) = In(r_pc, RW!QueuedPCs) \ {t} /\ t \in In(r_pc, RW!QueuedPCs)
            BY Zenon, <2>2, <1>1 DEF In, RWInv, RWTypes
        <3> QED
            BY ZenonT(60), <2>2, <3>1, Counting DEF RWInv
    <2> QED
        BY Zenon, <1>2, <2>1, <2>2
<1> QED
    BY ZenonT(60), <1>3, <1>4 DEF RWInv, HoldersCounted

(* A neutral move with the words unchanged. *)
LEMMA NeutralInductive ==
    ASSUME RWInv, RWTypes', NEW t \in RW!Threads, NEW b \in RW!PCs, RW!Goto(t, b),
           (r_pc[t] \in PlainPCs /\ b \in PlainPCs) \/ (r_pc[t] \in WaitingPCs /\ b \in WaitingPCs),
           UNCHANGED <<r_state, r_writer_waiting>>
    PROVE  RWInv'
<1>1. Idle
    BY ZenonT(60), NeutralMove DEF RW!Goto, Idle, RWInv
<1> QED
    BY Zenon, <1>1, IdleInductive

(* A thread that swaps has seen a word without the writer bit. *)
LEMMA RWTypesInductive ==
    ASSUME RW!RWLockAssumption, RWInv, RW!Next
    PROVE  RWTypes'
<1> USE DEF RWInv, RWTypes
<1>1. \A t \in RW!Threads : r_pc[t] \in {"rcs"} => r_state >= 1
    <2> TAKE t \in RW!Threads
    <2>1. r_pc[t] \in {"rcs"} => In(r_pc, {"rcs"}) # {}
        BY Zenon DEF In
    <2>2. Cardinality(In(r_pc, {"rcs"})) \in Nat /\ (Cardinality(In(r_pc, {"rcs"})) = 0 <=> In(r_pc, {"rcs"}) = {})
        BY ZenonT(60), Counting
    <2>3. In(r_pc, {"rcs"}) # {} => r_state = Cardinality(In(r_pc, {"rcs"}))
        BY Zenon DEF HoldersCounted
    <2> QED
        BY <2>1, <2>2, <2>3
<1>2. \A n \in Nat : n % WRITER_BIT \in Nat
    BY DEF RW!RWLockAssumption
<1> USE DEF RW!Goto, RW!words, RW!locals
<1>3. ASSUME NEW t \in RW!Threads, NEW b \in RW!PCs \ SwapPCs, RW!Goto(t, b), r_seen' = r_seen, r_state' \in Nat
      PROVE  RWTypes'
    BY Zenon, <1>3
<1>4. {"idle", "tryload", "rcs", "rbump", "rwake", "wcs", "wbump", "wwake", "rload", "rclock",
       "rwk", "rwait", "rsleep", "rlast", "wqueue"} \cup RW!QueuedPCs \subseteq RW!PCs \ SwapPCs
    BY ZenonT(60) DEF RW!PCs, RW!ReadPCs, RW!WritePCs, RW!QueuedPCs, SwapPCs
<1>5. RW!QueuedPCs = {"wcas", "wload", "wclock", "wwk", "wwait", "wsleep", "wlast", "wdeq", "wquit"}
    BY Zenon DEF RW!QueuedPCs
<1>6. WRITER_BIT \in Nat
    BY Zenon DEF RW!RWLockAssumption
<1>7. ASSUME NEW t \in RW!Threads, NEW first \in {"rload", "tryload", "wqueue"}, NEW d, RW!Begin(t, first, d)
      PROVE  RWTypes'
    BY Zenon, <1>3, <1>4, <1>7 DEF RW!Begin
<1>8. ASSUME NEW t \in Readers, RW!read_lock(t) \/ RW!read_lock_timeout(t) \/ RW!try_read_lock(t)
      PROVE  RWTypes'
    BY ZenonT(60), <1>7, <1>8 DEF RW!read_lock, RW!read_lock_timeout, RW!try_read_lock, RW!Threads
<1>9. ASSUME NEW t \in Writers, RW!write_lock(t) \/ RW!write_lock_timeout(t) \/ RW!try_write_lock(t)
      PROVE  RWTypes'
    <2>1. t \in RW!Threads
        BY Zenon DEF RW!Threads
    <2>2. \/ RW!Begin(t, "wqueue", FALSE) \/ RW!Begin(t, "wqueue", TRUE)
          \/ RW!Goto(t, "wcs") /\ r_seen' = r_seen /\ r_state' = WRITER_BIT
        BY ZenonT(60), <1>9 DEF RW!write_lock, RW!write_lock_timeout, RW!try_write_lock, RW!WriteFast
    <2> QED
        BY ZenonT(60), <2>1, <2>2, <1>3, <1>4, <1>6, <1>7
<1>10. ASSUME NEW t \in RW!Threads, RW!Unlock(t) PROVE RWTypes'
    <2>1. CASE RW!read_unlock(t)
        <3>1. r_state' \in Nat
            BY <2>1, <1>1 DEF RW!read_unlock
        <3> QED
            BY Zenon, <2>1, <3>1, <1>3, <1>4 DEF RW!read_unlock
    <2>2. CASE RW!write_unlock(t)
        BY Zenon, <2>2, <1>2, <1>3, <1>4 DEF RW!write_unlock
    <2> QED
        BY Zenon, <1>10, <2>1, <2>2 DEF RW!Unlock
<1>11. ASSUME NEW t \in RW!Threads, RW!ReadProgress(t) PROVE RWTypes'
    <2>1. CASE RW!ReadLoad(t) \/ RW!ReadLast(t) \/ RW!TryReadLoad(t)
        <3>1. /\ r_state' = r_state /\ r_seen' = [r_seen EXCEPT ![t] = r_state]
              /\ \E b \in RW!PCs : /\ r_pc' = [r_pc EXCEPT ![t] = b]
                                   /\ b \in SwapPCs => r_state < WRITER_BIT
            BY <2>1, <1>6 DEF RW!ReadLoad, RW!ReadLast, RW!TryReadLoad, RW!WriterHeld, RW!PCs, RW!ReadPCs, SwapPCs
        <3> QED
            BY Zenon, <3>1
    <2>2. CASE RW!ReadCheckQueue(t)
        <3>1. /\ r_seen' = r_seen /\ r_state' = r_state /\ r_seen[t] < WRITER_BIT
              /\ \E b \in {"rinc", "rclock", "rwk"} : r_pc' = [r_pc EXCEPT ![t] = b]
            BY ZenonT(60), <2>2 DEF RW!ReadCheckQueue, SwapPCs
        <3> QED
            BY Zenon, <3>1 DEF RW!PCs, RW!ReadPCs
    <2>3. CASE RW!ReadClock(t)
        BY Zenon, <2>3, <1>3, <1>4 DEF RW!ReadClock
    <2>4. CASE RW!ReadInc(t) \/ RW!ReadLastInc(t) \/ RW!TryReadInc(t)
        <3>1. /\ r_seen' = r_seen /\ r_state' \in {r_state, r_state + 1}
              /\ \E b \in {"rcs", "rload", "idle", "tryload"} : RW!Goto(t, b)
            BY Zenon, <2>4 DEF RW!ReadInc, RW!ReadLastInc, RW!TryReadInc
        <3> QED
            BY <3>1, <1>3, <1>4
    <2> QED
        BY Zenon, <1>11, <2>1, <2>2, <2>3, <2>4 DEF RW!ReadProgress
<1>12. ASSUME NEW t \in RW!Threads, RW!WriteProgress(t) PROVE RWTypes'
    <2>1. /\ r_seen' = r_seen /\ r_state' \in {r_state, WRITER_BIT}
          /\ \E b \in {"wcs", "idle"} \cup RW!QueuedPCs : RW!Goto(t, b)
        BY Zenon, <1>12, <1>5 DEF RW!WriteProgress, RW!WriteQueue, RW!WriteCas, RW!WriteLoad, RW!WriteClock, RW!WriteLast, RW!WriteDequeue
    <2> QED
        BY Zenon, <2>1, <1>3, <1>4, <1>6
<1>13. ASSUME NEW t \in RW!Threads, RW!LoadWake(t) \/ RW!FutexWait(t) \/ RW!BumpWake(t) \/ RW!FutexTimeout(t) \/ RW!FutexInterrupt(t)
       PROVE  RWTypes'
    <2>1. /\ r_seen' = r_seen /\ r_state' = r_state
          /\ \E b \in {"rwait", "rsleep", "rload", "rwake", "wwake", "rlast"} \cup RW!QueuedPCs : RW!Goto(t, b)
        BY Zenon, <1>13, <1>5 DEF RW!LoadWake, RW!FutexWait, RW!BumpWake, RW!FutexTimeout, RW!FutexInterrupt, RW!Resume
    <2> QED
        BY Zenon, <2>1, <1>3, <1>4
<1>14. ASSUME NEW t \in RW!Threads, RW!WakeOne(t) \/ RW!WakeAll(t) PROVE RWTypes'
    <2>1. r_seen' = r_seen /\ r_state' = r_state /\ \A u : RW!Resume(u) \in RW!PCs \ SwapPCs
        BY Zenon, <1>14, <1>4, <1>5 DEF RW!WakeOne, RW!WakeAll, RW!Resume
    <2>2. /\ r_pc' \in [RW!Threads -> RW!PCs]
          /\ \A u \in RW!Threads : r_pc'[u] = r_pc[u] \/ r_pc'[u] \in RW!PCs \ SwapPCs
        BY <1>14, <2>1, <1>4 DEF RW!WakeOne, RW!WakeAll, RW!Sleepers
    <2> QED
        BY Zenon, <2>1, <2>2
<1>15. ASSUME NEW t \in RW!Threads, RW!Expire(t) PROVE RWTypes'
    BY Zenon, <1>15 DEF RW!Expire
<1> QED
    BY Zenon, <1>8, <1>9, <1>10, <1>11, <1>12, <1>13, <1>14, <1>15 DEF RW!Next, RW!Progress, RW!Timer

(* Every step preserves the invariant. *)
LEMMA RWStepInductive ==
    ASSUME RW!RWLockAssumption, RWInv, RW!Next
    PROVE  RWInv'
<1>1. RWTypes'
    BY Zenon, RWTypesInductive
<1>2. /\ {"idle", "tryload", "tryinc", "rbump", "rwake", "wbump", "wwake", "wqueue", "rload", "rww",
          "rinc", "rclock", "rwk", "rwait", "rsleep", "rlast", "rlastinc"} \subseteq PlainPCs
      /\ WaitingPCs = {"wcas", "wload", "wclock", "wwk", "wwait", "wsleep", "wlast", "wquit"}
      /\ PlainPCs \subseteq RW!PCs /\ WaitingPCs \subseteq RW!PCs
    BY ZenonT(60) DEF PlainPCs, WaitingPCs, RW!PCs, RW!ReadPCs, RW!WritePCs, RW!QueuedPCs
<1>3. r_pc \in [RW!Threads -> RW!PCs] /\ r_state \in Nat
    BY Zenon DEF RWInv, RWTypes
<1> USE DEF RW!Goto, RW!words, RW!locals
<1>4. ASSUME NEW t \in RW!Threads, UNCHANGED <<r_state, r_writer_waiting>>,
             \/ r_pc[t] \in PlainPCs /\ \E b \in PlainPCs : RW!Goto(t, b)
             \/ r_pc[t] \in WaitingPCs /\ \E b \in WaitingPCs : RW!Goto(t, b)
      PROVE  RWInv'
    BY Zenon, <1>1, <1>2, <1>4, NeutralInductive
<1>5. ASSUME NEW t \in RW!Threads, NEW first \in {"rload", "tryload", "wqueue"}, NEW d, RW!Begin(t, first, d)
      PROVE  RWInv'
    BY ZenonT(60), <1>2, <1>4, <1>5 DEF RW!Begin
<1>6. ASSUME NEW t \in Readers, RW!read_lock(t) \/ RW!read_lock_timeout(t) \/ RW!try_read_lock(t)
      PROVE  RWInv'
    BY ZenonT(60), <1>5, <1>6 DEF RW!read_lock, RW!read_lock_timeout, RW!try_read_lock, RW!Threads
<1>7. ASSUME NEW t \in Writers, RW!write_lock(t) \/ RW!write_lock_timeout(t) \/ RW!try_write_lock(t)
      PROVE  RWInv'
    <2>1. t \in RW!Threads
        BY Zenon DEF RW!Threads
    <2>2. \/ RW!Begin(t, "wqueue", FALSE) \/ RW!Begin(t, "wqueue", TRUE)
          \/ /\ r_pc[t] = "idle" /\ RW!Goto(t, "wcs") /\ r_state = 0 /\ r_state' = WRITER_BIT
             /\ r_writer_waiting' = r_writer_waiting
        BY ZenonT(60), <1>7 DEF RW!write_lock, RW!write_lock_timeout, RW!try_write_lock, RW!WriteFast
    <2> QED
        BY ZenonT(60), <2>1, <2>2, <1>1, <1>2, <1>5, WriteTakes
<1>8. ASSUME NEW t \in RW!Threads, RW!Unlock(t) PROVE RWInv'
    <2>1. CASE RW!read_unlock(t)
        <3>1. /\ r_pc[t] = "rcs" /\ r_state' = r_state - 1 /\ r_writer_waiting' = r_writer_waiting
              /\ \E b \in PlainPCs : r_pc' = [r_pc EXCEPT ![t] = b]
            BY ZenonT(60), <2>1, <1>2 DEF RW!read_unlock
        <3> QED
            BY ZenonT(60), <3>1, <1>1, ReadGives
    <2>2. CASE RW!write_unlock(t)
        <3>1. /\ r_pc[t] = "wcs" /\ r_state' = r_state % WRITER_BIT /\ r_writer_waiting' = r_writer_waiting
              /\ \E b \in PlainPCs : r_pc' = [r_pc EXCEPT ![t] = b]
            BY ZenonT(60), <2>2, <1>2 DEF RW!write_unlock
        <3> QED
            BY ZenonT(60), <3>1, <1>1, WriteGives
    <2> QED
        BY Zenon, <1>8, <2>1, <2>2 DEF RW!Unlock
<1>9. ASSUME NEW t \in RW!Threads, RW!ReadProgress(t) PROVE RWInv'
    <2>1. /\ r_pc[t] \in {"rload", "rww", "rinc", "rclock", "rlast", "rlastinc", "tryload", "tryinc"}
          /\ r_writer_waiting' = r_writer_waiting
          /\ \/ r_state' = r_state /\ \E b \in {"rww", "rclock", "rwk", "rinc", "idle", "rlastinc", "rload",
                                            "tryload", "tryinc"} : RW!Goto(t, b)
             \/ /\ r_pc[t] \in {"rinc", "rlastinc", "tryinc"} /\ r_state = r_seen[t]
                /\ r_state' = r_state + 1 /\ RW!Goto(t, "rcs")
        BY Zenon, <1>9 DEF RW!ReadProgress, RW!ReadLoad, RW!ReadCheckQueue, RW!ReadInc, RW!ReadClock, RW!ReadLast, RW!ReadLastInc,
                    RW!TryReadLoad, RW!TryReadInc
    <2>2. CASE r_state' = r_state /\ \E b \in {"rww", "rclock", "rwk", "rinc", "idle", "rlastinc", "rload",
                                            "tryload", "tryinc"} : RW!Goto(t, b)
        <3>1. r_pc[t] \in PlainPCs /\ \E b \in PlainPCs : RW!Goto(t, b)
            BY ZenonT(60), <2>1, <2>2, <1>2
        <3> QED
            BY ZenonT(60), <2>1, <2>2, <3>1, <1>4
    <2>3. CASE /\ r_pc[t] \in {"rinc", "rlastinc", "tryinc"} /\ r_state = r_seen[t]
               /\ r_state' = r_state + 1 /\ RW!Goto(t, "rcs")
        <3>1. r_state < WRITER_BIT
            BY Zenon, <2>3 DEF RWInv, RWTypes, SwapPCs
        <3> QED
            BY ZenonT(60), <2>1, <2>3, <3>1, <1>1, <1>2, ReadTakes
    <2> QED
        BY Zenon, <2>1, <2>2, <2>3
<1>10. ASSUME NEW t \in RW!Threads, RW!WriteProgress(t) PROVE RWInv'
    <2>1. CASE RW!WriteQueue(t) \/ RW!WriteDequeue(t)
        <3>1. /\ r_state' = r_state
              /\ \/ r_pc[t] = "wqueue" /\ RW!Goto(t, "wcas") /\ r_writer_waiting' = r_writer_waiting + 1
                 \/ r_pc[t] = "wquit" /\ RW!Goto(t, "idle") /\ r_writer_waiting' = r_writer_waiting - 1
                 \/ r_pc[t] = "wdeq" /\ RW!Goto(t, "wcs") /\ r_writer_waiting' = r_writer_waiting - 1
            BY Zenon, <2>1 DEF RW!WriteQueue, RW!WriteDequeue
        <3> QED
            BY Zenon, <3>1, <1>1, <1>2, QueueMoves
    <2>2. CASE RW!WriteCas(t) \/ RW!WriteLast(t) \/ RW!WriteLoad(t) \/ RW!WriteClock(t)
        <3>1. /\ r_pc[t] \in WaitingPCs /\ r_writer_waiting' = r_writer_waiting
              /\ \/ r_state' = r_state /\ \E b \in WaitingPCs : RW!Goto(t, b)
                 \/ r_state = 0 /\ r_state' = WRITER_BIT /\ RW!Goto(t, "wdeq")
            BY Zenon, <2>2, <1>2 DEF RW!WriteCas, RW!WriteLast, RW!WriteLoad, RW!WriteClock
        <3> QED
            BY Zenon, <3>1, <1>1, <1>4, WriteTakes
    <2> QED
        BY Zenon, <1>10, <2>1, <2>2 DEF RW!WriteProgress
<1>11. ASSUME NEW t \in RW!Threads, RW!LoadWake(t) \/ RW!FutexWait(t) \/ RW!BumpWake(t) \/ RW!FutexTimeout(t) \/ RW!FutexInterrupt(t)
       PROVE  RWInv'
    <2>1. /\ UNCHANGED <<r_state, r_writer_waiting>>
          /\ \/ r_pc[t] \in PlainPCs /\ \E b \in PlainPCs : RW!Goto(t, b)
             \/ r_pc[t] \in WaitingPCs /\ \E b \in WaitingPCs : RW!Goto(t, b)
        BY ZenonT(60), <1>2, <1>11 DEF RW!LoadWake, RW!FutexWait, RW!BumpWake, RW!FutexTimeout, RW!FutexInterrupt, RW!Resume, RW!Sleepers
    <2> QED
        BY Zenon, <2>1, <1>4
<1>12. ASSUME NEW t \in RW!Threads, RW!WakeOne(t) \/ RW!WakeAll(t) \/ RW!Expire(t) PROVE RWInv'
    <2>1. /\ UNCHANGED <<r_state, r_writer_waiting>>
          /\ \A u \in RW!Threads : \/ r_pc'[u] = r_pc[u]
                                   \/ r_pc[u] \in {"rsleep", "rwake", "wwake"} /\ r_pc'[u] \in {"idle", "rload"}
                                   \/ r_pc[u] = "wsleep" /\ r_pc'[u] = "wcas"
        BY Zenon, <1>3, <1>12 DEF RW!WakeOne, RW!WakeAll, RW!Expire, RW!Resume, RW!Sleepers
    <2>2. \A u \in RW!Threads : /\ r_pc'[u] \in {"rcs"} <=> r_pc[u] \in {"rcs"}
                                /\ r_pc'[u] \in {"wcs", "wdeq"} <=> r_pc[u] \in {"wcs", "wdeq"}
                                /\ r_pc'[u] \in RW!QueuedPCs <=> r_pc[u] \in RW!QueuedPCs
        BY ZenonT(60), <2>1 DEF RW!QueuedPCs
    <2>3. Idle
        BY Zenon, <2>1, <2>2 DEF Idle, In
    <2> QED
        BY Zenon, <2>3, <1>1, IdleInductive
<1> QED
    BY Zenon, <1>6, <1>7, <1>8, <1>9, <1>10, <1>11, <1>12 DEF RW!Next, RW!Progress, RW!Timer

(* The invariant holds throughout. *)
LEMMA RWInvariant ==
    ASSUME RW!RWLockAssumption
    PROVE  RW!Spec => []RWInv
<1>1. RW!Init => RWInv
    <2> SUFFICES ASSUME RW!Init PROVE RWInv
        BY Zenon
    <2>1. RWTypes
        BY Zenon DEF RW!Init, RWTypes, RW!PCs, SwapPCs
    <2>2. In(r_pc, {"rcs"}) = {} /\ In(r_pc, {"wcs", "wdeq"}) = {} /\ In(r_pc, RW!QueuedPCs) = {}
        BY Zenon DEF RW!Init, In, RW!QueuedPCs
    <2>3. Cardinality({}) = 0
        BY Zenon, FS_EmptySet
    <2> QED
        BY Zenon, <2>1, <2>2, <2>3 DEF RW!Init, RWInv, HoldersCounted
<1>2. RWInv /\ UNCHANGED RW!rwVars => RWInv'
    BY Zenon DEF RW!rwVars, RWInv, RWTypes, HoldersCounted
<1> QED
    BY <1>1, <1>2, RWStepInductive, PTL DEF RW!Spec

(* No reader and writer, and no two writers, hold the lock together, by    *)
(* whichever of the blocking, timed and try functions they took it, and    *)
(* state is exactly the number of readers plus WRITER_BIT for a writer.    *)
THEOREM RWLockExcludes ==
    ASSUME RW!RWLockAssumption
    PROVE  RW!Spec => []RW!Exclusion
<1>1. RWInv => RW!Exclusion
    <2> SUFFICES ASSUME RWInv PROVE RW!Exclusion
        OBVIOUS
    <2>1. RW!ReadHolders = In(r_pc, {"rcs"}) /\ RW!WriteHolders = In(r_pc, {"wcs", "wdeq"})
        BY Zenon DEF RW!ReadHolders, RW!WriteHolders, In
    <2>2. Cardinality({}) = 0 /\ \A w : Cardinality({w}) = 1
        BY ZenonT(60), FS_EmptySet, FS_Singleton
    <2>3. WRITER_BIT \in Nat /\ WRITER_BIT * 0 = 0 /\ WRITER_BIT * 1 = WRITER_BIT
        BY DEF RW!RWLockAssumption
    <2>4. CASE RW!WriteHolders = {} /\ r_state = Cardinality(RW!ReadHolders)
        <3>1. r_state = Cardinality(RW!ReadHolders) + 0
            BY <2>4 DEF RWInv, RWTypes
        <3> QED
            BY Zenon, <2>2, <2>3, <2>4, <3>1, RWCounts DEF RW!Exclusion
    <2>5. CASE \E w \in RW!Threads : RW!WriteHolders = {w} /\ RW!ReadHolders = {} /\ r_state = WRITER_BIT
        <3>1. PICK w \in RW!Threads : RW!WriteHolders = {w} /\ RW!ReadHolders = {} /\ r_state = WRITER_BIT
            BY Zenon, <2>5
        <3>2. Cardinality(RW!WriteHolders) = 1 /\ Cardinality(RW!ReadHolders) = 0
            BY ZenonT(60), <3>1, <2>2
        <3>3. r_state = 0 + WRITER_BIT * 1
            BY <3>1, <2>3
        <3> QED
            BY Zenon, <3>1, <3>2, <3>3, RWCounts DEF RW!Exclusion
    <2> QED
        BY Zenon, <2>1, <2>4, <2>5 DEF RWInv, HoldersCounted
<1> QED
    BY <1>1, RWInvariant, PTL

(* writer_waiting, which holds new readers back, is the number of writers  *)
(* between their fetch_add and their fetch_sub: one that timed out leaves  *)
(* no mark behind.                                                         *)
THEOREM RWLockCountsQueue ==
    ASSUME RW!RWLockAssumption
    PROVE  RW!Spec => []RW!QueueCounted
<1>1. RWInv => RW!QueueCounted
    BY Zenon, RWCounts DEF RWInv, RW!QueueCounted, In
<1> QED
    BY <1>1, RWInvariant, PTL

(* The rest of the type invariant: the word stays at most WRITER_BIT, and  *)
(* only writers queue.                                                     *)
RWRest ==
    /\ r_state <= WRITER_BIT
    /\ \A t \in RW!Threads : r_seen[t] <= WRITER_BIT
    /\ r_writer_wake \in 0..(WakeMod - 1)
    /\ r_wake_val \in [RW!Threads -> 0..(WakeMod - 1)]
    /\ r_timed \in [RW!Threads -> BOOLEAN] /\ r_expired \in [RW!Threads -> BOOLEAN]
    /\ r_calls \in 0..MaxCalls
    /\ \A t \in RW!Threads : r_pc[t] \in RW!WritePCs => t \in Writers

LEMMA RestInductive ==
    ASSUME RW!RWLockAssumption, RWInv, RWTypes', RWRest, RW!Next
    PROVE  RWRest'
<1> USE DEF RWInv, RWTypes
<1>1. WRITER_BIT \in Nat \ {0} /\ WakeMod \in Nat \ {0, 1} /\ MaxCalls \in Nat
    BY Zenon DEF RW!RWLockAssumption
<1>2. RW!WritePCs = {"wqueue", "wcas", "wload", "wclock", "wwk", "wwait", "wsleep", "wlast", "wdeq", "wquit"}
    BY Zenon DEF RW!WritePCs, RW!QueuedPCs
<1> USE DEF RW!Goto, RW!words, RW!locals
<1>3. ASSUME NEW t \in RW!Threads, NEW first, NEW d \in BOOLEAN, RW!Begin(t, first, d),
             first \in RW!WritePCs => t \in Writers
      PROVE  RWRest'
    BY <1>1, <1>3 DEF RWRest, RW!Begin
<1>4. ASSUME NEW t \in Readers, RW!read_lock(t) \/ RW!read_lock_timeout(t) \/ RW!try_read_lock(t)
      PROVE  RWRest'
    BY ZenonT(60), <1>2, <1>3, <1>4 DEF RW!read_lock, RW!read_lock_timeout, RW!try_read_lock, RW!Threads
<1>5. ASSUME NEW t \in Writers, RW!write_lock(t) \/ RW!write_lock_timeout(t) \/ RW!try_write_lock(t)
      PROVE  RWRest'
    <2>1. t \in RW!Threads
        BY Zenon DEF RW!Threads
    <2>2. \/ RW!Begin(t, "wqueue", FALSE) \/ RW!Begin(t, "wqueue", TRUE)
          \/ /\ RW!Goto(t, "wcs") /\ r_state' = WRITER_BIT /\ r_calls < MaxCalls /\ r_calls' = r_calls + 1
             /\ UNCHANGED <<r_writer_wake, r_seen, r_wake_val, r_timed, r_expired>>
        BY ZenonT(60), <1>5 DEF RW!write_lock, RW!write_lock_timeout, RW!try_write_lock, RW!WriteFast
    <2>3. CASE /\ RW!Goto(t, "wcs") /\ r_state' = WRITER_BIT /\ r_calls < MaxCalls /\ r_calls' = r_calls + 1
               /\ UNCHANGED <<r_writer_wake, r_seen, r_wake_val, r_timed, r_expired>>
        <3>1. r_state' <= WRITER_BIT /\ r_calls' \in 0..MaxCalls
            BY <1>1, <2>3 DEF RWRest
        <3>2. \A u \in RW!Threads : r_pc'[u] \in RW!WritePCs => u \in Writers
            BY Zenon, <1>2, <2>1, <2>3 DEF RWRest
        <3> QED
            BY Zenon, <2>3, <3>1, <3>2 DEF RWRest
    <2> QED
        BY ZenonT(60), <1>3, <2>1, <2>2, <2>3
<1>6. ASSUME NEW t \in RW!Threads, RW!Unlock(t) PROVE RWRest'
    <2>1. /\ UNCHANGED <<r_writer_wake, r_seen, r_wake_val, r_timed, r_expired, r_calls>>
          /\ \E b \in {"rbump", "idle", "wbump"} : RW!Goto(t, b)
        BY Zenon, <1>6 DEF RW!Unlock, RW!read_unlock, RW!write_unlock
    <2>2. r_state' <= WRITER_BIT
        BY <1>1, <1>6 DEF RW!Unlock, RW!read_unlock, RW!write_unlock, RWRest
    <2> QED
        BY Zenon, <1>2, <2>1, <2>2 DEF RWRest
<1>7. ASSUME NEW t \in RW!Threads, RW!ReadProgress(t) PROVE RWRest'
    <2>1. /\ UNCHANGED <<r_writer_wake, r_wake_val, r_timed, r_expired, r_calls>>
          /\ r_pc[t] \notin RW!WritePCs /\ \E b : r_pc' = [r_pc EXCEPT ![t] = b] /\ b \notin RW!WritePCs
          /\ r_seen' = r_seen \/ r_seen' = [r_seen EXCEPT ![t] = r_state]
          /\ r_state' = r_state \/ (r_state' = r_state + 1 /\ r_state < WRITER_BIT)
        BY ZenonT(60), <1>1, <1>2, <1>7 DEF RW!ReadProgress, RW!ReadLoad, RW!ReadCheckQueue, RW!ReadInc, RW!ReadClock, RW!ReadLast, RW!ReadLastInc,
                    RW!TryReadLoad, RW!TryReadInc, SwapPCs
    <2> QED
        BY <1>1, <2>1 DEF RWRest
<1>8. ASSUME NEW t \in RW!Threads, RW!WriteProgress(t) PROVE RWRest'
    <2>1. /\ UNCHANGED <<r_writer_wake, r_seen, r_wake_val, r_timed, r_expired, r_calls>>
          /\ r_pc[t] \in RW!WritePCs /\ \E b : r_pc' = [r_pc EXCEPT ![t] = b]
          /\ r_state' \in {r_state, WRITER_BIT}
        BY ZenonT(60), <1>2, <1>8 DEF RW!WriteProgress, RW!WriteQueue, RW!WriteCas, RW!WriteLoad, RW!WriteClock, RW!WriteLast, RW!WriteDequeue
    <2> QED
        BY <1>1, <2>1 DEF RWRest
<1>9. ASSUME NEW t \in RW!Threads, RW!LoadWake(t) \/ RW!FutexWait(t) \/ RW!BumpWake(t) \/ RW!FutexTimeout(t) \/ RW!FutexInterrupt(t)
      PROVE  RWRest'
    <2>1. /\ UNCHANGED <<r_state, r_seen, r_timed, r_expired, r_calls>>
          /\ \E b : r_pc' = [r_pc EXCEPT ![t] = b] /\ (b \in RW!WritePCs => r_pc[t] \in RW!WritePCs)
        BY ZenonT(60), <1>2, <1>9 DEF RW!LoadWake, RW!FutexWait, RW!BumpWake, RW!FutexTimeout, RW!FutexInterrupt, RW!Resume, RW!Sleepers
    <2>2. r_writer_wake' \in 0..(WakeMod - 1) /\ r_wake_val' \in [RW!Threads -> 0..(WakeMod - 1)]
        BY <1>1, <1>9 DEF RW!LoadWake, RW!FutexWait, RW!BumpWake, RW!FutexTimeout, RW!FutexInterrupt, RWRest
    <2> QED
        BY ZenonT(60), <2>1, <2>2 DEF RWRest
<1>10. ASSUME NEW t \in RW!Threads, RW!WakeOne(t) \/ RW!WakeAll(t) PROVE RWRest'
    <2>1. /\ UNCHANGED <<r_state, r_writer_wake, r_seen, r_wake_val, r_timed, r_expired, r_calls>>
          /\ \A u \in RW!Threads : \/ r_pc'[u] = r_pc[u] \/ r_pc'[u] \in {"idle", "rload"}
                                   \/ r_pc[u] = "wsleep" /\ r_pc'[u] = "wcas"
        BY Zenon, <1>10 DEF RW!WakeOne, RW!WakeAll, RW!Resume, RW!Sleepers
    <2> QED
        BY Zenon, <1>2, <2>1 DEF RWRest
<1>11. ASSUME NEW t \in RW!Threads, RW!Expire(t) PROVE RWRest'
    BY Zenon, <1>11 DEF RW!Expire, RWRest
<1> QED
    BY Zenon, <1>4, <1>5, <1>6, <1>7, <1>8, <1>9, <1>10, <1>11 DEF RW!Next, RW!Progress, RW!Timer

(* The words, the locals and the counters of the lock keep their ranges;   *)
(* writer_waiting never exceeds the number of writers.                     *)
THEOREM RWLockTypes ==
    ASSUME RW!RWLockAssumption
    PROVE  RW!Spec => []RW!TypeOK
<1>1. RW!Init => RWRest
    BY DEF RW!Init, RWRest, RW!RWLockAssumption, RW!WritePCs, RW!QueuedPCs
<1>2. RWRest /\ UNCHANGED RW!rwVars => RWRest'
    BY Zenon DEF RW!rwVars, RWRest
<1>3. RWInv /\ RWRest => RW!TypeOK
    <2> SUFFICES ASSUME RWInv, RWRest PROVE RW!TypeOK
        OBVIOUS
    <2>1. WRITER_BIT \in Nat \ {0}
        BY Zenon DEF RW!RWLockAssumption
    <2>2. In(r_pc, RW!QueuedPCs) \subseteq Writers
        BY Zenon DEF In, RWRest, RW!WritePCs
    <2>3. IsFiniteSet(Writers)
        BY Zenon, RWCounts, FS_Subset, Writers \subseteq Readers \cup Writers DEF RW!RWLockAssumption
    <2>4. Cardinality(In(r_pc, RW!QueuedPCs)) \in Nat /\ Cardinality(In(r_pc, RW!QueuedPCs)) <= Cardinality(Writers)
          /\ Cardinality(Writers) \in Nat
        BY Zenon, <2>2, <2>3, FS_Subset, FS_CardinalityType
    <2>5. r_state \in 0..(2 * WRITER_BIT - 1) /\ r_seen \in [RW!Threads -> 0..(2 * WRITER_BIT - 1)]
        BY <2>1 DEF RWInv, RWTypes, RWRest
    <2> QED
        BY <2>4, <2>5, RWCounts DEF RW!TypeOK, RWInv, RWTypes, RWRest
<1>4. RWInv /\ RWRest /\ RWInv' /\ [RW!Next]_RW!rwVars => RWRest'
    BY Zenon, <1>2, RestInductive DEF RWInv
<1> QED
    BY <1>1, <1>3, <1>4, RWInvariant, PTL DEF RW!Spec
=============================================================================
