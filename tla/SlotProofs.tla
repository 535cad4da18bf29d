----------------------------- MODULE SlotProofs -----------------------------
(***************************************************************************)
(* Proofs about the slot allocator, for every value of the constants.      *)
(***************************************************************************)
EXTENDS SlotService, FiniteSetTheorems, NaturalsInduction, TLAPS

(* A leaf may take half a minute. *)
USE SMTT(120)

-----------------------------------------------------------------------------
(***************************************************************************)
(* SlotAlloc: whatever the threads allocate, free and expand, the bitmaps  *)
(* mark exactly the slots in use, each in use by one thread.  Chain says   *)
(* that the segments follow one another and stay below the slots of the    *)
(* next sub-CNode, so a segment that is registered meets no earlier one;   *)
(* Exact ties the bitmaps to the slots the threads were given.             *)
(***************************************************************************)

(* Where the next sub-CNode will begin. *)
Frontier == ExpandBase + a_cspace_expand_count * ExpandSlots

SegOK(seg) ==
    /\ seg \in Slot!SegmentType
    /\ seg.bits \subseteq 0..(seg.count - 1)
    /\ seg.used = Cardinality(seg.bits)

Chain ==
    /\ a_seg_count \in 0..MAX_SEGMENTS
    /\ a_cspace_expand_count \in 0..MAX_CSPACE_EXPANSIONS
    /\ a_segments \in [Slot!Segs -> Slot!SegmentType]
    /\ a_active_seg \in Slot!Segs
    /\ a_initialized \in BOOLEAN
    /\ a_initialized => a_active_seg \in Slot!Live
    /\ \A i \in Slot!Live : SegOK(a_segments[i]) /\ a_segments[i].base + a_segments[i].count <= Frontier
    /\ \A i, j \in Slot!Live : i < j => a_segments[i].base + a_segments[i].count <= a_segments[j].base

Exact ==
    /\ a_held \in [SlotThreads -> SUBSET Nat]
    /\ \A t, u \in SlotThreads : t # u => a_held[t] \cap a_held[u] = {}
    /\ \A i \in Slot!Live : \A k \in a_segments[i].bits : \E t \in SlotThreads : a_segments[i].base + k \in a_held[t]
    /\ \A t \in SlotThreads : \A s \in a_held[t] :
          \E i \in Slot!Live : \E k \in a_segments[i].bits : s = a_segments[i].base + k

Calls ==
    /\ a_cspace_ntfn \in BOOLEAN /\ a_signalled \in BOOLEAN
    /\ a_expand_state \in {"Idle", "Requested", "Failed"}
    /\ a_placed \in 0..MAX_CSPACE_EXPANSIONS
    /\ a_pc \in [SlotThreads -> {"idle", "try", "drive"}]
    /\ a_want \in [SlotThreads -> 0..MaxRun]
    /\ a_rounds \in [SlotThreads -> 0..(MAX_SEGMENTS + 2)]
    /\ \A t \in SlotThreads : a_pc[t] # "idle" => a_want[t] >= 1 /\ a_rounds[t] >= 1 /\ a_initialized

SlotInv == Slot!SlotAllocAssumption /\ Chain /\ Exact /\ Calls

-----------------------------------------------------------------------------
(* The operators of FiniteSets that SlotAlloc counts with. *)
LEMMA SlotCounts ==
    \A S : Slot!Cardinality(S) = Cardinality(S) /\ (Slot!IsFiniteSet(S) <=> IsFiniteSet(S))
BY Zenon DEF Slot!Cardinality, Cardinality, Slot!IsFiniteSet, IsFiniteSet

(* The scans stop at the lowest index that will do. *)
LEMMA LeastIn ==
    ASSUME NEW S \in SUBSET Nat, S # {}
    PROVE  Slot!Least(S) \in S /\ \A y \in S : Slot!Least(S) <= y
<1> DEFINE Less == OpToRel(<, Nat)
<1>1. IsWellFoundedOn(Less, Nat)
  BY ZenonT(60), NatLessThanWellFounded
<1>2. \A x, y \in Nat : <<y, x>> \in Less <=> y < x
  BY Zenon DEF OpToRel
<1> HIDE DEF Less
<1>3. PICK x \in S : \A y \in S : ~ (<<y, x>> \in Less)
  BY ZenonT(60), <1>1, WFMin
<1>4. \A y \in S : x <= y
  <2> TAKE y \in S
  <2>1. x \in Nat /\ y \in Nat
    OBVIOUS
  <2>2. ~ (y < x)
    BY ZenonT(60), <1>2, <1>3, <2>1
  <2>3. QED
    BY <2>1, <2>2
<1>5. QED
  BY ZenonT(60), <1>4 DEF Slot!Least

(* The bitmap of a segment is finite. *)
LEMMA BitsFinite ==
    ASSUME Slot!SlotAllocAssumption, NEW seg \in Slot!SegmentType
    PROVE  IsFiniteSet(seg.bits) /\ Cardinality(seg.bits) \in Nat
<1>1. seg.bits \subseteq 0..(SegmentSlots - 1) /\ SegmentSlots - 1 \in Int
  BY DEF Slot!SegmentType, Slot!SlotAllocAssumption
<1>2. IsFiniteSet(0..(SegmentSlots - 1))
  BY <1>1, FS_Interval
<1>3. QED
  BY Zenon, <1>1, <1>2, FS_Subset, FS_CardinalityType

(* Updating the bitmap, the counter and the hint keeps a segment's type. *)
LEMMA SegmentUpdate ==
    ASSUME NEW seg \in Slot!SegmentType, NEW b \in SUBSET (0..(SegmentSlots - 1)),
           NEW u \in 0..SegmentSlots, NEW h \in 0..SegmentSlots
    PROVE  [seg EXCEPT !.bits = b, !.used = u, !.alloc_hint = h] \in Slot!SegmentType
  BY ZenonT(60) DEF Slot!SegmentType

(* What segment_alloc_single and segment_alloc_contiguous find is free. *)
LEMMA RunIsFree ==
    ASSUME NEW seg \in Slot!SegmentType, NEW n \in Nat \ {0}, Slot!Serves(seg, n)
    PROVE  /\ Slot!Start(seg, n) \in Nat
           /\ \A k \in 0..(n - 1) : Slot!Start(seg, n) + k \in Slot!FreeIn(seg)
<1>1. Slot!FreeIn(seg) \in SUBSET Nat
  BY DEF Slot!FreeIn, Slot!SegmentType
<1>2. CASE n = 1
  <2>1. Slot!SingleIndex(seg) \in Slot!FreeIn(seg)
    BY ZenonT(60), <1>1, <1>2, LeastIn DEF Slot!Serves, Slot!SingleIndex
  <2>2. QED
    BY <1>1, <1>2, <2>1 DEF Slot!Start
<1>3. CASE n # 1
  <2>1. Slot!Least(Slot!RunStarts(seg, n)) \in Slot!RunStarts(seg, n)
    BY Zenon, <1>1, <1>3, LeastIn DEF Slot!Serves, Slot!RunStarts
  <2>2. QED
    BY Zenon, <1>1, <1>3, <2>1 DEF Slot!Start, Slot!RunStarts
<1>4. QED
  BY Zenon, <1>2, <1>3

(* Marking a free run. *)
LEMMA MarkUsed ==
    ASSUME Slot!SlotAllocAssumption, NEW seg, SegOK(seg), NEW n \in Nat \ {0}, NEW i \in Nat,
           \A k \in 0..(n - 1) : i + k \in Slot!FreeIn(seg)
    PROVE  /\ SegOK(Slot!segment_mark_used(seg, i, n))
           /\ Slot!segment_mark_used(seg, i, n).base = seg.base
           /\ Slot!segment_mark_used(seg, i, n).count = seg.count
           /\ Slot!segment_mark_used(seg, i, n).bits = seg.bits \cup (i..(i + n - 1))
<1> DEFINE new == Slot!segment_mark_used(seg, i, n)
           run == i..(i + n - 1)
<1>0. seg \in Slot!SegmentType
  BY Zenon DEF SegOK
<1>1. /\ new.base = seg.base /\ new.count = seg.count /\ new.bits = seg.bits \cup run
      /\ new.used = seg.used + n
  BY Zenon, <1>0 DEF Slot!segment_mark_used, Slot!SegmentType
<1>2. \A x \in run : x \in Slot!FreeIn(seg)
  <2> SUFFICES ASSUME NEW x \in run PROVE x \in Slot!FreeIn(seg)
    OBVIOUS
  <2>1. x - i \in 0..(n - 1) /\ i + (x - i) = x
    OBVIOUS
  <2>2. QED
    BY Zenon, <2>1
<1>3. run \subseteq 0..(seg.count - 1) /\ run \cap seg.bits = {}
  BY Zenon, <1>2 DEF Slot!FreeIn
<1>4. i + n <= seg.count
  <2>1. i + n - 1 \in run
    OBVIOUS
  <2>2. QED
    BY <1>0, <1>3, <2>1 DEF Slot!SegmentType
<1>5. IsFiniteSet(run) /\ Cardinality(run) = n
  BY FS_Interval, i + n - 1 \in Int, i \in Int
<1>6. IsFiniteSet(seg.bits)
  BY Zenon, <1>0, BitsFinite
<1>7. Cardinality(seg.bits \cup run) = seg.used + n
  <2>1. Cardinality(seg.bits \cap run) = 0
    <3>1. seg.bits \cap run = {}
      BY Zenon, <1>3
    <3>2. QED
      BY ZenonT(60), <3>1, FS_EmptySet
  <2>2. Cardinality(seg.bits \cup run) = Cardinality(seg.bits) + Cardinality(run) - Cardinality(seg.bits \cap run)
    BY ZenonT(60), <1>5, <1>6, FS_Union
  <2>3. QED
    BY <1>0, <1>5, <2>1, <2>2 DEF SegOK, Slot!SegmentType
<1>8. Cardinality(seg.bits \cup run) <= seg.count
  <2>1. seg.bits \cup run \subseteq 0..(seg.count - 1) /\ seg.count \in Nat
    BY <1>0, <1>3 DEF SegOK, Slot!SegmentType
  <2>2. IsFiniteSet(0..(seg.count - 1)) /\ Cardinality(0..(seg.count - 1)) = seg.count
    <3>1. 0 \in Int /\ seg.count - 1 \in Int /\ seg.count - 1 - 0 + 1 = seg.count
      BY <2>1
    <3>2. (0 > seg.count - 1) => seg.count = 0
      BY <2>1
    <3> DEFINE top == seg.count - 1
    <3>3. IsFiniteSet(0..top) /\ Cardinality(0..top) = IF 0 > top THEN 0 ELSE top - 0 + 1
      BY ZenonT(60), <3>1, FS_Interval
    <3>4. QED
      BY Zenon, <3>1, <3>2, <3>3
  <2>3. QED
    BY Zenon, <2>1, <2>2, FS_Subset
<1> HIDE DEF run
<1>9. new \in Slot!SegmentType
  <2>1. seg.bits \cup run \subseteq 0..(SegmentSlots - 1)
    <3>1. seg.count \in 0..SegmentSlots /\ seg.bits \subseteq 0..(SegmentSlots - 1)
      BY Zenon, <1>0 DEF Slot!SegmentType
    <3>2. 0..(seg.count - 1) \subseteq 0..(SegmentSlots - 1)
      BY <3>1 DEF Slot!SlotAllocAssumption
    <3>3. QED
      BY ZenonT(60), <1>3, <3>1, <3>2
  <2>2. seg.used + n \in 0..SegmentSlots /\ i + n \in 0..SegmentSlots
    BY <1>0, <1>4, <1>7, <1>8 DEF Slot!SegmentType, Slot!SlotAllocAssumption
  <2>3. QED
    BY ZenonT(60), <1>0, <2>1, <2>2, SegmentUpdate DEF Slot!segment_mark_used, run
<1>10. QED
  BY Zenon, <1>0, <1>1, <1>3, <1>7, <1>9 DEF SegOK, run

(* Unmarking some of the marked slots. *)
LEMMA UnmarkUsed ==
    ASSUME Slot!SlotAllocAssumption, NEW seg, SegOK(seg), NEW back \in SUBSET seg.bits
    PROVE  /\ SegOK(Slot!segment_free(seg, back))
           /\ Slot!segment_free(seg, back).base = seg.base
           /\ Slot!segment_free(seg, back).count = seg.count
           /\ Slot!segment_free(seg, back).bits = seg.bits \ back
<1> DEFINE new == Slot!segment_free(seg, back)
<1>0. seg \in Slot!SegmentType
  BY Zenon DEF SegOK
<1>1. IsFiniteSet(seg.bits) /\ IsFiniteSet(back) /\ Cardinality(back) \in Nat
      /\ Cardinality(back) <= seg.used /\ Cardinality(seg.bits \ back) = seg.used - Cardinality(back)
  <2>1. IsFiniteSet(seg.bits) /\ IsFiniteSet(back)
    BY Zenon, <1>0, BitsFinite, FS_Subset
  <2>2. Cardinality(seg.bits \ back) = Cardinality(seg.bits) - Cardinality(seg.bits \cap back)
    BY ZenonT(60), <2>1, FS_Difference
  <2>3. seg.bits \cap back = back /\ Cardinality(back) <= Cardinality(seg.bits) /\ Cardinality(back) \in Nat
    BY Zenon, <2>1, FS_Subset, FS_CardinalityType
  <2>4. QED
    BY ZenonT(60), <2>1, <2>2, <2>3 DEF SegOK
<1>2. Slot!Least(back \cup {seg.alloc_hint}) \in 0..SegmentSlots
  <2>1. seg.alloc_hint \in 0..SegmentSlots /\ seg.bits \subseteq 0..(SegmentSlots - 1)
    BY Zenon, <1>0 DEF Slot!SegmentType
  <2>2. back \cup {seg.alloc_hint} \in SUBSET (0..SegmentSlots) /\ back \cup {seg.alloc_hint} # {}
    BY <2>1 DEF Slot!SlotAllocAssumption
  <2>3. back \cup {seg.alloc_hint} \in SUBSET Nat
    BY <2>2
  <2>4. Slot!Least(back \cup {seg.alloc_hint}) \in back \cup {seg.alloc_hint}
    BY Zenon, <2>2, <2>3, LeastIn
  <2>5. QED
    BY Zenon, <2>2, <2>4
<1>3. seg.used \in 0..SegmentSlots /\ seg.bits \in SUBSET (0..(SegmentSlots - 1))
  BY Zenon, <1>0 DEF Slot!SegmentType
<1>4. (IF seg.used <= Cardinality(back) THEN 0 ELSE seg.used - Cardinality(back)) = seg.used - Cardinality(back)
      /\ seg.used - Cardinality(back) \in 0..SegmentSlots
  <2>1. SegmentSlots \in Nat
    BY Zenon DEF Slot!SlotAllocAssumption
  <2>2. QED
    BY <1>1, <1>3, <2>1
<1>5. /\ new.base = seg.base /\ new.count = seg.count /\ new.bits = seg.bits \ back
      /\ new.used = seg.used - Cardinality(back)
  BY Zenon, <1>0, <1>4, SlotCounts DEF Slot!segment_free, Slot!SegmentType
<1>6. new \in Slot!SegmentType
  <2>1. seg.bits \ back \in SUBSET (0..(SegmentSlots - 1))
    BY Zenon, <1>3
  <2>2. QED
    BY ZenonT(60), <1>0, <1>2, <1>4, <2>1, SegmentUpdate, SlotCounts DEF Slot!segment_free
<1> HIDE DEF new
<1>7. QED
  BY Zenon, <1>1, <1>5, <1>6 DEF SegOK, new

-----------------------------------------------------------------------------
(* Two live segments share no slot. *)
LEMMA SegmentsApart ==
    ASSUME Chain, NEW i \in Slot!Live, NEW j \in Slot!Live, NEW k \in a_segments[i].bits, NEW l \in a_segments[j].bits,
           a_segments[i].base + k = a_segments[j].base + l
    PROVE  i = j /\ k = l
<1>1. i \in Nat /\ j \in Nat /\ SegOK(a_segments[i]) /\ SegOK(a_segments[j])
  BY DEF Chain, Slot!Live
<1>2. /\ a_segments[i].base \in Nat /\ a_segments[i].count \in Nat /\ k \in 0..(a_segments[i].count - 1)
      /\ a_segments[j].base \in Nat /\ a_segments[j].count \in Nat /\ l \in 0..(a_segments[j].count - 1)
  BY <1>1 DEF SegOK, Slot!SegmentType
<1>3. ~(i < j) /\ ~(j < i)
  BY <1>2 DEF Chain
<1>4. QED
  BY <1>1, <1>2, <1>3

(* alloc_single_locked and slot_alloc_consecutive_fast give out slots that *)
(* nobody has.                                                             *)
LEMMA GrantKeeps ==
    ASSUME SlotInv, NEW t \in SlotThreads, NEW n \in Nat \ {0}, Slot!Grant(t, n),
           UNCHANGED <<a_seg_count, a_initialized, a_cspace_expand_count>>
    PROVE  Chain' /\ Exact'
<1> DEFINE si == Slot!Chosen(n)
           i == Slot!Start(a_segments[si], n)
           new == Slot!segment_mark_used(a_segments[si], i, n)
           run == i..(i + n - 1)
           given == {a_segments[si].base + i + k : k \in 0..(n - 1)}
<1>1. si \in Slot!Live /\ Slot!Serves(a_segments[si], n)
  <2>1. Slot!Candidates(n) \in SUBSET Nat /\ Slot!Candidates(n) # {}
    BY DEF Slot!Candidates, Slot!Live, Slot!Grant
  <2>2. Slot!Least(Slot!Candidates(n)) \in Slot!Candidates(n)
    BY Zenon, <2>1, LeastIn
  <2>3. a_seg_count \in Nat \ {0} /\ a_active_seg \in Nat
    BY DEF Slot!Grant, SlotInv, Chain, Slot!Live
  <2>4. si \in Slot!Live
    BY <2>1, <2>2, <2>3 DEF Slot!Chosen, Slot!Live
  <2>5. QED
    BY ZenonT(60), <2>2, <2>4 DEF Slot!Candidates, Slot!Chosen
<1>2. /\ SegOK(a_segments[si]) /\ si \in Slot!Segs /\ Slot!Live \subseteq Slot!Segs
      /\ \A j \in Slot!Live : a_segments[j].base \in Nat /\ a_segments[j].count \in Nat
  <2>1. Slot!Live \subseteq Slot!Segs
    BY DEF SlotInv, Chain, Slot!Live, Slot!Segs, Slot!SlotAllocAssumption
  <2>2. \A j \in Slot!Live : SegOK(a_segments[j])
    BY Zenon DEF SlotInv, Chain
  <2>3. QED
    BY <1>1, <2>1, <2>2 DEF SegOK, Slot!SegmentType
<1>3. i \in Nat /\ \A k \in 0..(n - 1) : i + k \in Slot!FreeIn(a_segments[si])
  BY Zenon, <1>1, <1>2, RunIsFree DEF SegOK
<1>4. /\ SegOK(new) /\ new.base = a_segments[si].base /\ new.count = a_segments[si].count
      /\ new.bits = a_segments[si].bits \cup run
  <2>1. Slot!SlotAllocAssumption
    BY Zenon DEF SlotInv
  <2>2. SegOK(a_segments[si]) /\ i \in Nat /\ \A k \in 0..(n - 1) : i + k \in Slot!FreeIn(a_segments[si])
    BY ZenonT(60), <1>2, <1>3
  <2>3. ASSUME NEW seg, SegOK(seg), NEW at \in Nat, \A k \in 0..(n - 1) : at + k \in Slot!FreeIn(seg)
        PROVE  /\ SegOK(Slot!segment_mark_used(seg, at, n))
               /\ Slot!segment_mark_used(seg, at, n).base = seg.base
               /\ Slot!segment_mark_used(seg, at, n).count = seg.count
               /\ Slot!segment_mark_used(seg, at, n).bits = seg.bits \cup (at..(at + n - 1))
    BY ZenonT(60), <2>1, <2>3, MarkUsed
  <2> HIDE DEF si, i
  <2>4. QED
    BY ZenonT(60), <2>2, <2>3
<1>5. /\ a_segments' = [a_segments EXCEPT ![si] = new] /\ a_active_seg' = si
      /\ a_held' = [a_held EXCEPT ![t] = @ \cup given]
  BY Zenon DEF Slot!Grant
<1>6. \A s : s \in given <=> \E k \in run : s = a_segments[si].base + k
  <2>1. ASSUME NEW k \in 0..(n - 1)
        PROVE  i + k \in run /\ a_segments[si].base + i + k = a_segments[si].base + (i + k)
    BY <1>1, <1>2, <1>3
  <2>2. ASSUME NEW k \in run
        PROVE  k - i \in 0..(n - 1) /\ a_segments[si].base + k = a_segments[si].base + i + (k - i)
    BY <1>1, <1>2, <1>3
  <2>3. QED
    BY <2>1, <2>2
<1>7. \A k \in run : k \in Nat /\ k \in 0..(a_segments[si].count - 1) /\ k \notin a_segments[si].bits
  <2> SUFFICES ASSUME NEW k \in run
               PROVE  k \in Nat /\ k \in 0..(a_segments[si].count - 1) /\ k \notin a_segments[si].bits
    OBVIOUS
  <2>1. k - i \in 0..(n - 1) /\ i + (k - i) = k
    BY <1>3
  <2>2. QED
    BY <1>3, <2>1 DEF Slot!FreeIn
<1> HIDE DEF si, i, new, run, given
<1>8. Chain'
  <2>1. /\ a_segments'[si] = new /\ \A j \in Slot!Live : j # si => a_segments'[j] = a_segments[j]
        /\ Slot!Live' = Slot!Live /\ Frontier' = Frontier
    BY Zenon, <1>2, <1>5 DEF SlotInv, Chain, Slot!Live, Frontier
  <2>2. a_segments' \in [Slot!Segs -> Slot!SegmentType]
    BY Zenon, <1>2, <1>4, <1>5 DEF SlotInv, Chain, SegOK
  <2>3. \A j \in Slot!Live : /\ SegOK(a_segments'[j])
                             /\ a_segments'[j].base = a_segments[j].base /\ a_segments'[j].count = a_segments[j].count
    BY Zenon, <1>4, <2>1 DEF SlotInv, Chain
  <2>4. QED
    BY <1>1, <1>2, <1>5, <2>1, <2>2, <2>3 DEF SlotInv, Chain
<1>9. Exact'
  <2>1. \A u \in SlotThreads : \A s \in a_held[u] : s \notin given
    <3> SUFFICES ASSUME NEW u \in SlotThreads, NEW s \in a_held[u], s \in given PROVE FALSE
      OBVIOUS
    <3>1. PICK k \in run : s = a_segments[si].base + k
      BY Zenon, <1>6
    <3>20. PICK j \in Slot!Live : \E l \in a_segments[j].bits : s = a_segments[j].base + l
      BY Zenon DEF SlotInv, Exact
    <3>2. PICK l \in a_segments[j].bits : s = a_segments[j].base + l
      BY Zenon, <3>20
    <3>3. /\ a_segments[j].base \in Nat /\ a_segments[j].count \in Nat /\ l \in 0..(a_segments[j].count - 1)
          /\ k \in 0..(a_segments[si].count - 1) /\ j \in Nat /\ si \in Nat
      BY <1>1, <1>2, <1>7, <3>2 DEF SlotInv, Chain, SegOK, Slot!Live
    <3>4. ~(si < j) /\ ~(j < si)
      BY <1>1, <1>2, <3>1, <3>2, <3>3 DEF SlotInv, Chain
    <3>5. j = si /\ k = l
      BY <1>2, <3>1, <3>2, <3>3, <3>4
    <3>6. QED
      BY Zenon, <1>7, <3>5
  <2>2. given \subseteq Nat
    BY <1>1, <1>2, <1>6, <1>7
  <2>3. /\ a_held' \in [SlotThreads -> SUBSET Nat]
        /\ \A u \in SlotThreads : a_held'[u] = IF u = t THEN a_held[u] \cup given ELSE a_held[u]
    BY ZenonT(60), <1>5, <2>2 DEF SlotInv, Exact
  <2>4. \A u, v \in SlotThreads : u # v => a_held'[u] \cap a_held'[v] = {}
    BY ZenonT(60), <2>1, <2>3 DEF SlotInv, Exact
  <2>5. Slot!Live' = Slot!Live /\ \A j \in Slot!Live : /\ a_segments'[j].base = a_segments[j].base
                                       /\ a_segments'[j].bits = IF j = si THEN a_segments[j].bits \cup run
                                                              ELSE a_segments[j].bits
    BY ZenonT(60), <1>2, <1>4, <1>5 DEF SlotInv, Chain, Slot!Live
  <2>6. ASSUME NEW j \in Slot!Live, NEW k \in a_segments'[j].bits
        PROVE  \E u \in SlotThreads : a_segments'[j].base + k \in a_held'[u]
    <3>1. CASE k \in a_segments[j].bits
      BY ZenonT(60), <2>3, <2>5, <3>1 DEF SlotInv, Exact
    <3>2. CASE j = si /\ k \in run
      BY ZenonT(60), <1>6, <2>3, <2>5, <3>2
    <3>3. QED
      BY ZenonT(60), <2>5, <2>6, <3>1, <3>2
  <2>7. ASSUME NEW u \in SlotThreads, NEW s \in a_held'[u]
        PROVE  \E j \in Slot!Live : \E k \in a_segments'[j].bits : s = a_segments'[j].base + k
    <3>1. CASE s \in a_held[u]
      <4>1. PICK j \in Slot!Live : \E k \in a_segments[j].bits : s = a_segments[j].base + k
        BY Zenon, <3>1 DEF SlotInv, Exact
      <4>2. QED
        BY ZenonT(60), <2>5, <4>1
    <3>2. CASE s \in given
      BY ZenonT(60), <1>1, <1>6, <2>5, <3>2
    <3>3. QED
      BY Zenon, <2>3, <2>7, <3>1, <3>2
  <2>8. QED
    BY <2>3, <2>4, <2>5, <2>6, <2>7 DEF Exact
<1>10. QED
  BY Zenon, <1>8, <1>9

(* slot_free and slot_free_range give back exactly the slots named. *)
LEMMA FreeKeeps ==
    ASSUME SlotInv, NEW t \in SlotThreads, NEW first \in a_held[t], NEW n \in 1..MaxRun, Slot!slot_free(t, first, n)
    PROVE  Chain' /\ Exact'
<1> DEFINE slots == first..(first + n - 1)
<1>0. /\ slots \subseteq a_held[t]
      /\ a_segments' = [j \in Slot!Segs |-> IF j \in Slot!Live THEN Slot!segment_free(a_segments[j], Slot!Returned(j, slots))
                                     ELSE a_segments[j]]
      /\ a_active_seg' = Slot!Least({j \in Slot!Live : Slot!Returned(j, slots) # {}} \cup {a_active_seg})
      /\ a_held' = [a_held EXCEPT ![t] = @ \ slots]
      /\ UNCHANGED <<a_seg_count, a_initialized, a_cspace_expand_count>>
  BY Zenon DEF Slot!slot_free
<1> HIDE DEF slots
<1>1. Slot!Live \subseteq Slot!Segs /\ Slot!Live \subseteq Nat /\ Slot!Live' = Slot!Live /\ Frontier' = Frontier
  BY <1>0 DEF SlotInv, Chain, Slot!Live, Slot!Segs, Frontier, Slot!SlotAllocAssumption
<1>2. ASSUME NEW j \in Slot!Live
      PROVE  Slot!Returned(j, slots) = {k \in a_segments[j].bits : a_segments[j].base + k \in slots}
  <2>1. SegOK(a_segments[j]) /\ a_segments[j].base \in Nat /\ a_segments[j].count \in Nat
    BY <1>2 DEF SlotInv, Chain, SegOK, Slot!SegmentType
  <2>2. ASSUME NEW k \in a_segments[j].bits
        PROVE  a_segments[j].base + k \in Slot!Covers(a_segments[j])
    BY <2>1 DEF SegOK, Slot!Covers
  <2>3. ASSUME NEW k \in a_segments[j].bits, NEW l \in 0..(j - 1)
        PROVE  a_segments[j].base + k \notin Slot!Covers(a_segments[l])
    <3>1. l \in Slot!Live /\ l < j
      BY <1>2 DEF SlotInv, Chain, Slot!Live
    <3>2. a_segments[l].base \in Nat /\ a_segments[l].count \in Nat
      BY <3>1 DEF SlotInv, Chain, SegOK, Slot!SegmentType
    <3>3. a_segments[l].base + a_segments[l].count <= a_segments[j].base /\ k \in Nat
      BY <1>2, <2>1, <3>1 DEF SlotInv, Chain, SegOK
    <3>4. QED
      BY <2>1, <3>2, <3>3 DEF Slot!Covers
  <2>4. QED
    BY Zenon, <2>2, <2>3 DEF Slot!Returned
<1>3. ASSUME NEW j \in Slot!Live
      PROVE  /\ SegOK(a_segments'[j])
             /\ a_segments'[j].base = a_segments[j].base /\ a_segments'[j].count = a_segments[j].count
             /\ a_segments'[j].bits = {k \in a_segments[j].bits : a_segments[j].base + k \notin slots}
  <2>1. SegOK(a_segments[j]) /\ Slot!Returned(j, slots) \in SUBSET a_segments[j].bits
    BY Zenon, <1>2, <1>3 DEF SlotInv, Chain
  <2>2. a_segments'[j] = Slot!segment_free(a_segments[j], Slot!Returned(j, slots))
    BY Zenon, <1>0, <1>1, <1>3
  <2>3. QED
    BY <1>2, <1>3, <2>1, <2>2, UnmarkUsed DEF SlotInv
<1>4. a_active_seg' \in Slot!Segs /\ (a_initialized => a_active_seg' \in Slot!Live)
  <2> DEFINE T == {j \in Slot!Live : Slot!Returned(j, slots) # {}} \cup {a_active_seg}
  <2>1. T \in SUBSET Nat /\ T # {} /\ T \subseteq Slot!Segs
    <3>1. a_active_seg \in Slot!Segs /\ Slot!Segs \subseteq Nat
      BY DEF SlotInv, Chain, Slot!Segs
    <3>2. QED
      BY ZenonT(60), <1>1, <3>1
  <2>2. Slot!Least(T) \in T
    BY ZenonT(60), <2>1, LeastIn
  <2>3. QED
    BY Zenon, <1>0, <1>1, <2>1, <2>2 DEF SlotInv, Chain
<1>5. Chain'
  <2>1. a_segments' \in [Slot!Segs -> Slot!SegmentType]
    BY ZenonT(60), <1>0, <1>3 DEF SlotInv, Chain, SegOK
  <2>2. QED
    BY ZenonT(60), <1>0, <1>1, <1>3, <1>4, <2>1 DEF SlotInv, Chain
<1>6. Exact'
  <2>1. /\ a_held' \in [SlotThreads -> SUBSET Nat]
        /\ \A u \in SlotThreads : a_held'[u] = IF u = t THEN a_held[u] \ slots ELSE a_held[u]
    BY ZenonT(60), <1>0 DEF SlotInv, Exact
  <2>2. \A u \in SlotThreads : a_held'[u] = a_held[u] \ slots
    BY Zenon, <1>0, <2>1 DEF SlotInv, Exact
  <2>3. \A u, v \in SlotThreads : u # v => a_held'[u] \cap a_held'[v] = {}
    BY Zenon, <2>2 DEF SlotInv, Exact
  <2>4. ASSUME NEW j \in Slot!Live', NEW k \in a_segments'[j].bits
        PROVE  \E u \in SlotThreads : a_segments'[j].base + k \in a_held'[u]
    <3>1. j \in Slot!Live /\ k \in a_segments[j].bits /\ a_segments[j].base + k \notin slots
      BY ZenonT(60), <1>1, <1>3, <2>4
    <3>2. PICK u \in SlotThreads : a_segments[j].base + k \in a_held[u]
      BY ZenonT(60), <3>1 DEF SlotInv, Exact
    <3>3. QED
      BY ZenonT(60), <1>3, <2>2, <3>1, <3>2
  <2>5. ASSUME NEW u \in SlotThreads, NEW s \in a_held'[u]
        PROVE  \E j \in Slot!Live' : \E k \in a_segments'[j].bits : s = a_segments'[j].base + k
    <3>1. s \in a_held[u] /\ s \notin slots
      BY ZenonT(60), <2>2, <2>5
    <3>2. PICK j \in Slot!Live : \E k \in a_segments[j].bits : s = a_segments[j].base + k
      BY ZenonT(60), <3>1 DEF SlotInv, Exact
    <3>3. QED
      BY ZenonT(60), <1>1, <1>3, <3>1, <3>2
  <2>6. QED
    BY ZenonT(60), <2>1, <2>3, <2>4, <2>5 DEF Exact
<1>7. QED
  BY Zenon, <1>5, <1>6

(* A segment for the next sub-CNode lies beyond all the others; if its     *)
(* first slot is given out at once, nobody had it.                         *)
LEMMA RegisterKeeps ==
    ASSUME SlotInv, a_initialized, NEW new, SegOK(new), new.base = Frontier, new.count = ExpandSlots,
           a_seg_count < MAX_SEGMENTS, a_cspace_expand_count < MAX_CSPACE_EXPANSIONS,
           a_segments' = [a_segments EXCEPT ![a_seg_count] = new], a_active_seg' = a_seg_count,
           a_seg_count' = a_seg_count + 1, a_cspace_expand_count' = a_cspace_expand_count + 1,
           UNCHANGED a_initialized, NEW t \in SlotThreads,
           \/ new.bits = {} /\ UNCHANGED a_held
           \/ new.bits = {0} /\ a_held' = [a_held EXCEPT ![t] = @ \cup {new.base}]
    PROVE  Chain' /\ Exact'
<1>1. a_seg_count \in Nat /\ Slot!Live' = Slot!Live \cup {a_seg_count} /\ a_seg_count \notin Slot!Live /\ a_seg_count \in Slot!Segs
      /\ Slot!Live \subseteq Slot!Segs /\ Slot!Live \subseteq Nat /\ \A i \in Slot!Live : i < a_seg_count
  BY DEF SlotInv, Chain, Slot!Live, Slot!Segs, Slot!SlotAllocAssumption
<1>2. Frontier \in Nat /\ ExpandSlots \in Nat /\ Frontier' = Frontier + ExpandSlots
  <2>1. a_cspace_expand_count \in Nat /\ ExpandBase \in Nat /\ ExpandSlots \in Nat
    BY DEF SlotInv, Chain, Slot!SlotAllocAssumption
  <2>2. (a_cspace_expand_count + 1) * ExpandSlots = a_cspace_expand_count * ExpandSlots + ExpandSlots
        /\ a_cspace_expand_count * ExpandSlots \in Nat
    BY <2>1
  <2>3. QED
    BY <2>1, <2>2 DEF Frontier
<1>3. a_segments'[a_seg_count] = new /\ \A i \in Slot!Live : a_segments'[i] = a_segments[i]
  BY Zenon, <1>1 DEF SlotInv, Chain
<1>4. \A i \in Slot!Live : /\ SegOK(a_segments[i]) /\ a_segments[i].base + a_segments[i].count <= Frontier
                           /\ a_segments[i].base \in Nat /\ a_segments[i].count \in Nat
  BY DEF SlotInv, Chain, SegOK, Slot!SegmentType
<1>5. Chain'
  <2>1. a_segments' \in [Slot!Segs -> Slot!SegmentType]
    BY Zenon, <1>1 DEF SlotInv, Chain, SegOK
  <2>2. \A i \in Slot!Live' : SegOK(a_segments'[i]) /\ a_segments'[i].base + a_segments'[i].count <= Frontier'
    BY <1>1, <1>2, <1>3, <1>4
  <2>3. \A i, j \in Slot!Live' : i < j => a_segments'[i].base + a_segments'[i].count <= a_segments'[j].base
    BY <1>1, <1>2, <1>3, <1>4 DEF SlotInv, Chain
  <2>4. QED
    BY <1>1, <2>1, <2>2, <2>3 DEF SlotInv, Chain, Slot!SlotAllocAssumption
<1>6. \A u \in SlotThreads : \A s \in a_held[u] : s < Frontier
  <2> SUFFICES ASSUME NEW u \in SlotThreads, NEW s \in a_held[u] PROVE s < Frontier
    BY Zenon
  <2>1. PICK j \in Slot!Live : \E k \in a_segments[j].bits : s = a_segments[j].base + k
    BY ZenonT(60) DEF SlotInv, Exact
  <2>2. PICK k \in a_segments[j].bits : s = a_segments[j].base + k
    BY Zenon, <2>1
  <2>3. k \in 0..(a_segments[j].count - 1)
    BY Zenon, <1>4, <2>1, <2>2 DEF SegOK
  <2>4. QED
    BY <1>2, <1>4, <2>2, <2>3
<1>7. Exact'
  <2>1. CASE new.bits = {} /\ UNCHANGED a_held
    BY <1>1, <1>3, <2>1 DEF SlotInv, Exact
  <2>2. CASE new.bits = {0} /\ a_held' = [a_held EXCEPT ![t] = @ \cup {new.base}]
    <3>1. /\ a_held' \in [SlotThreads -> SUBSET Nat] /\ Frontier + 0 = Frontier
          /\ \A u \in SlotThreads : a_held'[u] = IF u = t THEN a_held[u] \cup {Frontier} ELSE a_held[u]
      <4>1. a_held \in [SlotThreads -> SUBSET Nat] /\ new.base = Frontier
        BY Zenon DEF SlotInv, Exact
      <4>2. {Frontier} \in SUBSET Nat /\ Frontier + 0 = Frontier
        BY <1>2
      <4> HIDE DEF Frontier
      <4>3. QED
        BY Zenon, <2>2, <4>1, <4>2
    <3>2. \A u \in SlotThreads : Frontier \notin a_held[u]
      BY <1>2, <1>6
    <3>3. \A u, v \in SlotThreads : u # v => a_held'[u] \cap a_held'[v] = {}
      BY <3>1, <3>2 DEF SlotInv, Exact
    <3>4. \A j \in Slot!Live' : \A k \in a_segments'[j].bits : \E u \in SlotThreads : a_segments'[j].base + k \in a_held'[u]
      BY <1>1, <1>3, <2>2, <3>1 DEF SlotInv, Exact
    <3>5. \A u \in SlotThreads : \A s \in a_held'[u] :
             \E j \in Slot!Live' : \E k \in a_segments'[j].bits : s = a_segments'[j].base + k
      BY <1>1, <1>3, <2>2, <3>1 DEF SlotInv, Exact
    <3>6. QED
      BY Zenon, <3>1, <3>3, <3>4, <3>5 DEF Exact
  <2>3. QED
    BY Zenon, <2>1, <2>2
<1>8. QED
  BY Zenon, <1>5, <1>7

(* The segment a probe registers. *)
LEMMA NewSegmentOK ==
    ASSUME SlotInv
    PROVE  /\ SegOK(Slot!NewSegment) /\ Slot!NewSegment.base = Frontier /\ Slot!NewSegment.count = ExpandSlots
           /\ Slot!NewSegment.bits = {}
           /\ LET first == Slot!segment_mark_used(Slot!NewSegment, 0, 1)
              IN  SegOK(first) /\ first.base = Frontier /\ first.count = ExpandSlots /\ first.bits = {0}
<1>1. ExpandSlots \in 1..SegmentSlots /\ SegmentSlots \in Nat /\ Frontier \in Nat
  <2>1. a_cspace_expand_count \in Nat /\ ExpandBase \in Nat /\ ExpandSlots \in 1..SegmentSlots /\ SegmentSlots \in Nat
    BY DEF SlotInv, Chain, Slot!SlotAllocAssumption
  <2>2. a_cspace_expand_count * ExpandSlots \in Nat
    BY <2>1
  <2>3. QED
    BY <2>1, <2>2 DEF Frontier
<1>2. Slot!NewSegment = [base |-> Frontier, count |-> ExpandSlots, alloc_hint |-> 0, used |-> 0, bits |-> {}]
  BY Zenon DEF Slot!NewSegment, Slot!Fresh, Frontier
<1>3. SegOK(Slot!NewSegment)
  <2>1. Slot!NewSegment \in Slot!SegmentType
    BY <1>1, <1>2 DEF Slot!SegmentType
  <2>2. QED
    BY Zenon, <1>2, <2>1, FS_EmptySet DEF SegOK
<1>4. \A k \in 0..(1 - 1) : 0 + k \in Slot!FreeIn(Slot!NewSegment)
  BY <1>1, <1>2 DEF Slot!FreeIn
<1>5. Slot!NewSegment.base = Frontier /\ Slot!NewSegment.count = ExpandSlots /\ Slot!NewSegment.bits = {}
  BY Zenon, <1>2
<1> HIDE DEF Slot!NewSegment
<1>6. /\ SegOK(Slot!segment_mark_used(Slot!NewSegment, 0, 1))
      /\ Slot!segment_mark_used(Slot!NewSegment, 0, 1).base = Slot!NewSegment.base
      /\ Slot!segment_mark_used(Slot!NewSegment, 0, 1).count = Slot!NewSegment.count
      /\ Slot!segment_mark_used(Slot!NewSegment, 0, 1).bits = Slot!NewSegment.bits \cup (0..(0 + 1 - 1))
  BY <1>3, <1>4, MarkUsed, 0 \in Nat, 1 \in Nat \ {0} DEF SlotInv
<1>7. {} \cup (0..(0 + 1 - 1)) = {0}
  OBVIOUS
<1>8. QED
  BY Zenon, <1>3, <1>5, <1>6, <1>7

(* A step that touches neither the chain nor what is held. *)
LEMMA ChainKept ==
    ASSUME Chain, Exact, UNCHANGED <<a_segments, a_seg_count, a_active_seg, a_initialized, a_cspace_expand_count, a_held>>
    PROVE  Chain' /\ Exact'
<1>1. Slot!Live' = Slot!Live /\ Frontier' = Frontier
  BY Zenon DEF Slot!Live, Frontier
<1>2. Chain'
  BY Zenon, <1>1 DEF Chain
<1>3. Exact'
  BY <1>1 DEF Exact
<1>4. QED
  BY Zenon, <1>2, <1>3

(* The steps of procmgr, and those of the calls that change no segment. *)
LEMMA CallsKeep ==
    ASSUME SlotInv, NEW t \in SlotThreads,
           \/ (\E n \in 1..MaxRun : Slot!BeginAlloc(t, n)) \/ Slot!TryMissed(t) \/ Slot!DriveWait(t) \/ Slot!DriveFails(t)
           \/ Slot!AsyncExpand(t) \/ Slot!Procmgr
    PROVE  SlotInv'
<1> USE DEF SlotInv, Calls
<1>1. UNCHANGED <<a_segments, a_seg_count, a_active_seg, a_initialized, a_cspace_expand_count, a_held>>
  BY Zenon DEF Slot!BeginAlloc, Slot!TryMissed, Slot!DriveWait, Slot!DriveFails, Slot!AsyncExpand, Slot!Procmgr, Slot!Request, Slot!ProbeFails,
         Slot!ProbeFullTable, Slot!expandVars, Slot!callVars
<1>2. Chain' /\ Exact'
  BY ZenonT(60), <1>1, ChainKept
<1>3. Calls'
  <2>1. ASSUME NEW n \in 1..MaxRun, Slot!BeginAlloc(t, n)
        PROVE  Calls'
    BY <2>1 DEF Slot!BeginAlloc, Slot!SlotAllocAssumption, Slot!expandVars
  <2>2. CASE Slot!TryMissed(t)
    BY Zenon, <2>2 DEF Slot!TryMissed, Slot!expandVars
  <2>3. CASE Slot!DriveWait(t)
    BY ZenonT(60), <2>3 DEF Slot!DriveWait, Slot!Request, Slot!ProbeFails, Slot!expandVars, Slot!callVars
  <2>4. CASE Slot!DriveFails(t)
    BY Zenon, <2>4 DEF Slot!DriveFails, Slot!ProbeFullTable, Slot!expandVars, Slot!callVars
  <2>5. CASE Slot!AsyncExpand(t)
    <3>1. /\ UNCHANGED <<a_initialized, a_cspace_ntfn, a_pc, a_want, a_rounds, a_placed>>
          /\ a_expand_state' \in {"Idle", "Requested", "Failed"}
      BY Zenon, <2>5 DEF Slot!AsyncExpand, Slot!Request, Slot!ProbeFails, Slot!ProbeFullTable, Slot!expandVars, Slot!callVars
    <3>2. a_signalled' \in BOOLEAN
      BY ZenonT(60), <2>5 DEF Slot!AsyncExpand, Slot!Request, Slot!ProbeFails, Slot!ProbeFullTable
    <3>3. QED
      BY Zenon, <3>1, <3>2
  <2>6. CASE Slot!Procmgr
    <3>1. UNCHANGED <<a_expand_state, a_initialized, a_cspace_ntfn, a_pc, a_want, a_rounds>> /\ a_signalled' = FALSE
      BY Zenon, <2>6 DEF Slot!Procmgr, Slot!expandVars
    <3>2. a_placed' \in 0..MAX_CSPACE_EXPANSIONS
      BY <2>6 DEF Slot!Procmgr, Slot!SlotAllocAssumption
    <3>3. QED
      BY ZenonT(60), <3>1, <3>2
  <2>7. QED
    BY Zenon, <2>1, <2>2, <2>3, <2>4, <2>5, <2>6
<1>4. QED
  BY Zenon, <1>2, <1>3

(* The steps that give out, take back or add slots. *)
LEMMA SlotsKeep ==
    ASSUME SlotInv, NEW t \in SlotThreads,
           \/ Slot!TryFound(t) \/ Slot!slot_alloc_no_expand(t) \/ Slot!DriveDone(t) \/ Slot!AsyncGrant(t)
           \/ \E s \in a_held[t], n \in 1..MaxRun : Slot!slot_free(t, s, n)
    PROVE  SlotInv'
<1>1. CASE Slot!TryFound(t)
  <2>1. a_want[t] \in Nat \ {0}
    BY <1>1 DEF Slot!TryFound, SlotInv, Calls
  <2>2. Chain' /\ Exact'
    BY Zenon, <1>1, <2>1, GrantKeeps DEF Slot!TryFound
  <2>3. QED
    BY Zenon, <1>1, <2>2 DEF Slot!TryFound, SlotInv, Calls
<1>2. CASE Slot!slot_alloc_no_expand(t)
  <2>1. Chain' /\ Exact'
    <3>1. 1 \in Nat \ {0}
      OBVIOUS
    <3>2. Slot!Grant(t, 1) /\ UNCHANGED <<a_seg_count, a_initialized, a_cspace_expand_count>>
      BY Zenon, <1>2 DEF Slot!slot_alloc_no_expand
    <3>3. QED
      BY ZenonT(60), <3>1, <3>2, GrantKeeps
  <2>2. QED
    BY Zenon, <1>2, <2>1 DEF Slot!slot_alloc_no_expand, SlotInv, Calls
<1>3. CASE Slot!DriveDone(t)
  <2>1. Chain' /\ Exact'
    BY ZenonT(60), <1>3, RegisterKeeps, NewSegmentOK DEF Slot!DriveDone, SlotInv, Calls, Chain, Slot!MayExpand, Slot!ProbeFound, Slot!Register, Slot!callVars
  <2>2. Calls'
    BY <1>3 DEF Slot!DriveDone, SlotInv, Calls, Slot!Register, Slot!callVars, Slot!SlotAllocAssumption
  <2>3. QED
    BY Zenon, <2>1, <2>2 DEF SlotInv
<1>4. CASE Slot!AsyncGrant(t)
  <2>1. a_cspace_expand_count < MAX_CSPACE_EXPANSIONS
    BY <1>4 DEF Slot!AsyncGrant, Slot!ProbeFound, SlotInv, Calls, Chain, Slot!SlotAllocAssumption
  <2>2. Chain' /\ Exact'
    <3> DEFINE first == Slot!segment_mark_used(Slot!NewSegment, 0, 1)
    <3>1. /\ a_segments' = [a_segments EXCEPT ![a_seg_count] = first] /\ a_active_seg' = a_seg_count
          /\ a_seg_count < MAX_SEGMENTS
          /\ a_held' = [a_held EXCEPT ![t] = @ \cup {first.base}]
          /\ a_seg_count' = a_seg_count + 1 /\ a_cspace_expand_count' = a_cspace_expand_count + 1
          /\ a_initialized /\ UNCHANGED a_initialized
      BY ZenonT(60), <1>4, NewSegmentOK DEF Slot!AsyncGrant, Slot!ProbeFound, Slot!Register
    <3>2. SegOK(first) /\ first.base = Frontier /\ first.count = ExpandSlots /\ first.bits = {0}
      BY Zenon, NewSegmentOK
    <3> HIDE DEF first
    <3>3. QED
      BY ZenonT(60), <2>1, <3>1, <3>2, RegisterKeeps
  <2>3. QED
    BY Zenon, <1>4, <2>2 DEF Slot!AsyncGrant, Slot!Register, SlotInv, Calls
<1>5. ASSUME NEW s \in a_held[t], NEW n \in 1..MaxRun, Slot!slot_free(t, s, n)
      PROVE  SlotInv'
  <2>1. Chain' /\ Exact'
    BY Zenon, <1>5, FreeKeeps
  <2>2. QED
    BY Zenon, <1>5, <2>1 DEF Slot!slot_free, SlotInv, Calls
<1>6. QED
  BY Zenon, <1>1, <1>2, <1>3, <1>4, <1>5

(* slot_alloc_init cuts the range into segments that follow one another.   *)
LEMMA InitKeeps ==
    ASSUME Slot!SlotAllocAssumption, Slot!Init
    PROVE  SlotInv
<1> DEFINE M == SegmentSlots
<1>1. PICK n \in InitCounts : Slot!slot_alloc_init(n)
  BY Zenon DEF Slot!Init
<1>2. /\ n \in Nat /\ M \in Nat \ {0} /\ SlotBase \in Nat /\ ExpandBase \in Nat /\ SlotBase + n <= ExpandBase
      /\ MAX_SEGMENTS \in Nat \ {0}
  BY Zenon, <1>1 DEF Slot!SlotAllocAssumption
<1>3. Slot!Chunks(n) \in Nat /\ M * Slot!Chunks(n) <= n + M - 1 /\ (n > 0 => Slot!Chunks(n) > 0)
  <2> DEFINE y == n + M - 1
             q == y \div M
  <2>1. y \in Nat /\ q \in Nat /\ y = M * q + (y % M) /\ y % M \in 0..(M - 1)
    BY <1>2
  <2>2. Slot!Chunks(n) = q
    BY Zenon DEF Slot!Chunks
  <2> HIDE DEF q
  <2>3. M * q <= n + M - 1
    BY <1>2, <2>1
  <2>4. n > 0 => q > 0
    BY <1>2, <2>1
  <2>5. QED
    BY Zenon, <2>1, <2>2, <2>3, <2>4
<1>4. ASSUME NEW i \in Nat, i < Slot!Chunks(n)
      PROVE  i * M \in Nat /\ i * M < n
  <2>1. PICK d \in Nat : Slot!Chunks(n) = i + 1 + d
    <3> DEFINE d == Slot!Chunks(n) - i - 1
    <3>1. d \in Nat /\ Slot!Chunks(n) = i + 1 + d
      BY <1>3, <1>4
    <3>2. QED
      BY ZenonT(60), <3>1
  <2>2. M * Slot!Chunks(n) = i * M + M + M * d /\ i * M \in Nat /\ M * d \in Nat
    BY <1>2, <2>1
  <2>3. QED
    BY <1>2, <1>3, <2>2
<1>5. ASSUME NEW i \in Nat, NEW j \in Nat, i < j
      PROVE  i * M + M <= j * M
  <2>1. PICK d \in Nat : j = i + 1 + d
    BY <1>5, j - i - 1 \in Nat
  <2>2. j * M = i * M + M + M * d /\ M * d \in Nat /\ i * M \in Nat
    BY <1>2, <2>1
  <2>3. QED
    BY <1>2, <2>2
<1> HIDE DEF M
<1>6. ASSUME NEW i \in Slot!Segs
      PROVE  /\ a_segments[i].bits = {} /\ a_segments[i].used = 0 /\ a_segments[i].base \in Nat
             /\ a_segments[i] \in Slot!SegmentType
             /\ i < Slot!Chunks(n) => /\ a_segments[i].base = SlotBase + i * M
                                      /\ a_segments[i].count <= M
                                      /\ a_segments[i].base + a_segments[i].count <= SlotBase + n
             /\ i >= Slot!Chunks(n) /\ i = 0 => a_segments[i].base = SlotBase /\ a_segments[i].count = 0
  <2>1. i \in Nat
    BY <1>6 DEF Slot!Segs
  <2>2. CASE i < Slot!Chunks(n)
    <3>1. a_segments[i] = Slot!Fresh(SlotBase + i * M, Slot!Lesser(M, n - i * M))
      BY Zenon, <1>1, <1>6, <2>2 DEF Slot!slot_alloc_init, M
    <3>2. SlotBase + i * M \in Nat /\ Slot!Lesser(M, n - i * M) \in 0..M /\ SlotBase + i * M + Slot!Lesser(M, n - i * M) <= SlotBase + n
      BY <1>2, <1>4, <2>1, <2>2 DEF Slot!Lesser
    <3> DEFINE c == Slot!Lesser(M, n - i * M)
    <3>3. a_segments[i] = [base |-> SlotBase + i * M, count |-> c, alloc_hint |-> 0, used |-> 0, bits |-> {}]
      BY Zenon, <3>1 DEF Slot!Fresh
    <3>4. c \in 0..M
      BY Zenon, <3>2
    <3> HIDE DEF c
    <3>5. a_segments[i] \in Slot!SegmentType
      BY <1>2, <3>2, <3>3, <3>4 DEF Slot!SegmentType, M
    <3>6. c <= M /\ SlotBase + i * M + c <= SlotBase + n
      BY <1>2, <3>2 DEF c
    <3>7. ~(i >= Slot!Chunks(n))
      BY <1>3, <2>1, <2>2
    <3>8. QED
      BY <3>2, <3>3, <3>5, <3>6, <3>7
  <2>3. CASE i >= Slot!Chunks(n)
    <3>1. \E b \in {0, SlotBase} : a_segments[i] = Slot!Fresh(b, 0) /\ (i = 0 => b = SlotBase)
      BY <1>1, <1>2, <1>3, <1>6, <2>1, <2>3 DEF Slot!slot_alloc_init, M
    <3>2. PICK b \in Nat : a_segments[i] = [base |-> b, count |-> 0, alloc_hint |-> 0, used |-> 0, bits |-> {}]
                           /\ (i = 0 => b = SlotBase)
      BY ZenonT(60), <1>2, <3>1 DEF Slot!Fresh
    <3>3. a_segments[i] \in Slot!SegmentType
      BY <1>2, <3>2 DEF Slot!SegmentType, M
    <3>4. ~(i < Slot!Chunks(n))
      BY <1>3, <2>1, <2>3
    <3>5. QED
      BY <3>2, <3>3, <3>4
  <2>4. QED
    BY <1>3, <2>1, <2>2, <2>3
<1>7. a_segments \in [Slot!Segs -> Slot!SegmentType] /\ a_initialized \in BOOLEAN
  BY <1>1, <1>6 DEF Slot!slot_alloc_init
<1>8. /\ a_seg_count \in 0..MAX_SEGMENTS /\ (a_initialized => a_seg_count > 0)
      /\ \A i \in Slot!Live : i \in Slot!Segs /\ i \in Nat /\ (i < Slot!Chunks(n) \/ (i = 0 /\ a_seg_count = 1))
  <2>1. a_initialized <=> Slot!Chunks(n) <= MAX_SEGMENTS
    BY ZenonT(60), <1>1 DEF Slot!slot_alloc_init
  <2>2. a_seg_count = IF ~(Slot!Chunks(n) <= MAX_SEGMENTS) THEN 0 ELSE IF n = 0 THEN 1 ELSE Slot!Chunks(n)
    BY Zenon, <1>1, <2>1 DEF Slot!slot_alloc_init
  <2>3. a_seg_count \in 0..MAX_SEGMENTS /\ (a_initialized => a_seg_count > 0)
    BY <1>2, <1>3, <2>1, <2>2
  <2>4. \A i \in Slot!Live : i \in Slot!Segs /\ i \in Nat
    BY <1>2, <2>3 DEF Slot!Live, Slot!Segs
  <2>5. \A i \in Slot!Live : i < Slot!Chunks(n) \/ (i = 0 /\ a_seg_count = 1)
    BY <1>2, <1>3, <2>2 DEF Slot!Live
  <2>6. QED
    BY Zenon, <2>3, <2>4, <2>5
<1>9. a_cspace_expand_count = 0 /\ Frontier = ExpandBase
  BY <1>2 DEF Slot!Init, Frontier, Slot!SlotAllocAssumption
<1>10. \A i \in Slot!Live : SegOK(a_segments[i]) /\ a_segments[i].base + a_segments[i].count <= Frontier
  <2> SUFFICES ASSUME NEW i \in Slot!Live
               PROVE  SegOK(a_segments[i]) /\ a_segments[i].base + a_segments[i].count <= Frontier
    BY Zenon
  <2>1. a_segments[i].base + a_segments[i].count <= SlotBase + n
    BY <1>2, <1>3, <1>6, <1>8
  <2>2. a_segments[i].base \in Nat /\ a_segments[i].count \in Nat
    BY <1>6, <1>8 DEF Slot!SegmentType
  <2>3. SegOK(a_segments[i])
    BY ZenonT(60), <1>6, <1>8, FS_EmptySet DEF SegOK
  <2>4. QED
    BY <1>2, <1>9, <2>1, <2>2, <2>3
<1>11. \A i, j \in Slot!Live : i < j => a_segments[i].base + a_segments[i].count <= a_segments[j].base
  <2> SUFFICES ASSUME NEW i \in Slot!Live, NEW j \in Slot!Live, i < j
               PROVE  a_segments[i].base + a_segments[i].count <= a_segments[j].base
    OBVIOUS
  <2>1. i \in Slot!Segs /\ j \in Slot!Segs /\ i \in Nat /\ j \in Nat /\ j < Slot!Chunks(n) /\ i < Slot!Chunks(n)
    BY <1>3, <1>8
  <2>2. i * M \in Nat /\ j * M \in Nat /\ i * M + M <= j * M
    BY Zenon, <1>4, <1>5, <2>1
  <2>3. a_segments[i].count \in Nat
    BY <1>6, <2>1 DEF Slot!SegmentType
  <2>4. QED
    BY <1>2, <1>6, <2>1, <2>2, <2>3
<1>12. Chain
  <2>1. a_active_seg = 0 /\ 0 \in Slot!Segs /\ 0 \in 0..MAX_CSPACE_EXPANSIONS
    BY <1>2 DEF Slot!Init, Slot!Segs, Slot!SlotAllocAssumption
  <2>2. a_initialized => 0 \in Slot!Live
    BY <1>8 DEF Slot!Live
  <2>3. QED
    BY Zenon, <1>7, <1>8, <1>9, <1>10, <1>11, <2>1, <2>2 DEF Chain
<1>13. Exact
  BY Zenon, <1>6, <1>8 DEF Exact, Slot!Init
<1>14. Calls
  <2>1. a_cspace_ntfn \in BOOLEAN
    BY Zenon DEF Slot!Init, Slot!SlotAllocAssumption
  <2>2. 0 \in 0..MAX_CSPACE_EXPANSIONS /\ 0 \in 0..MaxRun /\ 0 \in 0..(MAX_SEGMENTS + 2)
    BY <1>2 DEF Slot!SlotAllocAssumption
  <2>3. QED
    BY ZenonT(60), <2>1, <2>2 DEF Calls, Slot!Init
<1>15. QED
  BY Zenon, <1>12, <1>13, <1>14 DEF SlotInv

(* The allocator's invariant: the chain of segments is in order, and its   *)
(* bitmaps hold what the threads hold.                                     *)
THEOREM SlotAllocInvariant ==
    ASSUME Slot!SlotAllocAssumption
    PROVE  Slot!Spec => []SlotInv
<1>1. Slot!Init => SlotInv
  BY Zenon, InitKeeps
<1>2. SlotInv /\ [Slot!Next]_Slot!slotVars => SlotInv'
  <2> SUFFICES ASSUME SlotInv, [Slot!Next]_Slot!slotVars PROVE SlotInv'
    BY Zenon
  <2>1. CASE UNCHANGED Slot!slotVars
    BY <2>1 DEF Slot!slotVars, SlotInv, Chain, Exact, Calls, Slot!Live, Frontier
  <2>2. CASE Slot!Procmgr /\ SlotThreads = {}
    <3>1. Chain' /\ Exact'
      BY Zenon, <2>2, ChainKept DEF Slot!Procmgr, Slot!expandVars, SlotInv
    <3>2. Calls'
      <4>1. UNCHANGED <<a_expand_state, a_initialized, a_cspace_ntfn, a_pc, a_want, a_rounds>> /\ a_signalled' = FALSE
        BY Zenon, <2>2 DEF Slot!Procmgr, Slot!expandVars
      <4>2. a_placed' \in 0..MAX_CSPACE_EXPANSIONS
        BY <2>2 DEF Slot!Procmgr, SlotInv, Calls, Slot!SlotAllocAssumption
      <4>3. QED
        BY ZenonT(60), <4>1, <4>2 DEF SlotInv, Calls
    <3>3. QED
      BY Zenon, <3>1, <3>2 DEF SlotInv
  <2>3. ASSUME NEW t \in SlotThreads, Slot!Next
        PROVE  SlotInv'
    <3>1. \A u \in SlotThreads : Slot!slot_alloc(u) => Slot!BeginAlloc(u, 1) /\ 1 \in 1..MaxRun
      BY DEF Slot!slot_alloc, SlotInv, Slot!SlotAllocAssumption
    <3>2. \A u \in SlotThreads : \A n \in 2..MaxRun : Slot!slot_alloc_consecutive(u, n) => Slot!BeginAlloc(u, n) /\ n \in 1..MaxRun
      BY DEF Slot!slot_alloc_consecutive
    <3>3. QED
      BY ZenonT(60), <2>3, <3>1, <3>2, CallsKeep, SlotsKeep DEF Slot!Next, Slot!Progress
  <2>4. QED
    BY Zenon, <2>1, <2>2, <2>3 DEF Slot!Next
<1>3. QED
  BY <1>1, <1>2, PTL DEF Slot!Spec

(* No slot is handed out twice at once or lost, and the segments are       *)
(* disjoint with their counters right, for every sequence of calls of      *)
(* slot_alloc, slot_alloc_consecutive, slot_alloc_async, slot_free and     *)
(* slot_free_range by any number of threads.                               *)
THEOREM SlotsExact ==
    ASSUME Slot!SlotAllocAssumption
    PROVE  Slot!Spec => [](Slot!NoDoubleHandOut /\ Slot!SegmentsConsistent /\ Slot!TypeOK)
<1>1. SlotInv => Slot!NoDoubleHandOut
  <2> SUFFICES ASSUME SlotInv PROVE Slot!NoDoubleHandOut
    BY Zenon
  <2>1. ASSUME NEW s, s \in UNION {Slot!Marked(a_segments[i]) : i \in Slot!Live}
        PROVE  s \in UNION {a_held[t] : t \in SlotThreads}
    <3>1. PICK i \in Slot!Live : s \in Slot!Marked(a_segments[i])
      BY Zenon, <2>1
    <3>2. PICK k \in a_segments[i].bits : s = a_segments[i].base + k
      BY Zenon, <3>1 DEF Slot!Marked
    <3>3. QED
      BY <3>1, <3>2 DEF SlotInv, Exact
  <2>2. ASSUME NEW s, s \in UNION {a_held[t] : t \in SlotThreads}
        PROVE  s \in UNION {Slot!Marked(a_segments[i]) : i \in Slot!Live}
    <3>1. PICK t \in SlotThreads : s \in a_held[t]
      BY Zenon, <2>2
    <3>2. PICK i \in Slot!Live : \E k \in a_segments[i].bits : s = a_segments[i].base + k
      BY Zenon, <3>1 DEF SlotInv, Exact
    <3>3. s \in Slot!Marked(a_segments[i])
      BY Zenon, <3>2 DEF Slot!Marked
    <3>4. QED
      BY Zenon, <3>2, <3>3
  <2>3. QED
    BY ZenonT(60), <2>1, <2>2 DEF Slot!NoDoubleHandOut, SlotInv, Exact
<1>2. SlotInv => Slot!SegmentsConsistent
  <2> SUFFICES ASSUME SlotInv PROVE Slot!SegmentsConsistent
    BY Zenon
  <2>1. \A i \in Slot!Live : /\ i \in Nat /\ a_segments[i].base \in Nat /\ a_segments[i].count \in Nat
                             /\ a_segments[i].bits \subseteq 0..(a_segments[i].count - 1)
                             /\ a_segments[i].used = Cardinality(a_segments[i].bits)
    BY DEF SlotInv, Chain, SegOK, Slot!SegmentType, Slot!Live
  <2>2. ASSUME NEW i \in Slot!Live, NEW j \in Slot!Live, i # j
        PROVE  Slot!Covers(a_segments[i]) \cap Slot!Covers(a_segments[j]) = {}
    <3>1. i < j \/ j < i
      BY <2>1, <2>2
    <3>2. QED
      BY <2>1, <3>1 DEF SlotInv, Chain, Slot!Covers
  <2>3. QED
    BY Zenon, <2>1, <2>2, SlotCounts DEF Slot!SegmentsConsistent
<1>3. SlotInv => Slot!TypeOK
  BY Zenon DEF SlotInv, Chain, Exact, Calls, Slot!TypeOK
<1>4. QED
  BY <1>1, <1>2, <1>3, SlotAllocInvariant, PTL

(* Going round the chain from active_seg meets every segment. *)
LEMMA RoundTheChain ==
    ASSUME NEW c \in Nat \ {0}, NEW a \in 0..(c - 1), NEW i \in 0..(c - 1)
    PROVE  \E off \in 0..(c - 1) : (a + off) % c = i
<1>1. i % c = i /\ (i + c) % c = i
  OBVIOUS
<1>2. CASE i >= a
  <2>1. i - a \in 0..(c - 1) /\ a + (i - a) = i
    BY <1>2
  <2>2. QED
    BY ZenonT(60), <1>1, <2>1
<1>3. CASE i < a
  <2>1. i + c - a \in 0..(c - 1) /\ a + (i + c - a) = i + c
    BY <1>3
  <2>2. QED
    BY ZenonT(60), <1>1, <2>1
<1>4. QED
  BY <1>2, <1>3

(* A segment with a free run of n slots passes the test on its counter. *)
LEMMA RunIsServed ==
    ASSUME Slot!SlotAllocAssumption, NEW seg, SegOK(seg), NEW n \in Nat \ {0}, NEW i \in Slot!RunStarts(seg, n)
    PROVE  Slot!Serves(seg, n)
<1>1. seg \in Slot!SegmentType /\ i \in Slot!FreeIn(seg) /\ i \in Nat
      /\ \A k \in 0..(n - 1) : i + k \in Slot!FreeIn(seg)
  BY DEF SegOK, Slot!RunStarts, Slot!FreeIn
<1>2. SegOK(Slot!segment_mark_used(seg, i, n))
      /\ Slot!segment_mark_used(seg, i, n).count = seg.count
  BY ZenonT(60), <1>1, MarkUsed
<1>3. Slot!segment_mark_used(seg, i, n).used = seg.used + n
  BY Zenon, <1>1 DEF Slot!segment_mark_used, Slot!SegmentType
<1>4. ASSUME NEW s, SegOK(s)
      PROVE  s.used <= s.count
  <2>1. s.bits \subseteq 0..(s.count - 1) /\ s.count \in Nat /\ s.used = Cardinality(s.bits)
    BY <1>4 DEF SegOK, Slot!SegmentType
  <2>2. 0 \in Int /\ s.count - 1 \in Int /\ s.count - 1 - 0 + 1 = s.count /\ (0 > s.count - 1 => s.count = 0)
    BY <2>1
  <2>3. IsFiniteSet(0..(s.count - 1)) /\ Cardinality(0..(s.count - 1)) = s.count
    BY ZenonT(60), <2>2, FS_Interval
  <2>4. QED
    BY <2>1, <2>3, FS_Subset
<1>5. seg.used + n <= seg.count
  BY Zenon, <1>2, <1>3, <1>4
<1>6. QED
  BY Zenon, <1>1, <1>5 DEF Slot!Serves

(* A blocking allocation goes to procmgr only when no segment has a free   *)
(* run of the size asked for: the scan by counter and hint, from           *)
(* active_seg and round, misses nothing.                                   *)
THEOREM MissesMeanFull ==
    ASSUME Slot!SlotAllocAssumption
    PROVE  Slot!Spec => Slot!MissMeansFull
<1> DEFINE Step == \A t \in SlotThreads :
                      a_pc[t] = "try" /\ a_pc'[t] = "drive" =>
                          \A i \in Slot!Live : Slot!RunStarts(a_segments[i], a_want[t]) = {}
<1>1. ASSUME SlotInv, NEW t \in SlotThreads, Slot!TryMissed(t), NEW i \in Slot!Live
      PROVE  Slot!RunStarts(a_segments[i], a_want[t]) = {}
  <2>1. a_want[t] \in Nat \ {0} /\ a_initialized
    BY <1>1 DEF SlotInv, Calls, Slot!TryMissed
  <2>2. a_seg_count \in Nat \ {0} /\ a_active_seg \in 0..(a_seg_count - 1)
    BY <1>1, <2>1 DEF SlotInv, Chain, Slot!Live
  <2>3. PICK off \in 0..(a_seg_count - 1) : (a_active_seg + off) % a_seg_count = i
    BY ZenonT(60), <1>1, <2>2, RoundTheChain DEF Slot!Live
  <2>4. ~Slot!Serves(a_segments[i], a_want[t])
    BY Zenon, <1>1, <2>3 DEF Slot!TryMissed, Slot!Candidates, Slot!Live
  <2>5. QED
    BY Zenon, <1>1, <2>1, <2>4, RunIsServed DEF SlotInv, Chain
<1>2. ASSUME SlotInv, [Slot!Next]_Slot!slotVars, NEW t \in SlotThreads, a_pc[t] = "try", a_pc'[t] = "drive"
      PROVE  Slot!TryMissed(t)
  <2> USE <1>2 DEF SlotInv, Calls
  <2>1. ~UNCHANGED a_pc
    BY Zenon, <1>2
  <2>2. PICK u \in SlotThreads : \/ (\E n \in 1..MaxRun : Slot!BeginAlloc(u, n)) \/ Slot!TryFound(u) \/ Slot!TryMissed(u)
                                 \/ Slot!DriveDone(u) \/ Slot!DriveFails(u)
    <3>1. \A u \in SlotThreads : ~Slot!DriveWait(u) /\ ~Slot!slot_alloc_no_expand(u) /\ ~Slot!AsyncExpand(u) /\ ~Slot!AsyncGrant(u)
                              /\ \A s, n : ~Slot!slot_free(u, s, n)
      BY Zenon, <2>1 DEF Slot!DriveWait, Slot!slot_alloc_no_expand, Slot!AsyncExpand, Slot!AsyncGrant, Slot!slot_free
    <3>2. Slot!Next /\ ~Slot!Procmgr
      BY Zenon, <2>1 DEF Slot!slotVars, Slot!Procmgr
    <3>3. 1 \in 1..MaxRun /\ 2..MaxRun \subseteq 1..MaxRun
      BY DEF Slot!SlotAllocAssumption
    <3> HIDE DEF SlotInv, Calls
    <3>4. QED
      BY ZenonT(60), <3>1, <3>2, <3>3 DEF Slot!Next, Slot!Progress, Slot!slot_alloc, Slot!slot_alloc_consecutive
  <2>3. CASE u # t
    BY Zenon, <2>2, <2>3 DEF Slot!BeginAlloc, Slot!TryFound, Slot!TryMissed, Slot!DriveDone, Slot!DriveFails
  <2>4. CASE u = t
    BY Zenon, <2>2, <2>4 DEF Slot!BeginAlloc, Slot!TryFound, Slot!TryMissed, Slot!DriveDone, Slot!DriveFails
  <2>5. QED
    BY Zenon, <2>3, <2>4
<1>3. SlotInv /\ [Slot!Next]_Slot!slotVars => [Step]_Slot!slotVars
  BY Zenon, <1>1, <1>2
<1>4. QED
  BY <1>3, SlotAllocInvariant, PTL DEF Slot!Spec, Slot!MissMeansFull
=============================================================================
