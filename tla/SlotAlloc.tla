----------------------------- MODULE SlotAlloc ------------------------------
(***************************************************************************)
(* The per-process capability-slot allocator of substrate/slot_alloc.rs:   *)
(* segments with a bitmap and a scan hint, single and contiguous           *)
(* allocation, free, and the CSpace expansion protocol with procmgr.       *)
(*                                                                         *)
(* Every section the code runs under SLOT_LOCK is one step.  The blocking  *)
(* calls take the lock several times, and other threads run in between.    *)
(* procmgr is external: some time after a signal it places the next        *)
(* sub-CNode, which a probe then finds.                                    *)
(***************************************************************************)
EXTENDS Integers, FiniteSets

CONSTANTS Threads,
          Base,                   \* first slot of the initial range
          InitCounts,             \* the sizes slot_alloc_init is called with
          Ntfns,                  \* {TRUE} and/or {FALSE}: is there a cspace_ntfn
          MAX_SEGMENTS,           \* 16 in the code
          MAX_SEGMENT_SLOTS,      \* 4096
          MAX_CSPACE_EXPANSIONS,  \* 8
          ExpandBase,             \* CSPACE_EXPAND_BASE << SLOT_EXPAND_BITS_DEFAULT
          ExpandSlots,            \* 1 << SLOT_EXPAND_BITS_DEFAULT
          MaxRun                  \* bound on the size of a contiguous request

SlotAllocAssumption ==
    /\ Base \in Nat \ {0} /\ ExpandBase \in Nat
    /\ InitCounts \subseteq Nat /\ Ntfns \subseteq BOOLEAN
    /\ \A n \in InitCounts : Base + n <= ExpandBase
    /\ MAX_SEGMENTS \in Nat \ {0} /\ MAX_SEGMENT_SLOTS \in Nat \ {0}
    /\ MAX_CSPACE_EXPANSIONS \in Nat
    /\ ExpandSlots \in 1..MAX_SEGMENT_SLOTS
    /\ MaxRun \in Nat \ {0}

VARIABLES segments, seg_count, active_seg, initialized, cspace_ntfn,
          expand_state,         \* "Idle", "Requested" or "Failed"
          cspace_expand_count,
          pc,                   \* "idle", "try" or "drive"
          want,                 \* the count the call in progress asks for
          rounds,               \* rounds left of its bounded loop
          held,                 \* history: the slots each thread was given and kept
          signalled,            \* procmgr's notification is pending
          placed                \* sub-CNodes procmgr has placed

slotVars == <<segments, seg_count, active_seg, initialized, cspace_ntfn, expand_state,
              cspace_expand_count, pc, want, rounds, held, signalled, placed>>

Segs == 0..(MAX_SEGMENTS - 1)

Least(S) == CHOOSE x \in S : \A y \in S : x <= y

Lesser(a, b) == IF a < b THEN a ELSE b

Fresh(base, count) ==
    [base |-> base, count |-> count, alloc_hint |-> 0, used |-> 0, bits |-> {}]

(* slot_alloc_init cuts the range into segments of at most                 *)
(* MAX_SEGMENT_SLOTS; a range too long for the table leaves the allocator  *)
(* uninitialised.                                                          *)
Chunks(count) == (count + MAX_SEGMENT_SLOTS - 1) \div MAX_SEGMENT_SLOTS

slot_alloc_init(count) ==
    /\ initialized = (Chunks(count) <= MAX_SEGMENTS)
    /\ segments = [i \in Segs |->
          IF i < Chunks(count)
          THEN Fresh(Base + i * MAX_SEGMENT_SLOTS,
                     Lesser(MAX_SEGMENT_SLOTS, count - i * MAX_SEGMENT_SLOTS))
          ELSE IF i = 0 THEN Fresh(Base, 0) ELSE Fresh(0, 0)]
    /\ seg_count = IF ~initialized THEN 0 ELSE IF count = 0 THEN 1 ELSE Chunks(count)

Init ==
    /\ \E count \in InitCounts : slot_alloc_init(count)
    /\ active_seg = 0
    /\ cspace_ntfn \in Ntfns
    /\ expand_state = "Idle"
    /\ cspace_expand_count = 0
    /\ pc = [t \in Threads |-> "idle"]
    /\ want = [t \in Threads |-> 0]
    /\ rounds = [t \in Threads |-> 0]
    /\ held = [t \in Threads |-> {}]
    /\ signalled = FALSE
    /\ placed = 0

-----------------------------------------------------------------------------
(* One segment.                                                            *)

FreeIn(seg) == {i \in 0..(seg.count - 1) : i \notin seg.bits}

(* segment_alloc_single scans from the hint to the end, then from 0.       *)
SingleIndex(seg) ==
    LET start == Lesser(seg.alloc_hint, seg.count)
        above == {i \in FreeIn(seg) : i >= start}
    IN  IF above # {} THEN Least(above) ELSE Least(FreeIn(seg))

(* The starts of the free runs of n that segment_alloc_contiguous looks    *)
(* for; it takes the lowest.                                               *)
RunStarts(seg, n) == {i \in FreeIn(seg) : \A k \in 0..(n - 1) : i + k \in FreeIn(seg)}

(* Mistaken form: the scan for one slot does not go round. *)
ServesAboveHint(seg, n) ==
    /\ seg.used + n <= seg.count
    /\ IF n = 1 THEN \E i \in FreeIn(seg) : i >= seg.alloc_hint ELSE RunStarts(seg, n) # {}

(* Whether a segment can serve a request for n slots, as the code decides: *)
(* by the counter first, then by the bitmap.                               *)
Serves(seg, n) ==
    /\ seg.used + n <= seg.count
    /\ IF n = 1 THEN FreeIn(seg) # {} ELSE RunStarts(seg, n) # {}

Start(seg, n) == IF n = 1 THEN SingleIndex(seg) ELSE Least(RunStarts(seg, n))

(* Mistaken form: only the first slot of a run is marked. *)
MarkFirst(seg, i, n) ==
    [seg EXCEPT !.bits = @ \cup {i}, !.used = @ + n, !.alloc_hint = i + n]

segment_mark_used(seg, i, n) ==
    [seg EXCEPT !.bits = @ \cup (i..(i + n - 1)), !.used = @ + n, !.alloc_hint = i + n]

(* Every slot of `back`, in any order: the counter saturates at 0, and the *)
(* hint goes back to the lowest.                                           *)
segment_free(seg, back) ==
    [seg EXCEPT !.bits = @ \ back,
                !.used = IF @ <= Cardinality(back) THEN 0 ELSE @ - Cardinality(back),
                !.alloc_hint = Least(back \cup {@})]

-----------------------------------------------------------------------------
(* The segment chain, scanned from active_seg and round.                   *)

Live == 0..(seg_count - 1)

Candidates(n) ==
    {off \in Live : Serves(segments[(active_seg + off) % seg_count], n)}

Chosen(n) == (active_seg + Least(Candidates(n))) % seg_count

(* alloc_single_locked and slot_alloc_consecutive_fast, when they succeed. *)
Grant(t, n) ==
    /\ initialized
    /\ Candidates(n) # {}
    /\ LET si == Chosen(n)
           i == Start(segments[si], n)
       IN  /\ segments' = [segments EXCEPT ![si] = segment_mark_used(@, i, n)]
           /\ active_seg' = si
           /\ held' = [held EXCEPT ![t] =
                          @ \cup {segments[si].base + i + k : k \in 0..(n - 1)}]

(* The expansion protocol: signal, then probe until the sub-CNode is there *)
(* and register it as a new segment.                                       *)
expandVars == <<segments, seg_count, active_seg, expand_state, cspace_expand_count>>

Request ==
    /\ expand_state = "Idle"
    /\ signalled' = TRUE
    /\ expand_state' = "Requested"
    /\ UNCHANGED <<segments, seg_count, active_seg, cspace_expand_count>>

ProbeFails ==
    /\ expand_state = "Requested"
    /\ placed <= cspace_expand_count
    /\ signalled' = (signalled \/ cspace_ntfn)
    /\ UNCHANGED expandVars

ProbeFullTable ==
    /\ expand_state = "Requested"
    /\ placed > cspace_expand_count
    /\ seg_count >= MAX_SEGMENTS
    /\ expand_state' = "Failed"
    /\ UNCHANGED <<segments, seg_count, active_seg, cspace_expand_count, signalled>>

ProbeFound == expand_state = "Requested" /\ placed > cspace_expand_count /\ seg_count < MAX_SEGMENTS

NewSegment == Fresh(ExpandBase + cspace_expand_count * ExpandSlots, ExpandSlots)

Register ==
    /\ seg_count' = seg_count + 1
    /\ cspace_expand_count' = cspace_expand_count + 1
    /\ expand_state' = "Idle"
    /\ UNCHANGED signalled

-----------------------------------------------------------------------------
(* slot_alloc and slot_alloc_consecutive. *)
BeginAlloc(t, n) ==
    /\ pc[t] = "idle" /\ initialized
    /\ pc' = [pc EXCEPT ![t] = "try"]
    /\ want' = [want EXCEPT ![t] = n]
    /\ rounds' = [rounds EXCEPT ![t] = MAX_SEGMENTS + 2]
    /\ UNCHANGED <<expandVars, initialized, cspace_ntfn, held, signalled, placed>>

slot_alloc(t) == BeginAlloc(t, 1)

slot_alloc_consecutive(t, n) == n > 1 /\ BeginAlloc(t, n)

TryFound(t) ==
    /\ pc[t] = "try"
    /\ Grant(t, want[t])
    /\ pc' = [pc EXCEPT ![t] = "idle"]
    /\ UNCHANGED <<seg_count, initialized, cspace_ntfn, expand_state, cspace_expand_count,
                   want, rounds, signalled, placed>>

TryMissed(t) ==
    /\ pc[t] = "try"
    /\ Candidates(want[t]) = {}
    /\ pc' = [pc EXCEPT ![t] = "drive"]
    /\ UNCHANGED <<expandVars, initialized, cspace_ntfn, want, rounds, held, signalled, placed>>

callVars == <<initialized, cspace_ntfn, want, held, placed>>

MayExpand == cspace_ntfn /\ cspace_expand_count < MAX_CSPACE_EXPANSIONS

(* drive_cspace_expand_blocking, one turn of its loop each. *)
DriveWait(t) ==
    /\ pc[t] = "drive" /\ MayExpand
    /\ Request \/ ProbeFails
    /\ UNCHANGED <<callVars, pc, rounds>>

DriveDone(t) ==
    /\ pc[t] = "drive" /\ MayExpand
    /\ ProbeFound
    /\ segments' = [segments EXCEPT ![seg_count] = NewSegment]
    /\ active_seg' = seg_count
    /\ Register
    /\ rounds' = [rounds EXCEPT ![t] = @ - 1]
    /\ pc' = [pc EXCEPT ![t] = IF rounds[t] = 1 THEN "idle" ELSE "try"]
    /\ UNCHANGED callVars

(* Mistaken form: the loop has no exit at the expansion limit. *)
DriveFailsLate(t) ==
    /\ pc[t] = "drive"
    /\ \/ MayExpand /\ ProbeFullTable
       \/ expand_state = "Failed" /\ UNCHANGED <<expandVars, signalled>>
    /\ pc' = [pc EXCEPT ![t] = "idle"]
    /\ UNCHANGED <<callVars, rounds>>

(* The call returns None. *)
DriveFails(t) ==
    /\ pc[t] = "drive"
    /\ \/ MayExpand /\ ProbeFullTable
       \/ /\ ~MayExpand \/ expand_state = "Failed"
          /\ UNCHANGED <<expandVars, signalled>>
    /\ pc' = [pc EXCEPT ![t] = "idle"]
    /\ UNCHANGED <<callVars, rounds>>

(* slot_alloc_no_expand, and slot_alloc_async on its fast path. *)
slot_alloc_no_expand(t) ==
    /\ pc[t] = "idle"
    /\ Grant(t, 1)
    /\ UNCHANGED <<seg_count, initialized, cspace_ntfn, expand_state, cspace_expand_count,
                   pc, want, rounds, signalled, placed>>

(* slot_alloc_async with every segment full: WouldBlock while a request is *)
(* outstanding (whatever the number of expansions), Exhausted, or a slot   *)
(* of the segment the probe has found.                                     *)
AsyncExpand(t) ==
    /\ pc[t] = "idle" /\ initialized
    /\ Candidates(1) = {}
    /\ (MayExpand /\ Request) \/ ProbeFails \/ ProbeFullTable
    /\ UNCHANGED <<callVars, pc, rounds>>

AsyncGrant(t) ==
    /\ pc[t] = "idle" /\ initialized
    /\ Candidates(1) = {}
    /\ ProbeFound
    /\ segments' = [segments EXCEPT ![seg_count] = segment_mark_used(NewSegment, 0, 1)]
    /\ active_seg' = seg_count
    /\ Register
    /\ held' = [held EXCEPT ![t] = @ \cup {NewSegment.base}]
    /\ UNCHANGED <<initialized, cspace_ntfn, pc, want, rounds, placed>>

Covers(seg) == seg.base..(seg.base + seg.count - 1)

(* slot_free_locked: what it takes back from segment i, the first segment  *)
(* that covers the slot; a slot that is not marked is left alone.          *)
Returned(i, slots) ==
    {k \in segments[i].bits :
        LET s == segments[i].base + k
        IN  /\ s \in slots \cap Covers(segments[i])
            /\ \A j \in 0..(i - 1) : s \notin Covers(segments[j])}

(* slot_free (n = 1) and slot_free_range, of slots this thread was given.  *)
(* active_seg falls back to the lowest segment that got a slot back.       *)
slot_free(t, first, n) ==
    LET slots == first..(first + n - 1)
    IN
    /\ pc[t] = "idle"
    /\ slots \subseteq held[t]
    /\ segments' = [i \in Segs |-> IF i \in Live THEN segment_free(segments[i], Returned(i, slots))
                                   ELSE segments[i]]
    /\ active_seg' = Least({i \in Live : Returned(i, slots) # {}} \cup {active_seg})
    /\ held' = [held EXCEPT ![t] = @ \ slots]
    /\ UNCHANGED <<seg_count, initialized, cspace_ntfn, expand_state, cspace_expand_count,
                   pc, want, rounds, signalled, placed>>

(* procmgr answers its notification: the next sub-CNode is in place. *)
Procmgr ==
    /\ signalled
    /\ signalled' = FALSE
    /\ placed' = IF placed < MAX_CSPACE_EXPANSIONS THEN placed + 1 ELSE placed
    /\ UNCHANGED <<expandVars, initialized, cspace_ntfn, pc, want, rounds, held>>

-----------------------------------------------------------------------------
Progress(t) == TryFound(t) \/ TryMissed(t) \/ DriveWait(t) \/ DriveDone(t) \/ DriveFails(t)

Next ==
    \/ \E t \in Threads :
          \/ slot_alloc(t) \/ Progress(t) \/ slot_alloc_no_expand(t)
          \/ AsyncExpand(t) \/ AsyncGrant(t)
          \/ \E n \in 2..MaxRun : slot_alloc_consecutive(t, n)
          \/ \E s \in held[t], n \in 1..MaxRun : slot_free(t, s, n)
    \/ Procmgr

Spec == Init /\ [][Next]_slotVars

(* Threads inside a call keep running and procmgr serves its notification. *)
FairSpec ==
    /\ Spec
    /\ \A t \in Threads : WF_slotVars(Progress(t))
    /\ WF_slotVars(Procmgr)
-----------------------------------------------------------------------------
(* Properties *)

SegmentType ==
    [base : Nat, count : 0..MAX_SEGMENT_SLOTS, alloc_hint : 0..MAX_SEGMENT_SLOTS,
     used : 0..MAX_SEGMENT_SLOTS, bits : SUBSET (0..(MAX_SEGMENT_SLOTS - 1))]

TypeOK ==
    /\ segments \in [Segs -> SegmentType]
    /\ seg_count \in 0..MAX_SEGMENTS
    /\ active_seg \in Segs
    /\ initialized \in BOOLEAN /\ cspace_ntfn \in BOOLEAN
    /\ expand_state \in {"Idle", "Requested", "Failed"}
    /\ cspace_expand_count \in 0..MAX_CSPACE_EXPANSIONS
    /\ pc \in [Threads -> {"idle", "try", "drive"}]
    /\ want \in [Threads -> 0..MaxRun]
    /\ rounds \in [Threads -> 0..(MAX_SEGMENTS + 2)]
    /\ held \in [Threads -> SUBSET Nat]
    /\ signalled \in BOOLEAN
    /\ placed \in 0..MAX_CSPACE_EXPANSIONS

Marked(seg) == {seg.base + i : i \in seg.bits}

(* No slot is handed to two threads at once, whichever of the allocation   *)
(* functions they call, and the bitmaps mark exactly the slots in use: a   *)
(* slot is neither handed out twice nor lost.                              *)
NoDoubleHandOut ==
    /\ \A t, u \in Threads : t # u => held[t] \cap held[u] = {}
    /\ UNION {Marked(segments[i]) : i \in Live} = UNION {held[t] : t \in Threads}

(* The segments never overlap, the initial ones and the probed ones alike, *)
(* so the first segment that covers a slot is the one it came from; and    *)
(* the used counter that segment_alloc_single trusts is the population     *)
(* count of the bitmap.                                                    *)
SegmentsConsistent ==
    /\ \A i, j \in Live : i # j => Covers(segments[i]) \cap Covers(segments[j]) = {}
    /\ \A i \in Live : /\ segments[i].bits \subseteq 0..(segments[i].count - 1)
                       /\ segments[i].used = Cardinality(segments[i].bits)

(* The scan from the hint and round misses nothing: a blocking request     *)
(* goes to procmgr only when no segment has a free run of that size.       *)
MissMeansFull ==
    [][\A t \in Threads :
          pc[t] = "try" /\ pc'[t] = "drive" =>
              \A i \in Live : RunStarts(segments[i], want[t]) = {}]_slotVars

(* The bounded retry loops and the unbounded probe loop come back, as long *)
(* as procmgr serves its notification.                                     *)
AllocReturns == \A t \in Threads : ~<>[](pc[t] # "idle")
=============================================================================
