----------------------------- MODULE SlotService ----------------------------
(***************************************************************************)
(* The slot allocator as a part of the substrate.                          *)
(***************************************************************************)
EXTENDS Integers, FiniteSets

CONSTANTS
    SlotThreads, InitCounts, SegmentSlots, SlotBase, Ntfns, MAX_SEGMENTS,
    MAX_CSPACE_EXPANSIONS, ExpandBase, ExpandSlots, MaxRun

VARIABLES
    a_segments, a_seg_count, a_active_seg, a_initialized, a_cspace_ntfn,
    a_expand_state, a_cspace_expand_count, a_pc, a_want, a_rounds, a_held,
    a_signalled, a_placed

SlotVars ==
    <<a_segments, a_seg_count, a_active_seg, a_initialized, a_cspace_ntfn,
      a_expand_state, a_cspace_expand_count, a_pc, a_want, a_rounds,
      a_held, a_signalled, a_placed>>

-----------------------------------------------------------------------------
Slot == INSTANCE SlotAlloc
    WITH Threads <- SlotThreads, Base <- SlotBase,
         MAX_SEGMENT_SLOTS <- SegmentSlots, segments <- a_segments,
         seg_count <- a_seg_count, active_seg <- a_active_seg,
         initialized <- a_initialized, cspace_ntfn <- a_cspace_ntfn,
         expand_state <- a_expand_state,
         cspace_expand_count <- a_cspace_expand_count, pc <- a_pc,
         want <- a_want, rounds <- a_rounds, held <- a_held,
         signalled <- a_signalled, placed <- a_placed
=============================================================================
