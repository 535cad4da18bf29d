----------------------------- MODULE ProcessSystem --------------------------
(***************************************************************************)
(* What one process keeps for itself: its address-space layout, the        *)
(* objects its dynamic linker loads, its capability table and the table of *)
(* the requests it has deferred, side by side. They share no state.        *)
(***************************************************************************)
EXTENDS Integers, Sequences, FiniteSets

CONSTANTS
    ElfSpans, RtldSpans, LibPages, InitrdSizes, CodeSlides, StackSlides,
    CnodeBits, FrameFloors,
    Programs, RTLD_MAX_OBJECTS, frame_slot_base, alloc_limit, LinkFailures,
    SystemRoles, OtherRoles, CapSlots, MAX_CAP_TABLE_ENTRIES, SlotMax, MaxPushes,
    PendingEntries, IdMod, Contexts, Deadlines, MaxAllocs

VARIABLES
    v_plan, v_cspace, r_program, r_objects, r_base, r_lib_load_addr,
    r_processed, r_di, r_next_frame_slot, r_alloc_base, r_relocated,
    r_constructed, r_phase, k_entries, k_pushed, k_page, k_symbol, k_phase,
    q_entries, q_next_id, q_serials, q_ids, q_completed

VmVars ==
    <<v_plan, v_cspace>>

LinkVars ==
    <<r_program, r_objects, r_base, r_lib_load_addr, r_processed, r_di, r_next_frame_slot,
    r_alloc_base, r_relocated, r_constructed, r_phase>>

CapVars ==
    <<k_entries, k_pushed, k_page, k_symbol, k_phase>>

PendingVars ==
    <<q_entries, q_next_id, q_serials, q_ids, q_completed>>

-----------------------------------------------------------------------------
Vm == INSTANCE VmLayout
    WITH plan <- v_plan, cspace <- v_cspace

Link == INSTANCE Rtld
    WITH MaxFailures <- LinkFailures, program <- r_program,
         objects <- r_objects, base <- r_base, lib_load_addr <- r_lib_load_addr,
         processed <- r_processed, di <- r_di,
         next_frame_slot <- r_next_frame_slot, alloc_base <- r_alloc_base,
         relocated <- r_relocated, constructed <- r_constructed,
         phase <- r_phase

Cap == INSTANCE CapTable
    WITH Slots <- CapSlots, entries <- k_entries, pushed <- k_pushed,
         page <- k_page, symbol <- k_symbol, phase <- k_phase

Pending == INSTANCE PendingTable
    WITH N <- PendingEntries, entries <- q_entries, next_id <- q_next_id,
         serials <- q_serials, ids <- q_ids, completed <- q_completed
=============================================================================
