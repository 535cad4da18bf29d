----------------------------- MODULE CallSystem -----------------------------
(***************************************************************************)
(* What crosses to the servers: bulk file I/O, signals, the POSIX wrappers *)
(* that send again and the resolver's endpoint, side by side.  They share  *)
(* no state.                                                               *)
(***************************************************************************)
EXTENDS Integers, Sequences, FiniteSets

CONSTANTS
    FileThreads, FileCalls, BulkChunk, Threshold, FileSize, FileFaults,
    Sigs, Terminating, MaskSets, MaxDepth, MaxRaised, MaxChanged,
    MaxInterrupts,
    DnsThreads, DnsSlots, DnsFailures

VARIABLES
    f_cursor, f_shm, f_BULK_SHM_STATE, f_BULK_SHM_ADDR, f_vfs_mapped,
    f_mappings, f_pc, f_call, f_total, f_buf, f_moved, f_cut, f_mixed,
    f_spoiled, f_faults, __sig_handlers, __sig_blocked_mask, __sig_sa_mask,
    s_resethand, s_restart, __sig_last_restart, s_procmgr, s_pending, s_stack,
    s_own_mask, s_owed, s_broken_off, s_raised, s_changed, s_exited, c_call,
    c_phase, c_object, c_first, c_late, c_result, c_interrupts, d_DNSSRV_EP,
    d_DNSSRV_LOOKUP_SLOT, d_free, d_cap, d_pc, d_ep_slot, d_answer,
    d_overlapped, d_failures

FileVars ==
    <<f_cursor, f_shm, f_BULK_SHM_STATE, f_BULK_SHM_ADDR, f_vfs_mapped, f_mappings, f_pc,
    f_call, f_total, f_buf, f_moved, f_cut, f_mixed, f_spoiled, f_faults>>

SigVars ==
    <<__sig_handlers, __sig_blocked_mask, __sig_sa_mask, s_resethand, s_restart,
    __sig_last_restart, s_procmgr, s_pending, s_stack, s_own_mask, s_owed, s_broken_off,
    s_raised, s_changed, s_exited>>

CallVars ==
    <<c_call, c_phase, c_object, c_first, c_late, c_result, c_interrupts>>

DnsVars ==
    <<d_DNSSRV_EP, d_DNSSRV_LOOKUP_SLOT, d_free, d_cap, d_pc, d_ep_slot, d_answer, d_overlapped,
    d_failures>>

-----------------------------------------------------------------------------
File == INSTANCE FileIO
    WITH Threads <- FileThreads, Calls <- FileCalls, MaxFaults <- FileFaults,
         cursor <- f_cursor, shm <- f_shm, BULK_SHM_STATE <- f_BULK_SHM_STATE,
         BULK_SHM_ADDR <- f_BULK_SHM_ADDR, vfs_mapped <- f_vfs_mapped,
         mappings <- f_mappings, pc <- f_pc, call <- f_call, total <- f_total,
         buf <- f_buf, moved <- f_moved, cut <- f_cut, mixed <- f_mixed,
         spoiled <- f_spoiled, faults <- f_faults

Sig == INSTANCE Signals
    WITH resethand <- s_resethand, restart <- s_restart, procmgr <- s_procmgr,
         pending <- s_pending, stack <- s_stack, own_mask <- s_own_mask,
         owed <- s_owed, broken_off <- s_broken_off, raised <- s_raised,
         changed <- s_changed, exited <- s_exited

Call == INSTANCE PosixCalls
    WITH call <- c_call, phase <- c_phase, object <- c_object, first <- c_first,
         late <- c_late, result <- c_result, interrupts <- c_interrupts

Dns == INSTANCE Dns
    WITH Threads <- DnsThreads, Slots <- DnsSlots, MaxFailures <- DnsFailures,
         DNSSRV_EP <- d_DNSSRV_EP, DNSSRV_LOOKUP_SLOT <- d_DNSSRV_LOOKUP_SLOT,
         free <- d_free, cap <- d_cap, pc <- d_pc, ep_slot <- d_ep_slot,
         answer <- d_answer, overlapped <- d_overlapped, failures <- d_failures
=============================================================================
