----------------------------- MODULE GroupLocks -----------------------------
(***************************************************************************)
(* The primitives of sync.rs that count the threads inside: Barrier and    *)
(* RWLock, side by side.  They share no state.                             *)
(***************************************************************************)
EXTENDS Integers, FiniteSets

CONSTANTS
    BarrierThreads, BarrierCount, PhaseMod, MaxArrivals,
    Readers, Writers, WRITER_BIT, WakeMod, MaxCalls

VARIABLES
    b_waiting, b_phase, b_pc, b_myphase, b_arrivals, b_ticket, b_leaders,
    r_state, r_writer_wake, r_writer_waiting, r_pc, r_seen, r_wake_val, r_timed,
    r_expired, r_calls

BarVars ==
    <<b_waiting, b_phase, b_pc, b_myphase, b_arrivals, b_ticket, b_leaders>>

RWVars ==
    <<r_state, r_writer_wake, r_writer_waiting, r_pc, r_seen, r_wake_val,
      r_timed, r_expired, r_calls>>

-----------------------------------------------------------------------------
Bar == INSTANCE Barrier
    WITH Threads <- BarrierThreads, count <- BarrierCount, waiting <- b_waiting,
         phase <- b_phase, pc <- b_pc, myphase <- b_myphase,
         arrivals <- b_arrivals, ticket <- b_ticket, leaders <- b_leaders

RW == INSTANCE RWLock
    WITH state <- r_state, writer_wake <- r_writer_wake,
         writer_waiting <- r_writer_waiting, pc <- r_pc, seen <- r_seen,
         wake_val <- r_wake_val, timed <- r_timed, expired <- r_expired,
         calls <- r_calls
=============================================================================
