----------------------------- MODULE SyncPrimitives -------------------------
(***************************************************************************)
(* The primitives of sync.rs in which one thread works for another: Once,  *)
(* Semaphore, TypedMutex and Condvar, side by side.  They share no state.  *)
(***************************************************************************)
EXTENDS Integers, FiniteSets

CONSTANTS
    OnceThreads,
    SemWaiters, SemPosters, SemInitial, SemInitValues, SEM_VALUE_MAX, MaxPosts,
    TypedThreads, NoOwner, MaxDepth,
    Waiters, Signallers, Cancellers, SeqMod, MaxItems

CondThreads == Waiters \cup Signallers \cup Cancellers

VARIABLES
    o_state, o_pc, o_started, o_ended, s_count, s_pc, s_seen, s_timed,
    s_expired, s_base, s_posts, s_takes, t_holders, t_contending, t_bounded,
    t_mutex_type, t_owner, t_count, t_pc, t_saved, t_depth, c_holders,
    c_contending, c_bounded, c_seq, c_pc, c_current_seq, c_timed, c_timed_out,
    c_blocked, c_cancel_pending, c_cancel_state, c_target, c_items, c_added

OnceVars ==
    <<o_state, o_pc, o_started, o_ended>>

SemVars ==
    <<s_count, s_pc, s_seen, s_timed, s_expired, s_base, s_posts, s_takes>>

TypedVars ==
    <<t_holders, t_contending, t_bounded, t_mutex_type, t_owner, t_count,
      t_pc, t_saved, t_depth>>

CondVars ==
    <<c_holders, c_contending, c_bounded, c_seq, c_pc, c_current_seq,
      c_timed, c_timed_out, c_blocked, c_cancel_pending, c_cancel_state,
      c_target, c_items, c_added>>

-----------------------------------------------------------------------------
Once == INSTANCE Once
    WITH Threads <- OnceThreads, state <- o_state, pc <- o_pc,
         started <- o_started, ended <- o_ended

Sem == INSTANCE Semaphore
    WITH Waiters <- SemWaiters, Posters <- SemPosters, Initial <- SemInitial,
         InitValues <- SemInitValues, count <- s_count, pc <- s_pc,
         seen <- s_seen, timed <- s_timed, expired <- s_expired, base <- s_base,
         posts <- s_posts, takes <- s_takes

Typed == INSTANCE TypedMutex
    WITH Threads <- TypedThreads, holders <- t_holders,
         contending <- t_contending, bounded <- t_bounded,
         mutex_type <- t_mutex_type, owner <- t_owner, count <- t_count,
         pc <- t_pc, saved <- t_saved, depth <- t_depth

Cond == INSTANCE Condvar
    WITH Threads <- CondThreads, holders <- c_holders,
         contending <- c_contending, bounded <- c_bounded, seq <- c_seq,
         pc <- c_pc, current_seq <- c_current_seq, timed <- c_timed,
         timed_out <- c_timed_out, blocked <- c_blocked,
         cancel_pending <- c_cancel_pending, cancel_state <- c_cancel_state,
         target <- c_target, items <- c_items, added <- c_added
=============================================================================
