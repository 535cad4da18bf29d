----------------------------- MODULE ThreadSystem ---------------------------
(***************************************************************************)
(* What runs code: the pool of worker threads and pthreads, side by side.  *)
(* They share no state.                                                    *)
(***************************************************************************)
EXTENDS Integers, FiniteSets

CONSTANTS
    WorkerCount, PoolSize, Ranges, PoolFailures, MaxApp,
    MAX_THREADS, GenMod, MaxCreates, ThreadFailures, Overlap, Forkers

VARIABLES
    w_desc, w_WORKER_SLOTS, w_thread, w_held, w_caps, w_mapped, w_main,
    w_va_next, w_failures, w_app, p_state, p_generation, p_tls_ptr,
    p_personality_data, p_procmgr_tid, p_tcb_cap, p_detached, p_held,
    p_NEXT_FREE_HINT, p_mapped, p_pc, p_handle, p_new, p_tid, p_pm,
    p_cancelled, p_disabled, p_issued, p_exits, p_failures

PoolVars ==
    <<w_desc, w_WORKER_SLOTS, w_thread, w_held, w_caps, w_mapped, w_main, w_va_next, w_failures,
    w_app>>

ThreadVars ==
    <<p_state, p_generation, p_tls_ptr, p_personality_data, p_procmgr_tid, p_tcb_cap,
    p_detached, p_held, p_NEXT_FREE_HINT, p_mapped, p_pc, p_handle, p_new, p_tid, p_pm,
    p_cancelled, p_disabled, p_issued, p_exits, p_failures>>

-----------------------------------------------------------------------------
Pool == INSTANCE WorkerPool
    WITH MaxFailures <- PoolFailures, desc <- w_desc,
         WORKER_SLOTS <- w_WORKER_SLOTS, thread <- w_thread, held <- w_held,
         caps <- w_caps, mapped <- w_mapped, main <- w_main,
         va_next <- w_va_next, failures <- w_failures, app <- w_app

Thread == INSTANCE Pthread
    WITH MaxFailures <- ThreadFailures, state <- p_state,
         generation <- p_generation, tls_ptr <- p_tls_ptr,
         personality_data <- p_personality_data, procmgr_tid <- p_procmgr_tid,
         tcb_cap <- p_tcb_cap, detached <- p_detached, held <- p_held,
         NEXT_FREE_HINT <- p_NEXT_FREE_HINT, mapped <- p_mapped, pc <- p_pc,
         handle <- p_handle, new <- p_new, tid <- p_tid, pm <- p_pm,
         cancelled <- p_cancelled, disabled <- p_disabled, issued <- p_issued,
         exits <- p_exits, failures <- p_failures
=============================================================================
