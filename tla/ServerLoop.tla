----------------------------- MODULE ServerLoop -----------------------------
(***************************************************************************)
(* The workers' receive loop as a part of the substrate.                   *)
(***************************************************************************)
EXTENDS Integers

CONSTANTS
    LoopWorkers, Requests, MaxErrors, MaxTimeouts

VARIABLES
    l_timed, l_pc, l_msg, l_control, l_queue, l_sent, l_handled, l_answered,
    l_errors, l_timeouts

LoopVars ==
    <<l_timed, l_pc, l_msg, l_control, l_queue, l_sent, l_handled,
      l_answered, l_errors, l_timeouts>>

-----------------------------------------------------------------------------
Loop == INSTANCE WorkerLoop
    WITH WorkerCount <- LoopWorkers, timed <- l_timed, pc <- l_pc, msg <- l_msg,
         control <- l_control, queue <- l_queue, sent <- l_sent,
         handled <- l_handled, answered <- l_answered, errors <- l_errors,
         timeouts <- l_timeouts
=============================================================================
