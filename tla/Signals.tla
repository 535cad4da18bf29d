------------------------------ MODULE Signals --------------------------------
(***************************************************************************)
(* Signal dispositions and delivery (posix/signals.rs) in the thread the   *)
(* signal notification is bound to.  Signals arrive as bits of the         *)
(* notification; they are taken by posix_sigcheck, or by the kernel when   *)
(* it interrupts a blocking IPC and runs __signal_dispatcher on top of it. *)
(* Handlers may block and be interrupted in turn, so what is running is a  *)
(* stack of frames.  The process manager keeps its own record of the       *)
(* dispositions, told by PM_SIGACTION.                                     *)
(***************************************************************************)
EXTENDS Integers, Sequences

CONSTANTS Sigs,        \* signal numbers
          Terminating, \* those whose default action ends the process
          MaskSets,    \* sa_mask values to choose from
          MaxDepth,    \* bound: nested frames
          MaxRaised,   \* bound: signals sent
          MaxChanged   \* bound: calls of posix_signal and mask changes

(* Signal numbers start at 1; a mask is a set of them. *)
SignalsAssumption ==
    /\ Sigs \subseteq Nat \ {0} /\ Terminating \subseteq Sigs /\ MaskSets \subseteq SUBSET Sigs
    /\ {MaxDepth, MaxRaised, MaxChanged} \subseteq Nat

VARIABLES __sig_handlers,      \* "DFL", "IGN" or "catch"
          __sig_blocked_mask,
          __sig_sa_mask, resethand, restart,  \* __sig_sa_flags, fixed
          __sig_last_restart,
          procmgr,             \* the process manager's dispositions
          pending,             \* bits of the notification
          stack,               \* frames, the running one last
          own_mask,            \* the mask the program set outside handlers
          owed,                \* signals raised and not yet acted upon
          broken_off,          \* a PM_SIGACTION was interrupted by a signal
          raised, changed, exited

sigVars == <<__sig_handlers, __sig_blocked_mask, __sig_sa_mask, resethand, restart,
             __sig_last_restart, procmgr, pending, stack, own_mask, owed, broken_off, raised, changed, exited>>
fixed == <<__sig_sa_mask, resethand, restart>>
bounds == <<raised, changed>>

Init ==
    /\ __sig_handlers \in [Sigs -> {"DFL", "IGN", "catch"}] /\ procmgr = __sig_handlers
    /\ __sig_sa_mask \in [Sigs -> MaskSets]
    /\ resethand \in SUBSET {s \in Sigs : \A r \in Sigs : r <= s}
    /\ restart = {s \in Sigs : \A r \in Sigs : s <= r}
    /\ __sig_blocked_mask = {} /\ own_mask = {} /\ pending = {} /\ owed = {}
    /\ stack = << >> /\ raised = 0 /\ changed = 0
    /\ __sig_last_restart = FALSE /\ broken_off = FALSE /\ exited = FALSE

Top == stack[Len(stack)]
Below == SubSeq(stack, 1, Len(stack) - 1)
SetTop(f) == stack' = Append(Below, f)
Deeper(f) == Len(stack) < MaxDepth /\ stack' = Append(stack, f)

(* The program itself, or a handler, is running. *)
Running == ~exited /\ (stack # << >> => Top.pc = "handler")

(* Another process sends a signal: an ignored one is suppressed by the *)
(* process manager, any other sets its bit.                            *)
Raise(s) ==
    /\ ~exited /\ raised < MaxRaised
    /\ raised' = raised + 1
    /\ IF procmgr[s] = "IGN" THEN UNCHANGED <<pending, owed>>
       ELSE pending' = pending \cup {s} /\ owed' = owed \cup {s}
    /\ UNCHANGED <<__sig_handlers, __sig_blocked_mask, fixed, __sig_last_restart, procmgr,
                   stack, own_mask, broken_off, changed, exited>>

SetMask(m) ==
    /\ ~exited /\ stack = << >>
    /\ changed < MaxChanged /\ changed' = changed + 1
    /\ __sig_blocked_mask' = m /\ own_mask' = m
    /\ UNCHANGED <<__sig_handlers, fixed, __sig_last_restart, procmgr, pending, stack, owed,
                   broken_off, raised, exited>>

-----------------------------------------------------------------------------
(* posix_signal stores the handler, then tells the process manager; a *)
(* failed call puts the old handler back.                             *)
posix_signal(s, h) ==
    /\ Running /\ changed < MaxChanged /\ changed' = changed + 1
    /\ Deeper([pc |-> "call", sig |-> s, handler |-> h, old |-> __sig_handlers[s]])
    /\ __sig_handlers' = [__sig_handlers EXCEPT ![s] = h]
    /\ UNCHANGED <<__sig_blocked_mask, fixed, __sig_last_restart, procmgr, pending, own_mask,
                   owed, broken_off, raised, exited>>

SigactionAnswered ==
    /\ stack # << >> /\ Top.pc = "call"
    /\ procmgr' = [procmgr EXCEPT ![Top.sig] = Top.handler]
    /\ stack' = Below
    /\ UNCHANGED <<__sig_handlers, __sig_blocked_mask, fixed, __sig_last_restart, pending,
                   own_mask, owed, broken_off, bounds, exited>>

(* The call was refused, or interrupted after the process manager acted. *)
SigactionFails ==
    /\ stack # << >> /\ Top.pc \in {"call", "interrupted"}
    /\ __sig_handlers' = [__sig_handlers EXCEPT ![Top.sig] = Top.old]
    /\ stack' = Below
    /\ UNCHANGED <<__sig_blocked_mask, fixed, __sig_last_restart, procmgr, pending, own_mask,
                   owed, broken_off, bounds, exited>>

-----------------------------------------------------------------------------
Frame(kind, bits) ==
    [pc |-> "loop", kind |-> kind, bits |-> bits, blocked |-> __sig_blocked_mask,
     repost |-> {}, saved |-> {}, sig |-> 0, any |-> FALSE, no_restart |-> FALSE]

(* posix_sigcheck polls the notification, which clears it. *)
posix_sigcheck ==
    /\ Running /\ pending # {}
    /\ Deeper(Frame("sigcheck", pending))
    /\ pending' = {}
    /\ UNCHANGED <<__sig_handlers, __sig_blocked_mask, fixed, __sig_last_restart, procmgr,
                   own_mask, owed, broken_off, bounds, exited>>

(* The kernel interrupts a blocking IPC and enters __signal_dispatcher.  A *)
(* PM_SIGACTION that was waiting for its reply (served) is not sent again; *)
(* one the process manager has not seen is.                                *)
Interrupt(served) ==
    /\ ~exited /\ pending # {} /\ Len(stack) < MaxDepth
    /\ \/ Running /\ ~served /\ stack' = Append(stack, Frame("dispatcher", pending))
          /\ UNCHANGED <<procmgr, broken_off>>
       \/ /\ stack # << >> /\ Top.pc \in {"call", "reset"}
          /\ stack' = Append(Append(Below,
                             [Top EXCEPT !.pc = IF Top.pc = "reset" THEN "handler"
                                                ELSE IF served THEN "interrupted" ELSE "call"]),
                             Frame("dispatcher", pending))
          /\ procmgr' = IF served
                        THEN [procmgr EXCEPT ![Top.sig] = IF Top.pc = "reset" THEN "DFL" ELSE Top.handler]
                        ELSE procmgr
          /\ broken_off' = TRUE
    /\ pending' = {}
    /\ UNCHANGED <<__sig_handlers, __sig_blocked_mask, fixed, __sig_last_restart, own_mask,
                   owed, bounds, exited>>

(* The dispatch loop, shared by both ways in: the next signal, in order. *)
Looping == ~exited /\ stack # << >> /\ Top.pc = "loop"
NextSig(s) == Looping /\ s \in Top.bits /\ \A r \in Top.bits : s <= r
Consumed(s) == [Top EXCEPT !.bits = @ \ {s}]

DispatchBlocked(s) ==
    /\ NextSig(s) /\ s \in Top.blocked
    /\ SetTop([Consumed(s) EXCEPT !.repost = @ \cup {s}])
    /\ UNCHANGED <<__sig_handlers, __sig_blocked_mask, fixed, __sig_last_restart, procmgr,
                   pending, own_mask, owed, broken_off, bounds, exited>>

(* SIG_IGN, and SIG_DFL with sig_default_action. *)
DispatchNoHandler(s) ==
    /\ NextSig(s) /\ s \notin Top.blocked
    /\ __sig_handlers[s] # "catch"
    /\ exited' = (__sig_handlers[s] = "DFL" /\ s \in Terminating)
    /\ owed' = owed \ {s}
    /\ SetTop([Consumed(s) EXCEPT !.any = TRUE])
    /\ UNCHANGED <<__sig_handlers, __sig_blocked_mask, fixed, __sig_last_restart, procmgr,
                   pending, own_mask, broken_off, bounds>>

(* A caught signal: block it and its sa_mask, reset a one-shot handler, *)
(* telling the process manager, and call the handler.                   *)
DispatchHandler(s) ==
    /\ NextSig(s) /\ s \notin Top.blocked
    /\ __sig_handlers[s] = "catch"
    /\ __sig_blocked_mask' = __sig_blocked_mask \cup __sig_sa_mask[s] \cup {s}
    /\ __sig_handlers' = IF s \in resethand THEN [__sig_handlers EXCEPT ![s] = "DFL"]
                         ELSE __sig_handlers
    /\ SetTop([Consumed(s) EXCEPT !.sig = s, !.saved = __sig_blocked_mask, !.any = TRUE,
                                 !.no_restart = @ \/ s \notin restart,
                                 !.pc = IF s \in resethand THEN "reset" ELSE "handler"])
    /\ owed' = owed \ {s}
    /\ UNCHANGED <<fixed, __sig_last_restart, procmgr, pending, own_mask, broken_off, bounds, exited>>

(* The PM_SIGACTION of a one-shot handler, whose outcome is ignored. *)
ResetAnswered ==
    /\ ~exited /\ stack # << >> /\ Top.pc = "reset"
    /\ SetTop([Top EXCEPT !.pc = "handler"])
    /\ procmgr' = [procmgr EXCEPT ![Top.sig] = "DFL"]
    /\ UNCHANGED <<__sig_handlers, __sig_blocked_mask, fixed, __sig_last_restart, pending,
                   own_mask, owed, broken_off, bounds, exited>>

HandlerReturns ==
    /\ ~exited /\ stack # << >> /\ Top.pc = "handler"
    /\ __sig_blocked_mask' = Top.saved
    /\ SetTop([Top EXCEPT !.pc = "loop", !.sig = 0])
    /\ UNCHANGED <<__sig_handlers, fixed, __sig_last_restart, procmgr, pending, own_mask, owed,
                   broken_off, bounds, exited>>

(* Mistaken form: blocked signals are dropped. *)
DispatchDrops ==
    /\ Looping /\ Top.bits = {}
    /\ __sig_last_restart' = (Top.any /\ ~Top.no_restart)
    /\ stack' = Below
    /\ UNCHANGED <<__sig_handlers, __sig_blocked_mask, fixed, procmgr, pending, own_mask, owed,
                   broken_off, bounds, exited>>

(* The end of the loop posts the blocked signals again; the dispatcher *)
(* also records whether the interrupted call may be restarted.         *)
DispatchEnds ==
    /\ Looping /\ Top.bits = {}
    /\ pending' = pending \cup Top.repost
    /\ __sig_last_restart' = IF Top.kind = "dispatcher" THEN Top.any /\ ~Top.no_restart
                             ELSE __sig_last_restart
    /\ stack' = Below
    /\ UNCHANGED <<__sig_handlers, __sig_blocked_mask, fixed, procmgr, own_mask, owed, broken_off, bounds, exited>>

Next ==
    \/ \E s \in Sigs : \/ Raise(s) \/ \E h \in {"DFL", "IGN", "catch"} : posix_signal(s, h)
                       \/ DispatchBlocked(s) \/ DispatchNoHandler(s) \/ DispatchHandler(s)
    \/ \E m \in SUBSET Sigs : SetMask(m)
    \/ SigactionAnswered \/ SigactionFails
    \/ posix_sigcheck \/ \E served \in BOOLEAN : Interrupt(served)
    \/ ResetAnswered \/ HandlerReturns \/ DispatchEnds

Spec == Init /\ [][Next]_sigVars

-----------------------------------------------------------------------------
TypeOK ==
    /\ {__sig_blocked_mask, pending, owed, own_mask} \subseteq SUBSET Sigs
    /\ \A s \in Sigs : {__sig_handlers[s], procmgr[s]} \subseteq {"DFL", "IGN", "catch"}
    /\ Len(stack) \in 0 .. MaxDepth /\ {exited, broken_off, __sig_last_restart} \subseteq BOOLEAN

Dispatches == {i \in DOMAIN stack : stack[i].pc \in {"loop", "reset", "handler"}}

(* A signal the notification accepted is not lost: until it is acted upon *)
(* it is pending, or among the bits a running dispatch has still to look  *)
(* at or will post again, however dispatches nest ("Blocked signals are   *)
(* re-raised so they remain pending", signals.rs:19).                     *)
NoSignalLost ==
    ~exited => owed \subseteq pending \cup UNION {stack[i].bits \cup stack[i].repost : i \in Dispatches}

(* The blocked mask is what the program set plus, for each handler that is *)
(* running, its sa_mask and its own signal: handlers that interrupt one    *)
(* another leave nothing blocked behind, unblock nothing early, and none   *)
(* is entered while it is running.  So the copy of the mask a dispatch     *)
(* takes before its loop is current whenever it looks at the next signal.  *)
MaskMatchesHandlers ==
    LET active == {i \in Dispatches : stack[i].sig # 0} IN
    ~exited =>
        /\ __sig_blocked_mask = own_mask \cup UNION {__sig_sa_mask[stack[i].sig] \cup {stack[i].sig} : i \in active}
        /\ \A i, j \in active : stack[i].sig = stack[j].sig => i = j
        /\ Looping => Top.blocked = __sig_blocked_mask

Agree == stack = << >> => __sig_handlers = procmgr

(* Outside posix_signal and dispatches the process manager's dispositions *)
(* are the local ones: "Signal disposition is tracked both locally ... and *)
(* in the process manager" (signals.rs:17), unless a signal interrupted *)
(* a PM_SIGACTION: the handler is then put back while the process manager  *)
(* keeps the new disposition, or the retry undoes what a handler did.      *)
DispositionsAgree == (~broken_off /\ ~exited) => Agree
=============================================================================
