----------------------------- MODULE WorkerLoop -----------------------------
(***************************************************************************)
(* worker_ipc_loop of substrate/worker.rs: every worker receives from the  *)
(* shared endpoints, calls the handler, and replies while it receives the  *)
(* next request.  Clients and the kernel's endpoint queue are external: a  *)
(* request waits in queue until some receive takes it.                     *)
(***************************************************************************)
EXTENDS Integers

CONSTANTS WorkerCount, Requests,
          MaxErrors,   \* bound: receives and replies the kernel fails
          MaxTimeouts  \* bound: timed receives that end without a message

WorkerLoopAssumption ==
    WorkerCount \in Nat \ {0} /\ MaxErrors \in Nat /\ MaxTimeouts \in Nat

VARIABLES timed,     \* next_timeout_ns is configured and returns a timeout
          pc, msg, control,
          queue,     \* requests sent and not yet received
          sent,      \* history: requests sent
          handled,   \* history: handler calls per request
          answered,  \* history: replies per request
          errors, timeouts

loopVars == <<timed, pc, msg, control, queue, sent, handled, answered, errors, timeouts>>

Workers == 0..(WorkerCount - 1)
NoMsg == "zeroed"

PCs == {"enter", "first", "handle", "post", "wait", "recover", "exited", "reaped", "yield"}

Init ==
    /\ timed \in BOOLEAN
    /\ pc = [w \in Workers |-> "enter"]
    /\ msg = [w \in Workers |-> NoMsg]
    /\ control = [w \in Workers |-> "Reply"]
    /\ queue = {} /\ sent = {}
    /\ handled = [m \in Requests |-> 0]
    /\ answered = [m \in Requests |-> 0]
    /\ errors = 0 /\ timeouts = 0

Goto(w, to) == pc' = [pc EXCEPT ![w] = to]

Fails == errors < MaxErrors /\ errors' = errors + 1 /\ UNCHANGED timeouts

TimesOut == timed /\ timeouts < MaxTimeouts /\ timeouts' = timeouts + 1 /\ UNCHANGED errors

(* Clients: each request is sent once. *)
Call(m) ==
    /\ m \notin sent
    /\ sent' = sent \cup {m}
    /\ queue' = queue \cup {m}
    /\ UNCHANGED <<timed, pc, msg, control, handled, answered, errors, timeouts>>

(* on_enter, before the first receive. *)
Enter(w) ==
    /\ pc[w] = "enter"
    /\ Goto(w, "first")
    /\ UNCHANGED <<timed, msg, control, queue, sent, handled, answered, errors, timeouts>>

(* Worker #0 ends the loop for good by yielding; the others are reaped. *)
worker_exit(w) == Goto(w, IF w = 0 THEN "yield" ELSE "exited")

FirstReceive(w) ==
    /\ pc[w] = "first"
    /\ \/ \E m \in queue : /\ queue' = queue \ {m}
                           /\ msg' = [msg EXCEPT ![w] = m]
                           /\ Goto(w, "handle")
                           /\ UNCHANGED <<errors, timeouts>>
       \/ TimesOut /\ UNCHANGED <<pc, msg, queue>>
       \/ Fails /\ worker_exit(w) /\ UNCHANGED <<msg, queue>>
    /\ UNCHANGED <<timed, control, sent, handled, answered>>

Handler(w) ==
    /\ pc[w] = "handle"
    /\ handled' = [handled EXCEPT ![msg[w]] = @ + 1]
    /\ \/ \E c \in {"Reply", "SkipReply"} :
             control' = [control EXCEPT ![w] = c] /\ Goto(w, "post")
       \/ worker_exit(w) /\ UNCHANGED control
    /\ UNCHANGED <<timed, msg, queue, sent, answered, errors, timeouts>>

(* Mistaken form: after SkipReply the loop does not come round to receive. *)
ReplyOnly(w) ==
    /\ pc[w] = "post" /\ control[w] = "Reply"
    /\ \/ /\ Goto(w, "wait")
          /\ answered' = [answered EXCEPT ![msg[w]] = @ + 1]
          /\ UNCHANGED <<errors, timeouts>>
       \/ Fails /\ Goto(w, "recover") /\ UNCHANGED answered
    /\ UNCHANGED <<timed, msg, control, queue, sent, handled>>

(* reply_recv_any sends the reply and waits in one kernel call; it may be  *)
(* refused before the reply is delivered.                                  *)
ReplyRecv(w) ==
    /\ pc[w] = "post"
    /\ \/ /\ Goto(w, "wait")
          /\ answered' = IF control[w] = "Reply"
                         THEN [answered EXCEPT ![msg[w]] = @ + 1] ELSE answered
          /\ UNCHANGED <<errors, timeouts>>
       \/ control[w] = "Reply" /\ Fails /\ Goto(w, "recover") /\ UNCHANGED answered
    /\ UNCHANGED <<timed, msg, control, queue, sent, handled>>

(* reap_exited_workers runs at the end of an iteration of worker #0. *)
Reap(w, s) == IF w = 0 /\ s = "exited" THEN "reaped" ELSE s

(* Mistaken form: the request the recovery receives is overwritten by the  *)
(* next receive.                                                           *)
RecoverDrops(w) ==
    \/ /\ pc[w] \in {"wait", "recover"}
       /\ \E m \in queue :
             /\ queue' = queue \ {m}
             /\ msg' = [msg EXCEPT ![w] = m]
             /\ pc' = [v \in Workers |->
                   IF v # w THEN Reap(w, pc[v])
                   ELSE IF pc[w] = "recover" THEN "wait" ELSE "handle"]
       /\ UNCHANGED <<errors, timeouts>>
    \/ pc[w] = "wait" /\ TimesOut /\ Goto(w, "handle") /\ UNCHANGED <<msg, queue>>
    \/ pc[w] = "wait" /\ Fails /\ Goto(w, "recover") /\ UNCHANGED <<msg, queue>>
    \/ pc[w] = "recover" /\ Fails /\ worker_exit(w) /\ UNCHANGED <<msg, queue>>

(* A receive that ends without a message goes back to the handler, with    *)
(* msg as it was; one that fails is tried once more.                       *)
NextReceive(w) ==
    \/ /\ pc[w] \in {"wait", "recover"}
       /\ \E m \in queue :
             /\ queue' = queue \ {m}
             /\ msg' = [msg EXCEPT ![w] = m]
             /\ pc' = [v \in Workers |-> IF v = w THEN "handle" ELSE Reap(w, pc[v])]
       /\ UNCHANGED <<errors, timeouts>>
    \/ pc[w] = "wait" /\ TimesOut /\ Goto(w, "handle") /\ UNCHANGED <<msg, queue>>
    \/ pc[w] = "wait" /\ Fails /\ Goto(w, "recover") /\ UNCHANGED <<msg, queue>>
    \/ pc[w] = "recover" /\ Fails /\ worker_exit(w) /\ UNCHANGED <<msg, queue>>

Receive(w) == NextReceive(w) /\ UNCHANGED <<timed, control, sent, handled, answered>>

Step(w) == Enter(w) \/ FirstReceive(w) \/ Handler(w) \/ ReplyRecv(w) \/ Receive(w)

Next == (\E m \in Requests : Call(m)) \/ \E w \in Workers : Step(w)

Spec == Init /\ [][Next]_loopVars

-----------------------------------------------------------------------------
TypeOK ==
    /\ timed \in BOOLEAN
    /\ pc \in [Workers -> PCs]
    /\ msg \in [Workers -> Requests \cup {NoMsg}]
    /\ control \in [Workers -> {"Reply", "SkipReply"}]
    /\ queue \subseteq sent /\ sent \subseteq Requests
    /\ handled \in [Requests -> Nat] /\ answered \in [Requests -> Nat]
    /\ errors \in 0..MaxErrors /\ timeouts \in 0..MaxTimeouts

(* A request taken off the queue is with a worker that will hand it to the *)
(* handler, or the handler has seen it: no path through receive errors,    *)
(* timeouts and recovery swallows one.                                     *)
RequestsConserved ==
    \A m \in sent : \/ m \in queue
                    \/ handled[m] > 0
                    \/ \E w \in Workers : msg[w] = m /\ pc[w] = "handle"

(* In a pool without receive timeouts the handler sees a request once and  *)
(* a client gets one reply at most, whichever workers wait and whatever    *)
(* receives fail.                                                          *)
UntimedHandlesOnce ==
    ~timed => \A m \in Requests : handled[m] <= 1 /\ answered[m] <= handled[m]

(* The same of every pool: "The handler receives pointers to the incoming  *)
(* message" of the request the loop received.                              *)
HandlesOnce == \A m \in Requests : handled[m] <= 1

Gone == \A w \in Workers : pc[w] \in {"exited", "reaped", "yield"}

(* Queued requests are received, all of them, as long as a worker is left:  *)
(* no sequence of errors, timeouts and skipped replies leaves every worker  *)
(* outside the receive for good.                                            *)
RequestsServed == ~<>[](queue # {} /\ ~Gone)
=============================================================================
