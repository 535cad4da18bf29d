------------------------------ MODULE Pthread -------------------------------
(***************************************************************************)
(* POSIX threads: posix/pthread.rs over the descriptor pool of             *)
(* substrate/tls.rs.  A thread is identified with its pool slot; slot 0 is *)
(* the main thread.  procmgr, mmap and the slot allocator are external:    *)
(* procmgr hands out fresh tids, starts the thread before its reply is     *)
(* read, suspends a thread that announces its exit, and answers a join     *)
(* once the thread has exited.                                             *)
(***************************************************************************)
EXTENDS Integers

CONSTANTS MAX_THREADS,  \* 64 in the code
          GenMod,       \* 2^16: the handle keeps this much of the generation
          MaxCreates,   \* bound: threads procmgr creates
          MaxFailures,  \* bound: refusals by mmap, prefault, slot_alloc, procmgr
          Overlap,      \* may operations on one handle overlap
          Forkers       \* the slots whose thread may call fork

PthreadAssumption ==
    /\ MAX_THREADS \in Nat \ {0, 1} /\ GenMod \in Nat \ {0}
    /\ MaxCreates \in Nat /\ MaxFailures \in Nat
    /\ Overlap \in BOOLEAN /\ Forkers \subseteq 0..(MAX_THREADS - 1)

VARIABLES state, generation, tls_ptr, personality_data,  \* of ThreadDesc
          procmgr_tid, tcb_cap, detached,                \* of PosixThreadExt
          held,            \* TCB capabilities received and not deleted, by tid
          NEXT_FREE_HINT,
          mapped,          \* slots whose stack (and TLS) is mapped
          pc, handle, new, \* per thread: what it does, its argument, the slot it creates
          tid,             \* procmgr: the thread running in each slot, 0 when none
          pm,              \* procmgr: "running", "exited", "gone" per tid
          cancelled,       \* cancel_pending, by slot
          disabled,        \* cancel_state = DISABLE, by slot
          issued,          \* history: handle returned for each tid
          exits,           \* history: <<sender, tid named>> of PM_THREAD_EXIT
          failures

threadVars == <<state, generation, tls_ptr, personality_data, procmgr_tid, tcb_cap, detached,
                held, NEXT_FREE_HINT, mapped, pc, handle, new, tid, pm, cancelled, disabled,
                issued, exits, failures>>

descVars == <<state, generation, tls_ptr, personality_data>>
extVars == <<procmgr_tid, tcb_cap, detached, held>>
cancelVars == <<cancelled, disabled>>
kernelVars == <<tid, pm, issued, exits>>

Slots == 0..(MAX_THREADS - 1)
Aux == 1..(MAX_THREADS - 1)
Tids == 1..MaxCreates
NoHandle == [index |-> 0, gen |-> -1]

PCs == {"none", "start", "idle", "claimed", "stack", "tls", "reply", "published", "joining",
        "teardown", "detaching", "cancelling", "ended"}

encode_handle(i, g) == [index |-> i, gen |-> g % GenMod]

(* decode_handle and validate_handle: every thread here is Personality.    *)
validate_handle(h) == h # NoHandle /\ generation[h.index] % GenMod = h.gen

Init ==
    /\ state = [s \in Slots |-> IF s = 0 THEN "RUNNING" ELSE "UNUSED"]
    /\ generation = [s \in Slots |-> 0]
    /\ tls_ptr = [s \in Slots |-> s = 0]
    /\ personality_data = [s \in Slots |-> s = 0]
    /\ procmgr_tid = [s \in Slots |-> 0]
    /\ tcb_cap = [s \in Slots |-> 0]
    /\ held = {}
    /\ detached = [s \in Slots |-> FALSE]
    /\ NEXT_FREE_HINT = 1
    /\ mapped = {0}
    /\ pc = [s \in Slots |-> IF s = 0 THEN "idle" ELSE "none"]
    /\ handle = [s \in Slots |-> NoHandle]
    /\ new = [s \in Slots |-> 0]
    /\ tid = [s \in Slots |-> 0]
    /\ pm = [t \in Tids |-> "none"]
    /\ cancelled = {} /\ disabled = {}
    /\ issued = [t \in Tids |-> NoHandle]
    /\ exits = {}
    /\ failures = 0

Set(f, s, v) == f' = [f EXCEPT ![s] = v]
Goto(s, to) == Set(pc, s, to) /\ UNCHANGED <<handle, new>>
Return(s) == Set(pc, s, "idle") /\ Set(handle, s, NoHandle) /\ Set(new, s, 0)

-----------------------------------------------------------------------------
(* pthread_create: claim the first unused slot at or after the hint. *)
Order(i) == (i - NEXT_FREE_HINT + MAX_THREADS - 1) % (MAX_THREADS - 1)

(* Mistaken form: the slot is taken whatever its state. *)
ClaimWithoutCas(s, detach_state) ==
    /\ pc[s] = "idle"
    /\ LET i == NEXT_FREE_HINT IN
          /\ Set(state, i, "RUNNING")
          /\ Set(new, s, i)
          /\ NEXT_FREE_HINT' = (i % (MAX_THREADS - 1)) + 1
          /\ Set(procmgr_tid, i, 0) /\ Set(tcb_cap, i, 0)
          /\ Set(detached, i, detach_state)
          /\ Set(personality_data, i, TRUE)
    /\ Set(pc, s, "claimed")
    /\ UNCHANGED <<generation, tls_ptr, held, mapped, handle, cancelVars, kernelVars, failures>>

pthread_create(s, detach_state) ==
    /\ pc[s] = "idle"
    /\ \E i \in Aux :
          /\ state[i] = "UNUSED"
          /\ \A j \in Aux : state[j] = "UNUSED" => Order(i) <= Order(j)
          /\ Set(state, i, "RUNNING")
          /\ Set(new, s, i)
          /\ NEXT_FREE_HINT' = (i % (MAX_THREADS - 1)) + 1
          /\ Set(procmgr_tid, i, 0) /\ Set(tcb_cap, i, 0)
          /\ Set(detached, i, detach_state)
          /\ Set(personality_data, i, TRUE)
    /\ Set(pc, s, "claimed")
    /\ UNCHANGED <<generation, tls_ptr, held, mapped, handle, cancelVars, kernelVars, failures>>

(* mmap, prefault, slot_alloc or procmgr refuses: the stack is unmapped and *)
(* the pool slot given back.                                               *)
CreateFails(s) ==
    /\ pc[s] \in {"claimed", "stack", "tls"}
    /\ failures < MaxFailures /\ failures' = failures + 1
    /\ mapped' = mapped \ {new[s]}
    /\ Set(personality_data, new[s], FALSE)
    /\ Set(state, new[s], "UNUSED")
    /\ Return(s)
    /\ UNCHANGED <<generation, tls_ptr, extVars, NEXT_FREE_HINT, cancelVars, kernelVars>>

MapStack(s) ==
    /\ pc[s] = "claimed"
    /\ mapped' = mapped \cup {new[s]}
    /\ Goto(s, "stack")
    /\ UNCHANGED <<descVars, extVars, NEXT_FREE_HINT, cancelVars, kernelVars, failures>>

(* The zeroed TLS block also clears cancel_pending and cancel_state. *)
FillTls(s) ==
    /\ pc[s] = "stack"
    /\ Set(tls_ptr, new[s], TRUE)
    /\ cancelled' = cancelled \ {new[s]} /\ disabled' = disabled \ {new[s]}
    /\ Goto(s, "tls")
    /\ UNCHANGED <<state, generation, personality_data, extVars, NEXT_FREE_HINT, mapped,
                   kernelVars, failures>>

(* slot_alloc, then PM_THREAD_CREATE: procmgr starts the thread while the  *)
(* caller has yet to read the reply that carries its tid and capability.   *)
pm_thread_create_call(s) ==
    /\ pc[s] = "tls"
    /\ \E t \in Tids : /\ pm[t] = "none"
                       /\ \A u \in Tids : u < t => pm[u] # "none"
                       /\ Set(pm, t, "running")
                       /\ Set(tid, new[s], t)
                       /\ held' = held \cup {t}
    /\ pc' = [pc EXCEPT ![s] = "reply", ![new[s]] = "start"]
    /\ UNCHANGED <<descVars, procmgr_tid, tcb_cap, detached, NEXT_FREE_HINT, mapped, handle, new,
                   cancelVars, issued, exits, failures>>

(* The tid lets the thread run, and pass its pthread_self around. *)
PublishTid(s) ==
    /\ pc[s] = "reply"
    /\ LET i == new[s] IN
       /\ Set(procmgr_tid, i, tid[i])
       /\ Set(issued, tid[i], encode_handle(i, generation[i]))
    /\ Goto(s, "published")
    /\ UNCHANGED <<descVars, tcb_cap, detached, held, NEXT_FREE_HINT, mapped, tid, pm, cancelVars,
                   exits, failures>>

PublishCap(s) ==
    /\ pc[s] = "published"
    /\ Set(tcb_cap, new[s], procmgr_tid[new[s]])
    /\ Return(s)
    /\ UNCHANGED <<descVars, procmgr_tid, detached, held, NEXT_FREE_HINT, mapped, cancelVars,
                   kernelVars, failures>>

pthread_trampoline_helper(s) ==
    /\ pc[s] = "start"
    /\ procmgr_tid[s] # 0
    /\ Goto(s, "idle")
    /\ UNCHANGED <<descVars, extVars, NEXT_FREE_HINT, mapped, cancelVars, kernelVars, failures>>

(* PM_THREAD_EXIT of an auxiliary thread; a detached one is reaped by      *)
(* procmgr.  The main thread's pthread_exit ends the process.              *)
pthread_exit(s) ==
    /\ s # 0 /\ pc[s] = "idle"
    /\ exits' = exits \cup {<<tid[s], procmgr_tid[s]>>}
    /\ Set(pm, tid[s], IF detached[s] THEN "gone" ELSE "exited")
    /\ Goto(s, "ended")
    /\ UNCHANGED <<descVars, extVars, NEXT_FREE_HINT, mapped, cancelVars, tid, issued, failures>>

pthread_testcancel(s) == s \in cancelled /\ s \notin disabled /\ pthread_exit(s)

pthread_setcancelstate(s) ==
    /\ pc[s] = "idle"
    /\ disabled' = IF s \in disabled THEN disabled \ {s} ELSE disabled \cup {s}
    /\ UNCHANGED <<descVars, extVars, NEXT_FREE_HINT, mapped, pc, handle, new, cancelled, kernelVars,
                   failures>>

-----------------------------------------------------------------------------
(* Operations on a handle.  Without Overlap the program starts none while  *)
(* another, or the creation of the thread, is still in progress.           *)
InUse(h) ==
    \E s \in Slots : \/ handle[s] = h
                     \/ pc[s] = "published" /\ new[s] = h.index

Argument(s, h) ==
    /\ pc[s] = "idle"
    /\ h # NoHandle /\ validate_handle(h)
    /\ Overlap \/ ~InUse(h)
    /\ Set(handle, s, h)

pthread_self(s) == encode_handle(s, generation[s])

(* The tests; a refused call returns ESRCH, EDEADLK or EINVAL and changes  *)
(* nothing.                                                                *)
pthread_join(s, h) ==
    /\ Argument(s, h)
    /\ pthread_self(s) # h
    /\ personality_data[h.index] /\ ~detached[h.index] /\ procmgr_tid[h.index] # 0
    /\ Set(new, s, procmgr_tid[h.index])
    /\ Set(pc, s, "joining")
    /\ UNCHANGED <<descVars, extVars, NEXT_FREE_HINT, mapped, cancelVars, kernelVars, failures>>

(* procmgr answers when the thread has exited and is suspended; it refuses *)
(* a thread already joined or reaped.                                      *)
pm_thread_join_call(s) ==
    /\ pc[s] = "joining"
    /\ \/ pm[new[s]] = "exited" /\ Set(pm, new[s], "gone") /\ Goto(s, "teardown")
       \/ pm[new[s]] = "gone" /\ Return(s) /\ UNCHANGED pm
    /\ UNCHANGED <<descVars, extVars, NEXT_FREE_HINT, mapped, cancelVars, tid, issued, exits,
                   failures>>

(* The capability and the stack go, the descriptor is cleared, the slot    *)
(* gets its next generation and is free again.                             *)
JoinTeardown(s) ==
    /\ pc[s] = "teardown"
    /\ LET i == handle[s].index IN
       /\ held' = held \ {tcb_cap[i]} /\ Set(tcb_cap, i, 0)
       /\ mapped' = mapped \ {i}
       /\ Set(personality_data, i, FALSE) /\ Set(tls_ptr, i, FALSE)
       /\ Set(generation, i, generation[i] + 1)
       /\ Set(state, i, "UNUSED") /\ Set(tid, i, 0)
       /\ pc' = [pc EXCEPT ![s] = "idle", ![i] = "none"]
    /\ Set(handle, s, NoHandle) /\ Set(new, s, 0)
    /\ UNCHANGED <<procmgr_tid, detached, NEXT_FREE_HINT, pm, cancelVars, issued, exits, failures>>

pthread_detach(s, h) ==
    /\ Argument(s, h)
    /\ personality_data[h.index] /\ ~detached[h.index] /\ procmgr_tid[h.index] # 0
    /\ Set(new, s, procmgr_tid[h.index])
    /\ Set(pc, s, "detaching")
    /\ UNCHANGED <<descVars, extVars, NEXT_FREE_HINT, mapped, cancelVars, kernelVars, failures>>

(* procmgr reaps a detached thread that has exited, and refuses one gone.  *)
(* The pool slot and the stack stay until the process exits.               *)
pm_thread_detach_call(s) ==
    /\ pc[s] = "detaching"
    /\ \/ /\ pm[new[s]] # "gone"
          /\ Set(detached, handle[s].index, TRUE)
          /\ Set(pm, new[s], IF pm[new[s]] = "exited" THEN "gone" ELSE pm[new[s]])
       \/ pm[new[s]] = "gone" /\ UNCHANGED <<detached, pm>>
    /\ Return(s)
    /\ UNCHANGED <<descVars, procmgr_tid, tcb_cap, held, NEXT_FREE_HINT, mapped, cancelVars, tid,
                   issued, exits, failures>>

(* pthread_cancel: the tests, then the write into the target's TLS. *)
pthread_cancel(s, h) ==
    /\ Argument(s, h)
    /\ state[h.index] = "RUNNING" /\ tls_ptr[h.index]
    /\ Set(pc, s, "cancelling")
    /\ UNCHANGED <<descVars, extVars, NEXT_FREE_HINT, mapped, new, cancelVars, kernelVars, failures>>

SetCancelPending(s) ==
    /\ pc[s] = "cancelling"
    /\ cancelled' = cancelled \cup {handle[s].index}
    /\ Return(s)
    /\ UNCHANGED <<descVars, extVars, NEXT_FREE_HINT, mapped, disabled, kernelVars, failures>>

-----------------------------------------------------------------------------
(* Mistaken form: the emptied slots keep their generation. *)
ForkKeepsGenerations(s) == generation

(* fork bumps the generation of every auxiliary slot in use. *)
ForkGenerations(s) ==
    [i \in Slots |-> IF i # 0 /\ state[i] # "UNUSED" THEN generation[i] + 1 ELSE generation[i]]

(* The extension pool is emptied. *)
posix_personality_fork_child ==
    /\ procmgr_tid' = [i \in Slots |-> 0]
    /\ tcb_cap' = [i \in Slots |-> 0]
    /\ detached' = [i \in Slots |-> FALSE]
    /\ NEXT_FREE_HINT' = 1

(* The forking thread alone goes on in the child, on its own stack, as a *)
(* thread procmgr has no thread id for.                                  *)
_posix_fork_impl(s) ==
    /\ pc' = [i \in Slots |-> IF i = s THEN "idle" ELSE "none"]
    /\ handle' = [i \in Slots |-> NoHandle] /\ new' = [i \in Slots |-> 0]
    /\ tid' = [i \in Slots |-> 0]
    /\ pm' = [t \in Tids |-> IF pm[t] = "none" THEN "none" ELSE "gone"]
    /\ held' = {}

(* fork, followed into the child: _trona_post_fork_child unmaps the stacks *)
(* and empties the auxiliary slots.                                        *)
_trona_post_fork_child(s) ==
    /\ s \in Forkers /\ pc[s] = "idle"
    /\ _posix_fork_impl(s)
    /\ mapped' = {i \in mapped : i = 0 \/ state[i] = "UNUSED"}
    /\ generation' = ForkGenerations(s)
    /\ state' = [i \in Slots |-> IF i = 0 THEN state[0] ELSE "UNUSED"]
    /\ personality_data' = [i \in Slots |-> i = 0]
    /\ tls_ptr' = [i \in Slots |-> i = 0 \/ (state[i] = "UNUSED" /\ tls_ptr[i])]
    /\ posix_personality_fork_child
    /\ UNCHANGED <<cancelVars, issued, exits, failures>>

Handles == {issued[t] : t \in Tids} \ {NoHandle}

Progress(s) ==
    \/ CreateFails(s) \/ MapStack(s) \/ FillTls(s) \/ pm_thread_create_call(s)
    \/ PublishTid(s) \/ PublishCap(s) \/ pthread_trampoline_helper(s)
    \/ pm_thread_join_call(s) \/ JoinTeardown(s)
    \/ pm_thread_detach_call(s) \/ SetCancelPending(s)

Calls(s) ==
    \/ \E d \in BOOLEAN : pthread_create(s, d)
    \/ \E h \in Handles : pthread_join(s, h) \/ pthread_detach(s, h) \/ pthread_cancel(s, h)
    \/ pthread_exit(s) \/ pthread_testcancel(s) \/ pthread_setcancelstate(s)
    \/ _trona_post_fork_child(s)

Next == \E s \in Slots : Progress(s) \/ Calls(s)

Spec == Init /\ [][Next]_threadVars

-----------------------------------------------------------------------------
TypeOK ==
    /\ state \in [Slots -> {"UNUSED", "RUNNING"}]
    /\ generation \in [Slots -> Nat]
    /\ tls_ptr \in [Slots -> BOOLEAN] /\ personality_data \in [Slots -> BOOLEAN]
    /\ procmgr_tid \in [Slots -> {0} \cup Tids] /\ tid \in [Slots -> {0} \cup Tids]
    /\ tcb_cap \in [Slots -> {0} \cup Tids] /\ held \subseteq Tids
    /\ detached \in [Slots -> BOOLEAN]
    /\ NEXT_FREE_HINT \in Aux
    /\ UNION {mapped, cancelled, disabled} \subseteq Slots
    /\ pc \in [Slots -> PCs] /\ new \in [Slots -> Nat]
    /\ pm \in [Tids -> {"none", "running", "exited", "gone"}]
    /\ failures \in 0..MaxFailures

(* "Hold the thread here so an immediate return cannot race into the       *)
(* main-thread fallback path": whatever the order in which procmgr's reply *)
(* and the new thread run, PM_THREAD_EXIT names the thread that sends it.  *)
ExitNamesSelf == \A e \in exits : e[1] = e[2]

(* A thread that can still run has its stack and TLS: no join, failed      *)
(* creation or fork unmaps them or frees its slot.                         *)
StackStaysMapped ==
    \A s \in Slots : pc[s] \notin {"none", "ended"} => s \in mapped /\ state[s] = "RUNNING"

(* "Prevents ABA issues where a stale handle references a recycled pool    *)
(* slot": a handle validates only while its own thread has the slot.       *)
StaleHandleRejected ==
    \A t \in Tids : issued[t] # NoHandle /\ validate_handle(issued[t]) => tid[issued[t].index] = t

(* A join or a cancel past its tests works on the thread its handle named, *)
(* whatever happened to the pool slot in between.                          *)
ActsOnNamedThread ==
    \A s \in Slots : pc[s] \in {"teardown", "cancelling"} =>
        \E t \in Tids : issued[t] = handle[s] /\ tid[handle[s].index] = t

(* Stacks, pool slots and TCB capabilities belong to a thread that is not  *)
(* joined yet or to a creation in progress: failures and joins leave none. *)
NothingLeaked ==
    LET Creating(i) == \E s \in Slots : pc[s] \in PCs \ {"joining", "teardown", "detaching"} /\ new[s] = i
    IN /\ \A i \in Aux : i \in mapped \/ state[i] = "RUNNING" => tid[i] # 0 \/ Creating(i)
       /\ \A t \in held : \E i \in Aux : tid[i] = t /\ (tcb_cap[i] = t \/ Creating(i))
=============================================================================
