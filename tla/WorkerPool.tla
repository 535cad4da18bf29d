----------------------------- MODULE WorkerPool -----------------------------
(***************************************************************************)
(* The life of the worker threads of substrate/worker.rs, from the spawns  *)
(* of run_workers to reaping, over the descriptor pool of substrate/tls.rs.*)
(*                                                                         *)
(* slot_alloc_consecutive hands out one element of Ranges, whatever its    *)
(* length; a mapped worker region is one number of the bump allocator.     *)
(* The loops over pages and objects may fail half way: their failure       *)
(* leaves some of the frames made.  The receive loop is WorkerLoop.        *)
(***************************************************************************)
EXTENDS Integers, FiniteSets, FiniteSetsExt

CONSTANTS WorkerCount,  \* worker_count, the main thread included
          PoolSize,     \* MAX_THREADS
          Ranges,       \* runs of CSpace slots, positive integers
          MaxFailures,  \* bound: allocations and kernel calls refused during the spawns
          MaxApp        \* bound: ranges other threads of the process hold at once

WorkerPoolAssumption ==
    /\ WorkerCount \in Nat \ {0} /\ PoolSize \in Nat \ {0}
    /\ Ranges \subseteq Nat \ {0}
    /\ MaxFailures \in Nat /\ MaxApp \in Nat

VARIABLES desc,          \* THREAD_POOL
          WORKER_SLOTS,
          thread,        \* what the kernel thread of each worker does
          held,          \* slot allocator: 0 free, a pool index, or App
          caps,          \* ranges with capabilities in them
          mapped,        \* worker regions with pages mapped
          main,          \* the main thread: worker index, pool index, where it is
          va_next,       \* WORKER_VA_NEXT, in strides
          failures,
          app            \* what the process's other threads believe they hold

poolVars == <<desc, WORKER_SLOTS, thread, held, caps, mapped, main, va_next, failures, app>>

Workers == 1..(WorkerCount - 1)
Pool == 1..(PoolSize - 1)
App == PoolSize

TD_UNUSED == "UNUSED"
TD_RUNNING == "RUNNING"
TD_EXITED == "EXITED"
TD_REAPING == "REAPING"

Stages == {"desc", "slots", "objects", "stackslots", "stackframes", "tlsslots",
           "tlsframes", "map", "configure", "resume", "rollback"}

zeroed ==
    [state |-> TD_UNUSED, tcb_cap |-> 0, stack_frame_base |-> 0, tls_frame_base |-> 0,
     region |-> 0]

Init ==
    /\ desc = [i \in Pool |-> zeroed]
    /\ WORKER_SLOTS = [w \in Workers |-> [thread_pool_idx |-> 0, active |-> FALSE]]
    /\ thread = [w \in Workers |-> "none"]
    /\ held = [r \in Ranges |-> 0]
    /\ caps = {} /\ mapped = {}
    /\ main = [idx |-> 1, at |-> IF Workers = {} THEN "serving" ELSE "desc", pool |-> 0]
    /\ va_next = 1
    /\ failures = 0
    /\ app = {}

-----------------------------------------------------------------------------
At(stage) == main.at = stage
Go(stage) == main' = [main EXCEPT !.at = stage]
Desc == desc[main.pool]

(* run_workers reports a failed spawn and goes on with the next index. *)
NextWorker ==
    main' = IF main.idx = WorkerCount - 1
            THEN [idx |-> 0, at |-> "serving", pool |-> 0]
            ELSE [idx |-> main.idx + 1, at |-> "desc", pool |-> 0]

Refused ==
    /\ failures < MaxFailures
    /\ failures' = failures + 1

Free == {r \in Ranges : held[r] = 0}

alloc_thread_desc ==
    /\ At("desc")
    /\ LET unused == {i \in Pool : desc[i].state = TD_UNUSED}
       IN IF unused = {}
          THEN NextWorker /\ UNCHANGED desc
          ELSE /\ desc' = [desc EXCEPT ![Min(unused)].state = TD_RUNNING]
               /\ main' = [main EXCEPT !.at = "slots", !.pool = Min(unused)]
    /\ UNCHANGED <<WORKER_SLOTS, thread, held, caps, mapped, va_next, failures, app>>

(* Which free run is taken does not matter below: the lowest is. *)
Take(field, next) ==
    /\ Free # {}
    /\ held' = [held EXCEPT ![Min(Free)] = main.pool]
    /\ desc' = [desc EXCEPT ![main.pool][field] = Min(Free)]
    /\ Go(next)
    /\ UNCHANGED failures

None == (Free = {} /\ UNCHANGED failures) \/ Refused

(* The first allocation is given up without a rollback. *)
SpawnSlots ==
    /\ At("slots")
    /\ \/ Take("tcb_cap", "objects")
       \/ /\ None
          /\ desc' = [desc EXCEPT ![main.pool].state = TD_UNUSED]
          /\ NextWorker
          /\ UNCHANGED held
    /\ UNCHANGED <<WORKER_SLOTS, thread, caps, mapped, va_next, app>>

MoreSlots(stage, field, next) ==
    /\ At(stage)
    /\ \/ Take(field, next)
       \/ None /\ Go("rollback") /\ UNCHANGED <<desc, held>>
    /\ UNCHANGED <<WORKER_SLOTS, thread, caps, mapped, va_next, app>>

SpawnStackSlots == MoreSlots("stackslots", "stack_frame_base", "stackframes")
SpawnTlsSlots == MoreSlots("tlsslots", "tls_frame_base", "tlsframes")

Retype(stage, field, next) ==
    /\ At(stage)
    /\ \/ caps' = caps \cup {Desc[field]} /\ Go(next) /\ UNCHANGED failures
       \/ Refused /\ caps' \in {caps, caps \cup {Desc[field]}} /\ Go("rollback")
    /\ UNCHANGED <<desc, WORKER_SLOTS, thread, held, mapped, va_next, app>>

RetypeObjects == Retype("objects", "tcb_cap", "stackslots")
RetypeStack == Retype("stackframes", "stack_frame_base", "tlsslots")
RetypeTls == Retype("tlsframes", "tls_frame_base", "map")

MapRegion ==
    /\ At("map")
    /\ va_next' = va_next + 1
    /\ desc' = [desc EXCEPT ![main.pool].region = va_next]
    /\ \/ mapped' = mapped \cup {va_next} /\ Go("configure") /\ UNCHANGED failures
       \/ Refused /\ mapped' \in {mapped, mapped \cup {va_next}} /\ Go("rollback")
    /\ UNCHANGED <<WORKER_SLOTS, thread, held, caps, app>>

ConfigureTcb ==
    /\ At("configure")
    /\ (Go("resume") /\ UNCHANGED failures) \/ (Refused /\ Go("rollback"))
    /\ UNCHANGED <<desc, WORKER_SLOTS, thread, held, caps, mapped, va_next, app>>

RecordAndResume ==
    /\ At("resume")
    /\ \/ /\ thread' = [thread EXCEPT ![main.idx] = "running"]
          /\ WORKER_SLOTS' = [WORKER_SLOTS EXCEPT ![main.idx] =
                [thread_pool_idx |-> main.pool, active |-> TRUE]]
          /\ NextWorker
          /\ UNCHANGED failures
       \/ /\ Refused
          /\ WORKER_SLOTS' = [WORKER_SLOTS EXCEPT ![main.idx].thread_pool_idx = main.pool]
          /\ Go("rollback")
          /\ UNCHANGED thread
    /\ UNCHANGED <<desc, held, caps, mapped, va_next, app>>

(* What a descriptor names, whether this spawn or an earlier one put it    *)
(* there.                                                                  *)
Named(i) == {desc[i].tcb_cap, desc[i].stack_frame_base, desc[i].tls_frame_base} \ {0}

Release(i, ranges) ==
    /\ mapped' = mapped \ {desc[i].region}
    /\ caps' = caps \ ranges
    /\ held' = [r \in Ranges |-> IF r \in ranges THEN 0 ELSE held[r]]

(* The fields keep their values when the slot goes back to the pool. *)
rollback_worker ==
    /\ At("rollback")
    /\ Release(main.pool, Named(main.pool))
    /\ desc' = [desc EXCEPT ![main.pool].state = TD_UNUSED]
    /\ NextWorker
    /\ UNCHANGED <<WORKER_SLOTS, thread, va_next, failures, app>>

-----------------------------------------------------------------------------
(* A worker leaves: it marks its descriptor, then stops in thread_exit. *)
worker_exit(w) ==
    /\ thread[w] = "running"
    /\ thread' = [thread EXCEPT ![w] = "exited"]
    /\ desc' = [desc EXCEPT ![WORKER_SLOTS[w].thread_pool_idx].state = TD_EXITED]
    /\ UNCHANGED <<WORKER_SLOTS, held, caps, mapped, main, va_next, failures, app>>

thread_exit(w) ==
    /\ thread[w] = "exited"
    /\ thread' = [thread EXCEPT ![w] = "stopped"]
    /\ UNCHANGED <<desc, WORKER_SLOTS, held, caps, mapped, main, va_next, failures, app>>

(* The main thread, having received a message, takes an exited worker. *)
ReapCas(w) ==
    /\ At("serving")
    /\ WORKER_SLOTS[w].active
    /\ LET i == WORKER_SLOTS[w].thread_pool_idx
       IN /\ desc[i].state = TD_EXITED
          /\ desc' = [desc EXCEPT ![i].state = TD_REAPING]
          /\ main' = [idx |-> w, at |-> "suspend", pool |-> i]
    /\ UNCHANGED <<WORKER_SLOTS, thread, held, caps, mapped, va_next, failures, app>>

(* Mistaken form: the reaper relies on the worker having stopped by now. *)
NoSuspend ==
    /\ At("suspend")
    /\ Go("cleanup")
    /\ UNCHANGED <<desc, WORKER_SLOTS, thread, held, caps, mapped, va_next, failures, app>>

ReapSuspend ==
    /\ At("suspend")
    /\ thread' = [thread EXCEPT ![main.idx] = "stopped"]
    /\ Go("cleanup")
    /\ UNCHANGED <<desc, WORKER_SLOTS, held, caps, mapped, va_next, failures, app>>

cleanup_thread ==
    /\ At("cleanup")
    /\ Release(main.pool, Named(main.pool))
    /\ desc' = [desc EXCEPT ![main.pool].state = TD_UNUSED,
                            ![main.pool].stack_frame_base = 0,
                            ![main.pool].tls_frame_base = 0]
    /\ Go("inactive")
    /\ UNCHANGED <<WORKER_SLOTS, thread, va_next, failures, app>>

ReapSlot ==
    /\ At("inactive")
    /\ WORKER_SLOTS' = [WORKER_SLOTS EXCEPT ![main.idx].active = FALSE]
    /\ Go("serving")
    /\ UNCHANGED <<desc, thread, held, caps, mapped, va_next, failures, app>>

(* The handlers of running workers, and other threads of the process, use  *)
(* the same slot allocator.                                                *)
AppAlloc ==
    /\ Cardinality(app) < MaxApp
    /\ Free # {}
    /\ held' = [held EXCEPT ![Min(Free)] = App]
    /\ app' = app \cup {Min(Free)}
    /\ caps' = caps \cup {Min(Free)}
    /\ UNCHANGED <<desc, WORKER_SLOTS, thread, mapped, main, va_next, failures>>

AppFree(r) ==
    /\ r \in app
    /\ app' = app \ {r}
    /\ held' = [held EXCEPT ![r] = 0]
    /\ caps' = caps \ {r}
    /\ UNCHANGED <<desc, WORKER_SLOTS, thread, mapped, main, va_next, failures>>

Spawn ==
    \/ alloc_thread_desc \/ SpawnSlots \/ RetypeObjects
    \/ SpawnStackSlots \/ RetypeStack \/ SpawnTlsSlots \/ RetypeTls
    \/ MapRegion \/ ConfigureTcb \/ RecordAndResume \/ rollback_worker

Reap == (\E w \in Workers : ReapCas(w)) \/ ReapSuspend \/ cleanup_thread \/ ReapSlot

Next ==
    \/ Spawn
    \/ Reap
    \/ \E w \in Workers : worker_exit(w) \/ thread_exit(w)
    \/ AppAlloc
    \/ \E r \in Ranges : AppFree(r)

Spec == Init /\ [][Next]_poolVars
-----------------------------------------------------------------------------
TypeOK ==
    /\ desc \in [Pool -> [state : {TD_UNUSED, TD_RUNNING, TD_EXITED, TD_REAPING},
                          tcb_cap : Ranges \cup {0}, stack_frame_base : Ranges \cup {0},
                          tls_frame_base : Ranges \cup {0}, region : 0..(WorkerCount - 1)]]
    /\ WORKER_SLOTS \in [Workers -> [thread_pool_idx : {0} \cup Pool, active : BOOLEAN]]
    /\ thread \in [Workers -> {"none", "running", "exited", "stopped"}]
    /\ held \in [Ranges -> {0, App} \cup Pool]
    /\ caps \subseteq Ranges /\ mapped \subseteq 1..(WorkerCount - 1)
    /\ main \in [idx : 0..(WorkerCount - 1), pool : {0} \cup Pool,
                 at : Stages \cup {"serving", "suspend", "cleanup", "inactive"}]
    /\ va_next \in 1..WorkerCount
    /\ failures \in 0..MaxFailures
    /\ app \subseteq Ranges

(* Slots, capabilities and mappings are charged to a descriptor that is in *)
(* use and names them: whatever the step at which a spawn fails, and when  *)
(* a worker is reaped, nothing stays behind.                               *)
NothingLeaked ==
    /\ \A r \in Ranges : held[r] \in Pool =>
          desc[held[r]].state # TD_UNUSED /\ r \in Named(held[r])
    /\ \A r \in caps : held[r] # 0
    /\ \A v \in mapped : \E i \in Pool : desc[i].state # TD_UNUSED /\ desc[i].region = v

(* Until its thread has stopped, a worker's stack, TLS and kernel objects  *)
(* stay in place: neither the reaper nor the rollback of another spawn     *)
(* takes them away under it.                                               *)
LiveWorkerIntact ==
    \A w \in Workers : thread[w] \in {"running", "exited"} =>
        LET i == WORKER_SLOTS[w].thread_pool_idx
        IN /\ desc[i].region \in mapped
           /\ Named(i) \subseteq caps
           /\ \A r \in Named(i) : held[r] = i

(* "Unmaps pages, deletes caps, returns the thread pool slot" of a         *)
(* partially created worker: what the other threads hold stays theirs.     *)
OthersKeepTheirs == \A r \in app : held[r] = App /\ r \in caps

(* "Return the worker slot index for the current thread": the first active *)
(* entry of WORKER_SLOTS whose pool index is the caller's.                 *)
current_worker_index(i) ==
    LET mine == {w \in Workers : WORKER_SLOTS[w].active /\ WORKER_SLOTS[w].thread_pool_idx = i}
    IN IF mine = {} THEN 0 ELSE Min(mine)

active_worker_count ==
    1 + Cardinality({w \in Workers : /\ WORKER_SLOTS[w].active
                                     /\ desc[WORKER_SLOTS[w].thread_pool_idx].state = TD_RUNNING})

(* A running worker finds its own index, though failed spawns share pool   *)
(* slots with later ones, and the workers counted are those running.       *)
IndexIsOwn ==
    /\ \A w \in Workers : thread[w] = "running" =>
          current_worker_index(WORKER_SLOTS[w].thread_pool_idx) = w
    /\ active_worker_count = 1 + Cardinality({w \in Workers : thread[w] = "running"})
=============================================================================
