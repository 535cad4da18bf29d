------------------------------- MODULE FileIO --------------------------------
(***************************************************************************)
(* Reading and writing a file from several threads of a process            *)
(* (posix/file.rs), the IPC retry wrappers they use (posix/lib.rs) and the *)
(* shared-memory path for large transfers with its one-time set-up         *)
(* (posix/bulk.rs).  A call moves its data in chunks, one IPC per chunk.   *)
(* An IPC may be interrupted by a signal: before the server has seen it    *)
(* (TRONA_RESTART, retried by every wrapper and so invisible here) or      *)
(* while waiting for the reply (TRONA_INTERRUPTED), when the server has    *)
(* done the work and the answer is lost.  The unit of data is an inline    *)
(* chunk; the shared region holds BulkChunk units.                         *)
(***************************************************************************)
EXTENDS Integers, Sequences

CONSTANTS Threads,
          Calls,       \* [op, count]: what a thread may call
          BulkChunk,   \* units the shared region holds
          Threshold,   \* larger counts try the bulk path
          FileSize,    \* units a read can find in the file
          MaxFaults    \* bound: interruptions and errors

FileIOAssumption ==
    /\ {BulkChunk, Threshold, FileSize, MaxFaults} \subseteq Nat
    /\ \A c \in Calls : c.op \in {"read", "write", "pread", "pwrite"} /\ c.count \in Nat

VARIABLES cursor,      \* the descriptor's read offset, kept by the server
          shm,         \* what the shared region holds
          BULK_SHM_STATE, BULK_SHM_ADDR,
          vfs_mapped,  \* the server has mapped the region
          mappings,    \* mappings of it made in this process
          pc, call, total,
          buf,         \* what a reader's buffer holds
          moved,       \* what the server delivered to, or took from, the call
          cut,         \* the call lost a reply to a signal
          mixed,       \* another thread filled the region during the transfer
          spoiled,     \* a set-up call of the bulk path failed at the IPC level
          faults

setupVars == <<BULK_SHM_STATE, BULK_SHM_ADDR, vfs_mapped, mappings, spoiled>>
callVars == <<call, total, buf, moved, cut, mixed>>
fileVars == <<cursor, shm, setupVars, pc, callVars, faults>>

Init ==
    /\ cursor = 0 /\ shm = << >> /\ faults = 0
    /\ BULK_SHM_STATE = "UNINIT" /\ BULK_SHM_ADDR = 0
    /\ vfs_mapped = FALSE /\ mappings = 0 /\ spoiled = FALSE
    /\ pc = [t \in Threads |-> "idle"]
    /\ call = [t \in Threads |-> [op |-> "none", count |-> 0]]
    /\ total = [t \in Threads |-> 0]
    /\ buf = [t \in Threads |-> << >>] /\ moved = buf
    /\ cut = [t \in Threads |-> FALSE] /\ mixed = cut

Goto(t, label) == pc' = [pc EXCEPT ![t] = label]
Fault == faults < MaxFaults /\ faults' = faults + 1
Smaller(a, b) == IF a < b THEN a ELSE b

(* posix_read and posix_pwrite try the bulk path for large counts; *)
(* posix_write and posix_pread have none.                          *)
Start(t) ==
    /\ pc[t] = "idle"
    /\ \E c \in Calls :
          /\ call' = [call EXCEPT ![t] = c]
          /\ Goto(t, IF c.op \in {"read", "pwrite"} /\ c.count > Threshold
                     THEN "ensure" ELSE "inline")
    /\ UNCHANGED <<cursor, shm, setupVars, total, buf, moved, cut, mixed, faults>>

-----------------------------------------------------------------------------
(* ensure_bulk_shm: one thread sets the region up, the others sleep until *)
(* it has succeeded or failed; futex_wait compares the word again.        *)
EnsureWait(t) ==
    /\ \/ pc[t] = "ensure" /\ BULK_SHM_STATE = "READY" /\ Goto(t, "bulk")
       \/ pc[t] = "ensure" /\ BULK_SHM_STATE = "INITING" /\ Goto(t, "futex")
       \/ pc[t] = "futex" /\ Goto(t, IF BULK_SHM_STATE = "INITING" THEN "asleep" ELSE "ensure")
    /\ UNCHANGED <<cursor, shm, setupVars, callVars, faults>>

EnsureClaim(t) ==
    /\ pc[t] = "ensure" /\ BULK_SHM_STATE = "UNINIT"
    /\ BULK_SHM_STATE' = "INITING"
    /\ Goto(t, IF BULK_SHM_ADDR = 0 THEN "create" ELSE "vfs")
    /\ UNCHANGED <<cursor, shm, BULK_SHM_ADDR, vfs_mapped, mappings, spoiled, callVars, faults>>

(* MM_SHM_CREATE, MM_SHM_MAP and VFS_BULK_SETUP in turn. *)
AfterSetup == [create |-> "map", map |-> "vfs", vfs |-> "ready"]

SetupServed(t) ==
    /\ mappings' = IF pc[t] = "map" THEN mappings + 1 ELSE mappings
    /\ vfs_mapped' = (vfs_mapped \/ pc[t] = "vfs")

SetupCall(t) ==
    /\ pc[t] \in DOMAIN AfterSetup
    /\ SetupServed(t)
    /\ BULK_SHM_ADDR' = IF pc[t] = "map" THEN 1 ELSE BULK_SHM_ADDR
    /\ Goto(t, AfterSetup[pc[t]])
    /\ UNCHANGED <<cursor, shm, BULK_SHM_STATE, spoiled, callVars, faults>>

SetupRefused(t) ==
    /\ pc[t] \in DOMAIN AfterSetup
    /\ Fault
    /\ Goto(t, "give_up")
    /\ UNCHANGED <<cursor, shm, setupVars, callVars>>

(* The set-up looks at the label of the reply alone; a call that fails or *)
(* is interrupted leaves the zeroed reply, whose label reads as TRONA_OK  *)
(* and whose address is 0.                                                *)
SetupUnanswered(t) ==
    /\ pc[t] \in DOMAIN AfterSetup
    /\ Fault
    /\ SetupServed(t) \/ UNCHANGED <<mappings, vfs_mapped>>
    /\ spoiled' = TRUE
    /\ Goto(t, AfterSetup[pc[t]])
    /\ UNCHANGED <<cursor, shm, BULK_SHM_STATE, BULK_SHM_ADDR, callVars>>

(* finish_bulk_shm_setup: publish the outcome, then wake every sleeper. *)
finish_bulk_shm_setup(t) ==
    /\ pc[t] \in {"ready", "give_up"}
    /\ BULK_SHM_STATE' = IF pc[t] = "ready" THEN "READY" ELSE "UNINIT"
    /\ Goto(t, IF pc[t] = "ready" THEN "wake" ELSE "wake_inline")
    /\ UNCHANGED <<cursor, shm, BULK_SHM_ADDR, vfs_mapped, mappings, spoiled, callVars, faults>>

(* Mistaken form: only a successful set-up wakes the sleepers. *)
WakeOnSuccess(t) ==
    /\ pc[t] \in {"wake", "wake_inline"}
    /\ pc' = [v \in Threads |-> IF v = t THEN IF pc[t] = "wake" THEN "bulk" ELSE "inline"
                                ELSE IF pc[v] = "asleep" /\ pc[t] = "wake" THEN "ensure" ELSE pc[v]]
    /\ UNCHANGED <<cursor, shm, setupVars, callVars, faults>>

FutexWake(t) ==
    /\ pc[t] \in {"wake", "wake_inline"}
    /\ pc' = [v \in Threads |-> IF v = t THEN IF pc[t] = "wake" THEN "bulk" ELSE "inline"
                                ELSE IF pc[v] = "asleep" THEN "ensure" ELSE pc[v]]
    /\ UNCHANGED <<cursor, shm, setupVars, callVars, faults>>

-----------------------------------------------------------------------------
Reads(t) == call[t].op \in {"read", "pread"}
Positioned(t) == call[t].op \in {"pread", "pwrite"}
Chunk(t, size) == Smaller(call[t].count - total[t], size)

(* The units from position at on: of the file, or of the caller's data. *)
FileUnits(at, n) == [i \in 1 .. n |-> <<"file", at + i - 1>>]
OwnUnits(t, at, n) == [i \in 1 .. n |-> <<t, at + i - 1>>]

(* What the server may answer to a request of n units: a read stops at *)
(* the end of the file, a write may be short.                          *)
Answers(t, n) ==
    LET at == IF Positioned(t) THEN total[t] ELSE cursor
        there == IF at < FileSize THEN FileSize - at ELSE 0
    IN IF Reads(t) THEN {FileUnits(at, Smaller(n, there))}
       ELSE {OwnUnits(t, total[t], k) : k \in 0 .. n}

(* Stored over what was there from position at on. *)
Put(seq, at, units) == SubSeq(seq, 1, at) \o units \o SubSeq(seq, at + Len(units) + 1, Len(seq))

(* A positioned request acts at the offset it names, the others where *)
(* the last one ended, whether or not its reply arrived.              *)
Serve(t, units) ==
    /\ moved' = [moved EXCEPT ![t] = Put(@, IF Positioned(t) THEN total[t] ELSE Len(@), units)]
    /\ cursor' = IF call[t].op = "read" THEN cursor + Len(units) ELSE cursor

(* A short chunk, or the last one, ends the call. *)
AfterChunk(t, size, got, again) ==
    IF got < Chunk(t, size) \/ total[t] + got = call[t].count THEN "done" ELSE again

(* One round trip of the inline loop. *)
InlineCall(t) ==
    /\ pc[t] = "inline"
    /\ \E units \in Answers(t, Chunk(t, 1)) :
          /\ Serve(t, units)
          /\ buf' = IF Reads(t) THEN [buf EXCEPT ![t] = Put(@, total[t], units)] ELSE buf
          /\ total' = [total EXCEPT ![t] = @ + Len(units)]
          /\ Goto(t, AfterChunk(t, 1, Len(units), "inline"))
    /\ UNCHANGED <<shm, setupVars, call, cut, mixed, faults>>

(* An error answer ends the call with what was moved so far. *)
InlineError(t) ==
    /\ pc[t] = "inline" /\ Fault
    /\ Goto(t, "done")
    /\ UNCHANGED <<cursor, shm, setupVars, callVars>>

(* Mistaken form: an interrupted call is always sent again. *)
InlineResends(t) ==
    /\ pc[t] = "inline" /\ Fault
    /\ \E units \in Answers(t, Chunk(t, 1)) : Serve(t, units)
    /\ cut' = [cut EXCEPT ![t] = TRUE]
    /\ UNCHANGED <<pc, shm, setupVars, call, total, buf, mixed>>

(* TRONA_INTERRUPTED.  ipc_call_retry_idempotent sends a positioned      *)
(* request again.  A read or write that has moved something returns; one *)
(* that has not returns EINTR, or is sent again when the handler has     *)
(* SA_RESTART (__sig_last_restart).                                      *)
InlineInterrupted(t) ==
    /\ pc[t] = "inline" /\ Fault
    /\ \E units \in Answers(t, Chunk(t, 1)) : Serve(t, units)
    /\ cut' = [cut EXCEPT ![t] = TRUE]
    /\ \/ (Positioned(t) \/ total[t] = 0) /\ UNCHANGED pc
       \/ ~Positioned(t) /\ Goto(t, "done")
    /\ UNCHANGED <<shm, setupVars, call, total, buf, mixed>>

(* bulk_pwrite copies into the region, then sends the request. *)
BulkFill(t) ==
    /\ pc[t] = "bulk" /\ ~Reads(t)
    /\ shm' = Put(shm, 0, OwnUnits(t, total[t], Chunk(t, BulkChunk)))
    /\ Goto(t, "filled")
    /\ UNCHANGED <<cursor, setupVars, callVars, faults>>

(* The server takes what the region holds when it runs the request. *)
BulkWrite(t) ==
    /\ pc[t] = "filled"
    /\ \E k \in 0 .. Chunk(t, BulkChunk) :
          /\ Serve(t, SubSeq(shm, 1, k))
          /\ mixed' = [mixed EXCEPT ![t] = @ \/ SubSeq(shm, 1, k) # OwnUnits(t, total[t], k)]
          /\ total' = [total EXCEPT ![t] = @ + k]
          /\ Goto(t, AfterChunk(t, BulkChunk, k, "bulk"))
    /\ UNCHANGED <<shm, setupVars, call, buf, cut, faults>>

(* bulk_read sends the request, then copies out what the reply counts. *)
BulkRead(t) ==
    /\ pc[t] = "bulk" /\ Reads(t)
    /\ \E units \in Answers(t, Chunk(t, BulkChunk)) :
          /\ Serve(t, units)
          /\ shm' = Put(shm, 0, units)
          /\ Goto(t, IF units = << >> THEN "done" ELSE "copy")
    /\ UNCHANGED <<setupVars, call, total, buf, cut, mixed, faults>>

BulkCopy(t) ==
    /\ pc[t] = "copy"
    /\ LET got == Len(moved[t]) - total[t]
       IN /\ buf' = [buf EXCEPT ![t] = Put(@, total[t], SubSeq(shm, 1, got))]
          /\ mixed' = [mixed EXCEPT ![t] = @ \/ SubSeq(shm, 1, got) # SubSeq(moved[t], total[t] + 1, Len(moved[t]))]
          /\ total' = [total EXCEPT ![t] = @ + got]
          /\ Goto(t, AfterChunk(t, BulkChunk, got, "bulk"))
    /\ UNCHANGED <<cursor, shm, setupVars, call, moved, cut, faults>>

(* A refused request: a partial count, or the inline path. *)
BulkError(t) ==
    /\ pc[t] = IF Reads(t) THEN "bulk" ELSE "filled"
    /\ Fault
    /\ Goto(t, IF total[t] > 0 THEN "done" ELSE "inline")
    /\ UNCHANGED <<cursor, shm, setupVars, callVars>>

(* An interrupted one hands the whole call to the inline path, which *)
(* starts again at the beginning of the buffer.                      *)
BulkInterrupted(t) ==
    /\ pc[t] = IF Reads(t) THEN "bulk" ELSE "filled"
    /\ Fault
    /\ IF Reads(t)
       THEN \E units \in Answers(t, Chunk(t, BulkChunk)) : Serve(t, units) /\ shm' = Put(shm, 0, units)
       ELSE \E k \in 0 .. Chunk(t, BulkChunk) : Serve(t, SubSeq(shm, 1, k)) /\ UNCHANGED shm
    /\ mixed' = [mixed EXCEPT ![t] = @ \/ (~Reads(t) /\ shm # Put(shm, 0, OwnUnits(t, total[t], Chunk(t, BulkChunk))))]
    /\ cut' = [cut EXCEPT ![t] = TRUE]
    /\ total' = [total EXCEPT ![t] = 0]
    /\ Goto(t, "inline")
    /\ UNCHANGED <<setupVars, call, buf>>

Next ==
    \E t \in Threads :
        \/ Start(t) \/ EnsureWait(t) \/ EnsureClaim(t)
        \/ SetupCall(t) \/ SetupRefused(t) \/ SetupUnanswered(t)
        \/ finish_bulk_shm_setup(t) \/ FutexWake(t)
        \/ InlineCall(t) \/ InlineError(t) \/ InlineInterrupted(t)
        \/ BulkFill(t) \/ BulkWrite(t) \/ BulkRead(t) \/ BulkCopy(t)
        \/ BulkError(t) \/ BulkInterrupted(t)

Spec == Init /\ [][Next]_fileVars

-----------------------------------------------------------------------------
TypeOK ==
    /\ BULK_SHM_STATE \in {"UNINIT", "INITING", "READY"} /\ BULK_SHM_ADDR \in {0, 1}
    /\ \A t \in Threads : total[t] \in 0 .. call[t].count
    /\ faults \in 0 .. MaxFaults

(* A call of posix_read that returns n has handed over exactly the n units *)
(* the server moved its cursor past, in order, and a write or positioned   *)
(* write that returns n has had exactly its first n units taken, across    *)
(* short chunks, errors, the bulk path and its fallback.  Excepted are a   *)
(* call that lost a reply to a signal and one whose region another thread  *)
(* filled meanwhile (bulk.rs takes no lock around the shared region).      *)
TransferExact ==
    \A t \in Threads :
        (pc[t] = "done" /\ ~cut[t] /\ ~mixed[t]) =>
            /\ Len(moved[t]) = total[t]
            /\ Reads(t) => buf[t] = moved[t]
            /\ ~Reads(t) => moved[t] = OwnUnits(t, 0, total[t])

(* An interrupted positioned write is exact too: the request that is sent *)
(* again stores the same units at the same offset.                        *)
PositionedIsExact ==
    \A t \in Threads :
        (pc[t] = "done" /\ Positioned(t) /\ ~mixed[t]) =>
            IF Reads(t) THEN buf[t] = FileUnits(0, total[t])
            ELSE SubSeq(moved[t], 1, total[t]) = OwnUnits(t, 0, total[t])

(* A write repeats no unit after its first chunk: "re-sending may cause     *)
(* duplicates for non-idempotent operations" (posix/lib.rs:118) is true of  *)
(* a reply lost on the first chunk alone, for once a write has moved        *)
(* something an interruption ends it.                                       *)
WrittenOnceAfterFirst ==
    \A t \in Threads : call[t].op = "write" =>
        \A i, j \in DOMAIN moved[t] : (i < j /\ moved[t][i] = moved[t][j]) => moved[t][i] = <<t, 0>>

(* The region is published only when it is mapped here and in the server: *)
(* "On any failure, returns false and the caller falls back to the legacy *)
(* 152-byte-per-IPC read path" (bulk.rs:46).                              *)
ReadyIsMapped == BULK_SHM_STATE = "READY" => BULK_SHM_ADDR # 0 /\ vfs_mapped

(* That holds of a set-up none of whose calls failed at the IPC level, and *)
(* such a set-up maps the region here once, however often it is retried    *)
(* after a refusal (bulk.rs:95-97).                                        *)
SetupSound == ~spoiled => ReadyIsMapped /\ mappings <= 1

(* No thread sleeps on a set-up that is over: when one is asleep in      *)
(* ensure_bulk_shm the state is INITING or its owner is about to wake it.*)
NoneLeftAsleep ==
    (\E t \in Threads : pc[t] = "asleep") =>
        \/ BULK_SHM_STATE = "INITING" /\ \E t \in Threads : pc[t] \in {"create", "map", "vfs", "ready", "give_up"}
        \/ \E t \in Threads : pc[t] \in {"wake", "wake_inline"}
=============================================================================
