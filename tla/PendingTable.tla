---------------------------- MODULE PendingTable ----------------------------
(***************************************************************************)
(* The pending-request table of substrate/pending.rs, as a single-threaded *)
(* server drives it: a request is deferred (alloc), its context and        *)
(* deadline are filled in, and a callback, possibly late or duplicated,    *)
(* completes it by id or by context.                                       *)
(*                                                                         *)
(* The request id is a u32 that wraps and skips 0.  Each deferred request  *)
(* has a serial number as history, which the code does not keep.           *)
(***************************************************************************)
EXTENDS Integers, FiniteSets

CONSTANTS N,          \* table capacity
          IdMod,      \* 2^32 in the code
          Contexts,   \* context words (context[0], context[1]); 0 is [0, 0]
          Deadlines,  \* deadline values; 0 is "no timeout"
          MaxAllocs   \* bound on successful allocs

PendingAssumption ==
    /\ N \in Nat \ {0}
    /\ IdMod \in Nat \ {0, 1}
    /\ 0 \in Contexts /\ 0 \in Deadlines /\ Deadlines \subseteq Nat
    /\ \E d \in Deadlines : \A e \in Deadlines : d >= e
    /\ MaxAllocs \in Nat

VARIABLES entries, next_id,
          serials,    \* history: number of requests deferred so far
          ids,        \* history: the id each of them was given
          completed   \* history: how often each of them was handed back

pendingVars == <<entries, next_id, serials, ids, completed>>

Slots == 0..(N - 1)

(* PendingRequest::zeroed; serial is history. *)
zeroed == [active |-> FALSE, request_id |-> 0, context |-> 0, deadline_ns |-> 0, serial |-> 0]

Init ==
    /\ entries = [i \in Slots |-> zeroed]
    /\ next_id = 1
    /\ serials = 0
    /\ ids = [k \in 1..MaxAllocs |-> 0]
    /\ completed = [k \in 1..MaxAllocs |-> 0]

First(S) == CHOOSE i \in S : \A j \in S : i <= j

Active == {i \in Slots : entries[i].active}

(* Mistaken forms: 0 is not skipped; ids are numbered by the pending.      *)
NextIdPlain == (next_id + 1) % IdMod

NextIdByCount == 1 + Cardinality(Active)

(* wrapping_add(1), then 0 is skipped. *)
NextId == IF (next_id + 1) % IdMod = 0 THEN 1 ELSE (next_id + 1) % IdMod

(* alloc into the first free entry.  On a full table it returns 0 and      *)
(* changes nothing.                                                        *)
alloc ==
    /\ Active # Slots
    /\ serials < MaxAllocs
    /\ entries' = [entries EXCEPT ![First(Slots \ Active)] =
                      [zeroed EXCEPT !.active = TRUE, !.request_id = next_id,
                                     !.serial = serials + 1]]
    /\ next_id' = NextId
    /\ serials' = serials + 1
    /\ ids' = [ids EXCEPT ![serials + 1] = next_id]
    /\ UNCHANGED completed

WithId(id) == {i \in Active : entries[i].request_id = id}

(* The server fills in an entry through find_by_id. *)
find_by_id(id, ctx, deadline) ==
    /\ WithId(id) # {}
    /\ entries' = [entries EXCEPT ![First(WithId(id))] =
                      [@ EXCEPT !.context = ctx, !.deadline_ns = deadline]]
    /\ UNCHANGED <<next_id, serials, ids, completed>>

HandBack(i) ==
    /\ entries' = [entries EXCEPT ![i] = zeroed]
    /\ completed' = [completed EXCEPT ![entries[i].serial] = @ + 1]
    /\ UNCHANGED <<next_id, serials, ids>>

complete(id) == WithId(id) # {} /\ HandBack(First(WithId(id)))

complete_by_context(ctx) ==
    LET matching == {i \in Active : entries[i].context = ctx}
    IN  matching # {} /\ HandBack(First(matching))

(* A callback carries the id of some request deferred earlier, whether or  *)
(* not that request is still pending.                                      *)
Callback(k) == complete(ids[k])

Next ==
    \/ alloc
    \/ \E k \in 1..serials : Callback(k)
    \/ \E k \in 1..serials, c \in Contexts, d \in Deadlines : find_by_id(ids[k], c, d)
    \/ \E c \in Contexts : complete_by_context(c)

Spec == Init /\ [][Next]_pendingVars

-----------------------------------------------------------------------------
(* The scan of nearest_deadline; MaxDeadline stands for u64::MAX. *)
MaxDeadline == 1 + CHOOSE d \in Deadlines : \A e \in Deadlines : d >= e

Scan[i \in 0..N] ==
    IF i = 0 THEN MaxDeadline
    ELSE LET e == entries[i - 1]
         IN  IF e.active /\ e.deadline_ns # 0 /\ e.deadline_ns < Scan[i - 1]
             THEN e.deadline_ns ELSE Scan[i - 1]

nearest_deadline == Scan[N]

-----------------------------------------------------------------------------
(* Properties *)

Entry == [active : BOOLEAN, request_id : 0..(IdMod - 1), context : Contexts,
          deadline_ns : Deadlines, serial : 0..MaxAllocs]

TypeOK ==
    /\ entries \in [Slots -> Entry]
    /\ next_id \in 1..(IdMod - 1)
    /\ serials \in 0..MaxAllocs
    /\ ids \in [1..MaxAllocs -> 0..(IdMod - 1)]
    /\ completed \in [1..MaxAllocs -> Nat]

(* Every deferred request is in the table exactly until it is handed back, *)
(* and is handed back at most once: no reply capability is lost when a     *)
(* slot is reused, and none is used twice.                                 *)
HandedBackOnce ==
    \A k \in 1..serials :
        completed[k] = IF \E i \in Active : entries[i].serial = k THEN 0 ELSE 1

(* A callback for request k, late or duplicated, finds k or nothing,       *)
(* unless 2^32 - 1 requests were deferred between the two that share the   *)
(* id; and the id 0, which alloc returns for "table full", is never live:  *)
(* find_by_id and complete are unambiguous in spite of the wrap.           *)
IdsUnambiguous ==
    \A i \in Active :
        /\ entries[i].request_id # 0
        /\ \A k \in 1..serials :
              entries[i].request_id = ids[k] /\ entries[i].serial # k =>
                  \/ entries[i].serial >= k + (IdMod - 1)
                  \/ k >= entries[i].serial + (IdMod - 1)

(* The server's timer is armed for the earliest deadline of the requests   *)
(* still pending: none is overslept and none that is gone wakes it.        *)
NearestIsEarliest ==
    LET pendingDeadlines == {entries[i].deadline_ns : i \in Active} \ {0}
    IN  /\ \A d \in pendingDeadlines : nearest_deadline <= d
        /\ nearest_deadline \in pendingDeadlines \cup {MaxDeadline}
=============================================================================
