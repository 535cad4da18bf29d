--------------------------------- MODULE Dns ---------------------------------
(***************************************************************************)
(* The resolver's cached endpoint (posix/dns.rs).  The first lookup asks   *)
(* the name server for dnssrv's endpoint capability, received in a slot    *)
(* kept for that purpose, and caches the slot number; later lookups call   *)
(* the cached slot.  The statics are plain variables without a lock, so    *)
(* threads that resolve at the same time interleave between the accesses.  *)
(***************************************************************************)
EXTENDS Integers

CONSTANTS Threads,
          Slots,         \* numbers the slot allocator can give
          MaxFailures    \* bound: failed name server calls and allocations

DnsAssumption == Slots \subseteq Nat \ {0} /\ MaxFailures \in Nat

VARIABLES DNSSRV_EP, DNSSRV_LOOKUP_SLOT,
          free,       \* slots not given out
          cap,        \* slots that hold dnssrv's endpoint
          pc, ep_slot,
          answer,     \* outcome of each thread's last lookup
          overlapped, \* history: two threads resolved the endpoint at once
          failures

dnsVars == <<DNSSRV_EP, DNSSRV_LOOKUP_SLOT, free, cap, pc, ep_slot, answer, overlapped, failures>>

Init ==
    /\ DNSSRV_EP = 0 /\ DNSSRV_LOOKUP_SLOT = 0 /\ free = Slots /\ cap = {}
    /\ pc = [t \in Threads |-> "idle"] /\ ep_slot = [t \in Threads |-> 0]
    /\ answer = [t \in Threads |-> "none"] /\ overlapped = FALSE /\ failures = 0

Resolving == {t \in Threads : pc[t] \in {"slot", "lookup", "store"}}
Goto(t, label) == pc' = [pc EXCEPT ![t] = label]
Fail == failures < MaxFailures /\ failures' = failures + 1
GiveUp(t) == Fail /\ Goto(t, "idle") /\ answer' = [answer EXCEPT ![t] = "error"]

(* resolve_dnssrv_ep: the cached endpoint if there is one. *)
UseCached(t) ==
    /\ pc[t] = "idle" /\ DNSSRV_EP # 0
    /\ ep_slot' = [ep_slot EXCEPT ![t] = DNSSRV_EP]
    /\ Goto(t, "call")
    /\ UNCHANGED <<DNSSRV_EP, DNSSRV_LOOKUP_SLOT, free, cap, answer, overlapped, failures>>

BeginResolve(t) ==
    /\ pc[t] = "idle" /\ DNSSRV_EP = 0
    /\ ep_slot' = [ep_slot EXCEPT ![t] = DNSSRV_LOOKUP_SLOT]
    /\ overlapped' = (overlapped \/ Resolving # {})
    /\ Goto(t, "slot")
    /\ UNCHANGED <<DNSSRV_EP, DNSSRV_LOOKUP_SLOT, free, cap, answer, failures>>

(* The receive slot, taken from the allocator the first time, is emptied. *)
TakeSlot(t) ==
    /\ pc[t] = "slot"
    /\ \/ /\ ep_slot[t] # 0 /\ cap' = cap \ {ep_slot[t]}
          /\ UNCHANGED <<DNSSRV_LOOKUP_SLOT, free, ep_slot>>
       \/ /\ ep_slot[t] = 0
          /\ \E s \in free : /\ free' = free \ {s} /\ DNSSRV_LOOKUP_SLOT' = s
                             /\ ep_slot' = [ep_slot EXCEPT ![t] = s] /\ cap' = cap \ {s}
    /\ Goto(t, "lookup")
    /\ UNCHANGED <<DNSSRV_EP, answer, overlapped, failures>>

NoSlot(t) ==
    /\ pc[t] = "slot" /\ ep_slot[t] = 0
    /\ GiveUp(t)
    /\ UNCHANGED <<DNSSRV_EP, DNSSRV_LOOKUP_SLOT, free, cap, ep_slot, overlapped>>

(* NS_LOOKUP: the reply brings the capability. *)
LookupAnswered(t) ==
    /\ pc[t] = "lookup"
    /\ cap' = cap \cup {ep_slot[t]}
    /\ Goto(t, "store")
    /\ UNCHANGED <<DNSSRV_EP, DNSSRV_LOOKUP_SLOT, free, ep_slot, answer, overlapped, failures>>

(* Mistaken form: a failed lookup leaves the slot in the cache. *)
LookupFailsCached(t) ==
    /\ pc[t] = "lookup"
    /\ GiveUp(t) /\ DNSSRV_EP' = ep_slot[t]
    /\ UNCHANGED <<DNSSRV_LOOKUP_SLOT, free, cap, ep_slot, overlapped>>
LookupFails(t) ==
    /\ pc[t] = "lookup"
    /\ GiveUp(t)
    /\ UNCHANGED <<DNSSRV_EP, DNSSRV_LOOKUP_SLOT, free, cap, ep_slot, overlapped>>

StoreEndpoint(t) ==
    /\ pc[t] = "store"
    /\ DNSSRV_EP' = ep_slot[t]
    /\ Goto(t, "call")
    /\ UNCHANGED <<DNSSRV_LOOKUP_SLOT, free, cap, ep_slot, answer, overlapped, failures>>

(* DNS_RESOLVE on the endpoint. *)
Query(t) ==
    /\ pc[t] = "call"
    /\ answer' = [answer EXCEPT ![t] = IF ep_slot[t] \in cap THEN "served" ELSE "unreachable"]
    /\ Goto(t, "idle")
    /\ UNCHANGED <<DNSSRV_EP, DNSSRV_LOOKUP_SLOT, free, cap, ep_slot, overlapped, failures>>

Next == \E t \in Threads :
    \/ UseCached(t) \/ BeginResolve(t) \/ TakeSlot(t) \/ NoSlot(t) \/ LookupAnswered(t)
    \/ LookupFails(t) \/ StoreEndpoint(t) \/ Query(t)

Spec == Init /\ [][Next]_dnsVars

-----------------------------------------------------------------------------
TypeOK ==
    /\ {DNSSRV_EP, DNSSRV_LOOKUP_SLOT} \subseteq Slots \cup {0} /\ free \subseteq Slots /\ cap \subseteq Slots
    /\ pc \in [Threads -> {"idle", "slot", "lookup", "store", "call"}] /\ ep_slot \in [Threads -> Slots \cup {0}]
    /\ answer \in [Threads -> {"none", "error", "served", "unreachable"}]
    /\ overlapped \in BOOLEAN /\ failures \in 0 .. MaxFailures

(* A cached endpoint stays usable: once DNSSRV_EP is set, its slot holds    *)
(* dnssrv's capability and every lookup reaches the server; no slot other   *)
(* than the lookup slot is ever taken.  Failed lookups, repeated or not, do *)
(* not spoil the cache.  It holds as long as no two threads were resolving  *)
(* the endpoint at the same time: a second thread empties the shared slot   *)
(* although the first may have cached it.                                   *)
CachedEndpointUsable ==
    ~overlapped =>
        /\ DNSSRV_EP # 0 => DNSSRV_EP \in cap
        /\ \A t \in Threads : answer[t] # "unreachable"
        /\ Slots \ free \subseteq {DNSSRV_LOOKUP_SLOT}
=============================================================================
