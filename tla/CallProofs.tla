----------------------------- MODULE CallProofs -----------------------------
(***************************************************************************)
(* Proofs about the parts of CallSystem, for every value of the constants: *)
(* bulk file I/O, signals, the POSIX wrappers and the resolver's endpoint. *)
(***************************************************************************)
EXTENDS CallSystem, TLAPS

(* A leaf may take two minutes. *)
USE SMTT(120)

-----------------------------------------------------------------------------
(***************************************************************************)
(* Dns: while no two threads have resolved the endpoint at once, the one   *)
(* resolver owns the lookup slot, so that nothing empties it after it has  *)
(* been cached.                                                            *)
(***************************************************************************)

-----------------------------------------------------------------------------
(* A thread past the slot has one. *)
Slotted == \A t \in DnsThreads : d_pc[t] \in {"lookup", "store"} => d_ep_slot[t] # 0

(* The cache and the one resolver. *)
Cached ==
    /\ d_DNSSRV_EP # 0 => d_DNSSRV_EP \in d_cap /\ Dns!Resolving = {}
    /\ \A t \in DnsThreads : d_pc[t] = "call" => d_DNSSRV_EP # 0 /\ d_ep_slot[t] = d_DNSSRV_EP

Resolver ==
    /\ \A t, u \in Dns!Resolving : t = u
    /\ \A t \in Dns!Resolving : d_ep_slot[t] = d_DNSSRV_LOOKUP_SLOT /\ (d_pc[t] = "store" => d_ep_slot[t] \in d_cap)
    /\ DnsSlots \ d_free \subseteq {d_DNSSRV_LOOKUP_SLOT}

Served == \A t \in DnsThreads : d_answer[t] # "unreachable"

DnsInv ==
    /\ Dns!DnsAssumption /\ Dns!TypeOK /\ Slotted
    /\ ~d_overlapped => Cached /\ Resolver /\ Served

ResolverTypes ==
    /\ d_DNSSRV_EP \in DnsSlots \cup {0} /\ d_DNSSRV_LOOKUP_SLOT \in DnsSlots \cup {0}
    /\ d_free \subseteq DnsSlots /\ d_cap \subseteq DnsSlots
    /\ d_pc \in [DnsThreads -> {"idle", "slot", "lookup", "store", "call"}] /\ d_ep_slot \in [DnsThreads -> DnsSlots \cup {0}]
    /\ d_answer \in [DnsThreads -> {"none", "error", "served", "unreachable"}]
    /\ d_failures \in 0 .. DnsFailures

LEMMA DnsTyped == Dns!TypeOK <=> ResolverTypes /\ d_overlapped \in BOOLEAN
<1>1. Dns!TypeOK => ResolverTypes
  BY Zenon DEF Dns!TypeOK, ResolverTypes
<1>2. Dns!TypeOK => d_overlapped \in BOOLEAN
  BY ZenonT(60) DEF Dns!TypeOK
<1>3. ResolverTypes /\ d_overlapped \in BOOLEAN => Dns!TypeOK
  <2> SUFFICES ASSUME ResolverTypes, d_overlapped \in BOOLEAN PROVE Dns!TypeOK
    OBVIOUS
  <2>1. {d_DNSSRV_EP, d_DNSSRV_LOOKUP_SLOT} \subseteq DnsSlots \cup {0}
    BY Zenon DEF ResolverTypes
  <2>2. QED
    BY ZenonT(60), <2>1 DEF ResolverTypes, Dns!TypeOK
<1>4. QED
  BY ZenonT(60), <1>1, <1>2, <1>3

LEMMA DnsTypes ==
    ASSUME Dns!DnsAssumption, Dns!TypeOK, Slotted, NEW t \in DnsThreads,
           \/ Dns!UseCached(t) \/ Dns!BeginResolve(t) \/ Dns!TakeSlot(t) \/ Dns!NoSlot(t) \/ Dns!LookupAnswered(t)
           \/ Dns!LookupFails(t) \/ Dns!StoreEndpoint(t) \/ Dns!Query(t)
    PROVE  Dns!TypeOK' /\ Slotted'
<1>1. ResolverTypes /\ DnsFailures \in Nat /\ Slotted
  BY Zenon, DnsTyped DEF Dns!DnsAssumption
<1>2. ResolverTypes' /\ Slotted'
  <2> USE <1>1 DEF ResolverTypes, Slotted, Dns!Goto
  <2>1. CASE Dns!UseCached(t)
    BY Zenon, <2>1 DEF Dns!UseCached
  <2>2. CASE Dns!BeginResolve(t)
    BY Zenon, <2>2 DEF Dns!BeginResolve
  <2>3. CASE Dns!TakeSlot(t)
    <3>1. CASE d_ep_slot[t] # 0
      BY Zenon, <2>3, <3>1 DEF Dns!TakeSlot
    <3>2. CASE d_ep_slot[t] = 0
      <4>1. PICK s \in d_free : /\ d_free' = d_free \ {s} /\ d_DNSSRV_LOOKUP_SLOT' = s
                                /\ d_ep_slot' = [d_ep_slot EXCEPT ![t] = s] /\ d_cap' = d_cap \ {s}
        BY Zenon, <2>3, <3>2 DEF Dns!TakeSlot
      <4>2. s \in DnsSlots /\ s # 0
        BY Zenon DEF Dns!DnsAssumption
      <4>3. QED
        BY Zenon, <2>3, <4>1, <4>2 DEF Dns!TakeSlot
    <3>3. QED
      BY Zenon, <3>1, <3>2
  <2>4. CASE Dns!NoSlot(t)
    BY <2>4 DEF Dns!NoSlot, Dns!GiveUp, Dns!Fail
  <2>5. CASE Dns!LookupAnswered(t)
    BY Zenon, <2>5 DEF Dns!LookupAnswered
  <2>6. CASE Dns!LookupFails(t)
    BY <2>6 DEF Dns!LookupFails, Dns!GiveUp, Dns!Fail
  <2>7. CASE Dns!StoreEndpoint(t)
    BY Zenon, <2>7 DEF Dns!StoreEndpoint
  <2>8. CASE Dns!Query(t)
    BY Zenon, <2>8 DEF Dns!Query
  <2>9. QED
    BY ZenonT(60), <2>1, <2>2, <2>3, <2>4, <2>5, <2>6, <2>7, <2>8
<1>3. d_overlapped' \in BOOLEAN
  <2>1. CASE Dns!BeginResolve(t)
    BY ZenonT(60), <2>1 DEF Dns!BeginResolve
  <2>2. CASE ~Dns!BeginResolve(t)
    <3>1. d_overlapped' = d_overlapped
      BY Zenon, <2>2 DEF Dns!UseCached, Dns!TakeSlot, Dns!NoSlot, Dns!LookupAnswered, Dns!LookupFails, Dns!StoreEndpoint, Dns!Query
    <3>2. QED
      BY ZenonT(60), <3>1, DnsTyped
  <2>3. QED
    BY ZenonT(60), <2>1, <2>2
<1>4. Dns!TypeOK'
  <2>1. ({d_DNSSRV_EP, d_DNSSRV_LOOKUP_SLOT} \subseteq DnsSlots \cup {0})'
    BY Zenon, <1>2 DEF ResolverTypes
  <2>2. QED
    BY ZenonT(60), <2>1, <1>2, <1>3 DEF ResolverTypes, Dns!TypeOK
<1>5. QED
  BY Zenon, <1>2, <1>4

LEMMA DnsKeeps ==
    ASSUME Dns!DnsAssumption, Dns!TypeOK, Slotted, NEW t \in DnsThreads, Cached, Resolver, Served,
           \/ Dns!UseCached(t) \/ (Dns!BeginResolve(t) /\ Dns!Resolving = {}) \/ Dns!TakeSlot(t) \/ Dns!NoSlot(t)
           \/ Dns!LookupAnswered(t) \/ Dns!LookupFails(t) \/ Dns!StoreEndpoint(t) \/ Dns!Query(t)
    PROVE  Cached' /\ Resolver' /\ Served'
<1>1. DnsSlots \subseteq Nat \ {0} /\ d_DNSSRV_EP \in DnsSlots \cup {0} /\ d_DNSSRV_LOOKUP_SLOT \in DnsSlots \cup {0}
      /\ d_free \subseteq DnsSlots /\ d_cap \subseteq DnsSlots
      /\ d_pc \in [DnsThreads -> {"idle", "slot", "lookup", "store", "call"}]
      /\ d_ep_slot \in [DnsThreads -> DnsSlots \cup {0}] /\ DOMAIN d_answer = DnsThreads /\ Slotted
  BY Zenon DEF Dns!TypeOK, Dns!DnsAssumption
<1> USE <1>1 DEF Slotted, Cached, Resolver, Dns!Resolving, Served, Dns!Goto
<1>2. CASE Dns!UseCached(t)
  BY Zenon, <1>2 DEF Dns!UseCached
<1>3. CASE Dns!BeginResolve(t) /\ Dns!Resolving = {}
  BY <1>3 DEF Dns!BeginResolve
<1>4. CASE Dns!TakeSlot(t)
  <2>1. CASE d_ep_slot[t] # 0
    <3>1. d_DNSSRV_EP = 0 /\ Dns!Resolving' = Dns!Resolving
      BY Zenon, <1>4, <2>1 DEF Dns!TakeSlot
    <3>2. Cached'
      BY Zenon, <1>4, <2>1, <3>1 DEF Dns!TakeSlot
    <3>3. \A u \in Dns!Resolving : u = t
      BY Zenon, <1>4 DEF Dns!TakeSlot
    <3>4. \A u \in Dns!Resolving' : u = t /\ d_ep_slot'[u] = d_DNSSRV_LOOKUP_SLOT' /\ d_pc'[u] = "lookup"
      <4> SUFFICES ASSUME NEW u \in Dns!Resolving PROVE u = t /\ d_ep_slot'[u] = d_DNSSRV_LOOKUP_SLOT' /\ d_pc'[u] = "lookup"
        BY Zenon, <3>1
      <4>1. u = t
        BY Zenon, <3>3
      <4>2. d_ep_slot' = d_ep_slot /\ d_DNSSRV_LOOKUP_SLOT' = d_DNSSRV_LOOKUP_SLOT /\ d_pc'[t] = "lookup"
        BY Zenon, <1>4, <2>1 DEF Dns!TakeSlot
      <4>3. QED
        BY Zenon, <4>1, <4>2
    <3>6. (DnsSlots \ d_free \subseteq {d_DNSSRV_LOOKUP_SLOT})'
      <4>1. d_free' = d_free /\ d_DNSSRV_LOOKUP_SLOT' = d_DNSSRV_LOOKUP_SLOT
        BY Zenon, <1>4, <2>1 DEF Dns!TakeSlot
      <4>2. QED
        BY ZenonT(60), <4>1
    <3>7. Resolver'
      <4> HIDE DEF Dns!Resolving
      <4>1. \A u, v \in Dns!Resolving' : u = v
        BY ZenonT(60), <3>4
      <4>2. \A u \in Dns!Resolving' : d_ep_slot'[u] = d_DNSSRV_LOOKUP_SLOT' /\ d_pc'[u] # "store"
        BY Zenon, <3>4
      <4>3. QED
        BY ZenonT(60), <3>6, <4>1, <4>2
    <3>5. QED
      BY Zenon, <1>4, <2>1, <3>2, <3>7 DEF Dns!TakeSlot
  <2>2. CASE d_ep_slot[t] = 0
    <3>1. PICK s \in d_free : /\ d_free' = d_free \ {s} /\ d_DNSSRV_LOOKUP_SLOT' = s
                              /\ d_ep_slot' = [d_ep_slot EXCEPT ![t] = s] /\ d_cap' = d_cap \ {s}
      BY Zenon, <1>4, <2>2 DEF Dns!TakeSlot
    <3>2. DnsSlots \ d_free = {}
      BY Zenon, <1>4, <2>2 DEF Dns!TakeSlot
    <3>3. QED
      BY <1>4, <3>1, <3>2 DEF Dns!TakeSlot
  <2>3. QED
    BY Zenon, <2>1, <2>2
<1>5. CASE Dns!NoSlot(t)
  BY <1>5 DEF Dns!NoSlot, Dns!GiveUp, Dns!Fail
<1>6. CASE Dns!LookupAnswered(t)
  BY <1>6 DEF Dns!LookupAnswered
<1>7. CASE Dns!LookupFails(t)
  BY <1>7 DEF Dns!LookupFails, Dns!GiveUp, Dns!Fail
<1>8. CASE Dns!StoreEndpoint(t)
  BY <1>8 DEF Dns!StoreEndpoint
<1>9. CASE Dns!Query(t)
  BY <1>9 DEF Dns!Query
<1>10. QED
  BY ZenonT(60), <1>2, <1>3, <1>4, <1>5, <1>6, <1>7, <1>8, <1>9

(* Who resolves next to another thread has overlapped. *)
LEMMA DnsAlone ==
    ASSUME NEW t \in DnsThreads, ~d_overlapped',
           \/ Dns!UseCached(t) \/ Dns!BeginResolve(t) \/ Dns!TakeSlot(t) \/ Dns!NoSlot(t) \/ Dns!LookupAnswered(t)
           \/ Dns!LookupFails(t) \/ Dns!StoreEndpoint(t) \/ Dns!Query(t)
    PROVE  ~d_overlapped /\ (Dns!BeginResolve(t) => Dns!Resolving = {})
<1>1. CASE Dns!BeginResolve(t)
  BY ZenonT(60), <1>1 DEF Dns!BeginResolve
<1>2. CASE ~Dns!BeginResolve(t)
  <2>1. d_overlapped' = d_overlapped
    BY Zenon, <1>2 DEF Dns!UseCached, Dns!TakeSlot, Dns!NoSlot, Dns!LookupAnswered, Dns!LookupFails, Dns!StoreEndpoint, Dns!Query
  <2>2. QED
    BY ZenonT(60), <2>1, <1>2
<1>3. QED
  BY ZenonT(60), <1>1, <1>2

(* The resolver's invariant. *)
THEOREM DnsInvariant == ASSUME Dns!DnsAssumption PROVE Dns!Spec => []DnsInv
<1>1. Dns!Init => DnsInv
  <2> SUFFICES ASSUME Dns!Init PROVE DnsInv
    OBVIOUS
  <2>1. d_overlapped \in BOOLEAN
    BY ZenonT(60) DEF Dns!Init
  <2>2. Dns!TypeOK /\ Slotted
    BY <2>1 DEF Dns!Init, Dns!TypeOK, Slotted, Dns!DnsAssumption
  <2>3. Cached /\ Resolver /\ Served
    BY Zenon DEF Dns!Init, Cached, Resolver, Dns!Resolving, Served
  <2>4. QED
    BY ZenonT(60), <2>2, <2>3 DEF DnsInv
<1>2. DnsInv /\ [Dns!Next]_Dns!dnsVars => DnsInv'
  <2> SUFFICES ASSUME DnsInv, [Dns!Next]_Dns!dnsVars PROVE DnsInv'
    OBVIOUS
  <2>1. CASE UNCHANGED Dns!dnsVars
    BY ZenonT(60), <2>1 DEF Dns!dnsVars, DnsInv, Dns!DnsAssumption, Dns!TypeOK, Slotted, Cached, Resolver, Dns!Resolving, Served
  <2>2. CASE Dns!Next
    <3>1. PICK t \in DnsThreads :
            \/ Dns!UseCached(t) \/ Dns!BeginResolve(t) \/ Dns!TakeSlot(t) \/ Dns!NoSlot(t) \/ Dns!LookupAnswered(t)
            \/ Dns!LookupFails(t) \/ Dns!StoreEndpoint(t) \/ Dns!Query(t)
      BY ZenonT(60), <2>2 DEF Dns!Next
    <3>2. Dns!TypeOK' /\ Slotted'
      BY ZenonT(60), <3>1, DnsTypes DEF DnsInv
    <3>3. ASSUME ~d_overlapped' PROVE Cached' /\ Resolver' /\ Served'
      <4>1. ~d_overlapped /\ (Dns!BeginResolve(t) => Dns!Resolving = {})
        BY ZenonT(60), <3>1, <3>3, DnsAlone
      <4>2. Cached /\ Resolver /\ Served
        BY ZenonT(60), <4>1 DEF DnsInv
      <4>3. QED
        BY ZenonT(60), <3>1, <4>1, <4>2, DnsKeeps DEF DnsInv
    <3>4. QED
      BY ZenonT(60), <3>2, <3>3 DEF DnsInv, Dns!DnsAssumption
  <2>3. QED
    BY Zenon, <2>1, <2>2
<1>3. QED
  BY <1>1, <1>2, PTL DEF Dns!Spec

(* A cached endpoint stays usable. *)
THEOREM DnsCacheUsable == ASSUME Dns!DnsAssumption PROVE Dns!Spec => [](Dns!CachedEndpointUsable /\ Dns!TypeOK)
<1>1. DnsInv => Dns!CachedEndpointUsable /\ Dns!TypeOK
  BY ZenonT(60) DEF DnsInv, Dns!CachedEndpointUsable, Cached, Resolver, Served
<1>2. QED
  BY <1>1, DnsInvariant, PTL

-----------------------------------------------------------------------------
(***************************************************************************)
(* The result of a POSIX wrapper tells what became of its request, for     *)
(* every wrapper of the table and any number of signals.                   *)
(*                                                                         *)
(* ResultTellsEffect speaks of a call that is over and of which no request *)
(* is left at the server; the invariant says what holds before: until the  *)
(* wrapper returns the object is untouched, a wrapper that gives up has    *)
(* one request outstanding, and one that sends again has only requests     *)
(* outstanding that change nothing.                                        *)
(***************************************************************************)

(* What the table says of every wrapper: only requests that ask, that move *)
(* a cursor or allocate go through ipc_call_retry_idempotent, only read,   *)
(* write and waitpid restart, and only kill takes an interrupt for success. *)
Disciplined(c) ==
    /\ c.retry \in {"once", "idempotent", "restart", "kill"}
    /\ c.retry = "idempotent" => c.effect \in {"query", "create", "advance"}
    /\ c.retry = "restart" => c.effect \in {"advance", "reap"}
    /\ c.retry = "kill" => c.name = "kill"

(* A row of the table is disciplined if its entry is. *)
LEMMA RowDisciplined ==
    ASSUME NEW names, NEW retry, NEW effect,
           retry \in {"once", "idempotent", "restart"},
           retry = "idempotent" => effect \in {"query", "create", "advance"},
           retry = "restart" => effect \in {"advance", "reap"}
    PROVE  \A c \in Call!Row(names, retry, effect) : Disciplined(c)
    BY Zenon DEF Call!Row, Disciplined

(* Every row of the wrappers' table. *)
LEMMA TableDisciplined == \A c \in Call!Table : Disciplined(c)
<1>1. \A c \in Call!OpenCall \cup Call!StatCalls \cup Call!SeekCall \cup Call!NameCalls : Disciplined(c)
    BY RowDisciplined DEF Call!OpenCall, Call!StatCalls, Call!SeekCall, Call!NameCalls
<1>2. \A c \in Call!DirectoryCalls \cup Call!LinkCalls \cup Call!StreamCalls : Disciplined(c)
    BY RowDisciplined DEF Call!DirectoryCalls, Call!LinkCalls, Call!StreamCalls
<1>3. \A c \in Call!AtNameCalls \cup Call!AtModeCalls \cup Call!AtLinkCalls : Disciplined(c)
    BY RowDisciplined DEF Call!AtNameCalls, Call!AtModeCalls, Call!AtLinkCalls
<1>4. \A c \in Call!PipeCalls \cup Call!PollCalls \cup Call!EpollCalls : Disciplined(c)
    BY RowDisciplined DEF Call!PipeCalls, Call!PollCalls, Call!EpollCalls
<1>5. \A c \in Call!KillCall : Disciplined(c)
    BY Zenon DEF Call!KillCall, Call!Row, Disciplined
<1>6. \A c \in Call!ProcessCalls \cup Call!ExecCall \cup Call!SessionCalls \cup Call!IdentityCalls : Disciplined(c)
    BY RowDisciplined DEF Call!ProcessCalls, Call!ExecCall, Call!SessionCalls, Call!IdentityCalls
<1>7. \A c \in Call!CredentialCalls \cup Call!LimitCalls \cup Call!SocketCalls : Disciplined(c)
    BY RowDisciplined DEF Call!CredentialCalls, Call!LimitCalls, Call!SocketCalls
<1>8. \A c \in Call!ConnectionCalls \cup Call!SocketOptionCalls \cup Call!MessageCalls : Disciplined(c)
    BY RowDisciplined DEF Call!ConnectionCalls, Call!SocketOptionCalls, Call!MessageCalls
<1>9. \A c \in Call!DatagramCalls \cup Call!InetCalls \cup Call!DescriptorCalls \cup Call!IoctlCalls : Disciplined(c)
    BY RowDisciplined DEF Call!DatagramCalls, Call!InetCalls, Call!DescriptorCalls, Call!IoctlCalls
<1>10. \A c \in Call!TerminalCalls \cup Call!ShmCalls : Disciplined(c)
    BY RowDisciplined DEF Call!TerminalCalls, Call!ShmCalls
<1>11. \A c \in Call!MemoryCalls \cup Call!MappingCalls \cup Call!DnsCalls \cup Call!ReverseCall : Disciplined(c)
    BY RowDisciplined DEF Call!MemoryCalls, Call!MappingCalls, Call!DnsCalls, Call!ReverseCall
<1> QED
    BY <1>1, <1>2, <1>3, <1>4, <1>5, <1>6, <1>7, <1>8, <1>9, <1>10, <1>11 DEF Call!Table

(* Serving a request refuses it and changes nothing, or has its effect. *)
LEMMA OutcomesAre ==
    ASSUME NEW x \in Nat
    PROVE  /\ [object |-> x, label |-> "error"] \in Call!Outcomes(x)
           /\ \A o \in Call!Outcomes(x) :
                 /\ o.object \in Nat /\ o.label \in {"ok", "error"}
                 /\ o = [object |-> o.object, label |-> o.label]
                 /\ o.label = "error" => o.object = x
                 /\ c_call.effect = "query" => o.object = x
    BY DEF Call!Outcomes

(* Requests nobody waits for do no harm. *)
Inert == c_call.effect \in {"query", "reap"}

(* What holds of a wrapper that does not send an effect twice. *)
Distinct ==
    /\ c_phase # "done" => c_result = "none" /\ c_object = c_first
    /\ ~Inert => c_late <= 1 /\ (c_phase # "done" => c_late = 0)
    /\ ~Inert /\ c_late > 0 => c_object = c_first
    /\ c_phase = "done" => c_object \in {o.object : o \in Call!Outcomes(c_first)}
    /\ c_phase = "done" /\ c_call.name \notin Call!Undistinguished =>
          /\ c_result = "ok" => /\ [object |-> c_object, label |-> "ok"] \in Call!Outcomes(c_first)
                                /\ Inert \/ c_late = 0
          /\ c_result = "error" => c_object = c_first /\ (Inert \/ c_late = 0)

CallInv ==
    /\ Call!TypeOK /\ c_late <= c_interrupts
    /\ c_call \notin Call!Resending => Distinct

(* A wrapper that does not resend an effect and whose requests matter *)
(* gives up when it is interrupted.                                   *)
LEMMA GivesUpOnce ==
    ASSUME c_call \in Call!Table, c_call \notin Call!Resending, ~Inert
    PROVE  c_call.retry \in {"once", "kill"}
<1>1. Disciplined(c_call)
    BY Zenon, TableDisciplined
<1> QED
    BY Zenon, <1>1 DEF Disciplined, Call!Resending, Inert

LEMMA CallTypes ==
    ASSUME Call!PosixCallsAssumption, Call!TypeOK, c_late <= c_interrupts, [Call!Next]_Call!callVars
    PROVE  Call!TypeOK' /\ c_late' <= c_interrupts' /\ c_call' = c_call /\ c_first' = c_first
<1> USE DEF Call!TypeOK, Call!PosixCallsAssumption
<1>0. \A o \in Call!Outcomes(c_object) : o.object \in Nat /\ o.label \in {"ok", "error"}
    BY ZenonT(60), OutcomesAre
<1>1. ASSUME NEW label \in {"ok", "error", "EINTR"}
      PROVE  Call!Reported(label) \in {"ok", "error", "EINTR"}
    BY Zenon DEF Call!Reported
<1>2. CASE Call!BadArgument \/ Call!Send \/ Call!SendInterrupted \/ Call!Receive
    BY <1>2 DEF Call!BadArgument, Call!Send, Call!SendInterrupted, Call!Receive
<1>3. CASE Call!Answer
    BY Zenon, <1>3, <1>0, <1>1 DEF Call!Answer, Call!Finish
<1>4. CASE Call!SendFails
    BY Zenon, <1>4, <1>1 DEF Call!SendFails, Call!Finish
<1>5. CASE Call!ServeLate
    BY <1>5, <1>0 DEF Call!ServeLate
<1>6. CASE Call!Interrupted
    BY <1>6, <1>1 DEF Call!Interrupted, Call!GivesUp, Call!Finish
<1>7. CASE UNCHANGED Call!callVars
    BY Zenon, <1>7 DEF Call!callVars
<1> QED
    BY Zenon, <1>2, <1>3, <1>4, <1>5, <1>6, <1>7 DEF Call!Next

LEMMA CallDistinct ==
    ASSUME Call!PosixCallsAssumption, Call!TypeOK, Distinct, c_call \notin Call!Resending, [Call!Next]_Call!callVars,
           Call!TypeOK', c_call' = c_call, c_first' = c_first
    PROVE  Distinct'
<1>1. Call!Outcomes(c_first)' = Call!Outcomes(c_first) /\ Inert' = Inert
    BY Zenon DEF Call!Outcomes, Inert
<1>2. /\ c_call \in Call!Table /\ c_object \in Nat /\ c_first \in Nat /\ c_late \in Nat
      /\ c_phase \in {"start", "sending", "waiting", "done"}
    BY DEF Call!TypeOK, Call!PosixCallsAssumption
<1>3. [object |-> c_first, label |-> "error"] \in Call!Outcomes(c_first)
    BY Zenon, <1>2, OutcomesAre
<1>4. c_first \in {o.object : o \in Call!Outcomes(c_first)}
    BY <1>3
<1>5. ASSUME NEW label, c_call.name \notin Call!Undistinguished PROVE Call!Reported(label) = label
    BY Zenon, <1>5 DEF Call!Reported, Call!Undistinguished, Call!FlatError
<1>6. CASE Call!BadArgument
    BY Zenon, <1>1, <1>2, <1>4, <1>6 DEF Call!BadArgument, Distinct
<1>7. CASE Call!Send \/ Call!SendInterrupted \/ Call!Receive
    BY Zenon, <1>1, <1>7 DEF Call!Send, Call!SendInterrupted, Call!Receive, Distinct
<1>8. CASE Call!Answer
    <2>1. c_object = c_first /\ c_phase = "waiting" /\ c_late' = c_late /\ (~Inert => c_late = 0)
        BY Zenon, <1>8 DEF Call!Answer, Distinct
    <2>2. PICK o \in Call!Outcomes(c_first) : c_object' = o.object /\ Call!Finish(o.label)
        BY Zenon, <1>8, <2>1 DEF Call!Answer
    <2>3. /\ o = [object |-> o.object, label |-> o.label]
          /\ o.label = "error" => o.object = c_first
        BY ZenonT(60), <1>2, OutcomesAre
    <2>4. c_object' \in {p.object : p \in Call!Outcomes(c_first)} /\ c_phase' = "done"
        BY Zenon, <2>2 DEF Call!Finish
    <2>5. ASSUME c_call.name \notin Call!Undistinguished
          PROVE  /\ c_result' = "ok" => [object |-> c_object', label |-> "ok"] \in Call!Outcomes(c_first)
                 /\ c_result' = "error" => c_object' = c_first
        <3>1. c_result' = o.label
            BY Zenon, <1>5, <2>2, <2>5 DEF Call!Finish
        <3> QED
            BY Zenon, <2>2, <2>3, <3>1
    <2> QED
        BY <1>1, <1>2, <2>1, <2>4, <2>5 DEF Distinct
<1>9. CASE Call!SendFails
    BY <1>1, <1>2, <1>4, <1>5, <1>9 DEF Call!SendFails, Call!Finish, Distinct
<1>10. CASE Call!ServeLate
    <2>1. PICK o \in Call!Outcomes(c_object) : c_object' = IF c_call.effect = "reap" THEN c_object ELSE o.object
        BY Zenon, <1>10 DEF Call!ServeLate
    <2>2. c_late > 0 /\ c_late' = c_late - 1 /\ c_phase' = c_phase /\ c_result' = c_result
        BY Zenon, <1>10 DEF Call!ServeLate
    <2>3. CASE Inert
        <3>1. c_call.effect = "query" => o.object = c_object
            BY ZenonT(60), <1>2, <2>1, OutcomesAre
        <3>2. c_object' = c_object
            BY Zenon, <2>1, <2>3, <3>1 DEF Inert
        <3> QED
            BY ZenonT(60), <1>1, <1>2, <2>2, <2>3, <3>2 DEF Distinct
    <2>4. CASE ~Inert
        <3>1. c_late = 1 /\ c_object = c_first /\ c_phase = "done"
            BY <1>2, <2>2, <2>4 DEF Distinct
        <3>2. c_object' \in {p.object : p \in Call!Outcomes(c_first)} /\ c_late' = 0
            BY <2>1, <2>2, <2>4, <3>1 DEF Inert
        <3>3. c_call.name \notin Call!Undistinguished => c_result \notin {"ok", "error"}
            BY <1>2, <2>2, <2>4, <3>1 DEF Distinct
        <3> QED
            BY <1>1, <2>2, <2>4, <3>1, <3>2, <3>3 DEF Distinct
    <2> QED
        BY Zenon, <2>3, <2>4
<1>11. CASE Call!Interrupted
    <2>1. c_object' = c_object /\ c_object = c_first /\ c_late' = c_late + 1 /\ (~Inert => c_late = 0) /\ c_result = "none"
        BY Zenon, <1>11 DEF Call!Interrupted, Distinct
    <2>2. PICK r \in BOOLEAN : Call!GivesUp(r)
        BY Zenon, <1>11 DEF Call!Interrupted
    <2>3. CASE c_phase' = "sending" /\ c_result' = c_result /\ c_call.retry \in {"idempotent", "restart"}
        <3>1. Inert
            BY Zenon, <1>2, <2>3, GivesUpOnce
        <3> QED
            BY ZenonT(60), <1>1, <1>2, <2>1, <2>3, <3>1 DEF Distinct
    <2>4. CASE Call!Finish("EINTR")
        BY <1>1, <1>2, <1>4, <1>5, <2>1, <2>4 DEF Distinct, Call!Finish
    <2>5. CASE c_call.retry = "kill" /\ Call!Finish("ok")
        <3>1. c_call.name = "kill"
            BY Zenon, <1>2, <2>5, TableDisciplined DEF Disciplined
        <3> QED
            BY <1>1, <1>2, <1>4, <2>1, <2>5, <3>1 DEF Distinct, Call!Finish, Call!Undistinguished
    <2> QED
        BY Zenon, <2>2, <2>3, <2>4, <2>5 DEF Call!GivesUp
<1>12. CASE UNCHANGED Call!callVars
    BY Zenon, <1>1, <1>12 DEF Call!callVars, Distinct
<1> QED
    BY Zenon, <1>6, <1>7, <1>8, <1>9, <1>10, <1>11, <1>12 DEF Call!Next

(* Whatever the signals during a call: a wrapper that does not resend a    *)
(* cursor move or an allocation has its request applied at most once, and  *)
(* its result tells whether it was: ResultTellsEffect for every wrapper.   *)
THEOREM CallsTellTheirEffect ==
    ASSUME Call!PosixCallsAssumption
    PROVE  Call!Spec => [](Call!ResultTellsEffect /\ Call!TypeOK)
<1>1. Call!Init => CallInv
    <2> SUFFICES ASSUME Call!Init PROVE CallInv
        OBVIOUS
    <2>1. Call!TypeOK /\ c_late <= c_interrupts
        BY DEF Call!Init, Call!TypeOK, Call!PosixCallsAssumption
    <2>2. Distinct
        BY DEF Call!Init, Distinct
    <2> QED
        BY Zenon, <2>1, <2>2 DEF CallInv
<1>2. CallInv /\ [Call!Next]_Call!callVars => CallInv'
    <2> SUFFICES ASSUME CallInv, [Call!Next]_Call!callVars PROVE CallInv'
        OBVIOUS
    <2>1. Call!TypeOK' /\ c_late' <= c_interrupts' /\ c_call' = c_call /\ c_first' = c_first
        BY Zenon, CallTypes, Call!PosixCallsAssumption DEF CallInv
    <2>2. c_call \notin Call!Resending => Distinct'
        BY Zenon, <2>1, CallDistinct, Call!PosixCallsAssumption DEF CallInv
    <2> QED
        BY Zenon, <2>1, <2>2 DEF CallInv, Call!Resending
<1>3. CallInv => Call!ResultTellsEffect /\ Call!TypeOK
    BY Zenon DEF CallInv, Call!ResultTellsEffect, Distinct, Call!Settled, Call!AtMostOnce
<1> QED
    BY <1>1, <1>2, <1>3, PTL DEF Call!Spec

-----------------------------------------------------------------------------
(***************************************************************************)
(* The one-time set-up of the bulk region (posix/bulk.rs), for every set   *)
(* of threads, every set of calls and any number of faults: nobody is left *)
(* asleep on a set-up that is over, and a set-up whose calls were answered *)
(* publishes a region that is mapped here once and in the server.          *)
(*                                                                         *)
(* Neither property is inductive.  Both rest on the exchange on            *)
(* BULK_SHM_STATE electing one owner: the state is INITING exactly while a *)
(* thread is between EnsureClaim and finish_bulk_shm_setup, and there is   *)
(* at most one such thread, so nothing else moves the address under it.    *)
(***************************************************************************)

Labels == {"idle", "ensure", "futex", "asleep", "create", "map", "vfs", "ready", "give_up",
           "wake", "wake_inline", "inline", "bulk", "filled", "copy", "done"}
Setting == {"create", "map", "vfs", "ready", "give_up"}
Waking == {"wake", "wake_inline"}

SetupTypes ==
    /\ f_pc \in [FileThreads -> Labels]
    /\ f_BULK_SHM_STATE \in {"UNINIT", "INITING", "READY"}
    /\ f_BULK_SHM_ADDR \in {0, 1}
    /\ f_mappings \in Nat
    /\ f_vfs_mapped \in BOOLEAN
    /\ f_spoiled \in BOOLEAN

OneOwner ==
    /\ \A t, u \in FileThreads : f_pc[t] \in Setting /\ f_pc[u] \in Setting => t = u
    /\ (\E t \in FileThreads : f_pc[t] \in Setting) <=> f_BULK_SHM_STATE = "INITING"

SleepersCovered ==
    \A t \in FileThreads : f_pc[t] = "asleep" =>
        f_BULK_SHM_STATE = "INITING" \/ \E u \in FileThreads : f_pc[u] \in Waking

(* What the owner has reached, when no call of the set-up went unanswered. *)
Progress ==
    ~f_spoiled =>
        /\ f_mappings = f_BULK_SHM_ADDR
        /\ \A t \in FileThreads : f_pc[t] \in {"create", "map"} => f_BULK_SHM_ADDR = 0
        /\ \A t \in FileThreads : f_pc[t] \in {"vfs", "ready"} => f_BULK_SHM_ADDR = 1
        /\ \A t \in FileThreads : f_pc[t] = "ready" => f_vfs_mapped
        /\ f_BULK_SHM_STATE = "READY" => f_BULK_SHM_ADDR = 1 /\ f_vfs_mapped

SetupInv == SetupTypes /\ OneOwner /\ SleepersCovered /\ Progress

(* The steps outside the set-up: they change the label of one thread, from *)
(* and to labels that are neither the set-up's nor the futex's.            *)
Outside(t) ==
    /\ UNCHANGED File!setupVars
    /\ \/ UNCHANGED f_pc
       \/ \E l \in Labels \ (Setting \cup Waking \cup {"asleep", "futex"}) :
             f_pc' = [f_pc EXCEPT ![t] = l]
    /\ f_pc[t] \notin Setting \cup Waking

(* The steps of the transfer are Outside steps. *)
LEMMA TransferOutside ==
    ASSUME SetupTypes, NEW t \in FileThreads,
           \/ File!Start(t) \/ File!InlineCall(t) \/ File!InlineError(t) \/ File!InlineInterrupted(t)
           \/ File!BulkFill(t) \/ File!BulkWrite(t) \/ File!BulkRead(t) \/ File!BulkCopy(t)
           \/ File!BulkError(t) \/ File!BulkInterrupted(t)
    PROVE  Outside(t)
<1> DEFINE Plain == Labels \ (Setting \cup Waking \cup {"asleep", "futex"})
<1>1. {"idle", "ensure", "inline", "bulk", "filled", "copy", "done"} \subseteq Plain
    BY Zenon DEF Labels, Setting, Waking
<1>2. \A l \in Plain : File!Goto(t, l) => \E m \in Plain : f_pc' = [f_pc EXCEPT ![t] = m]
    BY ZenonT(60) DEF File!Goto
<1> HIDE DEF Plain
<1>3. {"idle", "inline", "bulk", "filled", "copy"} \cap (Setting \cup Waking) = {}
    BY Zenon DEF Setting, Waking
<1>4. CASE File!Start(t)
    <2>1. PICK c \in FileCalls : File!Goto(t, IF c.op \in {"read", "pwrite"} /\ c.count > Threshold
                                     THEN "ensure" ELSE "inline")
        BY Zenon, <1>4 DEF File!Start
    <2>2. \E m \in Plain : f_pc' = [f_pc EXCEPT ![t] = m]
        BY Zenon, <2>1, <1>1, <1>2
    <2> QED
        BY ZenonT(60), <1>4, <2>2, <1>3 DEF File!Start, Outside, Plain
<1>5. \A size, got : File!AfterChunk(t, size, got, "inline") \in Plain /\ File!AfterChunk(t, size, got, "bulk") \in Plain
    BY Zenon, <1>1 DEF File!AfterChunk
<1>6. CASE File!InlineCall(t)
    <2>1. \E got : File!Goto(t, File!AfterChunk(t, 1, got, "inline"))
        BY Zenon, <1>6 DEF File!InlineCall
    <2>2. \E m \in Plain : f_pc' = [f_pc EXCEPT ![t] = m]
        BY Zenon, <2>1, <1>5, <1>2
    <2> QED
        BY ZenonT(60), <1>6, <2>2, <1>3 DEF File!InlineCall, Outside, Plain
<1>7. CASE File!InlineError(t)
    BY Zenon, <1>7, <1>1, <1>2, <1>3 DEF File!InlineError, Outside, Plain
<1>8. CASE File!InlineInterrupted(t)
    <2>1. UNCHANGED f_pc \/ File!Goto(t, "done")
        BY Zenon, <1>8 DEF File!InlineInterrupted
    <2>2. UNCHANGED f_pc \/ \E m \in Plain : f_pc' = [f_pc EXCEPT ![t] = m]
        BY Zenon, <2>1, <1>1, <1>2
    <2>3. UNCHANGED File!setupVars /\ f_pc[t] = "inline"
        BY Zenon, <1>8 DEF File!InlineInterrupted
    <2> QED
        BY Zenon, <2>2, <2>3, <1>3 DEF Outside, Plain
<1>9. CASE File!BulkFill(t)
    <2>1. UNCHANGED File!setupVars /\ f_pc[t] = "bulk" /\ File!Goto(t, "filled")
        BY ZenonT(60), <1>9 DEF File!BulkFill
    <2> QED
        BY Zenon, <2>1, <1>1, <1>2, <1>3 DEF Outside, Plain
<1>10. CASE File!BulkWrite(t)
    <2>1. UNCHANGED File!setupVars /\ f_pc[t] = "filled" /\ \E k : File!Goto(t, File!AfterChunk(t, BulkChunk, k, "bulk"))
        BY Zenon, <1>10 DEF File!BulkWrite
    <2> QED
        BY Zenon, <2>1, <1>5, <1>2, <1>3 DEF Outside, Plain
<1>11. CASE File!BulkRead(t)
    <2>1. UNCHANGED File!setupVars /\ f_pc[t] = "bulk" /\ (File!Goto(t, "done") \/ File!Goto(t, "copy"))
        BY Zenon, <1>11 DEF File!BulkRead
    <2> QED
        BY Zenon, <2>1, <1>1, <1>2, <1>3 DEF Outside, Plain
<1>12. CASE File!BulkCopy(t)
    <2>1. UNCHANGED File!setupVars /\ f_pc[t] = "copy" /\ \E k : File!Goto(t, File!AfterChunk(t, BulkChunk, k, "bulk"))
        BY Zenon, <1>12 DEF File!BulkCopy
    <2> QED
        BY Zenon, <2>1, <1>5, <1>2, <1>3 DEF Outside, Plain
<1>13. CASE File!BulkError(t)
    <2>1. UNCHANGED File!setupVars /\ f_pc[t] \in {"bulk", "filled"} /\ (File!Goto(t, "done") \/ File!Goto(t, "inline"))
        BY Zenon, <1>13 DEF File!BulkError
    <2> QED
        BY Zenon, <2>1, <1>1, <1>2, <1>3 DEF Outside, Plain
<1>14. CASE File!BulkInterrupted(t)
    <2>1. UNCHANGED File!setupVars /\ f_pc[t] \in {"bulk", "filled"} /\ File!Goto(t, "inline")
        BY Zenon, <1>14 DEF File!BulkInterrupted
    <2> QED
        BY Zenon, <2>1, <1>1, <1>2, <1>3 DEF Outside, Plain
<1> QED
    BY Zenon, <1>4, <1>6, <1>7, <1>8, <1>9, <1>10, <1>11, <1>12, <1>13, <1>14

(* Such a step preserves the invariant. *)
LEMMA OutsideInductive ==
    ASSUME SetupInv, NEW t \in FileThreads, Outside(t)
    PROVE  SetupInv'
<1> USE DEF SetupInv, SetupTypes, Outside, File!setupVars
<1>1. SetupTypes'
    BY Zenon
<1>2. \A u \in FileThreads : /\ f_pc'[u] \in Setting \cup Waking <=> f_pc[u] \in Setting \cup Waking
                             /\ f_pc'[u] # f_pc[u] => u = t /\ f_pc'[u] \notin Setting \cup Waking \cup {"asleep"}
    BY Zenon
<1>3. \A u \in FileThreads : f_pc'[u] \in Setting \cup Waking => f_pc'[u] = f_pc[u]
    BY Zenon, <1>2
<1>4. \A u \in FileThreads : f_pc[u] \in Setting \cup Waking => f_pc'[u] = f_pc[u]
    BY Zenon, <1>2
<1>5. OneOwner'
    BY Zenon, <1>3, <1>4 DEF OneOwner
<1>6. SleepersCovered'
    BY Zenon, <1>2, <1>4 DEF SleepersCovered
<1>7. Progress'
    BY Zenon, <1>3 DEF Progress, Setting
<1> QED
    BY Zenon, <1>1, <1>5, <1>6, <1>7

(* A call of the set-up, answered, refused or unanswered. *)
LEMMA CallInductive ==
    ASSUME SetupInv, NEW t \in FileThreads, File!SetupCall(t) \/ File!SetupRefused(t) \/ File!SetupUnanswered(t)
    PROVE  SetupInv'
<1> USE DEF SetupInv, SetupTypes
<1>1. DOMAIN File!AfterSetup = {"create", "map", "vfs"} /\ File!AfterSetup["create"] = "map"
      /\ File!AfterSetup["map"] = "vfs" /\ File!AfterSetup["vfs"] = "ready"
    BY Zenon DEF File!AfterSetup
<1>2. PICK l \in {"map", "vfs", "ready", "give_up"} :
          /\ f_pc[t] \in {"create", "map", "vfs"} /\ f_pc' = [f_pc EXCEPT ![t] = l]
          /\ l = "give_up" \/ (f_pc[t] = "create" /\ l = "map") \/ (f_pc[t] = "map" /\ l = "vfs")
                           \/ (f_pc[t] = "vfs" /\ l = "ready")
    BY Zenon, <1>1 DEF File!SetupCall, File!SetupRefused, File!SetupUnanswered, File!Goto
<1>3. UNCHANGED f_BULK_SHM_STATE
    BY Zenon DEF File!SetupCall, File!SetupRefused, File!SetupUnanswered, File!setupVars
<1>4. /\ f_BULK_SHM_ADDR' \in {0, 1} /\ f_mappings' \in Nat
      /\ f_vfs_mapped' \in BOOLEAN /\ f_spoiled' \in BOOLEAN
    <2>1. f_BULK_SHM_ADDR' \in {0, 1}
        BY Zenon DEF File!SetupCall, File!SetupRefused, File!SetupUnanswered, File!setupVars
    <2>2. f_mappings' \in Nat
        BY DEF File!SetupCall, File!SetupRefused, File!SetupUnanswered, File!SetupServed, File!setupVars
    <2>3. UNCHANGED f_vfs_mapped \/ f_vfs_mapped' = (f_vfs_mapped \/ f_pc[t] = "vfs")
        BY Zenon DEF File!SetupCall, File!SetupRefused, File!SetupUnanswered, File!SetupServed, File!setupVars
    <2>4. UNCHANGED f_spoiled \/ f_spoiled' = TRUE
        BY Zenon DEF File!SetupCall, File!SetupRefused, File!SetupUnanswered, File!setupVars
    <2> QED
        BY ZenonT(60), <2>1, <2>2, <2>3, <2>4
<1>5. SetupTypes'
    BY Zenon, <1>2, <1>3, <1>4 DEF Labels
<1>6. f_pc[t] \in Setting /\ f_pc'[t] \in Setting /\ \A u \in FileThreads : u # t => f_pc'[u] = f_pc[u]
    BY Zenon, <1>2 DEF Setting
<1>7. OneOwner' /\ f_BULK_SHM_STATE = "INITING"
    BY Zenon, <1>3, <1>6 DEF OneOwner
<1>8. SleepersCovered'
    BY Zenon, <1>3, <1>7 DEF SleepersCovered
<1>9. \A u \in FileThreads : u # t => f_pc'[u] \notin Setting
    BY Zenon, <1>6 DEF OneOwner
<1>10. Progress'
    <2>1. CASE File!SetupUnanswered(t)
        BY Zenon, <2>1 DEF File!SetupUnanswered, Progress
    <2>2. CASE File!SetupRefused(t)
        <3>1. UNCHANGED File!setupVars /\ f_pc'[t] = "give_up"
            BY Zenon, <2>2 DEF File!SetupRefused, File!Goto
        <3> QED
            BY Zenon, <3>1, <1>9 DEF File!setupVars, Progress, Setting
    <2>3. CASE File!SetupCall(t)
        <3>1. UNCHANGED f_spoiled /\ f_pc'[t] = File!AfterSetup[f_pc[t]]
            BY Zenon, <2>3 DEF File!SetupCall, File!Goto
        <3>2. CASE f_pc[t] = "create"
            <4>1. /\ UNCHANGED <<f_mappings, f_BULK_SHM_ADDR>> /\ f_pc'[t] = "map"
                BY Zenon, <2>3, <3>1, <3>2, <1>1 DEF File!SetupCall, File!SetupServed
            <4> QED
                BY Zenon, <4>1, <3>1, <3>2, <1>3, <1>7, <1>9 DEF Progress, Setting
        <3>3. CASE f_pc[t] = "map"
            <4>1. /\ f_mappings' = f_mappings + 1 /\ f_BULK_SHM_ADDR' = 1 /\ f_pc'[t] = "vfs"
                BY Zenon, <2>3, <3>1, <3>3, <1>1 DEF File!SetupCall, File!SetupServed
            <4> QED
                BY <4>1, <3>1, <3>3, <1>3, <1>7, <1>9 DEF Progress, Setting
        <3>4. CASE f_pc[t] = "vfs"
            <4>1. /\ UNCHANGED <<f_mappings, f_BULK_SHM_ADDR>> /\ f_pc'[t] = "ready" /\ f_vfs_mapped'
                BY ZenonT(60), <2>3, <3>1, <3>4, <1>1 DEF File!SetupCall, File!SetupServed
            <4> QED
                BY Zenon, <4>1, <3>1, <3>4, <1>3, <1>7, <1>9 DEF Progress, Setting
        <3> QED
            BY Zenon, <1>2, <3>2, <3>3, <3>4
    <2> QED
        BY Zenon, <2>1, <2>2, <2>3
<1> QED
    BY Zenon, <1>5, <1>7, <1>8, <1>10

(* Init establishes the invariant and every step preserves it. *)
LEMMA SetupInductive == (File!Init => SetupInv) /\ (SetupInv /\ [File!Next]_File!fileVars => SetupInv')
<1> USE DEF SetupInv, SetupTypes
<1>1. ASSUME File!Init PROVE SetupInv
    <2>1. \A t \in FileThreads : f_pc[t] = "idle"
        BY ZenonT(60), <1>1 DEF File!Init
    <2>2. SetupTypes
        BY ZenonT(60), <1>1 DEF File!Init, Labels
    <2>3. OneOwner /\ SleepersCovered
        BY Zenon, <1>1, <2>1 DEF File!Init, OneOwner, SleepersCovered, Setting
    <2>4. Progress
        BY Zenon, <1>1, <2>1 DEF File!Init, Progress
    <2> QED
        BY Zenon, <2>2, <2>3, <2>4
<1>2. ASSUME SetupInv, UNCHANGED File!fileVars PROVE SetupInv'
    BY Zenon, <1>2 DEF File!fileVars, File!setupVars, OneOwner, SleepersCovered, Progress
<1>3. ASSUME SetupInv, NEW t \in FileThreads, File!EnsureWait(t) PROVE SetupInv'
    <2>1. /\ UNCHANGED File!setupVars
          /\ f_pc[t] \in {"ensure", "futex"}
          /\ \E l \in {"bulk", "futex", "asleep", "ensure"} :
                f_pc' = [f_pc EXCEPT ![t] = l] /\ (l = "asleep" => f_BULK_SHM_STATE = "INITING")
        BY Zenon, <1>3 DEF File!EnsureWait, File!Goto
    <2>2. SetupTypes'
        BY ZenonT(60), <1>3, <2>1 DEF File!setupVars, Labels
    <2>3. \A u \in FileThreads : (f_pc'[u] \in Setting \cup Waking \/ f_pc[u] \in Setting \cup Waking) => f_pc'[u] = f_pc[u]
        BY Zenon, <1>3, <2>1 DEF Setting, Waking
    <2>4. \A u \in FileThreads : f_pc'[u] = "asleep" => f_pc[u] = "asleep" \/ f_BULK_SHM_STATE = "INITING"
        BY Zenon, <1>3, <2>1
    <2>5. OneOwner'
        BY Zenon, <1>3, <2>1, <2>3 DEF OneOwner, File!setupVars
    <2>6. SleepersCovered'
        BY Zenon, <1>3, <2>1, <2>3, <2>4 DEF SleepersCovered, File!setupVars
    <2>7. Progress'
        BY Zenon, <1>3, <2>1, <2>3 DEF Progress, Setting, File!setupVars
    <2> QED
        BY Zenon, <2>2, <2>5, <2>6, <2>7
<1>4. ASSUME SetupInv, NEW t \in FileThreads, File!EnsureClaim(t) PROVE SetupInv'
    <2>1. /\ UNCHANGED <<f_BULK_SHM_ADDR, f_vfs_mapped, f_mappings, f_spoiled>>
          /\ f_pc[t] = "ensure" /\ f_BULK_SHM_STATE = "UNINIT" /\ f_BULK_SHM_STATE' = "INITING"
          /\ f_pc' = [f_pc EXCEPT ![t] = IF f_BULK_SHM_ADDR = 0 THEN "create" ELSE "vfs"]
        BY Zenon, <1>4 DEF File!EnsureClaim, File!Goto
    <2>2. SetupTypes'
        BY Zenon, <1>4, <2>1 DEF Labels
    <2>3. \A u \in FileThreads : u # t => f_pc'[u] = f_pc[u] /\ f_pc[u] \notin Setting
        BY Zenon, <1>4, <2>1 DEF OneOwner
    <2>4. f_pc'[t] = IF f_BULK_SHM_ADDR = 0 THEN "create" ELSE "vfs"
        BY Zenon, <1>4, <2>1
    <2>5. OneOwner' /\ SleepersCovered'
        BY <1>4, <2>1, <2>3, <2>4 DEF OneOwner, SleepersCovered, Setting
    <2>6. Progress'
        BY Zenon, <1>4, <2>1, <2>3, <2>4 DEF Progress, Setting
    <2> QED
        BY Zenon, <2>2, <2>5, <2>6
<1>5. ASSUME SetupInv, NEW t \in FileThreads, File!finish_bulk_shm_setup(t) PROVE SetupInv'
    <2>1. /\ UNCHANGED <<f_BULK_SHM_ADDR, f_vfs_mapped, f_mappings, f_spoiled>>
          /\ f_pc[t] \in {"ready", "give_up"}
          /\ f_BULK_SHM_STATE' = IF f_pc[t] = "ready" THEN "READY" ELSE "UNINIT"
          /\ f_pc' = [f_pc EXCEPT ![t] = IF f_pc[t] = "ready" THEN "wake" ELSE "wake_inline"]
        BY Zenon, <1>5 DEF File!finish_bulk_shm_setup, File!Goto
    <2>2. SetupTypes'
        BY Zenon, <1>5, <2>1 DEF Labels
    <2>3. \A u \in FileThreads : u # t => f_pc'[u] = f_pc[u] /\ f_pc[u] \notin Setting
        BY Zenon, <1>5, <2>1 DEF OneOwner, Setting
    <2>4. f_pc'[t] \in Waking /\ f_pc'[t] \notin Setting
        BY Zenon, <1>5, <2>1 DEF Waking, Setting
    <2>5. OneOwner' /\ SleepersCovered'
        BY Zenon, <1>5, <2>1, <2>3, <2>4 DEF OneOwner, SleepersCovered
    <2>6. Progress'
        BY Zenon, <1>5, <2>1, <2>3, <2>4 DEF Progress, Setting
    <2> QED
        BY Zenon, <2>2, <2>5, <2>6
<1>6. ASSUME SetupInv, NEW t \in FileThreads, File!FutexWake(t) PROVE SetupInv'
    <2>1. /\ UNCHANGED File!setupVars /\ f_pc[t] \in Waking
          /\ f_pc' = [v \in FileThreads |-> IF v = t THEN IF f_pc[t] = "wake" THEN "bulk" ELSE "inline"
                                      ELSE IF f_pc[v] = "asleep" THEN "ensure" ELSE f_pc[v]]
        BY Zenon, <1>6 DEF File!FutexWake, Waking
    <2>2. SetupTypes'
        BY Zenon, <1>6, <2>1 DEF File!setupVars, Labels
    <2>3. \A u \in FileThreads : (f_pc'[u] \in Setting \/ f_pc[u] \in Setting) => f_pc'[u] = f_pc[u]
        BY Zenon, <1>6, <2>1 DEF Setting, Waking
    <2>4. \A u \in FileThreads : f_pc'[u] # "asleep"
        BY Zenon, <1>6, <2>1
    <2>5. OneOwner' /\ SleepersCovered'
        BY Zenon, <1>6, <2>1, <2>3, <2>4 DEF OneOwner, SleepersCovered, File!setupVars
    <2>6. Progress'
        BY Zenon, <1>6, <2>1, <2>3 DEF Progress, Setting, File!setupVars
    <2> QED
        BY Zenon, <2>2, <2>5, <2>6
<1>7. ASSUME SetupInv, File!Next PROVE SetupInv'
    BY Zenon, <1>3, <1>4, <1>5, <1>6, <1>7, CallInductive, TransferOutside, OutsideInductive DEF File!Next
<1> QED
    BY Zenon, <1>1, <1>2, <1>7

(* ensure_bulk_shm leaves no thread behind: whoever sleeps in its          *)
(* futex_wait does so while the owner of the set-up is still to call       *)
(* finish_bulk_shm_setup, or between its store and its futex_wake.         *)
THEOREM SetupWakesAll == File!Spec => []File!NoneLeftAsleep
<1>1. SetupInv => File!NoneLeftAsleep
    BY Zenon DEF SetupInv, SleepersCovered, OneOwner, File!NoneLeftAsleep, Setting, Waking
<1> QED
    BY <1>1, SetupInductive, PTL DEF File!Spec

(* A set-up none of whose calls went unanswered publishes READY only with  *)
(* the region mapped in the process and in the server, and maps it in the  *)
(* process at most once, however often it is refused and tried again.      *)
THEOREM SetupPublishesMapped == File!Spec => []File!SetupSound
<1>1. SetupInv => File!SetupSound
    BY DEF SetupInv, SetupTypes, Progress, File!SetupSound, File!ReadyIsMapped
<1> QED
    BY <1>1, SetupInductive, PTL DEF File!Spec

-----------------------------------------------------------------------------
(***************************************************************************)
(* Signal delivery, for every set of signals, any masks and any depth of   *)
(* nested dispatches.                                                      *)
(*                                                                         *)
(* A mask is followed along the stack: Upto(i) is what the program and the *)
(* handlers below frame i block.  Each dispatch took its copy of the mask  *)
(* at that value, each running handler saved that value and its signal was *)
(* not in it, and the mask itself is the value past the top.               *)
(***************************************************************************)

Actions == {"DFL", "IGN", "catch"}
DispatchPCs == {"loop", "reset", "handler"}
CallFrames == [pc : {"call", "interrupted"}, sig : Sigs, handler : Actions, old : Actions]
DispatchFrames ==
    [pc : DispatchPCs, kind : {"sigcheck", "dispatcher"}, bits : SUBSET Sigs, blocked : SUBSET Sigs,
     repost : SUBSET Sigs, saved : SUBSET Sigs, sig : Sigs \cup {0}, any : BOOLEAN, no_restart : BOOLEAN]
Frames == CallFrames \cup DispatchFrames

SigTypes ==
    /\ __sig_handlers \in [Sigs -> Actions] /\ s_procmgr \in [Sigs -> Actions]
    /\ __sig_sa_mask \in [Sigs -> SUBSET Sigs]
    /\ __sig_blocked_mask \in SUBSET Sigs /\ s_pending \in SUBSET Sigs
    /\ s_owed \in SUBSET Sigs /\ s_own_mask \in SUBSET Sigs
    /\ s_stack \in Seq(Frames)

(* A stack without its top frame. *)
Under(st) == SubSeq(st, 1, Len(st) - 1)

LEMMA PushShape ==
    ASSUME NEW F, NEW st \in Seq(F), NEW g \in F, NEW t, t = Append(st, g)
    PROVE  /\ t \in Seq(F) /\ Len(st) \in Nat /\ Len(t) = Len(st) + 1
           /\ t[Len(st) + 1] = g /\ \A i \in 1 .. Len(st) : t[i] = st[i]
           /\ DOMAIN st = 1 .. Len(st) /\ DOMAIN t = 1 .. (Len(st) + 1)
OBVIOUS

LEMMA PopShape ==
    ASSUME NEW F, NEW st \in Seq(F), st # << >>, NEW t, t = Under(st)
    PROVE  /\ t \in Seq(F) /\ Len(st) \in Nat \ {0} /\ Len(t) = Len(st) - 1
           /\ \A i \in 1 .. (Len(st) - 1) : t[i] = st[i]
           /\ DOMAIN st = 1 .. Len(st) /\ DOMAIN t = 1 .. (Len(st) - 1)
<1> DEFINE n == Len(st) - 1
<1>1. Len(st) \in Nat \ {0} /\ DOMAIN st = 1 .. Len(st) /\ n \in 0 .. Len(st)
    OBVIOUS
<1>2. (\A i \in 1 .. n : st[i] \in F) /\ 1 \in Int /\ n \in Int
    BY <1>1
<1>3. t = SubSeq(st, 1, n)
    BY Zenon DEF Under
<1> HIDE DEF n
<1>4. t \in Seq(F)
    BY <1>1, <1>2, <1>3
<1>5. Len(t) = n /\ \A i \in 1 .. n : t[i] = st[i]
    BY <1>1, <1>3
<1>6. DOMAIN t = 1 .. n
    BY <1>4, <1>5
<1> QED
    BY ZenonT(60), <1>1, <1>4, <1>5, <1>6 DEF n

(* The stack t is the stack st with g for its top. *)
Replaced(F, st, g, t) ==
    /\ t \in Seq(F) /\ Len(st) \in Nat \ {0} /\ Len(t) = Len(st)
    /\ t[Len(st)] = g /\ \A i \in 1 .. (Len(st) - 1) : t[i] = st[i]
    /\ DOMAIN st = 1 .. Len(st) /\ DOMAIN t = 1 .. Len(st)

LEMMA ReplaceShape ==
    ASSUME NEW F, NEW st \in Seq(F), st # << >>, NEW g \in F, NEW t, t = Append(Under(st), g)
    PROVE  Replaced(F, st, g, t)
<1> DEFINE b == Under(st)
<1>1. /\ Len(st) \in Nat \ {0} /\ DOMAIN st = 1 .. Len(st)
      /\ b \in Seq(F) /\ Len(b) = Len(st) - 1
      /\ \A i \in 1 .. (Len(st) - 1) : b[i] = st[i]
    BY PopShape
<1>2. t = Append(b, g)
    BY Zenon
<1> HIDE DEF b
<1>3. /\ t \in Seq(F) /\ Len(t) = Len(b) + 1 /\ t[Len(b) + 1] = g /\ \A i \in 1 .. Len(b) : t[i] = b[i]
      /\ DOMAIN t = 1 .. (Len(b) + 1)
    <2>1. b \in Seq(F)
        BY Zenon, <1>1
    <2> QED
        BY <1>2, <2>1, PushShape
<1>4. Len(b) + 1 = Len(st)
    BY <1>1
<1> QED
    BY ZenonT(60), <1>1, <1>3, <1>4 DEF Replaced

(* The top of the stack. *)
LEMMA TopShape ==
    ASSUME SigTypes, s_stack # << >>
    PROVE  /\ Sig!Top = s_stack[Len(s_stack)] /\ Len(s_stack) \in Nat \ {0} /\ Sig!Top \in Frames
           /\ Sig!Top.pc \in DispatchPCs => Sig!Top \in DispatchFrames
           /\ Sig!Top.pc \in {"call", "interrupted"} => Sig!Top \in CallFrames
<1>1. Sig!Top = s_stack[Len(s_stack)] /\ Len(s_stack) \in Nat \ {0} /\ Sig!Top \in Frames
    BY DEF SigTypes, Sig!Top
<1>2. \A f \in CallFrames : f.pc \in {"call", "interrupted"}
    BY Zenon DEF CallFrames
<1>3. \A f \in DispatchFrames : f.pc \in DispatchPCs
    BY Zenon DEF DispatchFrames
<1>4. Sig!Top \in CallFrames \/ Sig!Top \in DispatchFrames
    BY Zenon, <1>1 DEF Frames
<1> QED
    BY Zenon, <1>1, <1>2, <1>3, <1>4 DEF DispatchPCs

(* The frame a dispatch starts with. *)
LEMMA NewFrame ==
    ASSUME SigTypes, NEW kind \in {"sigcheck", "dispatcher"}
    PROVE  /\ Sig!Frame(kind, s_pending) \in DispatchFrames /\ Sig!Frame(kind, s_pending) \in Frames
           /\ Sig!Frame(kind, s_pending).pc = "loop" /\ Sig!Frame(kind, s_pending).sig = 0
           /\ Sig!Frame(kind, s_pending).bits = s_pending /\ Sig!Frame(kind, s_pending).blocked = __sig_blocked_mask
BY Zenon DEF SigTypes, Sig!Frame, DispatchFrames, DispatchPCs, Frames

(* What each step of the loop does to its frame. *)
LEMMA TakeFrame ==
    ASSUME Sig!SignalsAssumption, SigTypes, NEW s, Sig!NextSig(s)
    PROVE  /\ s \in Sig!Top.bits /\ s \in Sigs /\ s # 0
           /\ Sig!Consumed(s) = [Sig!Top EXCEPT !.bits = Sig!Top.bits \ {s}]
<1>1. Sig!Top \in DispatchFrames
    BY Zenon, TopShape DEF Sig!NextSig, Sig!Looping, DispatchPCs
<1>2. Sig!Top.bits \in SUBSET Sigs
    BY Zenon, <1>1 DEF DispatchFrames
<1> QED
    BY Zenon, <1>2 DEF Sig!SignalsAssumption, Sig!Consumed, Sig!NextSig

LEMMA SetPc ==
    ASSUME NEW f \in DispatchFrames, NEW v \in DispatchPCs
    PROVE  [f EXCEPT !.pc = v] \in DispatchFrames
BY Zenon DEF DispatchFrames

LEMMA SetSig ==
    ASSUME NEW f \in DispatchFrames, NEW v \in Sigs \cup {0}
    PROVE  [f EXCEPT !.sig = v] \in DispatchFrames
BY Zenon DEF DispatchFrames

LEMMA SetBits ==
    ASSUME NEW f \in DispatchFrames, NEW v \in SUBSET Sigs
    PROVE  [f EXCEPT !.bits = v] \in DispatchFrames
BY Zenon DEF DispatchFrames

LEMMA SetRepost ==
    ASSUME NEW f \in DispatchFrames, NEW v \in SUBSET Sigs
    PROVE  [f EXCEPT !.repost = v] \in DispatchFrames
BY Zenon DEF DispatchFrames

LEMMA SetSaved ==
    ASSUME NEW f \in DispatchFrames, NEW v \in SUBSET Sigs
    PROVE  [f EXCEPT !.saved = v] \in DispatchFrames
BY Zenon DEF DispatchFrames

LEMMA SetAny ==
    ASSUME NEW f \in DispatchFrames, NEW v \in BOOLEAN
    PROVE  [f EXCEPT !.any = v] \in DispatchFrames
BY Zenon DEF DispatchFrames

LEMMA SetNoRestart ==
    ASSUME NEW f \in DispatchFrames, NEW v \in BOOLEAN
    PROVE  [f EXCEPT !.no_restart = v] \in DispatchFrames
BY Zenon DEF DispatchFrames

(* The frame g is f after the loop put signal s aside, passed over it, or *)
(* entered its handler.                                                  *)
PutAside(f, s, g) ==
    /\ g \in DispatchFrames /\ g.pc = f.pc /\ g.sig = f.sig /\ g.blocked = f.blocked /\ g.saved = f.saved
    /\ g.bits = f.bits \ {s} /\ g.repost = f.repost \cup {s}
PassedOver(f, s, g) ==
    /\ g \in DispatchFrames /\ g.pc = f.pc /\ g.sig = f.sig /\ g.blocked = f.blocked /\ g.saved = f.saved
    /\ g.bits = f.bits \ {s} /\ g.repost = f.repost
InHandler(f, s, m, b, pc, g) ==
    /\ g \in DispatchFrames /\ g.pc = pc /\ g.sig = s /\ g.blocked = f.blocked /\ g.saved = m
    /\ g.bits = f.bits \ {s} /\ g.repost = f.repost

LEMMA BlockedFrame ==
    ASSUME NEW f \in DispatchFrames, NEW s \in Sigs,
           NEW g, g = [[f EXCEPT !.bits = f.bits \ {s}] EXCEPT !.repost = f.repost \cup {s}]
    PROVE  PutAside(f, s, g)
<1> DEFINE f1 == [f EXCEPT !.bits = f.bits \ {s}]
           f2 == [f1 EXCEPT !.repost = f.repost \cup {s}]
<1>1. g = f2
    BY ZenonT(60)
<1>2. f.bits \ {s} \in SUBSET Sigs /\ f.repost \cup {s} \in SUBSET Sigs
    BY Zenon DEF DispatchFrames, DispatchPCs
<1>3. f1 \in DispatchFrames
    BY ZenonT(60), <1>2, SetBits
<1>4. f2 \in DispatchFrames
    BY ZenonT(60), <1>2, <1>3, SetRepost
<1>5. /\ g.pc = f.pc /\ g.sig = f.sig /\ g.blocked = f.blocked /\ g.saved = f.saved
      /\ g.bits = f.bits \ {s} /\ g.repost = f.repost \cup {s}
    BY Zenon DEF DispatchFrames
<1> QED
    BY ZenonT(60), <1>1, <1>4, <1>5 DEF PutAside

LEMMA SkippedFrame ==
    ASSUME NEW f \in DispatchFrames, NEW s \in Sigs,
           NEW g, g = [[f EXCEPT !.bits = f.bits \ {s}] EXCEPT !.any = TRUE]
    PROVE  PassedOver(f, s, g)
<1> DEFINE f1 == [f EXCEPT !.bits = f.bits \ {s}]
           f2 == [f1 EXCEPT !.any = TRUE]
<1>1. g = f2
    BY ZenonT(60)
<1>2. f.bits \ {s} \in SUBSET Sigs /\ TRUE \in BOOLEAN
    BY Zenon DEF DispatchFrames, DispatchPCs
<1>3. f1 \in DispatchFrames
    BY ZenonT(60), <1>2, SetBits
<1>4. f2 \in DispatchFrames
    BY ZenonT(60), <1>2, <1>3, SetAny
<1>5. /\ g.pc = f.pc /\ g.sig = f.sig /\ g.blocked = f.blocked /\ g.saved = f.saved
      /\ g.bits = f.bits \ {s} /\ g.repost = f.repost
    BY Zenon DEF DispatchFrames
<1> QED
    BY ZenonT(60), <1>1, <1>4, <1>5 DEF PassedOver

LEMMA HandlerFrame ==
    ASSUME NEW f \in DispatchFrames, NEW s \in Sigs, NEW m \in SUBSET Sigs, NEW b \in BOOLEAN, NEW pc \in DispatchPCs,
           NEW g, g = [[f EXCEPT !.bits = f.bits \ {s}] EXCEPT
                            !.sig = s, !.saved = m, !.any = TRUE, !.no_restart = b, !.pc = pc]
    PROVE  InHandler(f, s, m, b, pc, g)
<1> DEFINE f1 == [f EXCEPT !.bits = f.bits \ {s}]
           f2 == [f1 EXCEPT !.sig = s]
           f3 == [f2 EXCEPT !.saved = m]
           f4 == [f3 EXCEPT !.any = TRUE]
           f5 == [f4 EXCEPT !.no_restart = b]
           f6 == [f5 EXCEPT !.pc = pc]
<1>1. g = f6
    BY ZenonT(60)
<1>2. f.bits \ {s} \in SUBSET Sigs /\ s \in Sigs \cup {0} /\ m \in SUBSET Sigs /\ TRUE \in BOOLEAN /\ b \in BOOLEAN /\ pc \in DispatchPCs
    BY Zenon DEF DispatchFrames, DispatchPCs
<1>3. f1 \in DispatchFrames
    BY ZenonT(60), <1>2, SetBits
<1>4. f2 \in DispatchFrames
    BY ZenonT(60), <1>2, <1>3, SetSig
<1>5. f3 \in DispatchFrames
    BY ZenonT(60), <1>2, <1>4, SetSaved
<1>6. f4 \in DispatchFrames
    BY ZenonT(60), <1>2, <1>5, SetAny
<1>7. f5 \in DispatchFrames
    BY ZenonT(60), <1>2, <1>6, SetNoRestart
<1>8. f6 \in DispatchFrames
    BY ZenonT(60), <1>2, <1>7, SetPc
<1>9. /\ g.pc = pc /\ g.sig = s /\ g.blocked = f.blocked /\ g.saved = m
      /\ g.bits = f.bits \ {s} /\ g.repost = f.repost
    BY Zenon DEF DispatchFrames
<1> QED
    BY ZenonT(60), <1>1, <1>8, <1>9 DEF InHandler

LEMMA ReturnFrame ==
    ASSUME NEW f \in DispatchFrames,
           NEW g, g = [f EXCEPT !.pc = "loop", !.sig = 0]
    PROVE  /\ g \in DispatchFrames /\ g.pc = "loop" /\ g.sig = 0 /\ g.blocked = f.blocked /\ g.saved = f.saved
           /\ g.bits = f.bits /\ g.repost = f.repost
<1> DEFINE f1 == [f EXCEPT !.pc = "loop"]
           f2 == [f1 EXCEPT !.sig = 0]
<1>1. g = f2
    BY ZenonT(60)
<1>2. "loop" \in DispatchPCs /\ 0 \in Sigs \cup {0}
    BY Zenon DEF DispatchFrames, DispatchPCs
<1>3. f1 \in DispatchFrames
    BY ZenonT(60), <1>2, SetPc
<1>4. f2 \in DispatchFrames
    BY ZenonT(60), <1>2, <1>3, SetSig
<1>5. /\ g.pc = "loop" /\ g.sig = 0 /\ g.blocked = f.blocked /\ g.saved = f.saved
      /\ g.bits = f.bits /\ g.repost = f.repost
    BY Zenon DEF DispatchFrames
<1> QED
    BY ZenonT(60), <1>1, <1>4, <1>5

LEMMA ResetFrame ==
    ASSUME NEW f \in DispatchFrames, NEW g, g = [f EXCEPT !.pc = "handler"]
    PROVE  /\ g \in DispatchFrames /\ g.pc = "handler" /\ g.sig = f.sig /\ g.blocked = f.blocked /\ g.saved = f.saved
           /\ g.bits = f.bits /\ g.repost = f.repost
BY Zenon DEF DispatchFrames, DispatchPCs

LEMMA InterruptedFrame ==
    ASSUME NEW f \in CallFrames, NEW pc \in {"call", "interrupted"}, NEW g, g = [f EXCEPT !.pc = pc]
    PROVE  g \in CallFrames /\ g.pc = pc /\ g.sig = f.sig /\ g.handler = f.handler /\ g.old = f.old
BY Zenon DEF CallFrames


-----------------------------------------------------------------------------
(* What frame i adds to the mask, and what frames below it block. *)
Adds(st, sa, i) ==
    IF st[i].pc \in DispatchPCs /\ st[i].sig # 0 THEN sa[st[i].sig] \cup {st[i].sig} ELSE {}
Upto(st, sa, own, i) == own \cup UNION {Adds(st, sa, j) : j \in 1 .. (i - 1)}

FrameMask(st, sa, own, i) ==
    st[i].pc \in DispatchPCs =>
        /\ st[i].blocked = Upto(st, sa, own, i)
        /\ st[i].pc = "loop" <=> st[i].sig = 0
        /\ st[i].sig # 0 => st[i].saved = Upto(st, sa, own, i) /\ st[i].sig \notin Upto(st, sa, own, i)

MaskOK(st, sa, own, mask) ==
    /\ \A i \in 1 .. Len(st) : FrameMask(st, sa, own, i)
    /\ \A i \in 1 .. (Len(st) - 1) : st[i].pc \in {"handler", "call", "interrupted"}
    /\ mask = Upto(st, sa, own, Len(st) + 1)

LEMMA UptoNext ==
    ASSUME NEW st, NEW sa, NEW own, NEW i \in Nat \ {0}
    PROVE  Upto(st, sa, own, i + 1) = Upto(st, sa, own, i) \cup Adds(st, sa, i)
<1>1. 1 .. ((i + 1) - 1) = (1 .. (i - 1)) \cup {i}
    OBVIOUS
<1> QED
    BY ZenonT(60), <1>1 DEF Upto

(* Frames that agree below i give the same mask there. *)
LEMMA UptoSame ==
    ASSUME NEW st, NEW t, NEW sa, NEW own, NEW i \in Nat \ {0},
           \A j \in 1 .. (i - 1) : t[j] = st[j]
    PROVE  Upto(t, sa, own, i) = Upto(st, sa, own, i)
<1>1. \A j \in 1 .. (i - 1) : Adds(t, sa, j) = Adds(st, sa, j)
    BY ZenonT(60) DEF Adds
<1> QED
    BY ZenonT(60), <1>1 DEF Upto

LEMMA FrameMaskSame ==
    ASSUME NEW st, NEW t, NEW sa, NEW own, NEW k \in Nat, \A j \in 1 .. k : t[j] = st[j],
           \A j \in 1 .. k : FrameMask(st, sa, own, j)
    PROVE  \A j \in 1 .. k : FrameMask(t, sa, own, j)
<1> TAKE j \in 1 .. k
<1>1. j \in Nat \ {0} /\ \A l \in 1 .. (j - 1) : l \in 1 .. k
    OBVIOUS
<1>2. Upto(t, sa, own, j) = Upto(st, sa, own, j)
    BY <1>1, UptoSame
<1> QED
    BY ZenonT(60), <1>2 DEF FrameMask

LEMMA MaskPush ==
    ASSUME NEW st \in Seq(Frames), NEW sa, NEW own, NEW mask, MaskOK(st, sa, own, mask),
           st # << >> => st[Len(st)].pc \in {"handler", "call", "interrupted"},
           NEW g \in Frames, NEW t, Len(t) = Len(st) + 1, t[Len(st) + 1] = g,
           \A i \in 1 .. Len(st) : t[i] = st[i],
           \/ g.pc \in {"call", "interrupted"}
           \/ g.pc = "loop" /\ g.sig = 0 /\ g.blocked = mask
    PROVE  MaskOK(t, sa, own, mask)
<1> DEFINE n == Len(st)
<1>1. /\ n \in Nat /\ Len(t) = n + 1 /\ t[n + 1] = g /\ \A i \in 1 .. n : t[i] = st[i]
    OBVIOUS
<1>2. n + 1 \in Nat \ {0} /\ \A j \in 1 .. ((n + 1) - 1) : t[j] = st[j]
    BY <1>1
<1>3. Upto(t, sa, own, n + 1) = mask
    <2> DEFINE k == n + 1
    <2>1. k \in Nat \ {0} /\ \A j \in 1 .. (k - 1) : t[j] = st[j]
        BY Zenon, <1>2
    <2> HIDE DEF k
    <2>2. Upto(t, sa, own, k) = Upto(st, sa, own, k)
        BY <2>1, UptoSame
    <2> QED
        BY ZenonT(60), <2>2 DEF MaskOK, k
<1>4. Adds(t, sa, n + 1) = {}
    BY Zenon, <1>1 DEF Adds, DispatchPCs
<1>5. mask = Upto(t, sa, own, Len(t) + 1)
    <2>0. n + 1 \in Nat \ {0}
        BY Zenon, <1>2
    <2>1. Upto(t, sa, own, (n + 1) + 1) = Upto(t, sa, own, n + 1) \cup Adds(t, sa, n + 1)
        <3>1. \A i \in Nat \ {0} : Upto(t, sa, own, i + 1) = Upto(t, sa, own, i) \cup Adds(t, sa, i)
            BY ZenonT(60), UptoNext
        <3> QED
            BY ZenonT(60), <2>0, <3>1
    <2> QED
        BY ZenonT(60), <1>1, <1>3, <1>4, <2>1
<1>6. FrameMask(t, sa, own, n + 1)
    BY Zenon, <1>1, <1>3 DEF FrameMask, DispatchPCs
<1>7. \A j \in 1 .. n : FrameMask(t, sa, own, j)
    BY ZenonT(60), <1>1, FrameMaskSame DEF MaskOK
<1>8. \A j \in 1 .. n : t[j].pc \in {"handler", "call", "interrupted"}
    <2> TAKE j \in 1 .. n
    <2>1. CASE j = n
        BY <1>1, <2>1
    <2>2. CASE j \in 1 .. (n - 1)
        BY Zenon, <1>1, <2>2 DEF MaskOK
    <2> QED
        BY <1>1, <2>1, <2>2
<1>9. 1 .. Len(t) = (1 .. n) \cup {n + 1} /\ 1 .. (Len(t) - 1) = 1 .. n
    BY <1>1
<1> QED
    BY ZenonT(60), <1>5, <1>6, <1>7, <1>8, <1>9 DEF MaskOK

LEMMA MaskPop ==
    ASSUME NEW st \in Seq(Frames), st # << >>, NEW sa, NEW own, NEW mask, MaskOK(st, sa, own, mask),
           st[Len(st)].pc \in {"call", "interrupted", "loop"},
           NEW t, Len(t) = Len(st) - 1, \A i \in 1 .. (Len(st) - 1) : t[i] = st[i]
    PROVE  MaskOK(t, sa, own, mask)
<1> DEFINE n == Len(st)
<1>1. /\ n \in Nat \ {0} /\ Len(t) = n - 1 /\ \A i \in 1 .. (n - 1) : t[i] = st[i]
    OBVIOUS
<1>2. n - 1 \in Nat /\ n \in 1 .. n /\ Len(t) + 1 = n /\ \A j \in 1 .. (n - 1) : j \in 1 .. n
    BY <1>1
<1>3. Adds(st, sa, n) = {}
    <2>1. FrameMask(st, sa, own, n)
        BY ZenonT(60), <1>2 DEF MaskOK
    <2>2. st[n].pc = "loop" => st[n].sig = 0
        BY Zenon, <2>1 DEF FrameMask, DispatchPCs
    <2> QED
        BY Zenon, <2>2 DEF Adds, DispatchPCs
<1>4. mask = Upto(t, sa, own, Len(t) + 1)
    <2>1. mask = Upto(st, sa, own, n) \cup {}
        <3>1. Upto(st, sa, own, n + 1) = Upto(st, sa, own, n) \cup Adds(st, sa, n)
            BY ZenonT(60), <1>1, UptoNext
        <3> QED
            BY ZenonT(60), <1>3, <3>1 DEF MaskOK
    <2>2. Upto(t, sa, own, n) = Upto(st, sa, own, n)
        BY <1>1, UptoSame
    <2> QED
        BY ZenonT(60), <1>2, <2>1, <2>2
<1>5. \A j \in 1 .. (n - 1) : FrameMask(t, sa, own, j)
    BY ZenonT(60), <1>1, <1>2, FrameMaskSame DEF MaskOK
<1>6. \A j \in 1 .. (Len(t) - 1) : t[j].pc \in {"handler", "call", "interrupted"}
    BY <1>1 DEF MaskOK
<1> QED
    BY ZenonT(60), <1>1, <1>4, <1>5, <1>6 DEF MaskOK

LEMMA MaskReplace ==
    ASSUME NEW st \in Seq(Frames), st # << >>, NEW sa, NEW own, NEW mask, MaskOK(st, sa, own, mask),
           NEW f, f = st[Len(st)], f.pc \in DispatchPCs,
           NEW g \in Frames, NEW t, Len(t) = Len(st), t[Len(st)] = g,
           \A i \in 1 .. (Len(st) - 1) : t[i] = st[i],
           g.pc \in DispatchPCs, g.blocked = f.blocked, g.pc = "loop" <=> g.sig = 0,
           g.sig # 0 => g.saved = f.blocked /\ g.sig \notin f.blocked,
           NEW new, new = IF g.sig = 0 THEN f.blocked ELSE f.blocked \cup (sa[g.sig] \cup {g.sig})
    PROVE  MaskOK(t, sa, own, new)
<1> DEFINE n == Len(st)
<1>1. /\ n \in Nat \ {0} /\ Len(t) = n /\ t[n] = g /\ \A i \in 1 .. (n - 1) : t[i] = st[i]
    OBVIOUS
<1>2. n - 1 \in Nat /\ n \in 1 .. n /\ (\A j \in 1 .. (n - 1) : j \in 1 .. n) /\ 1 .. n = (1 .. (n - 1)) \cup {n}
    BY <1>1
<1>3. f.blocked = Upto(st, sa, own, n)
    BY ZenonT(60), <1>2 DEF MaskOK, FrameMask
<1>4. Upto(t, sa, own, n) = f.blocked
    <2> HIDE DEF n
    <2>1. n \in Nat \ {0} /\ \A j \in 1 .. (n - 1) : t[j] = st[j]
        BY Zenon, <1>1
    <2>2. Upto(t, sa, own, n) = Upto(st, sa, own, n)
        BY <2>1, UptoSame
    <2> QED
        BY ZenonT(60), <1>3, <2>2
<1>5. new = f.blocked \cup Adds(t, sa, n)
    <2>1. CASE g.sig = 0
        <3>1. Adds(t, sa, n) = {}
            BY ZenonT(60), <1>1, <2>1 DEF Adds
        <3> QED
            BY ZenonT(60), <2>1, <3>1
    <2>2. CASE g.sig # 0
        <3>1. Adds(t, sa, n) = sa[g.sig] \cup {g.sig}
            BY ZenonT(60), <1>1, <2>2 DEF Adds
        <3> QED
            BY ZenonT(60), <2>2, <3>1
    <2> QED
        BY ZenonT(60), <2>1, <2>2
<1>6. new = Upto(t, sa, own, Len(t) + 1)
    <2>0. n \in Nat \ {0}
        BY Zenon, <1>1
    <2>1. Upto(t, sa, own, n + 1) = Upto(t, sa, own, n) \cup Adds(t, sa, n)
        <3>1. \A i \in Nat \ {0} : Upto(t, sa, own, i + 1) = Upto(t, sa, own, i) \cup Adds(t, sa, i)
            BY ZenonT(60), UptoNext
        <3> QED
            BY ZenonT(60), <2>0, <3>1
    <2> QED
        BY ZenonT(60), <1>1, <1>4, <1>5, <2>1
<1>7. FrameMask(t, sa, own, n)
    BY ZenonT(60), <1>1, <1>4 DEF FrameMask
<1>8. \A j \in 1 .. (n - 1) : FrameMask(t, sa, own, j)
    <2>1. \A j \in 1 .. (n - 1) : FrameMask(st, sa, own, j)
        BY ZenonT(60), <1>2 DEF MaskOK
    <2> DEFINE k == n - 1
    <2>2. k \in Nat /\ (\A j \in 1 .. k : t[j] = st[j]) /\ \A j \in 1 .. k : FrameMask(st, sa, own, j)
        BY ZenonT(60), <1>1, <1>2, <2>1
    <2> HIDE DEF k
    <2>3. \A j \in 1 .. k : FrameMask(t, sa, own, j)
        BY ZenonT(60), <2>2, FrameMaskSame
    <2> QED
        BY ZenonT(60), <2>3 DEF k
<1>9. \A j \in 1 .. (n - 1) : t[j].pc \in {"handler", "call", "interrupted"}
    BY ZenonT(60), <1>1 DEF MaskOK
<1> QED
    BY ZenonT(60), <1>1, <1>2, <1>6, <1>7, <1>8, <1>9 DEF MaskOK


-----------------------------------------------------------------------------
(* A dispatch that has still to look at x, or will post it again. *)
Holds(f, x) == f.pc \in DispatchPCs /\ x \in f.bits \cup f.repost
LostOK(st, pend, ow) == \A x \in ow : x \in pend \/ \E i \in 1 .. Len(st) : Holds(st[i], x)

LEMMA LostPush ==
    ASSUME NEW st \in Seq(Frames), NEW pend, NEW ow, LostOK(st, pend, ow),
           NEW g \in Frames, NEW t, Len(t) = Len(st) + 1, t[Len(st) + 1] = g,
           \A i \in 1 .. Len(st) : t[i] = st[i],
           NEW pend2, pend2 = pend \/ (g.pc = "loop" /\ g.bits = pend)
    PROVE  LostOK(t, pend2, ow)
<1> SUFFICES ASSUME NEW x \in ow, x \notin pend2
             PROVE  \E i \in 1 .. Len(t) : Holds(t[i], x)
    BY ZenonT(60) DEF LostOK
<1>1. Len(st) \in Nat /\ Len(st) + 1 \in 1 .. Len(t) /\ \A i \in 1 .. Len(st) : i \in 1 .. Len(t)
    OBVIOUS
<1>2. CASE x \in pend
    <2>1. g.pc = "loop" /\ g.bits = pend
        BY Zenon, <1>2
    <2>2. Holds(g, x)
        BY Zenon, <1>2, <2>1 DEF Holds, DispatchPCs
    <2> QED
        BY ZenonT(60), <1>1, <2>2
<1>3. CASE \E i \in 1 .. Len(st) : Holds(st[i], x)
    BY ZenonT(60), <1>1, <1>3
<1> QED
    BY ZenonT(60), <1>2, <1>3 DEF LostOK

LEMMA LostReplace ==
    ASSUME NEW st \in Seq(Frames), st # << >>, NEW pend, NEW ow, LostOK(st, pend, ow),
           NEW g, NEW t, Len(t) = Len(st), t[Len(st)] = g,
           \A i \in 1 .. (Len(st) - 1) : t[i] = st[i],
           NEW ow2 \in SUBSET ow, \A x \in ow2 : Holds(st[Len(st)], x) => Holds(g, x)
    PROVE  LostOK(t, pend, ow2)
<1> SUFFICES ASSUME NEW x \in ow2, x \notin pend
             PROVE  \E i \in 1 .. Len(t) : Holds(t[i], x)
    BY ZenonT(60) DEF LostOK
<1>1. Len(st) \in Nat /\ Len(st) \in 1 .. Len(t) /\ \A i \in 1 .. Len(st) : i = Len(st) \/ i \in 1 .. (Len(st) - 1)
    OBVIOUS
<1>2. PICK i \in 1 .. Len(st) : Holds(st[i], x)
    BY ZenonT(60) DEF LostOK
<1>3. CASE i = Len(st)
    BY ZenonT(60), <1>1, <1>2, <1>3
<1>4. CASE i \in 1 .. (Len(st) - 1)
    BY ZenonT(60), <1>2, <1>4
<1> QED
    BY ZenonT(60), <1>1, <1>3, <1>4

LEMMA LostPop ==
    ASSUME NEW st \in Seq(Frames), st # << >>, NEW pend, NEW ow, LostOK(st, pend, ow),
           NEW t, Len(t) = Len(st) - 1, \A i \in 1 .. (Len(st) - 1) : t[i] = st[i],
           NEW pend2, pend \subseteq pend2, \A x : Holds(st[Len(st)], x) => x \in pend2
    PROVE  LostOK(t, pend2, ow)
<1> SUFFICES ASSUME NEW x \in ow, x \notin pend2
             PROVE  \E i \in 1 .. Len(t) : Holds(t[i], x)
    BY ZenonT(60) DEF LostOK
<1>1. Len(st) \in Nat /\ \A i \in 1 .. Len(st) : i = Len(st) \/ i \in 1 .. Len(t)
    OBVIOUS
<1>2. PICK i \in 1 .. Len(st) : Holds(st[i], x)
    BY ZenonT(60) DEF LostOK
<1> QED
    BY ZenonT(60), <1>1, <1>2

-----------------------------------------------------------------------------
(* How the two records of the dispositions relate while frame f runs, when *)
(* no PM_SIGACTION was interrupted.                                        *)
TopAgrees(f, hs, pm) ==
    /\ f.pc \in {"call", "loop", "handler", "reset"}
    /\ f.pc = "call" => hs = [pm EXCEPT ![f.sig] = f.handler] /\ pm[f.sig] = f.old
    /\ f.pc = "reset" => hs = [pm EXCEPT ![f.sig] = "DFL"]
    /\ f.pc \in {"loop", "handler"} => hs = pm
AgreeOK(st, hs, pm) ==
    /\ \A i \in 1 .. (Len(st) - 1) : st[i].pc = "handler"
    /\ IF Len(st) = 0 THEN hs = pm ELSE TopAgrees(st[Len(st)], hs, pm)

LEMMA AgreePush ==
    ASSUME NEW st \in Seq(Frames), NEW hs, NEW pm, AgreeOK(st, hs, pm),
           st # << >> => st[Len(st)].pc = "handler",
           NEW g, NEW t, Len(t) = Len(st) + 1, t[Len(st) + 1] = g,
           \A i \in 1 .. Len(st) : t[i] = st[i],
           NEW hs2, TopAgrees(g, hs2, pm)
    PROVE  AgreeOK(t, hs2, pm)
<1>1. Len(st) \in Nat /\ Len(t) # 0 /\ 1 .. (Len(t) - 1) = 1 .. Len(st)
    OBVIOUS
<1>2. \A i \in 1 .. Len(st) : t[i].pc = "handler"
    <2> TAKE i \in 1 .. Len(st)
    <2>1. CASE i = Len(st)
        BY <2>1
    <2>2. CASE i \in 1 .. (Len(st) - 1)
        BY Zenon, <2>2 DEF AgreeOK
    <2> QED
        BY <1>1, <2>1, <2>2
<1> QED
    BY ZenonT(60), <1>1, <1>2 DEF AgreeOK

LEMMA AgreeReplace ==
    ASSUME NEW st \in Seq(Frames), st # << >>, NEW hs, NEW pm, AgreeOK(st, hs, pm),
           NEW g, NEW t, Len(t) = Len(st), t[Len(st)] = g,
           \A i \in 1 .. (Len(st) - 1) : t[i] = st[i],
           NEW hs2, NEW pm2, TopAgrees(g, hs2, pm2)
    PROVE  AgreeOK(t, hs2, pm2)
<1>1. Len(t) # 0
    OBVIOUS
<1> QED
    BY ZenonT(60), <1>1 DEF AgreeOK

LEMMA AgreePop ==
    ASSUME NEW st \in Seq(Frames), st # << >>, NEW hs, NEW pm, AgreeOK(st, hs, pm),
           NEW t, Len(t) = Len(st) - 1, \A i \in 1 .. (Len(st) - 1) : t[i] = st[i],
           NEW hs2
    PROVE  AgreeOK(t, hs2, hs2)
<1>1. Len(st) \in Nat \ {0} /\ \A i \in 1 .. (Len(st) - 1) : t[i].pc = "handler"
    BY DEF AgreeOK
<1>2. /\ \A i \in 1 .. (Len(t) - 1) : i \in 1 .. (Len(st) - 1)
      /\ Len(t) # 0 => Len(t) \in 1 .. (Len(st) - 1)
    BY <1>1
<1>3. Len(t) # 0 => t[Len(t)].pc = "handler"
    BY ZenonT(60), <1>1, <1>2
<1>4. Len(t) # 0 => TopAgrees(t[Len(t)], hs2, hs2)
    BY Zenon, <1>3 DEF TopAgrees
<1> QED
    BY ZenonT(60), <1>1, <1>2, <1>4 DEF AgreeOK


-----------------------------------------------------------------------------
SigInv ==
    /\ SigTypes /\ s_broken_off \in BOOLEAN
    /\ MaskOK(s_stack, __sig_sa_mask, s_own_mask, __sig_blocked_mask)
    /\ LostOK(s_stack, s_pending, s_owed)
    /\ s_broken_off = FALSE => AgreeOK(s_stack, __sig_handlers, s_procmgr)

LEMMA SigInit ==
    ASSUME Sig!SignalsAssumption, Sig!Init
    PROVE  SigInv
<1>1. s_stack = << >> /\ Len(s_stack) = 0 /\ s_broken_off = FALSE
    BY Zenon DEF Sig!Init
<1>2. SigTypes
    <2>1. __sig_handlers \in [Sigs -> Actions] /\ s_procmgr \in [Sigs -> Actions]
        BY Zenon DEF Sig!Init, Actions
    <2>2. __sig_sa_mask \in [Sigs -> SUBSET Sigs]
        <3>1. __sig_sa_mask \in [Sigs -> MaskSets] /\ MaskSets \subseteq SUBSET Sigs
            BY Zenon DEF Sig!Init, Sig!SignalsAssumption
        <3> QED
            BY ZenonT(60), <3>1
    <2>3. __sig_blocked_mask = {} /\ s_own_mask = {} /\ s_pending = {} /\ s_owed = {}
        BY Zenon DEF Sig!Init
    <2>4. s_stack \in Seq(Frames)
        BY <1>1
    <2> QED
        BY ZenonT(60), <2>1, <2>2, <2>3, <2>4 DEF SigTypes
<1>3. 1 .. (0 - 1) = {} /\ 1 .. 0 = {} /\ 1 .. ((0 + 1) - 1) = {}
    OBVIOUS
<1>4. Upto(s_stack, __sig_sa_mask, s_own_mask, 0 + 1) = s_own_mask
    BY ZenonT(60), <1>3 DEF Upto
<1>5. s_own_mask = __sig_blocked_mask
    BY Zenon DEF Sig!Init
<1>6. MaskOK(s_stack, __sig_sa_mask, s_own_mask, __sig_blocked_mask)
    BY ZenonT(60), <1>1, <1>3, <1>4, <1>5 DEF MaskOK
<1>7. LostOK(s_stack, s_pending, s_owed)
    BY Zenon DEF Sig!Init, LostOK
<1>8. AgreeOK(s_stack, __sig_handlers, s_procmgr)
    BY ZenonT(60), <1>1, <1>3 DEF AgreeOK, Sig!Init
<1> QED
    BY ZenonT(60), <1>1, <1>2, <1>6, <1>7, <1>8 DEF SigInv

(* A frame is put on the stack: a call of posix_signal, or a dispatch. *)
LEMMA Entered ==
    ASSUME SigInv, s_stack # << >> => s_stack[Len(s_stack)].pc = "handler",
           NEW g \in Frames, s_stack' = Append(s_stack, g),
           \/ g.pc = "call" /\ s_pending' = s_pending
           \/ g.pc = "loop" /\ g.sig = 0 /\ g.blocked = __sig_blocked_mask /\ g.bits = s_pending,
           SigTypes', s_broken_off' = s_broken_off,
           s_own_mask' = s_own_mask, __sig_sa_mask' = __sig_sa_mask, __sig_blocked_mask' = __sig_blocked_mask,
           s_owed' = s_owed, s_procmgr' = s_procmgr,
           AgreeOK(s_stack, __sig_handlers, s_procmgr) => TopAgrees(g, __sig_handlers', s_procmgr)
    PROVE  SigInv'
<1> DEFINE st == s_stack
           t == s_stack'
<1>1. st \in Seq(Frames) /\ MaskOK(st, __sig_sa_mask, s_own_mask, __sig_blocked_mask) /\ LostOK(st, s_pending, s_owed)
    BY Zenon DEF SigInv, SigTypes
<1>2. Len(t) = Len(st) + 1 /\ t[Len(st) + 1] = g /\ \A i \in 1 .. Len(st) : t[i] = st[i]
    <2>1. st \in Seq(Frames) /\ t = Append(st, g)
        BY ZenonT(60), <1>1
    <2> HIDE DEF st, t
    <2> QED
        BY <2>1, PushShape
<1>3. st # << >> => st[Len(st)].pc \in {"handler", "call", "interrupted"}
    OBVIOUS
<1> HIDE DEF st, t
<1>4. MaskOK(t, __sig_sa_mask, s_own_mask, __sig_blocked_mask)
    BY ZenonT(60), <1>1, <1>2, <1>3, MaskPush
<1>5. LostOK(t, s_pending', s_owed)
    BY Zenon, <1>1, <1>2, LostPush
<1>6. s_broken_off = FALSE => AgreeOK(t, __sig_handlers', s_procmgr)
    <2> HAVE s_broken_off = FALSE
    <2>1. AgreeOK(st, __sig_handlers, s_procmgr) /\ TopAgrees(g, __sig_handlers', s_procmgr)
        BY ZenonT(60) DEF SigInv, st
    <2>2. st # << >> => st[Len(st)].pc = "handler"
        BY Zenon DEF st
    <2> QED
        BY Zenon, <1>1, <1>2, <2>1, <2>2, AgreePush
<1> QED
    BY ZenonT(60), <1>4, <1>5, <1>6 DEF SigInv, t

(* The frame of a call of posix_signal, or of a dispatch that is done, goes. *)
LEMMA Left ==
    ASSUME SigInv, s_stack # << >>, s_stack' = Sig!Below,
           Sig!Top.pc \in {"call", "interrupted", "loop"},
           Sig!Top.pc = "loop" => Sig!Top.bits = {} /\ s_pending' = s_pending \cup Sig!Top.repost,
           Sig!Top.pc # "loop" => s_pending' = s_pending,
           SigTypes', s_broken_off' = s_broken_off,
           s_own_mask' = s_own_mask, __sig_sa_mask' = __sig_sa_mask, __sig_blocked_mask' = __sig_blocked_mask,
           s_owed' = s_owed,
           s_broken_off = FALSE => __sig_handlers' = s_procmgr'
    PROVE  SigInv'
<1> DEFINE st == s_stack
           t == s_stack'
<1>1. st \in Seq(Frames) /\ MaskOK(st, __sig_sa_mask, s_own_mask, __sig_blocked_mask) /\ LostOK(st, s_pending, s_owed)
    BY Zenon DEF SigInv, SigTypes
<1>2. Len(t) = Len(st) - 1 /\ \A i \in 1 .. (Len(st) - 1) : t[i] = st[i]
    <2>1. st \in Seq(Frames) /\ st # << >> /\ t = Under(st)
        BY ZenonT(60), <1>1 DEF Sig!Below, Under
    <2> HIDE DEF st, t
    <2> QED
        BY <2>1, PopShape
<1>3. st # << >> /\ st[Len(st)] = Sig!Top
    BY Zenon DEF Sig!Top
<1> HIDE DEF st, t
<1>4. MaskOK(t, __sig_sa_mask, s_own_mask, __sig_blocked_mask)
    BY Zenon, <1>1, <1>2, <1>3, MaskPop
<1>5. LostOK(t, s_pending', s_owed)
    <2>1. s_pending \subseteq s_pending' /\ \A x : Holds(st[Len(st)], x) => x \in s_pending'
        BY Zenon, <1>3 DEF Holds, DispatchPCs
    <2> QED
        BY Zenon, <1>1, <1>2, <1>3, <2>1, LostPop
<1>6. s_broken_off = FALSE => AgreeOK(t, __sig_handlers', s_procmgr')
    <2> HAVE s_broken_off = FALSE
    <2>1. AgreeOK(st, __sig_handlers, s_procmgr) /\ s_procmgr' = __sig_handlers'
        BY ZenonT(60) DEF SigInv, st
    <2> QED
        BY ZenonT(60), <1>1, <1>2, <1>3, <2>1, AgreePop
<1> QED
    BY ZenonT(60), <1>4, <1>5, <1>6 DEF SigInv, t

(* A dispatch moves on. *)
LEMMA MovedOn ==
    ASSUME SigInv, s_stack # << >>, Sig!Top.pc \in DispatchPCs,
           NEW g \in DispatchFrames, Sig!SetTop(g), g.blocked = Sig!Top.blocked,
           g.pc = "loop" <=> g.sig = 0,
           g.sig # 0 => g.saved = Sig!Top.blocked /\ g.sig \notin Sig!Top.blocked,
           __sig_blocked_mask' = IF g.sig = 0 THEN Sig!Top.blocked ELSE Sig!Top.blocked \cup (__sig_sa_mask[g.sig] \cup {g.sig}),
           SigTypes', s_broken_off' = s_broken_off,
           s_own_mask' = s_own_mask, __sig_sa_mask' = __sig_sa_mask, s_pending' = s_pending,
           s_owed' \subseteq s_owed, \A x \in s_owed' : x \in Sig!Top.bits \cup Sig!Top.repost => x \in g.bits \cup g.repost,
           AgreeOK(s_stack, __sig_handlers, s_procmgr) => TopAgrees(g, __sig_handlers', s_procmgr')
    PROVE  SigInv'
<1> DEFINE st == s_stack
           t == s_stack'
           f == Sig!Top
           ow == s_owed'
           mask == __sig_blocked_mask'
<1>1. st \in Seq(Frames) /\ MaskOK(st, __sig_sa_mask, s_own_mask, __sig_blocked_mask) /\ LostOK(st, s_pending, s_owed)
    BY Zenon DEF SigInv, SigTypes
<1>2. g \in Frames
    BY Zenon DEF Frames
<1>3. Len(t) = Len(st) /\ t[Len(st)] = g /\ \A i \in 1 .. (Len(st) - 1) : t[i] = st[i]
    <2>1. st \in Seq(Frames) /\ st # << >> /\ t = Append(Under(st), g)
        BY ZenonT(60), <1>1 DEF Sig!SetTop, Sig!Below, Under
    <2> HIDE DEF st, t
    <2> QED
        <3>1. Replaced(Frames, st, g, t)
            BY ZenonT(60), <1>2, <2>1, ReplaceShape
        <3> QED
            BY ZenonT(60), <3>1 DEF Replaced
<1>4. st # << >> /\ st[Len(st)] = f /\ f.pc \in DispatchPCs
    BY ZenonT(60) DEF Sig!Top
<1>5. /\ g.pc \in DispatchPCs /\ g.blocked = f.blocked /\ (g.pc = "loop" <=> g.sig = 0)
      /\ g.sig # 0 => g.saved = f.blocked /\ g.sig \notin f.blocked
      /\ mask = IF g.sig = 0 THEN f.blocked ELSE f.blocked \cup (__sig_sa_mask[g.sig] \cup {g.sig})
    BY Zenon DEF DispatchFrames
<1>6. ow \in SUBSET s_owed /\ \A x \in ow : Holds(f, x) => Holds(g, x)
    BY Zenon, <1>5 DEF Holds
<1> HIDE DEF st, t, f, ow, mask
<1>7. MaskOK(t, __sig_sa_mask, s_own_mask, mask)
    BY ZenonT(60), <1>1, <1>2, <1>3, <1>4, <1>5, MaskReplace
<1>8. LostOK(t, s_pending, ow)
    BY ZenonT(60), <1>1, <1>3, <1>4, <1>6, LostReplace
<1>9. s_broken_off = FALSE => AgreeOK(t, __sig_handlers', s_procmgr')
    <2> HAVE s_broken_off = FALSE
    <2>1. AgreeOK(st, __sig_handlers, s_procmgr) /\ TopAgrees(g, __sig_handlers', s_procmgr')
        BY ZenonT(60) DEF SigInv, st
    <2> QED
        BY Zenon, <1>1, <1>3, <1>4, <2>1, AgreeReplace
<1> QED
    BY ZenonT(60), <1>7, <1>8, <1>9 DEF SigInv, t, ow, mask


(* What the running dispatch knows of the mask. *)
LEMMA TopMask ==
    ASSUME SigInv, s_stack # << >>, Sig!Top.pc \in DispatchPCs
    PROVE  /\ Sig!Top.pc = "loop" <=> Sig!Top.sig = 0
           /\ Sig!Top.sig = 0 => __sig_blocked_mask = Sig!Top.blocked
           /\ Sig!Top.sig # 0 => /\ Sig!Top.saved = Sig!Top.blocked /\ Sig!Top.sig \notin Sig!Top.blocked
                                 /\ __sig_blocked_mask = Sig!Top.blocked \cup (__sig_sa_mask[Sig!Top.sig] \cup {Sig!Top.sig})
<1> DEFINE n == Len(s_stack)
           up == Upto(s_stack, __sig_sa_mask, s_own_mask, n)
<1>1. SigTypes /\ Sig!Top = s_stack[n] /\ n \in Nat \ {0}
    BY Zenon, TopShape DEF SigInv
<1>2. FrameMask(s_stack, __sig_sa_mask, s_own_mask, n) /\ __sig_blocked_mask = Upto(s_stack, __sig_sa_mask, s_own_mask, n + 1)
    <2>1. n \in 1 .. n
        BY <1>1
    <2> QED
        BY ZenonT(60), <2>1 DEF SigInv, MaskOK
<1>3. __sig_blocked_mask = up \cup Adds(s_stack, __sig_sa_mask, n)
    <2>1. \A i \in Nat \ {0} : Upto(s_stack, __sig_sa_mask, s_own_mask, i + 1)
                               = Upto(s_stack, __sig_sa_mask, s_own_mask, i) \cup Adds(s_stack, __sig_sa_mask, i)
        BY ZenonT(60), UptoNext
    <2> QED
        BY ZenonT(60), <1>1, <1>2, <2>1
<1> HIDE DEF n
<1>4. /\ Sig!Top.blocked = up /\ (Sig!Top.pc = "loop" <=> Sig!Top.sig = 0)
      /\ Sig!Top.sig # 0 => Sig!Top.saved = up /\ Sig!Top.sig \notin up
    BY ZenonT(60), <1>1, <1>2 DEF FrameMask
<1>5. Adds(s_stack, __sig_sa_mask, n) = IF Sig!Top.sig # 0 THEN __sig_sa_mask[Sig!Top.sig] \cup {Sig!Top.sig} ELSE {}
    BY ZenonT(60), <1>1 DEF Adds
<1> HIDE DEF up
<1> QED
    BY ZenonT(60), <1>3, <1>4, <1>5

LEMMA TopAgree ==
    ASSUME SigInv, s_stack # << >>, AgreeOK(s_stack, __sig_handlers, s_procmgr)
    PROVE  TopAgrees(Sig!Top, __sig_handlers, s_procmgr)
<1>1. Len(s_stack) # 0
    BY DEF SigInv, SigTypes
<1> QED
    BY ZenonT(60), <1>1 DEF AgreeOK, Sig!Top

LEMMA RaiseKeeps ==
    ASSUME SigInv, NEW s \in Sigs, Sig!Raise(s)
    PROVE  SigInv'
<1>1. /\ s_stack' = s_stack /\ __sig_sa_mask' = __sig_sa_mask /\ s_own_mask' = s_own_mask
      /\ __sig_blocked_mask' = __sig_blocked_mask /\ __sig_handlers' = __sig_handlers /\ s_procmgr' = s_procmgr
      /\ (s_pending' = s_pending /\ s_owed' = s_owed) \/ (s_pending' = s_pending \cup {s} /\ s_owed' = s_owed \cup {s})
    BY Zenon DEF Sig!Raise, Sig!fixed
<1>2. s_broken_off' = s_broken_off
    BY ZenonT(60) DEF Sig!Raise
<1>3. SigTypes'
    BY Zenon, <1>1 DEF SigInv, SigTypes
<1>4. LostOK(s_stack', s_pending', s_owed')
    BY ZenonT(60), <1>1 DEF SigInv, LostOK
<1> QED
    BY ZenonT(60), <1>1, <1>2, <1>3, <1>4 DEF SigInv

LEMMA SetMaskKeeps ==
    ASSUME SigInv, NEW m \in SUBSET Sigs, Sig!SetMask(m)
    PROVE  SigInv'
<1>1. /\ s_stack' = s_stack /\ s_stack = << >> /\ Len(s_stack) = 0 /\ __sig_sa_mask' = __sig_sa_mask /\ s_own_mask' = m
      /\ __sig_blocked_mask' = m /\ __sig_handlers' = __sig_handlers /\ s_procmgr' = s_procmgr
      /\ s_pending' = s_pending /\ s_owed' = s_owed
    BY Zenon DEF Sig!SetMask, Sig!fixed
<1>2. s_broken_off' = s_broken_off
    BY ZenonT(60) DEF Sig!SetMask
<1>3. SigTypes'
    BY Zenon, <1>1 DEF SigInv, SigTypes
<1>4. 1 .. (0 - 1) = {} /\ 1 .. 0 = {} /\ 1 .. ((0 + 1) - 1) = {}
    OBVIOUS
<1>5. Upto(s_stack, __sig_sa_mask, m, 0 + 1) = m
    BY ZenonT(60), <1>4 DEF Upto
<1>6. MaskOK(s_stack, __sig_sa_mask, m, m)
    BY ZenonT(60), <1>1, <1>4, <1>5 DEF MaskOK
<1> QED
    BY ZenonT(60), <1>1, <1>2, <1>3, <1>6 DEF SigInv

LEMMA PosixSignalKeeps ==
    ASSUME SigInv, NEW s \in Sigs, NEW h \in Actions, Sig!posix_signal(s, h)
    PROVE  SigInv'
<1> DEFINE g == [pc |-> "call", sig |-> s, handler |-> h, old |-> __sig_handlers[s]]
<1>1. SigTypes /\ (s_stack # << >> => s_stack[Len(s_stack)].pc = "handler")
    BY Zenon DEF SigInv, Sig!posix_signal, Sig!Running, Sig!Top
<1>2. g \in Frames /\ g.pc = "call" /\ g.sig = s /\ g.handler = h /\ g.old = __sig_handlers[s]
    BY Zenon, <1>1 DEF SigTypes, Frames, CallFrames
<1>3. /\ s_stack' = Append(s_stack, g) /\ __sig_sa_mask' = __sig_sa_mask /\ s_own_mask' = s_own_mask
      /\ __sig_blocked_mask' = __sig_blocked_mask /\ __sig_handlers' = [__sig_handlers EXCEPT ![s] = h]
      /\ s_procmgr' = s_procmgr /\ s_pending' = s_pending /\ s_owed' = s_owed
    BY Zenon DEF Sig!posix_signal, Sig!Deeper, Sig!fixed
<1>4. s_broken_off' = s_broken_off
    BY ZenonT(60) DEF Sig!posix_signal
<1> HIDE DEF g
<1>5. SigTypes'
    <2>1. s_stack' \in Seq(Frames)
        BY <1>1, <1>2, <1>3 DEF SigTypes
    <2>2. __sig_handlers' \in [Sigs -> Actions]
        BY Zenon, <1>1, <1>3 DEF SigTypes
    <2> QED
        BY ZenonT(60), <1>1, <1>3, <2>1, <2>2 DEF SigTypes
<1>6. AgreeOK(s_stack, __sig_handlers, s_procmgr) => TopAgrees(g, __sig_handlers', s_procmgr)
    <2> HAVE AgreeOK(s_stack, __sig_handlers, s_procmgr)
    <2>1. __sig_handlers = s_procmgr
        <3>1. CASE s_stack = << >>
            BY Zenon, <3>1 DEF AgreeOK
        <3>2. CASE s_stack # << >>
            BY Zenon, <1>1, <3>2, TopAgree DEF TopAgrees, Sig!Top
        <3> QED
            BY Zenon, <3>1, <3>2
    <2> QED
        BY Zenon, <1>2, <1>3, <2>1 DEF TopAgrees
<1> QED
    BY ZenonT(60), <1>1, <1>2, <1>3, <1>4, <1>5, <1>6, Entered

LEMMA SigactionKeeps ==
    ASSUME SigInv, Sig!SigactionAnswered \/ Sig!SigactionFails
    PROVE  SigInv'
<1>1. /\ s_stack # << >> /\ s_stack' = Sig!Below /\ Sig!Top.pc \in {"call", "interrupted"}
      /\ __sig_sa_mask' = __sig_sa_mask /\ s_own_mask' = s_own_mask
      /\ __sig_blocked_mask' = __sig_blocked_mask /\ s_pending' = s_pending /\ s_owed' = s_owed
    BY Zenon DEF Sig!SigactionAnswered, Sig!SigactionFails, Sig!fixed
<1>2. s_broken_off' = s_broken_off
    BY ZenonT(60) DEF Sig!SigactionAnswered, Sig!SigactionFails
<1>3. SigTypes /\ Sig!Top \in CallFrames
    BY Zenon, <1>1, TopShape DEF SigInv
<1>4. Sig!Top.sig \in Sigs /\ Sig!Top.handler \in Actions /\ Sig!Top.old \in Actions
    BY Zenon, <1>3 DEF CallFrames
<1>5. \/ Sig!Top.pc = "call" /\ s_procmgr' = [s_procmgr EXCEPT ![Sig!Top.sig] = Sig!Top.handler] /\ __sig_handlers' = __sig_handlers
      \/ __sig_handlers' = [__sig_handlers EXCEPT ![Sig!Top.sig] = Sig!Top.old] /\ s_procmgr' = s_procmgr
    BY Zenon DEF Sig!SigactionAnswered, Sig!SigactionFails
<1>6. SigTypes'
    <2>1. s_stack' \in Seq(Frames)
        <3>1. s_stack \in Seq(Frames) /\ s_stack # << >> /\ s_stack' = Under(s_stack)
            BY Zenon, <1>1, <1>3 DEF SigTypes, Sig!Below, Under
        <3> QED
            BY Zenon, <3>1, PopShape
    <2>2. __sig_handlers' \in [Sigs -> Actions] /\ s_procmgr' \in [Sigs -> Actions]
        BY Zenon, <1>3, <1>4, <1>5 DEF SigTypes
    <2> QED
        BY ZenonT(60), <1>1, <1>3, <2>1, <2>2 DEF SigTypes
<1>7. s_broken_off = FALSE => __sig_handlers' = s_procmgr'
    <2> HAVE s_broken_off = FALSE
    <2>1. TopAgrees(Sig!Top, __sig_handlers, s_procmgr)
        BY ZenonT(60), <1>1, TopAgree DEF SigInv
    <2>2. Sig!Top.pc = "call" /\ __sig_handlers = [s_procmgr EXCEPT ![Sig!Top.sig] = Sig!Top.handler] /\ s_procmgr[Sig!Top.sig] = Sig!Top.old
        BY Zenon, <1>1, <2>1 DEF TopAgrees
    <2> QED
        BY <1>3, <1>4, <1>5, <2>2 DEF SigTypes
<1>8. /\ Sig!Top.pc \in {"call", "interrupted", "loop"} /\ Sig!Top.pc # "loop"
    BY Zenon, <1>1
<1> QED
    BY ZenonT(60), <1>1, <1>2, <1>6, <1>7, <1>8, Left


(* A dispatch entered from the program or from a handler. *)
LEMMA DispatchEntered ==
    ASSUME SigInv, Sig!Running, NEW kind \in {"sigcheck", "dispatcher"},
           s_stack' = Append(s_stack, Sig!Frame(kind, s_pending)), s_pending' = {},
           __sig_sa_mask' = __sig_sa_mask, s_own_mask' = s_own_mask, __sig_blocked_mask' = __sig_blocked_mask,
           __sig_handlers' = __sig_handlers, s_procmgr' = s_procmgr, s_owed' = s_owed, s_broken_off' = s_broken_off
    PROVE  SigInv'
<1> DEFINE g == Sig!Frame(kind, s_pending)
<1>1. SigTypes /\ (s_stack # << >> => s_stack[Len(s_stack)].pc = "handler")
    BY Zenon DEF SigInv, Sig!Running, Sig!Top
<1>2. g \in Frames /\ g.pc = "loop" /\ g.sig = 0 /\ g.bits = s_pending /\ g.blocked = __sig_blocked_mask
    BY Zenon, <1>1, NewFrame
<1>3. s_stack' = Append(s_stack, g)
    OBVIOUS
<1> HIDE DEF g
<1>4. SigTypes'
    <2>1. s_stack' \in Seq(Frames)
        BY <1>1, <1>2, <1>3 DEF SigTypes
    <2> QED
        BY ZenonT(60), <1>1, <2>1 DEF SigTypes
<1>5. AgreeOK(s_stack, __sig_handlers, s_procmgr) => TopAgrees(g, __sig_handlers', s_procmgr)
    <2> HAVE AgreeOK(s_stack, __sig_handlers, s_procmgr)
    <2>1. __sig_handlers = s_procmgr
        <3>1. CASE s_stack = << >>
            BY Zenon, <3>1 DEF AgreeOK
        <3>2. CASE s_stack # << >>
            BY ZenonT(60), <1>1, <3>2, TopAgree DEF TopAgrees, Sig!Top
        <3> QED
            BY Zenon, <3>1, <3>2
    <2> QED
        BY Zenon, <1>2, <2>1 DEF TopAgrees
<1> QED
    BY ZenonT(60), <1>1, <1>2, <1>3, <1>4, <1>5, Entered

(* A dispatch entered while a PM_SIGACTION waits: its frame stays, marked. *)
LEMMA CallInterrupted ==
    ASSUME SigInv, s_stack # << >>, Sig!Top.pc \in {"call", "reset"},
           NEW g \in Frames, g.sig = Sig!Top.sig,
           Sig!Top.pc = "call" => g.pc \in {"call", "interrupted"},
           Sig!Top.pc = "reset" => /\ g.pc = "handler" /\ g.blocked = Sig!Top.blocked /\ g.saved = Sig!Top.saved
                                   /\ g.bits = Sig!Top.bits /\ g.repost = Sig!Top.repost,
               NEW h \in Frames, h.pc = "loop", h.sig = 0, h.bits = s_pending, h.blocked = __sig_blocked_mask,
               NEW u \in Seq(Frames), Len(u) = Len(s_stack), u[Len(s_stack)] = g,
               \A i \in 1 .. (Len(s_stack) - 1) : u[i] = s_stack[i],
               NEW t, Len(t) = Len(u) + 1, t[Len(u) + 1] = h, \A i \in 1 .. Len(u) : t[i] = u[i]
    PROVE  MaskOK(t, __sig_sa_mask, s_own_mask, __sig_blocked_mask) /\ LostOK(t, {}, s_owed)
<1> DEFINE st == s_stack
           b == Sig!Below
           n == Len(s_stack)
<1>1. /\ st \in Seq(Frames) /\ MaskOK(st, __sig_sa_mask, s_own_mask, __sig_blocked_mask)
      /\ LostOK(st, s_pending, s_owed) /\ st # << >> /\ n = Len(st)
    BY Zenon DEF SigInv, SigTypes
<1>2. /\ b \in Seq(Frames) /\ n \in Nat \ {0} /\ Len(b) = n - 1
      /\ \A i \in 1 .. (n - 1) : b[i] = st[i]
    <2>1. b = Under(st)
        BY Zenon DEF Sig!Below, Under
    <2> HIDE DEF b, st, n
    <2> QED
        BY <1>1, <2>1, PopShape
<1>3. u \in Seq(Frames) /\ Len(u) = n /\ u[n] = g /\ \A i \in 1 .. (n - 1) : u[i] = st[i]
    BY Zenon
<1>4. Len(t) = Len(u) + 1 /\ t[Len(u) + 1] = h /\ \A i \in 1 .. Len(u) : t[i] = u[i]
    BY Zenon
<1>5. st[n] = Sig!Top
    BY Zenon DEF Sig!Top
<1> HIDE DEF st, b, n
<1>6. MaskOK(u, __sig_sa_mask, s_own_mask, __sig_blocked_mask)
    <2>1. CASE Sig!Top.pc = "call"
        <3>1. MaskOK(b, __sig_sa_mask, s_own_mask, __sig_blocked_mask)
            BY Zenon, <1>1, <1>2, <1>5, <2>1, MaskPop
        <3>2. b # << >> => b[Len(b)].pc \in {"handler", "call", "interrupted"}
            <4>1. b # << >> => Len(b) \in 1 .. (n - 1)
                BY <1>2
            <4>2. \A i \in 1 .. (n - 1) : st[i].pc \in {"handler", "call", "interrupted"}
                BY ZenonT(60), <1>1 DEF MaskOK
            <4> QED
                BY ZenonT(60), <1>2, <4>1, <4>2
        <3>3. Len(u) = Len(b) + 1 /\ u[Len(b) + 1] = g /\ \A i \in 1 .. Len(b) : u[i] = b[i]
            BY <1>2, <1>3
        <3> QED
            BY Zenon, <1>2, <2>1, <3>1, <3>2, <3>3, MaskPush
    <2>2. CASE Sig!Top.pc = "reset"
        <3> DEFINE f == Sig!Top
                   mask == __sig_blocked_mask
        <3>1. /\ f.sig # 0 /\ f.saved = f.blocked /\ f.sig \notin f.blocked
              /\ mask = f.blocked \cup (__sig_sa_mask[f.sig] \cup {f.sig})
            BY Zenon, <2>2, TopMask DEF DispatchPCs
        <3>2. f = st[Len(st)] /\ f.pc \in DispatchPCs
            BY Zenon, <1>1, <1>5, <2>2 DEF DispatchPCs
        <3>3. /\ g.pc \in DispatchPCs /\ g.blocked = f.blocked /\ (g.pc = "loop" <=> g.sig = 0)
              /\ g.sig # 0 => g.saved = f.blocked /\ g.sig \notin f.blocked
              /\ mask = IF g.sig = 0 THEN f.blocked ELSE f.blocked \cup (__sig_sa_mask[g.sig] \cup {g.sig})
            BY Zenon, <2>2, <3>1 DEF DispatchPCs
        <3> HIDE DEF f, mask
        <3>4. MaskOK(u, __sig_sa_mask, s_own_mask, mask)
            BY ZenonT(60), <1>1, <1>3, <3>2, <3>3, MaskReplace
        <3> QED
            BY ZenonT(60), <3>4 DEF mask
    <2> QED
        BY ZenonT(60), <2>1, <2>2
<1>7. MaskOK(t, __sig_sa_mask, s_own_mask, __sig_blocked_mask)
    <2>1. u[Len(u)].pc \in {"handler", "call", "interrupted"}
        BY Zenon, <1>3
    <2> QED
        BY Zenon, <1>3, <1>4, <1>6, <2>1, MaskPush
<1>8. LostOK(u, s_pending, s_owed)
    <2>1. \A x \in s_owed : Holds(st[Len(st)], x) => Holds(g, x)
        BY Zenon, <1>1, <1>5 DEF Holds, DispatchPCs
    <2>2. Len(u) = Len(st) /\ u[Len(st)] = g /\ \A i \in 1 .. (Len(st) - 1) : u[i] = st[i]
        BY Zenon, <1>1, <1>3
    <2> QED
        BY ZenonT(60), <1>1, <2>1, <2>2, LostReplace
<1>9. LostOK(t, {}, s_owed)
    BY Zenon, <1>3, <1>4, <1>8, LostPush
<1> QED
    BY ZenonT(60), <1>7, <1>9

LEMMA InterruptKeeps ==
    ASSUME SigInv, NEW served \in BOOLEAN, Sig!Interrupt(served)
    PROVE  SigInv'
<1>1. /\ s_pending' = {} /\ __sig_sa_mask' = __sig_sa_mask /\ s_own_mask' = s_own_mask
      /\ __sig_blocked_mask' = __sig_blocked_mask /\ __sig_handlers' = __sig_handlers /\ s_owed' = s_owed
    BY Zenon DEF Sig!Interrupt, Sig!fixed
<1>2. CASE /\ Sig!Running /\ ~served /\ s_stack' = Append(s_stack, Sig!Frame("dispatcher", s_pending))
           /\ UNCHANGED <<s_procmgr, s_broken_off>>
    <2>1. s_procmgr' = s_procmgr /\ s_broken_off' = s_broken_off
        BY ZenonT(60), <1>2
    <2>2. "dispatcher" \in {"sigcheck", "dispatcher"}
        OBVIOUS
    <2> QED
        BY ZenonT(60), <1>1, <1>2, <2>1, <2>2, DispatchEntered
<1>3. CASE /\ s_stack # << >> /\ Sig!Top.pc \in {"call", "reset"}
           /\ s_stack' = Append(Append(Sig!Below,
                              [Sig!Top EXCEPT !.pc = IF Sig!Top.pc = "reset" THEN "handler"
                                                 ELSE IF served THEN "interrupted" ELSE "call"]),
                              Sig!Frame("dispatcher", s_pending))
           /\ s_procmgr' = IF served
                         THEN [s_procmgr EXCEPT ![Sig!Top.sig] = IF Sig!Top.pc = "reset" THEN "DFL" ELSE Sig!Top.handler]
                         ELSE s_procmgr
           /\ s_broken_off' = TRUE
    <2> DEFINE pc == IF Sig!Top.pc = "reset" THEN "handler" ELSE IF served THEN "interrupted" ELSE "call"
               g == [Sig!Top EXCEPT !.pc = pc]
               h == Sig!Frame("dispatcher", s_pending)
    <2>1. SigTypes /\ (Sig!Top.pc = "call" => Sig!Top \in CallFrames) /\ (Sig!Top.pc = "reset" => Sig!Top \in DispatchFrames)
        BY Zenon, <1>3, TopShape DEF SigInv, DispatchPCs
    <2>2. h \in Frames /\ h.pc = "loop" /\ h.sig = 0 /\ h.bits = s_pending /\ h.blocked = __sig_blocked_mask
        BY Zenon, <2>1, NewFrame
    <2>3. s_stack' = Append(Append(Sig!Below, g), h) /\ s_stack # << >> /\ Sig!Top.pc \in {"call", "reset"}
        BY ZenonT(60), <1>3
    <2>4. Sig!Top.pc = "call" => pc \in {"call", "interrupted"}
        BY Zenon
    <2>5. Sig!Top.pc = "reset" => pc = "handler"
        BY Zenon
    <2>6. ASSUME Sig!Top.pc = "call"
          PROVE  s_stack' \in Seq(Frames) /\ MaskOK(s_stack', __sig_sa_mask, s_own_mask, __sig_blocked_mask) /\ LostOK(s_stack', {}, s_owed)
        <3>1. Sig!Top \in CallFrames /\ pc \in {"call", "interrupted"}
            BY Zenon, <2>1, <2>4, <2>6
        <3> HIDE DEF pc
        <3>2. g \in CallFrames /\ g.pc = pc /\ g.sig = Sig!Top.sig
            BY Zenon, <3>1, InterruptedFrame
        <3>3. g \in Frames /\ g.sig = Sig!Top.sig /\ g.pc \in {"call", "interrupted"} /\ Sig!Top.pc # "reset"
            BY Zenon, <2>6, <3>1, <3>2 DEF Frames
        <3> HIDE DEF g, h
        <3>4. s_stack' \in Seq(Frames) /\ MaskOK(s_stack', __sig_sa_mask, s_own_mask, __sig_blocked_mask) /\ LostOK(s_stack', {}, s_owed)
            <4> DEFINE u == Append(Sig!Below, g)
            <4>1. u \in Seq(Frames) /\ Len(u) = Len(s_stack) /\ u[Len(s_stack)] = g /\ \A i \in 1 .. (Len(s_stack) - 1) : u[i] = s_stack[i]
                <5> DEFINE st == s_stack
                <5>1. st \in Seq(Frames) /\ st # << >> /\ u = Append(Under(st), g)
                    BY ZenonT(60), <2>1, <2>3 DEF SigTypes, Sig!Below, Under
                <5>2. g \in Frames
                    BY Zenon, <3>3
                <5> HIDE DEF u, st
                <5>3. st \in Seq(Frames) /\ st # << >>
                    BY ZenonT(60), <5>1
                <5>4. u = Append(Under(st), g)
                    BY ZenonT(60), <5>1
                <5>5. u \in Seq(Frames) /\ Len(u) = Len(st) /\ u[Len(st)] = g /\ \A i \in 1 .. (Len(st) - 1) : u[i] = st[i]
                    <6>1. Replaced(Frames, st, g, u)
                        BY ZenonT(60), <5>2, <5>3, <5>4, ReplaceShape
                    <6> QED
                        BY ZenonT(60), <6>1 DEF Replaced
                <5> QED
                    BY ZenonT(60), <5>5 DEF st
            <4>2. s_stack' = Append(u, h)
                BY ZenonT(60), <2>3
            <4> HIDE DEF u
            <4>3. /\ s_stack' \in Seq(Frames) /\ Len(s_stack') = Len(u) + 1 /\ s_stack'[Len(u) + 1] = h
                  /\ \A i \in 1 .. Len(u) : s_stack'[i] = u[i]
                BY <2>2, <4>1, <4>2, PushShape
            <4> DEFINE t == s_stack'
            <4>4. t \in Seq(Frames) /\ Len(t) = Len(u) + 1 /\ t[Len(u) + 1] = h /\ \A i \in 1 .. Len(u) : t[i] = u[i]
                BY ZenonT(60), <4>3
            <4> HIDE DEF t
            <4>5. MaskOK(t, __sig_sa_mask, s_own_mask, __sig_blocked_mask) /\ LostOK(t, {}, s_owed)
                BY ZenonT(60), <2>2, <2>3, <2>6, <3>3, <4>1, <4>4, CallInterrupted
            <4> QED
                BY ZenonT(60), <4>3, <4>5 DEF t
        <3> QED
            BY ZenonT(60), <3>4
    <2>7. ASSUME Sig!Top.pc = "reset"
          PROVE  s_stack' \in Seq(Frames) /\ MaskOK(s_stack', __sig_sa_mask, s_own_mask, __sig_blocked_mask) /\ LostOK(s_stack', {}, s_owed)
        <3>1. Sig!Top \in DispatchFrames /\ pc = "handler"
            BY ZenonT(60), <2>1, <2>5, <2>7
        <3>2. /\ g \in DispatchFrames /\ g.pc = "handler" /\ g.sig = Sig!Top.sig /\ g.blocked = Sig!Top.blocked
              /\ g.saved = Sig!Top.saved /\ g.bits = Sig!Top.bits /\ g.repost = Sig!Top.repost
            BY <3>1, ResetFrame
        <3>3. g \in Frames /\ Sig!Top.pc # "call"
            BY Zenon, <2>7, <3>2 DEF Frames
        <3> HIDE DEF g, h
        <3>4. s_stack' \in Seq(Frames) /\ MaskOK(s_stack', __sig_sa_mask, s_own_mask, __sig_blocked_mask) /\ LostOK(s_stack', {}, s_owed)
            <4> DEFINE u == Append(Sig!Below, g)
            <4>1. u \in Seq(Frames) /\ Len(u) = Len(s_stack) /\ u[Len(s_stack)] = g /\ \A i \in 1 .. (Len(s_stack) - 1) : u[i] = s_stack[i]
                <5> DEFINE st == s_stack
                <5>1. st \in Seq(Frames) /\ st # << >> /\ u = Append(Under(st), g)
                    BY ZenonT(60), <2>1, <2>3 DEF SigTypes, Sig!Below, Under
                <5>2. g \in Frames
                    BY Zenon, <3>3
                <5> HIDE DEF u, st
                <5>3. st \in Seq(Frames) /\ st # << >>
                    BY ZenonT(60), <5>1
                <5>4. u = Append(Under(st), g)
                    BY ZenonT(60), <5>1
                <5>5. u \in Seq(Frames) /\ Len(u) = Len(st) /\ u[Len(st)] = g /\ \A i \in 1 .. (Len(st) - 1) : u[i] = st[i]
                    <6>1. Replaced(Frames, st, g, u)
                        BY ZenonT(60), <5>2, <5>3, <5>4, ReplaceShape
                    <6> QED
                        BY ZenonT(60), <6>1 DEF Replaced
                <5> QED
                    BY ZenonT(60), <5>5 DEF st
            <4>2. s_stack' = Append(u, h)
                BY ZenonT(60), <2>3
            <4> HIDE DEF u
            <4>3. /\ s_stack' \in Seq(Frames) /\ Len(s_stack') = Len(u) + 1 /\ s_stack'[Len(u) + 1] = h
                  /\ \A i \in 1 .. Len(u) : s_stack'[i] = u[i]
                BY <2>2, <4>1, <4>2, PushShape
            <4> DEFINE t == s_stack'
            <4>4. t \in Seq(Frames) /\ Len(t) = Len(u) + 1 /\ t[Len(u) + 1] = h /\ \A i \in 1 .. Len(u) : t[i] = u[i]
                BY ZenonT(60), <4>3
            <4> HIDE DEF t
            <4>5. MaskOK(t, __sig_sa_mask, s_own_mask, __sig_blocked_mask) /\ LostOK(t, {}, s_owed)
                BY ZenonT(60), <2>2, <2>3, <3>2, <3>3, <4>1, <4>4, CallInterrupted
            <4> QED
                BY ZenonT(60), <4>3, <4>5 DEF t
        <3> QED
            BY ZenonT(60), <3>4
    <2>8. /\ s_stack' \in Seq(Frames) /\ MaskOK(s_stack', __sig_sa_mask, s_own_mask, __sig_blocked_mask)
          /\ LostOK(s_stack', {}, s_owed)
        BY Zenon, <2>3, <2>6, <2>7
    <2>9. s_procmgr' \in [Sigs -> Actions]
        <3>1. Sig!Top.pc = "call" => Sig!Top.handler \in Actions
            BY Zenon, <2>1 DEF CallFrames
        <3>2. (IF Sig!Top.pc = "reset" THEN "DFL" ELSE Sig!Top.handler) \in Actions
            BY Zenon, <2>3, <3>1 DEF Actions
        <3> DEFINE a == IF Sig!Top.pc = "reset" THEN "DFL" ELSE Sig!Top.handler
        <3>3. s_procmgr' = s_procmgr \/ s_procmgr' = [s_procmgr EXCEPT ![Sig!Top.sig] = a]
            BY ZenonT(60), <1>3
        <3> HIDE DEF a
        <3> QED
            BY Zenon, <2>1, <3>2, <3>3 DEF SigTypes, a
    <2>10. SigTypes'
        BY ZenonT(60), <1>1, <2>1, <2>8, <2>9 DEF SigTypes
    <2>11. s_broken_off' \in BOOLEAN /\ ~ (s_broken_off' = FALSE)
        BY ZenonT(60), <1>3
    <2> QED
        BY ZenonT(60), <1>1, <2>8, <2>10, <2>11 DEF SigInv
<1> QED
    BY ZenonT(60), <1>2, <1>3 DEF Sig!Interrupt


(* The stack after a dispatch moved on. *)
LEMMA MovedTypes ==
    ASSUME SigTypes, s_stack # << >>, NEW g \in DispatchFrames, Sig!SetTop(g)
    PROVE  s_stack' \in Seq(Frames)
<1> DEFINE st == s_stack
           t == s_stack'
<1>1. st \in Seq(Frames) /\ st # << >> /\ t = Append(Under(st), g)
    BY ZenonT(60) DEF SigTypes, Sig!SetTop, Sig!Below, Under
<1>2. g \in Frames
    BY Zenon DEF Frames
<1> HIDE DEF st, t
<1>3. t \in Seq(Frames)
    <2>1. Replaced(Frames, st, g, t)
        BY ZenonT(60), <1>1, <1>2, ReplaceShape
    <2> QED
        BY ZenonT(60), <2>1 DEF Replaced
<1> QED
    BY ZenonT(60), <1>3 DEF t

LEMMA BlockedKeeps ==
    ASSUME Sig!SignalsAssumption, SigInv, NEW s \in Sigs, Sig!DispatchBlocked(s)
    PROVE  SigInv'
<1> DEFINE g == [Sig!Consumed(s) EXCEPT !.repost = @ \cup {s}]
<1>1. Sig!NextSig(s) /\ s \in Sig!Top.blocked /\ Sig!SetTop(g)
    BY Zenon DEF Sig!DispatchBlocked
<1>2. /\ __sig_sa_mask' = __sig_sa_mask /\ s_own_mask' = s_own_mask /\ __sig_blocked_mask' = __sig_blocked_mask
      /\ __sig_handlers' = __sig_handlers /\ s_procmgr' = s_procmgr /\ s_pending' = s_pending /\ s_owed' = s_owed
    BY Zenon DEF Sig!DispatchBlocked, Sig!fixed
<1>3. s_broken_off' = s_broken_off
    BY ZenonT(60) DEF Sig!DispatchBlocked
<1>4. SigTypes /\ s_stack # << >> /\ Sig!Top.pc = "loop" /\ Sig!Top \in DispatchFrames /\ Sig!Top.pc \in DispatchPCs
    BY Zenon, <1>1, TopShape DEF SigInv, Sig!NextSig, Sig!Looping, DispatchPCs
<1>5. s \in Sig!Top.bits /\ s \in Sigs /\ Sig!Consumed(s) = [Sig!Top EXCEPT !.bits = Sig!Top.bits \ {s}]
    BY ZenonT(60), <1>1, <1>4, TakeFrame
<1>6. g = [[Sig!Top EXCEPT !.bits = Sig!Top.bits \ {s}] EXCEPT !.repost = Sig!Top.repost \cup {s}]
    <2>1. [Sig!Top EXCEPT !.bits = Sig!Top.bits \ {s}].repost = Sig!Top.repost
        BY Zenon, <1>4 DEF DispatchFrames
    <2>2. Sig!Consumed(s).repost = Sig!Top.repost
        BY ZenonT(60), <1>5, <2>1
    <2> QED
        BY ZenonT(60), <1>5, <2>2
<1> HIDE DEF g
<1>7. /\ g \in DispatchFrames /\ g.pc = Sig!Top.pc /\ g.sig = Sig!Top.sig /\ g.blocked = Sig!Top.blocked /\ g.saved = Sig!Top.saved
      /\ g.bits = Sig!Top.bits \ {s} /\ g.repost = Sig!Top.repost \cup {s}
    <2> DEFINE f == Sig!Top
    <2>1. f \in DispatchFrames
        BY ZenonT(60), <1>4
    <2>2. s \in Sigs
        BY ZenonT(60), <1>5
    <2>3. g = [[f EXCEPT !.bits = f.bits \ {s}] EXCEPT !.repost = f.repost \cup {s}]
        BY ZenonT(60), <1>6
    <2> HIDE DEF f
    <2>4. PutAside(f, s, g)
        BY ZenonT(60), <2>1, <2>2, <2>3, BlockedFrame
    <2> QED
        BY ZenonT(60), <2>4 DEF f, PutAside
<1>8. Sig!Top.sig = 0 /\ __sig_blocked_mask = Sig!Top.blocked
    BY Zenon, <1>4, TopMask
<1>9. SigTypes'
    <2>1. s_stack' \in Seq(Frames)
        BY ZenonT(60), <1>1, <1>4, <1>7, MovedTypes
    <2> QED
        BY ZenonT(60), <1>2, <1>4, <2>1 DEF SigTypes
<1>10. AgreeOK(s_stack, __sig_handlers, s_procmgr) => TopAgrees(g, __sig_handlers', s_procmgr')
    <2> HAVE AgreeOK(s_stack, __sig_handlers, s_procmgr)
    <2>1. TopAgrees(Sig!Top, __sig_handlers, s_procmgr)
        BY ZenonT(60), <1>4, TopAgree
    <2> QED
        BY Zenon, <1>2, <1>4, <1>7, <2>1 DEF TopAgrees
<1>11. /\ g.pc = "loop" <=> g.sig = 0
       /\ g.sig # 0 => g.saved = Sig!Top.blocked /\ g.sig \notin Sig!Top.blocked
       /\ __sig_blocked_mask' = IF g.sig = 0 THEN Sig!Top.blocked ELSE Sig!Top.blocked \cup (__sig_sa_mask[g.sig] \cup {g.sig})
       /\ s_owed' \subseteq s_owed /\ \A x \in s_owed' : x \in Sig!Top.bits \cup Sig!Top.repost => x \in g.bits \cup g.repost
    BY Zenon, <1>2, <1>4, <1>5, <1>7, <1>8
<1> QED
    BY ZenonT(60), <1>1, <1>2, <1>3, <1>4, <1>7, <1>9, <1>10, <1>11, MovedOn

LEMMA NoHandlerKeeps ==
    ASSUME Sig!SignalsAssumption, SigInv, NEW s \in Sigs, Sig!DispatchNoHandler(s)
    PROVE  SigInv'
<1> DEFINE g == [Sig!Consumed(s) EXCEPT !.any = TRUE]
<1>1. Sig!NextSig(s) /\ Sig!SetTop(g)
    BY Zenon DEF Sig!DispatchNoHandler
<1>2. /\ __sig_sa_mask' = __sig_sa_mask /\ s_own_mask' = s_own_mask /\ __sig_blocked_mask' = __sig_blocked_mask
      /\ __sig_handlers' = __sig_handlers /\ s_procmgr' = s_procmgr /\ s_pending' = s_pending /\ s_owed' = s_owed \ {s}
    BY Zenon DEF Sig!DispatchNoHandler, Sig!fixed
<1>3. s_broken_off' = s_broken_off
    BY ZenonT(60) DEF Sig!DispatchNoHandler
<1>4. SigTypes /\ s_stack # << >> /\ Sig!Top.pc = "loop" /\ Sig!Top \in DispatchFrames /\ Sig!Top.pc \in DispatchPCs
    BY Zenon, <1>1, TopShape DEF SigInv, Sig!NextSig, Sig!Looping, DispatchPCs
<1>5. s \in Sig!Top.bits /\ s \in Sigs /\ Sig!Consumed(s) = [Sig!Top EXCEPT !.bits = Sig!Top.bits \ {s}]
    BY ZenonT(60), <1>1, <1>4, TakeFrame
<1>6. g = [[Sig!Top EXCEPT !.bits = Sig!Top.bits \ {s}] EXCEPT !.any = TRUE]
    BY ZenonT(60), <1>5
<1> HIDE DEF g
<1>7. /\ g \in DispatchFrames /\ g.pc = Sig!Top.pc /\ g.sig = Sig!Top.sig /\ g.blocked = Sig!Top.blocked /\ g.saved = Sig!Top.saved
      /\ g.bits = Sig!Top.bits \ {s} /\ g.repost = Sig!Top.repost
    <2> DEFINE f == Sig!Top
    <2>1. f \in DispatchFrames
        BY ZenonT(60), <1>4
    <2>2. s \in Sigs
        BY ZenonT(60), <1>5
    <2>3. g = [[f EXCEPT !.bits = f.bits \ {s}] EXCEPT !.any = TRUE]
        BY ZenonT(60), <1>6
    <2> HIDE DEF f
    <2>4. PassedOver(f, s, g)
        BY ZenonT(60), <2>1, <2>2, <2>3, SkippedFrame
    <2> QED
        BY ZenonT(60), <2>4 DEF f, PassedOver
<1>8. Sig!Top.sig = 0 /\ __sig_blocked_mask = Sig!Top.blocked
    BY Zenon, <1>4, TopMask
<1>9. SigTypes'
    <2>1. s_stack' \in Seq(Frames)
        BY ZenonT(60), <1>1, <1>4, <1>7, MovedTypes
    <2> QED
        BY ZenonT(60), <1>2, <1>4, <2>1 DEF SigTypes
<1>10. AgreeOK(s_stack, __sig_handlers, s_procmgr) => TopAgrees(g, __sig_handlers', s_procmgr')
    <2> HAVE AgreeOK(s_stack, __sig_handlers, s_procmgr)
    <2>1. TopAgrees(Sig!Top, __sig_handlers, s_procmgr)
        BY ZenonT(60), <1>4, TopAgree
    <2> QED
        BY Zenon, <1>2, <1>4, <1>7, <2>1 DEF TopAgrees
<1>11. /\ g.pc = "loop" <=> g.sig = 0
       /\ g.sig # 0 => g.saved = Sig!Top.blocked /\ g.sig \notin Sig!Top.blocked
       /\ __sig_blocked_mask' = IF g.sig = 0 THEN Sig!Top.blocked ELSE Sig!Top.blocked \cup (__sig_sa_mask[g.sig] \cup {g.sig})
       /\ s_owed' \subseteq s_owed /\ \A x \in s_owed' : x \in Sig!Top.bits \cup Sig!Top.repost => x \in g.bits \cup g.repost
    BY ZenonT(60), <1>2, <1>4, <1>5, <1>7, <1>8
<1> QED
    BY ZenonT(60), <1>1, <1>2, <1>3, <1>4, <1>7, <1>9, <1>10, <1>11, MovedOn

LEMMA HandlerKeeps ==
    ASSUME Sig!SignalsAssumption, SigInv, NEW s \in Sigs, Sig!DispatchHandler(s)
    PROVE  SigInv'
<1> DEFINE pc == IF s \in s_resethand THEN "reset" ELSE "handler"
           b == Sig!Consumed(s).no_restart \/ s \notin s_restart
           g == [Sig!Consumed(s) EXCEPT !.sig = s, !.saved = __sig_blocked_mask, !.any = TRUE,
                                        !.no_restart = @ \/ s \notin s_restart,
                                        !.pc = IF s \in s_resethand THEN "reset" ELSE "handler"]
<1>1. Sig!NextSig(s) /\ Sig!SetTop(g) /\ s \notin Sig!Top.blocked
    BY ZenonT(60) DEF Sig!DispatchHandler
<1>2. /\ __sig_sa_mask' = __sig_sa_mask /\ s_own_mask' = s_own_mask
      /\ __sig_blocked_mask' = __sig_blocked_mask \cup __sig_sa_mask[s] \cup {s}
      /\ __sig_handlers' = IF pc = "reset" THEN [__sig_handlers EXCEPT ![s] = "DFL"] ELSE __sig_handlers
      /\ s_procmgr' = s_procmgr /\ s_pending' = s_pending /\ s_owed' = s_owed \ {s}
    BY Zenon DEF Sig!DispatchHandler, Sig!fixed
<1>3. s_broken_off' = s_broken_off
    BY ZenonT(60) DEF Sig!DispatchHandler
<1>4. SigTypes /\ s_stack # << >> /\ Sig!Top.pc = "loop" /\ Sig!Top \in DispatchFrames /\ Sig!Top.pc \in DispatchPCs
    BY Zenon, <1>1, TopShape DEF SigInv, Sig!NextSig, Sig!Looping, DispatchPCs
<1>5. s \in Sig!Top.bits /\ s \in Sigs /\ s # 0 /\ Sig!Consumed(s) = [Sig!Top EXCEPT !.bits = Sig!Top.bits \ {s}]
    BY ZenonT(60), <1>1, <1>4, TakeFrame
<1>6. g = [[Sig!Top EXCEPT !.bits = Sig!Top.bits \ {s}] EXCEPT
                !.sig = s, !.saved = __sig_blocked_mask, !.any = TRUE, !.no_restart = b, !.pc = pc]
    BY ZenonT(60), <1>5
<1>7. pc \in {"reset", "handler"} /\ pc \in DispatchPCs
    BY Zenon DEF DispatchPCs
<1>8. b \in BOOLEAN
    BY ZenonT(60)
<1> HIDE DEF g, b, pc
<1>9. /\ g \in DispatchFrames /\ g.pc = pc /\ g.sig = s /\ g.blocked = Sig!Top.blocked /\ g.saved = __sig_blocked_mask
      /\ g.bits = Sig!Top.bits \ {s} /\ g.repost = Sig!Top.repost
    <2>1. __sig_blocked_mask \in SUBSET Sigs
        BY Zenon, <1>4 DEF SigTypes
    <2> DEFINE f == Sig!Top
               m == __sig_blocked_mask
    <2>2. f \in DispatchFrames /\ m \in SUBSET Sigs
        BY ZenonT(60), <1>4, <2>1
    <2>3. s \in Sigs /\ b \in BOOLEAN /\ pc \in DispatchPCs
        BY ZenonT(60), <1>5, <1>7, <1>8
    <2>4. g = [[f EXCEPT !.bits = f.bits \ {s}] EXCEPT
                    !.sig = s, !.saved = m, !.any = TRUE, !.no_restart = b, !.pc = pc]
        BY ZenonT(60), <1>6
    <2> HIDE DEF f, m
    <2>5. InHandler(f, s, m, b, pc, g)
        BY ZenonT(60), <2>2, <2>3, <2>4, HandlerFrame
    <2> QED
        BY ZenonT(60), <2>5 DEF f, m, InHandler
<1>10. Sig!Top.sig = 0 /\ __sig_blocked_mask = Sig!Top.blocked
    BY Zenon, <1>4, TopMask
<1>11. SigTypes'
    <2>1. s_stack' \in Seq(Frames)
        BY ZenonT(60), <1>1, <1>4, <1>9, MovedTypes
    <2>2. __sig_handlers' \in [Sigs -> Actions]
        BY Zenon, <1>2, <1>4, <1>5 DEF SigTypes, Actions
    <2>3. __sig_blocked_mask' \in SUBSET Sigs
        BY Zenon, <1>2, <1>4, <1>5 DEF SigTypes
    <2>4. s_owed' \in SUBSET Sigs
        BY Zenon, <1>2, <1>4 DEF SigTypes
    <2> QED
        BY ZenonT(60), <1>2, <1>4, <2>1, <2>2, <2>3, <2>4 DEF SigTypes
<1>12. AgreeOK(s_stack, __sig_handlers, s_procmgr) => TopAgrees(g, __sig_handlers', s_procmgr')
    <2> HAVE AgreeOK(s_stack, __sig_handlers, s_procmgr)
    <2>1. TopAgrees(Sig!Top, __sig_handlers, s_procmgr)
        BY ZenonT(60), <1>4, TopAgree
    <2>2. __sig_handlers = s_procmgr
        BY Zenon, <1>4, <2>1 DEF TopAgrees
    <2> QED
        BY Zenon, <1>2, <1>7, <1>9, <2>2 DEF TopAgrees
<1>13. /\ g.pc = "loop" <=> g.sig = 0
       /\ g.sig # 0 => g.saved = Sig!Top.blocked /\ g.sig \notin Sig!Top.blocked
    BY Zenon, <1>1, <1>5, <1>7, <1>9, <1>10
<1>14. __sig_blocked_mask' = IF g.sig = 0 THEN Sig!Top.blocked ELSE Sig!Top.blocked \cup (__sig_sa_mask[g.sig] \cup {g.sig})
    BY Zenon, <1>2, <1>5, <1>9, <1>10
<1>15. s_owed' \subseteq s_owed /\ \A x \in s_owed' : x \in Sig!Top.bits \cup Sig!Top.repost => x \in g.bits \cup g.repost
    BY Zenon, <1>2, <1>9
<1> QED
    BY ZenonT(60), <1>1, <1>2, <1>3, <1>4, <1>9, <1>11, <1>12, <1>13, <1>14, <1>15, MovedOn


LEMMA ResetKeeps ==
    ASSUME SigInv, Sig!ResetAnswered
    PROVE  SigInv'
<1> DEFINE g == [Sig!Top EXCEPT !.pc = "handler"]
<1>1. s_stack # << >> /\ Sig!Top.pc = "reset" /\ Sig!SetTop(g)
    BY Zenon DEF Sig!ResetAnswered
<1>2. /\ __sig_sa_mask' = __sig_sa_mask /\ s_own_mask' = s_own_mask /\ __sig_blocked_mask' = __sig_blocked_mask
      /\ __sig_handlers' = __sig_handlers /\ s_procmgr' = [s_procmgr EXCEPT ![Sig!Top.sig] = "DFL"]
      /\ s_pending' = s_pending /\ s_owed' = s_owed
    BY Zenon DEF Sig!ResetAnswered, Sig!fixed
<1>3. s_broken_off' = s_broken_off
    BY ZenonT(60) DEF Sig!ResetAnswered
<1>4. SigTypes /\ Sig!Top \in DispatchFrames /\ Sig!Top.pc \in DispatchPCs
    BY Zenon, <1>1, TopShape DEF SigInv, DispatchPCs
<1>5. /\ g \in DispatchFrames /\ g.pc = "handler" /\ g.sig = Sig!Top.sig /\ g.blocked = Sig!Top.blocked /\ g.saved = Sig!Top.saved
      /\ g.bits = Sig!Top.bits /\ g.repost = Sig!Top.repost
    BY ZenonT(60), <1>4, ResetFrame
<1> HIDE DEF g
<1>6. /\ Sig!Top.sig # 0 /\ Sig!Top.saved = Sig!Top.blocked /\ Sig!Top.sig \notin Sig!Top.blocked
      /\ __sig_blocked_mask = Sig!Top.blocked \cup (__sig_sa_mask[Sig!Top.sig] \cup {Sig!Top.sig})
    BY Zenon, <1>1, <1>4, TopMask
<1>7. SigTypes'
    <2>1. s_stack' \in Seq(Frames)
        BY ZenonT(60), <1>1, <1>4, <1>5, MovedTypes
    <2>2. s_procmgr' \in [Sigs -> Actions]
        BY ZenonT(60), <1>2, <1>4 DEF SigTypes, Actions
    <2> QED
        BY ZenonT(60), <1>2, <1>4, <2>1, <2>2 DEF SigTypes
<1>8. AgreeOK(s_stack, __sig_handlers, s_procmgr) => TopAgrees(g, __sig_handlers', s_procmgr')
    <2> HAVE AgreeOK(s_stack, __sig_handlers, s_procmgr)
    <2>1. TopAgrees(Sig!Top, __sig_handlers, s_procmgr)
        BY ZenonT(60), <1>1, TopAgree
    <2> QED
        BY ZenonT(60), <1>1, <1>2, <1>5, <2>1 DEF TopAgrees
<1>9. /\ g.pc = "loop" <=> g.sig = 0
      /\ g.sig # 0 => g.saved = Sig!Top.blocked /\ g.sig \notin Sig!Top.blocked
      /\ __sig_blocked_mask' = IF g.sig = 0 THEN Sig!Top.blocked ELSE Sig!Top.blocked \cup (__sig_sa_mask[g.sig] \cup {g.sig})
      /\ s_owed' \subseteq s_owed /\ \A x \in s_owed' : x \in Sig!Top.bits \cup Sig!Top.repost => x \in g.bits \cup g.repost
    BY Zenon, <1>2, <1>5, <1>6
<1> QED
    BY ZenonT(60), <1>1, <1>2, <1>3, <1>4, <1>5, <1>7, <1>8, <1>9, MovedOn

LEMMA ReturnKeeps ==
    ASSUME SigInv, Sig!HandlerReturns
    PROVE  SigInv'
<1> DEFINE g == [Sig!Top EXCEPT !.pc = "loop", !.sig = 0]
<1>1. s_stack # << >> /\ Sig!Top.pc = "handler" /\ Sig!SetTop(g)
    BY Zenon DEF Sig!HandlerReturns
<1>2. /\ __sig_sa_mask' = __sig_sa_mask /\ s_own_mask' = s_own_mask /\ __sig_blocked_mask' = Sig!Top.saved
      /\ __sig_handlers' = __sig_handlers /\ s_procmgr' = s_procmgr /\ s_pending' = s_pending /\ s_owed' = s_owed
    BY Zenon DEF Sig!HandlerReturns, Sig!fixed
<1>3. s_broken_off' = s_broken_off
    BY ZenonT(60) DEF Sig!HandlerReturns
<1>4. SigTypes /\ Sig!Top \in DispatchFrames /\ Sig!Top.pc \in DispatchPCs
    BY Zenon, <1>1, TopShape DEF SigInv, DispatchPCs
<1>5. /\ g \in DispatchFrames /\ g.pc = "loop" /\ g.sig = 0 /\ g.blocked = Sig!Top.blocked /\ g.saved = Sig!Top.saved
      /\ g.bits = Sig!Top.bits /\ g.repost = Sig!Top.repost
    BY ZenonT(60), <1>4, ReturnFrame
<1> HIDE DEF g
<1>6. Sig!Top.sig # 0 /\ Sig!Top.saved = Sig!Top.blocked
    BY ZenonT(60), <1>1, <1>4, TopMask
<1>7. SigTypes'
    <2>1. s_stack' \in Seq(Frames)
        BY ZenonT(60), <1>1, <1>4, <1>5, MovedTypes
    <2>2. __sig_blocked_mask' \in SUBSET Sigs
        BY Zenon, <1>2, <1>4 DEF DispatchFrames
    <2> QED
        BY ZenonT(60), <1>2, <1>4, <2>1, <2>2 DEF SigTypes
<1>8. AgreeOK(s_stack, __sig_handlers, s_procmgr) => TopAgrees(g, __sig_handlers', s_procmgr')
    <2> HAVE AgreeOK(s_stack, __sig_handlers, s_procmgr)
    <2>1. TopAgrees(Sig!Top, __sig_handlers, s_procmgr)
        BY ZenonT(60), <1>1, TopAgree
    <2> QED
        BY ZenonT(60), <1>1, <1>2, <1>5, <2>1 DEF TopAgrees
<1>9. /\ g.pc = "loop" <=> g.sig = 0
      /\ g.sig # 0 => g.saved = Sig!Top.blocked /\ g.sig \notin Sig!Top.blocked
      /\ __sig_blocked_mask' = IF g.sig = 0 THEN Sig!Top.blocked ELSE Sig!Top.blocked \cup (__sig_sa_mask[g.sig] \cup {g.sig})
      /\ s_owed' \subseteq s_owed /\ \A x \in s_owed' : x \in Sig!Top.bits \cup Sig!Top.repost => x \in g.bits \cup g.repost
    BY Zenon, <1>2, <1>5, <1>6
<1> QED
    BY ZenonT(60), <1>1, <1>2, <1>3, <1>4, <1>5, <1>7, <1>8, <1>9, MovedOn

LEMMA EndsKeeps ==
    ASSUME SigInv, Sig!DispatchEnds
    PROVE  SigInv'
<1>1. /\ s_stack # << >> /\ s_stack' = Sig!Below /\ Sig!Top.pc = "loop" /\ Sig!Top.bits = {}
      /\ s_pending' = s_pending \cup Sig!Top.repost
      /\ __sig_sa_mask' = __sig_sa_mask /\ s_own_mask' = s_own_mask /\ __sig_blocked_mask' = __sig_blocked_mask
      /\ __sig_handlers' = __sig_handlers /\ s_procmgr' = s_procmgr /\ s_owed' = s_owed
    BY Zenon DEF Sig!DispatchEnds, Sig!Looping, Sig!fixed
<1>2. s_broken_off' = s_broken_off
    BY ZenonT(60) DEF Sig!DispatchEnds
<1>3. SigTypes /\ Sig!Top \in DispatchFrames
    BY Zenon, <1>1, TopShape DEF SigInv, DispatchPCs
<1>4. SigTypes'
    <2>1. s_stack' \in Seq(Frames)
        <3>1. s_stack \in Seq(Frames) /\ s_stack # << >> /\ s_stack' = Under(s_stack)
            BY Zenon, <1>1, <1>3 DEF SigTypes, Sig!Below, Under
        <3> QED
            BY Zenon, <3>1, PopShape
    <2>2. s_pending' \in SUBSET Sigs
        BY Zenon, <1>1, <1>3 DEF SigTypes, DispatchFrames
    <2> QED
        BY ZenonT(60), <1>1, <1>3, <2>1, <2>2 DEF SigTypes
<1>5. s_broken_off = FALSE => __sig_handlers' = s_procmgr'
    <2> HAVE s_broken_off = FALSE
    <2>1. TopAgrees(Sig!Top, __sig_handlers, s_procmgr)
        BY ZenonT(60), <1>1, TopAgree DEF SigInv
    <2> QED
        BY Zenon, <1>1, <2>1 DEF TopAgrees
<1>6. Sig!Top.pc \in {"call", "interrupted", "loop"}
    BY Zenon, <1>1
<1> QED
    BY ZenonT(60), <1>1, <1>2, <1>4, <1>5, <1>6, Left

LEMMA SigcheckKeeps ==
    ASSUME SigInv, Sig!posix_sigcheck
    PROVE  SigInv'
<1>1. /\ Sig!Running /\ s_stack' = Append(s_stack, Sig!Frame("sigcheck", s_pending)) /\ s_pending' = {}
      /\ __sig_sa_mask' = __sig_sa_mask /\ s_own_mask' = s_own_mask /\ __sig_blocked_mask' = __sig_blocked_mask
      /\ __sig_handlers' = __sig_handlers /\ s_procmgr' = s_procmgr /\ s_owed' = s_owed /\ s_broken_off' = s_broken_off
    BY ZenonT(60) DEF Sig!posix_sigcheck, Sig!Deeper, Sig!fixed
<1>2. "sigcheck" \in {"sigcheck", "dispatcher"}
    OBVIOUS
<1> QED
    BY ZenonT(60), <1>1, <1>2, DispatchEntered

LEMMA SigInvariant ==
    ASSUME Sig!SignalsAssumption
    PROVE  Sig!Spec => []SigInv
<1>1. Sig!Init => SigInv
    BY Zenon, SigInit
<1>2. SigInv /\ [Sig!Next]_Sig!sigVars => SigInv'
    <2> SUFFICES ASSUME SigInv, [Sig!Next]_Sig!sigVars PROVE SigInv'
        BY Zenon
    <2>1. ASSUME NEW s \in Sigs, Sig!Raise(s) PROVE SigInv'
        BY Zenon, <2>1, RaiseKeeps
    <2>2. ASSUME NEW s \in Sigs, NEW h \in {"DFL", "IGN", "catch"}, Sig!posix_signal(s, h) PROVE SigInv'
        BY ZenonT(60), <2>2, PosixSignalKeeps DEF Actions
    <2>3. ASSUME NEW m \in SUBSET Sigs, Sig!SetMask(m) PROVE SigInv'
        BY ZenonT(60), <2>3, SetMaskKeeps
    <2>4. CASE Sig!SigactionAnswered \/ Sig!SigactionFails
        BY ZenonT(60), <2>4, SigactionKeeps
    <2>5. CASE Sig!posix_sigcheck
        BY ZenonT(60), <2>5, SigcheckKeeps
    <2>6. ASSUME NEW served \in BOOLEAN, Sig!Interrupt(served) PROVE SigInv'
        BY ZenonT(60), <2>6, InterruptKeeps
    <2>7. ASSUME NEW s \in Sigs, Sig!DispatchBlocked(s) PROVE SigInv'
        BY ZenonT(60), <2>7, BlockedKeeps
    <2>8. ASSUME NEW s \in Sigs, Sig!DispatchNoHandler(s) PROVE SigInv'
        BY ZenonT(60), <2>8, NoHandlerKeeps
    <2>9. ASSUME NEW s \in Sigs, Sig!DispatchHandler(s) PROVE SigInv'
        BY ZenonT(60), <2>9, HandlerKeeps
    <2>10. CASE Sig!ResetAnswered
        BY ZenonT(60), <2>10, ResetKeeps
    <2>11. CASE Sig!HandlerReturns
        BY ZenonT(60), <2>11, ReturnKeeps
    <2>12. CASE Sig!DispatchEnds
        BY ZenonT(60), <2>12, EndsKeeps
    <2>13. CASE UNCHANGED Sig!sigVars
        <3>1. /\ s_stack' = s_stack /\ __sig_sa_mask' = __sig_sa_mask /\ s_own_mask' = s_own_mask
              /\ __sig_blocked_mask' = __sig_blocked_mask /\ __sig_handlers' = __sig_handlers
              /\ s_procmgr' = s_procmgr /\ s_pending' = s_pending /\ s_owed' = s_owed /\ s_broken_off' = s_broken_off
            BY ZenonT(60), <2>13 DEF Sig!sigVars
        <3>2. SigTypes'
            BY ZenonT(60), <3>1 DEF SigInv, SigTypes
        <3> QED
            BY ZenonT(60), <3>1, <3>2 DEF SigInv
    <2> QED
        BY ZenonT(60), <2>1, <2>2, <2>3, <2>4, <2>5, <2>6, <2>7, <2>8, <2>9, <2>10, <2>11, <2>12, <2>13 DEF Sig!Next
<1> QED
    BY <1>1, <1>2, PTL DEF Sig!Spec

(* A signal the notification accepted is pending or in a running dispatch *)
(* until it is acted upon, however dispatches nest; the mask is the       *)
(* program's with those of the running handlers, none of which runs       *)
(* twice; and the process manager's dispositions are the local ones       *)
(* between calls, unless a signal broke off a PM_SIGACTION: NoSignalLost, *)
(* MaskMatchesHandlers and DispositionsAgree for every set of signals.    *)
THEOREM SignalsKept ==
    ASSUME Sig!SignalsAssumption
    PROVE  Sig!Spec => [](Sig!NoSignalLost /\ Sig!MaskMatchesHandlers /\ Sig!DispositionsAgree)
<1>1. SigInv => Sig!NoSignalLost
    <2> SUFFICES ASSUME SigInv, NEW x \in s_owed, x \notin s_pending
                 PROVE  \E i \in Sig!Dispatches : x \in s_stack[i].bits \cup s_stack[i].repost
        BY ZenonT(60) DEF Sig!NoSignalLost
    <2>1. PICK i \in 1 .. Len(s_stack) : Holds(s_stack[i], x)
        BY ZenonT(60) DEF SigInv, LostOK
    <2>2. i \in DOMAIN s_stack
        BY DEF SigInv, SigTypes
    <2> QED
        BY ZenonT(60), <2>1, <2>2 DEF Holds, Sig!Dispatches, DispatchPCs
<1>2. SigInv => Sig!MaskMatchesHandlers
    <2> SUFFICES ASSUME SigInv PROVE Sig!MaskMatchesHandlers
        BY Zenon
    <2> DEFINE n == Len(s_stack)
               active == {i \in Sig!Dispatches : s_stack[i].sig # 0}
               Mine(i) == __sig_sa_mask[s_stack[i].sig] \cup {s_stack[i].sig}
    <2>1. n \in Nat /\ DOMAIN s_stack = 1 .. n
        BY DEF SigInv, SigTypes
    <2>2. \A i \in 1 .. n : i \in active <=> s_stack[i].pc \in DispatchPCs /\ s_stack[i].sig # 0
        BY ZenonT(60), <2>1 DEF Sig!Dispatches, DispatchPCs
    <2>3. active \subseteq 1 .. n
        BY ZenonT(60), <2>1 DEF Sig!Dispatches
    <2>4. \A i \in 1 .. n : Adds(s_stack, __sig_sa_mask, i) = IF i \in active THEN Mine(i) ELSE {}
        BY ZenonT(60), <2>2 DEF Adds
    <2> HIDE DEF active, Mine
    <2>5. UNION {Adds(s_stack, __sig_sa_mask, i) : i \in 1 .. n} = UNION {Mine(i) : i \in active}
        BY ZenonT(60), <2>3, <2>4
    <2>6. __sig_blocked_mask = s_own_mask \cup UNION {Mine(i) : i \in active}
        <3>1. 1 .. ((n + 1) - 1) = 1 .. n
            BY <2>1
        <3> QED
            BY ZenonT(60), <2>5, <3>1 DEF SigInv, MaskOK, Upto
    <2>7. \A i, j \in active : i < j => s_stack[i].sig # s_stack[j].sig
        <3> SUFFICES ASSUME NEW i \in active, NEW j \in active, i < j, s_stack[i].sig = s_stack[j].sig
                     PROVE  FALSE
            BY ZenonT(60)
        <3>1. i \in 1 .. n /\ j \in 1 .. n /\ i \in 1 .. (j - 1)
            BY <2>1, <2>3
        <3>2. s_stack[j].sig \notin Upto(s_stack, __sig_sa_mask, s_own_mask, j)
            BY ZenonT(60), <2>2, <3>1 DEF SigInv, MaskOK, FrameMask
        <3>3. s_stack[i].sig \in Adds(s_stack, __sig_sa_mask, i)
            BY ZenonT(60), <2>4, <3>1 DEF Mine
        <3> QED
            BY ZenonT(60), <3>1, <3>2, <3>3 DEF Upto
    <2>8. \A i, j \in active : s_stack[i].sig = s_stack[j].sig => i = j
        <3> TAKE i \in active, j \in active
        <3>1. i \in Nat /\ j \in Nat
            BY <2>1, <2>3
        <3>2. i < j \/ j < i \/ i = j
            BY <3>1
        <3> QED
            BY ZenonT(60), <2>7, <3>2
    <2>9. Sig!Looping => Sig!Top.blocked = __sig_blocked_mask
        BY Zenon, TopMask DEF Sig!Looping, DispatchPCs
    <2> QED
        BY ZenonT(60), <2>6, <2>8, <2>9 DEF Sig!MaskMatchesHandlers, active, Mine
<1>3. SigInv => Sig!DispositionsAgree
    <2> SUFFICES ASSUME SigInv, ~s_broken_off, s_stack = << >> PROVE __sig_handlers = s_procmgr
        BY ZenonT(60) DEF Sig!DispositionsAgree, Sig!Agree
    <2>1. AgreeOK(s_stack, __sig_handlers, s_procmgr)
        BY ZenonT(60) DEF SigInv
    <2>2. Len(s_stack) = 0
        OBVIOUS
    <2> QED
        BY ZenonT(60), <2>1, <2>2 DEF AgreeOK
<1> QED
    BY <1>1, <1>2, <1>3, SigInvariant, PTL
=============================================================================
