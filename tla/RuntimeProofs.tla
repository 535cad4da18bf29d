----------------------------- MODULE RuntimeProofs ---------------------------
(***************************************************************************)
(* What the run of MCRuntime checks of eight of its parts on a small       *)
(* instance, proved for every value of the constants.  A behaviour that    *)
(* exercises a part is a behaviour of that part, because the steps of the  *)
(* others leave its variables alone and the selector never changes; so the *)
(* theorems about the parts carry over.                                    *)
(***************************************************************************)
EXTENDS MCRuntime, CallProofs, ProcessProofs

(* The layouts: MCRuntime runs it as its specification does, or not at all. *)
LEMMA VmRuns == Spec => (Is("VmLayout") => Vm!Spec) /\ (~Is("VmLayout") => []~Is("VmLayout"))
<1>1. Init /\ Is("VmLayout") => Vm!Init
    BY ZenonT(60) DEF Init, Is
<1>2. [Next]_vars => [Vm!Next]_Vm!layoutVars
    <2>1. UNCHANGED VmVars => UNCHANGED Vm!layoutVars
        BY DEF VmVars, Vm!layoutVars
    <2>2. [Next]_vars => Vm!Next \/ UNCHANGED VmVars
        BY ZenonT(60) DEF Next, vars, PoolOnly, PendingOnly, ThreadOnly, VmOnly, TlsOnly, ImageOnly, LinkOnly, PeOnly,
            FileOnly, SigOnly, CallOnly, ArchiveOnly, CapOnly, DnsOnly
    <2> QED
        BY ZenonT(60), <2>1, <2>2
<1>3. [Next]_vars => component' = component
    BY ZenonT(60) DEF Next, vars, PoolOnly, PendingOnly, ThreadOnly, VmOnly, TlsOnly, ImageOnly, LinkOnly, PeOnly,
        FileOnly, SigOnly, CallOnly, ArchiveOnly, CapOnly, DnsOnly
<1>4. ~Is("VmLayout") /\ [Next]_vars => ~Is("VmLayout")'
    BY ZenonT(60), <1>3 DEF Is
<1> QED
    BY <1>1, <1>2, <1>4, PTL DEF Spec, Vm!Spec

(* The dynamic linker: MCRuntime runs it as its specification does, or not at all. *)
LEMMA LinkRuns == Spec => (Is("Rtld") => Link!Spec) /\ (~Is("Rtld") => []~Is("Rtld"))
<1>1. Init /\ Is("Rtld") => Link!Init
    BY ZenonT(60) DEF Init, Is
<1>2. [Next]_vars => [Link!Next]_Link!rtldVars
    <2>1. UNCHANGED LinkVars => UNCHANGED Link!rtldVars
        BY DEF LinkVars, Link!rtldVars
    <2>2. [Next]_vars => Link!Next \/ UNCHANGED LinkVars
        BY ZenonT(60) DEF Next, vars, PoolOnly, PendingOnly, ThreadOnly, VmOnly, TlsOnly, ImageOnly, LinkOnly, PeOnly,
            FileOnly, SigOnly, CallOnly, ArchiveOnly, CapOnly, DnsOnly
    <2> QED
        BY ZenonT(60), <2>1, <2>2
<1>3. [Next]_vars => component' = component
    BY ZenonT(60) DEF Next, vars, PoolOnly, PendingOnly, ThreadOnly, VmOnly, TlsOnly, ImageOnly, LinkOnly, PeOnly,
        FileOnly, SigOnly, CallOnly, ArchiveOnly, CapOnly, DnsOnly
<1>4. ~Is("Rtld") /\ [Next]_vars => ~Is("Rtld")'
    BY ZenonT(60), <1>3 DEF Is
<1> QED
    BY <1>1, <1>2, <1>4, PTL DEF Spec, Link!Spec

(* The capability table: MCRuntime runs it as its specification does, or not at all. *)
LEMMA CapRuns == Spec => (Is("CapTable") => Cap!Spec) /\ (~Is("CapTable") => []~Is("CapTable"))
<1>1. Init /\ Is("CapTable") => Cap!Init
    BY ZenonT(60) DEF Init, Is
<1>2. [Next]_vars => [Cap!Next]_Cap!capVars
    <2>1. UNCHANGED CapVars => UNCHANGED Cap!capVars
        BY DEF CapVars, Cap!capVars
    <2>2. [Next]_vars => Cap!Next \/ UNCHANGED CapVars
        BY ZenonT(60) DEF Next, vars, PoolOnly, PendingOnly, ThreadOnly, VmOnly, TlsOnly, ImageOnly, LinkOnly, PeOnly,
            FileOnly, SigOnly, CallOnly, ArchiveOnly, CapOnly, DnsOnly
    <2> QED
        BY ZenonT(60), <2>1, <2>2
<1>3. [Next]_vars => component' = component
    BY ZenonT(60) DEF Next, vars, PoolOnly, PendingOnly, ThreadOnly, VmOnly, TlsOnly, ImageOnly, LinkOnly, PeOnly,
        FileOnly, SigOnly, CallOnly, ArchiveOnly, CapOnly, DnsOnly
<1>4. ~Is("CapTable") /\ [Next]_vars => ~Is("CapTable")'
    BY ZenonT(60), <1>3 DEF Is
<1> QED
    BY <1>1, <1>2, <1>4, PTL DEF Spec, Cap!Spec

(* The table of deferred requests: MCRuntime runs it as its specification does, or not at all. *)
LEMMA PendingRuns == Spec => (Is("PendingTable") => Pending!Spec) /\ (~Is("PendingTable") => []~Is("PendingTable"))
<1>1. Init /\ Is("PendingTable") => Pending!Init
    BY ZenonT(60) DEF Init, Is
<1>2. [Next]_vars => [Pending!Next]_Pending!pendingVars
    <2>1. UNCHANGED PendingVars => UNCHANGED Pending!pendingVars
        BY DEF PendingVars, Pending!pendingVars
    <2>2. [Next]_vars => Pending!Next \/ UNCHANGED PendingVars
        BY ZenonT(60) DEF Next, vars, PoolOnly, PendingOnly, ThreadOnly, VmOnly, TlsOnly, ImageOnly, LinkOnly, PeOnly,
            FileOnly, SigOnly, CallOnly, ArchiveOnly, CapOnly, DnsOnly
    <2> QED
        BY ZenonT(60), <2>1, <2>2
<1>3. [Next]_vars => component' = component
    BY ZenonT(60) DEF Next, vars, PoolOnly, PendingOnly, ThreadOnly, VmOnly, TlsOnly, ImageOnly, LinkOnly, PeOnly,
        FileOnly, SigOnly, CallOnly, ArchiveOnly, CapOnly, DnsOnly
<1>4. ~Is("PendingTable") /\ [Next]_vars => ~Is("PendingTable")'
    BY ZenonT(60), <1>3 DEF Is
<1> QED
    BY <1>1, <1>2, <1>4, PTL DEF Spec, Pending!Spec

(* Bulk file I/O: MCRuntime runs it as its specification does, or not at all. *)
LEMMA FileRuns == Spec => (Is("FileIO") => File!Spec) /\ (~Is("FileIO") => []~Is("FileIO"))
<1>1. Init /\ Is("FileIO") => File!Init
    BY ZenonT(60) DEF Init, Is
<1>2. [Next]_vars => [File!Next]_File!fileVars
    <2>1. UNCHANGED FileVars => UNCHANGED File!fileVars
        BY DEF FileVars, File!fileVars, File!setupVars, File!callVars
    <2>2. [Next]_vars => File!Next \/ UNCHANGED FileVars
        BY ZenonT(60) DEF Next, vars, PoolOnly, PendingOnly, ThreadOnly, VmOnly, TlsOnly, ImageOnly, LinkOnly, PeOnly,
            FileOnly, SigOnly, CallOnly, ArchiveOnly, CapOnly, DnsOnly
    <2> QED
        BY ZenonT(60), <2>1, <2>2
<1>3. [Next]_vars => component' = component
    BY ZenonT(60) DEF Next, vars, PoolOnly, PendingOnly, ThreadOnly, VmOnly, TlsOnly, ImageOnly, LinkOnly, PeOnly,
        FileOnly, SigOnly, CallOnly, ArchiveOnly, CapOnly, DnsOnly
<1>4. ~Is("FileIO") /\ [Next]_vars => ~Is("FileIO")'
    BY ZenonT(60), <1>3 DEF Is
<1> QED
    BY <1>1, <1>2, <1>4, PTL DEF Spec, File!Spec

(* The signal machinery: MCRuntime runs it as its specification does, or not at all. *)
LEMMA SigRuns == Spec => (Is("Signals") => Sig!Spec) /\ (~Is("Signals") => []~Is("Signals"))
<1>1. Init /\ Is("Signals") => Sig!Init
    BY ZenonT(60) DEF Init, Is
<1>2. [Next]_vars => [Sig!Next]_Sig!sigVars
    <2>1. UNCHANGED SigVars => UNCHANGED Sig!sigVars
        BY DEF SigVars, Sig!sigVars
    <2>2. [Next]_vars => Sig!Next \/ UNCHANGED SigVars
        BY ZenonT(60) DEF Next, vars, PoolOnly, PendingOnly, ThreadOnly, VmOnly, TlsOnly, ImageOnly, LinkOnly, PeOnly,
            FileOnly, SigOnly, CallOnly, ArchiveOnly, CapOnly, DnsOnly
    <2> QED
        BY ZenonT(60), <2>1, <2>2
<1>3. [Next]_vars => component' = component
    BY ZenonT(60) DEF Next, vars, PoolOnly, PendingOnly, ThreadOnly, VmOnly, TlsOnly, ImageOnly, LinkOnly, PeOnly,
        FileOnly, SigOnly, CallOnly, ArchiveOnly, CapOnly, DnsOnly
<1>4. ~Is("Signals") /\ [Next]_vars => ~Is("Signals")'
    BY ZenonT(60), <1>3 DEF Is
<1> QED
    BY <1>1, <1>2, <1>4, PTL DEF Spec, Sig!Spec

(* The POSIX wrappers: MCRuntime runs it as its specification does, or not at all. *)
LEMMA CallRuns == Spec => (Is("PosixCalls") => Call!Spec) /\ (~Is("PosixCalls") => []~Is("PosixCalls"))
<1>1. Init /\ Is("PosixCalls") => Call!Init
    BY ZenonT(60) DEF Init, Is
<1>2. [Next]_vars => [Call!Next]_Call!callVars
    <2>1. UNCHANGED CallVars => UNCHANGED Call!callVars
        BY DEF CallVars, Call!callVars
    <2>2. [Next]_vars => Call!Next \/ UNCHANGED CallVars
        BY ZenonT(60) DEF Next, vars, PoolOnly, PendingOnly, ThreadOnly, VmOnly, TlsOnly, ImageOnly, LinkOnly, PeOnly,
            FileOnly, SigOnly, CallOnly, ArchiveOnly, CapOnly, DnsOnly
    <2> QED
        BY ZenonT(60), <2>1, <2>2
<1>3. [Next]_vars => component' = component
    BY ZenonT(60) DEF Next, vars, PoolOnly, PendingOnly, ThreadOnly, VmOnly, TlsOnly, ImageOnly, LinkOnly, PeOnly,
        FileOnly, SigOnly, CallOnly, ArchiveOnly, CapOnly, DnsOnly
<1>4. ~Is("PosixCalls") /\ [Next]_vars => ~Is("PosixCalls")'
    BY ZenonT(60), <1>3 DEF Is
<1> QED
    BY <1>1, <1>2, <1>4, PTL DEF Spec, Call!Spec

(* The resolver's endpoint: MCRuntime runs it as its specification does, or not at all. *)
LEMMA DnsRuns == Spec => (Is("Dns") => Dns!Spec) /\ (~Is("Dns") => []~Is("Dns"))
<1>1. Init /\ Is("Dns") => Dns!Init
    BY ZenonT(60) DEF Init, Is
<1>2. [Next]_vars => [Dns!Next]_Dns!dnsVars
    <2>1. UNCHANGED DnsVars => UNCHANGED Dns!dnsVars
        BY DEF DnsVars, Dns!dnsVars
    <2>2. [Next]_vars => Dns!Next \/ UNCHANGED DnsVars
        BY ZenonT(60) DEF Next, vars, PoolOnly, PendingOnly, ThreadOnly, VmOnly, TlsOnly, ImageOnly, LinkOnly, PeOnly,
            FileOnly, SigOnly, CallOnly, ArchiveOnly, CapOnly, DnsOnly
    <2> QED
        BY ZenonT(60), <2>1, <2>2
<1>3. [Next]_vars => component' = component
    BY ZenonT(60) DEF Next, vars, PoolOnly, PendingOnly, ThreadOnly, VmOnly, TlsOnly, ImageOnly, LinkOnly, PeOnly,
        FileOnly, SigOnly, CallOnly, ArchiveOnly, CapOnly, DnsOnly
<1>4. ~Is("Dns") /\ [Next]_vars => ~Is("Dns")'
    BY ZenonT(60), <1>3 DEF Is
<1> QED
    BY <1>1, <1>2, <1>4, PTL DEF Spec, Dns!Spec

-----------------------------------------------------------------------------
(* For every size of image and initrd, every slide and every CNode size:   *)
(* the regions substrate/layout.rs plans for a child do not overlap, heap  *)
(* and mmap lie above them all, and the slot ranges are apart.             *)
THEOREM LayoutsSound == Spec => []LayoutSound
<1>1. Vm!VmLayoutAssumption
    BY RuntimeAssumption DEF RuntimeAssumption
<1>2. Vm!Spec => [](Vm!RegionsDisjoint /\ Vm!HeapAboveAll /\ Vm!SlotRangesDisjoint)
    BY <1>1, LayoutDisjoint, LayoutHeapAbove, LayoutSlotsApart, PTL
<1>3. Vm!RegionsDisjoint /\ Vm!HeapAboveAll /\ Vm!SlotRangesDisjoint => (Is("VmLayout") => LayoutSound)
    BY ZenonT(60) DEF LayoutSound
<1>4. ~Is("VmLayout") => LayoutSound
    BY ZenonT(60) DEF LayoutSound
<1> QED
    BY <1>2, <1>3, <1>4, VmRuns, PTL

(* For every DT_NEEDED graph, table size and failing allocation: rtld_main *)
(* loads the closure and nothing else, each object once and apart from the *)
(* others, binds a symbol everywhere alike and before the constructors     *)
(* run, and leaves its frames alone afterwards.                            *)
THEOREM LinkerSound == Spec => []LinkSound
<1>1. Link!RtldAssumption
    BY RuntimeAssumption DEF RuntimeAssumption
<1>2. Link!Spec => [](Link!ClosureLoaded /\ Link!ImagesDisjoint /\ Link!OneBinding /\ Link!FramesNotReused)
    BY <1>1, ProgramLinked
<1>3. Link!ClosureLoaded /\ Link!ImagesDisjoint /\ Link!OneBinding /\ Link!FramesNotReused => (Is("Rtld") => LinkSound)
    BY ZenonT(60) DEF LinkSound
<1>4. ~Is("Rtld") => LinkSound
    BY ZenonT(60) DEF LinkSound
<1> QED
    BY <1>2, <1>3, <1>4, LinkRuns, PTL

(* For every table size and sequence of pushes: a role the spawner pushed  *)
(* once reaches its symbol in the child, and lookup finds what the         *)
(* installation stored.                                                    *)
THEOREM CapTableSound == Spec => []CapabilitiesArrive
<1>1. Cap!CapTableAssumption
    BY RuntimeAssumption DEF RuntimeAssumption
<1>2. Cap!Spec => [](Cap!RolesArrive /\ Cap!ReadersAgree)
    BY <1>1, CapabilitiesReachChild
<1>3. Cap!RolesArrive /\ Cap!ReadersAgree => (Is("CapTable") => CapabilitiesArrive)
    BY ZenonT(60) DEF CapabilitiesArrive
<1>4. ~Is("CapTable") => CapabilitiesArrive
    BY ZenonT(60) DEF CapabilitiesArrive
<1> QED
    BY <1>2, <1>3, <1>4, CapRuns, PTL

(* For every capacity and every width of the id counter: PendingTable      *)
(* hands a deferred request back exactly once, a late callback finds its   *)
(* own request or none, and nearest_deadline is the earliest pending one.  *)
THEOREM PendingTableSound == Spec => []PendingSound
<1>1. Pending!PendingAssumption
    BY RuntimeAssumption DEF RuntimeAssumption
<1>2. Pending!Spec => [](Pending!HandedBackOnce /\ Pending!IdsUnambiguous /\ Pending!NearestIsEarliest)
    BY <1>1, PendingHandsBackOnce, PendingIdsUnambiguous, PendingNearestIsEarliest, PTL
<1>3. Pending!HandedBackOnce /\ Pending!IdsUnambiguous /\ Pending!NearestIsEarliest => (Is("PendingTable") => PendingSound)
    BY ZenonT(60) DEF PendingSound
<1>4. ~Is("PendingTable") => PendingSound
    BY ZenonT(60) DEF PendingSound
<1> QED
    BY <1>2, <1>3, <1>4, PendingRuns, PTL

(* For every number of threads, calls and failures: a set-up of the bulk   *)
(* region that was not interrupted publishes it mapped, and mapped once,   *)
(* and nobody sleeps on a set-up that is over.                             *)
THEOREM BulkSetupIsSound == Spec => []BulkSetupSound
<1>1. File!Spec => [](File!SetupSound /\ File!NoneLeftAsleep)
    BY SetupPublishesMapped, SetupWakesAll, PTL
<1>2. File!SetupSound /\ File!NoneLeftAsleep => (Is("FileIO") => BulkSetupSound)
    BY ZenonT(60) DEF BulkSetupSound
<1>3. ~Is("FileIO") => BulkSetupSound
    BY ZenonT(60) DEF BulkSetupSound
<1> QED
    BY <1>1, <1>2, <1>3, FileRuns, PTL

(* For every set of signals and depth of nesting: no accepted signal is    *)
(* lost, the mask is the program's with that of the running handlers, and  *)
(* local and procmgr dispositions agree between calls.                     *)
THEOREM SignalsAreSound == Spec => []SignalsSound
<1>1. Sig!SignalsAssumption
    BY RuntimeAssumption DEF RuntimeAssumption
<1>2. Sig!Spec => [](Sig!NoSignalLost /\ Sig!MaskMatchesHandlers /\ Sig!DispositionsAgree)
    BY <1>1, SignalsKept
<1>3. Sig!NoSignalLost /\ Sig!MaskMatchesHandlers /\ Sig!DispositionsAgree => (Is("Signals") => SignalsSound)
    BY ZenonT(60) DEF SignalsSound
<1>4. ~Is("Signals") => SignalsSound
    BY ZenonT(60) DEF SignalsSound
<1> QED
    BY <1>2, <1>3, <1>4, SigRuns, PTL

(* For any number of interruptions: the result of a POSIX wrapper tells    *)
(* what became of its request in the server.                               *)
THEOREM ResultsTellEffects == Spec => []ResultTellsEffect
<1>1. Call!PosixCallsAssumption
    BY RuntimeAssumption DEF RuntimeAssumption
<1>2. Call!Spec => [](Call!ResultTellsEffect /\ Call!TypeOK)
    BY <1>1, CallsTellTheirEffect
<1>3. Call!ResultTellsEffect /\ Call!TypeOK => (Is("PosixCalls") => ResultTellsEffect)
    BY ZenonT(60) DEF ResultTellsEffect
<1>4. ~Is("PosixCalls") => ResultTellsEffect
    BY ZenonT(60) DEF ResultTellsEffect
<1> QED
    BY <1>2, <1>3, <1>4, CallRuns, PTL

(* For any number of threads and slots: while no two of them looked the    *)
(* server up at once, the endpoint the resolver cached stays usable.       *)
THEOREM ResolverSound == Spec => []CachedEndpointUsable
<1>1. Dns!DnsAssumption
    BY RuntimeAssumption DEF RuntimeAssumption
<1>2. Dns!Spec => [](Dns!CachedEndpointUsable /\ Dns!TypeOK)
    BY <1>1, DnsCacheUsable
<1>3. Dns!CachedEndpointUsable /\ Dns!TypeOK => (Is("Dns") => CachedEndpointUsable)
    BY ZenonT(60) DEF CachedEndpointUsable
<1>4. ~Is("Dns") => CachedEndpointUsable
    BY ZenonT(60) DEF CachedEndpointUsable
<1> QED
    BY <1>2, <1>3, <1>4, DnsRuns, PTL
=============================================================================
