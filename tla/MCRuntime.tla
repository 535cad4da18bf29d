----------------------------- MODULE MCRuntime -------------------------------
(***************************************************************************)
(* One model for the parts of the runtime above the substrate's primitives *)
(* and for the start-up code: workers, threads, signals, file I/O, calls,  *)
(* loaders and linkers, layouts, tables.  They share no state; a behaviour *)
(* exercises one of them (component), so the states explored are the sum   *)
(* of those of the instances.                                              *)
(***************************************************************************)
EXTENDS ThreadSystem, CallSystem, ProcessSystem, LoadSystem, FiniteSetsExt, TLC

CONSTANTS Components  \* the parts this run exercises

(* PT_TLS segments: absent, tiny, and nearly the main thread's whole area. *)
MCTlsModules == [memsz : {0, 1, 700, 3780}, align : {0, 8, 64, 4096}]

(* Images of two or three segments that share pages, leave gaps, carry .bss *)
(* and mix permissions, for the two ELF loaders and the PE loader.          *)
SegShapes == [gap : {0, 1}, filesz : {1, 3}, bss : {0, 2}, flags : {{}, {"X"}, {"W"}}]
End(s) == s.vaddr + s.memsz
Lay(laid, s) ==
    LET v == s.gap + (IF laid = << >> THEN 0 ELSE End(laid[Len(laid)])) IN
    Append(laid, [vaddr |-> v, off |-> v + 2 * Len(laid), filesz |-> s.filesz,
                  memsz |-> s.filesz + s.bss, flags |-> s.flags])
LaidOut(shapes) ==
    LET laid[n \in 0 .. Len(shapes)] == IF n = 0 THEN << >> ELSE Lay(laid[n - 1], shapes[n])
    IN laid[Len(shapes)]
FileEnd(segs) == Max({segs[i].off + segs[i].filesz : i \in DOMAIN segs})
ElfImage(l, segs) ==
    [loader |-> l, segs |-> segs, headers |-> 0, data_len |-> FileEnd(segs), moved |-> TRUE,
     relocs |-> <<[offset |-> segs[Len(segs)].vaddr, addend |-> 7]>>]
PeImage(segs, mv) ==
    [loader |-> "pe_load", segs |-> segs, headers |-> 1, data_len |-> FileEnd(segs), moved |-> mv,
     relocs |-> <<[offset |-> segs[1].vaddr, addend |-> 0], [offset |-> segs[2].vaddr, addend |-> 0]>>]
Sect(v, o, f, m, fl) == [vaddr |-> v, off |-> o, filesz |-> f, memsz |-> m, flags |-> fl]
Packed == [gap : {0}, filesz : {1}, bss : {0}, flags : SUBSET {"W", "X"}]
LoaderImages ==
    {ElfImage(l, LaidOut(<<a, b>>)) : l \in {"elf_load", "load_shared_library"},
                                      a \in {s \in SegShapes : s.gap = 0}, b \in SegShapes}
    \cup {ElfImage("elf_load", LaidOut(<<a, b, c>>)) : a, b, c \in Packed}
    \cup {ElfImage("load_shared_library", <<Sect(0, 0, 2, 2, {"X"}), Sect(1, 1, 0, 0, f)>>) : f \in {{}, {"W"}}}
    \cup {PeImage(<<Sect(2, 1, r, v, {"X"}), Sect(4, 3, q, w, f)>>, mv) :
            r \in {1, 2}, v \in {0, 1, 2}, q \in {0, 2}, w \in {0, 1, 3},
            f \in {{"W"}, {"W", "X"}, {"D"}}, mv \in BOOLEAN}
    \cup {PeImage(<<Sect(1, 1, 1, 1, {"X"}), Sect(2, 2, 1, 3, {"W"})>>, mv) : mv \in BOOLEAN}

(* Programs whose libraries need each other, cycles included; d is one *)
(* library more than the linker's table holds.                         *)
NeededLists(from) == {<< >>} \cup {<<x>> : x \in from} \cup {l \in from \X from : l[1] # l[2]}
LinkedPrograms ==
    {[needed |-> ("executable" :> e @@ "a" :> a @@ "b" :> b @@ "c" :> c @@ "d" :> << >>),
      size |-> ("executable" :> 3 @@ "a" :> 2 @@ "b" :> 0 @@ "c" :> 1 @@ "d" :> 1),
      defines |-> d, weak |-> w] :
        e \in NeededLists({"a", "b", "c"}), a \in NeededLists({"b", "c"}), b \in {<< >>, <<"a">>, <<"c", "a">>},
        c \in {<< >>, <<"a">>, <<"d">>}, d \in {{}, {"executable", "b"}, {"a", "c"}}, w \in BOOLEAN}

(* Imports by name and by ordinal of a kernel32 with a missing function, *)
(* a name with a bad index and one only the Win32 server knows.          *)
HintNames == 3 :> "f" @@ 5 :> "g" @@ 7 :> "h" @@ 13 :> "s"
Kernel32Exports ==
    [base |-> 1, functions |-> <<40, 0, 42>>,
     names |-> <<[name |-> "f", index |-> 3], [name |-> "g", index |-> 2], [name |-> "h", index |-> 9]>>]
ServerExports == "f" :> 0 @@ "g" :> 44 @@ "h" :> 0 @@ "s" :> 45
PeFiles == {[dll |-> d, entries |-> <<a, b>>, alias |-> al, fixups |-> f] :
    d \in {"kernel32.dll", "other.dll"}, a \in {3, 5, 7, 13}, b \in {3, 129, 130, 128},
    al \in BOOLEAN, f \in SUBSET {1, 2}}

MCFileCalls == [op : {"read"}, count : {2, 3}] \cup [op : {"write", "pread"}, count : {2}]
             \cup [op : {"pwrite"}, count : {3}]

NameSizes == "a" :> 2 @@ "bcd" :> 4 @@ "TRAILER!!!" :> 11

VARIABLE component

-----------------------------------------------------------------------------
ASSUME RuntimeAssumption ==
    /\ Pool!WorkerPoolAssumption /\ Pending!PendingAssumption
    /\ Thread!PthreadAssumption /\ Vm!VmLayoutAssumption
    /\ Tls!TlsLayoutAssumption /\ Image!ImageLoaderAssumption
    /\ Link!RtldAssumption /\ Pe!PeRtldAssumption
    /\ File!FileIOAssumption /\ Sig!SignalsAssumption
    /\ Call!PosixCallsAssumption /\ Archive!CpioAssumption
    /\ Cap!CapTableAssumption /\ Dns!DnsAssumption

-----------------------------------------------------------------------------
(* A component the behaviour does not exercise has no state. *)
NoPool == w_desc = 0 /\ w_WORKER_SLOTS = 0 /\ w_thread = 0 /\ w_held = 0 /\ w_caps = 0 /\ w_mapped = 0 /\
          w_main = 0 /\ w_va_next = 0 /\ w_failures = 0 /\ w_app = 0
NoPending == q_entries = 0 /\ q_next_id = 0 /\ q_serials = 0 /\ q_ids = 0 /\ q_completed = 0
NoThread == p_state = 0 /\ p_generation = 0 /\ p_tls_ptr = 0 /\ p_personality_data = 0 /\ p_procmgr_tid = 0
            /\ p_tcb_cap = 0 /\ p_detached = 0 /\ p_held = 0 /\ p_NEXT_FREE_HINT = 0 /\ p_mapped
            = 0 /\ p_pc = 0 /\ p_handle = 0 /\ p_new = 0 /\ p_tid = 0 /\ p_pm = 0 /\ p_cancelled
            = 0 /\ p_disabled = 0 /\ p_issued = 0 /\ p_exits = 0 /\ p_failures = 0
NoVm == v_plan = 0 /\ v_cspace = 0
NoTls == t_arch = 0 /\ t_objects = 0 /\ t_layout = 0
NoImage == i_image = 0 /\ i_seg = 0 /\ i_page = 0 /\ i_rel = 0 /\ i_pages = 0 /\ i_recorded = 0 /\ i_result
           = 0 /\ i_ignored = 0 /\ i_failures = 0
NoLink == r_program = 0 /\ r_objects = 0 /\ r_base = 0 /\ r_lib_load_addr = 0 /\ r_processed = 0 /\ r_di =
          0 /\ r_next_frame_slot = 0 /\ r_alloc_base = 0 /\ r_relocated = 0 /\ r_constructed = 0
          /\ r_phase = 0
NoPe == e_file = 0 /\ e_delta = 0 /\ e_iat = 0 /\ e_fixed = 0 /\ e_idx = 0 /\ e_kernel32 = 0 /\
        e_protected = 0 /\ e_phase = 0
NoFile == f_cursor = 0 /\ f_shm = 0 /\ f_BULK_SHM_STATE = 0 /\ f_BULK_SHM_ADDR = 0 /\ f_vfs_mapped = 0 /\
          f_mappings = 0 /\ f_pc = 0 /\ f_call = 0 /\ f_total = 0 /\ f_buf = 0 /\ f_moved = 0 /\
          f_cut = 0 /\ f_mixed = 0 /\ f_spoiled = 0 /\ f_faults = 0
NoSig == __sig_handlers = 0 /\ __sig_blocked_mask = 0 /\ __sig_sa_mask = 0 /\ s_resethand = 0 /\
         s_restart = 0 /\ __sig_last_restart = 0 /\ s_procmgr = 0 /\ s_pending = 0 /\ s_stack =
         0 /\ s_own_mask = 0 /\ s_owed = 0 /\ s_broken_off = 0 /\ s_raised = 0 /\ s_changed = 0
         /\ s_exited = 0
NoCall == c_call = 0 /\ c_phase = 0 /\ c_object = 0 /\ c_first = 0 /\ c_late = 0 /\ c_result = 0 /\
          c_interrupts = 0
NoArchive == a_archive = 0 /\ a_archive_len = 0 /\ a_offset = 0 /\ a_listed = 0 /\ a_done = 0
NoCap == k_entries = 0 /\ k_pushed = 0 /\ k_page = 0 /\ k_symbol = 0 /\ k_phase = 0
NoDns == d_DNSSRV_EP = 0 /\ d_DNSSRV_LOOKUP_SLOT = 0 /\ d_free = 0 /\ d_cap = 0 /\ d_pc = 0 /\ d_ep_slot
         = 0 /\ d_answer = 0 /\ d_overlapped = 0 /\ d_failures = 0

Init ==
    /\ component \in Components
    /\ IF component = "WorkerPool" THEN Pool!Init ELSE NoPool
    /\ IF component = "PendingTable" THEN Pending!Init ELSE NoPending
    /\ IF component = "Pthread" THEN Thread!Init ELSE NoThread
    /\ IF component = "VmLayout" THEN Vm!Init ELSE NoVm
    /\ IF component = "TlsLayout" THEN Tls!Init ELSE NoTls
    /\ IF component = "ImageLoader" THEN Image!Init ELSE NoImage
    /\ IF component = "Rtld" THEN Link!Init ELSE NoLink
    /\ IF component = "PeRtld" THEN Pe!Init ELSE NoPe
    /\ IF component = "FileIO" THEN File!Init ELSE NoFile
    /\ IF component = "Signals" THEN Sig!Init ELSE NoSig
    /\ IF component = "PosixCalls" THEN Call!Init ELSE NoCall
    /\ IF component = "Cpio" THEN Archive!Init ELSE NoArchive
    /\ IF component = "CapTable" THEN Cap!Init ELSE NoCap
    /\ IF component = "Dns" THEN Dns!Init ELSE NoDns

PoolOnly ==
    /\ component = "WorkerPool"
    /\ UNCHANGED <<component, PendingVars, ThreadVars, VmVars, TlsVars, ImageVars, LinkVars,
                 PeVars, FileVars, SigVars, CallVars, ArchiveVars, CapVars, DnsVars>>

PendingOnly ==
    /\ component = "PendingTable"
    /\ UNCHANGED <<component, PoolVars, ThreadVars, VmVars, TlsVars, ImageVars, LinkVars,
                 PeVars, FileVars, SigVars, CallVars, ArchiveVars, CapVars, DnsVars>>

ThreadOnly ==
    /\ component = "Pthread"
    /\ UNCHANGED <<component, PoolVars, PendingVars, VmVars, TlsVars, ImageVars, LinkVars,
                 PeVars, FileVars, SigVars, CallVars, ArchiveVars, CapVars, DnsVars>>

VmOnly ==
    /\ component = "VmLayout"
    /\ UNCHANGED <<component, PoolVars, PendingVars, ThreadVars, TlsVars, ImageVars, LinkVars,
                 PeVars, FileVars, SigVars, CallVars, ArchiveVars, CapVars, DnsVars>>

TlsOnly ==
    /\ component = "TlsLayout"
    /\ UNCHANGED <<component, PoolVars, PendingVars, ThreadVars, VmVars, ImageVars, LinkVars,
                 PeVars, FileVars, SigVars, CallVars, ArchiveVars, CapVars, DnsVars>>

ImageOnly ==
    /\ component = "ImageLoader"
    /\ UNCHANGED <<component, PoolVars, PendingVars, ThreadVars, VmVars, TlsVars, LinkVars,
                 PeVars, FileVars, SigVars, CallVars, ArchiveVars, CapVars, DnsVars>>

LinkOnly ==
    /\ component = "Rtld"
    /\ UNCHANGED <<component, PoolVars, PendingVars, ThreadVars, VmVars, TlsVars, ImageVars,
                 PeVars, FileVars, SigVars, CallVars, ArchiveVars, CapVars, DnsVars>>

PeOnly ==
    /\ component = "PeRtld"
    /\ UNCHANGED <<component, PoolVars, PendingVars, ThreadVars, VmVars, TlsVars, ImageVars,
                 LinkVars, FileVars, SigVars, CallVars, ArchiveVars, CapVars, DnsVars>>

FileOnly ==
    /\ component = "FileIO"
    /\ UNCHANGED <<component, PoolVars, PendingVars, ThreadVars, VmVars, TlsVars, ImageVars,
                 LinkVars, PeVars, SigVars, CallVars, ArchiveVars, CapVars, DnsVars>>

SigOnly ==
    /\ component = "Signals"
    /\ UNCHANGED <<component, PoolVars, PendingVars, ThreadVars, VmVars, TlsVars, ImageVars,
                 LinkVars, PeVars, FileVars, CallVars, ArchiveVars, CapVars, DnsVars>>

CallOnly ==
    /\ component = "PosixCalls"
    /\ UNCHANGED <<component, PoolVars, PendingVars, ThreadVars, VmVars, TlsVars, ImageVars,
                 LinkVars, PeVars, FileVars, SigVars, ArchiveVars, CapVars, DnsVars>>

ArchiveOnly ==
    /\ component = "Cpio"
    /\ UNCHANGED <<component, PoolVars, PendingVars, ThreadVars, VmVars, TlsVars, ImageVars,
                 LinkVars, PeVars, FileVars, SigVars, CallVars, CapVars, DnsVars>>

CapOnly ==
    /\ component = "CapTable"
    /\ UNCHANGED <<component, PoolVars, PendingVars, ThreadVars, VmVars, TlsVars, ImageVars,
                 LinkVars, PeVars, FileVars, SigVars, CallVars, ArchiveVars, DnsVars>>

DnsOnly ==
    /\ component = "Dns"
    /\ UNCHANGED <<component, PoolVars, PendingVars, ThreadVars, VmVars, TlsVars, ImageVars,
                 LinkVars, PeVars, FileVars, SigVars, CallVars, ArchiveVars, CapVars>>

Next ==
    \/ PoolOnly /\ Pool!Next
    \/ PendingOnly /\ Pending!Next
    \/ ThreadOnly /\ Thread!Next
    \/ VmOnly /\ Vm!Next
    \/ TlsOnly /\ Tls!Next
    \/ ImageOnly /\ Image!Next
    \/ LinkOnly /\ Link!Next
    \/ PeOnly /\ Pe!Next
    \/ FileOnly /\ File!Next
    \/ SigOnly /\ Sig!Next
    \/ CallOnly /\ Call!Next
    \/ ArchiveOnly /\ Archive!Next
    \/ CapOnly /\ Cap!Next
    \/ DnsOnly /\ Dns!Next

vars == <<component, PoolVars, PendingVars, ThreadVars, VmVars, TlsVars, ImageVars, LinkVars, PeVars,
          FileVars, SigVars, CallVars, ArchiveVars, CapVars, DnsVars>>

Spec == Init /\ [][Next]_vars

-----------------------------------------------------------------------------
(* Properties: those of the components, one per guarantee, of the part the *)
(* behaviour exercises.                                                    *)
Is(c) == component = c

(* The type invariant of each part. *)
TypeOK ==
    /\ Is("WorkerPool") => Pool!TypeOK
    /\ Is("PendingTable") => Pending!TypeOK
    /\ Is("Pthread") => Thread!TypeOK
    /\ Is("ImageLoader") => Image!TypeOK
    /\ Is("Rtld") => Link!TypeOK
    /\ Is("FileIO") => File!TypeOK
    /\ Is("Signals") => Sig!TypeOK
    /\ Is("PosixCalls") => Call!TypeOK
    /\ Is("Dns") => Dns!TypeOK

(* WorkerPool: failed spawns and reaping leave no slot, cap or mapping;    *)
(* they spare a thread that still runs, and the roll-back of one failed    *)
(* spawn takes nothing of others; current_worker_index names the caller.   *)
WorkersKeepTheirs ==
    Is("WorkerPool") =>
        Pool!NothingLeaked /\ Pool!LiveWorkerIntact /\ Pool!OthersKeepTheirs /\ Pool!IndexIsOwn

(* PendingTable: a deferred request is handed back exactly once, a late    *)
(* callback finds its own request or none, and nearest_deadline is the     *)
(* earliest one pending.                                                   *)
PendingSound ==
    Is("PendingTable") =>
        Pending!HandedBackOnce /\ Pending!IdsUnambiguous /\ Pending!NearestIsEarliest

(* Pthread: a handle validates only for the thread it was issued for, join *)
(* and cancel act on the thread their handle named, and PM_THREAD_EXIT     *)
(* names the thread that sends it.                                         *)
HandlesNameThreads ==
    Is("Pthread") =>
        Thread!StaleHandleRejected /\ Thread!ActsOnNamedThread /\ Thread!ExitNamesSelf

(* Pthread: a thread that can run has its stack and its slot, and failed *)
(* creations and joins leave no stack, slot or TCB cap.                  *)
StacksAccounted == Is("Pthread") => Thread!StackStaysMapped /\ Thread!NothingLeaked

(* VmLayout: the regions of a child's address space do not overlap, the    *)
(* heap is above every region and mmap above the heap; allocator, receive  *)
(* and expansion slots are apart.                                          *)
LayoutSound == Is("VmLayout") => Vm!RegionsDisjoint /\ Vm!HeapAboveAll /\ Vm!SlotRangesDisjoint

(* TlsLayout: the static TLS the linker laid out fits the region of a      *)
(* worker, the top of a pthread's stack and the main thread's block.       *)
StaticTlsFits == Is("TlsLayout") => Tls!WorkerTlsFits /\ Tls!PthreadTlsFits /\ Tls!MainTlsFits

(* ImageLoader: a load without a skipped patch gives the file's image,     *)
(* with the permissions of the segments on each page, within the span and  *)
(* count computed before, and the page records match what is mapped.       *)
ImageExact ==
    Is("ImageLoader") =>
        Image!LoadedUnlessIgnored /\ Image!PermissionsExact /\ Image!WithinSpan /\ Image!RecordsMatch

(* Rtld: exactly the closure of DT_NEEDED is loaded, each object once and  *)
(* none over another; each symbol has one definition, bound before the     *)
(* constructors run; the program's allocator starts past the frames.       *)
LinkSound ==
    Is("Rtld") =>
        Link!ClosureLoaded /\ Link!ImagesDisjoint /\ Link!OneBinding /\ Link!FramesNotReused

(* PeRtld: every import holds what the file asked for. *)
ImportsBound == Is("PeRtld") => Pe!ImportsBound

(* FileIO: a transfer that returns n moved exactly its first n units, an   *)
(* interrupted positioned transfer too, and only the first chunk of a      *)
(* write can be written twice.                                             *)
TransfersExact ==
    Is("FileIO") => File!TransferExact /\ File!PositionedIsExact /\ File!WrittenOnceAfterFirst

(* FileIO: a set-up none of whose calls was interrupted publishes a mapped *)
(* region, mapped once, and no thread sleeps on a set-up that is over.     *)
BulkSetupSound == Is("FileIO") => File!SetupSound /\ File!NoneLeftAsleep

(* FileIO: the bulk region is published only when mapped on both sides *)
(* (bulk.rs:46).                                                       *)
ReadyIsMapped == Is("FileIO") => File!ReadyIsMapped

(* Signals: an accepted signal is pending or in a running dispatch; the    *)
(* mask is the program's plus that of the running handlers; local and      *)
(* procmgr dispositions agree between calls.                               *)
SignalsSound ==
    Is("Signals") => Sig!NoSignalLost /\ Sig!MaskMatchesHandlers /\ Sig!DispositionsAgree

(* PosixCalls: a wrapper's result tells what became of its request. *)
ResultTellsEffect == Is("PosixCalls") => Call!ResultTellsEffect

(* Cpio: iteration lists the files wholly inside the buffer, looking up    *)
(* agrees with it, and cpio_archive_size covers the files listed.          *)
WalkersAgree ==
    Is("Cpio") =>
        Archive!WholeFilesListed /\ Archive!FindAgreesWithIteration /\ Archive!SizeCoversFiles

(* CapTable: each role pushed once reaches its symbol in the child, and *)
(* lookup and installation agree.                                       *)
CapabilitiesArrive == Is("CapTable") => Cap!RolesArrive /\ Cap!ReadersAgree

(* Dns: a cached endpoint stays usable. *)
CachedEndpointUsable == Is("Dns") => Dns!CachedEndpointUsable
=============================================================================
