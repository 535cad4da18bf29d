------------------------------ MODULE VmLayout ------------------------------
(***************************************************************************)
(* substrate/layout.rs: where the regions of a child process lie in its    *)
(* address space, and how its root CNode is divided.  Addresses and sizes  *)
(* are integers; a region is half open.  The sums stay far below 2^64.     *)
(***************************************************************************)
EXTENDS Integers

CONSTANTS ElfSpans, RtldSpans, LibPages, InitrdSizes,  \* what a layout is asked for
          CodeSlides, StackSlides,                     \* random values, in pages
          CnodeBits, FrameFloors

VmLayoutAssumption ==
    /\ UNION {ElfSpans, RtldSpans, LibPages, InitrdSizes, CodeSlides, StackSlides} \subseteq Nat
    /\ UNION {CnodeBits, FrameFloors} \subseteq Nat
    /\ \A b \in CnodeBits : b < 63 => 2^b \in Nat /\ 2^b \notin 1025 .. 2047  \* arithmetic

VARIABLES plan,    \* the VmLayoutPlan last computed
          cspace   \* the TronaCspaceLayoutV1 last computed

layoutVars == <<plan, cspace>>

Page == 4096
CHILD_STACK_PAGES == 32
IPC_BUF_BASE == 512 * Page
ELF_CODE_BASE == 528 * Page
DEFAULT_STACK_BASE == 1016 * Page
WINDOW2_STACK_BASE == 2040 * Page
INITRD_BASE == 4096 * Page
MMAP_BASE_GAP == 65536 * Page
ASLR_CODE_MAX_PAGES == 256
ASLR_STACK_MAX_PAGES == 64
StackSize == CHILD_STACK_PAGES * Page

page_align_up(v) == ((v + Page - 1) \div Page) * Page

Region(base, size) == [base |-> base, size |-> size]
ZeroRegion == Region(0, 0)
End(r) == r.base + r.size

-----------------------------------------------------------------------------
(* The region that follows r with a guard page, when it is wanted. *)
After(r, wanted, size) ==
    IF wanted THEN Region(page_align_up(End(r) + Page), size) ELSE ZeroRegion

CodeEnd(elf, rtld, libs) ==
    IF libs.size > 0 THEN End(libs) ELSE IF rtld.size > 0 THEN End(rtld) ELSE End(elf)

(* Stack with the scratch page on top of it. *)
WithStack(code, base) ==
    [ipc_buf |-> Region(IPC_BUF_BASE, Page),
     elf_code |-> code.elf, rtld |-> code.rtld, shared_libs |-> code.libs,
     stack |-> Region(base, StackSize), scratch |-> Region(base + StackSize, Page),
     stack_top |-> base + StackSize]

CodeRegions(base, elf_span, rtld_span, lib_pages) ==
    LET elf == Region(base, page_align_up(elf_span))
        rtld == After(elf, rtld_span > 0, page_align_up(rtld_span))
        libs == After(rtld, lib_pages > 0 /\ rtld.size > 0, lib_pages * Page)
    IN [elf |-> elf, rtld |-> rtld, libs |-> libs, end |-> CodeEnd(elf, rtld, libs)]

(* The first of the two windows the code leaves free, or above the code    *)
(* with a 64 KiB guard.                                                    *)
StackBase(code) ==
    IF code.end <= DEFAULT_STACK_BASE THEN DEFAULT_STACK_BASE
    ELSE IF code.end <= WINDOW2_STACK_BASE THEN WINDOW2_STACK_BASE
    ELSE page_align_up(code.end + 16 * Page)

InitrdRegion(scratch, size) ==
    IF size = 0 THEN ZeroRegion
    ELSE Region(IF End(scratch) > INITRD_BASE THEN page_align_up(End(scratch) + Page)
                ELSE INITRD_BASE,
                page_align_up(size))

WithInitrd(p, initrd) ==
    [ipc_buf |-> p.ipc_buf, elf_code |-> p.elf_code, rtld |-> p.rtld,
     shared_libs |-> p.shared_libs, stack |-> p.stack, scratch |-> p.scratch,
     initrd |-> initrd, stack_top |-> p.stack_top]

compute_vm_layout(elf_span, rtld_span, lib_pages, initrd_size) ==
    LET code == CodeRegions(ELF_CODE_BASE, elf_span, rtld_span, lib_pages)
        p == WithStack(code, StackBase(code))
    IN WithInitrd(p, InitrdRegion(p.scratch, initrd_size))

(* Mistaken form: the windows are tested without the slide. *)
SlidPastCode(code, stack_slide) ==
    IF code.end <= DEFAULT_STACK_BASE THEN DEFAULT_STACK_BASE - stack_slide
    ELSE IF code.end <= WINDOW2_STACK_BASE THEN WINDOW2_STACK_BASE - stack_slide
    ELSE 0

(* The stack slides down in the first window that still has room, 0: none. *)
SlidStackBase(code, stack_slide) ==
    IF code.end <= DEFAULT_STACK_BASE - stack_slide THEN DEFAULT_STACK_BASE - stack_slide
    ELSE IF code.end <= WINDOW2_STACK_BASE - stack_slide THEN WINDOW2_STACK_BASE - stack_slide
    ELSE 0

(* Random values of 0 stand for an unavailable generator as well. *)
compute_vm_layout_randomized(elf_span, rtld_span, lib_pages, initrd_size, code_rand, stack_rand) ==
    LET code == CodeRegions(ELF_CODE_BASE + (code_rand % ASLR_CODE_MAX_PAGES) * Page,
                            elf_span, rtld_span, lib_pages)
        base == SlidStackBase(code, (stack_rand % ASLR_STACK_MAX_PAGES) * Page)
    IN IF base = 0 THEN compute_vm_layout(elf_span, rtld_span, lib_pages, initrd_size)
       ELSE WithInitrd(WithStack(code, base),
                       IF initrd_size = 0 THEN ZeroRegion
                       ELSE Region(INITRD_BASE, page_align_up(initrd_size)))

Regions(p) ==
    {p.ipc_buf, p.elf_code, p.rtld, p.shared_libs, p.stack, p.scratch, p.initrd}

Highest(S) == CHOOSE x \in S : \A y \in S : y <= x

heap_base(p) ==
    page_align_up(Highest({CodeEnd(p.elf_code, p.rtld, p.shared_libs)}
                          \cup {End(r) : r \in {s \in {p.stack, p.scratch, p.initrd} : s.size > 0}}))

max_mapped_end(p) == Highest({0} \cup {End(r) : r \in {s \in Regions(p) : s.size > 0}})

compute_mmap_base(p, heap) == page_align_up(Highest({max_mapped_end(p), heap}) + MMAP_BASE_GAP)

-----------------------------------------------------------------------------
CHILD_FRAME_SLOT_BASE == 64
AUTHORITY_RECV_SLOT_COUNT == 1024
CSPACE_EXPAND_BASE == 1008
MAX_CSPACE_EXPANSIONS == 8

Least(a, b) == IF a < b THEN a ELSE b

Below(limit, range) == IF range[2] > range[1] THEN Least(limit, range[1]) ELSE limit

AllocLimit(total, expand, recv) == Below(Below(total, expand), recv)

(* An authority receives into the top of its CNode; the expansion window   *)
(* lies at a fixed place; what is below both is free for allocation.       *)
compute_cspace_layout(cnode_bits, frame_slot_floor, authority, has_expand_window) ==
    LET total == IF cnode_bits >= 63 THEN 0 ELSE 2^cnode_bits
        frame == IF frame_slot_floor > CHILD_FRAME_SLOT_BASE THEN frame_slot_floor
                 ELSE CHILD_FRAME_SLOT_BASE
        recv == IF authority /\ total # 0
                THEN <<total - Least(total, AUTHORITY_RECV_SLOT_COUNT), total>> ELSE <<0, 0>>
        window == <<Least(total, CSPACE_EXPAND_BASE),
                    Least(total, CSPACE_EXPAND_BASE + MAX_CSPACE_EXPANSIONS)>>
        expand == IF has_expand_window /\ window[2] > window[1] THEN window ELSE <<0, 0>>
        limit == AllocLimit(total, expand, recv)
    IN [total |-> total, frame |-> frame, recv |-> recv, expand |-> expand,
        alloc |-> <<Least(frame, limit), limit>>]

-----------------------------------------------------------------------------
NoPlan == compute_vm_layout(0, 0, 0, 0)
NoCspace == compute_cspace_layout(63, 0, FALSE, FALSE)

Init == plan = NoPlan /\ cspace = NoCspace

Lay(p) == plan = NoPlan /\ cspace = NoCspace /\ plan' = p /\ UNCHANGED cspace

Fixed ==
    \E e \in ElfSpans, r \in RtldSpans, l \in LibPages, i \in InitrdSizes :
        Lay(compute_vm_layout(e, r, l, i))

Randomized ==
    \E e \in ElfSpans, r \in RtldSpans, l \in LibPages, i \in InitrdSizes,
       c \in CodeSlides, s \in StackSlides :
        Lay(compute_vm_layout_randomized(e, r, l, i, c, s))

Divide ==
    /\ plan = NoPlan /\ cspace = NoCspace
    /\ \E b \in CnodeBits, f \in FrameFloors, a, x \in BOOLEAN :
          cspace' = compute_cspace_layout(b, f, a, x)
    /\ UNCHANGED plan

Next == Fixed \/ Randomized \/ Divide

Spec == Init /\ [][Next]_layoutVars

-----------------------------------------------------------------------------
Disjoint(r, s) == r.size = 0 \/ s.size = 0 \/ End(r) <= s.base \/ End(s) <= r.base

(* Whatever the sizes of executable, linker, libraries and initrd, and the *)
(* random slides, compute_vm_layout and its randomized form place the      *)
(* regions so that no two overlap.                                         *)
RegionsDisjoint ==
    LET p == plan IN
    /\ \A r \in {p.elf_code, p.rtld, p.shared_libs, p.stack, p.scratch, p.initrd} :
          Disjoint(p.ipc_buf, r)
    /\ \A r \in {p.rtld, p.shared_libs, p.stack, p.scratch, p.initrd} : Disjoint(p.elf_code, r)
    /\ \A r \in {p.shared_libs, p.stack, p.scratch, p.initrd} : Disjoint(p.rtld, r)
    /\ \A r \in {p.stack, p.scratch, p.initrd} : Disjoint(p.shared_libs, r)
    /\ Disjoint(p.stack, p.scratch) /\ Disjoint(p.stack, p.initrd) /\ Disjoint(p.scratch, p.initrd)

(* "Above all code, stack, and scratch regions to prevent upward heap      *)
(* growth from colliding with them": the heap starts above every mapped    *)
(* region, and mmap 256 MiB above the heap.                                *)
HeapAboveAll ==
    /\ \A r \in Regions(plan) : r.size > 0 => End(r) <= heap_base(plan)
    /\ compute_mmap_base(plan, heap_base(plan)) >= heap_base(plan) + MMAP_BASE_GAP

(* The slots an allocator may hand out, those capabilities arrive in and   *)
(* those of the expansion window are never the same, provided an           *)
(* authority's CNode is larger than its receive reserve.                   *)
SlotRangesDisjoint ==
    LET Apart(a, b) == a[1] >= a[2] \/ b[1] >= b[2] \/ a[2] <= b[1] \/ b[2] <= a[1]
    IN /\ Apart(cspace.alloc, cspace.recv) /\ Apart(cspace.alloc, cspace.expand)
       /\ cspace.total > AUTHORITY_RECV_SLOT_COUNT => Apart(cspace.recv, cspace.expand)
       /\ cspace.alloc[2] <= cspace.total
       /\ cspace.alloc[1] < cspace.alloc[2] => cspace.alloc[1] >= CHILD_FRAME_SLOT_BASE
=============================================================================
