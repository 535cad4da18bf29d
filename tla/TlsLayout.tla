----------------------------- MODULE TlsLayout ------------------------------
(***************************************************************************)
(* Static TLS, from the linker to the threads: rtld places the blocks of   *)
(* the loaded objects relative to the thread pointer                       *)
(* (finalize_static_tls_layout) and exports the result; the main thread,   *)
(* worker.rs and pthread.rs each lay out a region that has to hold those   *)
(* blocks and the ThreadLocalBlock; tls_addr_from_tp finds a block again.  *)
(* On x86_64 the blocks lie below the thread pointer, which is the address *)
(* of the ThreadLocalBlock; on aarch64 a two-word header, the blocks and   *)
(* the ThreadLocalBlock lie above it.                                      *)
(***************************************************************************)
EXTENDS Integers, Sequences

CONSTANTS Modules,      \* what an object's PT_TLS may ask for: [memsz, align]
          MaxObjects,   \* bound: objects loaded
          tcb_size,     \* size_of ThreadLocalBlock
          tcb_align,    \* align_of ThreadLocalBlock
          MAX_ELF_TLS_SIZE,  \* 4096: the main thread's static area
          MainAlign,    \* 64: repr(align) of MainTlsBlock
          Page          \* 4096; the prefaulted top of a stack is two pages

TlsLayoutAssumption ==
    /\ MaxObjects \in Nat /\ {tcb_size, tcb_align, MAX_ELF_TLS_SIZE, MainAlign, Page} \subseteq Nat
    /\ \A m \in Modules : m.memsz \in Nat /\ m.align \in Nat

VARIABLES arch,     \* the target the code is built for
          objects,  \* the link_map list: the PT_TLS of each object, memsz 0 for none
          layout    \* total, max_align and the tls_tpoff of the objects placed

tlsVars == <<arch, objects, layout>>

align_up(v, a) == IF a <= 1 THEN v ELSE ((v + a - 1) \div a) * a
align_down(v, a) == IF a <= 1 THEN v ELSE (v \div a) * a
Larger(a, b) == IF a > b THEN a ELSE b

abi_tcb_size == IF arch = "aarch64" THEN 16 ELSE 0

Init ==
    /\ arch \in {"x86_64", "aarch64"} /\ objects = << >>
    /\ layout = [total |-> abi_tcb_size, align |-> Larger(abi_tcb_size, 1), tpoff |-> << >>]

(* load_shared_library appends to the list. *)
Load ==
    /\ layout.tpoff = << >> /\ Len(objects) < MaxObjects
    /\ \E m \in Modules : objects' = Append(objects, m)
    /\ UNCHANGED <<arch, layout>>

(* One object: its block starts at a multiple of its alignment. *)
Place(l, m) ==
    LET start == align_up(l.total, m.align)
        below == align_up(l.total + m.memsz, m.align)
    IN IF m.memsz = 0 THEN [l EXCEPT !.tpoff = Append(@, 0)]
       ELSE [total |-> IF arch = "aarch64" THEN start + m.memsz ELSE below,
             align |-> Larger(l.align, m.align),
             tpoff |-> Append(l.tpoff, IF arch = "aarch64" THEN start ELSE -below)]

(* The loop over the loaded objects, one object per step. *)
finalize_static_tls_layout ==
    /\ Len(layout.tpoff) < Len(objects)
    /\ layout' = Place(layout, objects[Len(layout.tpoff) + 1])
    /\ UNCHANGED <<arch, objects>>

Next == Load \/ finalize_static_tls_layout

Spec == Init /\ [][Next]_tlsVars

-----------------------------------------------------------------------------
(* What rtld exports: __trona_tls_memsz, __trona_tls_align and the offset  *)
(* of every module.                                                        *)
Finalized == Len(layout.tpoff) = Len(objects)

tls_memsz == layout.total - abi_tcb_size
static_tls_align == layout.align
tls_align == Larger(static_tls_align, 16)

(* Mistaken form: no allowance for aligning the thread pointer. *)
RegionUnpadded == align_up(abi_tcb_size + tls_memsz + tcb_size, Page)

thread_tls_region_size ==
    IF arch = "x86_64"
    THEN align_up(tls_memsz + tcb_size + Larger(tls_align, tcb_align) - 1, Page)
    ELSE align_up(abi_tcb_size + tls_memsz + (tcb_align - 1) + tcb_size + tls_align, Page)

(* Where the ThreadLocalBlock lies on aarch64: above the blocks. *)
TcbAbove(tp) == align_up(tp + abi_tcb_size + tls_memsz, tcb_align)

(* init_worker_tls in the region at va. *)
init_worker_tls(va) ==
    LET tp == IF arch = "x86_64"
              THEN align_down(va + thread_tls_region_size - tcb_size, Larger(tls_align, tcb_align))
              ELSE align_down(va, tls_align)
    IN [tp |-> tp, tcb |-> IF arch = "x86_64" THEN tp ELSE TcbAbove(tp),
        low |-> va, high |-> va + thread_tls_region_size]

(* pthread_create: the top of the stack; only the last two pages are sure  *)
(* to be there.                                                            *)
PthreadTls(stack_top) ==
    LET hint == abi_tcb_size + tls_memsz + (tcb_align - 1) + tcb_size
        tp == IF arch = "x86_64"
              THEN align_down(stack_top - tcb_size, Larger(tls_align, tcb_align))
              ELSE align_down(stack_top - hint, tls_align)
    IN [tp |-> tp, tcb |-> IF arch = "x86_64" THEN tp ELSE TcbAbove(tp),
        low |-> align_down(stack_top - 2 * Page, Page), high |-> stack_top]

(* init_main_thread_tls: MAIN_TLS_BLOCK at a multiple of MainAlign. *)
MainTls(base) ==
    LET tcb == base + abi_tcb_size + MAX_ELF_TLS_SIZE
    IN [tp |-> IF arch = "x86_64" THEN tcb ELSE base, tcb |-> tcb, low |-> base, high |-> tcb + tcb_size]

(* tls_addr_from_tp of the first byte of the i-th object's block. *)
tls_addr_from_tp(tp, i) == tp + layout.tpoff[i]

-----------------------------------------------------------------------------
HasTls == {i \in DOMAIN objects : objects[i].memsz > 0}

(* [a, a + n) and [b, b + m) have nothing in common. *)
Apart(a, n, b, m) == a + n <= b \/ b + m <= a

Fits(t) ==
    LET at(i) == tls_addr_from_tp(t.tp, i)
        size(i) == objects[i].memsz
    IN /\ t.low <= t.tcb /\ t.tcb + tcb_size <= t.high /\ t.tcb % tcb_align = 0
       /\ \A i \in HasTls :
             /\ t.low <= at(i) /\ at(i) + size(i) <= t.high
             /\ at(i) % Larger(objects[i].align, 1) = 0
             /\ Apart(at(i), size(i), t.tcb, tcb_size)
             /\ Apart(at(i), size(i), t.tp, abi_tcb_size)
       /\ \A i, j \in HasTls : i # j => Apart(at(i), size(i), at(j), size(j))

(* In a worker's region every object's block is inside the region, aligned *)
(* as its PT_TLS asks, apart from every other block, from the aarch64      *)
(* header and from the ThreadLocalBlock: rtld's offsets, the region size   *)
(* and init_worker_tls agree.  Alignments above a page are not used.       *)
WorkerTlsFits == Finalized /\ static_tls_align <= Page => Fits(init_worker_tls(16 * Page))

(* The same at the top of a pthread's stack, within the pages              *)
(* pthread_create has made sure are there, for static TLS of up to         *)
(* MAX_ELF_TLS_SIZE.                                                       *)
PthreadTlsFits ==
    Finalized /\ tls_memsz <= MAX_ELF_TLS_SIZE /\ static_tls_align <= MainAlign =>
        Fits(PthreadTls(64 * Page))

(* The same in the main thread's static block, whose alignment bounds that *)
(* of the objects.                                                         *)
MainTlsFits ==
    Finalized /\ tls_memsz <= MAX_ELF_TLS_SIZE /\ static_tls_align <= MainAlign =>
        Fits(MainTls(MainAlign * 3))
=============================================================================
