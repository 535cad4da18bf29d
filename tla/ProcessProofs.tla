----------------------------- MODULE ProcessProofs --------------------------
(***************************************************************************)
(* Proofs about the parts of ProcessSystem, for every value of the         *)
(* constants: the layouts, the dynamic linker, the capability table and    *)
(* the table of deferred requests.                                         *)
(***************************************************************************)
EXTENDS ProcessSystem, Functions, FiniteSetTheorems, WellFoundedInduction, TLAPS

(* A leaf may take two minutes. *)
USE SMTT(120)

-----------------------------------------------------------------------------
(***************************************************************************)
(* The address-space layouts of substrate/layout.rs for every size of      *)
(* executable, linker, libraries and initrd and every random value.  Both  *)
(* layouts are a chain of code regions (Chain) with stack, scratch page    *)
(* and initrd above its end; SoundPlan says so and implies RegionsDisjoint *)
(* and HeapAboveAll.  The addresses stay below 2^64 for the sizes the      *)
(* loaders admit.                                                          *)
(***************************************************************************)

Shape == [base : Nat, size : Nat]

(* Executable, linker and libraries follow one another up to end. *)
Chain(elf, rtld, libs, end) ==
    /\ elf \in Shape /\ rtld \in Shape /\ libs \in Shape /\ end \in Nat
    /\ elf.base >= Vm!ELF_CODE_BASE /\ Vm!End(elf) <= end
    /\ rtld.size > 0 => Vm!End(elf) <= rtld.base /\ Vm!End(rtld) <= end
    /\ libs.size > 0 => rtld.size > 0 /\ Vm!End(rtld) <= libs.base /\ Vm!End(libs) <= end

SoundPlan(p) ==
    LET end == Vm!CodeEnd(p.elf_code, p.rtld, p.shared_libs) IN
    /\ Chain(p.elf_code, p.rtld, p.shared_libs, end)
    /\ p.ipc_buf = Vm!Region(Vm!IPC_BUF_BASE, Vm!Page)
    /\ p.stack \in Shape /\ p.scratch \in Shape /\ p.initrd \in Shape
    /\ p.stack.size = Vm!StackSize /\ p.scratch.size = Vm!Page
    /\ end <= p.stack.base /\ Vm!End(p.stack) <= p.scratch.base
    /\ p.initrd.size > 0 => Vm!End(p.scratch) <= p.initrd.base

(* page_align_up rounds up by less than a page. *)
LEMMA AlignUp ==
    ASSUME NEW v \in Nat
    PROVE  /\ Vm!page_align_up(v) \in Nat
           /\ v <= Vm!page_align_up(v) /\ Vm!page_align_up(v) < v + Vm!Page
BY DEF Vm!page_align_up, Vm!Page

(* The guard page between two regions keeps the later one above. *)
LEMMA GuardAbove ==
    ASSUME NEW r \in Shape
    PROVE  /\ Vm!page_align_up(Vm!End(r) + Vm!Page) \in Nat
           /\ Vm!End(r) <= Vm!page_align_up(Vm!End(r) + Vm!Page)
<1>1. Vm!End(r) + Vm!Page \in Nat
  BY DEF Shape, Vm!End, Vm!Page
<1>2. /\ Vm!page_align_up(Vm!End(r) + Vm!Page) \in Nat
      /\ Vm!End(r) + Vm!Page <= Vm!page_align_up(Vm!End(r) + Vm!Page)
  BY Zenon, <1>1, AlignUp
<1>3. QED
  BY <1>2 DEF Shape, Vm!End, Vm!Page

(* The code regions of compute_vm_layout form a chain from their base. *)
LEMMA CodeChain ==
    ASSUME NEW base \in Nat, base >= Vm!ELF_CODE_BASE,
           NEW e \in Nat, NEW r \in Nat, NEW l \in Nat
    PROVE  LET c == Vm!CodeRegions(base, e, r, l) IN
           Chain(c.elf, c.rtld, c.libs, c.end) /\ c.end = Vm!CodeEnd(c.elf, c.rtld, c.libs)
<1> DEFINE elf == Vm!Region(base, Vm!page_align_up(e))
           rtld == Vm!After(elf, r > 0, Vm!page_align_up(r))
           libs == Vm!After(rtld, l > 0 /\ rtld.size > 0, l * Vm!Page)
           end == Vm!CodeEnd(elf, rtld, libs)
<1>1. elf \in Shape /\ elf.base = base
  BY Zenon, AlignUp DEF Vm!Region, Shape
<1>2. /\ rtld \in Shape
      /\ rtld.size > 0 => Vm!End(elf) <= rtld.base
  <2> HIDE DEF elf
  <2>1. Vm!page_align_up(r) \in Nat
    BY Zenon, AlignUp
  <2>2. QED
    BY <1>1, <2>1, GuardAbove DEF Vm!After, Vm!Region, Vm!ZeroRegion, Shape
<1>3. /\ libs \in Shape
      /\ libs.size > 0 => rtld.size > 0 /\ Vm!End(rtld) <= libs.base
  <2> HIDE DEF rtld
  <2>1. l * Vm!Page \in Nat
    BY DEF Vm!Page
  <2>2. QED
    BY <1>2, <2>1, GuardAbove DEF Vm!After, Vm!Region, Vm!ZeroRegion, Shape
<1>4. Chain(elf, rtld, libs, end)
  <2> HIDE DEF elf, rtld, libs
  <2>1. elf.base >= Vm!ELF_CODE_BASE
    BY Zenon, <1>1
  <2>2. QED
    BY <1>1, <1>2, <1>3, <2>1 DEF Chain, Vm!CodeEnd, Vm!End, Shape
<1>5. QED
  BY Zenon, <1>4 DEF Vm!CodeRegions

(* A stack at or above the end of the code, with the initrd above the      *)
(* scratch page, makes a sound plan.                                       *)
LEMMA PlanSound ==
    ASSUME NEW elf, NEW rtld, NEW libs, NEW end,
           Chain(elf, rtld, libs, end), end = Vm!CodeEnd(elf, rtld, libs),
           NEW base \in Nat, end <= base,
           NEW initrd \in Shape, initrd.size > 0 => base + Vm!StackSize + Vm!Page <= initrd.base,
           NEW code, code.elf = elf, code.rtld = rtld, code.libs = libs
    PROVE  SoundPlan(Vm!WithInitrd(Vm!WithStack(code, base), initrd))
<1> DEFINE p == Vm!WithInitrd(Vm!WithStack(code, base), initrd)
<1>1. /\ p.elf_code = elf /\ p.rtld = rtld /\ p.shared_libs = libs
      /\ p.ipc_buf = Vm!Region(Vm!IPC_BUF_BASE, Vm!Page)
      /\ p.stack = Vm!Region(base, Vm!StackSize)
      /\ p.scratch = Vm!Region(base + Vm!StackSize, Vm!Page)
      /\ p.initrd = initrd
  BY Zenon DEF Vm!WithInitrd, Vm!WithStack
<1> HIDE DEF p
<1>2. p.stack \in Shape /\ p.scratch \in Shape /\ Vm!End(p.stack) <= p.scratch.base
  BY <1>1 DEF Vm!Region, Shape, Vm!End, Vm!StackSize, Vm!CHILD_STACK_PAGES, Vm!Page
<1>3. Vm!End(p.scratch) = base + Vm!StackSize + Vm!Page
  BY <1>1 DEF Vm!Region, Vm!End, Vm!StackSize, Vm!CHILD_STACK_PAGES, Vm!Page
<1>4. p.stack.size = Vm!StackSize /\ p.scratch.size = Vm!Page /\ p.stack.base = base
  BY <1>1 DEF Vm!Region
<1>5. SoundPlan(p)
  BY Zenon, <1>1, <1>2, <1>3, <1>4 DEF SoundPlan
<1>6. QED
  BY Zenon, <1>5 DEF p

(* compute_vm_layout leaves the first free window to the stack. *)
LEMMA FixedSound ==
    ASSUME NEW e \in Nat, NEW r \in Nat, NEW l \in Nat, NEW i \in Nat
    PROVE  SoundPlan(Vm!compute_vm_layout(e, r, l, i))
<1> DEFINE code == Vm!CodeRegions(Vm!ELF_CODE_BASE, e, r, l)
           base == Vm!StackBase(code)
           p == Vm!WithStack(code, base)
           initrd == Vm!InitrdRegion(p.scratch, i)
<1>1. Chain(code.elf, code.rtld, code.libs, code.end) /\ code.end = Vm!CodeEnd(code.elf, code.rtld, code.libs)
  BY CodeChain DEF Vm!ELF_CODE_BASE, Vm!Page
<1> HIDE DEF code
<1>2. code.end \in Nat
  BY <1>1 DEF Chain
<1>3. base \in Nat /\ code.end <= base
  <2>1. code.end + 16 * Vm!Page \in Nat
    BY <1>2 DEF Vm!Page
  <2>2. Vm!page_align_up(code.end + 16 * Vm!Page) \in Nat /\ code.end + 16 * Vm!Page <= Vm!page_align_up(code.end + 16 * Vm!Page)
    BY Zenon, <2>1, AlignUp
  <2>3. QED
    BY <1>2, <2>2 DEF Vm!StackBase, Vm!DEFAULT_STACK_BASE, Vm!WINDOW2_STACK_BASE, Vm!Page
<1> HIDE DEF base
<1>4. p.scratch = Vm!Region(base + Vm!StackSize, Vm!Page)
  BY Zenon DEF Vm!WithStack
<1>5. initrd \in Shape /\ (initrd.size > 0 => base + Vm!StackSize + Vm!Page <= initrd.base)
  <2>1. Vm!End(p.scratch) = base + Vm!StackSize + Vm!Page
    BY <1>3, <1>4 DEF Vm!End, Vm!Region, Vm!StackSize, Vm!CHILD_STACK_PAGES, Vm!Page
  <2>2. Vm!End(p.scratch) \in Nat /\ Vm!End(p.scratch) + Vm!Page \in Nat
    BY <1>3, <2>1 DEF Vm!StackSize, Vm!CHILD_STACK_PAGES, Vm!Page
  <2> HIDE DEF p
  <2>3. /\ Vm!page_align_up(Vm!End(p.scratch) + Vm!Page) \in Nat
        /\ Vm!End(p.scratch) + Vm!Page <= Vm!page_align_up(Vm!End(p.scratch) + Vm!Page)
        /\ Vm!page_align_up(i) \in Nat
    BY Zenon, <2>2, AlignUp
  <2>4. QED
    BY <2>1, <2>2, <2>3 DEF Vm!InitrdRegion, Vm!Region, Vm!ZeroRegion, Shape, Vm!INITRD_BASE, Vm!Page
<1>6. QED
  BY <1>1, <1>3, <1>5, PlanSound DEF Vm!compute_vm_layout, code, base

(* The randomized layout keeps stack and scratch page in the window it     *)
(* found room in, below the fixed initrd base, or falls back.              *)
LEMMA RandomizedSound ==
    ASSUME NEW e \in Nat, NEW r \in Nat, NEW l \in Nat, NEW i \in Nat, NEW cr \in Nat, NEW sr \in Nat
    PROVE  SoundPlan(Vm!compute_vm_layout_randomized(e, r, l, i, cr, sr))
<1> DEFINE start == Vm!ELF_CODE_BASE + (cr % Vm!ASLR_CODE_MAX_PAGES) * Vm!Page
           code == Vm!CodeRegions(start, e, r, l)
           slide == (sr % Vm!ASLR_STACK_MAX_PAGES) * Vm!Page
           base == Vm!SlidStackBase(code, slide)
           initrd == IF i = 0 THEN Vm!ZeroRegion ELSE Vm!Region(Vm!INITRD_BASE, Vm!page_align_up(i))
<1>1. start \in Nat /\ start >= Vm!ELF_CODE_BASE
  BY DEF Vm!ELF_CODE_BASE, Vm!ASLR_CODE_MAX_PAGES, Vm!Page
<1>2. slide \in Nat /\ slide < Vm!ASLR_STACK_MAX_PAGES * Vm!Page
  BY DEF Vm!ASLR_STACK_MAX_PAGES, Vm!Page
<1> HIDE DEF start, slide
<1>3. Chain(code.elf, code.rtld, code.libs, code.end) /\ code.end = Vm!CodeEnd(code.elf, code.rtld, code.libs)
  BY <1>1, CodeChain
<1> HIDE DEF code
<1>4. CASE base = 0
  BY Zenon, <1>4, FixedSound DEF Vm!compute_vm_layout_randomized, start, code, slide
<1>5. CASE base # 0
  <2>1. base \in Nat /\ code.end <= base /\ base <= Vm!WINDOW2_STACK_BASE
    BY <1>2, <1>3, <1>5 DEF Chain, Vm!SlidStackBase, Vm!DEFAULT_STACK_BASE, Vm!WINDOW2_STACK_BASE, Vm!ASLR_STACK_MAX_PAGES, Vm!Page
  <2> HIDE DEF base
  <2>2. Vm!page_align_up(i) \in Nat
    BY ZenonT(60), AlignUp
  <2>3. base + Vm!StackSize + Vm!Page <= Vm!INITRD_BASE
    BY <2>1 DEF Vm!StackSize, Vm!CHILD_STACK_PAGES, Vm!Page, Vm!INITRD_BASE, Vm!WINDOW2_STACK_BASE
  <2>4. initrd \in Shape /\ (initrd.size > 0 => base + Vm!StackSize + Vm!Page <= initrd.base)
    BY <2>2, <2>3 DEF Shape, Vm!Region, Vm!ZeroRegion, Vm!INITRD_BASE, Vm!Page
  <2> HIDE DEF initrd
  <2>5. SoundPlan(Vm!WithInitrd(Vm!WithStack(code, base), initrd))
    BY Zenon, <1>3, <2>1, <2>4, PlanSound
  <2>6. QED
    BY Zenon, <1>5, <2>5 DEF Vm!compute_vm_layout_randomized, start, code, slide, base, initrd
<1>6. QED
  BY Zenon, <1>4, <1>5

(* In a sound plan the regions follow one another. *)
LEMMA SoundDisjoint == SoundPlan(v_plan) => Vm!RegionsDisjoint
<1> SUFFICES ASSUME SoundPlan(v_plan) PROVE Vm!RegionsDisjoint
  OBVIOUS
<1> DEFINE p == v_plan
           end == Vm!CodeEnd(p.elf_code, p.rtld, p.shared_libs)
<1>1. Chain(p.elf_code, p.rtld, p.shared_libs, end)
  BY Zenon DEF SoundPlan
<1>2. end \in Nat
  BY Zenon, <1>1 DEF Chain
<1>3. /\ p.stack \in Shape /\ p.scratch \in Shape /\ p.initrd \in Shape
      /\ end <= p.stack.base /\ Vm!End(p.stack) <= p.scratch.base
      /\ p.initrd.size > 0 => Vm!End(p.scratch) <= p.initrd.base
  BY ZenonT(60) DEF SoundPlan
<1>4. /\ p.ipc_buf \in Shape /\ Vm!End(p.ipc_buf) <= Vm!ELF_CODE_BASE
  BY DEF SoundPlan, Vm!Region, Shape, Vm!End, Vm!IPC_BUF_BASE, Vm!ELF_CODE_BASE, Vm!Page
<1>5. Vm!ELF_CODE_BASE \in Nat
  BY DEF Vm!ELF_CODE_BASE, Vm!Page
<1> HIDE DEF end
<1>6. \A q \in {p.elf_code, p.rtld, p.shared_libs, p.stack, p.scratch, p.initrd} : Vm!Disjoint(p.ipc_buf, q)
  BY <1>1, <1>2, <1>3, <1>4, <1>5 DEF Chain, Vm!Disjoint, Vm!End, Shape
<1>7. \A q \in {p.rtld, p.shared_libs, p.stack, p.scratch, p.initrd} : Vm!Disjoint(p.elf_code, q)
  BY <1>1, <1>2, <1>3 DEF Chain, Vm!Disjoint, Vm!End, Shape
<1>8. /\ \A q \in {p.shared_libs, p.stack, p.scratch, p.initrd} : Vm!Disjoint(p.rtld, q)
      /\ \A q \in {p.stack, p.scratch, p.initrd} : Vm!Disjoint(p.shared_libs, q)
  BY <1>1, <1>2, <1>3 DEF Chain, Vm!Disjoint, Vm!End, Shape
<1>9. Vm!Disjoint(p.stack, p.scratch) /\ Vm!Disjoint(p.stack, p.initrd) /\ Vm!Disjoint(p.scratch, p.initrd)
  BY <1>3 DEF Vm!Disjoint, Vm!End, Shape
<1>10. QED
  BY Zenon, <1>6, <1>7, <1>8, <1>9 DEF Vm!RegionsDisjoint

-----------------------------------------------------------------------------
(* A set of naturals with a largest element, which Highest then is. *)
HasTop(S) == S \subseteq Nat /\ \E x \in S : \A y \in S : y <= x

(* The end of a region, if it is not empty. *)
EndOf(r) == IF r.size > 0 THEN {Vm!End(r)} ELSE {}

(* Highest is the largest element where there is one. *)
LEMMA HighestIsTop ==
    ASSUME NEW S, HasTop(S)
    PROVE  Vm!Highest(S) \in Nat /\ Vm!Highest(S) \in S /\ \A y \in S : y <= Vm!Highest(S)
BY ZenonT(60) DEF HasTop, Vm!Highest

(* One more region leaves a largest end. *)
LEMMA TopWithRegion ==
    ASSUME NEW S, HasTop(S), NEW r \in Shape
    PROVE  HasTop(S \cup EndOf(r))
<1>1. Vm!End(r) \in Nat
  BY DEF Vm!End, Shape
<1>2. PICK x \in S : \A y \in S : y <= x
  BY Zenon DEF HasTop
<1>3. CASE r.size = 0
  <2>1. S \cup EndOf(r) = S
    BY <1>3 DEF EndOf
  <2>2. QED
    BY Zenon, <2>1
<1>4. CASE r.size > 0
  <2>1. S \cup EndOf(r) = S \cup {Vm!End(r)}
    BY Zenon, <1>4 DEF EndOf
  <2>2. S \cup {Vm!End(r)} \subseteq Nat
    BY ZenonT(60), <1>1 DEF HasTop
  <2>3. CASE Vm!End(r) <= x
    <3>1. \A y \in S \cup {Vm!End(r)} : y <= x
      BY Zenon, <1>2, <2>3
    <3>2. QED
      BY Zenon, <2>1, <2>2, <3>1 DEF HasTop
  <2>4. CASE x < Vm!End(r)
    <3>1. x \in Nat
      BY Zenon DEF HasTop
    <3>2. \A y \in S : y \in Nat /\ y <= x
      BY Zenon, <1>2 DEF HasTop
    <3>3. \A y \in S \cup {Vm!End(r)} : y <= Vm!End(r)
      BY <1>1, <2>4, <3>1, <3>2
    <3>4. QED
      BY Zenon, <2>1, <2>2, <3>3 DEF HasTop
  <2>5. QED
    BY <1>1, <2>3, <2>4 DEF HasTop
<1>5. QED
  BY <1>3, <1>4 DEF Shape

(* The set heap_base takes the highest of, and the one of max_mapped_end,  *)
(* have a largest element in a sound plan.                                 *)
LEMMA EndsHaveTop ==
    ASSUME NEW p, SoundPlan(p)
    PROVE  /\ HasTop({Vm!CodeEnd(p.elf_code, p.rtld, p.shared_libs)}
                     \cup {Vm!End(r) : r \in {s \in {p.stack, p.scratch, p.initrd} : s.size > 0}})
           /\ HasTop({0} \cup {Vm!End(r) : r \in {s \in Vm!Regions(p) : s.size > 0}})
<1> DEFINE end == Vm!CodeEnd(p.elf_code, p.rtld, p.shared_libs)
<1>1. /\ end \in Nat
      /\ p.elf_code \in Shape /\ p.rtld \in Shape /\ p.shared_libs \in Shape
      /\ p.stack \in Shape /\ p.scratch \in Shape /\ p.initrd \in Shape
  BY Zenon DEF SoundPlan, Chain
<1>2. p.ipc_buf \in Shape
  BY DEF SoundPlan, Vm!Region, Shape, Vm!IPC_BUF_BASE, Vm!Page
<1> HIDE DEF end
<1>3. HasTop({end}) /\ HasTop({0})
  BY <1>1 DEF HasTop
<1>4. HasTop(((({end} \cup EndOf(p.stack)) \cup EndOf(p.scratch)) \cup EndOf(p.initrd)))
  BY ZenonT(60), <1>1, <1>3, TopWithRegion
<1>5. ((({end} \cup EndOf(p.stack)) \cup EndOf(p.scratch)) \cup EndOf(p.initrd))
      = {end} \cup {Vm!End(r) : r \in {s \in {p.stack, p.scratch, p.initrd} : s.size > 0}}
  BY Zenon DEF EndOf
<1>6. HasTop(((({0} \cup EndOf(p.ipc_buf)) \cup EndOf(p.elf_code)) \cup EndOf(p.rtld)) \cup EndOf(p.shared_libs))
  BY ZenonT(60), <1>1, <1>2, <1>3, TopWithRegion
<1>7. HasTop(((((({0} \cup EndOf(p.ipc_buf)) \cup EndOf(p.elf_code)) \cup EndOf(p.rtld)) \cup EndOf(p.shared_libs))
             \cup EndOf(p.stack)) \cup EndOf(p.scratch) \cup EndOf(p.initrd))
  BY ZenonT(60), <1>1, <1>6, TopWithRegion
<1>8. ((((({0} \cup EndOf(p.ipc_buf)) \cup EndOf(p.elf_code)) \cup EndOf(p.rtld)) \cup EndOf(p.shared_libs))
             \cup EndOf(p.stack)) \cup EndOf(p.scratch) \cup EndOf(p.initrd)
      = {0} \cup {Vm!End(r) : r \in {s \in Vm!Regions(p) : s.size > 0}}
  BY DEF EndOf, Vm!Regions
<1>9. QED
  BY ZenonT(60), <1>4, <1>5, <1>7, <1>8 DEF end

(* In a sound plan heap_base lies above every region and the mmap base a   *)
(* full gap above that.                                                    *)
LEMMA SoundHeap == SoundPlan(v_plan) => Vm!HeapAboveAll
<1> SUFFICES ASSUME SoundPlan(v_plan) PROVE Vm!HeapAboveAll
  OBVIOUS
<1> DEFINE p == v_plan
           end == Vm!CodeEnd(p.elf_code, p.rtld, p.shared_libs)
           S == {end} \cup {Vm!End(r) : r \in {s \in {p.stack, p.scratch, p.initrd} : s.size > 0}}
           h == Vm!Highest(S)
           m == Vm!max_mapped_end(p)
<1>1. h \in Nat /\ \A y \in S : y <= h
  BY ZenonT(60), EndsHaveTop, HighestIsTop
<1>2. m \in Nat
  BY ZenonT(60), EndsHaveTop, HighestIsTop DEF Vm!max_mapped_end
<1>3. Vm!heap_base(p) \in Nat /\ h <= Vm!heap_base(p)
  BY Zenon, <1>1, AlignUp DEF Vm!heap_base
<1>4. \A r \in Vm!Regions(p) : r.size > 0 => Vm!End(r) <= h
  <2>1. \A r \in {p.stack, p.scratch, p.initrd} : r.size > 0 => Vm!End(r) <= h
    BY Zenon, <1>1
  <2>2. end <= h
    BY Zenon, <1>1
  <2> HIDE DEF h, S
  <2>3. \A r \in {p.elf_code, p.rtld, p.shared_libs} : r.size > 0 => Vm!End(r) \in Nat /\ Vm!End(r) <= end /\ end \in Nat
    BY DEF SoundPlan, Chain, Shape, Vm!End
  <2>4. Vm!End(p.ipc_buf) <= p.elf_code.base /\ Vm!End(p.ipc_buf) \in Nat /\ p.elf_code.base <= end /\ p.elf_code.base \in Nat /\ end \in Nat
    BY DEF SoundPlan, Chain, Vm!Region, Shape, Vm!End, Vm!IPC_BUF_BASE, Vm!ELF_CODE_BASE, Vm!Page
  <2>5. QED
    BY <1>1, <2>1, <2>2, <2>3, <2>4 DEF Vm!Regions
<1>5. \A r \in Vm!Regions(p) : r.size > 0 => Vm!End(r) \in Nat
  BY DEF SoundPlan, Chain, Vm!Region, Vm!Regions, Shape, Vm!End, Vm!IPC_BUF_BASE, Vm!Page
<1> HIDE DEF h, S, m
<1>6. \A r \in Vm!Regions(p) : r.size > 0 => Vm!End(r) <= Vm!heap_base(p)
  BY <1>1, <1>3, <1>4, <1>5
<1>7. Vm!compute_mmap_base(p, Vm!heap_base(p)) >= Vm!heap_base(p) + Vm!MMAP_BASE_GAP
  <2>1. HasTop({m, Vm!heap_base(p)})
    <3>1. CASE m <= Vm!heap_base(p)
      BY <1>2, <1>3, <3>1 DEF HasTop
    <3>2. CASE Vm!heap_base(p) <= m
      BY <1>2, <1>3, <3>2 DEF HasTop
    <3>3. QED
      BY <1>2, <1>3, <3>1, <3>2
  <2>2. Vm!Highest({m, Vm!heap_base(p)}) \in Nat /\ Vm!heap_base(p) <= Vm!Highest({m, Vm!heap_base(p)})
    BY Zenon, <2>1, HighestIsTop
  <2>3. Vm!Highest({m, Vm!heap_base(p)}) + Vm!MMAP_BASE_GAP \in Nat
    BY <2>2 DEF Vm!MMAP_BASE_GAP, Vm!Page
  <2>4. Vm!page_align_up(Vm!Highest({m, Vm!heap_base(p)}) + Vm!MMAP_BASE_GAP) >= Vm!Highest({m, Vm!heap_base(p)}) + Vm!MMAP_BASE_GAP
        /\ Vm!page_align_up(Vm!Highest({m, Vm!heap_base(p)}) + Vm!MMAP_BASE_GAP) \in Nat
    BY Zenon, <2>3, AlignUp
  <2>5. QED
    BY <1>3, <2>2, <2>3, <2>4 DEF Vm!compute_mmap_base, m, Vm!MMAP_BASE_GAP, Vm!Page
<1>8. QED
  BY Zenon, <1>6, <1>7 DEF Vm!HeapAboveAll

-----------------------------------------------------------------------------
(* Whatever compute_vm_layout and compute_vm_layout_randomized were asked  *)
(* for, the plan last computed is sound.                                   *)
LEMMA PlanAlwaysSound == ASSUME Vm!VmLayoutAssumption PROVE Vm!Spec => []SoundPlan(v_plan)
<1>1. Vm!Init => SoundPlan(v_plan)
  BY Zenon, FixedSound DEF Vm!Init, Vm!NoPlan
<1>2. SoundPlan(v_plan) /\ [Vm!Next]_Vm!layoutVars => SoundPlan(v_plan)'
  <2> SUFFICES ASSUME SoundPlan(v_plan), [Vm!Next]_Vm!layoutVars PROVE SoundPlan(v_plan')
    BY Zenon DEF SoundPlan
  <2>1. CASE Vm!Fixed
    BY <2>1, FixedSound DEF Vm!Fixed, Vm!Lay, Vm!VmLayoutAssumption
  <2>2. CASE Vm!Randomized
    BY <2>2, RandomizedSound DEF Vm!Randomized, Vm!Lay, Vm!VmLayoutAssumption
  <2>3. CASE Vm!Divide \/ UNCHANGED Vm!layoutVars
    BY Zenon, <2>3 DEF Vm!Divide, Vm!layoutVars
  <2>4. QED
    BY Zenon, <2>1, <2>2, <2>3 DEF Vm!Next
<1>3. QED
  BY <1>1, <1>2, PTL DEF Vm!Spec

(* No two regions of a child's address space overlap, for every size of    *)
(* image and initrd and every random slide.                                *)
THEOREM LayoutDisjoint == ASSUME Vm!VmLayoutAssumption PROVE Vm!Spec => []Vm!RegionsDisjoint
BY PlanAlwaysSound, SoundDisjoint, PTL

(* The heap starts above every mapped region and mmap 256 MiB above the    *)
(* heap, for every size of image and initrd and every random slide.        *)
THEOREM LayoutHeapAbove == ASSUME Vm!VmLayoutAssumption PROVE Vm!Spec => []Vm!HeapAboveAll
BY PlanAlwaysSound, SoundHeap, PTL

-----------------------------------------------------------------------------
(* A CNode is divided soundly. *)
SoundCspace(c) ==
    LET Apart(a, b) == a[1] >= a[2] \/ b[1] >= b[2] \/ a[2] <= b[1] \/ b[2] <= a[1]
    IN /\ Apart(c.alloc, c.recv) /\ Apart(c.alloc, c.expand)
       /\ c.total > Vm!AUTHORITY_RECV_SLOT_COUNT => Apart(c.recv, c.expand)
       /\ c.alloc[2] <= c.total
       /\ c.alloc[1] < c.alloc[2] => c.alloc[1] >= Vm!CHILD_FRAME_SLOT_BASE

(* compute_cspace_layout for a CNode whose size is no number between the  *)
(* receive reserve and twice it.                                          *)
LEMMA CspaceSound ==
    ASSUME NEW bits \in Nat, NEW floor \in Nat, NEW authority \in BOOLEAN, NEW window \in BOOLEAN,
           bits < 63 => 2^bits \in Nat /\ 2^bits \notin 1025 .. 2047
    PROVE  SoundCspace(Vm!compute_cspace_layout(bits, floor, authority, window))
<1> DEFINE total == IF bits >= 63 THEN 0 ELSE 2^bits
           frame == IF floor > Vm!CHILD_FRAME_SLOT_BASE THEN floor ELSE Vm!CHILD_FRAME_SLOT_BASE
           recv == IF authority /\ total # 0
                   THEN <<total - Vm!Least(total, Vm!AUTHORITY_RECV_SLOT_COUNT), total>> ELSE <<0, 0>>
           win == <<Vm!Least(total, Vm!CSPACE_EXPAND_BASE),
                    Vm!Least(total, Vm!CSPACE_EXPAND_BASE + Vm!MAX_CSPACE_EXPANSIONS)>>
           expand == IF window /\ win[2] > win[1] THEN win ELSE <<0, 0>>
           limit == Vm!AllocLimit(total, expand, recv)
           c == [total |-> total, frame |-> frame, recv |-> recv, expand |-> expand,
                 alloc |-> <<Vm!Least(frame, limit), limit>>]
<1> USE DEF Vm!CHILD_FRAME_SLOT_BASE, Vm!AUTHORITY_RECV_SLOT_COUNT, Vm!CSPACE_EXPAND_BASE, Vm!MAX_CSPACE_EXPANSIONS
<1>1. Vm!compute_cspace_layout(bits, floor, authority, window) = c
    BY Zenon DEF Vm!compute_cspace_layout
<1>2. total \in Nat /\ total \notin 1025 .. 2047
    OBVIOUS
<1>3. frame \in Nat /\ frame >= 64
    OBVIOUS
<1> HIDE DEF total, frame
<1>4. PICK r1 \in Nat, r2 \in Nat :
          recv = <<r1, r2>> /\ (r2 > r1 => r2 = total /\ (total > 1024 => r1 = total - 1024))
    BY <1>2 DEF Vm!Least
<1>5. PICK e1 \in Nat, e2 \in Nat : expand = <<e1, e2>> /\ (e2 > e1 => e2 <= 1016)
    BY <1>2 DEF Vm!Least
<1> HIDE DEF recv, expand
<1>6. /\ limit \in Nat /\ limit <= total
      /\ e2 > e1 => limit <= e1
      /\ r2 > r1 => limit <= r1
    <2>1. /\ expand[1] = e1 /\ expand[2] = e2 /\ recv[1] = r1 /\ recv[2] = r2
          /\ {expand[1], expand[2], recv[1], recv[2]} \subseteq Nat
        BY <1>4, <1>5
    <2>2. /\ limit \in Nat /\ limit <= total
          /\ expand[2] > expand[1] => limit <= expand[1]
          /\ recv[2] > recv[1] => limit <= recv[1]
        BY <1>2, <2>1 DEF Vm!AllocLimit, Vm!Below, Vm!Least
    <2> HIDE DEF limit
    <2> QED
        BY <2>1, <2>2
<1> HIDE DEF limit
<1>7. PICK a \in Nat : a = Vm!Least(frame, limit) /\ (a < limit => a >= 64)
    BY <1>3, <1>6 DEF Vm!Least
<1>8. c.total = total /\ c.recv = <<r1, r2>> /\ c.expand = <<e1, e2>> /\ c.alloc = <<a, limit>>
    BY <1>4, <1>5, <1>7
<1> HIDE DEF c
<1>9. SoundCspace(c)
    BY <1>2, <1>4, <1>5, <1>6, <1>7, <1>8 DEF SoundCspace
<1> QED
    BY <1>1, <1>9

(* The slots an allocator hands out, the receive slots and the expansion   *)
(* window never overlap, for every CNode size and frame floor:             *)
(* SlotRangesDisjoint.                                                     *)
THEOREM LayoutSlotsApart == ASSUME Vm!VmLayoutAssumption PROVE Vm!Spec => []Vm!SlotRangesDisjoint
<1>1. Vm!Init => SoundCspace(v_cspace)
    <2>1. 63 \in Nat /\ 0 \in Nat /\ ~ (63 < 63)
        OBVIOUS
    <2>2. FALSE \in BOOLEAN
        BY ZenonT(60)
    <2>3. SoundCspace(Vm!NoCspace)
        BY ZenonT(60), <2>1, <2>2, CspaceSound DEF Vm!NoCspace
    <2> QED
        BY Zenon, <2>3 DEF Vm!Init
<1>2. SoundCspace(v_cspace) /\ [Vm!Next]_Vm!layoutVars => SoundCspace(v_cspace)'
    <2> SUFFICES ASSUME SoundCspace(v_cspace), [Vm!Next]_Vm!layoutVars PROVE SoundCspace(v_cspace')
        BY Zenon DEF SoundCspace
    <2>1. CASE Vm!Divide
        <3>1. PICK b \in CnodeBits, f \in FrameFloors, a \in BOOLEAN, x \in BOOLEAN :
                  v_cspace' = Vm!compute_cspace_layout(b, f, a, x)
            BY Zenon, <2>1 DEF Vm!Divide
        <3>2. b \in Nat /\ f \in Nat /\ (b < 63 => 2^b \in Nat /\ 2^b \notin 1025 .. 2047)
            BY DEF Vm!VmLayoutAssumption
        <3> QED
            BY <3>1, <3>2, CspaceSound
    <2>2. CASE Vm!Fixed \/ Vm!Randomized \/ UNCHANGED Vm!layoutVars
        BY Zenon, <2>2 DEF Vm!Fixed, Vm!Randomized, Vm!Lay, Vm!layoutVars
    <2> QED
        BY Zenon, <2>1, <2>2 DEF Vm!Next
<1>3. SoundCspace(v_cspace) => Vm!SlotRangesDisjoint
    BY Zenon DEF SoundCspace, Vm!SlotRangesDisjoint
<1> QED
    BY <1>1, <1>2, <1>3, PTL DEF Vm!Spec

-----------------------------------------------------------------------------
(***************************************************************************)
(* Startup capabilities arrive: for every set of roles, every table size   *)
(* and any sequence of pushes, failed ones included, a role pushed once    *)
(* reaches its symbol in the child and lookup finds the same slot.         *)
(*                                                                         *)
(* The invariant relates the builder's entries to the pushes that were     *)
(* stored: they have the same pairs of role and slot, and two entries of a *)
(* role mean two stored pushes of it.                                      *)
(***************************************************************************)

(* Slot s was stored for the role, as a push and as an entry. *)
PushedAt(i, r) == i \in Cap!Stored /\ k_pushed[i].role = r
EntryAt(e, r) == e \in DOMAIN k_entries /\ k_entries[e].role = r

(* The builder's entries are the pushes that were stored. *)
BuilderTypes ==
    /\ k_entries \in Seq([role : Cap!Roles, slot : Nat])
    /\ k_pushed \in Seq([role : Cap!Roles, slot : Nat, answer : {"skipped", "SlotOutOfRange", "Overflow", "stored"}])
EntriesPushed ==
    \A e \in DOMAIN k_entries :
        \E i \in Cap!Stored : k_pushed[i].role = k_entries[e].role /\ k_pushed[i].slot = k_entries[e].slot
PushesEntered ==
    \A i \in Cap!Stored :
        \E e \in DOMAIN k_entries : k_entries[e].role = k_pushed[i].role /\ k_entries[e].slot = k_pushed[i].slot
TwiceEntered ==
    \A r, e, f : EntryAt(e, r) /\ EntryAt(f, r) /\ e # f =>
        \E i, j : PushedAt(i, r) /\ PushedAt(j, r) /\ i # j
BuilderInv == BuilderTypes /\ EntriesPushed /\ PushesEntered /\ TwiceEntered

(* The child, before and after it installs the symbols. *)
ChildInv ==
    /\ k_phase \in {"build", "written", "installed"}
    /\ k_phase # "build" => k_page = Cap!Blank \/ k_page = [valid |-> TRUE, entries |-> k_entries]
    /\ k_phase # "installed" => k_symbol = [r \in SystemRoles |-> 0]
    /\ Cap!RolesArrive /\ Cap!ReadersAgree

CapInv == BuilderInv /\ ChildInv

LEMMA CapInit ==
    ASSUME Cap!CapTableAssumption, Cap!Init
    PROVE  CapInv
<1>1. DOMAIN k_entries = {} /\ Cap!Stored = {}
    BY DEF Cap!Init, Cap!Stored
<1>2. BuilderInv
    BY <1>1 DEF Cap!Init, BuilderInv, BuilderTypes, EntriesPushed, PushesEntered, TwiceEntered, EntryAt
<1>3. ChildInv
    BY Zenon DEF Cap!Init, ChildInv, Cap!RolesArrive, Cap!ReadersAgree
<1> QED
    BY Zenon, <1>2, <1>3 DEF CapInv

(* A slot number that fits its field is stored as it is. *)
LEMMA SmallRemainder ==
    ASSUME NEW s \in Nat, NEW max \in Nat, ~(s > max)
    PROVE  s % (max + 1) = s
<1> DEFINE m == max + 1
           q == s \div m
<1>1. m \in Nat \ {0} /\ s < m
    OBVIOUS
<1> HIDE DEF m
<1>2. q \in Int /\ s % m \in 0 .. (m - 1) /\ s = m * q + (s % m)
    BY <1>1
<1> HIDE DEF q
<1>3. ~(q >= 1)
    <2> SUFFICES ASSUME q >= 1 PROVE FALSE
        OBVIOUS
    <2>1. PICK d \in Nat : q = 1 + d
        <3>1. q - 1 \in Nat /\ q = 1 + (q - 1)
            BY <1>2
        <3> QED
            BY ZenonT(60), <3>1
    <2>2. m * q = m + m * d /\ m * d \in Nat
        BY <1>1, <2>1
    <2> QED
        BY <1>1, <1>2, <2>2
<1>4. ~(q <= -1)
    <2> SUFFICES ASSUME q <= -1 PROVE FALSE
        OBVIOUS
    <2>1. PICK d \in Nat : q = -1 - d
        <3>1. -1 - q \in Nat /\ q = -1 - (-1 - q)
            BY <1>2
        <3> QED
            BY ZenonT(60), <3>1
    <2>2. m * q = -m - m * d /\ m * d \in Nat
        BY <1>1, <2>1
    <2> QED
        BY <1>1, <1>2, <2>2
<1>5. q = 0 /\ m * 0 = 0
    BY <1>1, <1>2, <1>3, <1>4
<1> QED
    BY <1>1, <1>2, <1>5 DEF m

(* A push that is stored is the last of both sequences. *)
LEMMA PushKeeps ==
    ASSUME Cap!CapTableAssumption, BuilderInv, NEW r \in Cap!Roles, NEW s \in CapSlots, Cap!push(r, s)
    PROVE  BuilderInv'
<1> DEFINE a == Cap!PushAnswer(s)
           n == Len(k_pushed) + 1
           m == Len(k_entries) + 1
           item == [role |-> r, slot |-> s, answer |-> a]
           PushSet == [role : Cap!Roles, slot : Nat, answer : {"skipped", "SlotOutOfRange", "Overflow", "stored"}]
           EntrySet == [role : Cap!Roles, slot : Nat]
<1>1. /\ s \in Nat /\ SlotMax \in Nat
      /\ k_entries \in Seq(EntrySet) /\ k_pushed \in Seq(PushSet)
    BY Zenon DEF Cap!CapTableAssumption, BuilderInv, BuilderTypes
<1>2. a \in {"skipped", "SlotOutOfRange", "Overflow", "stored"} /\ (a = "stored" => s % (SlotMax + 1) = s)
    <2>1. a \in {"skipped", "SlotOutOfRange", "Overflow", "stored"} /\ (a = "stored" => ~(s > SlotMax))
        BY ZenonT(60) DEF Cap!PushAnswer
    <2>2. ~(s > SlotMax) => s % (SlotMax + 1) = s
        BY Zenon, <1>1, SmallRemainder
    <2> QED
        BY ZenonT(60), <2>1, <2>2
<1>3. k_pushed' = Append(k_pushed, item)
    BY Zenon DEF Cap!push
<1>4. item \in PushSet /\ item.role = r /\ item.slot = s /\ item.answer = a
    BY Zenon, <1>1, <1>2
<1>5. k_entries' = IF a = "stored" THEN Append(k_entries, [role |-> r, slot |-> s]) ELSE k_entries
    BY Zenon, <1>2 DEF Cap!push
<1> HIDE DEF item, a, PushSet, EntrySet
<1>6. /\ k_pushed' \in Seq(PushSet) /\ DOMAIN k_pushed' = DOMAIN k_pushed \cup {n} /\ n \notin DOMAIN k_pushed
      /\ k_pushed'[n] = item /\ \A i \in DOMAIN k_pushed : k_pushed'[i] = k_pushed[i]
    BY <1>1, <1>3, <1>4
<1> HIDE DEF n
<1>7. CASE a # "stored"
    <2>1. Cap!Stored' = Cap!Stored /\ \A i \in Cap!Stored : k_pushed'[i] = k_pushed[i]
        BY Zenon, <1>4, <1>6, <1>7 DEF Cap!Stored
    <2>2. k_entries' = k_entries
        BY Zenon, <1>5, <1>7
    <2>3. \A i, q : PushedAt(i, q)' <=> PushedAt(i, q)
        BY Zenon, <2>1 DEF PushedAt
    <2>4. \A e, q : EntryAt(e, q)' <=> EntryAt(e, q)
        BY Zenon, <2>2 DEF EntryAt
    <2>5. k_pushed' \in Seq([role : Cap!Roles, slot : Nat, answer : {"skipped", "SlotOutOfRange", "Overflow", "stored"}])
        BY Zenon, <1>6 DEF PushSet
    <2> QED
        <3>1. BuilderTypes'
            BY Zenon, <2>2, <2>5 DEF BuilderInv, BuilderTypes
        <3>2. EntriesPushed' /\ PushesEntered'
            BY <2>1, <2>2 DEF BuilderInv, EntriesPushed, PushesEntered
        <3>3. TwiceEntered'
            BY ZenonT(60), <2>3, <2>4 DEF BuilderInv, TwiceEntered
        <3> QED
            BY ZenonT(60), <3>1, <3>2, <3>3 DEF BuilderInv
<1>8. CASE a = "stored"
    <2> DEFINE new == [role |-> r, slot |-> s]
    <2>1. new \in EntrySet /\ new.role = r /\ new.slot = s
        BY Zenon, <1>1 DEF EntrySet
    <2>2. k_entries' = Append(k_entries, new)
        BY Zenon, <1>5, <1>8
    <2> HIDE DEF new
    <2>3. /\ k_entries' \in Seq(EntrySet) /\ DOMAIN k_entries' = DOMAIN k_entries \cup {m} /\ m \notin DOMAIN k_entries
          /\ k_entries'[m] = new /\ \A e \in DOMAIN k_entries : k_entries'[e] = k_entries[e]
        BY <1>1, <2>1, <2>2
    <2> HIDE DEF m
    <2>4. Cap!Stored' = Cap!Stored \cup {n} /\ n \notin Cap!Stored /\ \A i \in Cap!Stored : k_pushed'[i] = k_pushed[i]
        BY Zenon, <1>4, <1>6, <1>8 DEF Cap!Stored
    <2>5. \A e \in DOMAIN k_entries' :
              \E i \in Cap!Stored' : k_pushed'[i].role = k_entries'[e].role /\ k_pushed'[i].slot = k_entries'[e].slot
        <3> TAKE e \in DOMAIN k_entries'
        <3>1. CASE e = m
            BY ZenonT(60), <3>1, <1>4, <1>6, <2>1, <2>3, <2>4
        <3>2. CASE e \in DOMAIN k_entries
            BY <3>2, <2>3, <2>4 DEF BuilderInv, EntriesPushed
        <3> QED
            BY Zenon, <2>3, <3>1, <3>2
    <2>6. \A i \in Cap!Stored' :
              \E e \in DOMAIN k_entries' : k_entries'[e].role = k_pushed'[i].role /\ k_entries'[e].slot = k_pushed'[i].slot
        <3> TAKE i \in Cap!Stored'
        <3>1. CASE i = n
            BY Zenon, <3>1, <1>4, <1>6, <2>1, <2>3, <2>4
        <3>2. CASE i \in Cap!Stored
            BY <3>2, <2>3, <2>4 DEF BuilderInv, PushesEntered
        <3> QED
            BY Zenon, <2>4, <3>1, <3>2
    <2>7. \A i, q : PushedAt(i, q)' <=> PushedAt(i, q) \/ (i = n /\ q = r)
        BY Zenon, <1>4, <1>6, <2>4 DEF PushedAt
    <2>8. \A e, q : EntryAt(e, q)' <=> EntryAt(e, q) \/ (e = m /\ q = r)
        BY Zenon, <2>1, <2>3 DEF EntryAt
    <2>9. \A q, e : EntryAt(e, q) => \E i : PushedAt(i, q)
        BY Zenon DEF BuilderInv, EntriesPushed, EntryAt, PushedAt
    <2>10. \A q, i : PushedAt(i, q) => i # n
        BY Zenon, <2>4 DEF PushedAt
    <2>11. ASSUME NEW q, NEW e, NEW f, EntryAt(e, q)', EntryAt(f, q)', e # f
           PROVE  \E i, j : PushedAt(i, q)' /\ PushedAt(j, q)' /\ i # j
        <3>1. CASE EntryAt(e, q) /\ EntryAt(f, q)
            <4>1. PICK i, j : PushedAt(i, q) /\ PushedAt(j, q) /\ i # j
                BY ZenonT(60), <2>11, <3>1 DEF BuilderInv, TwiceEntered
            <4> QED
                BY ZenonT(60), <4>1, <2>7
        <3>2. CASE EntryAt(e, q) /\ f = m /\ q = r
            BY ZenonT(60), <3>2, <2>7, <2>9, <2>10
        <3>3. CASE EntryAt(f, q) /\ e = m /\ q = r
            BY ZenonT(60), <3>3, <2>7, <2>9, <2>10
        <3> QED
            BY ZenonT(60), <2>8, <2>11, <3>1, <3>2, <3>3
    <2>12. /\ k_entries' \in Seq([role : Cap!Roles, slot : Nat])
           /\ k_pushed' \in Seq([role : Cap!Roles, slot : Nat, answer : {"skipped", "SlotOutOfRange", "Overflow", "stored"}])
        BY Zenon, <1>6, <2>3 DEF PushSet, EntrySet
    <2> QED
        BY ZenonT(60), <2>5, <2>6, <2>11, <2>12 DEF BuilderInv, BuilderTypes, EntriesPushed, PushesEntered, TwiceEntered
<1> QED
    BY Zenon, <1>7, <1>8

(* The table counts as the theorems about finite sets do. *)
LEMMA CapCounts ==
    \A S : Cap!Cardinality(S) = Cardinality(S) /\ (Cap!IsFiniteSet(S) <=> IsFiniteSet(S))
BY Zenon DEF Cap!Cardinality, Cardinality, Cap!IsFiniteSet, IsFiniteSet

(* A set with at most one element has no two. *)
LEMMA AtMostOneElement ==
    ASSUME NEW T, IsFiniteSet(T), Cardinality(T) <= 1, NEW x \in T, NEW y \in T
    PROVE  x = y
<1> SUFFICES ASSUME x # y PROVE FALSE
    OBVIOUS
<1>1. IsFiniteSet({x}) /\ Cardinality({x}) = 1
    BY ZenonT(60), FS_Singleton
<1>2. Cardinality({x} \cup {y}) = 2
    <2>1. y \notin {x}
        OBVIOUS
    <2>2. Cardinality({x} \cup {y}) = Cardinality({x}) + 1
        BY ZenonT(60), <1>1, <2>1, FS_AddElement
    <2> QED
        BY <1>1, <2>2
<1>3. Cardinality({x} \cup {y}) <= Cardinality(T)
    BY Zenon, FS_Subset
<1>4. Cardinality(T) \in Nat
    BY Zenon, FS_CardinalityType
<1> QED
    BY <1>2, <1>3, <1>4

(* A role pushed once has at most one entry. *)
LEMMA OnceMeansOne ==
    ASSUME BuilderInv, NEW r, Cap!Once(r), NEW e, NEW f, EntryAt(e, r), EntryAt(f, r)
    PROVE  e = f
<1> DEFINE T == {i \in Cap!Stored : k_pushed[i].role = r}
<1>1. IsFiniteSet(T) /\ Cardinality(T) <= 1
    <2>1. T \subseteq 1 .. Len(k_pushed) /\ Len(k_pushed) \in Nat
        BY DEF BuilderInv, BuilderTypes, Cap!Stored
    <2>2. IsFiniteSet(1 .. Len(k_pushed))
        BY <2>1, FS_Interval
    <2>3. Cardinality(T) <= 1
        BY Zenon, CapCounts DEF Cap!Once
    <2> QED
        BY Zenon, <2>1, <2>2, <2>3, FS_Subset
<1>2. \A i : PushedAt(i, r) => i \in T
    BY Zenon DEF PushedAt
<1> HIDE DEF T
<1>3. \A i, j : PushedAt(i, r) /\ PushedAt(j, r) => i = j
    BY Zenon, <1>1, <1>2, AtMostOneElement
<1> QED
    BY ZenonT(60), <1>3 DEF BuilderInv, TwiceEntered

(* The sweep of install_well_known_caps. *)
LEMMA InstallKeeps ==
    ASSUME Cap!CapTableAssumption, CapInv, Cap!install_well_known_caps
    PROVE  Cap!RolesArrive' /\ Cap!ReadersAgree'
<1>1. /\ k_phase = "written" /\ k_symbol' = [r \in SystemRoles |-> Cap!Installed(r)]
      /\ k_page' = k_page /\ k_entries' = k_entries /\ k_pushed' = k_pushed
    BY Zenon DEF Cap!install_well_known_caps
<1>2. k_symbol = [r \in SystemRoles |-> 0] /\ (k_page = Cap!Blank \/ k_page = [valid |-> TRUE, entries |-> k_entries])
    BY Zenon, <1>1 DEF CapInv, ChildInv
<1>3. Cap!Stored' = Cap!Stored
    BY Zenon, <1>1 DEF Cap!Stored
<1>4. SUFFICES ASSUME NEW r \in SystemRoles, Cap!Once(r)
               PROVE  /\ IF k_page.valid /\ \E i \in Cap!Stored : k_pushed[i].role = r
                         THEN \E i \in Cap!Stored : k_pushed[i].role = r /\ k_symbol'[r] = k_pushed[i].slot
                         ELSE k_symbol'[r] = 0
                      /\ k_symbol'[r] = Cap!lookup(r)
    <2>1. \A r : Cap!Once(r)' <=> Cap!Once(r)
        BY Zenon, <1>1, <1>3 DEF Cap!Once
    <2>2. \A r : Cap!lookup(r)' = Cap!lookup(r)
        BY <1>1 DEF Cap!lookup
    <2> QED
        BY ZenonT(60), <1>1, <1>3, <2>1, <2>2 DEF Cap!RolesArrive, Cap!ReadersAgree
<1>5. k_symbol'[r] = Cap!Installed(r) /\ k_symbol[r] = 0
    BY Zenon, <1>1, <1>2
<1>6. CASE k_page = Cap!Blank
    <2>1. k_page.valid = FALSE
        BY ZenonT(60), <1>6 DEF Cap!Blank
    <2>2. ~ k_page.valid
        BY ZenonT(60), <2>1
    <2>3. Cap!Installed(r) = k_symbol[r] /\ Cap!lookup(r) = 0
        BY ZenonT(60), <2>2 DEF Cap!Installed, Cap!lookup
    <2>4. k_symbol'[r] = 0 /\ Cap!lookup(r) = 0
        BY Zenon, <1>5, <2>3
    <2> QED
        BY ZenonT(60), <2>2, <2>4
<1>7. CASE k_page = [valid |-> TRUE, entries |-> k_entries]
    <2> DEFINE of == {i \in DOMAIN k_entries : k_entries[i].role = r}
    <2>1. k_page.valid = TRUE
        BY ZenonT(60), <1>7
    <2>2. k_page.entries = k_entries
        BY Zenon, <1>7
    <2>3. CASE of = {}
        <3>1. ~ \E i \in Cap!Stored : k_pushed[i].role = r
            BY Zenon, <2>3 DEF CapInv, BuilderInv, PushesEntered
        <3>2. Cap!Installed(r) = 0 /\ Cap!lookup(r) = 0
            BY Zenon, <1>5, <2>2, <2>3 DEF Cap!Installed, Cap!lookup
        <3> QED
            BY Zenon, <1>5, <3>1, <3>2
    <2>4. CASE of # {}
        <3>1. PICK e : e \in of
            BY Zenon, <2>4
        <3>2. of = {e}
            <4>1. \A f \in of : EntryAt(f, r)
                BY Zenon DEF EntryAt
            <4>2. BuilderInv /\ Cap!Once(r)
                BY Zenon, <1>4 DEF CapInv
            <4>3. \A f \in of : f = e
                BY ZenonT(60), <3>1, <4>1, <4>2, OnceMeansOne
            <4> QED
                BY ZenonT(60), <3>1, <4>3
        <3>3. e \in Nat
            BY <3>1 DEF CapInv, BuilderInv, BuilderTypes
        <3>4. (CHOOSE i \in {e} : \A j \in {e} : i <= j) = e /\ (CHOOSE i \in {e} : \A j \in {e} : j <= i) = e
            BY <3>3
        <3>5. Cap!Installed(r) = k_entries[e].slot /\ Cap!lookup(r) = k_entries[e].slot
            <4>1. {i \in DOMAIN k_page.entries : k_page.entries[i].role = r} = {e}
                BY Zenon, <2>2, <3>2
            <4> QED
                BY ZenonT(60), <2>1, <2>2, <3>4, <4>1 DEF Cap!Installed, Cap!lookup
        <3>6. PICK i \in Cap!Stored : k_pushed[i].role = k_entries[e].role /\ k_pushed[i].slot = k_entries[e].slot
            BY Zenon, <3>1 DEF CapInv, BuilderInv, EntriesPushed
        <3>7. k_entries[e].role = r
            BY Zenon, <3>1
        <3>8. (\E k \in Cap!Stored : k_pushed[k].role = r) /\ \E k \in Cap!Stored : k_pushed[k].role = r /\ k_symbol'[r] = k_pushed[k].slot
            BY Zenon, <1>5, <3>5, <3>6, <3>7
        <3>9. k_symbol'[r] = Cap!lookup(r)
            BY Zenon, <1>5, <3>5
        <3> QED
            BY ZenonT(60), <2>1, <3>8, <3>9
    <2> QED
        BY ZenonT(60), <2>3, <2>4
<1> QED
    BY ZenonT(60), <1>2, <1>6, <1>7

(* Every role a spawner pushed once reaches its symbol in the child, and   *)
(* lookup and installation agree on it: RolesArrive and ReadersAgree for   *)
(* every table size and any sequence of pushes.                            *)
THEOREM CapabilitiesReachChild ==
    ASSUME Cap!CapTableAssumption
    PROVE  Cap!Spec => [](Cap!RolesArrive /\ Cap!ReadersAgree)
<1>1. Cap!Init => CapInv
    BY Zenon, CapInit, Cap!CapTableAssumption
<1>2. CapInv /\ [Cap!Next]_Cap!capVars => CapInv'
    <2> SUFFICES ASSUME CapInv, [Cap!Next]_Cap!capVars PROVE CapInv'
        OBVIOUS
    <2>1. ASSUME NEW r \in Cap!Roles, NEW s \in CapSlots, Cap!push(r, s) PROVE CapInv'
        <3>1. BuilderInv'
            BY Zenon, <2>1, PushKeeps, Cap!CapTableAssumption DEF CapInv
        <3>2. ChildInv'
            BY Zenon, <2>1 DEF CapInv, ChildInv, Cap!push, Cap!RolesArrive, Cap!ReadersAgree
        <3> QED
            BY Zenon, <3>1, <3>2 DEF CapInv
    <2>2. CASE Cap!write_at
        <3>1. BuilderInv'
            BY <2>2 DEF CapInv, BuilderInv, BuilderTypes, EntriesPushed, PushesEntered, TwiceEntered, Cap!write_at, Cap!Stored, PushedAt, EntryAt
        <3>2. ChildInv'
            BY Zenon, <2>2 DEF CapInv, ChildInv, Cap!write_at, Cap!RolesArrive, Cap!ReadersAgree
        <3> QED
            BY Zenon, <3>1, <3>2 DEF CapInv
    <2>3. CASE Cap!install_well_known_caps
        <3>1. BuilderInv'
            BY <2>3 DEF CapInv, BuilderInv, BuilderTypes, EntriesPushed, PushesEntered, TwiceEntered, Cap!install_well_known_caps, Cap!Stored, PushedAt, EntryAt
        <3>2. Cap!RolesArrive' /\ Cap!ReadersAgree'
            BY Zenon, <2>3, InstallKeeps, Cap!CapTableAssumption
        <3>3. ChildInv'
            BY Zenon, <2>3, <3>2 DEF CapInv, ChildInv, Cap!install_well_known_caps
        <3> QED
            BY Zenon, <3>1, <3>3 DEF CapInv
    <2>4. CASE UNCHANGED Cap!capVars
        <3>1. BuilderInv'
            BY <2>4 DEF CapInv, BuilderInv, BuilderTypes, EntriesPushed, PushesEntered, TwiceEntered, Cap!capVars, Cap!Stored, PushedAt, EntryAt
        <3>2. Cap!RolesArrive' /\ Cap!ReadersAgree'
            <4>1. k_phase' = k_phase /\ k_symbol' = k_symbol /\ k_page' = k_page /\ k_pushed' = k_pushed /\ Cap!Stored' = Cap!Stored
                BY Zenon, <2>4 DEF Cap!capVars, Cap!Stored
            <4>2. \A r : Cap!Once(r)' <=> Cap!Once(r)
                BY Zenon, <4>1 DEF Cap!Once
            <4>3. \A r : Cap!lookup(r)' = Cap!lookup(r)
                BY <4>1 DEF Cap!lookup
            <4> QED
                BY ZenonT(60), <4>1, <4>2, <4>3 DEF CapInv, ChildInv, Cap!RolesArrive, Cap!ReadersAgree
        <3>3. ChildInv'
            BY Zenon, <2>4, <3>2 DEF CapInv, ChildInv, Cap!capVars
        <3> QED
            BY Zenon, <3>1, <3>3 DEF CapInv
    <2> QED
        BY ZenonT(60), <2>1, <2>2, <2>3, <2>4 DEF Cap!Next
<1>3. CapInv => Cap!RolesArrive /\ Cap!ReadersAgree
    BY Zenon DEF CapInv, ChildInv
<1> QED
    BY <1>1, <1>2, <1>3, PTL DEF Cap!Spec

-----------------------------------------------------------------------------
(***************************************************************************)
(* The pending-request table hands every deferred request back exactly     *)
(* once, for every capacity, every width of the id and any number of       *)
(* requests: whatever callbacks come, late, duplicated or by context, the  *)
(* reply capability of a request is neither lost nor used twice.           *)
(*                                                                         *)
(* HandedBackOnce is not inductive: it needs that no two active entries    *)
(* hold the same request, that an active entry holds one that was          *)
(* deferred, and that alloc takes an entry that is free.                   *)
(***************************************************************************)

(* The scans of pending.rs stop at an entry they look for: First of a set *)
(* of slots is a member of it.                                            *)
LEMMA FirstIn ==
    ASSUME NEW S \in SUBSET Nat, S # {}
    PROVE  Pending!First(S) \in S
<1> DEFINE Less == OpToRel(<, Nat)
<1>1. IsWellFoundedOn(Less, Nat)
    BY ZenonT(60), NatLessThanWellFounded
<1>2. \A x, y \in Nat : <<y, x>> \in Less <=> y < x
    BY Zenon DEF OpToRel
<1> HIDE DEF Less
<1>3. PICK x \in S : \A y \in S : ~ (<<y, x>> \in Less)
    BY ZenonT(60), <1>1, WFMin
<1>4. \A y \in S : x <= y
    <2> TAKE y \in S
    <2>1. x \in Nat /\ y \in Nat
        OBVIOUS
    <2>2. ~ (y < x)
        BY ZenonT(60), <2>1, <1>2, <1>3
    <2> QED
        BY <2>1, <2>2
<1> QED
    BY ZenonT(60), <1>4 DEF Pending!First

(* Entry i is pending and holds the request with serial k. *)
Held(i, k) == q_entries[i].active /\ q_entries[i].serial = k

PendingInv ==
    /\ q_serials \in 0 .. MaxAllocs
    /\ DOMAIN q_entries = Pending!Slots
    /\ \A i \in Pending!Slots : DOMAIN q_entries[i] = DOMAIN Pending!zeroed /\ q_entries[i].active \in BOOLEAN
    /\ \A i \in Pending!Slots : q_entries[i].active => q_entries[i].serial \in 1 .. q_serials
    /\ \A i, j \in Pending!Slots : \A k : Held(i, k) /\ Held(j, k) => i = j
    /\ q_completed \in [1 .. MaxAllocs -> Nat]
    /\ \A k \in 1 .. MaxAllocs : q_completed[k] =
          IF k <= q_serials /\ ~ \E i \in Pending!Slots : Held(i, k) THEN 1 ELSE 0

(* Handing an active entry back preserves the invariant. *)
LEMMA HandBackInductive ==
    ASSUME Pending!PendingAssumption, PendingInv, NEW i \in Pending!Slots, q_entries[i].active, Pending!HandBack(i)
    PROVE  PendingInv'
<1> DEFINE s == q_entries[i].serial
<1>1. s \in 1 .. q_serials /\ s \in 1 .. MaxAllocs
    BY DEF PendingInv, Pending!PendingAssumption
<1>2. /\ q_entries' = [q_entries EXCEPT ![i] = Pending!zeroed]
      /\ q_completed' = [q_completed EXCEPT ![s] = q_completed[s] + 1]
      /\ q_serials' = q_serials
    BY Zenon DEF Pending!HandBack
<1>3. Pending!zeroed.active = FALSE
    BY Zenon DEF Pending!zeroed
<1>4. \A j \in Pending!Slots : \A k : Held(j, k)' <=> Held(j, k) /\ j # i
    BY Zenon, <1>2, <1>3 DEF Held, PendingInv
<1>5. Held(i, s)
    BY Zenon DEF Held
<1>6. q_completed[s] = 0
    BY Zenon, <1>1, <1>5 DEF PendingInv
<1>7. \A k \in 1 .. MaxAllocs : q_completed'[k] =
          IF k <= q_serials /\ ~ \E j \in Pending!Slots : Held(j, k)' THEN 1 ELSE 0
    <2> TAKE k \in 1 .. MaxAllocs
    <2>1. CASE k = s
        <3>1. ~ \E j \in Pending!Slots : Held(j, k)'
            BY <2>1, <1>4, <1>5 DEF PendingInv
        <3> QED
            BY <2>1, <3>1, <1>1, <1>2, <1>6 DEF PendingInv
    <2>2. CASE k # s
        <3>1. \A j \in Pending!Slots : Held(j, k)' <=> Held(j, k)
            BY Zenon, <2>2, <1>4 DEF Held
        <3> QED
            BY Zenon, <2>2, <3>1, <1>2 DEF PendingInv
    <2> QED
        BY Zenon, <2>1, <2>2
<1> HIDE DEF s
<1>8. q_completed' \in [1 .. MaxAllocs -> Nat]
    BY <1>1, <1>2 DEF PendingInv
<1>9. \A j \in Pending!Slots : DOMAIN q_entries'[j] = DOMAIN Pending!zeroed /\ q_entries'[j].active \in BOOLEAN
    BY ZenonT(60), <1>2, <1>3 DEF PendingInv
<1>10. \A j \in Pending!Slots : q_entries'[j].active => q_entries'[j].serial \in 1 .. q_serials
    BY Zenon, <1>2, <1>3 DEF PendingInv
<1>11. \A j, l \in Pending!Slots : \A k : Held(j, k)' /\ Held(l, k)' => j = l
    BY <1>4 DEF PendingInv
<1>12. DOMAIN q_entries' = Pending!Slots /\ q_serials' \in 0 .. MaxAllocs
    BY Zenon, <1>2 DEF PendingInv
<1> QED
    BY ZenonT(60), <1>2, <1>7, <1>8, <1>9, <1>10, <1>11, <1>12 DEF PendingInv, Pending!Slots

(* alloc takes a free entry for a request the table does not hold. *)
LEMMA AllocInductive ==
    ASSUME Pending!PendingAssumption, PendingInv, Pending!alloc
    PROVE  PendingInv'
<1> DEFINE i == Pending!First(Pending!Slots \ Pending!Active)
           new == [Pending!zeroed EXCEPT !.active = TRUE, !.request_id = q_next_id, !.serial = q_serials + 1]
<1>1. i \in Pending!Slots /\ ~q_entries[i].active
    <2>1. Pending!Slots \ Pending!Active \in SUBSET Nat /\ Pending!Slots \ Pending!Active # {}
        BY DEF Pending!alloc, Pending!Active, Pending!Slots
    <2>2. i \in Pending!Slots \ Pending!Active
        BY Zenon, <2>1, FirstIn
    <2> QED
        BY Zenon, <2>2 DEF Pending!Active
<1>2. /\ q_entries' = [q_entries EXCEPT ![i] = new]
      /\ q_serials' = q_serials + 1 /\ q_serials < MaxAllocs
      /\ q_completed' = q_completed
    BY Zenon DEF Pending!alloc
<1>3. new.active = TRUE /\ new.serial = q_serials + 1 /\ DOMAIN new = DOMAIN Pending!zeroed
    BY Zenon DEF Pending!zeroed
<1>4. q_serials \in Nat /\ q_serials' \in 0 .. MaxAllocs
    BY <1>2 DEF PendingInv, Pending!PendingAssumption
<1> HIDE DEF i, new
<1>5. \A j \in Pending!Slots : \A k : Held(j, k)' <=> (j # i /\ Held(j, k)) \/ (j = i /\ k = q_serials + 1)
    BY Zenon, <1>1, <1>2, <1>3 DEF Held, PendingInv
<1>6. \A j \in Pending!Slots : ~Held(j, q_serials + 1)
    BY <1>4 DEF Held, PendingInv
<1>7. \A j, l \in Pending!Slots : \A k : Held(j, k)' /\ Held(l, k)' => j = l
    BY <1>5, <1>6 DEF PendingInv
<1>8. \A k \in 1 .. MaxAllocs : q_completed'[k] =
          IF k <= q_serials' /\ ~ \E j \in Pending!Slots : Held(j, k)' THEN 1 ELSE 0
    <2> TAKE k \in 1 .. MaxAllocs
    <2>1. CASE k = q_serials + 1
        <3>1. \E j \in Pending!Slots : Held(j, k)'
            BY Zenon, <2>1, <1>1, <1>5
        <3>2. q_completed[k] = 0
            BY <2>1, <1>4 DEF PendingInv
        <3> QED
            BY Zenon, <3>1, <3>2, <1>2
    <2>2. CASE k # q_serials + 1
        <3>1. \A j \in Pending!Slots : Held(j, k)' <=> Held(j, k)
            BY Zenon, <2>2, <1>1, <1>5 DEF Held
        <3>2. k <= q_serials' <=> k <= q_serials
            BY <2>2, <1>2, <1>4
        <3> QED
            BY Zenon, <3>1, <3>2, <1>2 DEF PendingInv
    <2> QED
        BY Zenon, <2>1, <2>2
<1>9. \A j \in Pending!Slots : DOMAIN q_entries'[j] = DOMAIN Pending!zeroed /\ q_entries'[j].active \in BOOLEAN
    BY ZenonT(60), <1>2, <1>3 DEF PendingInv
<1>10. \A j \in Pending!Slots : q_entries'[j].active => q_entries'[j].serial \in 1 .. q_serials'
    BY <1>2, <1>3, <1>4 DEF PendingInv
<1>11. DOMAIN q_entries' = Pending!Slots
    BY Zenon, <1>2 DEF PendingInv
<1> QED
    BY Zenon, <1>2, <1>4, <1>7, <1>8, <1>9, <1>10, <1>11 DEF PendingInv, Pending!Slots

(* Filling in context and deadline moves no request. *)
LEMMA FindInductive ==
    ASSUME PendingInv, NEW id, NEW ctx, NEW deadline, Pending!find_by_id(id, ctx, deadline)
    PROVE  PendingInv'
<1> DEFINE i == Pending!First(Pending!WithId(id))
           new == [q_entries[i] EXCEPT !.context = ctx, !.deadline_ns = deadline]
<1>1. i \in Pending!Slots
    <2>1. Pending!WithId(id) \in SUBSET Nat /\ Pending!WithId(id) # {} /\ Pending!WithId(id) \subseteq Pending!Slots
        BY DEF Pending!find_by_id, Pending!WithId, Pending!Active, Pending!Slots
    <2> QED
        BY Zenon, <2>1, FirstIn
<1>2. q_entries' = [q_entries EXCEPT ![i] = new] /\ UNCHANGED <<q_serials, q_completed>>
    BY Zenon DEF Pending!find_by_id
<1>3. new.active = q_entries[i].active /\ new.serial = q_entries[i].serial /\ DOMAIN new = DOMAIN Pending!zeroed
    BY <1>1 DEF PendingInv, Pending!zeroed
<1> HIDE DEF i, new
<1>4. \A j \in Pending!Slots : /\ q_entries'[j].active = q_entries[j].active
                               /\ q_entries'[j].serial = q_entries[j].serial
                               /\ DOMAIN q_entries'[j] = DOMAIN Pending!zeroed
    BY Zenon, <1>1, <1>2, <1>3 DEF PendingInv
<1>5. \A j \in Pending!Slots : \A k : Held(j, k)' <=> Held(j, k)
    BY Zenon, <1>4 DEF Held
<1> QED
    BY ZenonT(60), <1>2, <1>4, <1>5 DEF PendingInv, Pending!Slots

(* The invariant holds throughout. *)
LEMMA PendingInvariant ==
    ASSUME Pending!PendingAssumption
    PROVE  Pending!Spec => []PendingInv
<1>1. Pending!Init => PendingInv
    <2> SUFFICES ASSUME Pending!Init PROVE PendingInv
        OBVIOUS
    <2>1. \A i \in Pending!Slots : q_entries[i] = Pending!zeroed /\ Pending!zeroed.active = FALSE
        BY Zenon DEF Pending!Init, Pending!zeroed
    <2>2. \A i \in Pending!Slots : \A k : ~Held(i, k)
        BY Zenon, <2>1 DEF Held
    <2>3. /\ q_serials = 0 /\ q_serials \in 0 .. MaxAllocs /\ DOMAIN q_entries = Pending!Slots
          /\ q_completed \in [1 .. MaxAllocs -> Nat] /\ \A k \in 1 .. MaxAllocs : q_completed[k] = 0
        BY DEF Pending!Init, Pending!PendingAssumption
    <2>4. \A k \in 1 .. MaxAllocs : ~ (k <= q_serials)
        BY <2>3
    <2> QED
        BY ZenonT(60), <2>1, <2>2, <2>3, <2>4 DEF PendingInv
<1>2. PendingInv /\ [Pending!Next]_Pending!pendingVars => PendingInv'
    <2> SUFFICES ASSUME PendingInv, [Pending!Next]_Pending!pendingVars PROVE PendingInv'
        OBVIOUS
    <2>1. CASE Pending!alloc
        BY Zenon, <2>1, AllocInductive, Pending!PendingAssumption
    <2>2. ASSUME NEW id, Pending!complete(id) PROVE PendingInv'
        <3>1. Pending!WithId(id) \in SUBSET Nat /\ Pending!WithId(id) # {} /\ Pending!WithId(id) \subseteq Pending!Active /\ Pending!Active \subseteq Pending!Slots
            BY <2>2 DEF Pending!complete, Pending!WithId, Pending!Active, Pending!Slots
        <3>2. Pending!First(Pending!WithId(id)) \in Pending!Active
            BY Zenon, <3>1, FirstIn
        <3> QED
            BY Zenon, <2>2, <3>1, <3>2, HandBackInductive, Pending!PendingAssumption DEF Pending!complete, Pending!Active
    <2>3. ASSUME NEW c, Pending!complete_by_context(c) PROVE PendingInv'
        <3> DEFINE matching == {i \in Pending!Active : q_entries[i].context = c}
        <3>1. matching \in SUBSET Nat /\ matching # {} /\ matching \subseteq Pending!Active /\ Pending!Active \subseteq Pending!Slots
            BY <2>3 DEF Pending!complete_by_context, Pending!Active, Pending!Slots
        <3>2. Pending!HandBack(Pending!First(matching))
            BY Zenon, <2>3 DEF Pending!complete_by_context
        <3> HIDE DEF matching
        <3>3. Pending!First(matching) \in Pending!Active
            BY ZenonT(60), <3>1, FirstIn
        <3> QED
            BY ZenonT(60), <3>1, <3>2, <3>3, HandBackInductive, Pending!PendingAssumption DEF Pending!Active
    <2>4. CASE UNCHANGED Pending!pendingVars
        BY <2>4 DEF Pending!pendingVars, PendingInv, Held
    <2> QED
        BY ZenonT(60), <2>1, <2>2, <2>3, <2>4, FindInductive DEF Pending!Next, Pending!Callback
<1> QED
    BY <1>1, <1>2, PTL DEF Pending!Spec

(* Every deferred request is in the table until complete or                *)
(* complete_by_context hands it back, and is handed back at most once:     *)
(* HandedBackOnce for every capacity N and any sequence of callbacks.      *)
THEOREM PendingHandsBackOnce ==
    ASSUME Pending!PendingAssumption
    PROVE  Pending!Spec => []Pending!HandedBackOnce
<1>1. PendingInv => Pending!HandedBackOnce
    <2> SUFFICES ASSUME PendingInv, NEW k \in 1 .. q_serials
                 PROVE  q_completed[k] = IF \E i \in Pending!Active : q_entries[i].serial = k THEN 0 ELSE 1
        BY Zenon DEF Pending!HandedBackOnce
    <2>1. k \in 1 .. MaxAllocs /\ k <= q_serials
        BY DEF PendingInv, Pending!PendingAssumption
    <2>2. (\E i \in Pending!Active : q_entries[i].serial = k) <=> \E i \in Pending!Slots : Held(i, k)
        BY Zenon DEF Pending!Active, Held
    <2> QED
        BY Zenon, <2>1, <2>2 DEF PendingInv
<1> QED
    BY <1>1, PendingInvariant, PTL

-----------------------------------------------------------------------------
(* The k-th request deferred gets this id: the ids run through             *)
(* 1 .. IdMod - 1 and start again.                                         *)
Nth(id, k) == \E q \in Nat : k = id + q * (IdMod - 1)

(* The ids of alloc are numbered in turn, and an entry keeps the one its   *)
(* request was given.                                                      *)
IdInv ==
    /\ Pending!TypeOK
    /\ \A k \in 1 .. q_serials : q_ids[k] # 0 /\ Nth(q_ids[k], k)
    /\ Nth(q_next_id, q_serials + 1)
    /\ \A i \in Pending!Slots : q_entries[i].active => q_entries[i].request_id = q_ids[q_entries[i].serial]

LEMMA Multiples ==
    ASSUME NEW m \in Nat, NEW a \in Nat, NEW b \in Nat, a < b
    PROVE  a * m + m <= b * m
<1>1. PICK d \in Nat : b = a + 1 + d
    <2>1. b - a - 1 \in Nat /\ b = a + 1 + (b - a - 1)
        OBVIOUS
    <2> QED
        BY Zenon, <2>1
<1>2. b * m = a * m + m + d * m
    BY <1>1
<1>3. d * m \in Nat /\ a * m \in Nat
    OBVIOUS
<1> QED
    BY <1>2, <1>3

(* Requests with the same id are at least IdMod - 1 apart. *)
LEMMA SameIdFarApart ==
    ASSUME Pending!PendingAssumption, NEW id \in Nat, NEW k \in Nat, NEW s \in Nat, Nth(id, k), Nth(id, s), k # s
    PROVE  s >= k + (IdMod - 1) \/ k >= s + (IdMod - 1)
<1> DEFINE m == IdMod - 1
<1>1. m \in Nat
    BY DEF Pending!PendingAssumption
<1>2. PICK a \in Nat : k = id + a * m
    BY Zenon DEF Nth
<1>3. PICK b \in Nat : s = id + b * m
    BY Zenon DEF Nth
<1>4. a * m \in Nat /\ b * m \in Nat
    BY <1>1
<1> HIDE DEF m
<1>5. CASE a < b
    BY <1>1, <1>2, <1>3, <1>4, <1>5, Multiples DEF m
<1>6. CASE b < a
    BY <1>1, <1>2, <1>3, <1>4, <1>6, Multiples DEF m
<1> QED
    BY <1>2, <1>3, <1>5, <1>6

(* NextId is the id of the next request: the wrap to 0 is skipped. *)
LEMMA NextIdIsNext ==
    ASSUME Pending!PendingAssumption, q_next_id \in 1 .. IdMod - 1, NEW k \in Nat, Nth(q_next_id, k)
    PROVE  Pending!NextId \in 1 .. IdMod - 1 /\ Nth(Pending!NextId, k + 1)
<1> DEFINE m == IdMod - 1
<1>1. m \in Nat /\ m >= 1 /\ IdMod = m + 1
    BY DEF Pending!PendingAssumption
<1>2. PICK q \in Nat : k = q_next_id + q * m
    BY Zenon DEF Nth
<1>3. q * m \in Nat /\ (q + 1) * m = q * m + m
    BY <1>1
<1>4. CASE q_next_id = m
    <2>1. Pending!NextId = 1
        <3>1. (q_next_id + 1) % IdMod = 0
            BY <1>1, <1>4
        <3> QED
            BY Zenon, <3>1 DEF Pending!NextId
    <2>2. k + 1 = 1 + (q + 1) * m
        BY <1>1, <1>2, <1>3, <1>4
    <2>3. q + 1 \in Nat
        OBVIOUS
    <2> QED
        BY <1>1, <2>1, <2>2, <2>3 DEF Nth
<1>5. CASE q_next_id < m
    <2>1. Pending!NextId = q_next_id + 1
        <3>1. (q_next_id + 1) % IdMod = q_next_id + 1
            BY <1>1, <1>5
        <3> QED
            BY <3>1 DEF Pending!NextId
    <2>2. k + 1 = Pending!NextId + q * m
        BY <1>2, <1>3, <2>1
    <2> QED
        BY <1>1, <1>5, <2>1, <2>2 DEF Nth
<1> QED
    BY <1>1, <1>4, <1>5

LEMMA IdInvInit ==
    ASSUME Pending!PendingAssumption, Pending!Init
    PROVE  IdInv
<1>1. Pending!zeroed \in Pending!Entry
    BY DEF Pending!zeroed, Pending!Entry, Pending!PendingAssumption
<1>2. Pending!TypeOK
    BY <1>1 DEF Pending!TypeOK, Pending!Init, Pending!PendingAssumption
<1>3. Nth(q_next_id, q_serials + 1)
    <2>1. 1 = 1 + 0 * (IdMod - 1)
        BY DEF Pending!PendingAssumption
    <2> QED
        BY <2>1 DEF Nth, Pending!Init
<1>4. \A i \in Pending!Slots : ~q_entries[i].active
    BY Zenon DEF Pending!Init, Pending!zeroed
<1> QED
    BY <1>2, <1>3, <1>4 DEF IdInv, Pending!Init

LEMMA IdInvAlloc ==
    ASSUME Pending!PendingAssumption, PendingInv, IdInv, Pending!alloc
    PROVE  IdInv'
<1> DEFINE i == Pending!First(Pending!Slots \ Pending!Active)
           new == [Pending!zeroed EXCEPT !.active = TRUE, !.request_id = q_next_id, !.serial = q_serials + 1]
<1>1. i \in Pending!Slots
    <2>1. Pending!Slots \ Pending!Active \in SUBSET Nat /\ Pending!Slots \ Pending!Active # {}
        BY DEF Pending!alloc, Pending!Active, Pending!Slots
    <2> QED
        BY Zenon, <2>1, FirstIn
<1>2. /\ q_entries' = [q_entries EXCEPT ![i] = new] /\ q_next_id' = Pending!NextId
      /\ q_serials' = q_serials + 1 /\ q_serials < MaxAllocs
      /\ q_ids' = [q_ids EXCEPT ![q_serials + 1] = q_next_id] /\ q_completed' = q_completed
    BY Zenon DEF Pending!alloc
<1>3. /\ q_entries \in [Pending!Slots -> Pending!Entry] /\ q_next_id \in 1 .. (IdMod - 1) /\ q_serials \in 0 .. MaxAllocs
      /\ q_ids \in [1 .. MaxAllocs -> 0 .. (IdMod - 1)] /\ q_completed \in [1 .. MaxAllocs -> Nat]
    BY Zenon DEF IdInv, Pending!TypeOK
<1>4. q_serials + 1 \in 1 .. MaxAllocs /\ q_serials + 1 \in 0 .. MaxAllocs /\ q_next_id \in 0 .. (IdMod - 1)
    BY <1>2, <1>3 DEF Pending!PendingAssumption
<1>5. Pending!zeroed \in Pending!Entry
    BY DEF Pending!zeroed, Pending!Entry, Pending!PendingAssumption
<1>6. new \in Pending!Entry
    BY ZenonT(60), <1>4, <1>5 DEF Pending!Entry
<1>7. new.request_id = q_next_id /\ new.serial = q_serials + 1
    BY Zenon DEF Pending!zeroed
<1> HIDE DEF i, new
<1>8. Pending!NextId \in 1 .. IdMod - 1 /\ Nth(Pending!NextId, q_serials + 2)
    <2>1. q_serials + 1 \in Nat /\ q_serials + 2 = (q_serials + 1) + 1 /\ Nth(q_next_id, q_serials + 1)
        BY <1>3 DEF IdInv
    <2> QED
        BY Zenon, <1>3, <2>1, NextIdIsNext
<1>9. Pending!TypeOK'
    <2>1. q_entries' \in [Pending!Slots -> Pending!Entry]
        BY Zenon, <1>1, <1>2, <1>3, <1>6
    <2>2. q_ids' \in [1 .. MaxAllocs -> 0 .. (IdMod - 1)]
        BY Zenon, <1>2, <1>3, <1>4
    <2> QED
        BY Zenon, <1>2, <1>3, <1>4, <1>8, <2>1, <2>2 DEF Pending!TypeOK, Pending!Slots, Pending!Entry
<1>10. \A k \in 1 .. q_serials' : q_ids'[k] # 0 /\ Nth(q_ids'[k], k)
    <2> TAKE k \in 1 .. q_serials'
    <2>1. CASE k = q_serials + 1
        BY <2>1, <1>2, <1>3, <1>4 DEF IdInv
    <2>2. CASE k # q_serials + 1
        <3>1. k \in 1 .. q_serials /\ q_ids'[k] = q_ids[k]
            BY <2>2, <1>2, <1>3, <1>4
        <3> QED
            BY Zenon, <3>1 DEF IdInv
    <2> QED
        BY Zenon, <2>1, <2>2
<1>11. Nth(q_next_id', q_serials' + 1)
    <2>1. q_serials' + 1 = q_serials + 2
        BY <1>2, <1>3
    <2> QED
        BY Zenon, <1>2, <1>8, <2>1
<1>12. \A j \in Pending!Slots : q_entries'[j].active => q_entries'[j].request_id = q_ids'[q_entries'[j].serial]
    <2> SUFFICES ASSUME NEW j \in Pending!Slots, q_entries'[j].active
                 PROVE  q_entries'[j].request_id = q_ids'[q_entries'[j].serial]
        OBVIOUS
    <2>1. CASE j = i
        BY Zenon, <2>1, <1>1, <1>2, <1>3, <1>4, <1>7
    <2>2. CASE j # i
        <3>1. q_entries'[j] = q_entries[j]
            BY Zenon, <2>2, <1>2, <1>3
        <3>2. q_entries[j].serial \in 1 .. q_serials
            BY Zenon, <3>1 DEF PendingInv
        <3>3. q_ids'[q_entries[j].serial] = q_ids[q_entries[j].serial]
            BY <3>2, <1>2, <1>3, <1>4
        <3> QED
            BY Zenon, <3>1, <3>3 DEF IdInv
    <2> QED
        BY Zenon, <2>1, <2>2
<1> QED
    BY Zenon, <1>9, <1>10, <1>11, <1>12 DEF IdInv, Nth, Pending!Slots

LEMMA IdInvHandBack ==
    ASSUME Pending!PendingAssumption, PendingInv, IdInv, NEW i \in Pending!Slots, q_entries[i].active, Pending!HandBack(i)
    PROVE  IdInv'
<1> DEFINE s == q_entries[i].serial
<1>1. s \in 1 .. MaxAllocs
    BY DEF PendingInv, Pending!PendingAssumption
<1>2. /\ q_entries' = [q_entries EXCEPT ![i] = Pending!zeroed]
      /\ q_completed' = [q_completed EXCEPT ![s] = q_completed[s] + 1]
      /\ UNCHANGED <<q_next_id, q_serials, q_ids>>
    BY Zenon DEF Pending!HandBack
<1>3. Pending!zeroed \in Pending!Entry /\ Pending!zeroed.active = FALSE
    BY DEF Pending!zeroed, Pending!Entry, Pending!PendingAssumption
<1> HIDE DEF s
<1>4. q_entries' \in [Pending!Slots -> Pending!Entry] /\ q_completed' \in [1 .. MaxAllocs -> Nat]
    BY <1>1, <1>2, <1>3 DEF IdInv, Pending!TypeOK
<1>5. \A j \in Pending!Slots : q_entries'[j].active => q_entries'[j] = q_entries[j]
    BY Zenon, <1>2, <1>3 DEF IdInv, Pending!TypeOK
<1>6. Pending!TypeOK'
    BY Zenon, <1>2, <1>4 DEF IdInv, Pending!TypeOK, Pending!Slots, Pending!Entry
<1> QED
    BY Zenon, <1>2, <1>5, <1>6 DEF IdInv, Nth, Pending!Slots

LEMMA IdInvFind ==
    ASSUME Pending!PendingAssumption, PendingInv, IdInv, NEW id, NEW ctx \in Contexts, NEW deadline \in Deadlines,
           Pending!find_by_id(id, ctx, deadline)
    PROVE  IdInv'
<1> DEFINE i == Pending!First(Pending!WithId(id))
           new == [q_entries[i] EXCEPT !.context = ctx, !.deadline_ns = deadline]
<1>1. i \in Pending!Slots
    <2>1. Pending!WithId(id) \in SUBSET Nat /\ Pending!WithId(id) # {} /\ Pending!WithId(id) \subseteq Pending!Slots
        BY DEF Pending!find_by_id, Pending!WithId, Pending!Active, Pending!Slots
    <2> QED
        BY Zenon, <2>1, FirstIn
<1>2. q_entries' = [q_entries EXCEPT ![i] = new] /\ UNCHANGED <<q_next_id, q_serials, q_ids, q_completed>>
    BY Zenon DEF Pending!find_by_id
<1>3. q_entries \in [Pending!Slots -> Pending!Entry]
    BY Zenon DEF IdInv, Pending!TypeOK
<1> HIDE DEF i
<1>4. q_entries[i] \in Pending!Entry
    BY Zenon, <1>1, <1>3
<1>5. /\ new \in Pending!Entry /\ new.active = q_entries[i].active /\ new.serial = q_entries[i].serial
      /\ new.request_id = q_entries[i].request_id
    BY ZenonT(60), <1>4 DEF Pending!Entry
<1> HIDE DEF new
<1>6. q_entries' \in [Pending!Slots -> Pending!Entry]
    BY Zenon, <1>1, <1>2, <1>3, <1>5
<1>7. \A j \in Pending!Slots : /\ q_entries'[j].active = q_entries[j].active
                               /\ q_entries'[j].serial = q_entries[j].serial
                               /\ q_entries'[j].request_id = q_entries[j].request_id
    BY Zenon, <1>1, <1>2, <1>3, <1>5
<1>8. Pending!TypeOK'
    BY Zenon, <1>2, <1>6 DEF IdInv, Pending!TypeOK, Pending!Slots, Pending!Entry
<1> QED
    BY ZenonT(60), <1>2, <1>7, <1>8 DEF IdInv, Nth, Pending!Slots

LEMMA IdInvariant ==
    ASSUME Pending!PendingAssumption
    PROVE  Pending!Spec => []IdInv
<1>1. Pending!Init => IdInv
    BY Zenon, IdInvInit, Pending!PendingAssumption
<1>2. PendingInv /\ IdInv /\ [Pending!Next]_Pending!pendingVars => IdInv'
    <2> SUFFICES ASSUME PendingInv, IdInv, [Pending!Next]_Pending!pendingVars PROVE IdInv'
        OBVIOUS
    <2>1. CASE Pending!alloc
        BY Zenon, <2>1, IdInvAlloc, Pending!PendingAssumption
    <2>2. ASSUME NEW id, Pending!complete(id) PROVE IdInv'
        <3>1. Pending!WithId(id) \in SUBSET Nat /\ Pending!WithId(id) # {} /\ Pending!WithId(id) \subseteq Pending!Active /\ Pending!Active \subseteq Pending!Slots
            BY <2>2 DEF Pending!complete, Pending!WithId, Pending!Active, Pending!Slots
        <3>2. Pending!First(Pending!WithId(id)) \in Pending!Active
            BY Zenon, <3>1, FirstIn
        <3> QED
            BY Zenon, <2>2, <3>1, <3>2, IdInvHandBack, Pending!PendingAssumption DEF Pending!complete, Pending!Active
    <2>3. ASSUME NEW c, Pending!complete_by_context(c) PROVE IdInv'
        <3> DEFINE matching == {i \in Pending!Active : q_entries[i].context = c}
        <3>1. matching \in SUBSET Nat /\ matching # {} /\ matching \subseteq Pending!Active /\ Pending!Active \subseteq Pending!Slots
            BY <2>3 DEF Pending!complete_by_context, Pending!Active, Pending!Slots
        <3>2. Pending!HandBack(Pending!First(matching))
            BY Zenon, <2>3 DEF Pending!complete_by_context
        <3> HIDE DEF matching
        <3>3. Pending!First(matching) \in Pending!Active
            BY ZenonT(60), <3>1, FirstIn
        <3> QED
            BY ZenonT(60), <3>1, <3>2, <3>3, IdInvHandBack, Pending!PendingAssumption DEF Pending!Active
    <2>4. CASE UNCHANGED Pending!pendingVars
        <3>1. Pending!TypeOK'
            BY Zenon, <2>4 DEF Pending!pendingVars, IdInv, Pending!TypeOK, Pending!Slots, Pending!Entry
        <3> QED
            BY Zenon, <2>4, <3>1 DEF Pending!pendingVars, IdInv, Nth, Pending!Slots
    <2> QED
        BY Zenon, <2>1, <2>2, <2>3, <2>4, IdInvFind, Pending!PendingAssumption DEF Pending!Next, Pending!Callback
<1> QED
    BY <1>1, <1>2, PendingInvariant, PTL DEF Pending!Spec

(* A callback finds the request it was sent for or none, unless IdMod - 1  *)
(* requests were deferred between the two with its id, and no pending      *)
(* request has the id 0: IdsUnambiguous for every width of the id counter. *)
THEOREM PendingIdsUnambiguous ==
    ASSUME Pending!PendingAssumption
    PROVE  Pending!Spec => [](Pending!IdsUnambiguous /\ Pending!TypeOK)
<1>1. PendingInv /\ IdInv => Pending!IdsUnambiguous /\ Pending!TypeOK
    <2> SUFFICES ASSUME PendingInv, IdInv PROVE Pending!IdsUnambiguous
        BY Zenon DEF IdInv
    <2>1. ASSUME NEW i \in Pending!Active
          PROVE  /\ q_entries[i].serial \in 1 .. q_serials /\ q_entries[i].serial \in Nat
                 /\ q_entries[i].request_id # 0 /\ q_entries[i].request_id \in Nat
                 /\ q_entries[i].request_id = q_ids[q_entries[i].serial]
                 /\ Nth(q_entries[i].request_id, q_entries[i].serial)
        <3>1. i \in Pending!Slots /\ q_entries[i].active
            BY Zenon, <2>1 DEF Pending!Active
        <3>2. q_entries[i].serial \in 1 .. q_serials /\ q_entries[i].request_id = q_ids[q_entries[i].serial]
            BY Zenon, <3>1 DEF PendingInv, IdInv
        <3>3. q_serials \in 0 .. MaxAllocs /\ q_ids \in [1 .. MaxAllocs -> 0 .. (IdMod - 1)]
            BY Zenon DEF IdInv, Pending!TypeOK
        <3>4. q_ids[q_entries[i].serial] \in Nat
            BY <3>2, <3>3 DEF Pending!PendingAssumption
        <3> QED
            BY <3>2, <3>4 DEF IdInv
    <2>2. ASSUME NEW i \in Pending!Active, NEW k \in 1 .. q_serials,
                 q_entries[i].request_id = q_ids[k], q_entries[i].serial # k
          PROVE  \/ q_entries[i].serial >= k + (IdMod - 1)
                 \/ k >= q_entries[i].serial + (IdMod - 1)
        <3>1. Nth(q_entries[i].request_id, k) /\ k \in Nat
            BY <2>2 DEF IdInv
        <3> QED
            BY Zenon, <2>1, <2>2, <3>1, SameIdFarApart, Pending!PendingAssumption
    <2> QED
        BY Zenon, <2>1, <2>2 DEF Pending!IdsUnambiguous
<1> QED
    BY <1>1, PendingInvariant, IdInvariant, PTL

-----------------------------------------------------------------------------
(* A set of the numbers up to n that has 0, and each number whose          *)
(* predecessor it has, is all of them.                                     *)
LEMMA IntervalInduction ==
    ASSUME NEW n \in Nat, NEW P \in SUBSET (0 .. n), 0 \in P,
           \A i \in 1 .. n : i - 1 \in P => i \in P
    PROVE  P = 0 .. n
<1> DEFINE Less == OpToRel(<, Nat)
           Bad == (0 .. n) \ P
<1>1. IsWellFoundedOn(Less, Nat)
    BY ZenonT(60), NatLessThanWellFounded
<1>2. \A x, y \in Nat : <<y, x>> \in Less <=> y < x
    BY Zenon DEF OpToRel
<1>3. Bad \subseteq Nat
    OBVIOUS
<1>4. SUFFICES ASSUME Bad # {} PROVE FALSE
    BY ZenonT(60)
<1> HIDE DEF Less
<1>5. PICK x \in Bad : \A y \in Bad : ~ (<<y, x>> \in Less)
    BY ZenonT(60), <1>1, <1>3, <1>4, WFMin
<1>6. x \in 1 .. n /\ x - 1 \in 0 .. n
    OBVIOUS
<1>7. x - 1 \in Bad
    BY Zenon, <1>6
<1>8. x \in Nat /\ x - 1 \in Nat /\ x - 1 < x
    BY <1>6
<1> HIDE DEF Bad
<1> QED
    BY ZenonT(60), <1>2, <1>5, <1>7, <1>8

(* A loop over 1 .. n whose i-th turn maps its state by G[i], and what its *)
(* states are when it starts in b.                                         *)
Turns(G, n, S) == G \in [1 .. n -> [S -> S]]
LoopStates(f, G, n, S, b) ==
    f \in [0 .. n -> S] /\ f[0] = b /\ \A i \in 1 .. n : f[i] = G[i][f[i - 1]]

(* Such a loop has its states: the equations of a recursive function are *)
(* solvable.                                                             *)
LEMMA LoopRuns ==
    ASSUME NEW G, NEW n, NEW S, NEW b, Turns(G, n, S), n \in Nat, b \in S
    PROVE  \E f : LoopStates(f, G, n, S, b)
<1> USE DEF Turns, LoopStates
<1> DEFINE P == {m \in 0 .. n : \E f \in [0 .. m -> S] : f[0] = b /\ \A i \in 1 .. m : f[i] = G[i][f[i - 1]]}
<1>1. 0 \in P
    <2> DEFINE f == [i \in 0 .. 0 |-> b]
    <2>1. f \in [0 .. 0 -> S] /\ f[0] = b /\ \A i \in 1 .. 0 : f[i] = G[i][f[i - 1]]
        OBVIOUS
    <2> HIDE DEF f
    <2>2. \E h \in [0 .. 0 -> S] : h[0] = b /\ \A i \in 1 .. 0 : h[i] = G[i][h[i - 1]]
        BY ZenonT(60), <2>1
    <2> QED
        BY <2>2
<1>2. \A m \in 1 .. n : m - 1 \in P => m \in P
    <2> SUFFICES ASSUME NEW m \in 1 .. n, m - 1 \in P PROVE m \in P
        BY ZenonT(60)
    <2>1. PICK f \in [0 .. m - 1 -> S] : f[0] = b /\ \A i \in 1 .. m - 1 : f[i] = G[i][f[i - 1]]
        OBVIOUS
    <2> DEFINE g == [i \in 0 .. m |-> IF i = m THEN G[m][f[m - 1]] ELSE f[i]]
    <2>2. g \in [0 .. m -> S]
        <3>1. G[m][f[m - 1]] \in S
            OBVIOUS
        <3> QED
            BY <3>1
    <2>3. g[0] = b /\ \A i \in 1 .. m : g[i] = G[i][g[i - 1]]
        BY <2>1
    <2> HIDE DEF g
    <2>4. \E h \in [0 .. m -> S] : h[0] = b /\ \A i \in 1 .. m : h[i] = G[i][h[i - 1]]
        BY ZenonT(60), <2>2, <2>3
    <2>5. m \in 0 .. n
        OBVIOUS
    <2> QED
        BY ZenonT(60), <2>4, <2>5
<1>3. P = 0 .. n
    <2> HIDE DEF P
    <2>1. P \in SUBSET (0 .. n)
        BY Zenon DEF P
    <2> QED
        BY Zenon, <1>1, <1>2, <2>1, IntervalInduction
<1>4. n \in P
    <2> HIDE DEF P
    <2> QED
        BY <1>3
<1>5. PICK f \in [0 .. n -> S] : f[0] = b /\ \A i \in 1 .. n : f[i] = G[i][f[i - 1]]
    BY Zenon, <1>4
<1>6. LoopStates(f, G, n, S, b)
    BY Zenon, <1>5
<1> QED
    <2> HIDE DEF LoopStates
    <2> QED
        BY ZenonT(60), <1>6

(* The deadline of entry i - 1 stops the scan of nearest_deadline. *)
Earlier(i, d) == /\ q_entries[i - 1].active /\ q_entries[i - 1].deadline_ns # 0
                 /\ q_entries[i - 1].deadline_ns < d

(* What the loop of nearest_deadline computes, turn by turn. *)
LEMMA ScanTurns ==
    ASSUME Pending!PendingAssumption, Pending!TypeOK
    PROVE  /\ Pending!MaxDeadline \in Nat /\ \A d \in Deadlines : d < Pending!MaxDeadline
           /\ Pending!Scan \in [0 .. PendingEntries -> Nat] /\ Pending!Scan[0] = Pending!MaxDeadline
           /\ \A i \in 1 .. PendingEntries : Pending!Scan[i] = IF Earlier(i, Pending!Scan[i - 1]) THEN q_entries[i - 1].deadline_ns
                                          ELSE Pending!Scan[i - 1]
<1> DEFINE S == Nat
           G == [i \in 1 .. PendingEntries |-> [s \in S |-> IF Earlier(i, s) THEN q_entries[i - 1].deadline_ns ELSE s]]
<1>1. Pending!MaxDeadline \in Nat /\ \A d \in Deadlines : d < Pending!MaxDeadline
    <2> DEFINE top == CHOOSE d \in Deadlines : \A e \in Deadlines : d >= e
    <2>1. top \in Deadlines /\ \A e \in Deadlines : top >= e
        BY ZenonT(60) DEF Pending!PendingAssumption
    <2> HIDE DEF top
    <2>2. top \in Nat /\ Pending!MaxDeadline = 1 + top /\ Deadlines \subseteq Nat
        BY ZenonT(60), <2>1 DEF Pending!PendingAssumption, Pending!MaxDeadline, top
    <2> QED
        BY <2>1, <2>2
<1>2. PendingEntries \in Nat /\ \A i \in 1 .. PendingEntries : q_entries[i - 1].deadline_ns \in Nat
    <2>1. PendingEntries \in Nat /\ Deadlines \subseteq Nat
        BY Zenon DEF Pending!PendingAssumption
    <2>2. ASSUME NEW i \in 1 .. PendingEntries PROVE q_entries[i - 1].deadline_ns \in Deadlines
        <3>1. i - 1 \in Pending!Slots
            BY <2>1 DEF Pending!Slots
        <3>2. q_entries[i - 1] \in Pending!Entry
            BY Zenon, <3>1 DEF Pending!TypeOK
        <3> QED
            BY Zenon, <3>2 DEF Pending!Entry
    <2> QED
        BY ZenonT(60), <2>1, <2>2
<1>3. Turns(G, PendingEntries, S)
    BY Zenon, <1>2 DEF Turns
<1>4. Pending!MaxDeadline \in S
    BY Zenon, <1>1
<1>5. \E f : LoopStates(f, G, PendingEntries, S, Pending!MaxDeadline)
    <2> HIDE DEF G, S
    <2> QED
        BY ZenonT(60), <1>2, <1>3, <1>4, LoopRuns
<1>6. PICK f : f \in [0 .. PendingEntries -> Nat] /\ f[0] = Pending!MaxDeadline /\ \A i \in 1 .. PendingEntries : f[i] = G[i][f[i - 1]]
    BY ZenonT(60), <1>5 DEF LoopStates
<1>7. \A i \in 1 .. PendingEntries : f[i] = IF Earlier(i, f[i - 1]) THEN q_entries[i - 1].deadline_ns ELSE f[i - 1]
    <2> TAKE i \in 1 .. PendingEntries
    <2>1. f[i - 1] \in Nat
        BY <1>2, <1>6
    <2> QED
        BY ZenonT(60), <1>6, <2>1
<1> HIDE DEF G
<1>8. f = [i \in 0 .. PendingEntries |->
             IF i = 0 THEN Pending!MaxDeadline
             ELSE IF q_entries[i - 1].active /\ q_entries[i - 1].deadline_ns # 0 /\ q_entries[i - 1].deadline_ns < f[i - 1]
                  THEN q_entries[i - 1].deadline_ns ELSE f[i - 1]]
    <2>1. PendingEntries \in Nat /\ (\A i \in 0 .. PendingEntries : i = 0 \/ i \in 1 .. PendingEntries) /\ \A i \in 1 .. PendingEntries : i # 0
        BY <1>2
    <2>2. ASSUME NEW i \in 0 .. PendingEntries
          PROVE  f[i] = IF i = 0 THEN Pending!MaxDeadline
                        ELSE IF q_entries[i - 1].active /\ q_entries[i - 1].deadline_ns # 0 /\ q_entries[i - 1].deadline_ns < f[i - 1]
                             THEN q_entries[i - 1].deadline_ns ELSE f[i - 1]
        BY ZenonT(60), <1>6, <1>7, <2>1 DEF Earlier
    <2> QED
        BY ZenonT(60), <1>6, <2>2
<1>9. Pending!Scan = [i \in 0 .. PendingEntries |->
             IF i = 0 THEN Pending!MaxDeadline
             ELSE IF q_entries[i - 1].active /\ q_entries[i - 1].deadline_ns # 0 /\ q_entries[i - 1].deadline_ns < Pending!Scan[i - 1]
                  THEN q_entries[i - 1].deadline_ns ELSE Pending!Scan[i - 1]]
    BY ZenonT(60), <1>8 DEF Pending!Scan
<1>10. Pending!Scan[0] = Pending!MaxDeadline
    BY <1>2, <1>9
<1>11. \A i \in 1 .. PendingEntries : Pending!Scan[i] = IF Earlier(i, Pending!Scan[i - 1]) THEN q_entries[i - 1].deadline_ns ELSE Pending!Scan[i - 1]
    BY <1>2, <1>9 DEF Earlier
<1>12. \A i \in 0 .. PendingEntries : Pending!Scan[i] \in Nat
    <2> DEFINE P == {i \in 0 .. PendingEntries : Pending!Scan[i] \in Nat}
    <2>1. 0 \in P
        BY <1>1, <1>2, <1>10
    <2>2. \A i \in 1 .. PendingEntries : i - 1 \in P => i \in P
        BY <1>2, <1>11
    <2>3. P \in SUBSET (0 .. PendingEntries)
        OBVIOUS
    <2>4. P = 0 .. PendingEntries
        <3> HIDE DEF P
        <3> QED
            BY Zenon, <1>2, <2>1, <2>2, <2>3, IntervalInduction
    <2> QED
        BY Zenon, <2>4
<1>13. Pending!Scan \in [0 .. PendingEntries -> Nat]
    BY Zenon, <1>9, <1>12
<1> QED
    BY Zenon, <1>1, <1>10, <1>11, <1>13

(* nearest_deadline is the earliest deadline of the pending requests, or   *)
(* u64::MAX when none has one: NearestIsEarliest for tables of every size. *)
THEOREM PendingNearestIsEarliest ==
    ASSUME Pending!PendingAssumption
    PROVE  Pending!Spec => []Pending!NearestIsEarliest
<1>1. Pending!TypeOK => Pending!NearestIsEarliest
    <2> SUFFICES ASSUME Pending!TypeOK PROVE Pending!NearestIsEarliest
        OBVIOUS
    <2> DEFINE pendingDeadlines == {q_entries[i].deadline_ns : i \in Pending!Active} \ {0}
               Known(m) == {q_entries[i].deadline_ns : i \in {j \in Pending!Active : j < m}} \ {0}
               P == {m \in 0 .. PendingEntries : /\ \A d \in Known(m) : Pending!Scan[m] <= d
                                                 /\ Pending!Scan[m] \in Known(m) \cup {Pending!MaxDeadline}}
    <2>1. PendingEntries \in Nat /\ \A i \in Pending!Active : i \in 0 .. PendingEntries - 1 /\ q_entries[i].deadline_ns \in Nat
        <3>1. PendingEntries \in Nat /\ Deadlines \subseteq Nat
            BY Zenon DEF Pending!PendingAssumption
        <3>2. ASSUME NEW i \in Pending!Active PROVE i \in Pending!Slots /\ q_entries[i].deadline_ns \in Deadlines
            <4>1. i \in Pending!Slots
                BY Zenon DEF Pending!Active
            <4>2. q_entries[i] \in Pending!Entry
                BY Zenon, <4>1 DEF Pending!TypeOK
            <4> QED
                BY Zenon, <4>1, <4>2 DEF Pending!Entry
        <3> QED
            BY ZenonT(60), <3>1, <3>2 DEF Pending!Slots
    <2>2. 0 \in P
        <3>1. Known(0) = {}
            BY <2>1
        <3> QED
            BY <2>1, <3>1, ScanTurns, Pending!PendingAssumption
    <2>3. \A m \in 1 .. PendingEntries : m - 1 \in P => m \in P
        <3> SUFFICES ASSUME NEW m \in 1 .. PendingEntries, m - 1 \in P PROVE m \in P
            OBVIOUS
        <3> DEFINE d == q_entries[m - 1].deadline_ns
        <3>1. /\ Pending!Scan[m] = IF Earlier(m, Pending!Scan[m - 1]) THEN d ELSE Pending!Scan[m - 1]
              /\ Pending!Scan[m - 1] \in Nat /\ m - 1 \in Pending!Slots
            BY <2>1, ScanTurns, Pending!PendingAssumption DEF Pending!Slots
        <3>2. CASE m - 1 \in Pending!Active /\ d # 0
            <4>1. Known(m) = Known(m - 1) \cup {d} /\ d \in Nat
                BY <2>1, <3>2
            <4>2. Earlier(m, Pending!Scan[m - 1]) <=> d < Pending!Scan[m - 1]
                BY Zenon, <3>2 DEF Earlier, Pending!Active
            <4>3. \A x \in Known(m - 1) : x \in Nat
                BY Zenon, <2>1
            <4> HIDE DEF Known, d
            <4> QED
                BY <3>1, <4>1, <4>2, <4>3
        <3>3. CASE ~ (m - 1 \in Pending!Active /\ d # 0)
            <4>1. Known(m) = Known(m - 1)
                BY <2>1, <3>3
            <4>2. ~Earlier(m, Pending!Scan[m - 1])
                BY Zenon, <3>1, <3>3 DEF Earlier, Pending!Active
            <4> HIDE DEF Known, d
            <4> QED
                BY <3>1, <4>1, <4>2
        <3> QED
            BY Zenon, <3>2, <3>3
    <2>4. P \in SUBSET (0 .. PendingEntries)
        OBVIOUS
    <2>5. PendingEntries \in P
        <3> HIDE DEF P
        <3>1. P = 0 .. PendingEntries
            BY Zenon, <2>1, <2>2, <2>3, <2>4, IntervalInduction
        <3> QED
            BY <2>1, <3>1
    <2>6. Known(PendingEntries) = pendingDeadlines
        BY <2>1
    <2> HIDE DEF Known
    <2> QED
        BY Zenon, <2>5, <2>6 DEF Pending!NearestIsEarliest, Pending!nearest_deadline
<1> QED
    BY <1>1, PendingIdsUnambiguous, PTL

-----------------------------------------------------------------------------
(***************************************************************************)
(* Start-up of the dynamic linker, for every program: any DT_NEEDED graph, *)
(* cycles and shared dependencies included, any sizes, any definitions.    *)
(*                                                                         *)
(* The walk's invariant: what the objects before `processed' need, and the *)
(* first di entries of its own list, are loaded; every library was loaded  *)
(* because an earlier object needs it; no name is loaded twice.            *)
(***************************************************************************)

LinkNames == DOMAIN r_program.needed
Count == Len(r_objects)
Size(o) == r_program.size[o]

LoadedIn(s, o) == \E i \in 1 .. Len(s) : s[i] = o
Loaded(o) == LoadedIn(r_objects, o)

(* The first k entries of a DT_NEEDED list are in s. *)
ListIn(s, list, k) == \A l \in 1 .. k : LoadedIn(s, list[l])

ProgramOK ==
    /\ Link!Exe \in LinkNames /\ r_program.needed \in [LinkNames -> Seq(LinkNames)] /\ r_program.size \in [LinkNames -> Nat]
    /\ \A k \in 1 .. Len(Link!Needed(Link!Exe)) : Link!Needed(Link!Exe)[k] # Link!Exe
    /\ \A k, l \in 1 .. Len(Link!Needed(Link!Exe)) : Link!Needed(Link!Exe)[k] = Link!Needed(Link!Exe)[l] => k = l

ListInv ==
    /\ r_objects \in Seq(LinkNames) /\ Count >= 1 /\ r_objects[1] = Link!Exe
    /\ \A i, j \in 1 .. Count : r_objects[i] = r_objects[j] => i = j
    /\ \A i \in 2 .. Count : \E j \in 1 .. (i - 1) :
          \E k \in 1 .. Len(Link!Needed(r_objects[j])) : r_objects[i] = Link!Needed(r_objects[j])[k]

(* The walk of the lists nd of the objects s, at entry d of object p. *)
WalkOK(s, nd, p, d) ==
    /\ p \in 1 .. (Len(s) + 1) /\ d \in Nat
    /\ \A i \in 1 .. (p - 1) : ListIn(s, nd[s[i]], Len(nd[s[i]]))
    /\ p <= Len(s) => d <= Len(nd[s[p]]) /\ ListIn(s, nd[s[p]], d)
    /\ p = 1 => \A i \in 2 .. Len(s) : \E k \in 1 .. d : s[i] = nd[Link!Exe][k]
WalkState == WalkOK(r_objects, r_program.needed, r_processed, r_di)
AllLoaded == \A i \in 1 .. Count : ListIn(r_objects, Link!Needed(r_objects[i]), Len(Link!Needed(r_objects[i])))
WalkInv ==
    /\ r_phase \in {"load", "relocate", "construct", "run", "exit"}
    /\ r_phase = "load" => WalkState
    /\ r_phase \notin {"load", "exit"} => AllLoaded

(* Objects s of sizes sz at addresses b, below addr. *)
Places(s, b, sz, addr) ==
    /\ addr \in Nat
    /\ \A i \in 1 .. Len(s) : b[s[i]] \in Nat /\ b[s[i]] + sz[s[i]] < addr
    /\ \A i, j \in 1 .. Len(s) : i < j => b[s[i]] + sz[s[i]] < b[s[j]]
PlacesInv == Places(r_objects, r_base, r_program.size, r_lib_load_addr) /\ DOMAIN r_base = Link!Range(r_objects)

LEMMA ProgramHolds ==
    ASSUME Link!RtldAssumption, r_program \in Programs
    PROVE  ProgramOK
<1>1. Link!Exe \in LinkNames /\ r_program.needed \in [LinkNames -> Seq(LinkNames)] /\ r_program.size \in [LinkNames -> Nat]
    BY Zenon DEF Link!RtldAssumption, LinkNames
<1>2. Link!Exe \notin Link!Range(Link!Needed(Link!Exe)) /\ Link!IsInjective(Link!Needed(Link!Exe))
    BY Zenon DEF Link!RtldAssumption, Link!Needed
<1>3. Link!Needed(Link!Exe) \in Seq(LinkNames)
    BY Zenon, <1>1 DEF Link!Needed
<1>4. DOMAIN Link!Needed(Link!Exe) = 1 .. Len(Link!Needed(Link!Exe))
    BY <1>3
<1> QED
    BY ZenonT(60), <1>1, <1>2, <1>4 DEF ProgramOK, Link!Range, Link!IsInjective

LEMMA LinkInit ==
    ASSUME Link!RtldAssumption, Link!Init
    PROVE  ProgramOK /\ ListInv /\ WalkInv /\ PlacesInv
<1>1. ProgramOK
    BY Zenon, ProgramHolds DEF Link!Init
<1>2. r_objects = <<Link!Exe>> /\ Link!Exe \in LinkNames /\ Size(Link!Exe) \in Nat
    BY Zenon, <1>1 DEF Link!Init, ProgramOK, Size
<1>3. r_objects \in Seq(LinkNames) /\ Count = 1 /\ r_objects[1] = Link!Exe /\ DOMAIN r_objects = 1 .. 1 /\ 2 .. Count = {}
    BY <1>2 DEF Count
<1>4. ListInv
    BY <1>3 DEF ListInv
<1>5. WalkInv
    <2>1. r_phase = "load" /\ r_processed = 1 /\ r_di = 0
        BY Zenon DEF Link!Init
    <2>2. Len(Link!Needed(Link!Exe)) \in Nat
        BY <1>1 DEF ProgramOK, Link!Needed
    <2> QED
        BY <1>3, <2>1, <2>2 DEF WalkInv, WalkState, WalkOK, ListIn, Count, Link!Needed
<1>6. PlacesInv
    <2>1. r_base = [o \in {Link!Exe} |-> 0] /\ r_lib_load_addr = Size(Link!Exe) + 1
        BY Zenon DEF Link!Init, Size
    <2>2. Link!Range(r_objects) = {Link!Exe}
        BY <1>3 DEF Link!Range
    <2> QED
        BY <1>2, <1>3, <2>1, <2>2 DEF PlacesInv, Places, Count, Size
<1> QED
    BY Zenon, <1>1, <1>4, <1>5, <1>6

(* The object that is walked and the next entry of its list. *)
LEMMA WalkedObject ==
    ASSUME ProgramOK, ListInv, WalkInv, Link!Walking, r_di < Len(Link!Needed(r_objects[r_processed]))
    PROVE  /\ WalkState /\ Count \in Nat /\ r_processed \in 1 .. Count
           /\ r_objects[r_processed] \in LinkNames /\ Link!Needed(r_objects[r_processed]) \in Seq(LinkNames)
           /\ r_di + 1 \in 1 .. Len(Link!Needed(r_objects[r_processed])) /\ Link!NextNeeded \in LinkNames
           /\ Link!NextNeeded = Link!Needed(r_objects[r_processed])[r_di + 1]
<1>1. WalkState /\ r_processed <= Count
    BY Zenon DEF Link!Walking, WalkInv, Count
<1>2. Count \in Nat /\ r_processed \in 1 .. Count /\ r_objects[r_processed] \in LinkNames /\ r_di \in Nat
    BY <1>1 DEF ListInv, WalkState, WalkOK, Count
<1>3. Link!Needed(r_objects[r_processed]) \in Seq(LinkNames)
    BY Zenon, <1>2 DEF ProgramOK, Link!Needed
<1> DEFINE s == Link!Needed(r_objects[r_processed])
<1>4. s \in Seq(LinkNames) /\ r_di < Len(s) /\ Link!NextNeeded = s[r_di + 1]
    BY Zenon, <1>3 DEF Link!NextNeeded
<1> HIDE DEF s
<1>5. r_di + 1 \in 1 .. Len(s) /\ Link!NextNeeded \in LinkNames
    BY <1>2, <1>4
<1> QED
    BY Zenon, <1>1, <1>2, <1>3, <1>4, <1>5 DEF s

(* The name the walk loads is new. *)
LEMMA NewName ==
    ASSUME ProgramOK, ListInv, WalkInv, Link!Walking, r_di < Len(Link!Needed(r_objects[r_processed])), Link!Missing
    PROVE  ~ Loaded(Link!NextNeeded)
<1>1. /\ WalkState /\ r_processed \in 1 .. Count /\ r_di + 1 \in 1 .. Len(Link!Needed(r_objects[r_processed]))
      /\ Link!NextNeeded = Link!Needed(r_objects[r_processed])[r_di + 1] /\ Count \in Nat
    BY Zenon, WalkedObject
<1>2. CASE r_processed = 1
    <2>1. r_objects[1] = Link!Exe /\ Link!NextNeeded = Link!Needed(Link!Exe)[r_di + 1] /\ r_di + 1 \in 1 .. Len(Link!Needed(Link!Exe)) /\ r_di \in Nat
        BY Zenon, <1>1, <1>2 DEF ListInv, WalkState, WalkOK
    <2>2. Link!NextNeeded # Link!Exe
        BY Zenon, <2>1 DEF ProgramOK
    <2>3. \A i \in 2 .. Count : r_objects[i] # Link!NextNeeded
        <3> SUFFICES ASSUME NEW i \in 2 .. Count, r_objects[i] = Link!NextNeeded PROVE FALSE
            OBVIOUS
        <3>1. PICK k \in 1 .. r_di : r_objects[i] = Link!Needed(Link!Exe)[k]
            BY Zenon, <1>1, <1>2 DEF WalkState, WalkOK, Count, Link!Needed
        <3>2. k \in 1 .. Len(Link!Needed(Link!Exe)) /\ k # r_di + 1
            BY <2>1, <3>1
        <3> QED
            BY ZenonT(60), <2>1, <3>1, <3>2 DEF ProgramOK
    <2>4. \A i \in 1 .. Count : i = 1 \/ i \in 2 .. Count
        BY <1>1
    <2> QED
        BY ZenonT(60), <2>1, <2>2, <2>3, <2>4 DEF Loaded, LoadedIn, Count
<1>3. CASE r_processed # 1
    <2>1. Link!NextNeeded \notin Link!Range(r_objects)
        BY ZenonT(60), <1>3 DEF Link!Missing, Link!find_loaded_object
    <2>2. DOMAIN r_objects = 1 .. Count
        BY DEF ListInv, Count
    <2> QED
        BY ZenonT(60), <2>1, <2>2 DEF Loaded, LoadedIn, Link!Range, Count
<1> QED
    BY Zenon, <1>2, <1>3


(* The list with the new name. *)
LEMMA LoadShape ==
    ASSUME ProgramOK, ListInv, WalkInv, Link!LoadLibrary
    PROVE  /\ r_program' = r_program /\ r_phase' = r_phase /\ r_phase = "load" /\ r_processed' = r_processed /\ r_di' = r_di + 1
           /\ LinkNames' = LinkNames /\ r_objects' \in Seq(LinkNames) /\ Count \in Nat /\ Count' = Count + 1
           /\ r_objects'[Count + 1] = Link!NextNeeded /\ (\A i \in 1 .. Count : r_objects'[i] = r_objects[i])
           /\ DOMAIN r_objects' = 1 .. (Count + 1) /\ DOMAIN r_objects = 1 .. Count
           /\ r_lib_load_addr' = Link!Advance(Link!NextNeeded)
           /\ r_base' = [o \in DOMAIN r_base \cup {Link!NextNeeded} |-> IF o = Link!NextNeeded THEN r_lib_load_addr ELSE r_base[o]]
<1>1. /\ r_program' = r_program /\ r_phase' = r_phase /\ r_phase = "load" /\ r_processed' = r_processed /\ r_di' = r_di + 1
      /\ r_objects' = Append(r_objects, Link!NextNeeded) /\ r_lib_load_addr' = Link!Advance(Link!NextNeeded)
      /\ r_base' = [o \in DOMAIN r_base \cup {Link!NextNeeded} |-> IF o = Link!NextNeeded THEN r_lib_load_addr ELSE r_base[o]]
    BY Zenon DEF Link!LoadLibrary, Link!Walking
<1>2. Link!NextNeeded \in LinkNames
    BY Zenon, WalkedObject DEF Link!LoadLibrary
<1>3. r_objects \in Seq(LinkNames) /\ LinkNames' = LinkNames
    BY Zenon, <1>1 DEF ListInv, LinkNames
<1> DEFINE lib == Link!NextNeeded
<1> HIDE DEF lib
<1>4. /\ Append(r_objects, Link!NextNeeded) \in Seq(LinkNames) /\ Len(Append(r_objects, Link!NextNeeded)) = Count + 1
      /\ Append(r_objects, Link!NextNeeded)[Count + 1] = Link!NextNeeded
      /\ (\A i \in 1 .. Count : Append(r_objects, Link!NextNeeded)[i] = r_objects[i]) /\ Count \in Nat
      /\ DOMAIN Append(r_objects, Link!NextNeeded) = 1 .. (Count + 1) /\ DOMAIN r_objects = 1 .. Count
    BY <1>2, <1>3 DEF Count
<1> QED
    BY ZenonT(60), <1>1, <1>3, <1>4 DEF Count

LEMMA LoadKeepsList ==
    ASSUME ProgramOK, ListInv, WalkInv, Link!LoadLibrary
    PROVE  ListInv'
<1> DEFINE n == Count + 1
           t == r_objects'
           lib == Link!NextNeeded
<1>1. /\ t \in Seq(LinkNames) /\ Count \in Nat /\ Count' = n /\ t[n] = lib /\ \A i \in 1 .. Count : t[i] = r_objects[i]
    BY ZenonT(60), LoadShape
<1>2. LinkNames' = LinkNames /\ r_program' = r_program /\ \A o : Link!Needed(o)' = Link!Needed(o)
    BY ZenonT(60), LoadShape DEF Link!Needed
<1>3. \A i \in 1 .. Count : r_objects[i] # lib
    BY Zenon, NewName DEF Link!LoadLibrary, Loaded, LoadedIn, Count
<1>4. /\ WalkState /\ r_processed \in 1 .. Count /\ r_di + 1 \in 1 .. Len(Link!Needed(r_objects[r_processed]))
      /\ lib = Link!Needed(r_objects[r_processed])[r_di + 1]
    BY Zenon, WalkedObject DEF Link!LoadLibrary
<1> HIDE DEF lib, t
<1>5. n >= 1 /\ t[1] = Link!Exe
    BY <1>1 DEF ListInv
<1>6. \A i, j \in 1 .. n : t[i] = t[j] => i = j
    <2> TAKE i \in 1 .. n, j \in 1 .. n
    <2>1. (i = n \/ i \in 1 .. Count) /\ (j = n \/ j \in 1 .. Count)
        BY <1>1
    <2>2. CASE i = n /\ j = n
        BY Zenon, <2>2
    <2>3. CASE i = n /\ j \in 1 .. Count
        BY ZenonT(60), <1>1, <1>3, <2>3
    <2>4. CASE j = n /\ i \in 1 .. Count
        BY ZenonT(60), <1>1, <1>3, <2>4
    <2>5. CASE i \in 1 .. Count /\ j \in 1 .. Count
        BY ZenonT(60), <1>1, <2>5 DEF ListInv
    <2> QED
        BY ZenonT(60), <2>1, <2>2, <2>3, <2>4, <2>5
<1>7. \A i \in 2 .. n : \E j \in 1 .. (i - 1) :
          \E k \in 1 .. Len(Link!Needed(t[j])) : t[i] = Link!Needed(t[j])[k]
    <2> TAKE i \in 2 .. n
    <2>1. CASE i = n
        <3>1. r_processed \in 1 .. (i - 1) /\ t[r_processed] = r_objects[r_processed]
            BY <1>1, <1>4, <2>1
        <3>2. t[i] = lib /\ lib = Link!Needed(t[r_processed])[r_di + 1] /\ r_di + 1 \in 1 .. Len(Link!Needed(t[r_processed]))
            BY ZenonT(60), <1>1, <1>4, <2>1, <3>1
        <3> QED
            BY ZenonT(60), <3>1, <3>2
    <2>2. CASE i # n
        <3>1. i \in 2 .. Count /\ t[i] = r_objects[i] /\ \A j \in 1 .. (i - 1) : t[j] = r_objects[j]
            BY <1>1, <2>2
        <3>2. PICK j \in 1 .. (i - 1) : \E k \in 1 .. Len(Link!Needed(r_objects[j])) : r_objects[i] = Link!Needed(r_objects[j])[k]
            BY ZenonT(60), <3>1 DEF ListInv
        <3> QED
            BY ZenonT(60), <3>1, <3>2
    <2> QED
        BY ZenonT(60), <2>1, <2>2
<1> QED
    BY ZenonT(60), <1>1, <1>2, <1>5, <1>6, <1>7 DEF ListInv, t

(* One more library at the end of the list: what was in it still is, and *)
(* the entry that was walked is now.                                     *)
LEMMA WalkGrows ==
    ASSUME NEW s, NEW t, NEW nd, NEW p, NEW d, Len(s) \in Nat, Len(t) = Len(s) + 1,
           \A i \in 1 .. Len(s) : t[i] = s[i], t[Len(s) + 1] = nd[s[p]][d + 1],
           p \in 1 .. Len(s), d + 1 \in 1 .. Len(nd[s[p]]), Len(nd[s[p]]) \in Nat, s[1] = Link!Exe, WalkOK(s, nd, p, d)
    PROVE  WalkOK(t, nd, p, d + 1)
<1>1. d \in Nat /\ p \in 1 .. (Len(t) + 1) /\ d + 1 <= Len(nd[s[p]]) /\ t[p] = s[p] /\ p <= Len(s)
    BY DEF WalkOK
<1>2. \A o : LoadedIn(s, o) => LoadedIn(t, o)
    <2>1. \A i \in 1 .. Len(s) : i \in 1 .. Len(t)
        OBVIOUS
    <2> QED
        BY ZenonT(60), <2>1 DEF LoadedIn
<1>3. \A l, k : ListIn(s, l, k) => ListIn(t, l, k)
    BY ZenonT(60), <1>2 DEF ListIn
<1>4. \A i \in 1 .. (p - 1) : ListIn(t, nd[t[i]], Len(nd[t[i]]))
    <2> TAKE i \in 1 .. (p - 1)
    <2>1. i \in 1 .. Len(s) /\ t[i] = s[i]
        BY <1>1
    <2>2. ListIn(s, nd[s[i]], Len(nd[s[i]]))
        BY ZenonT(60) DEF WalkOK
    <2> QED
        BY ZenonT(60), <1>3, <2>1, <2>2
<1>5. ListIn(t, nd[t[p]], d + 1)
    <2>1. ListIn(s, nd[s[p]], d)
        BY ZenonT(60), <1>1 DEF WalkOK
    <2>2. ListIn(t, nd[t[p]], d)
        BY ZenonT(60), <1>1, <1>3, <2>1
    <2>3. LoadedIn(t, nd[t[p]][d + 1])
        <3>1. Len(s) + 1 \in 1 .. Len(t) /\ t[Len(s) + 1] = nd[t[p]][d + 1]
            BY <1>1
        <3> QED
            BY ZenonT(60), <3>1 DEF LoadedIn
    <2>4. \A l \in 1 .. (d + 1) : l = d + 1 \/ l \in 1 .. d
        BY <1>1
    <2> QED
        BY ZenonT(60), <2>2, <2>3, <2>4 DEF ListIn
<1>6. p = 1 => \A i \in 2 .. Len(t) : \E k \in 1 .. (d + 1) : t[i] = nd[Link!Exe][k]
    <2> SUFFICES ASSUME p = 1, NEW i \in 2 .. Len(t) PROVE \E k \in 1 .. (d + 1) : t[i] = nd[Link!Exe][k]
        BY ZenonT(60)
    <2>1. CASE i = Len(s) + 1
        <3>1. d + 1 \in 1 .. (d + 1)
            BY <1>1
        <3> QED
            BY ZenonT(60), <2>1, <3>1
    <2>2. CASE i # Len(s) + 1
        <3>1. i \in 2 .. Len(s) /\ t[i] = s[i]
            BY <2>2
        <3>2. PICK k \in 1 .. d : s[i] = nd[Link!Exe][k]
            BY ZenonT(60), <3>1 DEF WalkOK
        <3>3. k \in 1 .. (d + 1)
            BY <1>1
        <3> QED
            BY ZenonT(60), <3>1, <3>2, <3>3
    <2> QED
        BY ZenonT(60), <2>1, <2>2
<1>7. d + 1 \in Nat /\ d + 1 <= Len(nd[t[p]])
    BY <1>1
<1> QED
    BY ZenonT(60), <1>1, <1>4, <1>5, <1>6, <1>7 DEF WalkOK

LEMMA LoadKeepsWalk ==
    ASSUME ProgramOK, ListInv, WalkInv, Link!LoadLibrary
    PROVE  WalkInv'
<1> DEFINE s == r_objects
           t == r_objects'
           nd == r_program.needed
           p == r_processed
           d == r_di
<1>1. Len(s) \in Nat /\ Len(t) = Len(s) + 1 /\ (\A i \in 1 .. Len(s) : t[i] = s[i]) /\ t[Len(s) + 1] = nd[s[p]][d + 1]
    BY ZenonT(60), LoadShape DEF Count, Link!NextNeeded, Link!Needed
<1>2. /\ WalkOK(s, nd, p, d) /\ p \in 1 .. Len(s) /\ d + 1 \in 1 .. Len(nd[s[p]])
      /\ nd[s[p]] \in Seq(LinkNames)
    BY Zenon, WalkedObject DEF Link!LoadLibrary, WalkState, Count, Link!Needed
<1>3. s[1] = Link!Exe /\ Len(nd[s[p]]) \in Nat
    BY <1>2 DEF ListInv
<1>4. WalkOK(t, nd, p, d + 1)
    <2> HIDE DEF s, t, nd, p, d
    <2> QED
        BY ZenonT(60), <1>1, <1>2, <1>3, WalkGrows
<1>5. r_phase' = r_phase /\ r_phase = "load" /\ r_processed' = r_processed /\ r_di' = r_di + 1 /\ r_program' = r_program
    BY ZenonT(60), LoadShape
<1>6. WalkState'
    BY ZenonT(60), <1>4, <1>5 DEF WalkState
<1> QED
    BY Zenon, <1>5, <1>6 DEF WalkInv

LEMMA PlacesGrow ==
    ASSUME NEW s, NEW t, NEW b, NEW c, NEW sz, NEW addr, NEW addr2 \in Nat, NEW lib,
           Len(s) \in Nat, Len(t) = Len(s) + 1, \A i \in 1 .. Len(s) : t[i] = s[i], t[Len(s) + 1] = lib,
           \A i \in 1 .. Len(s) : c[s[i]] = b[s[i]], c[lib] = addr,
           \A i \in 1 .. Len(s) : sz[s[i]] \in Nat, sz[lib] \in Nat,
           addr + sz[lib] < addr2, Places(s, b, sz, addr)
    PROVE  Places(t, c, sz, addr2)
<1>1. addr \in Nat /\ addr < addr2
    BY DEF Places
<1>2. \A i \in 1 .. Len(s) : t[i] = s[i] /\ c[t[i]] \in Nat /\ c[t[i]] + sz[t[i]] < addr
    BY ZenonT(60) DEF Places
<1>3. \A i \in 1 .. Len(t) : i = Len(s) + 1 \/ i \in 1 .. Len(s)
    OBVIOUS
<1>4. \A i \in 1 .. Len(t) : c[t[i]] \in Nat /\ c[t[i]] + sz[t[i]] < addr2
    <2> TAKE i \in 1 .. Len(t)
    <2>1. CASE i = Len(s) + 1
        BY Zenon, <1>1, <2>1
    <2>2. CASE i \in 1 .. Len(s)
        <3>1. c[t[i]] \in Nat /\ c[t[i]] + sz[t[i]] < addr /\ sz[t[i]] \in Nat
            BY ZenonT(60), <1>2, <2>2
        <3> QED
            BY <1>1, <3>1
    <2> QED
        BY ZenonT(60), <1>3, <2>1, <2>2
<1>5. \A i, j \in 1 .. Len(t) : i < j => c[t[i]] + sz[t[i]] < c[t[j]]
    <2> SUFFICES ASSUME NEW i \in 1 .. Len(t), NEW j \in 1 .. Len(t), i < j
                 PROVE  c[t[i]] + sz[t[i]] < c[t[j]]
        BY ZenonT(60)
    <2>1. i \in 1 .. Len(s)
        OBVIOUS
    <2>2. CASE j = Len(s) + 1
        BY ZenonT(60), <1>2, <2>1, <2>2
    <2>3. CASE j \in 1 .. Len(s)
        <3>1. b[s[i]] + sz[s[i]] < b[s[j]]
            BY ZenonT(60), <2>1, <2>3 DEF Places
        <3> QED
            BY ZenonT(60), <2>1, <2>3, <3>1
    <2> QED
        BY ZenonT(60), <1>3, <2>2, <2>3
<1> QED
    BY ZenonT(60), <1>4, <1>5 DEF Places

LEMMA LoadKeepsPlaces ==
    ASSUME ProgramOK, ListInv, WalkInv, PlacesInv, Link!LoadLibrary
    PROVE  PlacesInv'
<1> DEFINE s == r_objects
           t == r_objects'
           lib == Link!NextNeeded
           b == r_base
           c == r_base'
           sz == r_program.size
           addr == r_lib_load_addr
           addr2 == Link!Advance(lib)
<1>1. /\ Len(s) \in Nat /\ Len(t) = Len(s) + 1 /\ t[Len(s) + 1] = lib /\ (\A i \in 1 .. Len(s) : t[i] = s[i])
      /\ r_program' = r_program /\ r_lib_load_addr' = addr2
      /\ DOMAIN t = 1 .. (Len(s) + 1) /\ DOMAIN s = 1 .. Len(s)
      /\ c = [o \in DOMAIN b \cup {lib} |-> IF o = lib THEN addr ELSE b[o]]
    BY ZenonT(60), LoadShape DEF Count
<1>2. \A i \in 1 .. Len(s) : s[i] # lib
    BY Zenon, NewName DEF Link!LoadLibrary, Loaded, LoadedIn
<1>3. sz[lib] \in Nat
    BY Zenon, WalkedObject DEF Link!LoadLibrary, ProgramOK
<1>4. \A i \in 1 .. Len(s) : sz[s[i]] \in Nat
    BY DEF ListInv, ProgramOK
<1>5. DOMAIN b = Link!Range(s) /\ \A i \in 1 .. Len(s) : s[i] \in DOMAIN b
    BY ZenonT(60), <1>1 DEF PlacesInv, Link!Range
<1>6. addr \in Nat /\ addr2 \in Nat /\ addr + sz[lib] < addr2
    BY <1>3 DEF PlacesInv, Places, Link!Advance
<1>7. (\A i \in 1 .. Len(s) : c[s[i]] = b[s[i]]) /\ c[lib] = addr /\ DOMAIN c = DOMAIN b \cup {lib}
    BY ZenonT(60), <1>1, <1>2, <1>5
<1>8. Places(s, b, sz, addr)
    BY Zenon DEF PlacesInv
<1> HIDE DEF s, t, lib, b, c, sz, addr, addr2
<1>9. Places(t, c, sz, addr2)
    BY ZenonT(60), <1>1, <1>3, <1>4, <1>6, <1>7, <1>8, PlacesGrow
<1>10. Link!Range(t) = Link!Range(s) \cup {lib}
    <2>1. \A i \in 1 .. (Len(s) + 1) : i = Len(s) + 1 \/ i \in 1 .. Len(s)
        BY <1>1
    <2>2. Len(s) + 1 \in 1 .. (Len(s) + 1) /\ \A i \in 1 .. Len(s) : i \in 1 .. (Len(s) + 1)
        BY <1>1
    <2> QED
        BY ZenonT(60), <1>1, <2>1, <2>2 DEF Link!Range
<1> QED
    BY ZenonT(60), <1>1, <1>5, <1>7, <1>9, <1>10 DEF PlacesInv, t, c, sz

-----------------------------------------------------------------------------
(* What relocation and the constructors add. *)

(* Every object bound so far has the one binding the list gives. *)
Binding == Link!resolve_symbol_addr(Link!Exe)
BoundFrom(s, c) == {s[i] : i \in (Len(s) - c + 1) .. Len(s)}
BindInv ==
    /\ \A o \in DOMAIN r_relocated : r_relocated[o] = Binding
    /\ r_phase = "load" => DOMAIN r_relocated = {}
    /\ r_phase = "relocate" => \E c \in 0 .. Count : DOMAIN r_relocated = BoundFrom(r_objects, c)
    /\ r_phase \in {"construct", "run"} => DOMAIN r_relocated = Link!Range(r_objects)
    /\ r_phase \in {"load", "relocate"} => r_constructed = << >>

FramesInv ==
    /\ r_next_frame_slot \in Nat /\ r_alloc_base \in Nat
    /\ r_phase \in {"construct", "run"} => r_alloc_base >= r_next_frame_slot \/ r_alloc_base = alloc_limit

LinkInv == ProgramOK /\ ListInv /\ WalkInv /\ PlacesInv /\ BindInv /\ FramesInv

(* The linker counts as the theorems about finite sets do. *)
LEMMA LinkCounts ==
    \A S : Link!Cardinality(S) = Cardinality(S) /\ (Link!IsFiniteSet(S) <=> IsFiniteSet(S))
BY Zenon DEF Link!Cardinality, Cardinality, Link!IsFiniteSet, IsFiniteSet

(* As many objects are bound as the position says. *)
LEMMA BoundCount ==
    ASSUME NEW s, NEW n \in Nat, Len(s) = n, NEW c \in 0 .. n,
           \A i, j \in 1 .. n : s[i] = s[j] => i = j
    PROVE  IsFiniteSet(BoundFrom(s, c)) /\ Cardinality(BoundFrom(s, c)) = c
<1> DEFINE I == (n - c + 1) .. n
           f == [i \in I |-> s[i]]
<1>1. IsFiniteSet(I) /\ Cardinality(I) = c
    BY FS_Interval
<1>2. f \in Bijection(I, BoundFrom(s, c))
    <2>1. \A i \in I : i \in 1 .. n
        OBVIOUS
    <2>2. f \in [I -> BoundFrom(s, c)]
        BY ZenonT(60) DEF BoundFrom
    <2>3. \A i, j \in I : f[i] = f[j] => i = j
        BY ZenonT(60), <2>1
    <2>4. \A x \in BoundFrom(s, c) : \E i \in I : f[i] = x
        BY ZenonT(60) DEF BoundFrom
    <2>5. DOMAIN f = I
        OBVIOUS
    <2> HIDE DEF f, I
    <2> QED
        BY ZenonT(60), <2>2, <2>3, <2>4, <2>5 DEF IsInjective, Bijection, Injection, Surjection
<1> HIDE DEF f, I
<1> QED
    BY ZenonT(60), <1>1, <1>2, FS_Bijection DEF ExistsBijection

LEMMA BoundNext ==
    ASSUME NEW s, Len(s) \in Nat, NEW c, c \in 0 .. Len(s), c + 1 \in 0 .. Len(s)
    PROVE  BoundFrom(s, c + 1) = BoundFrom(s, c) \cup {s[Len(s) - c]}
<1> DEFINE n == Len(s)
           I == (n - c + 1) .. n
           J == (n - (c + 1) + 1) .. n
<1>1. J = I \cup {n - c}
    OBVIOUS
<1>2. BoundFrom(s, c) = {s[i] : i \in I} /\ BoundFrom(s, c + 1) = {s[i] : i \in J}
    BY ZenonT(60) DEF BoundFrom
<1> HIDE DEF I, J
<1> QED
    BY ZenonT(60), <1>1, <1>2

(* The three parts about the list, under a step that leaves it alone. *)
ListUnchanged == UNCHANGED <<r_program, r_objects, r_base, r_lib_load_addr>>

LEMMA ListStays ==
    ASSUME ProgramOK, ListInv, PlacesInv, ListUnchanged
    PROVE  ProgramOK' /\ ListInv' /\ PlacesInv' /\ Binding' = Binding /\ AllLoaded' = AllLoaded /\ Count' = Count
<1>1. ProgramOK' /\ Count' = Count
    BY ZenonT(60) DEF ProgramOK, ListUnchanged, LinkNames, Link!Needed, Count
<1>2. ListInv'
    BY DEF ListInv, ListUnchanged, LinkNames, Link!Needed, Count
<1>3. PlacesInv'
    BY ZenonT(60) DEF PlacesInv, ListUnchanged
<1>4. Binding' = Binding
    <2>1. r_objects' = r_objects /\ r_program' = r_program /\ r_base' = r_base
        BY Zenon DEF ListUnchanged
    <2> QED
        BY <2>1 DEF Binding, Link!resolve_symbol_addr
<1>5. AllLoaded' = AllLoaded
    BY ZenonT(60) DEF AllLoaded, ListUnchanged, Count, Link!Needed
<1> QED
    BY ZenonT(60), <1>1, <1>2, <1>3, <1>4, <1>5

LEMMA OneSymbol ==
    \A o : Link!resolve_symbol_addr(o) = Binding
BY ZenonT(60) DEF Binding, Link!resolve_symbol_addr

LEMMA LoadKeeps ==
    ASSUME LinkInv, Link!LoadLibrary
    PROVE  LinkInv'
<1>1. r_program' = r_program /\ r_phase' = r_phase /\ r_phase = "load"
    BY Zenon DEF Link!LoadLibrary, Link!Walking
<1>2. ProgramOK'
    BY ZenonT(60), <1>1 DEF LinkInv, ProgramOK, LinkNames, Link!Needed
<1>3. ListInv' /\ WalkInv' /\ PlacesInv'
    BY Zenon, LoadKeepsList, LoadKeepsWalk, LoadKeepsPlaces DEF LinkInv
<1>4. BindInv'
    <2>1. r_relocated' = r_relocated /\ r_constructed' = r_constructed /\ DOMAIN r_relocated = {} /\ r_constructed = << >>
        BY Zenon, <1>1 DEF Link!LoadLibrary, LinkInv, BindInv
    <2> QED
        BY Zenon, <1>1, <2>1 DEF BindInv
<1>5. FramesInv'
    <2>1. r_program.size[Link!NextNeeded] \in Nat
        BY ZenonT(60), WalkedObject DEF Link!LoadLibrary, LinkInv, ProgramOK
    <2> QED
        BY <1>1, <2>1 DEF Link!LoadLibrary, LinkInv, FramesInv
<1> QED
    BY ZenonT(60), <1>2, <1>3, <1>4, <1>5 DEF LinkInv

(* The walk's own steps. *)
LEMMA WalkKeeps ==
    ASSUME LinkInv, Link!AlreadyLoaded \/ Link!LoadFails \/ Link!NextObject \/ Link!StartRelocation
    PROVE  LinkInv'
<1>1. /\ r_phase = "load" /\ ListUnchanged
      /\ UNCHANGED <<r_next_frame_slot, r_alloc_base, r_relocated, r_constructed>>
    BY Zenon DEF Link!AlreadyLoaded, Link!LoadFails, Link!NextObject, Link!StartRelocation, Link!Walking, ListUnchanged
<1>2. r_phase' \in {"load", "relocate", "exit"}
    BY Zenon, <1>1 DEF Link!AlreadyLoaded, Link!LoadFails, Link!NextObject, Link!StartRelocation
<1>3. /\ ProgramOK' /\ ListInv' /\ PlacesInv' /\ Binding' = Binding /\ AllLoaded' = AllLoaded /\ Count' = Count
    BY ZenonT(60), <1>1, ListStays DEF LinkInv
<1>4. FramesInv'
    BY ZenonT(60), <1>1, <1>2 DEF FramesInv, LinkInv
<1>5. BindInv'
    <2>1. DOMAIN r_relocated = {} /\ r_constructed = << >> /\ Count \in Nat
        BY <1>1 DEF LinkInv, BindInv, ListInv, Count
    <2>2. BoundFrom(r_objects, 0) = {} /\ 0 \in 0 .. Count
        BY <2>1 DEF BoundFrom, Count
    <2>3. r_objects' = r_objects
        BY Zenon, <1>1 DEF ListUnchanged
    <2> QED
        BY ZenonT(60), <1>1, <1>2, <1>3, <2>1, <2>2, <2>3 DEF BindInv
<1>6. WalkInv'
    <2> DEFINE s == r_objects
               nd == r_program.needed
    <2>1. s' = s /\ nd' = nd /\ WalkOK(s, nd, r_processed, r_di) /\ Count = Len(s) /\ Count \in Nat
        BY <1>1 DEF ListUnchanged, LinkInv, WalkInv, WalkState, Count, ListInv
    <2>2. r_processed \in 1 .. (Len(s) + 1) /\ r_di \in Nat
        BY Zenon, <2>1 DEF WalkOK
    <2>3. CASE Link!LoadFails
        BY Zenon, <2>3 DEF Link!LoadFails, WalkInv
    <2>4. CASE Link!AlreadyLoaded
        <3>1. /\ r_processed \in 1 .. Len(s) /\ r_di + 1 \in 1 .. Len(nd[s[r_processed]])
              /\ Link!NextNeeded = nd[s[r_processed]][r_di + 1] /\ nd[s[r_processed]] \in Seq(LinkNames)
            BY Zenon, <2>4, WalkedObject DEF Link!AlreadyLoaded, LinkInv, Count, Link!Needed
        <3>2. r_processed # 1 /\ Link!NextNeeded \in Link!Range(s) /\ r_processed' = r_processed /\ r_di' = r_di + 1 /\ r_phase' = "load"
            BY Zenon, <2>4, <1>1 DEF Link!AlreadyLoaded, Link!Missing, Link!find_loaded_object
        <3>3. LoadedIn(s, Link!NextNeeded)
            <4>1. DOMAIN s = 1 .. Len(s)
                BY DEF LinkInv, ListInv
            <4> QED
                BY ZenonT(60), <3>2, <4>1 DEF Link!Range, LoadedIn
        <3>4. r_di + 1 \in Nat /\ r_di + 1 <= Len(nd[s[r_processed]]) /\ \A l \in 1 .. (r_di + 1) : l = r_di + 1 \/ l \in 1 .. r_di
            BY <2>2, <3>1
        <3>5. ListIn(s, nd[s[r_processed]], r_di)
            BY <2>1, <3>1 DEF WalkOK
        <3>6. ListIn(s, nd[s[r_processed]], r_di + 1)
            BY ZenonT(60), <3>1, <3>3, <3>4, <3>5 DEF ListIn
        <3> HIDE DEF s, nd
        <3>7. WalkOK(s, nd, r_processed, r_di + 1)
            BY ZenonT(60), <2>1, <2>2, <3>2, <3>4, <3>6 DEF WalkOK
        <3> QED
            BY ZenonT(60), <2>1, <3>2, <3>7 DEF WalkInv, WalkState, s, nd
    <2>5. CASE Link!NextObject
        <3>1. r_processed \in 1 .. Len(s) /\ r_di = Len(nd[s[r_processed]]) /\ r_processed' = r_processed + 1 /\ r_di' = 0 /\ r_phase' = "load"
            BY <1>1, <2>2, <2>5, <2>1 DEF Link!NextObject, Link!Walking, Link!Walked, Link!Needed
        <3>2. ListIn(s, nd[s[r_processed]], Len(nd[s[r_processed]]))
            BY <2>1, <3>1 DEF WalkOK
        <3> HIDE DEF s, nd
        <3>3. \A i \in 1 .. ((r_processed + 1) - 1) : ListIn(s, nd[s[i]], Len(nd[s[i]]))
            <4>1. \A i \in 1 .. ((r_processed + 1) - 1) : i = r_processed \/ i \in 1 .. (r_processed - 1)
                BY <3>1
            <4> QED
                BY ZenonT(60), <2>1, <3>2, <4>1 DEF WalkOK
        <3>4. r_processed + 1 \in 1 .. (Len(s) + 1) /\ r_processed + 1 # 1 /\ 0 \in Nat
            BY <2>1, <3>1
        <3>5. r_processed + 1 <= Len(s) => 0 <= Len(nd[s[r_processed + 1]]) /\ ListIn(s, nd[s[r_processed + 1]], 0)
            <4> SUFFICES ASSUME r_processed + 1 <= Len(s)
                         PROVE  0 <= Len(nd[s[r_processed + 1]]) /\ ListIn(s, nd[s[r_processed + 1]], 0)
                OBVIOUS
            <4>1. s[r_processed + 1] \in LinkNames
                BY <2>1, <3>4 DEF LinkInv, ListInv, s
            <4>2. Len(nd[s[r_processed + 1]]) \in Nat
                BY <4>1 DEF LinkInv, ProgramOK, nd
            <4> QED
                BY <4>2 DEF ListIn
        <3>6. WalkOK(s, nd, r_processed + 1, 0)
            BY ZenonT(60), <3>3, <3>4, <3>5 DEF WalkOK
        <3> QED
            BY ZenonT(60), <2>1, <3>1, <3>6 DEF WalkInv, WalkState, s, nd
    <2>6. CASE Link!StartRelocation
        <3>1. r_processed = Len(s) + 1 /\ r_phase' = "relocate"
            BY <2>1, <2>2, <2>6 DEF Link!StartRelocation
        <3>2. (Len(s) + 1) - 1 = Len(s)
            BY <2>1
        <3>3. AllLoaded
            BY ZenonT(60), <2>1, <3>1, <3>2 DEF WalkOK, AllLoaded, Link!Needed
        <3> QED
            BY ZenonT(60), <1>3, <3>1, <3>3 DEF WalkInv
    <2> QED
        BY ZenonT(60), <2>3, <2>4, <2>5, <2>6
<1> QED
    BY ZenonT(60), <1>3, <1>4, <1>5, <1>6 DEF LinkInv

(* One more object is bound, from the last of the list downwards. *)
LEMMA RelocateKeeps ==
    ASSUME LinkInv, Link!process_relocations
    PROVE  LinkInv'
<1> DEFINE o == r_objects[Count - Cardinality(DOMAIN r_relocated)]
<1>1. /\ r_phase = "relocate" /\ ListUnchanged /\ UNCHANGED <<r_next_frame_slot, r_alloc_base, r_constructed>>
      /\ Cardinality(DOMAIN r_relocated) < Count
      /\ \/ r_phase' = r_phase /\ r_relocated' = [x \in DOMAIN r_relocated \cup {o} |-> IF x = o THEN Link!resolve_symbol_addr(o) ELSE r_relocated[x]]
         \/ r_phase' = "exit" /\ r_relocated' = r_relocated
    BY ZenonT(60), LinkCounts DEF Link!process_relocations, ListUnchanged, Count
<1>2. /\ ProgramOK' /\ ListInv' /\ PlacesInv' /\ Binding' = Binding /\ AllLoaded' = AllLoaded /\ Count' = Count
      /\ r_objects' = r_objects
    BY ZenonT(60), <1>1, ListStays DEF LinkInv, ListUnchanged
<1>3. WalkInv' /\ FramesInv' /\ r_constructed = << >>
    BY ZenonT(60), <1>1, <1>2 DEF WalkInv, FramesInv, LinkInv, BindInv
<1>4. BindInv'
    <2>1. CASE r_phase' = "exit" /\ r_relocated' = r_relocated
        BY Zenon, <1>2, <2>1 DEF BindInv, LinkInv
    <2>2. CASE r_phase' = r_phase /\ r_relocated' = [x \in DOMAIN r_relocated \cup {o} |-> IF x = o THEN Link!resolve_symbol_addr(o) ELSE r_relocated[x]]
        <3>1. PICK c \in 0 .. Count : DOMAIN r_relocated = BoundFrom(r_objects, c)
            BY ZenonT(60), <1>1 DEF LinkInv, BindInv
        <3>2. Count \in Nat /\ Len(r_objects) = Count /\ \A i, j \in 1 .. Count : r_objects[i] = r_objects[j] => i = j
            BY DEF LinkInv, ListInv, Count
        <3>3. Cardinality(DOMAIN r_relocated) = c
            BY ZenonT(60), <3>1, <3>2, BoundCount
        <3>4. o = r_objects[Count - c] /\ c + 1 \in 0 .. Count
            BY <1>1, <3>2, <3>3
        <3>5. BoundFrom(r_objects, c + 1) = BoundFrom(r_objects, c) \cup {o}
            <4>1. BoundFrom(r_objects, c + 1) = BoundFrom(r_objects, c) \cup {r_objects[Count - c]}
                <5> DEFINE s == r_objects
                <5>1. Len(s) \in Nat /\ c \in 0 .. Len(s) /\ c + 1 \in 0 .. Len(s)
                    BY ZenonT(60), <3>1, <3>2, <3>4
                <5> HIDE DEF s
                <5>2. BoundFrom(s, c + 1) = BoundFrom(s, c) \cup {s[Len(s) - c]}
                    BY ZenonT(60), <5>1, BoundNext
                <5> QED
                    BY ZenonT(60), <3>2, <5>2 DEF s
            <4> HIDE DEF o
            <4> QED
                BY ZenonT(60), <3>4, <4>1
        <3>6. DOMAIN r_relocated' = BoundFrom(r_objects, c + 1)
            BY ZenonT(60), <2>2, <3>1, <3>5
        <3>7. \A x \in DOMAIN r_relocated' : r_relocated'[x] = Binding
            BY ZenonT(60), <2>2, OneSymbol DEF LinkInv, BindInv
        <3>8. r_phase' = "relocate" /\ r_constructed' = << >>
            BY Zenon, <1>1, <1>3, <2>2
        <3> QED
            BY ZenonT(60), <1>2, <3>4, <3>6, <3>7, <3>8 DEF BindInv
    <2> QED
        BY ZenonT(60), <1>1, <2>1, <2>2
<1> QED
    BY ZenonT(60), <1>2, <1>3, <1>4 DEF LinkInv

(* The exports, the constructors and the calls bound lazily. *)
LEMMA RunKeeps ==
    ASSUME Link!RtldAssumption, LinkInv, Link!Export \/ Link!Construct \/ Link!rtld_jump_entry \/ Link!_dl_fixup
    PROVE  LinkInv'
<1>1. ListUnchanged /\ r_next_frame_slot' = r_next_frame_slot /\ r_phase \in {"relocate", "construct", "run"}
    BY Zenon DEF Link!Export, Link!Construct, Link!rtld_jump_entry, Link!_dl_fixup, ListUnchanged
<1>2. r_phase' \in {"construct", "run", "exit"}
    BY Zenon DEF Link!Export, Link!Construct, Link!rtld_jump_entry, Link!_dl_fixup
<1>3. /\ ProgramOK' /\ ListInv' /\ PlacesInv' /\ Binding' = Binding /\ AllLoaded' = AllLoaded /\ Count' = Count
      /\ r_objects' = r_objects
    BY ZenonT(60), <1>1, ListStays DEF LinkInv, ListUnchanged
<1>4. WalkInv'
    BY Zenon, <1>1, <1>2, <1>3 DEF WalkInv, LinkInv
<1>5. FramesInv'
    <2>1. CASE Link!Export
        BY <1>1, <2>1 DEF Link!Export, Link!AdvancedLayout, FramesInv, LinkInv, Link!RtldAssumption
    <2>2. CASE Link!Construct \/ Link!rtld_jump_entry \/ Link!_dl_fixup
        <3>1. r_alloc_base' = r_alloc_base /\ r_phase \in {"construct", "run"}
            BY Zenon, <2>2 DEF Link!Construct, Link!rtld_jump_entry, Link!_dl_fixup
        <3> QED
            BY Zenon, <1>1, <1>2, <3>1 DEF FramesInv, LinkInv
    <2> QED
        BY Zenon, <2>1, <2>2
<1>6. /\ DOMAIN r_relocated' = DOMAIN r_relocated
      /\ \A x \in DOMAIN r_relocated' : r_relocated'[x] = Binding
    <2>1. CASE r_relocated' = r_relocated
        BY Zenon, <2>1 DEF LinkInv, BindInv
    <2>2. CASE r_relocated' # r_relocated
        <3>1. Link!_dl_fixup
            BY Zenon, <2>2 DEF Link!Export, Link!Construct, Link!rtld_jump_entry
        <3>2. PICK o \in DOMAIN r_relocated : r_relocated' = [r_relocated EXCEPT ![o] = Link!resolve_symbol_addr(o)]
            BY Zenon, <2>2, <3>1 DEF Link!_dl_fixup
        <3> QED
            BY ZenonT(60), <3>2, OneSymbol DEF LinkInv, BindInv
    <2> QED
        BY Zenon, <2>1, <2>2
<1>7. r_phase' # "exit" => DOMAIN r_relocated = Link!Range(r_objects)
    <2>1. CASE r_phase \in {"construct", "run"}
        BY Zenon, <2>1 DEF LinkInv, BindInv
    <2>2. CASE r_phase = "relocate"
        <3>1. Cardinality(DOMAIN r_relocated) = Count
            BY Zenon, <2>2, LinkCounts DEF Link!Export, Link!Construct, Link!rtld_jump_entry, Link!_dl_fixup, Count
        <3>2. PICK c \in 0 .. Count : DOMAIN r_relocated = BoundFrom(r_objects, c)
            BY ZenonT(60), <2>2 DEF LinkInv, BindInv
        <3>3. Count \in Nat /\ Len(r_objects) = Count /\ DOMAIN r_objects = 1 .. Count
              /\ \A i, j \in 1 .. Count : r_objects[i] = r_objects[j] => i = j
            BY DEF LinkInv, ListInv, Count
        <3>4. c = Count
            BY ZenonT(60), <3>1, <3>2, <3>3, BoundCount
        <3>5. (Count - Count + 1) = 1
            BY <3>3
        <3>6. BoundFrom(r_objects, Count) = Link!Range(r_objects)
            BY ZenonT(60), <3>3, <3>5 DEF BoundFrom, Link!Range
        <3> QED
            BY ZenonT(60), <3>2, <3>4, <3>6
    <2> QED
        BY Zenon, <1>1, <2>1, <2>2
<1>8. BindInv'
    BY Zenon, <1>2, <1>3, <1>6, <1>7 DEF BindInv
<1> QED
    BY ZenonT(60), <1>3, <1>4, <1>5, <1>8 DEF LinkInv

(* A set of positions that is not empty has a first. *)
LEMMA FirstPlace ==
    ASSUME NEW S \in SUBSET Nat, S # {}
    PROVE  \E x \in S : \A y \in S : x <= y
<1> DEFINE Less == OpToRel(<, Nat)
<1>1. IsWellFoundedOn(Less, Nat)
    BY ZenonT(60), NatLessThanWellFounded
<1>2. \A x, y \in Nat : <<y, x>> \in Less <=> y < x
    BY Zenon DEF OpToRel
<1> HIDE DEF Less
<1>3. PICK x \in S : \A y \in S : ~ (<<y, x>> \in Less)
    BY ZenonT(60), <1>1, WFMin
<1>4. \A y \in S : x <= y
    <2> TAKE y \in S
    <2>1. x \in Nat /\ y \in Nat
        OBVIOUS
    <2>2. ~ (y < x)
        BY ZenonT(60), <2>1, <1>2, <1>3
    <2> QED
        BY <2>1, <2>2
<1> QED
    BY ZenonT(60), <1>4

(* Only a symbol nothing loaded defines is bound to 0. *)
LEMMA UnboundUndefined ==
    ASSUME ListInv, PlacesInv, Binding = 0
    PROVE  r_program.defines \cap Link!Range(r_objects) = {}
<1> DEFINE d == {i \in DOMAIN r_objects : r_objects[i] \in r_program.defines}
           first == CHOOSE i \in d : \A j \in d : i <= j
<1>1. Binding = IF d = {} THEN 0 ELSE r_base[r_objects[first]] + 1
    BY ZenonT(60) DEF Binding, Link!resolve_symbol_addr
<1>2. DOMAIN r_objects = 1 .. Count /\ Count \in Nat /\ d \subseteq DOMAIN r_objects
    BY DEF ListInv, Count
<1>3. d = {}
    <2> SUFFICES ASSUME d # {} PROVE FALSE
        BY ZenonT(60)
    <2>1. d \in SUBSET Nat
        BY <1>2
    <2> HIDE DEF d
    <2>2. \E x \in d : \A y \in d : x <= y
        BY ZenonT(60), <2>1, FirstPlace
    <2>3. first \in d
        BY ZenonT(60), <2>2
    <2> HIDE DEF first
    <2>4. first \in 1 .. Count
        BY ZenonT(60), <1>2, <2>3
    <2>5. r_base[r_objects[first]] \in Nat
        BY ZenonT(60), <2>4 DEF PlacesInv, Places, Count
    <2> QED
        BY <1>1, <2>5
<1> QED
    BY ZenonT(60), <1>3 DEF Link!Range

(* What is loaded is closed, and no smaller set with the executable is. *)
LEMMA LeastClosed ==
    ASSUME ProgramOK, ListInv, AllLoaded
    PROVE  /\ Link!Closed(Link!Range(r_objects)) /\ Link!IsInjective(r_objects)
           /\ \A set \in SUBSET Link!Range(r_objects) : Link!Closed(set) => set = Link!Range(r_objects)
<1>1. /\ Count \in Nat /\ DOMAIN r_objects = 1 .. Count /\ Count >= 1 /\ 1 \in 1 .. Count /\ r_objects[1] = Link!Exe
      /\ \A i \in 1 .. Count : r_objects[i] \in LinkNames
    BY DEF ListInv, Count
<1>2. \A o \in LinkNames : DOMAIN Link!Needed(o) = 1 .. Len(Link!Needed(o))
    <2> TAKE o \in LinkNames
    <2>1. Link!Needed(o) \in Seq(LinkNames)
        BY Zenon DEF ProgramOK, Link!Needed
    <2> QED
        BY <2>1
<1>3. Link!Closed(Link!Range(r_objects))
    <2>1. Link!Exe \in Link!Range(r_objects)
        BY ZenonT(60), <1>1 DEF Link!Range
    <2>2. ASSUME NEW o \in Link!Range(r_objects), NEW x \in Link!Range(Link!Needed(o))
          PROVE  x \in Link!Range(r_objects)
        <3>1. PICK i \in 1 .. Count : r_objects[i] = o
            BY ZenonT(60), <1>1 DEF Link!Range
        <3>2. PICK l \in 1 .. Len(Link!Needed(o)) : Link!Needed(o)[l] = x
            BY ZenonT(60), <1>1, <1>2, <3>1 DEF Link!Range
        <3>3. LoadedIn(r_objects, x)
            BY ZenonT(60), <3>1, <3>2 DEF AllLoaded, ListIn
        <3> QED
            BY ZenonT(60), <1>1, <3>3 DEF LoadedIn, Link!Range, Count
    <2> QED
        BY ZenonT(60), <2>1, <2>2 DEF Link!Closed
<1>4. Link!IsInjective(r_objects)
    BY ZenonT(60), <1>1 DEF ListInv, Link!IsInjective
<1>5. ASSUME NEW set \in SUBSET Link!Range(r_objects), Link!Closed(set)
      PROVE  \A i \in 1 .. Count : r_objects[i] \in set
    <2> DEFINE out == {i \in 1 .. Count : r_objects[i] \notin set}
    <2> SUFFICES ASSUME out # {} PROVE FALSE
        BY ZenonT(60)
    <2>1. out \in SUBSET Nat /\ out \subseteq 1 .. Count
        BY <1>1
    <2>2. \A i \in 1 .. Count : i \notin out => r_objects[i] \in set
        BY ZenonT(60)
    <2>3. \A i \in out : r_objects[i] \notin set
        BY ZenonT(60)
    <2> HIDE DEF out
    <2>4. PICK i \in out : \A j \in out : i <= j
        BY ZenonT(60), <2>1, FirstPlace
    <2>5. i # 1
        BY ZenonT(60), <1>1, <1>5, <2>3 DEF Link!Closed
    <2>6. i \in 1 .. Count
        BY ZenonT(60), <2>1
    <2>7. i \in 2 .. Count
        BY <2>5, <2>6
    <2>8. PICK j \in 1 .. (i - 1) : \E k \in 1 .. Len(Link!Needed(r_objects[j])) : r_objects[i] = Link!Needed(r_objects[j])[k]
        BY ZenonT(60), <2>7 DEF ListInv
    <2>9. j \in 1 .. Count /\ ~ (i <= j)
        BY <1>1, <2>7
    <2>10. r_objects[j] \in set /\ r_objects[j] \in LinkNames
        BY ZenonT(60), <1>1, <2>2, <2>4, <2>9
    <2>11. r_objects[i] \in Link!Range(Link!Needed(r_objects[j]))
        BY ZenonT(60), <1>2, <2>8, <2>10 DEF Link!Range
    <2> QED
        BY ZenonT(60), <1>5, <2>3, <2>10, <2>11 DEF Link!Closed
<1>6. \A set \in SUBSET Link!Range(r_objects) : Link!Closed(set) => set = Link!Range(r_objects)
    BY ZenonT(60), <1>1, <1>5 DEF Link!Range
<1> QED
    BY ZenonT(60), <1>3, <1>4, <1>6

LEMMA LinkSteps ==
    ASSUME Link!RtldAssumption, LinkInv, [Link!Next]_Link!rtldVars
    PROVE  LinkInv'
<1>1. CASE UNCHANGED Link!rtldVars
    <2>1. /\ ListUnchanged
          /\ UNCHANGED <<r_processed, r_di, r_phase, r_relocated, r_constructed, r_next_frame_slot, r_alloc_base>>
        BY Zenon, <1>1 DEF Link!rtldVars, ListUnchanged
    <2>2. /\ ProgramOK' /\ ListInv' /\ PlacesInv' /\ Binding' = Binding /\ AllLoaded' = AllLoaded /\ Count' = Count
          /\ r_objects' = r_objects /\ r_program' = r_program
        BY ZenonT(60), <2>1, ListStays DEF LinkInv, ListUnchanged
    <2>3. WalkState' = WalkState
        BY ZenonT(60), <2>1, <2>2 DEF WalkState
    <2>4. WalkInv' /\ FramesInv'
        BY ZenonT(60), <2>1, <2>2, <2>3 DEF WalkInv, FramesInv, LinkInv
    <2>5. BindInv'
        BY ZenonT(60), <2>1, <2>2 DEF BindInv, LinkInv
    <2> QED
        BY ZenonT(60), <2>2, <2>4, <2>5 DEF LinkInv
<1>2. CASE Link!LoadLibrary
    BY ZenonT(60), <1>2, LoadKeeps
<1>3. CASE Link!AlreadyLoaded \/ Link!LoadFails \/ Link!NextObject \/ Link!StartRelocation
    BY ZenonT(60), <1>3, WalkKeeps
<1>4. CASE Link!process_relocations
    BY ZenonT(60), <1>4, RelocateKeeps
<1>5. CASE Link!Export \/ Link!Construct \/ Link!rtld_jump_entry \/ Link!_dl_fixup
    BY ZenonT(60), <1>5, RunKeeps
<1> QED
    BY ZenonT(60), <1>1, <1>2, <1>3, <1>4, <1>5 DEF Link!Next

(* For every DT_NEEDED graph: exactly the needed objects are loaded, each  *)
(* once (rtld_main's walk and find_loaded_object); no two images overlap   *)
(* (lib_load_addr); every reference to a symbol has the same binding, and  *)
(* no constructor runs before all objects are bound (process_relocations,  *)
(* _dl_fixup); the program's free slots lie past the linker's frames.      *)
THEOREM ProgramLinked ==
    ASSUME Link!RtldAssumption
    PROVE  Link!Spec => [](Link!ClosureLoaded /\ Link!ImagesDisjoint /\ Link!OneBinding /\ Link!FramesNotReused)
<1>1. Link!Init => LinkInv
    <2> SUFFICES ASSUME Link!Init PROVE LinkInv
        OBVIOUS
    <2>1. ProgramOK /\ ListInv /\ WalkInv /\ PlacesInv
        BY ZenonT(60), LinkInit
    <2>2. BindInv
        BY Zenon DEF Link!Init, BindInv
    <2>3. FramesInv
        BY Zenon DEF Link!Init, FramesInv, Link!RtldAssumption
    <2> QED
        BY ZenonT(60), <2>1, <2>2, <2>3 DEF LinkInv
<1>2. LinkInv /\ [Link!Next]_Link!rtldVars => LinkInv'
    BY ZenonT(60), LinkSteps
<1>3. LinkInv => Link!ClosureLoaded /\ Link!ImagesDisjoint /\ Link!OneBinding /\ Link!FramesNotReused
    <2> SUFFICES ASSUME LinkInv PROVE Link!ClosureLoaded /\ Link!ImagesDisjoint /\ Link!OneBinding /\ Link!FramesNotReused
        OBVIOUS
    <2>1. Link!ClosureLoaded
        BY ZenonT(60), LeastClosed DEF LinkInv, WalkInv, Link!ClosureLoaded
    <2>2. Link!ImagesDisjoint
        <3>1. DOMAIN r_objects = 1 .. Len(r_objects)
            BY DEF LinkInv, ListInv
        <3> QED
            BY ZenonT(60), <3>1 DEF LinkInv, PlacesInv, Places, Link!ImagesDisjoint
    <2>3. Link!OneBinding
        <3>1. \A o, p \in DOMAIN r_relocated : r_relocated[o] = r_relocated[p]
            BY ZenonT(60) DEF LinkInv, BindInv
        <3>2. ASSUME Len(r_constructed) > 0, r_phase # "exit"
              PROVE  DOMAIN r_relocated = Link!Range(r_objects)
            <4>1. r_constructed # << >>
                BY <3>2
            <4> QED
                BY Zenon, <3>2, <4>1 DEF LinkInv, BindInv, WalkInv
        <3>3. ASSUME DOMAIN r_relocated = Link!Range(r_objects), 0 \in {r_relocated[o] : o \in Link!Range(r_objects)}
              PROVE  r_program.defines \cap Link!Range(r_objects) = {}
            <4>1. Binding = 0
                BY ZenonT(60), <3>3 DEF LinkInv, BindInv
            <4> QED
                BY ZenonT(60), <4>1, UnboundUndefined DEF LinkInv
        <3> QED
            BY ZenonT(60), <3>1, <3>2, <3>3 DEF Link!OneBinding
    <2>4. Link!FramesNotReused
        BY ZenonT(60) DEF LinkInv, FramesInv, Link!FramesNotReused
    <2> QED
        BY ZenonT(60), <2>1, <2>2, <2>3, <2>4
<1> QED
    BY <1>1, <1>2, <1>3, PTL DEF Link!Spec
=============================================================================
