---------------------------- MODULE ImageLoader -----------------------------
(***************************************************************************)
(* The three loaders that turn an executable file into mapped pages:       *)
(* elf_load (loader/elf_loader.rs), pe_load (loader/pe_loader.rs) and the  *)
(* dynamic linker's load_shared_library (rtld/elf/rtld_elf.c).  They share *)
(* one scheme: for every segment in file order, for every page of it, map  *)
(* a zeroed frame with the segment's file data, or, where an earlier       *)
(* segment already owns the page, patch the frame and merge permissions;   *)
(* then apply the relocations.  They differ in what a failure to patch     *)
(* does, in what is recorded, and in the linker's device mappings.         *)
(* Addresses are counted in words from the load base; the word of the file *)
(* at offset k holds k + 1, a relocated word lies Moved higher.            *)
(***************************************************************************)
EXTENDS Integers, Sequences, FiniteSets, Functions

CONSTANTS Images,       \* [loader, segs, headers, relocs, data_len, moved]
          PageWords,    \* words of a page
          MAX_PAGES,    \* the loaders' page tables: 256, 512, 256
          Moved,        \* distance between the preferred base and the base
          MaxFailures   \* bound: kernel calls that fail in one load

ImageLoaderAssumption ==
    /\ {PageWords, MAX_PAGES, Moved, MaxFailures} \subseteq Nat /\ PageWords > 0
    /\ \A i \in Images : i.loader \in {"elf_load", "pe_load", "load_shared_library"}

VARIABLES image,      \* the file and the loader it was given to
          seg, page,  \* the segment being loaded and its next page
          rel,        \* relocations applied
          pages,      \* page address -> its words, flags, device-mapped or not
          recorded,   \* page address -> flags last given to ctx.record_page
          result,     \* "loading", "ok" or "failed"
          ignored,    \* a patch was skipped because its scratch mapping failed
          failures

loaderVars == <<image, seg, page, rel, pages, recorded, result, ignored, failures>>

-----------------------------------------------------------------------------
page_align_down(v) == (v \div PageWords) * PageWords
page_align_up(v) == page_align_down(v + PageWords - 1)

Least(a, b) == IF a < b THEN a ELSE b
Greatest(a, b) == IF a > b THEN a ELSE b

(* phdr_to_flags and section_to_vspace_flags: writable wins over executable. *)
to_vspace_flags(flags) == IF "W" \in flags THEN flags \ {"X"} ELSE flags

(* What pe_load maps before the sections: the headers, page by page, file *)
(* offset equal to address.                                               *)
HeaderSegment ==
    [vaddr |-> 0, off |-> 0, filesz |-> Least(page_align_up(image.headers), image.data_len),
     memsz |-> page_align_up(image.headers), flags |-> {}]

(* A section without a virtual size has the size of its raw data. *)
Section(s) == [s EXCEPT !.memsz = IF @ > 0 THEN @ ELSE s.filesz]

(* The segments in the order they are loaded; discardable and empty *)
(* sections of a PE file are not.                                   *)
Segments ==
    IF image.loader = "pe_load"
    THEN <<HeaderSegment>>
           \o SelectSeq([i \in DOMAIN image.segs |-> Section(image.segs[i])],
                        LAMBDA s : "D" \notin s.flags /\ s.memsz # 0)
    ELSE image.segs

SegStart(s) == page_align_down(s.vaddr)
SegEnd(s) == page_align_up(s.vaddr + s.memsz)
PagesOf(s) == (SegEnd(s) - SegStart(s)) \div PageWords

elf_count_load_pages ==
    SumFunction([i \in DOMAIN Segments |-> PagesOf(Segments[i])])

(* elf_compute_load_span, and pe_compute_load_span for a size_of_image *)
(* that covers the sections.                                           *)
compute_load_span ==
    page_align_up(FoldFunction(Greatest, 0, [i \in DOMAIN Segments |-> Segments[i].vaddr + Segments[i].memsz]))

(* The words of page p that the file supplies; none when the range lies *)
(* beyond the end of the file.                                          *)
FileData(s, p) ==
    LET covered == {a \in p .. p + PageWords - 1 : s.vaddr <= a /\ a < s.vaddr + s.filesz}
    IN IF \E a \in covered : a - s.vaddr + s.off >= image.data_len
       THEN << >>
       ELSE [a \in covered |-> a - s.vaddr + s.off + 1]

Zeroed(p) == [a \in p .. p + PageWords - 1 |-> 0]

Overlay(words, data) ==
    [a \in DOMAIN words |-> IF a \in DOMAIN data THEN data[a] ELSE words[a]]

-----------------------------------------------------------------------------
NoPages == [p \in {} |-> {}]

(* elf_load counts the pages before it maps any. *)
Admitted == image.loader = "elf_load" => elf_count_load_pages \in 1 .. MAX_PAGES

Init ==
    /\ image \in Images
    /\ seg = 1 /\ rel = 0
    /\ page = SegStart(Segments[1])
    /\ pages = NoPages /\ recorded = NoPages
    /\ result = IF Admitted THEN "loading" ELSE "failed"
    /\ ignored = FALSE /\ failures = 0

Mapping == result = "loading" /\ seg <= Len(Segments)
InSegment == Mapping /\ page < SegEnd(Segments[seg])
S == Segments[seg]
Flags == to_vspace_flags(S.flags)

With(map, p, v) == [q \in DOMAIN map \cup {p} |-> IF q = p THEN v ELSE map[q]]
Without(map, p) == [q \in DOMAIN map \ {p} |-> map[q]]

Records == image.loader # "load_shared_library"
Step == /\ page' = page + PageWords
        /\ UNCHANGED <<image, seg, rel, result>>

(* The end of the page loop of one segment. *)
NextSegment ==
    /\ Mapping /\ page >= SegEnd(S)
    /\ seg' = seg + 1
    /\ page' = IF seg < Len(Segments) THEN SegStart(Segments[seg + 1]) ELSE page
    /\ UNCHANGED <<image, rel, pages, recorded, result, ignored, failures>>

Room == Cardinality(DOMAIN pages) < MAX_PAGES

(* A page no earlier segment has: a frame is retyped, zeroed and filled *)
(* through the scratch mapping, mapped at its address and recorded.     *)
NewPage ==
    /\ InSegment /\ page \notin DOMAIN pages /\ Room
    /\ pages' = With(pages, page, [words |-> Overlay(Zeroed(page), FileData(S, page)),
                                   flags |-> Flags, device |-> FALSE])
    /\ recorded' = IF Records THEN With(recorded, page, Flags) ELSE recorded
    /\ Step /\ UNCHANGED <<ignored, failures>>

(* The linker maps a page straight from the initrd when it is not      *)
(* writable and the file covers it with an aligned page; otherwise, or *)
(* when that mapping is refused, it allocates a frame.                 *)
DevicePage ==
    /\ image.loader = "load_shared_library"
    /\ InSegment /\ page \notin DOMAIN pages /\ Room
    /\ "W" \notin Flags
    /\ LET data == FileData(S, page)
       IN /\ DOMAIN data = DOMAIN Zeroed(page)
          /\ (data[page] - 1) % PageWords = 0
          /\ pages' = With(pages, page, [words |-> data, flags |-> Flags, device |-> TRUE])
    /\ Step /\ UNCHANGED <<recorded, ignored, failures>>

(* Mistaken form: a segment that adds no permission does not patch. *)
PatchWhenChanged(data, merged) ==
    IF merged = pages[page].flags THEN pages
    ELSE [pages EXCEPT ![page].words = Overlay(@, data), ![page].flags = merged]

Patched(data, merged) ==
    [pages EXCEPT ![page].words = Overlay(@, data), ![page].flags = merged]

(* Joining the permissions drops X from a page that becomes writable. *)
Merged == to_vspace_flags(pages[page].flags \cup Flags)

(* elf_load records a page again when its permissions changed; pe_load *)
(* does not.                                                           *)
RecordedAgain ==
    IF image.loader = "elf_load" /\ Merged # pages[page].flags
    THEN With(recorded, page, Merged) ELSE recorded

(* A page of an earlier segment: its frame is patched through the scratch *)
(* mapping, and remapped when the joined permissions differ.              *)
PatchPage ==
    /\ InSegment /\ page \in DOMAIN pages
    /\ ~pages[page].device
    /\ pages' = Patched(FileData(S, page), Merged)
    /\ recorded' = RecordedAgain
    /\ Step /\ UNCHANGED <<ignored, failures>>

(* The same page, the scratch mapping refused: elf_load and pe_load go on *)
(* without the data.                                                      *)
PatchIgnored ==
    /\ InSegment /\ page \in DOMAIN pages /\ Records
    /\ FileData(S, page) # << >>
    /\ failures < MaxFailures /\ failures' = failures + 1
    /\ pages' = Patched(<< >>, Merged)
    /\ recorded' = RecordedAgain
    /\ ignored' = TRUE
    /\ Step

(* A later segment that overlaps a device-mapped page has to change *)
(* nothing of it.                                                   *)
SharedDevicePage ==
    /\ InSegment /\ page \in DOMAIN pages
    /\ pages[page].device
    /\ FileData(S, page) = << >> /\ Flags \subseteq pages[page].flags
    /\ Step /\ UNCHANGED <<pages, recorded, ignored, failures>>

Fail == /\ result' = "failed"
        /\ UNCHANGED <<image, seg, page, rel, ignored>>

(* The page table is full, or a device-mapped page would have to change. *)
Refused ==
    /\ InSegment
    /\ \/ page \notin DOMAIN pages /\ ~Room
       \/ /\ page \in DOMAIN pages /\ pages[page].device
          /\ FileData(S, page) # << >> \/ ~(Flags \subseteq pages[page].flags)
    /\ Fail /\ UNCHANGED <<pages, recorded, failures>>

(* A kernel call or the record callback fails: before the page was mapped, *)
(* after it was mapped, or between the unmap and the map of a remap.       *)
PageFails ==
    /\ InSegment /\ failures < MaxFailures /\ failures' = failures + 1
    /\ Fail /\ UNCHANGED recorded
    /\ \/ page \notin DOMAIN pages /\ pages' = pages
       \/ /\ page \notin DOMAIN pages /\ Records
          /\ pages' = With(pages, page, [words |-> Overlay(Zeroed(page), FileData(S, page)),
                                         flags |-> Flags, device |-> FALSE])
       \/ /\ page \in DOMAIN pages /\ image.loader = "load_shared_library"
          /\ ~pages[page].device /\ FileData(S, page) # << >>
          /\ pages' = pages
       \/ /\ page \in DOMAIN pages /\ ~pages[page].device /\ Merged # pages[page].flags
          /\ pages' = Without(pages, page)

-----------------------------------------------------------------------------
(* load_shared_library leaves relocation to process_relocations; pe_load *)
(* relocates an image that is not at its preferred base.                 *)
Relocations ==
    IF image.loader = "load_shared_library" \/ (image.loader = "pe_load" /\ ~image.moved)
    THEN << >> ELSE image.relocs

Relocating == result = "loading" /\ seg > Len(Segments)

(* R_*_RELATIVE stores base + addend, DIR64 adds the delta to the word. *)
Relocated(old, r) == IF image.loader = "pe_load" THEN old + Moved ELSE Moved + r.addend

Relocate ==
    /\ Relocating /\ rel < Len(Relocations)
    /\ LET r == Relocations[rel + 1]
           p == page_align_down(r.offset)
       IN \/ /\ p \in DOMAIN pages
             /\ pages' = [pages EXCEPT ![p].words[r.offset] = Relocated(@, r)]
             /\ rel' = rel + 1
             /\ UNCHANGED <<image, seg, page, recorded, result, ignored, failures>>
          \/ /\ p \notin DOMAIN pages \/ failures < MaxFailures
             /\ failures' = IF p \in DOMAIN pages THEN failures + 1 ELSE failures
             /\ Fail /\ UNCHANGED <<pages, recorded>>

Finish ==
    /\ Relocating /\ rel = Len(Relocations)
    /\ result' = "ok"
    /\ UNCHANGED <<image, seg, page, rel, pages, recorded, ignored, failures>>

Next == \/ NextSegment \/ NewPage \/ DevicePage \/ PatchPage \/ PatchIgnored
        \/ SharedDevicePage \/ Refused \/ PageFails \/ Relocate \/ Finish

Spec == Init /\ [][Next]_loaderVars

-----------------------------------------------------------------------------
TypeOK ==
    /\ result \in {"loading", "ok", "failed"}
    /\ \A p \in DOMAIN pages :
          p % PageWords = 0 /\ DOMAIN pages[p].words = p .. p + PageWords - 1
    /\ DOMAIN recorded \subseteq Nat

(* What a word of the image has to hold: the file's word or zero, moved *)
(* by each relocation that names it.                                    *)
FileWord(a, s) == IF a < s.vaddr + s.filesz THEN a - s.vaddr + s.off + 1 ELSE 0
ImageWord(a, s) ==
    LET named == {i \in DOMAIN Relocations : Relocations[i].offset = a}
    IN IF named = {} THEN FileWord(a, s)
       ELSE IF image.loader = "pe_load" THEN FileWord(a, s) + Moved
       ELSE Moved + Relocations[CHOOSE i \in named : \A j \in named : j <= i].addend

(* The words of a segment that no later segment takes over. *)
Owned(i) ==
    LET words(s) == s.vaddr .. s.vaddr + s.memsz - 1
    IN words(Segments[i]) \ UNION {words(Segments[j]) : j \in i + 1 .. Len(Segments)}

Loaded ==
    \A i \in DOMAIN Segments : \A a \in Owned(i) :
        /\ page_align_down(a) \in DOMAIN pages
        /\ pages[page_align_down(a)].words[a] = ImageWord(a, Segments[i])

(* A load that reports success has put every word of every segment where  *)
(* the file says, zero-filled and relocated, whatever pages the segments  *)
(* share: elf_load, pe_load and load_shared_library alike. Loads in which *)
(* the ignored scratch mapping error skipped a patch are excepted.        *)
LoadedUnlessIgnored == result = "ok" /\ ~ignored => Loaded

(* When a load succeeds, a page is writable exactly when one of the       *)
(* segments on it is, and executable exactly when one is and none is      *)
(* writable: merging permissions page by page does not depend on the      *)
(* order of the segments.                                                 *)
PermissionsExact ==
    result = "ok" =>
        \A p \in DOMAIN pages :
            LET on == {s \in Range(Segments) : SegStart(s) <= p /\ p < SegEnd(s)}
                writable == \E s \in on : "W" \in s.flags
            IN /\ "W" \in pages[p].flags <=> writable
               /\ "X" \in pages[p].flags <=> ~writable /\ \E s \in on : "X" \in s.flags

(* The pages of an image stay inside the span, and within the number of   *)
(* pages, that the loader's caller computed beforehand to lay out the     *)
(* child's address space and to size its frame slots.                     *)
WithinSpan ==
    /\ \A p \in DOMAIN pages : p + PageWords <= compute_load_span
    /\ Cardinality(DOMAIN pages) <= elf_count_load_pages

(* While elf_load has not failed, the caller's record of the child's pages *)
(* has exactly the pages that are mapped, with their current permissions,  *)
(* remapped ones included.                                                 *)
RecordsMatch ==
    image.loader = "elf_load" /\ result # "failed" =>
        recorded = [p \in DOMAIN pages |-> pages[p].flags]
=============================================================================
