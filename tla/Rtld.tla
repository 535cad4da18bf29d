-------------------------------- MODULE Rtld ---------------------------------
(***************************************************************************)
(* Start-up in the ELF dynamic linker, rtld_main (rtld/elf/rtld_main.c):   *)
(* load the executable's DT_NEEDED libraries, then those their libraries   *)
(* need, relocate every object against the list of all of them, publish    *)
(* what the linker knows to libtrona, run the constructors and enter the   *)
(* program, whose calls may still be bound lazily by _dl_fixup.  An object *)
(* is its name and its place; one symbol stands for each of those the      *)
(* objects define and refer to.                                            *)
(***************************************************************************)
EXTENDS Integers, Sequences, FiniteSets, Functions

CONSTANTS Programs,          \* [needed, defines, weak, size]: what is linked
          RTLD_MAX_OBJECTS,  \* 16
          frame_slot_base,   \* of the CSpace layout passed in auxv
          alloc_limit,
          MaxFailures        \* bound: 1 when a library may fail to load

Exe == "executable"

(* DT_NEEDED lists name objects; the executable's was written by a link *)
(* editor, which names each library once.                               *)
RtldAssumption ==
    /\ {RTLD_MAX_OBJECTS, frame_slot_base, alloc_limit, MaxFailures} \subseteq Nat
    /\ \A g \in Programs :
          LET names == DOMAIN g.needed IN
          /\ Exe \in names /\ g.needed \in [names -> Seq(names)] /\ g.size \in [names -> Nat]
          /\ Exe \notin Range(g.needed[Exe]) /\ IsInjective(g.needed[Exe])

VARIABLES program,     \* the executable and the libraries there are
          objects,     \* g_rtld.objects: the loaded names, in link order
          base,        \* load address of each loaded object
          lib_load_addr,
          processed, di,   \* the object whose DT_NEEDED are walked, and how far
          next_frame_slot, \* first slot the linker has not used for a frame
          alloc_base,      \* of the layout descriptor shared with the program
          relocated,   \* object -> what its reference was bound to, 0 for none
          constructed, \* libraries whose constructors ran, in order
          phase        \* "load", "relocate", "export", "construct", "run", "exit"

rtldVars == <<program, objects, base, lib_load_addr, processed, di, next_frame_slot,
              alloc_base, relocated, constructed, phase>>

Needed(o) == program.needed[o]

Init ==
    /\ program \in Programs
    /\ objects = <<Exe>>
    /\ base = [o \in {Exe} |-> 0]
    /\ lib_load_addr = program.size[Exe] + 1
    /\ processed = 1 /\ di = 0
    /\ next_frame_slot = frame_slot_base
    /\ alloc_base = IF frame_slot_base < alloc_limit THEN frame_slot_base ELSE alloc_limit
    /\ relocated = [o \in {} |-> 0] /\ constructed = << >>
    /\ phase = "load"

-----------------------------------------------------------------------------
Walking == phase = "load" /\ processed <= Len(objects)
NextNeeded == Needed(objects[processed])[di + 1]

(* find_loaded_object, by canonical name. *)
find_loaded_object(lib) == lib \in Range(objects)

(* The walk of the executable's own list loads without looking; a list a *)
(* link editor wrote names each library once.                            *)
Missing == processed = 1 \/ ~find_loaded_object(NextNeeded)

(* Mistaken form: the load address advances by the gap alone. *)
AdvanceByGap(lib) == lib_load_addr + 1

(* The footprint and a page of distance; an object without one counts as *)
(* 0x80000 bytes.                                                        *)
Advance(lib) == lib_load_addr + (IF program.size[lib] = 0 THEN 8 ELSE program.size[lib]) + 1

(* load_shared_library or load_premapped_library: the object is mapped,  *)
(* one frame slot per page, and appended to the list.                    *)
LoadLibrary ==
    /\ Walking /\ di < Len(Needed(objects[processed]))
    /\ Missing /\ Len(objects) < RTLD_MAX_OBJECTS
    /\ LET lib == NextNeeded IN
       /\ objects' = Append(objects, lib)
       /\ base' = [o \in DOMAIN base \cup {lib} |-> IF o = lib THEN lib_load_addr ELSE base[o]]
       /\ lib_load_addr' = Advance(lib)
       /\ next_frame_slot' = next_frame_slot + program.size[lib]
    /\ di' = di + 1
    /\ UNCHANGED <<program, processed, alloc_base, relocated, constructed, phase>>

AlreadyLoaded ==
    /\ Walking /\ di < Len(Needed(objects[processed])) /\ ~Missing
    /\ di' = di + 1
    /\ UNCHANGED <<program, objects, base, lib_load_addr, processed, next_frame_slot,
                   alloc_base, relocated, constructed, phase>>

(* The table is full, the file is missing or a page cannot be mapped: *)
(* rtld_exit(127).                                                    *)
LoadFails ==
    /\ Walking /\ di < Len(Needed(objects[processed])) /\ Missing
    /\ Len(objects) >= RTLD_MAX_OBJECTS \/ MaxFailures > 0
    /\ phase' = "exit"
    /\ UNCHANGED <<program, objects, base, lib_load_addr, processed, di, next_frame_slot,
                   alloc_base, relocated, constructed>>

(* The libraries loaded on the way are walked in their turn. *)
Walked == processed' = processed + 1 /\ di' = 0

NextObject ==
    /\ Walking /\ di = Len(Needed(objects[processed]))
    /\ Walked
    /\ UNCHANGED <<program, objects, base, lib_load_addr, next_frame_slot,
                   alloc_base, relocated, constructed, phase>>

StartRelocation ==
    /\ phase = "load" /\ processed > Len(objects)
    /\ phase' = "relocate"
    /\ UNCHANGED <<program, objects, base, lib_load_addr, processed, di, next_frame_slot,
                   alloc_base, relocated, constructed>>

-----------------------------------------------------------------------------

(* resolve_by_index and resolve_symbol_addr: the first definition in link *)
(* order, the executable's before the libraries'.                         *)
resolve_symbol_addr(o) ==
    LET d == {i \in DOMAIN objects : objects[i] \in program.defines}
    IN IF d = {} THEN 0 ELSE base[objects[CHOOSE i \in d : \A j \in d : i <= j]] + 1

(* process_relocations, from the last object to the executable; a strong *)
(* reference nothing defines is fatal.                                   *)
process_relocations ==
    /\ phase = "relocate" /\ Cardinality(DOMAIN relocated) < Len(objects)
    /\ LET o == objects[Len(objects) - Cardinality(DOMAIN relocated)]
           addr == resolve_symbol_addr(o)
       IN \/ /\ addr # 0 \/ program.weak
             /\ relocated' = [x \in DOMAIN relocated \cup {o} |->
                                IF x = o THEN addr ELSE relocated[x]]
             /\ UNCHANGED phase
          \/ /\ addr = 0 /\ ~program.weak
             /\ phase' = "exit" /\ UNCHANGED relocated
    /\ UNCHANGED <<program, objects, base, lib_load_addr, processed, di, next_frame_slot,
                   alloc_base, constructed>>

(* The descriptor's free range starts past the linker's frames. *)
AdvancedLayout ==
    IF next_frame_slot <= alloc_base THEN alloc_base
    ELSE IF next_frame_slot < alloc_limit THEN next_frame_slot ELSE alloc_limit

(* GOT entries, the exports to libtrona and libc, the capability table. *)
Export ==
    /\ phase = "relocate" /\ Cardinality(DOMAIN relocated) = Len(objects)
    /\ alloc_base' = AdvancedLayout
    /\ phase' = "construct"
    /\ UNCHANGED <<program, objects, base, lib_load_addr, processed, di, next_frame_slot,
                   relocated, constructed>>

(* DT_INIT and DT_INIT_ARRAY of the libraries, forward. *)
Construct ==
    /\ phase = "construct" /\ Len(constructed) < Len(objects) - 1
    /\ constructed' = Append(constructed, objects[Len(constructed) + 2])
    /\ UNCHANGED <<program, objects, base, lib_load_addr, processed, di, next_frame_slot,
                   alloc_base, relocated, phase>>

rtld_jump_entry ==
    /\ phase = "construct" /\ Len(constructed) = Len(objects) - 1
    /\ phase' = "run"
    /\ UNCHANGED <<program, objects, base, lib_load_addr, processed, di, next_frame_slot,
                   alloc_base, relocated, constructed>>

(* A call through a PLT entry that still leads to the resolver; a symbol *)
(* nothing defines is fatal here even when it is weak.                   *)
_dl_fixup ==
    /\ phase \in {"construct", "run"}
    /\ \E o \in DOMAIN relocated :
          LET addr == resolve_symbol_addr(o)
          IN \/ addr # 0 /\ relocated' = [relocated EXCEPT ![o] = addr] /\ UNCHANGED phase
             \/ addr = 0 /\ phase' = "exit" /\ UNCHANGED relocated
    /\ UNCHANGED <<program, objects, base, lib_load_addr, processed, di, next_frame_slot,
                   alloc_base, constructed>>

Next == \/ LoadLibrary \/ AlreadyLoaded \/ LoadFails \/ NextObject \/ StartRelocation
        \/ process_relocations \/ Export \/ Construct \/ rtld_jump_entry \/ _dl_fixup

Spec == Init /\ [][Next]_rtldVars

-----------------------------------------------------------------------------
TypeOK ==
    /\ phase \in {"load", "relocate", "construct", "run", "exit"}
    /\ DOMAIN base = Range(objects)
    /\ {lib_load_addr, next_frame_slot, alloc_base, processed, di} \subseteq Nat

(* A set of objects that has what its members need, the executable among *)
(* them.                                                                 *)
Closed(set) == Exe \in set /\ \A o \in set : Range(Needed(o)) \subseteq set

(* Once the libraries are loaded, exactly the objects the program needs, *)
(* directly or through its libraries, are loaded (the least closed set), *)
(* each once, whatever cycles and shared dependencies the DT_NEEDED lists *)
(* form.                                                                 *)
ClosureLoaded ==
    phase \notin {"load", "exit"} =>
        /\ Closed(Range(objects))
        /\ \A set \in SUBSET Range(objects) : Closed(set) => set = Range(objects)
        /\ IsInjective(objects)

(* No two objects overlap: each library is loaded past the end of the one *)
(* before it, a gap included, whatever sizes their segments have.         *)
ImagesDisjoint ==
    \A i, j \in DOMAIN objects : i < j =>
        base[objects[i]] + program.size[objects[i]] < base[objects[j]]

(* All objects that refer to a symbol are bound to the same definition,   *)
(* the first in link order, whether bound at start-up or lazily, and no   *)
(* constructor runs before every object is bound.                         *)
OneBinding ==
    /\ \A o, p \in DOMAIN relocated : relocated[o] = relocated[p]
    /\ Len(constructed) > 0 /\ phase # "exit" =>
          DOMAIN relocated = Range(objects) /\ (0 \in {relocated[o] : o \in Range(objects)}
                                                 => program.defines \cap Range(objects) = {})

(* The program never allocates a slot that holds one of the linker's      *)
(* frames: when its first code runs, a constructor, the free range of the *)
(* shared descriptor lies past them or is empty.                          *)
FramesNotReused ==
    phase \in {"construct", "run"} => alloc_base >= next_frame_slot \/ alloc_base = alloc_limit
=============================================================================
