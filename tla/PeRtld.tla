------------------------------- MODULE PeRtld -------------------------------
(***************************************************************************)
(* Start-up in the PE run-time loader, pe_rtld_main                        *)
(* (rtld/pe/rtld_pe_main.c): relocate the mapped image, protect and        *)
(* initialise kernel32.dll, fill the import address table, protect the     *)
(* image and enter it.  The import lookup table is the address table       *)
(* itself when the file has no separate one, and then the base relocations *)
(* may have moved its entries before they are read.  A word has            *)
(* WordSize = 2^w values; its high half marks an import by ordinal.        *)
(***************************************************************************)
EXTENDS Integers, Sequences

CONSTANTS WordSize,    \* 2^64
          Ordinals,    \* 2^16: an ordinal is the low part of an entry
          image_size,
          Files,       \* [dll, entries, alias, fixups]: one import descriptor
          Deltas,      \* base minus preferred base, modulo WordSize
          Names,       \* hint/name RVA -> name
          Exports,     \* [base, functions, names]: kernel32's export directory
          ServerRva,   \* name -> RVA the Win32 server answers, 0 for none
          kernel32_base

PeRtldAssumption ==
    /\ {WordSize, Ordinals, image_size, kernel32_base} \subseteq Nat
    /\ Deltas \subseteq 0 .. WordSize - 1 /\ DOMAIN Names \subseteq 1 .. image_size - 3

VARIABLES file, delta,
          iat,         \* the import address table of the mapped image
          fixed,       \* entries of the table the relocations have reached
          idx,         \* import being resolved
          kernel32,    \* "mapped", "protected", "initialised"
          protected,   \* the image's sections have their final permissions
          phase        \* "relocate", "kernel32", "import", "protect", "run", "exit"

peVars == <<file, delta, iat, fixed, idx, kernel32, protected, phase>>

OrdinalFlag == WordSize \div 2

Init ==
    /\ file \in Files /\ delta \in Deltas
    /\ iat = file.entries
    /\ fixed = {} /\ idx = 1
    /\ kernel32 = "mapped" /\ protected = FALSE
    /\ phase = "relocate"

-----------------------------------------------------------------------------
(* apply_base_relocations: nothing at the preferred base, otherwise each *)
(* DIR64 fixup adds the delta to its word.                               *)
Fixups == IF delta = 0 THEN {} ELSE file.fixups

apply_base_relocations ==
    /\ phase = "relocate"
    /\ \E i \in Fixups \ fixed :
          /\ iat' = [iat EXCEPT ![i] = (@ + delta) % WordSize]
          /\ fixed' = fixed \cup {i}
    /\ UNCHANGED <<file, delta, idx, kernel32, protected, phase>>

(* A file that is not valid, a reloc directory outside every section or a *)
(* missing kernel32 mapping: pe_exit.                                     *)
StartFails ==
    /\ phase \in {"relocate", "kernel32", "protect"} /\ phase' = "exit"
    /\ UNCHANGED <<file, delta, iat, fixed, idx, kernel32, protected>>

Relocated ==
    /\ phase = "relocate" /\ fixed = Fixups
    /\ phase' = "kernel32"
    /\ UNCHANGED <<file, delta, iat, fixed, idx, kernel32, protected>>

(* apply_pe_image_permissions on kernel32, then its kernel32_runtime_init. *)
ProtectKernel32 ==
    /\ phase = "kernel32" /\ kernel32 = "mapped"
    /\ kernel32' = "protected"
    /\ UNCHANGED <<file, delta, iat, fixed, idx, protected, phase>>

initialize_kernel32_runtime ==
    /\ phase = "kernel32" /\ kernel32 = "protected"
    /\ kernel32' = "initialised" /\ phase' = "import"
    /\ UNCHANGED <<file, delta, iat, fixed, idx, protected>>

-----------------------------------------------------------------------------
pe_is_valid_import_lookup_entry(entry) ==
    \/ entry = 0
    \/ entry >= OrdinalFlag /\ entry - OrdinalFlag < Ordinals
    \/ entry < OrdinalFlag /\ entry + 2 <= image_size

(* Mistaken form: an entry is decoded as it is found. *)
EntryAsFound(entry) == entry

(* An entry of a shared table that makes no sense is taken to have been *)
(* moved by a relocation.                                               *)
pe_normalize_import_lookup_entry(entry) ==
    LET recovered == (entry + WordSize - delta) % WordSize
    IN IF file.alias /\ ~pe_is_valid_import_lookup_entry(entry)
          /\ pe_is_valid_import_lookup_entry(recovered)
       THEN recovered ELSE entry

lookup_export_by_ordinal(ordinal) ==
    LET index == ordinal - Exports.base + 1
    IN IF index \in DOMAIN Exports.functions THEN Exports.functions[index] ELSE 0

lookup_export_by_name(name) ==
    LET match == {i \in DOMAIN Exports.names : Exports.names[i].name = name}
    IN IF match = {} THEN 0
       ELSE LET i == CHOOSE m \in match : \A n \in match : m <= n
                f == Exports.names[i].index
            IN IF f \in DOMAIN Exports.functions THEN Exports.functions[f] ELSE 0

(* resolve_kernel32_export, and resolve_single_import where it finds *)
(* nothing; only kernel32.dll is known.                              *)
Resolve(entry) ==
    IF file.dll # "kernel32.dll" THEN 0
    ELSE IF entry >= OrdinalFlag
    THEN lookup_export_by_ordinal(entry % Ordinals)
    ELSE IF entry \in DOMAIN Names
    THEN LET local == lookup_export_by_name(Names[entry])
         IN IF local # 0 THEN local ELSE ServerRva[Names[entry]]
    ELSE lookup_export_by_ordinal(0)

(* The lookup table is the address table when the file has only that. *)
(* A zero entry ends it.                                              *)
LookupEntry ==
    IF idx > Len(iat) THEN 0
    ELSE pe_normalize_import_lookup_entry(IF file.alias THEN iat[idx] ELSE file.entries[idx])

(* An import that cannot be resolved keeps its word, with a warning. *)
resolve_imports ==
    /\ phase = "import" /\ LookupEntry # 0
    /\ LET rva == Resolve(LookupEntry)
       IN iat' = IF rva = 0 THEN iat ELSE [iat EXCEPT ![idx] = kernel32_base + rva]
    /\ idx' = idx + 1
    /\ UNCHANGED <<file, delta, fixed, kernel32, protected, phase>>

ImportsDone ==
    /\ phase = "import" /\ LookupEntry = 0
    /\ phase' = "protect"
    /\ UNCHANGED <<file, delta, iat, fixed, idx, kernel32, protected>>

apply_pe_image_permissions ==
    /\ phase = "protect" /\ ~protected
    /\ protected' = TRUE
    /\ UNCHANGED <<file, delta, iat, fixed, idx, kernel32, phase>>

pe_jump_entry ==
    /\ phase = "protect" /\ protected
    /\ phase' = "run"
    /\ UNCHANGED <<file, delta, iat, fixed, idx, kernel32, protected>>

Next == \/ apply_base_relocations \/ StartFails \/ Relocated \/ ProtectKernel32
        \/ initialize_kernel32_runtime \/ resolve_imports \/ ImportsDone
        \/ apply_pe_image_permissions \/ pe_jump_entry

Spec == Init /\ [][Next]_peVars

-----------------------------------------------------------------------------
(* When the program is entered, every import holds the function that the  *)
(* file asked for, although the lookup table may have been relocated      *)
(* before it was read, and an import nothing exports holds the file's     *)
(* word, moved once if a fixup names it.                                  *)
ImportsBound ==
    phase = "run" =>
        \A i \in DOMAIN iat :
            LET raw == file.entries[i] IN
            iat[i] = IF Resolve(raw) # 0 THEN kernel32_base + Resolve(raw)
                     ELSE IF i \in Fixups THEN (raw + delta) % WordSize ELSE raw
=============================================================================
