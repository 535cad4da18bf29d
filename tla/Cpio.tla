-------------------------------- MODULE Cpio ---------------------------------
(***************************************************************************)
(* The walkers of the initrd archive (loader/cpio.rs, and the copy in the  *)
(* ELF runtime linker, rtld_internal.h).  An archive is the sequence of    *)
(* entries its writer stored; the walkers see a buffer of archive_len      *)
(* bytes, which may stop short of it, and find each header by computing    *)
(* where it must be.  Names and data are abstract; sizes and offsets are   *)
(* the real ones.                                                          *)
(***************************************************************************)
EXTENDS Integers, Sequences, Functions

CONSTANTS CPIO_HEADER_SIZE,
          NameSize,     \* size of each name with its final NUL
          FileSizes,    \* file sizes to choose from
          MaxEntries,   \* bound: files in an archive
          Cuts          \* how many bytes of the archive may be missing

Trailer == "TRAILER!!!"
CpioAssumption ==
    /\ Trailer \in DOMAIN NameSize /\ \A n \in DOMAIN NameSize : NameSize[n] \in Nat \ {0}
    /\ CPIO_HEADER_SIZE \in Nat /\ FileSizes \subseteq Nat /\ MaxEntries \in Nat /\ Cuts \subseteq Nat

VARIABLES archive, archive_len, offset, listed, done

cpioVars == <<archive, archive_len, offset, listed, done>>

align4(n) == ((n + 3) \div 4) * 4

(* The format: header and name padded to four bytes, then the data, padded. *)
StoredSize(e) == align4(CPIO_HEADER_SIZE + NameSize[e.name]) + align4(e.size)
StoredAt(i) == SumFunctionOnSet([k \in DOMAIN archive |-> StoredSize(archive[k])], 1 .. i - 1)
StoredData(i) == StoredAt(i) + align4(CPIO_HEADER_SIZE + NameSize[archive[i].name])

Files == [name : DOMAIN NameSize \ {Trailer}, size : FileSizes]
Archives == {Append(files, [name |-> Trailer, size |-> 0]) : files \in UNION {[1 .. n -> Files] : n \in 0 .. MaxEntries}}

Init ==
    /\ archive \in Archives
    /\ \E cut \in Cuts : archive_len = StoredAt(Len(archive) + 1) - cut /\ archive_len >= 0
    /\ offset = 0 /\ listed = << >> /\ done = FALSE

-----------------------------------------------------------------------------
data_start(off, e) == align4(off + CPIO_HEADER_SIZE + NameSize[e.name])
data_end(off, e) == data_start(off, e) + e.size

(* The entries whose header passes check_magic at an offset: one, or none. *)
Headers(off) == {i \in DOMAIN archive : StoredAt(i) = off}

(* The entry a walker accepts at an offset: inside the buffer, and not *)
(* the trailer.                                                        *)
Entry(off) ==
    {i \in Headers(off) :
        /\ off + CPIO_HEADER_SIZE <= archive_len
        /\ off + CPIO_HEADER_SIZE + NameSize[archive[i].name] <= archive_len
        /\ archive[i].name # Trailer
        /\ data_end(off, archive[i]) <= archive_len}

Found(off, e) == [name |-> e.name, data |-> data_start(off, e), data_len |-> e.size]

(* Mistaken form: the next header is sought right after the data. *)
AdvancedUnaligned(off, e) == data_end(off, e)
Advanced(off, e) == align4(data_end(off, e))

cpio_next ==
    /\ ~done
    /\ \/ /\ Entry(offset) = {} /\ done' = TRUE
          /\ UNCHANGED <<offset, listed>>
       \/ /\ \E i \in Entry(offset) :
               /\ listed' = Append(listed, Found(offset, archive[i]))
               /\ offset' = Advanced(offset, archive[i])
          /\ UNCHANGED done
    /\ UNCHANGED <<archive, archive_len>>

cpio_find_file(name) ==
    LET find[off \in Nat] ==
            UNION {IF archive[i].name = name THEN {Found(off, archive[i])}
                   ELSE find[Advanced(off, archive[i])] : i \in Entry(off)}
    IN find[0]

cpio_archive_size ==
    LET size[off \in Nat] ==
            IF off + CPIO_HEADER_SIZE > archive_len THEN archive_len
            ELSE IF Headers(off) = {} THEN off
            ELSE LET e == archive[CHOOSE i \in Headers(off) : TRUE] IN
                 IF off + CPIO_HEADER_SIZE + NameSize[e.name] > archive_len THEN archive_len
                 ELSE IF e.name = Trailer THEN Advanced(off, e)
                 ELSE IF data_end(off, e) > archive_len THEN archive_len
                 ELSE size[Advanced(off, e)]
    IN size[0]

Next == cpio_next
Spec == Init /\ [][Next]_cpioVars

-----------------------------------------------------------------------------
(* Iterating with cpio_next (or cpio_next_ext) yields exactly the files    *)
(* stored wholly inside the buffer, in order, each with the bytes its      *)
(* writer stored, and never a byte outside the buffer.                     *)
WholeFilesListed ==
    done => LET whole(i) == StoredData(i) + archive[i].size <= archive_len
                n == Len(listed)
            IN /\ n < Len(archive)
               /\ \A i \in 1 .. n : /\ whole(i)
                                    /\ listed[i] = [name |-> archive[i].name, data |-> StoredData(i), data_len |-> archive[i].size]
               /\ n + 1 < Len(archive) => ~whole(n + 1)

(* Looking a name up (cpio_find_file, cpio_find_file_ext, rtld_cpio_find)   *)
(* gives the first file iteration lists under that name, and nothing when   *)
(* it lists none: a spawner that iterates and a linker that searches agree. *)
FindAgreesWithIteration ==
    done => \A name \in DOMAIN NameSize \ {Trailer} :
        LET same == {i \in DOMAIN listed : listed[i].name = name} IN
        cpio_find_file(name) = {listed[i] : i \in {j \in same : \A k \in same : j <= k}}

(* cpio_archive_size covers every file iteration lists, and is the offset   *)
(* just past the trailer, or max_len if the archive is truncated            *)
(* (cpio.rs:342-346).                                                       *)
SizeCoversFiles ==
    done => LET size == cpio_archive_size IN
        /\ \A i \in DOMAIN listed : listed[i].data + listed[i].data_len <= size
        /\ size \in {archive_len, StoredAt(Len(archive) + 1)}
=============================================================================
