---------------------------- MODULE Mbi2Builder ----------------------------
(***************************************************************************)
(* mbi2.c and mbi2.h: building a Multiboot2 information structure in a     *)
(* stretch of memory, and finding the way through one.                     *)
(*                                                                         *)
(* A builder is the code's struct mbi2_builder with two more fields: mem,  *)
(* the blobs that were written, by their addresses, and ok, which is FALSE *)
(* once an assertion has failed.  A blob is its contents and its size; a   *)
(* string is the value of its pointer and its length without the NUL.      *)
(***************************************************************************)
EXTENDS Integers, Sequences, SequencesExt

MBI2_TAG_END == 0
MBI2_TAG_CMDLINE == 1
MBI2_TAG_MODULE == 3
MBI2_TAG_MEMORY == 6
MBI2_TAG_RSDP_V1 == 14
MBI2_TAG_RSDP_V2 == 15

MBI2_TAG_ALIGNMENT == 8

(* The sizes of the structures. *)
BootInfoSize == 8
TagSize == 8
ModuleSize == 8
MemorySize == 8
MemoryEntrySize == 24
RsdpV1Size == 20

AlignUp(n, align) == ((n + align - 1) \div align) * align

(* What the builder writes. *)
InfoBlob(total) == [size |-> BootInfoSize, total_size |-> total]
TagBlob(type, n) == [size |-> TagSize, type |-> type, tag_size |-> n]
StringBlob(s) == [size |-> s.len + 1, string |-> s.id]
ModuleBlob(m) ==
  [size |-> ModuleSize, mod_start |-> m.mod_start, mod_end |-> m.mod_end]
MemoryBlob == [size |-> MemorySize, entry_size |-> MemoryEntrySize]
EntryBlob(e) == [size |-> MemoryEntrySize, entry |-> e]
RsdpBlob(r) ==
  [size |-> IF r.rev <= 1 THEN RsdpV1Size ELSE r.size, rsdp |-> r.rev]

-----------------------------------------------------------------------------
(* memcpy of a blob. *)
Written(mem, at, blob) ==
  [a \in DOMAIN mem \cup {at} |-> IF a = at THEN blob ELSE mem[a]]

(* Mutant: does not count the bytes for the alignment. *)
MutAddBlobTight(bld, align, blob) ==
  LET at == AlignUp(bld.cur, align) IN
  IF bld.ok /\ blob.size <= bld.end - bld.cur
    THEN [bld EXCEPT !.mem = Written(@, at, blob), !.cur = at + blob.size]
    ELSE [bld EXCEPT !.ok = FALSE]

(* Mutant: keeps twice the bytes for the alignment. *)
MutAddBlobGreedy(bld, align, blob) ==
  LET at == AlignUp(bld.cur, align) IN
  IF bld.ok /\ blob.size + 2 * align <= bld.end - bld.cur
    THEN [bld EXCEPT !.mem = Written(@, at, blob), !.cur = at + blob.size]
    ELSE [bld EXCEPT !.ok = FALSE]

(* mbi2_add_blob *)
AddBlob(bld, align, blob) ==
  LET at == AlignUp(bld.cur, align) IN
  IF bld.ok /\ blob.size + align <= bld.end - bld.cur
    THEN [bld EXCEPT !.mem = Written(@, at, blob), !.cur = at + blob.size]
    ELSE [bld EXCEPT !.ok = FALSE]

(* A tag of a type with its payload: the header is aligned, what follows   *)
(* it is not.                                                              *)
AddTag(bld, type, n, payload) ==
  LET added[k \in 0 .. Len(payload)] ==
        IF k = 0 THEN AddBlob(bld, MBI2_TAG_ALIGNMENT, TagBlob(type, n))
                 ELSE AddBlob(added[k - 1], 1, payload[k])
  IN  added[Len(payload)]

(* mbi2_build *)
BuilderAt(start, max_size) ==
  LET bld == [start |-> start, cur |-> start, end |-> start + max_size,
              mem |-> <<>>, ok |-> start % MBI2_TAG_ALIGNMENT = 0]
  IN  AddBlob(bld, MBI2_TAG_ALIGNMENT, InfoBlob(0))

(* mbi2_add_boot_cmdline *)
AddBootCmdline(bld, s) ==
  AddTag(bld, MBI2_TAG_CMDLINE, TagSize + s.len + 1, <<StringBlob(s)>>)

(* Mutant: forgets the NUL in the size. *)
MutAddModuleNoNul(bld, m) ==
  AddTag(bld, MBI2_TAG_MODULE, TagSize + ModuleSize + m.string.len,
         <<ModuleBlob(m), StringBlob(m.string)>>)

(* mbi2_add_module *)
AddModule(bld, m) ==
  AddTag(bld, MBI2_TAG_MODULE, TagSize + ModuleSize + m.string.len + 1,
         <<ModuleBlob(m), StringBlob(m.string)>>)

(* mbi2_add_mbi1_memmap: one loop counts the entries, one copies them.     *)
AddMbi1Memmap(bld, mmap) ==
  AddTag(bld, MBI2_TAG_MEMORY,
         TagSize + MemorySize + MemoryEntrySize * Len(mmap),
         <<MemoryBlob>> \o [k \in DOMAIN mmap |-> EntryBlob(mmap[k])])

(* mbi2_add_rsdp *)
AddRsdp(bld, r) ==
  AddTag(bld, IF r.rev = 1 THEN MBI2_TAG_RSDP_V1 ELSE MBI2_TAG_RSDP_V2,
         TagSize + RsdpBlob(r).size, <<RsdpBlob(r)>>)

(* mbi2_finish *)
BuilderFinished(bld) ==
  LET b == AddTag(bld, MBI2_TAG_END, TagSize, <<>>) IN
  IF b.ok THEN [b EXCEPT !.mem[b.start] = InfoBlob(b.cur - b.start)] ELSE b

-----------------------------------------------------------------------------
(* Reading.  mem[a].size is defined for the address of a blob only.        *)

(* mbi2_tag_first *)
TagFirst(start) == start + BootInfoSize

(* The address mbi2_tag_next looks at. *)
TagAfter(mem, tag) == tag + AlignUp(mem[tag].tag_size, TagSize)

(* mbi2_tag_payload *)
TagPayload(tag) == tag + TagSize

(* mbi2_memory_map_first, mbi2_memory_map_next (0 for NULL). *)
MemoryMapFirst(tag) == TagPayload(tag) + MemorySize

MemoryMapNext(mem, tag, entry) ==
  LET next == entry + mem[TagPayload(tag)].entry_size
  IN  IF next < tag + mem[tag].tag_size THEN next ELSE 0

=============================================================================
