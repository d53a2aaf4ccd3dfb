------------------------------ MODULE Mbi2Info ------------------------------
(***************************************************************************)
(* From start_module of elf.c the part that writes, for a Multiboot2       *)
(* kernel, what a Multiboot1 loader has told Bender: mbi_pop_module and    *)
(* convert_mb1_to_mbi2; and mbi2_example.c, the kernel of the tests, which *)
(* reads it.  The modules have been relocated before, see Relocation.      *)
(***************************************************************************)
EXTENDS Mbi2Builder, Rsdp, FiniteSets

CONSTANTS
  PhysAddrs,    (* where the structure may be built: page aligned          *)
  Lengths,      (* how much memory there may be for it: 16 KiB in the code *)
  Mbis          (* the Multiboot1 information the loader may provide       *)

String == [id: STRING, len: Nat]

ASSUME Mbi2Assumption ==
  /\ PhysAddrs \subseteq Nat \ {0}
  /\ \A a \in PhysAddrs : a % MBI2_TAG_ALIGNMENT = 0
  /\ Lengths \subseteq Nat
  /\ Mbis \subseteq
       [flags: SUBSET {"mem", "cmdline", "mods"},
        cmdline: String,
        mmap: Seq([addr: Nat, len: Nat, type: Nat]) \ {<<>>},
        mods: Seq([mod_start: Nat, mod_end: Nat, string: String])]

VARIABLES
  mbi,          (* the Multiboot1 information                              *)
  loaded,       (* history: the same, as the loader has left it            *)
  area,         (* the memory for the structure: phys_addr and length      *)
  pc,           (* where the program is                                    *)
  bld,          (* struct mbi2_builder, see Mbi2Builder                    *)
  mod_index,
  tag, entry,   (* where the kernel reads                                  *)
  seen          (* history: what the kernel has printed                    *)

vars == <<rsdpVars, mbi, loaded, area, pc, bld, mod_index, tag, entry, seen>>
input == <<rsdpVars, mbi, loaded, area>>
reader == <<tag, entry, seen>>

Init ==
  /\ mbi \in Mbis
  /\ loaded = mbi
  /\ RsdpInit
  /\ area \in [phys_addr: PhysAddrs, length: Lengths]
  /\ pc = "start"
  /\ bld = [start |-> 0, cur |-> 0, end |-> 0, mem |-> <<>>, ok |-> TRUE]
  /\ mod_index = 0
  /\ tag = 0 /\ entry = 0
  /\ seen = <<>>

(* start_module finds no module and returns. *)
NoModule ==
  /\ pc = "start"
  /\ "mods" \notin mbi.flags \/ mbi.mods = <<>>
  /\ pc' = "exit"
  /\ UNCHANGED <<input, bld, mod_index, reader>>

(* Mutant: leaves the flag of the command line alone. *)
MutPopModuleNoFlag ==
  /\ pc = "start"
  /\ "mods" \in mbi.flags /\ mbi.mods # <<>>
  /\ mbi' = [mbi EXCEPT !.mods = Tail(@), !.cmdline = Head(mbi.mods).string]
  /\ pc' = "build"
  /\ UNCHANGED <<rsdpVars, loaded, area, bld, mod_index, reader>>

(* mbi_pop_module, and what start_module does with the module it gets: the *)
(* first module is the kernel, its command line becomes the kernel's.      *)
PopModule ==
  /\ pc = "start"
  /\ "mods" \in mbi.flags /\ mbi.mods # <<>>
  /\ mbi' = [mbi EXCEPT !.mods = Tail(@), !.cmdline = Head(mbi.mods).string,
                        !.flags = @ \cup {"cmdline"}]
  /\ pc' = "build"
  /\ UNCHANGED <<rsdpVars, loaded, area, bld, mod_index, reader>>

(* Go on with a builder, unless an assertion has failed in it. *)
GoOn(from, to, b) ==
  /\ pc = from
  /\ bld' = b
  /\ pc' = IF b.ok THEN to ELSE "halted"

Build ==
  /\ GoOn("build", "cmdline", BuilderAt(area.phys_addr, area.length))
  /\ UNCHANGED <<input, mod_index, reader>>

ConvertCmdline ==
  /\ GoOn("cmdline", "mem",
          IF "cmdline" \in mbi.flags THEN AddBootCmdline(bld, mbi.cmdline) ELSE bld)
  /\ UNCHANGED <<input, mod_index, reader>>

(* The memory map is taken if MBI_FLAG_MEM is set, which is not the flag   *)
(* of the memory map.                                                      *)
ConvertMemmap ==
  /\ GoOn("mem", "mods",
          IF "mem" \in mbi.flags THEN AddMbi1Memmap(bld, mbi.mmap) ELSE bld)
  /\ UNCHANGED <<input, mod_index, reader>>

(* Mutant: forgets to go on to the next module. *)
MutConvertModuleFirst ==
  /\ "mods" \in mbi.flags
  /\ mod_index < Len(mbi.mods)
  /\ GoOn("mods", "mods", AddModule(bld, mbi.mods[1]))
  /\ mod_index' = mod_index + 1
  /\ UNCHANGED <<input, reader>>

(* One round of the loop over the modules. *)
ConvertModule ==
  /\ "mods" \in mbi.flags
  /\ mod_index < Len(mbi.mods)
  /\ GoOn("mods", "mods", AddModule(bld, mbi.mods[mod_index + 1]))
  /\ mod_index' = mod_index + 1
  /\ UNCHANGED <<input, reader>>

(* The end of that loop, and acpi_get_rsdp. *)
SearchRsdp ==
  /\ pc = "mods"
  /\ "mods" \in mbi.flags => mod_index >= Len(mbi.mods)
  /\ AcpiGetRsdp
  /\ UNCHANGED <<mbi, loaded, area, pc, bld, mod_index, reader>>

ConvertRsdp ==
  /\ done
  /\ GoOn("mods", "finish", IF ret # Null THEN AddRsdp(bld, memory[ret].table) ELSE bld)
  /\ UNCHANGED <<input, mod_index, reader>>

Finish ==
  /\ GoOn("finish", "boot", BuilderFinished(bld))
  /\ UNCHANGED <<input, mod_index, reader>>

-----------------------------------------------------------------------------
(* The kernel, mbi2_example.c; start is what it finds in ebx.              *)

KernelStart ==
  /\ pc = "boot"
  /\ tag' = TagFirst(bld.start)
  /\ pc' = "read"
  /\ UNCHANGED <<input, bld, mod_index, entry, seen>>

(* There is a tag to be found where the kernel looks for one. *)
IsTag(a) == a \in DOMAIN bld.mem /\ "type" \in DOMAIN bld.mem[a]

(* mbi2_tag_next; memory the builder has not written holds anything. *)
GoToNextTag ==
  LET n == TagAfter(bld.mem, tag) IN
  /\ tag' = IF IsTag(n) /\ bld.mem[n].type = MBI2_TAG_END THEN 0 ELSE n
  /\ pc' = IF tag' = 0 THEN "done" ELSE IF IsTag(n) THEN "read" ELSE "astray"

ReadCmdline ==
  /\ pc = "read" /\ bld.mem[tag].type = MBI2_TAG_CMDLINE
  /\ seen' = Append(seen, <<"cmdline", bld.mem[TagPayload(tag)].string>>)
  /\ GoToNextTag
  /\ UNCHANGED <<input, bld, mod_index, entry>>

ReadModule ==
  /\ pc = "read" /\ bld.mem[tag].type = MBI2_TAG_MODULE
  /\ seen' = Append(seen,
       <<"module", bld.mem[TagPayload(tag) + ModuleSize].string>>)
  /\ GoToNextTag
  /\ UNCHANGED <<input, bld, mod_index, entry>>

ReadMemoryMap ==
  /\ pc = "read" /\ bld.mem[tag].type = MBI2_TAG_MEMORY
  /\ entry' = MemoryMapFirst(tag)
  /\ pc' = "entries"
  /\ UNCHANGED <<input, bld, mod_index, tag, seen>>

ReadEntry ==
  /\ pc = "entries" /\ entry # 0
  /\ seen' = Append(seen, <<"entry", bld.mem[entry].entry>>)
  /\ entry' = MemoryMapNext(bld.mem, tag, entry)
  /\ UNCHANGED <<input, pc, bld, mod_index, tag>>

LastEntryRead ==
  /\ pc = "entries" /\ entry = 0
  /\ GoToNextTag
  /\ UNCHANGED <<input, bld, mod_index, entry, seen>>

ReadOther ==
  /\ pc = "read"
  /\ bld.mem[tag].type \notin {MBI2_TAG_CMDLINE, MBI2_TAG_MODULE, MBI2_TAG_MEMORY}
  /\ seen' = Append(seen, <<"unknown", bld.mem[tag].type>>)
  /\ GoToNextTag
  /\ UNCHANGED <<input, bld, mod_index, entry>>

Step ==
  \/ NoModule \/ PopModule
  \/ Build \/ ConvertCmdline \/ ConvertMemmap \/ ConvertModule \/ SearchRsdp \/ ConvertRsdp
  \/ Finish
  \/ KernelStart \/ ReadCmdline \/ ReadModule \/ ReadMemoryMap \/ ReadEntry
  \/ LastEntryRead \/ ReadOther

Ended == pc \in {"exit", "done", "halted", "astray"}

Next == Step \/ (Ended /\ UNCHANGED vars)

Spec == Init /\ [][Next]_vars

-----------------------------------------------------------------------------
(* Properties.                                                             *)

Extent(a) == a .. a + bld.mem[a].size - 1

(* The structure stays inside the memory that was set aside for it, and no *)
(* part of it overwrites another (mbi2.c:36-37, the assertion).            *)
BuiltInsideArea ==
  /\ \A a \in DOMAIN bld.mem :
       Extent(a) \subseteq area.phys_addr .. area.phys_addr + area.length - 1
  /\ \A a, b \in DOMAIN bld.mem : a # b => Extent(a) \cap Extent(b) = {}

(* What the sizes in the finished structure promise is so: a tag is where  *)
(* its neighbour ends, rounded up to 8 bytes, its size covers exactly the  *)
(* blobs behind it, and total_size covers all of them with the last tag.   *)
SizesAddUp ==
  pc \in {"boot", "read", "entries", "done"} =>
    LET mem == bld.mem
        tags == { a \in DOMAIN mem : IsTag(a) }
        last == bld.start + mem[bld.start].total_size
    IN  /\ mem[last - TagSize] = TagBlob(MBI2_TAG_END, TagSize)
        /\ \A a \in tags :
             /\ a % MBI2_TAG_ALIGNMENT = 0
             /\ a = last - TagSize \/ TagAfter(mem, a) \in tags
             /\ UNION { Extent(b) : b \in { d \in DOMAIN mem :
                          a <= d /\ \A t \in tags : t <= a \/ d < t } }
                  = a .. a + mem[a].tag_size - 1

(* What the kernel has to find, in the order boot-mbi2.tcl:25 takes for    *)
(* granted: the first module's string as its command line, the memory map, *)
(* the other modules, the RSDP.                                            *)
Told ==
  << <<"cmdline", loaded.mods[1].string.id>> >>
  \o (IF "mem" \in loaded.flags
        THEN [k \in DOMAIN loaded.mmap |-> <<"entry", loaded.mmap[k]>>] ELSE <<>>)
  \o [k \in 1 .. Len(loaded.mods) - 1 |->
        <<"module", loaded.mods[k + 1].string.id>>]
  \o IF FirstTable = Null THEN <<>>
     ELSE << <<"unknown", IF memory[FirstTable].table.rev = 1
                            THEN MBI2_TAG_RSDP_V1 ELSE MBI2_TAG_RSDP_V2>> >>

(* The kernel reads what the loader has told Bender, in this order, with   *)
(* nothing lost or twice, and finds the end (boot-mbi2.tcl:28-37).  Of a   *)
(* module it prints the string, of the RSDP the revision.                  *)
KernelReadsWhatLoaderTold ==
  /\ seen # <<>> => IsPrefix(seen, Told)
  /\ pc = "done" => seen = Told

(* The kernel never looks at memory the builder has not written.  It takes *)
(* the first tag without a look at its type (mbi2.h:138), so this rests on *)
(* start_module, which sees to it that there is a tag besides the last     *)
(* (elf.c:106).                                                            *)
KernelStaysInside == pc # "astray"

(* The sizes of the tags there have to be, without the end tag. *)
ToldSizes ==
  << TagSize + loaded.mods[1].string.len + 1 >>
  \o (IF "mem" \in loaded.flags
        THEN <<TagSize + MemorySize + MemoryEntrySize * Len(loaded.mmap)>> ELSE <<>>)
  \o [k \in 1 .. Len(loaded.mods) - 1 |->
        TagSize + ModuleSize + loaded.mods[k + 1].string.len + 1]
  \o IF FirstTable = Null THEN <<>>
     ELSE <<TagSize + RsdpBlob(memory[FirstTable].table).size>>

(* What tags of these sizes take with the end tag. *)
SpaceFor(sizes) ==
  LET upTo[k \in 0 .. Len(sizes)] ==
        IF k = 0 THEN BootInfoSize ELSE upTo[k - 1] + AlignUp(sizes[k], MBI2_TAG_ALIGNMENT)
  IN  upTo[Len(sizes)] + TagSize

(* No assertion fails if there is memory for the structure and for eight   *)
(* bytes more, however many tags have to be aligned: the check that is     *)
(* slightly too conservative (mbi2.c:34-35) costs no more than that.       *)
HaltsOnlyIfTight == pc = "halted" => area.length < SpaceFor(ToldSizes) + 8

=============================================================================
