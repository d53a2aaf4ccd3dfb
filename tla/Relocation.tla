----------------------------- MODULE Relocation -----------------------------
(***************************************************************************)
(* mbi_relocate_modules (standalone/mbi.c): Bender moves the boot modules, *)
(* with their command lines, to the top of free memory, and leaves the     *)
(* front of the block it found to its caller as extra space.               *)
(*                                                                         *)
(* Each iteration of each loop of the function is one action; the search   *)
(* for a block is the composed module FindMemory.                          *)
(*                                                                         *)
(* Memory.  mem maps every physical address below MemTop to a byte.  What  *)
(* the bytes are does not matter, only where they came from: mem[a] = b    *)
(* says that address a holds the byte the boot loader had left at b, so    *)
(* memory starts as the identity, and a byte is intact where it names its  *)
(* own origin.                                                             *)
(*                                                                         *)
(* Abstractions.  The Multiboot structure, the module list and Bender's    *)
(* image are outside of mem (the code never checks that the block misses   *)
(* them; see README).  strlen is taken from the boot loader's list, as the *)
(* lengths are measured before anything is copied.  Sums of lengths stay   *)
(* below 2^32: modules do not overlap, so together they fit the memory.    *)
(***************************************************************************)
EXTENDS FindMemory

CONSTANTS
  MemTop,      (* one past the last physical address                      *)
  PhysMax,     (* phys_max: modules are moved below this address          *)
  ExtraSpace,  (* extra_space: 16 << 10 in start_module                   *)
  Loads        (* the module lists a boot loader may hand over            *)

Addr == 0 .. MemTop - 1

(* struct module, with the length of its string (the final NUL included)   *)
LoadedModule ==
  {m \in [mod_start: Nat, mod_end: Nat, string: Nat, slen: Nat \ {0}] :
     /\ m.mod_start <= m.mod_end
     /\ m.mod_end <= MemTop
     /\ m.string + m.slen <= MemTop}

ASSUME LoadsAssumption == Loads \subseteq Seq(LoadedModule) \ {<<>>}

(* start_module asks for whole pages, and phys_max is a multiple of 256M. *)
ASSUME LimitsAssumption ==
  /\ MemTop \in Nat
  /\ PhysMax \in 0 .. MemTop
  /\ PageAligned(PhysMax)
  /\ ExtraSpace \in Nat \ {0}
  /\ PageAligned(ExtraSpace)

VARIABLES
  mods,       (* the module list of the Multiboot structure               *)
  mem,        (* physical memory                                          *)
  minfo,      (* the local array of module and string lengths             *)
  size,       (* the local variable of the same name                      *)
  block_len,  (* the local variable of the same name                      *)
  i,          (* loop index of the current loop                           *)
  pc,         (* where the function is, or how it ended                   *)
  loaded,     (* history: the module list as the boot loader left it      *)
  slot        (* history: slot[k] is the value of size before module k    *)

localVars == <<mods, mem, minfo, size, block_len, i, pc, loaded, slot>>

vars == <<searchVars, localVars>>

Modules == 1 .. Len(loaded)

(* The ways the function ends.  "moved": the modules were copied;          *)
(* "already": they seem to be relocated; "unmoved": no room for them, only *)
(* for the extra space; "halted": an assertion failed and __exit reboots.  *)
Endings == {"moved", "already", "unmoved", "halted"}

-----------------------------------------------------------------------------
(* Mutants: one byte less, one byte more. *)
MutMemCpyShort(m, dst, src, n) ==
  [a \in Addr |-> IF a \in dst .. dst + n - 2 THEN m[src + (a - dst)] ELSE m[a]]
MutMemCpyLong(m, dst, src, n) ==
  [a \in Addr |-> IF a \in dst .. dst + n THEN m[src + (a - dst)] ELSE m[a]]

(* memcpy: rep movsb copies upwards, byte by byte, so that a destination   *)
(* that starts inside the source repeats the bytes in front of it.         *)
MemCpy(m, dst, src, n) ==
  [a \in Addr |->
     IF a \notin dst .. dst + n - 1 THEN m[a]
     ELSE IF dst > src THEN m[src + ((a - dst) % (dst - src))]
     ELSE m[src + (a - dst)]]

(* The bytes of a module, and of its string, in a module list entry. *)
ModLen(m) == m.mod_end - m.mod_start

(* Mutant: checks against the end of the block instead of its start. *)
MutRelAddrAtEnd == block + block_len

(* Where the copied modules start; block_len is still the whole block. *)
RelAddr == block + block_len - size

-----------------------------------------------------------------------------
Init ==
  /\ SearchInit
  /\ loaded \in Loads
  /\ mods = [k \in Modules |-> [mod_start |-> loaded[k].mod_start,
                                mod_end |-> loaded[k].mod_end,
                                string |-> loaded[k].string]]
  /\ mem = [a \in Addr |-> a]
  /\ minfo = [k \in Modules |-> [modlen |-> 0, slen |-> 0]]
  /\ size = ExtraSpace
  /\ slot = [k \in 1 .. Len(loaded) + 1 |-> ExtraSpace]
  /\ block_len = 0
  /\ i = 1
  /\ pc = "size"

(* Mutant: replaces the sum instead of adding to it. *)
MutSizeModuleReplaces ==
  /\ pc = "size"
  /\ i \in Modules
  /\ minfo' = [minfo EXCEPT ![i] = [modlen |-> ModLen(mods[i]),
                                    slen |-> loaded[i].slen]]
  /\ size' = RoundUp(ModLen(mods[i]) + loaded[i].slen)
  /\ slot' = [slot EXCEPT ![i + 1] = size']
  /\ i' = i + 1
  /\ UNCHANGED <<searchVars, mods, mem, block_len, pc, loaded>>

(* Mutant: forgets the strings. *)
MutSizeModuleNoString ==
  /\ pc = "size"
  /\ i \in Modules
  /\ minfo' = [minfo EXCEPT ![i] = [modlen |-> ModLen(mods[i]),
                                    slen |-> loaded[i].slen]]
  /\ size' = RoundUp(size + ModLen(mods[i]))
  /\ slot' = [slot EXCEPT ![i + 1] = size']
  /\ i' = i + 1
  /\ UNCHANGED <<searchVars, mods, mem, block_len, pc, loaded>>

(* First loop: add up the space the modules need. *)
SizeModule ==
  /\ pc = "size"
  /\ i \in Modules
  /\ minfo' = [minfo EXCEPT ![i] = [modlen |-> ModLen(mods[i]),
                                    slen |-> loaded[i].slen]]
  /\ size' = RoundUp(size + ModLen(mods[i]) + loaded[i].slen)
  /\ slot' = [slot EXCEPT ![i + 1] = size']
  /\ i' = i + 1
  /\ UNCHANGED <<searchVars, mods, mem, block_len, pc, loaded>>

(* The call of mbi_find_memory for everything. *)
SearchForAll ==
  /\ pc = "size"
  /\ i \notin Modules
  /\ Call([len |-> size, limit_to |-> PhysMax, highest |-> TRUE])
  /\ pc' = "search"
  /\ UNCHANGED <<mods, mem, minfo, size, block_len, i, loaded, slot>>

(* An iteration of the loop in mbi_find_memory. *)
Search ==
  /\ pc \in {"search", "retry"}
  /\ ScanEntry
  /\ UNCHANGED localVars

(* There is room: the check for overlap begins. *)
Found ==
  /\ pc = "search"
  /\ search = "true"
  /\ block_len' = req.len
  /\ i' = 1
  /\ pc' = "check"
  /\ UNCHANGED <<searchVars, mods, mem, minfo, size, loaded, slot>>

(* There is no room: look for the extra space alone. *)
NotFound ==
  /\ pc = "search"
  /\ search = "false"
  /\ Call([len |-> ExtraSpace, limit_to |-> PhysMax, highest |-> TRUE])
  /\ pc' = "retry"
  /\ UNCHANGED <<mods, mem, minfo, size, block_len, i, loaded, slot>>

(* Mutant: no check for overlap. *)
MutCheckPassesAlways ==
  /\ pc = "check"
  /\ i \in Modules
  /\ i' = i + 1
  /\ UNCHANGED <<searchVars, mods, mem, minfo, size, block_len, pc, loaded,
                 slot>>

(* Second loop, a module that ends below the block. *)
CheckPasses ==
  /\ pc = "check"
  /\ i \in Modules
  /\ mods[i].mod_end <= RelAddr
  /\ i' = i + 1
  /\ UNCHANGED <<searchVars, mods, mem, minfo, size, block_len, pc, loaded,
                 slot>>

(* Second loop, a module that starts where the modules would go. *)
CheckSeemsRelocated ==
  /\ pc = "check"
  /\ i \in Modules
  /\ mods[i].mod_end > RelAddr
  /\ RelAddr = mods[i].mod_start
  /\ pc' = "already"
  /\ UNCHANGED <<searchVars, mods, mem, minfo, size, block_len, i, loaded,
                 slot>>

(* Second loop, a module that might overlap: assert(false). *)
CheckMightOverlap ==
  /\ pc = "check"
  /\ i \in Modules
  /\ mods[i].mod_end > RelAddr
  /\ RelAddr # mods[i].mod_start
  /\ pc' = "halted"
  /\ UNCHANGED <<searchVars, mods, mem, minfo, size, block_len, i, loaded,
                 slot>>

(* No module is in the way: the third loop starts with the last module. *)
CheckDone ==
  /\ pc = "check"
  /\ i \notin Modules
  /\ i' = Len(loaded)
  /\ pc' = "copy"
  /\ UNCHANGED <<searchVars, mods, mem, minfo, size, block_len, loaded, slot>>

(* Mutant: packs the modules without rounding. *)
MutCopyModuleUnrounded ==
  /\ pc = "copy"
  /\ i \in Modules
  /\ LET modlen == minfo[i].modlen
         slen   == minfo[i].slen
         rest   == block_len - (slen + modlen)
         target == block + rest
     IN /\ block_len' = rest
        /\ mem' = MemCpy(MemCpy(mem, target, mods[i].mod_start, modlen),
                         target + modlen, mods[i].string, slen)
        /\ mods' = [mods EXCEPT ![i] = [mod_start |-> target,
                                        mod_end |-> target + modlen,
                                        string |-> target + modlen]]
  /\ i' = i - 1
  /\ UNCHANGED <<searchVars, minfo, size, pc, loaded, slot>>

(* Third loop: copy a module and, right behind it, its string. *)
CopyModule ==
  /\ pc = "copy"
  /\ i \in Modules
  /\ LET modlen == minfo[i].modlen
         slen   == minfo[i].slen
         rest   == block_len - RoundUp(slen + modlen)
         target == block + rest
     IN /\ block_len' = rest
        /\ mem' = MemCpy(MemCpy(mem, target, mods[i].mod_start, modlen),
                         target + modlen, mods[i].string, slen)
        /\ mods' = [mods EXCEPT ![i] = [mod_start |-> target,
                                        mod_end |-> target + modlen,
                                        string |-> target + modlen]]
  /\ i' = i - 1
  /\ UNCHANGED <<searchVars, minfo, size, pc, loaded, slot>>

(* The end of the function, with its last assertion. *)
CopyDone ==
  /\ pc = "copy"
  /\ i \notin Modules
  /\ pc' = IF block_len >= ExtraSpace THEN "moved" ELSE "halted"
  /\ UNCHANGED <<searchVars, mods, mem, minfo, size, block_len, i, loaded,
                 slot>>

(* The extra space alone was found: the modules stay where they are. *)
RetryFound ==
  /\ pc = "retry"
  /\ search = "true"
  /\ block_len' = req.len
  /\ pc' = IF req.len >= ExtraSpace THEN "unmoved" ELSE "halted"
  /\ UNCHANGED <<searchVars, mods, mem, minfo, size, i, loaded, slot>>

(* Not even the extra space: assert(false). *)
RetryNotFound ==
  /\ pc = "retry"
  /\ search = "false"
  /\ pc' = "halted"
  /\ UNCHANGED <<searchVars, mods, mem, minfo, size, block_len, i, loaded,
                 slot>>

Step ==
  \/ SizeModule \/ SearchForAll \/ Search \/ Found \/ NotFound
  \/ CheckPasses \/ CheckSeemsRelocated \/ CheckMightOverlap \/ CheckDone
  \/ CopyModule \/ CopyDone \/ RetryFound \/ RetryNotFound

(* The function has ended; what the caller does next is not this module's. *)
Ended == pc \in Endings /\ UNCHANGED vars

Next == Step \/ Ended

(* The CPU executes the function to its end. *)
Spec == Init /\ [][Next]_vars /\ WF_vars(Step)

-----------------------------------------------------------------------------
(* Properties.                                                             *)

(* Every variable has its type; in particular no descriptor ever points    *)
(* outside of memory, and no local length becomes negative (they are       *)
(* unsigned in the code).                                                  *)
TypeOK ==
  /\ SearchTypeOK
  /\ loaded \in Seq(LoadedModule) /\ loaded # <<>>
  /\ mods \in [Modules -> [mod_start: 0 .. MemTop, mod_end: 0 .. MemTop,
                           string: 0 .. MemTop]]
  /\ mem \in [Addr -> Addr]
  /\ minfo \in [Modules -> [modlen: Nat, slen: Nat]]
  /\ size \in Nat
  /\ slot \in [1 .. Len(loaded) + 1 -> Nat]
  /\ block_len \in Nat
  /\ i \in 0 .. Len(loaded) + 1
  /\ pc \in {"size", "search", "check", "copy", "retry"} \cup Endings

(* n bytes from a on are the ones the boot loader had left from b on. *)
SameBytes(a, b, n) == \A o \in 0 .. n - 1 : mem[a + o] = b + o

(* At every moment, halfway through the copying included, every module     *)
(* list entry leads to exactly the bytes of the module the boot loader     *)
(* had loaded: a copy never runs over a module that is still to be copied, *)
(* or over one that was copied before (mbi.c:88-122).                      *)
ModulesIntact ==
  \A k \in Modules :
    /\ ModLen(mods[k]) = ModLen(loaded[k])
    /\ SameBytes(mods[k].mod_start, loaded[k].mod_start, ModLen(loaded[k]))

(* The string of module k, as the boot loader left it, misses the block    *)
(* that was found.                                                         *)
StringClear(k) ==
  \/ loaded[k].string + loaded[k].slen <= block
  \/ block + size <= loaded[k].string

(* The same for the command lines, which the overlap check of mbi.c:89     *)
(* does not look at: they survive if they were not inside of the block.    *)
CmdlinesIntact ==
  pc \in {"check", "copy", "moved"} =>
    \A k \in Modules :
      StringClear(k) =>
        SameBytes(mods[k].string, loaded[k].string, loaded[k].slen)

(* Addresses a module list entry takes up, its string included. *)
Extent(k) ==
  mods[k].mod_start .. mods[k].mod_end - 1
    \cup mods[k].string .. mods[k].string + loaded[k].slen - 1

(* After a move, modules and strings lie in free memory below phys_max,    *)
(* each module on a page of its own, in the order of the module list.      *)
MovedLayout ==
  pc = "moved" =>
    /\ IsFree(block, size, PhysMax)
    /\ \A k \in Modules :
         /\ PageAligned(mods[k].mod_start)
         /\ Extent(k) \subseteq block + ExtraSpace .. block + size - 1
    /\ \A j, k \in Modules :
         j < k => RoundUp(mods[j].string + loaded[j].slen) <= mods[k].mod_start

(* The extra space at the front of the returned block is free memory that  *)
(* neither a module nor a string occupies (mbi.c:61, mbi.c:137).           *)
ExtraSpaceFree ==
  /\ IsFree(block, ExtraSpace, PhysMax)
  /\ \A k \in Modules : Extent(k) \cap block .. block + ExtraSpace - 1 = {}

(* Claimed by mbi.c:61 and mbi.c:137 for every return, and wrong when the  *)
(* modules "seem to be relocated" (mbi.c:93): the block starts at a module.*)
AlreadyLeavesExtraSpace == pc = "already" => ExtraSpaceFree

(* Claimed by mbi.c:61 and mbi.c:137 for every return, and wrong when the  *)
(* modules stay where they are (mbi.c:128): nothing keeps the extra space  *)
(* apart from them.                                                        *)
UnmovedLeavesExtraSpace == pc = "unmoved" => ExtraSpaceFree

(* Memory changes only where free memory was found, and never in the extra *)
(* space in front of the modules.                                          *)
WritesStayInBlock ==
  [][\A a \in Addr :
       mem'[a] # mem[a] => a \in block + ExtraSpace .. block + size - 1]_vars

(* The last assertion of the function (mbi.c:134) never fails: it halts    *)
(* only for an overlap or for want of memory, before it copies anything.   *)
HaltsBeforeCopying ==
  pc = "halted" => mem = [a \in Addr |-> a] /\ i # 0

(* The modules a relocation has moved: a suffix of the list while it       *)
(* copies, all of them after it, none if it ended in any other way.        *)
MovedModules ==
  IF pc = "copy" THEN {k \in Modules : k > i}
  ELSE IF pc = "moved" THEN Modules ELSE {}

Placement ==
  INSTANCE ModulePlacement WITH
    Places <- Addr,
    placed <- [k \in Modules |-> [place |-> mods[k].mod_start,
                                  length |-> ModLen(mods[k])]],
    image <- [k \in Modules |-> [o \in 0 .. ModLen(mods[k]) - 1 |->
                                   mem[mods[k].mod_start + o]]],
    moved <- MovedModules,
    ended <- pc \in Endings

(* The function implements ModulePlacement: modules move one at a time to  *)
(* places nothing else takes up, no image ever changes, and all modules    *)
(* are moved or none is.                                                   *)
ImplementsPlacement == Placement!PlacementSpec

=============================================================================
