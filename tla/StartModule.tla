----------------------------- MODULE StartModule -----------------------------
(***************************************************************************)
(* start_module (elf.c) as a whole, on one memory: the modules are         *)
(* relocated (Relocation), the first one is taken off the list, the        *)
(* information for it is built in the extra space if it has a Multiboot2   *)
(* header, and then it is started (Boot).                                  *)
(*                                                                         *)
(* What the parts take as given is decided here by the part before: where  *)
(* the kernel's file lies when its segments are copied out of it, and      *)
(* where the information lies.  Bytes keep the names the two modules give  *)
(* them; InfoAddr stands for the address of the extra space.               *)
(*                                                                         *)
(* Abstraction: the information fills all of the extra space, which is the *)
(* most it may take (Mbi2Info).                                            *)
(***************************************************************************)
EXTENDS Relocation

CONSTANTS
  CodeAddr, MbiAddr, InfoAddr, HeaderBytes, PhSize,  (* of Boot             *)
  Files        (* what may be in the first module: its program headers, and *)
               (* where in the file something looks like a header           *)

VARIABLES
  file,        (* one of Files                                              *)
  step,        (* pc of Boot, after "relocate" and "pop"                    *)
  built,       (* the information has been built                            *)
  kernel, header, ph_index, code, eip, regs    (* of Boot                   *)

B == INSTANCE Boot WITH pc <- step, i <- ph_index, Kernels <- {}

(* As in Boot: the space for the code is there, and the segments belong    *)
(* into memory.                                                            *)
ASSUME StartAssumption ==
  /\ CodeAddr \in Addr
  /\ MbiAddr \in Nat \ {0} /\ InfoAddr \in Nat \ {0, MbiAddr}
  /\ PhSize \in [{B!ELFCLASS32, B!ELFCLASS64} -> Nat]
  /\ \A f \in Files :
       /\ f.phs \in Seq(B!ProgramHeader)
       /\ CodeAddr + 24 * Len(f.phs) + 12 <= MemTop
       /\ \A n \in DOMAIN f.phs : f.phs[n].p_type = B!PT_LOAD =>
            f.phs[n].p_paddr + f.phs[n].p_memsz <= MemTop

(* What a file says of itself is inside the module that it is.             *)
FitsIn(f, m) ==
  /\ f.headers \subseteq 0 .. ModLen(m)
  /\ \A n \in DOMAIN f.phs : f.phs[n].p_type = B!PT_LOAD =>
       f.phs[n].p_offset + f.phs[n].p_filesz <= ModLen(m)

bootVars == <<step, kernel, header, ph_index, code, eip, regs>>

startVars == <<vars, bootVars, file, built>>

StartInit ==
  /\ Init
  /\ file \in Files /\ FitsIn(file, loaded[1])
  /\ step = "relocate"
  /\ built = FALSE
  /\ kernel = [phs |-> <<>>]
  /\ header = 0
  /\ ph_index = 0
  /\ code = <<>>
  /\ eip = 1
  /\ regs = [eax |-> 0, ecx |-> 0, edx |-> 0, ebx |-> 0, esi |-> 0, edi |-> 0]

(* mbi_relocate_modules. *)
Relocate ==
  /\ step = "relocate"
  /\ Step
  /\ UNCHANGED <<bootVars, file, built>>

(* The first module of a list as the file it is. *)
KernelOf(m) ==
  [mod_start |-> m.mod_start, mod_end |-> m.mod_end,
   magics |-> { [at |-> m.mod_start + o, sum |-> 0] : o \in file.headers },
   elfmag |-> TRUE, class |-> B!ELFCLASS32, e_type |-> B!ET_EXEC,
   e_machine |-> B!EM_386, e_version |-> 1, e_phentsize |-> PhSize[B!ELFCLASS32],
   e_entry |-> 3, phs |-> file.phs]

(* Mutant: the entry was read before the modules were moved. *)
MutPopModuleStale ==
  /\ step = "relocate"
  /\ pc \in Endings \ {"halted"}
  /\ kernel' = KernelOf(loaded[1])
  /\ step' = "header"
  /\ UNCHANGED <<vars, file, built, header, ph_index, code, eip, regs>>

(* mbi_pop_module.  Its entry stays in mods here, where the properties need *)
(* it; nothing below looks at the list.                                     *)
PopModule ==
  /\ step = "relocate"
  /\ pc \in Endings \ {"halted"}
  /\ kernel' = KernelOf(mods[1])
  /\ step' = "header"
  /\ UNCHANGED <<vars, file, built, header, ph_index, code, eip, regs>>

(* Names for the bytes of the information, and where it is put. *)
InfoByte(offset) == -1000 - offset
InfoSpace == IF header = 0 THEN {} ELSE block .. block + ExtraSpace - 1

(* convert_mb1_to_mbi2, for a kernel with a header. *)
Convert ==
  /\ step = "check" /\ header # 0 /\ ~built
  /\ mem' = [a \in Addr |-> IF a \in InfoSpace THEN InfoByte(a - block) ELSE mem[a]]
  /\ built' = TRUE
  /\ UNCHANGED <<searchVars, mods, minfo, size, block_len, i, pc, loaded, slot,
                 bootVars, file>>

(* Everything else is Boot's, on the same memory. *)
Start ==
  /\ step = "check" => header = 0 \/ built
  /\ B!Step
  /\ UNCHANGED <<searchVars, mods, minfo, size, block_len, i, pc, loaded, slot,
                 file, built>>

StartEnded == (pc = "halted" \/ B!Ended) /\ UNCHANGED startVars

StartNext == Relocate \/ PopModule \/ Convert \/ Start \/ StartEnded

StartSpec == StartInit /\ [][StartNext]_startVars

-----------------------------------------------------------------------------
(* Properties.                                                             *)

Held == UNION { Extent(k) : k \in Modules }

(* The segments belong neither on one another, nor on the code, nor on     *)
(* anything that is in use after the relocation.  Where the loader had put *)
(* the modules they may belong: that is why Bender moves them.             *)
SegmentsApart ==
  /\ B!CodeSpace \cap (Held \cup InfoSpace) = {}
  /\ \A n \in B!Segments : B!Target(n) \cap (B!CodeSpace \cup Held \cup InfoSpace) = {}
  /\ \A m, n \in B!Segments : m # n => B!Target(m) \cap B!Target(n) = {}

(* When the kernel is entered, its segments hold the bytes that the loader *)
(* had put into its file, zeros behind them, and the kernel finds all      *)
(* other modules, every string that a move has missed and its information, *)
(* wherever the loader had put the modules.  A Multiboot1 kernel finds     *)
(* them whether or not they could be moved; a Multiboot2 kernel needs the  *)
(* extra space of a move (elf.c:96-118; README).                           *)
HandoverIsIntact ==
  step = "kernel" /\ SegmentsApart /\ (pc = "moved" \/ header = 0) =>
    /\ \A n \in B!Segments :
         LET ph == kernel.phs[n] IN
         /\ SameBytes(ph.p_paddr, loaded[1].mod_start + ph.p_offset, ph.p_filesz)
         /\ \A o \in ph.p_filesz .. ph.p_memsz - 1 : mem[ph.p_paddr + o] = B!Zero
    /\ \A k \in Modules \ {1} :
         SameBytes(mods[k].mod_start, loaded[k].mod_start, ModLen(loaded[k]))
    /\ \A k \in Modules : (pc = "moved" => StringClear(k)) =>
         SameBytes(mods[k].string, loaded[k].string, loaded[k].slen)
    /\ \A a \in InfoSpace : mem[a] = InfoByte(a - block)
    /\ (regs.ebx = InfoAddr) = built

=============================================================================
