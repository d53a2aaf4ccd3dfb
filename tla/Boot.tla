-------------------------------- MODULE Boot --------------------------------
(***************************************************************************)
(* The rest of start_module (elf.c): the first module is searched for a    *)
(* Multiboot2 header, its ELF header is checked, and code is generated at  *)
(* CodeAddr that moves the segments to their places and enters the kernel. *)
(* Then Bender jumps there and the code runs, one instruction a step.      *)
(*                                                                         *)
(* Memory.  mem[a] = b says that address a holds the byte that was at b    *)
(* before; bytes that were not there before have negative names.  The      *)
(* instructions have their real lengths.                                   *)
(*                                                                         *)
(* Abstractions.  Addresses are those a 32-bit register holds; p_memsz is  *)
(* not less than p_filesz, and segments lie inside their file, as in every *)
(* executable a linker writes.  The space for the code overlaps neither    *)
(* the file nor what the kernel is told: the code assumes that it is free  *)
(* (elf.c:123-124).  Where a module lies is up to Relocation, what the     *)
(* Multiboot2 information holds is up to Mbi2Info.                         *)
(***************************************************************************)
EXTENDS Integers, Sequences, FiniteSetsExt, SequencesExt

CONSTANTS
  MemTop,       (* one past the last physical address                      *)
  CodeAddr,     (* 0x7C00                                                  *)
  MbiAddr,      (* mbi, which is outside of mem                            *)
  InfoAddr,     (* mbi2_info, likewise                                     *)
  HeaderBytes,  (* MBI2_HEADER_BYTES                                       *)
  PhSize,       (* sizeof(struct ph), sizeof(struct ph64) by e_ident class *)
  Kernels       (* the modules that may come first                         *)

Addr == 0 .. MemTop - 1

MBI_MAGIC == 732803074
MBI2_MAGIC == 920085129

HeaderSize == 16

ELFCLASS32 == 1
ELFCLASS64 == 2
ET_EXEC == 2
EM_386 == 3
EM_X86_64 == 62
PT_LOAD == 1

(* struct ph and struct ph64. *)
ProgramHeader ==
  {p \in [p_type: Nat, p_offset: Nat, p_paddr: Nat, p_filesz: Nat, p_memsz: Nat] :
     p.p_filesz <= p.p_memsz}

(* The space for the code: 24 bytes for each program header, and 12 more.  *)
LoaderSpace(k) == CodeAddr .. CodeAddr + 24 * Len(k.phs) + 11

(* A kernel is a module: where it is, the addresses of 16 bytes in it that *)
(* look like a Multiboot2 header, whether or not their sum is 0, and what  *)
(* its ELF header and program headers say; phs has e_phnum of them.        *)
IsKernel(k) ==
  /\ k.mod_start \in Nat /\ k.mod_end \in k.mod_start .. MemTop
  /\ k.magics \subseteq [at: k.mod_start .. MemTop, sum: Nat]
  /\ k.phs \in Seq(ProgramHeader)
  /\ k.e_entry \in Nat
  /\ \A n \in DOMAIN k.phs : k.phs[n].p_type = PT_LOAD =>
       /\ k.phs[n].p_paddr + k.phs[n].p_memsz <= MemTop
       /\ k.mod_start + k.phs[n].p_offset + k.phs[n].p_filesz <= k.mod_end

ASSUME BootAssumption ==
  /\ MemTop \in Nat /\ CodeAddr \in Addr
  /\ MbiAddr \in Nat \ {0} /\ InfoAddr \in Nat \ {0}
  /\ PhSize \in [{ELFCLASS32, ELFCLASS64} -> Nat]
  /\ \A k \in Kernels :
       /\ IsKernel(k) /\ k.mod_start # 0
       /\ LoaderSpace(k) \subseteq Addr \ (k.mod_start .. k.mod_end - 1)

VARIABLES
  kernel,       (* the module                                              *)
  pc,           (* where the program is                                    *)
  header,       (* mbi2_header, 0 for NULL                                 *)
  i,            (* loop index over the program headers                     *)
  code,         (* the instructions generated so far                       *)
  mem,          (* physical memory                                         *)
  eip,          (* index of the instruction to be executed                 *)
  regs          (* the registers                                           *)

vars == <<kernel, pc, header, i, code, mem, eip, regs>>

-----------------------------------------------------------------------------
(* The instructions, and the bytes they take.                              *)

GenMov(reg, constant) == [op |-> "mov", reg |-> reg, constant |-> constant]
RepMovsb == [op |-> "rep movsb"]
RepStosb == [op |-> "rep stosb"]
JmpEdx == [op |-> "jmp"]

InstructionSize(c) == IF c.op = "mov" THEN 5 ELSE 2

CodeSize(s) ==
  LET size[n \in 0 .. Len(s)] ==
        IF n = 0 THEN 0 ELSE size[n - 1] + InstructionSize(s[n])
  IN  size[Len(s)]

(* Names for bytes: one of the code, one of zeros, one of something else.  *)
CodeByte(offset) == -2 - offset
Zero == -1
FilledWith(eax) == IF eax % 256 = 0 THEN Zero ELSE MemTop

CodeSpace == CodeAddr .. CodeAddr + CodeSize(code) - 1

(* Mutant: the last byte is lost. *)
MutGenerateShort(s) ==
  LET end == CodeAddr + CodeSize(code \o s) - 1 IN
  /\ code' = code \o s
  /\ mem' = [a \in Addr |-> IF a \in CodeAddr .. end - 1
                              THEN CodeByte(a - CodeAddr) ELSE mem[a]]

(* byte_out and what calls it: instructions go behind the ones before. *)
Generate(s) ==
  LET end == CodeAddr + CodeSize(code \o s) IN
  /\ code' = code \o s
  /\ mem' = [a \in Addr |-> IF a \in CodeAddr .. end - 1
                              THEN CodeByte(a - CodeAddr) ELSE mem[a]]

-----------------------------------------------------------------------------
Init ==
  /\ kernel \in Kernels
  /\ pc = "header"
  /\ header = 0
  /\ i = 0
  /\ code = <<>>
  /\ mem = [a \in Addr |-> a]
  /\ eip = 1
  /\ regs = [eax |-> 0, ecx |-> 0, edx |-> 0, ebx |-> 0, esi |-> 0, edi |-> 0]

(* Mutant: misses a header at the very end. *)
MutHeaderFindBeforeEnd(k) ==
  LET found == { m.at : m \in { x \in k.magics :
                   /\ x.sum = 0
                   /\ (x.at - k.mod_start) % 8 = 0
                   /\ x.at + HeaderSize < k.mod_end } }
  IN  IF found = {} THEN 0 ELSE Min(found)

(* mbi2_header_find: the first header at a multiple of eight bytes. *)
HeaderFind(k) ==
  LET found == { m.at : m \in { x \in k.magics :
                   /\ x.sum = 0
                   /\ (x.at - k.mod_start) % 8 = 0
                   /\ x.at + HeaderSize <= k.mod_end } }
  IN  IF found = {} THEN 0 ELSE Min(found)

FindHeader ==
  /\ pc = "header"
  /\ header' = HeaderFind(kernel)
  /\ pc' = "check"
  /\ UNCHANGED <<kernel, i, code, mem, eip, regs>>

(* The assertions on the ELF header. *)
ElfIsCorrect(k) ==
  /\ k.elfmag
  /\ k.class \in {ELFCLASS32, ELFCLASS64}
  /\ k.e_type = ET_EXEC
  /\ k.e_machine \in {EM_386, EM_X86_64}
  /\ k.e_version = 1
  /\ PhSize[k.class] <= k.e_phentsize

CheckElf ==
  /\ pc = "check"
  /\ pc' = IF ElfIsCorrect(kernel) THEN "generate" ELSE "halted"
  /\ UNCHANGED <<kernel, header, i, code, mem, eip, regs>>

(* Mutant: takes all of the segment for the part to be filled.             *)
MutElfSegmentFillsAll(target, source, len, fill) ==
  << GenMov("edi", target), GenMov("esi", source), GenMov("ecx", len), RepMovsb,
     GenMov("ecx", fill + len), RepStosb >>

(* gen_elf_segment *)
ElfSegment(target, source, len, fill) ==
  << GenMov("edi", target), GenMov("esi", source), GenMov("ecx", len), RepMovsb,
     GenMov("ecx", fill), RepStosb >>

GenerateSegment ==
  /\ pc = "generate" /\ i < Len(kernel.phs)
  /\ LET ph == kernel.phs[i + 1] IN
       /\ ph.p_type = PT_LOAD
       /\ Generate(ElfSegment(ph.p_paddr, kernel.mod_start + ph.p_offset,
                              ph.p_filesz, ph.p_memsz - ph.p_filesz))
  /\ i' = i + 1
  /\ UNCHANGED <<kernel, pc, header, eip, regs>>

SkipSegment ==
  /\ pc = "generate" /\ i < Len(kernel.phs)
  /\ kernel.phs[i + 1].p_type # PT_LOAD
  /\ i' = i + 1
  /\ UNCHANGED <<kernel, pc, header, code, mem, eip, regs>>

(* Mutant: does not clear eax. *)
MutRegsForCodeDirty ==
  [regs EXCEPT !.eax = CodeAddr + 1, !.edx = CodeAddr,
               !.ebx = IF header # 0 THEN InfoAddr ELSE MbiAddr]

(* The operands of the jump to the code. *)
RegsForCode ==
  [regs EXCEPT !.eax = 0, !.edx = CodeAddr,
               !.ebx = IF header # 0 THEN InfoAddr ELSE MbiAddr]

(* The end of the loop, the end of the code, and the jump to it. *)
JumpToCode ==
  /\ pc = "generate" /\ i >= Len(kernel.phs)
  /\ Generate(<< GenMov("edx", kernel.e_entry),
                 GenMov("eax", IF header # 0 THEN MBI2_MAGIC ELSE MBI_MAGIC),
                 JmpEdx >>)
  /\ regs' = RegsForCode
  /\ pc' = "run"
  /\ UNCHANGED <<kernel, header, i, eip>>

-----------------------------------------------------------------------------
(* The code runs.                                                          *)

BytesOf(n) ==
  LET at == CodeAddr + CodeSize(SubSeq(code, 1, n - 1))
  IN  at .. at + InstructionSize(code[n]) - 1

(* The bytes of instruction n are still the ones that were generated. *)
Intact(n) == \A a \in BytesOf(n) : mem[a] = CodeByte(a - CodeAddr)

Fetched(op) == pc = "run" /\ code[eip].op = op /\ Intact(eip)

ExecMov ==
  /\ Fetched("mov")
  /\ regs' = [regs EXCEPT ![code[eip].reg] = code[eip].constant]
  /\ eip' = eip + 1
  /\ UNCHANGED <<kernel, pc, header, i, code, mem>>

(* Where the processor goes on after it has written to this stretch.  If   *)
(* the instruction was in it, it may or may not get to its end.            *)
GoOnAfterWriting(stretch) ==
  /\ pc' \in IF stretch \cap BytesOf(eip) = {} THEN {"run"} ELSE {"run", "astray"}
  /\ eip' = eip + 1

(* rep movsb copies upwards and byte by byte. *)
ExecRepMovsb ==
  /\ Fetched("rep movsb")
  /\ LET dst == regs.edi
         src == regs.esi
         stretch == dst .. dst + regs.ecx - 1
     IN  /\ mem' = [a \in Addr |->
                      IF a \notin stretch THEN mem[a]
                      ELSE IF dst > src THEN mem[src + ((a - dst) % (dst - src))]
                      ELSE mem[src + (a - dst)]]
         /\ GoOnAfterWriting(stretch)
  /\ regs' = [regs EXCEPT !.edi = @ + regs.ecx, !.esi = @ + regs.ecx, !.ecx = 0]
  /\ UNCHANGED <<kernel, header, i, code>>

ExecRepStosb ==
  /\ Fetched("rep stosb")
  /\ LET stretch == regs.edi .. regs.edi + regs.ecx - 1
     IN  /\ mem' = [a \in Addr |-> IF a \in stretch THEN FilledWith(regs.eax)
                                                   ELSE mem[a]]
         /\ GoOnAfterWriting(stretch)
  /\ regs' = [regs EXCEPT !.edi = @ + regs.ecx, !.ecx = 0]
  /\ UNCHANGED <<kernel, header, i, code>>

(* The kernel is entered at edx. *)
ExecJmp ==
  /\ Fetched("jmp")
  /\ pc' = "kernel"
  /\ UNCHANGED <<kernel, header, i, code, mem, eip, regs>>

(* The instruction was overwritten: whatever the processor does now. *)
FetchOther ==
  /\ pc = "run" /\ ~Intact(eip)
  /\ pc' = "astray"
  /\ UNCHANGED <<kernel, header, i, code, mem, eip, regs>>

Step ==
  \/ FindHeader \/ CheckElf \/ GenerateSegment \/ SkipSegment \/ JumpToCode
  \/ ExecMov \/ ExecRepMovsb \/ ExecRepStosb \/ ExecJmp \/ FetchOther

Ended == pc \in {"kernel", "halted", "astray"}

Next == Step \/ (Ended /\ UNCHANGED vars)

Spec == Init /\ [][Next]_vars

-----------------------------------------------------------------------------
(* Properties.                                                             *)

Segments == { n \in DOMAIN kernel.phs : kernel.phs[n].p_type = PT_LOAD }

(* Where the bytes of a segment are in the file, and where they belong. *)
FileAddr(n) == kernel.mod_start + kernel.phs[n].p_offset
InFile(n) == FileAddr(n) .. FileAddr(n) + kernel.phs[n].p_filesz - 1
Target(n) ==
  kernel.phs[n].p_paddr .. kernel.phs[n].p_paddr + kernel.phs[n].p_memsz - 1

(* No segment is put on a later one, neither on its place nor on its bytes *)
(* in the file, and one that is put on its own bytes goes down.            *)
SafeOrder ==
  /\ \A n, m \in Segments : n < m => Target(n) \cap (InFile(m) \cup Target(m)) = {}
  /\ \A n \in Segments :
       kernel.phs[n].p_paddr <= FileAddr(n) \/ Target(n) \cap InFile(n) = {}

(* When the kernel is entered, each segment holds the bytes of the file    *)
(* and zeros behind them (elf.c:47, "EAX is zero at this point"), even if  *)
(* it was put over the file or over code that had been executed.           *)
SegmentsArrive ==
  pc = "kernel" /\ SafeOrder =>
    \A n \in Segments : \A a \in Target(n) :
      LET offset == a - kernel.phs[n].p_paddr
      IN  mem[a] = IF offset < kernel.phs[n].p_filesz THEN FileAddr(n) + offset ELSE Zero

(* Nothing is written but the segments and the code: the other modules and *)
(* the information for the kernel are still there when it starts.          *)
OnlySegmentsWritten ==
  \A a \in Addr \ (CodeSpace \cup UNION { Target(n) : n \in Segments }) : mem[a] = a

(* The processor leaves the generated code for the kernel only, unless a   *)
(* segment belongs where the code is (elf.c:123-124).                      *)
StaysOnCourse ==
  pc = "astray" => \E n \in Segments : Target(n) \cap CodeSpace # {}

(* The kernel is entered where it wants to be, with the magic number and   *)
(* the information that go together: Multiboot2 if and only if it has an   *)
(* aligned header inside the file (tests/boot-hedron.tcl:21-23).           *)
KernelGetsItsProtocol ==
  pc = "kernel" =>
    LET isHeader(m) == /\ m.sum = 0
                       /\ \E k \in 0 .. MemTop : m.at = kernel.mod_start + 8 * k
                       /\ m.at .. m.at + 15 \subseteq kernel.mod_start .. kernel.mod_end - 1
    IN  /\ regs.edx = kernel.e_entry
        /\ <<regs.eax, regs.ebx>> = IF \E m \in kernel.magics : isHeader(m)
                                      THEN <<MBI2_MAGIC, InfoAddr>>
                                      ELSE <<MBI_MAGIC, MbiAddr>>

(* What mbi2.h:27 says: "The MBI2 header must be within this many bytes in *)
(* a file."                                                                *)
HeaderWithinLimit ==
  header # 0 => header + HeaderSize <= kernel.mod_start + HeaderBytes

=============================================================================
