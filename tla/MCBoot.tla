------------------------------- MODULE MCBoot -------------------------------
(***************************************************************************)
(* Model values for Boot.  There are 104 bytes of memory with the code     *)
(* from 8 on, 60 bytes of it for two segments, and the module of 24 bytes  *)
(* from 72 on.  Segments belong below the code, into it, behind it, and    *)
(* over the module, and may be empty; headers may be misaligned, at the    *)
(* end of the module, across it, or have a wrong sum.                      *)
(***************************************************************************)
EXTENDS Boot

MCPhSize == [c \in {ELFCLASS32, ELFCLASS64} |-> IF c = ELFCLASS32 THEN 32 ELSE 56]

MCPh(offset, paddr, filesz, memsz) ==
  [p_type |-> PT_LOAD, p_offset |-> offset, p_paddr |-> paddr,
   p_filesz |-> filesz, p_memsz |-> memsz]

MCNote == [MCPh(0, 0, 4, 4) EXCEPT !.p_type = 4]

MCPhs ==
  { MCNote,
    MCPh(0, 0, 4, 4),      \* below the code
    MCPh(4, 4, 4, 4),
    MCPh(8, 2, 0, 3),      \* nothing in the file
    MCPh(12, 6, 4, 8),     \* over the first instructions
    MCPh(2, 21, 1, 2),     \* over the copy itself
    MCPh(4, 65, 2, 3),     \* over the last instructions
    MCPh(0, 68, 4, 4),     \* behind the code
    MCPh(0, 70, 6, 8),     \* down, over its own bytes
    MCPh(2, 76, 4, 5),     \* up, over its own bytes
    MCPh(16, 90, 4, 10),   \* up, next to its own bytes
    MCPh(8, 98, 4, 6) }    \* behind the module

MCMagics ==
  { {}, {[at |-> 72, sum |-> 0]}, {[at |-> 80, sum |-> 0]},
    {[at |-> 72, sum |-> 1], [at |-> 76, sum |-> 0]},
    {[at |-> 72, sum |-> 0], [at |-> 80, sum |-> 0], [at |-> 88, sum |-> 0]},
    {[at |-> 88, sum |-> 0]} }

MCKernel(magics, class, phs) ==
  [mod_start |-> 72, mod_end |-> 96, magics |-> magics, elfmag |-> TRUE, class |-> class,
   e_type |-> ET_EXEC, e_machine |-> IF class = ELFCLASS64 THEN EM_X86_64 ELSE EM_386,
   e_version |-> 1, e_phentsize |-> 56, e_entry |-> 3, phs |-> phs]

(* Kernels with one segment and every kind of header, kernels with two     *)
(* segments, and some that cannot be started.                              *)
MCKernels ==
  { MCKernel(m, c, p) : m \in MCMagics, c \in {ELFCLASS32, ELFCLASS64},
                        p \in SeqOf(MCPhs, 1) }
  \cup { MCKernel({[at |-> 72, sum |-> 0]}, ELFCLASS64, p) : p \in SeqOf(MCPhs, 2) }
  \cup UNION { LET k == MCKernel({}, c, <<MCPh(0, 0, 4, 4)>>) IN
               { [k EXCEPT !.elfmag = FALSE], [k EXCEPT !.class = 3], [k EXCEPT !.e_type = 3],
                 [k EXCEPT !.e_machine = 40], [k EXCEPT !.e_version = 0],
                 [k EXCEPT !.e_phentsize = 32] } : c \in {ELFCLASS32, ELFCLASS64} }

=============================================================================
