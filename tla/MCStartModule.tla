---------------------------- MODULE MCStartModule ----------------------------
(***************************************************************************)
(* Model values for StartModule: 160 bytes of memory with the code from 4  *)
(* on, at most 60 bytes of it, and pages of four bytes.  The loader has    *)
(* put the modules behind the code, into its place, at the top, or where   *)
(* they would be moved to.  The maps have room for all of them, for the    *)
(* extra space alone, or a place that is in use.  Segments belong where    *)
(* the modules were, where they were moved to, into the code, or nowhere   *)
(* near any of it.                                                         *)
(***************************************************************************)
EXTENDS StartModule, SequencesExt

MCEntry(base, length) ==
  [base_addr |-> base, length |-> length, type |-> MMAP_AVAILABLE]

MCMmaps ==
  { <<MCEntry(0, 160)>>, <<MCEntry(0, 28), MCEntry(150, 10)>>,
    <<MCEntry(70, 50), MCEntry(2, 30)>> }

MCModule(start, length, string) ==
  [mod_start |-> start, mod_end |-> start + length, string |-> string, slen |-> 2]

(* A kernel with room for a header or without, alone or with a module, and *)
(* nothing on top of anything else.                                        *)
MCRanges(m) == { m.mod_start .. m.mod_end - 1, m.string .. m.string + m.slen - 1 }

MCDisjoint(l) ==
  LET ranges == UNION { { <<k, r>> : r \in MCRanges(l[k]) } : k \in DOMAIN l }
  IN  \A x, y \in ranges : x # y => x[2] \cap y[2] = {}

MCLoads ==
  { <<MCModule(s, 18, 66)>> : s \in {70, 136, 140} }
  \cup { l \in { <<MCModule(s, n, 66), MCModule(t, 5, u)>> :
                  s \in {70, 128}, n \in {6, 18}, t \in {20, 90, 152}, u \in {97, 140} } :
           MCDisjoint(l) }

MCPhSize == [c \in {1, 2} |-> IF c = 1 THEN 32 ELSE 56]

MCPh(offset, paddr, filesz, memsz) ==
  [p_type |-> 1, p_offset |-> offset, p_paddr |-> paddr,
   p_filesz |-> filesz, p_memsz |-> memsz]

MCPhs ==
  { MCPh(0, 70, 4, 6), MCPh(2, 86, 4, 6), MCPh(3, 106, 3, 9), MCPh(0, 132, 4, 8),
    MCPh(4, 30, 2, 2) }

MCFiles == [headers: {{}, {0}}, phs: { p \in SeqOf(MCPhs, 2) : Len(p) = 2 }]

=============================================================================
