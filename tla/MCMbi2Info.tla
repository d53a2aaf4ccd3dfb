----------------------------- MODULE MCMbi2Info -----------------------------
(***************************************************************************)
(* Model values for Mbi2Info: strings of every length modulo 8 that makes  *)
(* a difference, up to three modules and two map entries, and too little   *)
(* memory for some of it, in the cfg.                                      *)
(***************************************************************************)
EXTENDS Mbi2Info

MCString(id, n) == [id |-> id, len |-> n]
MCEntry(a, n, t) == [addr |-> a, len |-> n, type |-> t]
MCModule(a, id, n) ==
  [mod_start |-> a, mod_end |-> a + 512, string |-> MCString(id, n)]

MCMmaps == { <<MCEntry(0, 640, 1)>>, <<MCEntry(0, 640, 1), MCEntry(1024, 99, 2)>> }

(* The kernel and up to two more modules. *)
MCMods ==
  { <<>> } \cup { <<MCModule(4096, "m1", n)>> : n \in {0, 7, 8} }
  \cup { <<MCModule(4096, "m1", n), MCModule(8192, "m2", k)>> :
           n \in {0, 6}, k \in {3, 7} }
  \cup { <<MCModule(4096, "m1", 5), MCModule(8192, "m2", n),
           MCModule(12288, "m3", k)>> : n \in {0, 6}, k \in {3, 7} }

MCMbis ==
  [flags: SUBSET {"mem", "cmdline", "mods"},
   cmdline: { MCString("line", 4) },
   mmap: MCMmaps, mods: MCMods]

(* Paragraphs without a signature, with and without bytes to add; with the *)
(* signature and bytes that add up to 0 alone, to 256 with one more, or to *)
(* something else.                                                         *)
MCParagraph(signature, sum, sum4, rev, size) ==
  [signature |-> signature, sum |-> sum, sum4 |-> sum4,
   table |-> [rev |-> rev, size |-> size]]

MCParagraphs ==
  { MCParagraph(FALSE, 0, 0, 0, 0), MCParagraph(FALSE, 0, 1, 0, 0),
    MCParagraph(TRUE, 0, 1, 0, 0), MCParagraph(TRUE, 255, 1, 1, 0),
    MCParagraph(TRUE, 255, 0, 2, 36), MCParagraph(TRUE, 3, 1, 2, 36) }

(* Two ranges, with a paragraph between them and one behind. *)
MCRanges == << [start |-> 0, len |-> 1], [start |-> 2, len |-> 2] >>

(* Either any memory, with something to pass on, or one of four memories:  *)
(* without a table, with one of each revision.                             *)
MCTable(p, signature, sum, rev, size) ==
  [a \in 0 .. 4 |-> IF a = p THEN MCParagraph(signature, sum, 0, rev, size)
                    ELSE MCParagraph(FALSE, 0, 1, 0, 0)]

MCSome ==
  { MCTable(2, FALSE, 255, 0, 0), MCTable(0, TRUE, 255, 0, 0),
    MCTable(2, TRUE, 255, 1, 0), MCTable(3, TRUE, 255, 2, 36) }

MCInit ==
  /\ \/ memory \in MCSome
     \/ /\ memory \in [0 .. End -> Paragraphs]
        /\ mbi = [flags |-> {"mods"}, cmdline |-> MCString("line", 4),
                  mmap |-> <<MCEntry(0, 640, 1)>>, mods |-> <<MCModule(4096, "m1", 7)>>]
        /\ area = [phys_addr |-> 4096, length |-> 280]
  /\ Init

MCSpec == MCInit /\ [][Next]_vars

=============================================================================
