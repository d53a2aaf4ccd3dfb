---------------------------- MODULE MCFindMemory ----------------------------
(***************************************************************************)
(* Model values for FindMemory: memory maps of one to three entries, with  *)
(* four-byte pages.  The bases and lengths are chosen so that entries      *)
(* start and end on and off page boundaries, contain no page boundary at   *)
(* all, touch, overlap, come in any order and straddle the limits.         *)
(***************************************************************************)
EXTENDS FindMemory, SequencesExt

MCAvailable ==
  [base_addr: {0, 3, 8, 14}, length: {1, 8, 15}, type: {MMAP_AVAILABLE}]

MCReserved == [base_addr: {8}, length: {8}, type: {2}]

(* Three-entry maps come from fewer entries: two neighbours, one entry     *)
(* that overlaps both, one that is too small and a reserved one.           *)
MCFewEntries ==
  [base_addr: {0, 8}, length: {8}, type: {MMAP_AVAILABLE}]
    \cup [base_addr: {3}, length: {1, 15}, type: {MMAP_AVAILABLE}]
    \cup MCReserved

MCMmaps ==
  UNION {SeqOf(MCAvailable \cup MCReserved, 2), SeqOf(MCFewEntries, 3)}
    \ {<<>>}

MCRequests ==
  [len: {4, 8}, limit_to: {8, 20}, highest: {TRUE}]
    \cup [len: {5}, limit_to: {18}, highest: BOOLEAN]

=============================================================================
