---------------------------- MODULE MCRelocation ----------------------------
(***************************************************************************)
(* Model values for Relocation: a memory of 32 bytes in four-byte pages,   *)
(* modules to be moved below 24.  As with a real boot loader, modules and  *)
(* strings do not overlap one another and lie inside available memory.     *)
(* The maps leave room for every module, for some, for the extra space     *)
(* alone, or for nothing, and one has a hole under phys_max.               *)
(***************************************************************************)
EXTENDS Relocation, SequencesExt

MCEntry(base, length, type) ==
  [base_addr |-> base, length |-> length, type |-> type]

MCMmaps ==
  { <<MCEntry(0, 32, MMAP_AVAILABLE)>>,
    <<MCEntry(18, 14, MMAP_AVAILABLE), MCEntry(0, 18, MMAP_AVAILABLE)>>,
    <<MCEntry(0, 10, MMAP_AVAILABLE), MCEntry(10, 2, 2),
      MCEntry(12, 19, MMAP_AVAILABLE)>>,
    <<MCEntry(1, 7, MMAP_AVAILABLE), MCEntry(8, 10, MMAP_AVAILABLE)>>,
    <<MCEntry(0, 3, MMAP_AVAILABLE), MCEntry(13, 5, MMAP_AVAILABLE)>> }

MCModules ==
  { [mod_start |-> s, mod_end |-> s + n, string |-> c, slen |-> l] :
      s \in {1, 5, 8, 16, 20}, n \in {1, 4, 6},
      c \in {0, 4, 15, 20}, l \in {1, 2} }

(* The byte ranges of one module of a list. *)
MCRanges(m) ==
  { m.mod_start .. m.mod_end - 1, m.string .. m.string + m.slen - 1 }

MCDisjoint(l) ==
  /\ \A k \in DOMAIN l :
       \A r, t \in MCRanges(l[k]) : r # t => r \cap t = {}
  /\ \A j, k \in DOMAIN l :
       j < k => UNION MCRanges(l[j]) \cap UNION MCRanges(l[k]) = {}

MCLoads == { l \in SeqOf(MCModules, 2) \ {<<>>} : MCDisjoint(l) }

(* The modules lie in memory the map describes as available. *)
MCLoadIsAvailable ==
  \A k \in Modules : \A r \in MCRanges(loaded[k]) : \E e \in Range(mmap) :
    /\ e.type = MMAP_AVAILABLE
    /\ r \subseteq e.base_addr .. e.base_addr + e.length - 1

MCInit ==
  /\ Init
  /\ MCLoadIsAvailable

MCSpec == MCInit /\ [][Next]_vars /\ WF_vars(Step)

=============================================================================
