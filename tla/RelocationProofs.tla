-------------------------- MODULE RelocationProofs --------------------------
(***************************************************************************)
(* Two arguments, about mbi_find_memory and about mbi_relocate_modules,    *)
(* which calls it.                                                         *)
(*                                                                         *)
(* mbi_find_memory returns free memory, the highest there is, and fails    *)
(* only if there is none: for every memory map, every request and every    *)
(* page size.  The invariants of FindMemory speak of the returned value;   *)
(* what makes them true is what the loop knows about the entries it has    *)
(* seen, and that is SearchInv.  The step lemmas are stated for Call,      *)
(* ScanEntry and stuttering, so that they serve the searches of            *)
(* mbi_relocate_modules too.                                               *)
(*                                                                         *)
(* mbi_relocate_modules keeps every module intact at every moment, writes  *)
(* nowhere else than into free memory, and its last assertion never fails: *)
(* for every memory map, every list of modules, and every size of a page,  *)
(* of memory and of the extra space.                                       *)
(*                                                                         *)
(* The argument.  The first loop measures the modules; module k will take  *)
(* up slot[k] .. slot[k+1] - 1 of the block, and slot[1] is ExtraSpace.    *)
(* The overlap check has found that no module ends above the block.  The   *)
(* last loop fills the slots from the last to the first, so that memory    *)
(* below the slot it fills is as the boot loader left it, in particular    *)
(* all of the sources.  RelocInv says this for every point of the code.    *)
(***************************************************************************)
EXTENDS Relocation, TLAPS

-----------------------------------------------------------------------------
(* What the roundings return, for pages of any size. *)

(* Division and remainder by the page size. *)
LEMMA DivMod ==
  \A x \in Int : /\ x \div PageSize \in Int
                 /\ x = (x \div PageSize) * PageSize + (x % PageSize)
                 /\ x % PageSize \in 0 .. PageSize - 1
BY PageSizeAssumption

(* There is no multiple of the page size between two neighbours. *)
LEMMA NoPageBetween ==
  \A a, b \in Int : a * PageSize < (b + 1) * PageSize => a <= b
BY PageSizeAssumption

(* RoundDown returns the start of the page an address lies in. *)
LEMMA RoundDownBounds ==
  \A x \in Int : /\ RoundDown(x) \in Int
                 /\ RoundDown(x) <= x
                 /\ x < RoundDown(x) + PageSize
                 /\ x \in Nat => RoundDown(x) \in Nat
BY PageSizeAssumption DEF RoundDown

(* Rounding moves along with a shift by whole pages. *)
LEMMA RoundDownShiftPages ==
  \A a, x \in Int : RoundDown(a * PageSize + x) = a * PageSize + RoundDown(x)
<1> SUFFICES ASSUME NEW a \in Int, NEW x \in Int
             PROVE  RoundDown(a * PageSize + x) = a * PageSize + RoundDown(x)
  OBVIOUS
<1> DEFINE y == a * PageSize + x
           p == x \div PageSize
           q == y \div PageSize
<1>1. y \in Int /\ PageSize \in Int
  BY PageSizeAssumption
<1>2. p \in Int /\ q \in Int
  BY <1>1, DivMod
<1>3. p * PageSize <= x /\ x < p * PageSize + PageSize
  BY <1>1, DivMod
<1>4. q * PageSize <= y /\ y < q * PageSize + PageSize
  BY <1>1, DivMod
<1> HIDE DEF p, q
<1>5. /\ (q - a) * PageSize = q * PageSize - a * PageSize
      /\ (q - a + 1) * PageSize = q * PageSize - a * PageSize + PageSize
      /\ (p + 1) * PageSize = p * PageSize + PageSize
  BY <1>2, PageSizeAssumption
<1>6. /\ (q - a) * PageSize < (p + 1) * PageSize
      /\ p * PageSize < (q - a + 1) * PageSize
  BY <1>2, <1>3, <1>4, <1>5, PageSizeAssumption
<1>7. q - a = p
  BY <1>2, <1>6, NoPageBetween
<1>8. q * PageSize = a * PageSize + p * PageSize
  BY <1>2, <1>5, <1>7, PageSizeAssumption
<1>9. QED
  BY <1>8 DEF RoundDown, p, q, y

(* An aligned number is the rounding of itself: the shift, in bytes. *)
LEMMA RoundDownShift ==
  \A a, x \in Int : PageAligned(a) => RoundDown(a + x) = a + RoundDown(x)
<1> SUFFICES ASSUME NEW a \in Int, NEW x \in Int, PageAligned(a)
             PROVE  RoundDown(a + x) = a + RoundDown(x)
  OBVIOUS
<1>1. a \div PageSize \in Int /\ a = (a \div PageSize) * PageSize
  BY DivMod DEF PageAligned, RoundDown
<1>2. RoundDown((a \div PageSize) * PageSize + x)
        = (a \div PageSize) * PageSize + RoundDown(x)
  BY <1>1, RoundDownShiftPages
<1>3. QED
  BY <1>1, <1>2

(* What RoundDown returns is the start of a page. *)
LEMMA RoundDownAligned == \A x \in Int : PageAligned(RoundDown(x))
<1> SUFFICES ASSUME NEW x \in Int PROVE PageAligned(RoundDown(x))
  OBVIOUS
<1>1. x \div PageSize \in Int
  BY DivMod
<1>2. RoundDown((x \div PageSize) * PageSize + 0)
        = (x \div PageSize) * PageSize + RoundDown(0)
  BY <1>1, RoundDownShiftPages
<1>3. RoundDown(0) = 0
  BY PageSizeAssumption DEF RoundDown
<1>4. (x \div PageSize) * PageSize \in Int
  BY <1>1, PageSizeAssumption
<1>5. QED
  BY <1>2, <1>3, <1>4 DEF PageAligned, RoundDown

(* Sums and differences of aligned numbers are aligned. *)
LEMMA AlignedSum ==
  \A a, b \in Int : PageAligned(a) /\ PageAligned(b) => PageAligned(a + b)
BY RoundDownShift DEF PageAligned

LEMMA AlignedDifference ==
  \A a, b \in Int : PageAligned(a) /\ PageAligned(b) => PageAligned(a - b)
<1> SUFFICES ASSUME NEW a \in Int, NEW b \in Int,
                    PageAligned(a), PageAligned(b)
             PROVE  PageAligned(a - b)
  OBVIOUS
<1>1. RoundDown(b + (a - b)) = b + RoundDown(a - b)
  BY RoundDownShift
<1>2. b + (a - b) = a /\ RoundDown(a) = a /\ RoundDown(a - b) \in Int
  BY RoundDownBounds DEF PageAligned
<1>3. QED
  BY <1>1, <1>2 DEF PageAligned

(* RoundDown returns the highest page boundary that is not above. *)
LEMMA RoundDownGreatest ==
  \A x, b \in Int : PageAligned(b) /\ b <= x => b <= RoundDown(x)
<1> SUFFICES ASSUME NEW x \in Int, NEW b \in Int, PageAligned(b), b <= x
             PROVE  b <= RoundDown(x)
  OBVIOUS
<1>1. RoundDown(b + (x - b)) = b + RoundDown(x - b)
  BY RoundDownShift
<1>2. x - b \in Nat /\ b + (x - b) = x
  OBVIOUS
<1>3. RoundDown(x - b) \in Nat
  BY <1>2, RoundDownBounds
<1>4. QED
  BY <1>1, <1>2, <1>3

(* RoundUp returns the lowest page boundary that is not below. *)
LEMMA RoundUpBounds ==
  \A x \in Int : /\ RoundUp(x) \in Int
                 /\ x <= RoundUp(x)
                 /\ RoundUp(x) < x + PageSize
                 /\ PageAligned(RoundUp(x))
                 /\ x \in Nat => RoundUp(x) \in Nat
BY PageSizeAssumption, RoundDownBounds, RoundDownAligned DEF RoundUp

LEMMA RoundUpShift ==
  \A a, x \in Int : PageAligned(a) => RoundUp(a + x) = a + RoundUp(x)
<1> SUFFICES ASSUME NEW a \in Int, NEW x \in Int, PageAligned(a)
             PROVE  RoundUp(a + x) = a + RoundUp(x)
  OBVIOUS
<1>1. RoundDown(a + (x + PageSize - 1)) = a + RoundDown(x + PageSize - 1)
  BY RoundDownShift, PageSizeAssumption
<1>2. a + (x + PageSize - 1) = (a + x) + PageSize - 1
  BY PageSizeAssumption
<1>3. QED
  BY <1>1, <1>2 DEF RoundUp

LEMMA RoundUpLeast ==
  \A x, b \in Int : PageAligned(b) /\ x <= b => RoundUp(x) <= b
<1> SUFFICES ASSUME NEW x \in Int, NEW b \in Int, PageAligned(b), x <= b
             PROVE  RoundUp(x) <= b
  OBVIOUS
<1>1. RoundDown(b + (x - b + PageSize - 1)) = b + RoundDown(x - b + PageSize - 1)
  BY RoundDownShift, PageSizeAssumption
<1>2. RoundDown(x - b + PageSize - 1) <= 0
  <2>1. x - b + PageSize - 1 \in Int /\ x - b + PageSize - 1 < PageSize
    BY PageSizeAssumption
  <2>2. (x - b + PageSize - 1) \div PageSize < 1
    BY <2>1, PageSizeAssumption
  <2>3. (x - b + PageSize - 1) \div PageSize \in Int
    BY <2>1, DivMod
  <2>4. QED
    BY <2>2, <2>3, PageSizeAssumption DEF RoundDown
<1>3. b + (x - b + PageSize - 1) = x + PageSize - 1
  BY PageSizeAssumption
<1>4. RoundDown(x - b + PageSize - 1) \in Int
  BY PageSizeAssumption, RoundDownBounds
<1>5. QED
  BY <1>1, <1>2, <1>3, <1>4 DEF RoundUp

-----------------------------------------------------------------------------
(* The search. *)

Entries == 1 .. Len(mmap)

(* The entries the loop has been through. *)
Seen == 1 .. cursor - 1

(* Where the block starts if it is taken from the entry. *)
Candidate(e) == TopAddr(e) - req.len

(* The inductive invariant of the search. *)
SearchInv ==
  /\ SearchTypeOK
  /\ search = "running" => req.limit_to > req.len
  /\ search = "true" => found /\ (req.highest => cursor = Len(mmap) + 1)
  /\ search = "false" /\ req.limit_to > req.len
       => ~found /\ cursor = Len(mmap) + 1
  /\ found => \E k \in Entries : Suits(mmap[k]) /\ block = Candidate(mmap[k])
  /\ ~found => \A j \in Seen : ~Suits(mmap[j])
  /\ found /\ EntriesDisjoint
       => \A j \in Seen : Suits(mmap[j]) => Candidate(mmap[j]) <= block

-----------------------------------------------------------------------------
(* Lemmas about one entry of the map.                                      *)

(* An entry that suits gives a free block. *)
LEMMA CandidateIsFree ==
  ASSUME NEW e \in MemoryMapEntry, req \in Request, Suits(e)
  PROVE  /\ Candidate(e) \in Nat
         /\ e.base_addr <= BlockAddr(e)
         /\ BlockAddr(e) <= Candidate(e)
         /\ Candidate(e) + req.len <= req.limit_to
         /\ Candidate(e) + req.len <= e.base_addr + e.length
<1> DEFINE room == e.length - (BlockAddr(e) - e.base_addr)
<1>1. /\ e.base_addr \in Nat /\ e.length \in Nat
      /\ req.len \in Nat /\ req.limit_to \in Nat
  BY DEF MemoryMapEntry, Request
<1>2. BlockAddr(e) \in Nat /\ e.base_addr <= BlockAddr(e)
  BY <1>1, RoundUpBounds DEF BlockAddr
<1>3. room \in Nat
  BY <1>1, <1>2 DEF Suits, HasPageBoundary
<1>4. BlockLen(e) \in Nat /\ BlockLen(e) <= room
  BY <1>3, RoundDownBounds DEF BlockLen
<1>5. req.len <= BlockLen(e) /\ BlockAddr(e) <= req.limit_to - req.len
  BY DEF Suits
<1>6. QED
  BY <1>1, <1>2, <1>3, <1>4, <1>5 DEF Candidate, TopAddr

(* With whole pages, that block starts on a page boundary. *)
LEMMA CandidateIsAligned ==
  ASSUME NEW e \in MemoryMapEntry, req \in Request, Suits(e), WholePages
  PROVE  PageAligned(Candidate(e))
<1>1. /\ e.base_addr \in Nat /\ e.length \in Nat
      /\ req.len \in Nat /\ req.limit_to \in Nat
  BY DEF MemoryMapEntry, Request
<1>2. BlockAddr(e) \in Nat /\ PageAligned(BlockAddr(e))
  BY <1>1, RoundUpBounds DEF BlockAddr
<1>3. BlockLen(e) \in Int /\ PageAligned(BlockLen(e))
  BY <1>1, <1>2, RoundDownBounds, RoundDownAligned DEF BlockLen
<1>4. PageAligned(BlockAddr(e) + BlockLen(e))
  BY <1>2, <1>3, AlignedSum
<1>5. TopAddr(e) \in Int /\ PageAligned(TopAddr(e))
  BY <1>1, <1>2, <1>3, <1>4 DEF TopAddr, WholePages
<1>6. PageAligned(req.len) /\ req.len \in Int
  BY <1>1 DEF WholePages
<1>7. PageAligned(TopAddr(e) - req.len)
  BY <1>5, <1>6, AlignedDifference
<1>8. QED
  BY <1>7 DEF Candidate

(* An entry with a free page-aligned block of the right length suits, and  *)
(* the block taken from it is not lower.                                   *)
LEMMA FreeBlockIsSeen ==
  ASSUME NEW e \in MemoryMapEntry, req \in Request, WholePages,
         NEW b \in Nat, PageAligned(b), e.type = MMAP_AVAILABLE,
         e.base_addr <= b, b + req.len <= e.base_addr + e.length,
         b + req.len <= req.limit_to
  PROVE  Suits(e) /\ b <= Candidate(e)
<1>1. /\ e.base_addr \in Nat /\ e.length \in Nat
      /\ req.len \in Nat /\ req.limit_to \in Nat
      /\ PageAligned(req.len)
  BY DEF MemoryMapEntry, Request, WholePages
<1>2. BlockAddr(e) \in Nat /\ PageAligned(BlockAddr(e)) /\ BlockAddr(e) <= b
  BY <1>1, RoundUpBounds, RoundUpLeast DEF BlockAddr
<1>3. ASSUME NEW n \in Nat, NEW a \in Nat, PageAligned(n), PageAligned(a)
      PROVE  PageAligned((b + n) - a)
  <2>1. b + n \in Int /\ PageAligned(b + n)
    BY <1>3, AlignedSum
  <2>2. QED
    BY <1>3, <2>1, AlignedDifference
<1>4. PageAligned(b + req.len - BlockAddr(e))
  BY <1>1, <1>2, <1>3
<1>5. b + req.len - BlockAddr(e) <= e.length - (BlockAddr(e) - e.base_addr)
  BY <1>1, <1>2
<1>6. b + req.len - BlockAddr(e) <= BlockLen(e)
  BY <1>1, <1>2, <1>4, <1>5, RoundDownGreatest DEF BlockLen
<1>7. BlockLen(e) \in Int
  BY <1>1, <1>2, RoundDownBounds DEF BlockLen
<1>8. QED
  BY <1>1, <1>2, <1>6, <1>7
  DEF Suits, HasPageBoundary, Candidate, TopAddr

-----------------------------------------------------------------------------
(* SearchInv is inductive.                                                 *)

LEMMA SearchInitInv == SearchInit => SearchInv
<1> SUFFICES ASSUME SearchInit PROVE SearchInv
  OBVIOUS
<1>1. mmap \in Seq(MemoryMapEntry) /\ mmap # <<>>
  BY MmapsAssumption DEF SearchInit
<1>2. req \in Request
  BY DEF SearchInit, Request
<1>3. cursor \in 1 .. Len(mmap) + 1
  BY <1>1 DEF SearchInit
<1>4. SearchTypeOK
  BY <1>1, <1>2, <1>3 DEF SearchInit, SearchTypeOK
<1>5. Seen = {} /\ search = "idle" /\ ~found
  BY DEF SearchInit, Seen
<1>6. QED
  BY <1>4, <1>5 DEF SearchInv

LEMMA CallInv ==
  ASSUME SearchInv, NEW r \in Request, Call(r)
  PROVE  SearchInv'
<1>1. mmap' \in Seq(MemoryMapEntry) /\ mmap' # <<>>
  BY DEF Call, SearchInv, SearchTypeOK
<1>2. Len(mmap') \in Nat /\ Len(mmap') >= 1
  BY <1>1
<1>3. SearchTypeOK'
  <2>1. /\ req' \in Request
        /\ search' \in {"idle", "running", "true", "false"}
        /\ found' \in BOOLEAN
        /\ block' \in Nat
    BY DEF Call, SearchInv, SearchTypeOK
  <2>2. cursor' \in 1 .. Len(mmap') + 1 /\ cursor' <= Len(mmap')
    BY <1>2 DEF Call
  <2>3. QED
    BY <1>1, <2>1, <2>2 DEF SearchTypeOK
<1>4. r.limit_to \in Nat /\ r.len \in Nat
  BY DEF Request
<1>5. (search = "running" => req.limit_to > req.len)'
  BY <1>4 DEF Call
<1>6. (search = "false" => ~(req.limit_to > req.len))'
  BY <1>4 DEF Call
<1>7. (search # "true" /\ ~found /\ Seen = {})'
  BY DEF Call, Seen
<1>8. QED
  BY <1>3, <1>5, <1>6, <1>7 DEF SearchInv

LEMMA ScanEntryInv ==
  ASSUME SearchInv, ScanEntry
  PROVE  SearchInv' /\ (found => found' /\ block' >= block)
<1> DEFINE e == mmap[cursor]
<1>1. /\ mmap' = mmap /\ req' = req
      /\ mmap \in Seq(MemoryMapEntry) /\ Len(mmap) \in Nat
      /\ req \in Request
      /\ search = "running" /\ req.limit_to > req.len
      /\ cursor \in 1 .. Len(mmap)
  BY DEF ScanEntry, PassEntry, TakeEntry, SearchInv, SearchTypeOK
<1>2. e \in MemoryMapEntry
  BY <1>1
<1>3. \A x : /\ Suits(x)' <=> Suits(x)
             /\ Candidate(x)' = Candidate(x)
  BY <1>1 DEF Suits, Candidate, TopAddr, HasPageBoundary
<1>4. EntriesDisjoint' <=> EntriesDisjoint
  BY <1>1 DEF EntriesDisjoint
<1>5. /\ Entries' = Entries
      /\ \A j \in Entries : mmap[j] \in MemoryMapEntry
      /\ cursor' = cursor + 1 => Seen' = Seen \cup {cursor}
      /\ Seen \subseteq Entries
  BY <1>1 DEF Entries, Seen
<1>a. CASE PassEntry
  <2>1. /\ ~Suits(e) \/ Outranked(e)
        /\ found' = found /\ block' = block
        /\ cursor' = cursor + 1
        /\ search' = IF cursor < Len(mmap) THEN "running"
                     ELSE IF found THEN "true" ELSE "false"
    BY <1>a DEF PassEntry, NextEntry
  <2>2. SearchTypeOK'
    BY <1>1, <2>1 DEF SearchInv, SearchTypeOK
  <2>3. (search # "running" => cursor = Len(mmap) + 1)'
    BY <1>1, <2>1
  <2>4. (found => \E k \in Entries :
                    Suits(mmap[k]) /\ block = Candidate(mmap[k]))'
    BY <1>1, <1>3, <1>5, <2>1 DEF SearchInv
  <2>5. (~found => \A j \in Seen : ~Suits(mmap[j]))'
    BY <1>1, <1>3, <1>5, <2>1 DEF SearchInv, Outranked
  <2>6. ASSUME found, EntriesDisjoint, Suits(e)
        PROVE  Candidate(e) <= block
    <3>1. PICK k \in Entries : Suits(mmap[k]) /\ block = Candidate(mmap[k])
      BY <2>6 DEF SearchInv
    <3>2. block > BlockAddr(e)
      BY <2>1, <2>6 DEF Outranked
    <3>3. /\ Candidate(e) \in Nat /\ Candidate(mmap[k]) \in Nat
          /\ e.base_addr <= BlockAddr(e)
          /\ Candidate(e) + req.len <= e.base_addr + e.length
          /\ mmap[k].base_addr <= BlockAddr(mmap[k])
          /\ BlockAddr(mmap[k]) <= Candidate(mmap[k])
          /\ Candidate(mmap[k]) + req.len
               <= mmap[k].base_addr + mmap[k].length
      BY <1>1, <1>2, <1>5, <2>6, <3>1, CandidateIsFree
    <3>4. /\ e.base_addr \in Nat /\ e.length \in Nat
          /\ mmap[k].base_addr \in Nat /\ mmap[k].length \in Nat
          /\ BlockAddr(e) \in Nat /\ BlockAddr(mmap[k]) \in Nat
          /\ req.len \in Nat
      <4>1. \A m \in MemoryMapEntry : /\ m.base_addr \in Nat
                                      /\ m.length \in Nat
                                      /\ BlockAddr(m) \in Nat
        BY RoundUpBounds DEF MemoryMapEntry, BlockAddr
      <4>2. QED
        BY <1>1, <1>2, <1>5, <4>1 DEF Request
    <3>5. CASE k = cursor
      BY <3>1, <3>3, <3>5
    <3>6. CASE k # cursor
      <4>1. \/ e.base_addr + e.length <= mmap[k].base_addr
            \/ mmap[k].base_addr + mmap[k].length <= e.base_addr
        BY <1>1, <2>6, <3>6 DEF EntriesDisjoint, Entries
      <4>2. ~(mmap[k].base_addr + mmap[k].length <= e.base_addr)
        BY <3>1, <3>2, <3>3, <3>4
      <4>3. QED
        BY <3>1, <3>3, <3>4, <4>1, <4>2
    <3>7. QED
      BY <3>5, <3>6
  <2>7. (found /\ EntriesDisjoint
           => \A j \in Seen : Suits(mmap[j]) => Candidate(mmap[j]) <= block)'
    BY <1>1, <1>3, <1>4, <1>5, <2>1, <2>6 DEF SearchInv
  <2>8. /\ (search = "running" => req.limit_to > req.len)'
        /\ (search = "true" => found)'
        /\ (search = "false" => ~found)'
    BY <1>1, <2>1
  <2>9. SearchInv'
    BY <2>2, <2>3, <2>4, <2>5, <2>7, <2>8 DEF SearchInv
  <2>10. block \in Nat
    BY DEF SearchInv, SearchTypeOK
  <2>11. QED
    BY <2>1, <2>9, <2>10
<1>b. CASE TakeEntry
  <2>1. /\ Suits(e) /\ ~Outranked(e)
        /\ found' = TRUE /\ block' = Candidate(e)
    BY <1>b DEF TakeEntry, Candidate
  <2>2. \/ /\ cursor' = cursor + 1
           /\ search' = IF cursor < Len(mmap) THEN "running" ELSE "true"
        \/ /\ ~req.highest
           /\ cursor' = cursor
           /\ search' = "true"
    BY <1>b, <2>1 DEF TakeEntry, NextEntry
  <2>3. Candidate(e) \in Nat /\ BlockAddr(e) <= Candidate(e)
    BY <1>1, <1>2, <2>1, CandidateIsFree
  <2>4. BlockAddr(e) \in Nat
    BY <1>2, RoundUpBounds DEF MemoryMapEntry, BlockAddr
  <2>5. block \in Nat /\ (found => block <= block')
    BY <2>1, <2>3, <2>4 DEF Outranked, SearchInv, SearchTypeOK
  <2>6. SearchTypeOK'
    BY <1>1, <2>1, <2>2, <2>3 DEF SearchInv, SearchTypeOK
  <2>7. /\ (search = "running" => req.limit_to > req.len)'
        /\ (search = "true" => found /\ (req.highest => cursor = Len(mmap) + 1))'
        /\ (search # "false")'
    BY <1>1, <2>1, <2>2
  <2>8. (\E k \in Entries : Suits(mmap[k]) /\ block = Candidate(mmap[k]))'
    BY <1>1, <1>3, <1>5, <2>1 DEF Entries
  <2>9. Seen' \subseteq Seen \cup {cursor}
    BY <1>1, <2>2 DEF Seen
  <2>10. ASSUME EntriesDisjoint, NEW j \in Seen', Suits(mmap[j])
         PROVE  Candidate(mmap[j]) <= block'
    <3>1. CASE j = cursor
      BY <2>1, <2>3, <3>1
    <3>2. CASE j \in Seen
      <4>1. found
        BY <2>10, <3>2 DEF SearchInv
      <4>2. Candidate(mmap[j]) <= block
        BY <2>10, <3>2, <4>1 DEF SearchInv
      <4>3. Candidate(mmap[j]) \in Nat
        BY <1>1, <1>5, <2>10, <3>2, CandidateIsFree
      <4>4. block' \in Nat
        BY <2>1, <2>3
      <4>5. QED
        BY <2>5, <4>1, <4>2, <4>3, <4>4
    <3>3. QED
      BY <2>9, <3>1, <3>2
  <2>11. (found /\ EntriesDisjoint
            => \A j \in Seen : Suits(mmap[j]) => Candidate(mmap[j]) <= block)'
    BY <1>1, <1>3, <1>4, <2>10
  <2>12. SearchInv'
    BY <2>1, <2>6, <2>7, <2>8, <2>11 DEF SearchInv
  <2>13. QED
    BY <2>1, <2>3, <2>5, <2>12
<1>c. QED
  BY <1>a, <1>b DEF ScanEntry

LEMMA SearchUnchangedInv ==
  ASSUME SearchInv, UNCHANGED searchVars
  PROVE  SearchInv'
BY DEF SearchInv, SearchTypeOK, searchVars, Seen, Entries, Candidate, TopAddr,
       Suits, HasPageBoundary, EntriesDisjoint

-----------------------------------------------------------------------------
(* What follows from SearchInv.                                            *)

LEMMA SearchInvIsFree ==
  SearchInv /\ search = "true" => IsFree(block, req.len, req.limit_to)
<1> SUFFICES ASSUME SearchInv, search = "true"
             PROVE  IsFree(block, req.len, req.limit_to)
  OBVIOUS
<1>1. PICK k \in Entries : Suits(mmap[k]) /\ block = Candidate(mmap[k])
  BY DEF SearchInv
<1>2. mmap[k] \in MemoryMapEntry /\ req \in Request
  BY DEF SearchInv, SearchTypeOK, Entries
<1>3. /\ Candidate(mmap[k]) \in Nat
      /\ mmap[k].base_addr <= BlockAddr(mmap[k])
      /\ BlockAddr(mmap[k]) <= Candidate(mmap[k])
      /\ Candidate(mmap[k]) + req.len <= req.limit_to
      /\ Candidate(mmap[k]) + req.len <= mmap[k].base_addr + mmap[k].length
  BY <1>1, <1>2, CandidateIsFree
<1>4. mmap[k].base_addr \in Nat /\ BlockAddr(mmap[k]) \in Nat
  BY <1>2, RoundUpBounds DEF MemoryMapEntry, BlockAddr
<1>5. mmap[k].base_addr <= block
  BY <1>1, <1>3, <1>4
<1>6. mmap[k].type = MMAP_AVAILABLE
  BY <1>1 DEF Suits
<1>7. QED
  BY <1>1, <1>3, <1>5, <1>6 DEF IsFree, Entries

LEMMA SearchInvIsPageAligned ==
  SearchInv /\ search = "true" /\ WholePages => PageAligned(block)
<1> SUFFICES ASSUME SearchInv, search = "true", WholePages
             PROVE  PageAligned(block)
  OBVIOUS
<1>1. PICK k \in Entries : Suits(mmap[k]) /\ block = Candidate(mmap[k])
  BY DEF SearchInv
<1>2. mmap[k] \in MemoryMapEntry /\ req \in Request
  BY DEF SearchInv, SearchTypeOK, Entries
<1>3. QED
  BY <1>1, <1>2, CandidateIsAligned

LEMMA SearchInvHighest == SearchInv => HighestBlock
<1> SUFFICES ASSUME SearchInv, search = "true", req.highest, WholePages,
                    EntriesDisjoint, NEW b \in block + 1 .. req.limit_to,
                    PageAligned(b), IsFree(b, req.len, req.limit_to)
             PROVE  FALSE
  BY DEF HighestBlock
<1>1. /\ mmap \in Seq(MemoryMapEntry) /\ Len(mmap) \in Nat /\ block \in Nat
      /\ req \in Request
      /\ found /\ cursor = Len(mmap) + 1
  BY DEF SearchInv, SearchTypeOK
<1>2. b \in Nat /\ b > block
  BY <1>1 DEF Request
<1>3. PICK k \in 1 .. Len(mmap) :
        /\ mmap[k].type = MMAP_AVAILABLE
        /\ mmap[k].base_addr <= b
        /\ b + req.len <= mmap[k].base_addr + mmap[k].length
  BY DEF IsFree
<1>4. mmap[k] \in MemoryMapEntry /\ k \in Seen
  BY <1>1 DEF Seen
<1>5. b + req.len <= req.limit_to
  BY DEF IsFree
<1>6. Suits(mmap[k]) /\ b <= Candidate(mmap[k])
  BY <1>1, <1>2, <1>3, <1>4, <1>5, FreeBlockIsSeen
<1>7. Candidate(mmap[k]) <= block
  BY <1>1, <1>4, <1>6 DEF SearchInv
<1>8. Candidate(mmap[k]) \in Nat
  BY <1>1, <1>4, <1>6, CandidateIsFree
<1>9. QED
  BY <1>1, <1>2, <1>6, <1>7, <1>8

LEMMA SearchInvMiss == SearchInv => MissMeansNoBlock
<1> SUFFICES ASSUME SearchInv, search = "false", req.limit_to > req.len,
                    WholePages, NEW b \in 0 .. req.limit_to,
                    PageAligned(b), IsFree(b, req.len, req.limit_to)
             PROVE  FALSE
  BY DEF MissMeansNoBlock
<1>1. /\ mmap \in Seq(MemoryMapEntry) /\ Len(mmap) \in Nat
      /\ req \in Request
      /\ ~found /\ cursor = Len(mmap) + 1
  BY DEF SearchInv, SearchTypeOK
<1>2. b \in Nat
  BY <1>1 DEF Request
<1>3. PICK k \in 1 .. Len(mmap) :
        /\ mmap[k].type = MMAP_AVAILABLE
        /\ mmap[k].base_addr <= b
        /\ b + req.len <= mmap[k].base_addr + mmap[k].length
  BY DEF IsFree
<1>4. mmap[k] \in MemoryMapEntry /\ k \in Seen
  BY <1>1 DEF Seen
<1>5. b + req.len <= req.limit_to
  BY DEF IsFree
<1>6. Suits(mmap[k])
  BY <1>1, <1>2, <1>3, <1>4, <1>5, FreeBlockIsSeen
<1>7. QED
  BY <1>1, <1>4, <1>6 DEF SearchInv

-----------------------------------------------------------------------------
(* The theorems about the search on its own.                               *)

(* SearchInv holds throughout: the lemmas above, one per kind of step.     *)
THEOREM SearchInvariant == SearchSpec => []SearchInv
<1>1. ASSUME SearchInv, [SearchNext]_searchVars PROVE SearchInv'
  <2>1. CASE \E r \in Requests : search # "running" /\ Call(r)
    BY <1>1, <2>1, CallInv, RequestsAssumption
  <2>2. CASE ScanEntry
    BY <1>1, <2>2, ScanEntryInv
  <2>3. CASE UNCHANGED searchVars
    BY <1>1, <2>3, SearchUnchangedInv
  <2>4. QED
    BY <1>1, <2>1, <2>2, <2>3 DEF SearchNext
<1>2. QED
  BY <1>1, SearchInitInv, PTL DEF SearchSpec

(* Type correctness: the loop index never leaves the map while the loop of *)
(* mbi_find_memory runs.                                                   *)
THEOREM SearchTypeCorrect == SearchSpec => []SearchTypeOK
<1>1. SearchInv => SearchTypeOK
  BY DEF SearchInv
<1>2. QED
  BY <1>1, SearchInvariant, PTL

(* Every successful search returns free memory of one map entry, on a page *)
(* boundary and below the limit.                                           *)
THEOREM SearchReturnsFreePages == SearchSpec => []BlockIsFree
<1>1. SearchInv => BlockIsFree
  <2> SUFFICES ASSUME SearchInv, search = "true"
               PROVE  /\ IsFree(block, req.len, req.limit_to)
                      /\ WholePages => PageAligned(block)
    BY DEF BlockIsFree
  <2> QED
    BY SearchInvIsFree, SearchInvIsPageAligned
<1>2. QED
  BY <1>1, SearchInvariant, PTL

(* No higher block exists than the returned one, if the entries of the map *)
(* do not overlap.                                                         *)
THEOREM SearchReturnsHighest == SearchSpec => []HighestBlock
BY SearchInvariant, SearchInvHighest, PTL

(* The search fails only if there is no such block.                        *)
THEOREM SearchIsComplete == SearchSpec => []MissMeansNoBlock
BY SearchInvariant, SearchInvMiss, PTL

-----------------------------------------------------------------------------
(* Relocation.                                                             *)

(* The modules whose lengths have been measured, and the slots that are    *)
(* known because of that.                                                  *)
Sized == IF pc = "size" THEN 1 .. i - 1 ELSE Modules
Slots == IF pc = "size" THEN 1 .. i ELSE 1 .. Len(loaded) + 1

(* The module list entry of a module before and after it has moved. *)
EntryBefore(k) ==
  [mod_start |-> loaded[k].mod_start, mod_end |-> loaded[k].mod_end,
   string |-> loaded[k].string]
EntryAfter(k) ==
  [mod_start |-> block + slot[k],
   mod_end |-> block + slot[k] + ModLen(loaded[k]),
   string |-> block + slot[k] + ModLen(loaded[k])]

SlotInv ==
  /\ slot[1] = ExtraSpace
  /\ size = IF pc = "size" THEN slot[i] ELSE slot[Len(loaded) + 1]
  /\ \A k \in Sized :
       /\ minfo[k] = [modlen |-> ModLen(loaded[k]), slen |-> loaded[k].slen]
       /\ slot[k + 1] = slot[k] + RoundUp(ModLen(loaded[k]) + loaded[k].slen)
  /\ \A k \in Slots :
       /\ PageAligned(slot[k])
       /\ \A j \in 1 .. k : slot[j] <= slot[k]

IndexInv ==
  /\ pc \in {"size", "search", "retry", "check", "halted"}
       => i \in 1 .. Len(loaded) + 1
  /\ pc = "copy" => i \in 0 .. Len(loaded)

BlockInv ==
  /\ pc = "search" => req.len = size /\ req.limit_to = PhysMax
  /\ pc = "retry" => req.len = ExtraSpace /\ req.limit_to = PhysMax
  /\ pc \in {"check", "copy", "moved"} =>
       search = "true" /\ req.len = size /\ req.limit_to = PhysMax
  /\ pc = "check" =>
       block_len = size /\ \A k \in 1 .. i - 1 : loaded[k].mod_end <= block
  /\ pc \in {"copy", "moved"} =>
       \A k \in Modules : loaded[k].mod_end <= block
  /\ pc = "copy" => block_len = slot[i + 1]

PlaceInv ==
  /\ \A k \in Modules \ MovedModules : mods[k] = EntryBefore(k)
  /\ \A k \in MovedModules :
       /\ mods[k] = EntryAfter(k)
       /\ SameBytes(block + slot[k], loaded[k].mod_start, ModLen(loaded[k]))

MemInv ==
  /\ pc \notin {"copy", "moved"} => mem = [a \in Addr |-> a]
  /\ pc = "copy" => \A a \in Addr : a < block + block_len => mem[a] = a

RelocInv ==
  SearchInv /\ TypeOK /\ SlotInv /\ IndexInv /\ BlockInv /\ PlaceInv /\ MemInv

-----------------------------------------------------------------------------
(* Lemmas about memcpy.                                                    *)

LEMMA SmallRemainder ==
  ASSUME NEW d \in Nat \ {0}, NEW x \in 0 .. d - 1
  PROVE  x % d = x
OBVIOUS

(* memcpy writes nowhere else than into the destination. *)
LEMMA MemCpyOutside ==
  ASSUME NEW m, NEW dst, NEW src, NEW n, NEW a \in Addr,
         a \notin dst .. dst + n - 1
  PROVE  MemCpy(m, dst, src, n)[a] = m[a]
BY DEF MemCpy

(* A source below the destination is copied byte by byte. *)
LEMMA MemCpyApart ==
  ASSUME NEW m, NEW dst \in Nat, NEW src \in Nat, NEW n \in Nat,
         src + n <= dst, NEW o \in 0 .. n - 1, dst + o \in Addr
  PROVE  MemCpy(m, dst, src, n)[dst + o] = m[src + o]
<1>1. dst - src \in Nat \ {0} /\ o \in 0 .. (dst - src) - 1
  OBVIOUS
<1>2. o % (dst - src) = o
  BY <1>1, SmallRemainder
<1>3. (dst + o) - dst = o /\ dst > src /\ dst + o \in dst .. dst + n - 1
  OBVIOUS
<1>4. QED
  BY <1>2, <1>3 DEF MemCpy

(* memcpy leaves memory a memory. *)
LEMMA MemCpyType ==
  ASSUME NEW m \in [Addr -> Addr], NEW dst \in Nat, NEW src \in Nat,
         NEW n \in Nat, src + n <= MemTop, dst + n <= MemTop
  PROVE  MemCpy(m, dst, src, n) \in [Addr -> Addr]
<1> SUFFICES ASSUME NEW a \in Addr, a \in dst .. dst + n - 1
             PROVE  /\ dst > src => src + ((a - dst) % (dst - src)) \in Addr
                    /\ ~(dst > src) => src + (a - dst) \in Addr
  BY DEF MemCpy
<1>1. a \in Nat /\ MemTop \in Nat /\ a - dst \in Nat
  BY LimitsAssumption DEF Addr
<1>2. ASSUME dst > src PROVE src + ((a - dst) % (dst - src)) \in Addr
  <2>1. dst - src \in Nat \ {0}
    BY <1>2
  <2>2. \A x \in Nat, d \in Nat \ {0} : x % d \in 0 .. d - 1
    OBVIOUS
  <2>3. (a - dst) % (dst - src) \in 0 .. (dst - src) - 1
    BY <1>1, <2>1, <2>2
  <2>4. QED
    BY <1>1, <2>3 DEF Addr
<1>3. ASSUME ~(dst > src) PROVE src + (a - dst) \in Addr
  BY <1>1, <1>3 DEF Addr
<1>4. QED
  BY <1>2, <1>3

-----------------------------------------------------------------------------
(* What the types say of the modules.                                      *)

LEMMA LoadFacts ==
  ASSUME loaded \in Seq(LoadedModule), loaded # <<>>
  PROVE  /\ Len(loaded) \in Nat \ {0}
         /\ \A k \in Modules :
              /\ loaded[k].mod_start \in Nat
              /\ loaded[k].mod_end \in Nat
              /\ loaded[k].string \in Nat
              /\ loaded[k].slen \in Nat \ {0}
              /\ loaded[k].mod_start <= loaded[k].mod_end
              /\ loaded[k].mod_end <= MemTop
              /\ loaded[k].string + loaded[k].slen <= MemTop
              /\ ModLen(loaded[k]) \in Nat
<1>1. Len(loaded) \in Nat \ {0}
  OBVIOUS
<1>2. ASSUME NEW m \in LoadedModule
      PROVE  /\ m.mod_start \in Nat
             /\ m.mod_end \in Nat
             /\ m.string \in Nat
             /\ m.slen \in Nat \ {0}
             /\ m.mod_start <= m.mod_end
             /\ m.mod_end <= MemTop
             /\ m.string + m.slen <= MemTop
             /\ ModLen(m) \in Nat
  BY <1>2, SMTT(40) DEF LoadedModule, ModLen
<1>3. \A k \in Modules : loaded[k] \in LoadedModule
  BY DEF Modules
<1>4. QED
  BY <1>1, <1>2, <1>3

(* A module with its string fits into whole pages. *)
LEMMA PagesOfModule ==
  ASSUME loaded \in Seq(LoadedModule), loaded # <<>>, NEW k \in Modules
  PROVE  LET n == ModLen(loaded[k]) + loaded[k].slen
         IN  /\ n \in Nat \ {0}
             /\ RoundUp(n) \in Nat
             /\ n <= RoundUp(n)
             /\ PageAligned(RoundUp(n))
<1>1. ModLen(loaded[k]) \in Nat /\ loaded[k].slen \in Nat \ {0}
  BY LoadFacts
<1>2. \A n \in Nat \ {0} : /\ RoundUp(n) \in Nat
                           /\ n <= RoundUp(n)
                           /\ PageAligned(RoundUp(n))
  BY RoundUpBounds
<1>3. ModLen(loaded[k]) + loaded[k].slen \in Nat \ {0}
  BY <1>1
<1>4. QED
  BY <1>2, <1>3

-----------------------------------------------------------------------------
(* RelocInv is inductive: one lemma for the start and for each action.     *)

LEMMA InitInv == Init => RelocInv
<1> SUFFICES ASSUME Init PROVE RelocInv
  OBVIOUS
<1>1. SearchInv
  BY SearchInitInv DEF Init
<1>2. loaded \in Seq(LoadedModule) /\ loaded # <<>>
  BY LoadsAssumption DEF Init
<1>3. Len(loaded) \in Nat \ {0}
  BY <1>2, LoadFacts
<1>4. TypeOK
  <2>1. SearchTypeOK
    BY <1>1 DEF SearchInv
  <2>2. mods \in [Modules -> [mod_start: 0 .. MemTop, mod_end: 0 .. MemTop,
                              string: 0 .. MemTop]]
    <3>1. \A k \in Modules : /\ loaded[k].mod_start \in 0 .. MemTop
                             /\ loaded[k].mod_end \in 0 .. MemTop
                             /\ loaded[k].string \in 0 .. MemTop
      BY <1>2, LoadFacts, LimitsAssumption, SMTT(40)
    <3>2. QED
      BY <3>1 DEF Init
  <2>3. mem \in [Addr -> Addr]
    BY DEF Init
  <2>4. minfo \in [Modules -> [modlen: Nat, slen: Nat]]
    BY DEF Init
  <2>5. /\ size \in Nat
        /\ slot \in [1 .. Len(loaded) + 1 -> Nat]
        /\ block_len \in Nat
        /\ i \in 0 .. Len(loaded) + 1
        /\ pc = "size"
    BY <1>3, LimitsAssumption DEF Init
  <2>6. QED
    BY <1>2, <2>1, <2>2, <2>3, <2>4, <2>5 DEF TypeOK
<1>5. SlotInv
  BY <1>3, LimitsAssumption DEF Init, SlotInv, Sized, Slots
<1>6. IndexInv /\ BlockInv
  BY <1>3 DEF Init, IndexInv, BlockInv
<1>7. PlaceInv /\ MemInv
  BY DEF Init, PlaceInv, MemInv, MovedModules, EntryBefore
<1>8. QED
  BY <1>1, <1>4, <1>5, <1>6, <1>7 DEF RelocInv

LEMMA SizeModuleInv ==
  ASSUME RelocInv, SizeModule
  PROVE  RelocInv'
<1> DEFINE n == ModLen(loaded[i]) + loaded[i].slen
<1>1. /\ pc = "size" /\ pc' = pc /\ i \in Modules /\ i' = i + 1
      /\ loaded' = loaded /\ mods' = mods /\ mem' = mem
      /\ block_len' = block_len /\ UNCHANGED searchVars
      /\ minfo' = [minfo EXCEPT ![i] = [modlen |-> ModLen(mods[i]),
                                        slen |-> loaded[i].slen]]
      /\ size' = RoundUp(size + ModLen(mods[i]) + loaded[i].slen)
      /\ slot' = [slot EXCEPT ![i + 1] = size']
  BY DEF SizeModule
<1>2. /\ loaded \in Seq(LoadedModule) /\ loaded # <<>>
      /\ slot \in [1 .. Len(loaded) + 1 -> Nat]
      /\ minfo \in [Modules -> [modlen: Nat, slen: Nat]]
      /\ Len(loaded) \in Nat
  BY LoadFacts DEF RelocInv, TypeOK
<1>3. i \in 1 .. Len(loaded) /\ i + 1 \in 1 .. Len(loaded) + 1
  BY <1>1, <1>2 DEF Modules
<1>4. ModLen(mods[i]) = ModLen(loaded[i])
  <2>1. mods[i] = EntryBefore(i)
    BY <1>1 DEF RelocInv, PlaceInv, MovedModules
  <2>2. QED
    BY <2>1 DEF EntryBefore, ModLen
<1>5. ModLen(loaded[i]) \in Nat /\ loaded[i].slen \in Nat
  BY <1>1, <1>2, LoadFacts
<1>6. size = slot[i] /\ slot[i] \in Nat /\ PageAligned(slot[i])
  BY <1>1, <1>2, <1>3 DEF RelocInv, SlotInv, Slots
<1>7. size' = slot[i] + RoundUp(n)
  <2>1. size + ModLen(mods[i]) + loaded[i].slen = slot[i] + n
    BY <1>4, <1>5, <1>6
  <2>2. RoundUp(slot[i] + n) = slot[i] + RoundUp(n)
    <3>1. \A m \in Nat : RoundUp(slot[i] + m) = slot[i] + RoundUp(m)
      BY <1>6, RoundUpShift
    <3>2. QED
      BY <1>5, <3>1
  <2>3. QED
    BY <1>1, <2>1, <2>2
<1>8. RoundUp(n) \in Nat /\ PageAligned(RoundUp(n))
  BY <1>1, <1>2, PagesOfModule
<1>9. size' \in Nat /\ PageAligned(size') /\ slot[i] <= size'
  <2>1. \A m \in Nat : PageAligned(m) => PageAligned(slot[i] + m)
    BY <1>6, AlignedSum, SMTT(40)
  <2>2. QED
    BY <1>6, <1>7, <1>8, <2>1
<1>10. SearchInv'
  BY <1>1, SearchUnchangedInv DEF RelocInv
<1>11. TypeOK'
  <2>1. SearchTypeOK'
    BY <1>10 DEF SearchInv
  <2>2. slot' \in [1 .. Len(loaded) + 1 -> Nat]
    BY <1>1, <1>2, <1>9
  <2>3. minfo' \in [Modules -> [modlen: Nat, slen: Nat]]
    BY <1>1, <1>2, <1>4, <1>5
  <2>4. i' \in 0 .. Len(loaded) + 1
    BY <1>1, <1>3
  <2>5. QED
    BY <1>1, <1>9, <2>1, <2>2, <2>3, <2>4 DEF RelocInv, TypeOK, Modules
<1>12. SlotInv'
  <2>1. slot'[1] = ExtraSpace
    BY <1>1, <1>2, <1>3 DEF RelocInv, SlotInv
  <2>2. size' = slot'[i']
    BY <1>1, <1>2, <1>3
  <2>3. ASSUME NEW k \in 1 .. i
        PROVE  /\ minfo'[k] = [modlen |-> ModLen(loaded[k]),
                               slen |-> loaded[k].slen]
               /\ slot'[k + 1]
                    = slot'[k] + RoundUp(ModLen(loaded[k]) + loaded[k].slen)
    <3>1. CASE k = i
      BY <1>1, <1>2, <1>3, <1>4, <1>7, <3>1
    <3>2. CASE k # i
      BY <1>1, <1>2, <1>3, <2>3, <3>2 DEF RelocInv, SlotInv, Sized
    <3>3. QED
      BY <3>1, <3>2
  <2>4. ASSUME NEW k \in 1 .. i + 1
        PROVE  PageAligned(slot'[k]) /\ \A j \in 1 .. k : slot'[j] <= slot'[k]
    <3>1. \A j \in 1 .. i : /\ slot'[j] = slot[j] /\ slot[j] \in Nat
                            /\ PageAligned(slot[j])
                            /\ \A l \in 1 .. j : slot[l] <= slot[j]
      BY <1>1, <1>2, <1>3, SMTT(40) DEF RelocInv, SlotInv, Slots
    <3>2. slot'[i + 1] = size'
      BY <1>1, <1>2, <1>3
    <3>3. CASE k = i + 1
      BY <1>3, <1>9, <3>1, <3>2, <3>3
    <3>4. CASE k # i + 1
      BY <1>3, <2>4, <3>1, <3>4
    <3>5. QED
      BY <3>3, <3>4
  <2>5. Sized' = 1 .. i /\ Slots' = 1 .. i + 1
    BY <1>1, <1>3 DEF Sized, Slots
  <2>6. QED
    BY <1>1, <2>1, <2>2, <2>3, <2>4, <2>5 DEF SlotInv
<1>13. IndexInv' /\ BlockInv'
  BY <1>1, <1>3 DEF IndexInv, BlockInv
<1>14. PlaceInv' /\ MemInv'
  BY <1>1 DEF RelocInv, PlaceInv, MemInv, MovedModules, EntryBefore, Modules
<1>15. QED
  BY <1>10, <1>11, <1>12, <1>13, <1>14 DEF RelocInv

LEMMA SearchForAllInv ==
  ASSUME RelocInv, SearchForAll
  PROVE  RelocInv'
<1> DEFINE r == [len |-> size, limit_to |-> PhysMax, highest |-> TRUE]
<1>1. /\ pc = "size" /\ pc' = "search" /\ i \notin Modules
      /\ Call(r)
      /\ UNCHANGED <<mods, mem, minfo, size, block_len, i, loaded, slot>>
  BY DEF SearchForAll
<1>2. /\ loaded \in Seq(LoadedModule) /\ loaded # <<>>
      /\ slot \in [1 .. Len(loaded) + 1 -> Nat]
      /\ Len(loaded) \in Nat
  BY LoadFacts DEF RelocInv, TypeOK
<1>3. i = Len(loaded) + 1
  BY <1>1, <1>2 DEF RelocInv, IndexInv, Modules
<1>4. size \in Nat \ {0}
  <2>1. slot[1] <= slot[i] /\ slot[1] = ExtraSpace /\ size = slot[i]
    BY <1>1, <1>2, <1>3 DEF RelocInv, SlotInv, Slots
  <2>2. QED
    BY <1>2, <1>3, <2>1, LimitsAssumption
<1>5. SearchInv'
  <2>1. r \in Request
    BY <1>4, LimitsAssumption DEF Request
  <2>2. QED
    BY <1>1, <2>1, CallInv DEF RelocInv
<1>6. TypeOK'
  BY <1>1, <1>5 DEF RelocInv, TypeOK, SearchInv, Modules
<1>7. SlotInv'
  <2>1. Sized' = Sized /\ Slots' = Slots
    BY <1>1, <1>2, <1>3 DEF Sized, Slots, Modules
  <2>2. size = slot[Len(loaded) + 1]
    BY <1>1, <1>3 DEF RelocInv, SlotInv
  <2>3. QED
    BY <1>1, <2>1, <2>2 DEF RelocInv, SlotInv
<1>8. IndexInv' /\ BlockInv'
  BY <1>1, <1>2, <1>3 DEF IndexInv, BlockInv, Call
<1>9. PlaceInv' /\ MemInv'
  BY <1>1 DEF RelocInv, PlaceInv, MemInv, MovedModules, EntryBefore, Modules
<1>10. QED
  BY <1>5, <1>6, <1>7, <1>8, <1>9 DEF RelocInv

(* Once the sizes are summed up, a step that keeps them keeps their facts. *)
LEMMA SlotKept ==
  ASSUME RelocInv, pc # "size", pc' # "size",
         UNCHANGED <<size, minfo, loaded, slot>>
  PROVE  SlotInv'
<1>1. Sized' = Sized /\ Slots' = Slots
  BY DEF Sized, Slots, Modules
<1>2. size = slot[Len(loaded) + 1]
  BY DEF RelocInv, SlotInv
<1>3. size' = slot'[Len(loaded') + 1]
  BY <1>2
<1>4. SlotInv
  BY DEF RelocInv
<1>5. QED
  BY <1>1, <1>3, <1>4 DEF SlotInv

LEMMA SearchStepInv ==
  ASSUME RelocInv, Search
  PROVE  RelocInv'
<1>1. /\ pc \in {"search", "retry"} /\ ScanEntry /\ UNCHANGED localVars
      /\ req' = req
  BY DEF Search, ScanEntry, PassEntry, TakeEntry
<1>2. UNCHANGED <<mods, mem, minfo, size, block_len, i, pc, loaded, slot>>
  BY <1>1 DEF localVars
<1>3. SearchInv'
  BY <1>1, ScanEntryInv DEF RelocInv
<1>4. TypeOK'
  BY <1>2, <1>3 DEF RelocInv, TypeOK, SearchInv, Modules
<1>5. SlotInv' /\ IndexInv'
  <2>1. SlotInv'
    BY <1>1, <1>2, SlotKept
  <2>2. IndexInv'
    BY <1>2 DEF RelocInv, IndexInv, Modules
  <2>3. QED
    BY <2>1, <2>2
<1>6. BlockInv'
  BY <1>1, <1>2 DEF RelocInv, BlockInv
<1>7. PlaceInv' /\ MemInv'
  BY <1>1, <1>2
  DEF RelocInv, PlaceInv, MemInv, MovedModules, EntryBefore, Modules
<1>8. QED
  BY <1>3, <1>4, <1>5, <1>6, <1>7 DEF RelocInv

LEMMA FoundInv ==
  ASSUME RelocInv, Found
  PROVE  RelocInv'
<1>1. /\ pc = "search" /\ pc' = "check" /\ search = "true"
      /\ block_len' = req.len /\ i' = 1
      /\ UNCHANGED searchVars
      /\ UNCHANGED <<mods, mem, minfo, size, loaded, slot>>
  BY DEF Found
<1>2. Len(loaded) \in Nat \ {0}
  BY LoadFacts DEF RelocInv, TypeOK
<1>3. SearchInv'
  BY <1>1, SearchUnchangedInv DEF RelocInv
<1>4. req.len = size /\ req.limit_to = PhysMax
  BY <1>1 DEF RelocInv, BlockInv
<1>5. TypeOK'
  BY <1>1, <1>2, <1>3, <1>4 DEF RelocInv, TypeOK, SearchInv, Modules
<1>6. SlotInv' /\ IndexInv'
  <2>1. SlotInv'
    BY <1>1, <1>2, SlotKept
  <2>2. IndexInv'
    BY <1>1, <1>2 DEF RelocInv, IndexInv, Modules
  <2>3. QED
    BY <2>1, <2>2
<1>7. BlockInv'
  BY <1>1, <1>4 DEF BlockInv, searchVars
<1>8. PlaceInv' /\ MemInv'
  BY <1>1 DEF RelocInv, PlaceInv, MemInv, MovedModules, EntryBefore, Modules
<1>9. QED
  BY <1>3, <1>5, <1>6, <1>7, <1>8 DEF RelocInv

LEMMA NotFoundInv ==
  ASSUME RelocInv, NotFound
  PROVE  RelocInv'
<1> DEFINE r == [len |-> ExtraSpace, limit_to |-> PhysMax, highest |-> TRUE]
<1>1. /\ pc = "search" /\ pc' = "retry"
      /\ Call(r)
      /\ UNCHANGED <<mods, mem, minfo, size, block_len, i, loaded, slot>>
  BY DEF NotFound
<1>2. SearchInv'
  <2>1. r \in Request
    BY LimitsAssumption DEF Request
  <2>2. QED
    BY <1>1, <2>1, CallInv DEF RelocInv
<1>3. TypeOK'
  BY <1>1, <1>2 DEF RelocInv, TypeOK, SearchInv, Modules
<1>4. SlotInv' /\ IndexInv'
  <2>1. SlotInv'
    BY <1>1, SlotKept
  <2>2. IndexInv'
    BY <1>1 DEF RelocInv, IndexInv, Modules
  <2>3. QED
    BY <2>1, <2>2
<1>5. BlockInv'
  BY <1>1 DEF BlockInv, Call
<1>6. PlaceInv' /\ MemInv'
  BY <1>1 DEF RelocInv, PlaceInv, MemInv, MovedModules, EntryBefore, Modules
<1>7. QED
  BY <1>2, <1>3, <1>4, <1>5, <1>6 DEF RelocInv

(* While the check runs, the modules would be moved to the block itself. *)
LEMMA RelAddrIsBlock ==
  ASSUME RelocInv, pc = "check"
  PROVE  RelAddr = block
BY DEF RelocInv, TypeOK, SearchTypeOK, BlockInv, RelAddr

LEMMA CheckPassesInv ==
  ASSUME RelocInv, CheckPasses
  PROVE  RelocInv'
<1>1. /\ pc = "check" /\ pc' = pc /\ i \in Modules /\ i' = i + 1
      /\ mods[i].mod_end <= RelAddr
      /\ UNCHANGED searchVars
      /\ UNCHANGED <<mods, mem, minfo, size, block_len, loaded, slot>>
  BY DEF CheckPasses
<1>2. Len(loaded) \in Nat /\ i \in 1 .. Len(loaded)
  BY <1>1, LoadFacts DEF RelocInv, TypeOK, Modules
<1>3. loaded[i].mod_end <= block
  <2>1. mods[i] = EntryBefore(i)
    BY <1>1 DEF RelocInv, PlaceInv, MovedModules
  <2>2. QED
    BY <1>1, <2>1, RelAddrIsBlock DEF EntryBefore
<1>4. SearchInv'
  BY <1>1, SearchUnchangedInv DEF RelocInv
<1>5. TypeOK'
  BY <1>1, <1>2, <1>4 DEF RelocInv, TypeOK, SearchInv, Modules
<1>6. SlotInv' /\ IndexInv'
  <2>1. SlotInv'
    BY <1>1, <1>2, SlotKept
  <2>2. IndexInv'
    BY <1>1, <1>2 DEF RelocInv, IndexInv, Modules
  <2>3. QED
    BY <2>1, <2>2
<1>7. BlockInv'
  BY <1>1, <1>2, <1>3 DEF RelocInv, BlockInv, searchVars
<1>8. PlaceInv' /\ MemInv'
  BY <1>1 DEF RelocInv, PlaceInv, MemInv, MovedModules, EntryBefore, Modules
<1>9. QED
  BY <1>4, <1>5, <1>6, <1>7, <1>8 DEF RelocInv

(* The endings that move nothing: only pc, and perhaps block_len, changes. *)
LEMMA UnmovedEndingInv ==
  ASSUME RelocInv, pc \in {"check", "retry"},
         pc' \in {"already", "unmoved", "halted"},
         block_len' \in Nat,
         UNCHANGED searchVars,
         UNCHANGED <<mods, mem, minfo, size, i, loaded, slot>>
  PROVE  RelocInv'
<1>1. SearchInv'
  BY SearchUnchangedInv DEF RelocInv
<1>2. TypeOK'
  BY <1>1 DEF RelocInv, TypeOK, SearchInv, Modules, Endings
<1>3. SlotInv'
  BY SlotKept
<1>4. IndexInv' /\ BlockInv'
  BY DEF RelocInv, IndexInv, BlockInv, Modules
<1>5. PlaceInv' /\ MemInv'
  BY DEF RelocInv, PlaceInv, MemInv, MovedModules, EntryBefore, Modules
<1>6. QED
  BY <1>1, <1>2, <1>3, <1>4, <1>5 DEF RelocInv

LEMMA CheckDoneInv ==
  ASSUME RelocInv, CheckDone
  PROVE  RelocInv'
<1>1. /\ pc = "check" /\ pc' = "copy" /\ i \notin Modules
      /\ i' = Len(loaded)
      /\ UNCHANGED searchVars
      /\ UNCHANGED <<mods, mem, minfo, size, block_len, loaded, slot>>
  BY DEF CheckDone
<1>2. Len(loaded) \in Nat /\ i = Len(loaded) + 1
  BY <1>1, LoadFacts DEF RelocInv, TypeOK, IndexInv, Modules
<1>3. SearchInv'
  BY <1>1, SearchUnchangedInv DEF RelocInv
<1>4. TypeOK'
  BY <1>1, <1>2, <1>3 DEF RelocInv, TypeOK, SearchInv, Modules
<1>5. SlotInv' /\ IndexInv'
  <2>1. SlotInv'
    BY <1>1, <1>2, SlotKept
  <2>2. IndexInv'
    BY <1>1, <1>2 DEF RelocInv, IndexInv, Modules
  <2>3. QED
    BY <2>1, <2>2
<1>6. BlockInv'
  BY <1>1, <1>2 DEF RelocInv, BlockInv, SlotInv, Modules, searchVars
<1>7. MovedModules = {} /\ MovedModules' = {}
  BY <1>1, <1>2 DEF MovedModules, Modules
<1>8. PlaceInv'
  BY <1>1, <1>7 DEF RelocInv, PlaceInv, EntryBefore, Modules
<1>9. MemInv'
  BY <1>1 DEF RelocInv, MemInv
<1>10. QED
  BY <1>3, <1>4, <1>5, <1>6, <1>8, <1>9 DEF RelocInv

(* What the copy of one module does: the numbers first. *)
LEMMA CopyNumbers ==
  ASSUME RelocInv, pc = "copy", i \in Modules
  PROVE  LET n == ModLen(loaded[i])
             l == loaded[i].slen
         IN  /\ mods[i] = EntryBefore(i)
             /\ minfo[i] = [modlen |-> n, slen |-> l]
             /\ n \in Nat /\ l \in Nat \ {0}
             /\ block \in Nat /\ slot[i] \in Nat /\ slot[i + 1] \in Nat
             /\ size \in Nat
             /\ block_len - RoundUp(l + n) = slot[i]
             /\ n + l <= slot[i + 1] - slot[i]
             /\ ExtraSpace <= slot[i]
             /\ slot[i + 1] <= size
             /\ block + size <= PhysMax
             /\ loaded[i].mod_start + n <= block
             /\ block_len = slot[i + 1]
<1> DEFINE n == ModLen(loaded[i])
           l == loaded[i].slen
<1>1. /\ loaded \in Seq(LoadedModule) /\ loaded # <<>>
      /\ slot \in [1 .. Len(loaded) + 1 -> Nat]
      /\ size \in Nat /\ block \in Nat
      /\ Len(loaded) \in Nat /\ i \in 1 .. Len(loaded)
  BY LoadFacts DEF RelocInv, TypeOK, SearchTypeOK, Modules
<1>2. /\ n \in Nat /\ l \in Nat \ {0}
      /\ loaded[i].mod_start \in Nat /\ loaded[i].mod_end \in Nat
      /\ n = loaded[i].mod_end - loaded[i].mod_start
  BY <1>1, LoadFacts DEF ModLen
<1>3. mods[i] = EntryBefore(i)
  BY <1>1 DEF RelocInv, PlaceInv, MovedModules
<1>4. /\ minfo[i] = [modlen |-> n, slen |-> l]
      /\ slot[i + 1] = slot[i] + RoundUp(n + l)
  BY DEF RelocInv, SlotInv, Sized
<1>5. slot[i] \in Nat /\ slot[i + 1] \in Nat /\ slot[1] = ExtraSpace
  BY <1>1 DEF RelocInv, SlotInv
<1>6. slot[1] <= slot[i] /\ slot[i + 1] <= slot[Len(loaded) + 1]
  BY <1>1 DEF RelocInv, SlotInv, Slots
<1>7. size = slot[Len(loaded) + 1]
  BY DEF RelocInv, SlotInv
<1>8. RoundUp(n + l) \in Nat /\ n + l <= RoundUp(n + l) /\ l + n = n + l
  BY <1>1, <1>2, PagesOfModule
<1>9. block_len = slot[i + 1] /\ loaded[i].mod_end <= block
  BY DEF RelocInv, BlockInv
<1>10. block + size <= PhysMax
  <2>1. search = "true" /\ req.len = size /\ req.limit_to = PhysMax
    BY DEF RelocInv, BlockInv
  <2>2. IsFree(block, req.len, req.limit_to)
    BY <2>1, SearchInvIsFree DEF RelocInv, BlockIsFree
  <2>3. QED
    BY <2>1, <2>2 DEF IsFree
<1>11. /\ block_len - RoundUp(l + n) = slot[i]
       /\ n + l <= slot[i + 1] - slot[i]
       /\ loaded[i].mod_start + n <= block
  BY <1>2, <1>4, <1>5, <1>8, <1>9, <1>1, SMTT(40)
<1>12. QED
  BY <1>1, <1>2, <1>3, <1>4, <1>5, <1>6, <1>7, <1>9, <1>10, <1>11

(* Memory after the two copies of one module: t is the target, s and c are *)
(* the sources of the module and of the string, n and l their lengths.     *)
TwoCopies(m, t, s, n, c, l) == MemCpy(MemCpy(m, t, s, n), t + n, c, l)

(* The module arrives, and nothing changes around it and its string. *)
CopiesArrive(m, t, s, n, c, l) ==
  LET after == TwoCopies(m, t, s, n, c, l)
  IN  /\ after \in [Addr -> Addr]
      /\ \A a \in Addr : a \notin t .. t + n + l - 1 => after[a] = m[a]
      /\ \A o \in 0 .. n - 1 : after[t + o] = m[s + o]

LEMMA TwoCopiesEffect ==
  ASSUME NEW m \in [Addr -> Addr], NEW t \in Nat, NEW s \in Nat, NEW n \in Nat,
         NEW c \in Nat, NEW l \in Nat,
         s + n <= t, c + l <= MemTop, t + n + l <= MemTop
  PROVE  CopiesArrive(m, t, s, n, c, l)
<1> DEFINE between == MemCpy(m, t, s, n)
           after == MemCpy(between, t + n, c, l)
<1>1. MemTop \in Nat
  BY LimitsAssumption
<1>2. between \in [Addr -> Addr]
  BY <1>1, MemCpyType
<1> HIDE DEF between
<1>3. after \in [Addr -> Addr]
  BY <1>1, <1>2, MemCpyType
<1>4. ASSUME NEW a \in Addr, a \notin t .. t + n + l - 1
      PROVE  after[a] = m[a]
  <2>1. a \in Nat
    BY DEF Addr
  <2>2. a \notin t .. t + n - 1 /\ a \notin t + n .. (t + n) + l - 1
    BY <1>4, <2>1
  <2>3. between[a] = m[a]
    BY <2>2, MemCpyOutside DEF between
  <2>4. QED
    BY <2>2, <2>3, MemCpyOutside
<1>5. ASSUME NEW o \in 0 .. n - 1
      PROVE  after[t + o] = m[s + o]
  <2>1. /\ t + o \in Addr
        /\ t + o \notin t + n .. (t + n) + l - 1
    BY <1>1 DEF Addr
  <2>2. between[t + o] = m[s + o]
    BY <2>1, MemCpyApart DEF between
  <2>3. QED
    BY <2>1, <2>2, MemCpyOutside
<1>6. QED
  BY <1>3, <1>4, <1>5 DEF between, TwoCopies, CopiesArrive

(* And the variables: memory changes in the slot of the module alone, and  *)
(* the bytes of the module arrive there.                                   *)
LEMMA CopyEffect ==
  ASSUME RelocInv, CopyModule
  PROVE  /\ block_len' = slot[i]
         /\ mods' = [mods EXCEPT ![i] = EntryAfter(i)]
         /\ mem' \in [Addr -> Addr]
         /\ \A a \in Addr :
              a \notin block + slot[i] .. block + slot[i + 1] - 1
                => mem'[a] = mem[a]
         /\ \A o \in 0 .. ModLen(loaded[i]) - 1 :
              mem'[block + slot[i] + o] = loaded[i].mod_start + o
<1> DEFINE n == ModLen(loaded[i])
           l == loaded[i].slen
           start == loaded[i].mod_start
           string == loaded[i].string
           from == slot[i]
           to == slot[i + 1]
<1>1. pc = "copy" /\ i \in Modules
  BY DEF CopyModule
<1>2. /\ loaded \in Seq(LoadedModule) /\ loaded # <<>>
      /\ mem \in [Addr -> Addr] /\ MemTop \in Nat /\ PhysMax <= MemTop
      /\ PhysMax \in Nat
  BY LimitsAssumption DEF RelocInv, TypeOK
<1>3. /\ mods[i] = EntryBefore(i)
      /\ minfo[i] = [modlen |-> n, slen |-> l]
      /\ block_len - RoundUp(l + n) = from
      /\ block_len = to
      /\ n \in Nat /\ l \in Nat
      /\ block \in Nat /\ from \in Nat /\ to \in Nat /\ size \in Nat
      /\ n + l <= to - from
      /\ to <= size
      /\ block + size <= PhysMax
      /\ start + n <= block
  BY <1>1, CopyNumbers
<1>4. start \in Nat /\ string \in Nat /\ string + l <= MemTop
  BY <1>1, <1>2, LoadFacts
<1>5. /\ block_len' = from
      /\ mem' = MemCpy(MemCpy(mem, block + from, start, n),
                       (block + from) + n, string, l)
      /\ mods' = [mods EXCEPT ![i] = EntryAfter(i)]
  <2> DEFINE rest == block_len - RoundUp(minfo[i].slen + minfo[i].modlen)
  <2>1. /\ minfo[i].modlen = n /\ minfo[i].slen = l
        /\ mods[i].mod_start = start /\ mods[i].string = string
    BY <1>3 DEF EntryBefore
  <2>2. rest = from
    BY <1>3, <2>1
  <2>3. /\ block_len' = rest
        /\ mem' = MemCpy(MemCpy(mem, block + rest, mods[i].mod_start,
                                minfo[i].modlen),
                         (block + rest) + minfo[i].modlen, mods[i].string,
                         minfo[i].slen)
        /\ mods' = [mods EXCEPT ![i] =
                      [mod_start |-> block + rest,
                       mod_end |-> (block + rest) + minfo[i].modlen,
                       string |-> (block + rest) + minfo[i].modlen]]
    BY DEF CopyModule
  <2> HIDE DEF rest
  <2>4. QED
    BY <2>1, <2>2, <2>3 DEF EntryAfter
<1>6. \A a \in Addr : a < block + to => mem[a] = a
  BY <1>1, <1>3 DEF RelocInv, MemInv
<1>n. /\ n \in Nat /\ l \in Nat /\ start \in Nat /\ string \in Nat
      /\ block \in Nat /\ from \in Nat /\ to \in Nat /\ size \in Nat
      /\ PhysMax \in Nat /\ MemTop \in Nat
      /\ n + l <= to - from /\ to <= size
      /\ block + size <= PhysMax /\ PhysMax <= MemTop
      /\ start + n <= block /\ string + l <= MemTop
  BY <1>2, <1>3, <1>4
<1> HIDE DEF n, l, start, string, from, to
<1>7. /\ block + from \in Nat /\ block + to \in Nat
      /\ start + n <= block + from
      /\ (block + from) + n + l <= block + to
      /\ block + to <= MemTop
  BY <1>n
<1>8. /\ mem' \in [Addr -> Addr]
      /\ \A a \in Addr :
           a \notin block + from .. block + to - 1 => mem'[a] = mem[a]
      /\ \A o \in 0 .. n - 1 : mem'[(block + from) + o] = mem[start + o]
  <2> DEFINE t == block + from
             after == TwoCopies(mem, t, start, n, string, l)
  <2>1. /\ mem \in [Addr -> Addr]
        /\ t \in Nat /\ start \in Nat /\ n \in Nat
        /\ string \in Nat /\ l \in Nat /\ MemTop \in Nat
        /\ start + n <= t /\ string + l <= MemTop /\ t + n + l <= MemTop
    BY <1>2, <1>n, <1>7
  <2>2. mem' = after
    BY <1>5 DEF TwoCopies
  <2>3. t + n + l <= block + to /\ block + to \in Nat
    BY <1>7
  <2> HIDE DEF t
  <2>4. CopiesArrive(mem, t, start, n, string, l)
    BY <2>1, TwoCopiesEffect
  <2>5. /\ after \in [Addr -> Addr]
        /\ \A a \in Addr : a \notin t .. t + n + l - 1 => after[a] = mem[a]
        /\ \A o \in 0 .. n - 1 : after[t + o] = mem[start + o]
    BY <2>4 DEF CopiesArrive
  <2> HIDE DEF after
  <2>6. ASSUME NEW a \in Addr, a \notin t .. block + to - 1
        PROVE  a \notin t .. t + n + l - 1
    <3>1. a \in Nat
      BY DEF Addr
    <3>2. QED
      BY <1>n, <2>1, <2>3, <2>6, <3>1
  <2>7. QED
    BY <2>2, <2>5, <2>6 DEF t
<1>9. \A o \in 0 .. n - 1 : mem[start + o] = start + o
  <2>1. ASSUME NEW o \in 0 .. n - 1
        PROVE  start + o \in Addr /\ start + o < block + to
    BY <1>n, <1>7 DEF Addr
  <2>2. QED
    BY <1>6, <2>1
<1>10. QED
  BY <1>5, <1>8, <1>9 DEF n, start, from, to

LEMMA CopyModuleInv ==
  ASSUME RelocInv, CopyModule
  PROVE  RelocInv'
<1>1. /\ pc = "copy" /\ pc' = pc /\ i \in Modules /\ i' = i - 1
      /\ UNCHANGED searchVars
      /\ UNCHANGED <<minfo, size, loaded, slot>>
  BY DEF CopyModule
<1>2. /\ loaded \in Seq(LoadedModule) /\ loaded # <<>>
      /\ slot \in [1 .. Len(loaded) + 1 -> Nat]
      /\ Len(loaded) \in Nat /\ i \in 1 .. Len(loaded)
      /\ block \in Nat /\ block' = block
      /\ MemTop \in Nat /\ PhysMax \in Nat /\ PhysMax <= MemTop
  BY <1>1, LoadFacts, LimitsAssumption
  DEF RelocInv, TypeOK, SearchTypeOK, Modules, searchVars
<1>3. /\ block_len' = slot[i]
      /\ mods' = [mods EXCEPT ![i] = EntryAfter(i)]
      /\ mem' \in [Addr -> Addr]
      /\ \A a \in Addr :
           a \notin block + slot[i] .. block + slot[i + 1] - 1
             => mem'[a] = mem[a]
      /\ \A o \in 0 .. ModLen(loaded[i]) - 1 :
           mem'[block + slot[i] + o] = loaded[i].mod_start + o
  BY CopyEffect
<1>4. /\ ModLen(loaded[i]) \in Nat /\ loaded[i].slen \in Nat \ {0}
      /\ slot[i] \in Nat /\ slot[i + 1] \in Nat /\ size \in Nat
      /\ ModLen(loaded[i]) + loaded[i].slen <= slot[i + 1] - slot[i]
      /\ slot[i + 1] <= size
      /\ block + size <= PhysMax
      /\ block_len = slot[i + 1]
  BY <1>1, CopyNumbers
<1>n. /\ ModLen(loaded[i]) \in Nat
      /\ block \in Nat /\ slot[i] \in Nat /\ slot[i + 1] \in Nat /\ size \in Nat
      /\ MemTop \in Nat /\ PhysMax \in Nat /\ PhysMax <= MemTop
      /\ slot[i] + ModLen(loaded[i]) <= slot[i + 1] /\ slot[i] <= slot[i + 1]
      /\ slot[i + 1] <= size /\ block + size <= PhysMax
  BY <1>2, <1>4
<1>5. SearchInv'
  BY <1>1, SearchUnchangedInv DEF RelocInv
<1>6. TypeOK'
  <2>1. SearchTypeOK'
    BY <1>5 DEF SearchInv
  <2>2. EntryAfter(i) \in [mod_start: 0 .. MemTop, mod_end: 0 .. MemTop,
                           string: 0 .. MemTop]
    <3>1. /\ block + slot[i] \in 0 .. MemTop
          /\ block + slot[i] + ModLen(loaded[i]) \in 0 .. MemTop
      BY <1>n
    <3>2. QED
      BY <3>1 DEF EntryAfter
  <2>3. mods' \in [Modules -> [mod_start: 0 .. MemTop, mod_end: 0 .. MemTop,
                               string: 0 .. MemTop]]
    BY <1>3, <2>2 DEF RelocInv, TypeOK
  <2>4. i' \in 0 .. Len(loaded) + 1 /\ block_len' \in Nat
    BY <1>1, <1>2, <1>3, <1>4
  <2>5. QED
    BY <1>1, <1>3, <2>1, <2>3, <2>4 DEF RelocInv, TypeOK, Modules
<1>7. SlotInv'
  BY <1>1 DEF RelocInv, SlotInv, Sized, Slots, Modules
<1>8. IndexInv'
  BY <1>1, <1>2 DEF IndexInv
<1>9. BlockInv'
  <2>1. slot'[i' + 1] = slot[i]
    BY <1>1, <1>2
  <2>2. QED
    BY <1>1, <1>3, <2>1 DEF RelocInv, BlockInv, searchVars, Modules
<1>10. MovedModules' = MovedModules \cup {i} /\ i \notin MovedModules
  BY <1>1, <1>2 DEF MovedModules, Modules
<1>11. \A k \in Modules : EntryAfter(k)' = EntryAfter(k)
                          /\ EntryBefore(k)' = EntryBefore(k)
  BY <1>1, <1>2 DEF EntryAfter, EntryBefore, ModLen
<1>12. PlaceInv'
  <2>1. ASSUME NEW k \in Modules \ MovedModules, k # i
        PROVE  mods'[k] = EntryBefore(k)
    BY <1>3, <2>1 DEF RelocInv, PlaceInv, TypeOK
  <2>2. mods'[i] = EntryAfter(i)
    BY <1>1, <1>3 DEF RelocInv, TypeOK
  <2>3. ASSUME NEW k \in Modules, k = i
        PROVE  SameBytes(block + slot[k], loaded[k].mod_start,
                         ModLen(loaded[k]))'
    <3>1. /\ slot' = slot /\ loaded' = loaded /\ block' = block
          /\ ModLen(loaded[k])' = ModLen(loaded[k])
      BY <1>1, <1>2 DEF ModLen
    <3>2. QED
      BY <1>3, <2>3, <3>1 DEF SameBytes
  <2>4. ASSUME NEW k \in MovedModules
        PROVE  /\ mods'[k] = EntryAfter(k)
               /\ SameBytes(block + slot[k], loaded[k].mod_start,
                            ModLen(loaded[k]))'
    <3>1. k \in 1 .. Len(loaded) /\ k > i
      BY <1>1 DEF MovedModules, Modules
    <3>2. mods'[k] = EntryAfter(k)
      BY <1>2, <1>3, <2>4, <3>1 DEF RelocInv, PlaceInv, TypeOK, Modules
    <3>3. slot[i + 1] <= slot[k] /\ slot[k] \in Nat
      BY <1>1, <1>2, <3>1 DEF RelocInv, SlotInv, Slots
    <3>4. /\ ModLen(loaded[k]) \in Nat /\ loaded[k].slen \in Nat \ {0}
          /\ slot[k + 1] \in Nat
          /\ slot[k] + ModLen(loaded[k]) <= slot[k + 1] /\ slot[k + 1] <= size
      <4>1. slot[k + 1] = slot[k] + RoundUp(ModLen(loaded[k]) + loaded[k].slen)
        BY <1>1, <3>1 DEF RelocInv, SlotInv, Sized, Modules
      <4>2. k \in Modules
        BY <3>1 DEF Modules
      <4>3. /\ ModLen(loaded[k]) \in Nat /\ loaded[k].slen \in Nat \ {0}
            /\ RoundUp(ModLen(loaded[k]) + loaded[k].slen) \in Nat
            /\ ModLen(loaded[k]) + loaded[k].slen
                 <= RoundUp(ModLen(loaded[k]) + loaded[k].slen)
        BY <1>2, <4>2, LoadFacts, PagesOfModule
      <4>4. slot[k + 1] <= slot[Len(loaded) + 1] /\ size = slot[Len(loaded) + 1]
        BY <1>1, <1>2, <3>1 DEF RelocInv, SlotInv, Slots
      <4>5. QED
        BY <1>2, <3>3, <4>1, <4>3, <4>4, SMTT(40)
    <3>5. ASSUME NEW o \in 0 .. ModLen(loaded[k]) - 1
          PROVE  mem'[block + slot[k] + o] = loaded[k].mod_start + o
      <4>1. /\ block + slot[k] + o \in Addr
            /\ block + slot[k] + o
                 \notin block + slot[i] .. block + slot[i + 1] - 1
        BY <1>n, <3>3, <3>4 DEF Addr
      <4>2. mem[block + slot[k] + o] = loaded[k].mod_start + o
        BY <2>4 DEF RelocInv, PlaceInv, SameBytes
      <4>3. QED
        BY <1>3, <4>1, <4>2
    <3>6. QED
      BY <1>1, <1>2, <3>2, <3>5 DEF SameBytes, ModLen
  <2>5. Modules' = Modules
    BY <1>1 DEF Modules
  <2>6. QED
    BY <1>10, <1>11, <2>1, <2>2, <2>3, <2>4, <2>5 DEF PlaceInv, MovedModules
<1>13. MemInv'
  <2>1. ASSUME NEW a \in Addr, a < block + slot[i]
        PROVE  mem'[a] = a
    <3>1. a \in Nat
      BY DEF Addr
    <3>2. a < block + block_len
          /\ a \notin block + slot[i] .. block + slot[i + 1] - 1
      BY <1>2, <1>4, <2>1, <3>1, SMTT(40)
    <3>3. QED
      BY <1>1, <1>3, <3>2 DEF RelocInv, MemInv
  <2>2. QED
    BY <1>1, <1>2, <1>3, <2>1 DEF MemInv
<1>14. QED
  BY <1>5, <1>6, <1>7, <1>8, <1>9, <1>12, <1>13 DEF RelocInv

(* The assertion at the end of the function holds: slot[1] is ExtraSpace. *)
LEMMA CopyDoneInv ==
  ASSUME RelocInv, CopyDone
  PROVE  RelocInv' /\ pc' = "moved"
<1>1. /\ pc = "copy" /\ i \notin Modules
      /\ pc' = IF block_len >= ExtraSpace THEN "moved" ELSE "halted"
      /\ UNCHANGED searchVars
      /\ UNCHANGED <<mods, mem, minfo, size, block_len, i, loaded, slot>>
  BY DEF CopyDone
<1>2. Len(loaded) \in Nat \ {0} /\ i = 0
  BY <1>1, LoadFacts DEF RelocInv, TypeOK, IndexInv, Modules
<1>3. pc' = "moved"
  <2>1. block_len = ExtraSpace
    BY <1>1, <1>2 DEF RelocInv, BlockInv, SlotInv
  <2>2. QED
    BY <1>1, <2>1, LimitsAssumption
<1>4. SearchInv'
  BY <1>1, SearchUnchangedInv DEF RelocInv
<1>5. TypeOK'
  BY <1>1, <1>3, <1>4 DEF RelocInv, TypeOK, SearchInv, Modules, Endings
<1>6. SlotInv' /\ IndexInv'
  <2>1. SlotInv'
    BY <1>1, <1>3, SlotKept
  <2>2. IndexInv'
    BY <1>1, <1>3 DEF RelocInv, IndexInv, Modules
  <2>3. QED
    BY <2>1, <2>2
<1>7. BlockInv'
  BY <1>1, <1>3 DEF RelocInv, BlockInv, searchVars, Modules
<1>8. MovedModules = Modules /\ MovedModules' = Modules
  BY <1>1, <1>2, <1>3 DEF MovedModules, Modules
<1>9. PlaceInv'
  BY <1>1, <1>8
  DEF RelocInv, PlaceInv, EntryBefore, EntryAfter, SameBytes, ModLen,
      Modules, searchVars
<1>10. MemInv'
  BY <1>3 DEF MemInv
<1>11. QED
  BY <1>3, <1>4, <1>5, <1>6, <1>7, <1>9, <1>10 DEF RelocInv

-----------------------------------------------------------------------------
(* The theorems.                                                           *)

LEMMA StepInv ==
  ASSUME RelocInv, [Next]_vars
  PROVE  RelocInv'
<1>1. CASE SizeModule
  BY <1>1, SizeModuleInv
<1>2. CASE SearchForAll
  BY <1>2, SearchForAllInv
<1>3. CASE Search
  BY <1>3, SearchStepInv
<1>4. CASE Found
  BY <1>4, FoundInv
<1>5. CASE NotFound
  BY <1>5, NotFoundInv
<1>6. CASE CheckPasses
  BY <1>6, CheckPassesInv
<1>7. CASE CheckSeemsRelocated \/ CheckMightOverlap \/ RetryNotFound
  <2>1. block_len \in Nat
    BY DEF RelocInv, TypeOK
  <2>2. QED
    BY <1>7, <2>1, UnmovedEndingInv
    DEF CheckSeemsRelocated, CheckMightOverlap, RetryNotFound
<1>8. CASE CheckDone
  BY <1>8, CheckDoneInv
<1>9. CASE CopyModule
  BY <1>9, CopyModuleInv
<1>10. CASE CopyDone
  BY <1>10, CopyDoneInv
<1>11. CASE RetryFound
  <2>1. req.len \in Nat
    BY DEF RelocInv, TypeOK, SearchTypeOK, Request
  <2>2. QED
    BY <1>11, <2>1, UnmovedEndingInv DEF RetryFound
<1>12. CASE UNCHANGED vars
  <2>1. UNCHANGED searchVars /\ UNCHANGED localVars
    BY <1>12 DEF vars
  <2>2. UNCHANGED <<mods, mem, minfo, size, block_len, i, pc, loaded, slot>>
    BY <2>1 DEF localVars
  <2>3. SearchInv'
    BY <2>1, SearchUnchangedInv DEF RelocInv
  <2>4. TypeOK'
    BY <2>2, <2>3 DEF RelocInv, TypeOK, SearchInv, Modules
  <2>5. SlotInv' /\ IndexInv' /\ BlockInv'
    BY <2>1, <2>2
    DEF RelocInv, SlotInv, IndexInv, BlockInv, Sized, Slots, Modules, searchVars
  <2>6. PlaceInv' /\ MemInv'
    BY <2>1, <2>2
    DEF RelocInv, PlaceInv, MemInv, MovedModules, EntryBefore, EntryAfter,
        SameBytes, ModLen, Modules, searchVars
  <2>7. QED
    BY <2>3, <2>4, <2>5, <2>6 DEF RelocInv
<1>13. QED
  BY <1>1, <1>2, <1>3, <1>4, <1>5, <1>6, <1>7, <1>8, <1>9, <1>10, <1>11, <1>12
  DEF Next, Step, Ended

(* RelocInv holds throughout.                                              *)
THEOREM RelocInvariant == Spec => []RelocInv
BY InitInv, StepInv, PTL DEF Spec

(* Type correctness: no descriptor ever points outside of memory, and no   *)
(* unsigned length of mbi_relocate_modules becomes negative.               *)
THEOREM TypeCorrect == Spec => []TypeOK
<1>1. RelocInv => TypeOK
  BY DEF RelocInv
<1>2. QED
  BY <1>1, RelocInvariant, PTL

LEMMA RelocInvIntact == RelocInv => ModulesIntact
<1> SUFFICES ASSUME RelocInv, NEW k \in Modules
             PROVE  /\ ModLen(mods[k]) = ModLen(loaded[k])
                    /\ SameBytes(mods[k].mod_start, loaded[k].mod_start,
                                 ModLen(loaded[k]))
  BY DEF ModulesIntact
<1>1. /\ loaded \in Seq(LoadedModule) /\ loaded # <<>>
      /\ block \in Nat /\ block_len \in Nat /\ MemTop \in Nat
      /\ slot \in [1 .. Len(loaded) + 1 -> Nat]
      /\ Len(loaded) \in Nat /\ k \in 1 .. Len(loaded)
  BY LoadFacts, LimitsAssumption
  DEF RelocInv, TypeOK, SearchTypeOK, Modules
<1>2. /\ loaded[k].mod_start \in Nat /\ loaded[k].mod_end \in Nat
      /\ loaded[k].mod_end <= MemTop
      /\ ModLen(loaded[k]) = loaded[k].mod_end - loaded[k].mod_start
      /\ ModLen(loaded[k]) \in Nat
  BY <1>1, LoadFacts DEF ModLen
<1>3. CASE k \in MovedModules
  <2>1. /\ mods[k] = EntryAfter(k)
        /\ SameBytes(block + slot[k], loaded[k].mod_start, ModLen(loaded[k]))
    BY <1>3 DEF RelocInv, PlaceInv
  <2>2. slot[k] \in Nat
    BY <1>1
  <2>3. ModLen(EntryAfter(k)) = ModLen(loaded[k])
    <3>1. ModLen(EntryAfter(k))
            = (block + slot[k] + ModLen(loaded[k])) - (block + slot[k])
      BY DEF ModLen, EntryAfter
    <3>2. QED
      BY <1>1, <1>2, <2>2, <3>1
  <2>4. QED
    BY <2>1, <2>3 DEF EntryAfter
<1>4. CASE k \notin MovedModules
  <2>1. mods[k] = EntryBefore(k) /\ pc # "moved"
    BY <1>4 DEF RelocInv, PlaceInv, MovedModules
  <2>2. ASSUME NEW o \in 0 .. ModLen(loaded[k]) - 1
        PROVE  mem[loaded[k].mod_start + o] = loaded[k].mod_start + o
    <3>1. /\ loaded[k].mod_start + o \in Addr
          /\ loaded[k].mod_start + o < loaded[k].mod_end
          /\ loaded[k].mod_start + o \in Nat
      BY <1>1, <1>2 DEF Addr
    <3>2. CASE pc = "copy"
      <4>1. loaded[k].mod_end <= block
        BY <3>2 DEF RelocInv, BlockInv
      <4>2. loaded[k].mod_start + o < block + block_len
        BY <1>1, <1>2, <3>1, <4>1
      <4>3. QED
        BY <3>1, <3>2, <4>2 DEF RelocInv, MemInv
    <3>3. CASE pc # "copy"
      BY <2>1, <3>1, <3>3 DEF RelocInv, MemInv
    <3>4. QED
      BY <3>2, <3>3
  <2>3. QED
    BY <2>1, <2>2 DEF EntryBefore, SameBytes, ModLen
<1>5. QED
  BY <1>3, <1>4

(* Every module list entry leads to the bytes the boot loader had loaded,  *)
(* at every moment of the relocation.                                      *)
THEOREM ModulesStayIntact == Spec => []ModulesIntact
BY RelocInvariant, RelocInvIntact, PTL

(* The last assertion of mbi_relocate_modules never fails: it halts before *)
(* it has copied anything, or not at all.                                  *)
THEOREM OnlyHaltsBeforeCopying == Spec => []HaltsBeforeCopying
<1>1. RelocInv => HaltsBeforeCopying
  BY DEF RelocInv, HaltsBeforeCopying, IndexInv, MemInv
<1>2. QED
  BY <1>1, RelocInvariant, PTL

(* Memory changes only in the block that was found, behind the extra space.*)
THEOREM WritesOnlyIntoBlock == Spec => WritesStayInBlock
<1> DEFINE InBlock ==
      \A a \in Addr :
        mem'[a] # mem[a] => a \in block + ExtraSpace .. block + size - 1
<1>1. ASSUME RelocInv, [Next]_vars PROVE [InBlock]_vars
  <2>1. CASE CopyModule
    <3>1. pc = "copy" /\ i \in Modules
      BY <2>1 DEF CopyModule
    <3>2. /\ block \in Nat /\ slot[i] \in Nat /\ slot[i + 1] \in Nat
          /\ size \in Nat /\ ExtraSpace <= slot[i] /\ slot[i + 1] <= size
          /\ ExtraSpace \in Nat /\ MemTop \in Nat
      BY <1>1, <3>1, CopyNumbers, LimitsAssumption
    <3>3. \A a \in Addr :
            mem'[a] # mem[a]
              => a \in block + slot[i] .. block + slot[i + 1] - 1
      BY <1>1, <2>1, CopyEffect
    <3>4. \A a \in Addr : a \in block + slot[i] .. block + slot[i + 1] - 1
                          => a \in block + ExtraSpace .. block + size - 1
      BY <3>2 DEF Addr
    <3>5. QED
      BY <3>3, <3>4
  <2>2. CASE ~CopyModule
    <3>1. mem' = mem
      BY <1>1, <2>2
      DEF Next, Step, Ended, vars, localVars, SizeModule, SearchForAll, Search,
          Found, NotFound, CheckPasses, CheckSeemsRelocated, CheckMightOverlap,
          CheckDone, CopyDone, RetryFound, RetryNotFound
    <3>2. QED
      BY <3>1
  <2>3. QED
    BY <2>1, <2>2
<1>2. QED
  BY <1>1, RelocInvariant, PTL DEF Spec, WritesStayInBlock

-----------------------------------------------------------------------------
(* The strings, and where everything ends up.                              *)

(* Where a module goes, its string behind it. *)
LEMMA SlotRange ==
  ASSUME RelocInv, pc \in {"check", "copy", "moved"}, NEW k \in Modules
  PROVE  /\ ModLen(loaded[k]) \in Nat /\ loaded[k].slen \in Nat \ {0}
         /\ block \in Nat /\ size \in Nat
         /\ slot[k] \in Nat /\ slot[k + 1] \in Nat
         /\ slot[k + 1] = slot[k] + RoundUp(ModLen(loaded[k]) + loaded[k].slen)
         /\ slot[k] + ModLen(loaded[k]) + loaded[k].slen <= slot[k + 1]
         /\ ExtraSpace <= slot[k] /\ slot[k + 1] <= size
         /\ PageAligned(slot[k])
         /\ \A j \in Modules : j < k => slot[j + 1] <= slot[k]
<1>1. /\ loaded \in Seq(LoadedModule) /\ loaded # <<>>
      /\ slot \in [1 .. Len(loaded) + 1 -> Nat]
      /\ size \in Nat /\ block \in Nat
      /\ Len(loaded) \in Nat /\ k \in 1 .. Len(loaded)
  BY LoadFacts DEF RelocInv, TypeOK, SearchTypeOK, Modules
<1>2. ModLen(loaded[k]) \in Nat /\ loaded[k].slen \in Nat \ {0}
  BY <1>1, LoadFacts
<1>3. slot[k + 1] = slot[k] + RoundUp(ModLen(loaded[k]) + loaded[k].slen)
  BY DEF RelocInv, SlotInv, Sized
<1>4. slot[k] \in Nat /\ slot[k + 1] \in Nat /\ slot[1] = ExtraSpace
  BY <1>1 DEF RelocInv, SlotInv
<1>5. /\ slot[1] <= slot[k] /\ slot[k + 1] <= slot[Len(loaded) + 1]
      /\ PageAligned(slot[k])
      /\ \A j \in Modules : j < k => slot[j + 1] <= slot[k]
  BY <1>1 DEF RelocInv, SlotInv, Slots, Modules
<1>6. size = slot[Len(loaded) + 1]
  BY DEF RelocInv, SlotInv
<1>7. /\ RoundUp(ModLen(loaded[k]) + loaded[k].slen) \in Nat
      /\ ModLen(loaded[k]) + loaded[k].slen <= RoundUp(ModLen(loaded[k]) + loaded[k].slen)
  BY <1>1, PagesOfModule
<1>8. slot[k] + ModLen(loaded[k]) + loaded[k].slen <= slot[k + 1]
  BY <1>2, <1>3, <1>4, <1>7
<1>9. QED
  BY <1>1, <1>2, <1>3, <1>4, <1>5, <1>6, <1>8

(* The block the modules go to is free memory, from a page's start on. *)
LEMMA BlockFound ==
  ASSUME RelocInv, pc \in {"check", "copy", "moved"}
  PROVE  IsFree(block, size, PhysMax) /\ PageAligned(block)
<1>1. search = "true" /\ req.len = size /\ req.limit_to = PhysMax
  BY DEF RelocInv, BlockInv
<1>2. IsFree(block, size, PhysMax)
  BY <1>1, SearchInvIsFree DEF RelocInv, BlockIsFree
<1>3. PageAligned(size)
  <2>1. Len(loaded) \in Nat /\ size = slot[Len(loaded) + 1]
    BY LoadFacts DEF RelocInv, SlotInv, TypeOK
  <2>2. QED
    BY <2>1 DEF RelocInv, SlotInv, Slots
<1>4. PageAligned(block)
  BY <1>1, <1>3, SearchInvIsPageAligned, LimitsAssumption DEF RelocInv, WholePages
<1>5. QED
  BY <1>2, <1>4

LEMMA MovedEntry ==
  ASSUME NEW k, mods[k] = EntryAfter(k)
  PROVE  /\ mods[k].mod_start = block + slot[k]
         /\ mods[k].mod_end = block + slot[k] + ModLen(loaded[k])
         /\ mods[k].string = block + slot[k] + ModLen(loaded[k])
BY DEF EntryAfter

LEMMA RelocInvLayout == RelocInv => MovedLayout
<1> SUFFICES ASSUME RelocInv, pc = "moved" PROVE MovedLayout
  BY DEF MovedLayout
<1>1. IsFree(block, size, PhysMax) /\ PageAligned(block) /\ block \in Nat
  BY BlockFound DEF RelocInv, TypeOK, SearchTypeOK
<1>2. ASSUME NEW k \in Modules
      PROVE  /\ mods[k].mod_start = block + slot[k]
             /\ mods[k].mod_end = block + slot[k] + ModLen(loaded[k])
             /\ mods[k].string = block + slot[k] + ModLen(loaded[k])
  BY MovedEntry DEF RelocInv, PlaceInv, MovedModules
<1>3. ASSUME NEW k \in Modules
      PROVE  /\ PageAligned(mods[k].mod_start)
             /\ Extent(k) \subseteq block + ExtraSpace .. block + size - 1
  <2>1. PICK n \in Nat, l \in Nat, s \in Nat, e \in Nat :
          n = ModLen(loaded[k]) /\ l = loaded[k].slen /\ s = slot[k] /\ e = slot[k + 1]
    BY SlotRange
  <2>2. s + n + l <= e /\ e <= size /\ ExtraSpace <= s /\ size \in Nat /\ PageAligned(s)
    BY <2>1, SlotRange
  <2>3. /\ mods[k].mod_start = block + s /\ mods[k].mod_end = block + s + n
        /\ mods[k].string = block + s + n
    BY <1>2, <2>1
  <2>4. PageAligned(block + s)
    BY <1>1, <2>2, AlignedSum
  <2>5. ExtraSpace \in Nat
    BY LimitsAssumption
  <2>6. ASSUME NEW a \in Extent(k) PROVE a \in block + ExtraSpace .. block + size - 1
    <3>1. a \in mods[k].mod_start .. mods[k].mod_end - 1
            \/ a \in mods[k].string .. mods[k].string + loaded[k].slen - 1
      BY <2>6 DEF Extent
    <3>2. a \in block + s .. block + s + n - 1 \/ a \in block + s + n .. block + s + n + l - 1
      <4>1. PICK x \in Nat, y \in Nat :
              /\ x = mods[k].mod_start /\ x = block + s
              /\ y = mods[k].string /\ y = mods[k].mod_end /\ y = block + s + n
        BY <1>1, <2>3
      <4>2. a \in x .. y - 1 \/ a \in y .. y + l - 1
        BY <2>1, <3>1, <4>1
      <4>3. QED
        BY <4>1, <4>2
    <3>3. QED
      BY <1>1, <2>2, <2>5, <3>2
  <2>7. QED
    BY <2>3, <2>4, <2>6
<1>4. ASSUME NEW j \in Modules, NEW k \in Modules, j < k
      PROVE  RoundUp(mods[j].string + loaded[j].slen) <= mods[k].mod_start
  <2>1. PICK n \in Nat, l \in Nat, s \in Nat :
          n = ModLen(loaded[j]) /\ l = loaded[j].slen /\ s = slot[j]
    BY SlotRange
  <2>2. PICK e \in Nat, f \in Nat :
          e = slot[j + 1] /\ f = slot[k] /\ e = s + RoundUp(n + l) /\ e <= f /\ PageAligned(s)
    BY <1>4, <2>1, SlotRange
  <2>3. mods[j].string = block + s + n /\ mods[k].mod_start = block + f
    BY <1>2, <2>1, <2>2
  <2>4. PICK b \in Nat : b = block + s /\ PageAligned(b)
    BY <1>1, <2>2, AlignedSum
  <2>5. RoundUp(b + (n + l)) = b + RoundUp(n + l) /\ RoundUp(n + l) \in Int
    <3>1. PICK x \in Nat : x = n + l
      OBVIOUS
    <3>2. RoundUp(b + x) = b + RoundUp(x) /\ RoundUp(x) \in Int
      <4>1. RoundUp(x) \in Int
        BY RoundUpBounds
      <4>2. b \in Int /\ x \in Int
        OBVIOUS
      <4>3. QED
        BY <2>4, <4>1, <4>2, RoundUpShift
    <3>3. QED
      BY <3>1, <3>2
  <2>6. mods[j].string + loaded[j].slen = b + (n + l)
    BY <1>1, <2>1, <2>3, <2>4
  <2>7. b + RoundUp(n + l) <= block + f
    BY <1>1, <2>2, <2>4, <2>5
  <2>8. QED
    BY <2>3, <2>5, <2>6, <2>7
<1>5. QED
  BY <1>1, <1>3, <1>4 DEF MovedLayout

(* After a move the modules and their strings lie in the block that was    *)
(* found, behind the extra space, each on pages of its own, in order.      *)
THEOREM MovedLayoutHolds == Spec => []MovedLayout
BY RelocInvariant, RelocInvLayout, PTL

(* Outside of the block memory is as it was, and the strings that missed   *)
(* it have arrived behind their modules.                                   *)
StringInv ==
  /\ pc \in {"copy", "moved"} =>
       \A a \in Addr : a \notin block .. block + size - 1 => mem[a] = a
  /\ \A k \in MovedModules :
       StringClear(k) => SameBytes(block + slot[k] + ModLen(loaded[k]),
                                   loaded[k].string, loaded[k].slen)

StringBehind(m, t, s, n, c, l) ==
  \A o \in 0 .. l - 1 : TwoCopies(m, t, s, n, c, l)[t + n + o] = m[c + o]

(* The second of the two copies: a string that is not where the module and *)
(* it will be.                                                             *)
LEMMA StringArrives ==
  ASSUME NEW m \in [Addr -> Addr], NEW t \in Nat, NEW s \in Nat, NEW n \in Nat,
         NEW c \in Nat, NEW l \in Nat,
         c + l <= MemTop, t + n + l <= MemTop,
         c + l <= t \/ t + n + l <= c
  PROVE  StringBehind(m, t, s, n, c, l)
<1> SUFFICES ASSUME NEW o \in 0 .. l - 1
             PROVE  TwoCopies(m, t, s, n, c, l)[t + n + o] = m[c + o]
  BY DEF StringBehind
<1> DEFINE between == MemCpy(m, t, s, n)
<1>1. PICK d \in Nat : d = t + n
  OBVIOUS
<1>2. /\ o \in Nat /\ o < l /\ MemTop \in Nat
      /\ c + o \in Addr /\ d + o \in Addr /\ c + o \notin t .. t + n - 1
  BY <1>1, LimitsAssumption DEF Addr
<1>3. between[c + o] = m[c + o]
  BY <1>2, MemCpyOutside
<1> HIDE DEF between
<1>4. MemCpy(between, d, c, l)[d + o] = between[c + o]
  <2>1. CASE c + l <= t
    <3>1. c + l <= d
      BY <1>1, <2>1
    <3>2. QED
      BY <1>2, <3>1, MemCpyApart
  <2>2. CASE t + n + l <= c
    <3>1. ~(d > c) /\ (d + o) - d = o /\ d + o \in d .. d + l - 1
      BY <1>1, <1>2, <2>2
    <3>2. QED
      BY <1>2, <3>1 DEF MemCpy
  <2>3. QED
    BY <2>1, <2>2
<1>5. QED
  BY <1>1, <1>3, <1>4 DEF TwoCopies, between

(* What CopyModule does to memory, in the terms of the module list. *)
LEMMA CopyIsTwoCopies ==
  ASSUME RelocInv, CopyModule
  PROVE  mem' = TwoCopies(mem, block + slot[i], loaded[i].mod_start, ModLen(loaded[i]),
                          loaded[i].string, loaded[i].slen)
<1>1. pc = "copy" /\ i \in Modules
  BY DEF CopyModule
<1>2. /\ mods[i] = EntryBefore(i)
      /\ minfo[i] = [modlen |-> ModLen(loaded[i]), slen |-> loaded[i].slen]
      /\ block_len - RoundUp(loaded[i].slen + ModLen(loaded[i])) = slot[i]
  BY <1>1, CopyNumbers
<1> DEFINE rest == block_len - RoundUp(minfo[i].slen + minfo[i].modlen)
<1>3. mem' = MemCpy(MemCpy(mem, block + rest, mods[i].mod_start, minfo[i].modlen),
                    (block + rest) + minfo[i].modlen, mods[i].string, minfo[i].slen)
  BY DEF CopyModule
<1>4. /\ minfo[i].modlen = ModLen(loaded[i]) /\ minfo[i].slen = loaded[i].slen
      /\ mods[i].mod_start = loaded[i].mod_start /\ mods[i].string = loaded[i].string
  BY <1>2 DEF EntryBefore
<1>5. rest = slot[i]
  BY <1>2, <1>4
<1> HIDE DEF rest
<1>6. QED
  BY <1>3, <1>4, <1>5 DEF TwoCopies

LEMMA StringInvCopy ==
  ASSUME RelocInv, StringInv, CopyModule
  PROVE  StringInv'
<1>1. /\ pc = "copy" /\ pc' = pc /\ i \in Modules /\ i' = i - 1
      /\ block' = block /\ UNCHANGED <<size, loaded, slot>>
  BY DEF CopyModule, searchVars
<1>2. /\ MemTop \in Nat /\ PhysMax <= MemTop /\ PhysMax \in Nat /\ block + size <= PhysMax
      /\ mem \in [Addr -> Addr] /\ block \in Nat /\ size \in Nat
  BY <1>1, CopyNumbers, LimitsAssumption DEF RelocInv, TypeOK
<1>n. MemTop \in Nat /\ block \in Nat /\ size \in Nat /\ block + size <= MemTop
  BY <1>2
<1>3. \A a \in Addr : a \notin block + slot[i] .. block + slot[i + 1] - 1 => mem'[a] = mem[a]
  BY CopyEffect
<1>4. \A a \in Addr : a \notin block .. block + size - 1 => mem[a] = a
  BY <1>1 DEF StringInv
<1>5. ASSUME NEW a \in Addr, a \notin block .. block + size - 1 PROVE mem'[a] = a
  <2>1. /\ slot[i] \in Nat /\ slot[i + 1] \in Nat /\ slot[i + 1] <= size /\ a \in Nat
    BY <1>1, SlotRange DEF Addr
  <2>2. a \notin block + slot[i] .. block + slot[i + 1] - 1
    BY <1>2, <1>5, <2>1
  <2>3. QED
    BY <1>3, <1>4, <1>5, <2>2
<1>6. MovedModules' = MovedModules \cup {i}
  BY <1>1, LoadFacts DEF MovedModules, Modules, RelocInv, TypeOK
<1>7. ASSUME NEW k \in MovedModules \cup {i}, StringClear(k)
      PROVE  \A o \in 0 .. loaded[k].slen - 1 :
               mem'[block + slot[k] + ModLen(loaded[k]) + o] = loaded[k].string + o
  <2>0. k \in Modules
    BY <1>1 DEF MovedModules
  <2>1. PICK n \in Nat, l \in Nat, s \in Nat, e \in Nat, c \in Nat :
          /\ n = ModLen(loaded[k]) /\ l = loaded[k].slen /\ s = slot[k] /\ e = slot[k + 1]
          /\ c = loaded[k].string /\ c + l <= MemTop /\ s + n + l <= e /\ e <= size
    BY <1>1, <2>0, SlotRange, LoadFacts DEF RelocInv, TypeOK
  <2>2. c + l <= block \/ block + size <= c
    BY <1>7, <2>1 DEF StringClear
  <2>3. CASE k = i
    <3>1. PICK t \in Nat : t = block + s
      BY <1>2
    <3>2. t + n + l <= MemTop /\ (c + l <= t \/ t + n + l <= c)
      BY <1>2, <2>1, <2>2, <3>1
    <3>3. \A o \in 0 .. l - 1 :
            TwoCopies(mem, t, loaded[i].mod_start, n, c, l)[t + n + o] = mem[c + o]
      <4>1. PICK from \in Nat : from = loaded[i].mod_start
        BY <1>1, LoadFacts DEF RelocInv, TypeOK
      <4>2. mem \in [Addr -> Addr] /\ c + l <= MemTop
        BY <1>2, <2>1
      <4>3. StringBehind(mem, t, from, n, c, l)
        BY <3>2, <4>2, StringArrives
      <4>4. QED
        BY <4>1, <4>3 DEF StringBehind
    <3>4. mem' = TwoCopies(mem, t, loaded[i].mod_start, n, c, l)
      BY <2>1, <2>3, <3>1, CopyIsTwoCopies
    <3>5. ASSUME NEW o \in 0 .. l - 1 PROVE mem[c + o] = c + o
      <4>1. c + o \in Addr /\ c + o \notin block .. block + size - 1
        BY <1>n, <2>1, <2>2 DEF Addr
      <4>2. QED
        BY <1>4, <4>1
    <3>6. QED
      BY <2>1, <3>1, <3>3, <3>4, <3>5
  <2>4. CASE k # i
    <3>1. k \in MovedModules /\ i < k
      <4>1. k \in MovedModules
        BY <1>7, <2>4
      <4>2. QED
        BY <1>1, <4>1 DEF MovedModules
    <3>2. PICK f \in Nat : f = slot[i + 1] /\ f <= s
      BY <1>1, <2>0, <2>1, <3>1, SlotRange
    <3>3. \A o \in 0 .. l - 1 : mem[block + s + n + o] = c + o
      BY <1>7, <2>1, <3>1 DEF StringInv, SameBytes
    <3>4. ASSUME NEW o \in 0 .. l - 1 PROVE mem'[block + s + n + o] = mem[block + s + n + o]
      <4>1. PICK a \in Nat : a = block + s + n + o /\ a < block + e /\ block + f <= a
        BY <1>2, <2>1, <3>2
      <4>2. a \in Addr /\ a \notin block + slot[i] .. block + f - 1
        BY <1>n, <2>1, <4>1 DEF Addr
      <4>3. QED
        BY <1>3, <3>2, <4>1, <4>2
    <3>5. QED
      BY <2>1, <3>3, <3>4
  <2>5. QED
    BY <2>3, <2>4
<1>8. ASSUME NEW k \in MovedModules', StringClear(k)'
      PROVE  SameBytes(block + slot[k] + ModLen(loaded[k]), loaded[k].string,
                       loaded[k].slen)'
  <2>1. k \in MovedModules \cup {i} /\ StringClear(k)
    BY <1>1, <1>6, <1>8 DEF StringClear
  <2>2. QED
    BY <1>1, <1>7, <2>1 DEF SameBytes, ModLen
<1>9. QED
  BY <1>1, <1>5, <1>8 DEF StringInv

LEMMA StringInvStep ==
  ASSUME RelocInv, StringInv, [Next]_vars
  PROVE  StringInv'
<1>1. CASE CopyModule
  BY <1>1, StringInvCopy
<1>2. CASE CheckDone
  <2>1. /\ pc = "check" /\ pc' = "copy" /\ i' = Len(loaded) /\ mem' = mem /\ loaded' = loaded
    BY <1>2 DEF CheckDone
  <2>2. Len(loaded) \in Nat
    BY LoadFacts DEF RelocInv, TypeOK
  <2>3. MovedModules' = {}
    BY <2>1, <2>2 DEF MovedModules, Modules
  <2>4. mem = [a \in Addr |-> a]
    BY <2>1 DEF RelocInv, MemInv
  <2>5. QED
    BY <2>1, <2>3, <2>4 DEF StringInv
<1>3. CASE CopyDone
  <2>1. /\ pc = "copy" /\ pc' = "moved" /\ i \notin Modules
        /\ block' = block /\ UNCHANGED <<mem, size, loaded, slot>>
    BY <1>3, CopyDoneInv DEF CopyDone, searchVars
  <2>2. Len(loaded) \in Nat \ {0} /\ i = 0
    BY <2>1, LoadFacts DEF RelocInv, TypeOK, IndexInv, Modules
  <2>3. MovedModules = Modules /\ MovedModules' = Modules
    BY <2>1, <2>2 DEF MovedModules, Modules
  <2>4. QED
    BY <2>1, <2>3 DEF StringInv, StringClear, SameBytes, ModLen
<1>4. CASE UNCHANGED vars
  BY <1>4 DEF vars, localVars, searchVars, StringInv, StringClear, SameBytes, ModLen,
              MovedModules, Modules
<1>5. CASE /\ pc' \notin {"copy", "moved"}
  BY <1>5 DEF StringInv, MovedModules
<1>6. QED
  BY <1>1, <1>2, <1>3, <1>4, <1>5
  DEF Next, Step, Ended, SizeModule, SearchForAll, Search, localVars, Found, NotFound,
      CheckPasses, CheckSeemsRelocated, CheckMightOverlap, RetryFound, RetryNotFound

(* A string that the block has missed is intact until the function ends:   *)
(* at its old place before its module has moved, behind the module after   *)
(* that.  The overlap check has never looked at it.                        *)
THEOREM CmdlinesStayIntact == Spec => []CmdlinesIntact
<1>1. Init => StringInv
  BY DEF Init, StringInv, MovedModules
<1>2. ASSUME RelocInv, StringInv PROVE CmdlinesIntact
  <2> SUFFICES ASSUME pc \in {"check", "copy", "moved"}, NEW k \in Modules, StringClear(k)
               PROVE  SameBytes(mods[k].string, loaded[k].string, loaded[k].slen)
    BY DEF CmdlinesIntact
  <2>1. CASE k \in MovedModules
    <3>1. mods[k].string = block + slot[k] + ModLen(loaded[k])
      BY <1>2, <2>1, MovedEntry DEF RelocInv, PlaceInv
    <3>2. QED
      BY <1>2, <2>1, <3>1 DEF StringInv
  <2>2. CASE k \notin MovedModules
    <3>1. mods[k].string = loaded[k].string /\ pc \in {"check", "copy"}
      <4>1. mods[k] = EntryBefore(k)
        BY <1>2, <2>2 DEF RelocInv, PlaceInv
      <4>2. pc # "moved"
        BY <2>2 DEF MovedModules
      <4>3. QED
        BY <4>1, <4>2 DEF EntryBefore
    <3>2. PICK c \in Nat, l \in Nat :
            c = loaded[k].string /\ l = loaded[k].slen /\ c + l <= MemTop
      BY <1>2, LoadFacts DEF RelocInv, TypeOK
    <3>3. ASSUME NEW o \in 0 .. l - 1 PROVE mem[c + o] = c + o
      <4>1. c + o \in Addr /\ c + o \notin block .. block + size - 1
        <5>1. block \in Nat /\ size \in Nat /\ MemTop \in Nat
          BY <1>2, LimitsAssumption DEF RelocInv, TypeOK, SearchTypeOK
        <5>2. c + l <= block \/ block + size <= c
          BY <3>2 DEF StringClear
        <5>3. QED
          BY <3>2, <5>1, <5>2 DEF Addr
      <4>2. QED
        BY <1>2, <3>1, <4>1 DEF RelocInv, MemInv, StringInv
    <3>4. QED
      BY <3>1, <3>2, <3>3 DEF SameBytes
  <2>3. QED
    BY <2>1, <2>2
<1>3. RelocInv /\ StringInv /\ [Next]_vars => StringInv'
  BY StringInvStep
<1>4. QED
  BY <1>1, <1>2, <1>3, RelocInvariant, PTL DEF Spec

-----------------------------------------------------------------------------
(* mbi_relocate_modules implements ModulePlacement: every copy is a Move,  *)
(* every way the function ends is an End, and all the other steps leave    *)
(* the places, the images and the set of moved modules as they are.        *)

(* The values Relocation substitutes for the variables of ModulePlacement. *)
Placed == [k \in Modules |-> [place |-> mods[k].mod_start,
                              length |-> ModLen(mods[k])]]
Image == [k \in Modules |-> [o \in 0 .. ModLen(mods[k]) - 1 |->
                               mem[mods[k].mod_start + o]]]

(* An image is determined by the module the boot loader had loaded. *)
LoadedImage == [k \in Modules |-> [o \in 0 .. ModLen(loaded[k]) - 1 |->
                                     loaded[k].mod_start + o]]

LEMMA ImageIsLoaded == ModulesIntact => Image = LoadedImage
BY DEF ModulesIntact, SameBytes, Image, LoadedImage

LEMMA PlacementInitHolds == Init => Placement!PlacementInit
<1> SUFFICES ASSUME Init PROVE Placement!PlacementInit
  OBVIOUS
<1>1. RelocInv
  BY InitInv
<1>2. loaded \in Seq(LoadedModule) /\ loaded # <<>>
  BY <1>1 DEF RelocInv, TypeOK
<1>3. /\ Modules = 1 .. Len(loaded) /\ Len(loaded) \in Nat
      /\ \A k \in Modules : /\ mods[k].mod_start \in Nat
                            /\ ModLen(mods[k]) \in Nat
                            /\ mods[k].mod_start = loaded[k].mod_start
                            /\ ModLen(mods[k]) = ModLen(loaded[k])
  BY <1>2, LoadFacts DEF Init, Modules, ModLen
<1>4. Placed \in Seq([place: Nat, length: Nat])
  BY <1>3 DEF Placed
<1>5. Image = [k \in DOMAIN Placed |->
                 [o \in 0 .. Placed[k].length - 1 |-> Placed[k].place + o]]
  <2>1. Image = LoadedImage
    BY <1>1, RelocInvIntact, ImageIsLoaded
  <2>2. QED
    BY <1>3, <2>1 DEF LoadedImage, Placed
<1>6. MovedModules = {} /\ (pc \in Endings) = FALSE
  BY DEF Init, MovedModules, Endings
<1>7. QED
  BY <1>4, <1>5, <1>6
  DEF Placement!PlacementInit, Placement!All, Placed, Image

(* A copy moves its module to a place that no module takes up. *)
LEMMA CopyIsMove ==
  ASSUME RelocInv, CopyModule, Image' = Image,
         NEW k, k = i, NEW p, p = block + slot[i]
  PROVE  Placement!Move(k, p)
<1> DEFINE n == ModLen(loaded[i])
<1>1. /\ pc = "copy" /\ pc' = "copy" /\ i \in Modules /\ i' = i - 1
      /\ loaded' = loaded
  BY DEF CopyModule
<1>2. /\ loaded \in Seq(LoadedModule) /\ loaded # <<>>
      /\ slot \in [1 .. Len(loaded) + 1 -> Nat]
      /\ Len(loaded) \in Nat /\ i \in 1 .. Len(loaded)
  BY <1>1, LoadFacts DEF RelocInv, TypeOK, Modules
<1>3. /\ n \in Nat /\ loaded[i].slen \in Nat \ {0}
      /\ block \in Nat /\ slot[i] \in Nat /\ slot[i + 1] \in Nat
      /\ n + loaded[i].slen <= slot[i + 1] - slot[i]
  BY <1>1, CopyNumbers
<1>4. mods' = [mods EXCEPT ![i] = EntryAfter(i)]
  BY CopyEffect
<1>5. ModLen(mods[i]) = n /\ ModLen(EntryAfter(i)) = n
  <2>1. ModLen(mods[i]) = n
    BY <1>1, RelocInvIntact DEF ModulesIntact
  <2>2. ModLen(EntryAfter(i)) = (block + slot[i] + n) - (block + slot[i])
    BY DEF ModLen, EntryAfter
  <2>3. QED
    BY <1>3, <2>1, <2>2
<1>6. Placed' = [Placed EXCEPT ![i] = [place |-> p, length |-> Placed[i].length]]
  <2>1. Modules' = Modules
    BY <1>1 DEF Modules
  <2>2. mods'[i] = EntryAfter(i)
    BY <1>1, <1>4 DEF RelocInv, TypeOK
  <2>3. \A j \in Modules : j # i => mods'[j] = mods[j]
    BY <1>4 DEF RelocInv, TypeOK
  <2>4. mods'[i].mod_start = p
    BY <2>2 DEF EntryAfter
  <2>5. \A j \in Modules :
          ModLen(mods[j])' = IF j = i THEN n ELSE ModLen(mods[j])
    BY <1>5, <2>2, <2>3 DEF ModLen
  <2>6. QED
    BY <1>1, <1>5, <2>1, <2>3, <2>4, <2>5 DEF Placed
<1>7. i \in Modules \ MovedModules /\ MovedModules' = MovedModules \cup {i}
  BY <1>1, <1>2 DEF MovedModules, Modules
<1>8. ASSUME NEW j \in Modules
      PROVE  (p .. p + n - 1)
               \cap (mods[j].mod_start .. mods[j].mod_start + ModLen(mods[j]) - 1)
               = {}
  <2>1. CASE j \in MovedModules
    <3>1. mods[j].mod_start = block + slot[j]
      <4>1. mods[j] = EntryAfter(j)
        BY <2>1 DEF RelocInv, PlaceInv
      <4>2. QED
        BY <4>1 DEF EntryAfter
    <3>2. j \in 1 .. Len(loaded) /\ j > i
      BY <1>1, <2>1 DEF MovedModules, Modules
    <3>3. slot[i + 1] <= slot[j] /\ slot[j] \in Nat
      BY <1>1, <1>2, <3>2 DEF RelocInv, SlotInv, Slots
    <3>4. p + n <= mods[j].mod_start /\ mods[j].mod_start \in Nat
      BY <1>3, <3>1, <3>3
    <3>5. ModLen(mods[j]) \in Nat
      BY <1>2, LoadFacts, RelocInvIntact DEF ModulesIntact
    <3>6. QED
      BY <1>3, <3>4, <3>5
  <2>2. CASE j \notin MovedModules
    <3>1. mods[j] = EntryBefore(j) /\ loaded[j].mod_end <= block
      BY <1>1, <2>2 DEF RelocInv, PlaceInv, BlockInv
    <3>2. /\ loaded[j].mod_start \in Nat /\ loaded[j].mod_end \in Nat
      BY <1>2, LoadFacts
    <3>3. /\ mods[j].mod_start + ModLen(mods[j]) = loaded[j].mod_end
          /\ mods[j].mod_start \in Nat /\ ModLen(mods[j]) \in Int
      BY <3>1, <3>2 DEF EntryBefore, ModLen
    <3>4. loaded[j].mod_end <= p
      BY <1>3, <3>1, <3>2
    <3>5. QED
      BY <1>3, <3>2, <3>3, <3>4
  <2>3. QED
    BY <2>1, <2>2
<1>9. DOMAIN Placed = Modules /\ \A j \in Modules :
        Placed[j].place = mods[j].mod_start /\ Placed[j].length = ModLen(mods[j])
  BY DEF Placed
<1>10. pc \notin Endings /\ pc' \notin Endings
  BY <1>1 DEF Endings
<1>11. QED
  BY <1>1, <1>5, <1>6, <1>7, <1>8, <1>9, <1>10
  DEF Placement!Move, Placement!All, Placement!Bytes, Placed, Image

(* Every ending has moved all modules, or none. *)
LEMMA EndingIsEnd ==
  ASSUME pc \notin Endings, pc' \in Endings,
         MovedModules' = MovedModules, MovedModules \in {{}, Modules},
         UNCHANGED <<mods, mem, loaded>>
  PROVE  Placement!End
<1>1. Placed' = Placed /\ Image' = Image
  BY DEF Placed, Image, Modules, ModLen
<1>2. DOMAIN Placed = Modules
  BY DEF Placed
<1>3. QED
  BY <1>1, <1>2 DEF Placement!End, Placement!All, Placed, Image

(* The function implements ModulePlacement.                                *)
THEOREM RelocationImplementsPlacement == Spec => ImplementsPlacement
<1>1. ASSUME RelocInv, RelocInv', [Next]_vars
      PROVE  [Placement!PlacementNext]_(Placement!placementVars)
  <2>1. CASE CopyModule
    <3>1. Image = LoadedImage /\ (Image = LoadedImage)'
      <4>1. ModulesIntact /\ ModulesIntact'
        BY <1>1, RelocInvIntact, PTL
      <4>2. QED
        BY <4>1, ImageIsLoaded, PTL
    <3>2. LoadedImage' = LoadedImage
      BY <2>1 DEF CopyModule, LoadedImage, Modules, ModLen
    <3>3. i \in Placement!All
      BY <2>1 DEF CopyModule, Placement!All
    <3>4. block + slot[i] \in Addr
      <4>1. pc = "copy" /\ i \in Modules
        BY <2>1 DEF CopyModule
      <4>2. /\ ModLen(loaded[i]) \in Nat /\ loaded[i].slen \in Nat \ {0}
            /\ block \in Nat /\ slot[i] \in Nat /\ slot[i + 1] \in Nat
            /\ size \in Nat
            /\ ModLen(loaded[i]) + loaded[i].slen <= slot[i + 1] - slot[i]
            /\ slot[i + 1] <= size
            /\ block + size <= PhysMax
            /\ PhysMax \in Nat /\ MemTop \in Nat /\ PhysMax <= MemTop
        BY <1>1, <4>1, CopyNumbers, LimitsAssumption
      <4>3. QED
        BY <4>2 DEF Addr
    <3>5. PICK k \in Placement!All, p \in Addr : k = i /\ p = block + slot[i]
      BY <3>3, <3>4
    <3>6. Placement!Move(k, p)
      BY <1>1, <2>1, <3>1, <3>2, <3>5, CopyIsMove
    <3>7. QED
      BY <3>6 DEF Placement!PlacementNext
  <2>2. CASE CheckSeemsRelocated \/ CheckMightOverlap \/ RetryFound
               \/ RetryNotFound
    <3>1. /\ pc \in {"check", "retry"}
          /\ pc' \in {"already", "unmoved", "halted"}
          /\ UNCHANGED <<mods, mem, i, loaded>>
      BY <2>2
      DEF CheckSeemsRelocated, CheckMightOverlap, RetryFound, RetryNotFound
    <3>2. MovedModules = {} /\ MovedModules' = {}
      BY <3>1 DEF MovedModules
    <3>3. Placement!End
      BY <3>1, <3>2, EndingIsEnd DEF Endings
    <3>4. QED
      BY <3>3 DEF Placement!PlacementNext
  <2>3. CASE CopyDone
    <3>1. /\ pc = "copy" /\ pc' = "moved" /\ i \notin Modules
          /\ UNCHANGED <<mods, mem, i, loaded>>
      BY <1>1, <2>3, CopyDoneInv DEF CopyDone
    <3>2. Len(loaded) \in Nat /\ i = 0
      BY <1>1, <3>1, LoadFacts DEF RelocInv, TypeOK, IndexInv, Modules
    <3>3. MovedModules = Modules /\ MovedModules' = Modules
      BY <3>1, <3>2 DEF MovedModules, Modules
    <3>4. Placement!End
      BY <3>1, <3>3, EndingIsEnd DEF Endings
    <3>5. QED
      BY <3>4 DEF Placement!PlacementNext
  <2>4. CASE SizeModule \/ SearchForAll \/ Search \/ Found \/ NotFound
               \/ CheckPasses \/ CheckDone \/ UNCHANGED vars
    <3>1. UNCHANGED <<mods, mem, loaded>>
      BY <2>4
      DEF SizeModule, SearchForAll, Search, Found, NotFound, CheckPasses,
          CheckDone, vars, localVars
    <3>2. MovedModules' = MovedModules /\ (pc \in Endings)' = (pc \in Endings)
      <4>1. CASE CheckDone
        <5>1. /\ pc = "check" /\ pc' = "copy" /\ i' = Len(loaded)
              /\ loaded' = loaded /\ Len(loaded) \in Nat
          BY <1>1, <4>1, LoadFacts DEF CheckDone, RelocInv, TypeOK
        <5>2. QED
          BY <5>1 DEF MovedModules, Modules, Endings
      <4>2. CASE UNCHANGED <<pc, i>>
        BY <3>1, <4>2 DEF MovedModules, Modules
      <4>3. CASE SizeModule \/ SearchForAll \/ Found \/ NotFound \/ CheckPasses
        BY <4>3
        DEF SizeModule, SearchForAll, Found, NotFound, CheckPasses,
            MovedModules, Endings
      <4>4. QED
        BY <2>4, <4>1, <4>2, <4>3 DEF Search, vars, localVars
    <3>3. Placed' = Placed /\ Image' = Image
      BY <3>1 DEF Placed, Image, Modules, ModLen
    <3>4. QED
      BY <3>2, <3>3 DEF Placement!placementVars, Placed, Image
  <2>5. QED
    BY <1>1, <2>1, <2>2, <2>3, <2>4 DEF Next, Step, Ended
<1>2. QED
  BY <1>1, PlacementInitHolds, RelocInvariant, PTL
  DEF Spec, ImplementsPlacement, Placement!PlacementSpec

=============================================================================
