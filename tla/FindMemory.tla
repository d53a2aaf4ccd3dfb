----------------------------- MODULE FindMemory -----------------------------
(***************************************************************************)
(* mbi_find_memory (standalone/mbi.c): the search of the Multiboot1 memory *)
(* map for a block of free memory.                                         *)
(*                                                                         *)
(* The caller passes a length, an upper limit for the end of the block and *)
(* a flag that asks for the highest block instead of the first one.  The   *)
(* loop over the map is one action per entry, so that what is true halfway *)
(* through the loop can be stated and proved.                              *)
(*                                                                         *)
(* Abstractions.  The map is a sequence of entries; the code steps from    *)
(* one to the next with the entry's own size field, and reads the first    *)
(* entry before it compares any address with the end of the map, which is  *)
(* why a map has at least one entry.  Addresses are unbounded naturals:    *)
(* base_addr + length stays below 2^64 and everything the function returns *)
(* is below the limit, which every caller keeps at or below 2^31.          *)
(***************************************************************************)
EXTENDS Pages, Sequences

CONSTANTS
  Mmaps,     (* the memory maps a boot loader may hand over           *)
  Requests   (* the calls checked when the search runs on its own:    *)
             (* records [len, limit_to, highest]                      *)

(* enum memory_map_type *)
MMAP_AVAILABLE == 1

MemoryMapEntry == [base_addr: Nat, length: Nat, type: Nat]

Request == [len: Nat \ {0}, limit_to: Nat, highest: BOOLEAN]

ASSUME MmapsAssumption == Mmaps \subseteq Seq(MemoryMapEntry) \ {<<>>}

ASSUME RequestsAssumption == Requests \subseteq Request

VARIABLES
  mmap,      (* the memory map; never written                         *)
  req,       (* the arguments of the call                             *)
  search,    (* "idle", "running", or the value returned              *)
  cursor,    (* index of the entry the loop is about to look at       *)
  found,     (* the local variable of the same name                   *)
  block      (* *block_start_out; *block_len_out is always req.len    *)

searchVars == <<mmap, req, search, cursor, found, block>>

-----------------------------------------------------------------------------
(* One entry of the map as the loop body computes with it.                 *)

(* nblock_addr: the first page boundary in or after the entry. *)
BlockAddr(e) == RoundUp(e.base_addr)

(* The entry contains a page boundary (otherwise the loop continues). *)
HasPageBoundary(e) == BlockAddr(e) <= e.base_addr + e.length

(* block_len after it has been reduced to whole pages. *)
BlockLen(e) == RoundDown(e.length - (BlockAddr(e) - e.base_addr))

(* Mutant: wants more than the requested length. *)
MutSuitsLonger(e) ==
  /\ HasPageBoundary(e)
  /\ e.type = MMAP_AVAILABLE
  /\ BlockLen(e) > req.len
  /\ BlockAddr(e) <= req.limit_to - req.len

(* The type, size and limit conditions of the loop body. *)
Suits(e) ==
  /\ HasPageBoundary(e)
  /\ e.type = MMAP_AVAILABLE
  /\ BlockLen(e) >= req.len
  /\ BlockAddr(e) <= req.limit_to - req.len

(* Mutant: forgets the limit. *)
MutTopAddrUnlimited(e) == BlockAddr(e) + BlockLen(e)

(* top_addr: where a block taken from the entry ends. *)
TopAddr(e) ==
  IF BlockAddr(e) + BlockLen(e) > req.limit_to
    THEN req.limit_to
    ELSE BlockAddr(e) + BlockLen(e)

(* Mutant: the first block wins. *)
MutOutrankedByAny(e) == found

(* A block that was found earlier already starts above this entry. *)
Outranked(e) == found /\ block > BlockAddr(e)

-----------------------------------------------------------------------------
SearchInit ==
  /\ mmap \in Mmaps
  /\ req = [len |-> 1, limit_to |-> 0, highest |-> TRUE]
  /\ search = "idle"
  /\ cursor = 1
  /\ found = FALSE
  /\ block = 0

(* Entry of the function, with the check for a limit below the length. *)
Call(r) ==
  /\ req' = r
  /\ search' = IF r.limit_to <= r.len THEN "false" ELSE "running"
  /\ cursor' = 1
  /\ found' = FALSE
  /\ UNCHANGED <<mmap, block>>

(* mbi_memory_map_next: the loop goes on, or the function returns found. *)
NextEntry ==
  /\ cursor' = cursor + 1
  /\ search' = IF cursor < Len(mmap) THEN "running"
               ELSE IF found' THEN "true" ELSE "false"

(* The loop body for an entry it passes over. *)
PassEntry ==
  /\ search = "running"
  /\ ~Suits(mmap[cursor]) \/ Outranked(mmap[cursor])
  /\ UNCHANGED <<mmap, req, found, block>>
  /\ NextEntry

(* The loop body for an entry it takes the block from. *)
TakeEntry ==
  /\ search = "running"
  /\ Suits(mmap[cursor])
  /\ ~Outranked(mmap[cursor])
  /\ found' = TRUE
  /\ block' = TopAddr(mmap[cursor]) - req.len
  /\ UNCHANGED <<mmap, req>>
  /\ IF req.highest
       THEN NextEntry
       ELSE search' = "true" /\ UNCHANGED cursor

ScanEntry == PassEntry \/ TakeEntry

(***************************************************************************)
(* The search on its own: any sequence of calls with the given arguments.  *)
(* A call that was made runs to its end, as the CPU goes on executing it.  *)
(***************************************************************************)
SearchNext ==
  \/ \E r \in Requests : search # "running" /\ Call(r)
  \/ ScanEntry

SearchSpec ==
  SearchInit /\ [][SearchNext]_searchVars /\ WF_searchVars(ScanEntry)

-----------------------------------------------------------------------------
(* Properties.                                                             *)

(* Every variable of the search has its type, and the loop index stays on  *)
(* the map while the loop runs.                                            *)
SearchTypeOK ==
  /\ mmap \in Seq(MemoryMapEntry) /\ mmap # <<>>
  /\ req \in Request
  /\ search \in {"idle", "running", "true", "false"}
  /\ cursor \in 1 .. Len(mmap) + 1
  /\ search = "running" => cursor <= Len(mmap)
  /\ found \in BOOLEAN
  /\ block \in Nat

(* The n bytes from b on lie inside one available entry and end at or      *)
(* below the limit: what "a block of free memory" means.  Stated on the    *)
(* entries as the boot loader wrote them, without the rounding of the code.*)
IsFree(b, n, limit) ==
  /\ b + n <= limit
  /\ \E k \in 1 .. Len(mmap) :
       /\ mmap[k].type = MMAP_AVAILABLE
       /\ mmap[k].base_addr <= b
       /\ b + n <= mmap[k].base_addr + mmap[k].length

(* No two entries of the map share an address. *)
EntriesDisjoint ==
  \A j, k \in 1 .. Len(mmap) :
    j # k =>
      \/ mmap[j].base_addr + mmap[j].length <= mmap[k].base_addr
      \/ mmap[k].base_addr + mmap[k].length <= mmap[j].base_addr

(* The caller asks for whole pages below a page boundary, as both callers  *)
(* in mbi_relocate_modules do.                                             *)
WholePages == PageAligned(req.len) /\ PageAligned(req.limit_to)

(* A successful search returns memory the map really describes as free,    *)
(* inside one entry and below the limit, whatever the order, overlap and   *)
(* alignment of the entries (mbi.c:25-48).  With page-sized arguments it   *)
(* starts on a page, also when the limit cuts the entry (mbi.c:7, "page    *)
(* aligned").                                                              *)
BlockIsFree ==
  search = "true" =>
    /\ IsFree(block, req.len, req.limit_to)
    /\ WholePages => PageAligned(block)

(* When the entries do not overlap, no free page-aligned block of this     *)
(* length starts above the returned one: "the highest available location"  *)
(* of mbi.c:59.                                                            *)
HighestBlock ==
  search = "true" /\ req.highest /\ WholePages /\ EntriesDisjoint
    => \A b \in block + 1 .. req.limit_to :
         PageAligned(b) => ~IsFree(b, req.len, req.limit_to)

(* The search fails only when no free page-aligned block of this length    *)
(* exists below the limit, or when the limit is not above the length       *)
(* (mbi.c:16).                                                             *)
MissMeansNoBlock ==
  search = "false" /\ req.limit_to > req.len /\ WholePages
    => \A b \in 0 .. req.limit_to :
         PageAligned(b) => ~IsFree(b, req.len, req.limit_to)

=============================================================================
