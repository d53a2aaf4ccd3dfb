------------------------------- MODULE Pages -------------------------------
(***************************************************************************)
(* Page arithmetic of mbi.c.                                               *)
(*                                                                         *)
(* The code rounds with  (x + 0xFFF) & ~0xFFF  and  x & ~0xFFF.  For a     *)
(* power-of-two page these are the two operators below; the page size is a *)
(* parameter, so that TLC can use pages of a few bytes while the theorems  *)
(* hold for pages of any size, 4096 included.                              *)
(***************************************************************************)
EXTENDS Integers

CONSTANT PageSize    (* bytes in a page: 0x1000 in the code *)

ASSUME PageSizeAssumption == PageSize \in Nat \ {0}

(* x & ~0xFFF *)
RoundDown(x) == (x \div PageSize) * PageSize

(* (x + 0xFFF) & ~0xFFF *)
RoundUp(x) == RoundDown(x + PageSize - 1)

(* x is the address of a page, or a whole number of pages. *)
PageAligned(x) == RoundDown(x) = x

=============================================================================
