----------------------------- MODULE MCDivision -----------------------------
(***************************************************************************)
(* Model values for Division: digits of three bits, so that a quad has     *)
(* twelve bits and an estimate can be too large by two; divisors of one to *)
(* four digits, with a second digit that is large or small, and every      *)
(* dividend for them; signed divisions around zero and the ends.           *)
(***************************************************************************)
EXTENDS Division

(* In octal: 0, 1, 7, 13, 47, 70, 77, 100, 101, 377, 477, 770, 1077, 4077, *)
(* 4700, 7777.                                                             *)
Divisors ==
  {0, 1, 7, 11, 39, 56, 63, 64, 65, 255, 319, 504, 575, 2111, 2496, 4095}

Edges == {0, 1, 2, 5, 100, 2047, 2048, 2049, 3000, 4094, 4095}

MCDivisions ==
  [op: {"__qdivrem"}, a: Quads, b: Divisors]
    \cup [op: {"__udivdi3", "__umoddi3", "__divdi3"}, a: Edges, b: Edges]

=============================================================================
