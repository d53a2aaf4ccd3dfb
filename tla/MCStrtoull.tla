----------------------------- MODULE MCStrtoull -----------------------------
(***************************************************************************)
(* Model values for Strtoull: numbers of six bits, strings of up to five   *)
(* characters.                                                             *)
(***************************************************************************)
EXTENDS Strtoull

(* blank, plus, minus, 0, 1, 7, 9, F, x *)
Characters == {32, 43, 45, 48, 49, 55, 57, 70, 120}

MCInputs == UNION { [1 .. k -> Characters] : k \in 0 .. 3 }
              \cup UNION { [1 .. k -> {45, 48, 49, 70, 120}] : k \in 4 .. 5 }

=============================================================================
