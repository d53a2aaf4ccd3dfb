------------------------------ MODULE Strtoull ------------------------------
(***************************************************************************)
(* strtoull.c: a string to a number that may not fit.                      *)
(*                                                                         *)
(* Characters are their ASCII codes; the string has no NUL of its own, and *)
(* reading behind it gives NUL once.  The code reads a character further   *)
(* than it takes; s is the index of the next one it would read.            *)
(***************************************************************************)
EXTENDS Integers, Sequences, FiniteSetsExt

CONSTANTS
  ULLONG_MAX,   (* 2^64 - 1                                                *)
  Inputs,       (* the strings                                             *)
  Bases         (* the bases asked for                                     *)

ASSUME StrtoullAssumption ==
  /\ ULLONG_MAX \in Nat \ {0}
  /\ \A str \in Inputs : str \in Seq(1 .. 255)
  /\ Bases \subseteq Nat

VARIABLES
  str_pc, nptr, base,   (* the arguments; base changes                     *)
  s, char, neg, acc,    (* local variables, char is c; s is an index of nptr *)
  any,                  (* 1: a digit was read, -1: out of range           *)
  endptr                (* *endptr, the characters taken                   *)

strtoullVars == <<str_pc, nptr, base, s, char, neg, acc, any, endptr>>

NUL == 0  Space == 32  Plus == 43  Minus == 45  Zero == 48

Char(k) == IF k \in DOMAIN nptr THEN nptr[k] ELSE NUL

StrtoullInit ==
  /\ str_pc = "start"
  /\ nptr \in Inputs /\ base \in Bases
  /\ s = 1 /\ char = NUL /\ neg = FALSE /\ acc = 0 /\ any = 0 /\ endptr = 0

(* The value of a character as a digit, or 36 if it is none. *)
Digit(ch) ==
  CASE ch \in 48 .. 57 -> ch - 48
    [] ch \in 65 .. 90 -> ch - 65 + 10
    [] ch \in 97 .. 122 -> ch - 97 + 10
    [] OTHER -> 36

(* "0x" counts only if a hexadecimal digit follows. *)
HasPrefix(k) ==
  /\ Char(k) = Zero /\ Char(k + 1) \in {88, 120}
  /\ Digit(Char(k + 2)) < 16

(* Blanks, a sign, the prefix and the base; char is the first digit then. *)
StrtoullStart ==
  /\ str_pc = "start"
  /\ LET first == Min({ k \in 1 .. Len(nptr) + 1 : Char(k) # Space })
         k == IF Char(first) \in {Plus, Minus} THEN first + 1 ELSE first
         hex == base \in {0, 16} /\ HasPrefix(k)
     IN  /\ neg' = (Char(first) = Minus)
         /\ char' = Char(IF hex THEN k + 2 ELSE k)
         /\ s' = IF hex THEN k + 3 ELSE k + 1
         /\ base' = CASE hex -> 16
                      [] base = 0 /\ ~hex -> IF char' = Zero THEN 8 ELSE 10
                      [] OTHER -> base
  /\ str_pc' = IF base' \in 2 .. 36 THEN "digits" ELSE "done"
  /\ UNCHANGED <<nptr, acc, any, endptr>>

(* Mutant: forgets the limit of the last digit. *)
MutTooLargeByCutoff(digit) == any < 0 \/ acc > ULLONG_MAX \div base

(* One more digit does not fit, or one before it did not. *)
TooLarge(digit) ==
  LET cutoff == ULLONG_MAX \div base   cutlim == ULLONG_MAX % base
  IN  any < 0 \/ acc > cutoff \/ (acc = cutoff /\ digit > cutlim)

NextDigit ==
  /\ str_pc = "digits" /\ Digit(char) < base
  /\ IF TooLarge(Digit(char))
       THEN any' = -1 /\ UNCHANGED acc
       ELSE any' = 1 /\ acc' = (acc * base + Digit(char)) % (ULLONG_MAX + 1)
  /\ char' = Char(s) /\ s' = s + 1
  /\ UNCHANGED <<str_pc, nptr, base, neg, endptr>>

(* No digit: the result, and how far it goes. *)
StrtoullFinish ==
  /\ str_pc = "digits" /\ Digit(char) >= base
  /\ acc' = CASE any < 0 -> ULLONG_MAX
              [] any > 0 /\ neg -> (-acc) % (ULLONG_MAX + 1)
              [] OTHER -> acc
  /\ endptr' = IF any # 0 THEN s - 2 ELSE 0
  /\ str_pc' = "done"
  /\ UNCHANGED <<nptr, base, s, char, neg, any>>

StrtoullNext ==
  \/ StrtoullStart \/ NextDigit \/ StrtoullFinish
  \/ str_pc = "done" /\ UNCHANGED strtoullVars

StrtoullSpec == StrtoullInit /\ [][StrtoullNext]_strtoullVars

-----------------------------------------------------------------------------
(* Properties.                                                             *)

(* The number with the digits first .. last, of whatever size. *)
Number(first, last) ==
  LET upTo[k \in 0 .. Len(nptr)] ==
        IF k < first THEN 0 ELSE upTo[k - 1] * base + Digit(nptr[k])
  IN  upTo[last]

(* Without overflow in between (strtoull.c:75-98), the result is the       *)
(* number the digits before endptr make, with its sign, or the largest     *)
(* one if that is too large; endptr stands behind the longest run of       *)
(* digits, and in front of everything if there is none.                    *)
StrtoullIsExact ==
  str_pc = "done" =>
    \/ endptr = 0 /\ acc = 0 /\ ~(base \in 2 .. 36 /\ Digit(char) < base)
    \/ \E first \in 1 .. endptr :
         LET number == Number(first, endptr) IN
           /\ \A k \in first .. endptr : Digit(nptr[k]) < base
           /\ first = 1 \/ Digit(nptr[first - 1]) >= base
           /\ Digit(Char(endptr + 1)) >= base
           /\ acc = CASE number > ULLONG_MAX -> ULLONG_MAX
                      [] number <= ULLONG_MAX /\ ~neg -> number
                      [] OTHER -> (ULLONG_MAX + 1 - number) % (ULLONG_MAX + 1)
           /\ neg <=> \E k \in 1 .. first - 1 : nptr[k] = Minus

=============================================================================
