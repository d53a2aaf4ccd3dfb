------------------------------ MODULE Division ------------------------------
(***************************************************************************)
(* qdivrem.c: the 64-bit division the compiler calls on a 32-bit machine.  *)
(*                                                                         *)
(* A quad is four digits of HALF_BITS bits, the most significant one       *)
(* first; a u_long holds two digits, and its arithmetic wraps.  The arrays *)
(* have the code's indexes in uspace and qspace; v[i] is the i-th digit of *)
(* the divisor that counts.                                                *)
(***************************************************************************)
EXTENDS Integers, FiniteSetsExt

CONSTANTS
  HALF_BITS,  (* 16 in the code                                            *)
  Divisions   (* the calls to check: [op |-> function, a |-> , b |-> ]     *)

(* 1 << k *)
TwoTo[k \in 0 .. HALF_BITS] == IF k = 0 THEN 1 ELSE 2 * TwoTo[k - 1]

B == TwoTo[HALF_BITS]
Digits == 0 .. B - 1
QUAD == B * B * B * B   \* 1 << QUAD_BITS
Quads == 0 .. QUAD - 1

ASSUME DivisionAssumption ==
  /\ HALF_BITS \in Nat \ {0}
  /\ Divisions \subseteq [op: {"__qdivrem", "__umoddi3", "__udivdi3", "__divdi3"},
                      a: Quads, b: Quads]

VARIABLES
  div_pc,       (* where __qdivrem is                                      *)
  division,     (* the call of the compiler, never written                 *)
  uq, vq,       (* the arguments of __qdivrem                              *)
  n, m, d, j,   (* digits of the divisor, of the quotient less one, shift, *)
                (* number of the quotient's digit                          *)
  u, v, q,      (* uspace, the divisor's digits, qspace                    *)
  qhat, rhat,   (* the estimate of a digit and its remainder               *)
  quotient, remainder   (* *arq and the result of __qdivrem                *)

args == <<division, uq, vq>>
shape == <<n, m, d, v>>
results == <<quotient, remainder>>
divisionVars == <<div_pc, args, shape, j, u, q, qhat, rhat, results>>

-----------------------------------------------------------------------------
HHALF(x) == x \div B
LHALF(x) == x % B
COMBINE(a, b) == a * B + b
Word(x) == x % (B * B)      \* what a u_long keeps

(* The digits of a quad, the first one at index 1. *)
Split(x) ==
  LET high == x \div (B * B)   low == Word(x)
  IN  <<HHALF(high), LHALF(high), HHALF(low), LHALF(low)>>

(* The number with digits s[first] .. s[last], five of them at most. *)
Value(s, first, last) ==
  LET digit(k) == IF last - k >= first THEN s[last - k] ELSE 0
  IN  COMBINE(COMBINE(COMBINE(COMBINE(digit(4), digit(3)), digit(2)), digit(1)), digit(0))

Negative(x) == x >= QUAD \div 2
Negated(x) == (QUAD - x) % QUAD

(* __divdi3 divides the absolute values. *)
Argument(x) == IF division.op = "__divdi3" /\ Negative(x) THEN Negated(x) ELSE x

DivisionInit ==
  /\ div_pc = "start"
  /\ division \in Divisions
  /\ uq = Argument(division.a) /\ vq = Argument(division.b)
  /\ n = 4 /\ m = 0 /\ d = 0 /\ j = 0
  /\ u = [k \in 0 .. 4 |-> IF k = 0 THEN 0 ELSE Split(uq)[k]]
  /\ v = Split(vq)
  /\ q = [k \in 0 .. 4 |-> 0]
  /\ qhat = 0 /\ rhat = 0
  /\ quotient = 0 /\ remainder = 0

(* 1 / zero: the processor's divide error, and nobody handles it. *)
DivideByZero ==
  /\ div_pc = "start" /\ vq = 0
  /\ div_pc' = "fault"
  /\ UNCHANGED <<args, shape, j, u, q, qhat, rhat, results>>

DivideByLarger ==
  /\ div_pc = "start" /\ vq # 0 /\ uq < vq
  /\ quotient' = 0 /\ remainder' = uq
  /\ div_pc' = "done"
  /\ UNCHANGED <<args, shape, j, u, q, qhat, rhat>>

LeadingZeros(s) == Min({ k \in 1 .. 4 : s[k] # 0 }) - 1

(* A divisor of one digit: short division, from the first digit on. *)
DivideByDigit ==
  /\ div_pc = "start" /\ vq # 0 /\ uq >= vq /\ LeadingZeros(v) = 3
  /\ LET t == v[4]
         rbj2 == COMBINE(u[1] % t, u[2])
         rbj3 == COMBINE(rbj2 % t, u[3])
         rbj4 == COMBINE(rbj3 % t, u[4])
     IN  /\ quotient' = Value(<<u[1] \div t, rbj2 \div t, rbj3 \div t, rbj4 \div t>>, 1, 4)
         /\ remainder' = rbj4 % t
  /\ div_pc' = "done"
  /\ UNCHANGED <<args, shape, j, u, q, qhat, rhat>>

(* __shl of s[first] .. s[last]. *)
Shl(s, first, last, sh) ==
  [k \in DOMAIN s |->
     IF k \notin first .. last THEN s[k]
     ELSE LHALF(s[k] * TwoTo[sh])
            + IF k < last THEN s[k + 1] \div TwoTo[HALF_BITS - sh] ELSE 0]

(* Find n, m and d, and shift so that v[1] >= B/2 (D1). *)
Normalise ==
  /\ div_pc = "start" /\ vq # 0 /\ uq >= vq /\ LeadingZeros(v) < 3
  /\ n' = 4 - LeadingZeros(v)
  /\ m' = 4 - n' - LeadingZeros(u)
  /\ LET w == [k \in 1 .. n' |-> v[4 - n' + k]]
         shift == Min({ s \in 0 .. HALF_BITS : w[1] * TwoTo[s] >= B \div 2 })
     IN  /\ d' = shift
         /\ u' = Shl(u, 4 - m' - n', 4, shift)
         /\ v' = Shl(w, 1, n', shift)
  /\ div_pc' = "estimate"
  /\ UNCHANGED <<args, j, q, qhat, rhat, results>>

-----------------------------------------------------------------------------
(* The index in uspace of the code's u[k], when u has skipped zeros. *)
At(k) == 4 - m - n + k

(* qhat_too_big: one less; the loop is left when rhat is no digit. *)
Lower(estimate, rest) ==
  /\ qhat' = estimate - 1
  /\ rhat' = rest + v[1]
  /\ div_pc' = IF rhat' >= B THEN "subtract" ELSE "correct"

(* D3, up to the loop. *)
Estimate ==
  /\ div_pc = "estimate"
  /\ IF u[At(j)] = v[1]
       THEN Lower(B, u[At(j + 1)])
       ELSE LET nn == COMBINE(u[At(j)], u[At(j + 1)]) IN
              /\ qhat' = nn \div v[1]
              /\ rhat' = nn % v[1]
              /\ div_pc' = "correct"
  /\ UNCHANGED <<args, shape, j, u, q, results>>

(* Mutant: trusts the first estimate. *)
MutTooBigNever == FALSE

TooBig == Word(v[2] * qhat) > COMBINE(rhat, u[At(j + 2)])

(* D3, the loop. *)
Correct ==
  /\ div_pc = "correct"
  /\ IF TooBig THEN Lower(qhat, rhat)
               ELSE div_pc' = "subtract" /\ UNCHANGED <<qhat, rhat>>
  /\ UNCHANGED <<args, shape, j, u, q, results>>

(* Mutant: the borrow is lost below the first digit. *)
MutBorrowLost(difference) == IF HHALF(difference) = 0 THEN 0 ELSE 1

(* The digits u[j+1] .. u[j+n] owe the next one, by the upper half of t. *)
Borrow(difference) == (B - HHALF(difference)) % B

(* D4: subtract v * qhat from u[j] .. u[j+n]; a borrow left asks for D6.   *)
Subtract ==
  /\ div_pc = "subtract"
  /\ LET t[i \in 0 .. n] ==
           LET owed == IF i = n THEN 0 ELSE Borrow(t[i + 1]) IN
             Word(u[At(i + j)] - (IF i = 0 THEN 0 ELSE v[i] * qhat) - owed)
     IN  /\ u' = [k \in 0 .. 4 |-> IF k \in At(j) .. At(j + n)
                                     THEN LHALF(t[k - At(j)]) ELSE u[k]]
         /\ div_pc' = IF HHALF(t[0]) # 0 THEN "add_back" ELSE "store"
  /\ UNCHANGED <<args, shape, j, q, qhat, rhat, results>>

(* D6: qhat was too large; add v once. *)
AddBack ==
  /\ div_pc = "add_back"
  /\ LET t[i \in 0 .. n] ==
           u[At(i + j)] + (IF i = 0 THEN 0 ELSE v[i])
                        + (IF i = n THEN 0 ELSE HHALF(t[i + 1]))
     IN  u' = [k \in 0 .. 4 |-> IF k \in At(j) .. At(j + n)
                                  THEN LHALF(t[k - At(j)]) ELSE u[k]]
  /\ qhat' = qhat - 1
  /\ div_pc' = "store"
  /\ UNCHANGED <<args, shape, j, q, rhat, results>>

(* q[j] = qhat, D7. *)
Store ==
  /\ div_pc = "store"
  /\ q' = [q EXCEPT ![4 - m + j] = qhat]
  /\ j' = j + 1
  /\ div_pc' = IF j < m THEN "estimate" ELSE "finish"
  /\ UNCHANGED <<args, shape, u, qhat, rhat, results>>

(* Shift the remainder back and put the results together.  Index 0 of the  *)
(* arrays is not part of them.  The code skips the remainder if nobody asks *)
(* for it.                                                                 *)
Finish ==
  /\ div_pc = "finish"
  /\ LET back(k) == IF k <= At(m) THEN 0
                    ELSE u[k] \div TwoTo[d] + LHALF(u[k - 1] * TwoTo[HALF_BITS - d])
     IN  u' = IF d = 0 THEN u
              ELSE [k \in 0 .. 4 |-> IF k >= At(m) THEN back(k) ELSE u[k]]
  /\ quotient' = Value(q, 1, 4)
  /\ remainder' = Value(u', 1, 4)
  /\ div_pc' = "done"
  /\ UNCHANGED <<args, shape, j, q, qhat, rhat>>

DivisionStep ==
  \/ DivideByZero \/ DivideByLarger \/ DivideByDigit \/ Normalise
  \/ Estimate \/ Correct \/ Subtract \/ AddBack \/ Store \/ Finish

DivisionEnded == div_pc \in {"done", "fault"}

DivisionNext == DivisionStep \/ (DivisionEnded /\ UNCHANGED divisionVars)

DivisionSpec == DivisionInit /\ [][DivisionNext]_divisionVars

(* What the compiler's function returns. *)
Returned ==
  CASE division.op = "__umoddi3" -> remainder
    [] /\ division.op = "__divdi3"
       /\ Negative(division.a) # Negative(division.b) -> Negated(quotient)
    [] OTHER -> quotient

-----------------------------------------------------------------------------
(* Properties.                                                             *)

(* __qdivrem computes quotient and remainder (qdivrem.c:124), and what is  *)
(* returned for the call of the compiler is, for signed numbers, the       *)
(* quotient rounded to zero.  Only a division by zero gives no result.     *)
Signed(x) == IF Negative(x) THEN x - QUAD ELSE x

DivisionIsExact ==
  /\ div_pc = "fault" => division.b = 0
  /\ div_pc = "done" =>
       /\ uq = quotient * vq + remainder
       /\ remainder < vq
       /\ division.op = "__divdi3" =>
            LET rest == Signed(division.a) - Signed(Returned) * Signed(division.b) IN
              \/ rest \in -(vq - 1) .. vq - 1 /\ rest * Signed(division.a) >= 0
              \/ division.a = QUAD \div 2 /\ division.b = QUAD - 1   \* overflows

(* The estimate of a digit is never too small, and too large by at most 1  *)
(* when the subtraction begins (qdivrem.c:284, "by exactly 1"): one        *)
(* correction is enough.                                                   *)
EstimateIsClose ==
  div_pc = "subtract" =>
    qhat - Value(u, At(j), At(j + n)) \div Value(v, 1, n) \in {0, 1}

=============================================================================
