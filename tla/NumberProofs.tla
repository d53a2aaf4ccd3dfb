---------------------------- MODULE NumberProofs ----------------------------
(***************************************************************************)
(* The functions on numbers compute what they should, for numbers and      *)
(* digits of any width: strtoull first, then the division.                 *)
(***************************************************************************)
EXTENDS Strtoull, Division, InductionProofs, TLAPS

-----------------------------------------------------------------------------
(* Strings to numbers.                                                     *)

LEMMA DigitType == \A ch \in Int : Digit(ch) \in Nat /\ Digit(ch) <= 36
BY DEF Digit

LEMMA CharType ==
  ASSUME nptr \in Seq(1 .. 255)
  PROVE  /\ Len(nptr) \in Nat
         /\ \A k \in Int : /\ Char(k) \in 0 .. 255
                           /\ k \in 1 .. Len(nptr) => Char(k) = nptr[k] /\ nptr[k] \in 1 .. 255
                           /\ k \notin 1 .. Len(nptr) => Char(k) = NUL
<1>1. Len(nptr) \in Nat /\ DOMAIN nptr = 1 .. Len(nptr)
  BY LenProperties
<1>2. ASSUME NEW k \in 1 .. Len(nptr) PROVE nptr[k] \in 1 .. 255
  BY <1>2, ElementOfSeq
<1> QED
  BY <1>1, <1>2 DEF Char, NUL

(* Number, digit by digit. *)
LEMMA NumberSteps ==
  ASSUME nptr \in Seq(1 .. 255), base \in Nat, NEW first \in Nat, first # 0
  PROVE  /\ \A k \in 0 .. Len(nptr) : Number(first, k) \in Nat
         /\ \A k \in 0 .. Len(nptr) : k < first => Number(first, k) = 0
         /\ \A k \in 1 .. Len(nptr) : first <= k =>
              Number(first, k) = Number(first, k - 1) * base + Digit(nptr[k])
<1>1. PICK len \in Nat : len = Len(nptr)
  BY CharType
<1>2. \A k \in 1 .. len : Digit(nptr[k]) \in Nat
  <2> SUFFICES ASSUME NEW k \in 1 .. len PROVE Digit(nptr[k]) \in Nat
    OBVIOUS
  <2>1. k \in Int /\ nptr[k] \in 1 .. 255
    BY <1>1, CharType
  <2>2. nptr[k] \in Int
    <3>1. 1 .. 255 \subseteq Int
      OBVIOUS
    <3> QED
      BY <2>1, <3>1
  <2> QED
    BY <2>2, DigitType
<1> DEFINE step == [p \in Nat \X (1 .. len) |->
                      IF p[2] < first THEN 0 ELSE p[1] * base + Digit(nptr[p[2]])]
<1>3. IsStep(step, Nat, len)
  <2> SUFFICES ASSUME NEW p \in Nat \X (1 .. len)
               PROVE  (IF p[2] < first THEN 0 ELSE p[1] * base + Digit(nptr[p[2]])) \in Nat
    BY DEF IsStep
  <2>1. PICK x \in Nat, k \in 1 .. len : p = <<x, k>>
    OBVIOUS
  <2>2. x * base + Digit(nptr[k]) \in Nat
    BY <1>2
  <2> QED
    BY <2>1, <2>2
<1>4. PICK h : IsRecursion(h, Nat, 0, len, step)
  <2> HIDE DEF step
  <2> QED
    BY <1>3, RecursionExists
<1>5. /\ h \in [0 .. len -> Nat]
      /\ h[0] = 0
      /\ \A k \in 1 .. len : h[k] = step[<<h[k - 1], k>>]
  BY <1>4 DEF IsRecursion
<1>6. ASSUME NEW k \in 1 .. len
      PROVE  h[k] = IF k < first THEN 0 ELSE h[k - 1] * base + Digit(nptr[k])
  <2>1. k - 1 \in 0 .. len
    OBVIOUS
  <2>2. h[k - 1] \in Nat
    BY <1>5, <2>1
  <2>3. h[k] = step[<<h[k - 1], k>>]
    BY <1>5
  <2> QED
    BY <2>2, <2>3
<1> DEFINE Rec(g) == [k \in 0 .. len |->
                        IF k < first THEN 0 ELSE g[k - 1] * base + Digit(nptr[k])]
           F == CHOOSE g : g = Rec(g)
<1>7. \A k : Number(first, k) = F[k]
  BY <1>1 DEF Number
<1>8. h = Rec(h)
  <2> SUFFICES ASSUME NEW k \in 0 .. len
               PROVE  h[k] = IF k < first THEN 0 ELSE h[k - 1] * base + Digit(nptr[k])
    BY <1>5
  <2>1. CASE k = 0
    BY <1>5, <2>1
  <2>2. CASE k # 0
    <3>1. k \in 1 .. len
      BY <2>2
    <3> QED
      BY <1>6, <3>1
  <2> QED
    BY <2>1, <2>2
<1>9. F = Rec(F)
  <2>1. \E g : g = Rec(g)
    BY <1>8
  <2> HIDE DEF Rec
  <2> QED
    BY <2>1
<1> HIDE DEF F
<1>10. ASSUME NEW k \in 0 .. len
       PROVE  F[k] = IF k < first THEN 0 ELSE F[k - 1] * base + Digit(nptr[k])
  BY <1>9
<1>11. \A k \in 0 .. len : h[k] = F[k]
  <2>1. ASSUME NEW k \in 1 .. len, h[k - 1] = F[k - 1] PROVE h[k] = F[k]
    BY <1>6, <1>10, <2>1
  <2>2. h[0] = F[0]
    BY <1>5, <1>10
  <2> DEFINE T == { k \in 0 .. len : h[k] = F[k] }
  <2>3. 0 \in T
    BY <2>2
  <2>4. ASSUME NEW k \in 0 .. len - 1, k \in T PROVE k + 1 \in T
    <3>1. k + 1 \in 1 .. len /\ (k + 1) - 1 = k /\ k + 1 \in 0 .. len
      OBVIOUS
    <3>2. h[k + 1] = F[k + 1]
      BY <2>1, <2>4, <3>1
    <3> QED
      BY <3>1, <3>2
  <2> HIDE DEF T
  <2>5. \A k \in 0 .. len : k \in T
    BY <2>3, <2>4, InductionUpTo
  <2> QED
    BY <2>5 DEF T
<1>12. \A k \in 0 .. len : Number(first, k) = h[k]
  BY <1>7, <1>11
<1>13. ASSUME NEW k \in 0 .. len PROVE Number(first, k) \in Nat
  BY <1>5, <1>12
<1>14. ASSUME NEW k \in 0 .. len, k < first PROVE Number(first, k) = 0
  BY <1>7, <1>10, <1>14
<1>15. ASSUME NEW k \in 1 .. len, first <= k
       PROVE  Number(first, k) = Number(first, k - 1) * base + Digit(nptr[k])
  <2>1. ~(k < first) /\ k \in 0 .. len
    BY <1>15
  <2> QED
    BY <1>7, <1>10, <2>1
<1> QED
  BY <1>1, <1>13, <1>14, <1>15

(* One more digit of a number that fits fits too, or not, as TooLarge says. *)
LEMMA Cutoff ==
  ASSUME NEW most \in Nat, NEW b \in Nat, b >= 2, NEW x \in Nat, NEW digit \in Nat, digit < b
  PROVE  x * b + digit > most
           <=> x > most \div b \/ (x = most \div b /\ digit > most % b)
<1>1. PICK h \in Nat, r \in Nat :
        h = most \div b /\ r = most % b /\ most = h * b + r /\ r < b
  OBVIOUS
<1>2. CASE x > h
  <2>1. (h + 1) * b <= x * b
    BY <1>2
  <2>2. (h + 1) * b = h * b + b
    OBVIOUS
  <2> QED
    BY <1>1, <1>2, <2>1, <2>2
<1>3. CASE x = h
  BY <1>1, <1>3
<1>4. CASE x < h
  <2>1. (x + 1) * b <= h * b
    BY <1>4
  <2>2. (x + 1) * b = x * b + b
    OBVIOUS
  <2> QED
    BY <1>1, <1>4, <2>1, <2>2
<1> QED
  BY <1>1, <1>2, <1>3, <1>4


(* The digits begin at first; what is before them is no digit. *)
Begins(first) ==
  /\ first \in 1 .. Len(nptr) + 1
  /\ first = 1 \/ Digit(nptr[first - 1]) >= base
  /\ neg <=> \E k \in 1 .. first - 1 : nptr[k] = Minus

(* The digits from first on have been read up to s - 2, char is the next   *)
(* character, and acc and any are what the digits so far make.             *)
HasRead(first) ==
  /\ Begins(first)
  /\ first < s /\ s <= Len(nptr) + 2
  /\ char = Char(s - 1)
  /\ \A k \in first .. s - 2 : Digit(nptr[k]) < base
  /\ any = 0 <=> s = first + 1
  /\ any = 0 => acc = 0
  /\ any = 1 => acc = Number(first, s - 2) /\ acc <= ULLONG_MAX
  /\ any = -1 => Number(first, s - 2) > ULLONG_MAX

StrtoullInv ==
  /\ nptr \in Seq(1 .. 255)
  /\ base \in Nat /\ s \in Nat /\ neg \in BOOLEAN /\ acc \in Nat /\ any \in {-1, 0, 1}
  /\ str_pc \in {"start", "digits", "done"}
  /\ str_pc = "start" => acc = 0 /\ any = 0 /\ endptr = 0
  /\ str_pc = "digits" => base \in 2 .. 36 /\ endptr = 0 /\ \E first : HasRead(first)
  /\ StrtoullIsExact

LEMMA StrtoullInvInit == StrtoullInit => StrtoullInv
<1> SUFFICES ASSUME StrtoullInit PROVE StrtoullInv
  OBVIOUS
<1>1. /\ str_pc = "start" /\ nptr \in Inputs /\ base \in Bases
      /\ s = 1 /\ neg = FALSE /\ acc = 0 /\ any = 0 /\ endptr = 0
  BY DEF StrtoullInit
<1>2. nptr \in Seq(1 .. 255) /\ base \in Nat
  BY <1>1, StrtoullAssumption
<1>3. StrtoullIsExact
  BY <1>1 DEF StrtoullIsExact
<1> QED
  BY <1>1, <1>2, <1>3 DEF StrtoullInv

(* The first character that is no blank. *)
LEMMA BlanksEnd ==
  ASSUME nptr \in Seq(1 .. 255), NEW first, first = Min({ k \in 1 .. Len(nptr) + 1 : Char(k) # Space })
  PROVE  /\ first \in 1 .. Len(nptr) + 1 /\ Char(first) # Space
         /\ \A k \in 1 .. first - 1 : k \in 1 .. Len(nptr) /\ nptr[k] = Space
<1>1. PICK len \in Nat : len = Len(nptr)
  BY CharType
<1> DEFINE T == { k \in 1 .. len + 1 : Char(k) # Space }
<1>2. len + 1 \in T
  <2>1. Char(len + 1) = NUL
    BY <1>1, CharType
  <2> QED
    BY <2>1 DEF NUL, Space
<1>3. \E x \in T : \A y \in T : x <= y
  <2>1. T \subseteq Nat /\ T # {}
    BY <1>2
  <2> HIDE DEF T
  <2> QED
    BY <2>1, LeastNumber
<1>4. first \in T /\ \A y \in T : first <= y
  <2>1. first = Min(T)
    BY <1>1
  <2> HIDE DEF T
  <2> QED
    BY <1>3, <2>1 DEF Min
<1>5. ASSUME NEW k \in 1 .. first - 1 PROVE k \in 1 .. len /\ nptr[k] = Space
  <2>1. first \in 1 .. len + 1
    BY <1>4
  <2>2. k \in 1 .. len /\ ~(first <= k)
    BY <2>1
  <2>3. Char(k) = Space
    BY <1>4, <2>2
  <2> QED
    BY <1>1, <2>2, <2>3, CharType
<1> QED
  BY <1>1, <1>4, <1>5

LEMMA StrtoullStarts == StrtoullInv /\ StrtoullStart => StrtoullInv'
<1> SUFFICES ASSUME StrtoullInv, StrtoullStart PROVE StrtoullInv'
  OBVIOUS
<1>0. /\ nptr \in Seq(1 .. 255) /\ base \in Nat /\ acc = 0 /\ any = 0 /\ endptr = 0
      /\ nptr' = nptr /\ acc' = acc /\ any' = any /\ endptr' = endptr
  BY DEF StrtoullInv, StrtoullStart
<1>1. PICK len \in Nat : len = Len(nptr)
  BY <1>0, CharType
<1>2. PICK b : b = Min({ k \in 1 .. Len(nptr) + 1 : Char(k) # Space })
  OBVIOUS
<1>3. /\ b \in 1 .. len + 1 /\ Char(b) # Space
      /\ \A k \in 1 .. b - 1 : k \in 1 .. len /\ nptr[k] = Space
  BY <1>0, <1>1, <1>2, BlanksEnd
<1>4. PICK k0 : k0 = IF Char(b) \in {Plus, Minus} THEN b + 1 ELSE b
  OBVIOUS
<1>5. PICK hex : hex = (base \in {0, 16} /\ HasPrefix(k0))
  OBVIOUS
<1>6. /\ neg' = (Char(b) = Minus)
      /\ char' = Char(IF hex THEN k0 + 2 ELSE k0)
      /\ s' = IF hex THEN k0 + 3 ELSE k0 + 1
      /\ base' = CASE hex -> 16
                   [] base = 0 /\ ~hex -> IF char' = Zero THEN 8 ELSE 10
                   [] OTHER -> base
      /\ str_pc' = IF base' \in 2 .. 36 THEN "digits" ELSE "done"
  BY <1>2, <1>4, <1>5, Zenon DEF StrtoullStart
<1>7. PICK f : f = IF hex THEN k0 + 2 ELSE k0
  OBVIOUS
<1>n. NUL = 0 /\ Space = 32 /\ Plus = 43 /\ Minus = 45 /\ Zero = 48
  BY DEF NUL, Space, Plus, Minus, Zero
<1>c. \A k \in Int : /\ Char(k) \in 0 .. 255
                     /\ k \in 1 .. len => Char(k) = nptr[k]
                     /\ k \notin 1 .. len => Char(k) = 0
  BY <1>0, <1>1, <1>n, CharType
<1>8. /\ k0 \in 1 .. len + 1 /\ k0 \in {b, b + 1}
      /\ k0 = b + 1 => b \in 1 .. len /\ nptr[b] \in {43, 45}
  <2>1. CASE Char(b) \in {Plus, Minus}
    <3>1. Char(b) # 0 /\ b \in Int
      BY <1>3, <1>n, <2>1
    <3>2. b \in 1 .. len
      BY <1>c, <3>1
    <3> QED
      BY <1>4, <1>c, <1>n, <2>1, <3>1, <3>2
  <2>2. CASE Char(b) \notin {Plus, Minus}
    BY <1>3, <1>4, <2>2
  <2> QED
    BY <2>1, <2>2
<1>9. hex => /\ k0 + 2 \in 1 .. len /\ nptr[k0] = 48 /\ nptr[k0 + 1] \in {88, 120}
  <2> SUFFICES ASSUME hex PROVE /\ k0 + 2 \in 1 .. len /\ nptr[k0] = 48 /\ nptr[k0 + 1] \in {88, 120}
    OBVIOUS
  <2>1. Char(k0) = 48 /\ Char(k0 + 1) \in {88, 120} /\ Digit(Char(k0 + 2)) < 16
    BY <1>5, <1>n DEF HasPrefix
  <2>2. Char(k0 + 2) # 0
    BY <2>1 DEF Digit
  <2>3. k0 + 2 \in Int /\ k0 \in Int /\ k0 + 1 \in Int
    BY <1>8
  <2>4. k0 + 2 \in 1 .. len
    BY <1>c, <2>2, <2>3
  <2>5. k0 \in 1 .. len /\ k0 + 1 \in 1 .. len
    BY <1>8, <2>4
  <2> QED
    BY <1>c, <2>1, <2>3, <2>4, <2>5
<1>10. f \in 1 .. len + 1 /\ s' = f + 1 /\ char' = Char(f)
  BY <1>6, <1>7, <1>8, <1>9
<1>11. \A k \in 1 .. f - 1 : k \in 1 .. len /\ (nptr[k] = 45 => k = b)
  <2> SUFFICES ASSUME NEW k \in 1 .. f - 1 PROVE k \in 1 .. len /\ (nptr[k] = 45 => k = b)
    OBVIOUS
  <2>1. k \in 1 .. len
    BY <1>10
  <2>2. CASE k < b
    <3>1. k \in 1 .. b - 1
      BY <1>3, <2>2
    <3> QED
      BY <1>3, <1>n, <2>1, <3>1
  <2>3. CASE k > b
    <3>1. hex /\ k \in {k0, k0 + 1}
      BY <1>3, <1>7, <1>8, <2>3
    <3> QED
      BY <1>9, <2>1, <3>1
  <2> QED
    BY <1>3, <2>1, <2>2, <2>3
<1>12. neg' <=> \E k \in 1 .. f - 1 : nptr[k] = 45
  <2>1. ASSUME neg' PROVE \E k \in 1 .. f - 1 : nptr[k] = 45
    <3>1. Char(b) = 45 /\ k0 = b + 1
      BY <1>4, <1>6, <1>n, <2>1
    <3>2. nptr[b] = 45
      BY <1>8, <1>c, <3>1
    <3>3. b \in 1 .. f - 1
      BY <1>3, <1>7, <3>1
    <3> QED
      BY <3>2, <3>3
  <2>2. ASSUME NEW k \in 1 .. f - 1, nptr[k] = 45 PROVE neg'
    <3>1. k = b /\ k \in 1 .. len
      BY <1>11, <2>2
    <3>2. Char(b) = 45
      BY <1>c, <2>2, <3>1
    <3> QED
      BY <1>6, <1>n, <3>2
  <2> QED
    BY <2>1, <2>2
<1>13. ASSUME base' <= 36, f # 1 PROVE Digit(nptr[f - 1]) >= base'
  <2>1. CASE hex
    <3>1. f - 1 = k0 + 1 /\ base' = 16
      BY <1>6, <1>7, <1>8, <2>1
    <3>2. nptr[f - 1] \in {88, 120}
      BY <1>9, <2>1, <3>1
    <3>3. Digit(nptr[f - 1]) = 33
      BY <3>2 DEF Digit
    <3> QED
      BY <3>1, <3>3
  <2>2. CASE ~hex
    <3>1. f = k0
      BY <1>7, <2>2
    <3>2. nptr[f - 1] \in {32, 43, 45}
      <4>1. CASE k0 = b + 1
        <5>1. f - 1 = b
          BY <1>3, <3>1, <4>1
        <5> QED
          BY <1>8, <4>1, <5>1
      <4>2. CASE k0 = b
        <5>1. f - 1 \in 1 .. b - 1
          BY <1>3, <1>10, <1>13, <3>1, <4>2
        <5> QED
          BY <1>3, <1>n, <5>1
      <4> QED
        BY <1>8, <4>1, <4>2
    <3>3. Digit(nptr[f - 1]) = 36
      BY <3>2 DEF Digit
    <3> QED
      BY <1>13, <3>3
  <2> QED
    BY <2>1, <2>2
<1>14. base' \in Nat /\ s' \in Nat /\ neg' \in BOOLEAN
  <2>1. s' \in Nat /\ neg' \in BOOLEAN
    BY <1>6, <1>10
  <2>2. base' \in Nat
    <3>1. base' \in {16, 8, 10, base}
      BY <1>6
    <3> QED
      BY <1>0, <3>1
  <2> QED
    BY <2>1, <2>2
<1>15. CASE base' \in 2 .. 36
  <2>1. Begins(f)'
    BY <1>0, <1>1, <1>10, <1>12, <1>13, <1>15, <1>n DEF Begins
  <2>2. \A k \in f .. s' - 2 : FALSE
    BY <1>10
  <2>3. char' = Char(s - 1)'
    <3>1. s' - 1 = f
      BY <1>10
    <3> QED
      BY <1>0, <1>10, <3>1 DEF Char
  <2>4. HasRead(f)'
    BY <1>0, <1>1, <1>10, <2>1, <2>2, <2>3 DEF HasRead
  <2>5. str_pc' = "digits"
    BY <1>6, <1>15
  <2> QED
    BY <1>0, <1>14, <1>15, <2>4, <2>5 DEF StrtoullInv, StrtoullIsExact
<1>16. CASE base' \notin 2 .. 36
  <2>1. str_pc' = "done"
    BY <1>6, <1>16
  <2> QED
    BY <1>0, <1>14, <1>16, <2>1 DEF StrtoullInv, StrtoullIsExact
<1> QED
  BY <1>15, <1>16


LEMMA StrtoullReads == StrtoullInv /\ NextDigit => StrtoullInv'
<1> SUFFICES ASSUME StrtoullInv, NextDigit PROVE StrtoullInv'
  OBVIOUS
<1>0. /\ nptr \in Seq(1 .. 255) /\ base \in 2 .. 36 /\ acc \in Nat /\ any \in {-1, 0, 1}
      /\ s \in Nat /\ neg \in BOOLEAN
      /\ str_pc = "digits" /\ endptr = 0 /\ Digit(char) < base
      /\ UNCHANGED <<str_pc, nptr, base, neg, endptr>>
      /\ char' = Char(s) /\ s' = s + 1
  BY DEF StrtoullInv, NextDigit
<1>1. PICK f : HasRead(f)
  BY <1>0 DEF StrtoullInv
<1>2. PICK len \in Nat : len = Len(nptr)
  BY <1>0, CharType
<1>3. /\ Begins(f) /\ f \in 1 .. len + 1 /\ f < s /\ s <= len + 2 /\ char = Char(s - 1)
      /\ \A k \in f .. s - 2 : Digit(nptr[k]) < base
  BY <1>1, <1>2 DEF HasRead, Begins
<1>4. s - 1 \in 1 .. len /\ nptr[s - 1] = char /\ s - 1 \in Int
  <2>1. s - 1 \in Int /\ Digit(0) = 36
    BY <1>0 DEF Digit
  <2>2. char # 0
    BY <1>0, <2>1
  <2> QED
    BY <1>0, <1>2, <1>3, <2>1, <2>2, CharType DEF NUL
<1>5. PICK digit \in Nat : digit = Digit(char) /\ digit < base
  <2>1. char \in Int
    <3>1. PICK ch : ch = char
      OBVIOUS
    <3>2. ch \in 0 .. 255
      <4>1. Char(s - 1) \in 0 .. 255
        BY <1>0, <1>4, CharType
      <4> QED
        BY <1>3, <3>1, <4>1
    <3> QED
      BY <3>1, <3>2
  <2> QED
    BY <1>0, <2>1, DigitType
<1>6. PICK x \in Nat, y \in Nat :
        x = Number(f, s - 2) /\ y = Number(f, s - 1) /\ y = x * base + digit
        /\ (s = f + 1 => x = 0)
  <2>1. base \in Nat /\ f \in Nat /\ f # 0 /\ f <= s - 1 /\ (s - 1) - 1 = s - 2
    BY <1>0, <1>3
  <2>2. s - 2 \in 0 .. len /\ s - 1 \in 0 .. len /\ (s = f + 1 => s - 2 < f)
    BY <1>0, <1>3, <1>4
  <2>3. /\ Number(f, s - 2) \in Nat /\ Number(f, s - 1) \in Nat
        /\ Number(f, s - 1) = Number(f, (s - 1) - 1) * base + Digit(nptr[s - 1])
        /\ s - 2 < f => Number(f, s - 2) = 0
    BY <1>0, <1>2, <1>4, <2>1, <2>2, NumberSteps
  <2> QED
    BY <1>4, <1>5, <2>1, <2>2, <2>3
<1>7. y > ULLONG_MAX => x * base + digit > ULLONG_MAX
  BY <1>6
<1>m. PICK most \in Nat : most = ULLONG_MAX
  BY StrtoullAssumption
<1>8. TooLarge(digit) <=> y > most
  <2>1. CASE any = -1
    <3>1. x > most
      BY <1>1, <1>6, <1>m, <2>1 DEF HasRead
    <3>2. x <= x * base
      BY <1>0
    <3>3. y > most
      <4>1. PICK z \in Nat : z = x * base /\ x <= z
        BY <1>0, <3>2
      <4> QED
        BY <1>6, <3>1, <4>1
    <3> QED
      BY <2>1, <3>3 DEF TooLarge
  <2>2. CASE any # -1
    <3>1. acc = x
      <4>1. CASE any = 0
        BY <1>1, <1>6, <4>1 DEF HasRead
      <4>2. CASE any = 1
        BY <1>1, <1>6, <4>2 DEF HasRead
      <4> QED
        BY <1>0, <2>2, <4>1, <4>2
    <3>2. ~(any < 0)
      BY <1>0, <2>2
    <3>3. TooLarge(digit) <=> (x > most \div base \/ (x = most \div base /\ digit > most % base))
      BY <1>m, <3>1, <3>2 DEF TooLarge
    <3>4. base \in Nat /\ base >= 2
      BY <1>0
    <3> QED
      BY <1>5, <1>6, <3>3, <3>4, Cutoff
  <2> QED
    BY <2>1, <2>2
<1>9. IF y > most THEN any' = -1 /\ acc' = acc ELSE any' = 1 /\ acc' = y
  <2>1. IF TooLarge(digit) THEN any' = -1 /\ acc' = acc
        ELSE any' = 1 /\ acc' = (acc * base + digit) % (most + 1)
    BY <1>5, <1>m DEF NextDigit
  <2>2. CASE y > most
    BY <1>8, <2>1, <2>2
  <2>3. CASE ~(y > most)
    <3>1. any # -1
      BY <1>8, <2>3 DEF TooLarge
    <3>2. acc = x
      <4>1. CASE any = 0
        BY <1>1, <1>6, <4>1 DEF HasRead
      <4>2. CASE any = 1
        BY <1>1, <1>6, <4>2 DEF HasRead
      <4> QED
        BY <1>0, <3>1, <4>1, <4>2
    <3>3. y % (most + 1) = y
      BY <2>3
    <3> QED
      BY <1>6, <1>8, <2>1, <2>3, <3>2, <3>3
  <2> QED
    BY <2>2, <2>3
<1>10. HasRead(f)'
  <2>1. Begins(f)'
    BY <1>0, <1>3 DEF Begins
  <2>2. f < s' /\ s' <= Len(nptr') + 2
    BY <1>0, <1>2, <1>3, <1>4
  <2>3. char' = Char(s - 1)'
    <3>1. s' - 1 = s
      BY <1>0
    <3> QED
      BY <1>0, <3>1 DEF Char
  <2>4. \A k \in f .. s' - 2 : Digit(nptr'[k]) < base'
    <3> SUFFICES ASSUME NEW k \in f .. s' - 2 PROVE Digit(nptr'[k]) < base'
      OBVIOUS
    <3>1. k \in f .. s - 2 \/ k = s - 1
      BY <1>0, <1>3
    <3> QED
      BY <1>0, <1>3, <1>4, <3>1
  <2>5. s' # f + 1 /\ any' # 0 /\ s' - 2 = s - 1
    BY <1>0, <1>3, <1>9
  <2>6. Number(f, s - 2)' = y
    <3>1. PICK e : e = s - 1
      OBVIOUS
    <3>2. Number(f, e)' = Number(f, e)
      BY <1>0 DEF Number
    <3>3. Number(f, s - 2)' = Number(f, e)'
      BY <2>5, <3>1
    <3> QED
      BY <1>6, <3>1, <3>2, <3>3
  <2> QED
    BY <1>9, <1>m, <2>1, <2>2, <2>3, <2>4, <2>5, <2>6, SMTT(40) DEF HasRead
<1>11. s' \in Nat /\ acc' \in Nat /\ any' \in {-1, 0, 1}
  BY <1>0, <1>6, <1>9
<1> QED
  BY <1>0, <1>10, <1>11 DEF StrtoullInv, StrtoullIsExact

LEMMA StrtoullFinishes == StrtoullInv /\ StrtoullFinish => StrtoullInv'
<1> SUFFICES ASSUME StrtoullInv, StrtoullFinish PROVE StrtoullInv'
  OBVIOUS
<1>0. /\ nptr \in Seq(1 .. 255) /\ base \in 2 .. 36 /\ acc \in Nat /\ any \in {-1, 0, 1}
      /\ s \in Nat /\ neg \in BOOLEAN
      /\ str_pc = "digits" /\ Digit(char) >= base
      /\ UNCHANGED <<nptr, base, s, char, neg, any>> /\ str_pc' = "done"
      /\ endptr' = IF any # 0 THEN s - 2 ELSE 0
  BY DEF StrtoullInv, StrtoullFinish
<1>m. PICK most \in Nat : most = ULLONG_MAX
  BY StrtoullAssumption
<1>1. PICK f : HasRead(f)
  BY <1>0 DEF StrtoullInv
<1>2. acc' = CASE any < 0 -> most
               [] any > 0 /\ neg -> (-acc) % (most + 1)
               [] OTHER -> acc
  BY <1>m DEF StrtoullFinish
<1>3. CASE any = 0
  <2>1. endptr' = 0 /\ acc' = 0
    BY <1>0, <1>1, <1>2, <1>3 DEF HasRead
  <2>2. PICK dg \in Int : dg = Digit(char)
    <3>1. PICK e \in Int : char = Char(e)
      BY <1>0, <1>1 DEF HasRead
    <3>2. Char(e) \in 0 .. 255
      BY <1>0, CharType
    <3>3. PICK ch \in Int : ch = char
      BY <3>1, <3>2
    <3> QED
      BY <3>3, DigitType
  <2>3. ~(dg < base)
    BY <1>0, <2>2
  <2>4. StrtoullIsExact'
    BY <1>0, <2>1, <2>2, <2>3 DEF StrtoullIsExact
  <2>5. acc' \in Nat
    BY <2>1
  <2> QED
    BY <1>0, <2>4, <2>5 DEF StrtoullInv
<1>4. CASE any # 0
  <2>1. PICK len \in Nat : len = Len(nptr)
    BY <1>0, CharType
  <2>2. /\ f \in 1 .. len + 1 /\ f < s /\ s <= len + 2 /\ s # f + 1 /\ char = Char(s - 1)
        /\ \A k \in f .. s - 2 : Digit(nptr[k]) < base
        /\ f = 1 \/ Digit(nptr[f - 1]) >= base
        /\ neg <=> \E k \in 1 .. f - 1 : nptr[k] = Minus
    BY <1>1, <1>4, <2>1 DEF HasRead, Begins
  <2>3. PICK e \in 1 .. len : e = s - 2 /\ f <= e /\ e + 1 = s - 1 /\ endptr' = e
    BY <1>0, <1>4, <2>2
  <2>4. PICK x \in Nat : x = Number(f, e) /\ x = Number(f, e)'
    <3>1. Number(f, e) \in Nat
      BY <1>0, <2>1, <2>2, <2>3, NumberSteps
    <3>2. Number(f, e)' = Number(f, e)
      BY <1>0 DEF Number
    <3> QED
      BY <3>1, <3>2
  <2>5. acc' = CASE x > most -> most
                 [] x <= most /\ ~neg -> x
                 [] OTHER -> (most + 1 - x) % (most + 1)
    <3>1. CASE any = -1
      <4>1. x > most
        BY <1>1, <1>m, <2>3, <2>4, <3>1 DEF HasRead
      <4> QED
        BY <1>2, <3>1, <4>1
    <3>2. CASE any = 1
      <4>1. acc = x /\ x <= most
        BY <1>1, <1>m, <2>3, <2>4, <3>2 DEF HasRead
      <4>2. (-x) % (most + 1) = (most + 1 - x) % (most + 1)
        BY <4>1
      <4> QED
        BY <1>0, <1>2, <3>2, <4>1, <4>2
    <3> QED
      BY <1>0, <1>4, <3>1, <3>2
  <2>6. Digit(Char(e + 1)) >= base
    BY <1>0, <2>2, <2>3
  <2>7. f \in 1 .. endptr' /\ \A k \in f .. e : Digit(nptr[k]) < base
    BY <2>2, <2>3
  <2>8. StrtoullIsExact'
    <3>1. Char(endptr + 1)' = Char(e + 1)
      BY <1>0, <2>3 DEF Char
    <3>2. Number(f, endptr)' = x
      BY <2>3, <2>4
    <3> DEFINE Fits(first) ==
                 LET number == Number(first, endptr)' IN
                   /\ \A k \in first .. endptr' : Digit(nptr'[k]) < base'
                   /\ first = 1 \/ Digit(nptr'[first - 1]) >= base'
                   /\ Digit(Char(endptr + 1)') >= base'
                   /\ acc' = CASE number > most -> most
                               [] number <= most /\ ~neg' -> number
                               [] OTHER -> (most + 1 - number) % (most + 1)
                   /\ neg' <=> \E k \in 1 .. first - 1 : nptr'[k] = Minus
    <3>3. Fits(f)
      BY <1>0, <2>2, <2>3, <2>5, <2>6, <2>7, <3>1, <3>2
    <3> QED
      BY <1>m, <2>7, <3>3 DEF StrtoullIsExact
  <2>9. acc' \in Nat
    <3>1. acc' \in {most, x, (most + 1 - x) % (most + 1)}
      BY <2>5
    <3> QED
      BY <3>1
  <2> QED
    BY <1>0, <2>8, <2>9 DEF StrtoullInv
<1> QED
  BY <1>3, <1>4

(* strtoull computes the number the digits make or, if it is too large,    *)
(* the largest one, for any string, any base and any ULLONG_MAX: the test  *)
(* against cutoff and cutlim (strtoull.c:93) refuses a digit exactly if    *)
(* the number with it would not fit, and later digits do not undo that.    *)
THEOREM StrtoullIsExactHolds == StrtoullSpec => []StrtoullIsExact
<1>1. ASSUME StrtoullInv, UNCHANGED strtoullVars PROVE StrtoullInv'
  <2>1. UNCHANGED <<str_pc, nptr, base, s, char, neg, acc, any, endptr>>
    BY <1>1 DEF strtoullVars
  <2>2. \A first : HasRead(first) => HasRead(first)'
    <3> SUFFICES ASSUME NEW first, HasRead(first) PROVE HasRead(first)'
      OBVIOUS
    <3>1. Begins(first)'
      BY <2>1 DEF HasRead, Begins
    <3>2. Number(first, s - 2)' = Number(first, s - 2)
      BY <2>1 DEF Number
    <3>3. Char(s - 1)' = Char(s - 1)
      BY <2>1 DEF Char
    <3> QED
      BY <2>1, <3>1, <3>2, <3>3 DEF HasRead
  <2>3. StrtoullIsExact'
    <3>1. \A first : Number(first, endptr)' = Number(first, endptr)
      BY <2>1 DEF Number
    <3>2. Char(endptr + 1)' = Char(endptr + 1)
      BY <2>1 DEF Char
    <3>3. StrtoullIsExact
      BY <1>1 DEF StrtoullInv
    <3> QED
      BY <2>1, <3>1, <3>2, <3>3 DEF StrtoullIsExact
  <2> QED
    BY <1>1, <2>1, <2>2, <2>3 DEF StrtoullInv
<1>2. StrtoullInv /\ [StrtoullNext]_strtoullVars => StrtoullInv'
  BY <1>1, StrtoullStarts, StrtoullReads, StrtoullFinishes DEF StrtoullNext
<1>3. StrtoullInv => StrtoullIsExact
  BY DEF StrtoullInv
<1> QED
  BY <1>2, <1>3, StrtoullInvInit, PTL DEF StrtoullSpec

-----------------------------------------------------------------------------
(* Numbers of a few digits.                                                *)

LEMMA Powers ==
  /\ \A k \in 0 .. HALF_BITS : TwoTo[k] \in Nat /\ TwoTo[k] # 0
  /\ TwoTo[0] = 1
  /\ \A k \in 1 .. HALF_BITS : TwoTo[k] = 2 * TwoTo[k - 1]
<1>1. HALF_BITS \in Nat
  BY DivisionAssumption
<1> DEFINE step == [p \in Nat \X (1 .. HALF_BITS) |-> 2 * p[1]]
           Rec(g) == [k \in 0 .. HALF_BITS |-> IF k = 0 THEN 1 ELSE 2 * g[k - 1]]
<1>2. IsStep(step, Nat, HALF_BITS)
  BY DEF IsStep
<1>3. PICK h : IsRecursion(h, Nat, 1, HALF_BITS, step)
  <2> HIDE DEF step
  <2> QED
    BY <1>1, <1>2, RecursionExists
<1>4. h = Rec(h)
  <2>1. /\ h \in [0 .. HALF_BITS -> Nat] /\ h[0] = 1
        /\ \A k \in 1 .. HALF_BITS : h[k] = step[<<h[k - 1], k>>]
    BY <1>3 DEF IsRecursion
  <2> SUFFICES ASSUME NEW k \in 0 .. HALF_BITS
               PROVE  h[k] = IF k = 0 THEN 1 ELSE 2 * h[k - 1]
    BY <2>1
  <2>2. CASE k = 0
    BY <2>1, <2>2
  <2>3. CASE k # 0
    <3>1. k \in 1 .. HALF_BITS /\ k - 1 \in 0 .. HALF_BITS
      BY <1>1, <2>3
    <3>2. h[k - 1] \in Nat
      BY <2>1, <3>1
    <3> QED
      BY <2>1, <2>3, <3>1, <3>2
  <2> QED
    BY <2>2, <2>3
<1>5. TwoTo = Rec(TwoTo)
  <2>1. \E g : g = Rec(g)
    BY <1>4
  <2>2. TwoTo = CHOOSE g : g = Rec(g)
    BY DEF TwoTo
  <2> HIDE DEF Rec
  <2> QED
    BY <2>1, <2>2
<1>6. ASSUME NEW k \in 0 .. HALF_BITS
      PROVE  TwoTo[k] = IF k = 0 THEN 1 ELSE 2 * TwoTo[k - 1]
  BY <1>5
<1>7. \A k \in 0 .. HALF_BITS : TwoTo[k] \in Nat /\ TwoTo[k] # 0
  <2> DEFINE T == { k \in 0 .. HALF_BITS : TwoTo[k] \in Nat /\ TwoTo[k] # 0 }
  <2>1. 0 \in T
    BY <1>1, <1>6
  <2>2. ASSUME NEW k \in 0 .. HALF_BITS - 1, k \in T PROVE k + 1 \in T
    <3>1. k + 1 \in 0 .. HALF_BITS /\ k + 1 # 0 /\ (k + 1) - 1 = k
      BY <1>1
    <3>2. TwoTo[k + 1] = 2 * TwoTo[k]
      BY <1>6, <3>1
    <3> QED
      BY <2>2, <3>1, <3>2
  <2> HIDE DEF T
  <2>3. \A k \in 0 .. HALF_BITS : k \in T
    BY <1>1, <2>1, <2>2, InductionUpTo
  <2> QED
    BY <2>3 DEF T
<1> QED
  BY <1>1, <1>6, <1>7

(* A shift to the left and one by the rest of the digit's bits. *)
LEMMA Shifts ==
  /\ B \in Nat /\ B >= 2 /\ B = 2 * (B \div 2)
  /\ \A k \in 0 .. HALF_BITS : TwoTo[k] * TwoTo[HALF_BITS - k] = B
<1>1. HALF_BITS \in Nat /\ HALF_BITS # 0 /\ HALF_BITS - 0 = HALF_BITS
  BY DivisionAssumption
<1>2. B = 2 * TwoTo[HALF_BITS - 1]
  BY <1>1, Powers DEF B
<1>3. TwoTo[HALF_BITS - 1] \in Nat /\ TwoTo[HALF_BITS - 1] # 0
  BY <1>1, Powers
<1>4. \A k \in 0 .. HALF_BITS : TwoTo[k] * TwoTo[HALF_BITS - k] = B
  <2> DEFINE T == { k \in 0 .. HALF_BITS : TwoTo[k] * TwoTo[HALF_BITS - k] = B }
  <2>1. 0 \in T
    <3>1. TwoTo[0] = 1 /\ TwoTo[HALF_BITS] = B /\ B \in Nat
      BY <1>1, <1>2, <1>3, Powers DEF B
    <3> QED
      BY <1>1, <3>1
  <2>2. ASSUME NEW k \in 0 .. HALF_BITS - 1, k \in T PROVE k + 1 \in T
    <3>1. /\ k + 1 \in 1 .. HALF_BITS /\ k \in 0 .. HALF_BITS /\ (k + 1) - 1 = k
          /\ HALF_BITS - k \in 1 .. HALF_BITS
          /\ HALF_BITS - (k + 1) \in 0 .. HALF_BITS
          /\ (HALF_BITS - k) - 1 = HALF_BITS - (k + 1)
      BY <1>1
    <3>2. TwoTo[k + 1] = 2 * TwoTo[k] /\ TwoTo[HALF_BITS - k] = 2 * TwoTo[HALF_BITS - (k + 1)]
      BY <3>1, Powers
    <3>3. PICK x \in Nat, y \in Nat : x = TwoTo[k] /\ y = TwoTo[HALF_BITS - (k + 1)]
      BY <3>1, Powers
    <3>4. x * (2 * y) = B
      BY <2>2, <3>2, <3>3
    <3>5. (2 * x) * y = x * (2 * y)
      OBVIOUS
    <3> QED
      BY <3>1, <3>2, <3>3, <3>4, <3>5
  <2> HIDE DEF T
  <2>3. \A k \in 0 .. HALF_BITS : k \in T
    BY <1>1, <2>1, <2>2, InductionUpTo
  <2> QED
    BY <2>3 DEF T
<1>5. B \in Nat /\ B >= 2 /\ B = 2 * (B \div 2)
  BY <1>2, <1>3
<1> QED
  BY <1>4, <1>5

(* B, k times. *)
Pow(k) ==
  CASE k = 0 -> 1
    [] k = 1 -> B
    [] k = 2 -> B * B
    [] k = 3 -> B * B * B
    [] k = 4 -> B * B * B * B
    [] OTHER -> B * B * B * B * B

LEMMA PowSteps ==
  /\ Pow(0) = 1 /\ Pow(1) = B
  /\ \A k \in 0 .. 4 : Pow(k + 1) = Pow(k) * B
  /\ \A k \in 0 .. 5 : Pow(k) \in Nat /\ Pow(k) # 0
<1>1. PICK b \in Nat : b = B /\ b >= 2
  BY Shifts
<1>2. PICK b2 \in Nat, b3 \in Nat, b4 \in Nat, b5 \in Nat :
        b2 = b * b /\ b3 = b2 * b /\ b4 = b3 * b /\ b5 = b4 * b
  OBVIOUS
<1>3. b2 # 0 /\ b3 # 0 /\ b4 # 0 /\ b5 # 0
  <2>1. b2 # 0
    BY <1>1, <1>2
  <2>2. b3 # 0
    BY <1>1, <1>2, <2>1
  <2>3. b4 # 0
    BY <1>1, <1>2, <2>2
  <2> QED
    BY <1>1, <1>2, <2>1, <2>2, <2>3
<1>4. /\ Pow(0) = 1 /\ Pow(1) = b /\ Pow(2) = b2 /\ Pow(3) = b3 /\ Pow(4) = b4 /\ Pow(5) = b5
  BY <1>1, <1>2 DEF Pow
<1>5. ASSUME NEW k \in 0 .. 4 PROVE Pow(k + 1) = Pow(k) * B
  <2>1. k = 0 \/ k = 1 \/ k = 2 \/ k = 3 \/ k = 4
    OBVIOUS
  <2> QED
    BY <1>1, <1>2, <1>4, <2>1
<1>6. ASSUME NEW k \in 0 .. 5 PROVE Pow(k) \in Nat /\ Pow(k) # 0
  <2>1. k = 0 \/ k = 1 \/ k = 2 \/ k = 3 \/ k = 4 \/ k = 5
    OBVIOUS
  <2> QED
    BY <1>1, <1>3, <1>4, <2>1
<1> QED
  BY <1>1, <1>4, <1>5, <1>6

(* The digits of Value, from the last one on. *)
DigitOf(x, first, last, k) == IF last - k >= first THEN x[last - k] ELSE 0

LEMMA ValueOfDigits ==
  ASSUME NEW x, NEW first, NEW last
  PROVE  Value(x, first, last) =
           (((DigitOf(x, first, last, 4) * B + DigitOf(x, first, last, 3)) * B
              + DigitOf(x, first, last, 2)) * B + DigitOf(x, first, last, 1)) * B
              + DigitOf(x, first, last, 0)
BY DEF Value, DigitOf, COMBINE

LEMMA SameDigits ==
  ASSUME NEW x, NEW first, NEW last, NEW y, NEW f, NEW l,
         \A k \in 0 .. 4 : DigitOf(x, first, last, k) = DigitOf(y, f, l, k)
  PROVE  Value(x, first, last) = Value(y, f, l)
<1>1. /\ DigitOf(x, first, last, 0) = DigitOf(y, f, l, 0)
      /\ DigitOf(x, first, last, 1) = DigitOf(y, f, l, 1)
      /\ DigitOf(x, first, last, 2) = DigitOf(y, f, l, 2)
      /\ DigitOf(x, first, last, 3) = DigitOf(y, f, l, 3)
      /\ DigitOf(x, first, last, 4) = DigitOf(y, f, l, 4)
  OBVIOUS
<1> QED
  BY <1>1, ValueOfDigits

(* Value, digit by digit. *)
LEMMA ValueSteps ==
  ASSUME NEW x, NEW first \in Int, NEW last \in Int, last - first <= 4,
         \A k \in first .. last : x[k] \in Int
  PROVE  /\ last < first => Value(x, first, last) = 0
         /\ first <= last => Value(x, first, last) = Value(x, first, last - 1) * B + x[last]
<1>1. PICK b \in Nat : b = B
  BY Shifts
<1>2. CASE last < first
  <2>1. \A k \in 0 .. 4 : DigitOf(x, first, last, k) = 0
    BY <1>2 DEF DigitOf
  <2>2. /\ DigitOf(x, first, last, 0) = 0 /\ DigitOf(x, first, last, 1) = 0
        /\ DigitOf(x, first, last, 2) = 0 /\ DigitOf(x, first, last, 3) = 0
        /\ DigitOf(x, first, last, 4) = 0
    BY <2>1
  <2>3. Value(x, first, last) = (((0 * b + 0) * b + 0) * b + 0) * b + 0
    BY <1>1, <2>2, ValueOfDigits
  <2> QED
    BY <1>2, <2>3
<1>3. CASE first <= last
  <2>1. \A k \in 0 .. 4 : DigitOf(x, first, last, k) \in Int
    BY <1>3 DEF DigitOf
  <2>2. PICK e0 \in Int, e1 \in Int, e2 \in Int, e3 \in Int, e4 \in Int :
          /\ DigitOf(x, first, last, 0) = e0 /\ DigitOf(x, first, last, 1) = e1
          /\ DigitOf(x, first, last, 2) = e2 /\ DigitOf(x, first, last, 3) = e3
          /\ DigitOf(x, first, last, 4) = e4
    BY <2>1
  <2>3. e0 = x[last]
    BY <1>3, <2>2 DEF DigitOf
  <2>4. /\ DigitOf(x, first, last - 1, 0) = e1
        /\ DigitOf(x, first, last - 1, 1) = e2
        /\ DigitOf(x, first, last - 1, 2) = e3
        /\ DigitOf(x, first, last - 1, 3) = e4
        /\ DigitOf(x, first, last - 1, 4) = 0
    <3>1. (last - 1) - 0 = last - 1 /\ (last - 1) - 1 = last - 2 /\ (last - 1) - 2 = last - 3
            /\ (last - 1) - 3 = last - 4 /\ ~((last - 1) - 4 >= first)
      BY <1>3
    <3> QED
      BY <2>2, <3>1 DEF DigitOf
  <2>5. Value(x, first, last) = (((e4 * b + e3) * b + e2) * b + e1) * b + e0
    BY <1>1, <2>2, ValueOfDigits
  <2>6. Value(x, first, last - 1) = (((0 * b + e4) * b + e3) * b + e2) * b + e1
    BY <1>1, <2>4, ValueOfDigits
  <2>7. 0 * b + e4 = e4
    OBVIOUS
  <2> QED
    BY <1>1, <1>3, <2>3, <2>5, <2>6, <2>7
<1> QED
  BY <1>2, <1>3

LEMMA ValueBounds ==
  ASSUME NEW x, NEW first \in Int, NEW last \in Int, first - 1 <= last, last - first <= 4,
         \A k \in first .. last : x[k] \in Digits
  PROVE  Value(x, first, last) \in Nat /\ Value(x, first, last) < Pow((last - first) + 1)
<1>1. PICK b \in Nat : b = B /\ b >= 2
  BY Shifts
<1>2. PICK c \in 0 .. 5 : c = (last - first) + 1
  OBVIOUS
<1>3. \A k \in first .. last : x[k] \in Nat /\ x[k] <= b - 1
  BY <1>1 DEF Digits
<1> DEFINE T == { k \in 0 .. c : /\ Value(x, first, (first - 1) + k) \in Nat
                                 /\ Value(x, first, (first - 1) + k) < Pow(k) }
<1>4. 0 \in T
  <2>1. (first - 1) + 0 = first - 1 /\ first - 1 < first /\ (first - 1) - first <= 4
        /\ first - 1 \in Int
    OBVIOUS
  <2>2. Value(x, first, first - 1) = 0
    BY <2>1, ValueSteps
  <2> QED
    BY <1>2, <2>1, <2>2, PowSteps
<1>5. ASSUME NEW k \in 0 .. c - 1, k \in T PROVE k + 1 \in T
  <2>1. PICK l \in Int : l = first + k
    OBVIOUS
  <2>2. /\ (first - 1) + (k + 1) = l /\ (first - 1) + k = l - 1
        /\ l \in first .. last /\ l - first <= 4 /\ k + 1 \in 0 .. c
    BY <1>2, <2>1
  <2>3. Value(x, first, l) = Value(x, first, l - 1) * b + x[l]
    <3>1. \A i \in first .. l : x[i] \in Int
      BY <1>3, <2>2
    <3> QED
      BY <1>1, <2>2, <3>1, ValueSteps
  <2>4. PICK y \in Nat : y = Value(x, first, l - 1) /\ y < Pow(k)
    BY <1>5, <2>2
  <2>5. PICK w \in Nat : w = Pow(k) /\ Pow(k + 1) = w * b
    BY <1>1, <1>2, PowSteps
  <2>6. PICK e \in Nat : e = x[l] /\ e <= b - 1
    BY <1>3, <2>2
  <2>7. (y + 1) * b <= w * b
    <3>1. y + 1 <= w
      BY <2>4, <2>5
    <3> QED
      BY <3>1
  <2>8. (y + 1) * b = y * b + b
    OBVIOUS
  <2>9. y * b + e \in Nat /\ y * b + e < w * b
    BY <2>6, <2>7, <2>8
  <2> QED
    BY <2>2, <2>3, <2>4, <2>5, <2>6, <2>9
<1>6. c \in T
  <2> HIDE DEF T
  <2>1. \A k \in 0 .. c : k \in T
    BY <1>4, <1>5, InductionUpTo
  <2> QED
    BY <2>1
<1>7. (first - 1) + c = last
  BY <1>2
<1> QED
  BY <1>2, <1>6, <1>7

(* A number in two parts. *)
LEMMA ValueParts ==
  ASSUME NEW x, NEW first \in Int, NEW mid \in Int, NEW last \in Int,
         first - 1 <= mid, mid <= last, last - first <= 4,
         \A k \in first .. last : x[k] \in Digits
  PROVE  Value(x, first, last) =
           Value(x, first, mid) * Pow(last - mid) + Value(x, mid + 1, last)
<1>1. PICK b \in Nat : b = B /\ b >= 2
  BY Shifts
<1>2. PICK c \in 0 .. 5 : c = last - mid
  OBVIOUS
<1>3. \A k \in first .. last : x[k] \in Nat
  BY <1>1 DEF Digits
<1>4. PICK y \in Nat : y = Value(x, first, mid)
  <2>1. \A k \in first .. mid : x[k] \in Digits
    OBVIOUS
  <2> QED
    BY <2>1, ValueBounds
<1> DEFINE T == { k \in 0 .. c : /\ Value(x, mid + 1, mid + k) \in Nat
                                 /\ Value(x, first, mid + k) =
                                      y * Pow(k) + Value(x, mid + 1, mid + k) }
<1>5. 0 \in T
  <2>1. mid + 0 = mid /\ mid < mid + 1 /\ mid - (mid + 1) <= 4 /\ mid + 1 \in Int
    OBVIOUS
  <2>2. Value(x, mid + 1, mid) = 0
    BY <2>1, ValueSteps
  <2>3. Pow(0) = 1 /\ y * 1 + 0 = y
    BY PowSteps
  <2> QED
    BY <1>2, <1>4, <2>1, <2>2, <2>3
<1>6. ASSUME NEW k \in 0 .. c - 1, k \in T PROVE k + 1 \in T
  <2>1. PICK l \in Int : l = mid + (k + 1)
    OBVIOUS
  <2>2. /\ mid + k = l - 1 /\ l \in first .. last /\ l - first <= 4 /\ k + 1 \in 0 .. c
        /\ mid + 1 <= l /\ l - (mid + 1) <= 4
    BY <1>2, <2>1
  <2>3. Value(x, first, l) = Value(x, first, l - 1) * b + x[l]
    <3>1. \A i \in first .. l : x[i] \in Int
      BY <1>3, <2>2
    <3> QED
      BY <1>1, <2>2, <3>1, ValueSteps
  <2>4. Value(x, mid + 1, l) = Value(x, mid + 1, l - 1) * b + x[l]
    <3>1. \A i \in mid + 1 .. l : x[i] \in Int
      BY <1>3, <2>2
    <3> QED
      BY <1>1, <2>2, <3>1, ValueSteps
  <2>5. PICK z \in Nat : z = Value(x, mid + 1, l - 1)
    BY <1>6, <2>2
  <2>6. PICK w \in Nat : w = Pow(k) /\ Pow(k + 1) = w * b
    BY <1>1, <1>2, PowSteps
  <2>7. PICK e \in Nat : e = x[l]
    BY <1>3, <2>2
  <2>8. Value(x, first, l - 1) = y * w + z
    BY <1>6, <2>2, <2>5, <2>6
  <2>9. (y * w + z) * b + e = y * (w * b) + (z * b + e)
    OBVIOUS
  <2>10. z * b + e \in Nat
    OBVIOUS
  <2> QED
    BY <2>1, <2>2, <2>3, <2>4, <2>5, <2>6, <2>7, <2>8, <2>9, <2>10
<1>7. c \in T
  <2> HIDE DEF T
  <2>1. \A k \in 0 .. c : k \in T
    BY <1>5, <1>6, InductionUpTo
  <2> QED
    BY <2>1
<1>8. mid + c = last
  BY <1>2
<1> QED
  BY <1>2, <1>4, <1>7, <1>8

(* Split returns the digits. *)
LEMMA SplitDigits ==
  ASSUME NEW x \in Quads
  PROVE  /\ Split(x) \in [1 .. 4 -> Digits]
         /\ Value(Split(x), 1, 4) = x
<1>1. PICK b \in Nat : b = B /\ b >= 2
  BY Shifts
<1>2. PICK w \in Nat : w = b * b /\ w # 0
  BY <1>1
<1>3. PICK hi \in Nat, lo \in Nat : hi = x \div w /\ lo = x % w /\ x = hi * w + lo /\ lo < w
  BY <1>1, <1>2 DEF Quads
<1>4. hi < w
  <2>1. x < w * w
    <3>1. b * b * b * b = (b * b) * (b * b)
      OBVIOUS
    <3> QED
      BY <1>1, <1>2, <3>1 DEF Quads, QUAD
  <2>2. CASE hi >= w
    <3>1. w * w <= hi * w
      BY <2>2
    <3> QED
      BY <1>3, <2>1, <3>1
  <2> QED
    BY <1>3, <2>2
<1>5. ASSUME NEW z \in Nat, z < w
      PROVE  \E g \in Nat, e \in Nat :
               g = z \div b /\ e = z % b /\ g < b /\ e < b /\ z = g * b + e
  <2>1. PICK g \in Nat, e \in Nat : g = z \div b /\ e = z % b /\ z = g * b + e /\ e < b
    BY <1>1
  <2>2. g < b
    <3>1. CASE g >= b
      <4>1. b * b <= g * b
        BY <3>1
      <4> QED
        BY <1>2, <1>5, <2>1, <4>1
    <3> QED
      BY <1>1, <3>1
  <2> QED
    BY <2>1, <2>2
<1>6. PICK a1 \in Nat, a2 \in Nat, a3 \in Nat, a4 \in Nat :
        /\ a1 = hi \div b /\ a2 = hi % b /\ a3 = lo \div b /\ a4 = lo % b
        /\ a1 < b /\ a2 < b /\ a3 < b /\ a4 < b
        /\ hi = a1 * b + a2 /\ lo = a3 * b + a4
  <2>1. PICK a1 \in Nat, a2 \in Nat :
          a1 = hi \div b /\ a2 = hi % b /\ a1 < b /\ a2 < b /\ hi = a1 * b + a2
    BY <1>4, <1>5
  <2>2. PICK a3 \in Nat, a4 \in Nat :
          a3 = lo \div b /\ a4 = lo % b /\ a3 < b /\ a4 < b /\ lo = a3 * b + a4
    BY <1>3, <1>5
  <2> QED
    BY <2>1, <2>2
<1>7. Split(x) = <<a1, a2, a3, a4>>
  BY <1>1, <1>2, <1>3, <1>6 DEF Split, HHALF, LHALF, Word
<1>8. a1 \in Digits /\ a2 \in Digits /\ a3 \in Digits /\ a4 \in Digits
  BY <1>1, <1>6 DEF Digits
<1>9. Split(x) \in [1 .. 4 -> Digits]
  BY <1>7, <1>8
<1>10. Value(Split(x), 1, 4) = (((0 * b + a1) * b + a2) * b + a3) * b + a4
  <2> DEFINE y == Split(x)
  <2>1. y[1] = a1 /\ y[2] = a2 /\ y[3] = a3 /\ y[4] = a4
    BY <1>7
  <2> HIDE DEF y
  <2>2. /\ DigitOf(y, 1, 4, 0) = a4 /\ DigitOf(y, 1, 4, 1) = a3 /\ DigitOf(y, 1, 4, 2) = a2
        /\ DigitOf(y, 1, 4, 3) = a1 /\ DigitOf(y, 1, 4, 4) = 0
    BY <2>1 DEF DigitOf
  <2>3. Value(y, 1, 4) = (((0 * b + a1) * b + a2) * b + a3) * b + a4
    BY <1>1, <2>2, ValueOfDigits
  <2> QED
    BY <2>3 DEF y
<1>11. (((0 * b + a1) * b + a2) * b + a3) * b + a4 = (a1 * b + a2) * (b * b) + (a3 * b + a4)
  OBVIOUS
<1> QED
  BY <1>2, <1>3, <1>6, <1>9, <1>10, <1>11

(* Leading zeros. *)
LEMMA LeadingZerosCount ==
  ASSUME NEW x, \E k \in 1 .. 4 : x[k] # 0
  PROVE  /\ LeadingZeros(x) \in 0 .. 3
         /\ x[LeadingZeros(x) + 1] # 0
         /\ \A k \in 1 .. LeadingZeros(x) : x[k] = 0
<1> DEFINE T == { k \in 1 .. 4 : x[k] # 0 }
<1>1. \E y \in T : \A z \in T : y <= z
  <2>1. T \subseteq Nat /\ T # {}
    OBVIOUS
  <2> HIDE DEF T
  <2> QED
    BY <2>1, LeastNumber
<1>2. PICK l : l = Min(T)
  OBVIOUS
<1>3. l \in T /\ \A z \in T : l <= z
  <2> HIDE DEF T
  <2> QED
    BY <1>1, <1>2 DEF Min
<1>4. LeadingZeros(x) = l - 1
  BY <1>2 DEF LeadingZeros
<1> QED
  BY <1>3, <1>4

-----------------------------------------------------------------------------
(* Shifts.                                                                 *)

LEMMA DivUnique ==
  ASSUME NEW b \in Nat, NEW g \in Int, NEW e \in Nat, e < b
  PROVE  (g * b + e) \div b = g /\ (g * b + e) % b = e
<1>1. PICK g2 \in Int, e2 \in Nat :
        /\ g2 = (g * b + e) \div b /\ e2 = (g * b + e) % b
        /\ g * b + e = g2 * b + e2 /\ e2 < b
  OBVIOUS
<1>2. CASE g < g2
  <2>1. (g + 1) * b <= g2 * b
    BY <1>2
  <2>2. (g + 1) * b = g * b + b
    OBVIOUS
  <2> QED
    BY <1>1, <2>1, <2>2
<1>3. CASE g2 < g
  <2>1. (g2 + 1) * b <= g * b
    BY <1>3
  <2>2. (g2 + 1) * b = g2 * b + b
    OBVIOUS
  <2> QED
    BY <1>1, <2>1, <2>2
<1> QED
  BY <1>1, <1>2, <1>3

(* A digit times P, where P * R = B: e \div R goes to the next digit.      *)
LEMMA ShiftedDigit ==
  ASSUME NEW P \in Nat, NEW R \in Nat, P # 0, R # 0, P * R = B, NEW e \in Digits
  PROVE  /\ e \in Nat /\ e \div R \in Nat /\ e \div R < P /\ e % R \in Nat
         /\ LHALF(e * P) = (e % R) * P /\ LHALF(e * P) \in Nat /\ LHALF(e * P) + P <= B
         /\ e * P = (e \div R) * B + LHALF(e * P)
<1>1. PICK b \in Nat : b = B /\ b >= 2
  BY Shifts
<1>2. e \in Nat /\ e < b
  BY <1>1 DEF Digits
<1>3. PICK g \in Nat, r \in Nat : g = e \div R /\ r = e % R /\ e = g * R + r /\ r < R
  BY <1>2
<1>4. g < P
  <2>1. CASE g >= P
    <3>1. P * R <= g * R
      BY <2>1
    <3> QED
      BY <1>1, <1>2, <1>3, <3>1
  <2> QED
    BY <2>1
<1>5. PICK c \in Nat : c = r * P /\ c + P <= b
  <2>1. (r + 1) * P <= R * P
    BY <1>3
  <2>2. (r + 1) * P = r * P + P /\ R * P = P * R /\ r * P \in Nat
    OBVIOUS
  <2> QED
    BY <1>1, <2>1, <2>2
<1>6. e * P = g * b + c
  <2>1. (g * R + r) * P = g * (P * R) + r * P
    OBVIOUS
  <2> QED
    BY <1>1, <1>3, <1>5, <2>1
<1>7. LHALF(e * P) = c
  <2>1. (g * b + c) % b = c
    <3>1. c < b
      BY <1>5
    <3> QED
      BY <3>1, DivUnique
  <2> QED
    BY <1>1, <1>6, <2>1 DEF LHALF
<1> QED
  BY <1>1, <1>2, <1>3, <1>4, <1>5, <1>6, <1>7

(* __shl multiplies, if nothing is shifted out of the first digit. *)
LEMMA ShlValue ==
  ASSUME NEW x, NEW first \in 0 .. 4, NEW last \in first .. 4,
         first .. last \subseteq DOMAIN x,
         \A k \in first .. last : x[k] \in Digits,
         NEW sh \in 0 .. HALF_BITS, x[first] * TwoTo[sh] < B,
         NEW y, y = Shl(x, first, last, sh)
  PROVE  /\ DOMAIN y = DOMAIN x /\ \A k \in DOMAIN x \ (first .. last) : y[k] = x[k]
         /\ \A k \in first .. last : y[k] \in Digits
         /\ y[first] >= x[first] * TwoTo[sh]
         /\ \A k \in first .. last - 1 :
              /\ x[k + 1] \div TwoTo[HALF_BITS - sh] \in Nat
              /\ x[k + 1] \div TwoTo[HALF_BITS - sh] < TwoTo[sh]
              /\ Value(y, first, k) =
                   Value(x, first, k) * TwoTo[sh] + x[k + 1] \div TwoTo[HALF_BITS - sh]
         /\ Value(y, first, last) = Value(x, first, last) * TwoTo[sh]
<1>1. PICK b \in Nat : b = B /\ b >= 2
  BY Shifts
<1>2. PICK P \in Nat, R \in Nat :
        P = TwoTo[sh] /\ R = TwoTo[HALF_BITS - sh] /\ P # 0 /\ R # 0 /\ P * R = b
  <2>1. HALF_BITS - sh \in 0 .. HALF_BITS
    BY DivisionAssumption
  <2> QED
    BY <1>1, <2>1, Powers, Shifts
<1> DEFINE carry(k) == IF k < last THEN x[k + 1] \div R ELSE 0
<1>3. ASSUME NEW k \in first .. last
      PROVE  /\ x[k] \in Nat /\ x[k] \div R \in Nat /\ x[k] \div R < P
             /\ LHALF(x[k] * P) \in Nat /\ LHALF(x[k] * P) + P <= b
             /\ x[k] * P = (x[k] \div R) * b + LHALF(x[k] * P)
  <2>1. PICK e \in Digits : e = x[k]
    OBVIOUS
  <2>2. /\ e \in Nat /\ e \div R \in Nat /\ e \div R < P
        /\ LHALF(e * P) \in Nat /\ LHALF(e * P) + P <= b
        /\ e * P = (e \div R) * b + LHALF(e * P)
    <3>1. /\ e \in Nat /\ e \div R \in Nat /\ e \div R < P
          /\ LHALF(e * P) \in Nat /\ LHALF(e * P) + P <= B
          /\ e * P = (e \div R) * B + LHALF(e * P)
      <4>1. P # 0 /\ R # 0 /\ P * R = B
        BY <1>1, <1>2
      <4> QED
        BY <4>1, ShiftedDigit
    <3> QED
      BY <1>1, <3>1
  <2> QED
    BY <2>1, <2>2
<1>4. ASSUME NEW k \in first .. last PROVE carry(k) \in Nat /\ carry(k) < P
  <2>1. CASE k < last
    <3>1. k + 1 \in first .. last
      BY <2>1
    <3> QED
      BY <1>3, <2>1, <3>1
  <2>2. CASE ~(k < last)
    BY <1>2, <2>2
  <2> QED
    BY <2>1, <2>2
<1>5. /\ DOMAIN y = DOMAIN x
      /\ \A k \in DOMAIN x \ (first .. last) : y[k] = x[k]
      /\ \A k \in first .. last : y[k] = LHALF(x[k] * P) + carry(k)
  BY <1>2 DEF Shl
<1> HIDE DEF carry
<1>6. ASSUME NEW k \in first .. last PROVE y[k] \in Nat /\ y[k] \in Digits
  <2>1. PICK c \in Nat, g \in Nat : c = LHALF(x[k] * P) /\ g = carry(k) /\ c + P <= b /\ g < P
    BY <1>3, <1>4
  <2>2. y[k] = c + g
    BY <1>5, <2>1
  <2> QED
    BY <1>1, <2>1, <2>2 DEF Digits
<1>7. x[first] \div R = 0 /\ x[first] * P = LHALF(x[first] * P)
  <2>1. PICK g \in Nat, c \in Nat :
          g = x[first] \div R /\ c = LHALF(x[first] * P) /\ x[first] * P = g * b + c
    BY <1>3
  <2>2. g = 0
    <3>1. CASE g >= 1
      <4>1. 1 * b <= g * b
        BY <3>1
      <4> QED
        BY <1>1, <1>2, <2>1, <4>1
    <3> QED
      BY <3>1
  <2> QED
    BY <2>1, <2>2
<1> DEFINE T == { i \in 0 .. last - first :
                    Value(y, first, first + i) = Value(x, first, first + i) * P + carry(first + i) }
<1>8. 0 \in T
  <2>1. first \in first .. last /\ first + 0 = first /\ first \in Int /\ first - 1 \in Int
        /\ first - first <= 4 /\ (first - 1) - first <= 4
    OBVIOUS
  <2>2. Value(y, first, first) = Value(y, first, first - 1) * B + y[first]
        /\ Value(x, first, first) = Value(x, first, first - 1) * B + x[first]
        /\ Value(y, first, first - 1) = 0 /\ Value(x, first, first - 1) = 0
    <3>1. \A k \in first .. first : x[k] \in Int /\ y[k] \in Int
      BY <1>3, <1>6
    <3>2. \A k \in first .. first - 1 : x[k] \in Int /\ y[k] \in Int
      OBVIOUS
    <3> QED
      BY <2>1, <3>1, <3>2, ValueSteps
  <2>3. y[first] = x[first] * P + carry(first)
    BY <1>5, <1>7
  <2>4. Value(y, first, first) = y[first] /\ Value(x, first, first) = x[first]
    <3>1. x[first] \in Int /\ y[first] \in Int
      BY <1>3, <1>6
    <3> QED
      BY <1>1, <2>2, <3>1
  <2> QED
    BY <2>1, <2>3, <2>4
<1>9. ASSUME NEW i \in 0 .. (last - first) - 1, i \in T PROVE i + 1 \in T
  <2>1. PICK k \in Int : k = first + (i + 1)
    OBVIOUS
  <2>2. /\ first + i = k - 1 /\ k \in first .. last /\ k - 1 \in first .. last
        /\ first <= k /\ k - first <= 4 /\ k - 1 < last /\ (k - 1) + 1 = k
        /\ i + 1 \in 0 .. last - first
    BY <2>1
  <2>3. Value(y, first, k) = Value(y, first, k - 1) * b + y[k]
        /\ Value(x, first, k) = Value(x, first, k - 1) * b + x[k]
    <3>1. \A l \in first .. k : x[l] \in Int /\ y[l] \in Int
      BY <1>3, <1>6, <2>2
    <3> QED
      BY <1>1, <2>2, <3>1, ValueSteps
  <2>4. PICK w \in Nat : w = Value(x, first, k - 1)
    <3>1. \A l \in first .. k - 1 : x[l] \in Digits
      BY <2>2
    <3>2. k - 1 \in Int /\ first - 1 <= k - 1 /\ (k - 1) - first <= 4
      BY <2>2
    <3> QED
      BY <3>1, <3>2, ValueBounds
  <2>5. PICK e \in Nat, g \in Nat, c \in Nat, r \in Nat :
          /\ e = x[k] /\ g = e \div R /\ c = LHALF(e * P) /\ e * P = g * b + c /\ r = carry(k)
    BY <1>3, <1>4, <2>2
  <2>6. Value(y, first, k - 1) = w * P + g
    <3>1. carry(k - 1) = g
      BY <2>2, <2>5 DEF carry
    <3> QED
      BY <1>9, <2>2, <2>4, <3>1
  <2>7. y[k] = c + r
    BY <1>5, <2>2, <2>5
  <2>8. (w * P + g) * b + (c + r) = (w * b + e) * P + r
    <3>1. (w * P + g) * b + (c + r) = (w * b) * P + (g * b + c) + r
      OBVIOUS
    <3>2. (w * b + e) * P + r = (w * b) * P + e * P + r
      OBVIOUS
    <3> QED
      BY <2>5, <3>1, <3>2
  <2>9. Value(y, first, k) = Value(x, first, k) * P + carry(k)
    BY <2>3, <2>4, <2>5, <2>6, <2>7, <2>8
  <2> QED
    BY <2>1, <2>2, <2>9
<1>10. ASSUME NEW k \in first .. last
       PROVE  Value(y, first, k) = Value(x, first, k) * P + carry(k)
  <2>1. \A i \in 0 .. last - first : i \in T
    <3>1. last - first \in Nat
      OBVIOUS
    <3> HIDE DEF T
    <3> QED
      BY <1>8, <1>9, <3>1, InductionUpTo
  <2>2. k - first \in 0 .. last - first /\ first + (k - first) = k
    OBVIOUS
  <2> QED
    BY <2>1, <2>2
<1>11. y[first] >= x[first] * P
  <2>1. PICK e \in Nat, g \in Nat : e = x[first] * P /\ g = carry(first)
    BY <1>3, <1>4, <1>7
  <2>2. y[first] = e + g
    BY <1>5, <1>7, <2>1
  <2> QED
    BY <2>1, <2>2
<1>12. \A k \in first .. last - 1 :
         /\ x[k + 1] \div R \in Nat /\ x[k + 1] \div R < P
         /\ Value(y, first, k) = Value(x, first, k) * P + x[k + 1] \div R
  <2> SUFFICES ASSUME NEW k \in first .. last - 1
               PROVE  /\ x[k + 1] \div R \in Nat /\ x[k + 1] \div R < P
                      /\ Value(y, first, k) = Value(x, first, k) * P + x[k + 1] \div R
    OBVIOUS
  <2>1. k \in first .. last /\ k + 1 \in first .. last /\ k < last
    OBVIOUS
  <2>2. carry(k) = x[k + 1] \div R
    BY <2>1 DEF carry
  <2> QED
    BY <1>3, <1>10, <2>1, <2>2
<1>13. Value(y, first, last) = Value(x, first, last) * P
  <2>1. carry(last) = 0 /\ last \in first .. last
    BY DEF carry
  <2>2. Value(x, first, last) \in Nat
    <3>1. first - 1 <= last /\ last - first <= 4 /\ first \in Int /\ last \in Int
      OBVIOUS
    <3> QED
      BY <3>1, ValueBounds
  <2> QED
    BY <1>10, <2>1, <2>2
<1> QED
  BY <1>2, <1>5, <1>6, <1>11, <1>12, <1>13

LEMMA DivRem ==
  ASSUME NEW e \in Nat, NEW P \in Nat, P # 0
  PROVE  \E g \in Nat, c \in Nat : g = e \div P /\ c = e % P /\ e = g * P + c /\ c < P
OBVIOUS

(* The shift back divides. *)
ShiftsBack(x, y, first, P, R) ==
  \A k \in first .. 4 : y[k] = x[k] \div P + LHALF(x[k - 1] * R)

LEMMA ShrValue ==
  ASSUME NEW x, NEW y, NEW first \in 1 .. 4, x[first - 1] = 0,
         \A k \in first .. 4 : x[k] \in Digits,
         NEW P \in Nat, NEW R \in Nat, P # 0, R # 0, P * R = B,
         ShiftsBack(x, y, first, P, R)
  PROVE  /\ \A k \in first .. 4 : y[k] \in Nat
         /\ Value(y, first, 4) \in Nat
         /\ Value(x, first, 4) = Value(y, first, 4) * P + (x[4] % P)
<1>1. PICK b \in Nat : b = B /\ b >= 2
  BY Shifts
<1>2. ASSUME NEW k \in first - 1 .. 4 PROVE x[k] \in Digits
  <2>1. 0 \in Digits
    BY <1>1 DEF Digits
  <2>2. k = first - 1 \/ k \in first .. 4
    OBVIOUS
  <2> QED
    BY <2>1, <2>2
<1> DEFINE rest(k) == x[k] % P
<1>3. ASSUME NEW k \in first - 1 .. 4
      PROVE  \E e \in Nat, g \in Nat, r \in Nat :
               /\ e = x[k] /\ g = x[k] \div P /\ r = rest(k)
               /\ e = g * P + r /\ LHALF(x[k] * R) = r * R
  <2>1. R * P = B
    <3>1. R * P = P * R
      OBVIOUS
    <3> QED
      BY <3>1
  <2>2. PICK e \in Digits : e = x[k]
    BY <1>2
  <2>3. e \in Nat
    BY <2>1, ShiftedDigit
  <2>4. PICK g \in Nat, r \in Nat : g = e \div P /\ r = e % P /\ e = g * P + r
    BY <2>3, DivRem
  <2>5. LHALF(e * R) = r * R
    BY <2>1, <2>4, ShiftedDigit
  <2> QED
    BY <2>2, <2>3, <2>4, <2>5
<1> HIDE DEF rest
<1>n. \A k \in first - 1 .. 4 : x[k] \in Nat
  BY <1>3
<1>4. ASSUME NEW k \in first .. 4
      PROVE  \E e \in Nat, g \in Nat, r \in Nat, r1 \in Nat :
               /\ e = x[k] /\ r = rest(k) /\ r1 = rest(k - 1) /\ e = g * P + r
               /\ y[k] = g + r1 * R
  <2>1. k \in first - 1 .. 4 /\ k - 1 \in first - 1 .. 4
    OBVIOUS
  <2>2. PICK e \in Nat, g \in Nat, r \in Nat :
          /\ e = x[k] /\ g = x[k] \div P /\ r = rest(k)
          /\ e = g * P + r /\ LHALF(x[k] * R) = r * R
    BY <1>3, <2>1, Zenon
  <2>3. PICK r1 \in Nat : r1 = rest(k - 1) /\ LHALF(x[k - 1] * R) = r1 * R
    BY <1>3, <2>1, Zenon
  <2>4. y[k] = g + r1 * R
    BY <2>2, <2>3 DEF ShiftsBack
  <2> QED
    BY <2>2, <2>3, <2>4
<1>m. \A k \in first .. 4 : y[k] \in Nat
  <2> SUFFICES ASSUME NEW k \in first .. 4 PROVE y[k] \in Nat
    OBVIOUS
  <2>1. PICK g \in Nat, r1 \in Nat : y[k] = g + r1 * R
    BY <1>4
  <2> QED
    BY <2>1
<1> DEFINE T == { i \in 0 .. 5 - first :
                    /\ Value(y, first, (first - 1) + i) \in Nat
                    /\ Value(x, first, (first - 1) + i) =
                         Value(y, first, (first - 1) + i) * P + rest((first - 1) + i) }
<1>5. 0 \in T
  <2>1. (first - 1) + 0 = first - 1 /\ first - 1 < first /\ (first - 1) - first <= 4
        /\ first - 1 \in Int /\ first \in Int
    OBVIOUS
  <2>2. Value(y, first, first - 1) = 0 /\ Value(x, first, first - 1) = 0
    BY <2>1, ValueSteps
  <2>3. 0 * P + rest(first - 1) = 0
    BY DEF rest
  <2> QED
    BY <2>1, <2>2, <2>3
<1>6. ASSUME NEW i \in 0 .. (5 - first) - 1, i \in T PROVE i + 1 \in T
  <2>1. PICK k \in Int : k = first + i
    OBVIOUS
  <2>2. /\ (first - 1) + (i + 1) = k /\ (first - 1) + i = k - 1 /\ i + 1 \in 0 .. 5 - first
        /\ k \in first .. 4 /\ k \in first - 1 .. 4 /\ k - 1 \in first - 1 .. 4
        /\ first <= k /\ k - first <= 4
    BY <2>1
  <2>3. Value(y, first, k) = Value(y, first, k - 1) * b + y[k]
        /\ Value(x, first, k) = Value(x, first, k - 1) * b + x[k]
    <3>1. \A l \in first .. k : x[l] \in Int /\ y[l] \in Int
      <4> SUFFICES ASSUME NEW l \in first .. k PROVE x[l] \in Int /\ y[l] \in Int
        OBVIOUS
      <4>1. l \in first .. 4 /\ l \in first - 1 .. 4
        BY <2>2
      <4> QED
        BY <1>n, <1>m, <4>1
    <3> QED
      BY <1>1, <2>2, <3>1, ValueSteps
  <2>4. PICK w \in Nat : w = Value(y, first, k - 1)
    BY <1>6, <2>2
  <2>5. PICK e \in Nat, g \in Nat, r \in Nat, r1 \in Nat :
          /\ e = x[k] /\ r = rest(k) /\ r1 = rest(k - 1) /\ e = g * P + r
          /\ y[k] = g + r1 * R
    BY <1>4, <2>2
  <2>7. Value(x, first, k - 1) = w * P + r1
    BY <1>6, <2>2, <2>4, <2>5
  <2>9. (w * P + r1) * b + (g * P + r) = (w * b + (g + r1 * R)) * P + r
    <3>1. (w * b + (g + r1 * R)) * P + r = (w * P) * b + r1 * (P * R) + (g * P + r)
      OBVIOUS
    <3>2. (w * P + r1) * b = (w * P) * b + r1 * b
      OBVIOUS
    <3> QED
      BY <1>1, <3>1, <3>2
  <2>10. w * b + (g + r1 * R) \in Nat
    OBVIOUS
  <2>11. Value(x, first, k) = (w * P + r1) * b + (g * P + r)
    BY <2>3, <2>5, <2>7
  <2>12. Value(y, first, k) = w * b + (g + r1 * R)
    BY <2>3, <2>4, <2>5
  <2> QED
    BY <2>2, <2>5, <2>9, <2>10, <2>11, <2>12
<1>7. 5 - first \in T
  <2>1. 5 - first \in Nat /\ 5 - first \in 0 .. 5 - first
    OBVIOUS
  <2> HIDE DEF T
  <2>2. \A i \in 0 .. 5 - first : i \in T
    BY <1>5, <1>6, <2>1, InductionUpTo
  <2> QED
    BY <2>1, <2>2
<1>8. (first - 1) + (5 - first) = 4
  OBVIOUS
<1>9. Value(y, first, 4) \in Nat /\ Value(x, first, 4) = Value(y, first, 4) * P + rest(4)
  BY <1>7, <1>8
<1> QED
  BY <1>m, <1>9 DEF rest

-----------------------------------------------------------------------------
(* Multiply and subtract, and add back.                                    *)

LEMMA OwedDigit ==
  ASSUME NEW x \in Digits, NEW y \in Digits, NEW e \in Digits, NEW c \in Digits,
         NEW t, t = Word(x - y * e - c)
  PROVE  /\ LHALF(t) \in Digits /\ Borrow(t) \in Digits
         /\ x - y * e - c = LHALF(t) - Borrow(t) * B
<1>1. PICK b \in Nat : b = B /\ b >= 2
  BY Shifts
<1>2. /\ x \in Nat /\ y \in Nat /\ e \in Nat /\ c \in Nat
      /\ x < b /\ y < b /\ e < b /\ c < b
  BY <1>1 DEF Digits
<1>3. PICK z \in Nat : z = y * e /\ z + b <= y * b + b - y
  <2>1. y * (e + 1) <= y * b
    BY <1>2
  <2>2. y * (e + 1) = y * e + y /\ y * e \in Nat
    BY <1>2
  <2> QED
    BY <1>2, <2>1, <2>2
<1>4. z + b <= b * b - b + 1
  <2>1. (y + 1) * (b - 1) <= b * (b - 1)
    BY <1>2
  <2>2. (y + 1) * (b - 1) = y * b + b - y - 1 /\ b * (b - 1) = b * b - b
    BY <1>2
  <2> QED
    BY <1>2, <1>3, <2>1, <2>2
<1>5. PICK w \in Int, b2 \in Nat :
        /\ b2 = b * b /\ b <= b2
        /\ w = x - y * e - c /\ w < b /\ w + b2 >= b
  <2>1. b <= b * b
    BY <1>1
  <2> QED
    BY <1>2, <1>3, <1>4, <2>1
<1>6. t = w % b2
  BY <1>1, <1>5 DEF Word
<1>7. ASSUME w >= 0
      PROVE  /\ LHALF(t) \in Digits /\ Borrow(t) \in Digits
             /\ w = LHALF(t) - Borrow(t) * B
  <2>1. t = w
    <3>1. (0 * b2 + w) % b2 = w
      BY <1>5, <1>7, DivUnique
    <3> QED
      BY <1>6, <3>1
  <2>2. w \div b = 0 /\ w % b = w
    <3>1. (0 * b + w) \div b = 0 /\ (0 * b + w) % b = w
      BY <1>5, <1>7, DivUnique
    <3> QED
      BY <3>1
  <2>3. b % b = 0
    <3>1. (1 * b + 0) % b = 0
      BY <1>1, DivUnique
    <3> QED
      BY <3>1
  <2>4. LHALF(t) = w /\ Borrow(t) = 0
    BY <1>1, <2>1, <2>2, <2>3 DEF LHALF, Borrow, HHALF
  <2>5. w \in Digits /\ 0 \in Digits
    BY <1>1, <1>5, <1>7 DEF Digits
  <2>6. w = w - 0 * B
    BY <1>1
  <2> QED
    BY <2>4, <2>5, <2>6
<1>8. ASSUME w < 0
      PROVE  /\ LHALF(t) \in Digits /\ Borrow(t) \in Digits
             /\ w = LHALF(t) - Borrow(t) * B
  <2>1. PICK r \in Nat : r = w + b2 /\ b <= r /\ r < b2
    BY <1>5, <1>8
  <2>2. t = r
    <3>1. ((-1) * b2 + r) % b2 = r
      BY <2>1, DivUnique
    <3>2. (-1) * b2 + r = w
      BY <2>1
    <3> QED
      BY <1>6, <3>1, <3>2
  <2>3. PICK g \in Nat, l \in Nat : g = r \div b /\ l = r % b /\ r = g * b + l /\ l < b
    BY <1>1, DivRem
  <2>4. g >= 1 /\ g < b
    <3>1. CASE g = 0
      BY <2>1, <2>3, <3>1
    <3>2. CASE g >= b
      <4>1. b * b <= g * b
        BY <3>2
      <4> QED
        BY <1>5, <2>1, <2>3, <4>1
    <3> QED
      BY <3>1, <3>2
  <2>5. PICK h \in Nat : h = b - g /\ h < b
    BY <2>4
  <2>6. h % b = h
    <3>1. (0 * b + h) % b = h
      BY <2>5, DivUnique
    <3> QED
      BY <3>1
  <2>7. LHALF(t) = l /\ Borrow(t) = h
    BY <1>1, <2>2, <2>3, <2>5, <2>6 DEF LHALF, Borrow, HHALF
  <2>8. w = l - h * b
    <3>1. (b - g) * b = b * b - g * b
      OBVIOUS
    <3>2. PICK gb \in Nat : gb = g * b
      OBVIOUS
    <3>3. h * b = b2 - gb
      BY <1>5, <2>5, <3>1, <3>2
    <3>4. r = gb + l
      BY <2>3, <3>2
    <3> QED
      BY <1>5, <2>1, <3>3, <3>4
  <2>9. l \in Digits /\ h \in Digits
    BY <1>1, <2>3, <2>5 DEF Digits
  <2> QED
    BY <1>1, <2>7, <2>8, <2>9
<1>9. /\ LHALF(t) \in Digits /\ Borrow(t) \in Digits
      /\ w = LHALF(t) - Borrow(t) * B
  BY <1>5, <1>7, <1>8
<1> QED
  BY <1>5, <1>9

LEMMA TopDigit ==
  ASSUME NEW x \in Digits, NEW c \in Digits, NEW t, t = Word(x - 0 - c)
  PROVE  /\ LHALF(t) \in Digits
         /\ HHALF(t) = 0 => x - c = LHALF(t)
         /\ HHALF(t) # 0 => x - c = LHALF(t) - B
<1>1. PICK b \in Nat : b = B /\ b >= 2
  BY Shifts
<1>2. x \in Nat /\ c \in Nat /\ x < b /\ c < b
  BY <1>1 DEF Digits
<1>3. PICK w \in Int, b2 \in Nat : b2 = b * b /\ b <= b2 /\ w = x - 0 - c /\ w < b /\ w > -b
  <2>1. b <= b * b
    BY <1>1
  <2> QED
    BY <1>2, <2>1
<1>4. t = w % b2
  BY <1>1, <1>3 DEF Word
<1>5. CASE w >= 0
  <2>1. t = w
    <3>1. (0 * b2 + w) % b2 = w
      BY <1>3, <1>5, DivUnique
    <3> QED
      BY <1>4, <3>1
  <2>2. w \div b = 0 /\ w % b = w
    <3>1. (0 * b + w) \div b = 0 /\ (0 * b + w) % b = w
      BY <1>3, <1>5, DivUnique
    <3> QED
      BY <3>1
  <2>3. LHALF(t) = w /\ HHALF(t) = 0
    BY <1>1, <2>1, <2>2 DEF LHALF, HHALF
  <2> QED
    BY <1>1, <1>2, <1>3, <1>5, <2>3 DEF Digits
<1>6. CASE w < 0
  <2>1. PICK r \in Nat, l \in Nat : r = w + b2 /\ l = w + b /\ l < b /\ r < b2
    BY <1>3, <1>6
  <2>2. t = r
    <3>1. ((-1) * b2 + r) % b2 = r
      BY <2>1, DivUnique
    <3>2. (-1) * b2 + r = w
      BY <2>1
    <3> QED
      BY <1>4, <3>1, <3>2
  <2>3. r = (b - 1) * b + l
    <3>1. (b - 1) * b = b * b - b
      OBVIOUS
    <3> QED
      BY <1>3, <2>1, <3>1
  <2>4. r \div b = b - 1 /\ r % b = l
    <3>1. ((b - 1) * b + l) \div b = b - 1 /\ ((b - 1) * b + l) % b = l
      <4>1. b - 1 \in Int
        OBVIOUS
      <4> QED
        BY <2>1, <4>1, DivUnique
    <3> QED
      BY <2>3, <3>1
  <2>5. LHALF(t) = l /\ HHALF(t) = b - 1
    BY <1>1, <2>2, <2>4 DEF LHALF, HHALF
  <2> QED
    BY <1>1, <1>2, <1>3, <2>1, <2>5 DEF Digits
<1> QED
  BY <1>3, <1>5, <1>6

(* The digits that t leaves are x[a] .. x[a+N] less e times y[1] .. y[N].  *)
Subtracts(x, a, y, N, e, t) ==
  \A i \in 0 .. N :
    t[i] = Word(x[a + i] - (IF i = 0 THEN 0 ELSE y[i] * e)
                         - (IF i = N THEN 0 ELSE Borrow(t[i + 1])))

LEMMA SubtractDigits ==
  ASSUME NEW N \in 1 .. 4, NEW a \in 0 .. 4 - N, NEW x, NEW y, NEW z, NEW t, NEW e \in Digits,
         \A i \in a .. a + N : x[i] \in Digits,
         \A i \in 1 .. N : y[i] \in Digits,
         Subtracts(x, a, y, N, e, t),
         \A i \in 0 .. N : z[a + i] = LHALF(t[i])
  PROVE  /\ \A i \in a .. a + N : z[i] \in Digits
         /\ HHALF(t[0]) = 0 => Value(z, a, a + N) = Value(x, a, a + N) - e * Value(y, 1, N)
         /\ HHALF(t[0]) # 0 =>
              Value(z, a, a + N) = Value(x, a, a + N) - e * Value(y, 1, N) + Pow(N + 1)
<1>1. PICK b \in Nat : b = B /\ b >= 2
  BY Shifts
<1>n. N \in Nat /\ a \in Nat /\ 0 \in Digits /\ \A w \in Digits : w \in Nat
  BY <1>1 DEF Digits
<1> DEFINE owed(i) == IF i = N THEN 0 ELSE Borrow(t[i + 1])
<1>2. ASSUME NEW i \in 1 .. N, owed(i) \in Digits
      PROVE  /\ LHALF(t[i]) \in Digits /\ Borrow(t[i]) \in Digits
             /\ x[a + i] - y[i] * e - owed(i) = LHALF(t[i]) - Borrow(t[i]) * B
  <2>1. t[i] = Word(x[a + i] - y[i] * e - owed(i))
    BY DEF Subtracts
  <2>2. x[a + i] \in Digits /\ y[i] \in Digits
    <3>1. a + i \in a .. a + N
      OBVIOUS
    <3> QED
      BY <3>1
  <2> HIDE DEF owed
  <2> QED
    BY <1>2, <2>1, <2>2, OwedDigit
<1>3. \A i \in 0 .. N : owed(i) \in Digits
  <2> DEFINE T == { k \in 0 .. N : owed(N - k) \in Digits }
  <2>1. 0 \in T
    BY <1>n
  <2>2. ASSUME NEW k \in 0 .. N - 1, k \in T PROVE k + 1 \in T
    <3>1. N - k \in 1 .. N /\ N - (k + 1) # N /\ (N - (k + 1)) + 1 = N - k /\ k + 1 \in 0 .. N
      BY <1>n
    <3>2. Borrow(t[N - k]) \in Digits
      <4>1. owed(N - k) \in Digits
        BY <2>2
      <4> HIDE DEF owed
      <4> QED
        BY <1>2, <3>1, <4>1
    <3>3. owed(N - (k + 1)) = Borrow(t[N - k])
      BY <3>1
    <3> QED
      BY <3>1, <3>2, <3>3
  <2>3. \A k \in 0 .. N : k \in T
    <3> HIDE DEF T
    <3> QED
      BY <1>n, <2>1, <2>2, InductionUpTo
  <2> SUFFICES ASSUME NEW i \in 0 .. N PROVE owed(i) \in Digits
    OBVIOUS
  <2>4. N - i \in 0 .. N /\ N - (N - i) = i
    BY <1>n
  <2>5. owed(N - (N - i)) \in Digits
    <3> HIDE DEF owed
    <3> QED
      BY <2>3, <2>4
  <2> HIDE DEF owed
  <2> QED
    BY <2>4, <2>5
<1>4. owed(N) = 0
  OBVIOUS
<1>5. \A i \in 1 .. N : owed(i - 1) = Borrow(t[i])
  OBVIOUS
<1>6. t[0] = Word(x[a] - 0 - owed(0))
  <2>1. a + 0 = a /\ 0 \in 0 .. N
    BY <1>n
  <2> QED
    BY <2>1 DEF Subtracts
<1> HIDE DEF owed
<1>7. ASSUME NEW i \in 1 .. N
      PROVE  \E xi \in Nat, yi \in Nat, zi \in Nat, c \in Nat, c1 \in Nat :
               /\ xi = x[a + i] /\ yi = y[i] /\ zi = z[a + i] /\ zi \in Digits
               /\ c = owed(i) /\ c1 = owed(i - 1)
               /\ xi - yi * e - c = zi - c1 * b
  <2>1. a + i \in a .. a + N /\ i \in 0 .. N /\ i - 1 \in 0 .. N
    OBVIOUS
  <2>2. z[a + i] = LHALF(t[i]) /\ owed(i - 1) = Borrow(t[i])
    BY <1>5, <2>1
  <2>3. z[a + i] \in Digits /\ x[a + i] - y[i] * e - owed(i) = z[a + i] - owed(i - 1) * b
    BY <1>1, <1>2, <1>3, <2>1, <2>2
  <2>4. x[a + i] \in Nat /\ y[i] \in Nat /\ z[a + i] \in Nat /\ owed(i) \in Nat /\ owed(i - 1) \in Nat
    BY <1>3, <1>n, <2>1, <2>3
  <2> QED
    BY <2>3, <2>4
<1>8. PICK p \in {0, 1} : HHALF(t[0]) = 0 <=> p = 0
  OBVIOUS
<1>9. x[a] \in Nat /\ z[a] \in Digits /\ z[a] \in Nat /\ z[a] = x[a] - owed(0) + p * b
  <2>1. x[a] \in Digits /\ owed(0) \in Digits
    <3>1. a \in a .. a + N /\ 0 \in 0 .. N
      BY <1>n
    <3> QED
      BY <1>3, <3>1
  <2>2. z[a] = LHALF(t[0])
    <3>1. a + 0 = a /\ 0 \in 0 .. N
      BY <1>n
    <3> QED
      BY <3>1
  <2>3. /\ z[a] \in Digits
        /\ p = 0 => x[a] - owed(0) = z[a]
        /\ p # 0 => x[a] - owed(0) = z[a] - b
    BY <1>1, <1>6, <1>8, <2>1, <2>2, TopDigit
  <2>4. x[a] \in Nat /\ owed(0) \in Nat /\ z[a] \in Nat
    BY <1>n, <2>1, <2>3
  <2> QED
    BY <2>3, <2>4
<1>10. ASSUME NEW k \in a .. a + N PROVE z[k] \in Digits /\ z[k] \in Nat
  <2>1. CASE k = a
    BY <1>9, <2>1
  <2>2. CASE k # a
    <3>1. k - a \in 1 .. N /\ a + (k - a) = k
      BY <2>2
    <3> QED
      BY <1>7, <3>1
  <2> QED
    BY <2>1, <2>2
<1> DEFINE T == { i \in 0 .. N : Value(z, a, a + i) = Value(x, a, a + i) - e * Value(y, 1, i)
                                   - owed(i) + p * Pow(i + 1) }
<1>11. 0 \in T
  <2>1. a + 0 = a /\ a - 1 < a /\ a - a <= 4 /\ (a - 1) - a <= 4 /\ a \in Int /\ a - 1 \in Int
    OBVIOUS
  <2>2. Value(z, a, a) = Value(z, a, a - 1) * B + z[a]
        /\ Value(x, a, a) = Value(x, a, a - 1) * B + x[a]
        /\ Value(z, a, a - 1) = 0 /\ Value(x, a, a - 1) = 0
    <3>1. \A k \in a .. a : z[k] \in Int /\ x[k] \in Int
      BY <1>9
    <3>2. \A k \in a .. a - 1 : z[k] \in Int /\ x[k] \in Int
      OBVIOUS
    <3> QED
      BY <2>1, <3>1, <3>2, ValueSteps
  <2>3. Value(y, 1, 0) = 0
    <3>1. 0 < 1 /\ 0 - 1 <= 4 /\ \A k \in 1 .. 0 : y[k] \in Int
      OBVIOUS
    <3> QED
      BY <3>1, ValueSteps
  <2>4. Value(z, a, a) = z[a] /\ Value(x, a, a) = x[a]
    BY <1>1, <1>9, <2>2
  <2>5. e * 0 = 0 /\ e \in Nat /\ owed(0) \in Nat
    BY <1>3, <1>n
  <2>6. Pow(0 + 1) = b
    BY <1>1, PowSteps
  <2> QED
    BY <1>9, <2>1, <2>3, <2>4, <2>5, <2>6
<1>12. ASSUME NEW i \in 0 .. N - 1, i \in T PROVE i + 1 \in T
  <2>1. PICK k \in 1 .. N : k = i + 1 /\ k - 1 = i
    OBVIOUS
  <2>2. /\ a + (k - 1) = (a + k) - 1 /\ a <= a + k /\ (a + k) - a <= 4 /\ a + k \in Int
        /\ k - 1 <= 4 /\ k \in 0 .. N
    OBVIOUS
  <2>3. Value(z, a, a + k) = Value(z, a, (a + k) - 1) * b + z[a + k]
        /\ Value(x, a, a + k) = Value(x, a, (a + k) - 1) * b + x[a + k]
    <3>1. \A l \in a .. a + k : z[l] \in Int /\ x[l] \in Int
      <4> SUFFICES ASSUME NEW l \in a .. a + k PROVE z[l] \in Int /\ x[l] \in Int
        OBVIOUS
      <4>1. l \in a .. a + N
        BY <2>2
      <4> QED
        BY <1>10, <1>n, <4>1
    <3> QED
      BY <1>1, <2>2, <3>1, ValueSteps
  <2>4. Value(y, 1, k) = Value(y, 1, k - 1) * b + y[k]
    <3>1. \A l \in 1 .. k : y[l] \in Int
      BY <1>n, <2>2
    <3> QED
      BY <1>1, <2>2, <3>1, ValueSteps
  <2>5. PICK xi \in Nat, yi \in Nat, zi \in Nat, c \in Nat, c1 \in Nat :
          /\ xi = x[a + k] /\ yi = y[k] /\ zi = z[a + k] /\ zi \in Digits
          /\ c = owed(k) /\ c1 = owed(k - 1)
          /\ xi - yi * e - c = zi - c1 * b
    BY <1>7
  <2>6. PICK X \in Nat, Y \in Nat :
          X = Value(x, a, (a + k) - 1) /\ Y = Value(y, 1, k - 1)
    <3>1. (a + k) - 1 \in Int /\ a - 1 <= (a + k) - 1 /\ ((a + k) - 1) - a <= 4
          /\ \A l \in a .. (a + k) - 1 : x[l] \in Digits
      OBVIOUS
    <3>2. 1 - 1 <= k - 1 /\ (k - 1) - 1 <= 4 /\ \A l \in 1 .. k - 1 : y[l] \in Digits
      OBVIOUS
    <3> QED
      BY <3>1, <3>2, ValueBounds
  <2>7. PICK w \in Nat : w = Pow(k) /\ Pow(k + 1) = w * b
    <3>1. k \in 0 .. 4
      OBVIOUS
    <3> QED
      BY <1>1, <3>1, PowSteps
  <2>8. e \in Nat /\ p \in Nat
    BY <1>n
  <2>9. Value(z, a, (a + k) - 1) = X - e * Y - c1 + p * w
    BY <1>12, <2>1, <2>2, <2>5, <2>6, <2>7
  <2>10. (X - e * Y - c1 + p * w) * b + zi = (X * b + xi) - e * (Y * b + yi) - c + p * (w * b)
    <3>1. (X - e * Y - c1 + p * w) * b = X * b - (e * Y) * b - c1 * b + (p * w) * b
      BY <2>8
    <3>2. e * (Y * b + yi) = (e * Y) * b + yi * e /\ p * (w * b) = (p * w) * b
      BY <2>8
    <3>3. PICK r1 \in Int, r2 \in Int, r3 \in Int, r4 \in Int, r5 \in Int :
            r1 = X * b /\ r2 = (e * Y) * b /\ r3 = c1 * b /\ r4 = (p * w) * b /\ r5 = yi * e
      BY <2>8
    <3>4. (X - e * Y - c1 + p * w) * b = r1 - r2 - r3 + r4
      BY <3>1, <3>3
    <3>5. e * (Y * b + yi) = r2 + r5 /\ p * (w * b) = r4
      BY <3>2, <3>3
    <3>6. xi - r5 - c = zi - r3
      BY <2>5, <3>3
    <3>7. (r1 - r2 - r3 + r4) + zi = (r1 + xi) - (r2 + r5) - c + r4
      BY <3>6
    <3>8. X * b = r1
      BY <3>3
    <3> HIDE <3>1, <3>2, <3>3
    <3> QED
      BY <3>4, <3>5, <3>7, <3>8
  <2>11. Value(z, a, a + k) = (X * b + xi) - e * (Y * b + yi) - c + p * (w * b)
    BY <2>3, <2>5, <2>9, <2>10
  <2>12. Value(x, a, a + k) = X * b + xi /\ Value(y, 1, k) = Y * b + yi
    BY <2>3, <2>4, <2>5, <2>6
  <2>13. k \in T
    BY <2>2, <2>5, <2>7, <2>11, <2>12
  <2> QED
    BY <2>1, <2>13
<1>13. N \in T
  <2> HIDE DEF T
  <2>1. \A i \in 0 .. N : i \in T
    BY <1>11, <1>12, <1>n, InductionUpTo
  <2> QED
    BY <1>n, <2>1
<1>14. Value(z, a, a + N) = Value(x, a, a + N) - e * Value(y, 1, N) - 0 + p * Pow(N + 1)
  BY <1>4, <1>13
<1>15. PICK X \in Nat, Y \in Nat, w \in Nat :
         X = Value(x, a, a + N) /\ Y = Value(y, 1, N) /\ w = Pow(N + 1)
  <2>1. a + N \in Int /\ a - 1 <= a + N /\ (a + N) - a <= 4 /\ N + 1 \in 0 .. 5
    OBVIOUS
  <2>2. 1 - 1 <= N /\ N - 1 <= 4 /\ N \in Int
    OBVIOUS
  <2> QED
    BY <2>1, <2>2, ValueBounds, PowSteps
<1>16. e \in Nat /\ e * Y \in Nat
  BY <1>n
<1> QED
  BY <1>8, <1>10, <1>14, <1>15, <1>16

(* The digits that t leaves are the sum, less what goes beyond them. *)
Adds(x, a, y, N, t) ==
  \A i \in 0 .. N :
    t[i] = x[a + i] + (IF i = 0 THEN 0 ELSE y[i])
                    + (IF i = N THEN 0 ELSE HHALF(t[i + 1]))

LEMMA CarryDigit ==
  ASSUME NEW x \in Digits, NEW y \in Digits, NEW c \in {0, 1}, NEW t, t = x + y + c
  PROVE  /\ LHALF(t) \in Digits /\ HHALF(t) \in {0, 1}
         /\ x + y + c = LHALF(t) + HHALF(t) * B
<1>1. PICK b \in Nat : b = B /\ b >= 2
  BY Shifts
<1>2. t \in Nat /\ t < 2 * b
  BY <1>1 DEF Digits
<1>3. PICK g \in Nat, l \in Nat : g = t \div b /\ l = t % b /\ t = g * b + l /\ l < b
  <2>1. PICK e \in Nat : e = t
    BY <1>2
  <2>2. \E g \in Nat, l \in Nat : g = e \div b /\ l = e % b /\ e = g * b + l /\ l < b
    BY <1>1, DivRem
  <2> QED
    BY <2>1, <2>2
<1>4. g \in {0, 1}
  <2>1. CASE g >= 2
    <3>1. 2 * b <= g * b
      BY <2>1
    <3> QED
      BY <1>2, <1>3, <3>1
  <2> QED
    BY <2>1
<1> QED
  BY <1>1, <1>3, <1>4 DEF LHALF, HHALF, Digits

LEMMA AddDigits ==
  ASSUME NEW N \in 1 .. 4, NEW a \in 0 .. 4 - N, NEW x, NEW y, NEW z, NEW t,
         \A i \in a .. a + N : x[i] \in Digits,
         \A i \in 1 .. N : y[i] \in Digits,
         Adds(x, a, y, N, t),
         \A i \in 0 .. N : z[a + i] = LHALF(t[i])
  PROVE  /\ \A i \in a .. a + N : z[i] \in Digits
         /\ \E p \in {0, 1} :
              Value(z, a, a + N) = Value(x, a, a + N) + Value(y, 1, N) - p * Pow(N + 1)
<1>1. PICK b \in Nat : b = B /\ b >= 2
  BY Shifts
<1>n. N \in Nat /\ a \in Nat /\ 0 \in Digits /\ \A w \in Digits : w \in Nat
  BY <1>1 DEF Digits
<1> DEFINE carry(i) == IF i = N THEN 0 ELSE HHALF(t[i + 1])
<1>2. ASSUME NEW i \in 1 .. N, carry(i) \in {0, 1}
      PROVE  /\ LHALF(t[i]) \in Digits /\ HHALF(t[i]) \in {0, 1}
             /\ x[a + i] + y[i] + carry(i) = LHALF(t[i]) + HHALF(t[i]) * B
  <2>1. t[i] = x[a + i] + y[i] + carry(i)
    BY DEF Adds
  <2>2. x[a + i] \in Digits /\ y[i] \in Digits
    <3>1. a + i \in a .. a + N
      OBVIOUS
    <3> QED
      BY <3>1
  <2> HIDE DEF carry
  <2> QED
    BY <1>2, <2>1, <2>2, CarryDigit
<1>3. \A i \in 0 .. N : carry(i) \in {0, 1}
  <2> DEFINE T == { k \in 0 .. N : carry(N - k) \in {0, 1} }
  <2>1. 0 \in T
    BY <1>n
  <2>2. ASSUME NEW k \in 0 .. N - 1, k \in T PROVE k + 1 \in T
    <3>1. N - k \in 1 .. N /\ N - (k + 1) # N /\ (N - (k + 1)) + 1 = N - k /\ k + 1 \in 0 .. N
      BY <1>n
    <3>2. HHALF(t[N - k]) \in {0, 1}
      <4>1. carry(N - k) \in {0, 1}
        BY <2>2
      <4> HIDE DEF carry
      <4> QED
        BY <1>2, <3>1, <4>1
    <3>3. carry(N - (k + 1)) = HHALF(t[N - k])
      BY <3>1
    <3> QED
      BY <3>1, <3>2, <3>3
  <2>3. \A k \in 0 .. N : k \in T
    <3> HIDE DEF T
    <3> QED
      BY <1>n, <2>1, <2>2, InductionUpTo
  <2> SUFFICES ASSUME NEW i \in 0 .. N PROVE carry(i) \in {0, 1}
    OBVIOUS
  <2>4. N - i \in 0 .. N /\ N - (N - i) = i
    BY <1>n
  <2>5. carry(N - (N - i)) \in {0, 1}
    <3> HIDE DEF carry
    <3> QED
      BY <2>3, <2>4
  <2> HIDE DEF carry
  <2> QED
    BY <2>4, <2>5
<1>4. carry(N) = 0
  OBVIOUS
<1>5. \A i \in 1 .. N : carry(i - 1) = HHALF(t[i])
  OBVIOUS
<1>6. t[0] = x[a] + 0 + carry(0)
  <2>1. a + 0 = a /\ 0 \in 0 .. N
    BY <1>n
  <2> QED
    BY <2>1 DEF Adds
<1> HIDE DEF carry
<1>7. ASSUME NEW i \in 1 .. N
      PROVE  \E xi \in Nat, yi \in Nat, zi \in Nat, c \in Nat, c1 \in Nat :
               /\ xi = x[a + i] /\ yi = y[i] /\ zi = z[a + i] /\ zi \in Digits
               /\ c = carry(i) /\ c1 = carry(i - 1)
               /\ xi + yi + c = zi + c1 * b
  <2>1. a + i \in a .. a + N /\ i \in 0 .. N /\ i - 1 \in 0 .. N
    OBVIOUS
  <2>2. z[a + i] = LHALF(t[i]) /\ carry(i - 1) = HHALF(t[i])
    BY <1>5, <2>1
  <2>3. z[a + i] \in Digits /\ x[a + i] + y[i] + carry(i) = z[a + i] + carry(i - 1) * b
    BY <1>1, <1>2, <1>3, <2>1, <2>2
  <2>4. x[a + i] \in Nat /\ y[i] \in Nat /\ z[a + i] \in Nat /\ carry(i) \in Nat /\ carry(i - 1) \in Nat
    BY <1>3, <1>n, <2>1, <2>3
  <2> QED
    BY <2>3, <2>4
<1>8. PICK p \in {0, 1} : p = HHALF(t[0]) /\ z[a] \in Digits /\ x[a] + carry(0) = z[a] + p * b
  <2>1. x[a] \in Digits /\ carry(0) \in {0, 1} /\ a + 0 = a /\ 0 \in 0 .. N
    <3>1. a \in a .. a + N /\ 0 \in 0 .. N /\ a + 0 = a
      BY <1>n
    <3> QED
      BY <1>3, <3>1
  <2>2. z[a] = LHALF(t[0])
    BY <2>1
  <2>3. /\ z[a] \in Digits /\ HHALF(t[0]) \in {0, 1}
        /\ x[a] + 0 + carry(0) = z[a] + HHALF(t[0]) * b
    BY <1>1, <1>6, <1>n, <2>1, <2>2, CarryDigit
  <2>4. x[a] + 0 + carry(0) = x[a] + carry(0)
    BY <1>n, <2>1
  <2> QED
    BY <2>3, <2>4
<1>9. x[a] \in Nat /\ z[a] \in Nat /\ carry(0) \in Nat /\ p \in Nat
      /\ z[a] = x[a] + carry(0) - p * b
  <2>1. a \in a .. a + N /\ 0 \in 0 .. N
    BY <1>n
  <2>2. x[a] \in Nat /\ z[a] \in Nat
    BY <1>8, <1>n, <2>1
  <2>3. PICK c \in Nat : c = carry(0)
    BY <1>3, <2>1
  <2>4. PICK g \in Nat : g = p * b /\ p \in Nat
    OBVIOUS
  <2>5. x[a] + c = z[a] + g
    BY <1>8, <2>3, <2>4
  <2> QED
    BY <2>2, <2>3, <2>4, <2>5
<1>10. ASSUME NEW k \in a .. a + N PROVE z[k] \in Digits /\ z[k] \in Nat
  <2>1. CASE k = a
    BY <1>8, <1>9, <2>1
  <2>2. CASE k # a
    <3>1. k - a \in 1 .. N /\ a + (k - a) = k
      BY <2>2
    <3> QED
      BY <1>7, <3>1
  <2> QED
    BY <2>1, <2>2
<1> DEFINE T == { i \in 0 .. N : Value(z, a, a + i) = Value(x, a, a + i) + Value(y, 1, i)
                                   + carry(i) - p * Pow(i + 1) }
<1>11. 0 \in T
  <2>1. a + 0 = a /\ a - 1 < a /\ a - a <= 4 /\ (a - 1) - a <= 4 /\ a \in Int /\ a - 1 \in Int
    OBVIOUS
  <2>2. Value(z, a, a) = Value(z, a, a - 1) * B + z[a]
        /\ Value(x, a, a) = Value(x, a, a - 1) * B + x[a]
        /\ Value(z, a, a - 1) = 0 /\ Value(x, a, a - 1) = 0
    <3>1. \A k \in a .. a : z[k] \in Int /\ x[k] \in Int
      BY <1>9
    <3>2. \A k \in a .. a - 1 : z[k] \in Int /\ x[k] \in Int
      OBVIOUS
    <3> QED
      BY <2>1, <3>1, <3>2, ValueSteps
  <2>3. Value(y, 1, 0) = 0
    <3>1. 0 < 1 /\ 0 - 1 <= 4 /\ \A k \in 1 .. 0 : y[k] \in Int
      OBVIOUS
    <3> QED
      BY <3>1, ValueSteps
  <2>4. Value(z, a, a) = z[a] /\ Value(x, a, a) = x[a]
    BY <1>1, <1>9, <2>2
  <2>5. Pow(0 + 1) = b
    BY <1>1, PowSteps
  <2> QED
    BY <1>9, <2>1, <2>3, <2>4, <2>5
<1>12. ASSUME NEW i \in 0 .. N - 1, i \in T PROVE i + 1 \in T
  <2>1. PICK k \in 1 .. N : k = i + 1 /\ k - 1 = i
    OBVIOUS
  <2>2. /\ a + (k - 1) = (a + k) - 1 /\ a <= a + k /\ (a + k) - a <= 4 /\ a + k \in Int
        /\ k - 1 <= 4 /\ k \in 0 .. N
    OBVIOUS
  <2>3. Value(z, a, a + k) = Value(z, a, (a + k) - 1) * b + z[a + k]
        /\ Value(x, a, a + k) = Value(x, a, (a + k) - 1) * b + x[a + k]
    <3>1. \A l \in a .. a + k : z[l] \in Int /\ x[l] \in Int
      <4> SUFFICES ASSUME NEW l \in a .. a + k PROVE z[l] \in Int /\ x[l] \in Int
        OBVIOUS
      <4>1. l \in a .. a + N
        BY <2>2
      <4> QED
        BY <1>10, <1>n, <4>1
    <3> QED
      BY <1>1, <2>2, <3>1, ValueSteps
  <2>4. Value(y, 1, k) = Value(y, 1, k - 1) * b + y[k]
    <3>1. \A l \in 1 .. k : y[l] \in Int
      BY <1>n, <2>2
    <3> QED
      BY <1>1, <2>2, <3>1, ValueSteps
  <2>5. PICK xi \in Nat, yi \in Nat, zi \in Nat, c \in Nat, c1 \in Nat :
          /\ xi = x[a + k] /\ yi = y[k] /\ zi = z[a + k] /\ zi \in Digits
          /\ c = carry(k) /\ c1 = carry(k - 1)
          /\ xi + yi + c = zi + c1 * b
    BY <1>7
  <2>6. PICK X \in Nat, Y \in Nat :
          X = Value(x, a, (a + k) - 1) /\ Y = Value(y, 1, k - 1)
    <3>1. (a + k) - 1 \in Int /\ a - 1 <= (a + k) - 1 /\ ((a + k) - 1) - a <= 4
          /\ \A l \in a .. (a + k) - 1 : x[l] \in Digits
      OBVIOUS
    <3>2. 1 - 1 <= k - 1 /\ (k - 1) - 1 <= 4 /\ \A l \in 1 .. k - 1 : y[l] \in Digits
      OBVIOUS
    <3> QED
      BY <3>1, <3>2, ValueBounds
  <2>7. PICK w \in Nat : w = Pow(k) /\ Pow(k + 1) = w * b
    <3>1. k \in 0 .. 4
      OBVIOUS
    <3> QED
      BY <1>1, <3>1, PowSteps
  <2>8. p \in Nat
    BY <1>9
  <2>9. Value(z, a, (a + k) - 1) = X + Y + c1 - p * w
    BY <1>12, <2>1, <2>2, <2>5, <2>6, <2>7
  <2>10. (X + Y + c1 - p * w) * b + zi = (X * b + xi) + (Y * b + yi) + c - p * (w * b)
    <3>1. (X + Y + c1 - p * w) * b = X * b + Y * b + c1 * b - (p * w) * b
      BY <2>8
    <3>2. p * (w * b) = (p * w) * b
      BY <2>8
    <3>3. PICK r1 \in Int, r2 \in Int, r3 \in Int, r4 \in Int :
            r1 = X * b /\ r2 = Y * b /\ r3 = c1 * b /\ r4 = (p * w) * b
      BY <2>8
    <3>4. (X + Y + c1 - p * w) * b = r1 + r2 + r3 - r4
      BY <3>1, <3>3
    <3>5. p * (w * b) = r4
      BY <3>2, <3>3
    <3>6. xi + yi + c = zi + r3
      BY <2>5, <3>3
    <3>7. (r1 + r2 + r3 - r4) + zi = (r1 + xi) + (r2 + yi) + c - r4
      BY <3>6
    <3>8. X * b = r1 /\ Y * b = r2
      BY <3>3
    <3> HIDE <3>1, <3>2, <3>3
    <3> QED
      BY <3>4, <3>5, <3>7, <3>8
  <2>11. Value(z, a, a + k) = (X * b + xi) + (Y * b + yi) + c - p * (w * b)
    BY <2>3, <2>5, <2>9, <2>10
  <2>12. Value(x, a, a + k) = X * b + xi /\ Value(y, 1, k) = Y * b + yi
    BY <2>3, <2>4, <2>5, <2>6
  <2>13. k \in T
    BY <2>2, <2>5, <2>7, <2>11, <2>12
  <2> QED
    BY <2>1, <2>13
<1>13. N \in T
  <2> HIDE DEF T
  <2>1. \A i \in 0 .. N : i \in T
    BY <1>11, <1>12, <1>n, InductionUpTo
  <2> QED
    BY <1>n, <2>1
<1>14. Value(z, a, a + N) = Value(x, a, a + N) + Value(y, 1, N) + 0 - p * Pow(N + 1)
  BY <1>4, <1>13
<1>15. PICK X \in Nat, Y \in Nat, w \in Nat :
         X = Value(x, a, a + N) /\ Y = Value(y, 1, N) /\ w = Pow(N + 1)
  <2>1. a + N \in Int /\ a - 1 <= a + N /\ (a + N) - a <= 4 /\ N + 1 \in 0 .. 5
    OBVIOUS
  <2>2. 1 - 1 <= N /\ N - 1 <= 4 /\ N \in Int
    OBVIOUS
  <2> QED
    BY <2>1, <2>2, ValueBounds, PowSteps
<1>16. Value(z, a, a + N) = Value(x, a, a + N) + Value(y, 1, N) - p * Pow(N + 1)
  BY <1>14, <1>15
<1> QED
  BY <1>10, <1>16

-----------------------------------------------------------------------------
(* The estimate of a digit, from the first three digits N3 of the dividend *)
(* and the first two V2 of the divisor: U and V have w further ones, lo    *)
(* and rest.                                                               *)

(* An estimate that is refused is larger than the digit. *)
LEMMA RefusedIsLarge ==
  ASSUME NEW w \in Nat, NEW N3 \in Nat, NEW V2 \in Nat, NEW lo \in Nat, NEW rest \in Nat,
         lo < w, NEW U, U = N3 * w + lo, NEW V, V = V2 * w + rest,
         NEW e \in Nat, e * V2 > N3
  PROVE  e * V > U
<1>1. (N3 + 1) * w <= (e * V2) * w
  <2>1. e * V2 \in Nat /\ N3 + 1 <= e * V2
    OBVIOUS
  <2> QED
    BY <2>1
<1>2. (N3 + 1) * w = N3 * w + w /\ (e * V2) * w \in Nat /\ N3 * w \in Nat
  OBVIOUS
<1>3. e * V = (e * V2) * w + e * rest /\ e * rest \in Nat
  OBVIOUS
<1> QED
  BY <1>1, <1>2, <1>3

(* An estimate that is kept is too large by at most one. *)
LEMMA KeptIsClose ==
  ASSUME NEW b \in Nat, NEW w \in Nat, NEW N3 \in Nat, NEW V2 \in Nat, NEW lo \in Nat,
         NEW rest \in Nat, rest < w, V2 >= b, NEW U, U = N3 * w + lo, NEW V, V = V2 * w + rest,
         NEW e \in Nat, e <= b, e * V2 <= N3
  PROVE  (e - 1) * V <= U
<1>1. (e * V2) * w <= N3 * w
  <2>1. e * V2 \in Nat
    OBVIOUS
  <2> QED
    BY <2>1
<1>2. e * rest <= b * w
  <2>1. e * rest <= b * rest /\ b * rest <= b * w
    OBVIOUS
  <2>2. e * rest \in Nat /\ b * rest \in Nat /\ b * w \in Nat
    OBVIOUS
  <2> QED
    BY <2>1, <2>2
<1>3. b * w <= V2 * w
  OBVIOUS
<1>4. (e - 1) * V = (e * V2) * w + e * rest - V2 * w - rest
  OBVIOUS
<1>5. /\ (e * V2) * w \in Nat /\ e * rest \in Nat /\ V2 * w \in Nat /\ N3 * w \in Nat
      /\ b * w \in Nat
  OBVIOUS
<1> QED
  BY <1>1, <1>2, <1>3, <1>4, <1>5

(* The first digits of a window of z and of the divisor y, and what is     *)
(* behind them.                                                            *)
BeginWith(z, a, y, N, z0, z1, z2, y1, y2, w, lo, rest) ==
  /\ z0 = z[a] /\ z1 = z[a + 1] /\ z2 = z[a + 2] /\ y1 = y[1] /\ y2 = y[2]
  /\ lo < w /\ rest < w /\ y1 # 0
  /\ Value(z, a, a + N) = ((z0 * B + z1) * B + z2) * w + lo
  /\ Value(y, 1, N) = (y1 * B + y2) * w + rest

LEMMA FirstDigits ==
  ASSUME NEW N \in 2 .. 4, NEW a \in 0 .. 4 - N, NEW z, NEW y,
         \A i \in a .. a + N : z[i] \in Digits,
         \A i \in 1 .. N : y[i] \in Digits,
         y[1] # 0
  PROVE  \E z0 \in Digits, z1 \in Digits, z2 \in Digits, y1 \in Digits, y2 \in Digits,
            w \in Nat, lo \in Nat, rest \in Nat :
           BeginWith(z, a, y, N, z0, z1, z2, y1, y2, w, lo, rest)
<1>1. PICK b \in Nat : b = B /\ b >= 2
  BY Shifts
<1>2. \A e \in Digits : e \in Nat
  BY <1>1 DEF Digits
<1>3. PICK z0 \in Digits, z1 \in Digits, z2 \in Digits, y1 \in Digits, y2 \in Digits :
        z0 = z[a] /\ z1 = z[a + 1] /\ z2 = z[a + 2] /\ y1 = y[1] /\ y2 = y[2]
  <2>1. a \in a .. a + N /\ a + 1 \in a .. a + N /\ a + 2 \in a .. a + N /\ 1 \in 1 .. N /\ 2 \in 1 .. N
    OBVIOUS
  <2> QED
    BY <2>1
<1>4. /\ z0 \in Nat /\ z1 \in Nat /\ z2 \in Nat /\ y1 \in Nat /\ y2 \in Nat
  BY <1>2
<1>5. Value(z, a, a + 2) = (z0 * b + z1) * b + z2
  <2>1. /\ (a + 2) - 1 = a + 1 /\ (a + 1) - 1 = a /\ a - a <= 4 /\ (a + 1) - a <= 4
        /\ (a + 2) - a <= 4 /\ (a - 1) - a <= 4 /\ a - 1 < a
        /\ a <= a + 1 /\ a <= a + 2 /\ a \in Int /\ a + 1 \in Int /\ a + 2 \in Int /\ a - 1 \in Int
    OBVIOUS
  <2>2. /\ \A i \in a .. a + 2 : z[i] \in Int
        /\ \A i \in a .. a + 1 : z[i] \in Int
        /\ \A i \in a .. a : z[i] \in Int
        /\ \A i \in a .. a - 1 : z[i] \in Int
    <3>1. \A i \in a .. a + 2 : i = a \/ i = a + 1 \/ i = a + 2
      OBVIOUS
    <3>2. \A i \in a .. a + 2 : z[i] \in Int
      BY <1>3, <1>4, <3>1
    <3> QED
      BY <3>2
  <2>3. Value(z, a, a - 1) = 0
    BY <2>1, <2>2, ValueSteps
  <2>4. Value(z, a, a) = Value(z, a, a - 1) * b + z0
    BY <1>1, <1>3, <2>1, <2>2, ValueSteps
  <2>5. Value(z, a, a + 1) = Value(z, a, a) * b + z1
    BY <1>1, <1>3, <2>1, <2>2, ValueSteps
  <2>6. Value(z, a, a + 2) = Value(z, a, a + 1) * b + z2
    BY <1>1, <1>3, <2>1, <2>2, ValueSteps
  <2>7. Value(z, a, a) = z0
    BY <1>4, <2>3, <2>4
  <2> QED
    BY <2>5, <2>6, <2>7
<1>6. Value(y, 1, 2) = y1 * b + y2
  <2>1. /\ \A i \in 1 .. 2 : y[i] \in Int
        /\ \A i \in 1 .. 1 : y[i] \in Int
        /\ \A i \in 1 .. 0 : y[i] \in Int
    <3>1. \A i \in 1 .. 2 : i = 1 \/ i = 2
      OBVIOUS
    <3>2. \A i \in 1 .. 2 : y[i] \in Int
      BY <1>3, <1>4, <3>1
    <3> QED
      BY <3>2
  <2>2. 2 - 1 = 1 /\ 1 - 1 = 0 /\ 1 <= 4 /\ 0 <= 4 /\ 0 - 1 <= 4 /\ 0 < 1 /\ 1 <= 2
    OBVIOUS
  <2>3. Value(y, 1, 0) = 0
    BY <2>1, <2>2, ValueSteps
  <2>4. Value(y, 1, 1) = Value(y, 1, 0) * b + y1
    BY <1>1, <1>3, <2>1, <2>2, ValueSteps
  <2>5. Value(y, 1, 2) = Value(y, 1, 1) * b + y2
    BY <1>1, <1>3, <2>1, <2>2, ValueSteps
  <2>6. Value(y, 1, 1) = y1
    BY <1>4, <2>3, <2>4
  <2> QED
    BY <2>5, <2>6
<1>7. PICK w \in Nat, lo \in Nat :
        /\ w = Pow(N - 2) /\ lo < w
        /\ Value(z, a, a + N) = ((z0 * b + z1) * b + z2) * w + lo
  <2>1. /\ a + 2 \in Int /\ a + N \in Int /\ a - 1 <= a + 2 /\ a + 2 <= a + N
        /\ (a + N) - a <= 4 /\ (a + N) - (a + 2) = N - 2 /\ (a + 2) + 1 = a + 3
        /\ a + 3 \in Int /\ (a + 3) - 1 <= a + N /\ (a + N) - (a + 3) <= 4
        /\ ((a + N) - (a + 3)) + 1 = N - 2 /\ N - 2 \in 0 .. 5
    OBVIOUS
  <2>2. \A i \in a + 3 .. a + N : z[i] \in Digits
    OBVIOUS
  <2>3. /\ Value(z, a + 3, a + N) \in Nat /\ Value(z, a + 3, a + N) < Pow(N - 2)
    BY <2>1, <2>2, ValueBounds
  <2>4. Value(z, a, a + N) = Value(z, a, a + 2) * Pow(N - 2) + Value(z, a + 3, a + N)
    BY <2>1, ValueParts
  <2>5. Pow(N - 2) \in Nat
    BY <2>1, PowSteps
  <2> QED
    BY <1>5, <2>3, <2>4, <2>5
<1>8. PICK rest \in Nat : rest < w /\ Value(y, 1, N) = (y1 * b + y2) * w + rest
  <2>1. /\ 1 - 1 <= 2 /\ 2 <= N /\ N - 1 <= 4 /\ 2 + 1 = 3 /\ N \in Int
        /\ 3 - 1 <= N /\ N - 3 <= 4 /\ (N - 3) + 1 = N - 2
    OBVIOUS
  <2>2. \A i \in 3 .. N : y[i] \in Digits
    OBVIOUS
  <2>3. /\ Value(y, 3, N) \in Nat /\ Value(y, 3, N) < Pow(N - 2)
    BY <2>1, <2>2, ValueBounds
  <2>4. Value(y, 1, N) = Value(y, 1, 2) * Pow(N - 2) + Value(y, 3, N)
    BY <2>1, ValueParts
  <2> QED
    BY <1>6, <1>7, <2>3, <2>4
<1>9. /\ Value(z, a, a + N) = ((z0 * B + z1) * B + z2) * w + lo
      /\ Value(y, 1, N) = (y1 * B + y2) * w + rest
  BY <1>1, <1>7, <1>8
<1>10. y1 # 0 /\ lo < w /\ rest < w
  BY <1>3, <1>7, <1>8
<1>11. BeginWith(z, a, y, N, z0, z1, z2, y1, y2, w, lo, rest)
  BY <1>3, <1>9, <1>10 DEF BeginWith
<1> QED
  BY <1>11

(* With fewer than B times the divisor in the window, its first digit is   *)
(* not above the divisor's.                                                *)
LEMMA FirstDigitIsSmall ==
  ASSUME NEW b \in Nat, NEW z0 \in Nat, NEW z1 \in Nat, NEW z2 \in Nat,
         NEW y1 \in Nat, NEW y2 \in Nat, y2 < b,
         NEW w \in Nat, NEW lo \in Nat, NEW rest \in Nat, rest < w,
         ((z0 * b + z1) * b + z2) * w + lo < ((y1 * b + y2) * w + rest) * b
  PROVE  z0 <= y1
<1>1. PICK N3 \in Nat, V2 \in Nat : N3 = (z0 * b + z1) * b + z2 /\ V2 = y1 * b + y2
  OBVIOUS
<1>2. N3 * w < ((V2 + 1) * b) * w
  <2>1. (V2 * w + rest) * b <= (V2 * w + w) * b
    OBVIOUS
  <2>2. (V2 * w + w) * b = ((V2 + 1) * b) * w
    OBVIOUS
  <2>3. N3 * w + lo < (V2 * w + rest) * b
    BY <1>1
  <2>4. N3 * w \in Nat /\ (V2 * w + rest) * b \in Nat /\ ((V2 + 1) * b) * w \in Nat
    OBVIOUS
  <2> QED
    BY <2>1, <2>2, <2>3, <2>4
<1>3. N3 < (V2 + 1) * b
  <2>1. PICK r \in Nat : r = (V2 + 1) * b
    OBVIOUS
  <2>2. CASE N3 >= r
    <3>1. r * w <= N3 * w
      BY <2>2
    <3>2. r * w \in Nat /\ N3 * w \in Nat
      OBVIOUS
    <3> QED
      BY <1>2, <2>1, <3>1, <3>2
  <2> QED
    BY <2>1, <2>2
<1>4. (V2 + 1) * b <= ((y1 + 1) * b) * b
  <2>1. V2 + 1 <= (y1 + 1) * b
    <3>1. (y1 + 1) * b = y1 * b + b /\ y1 * b \in Nat
      OBVIOUS
    <3> QED
      BY <1>1, <3>1
  <2>2. PICK r \in Nat : r = (y1 + 1) * b
    OBVIOUS
  <2> QED
    BY <2>1, <2>2
<1>5. CASE z0 >= y1 + 1
  <2>1. (y1 + 1) * b <= z0 * b
    BY <1>5
  <2>2. PICK r \in Nat, r1 \in Nat : r = (y1 + 1) * b /\ r1 = z0 * b
    OBVIOUS
  <2>3. r * b <= r1 * b
    BY <2>1, <2>2
  <2>4. N3 >= r1 * b
    <3>1. (r1 + z1) * b + z2 = r1 * b + (z1 * b + z2) /\ z1 * b + z2 \in Nat /\ r1 * b \in Nat
      OBVIOUS
    <3> QED
      BY <1>1, <2>2, <3>1
  <2>5. r * b \in Nat /\ r1 * b \in Nat /\ (V2 + 1) * b \in Nat
    OBVIOUS
  <2> QED
    BY <1>3, <1>4, <2>2, <2>3, <2>4, <2>5
<1> QED
  BY <1>5

(* The test of the loop compares the estimate's product with the digits,   *)
(* and a rest of B or more needs none.                                     *)
LEMMA TestIsExact ==
  ASSUME NEW b \in Nat, NEW z0 \in Nat, NEW z1 \in Nat, NEW z2 \in Nat, z2 < b,
         NEW y1 \in Nat, NEW y2 \in Nat, y2 < b,
         NEW e \in Nat, e < b, NEW r \in Nat, e * y1 + r = z0 * b + z1
  PROVE  /\ e * (y1 * b + y2) > (z0 * b + z1) * b + z2 <=> y2 * e > r * b + z2
         /\ r >= b => e * (y1 * b + y2) <= (z0 * b + z1) * b + z2
         /\ y2 * e < b * b
<1>1. PICK p \in Nat : p = (e * y1) * b
  OBVIOUS
<1>2. PICK g \in Nat : g = y2 * e /\ g < b * b
  <2>1. y2 * e <= y2 * b /\ y2 * b < b * b
    OBVIOUS
  <2>2. y2 * e \in Nat /\ y2 * b \in Nat /\ b * b \in Nat
    OBVIOUS
  <2> QED
    BY <2>1, <2>2
<1>3. e * (y1 * b + y2) = p + g
  <2>1. e * (y1 * b + y2) = (e * y1) * b + y2 * e
    OBVIOUS
  <2> QED
    BY <1>1, <1>2, <2>1
<1>4. (z0 * b + z1) * b + z2 = p + r * b + z2
  <2>1. (e * y1 + r) * b = (e * y1) * b + r * b
    OBVIOUS
  <2>2. (z0 * b + z1) * b = (e * y1 + r) * b
    OBVIOUS
  <2>3. PICK rb \in Nat : rb = r * b
    OBVIOUS
  <2> QED
    BY <1>1, <2>1, <2>2, <2>3
<1>5. r >= b => b * b <= r * b
  OBVIOUS
<1>6. r * b \in Nat /\ b * b \in Nat
  OBVIOUS
<1> QED
  BY <1>2, <1>3, <1>4, <1>5, <1>6

-----------------------------------------------------------------------------
(* The invariant of __qdivrem.                                             *)

(* The index of the quotient's next digit, and of the dividend's last      *)
(* digit it depends on.                                                    *)
Here == 4 - m + j

Divisor == Value(v, 1, n)
Window == Value(u, Here - n, Here)

(* x is the dividend, shifted like the divisor; u differs from it up to    *)
(* Here, where multiples of the divisor have been subtracted.              *)
AtWork(x) ==
  /\ n \in 2 .. 4 /\ m \in 0 .. 4 - n /\ j \in 0 .. m + 1 /\ d \in 0 .. HALF_BITS
  /\ v \in [1 .. n -> Digits] /\ v[1] # 0 /\ Divisor = vq * TwoTo[d]
  /\ x \in [0 .. 4 -> Digits] /\ Value(x, 0, 4) = uq * TwoTo[d]
  /\ u \in [0 .. 4 -> Digits] /\ \A k \in 0 .. (Here - n) - 1 : u[k] = 0
  /\ \A k \in Here + 1 .. 4 : u[k] = x[k]
  /\ q \in [0 .. 4 -> Nat] /\ q[0] = 0

(* Before the digit at Here: the dividend up to there has been divided.    *)
DividedBefore(x) ==
  /\ Here <= 4 => u[Here] = x[Here]
  /\ Value(x, 0, Here - 1) = Value(q, 0, Here - 1) * Divisor + Value(u, Here - n, Here - 1)
  /\ Value(u, Here - n, Here - 1) < Divisor

(* With the digit e at Here, and this rest. *)
DividedBy(x, e, rest) ==
  /\ rest \in Nat /\ rest < Divisor
  /\ Value(x, 0, Here) = (Value(q, 0, Here - 1) * B + e) * Divisor + rest

LargeEnough == qhat \in Digits /\ (qhat + 1) * Divisor > Window

WorkInv(x) ==
  /\ AtWork(x)
  /\ div_pc \in {"estimate", "correct", "subtract"} => j <= m /\ DividedBefore(x)
  /\ div_pc = "finish" => j = m + 1 /\ DividedBefore(x)
  /\ div_pc = "correct" =>
       /\ LargeEnough /\ rhat \in Digits
       /\ qhat * v[1] + rhat = u[Here - n] * B + u[(Here - n) + 1]
  /\ div_pc = "subtract" => LargeEnough /\ (qhat - 1) * Divisor <= Window
  /\ div_pc = "add_back" =>
       /\ j <= m /\ qhat \in Nat /\ qhat # 0
       /\ DividedBy(x, qhat - 1, Window + Divisor - Pow(n + 1))
  /\ div_pc = "store" => j <= m /\ qhat \in Nat /\ DividedBy(x, qhat, Window)

Working == {"estimate", "correct", "subtract", "add_back", "store", "finish"}

DivisionInv ==
  /\ division \in Divisions
  /\ uq = Argument(division.a) /\ vq = Argument(division.b)
  /\ div_pc \in {"start", "fault", "done"} \cup Working
  /\ div_pc = "start" =>
       /\ u = [k \in 0 .. 4 |-> IF k = 0 THEN 0 ELSE Split(uq)[k]]
       /\ v = Split(vq) /\ q = [k \in 0 .. 4 |-> 0] /\ j = 0
  /\ div_pc = "fault" => vq = 0
  /\ div_pc = "done" =>
       /\ quotient \in Nat /\ remainder \in Nat
       /\ uq = quotient * vq + remainder /\ remainder < vq
  /\ div_pc \in Working => vq # 0 /\ \E x : WorkInv(x)

LEMMA Places ==
  ASSUME n \in 2 .. 4, m \in 0 .. 4 - n, j \in 0 .. m
  PROVE  /\ Here \in 2 .. 4 /\ Here - n \in 0 .. 4 - n /\ (Here - n) + n = Here
         /\ At(j) = Here - n /\ At(j + 1) = (Here - n) + 1 /\ At(j + 2) = (Here - n) + 2
         /\ At(j + n) = Here
         /\ \A i \in Int : At(i + j) = (Here - n) + i
BY DEF Here, At

(* What is in the window, when the next digit is sought. *)
LEMMA WindowFacts ==
  ASSUME NEW x, AtWork(x), DividedBefore(x), j <= m
  PROVE  /\ Window \in Nat /\ Divisor \in Nat /\ Window < Divisor * B
         /\ Value(q, 0, Here - 1) \in Nat
         /\ Value(x, 0, Here) = (Value(q, 0, Here - 1) * B) * Divisor + Window
<1>1. PICK b \in Nat : b = B /\ b >= 2
  BY Shifts
<1>2. /\ n \in 2 .. 4 /\ m \in 0 .. 4 - n /\ j \in 0 .. m
      /\ v \in [1 .. n -> Digits] /\ x \in [0 .. 4 -> Digits] /\ u \in [0 .. 4 -> Digits]
      /\ q \in [0 .. 4 -> Nat]
  BY DEF AtWork
<1>3. PICK e \in 2 .. 4, a \in 0 .. 2 : e = Here /\ a = Here - n /\ a + n = e
  <2>1. Here \in 2 .. 4 /\ Here - n \in 0 .. 4 - n /\ (Here - n) + n = Here
    BY <1>2, Places
  <2>2. Here - n \in 0 .. 2
    BY <1>2, <2>1
  <2> QED
    BY <2>1, <2>2
<1>4. \A g \in Digits : g \in Nat /\ g < b
  BY <1>1 DEF Digits
<1>k. \A k \in 0 .. 4 : u[k] \in Nat /\ x[k] \in Nat /\ q[k] \in Nat
  BY <1>2, <1>4
<1>5. PICK V \in Nat : V = Divisor
  <2>1. 1 - 1 <= n /\ n - 1 <= 4 /\ n \in Int /\ \A k \in 1 .. n : v[k] \in Digits
    BY <1>2
  <2> QED
    BY <2>1, ValueBounds DEF Divisor
<1>6. PICK R \in Nat : R = Value(u, a, e - 1) /\ R < V
  <2>1. /\ a - 1 <= e - 1 /\ (e - 1) - a <= 4 /\ e - 1 \in Int /\ a \in Int
        /\ \A k \in a .. e - 1 : u[k] \in Digits
    BY <1>2, <1>3
  <2>2. Value(u, a, e - 1) \in Nat
    BY <2>1, ValueBounds
  <2> QED
    BY <1>3, <1>5, <2>2 DEF DividedBefore
<1>7. PICK g \in Nat : g = u[e] /\ g = x[e] /\ g < b
  <2>1. u[e] \in Digits /\ u[e] = x[e]
    BY <1>2, <1>3 DEF DividedBefore
  <2> QED
    BY <1>4, <2>1
<1>8. Window = R * b + g
  <2>1. a <= e /\ e - a <= 4 /\ e \in Int /\ a \in Int /\ \A k \in a .. e : u[k] \in Int
    BY <1>3, <1>k
  <2>2. Value(u, a, e) = Value(u, a, e - 1) * B + u[e]
    BY <2>1, ValueSteps
  <2> QED
    BY <1>1, <1>3, <1>6, <1>7, <2>2 DEF Window
<1>9. PICK c \in Nat : c = Value(q, 0, e - 1)
  <2> DEFINE T == { i \in 0 .. 4 : Value(q, 0, i) \in Nat }
  <2>1. \A i \in 0 .. 4 : /\ Value(q, 0, i) = Value(q, 0, i - 1) * b + q[i]
                          /\ q[i] \in Nat
    <3> SUFFICES ASSUME NEW i \in 0 .. 4
                 PROVE  Value(q, 0, i) = Value(q, 0, i - 1) * b + q[i] /\ q[i] \in Nat
      OBVIOUS
    <3>1. i \in Int /\ i - 0 <= 4 /\ 0 <= i /\ \A k \in 0 .. i : q[k] \in Int
      BY <1>k
    <3>2. q[i] \in Nat
      BY <1>k
    <3> QED
      BY <1>1, <3>1, <3>2, ValueSteps
  <2>2. 0 \in T
    <3>1. Value(q, 0, 0 - 1) = 0
      <4>1. 0 - 1 < 0 /\ (0 - 1) - 0 <= 4 /\ 0 - 1 \in Int /\ \A k \in 0 .. 0 - 1 : q[k] \in Int
        OBVIOUS
      <4> QED
        BY <4>1, ValueSteps
    <3>2. 0 * b + q[0] \in Nat
      BY <1>2
    <3> QED
      BY <2>1, <3>1, <3>2
  <2>3. ASSUME NEW i \in 0 .. 4 - 1, i \in T PROVE i + 1 \in T
    <3>1. i + 1 \in 0 .. 4 /\ (i + 1) - 1 = i
      OBVIOUS
    <3>2. PICK c \in Nat, g1 \in Nat : c = Value(q, 0, i) /\ g1 = q[i + 1]
      BY <2>1, <2>3, <3>1
    <3>3. Value(q, 0, i + 1) = c * b + g1
      BY <2>1, <3>1, <3>2
    <3> QED
      BY <3>1, <3>3
  <2>4. \A i \in 0 .. 4 : i \in T
    <3> HIDE DEF T
    <3> QED
      BY <2>2, <2>3, InductionUpTo
  <2>5. e - 1 \in 0 .. 4
    BY <1>3
  <2> QED
    BY <2>4, <2>5
<1>10. Value(x, 0, e) = (c * b) * V + (R * b + g)
  <2>1. 0 <= e /\ e - 0 <= 4 /\ e \in Int /\ \A k \in 0 .. e : x[k] \in Int
    BY <1>3, <1>k
  <2>2. Value(x, 0, e) = Value(x, 0, e - 1) * b + g
    BY <1>1, <1>7, <2>1, ValueSteps
  <2>3. Value(x, 0, e - 1) = c * V + R
    BY <1>3, <1>5, <1>6, <1>9 DEF DividedBefore
  <2>4. (c * V + R) * b + g = (c * b) * V + (R * b + g)
    OBVIOUS
  <2> QED
    BY <2>2, <2>3, <2>4
<1>11. R * b + g < V * b /\ R * b + g \in Nat
  <2>1. (R + 1) * b <= V * b
    BY <1>6
  <2>2. (R + 1) * b = R * b + b /\ R * b \in Nat
    OBVIOUS
  <2> QED
    BY <1>7, <2>1, <2>2
<1> QED
  BY <1>1, <1>3, <1>5, <1>8, <1>9, <1>10, <1>11

(* The leading digits of the window and the divisor, as naturals. *)
LEMMA WorkDigits ==
  ASSUME NEW x, AtWork(x), j <= m
  PROVE  \E z0 \in Digits, z1 \in Digits, z2 \in Digits, y1 \in Digits, y2 \in Digits,
            w \in Nat, lo \in Nat, rest \in Nat :
           BeginWith(u, Here - n, v, n, z0, z1, z2, y1, y2, w, lo, rest)
<1>1. /\ n \in 2 .. 4 /\ m \in 0 .. 4 - n /\ j \in 0 .. m
      /\ v \in [1 .. n -> Digits] /\ v[1] # 0 /\ u \in [0 .. 4 -> Digits]
  BY DEF AtWork
<1>2. PICK a \in 0 .. 4 - n : a = Here - n
  BY <1>1, Places
<1>3. (\A i \in a .. a + n : u[i] \in Digits) /\ (\A i \in 1 .. n : v[i] \in Digits)
  BY <1>1
<1> QED
  BY <1>1, <1>2, <1>3, FirstDigits

LEMMA StaysAtWork ==
  ASSUME DivisionInv, div_pc \in Working, div_pc' \in Working, UNCHANGED args,
         NEW x, WorkInv(x)'
  PROVE  DivisionInv'
<1>1. UNCHANGED <<division, uq, vq>>
  BY DEF args
<1>2. vq # 0 /\ division \in Divisions /\ uq = Argument(division.a) /\ vq = Argument(division.b)
  BY DEF DivisionInv
<1>3. Argument(division.a)' = Argument(division.a) /\ Argument(division.b)' = Argument(division.b)
  BY <1>1 DEF Argument
<1>4. div_pc' \notin {"start", "fault", "done"}
  BY DEF Working
<1> QED
  BY <1>1, <1>2, <1>3, <1>4 DEF DivisionInv

(* While a digit is estimated nothing but the estimate changes. *)
LEMMA Estimating ==
  ASSUME NEW x, AtWork(x), DividedBefore(x), UNCHANGED <<args, shape, j, u, q, results>>
  PROVE  /\ AtWork(x)' /\ DividedBefore(x)'
         /\ Window' = Window /\ Divisor' = Divisor /\ (Here - n)' = Here - n
<1>1. UNCHANGED <<division, uq, vq, n, m, d, v, j, u, q>>
  BY DEF args, shape
<1>2. Here' = Here /\ Divisor' = Divisor
  BY <1>1 DEF Here, Divisor
<1>3. Window' = Window
  BY <1>1, <1>2 DEF Window
<1>4. AtWork(x)'
  BY <1>1, <1>2 DEF AtWork
<1>5. DividedBefore(x)'
  BY <1>1, <1>2 DEF DividedBefore
<1> QED
  BY <1>1, <1>2, <1>3, <1>4, <1>5

(* What the estimate of a digit is about, in numbers. *)
AboutDigit(b, U, V, z0, z1, z2, y1, y2, w, lo, rest) ==
  /\ b = B /\ b >= 2 /\ U = Window /\ V = Divisor /\ U < V * b
  /\ z0 = u[At(j)] /\ z1 = u[At(j + 1)] /\ z2 = u[At(j + 2)] /\ y1 = v[1] /\ y2 = v[2]
  /\ z0 < b /\ z1 < b /\ z2 < b /\ y1 < b /\ y2 < b /\ y1 # 0
  /\ lo < w /\ rest < w
  /\ U = ((z0 * b + z1) * b + z2) * w + lo /\ V = (y1 * b + y2) * w + rest

LEMMA DigitFacts ==
  ASSUME NEW x, AtWork(x), DividedBefore(x), j <= m
  PROVE  \E b \in Nat, U \in Nat, V \in Nat, z0 \in Nat, z1 \in Nat, z2 \in Nat,
            y1 \in Nat, y2 \in Nat, w \in Nat, lo \in Nat, rest \in Nat :
           AboutDigit(b, U, V, z0, z1, z2, y1, y2, w, lo, rest)
<1>1. PICK b \in Nat : b = B /\ b >= 2
  BY Shifts
<1>2. PICK U \in Nat, V \in Nat : U = Window /\ V = Divisor /\ U < V * b
  BY <1>1, WindowFacts
<1>3. PICK z0 \in Digits, z1 \in Digits, z2 \in Digits, y1 \in Digits, y2 \in Digits,
           w \in Nat, lo \in Nat, rest \in Nat :
        BeginWith(u, Here - n, v, n, z0, z1, z2, y1, y2, w, lo, rest)
  BY WorkDigits
<1>4. \A g \in Digits : g \in Nat /\ g < b
  BY <1>1 DEF Digits
<1>5. /\ z0 \in Nat /\ z1 \in Nat /\ z2 \in Nat /\ y1 \in Nat /\ y2 \in Nat
      /\ z0 < b /\ z1 < b /\ z2 < b /\ y1 < b /\ y2 < b
  BY <1>4
<1>6. /\ At(j) = Here - n /\ At(j + 1) = (Here - n) + 1 /\ At(j + 2) = (Here - n) + 2
      /\ (Here - n) + n = Here
  BY Places DEF AtWork
<1>7. /\ z0 = u[At(j)] /\ z1 = u[At(j + 1)] /\ z2 = u[At(j + 2)] /\ y1 = v[1] /\ y2 = v[2]
      /\ lo < w /\ rest < w /\ y1 # 0
  BY <1>3, <1>6 DEF BeginWith
<1>8. /\ U = ((z0 * b + z1) * b + z2) * w + lo
      /\ V = (y1 * b + y2) * w + rest
  BY <1>1, <1>2, <1>3, <1>6 DEF BeginWith, Window, Divisor
<1>9. AboutDigit(b, U, V, z0, z1, z2, y1, y2, w, lo, rest)
  BY <1>1, <1>2, <1>5, <1>7, <1>8 DEF AboutDigit
<1> QED
  BY <1>5, <1>9

(* An estimate whose rest is B or more need not be lowered again. *)
LEMMA EndsEstimate ==
  ASSUME NEW b \in Nat, NEW U \in Nat, NEW V \in Nat, NEW z0 \in Nat, NEW z1 \in Nat,
         NEW z2 \in Nat, NEW y1 \in Nat, NEW y2 \in Nat, NEW w \in Nat, NEW lo \in Nat,
         NEW rest \in Nat, AboutDigit(b, U, V, z0, z1, z2, y1, y2, w, lo, rest),
         NEW e \in Nat, e < b, e * (y1 * b + y2) <= (z0 * b + z1) * b + z2
  PROVE  (e - 1) * Divisor <= Window
<1>1. PICK N3 \in Nat, V2 \in Nat : N3 = (z0 * b + z1) * b + z2 /\ V2 = y1 * b + y2
  OBVIOUS
<1>2. rest < w /\ U = N3 * w + lo /\ V = V2 * w + rest /\ y1 # 0 /\ U = Window /\ V = Divisor
  BY <1>1 DEF AboutDigit
<1>3. V2 >= b
  <2>1. 1 * b <= y1 * b
    BY <1>2
  <2>2. y1 * b \in Nat
    OBVIOUS
  <2> QED
    BY <1>1, <2>1, <2>2
<1>4. (e - 1) * V <= U
  BY <1>1, <1>2, <1>3, KeptIsClose
<1> QED
  BY <1>2, <1>4

LEMMA DivisionEstimates == DivisionInv /\ Estimate => DivisionInv'
<1> SUFFICES ASSUME DivisionInv, Estimate PROVE DivisionInv'
  OBVIOUS
<1>1. PICK x : AtWork(x) /\ j <= m /\ DividedBefore(x)
  BY DEF DivisionInv, Estimate, Working, WorkInv
<1>2. /\ AtWork(x)' /\ DividedBefore(x)' /\ Window' = Window /\ Divisor' = Divisor
      /\ (Here - n)' = Here - n
      /\ UNCHANGED <<m, j, v, u>>
  BY <1>1, Estimating DEF Estimate, shape
<1>3. PICK b \in Nat, U \in Nat, V \in Nat, z0 \in Nat, z1 \in Nat, z2 \in Nat,
           y1 \in Nat, y2 \in Nat, w \in Nat, lo \in Nat, rest \in Nat :
        AboutDigit(b, U, V, z0, z1, z2, y1, y2, w, lo, rest)
  BY <1>1, DigitFacts
<1>4. /\ b = B /\ b >= 2 /\ U = Window /\ V = Divisor /\ U < V * b
      /\ z0 = u[At(j)] /\ z1 = u[At(j + 1)] /\ z2 = u[At(j + 2)] /\ y1 = v[1] /\ y2 = v[2]
      /\ z0 < b /\ z1 < b /\ z2 < b /\ y1 < b /\ y2 < b /\ y1 # 0
      /\ lo < w /\ rest < w
  BY <1>3 DEF AboutDigit
<1>5. /\ U = ((z0 * b + z1) * b + z2) * w + lo
      /\ V = (y1 * b + y2) * w + rest
  BY <1>3 DEF AboutDigit
<1>6. At(j) = Here - n /\ At(j + 1) = (Here - n) + 1
  BY <1>1, Places DEF AtWork
<1>7. CASE z0 = y1
  <2>1. PICK e \in Nat, r \in Nat : e = b - 1 /\ r = z1 + y1
    <3>1. b >= 2
      BY <1>4
    <3>2. b - 1 \in Nat /\ z1 + y1 \in Nat
      BY <3>1
    <3> QED
      BY <3>2
  <2>2. qhat' = e /\ rhat' = r /\ div_pc' = IF r >= b THEN "subtract" ELSE "correct"
    BY <1>4, <1>7, <2>1 DEF Estimate, Lower
  <2>3. e < b /\ e * y1 + r = z0 * b + z1
    <3>1. (b - 1) * y1 = b * y1 - y1 /\ z0 * b = b * y1
      BY <1>7
    <3>2. b * y1 \in Nat
      OBVIOUS
    <3> QED
      BY <1>4, <2>1, <3>1, <3>2
  <2>4. (e + 1) * V > U
    <3>1. (e + 1) * V = V * b
      BY <2>1
    <3> QED
      BY <1>4, <3>1
  <2>5. LargeEnough'
    <3>1. e \in Digits
      BY <1>4, <2>1 DEF Digits
    <3> QED
      BY <1>2, <1>4, <2>2, <2>4, <3>1 DEF LargeEnough
  <2>6. CASE r >= b
    <3>1. e * (y1 * b + y2) <= (z0 * b + z1) * b + z2
      BY <1>4, <2>3, <2>6, TestIsExact
    <3>2. (e - 1) * Divisor <= Window
      BY <1>3, <2>3, <3>1, EndsEstimate
    <3>3. div_pc' = "subtract"
      BY <2>2, <2>6
    <3>4. WorkInv(x)'
      BY <1>1, <1>2, <2>2, <2>5, <3>2, <3>3 DEF WorkInv
    <3> QED
      BY <3>3, <3>4, StaysAtWork DEF Estimate, Working
  <2>7. CASE ~(r >= b)
    <3>1. div_pc' = "correct" /\ rhat' \in Digits
      BY <1>4, <2>2, <2>7 DEF Digits
    <3>2. e * y1 + r = u[Here - n] * B + u[(Here - n) + 1]
      BY <1>4, <1>6, <2>3
    <3>3. WorkInv(x)'
      BY <1>1, <1>2, <1>4, <2>2, <2>5, <3>1, <3>2 DEF WorkInv
    <3> QED
      BY <3>1, <3>3, StaysAtWork DEF Estimate, Working
  <2> QED
    BY <2>6, <2>7
<1>8. CASE z0 # y1
  <2>1. z0 < y1
    <3>1. ((z0 * b + z1) * b + z2) * w + lo < ((y1 * b + y2) * w + rest) * b
      BY <1>4, <1>5
    <3>2. z0 <= y1
      BY <1>4, <3>1, FirstDigitIsSmall
    <3> QED
      BY <1>8, <3>2
  <2>2. PICK nn \in Nat : nn = z0 * b + z1
    OBVIOUS
  <2>3. PICK e \in Nat, r \in Nat : e = nn \div y1 /\ r = nn % y1 /\ nn = e * y1 + r /\ r < y1
    BY <1>4, DivRem
  <2>4. qhat' = e /\ rhat' = r /\ div_pc' = "correct"
    BY <1>4, <1>8, <2>2, <2>3 DEF Estimate, COMBINE
  <2>5. e < b
    <3>1. nn < y1 * b
      <4>1. (z0 + 1) * b <= y1 * b
        BY <2>1
      <4>2. (z0 + 1) * b = z0 * b + b /\ z0 * b \in Nat /\ y1 * b \in Nat
        OBVIOUS
      <4> QED
        BY <1>4, <2>2, <4>1, <4>2
    <3>2. CASE e >= b
      <4>1. b * y1 <= e * y1
        BY <3>2
      <4>2. b * y1 = y1 * b /\ e * y1 \in Nat
        OBVIOUS
      <4> QED
        BY <2>3, <3>1, <4>1, <4>2
    <3> QED
      BY <3>2
  <2>6. (e + 1) * V > U
    <3>1. PICK f \in Nat : f = e + 1
      OBVIOUS
    <3>2. f * (y1 * b + y2) > (z0 * b + z1) * b + z2
      <4>1. f * y1 >= nn + 1
        <5>1. (e + 1) * y1 = e * y1 + y1
          OBVIOUS
        <5> QED
          BY <2>3, <3>1, <5>1
      <4>2. PICK g \in Nat : g = f * y1 /\ g >= nn + 1
        BY <4>1
      <4>3. (nn + 1) * b <= g * b
        BY <4>2
      <4>4. (nn + 1) * b = nn * b + b
        OBVIOUS
      <4>5. f * (y1 * b + y2) = g * b + f * y2 /\ f * y2 \in Nat
        <5>1. f * (y1 * b + y2) = (f * y1) * b + f * y2
          OBVIOUS
        <5> QED
          BY <4>2, <5>1
      <4>6. nn * b \in Nat /\ g * b \in Nat
        OBVIOUS
      <4> QED
        BY <1>4, <2>2, <4>3, <4>4, <4>5, <4>6
    <3>3. PICK N3 \in Nat, V2 \in Nat : N3 = (z0 * b + z1) * b + z2 /\ V2 = y1 * b + y2
      OBVIOUS
    <3>4. U = N3 * w + lo /\ V = V2 * w + rest /\ f * V2 > N3
      BY <1>5, <3>2, <3>3
    <3>5. f * V > U
      BY <1>4, <3>4, RefusedIsLarge
    <3> QED
      BY <3>1, <3>5
  <2>7. LargeEnough'
    <3>1. e \in Digits
      BY <1>4, <2>5 DEF Digits
    <3> QED
      BY <1>2, <1>4, <2>4, <2>6, <3>1 DEF LargeEnough
  <2>8. rhat' \in Digits
    <3>1. r < b
      BY <1>4, <2>3
    <3>2. r \in Digits
      BY <1>4, <3>1 DEF Digits
    <3> QED
      BY <2>4, <3>2
  <2>9. e * y1 + r = u[Here - n] * B + u[(Here - n) + 1]
    BY <1>4, <1>6, <2>2, <2>3
  <2>10. WorkInv(x)'
    BY <1>1, <1>2, <1>4, <2>4, <2>7, <2>8, <2>9 DEF WorkInv
  <2> QED
    BY <2>4, <2>10, StaysAtWork DEF Estimate, Working
<1> QED
  BY <1>7, <1>8

LEMMA DivisionCorrects == DivisionInv /\ Correct => DivisionInv'
<1> SUFFICES ASSUME DivisionInv, Correct PROVE DivisionInv'
  OBVIOUS
<1>1. PICK x : /\ AtWork(x) /\ j <= m /\ DividedBefore(x) /\ LargeEnough /\ rhat \in Digits
               /\ qhat * v[1] + rhat = u[Here - n] * B + u[(Here - n) + 1]
  BY DEF DivisionInv, Correct, Working, WorkInv
<1>2. /\ AtWork(x)' /\ DividedBefore(x)' /\ Window' = Window /\ Divisor' = Divisor
      /\ (Here - n)' = Here - n
      /\ UNCHANGED <<m, j, v, u>>
  BY <1>1, Estimating DEF Correct, shape
<1>3. PICK b \in Nat, U \in Nat, V \in Nat, z0 \in Nat, z1 \in Nat, z2 \in Nat,
           y1 \in Nat, y2 \in Nat, w \in Nat, lo \in Nat, rest \in Nat :
        AboutDigit(b, U, V, z0, z1, z2, y1, y2, w, lo, rest)
  BY <1>1, DigitFacts
<1>4. /\ b = B /\ b >= 2 /\ U = Window /\ V = Divisor
      /\ z0 = u[At(j)] /\ z1 = u[At(j + 1)] /\ z2 = u[At(j + 2)] /\ y1 = v[1] /\ y2 = v[2]
      /\ z2 < b /\ y1 < b /\ y2 < b /\ lo < w /\ rest < w
  BY <1>3 DEF AboutDigit
<1>5. PICK e \in Nat, r \in Nat : e = qhat /\ r = rhat /\ e < b /\ r < b /\ e \in Digits
  BY <1>1, <1>4 DEF LargeEnough, Digits
<1>6. At(j) = Here - n /\ At(j + 1) = (Here - n) + 1
  BY <1>1, Places DEF AtWork
<1>7. e * y1 + r = z0 * b + z1 /\ (e + 1) * V > U
  BY <1>1, <1>4, <1>5, <1>6 DEF LargeEnough
<1>8. TooBig <=> e * (y1 * b + y2) > (z0 * b + z1) * b + z2
  <2>1. /\ e * (y1 * b + y2) > (z0 * b + z1) * b + z2 <=> y2 * e > r * b + z2
        /\ y2 * e < b * b
    BY <1>4, <1>5, <1>7, TestIsExact
  <2>2. PICK g \in Nat, b2 \in Nat : g = y2 * e /\ b2 = b * b /\ g < b2
    BY <2>1
  <2>3. g % b2 = g
    <3>1. (0 * b2 + g) % b2 = g
      BY <2>2, DivUnique
    <3> QED
      BY <3>1
  <2>4. TooBig <=> g % b2 > r * b + z2
    BY <1>4, <1>5, <2>2 DEF TooBig, Word, COMBINE
  <2> QED
    BY <2>1, <2>2, <2>3, <2>4
<1>9. CASE ~TooBig
  <2>1. div_pc' = "subtract" /\ qhat' = qhat
    BY <1>9 DEF Correct
  <2>2. e * (y1 * b + y2) <= (z0 * b + z1) * b + z2
    <3>1. PICK g \in Nat, h \in Nat : g = e * (y1 * b + y2) /\ h = (z0 * b + z1) * b + z2
      OBVIOUS
    <3> QED
      BY <1>8, <1>9, <3>1
  <2>3. (e - 1) * Divisor <= Window
    BY <1>3, <1>5, <2>2, EndsEstimate
  <2>4. LargeEnough'
    BY <1>1, <1>2, <2>1 DEF LargeEnough
  <2>5. WorkInv(x)'
    BY <1>1, <1>2, <1>5, <2>1, <2>3, <2>4 DEF WorkInv
  <2> QED
    BY <2>1, <2>5, StaysAtWork DEF Correct, Working
<1>10. CASE TooBig
  <2>1. PICK N3 \in Nat, V2 \in Nat : N3 = (z0 * b + z1) * b + z2 /\ V2 = y1 * b + y2
    OBVIOUS
  <2>2. U = N3 * w + lo /\ V = V2 * w + rest /\ e * V2 > N3
    BY <1>3, <1>8, <1>10, <2>1 DEF AboutDigit
  <2>3. e * V > U
    BY <1>4, <2>2, RefusedIsLarge
  <2>4. e # 0
    <3>1. e = 0 => e * V2 = 0
      OBVIOUS
    <3> QED
      BY <2>2, <3>1
  <2>5. PICK e1 \in Nat, r1 \in Nat : e1 = e - 1 /\ r1 = r + y1 /\ e1 < b /\ e1 \in Digits
    <3>1. e - 1 \in Nat /\ r + y1 \in Nat /\ e - 1 < b
      BY <1>5, <2>4
    <3>2. e - 1 \in Digits
      BY <1>4, <3>1 DEF Digits
    <3> QED
      BY <3>1, <3>2
  <2>6. qhat' = e1 /\ rhat' = r1 /\ div_pc' = IF r1 >= b THEN "subtract" ELSE "correct"
    BY <1>4, <1>5, <1>10, <2>5 DEF Correct, Lower
  <2>7. e1 * y1 + r1 = z0 * b + z1
    <3>1. (e - 1) * y1 = e * y1 - y1 /\ e * y1 \in Nat
      OBVIOUS
    <3> QED
      BY <1>7, <2>5, <3>1
  <2>8. (e1 + 1) * V > U
    <3>1. e1 + 1 = e
      BY <2>5
    <3> QED
      BY <2>3, <3>1
  <2>9. LargeEnough'
    BY <1>2, <1>4, <2>5, <2>6, <2>8 DEF LargeEnough
  <2>10. CASE r1 >= b
    <3>1. e1 * (y1 * b + y2) <= (z0 * b + z1) * b + z2
      BY <1>4, <2>5, <2>7, <2>10, TestIsExact
    <3>2. (e1 - 1) * Divisor <= Window
      BY <1>3, <2>5, <3>1, EndsEstimate
    <3>3. div_pc' = "subtract"
      BY <2>6, <2>10
    <3>4. WorkInv(x)'
      BY <1>1, <1>2, <2>6, <2>9, <3>2, <3>3 DEF WorkInv
    <3> QED
      BY <3>3, <3>4, StaysAtWork DEF Correct, Working
  <2>11. CASE ~(r1 >= b)
    <3>1. div_pc' = "correct" /\ rhat' \in Digits
      BY <1>4, <2>6, <2>11 DEF Digits
    <3>2. e1 * y1 + r1 = u[Here - n] * B + u[(Here - n) + 1]
      BY <1>4, <1>6, <2>7
    <3>3. WorkInv(x)'
      BY <1>1, <1>2, <1>4, <2>6, <2>9, <3>1, <3>2 DEF WorkInv
    <3> QED
      BY <3>1, <3>3, StaysAtWork DEF Correct, Working
  <2> QED
    BY <2>10, <2>11
<1> QED
  BY <1>9, <1>10

(* D4's recursion has a value. *)
SubtractRow(x, a, y, N, e, t) ==
  [i \in 0 .. N |->
     LET owed == IF i = N THEN 0 ELSE Borrow(t[i + 1]) IN
       Word(x[a + i] - (IF i = 0 THEN 0 ELSE y[i] * e) - owed)]

LEMMA SubtractRowExists ==
  ASSUME NEW N \in 1 .. 4, NEW a \in 0 .. 4 - N, NEW x, NEW y, NEW e \in Digits,
         \A i \in a .. a + N : x[i] \in Digits,
         \A i \in 1 .. N : y[i] \in Digits
  PROVE  \E t : t = SubtractRow(x, a, y, N, e, t)
<1>1. PICK b \in Nat : b = B /\ b >= 2
  BY Shifts
<1>2. \A g \in Digits : g \in Int
  BY <1>1 DEF Digits
<1>3. \A k \in Int : Word(k) \in Nat
  <2>1. PICK b2 \in Nat : b2 = b * b /\ b2 # 0
    BY <1>1
  <2>2. \A k \in Int : k % b2 \in Nat
    BY <2>1
  <2> QED
    BY <1>1, <2>1, <2>2 DEF Word
<1>4. \A k \in Nat : Borrow(k) \in Int
  <2>1. \A k \in Nat : k \div b \in Int
    BY <1>1
  <2>2. \A k \in Int : (b - k) % b \in Int
    BY <1>1
  <2> QED
    BY <1>1, <2>1, <2>2 DEF Borrow, HHALF
<1> DEFINE part(i) == x[a + i] - (IF i = 0 THEN 0 ELSE y[i] * e)
           step == [p \in Nat \X (1 .. N) |-> Word(part(N - p[2]) - Borrow(p[1]))]
<1>5. \A i \in 0 .. N : part(i) \in Int
  <2> SUFFICES ASSUME NEW i \in 0 .. N PROVE part(i) \in Int
    OBVIOUS
  <2>1. x[a + i] \in Int
    <3>1. a + i \in a .. a + N
      OBVIOUS
    <3> QED
      BY <1>2, <3>1
  <2>2. (IF i = 0 THEN 0 ELSE y[i] * e) \in Int
    <3>1. i # 0 => y[i] \in Int /\ e \in Int
      BY <1>2
    <3> QED
      BY <3>1
  <2> QED
    BY <2>1, <2>2
<1> HIDE DEF part
<1>6. Word(part(N) - 0) \in Nat /\ N \in Nat
  BY <1>3, <1>5
<1>7. IsStep(step, Nat, N)
  <2>1. ASSUME NEW p \in Nat \X (1 .. N) PROVE Word(part(N - p[2]) - Borrow(p[1])) \in Nat
    <3>1. p[1] \in Nat /\ p[2] \in 1 .. N /\ N - p[2] \in 0 .. N
      OBVIOUS
    <3> QED
      BY <1>3, <1>4, <1>5, <3>1
  <2> QED
    BY <2>1 DEF IsStep
<1>8. PICK h : IsRecursion(h, Nat, Word(part(N) - 0), N, step)
  <2> HIDE DEF step
  <2> QED
    BY <1>6, <1>7, RecursionExists
<1>9. /\ h \in [0 .. N -> Nat] /\ h[0] = Word(part(N) - 0)
      /\ \A i \in 1 .. N : h[i] = step[<<h[i - 1], i>>]
  BY <1>8 DEF IsRecursion
<1> DEFINE t == [i \in 0 .. N |-> h[N - i]]
<1>10. ASSUME NEW i \in 0 .. N
       PROVE  t[i] = Word(part(i) - (IF i = N THEN 0 ELSE Borrow(t[i + 1])))
  <2>1. t[i] = h[N - i]
    OBVIOUS
  <2>2. CASE i = N
    <3>1. N - i = 0
      BY <2>2
    <3> QED
      BY <1>9, <2>1, <2>2, <3>1
  <2>3. CASE i # N
    <3>1. /\ i + 1 \in 0 .. N /\ N - i \in 1 .. N /\ N - (i + 1) = (N - i) - 1
          /\ N - (N - i) = i /\ (N - i) - 1 \in 0 .. N
      BY <2>3
    <3>2. t[i + 1] = h[(N - i) - 1]
      BY <3>1
    <3>3. h[(N - i) - 1] \in Nat
      BY <1>9, <3>1
    <3>4. h[N - i] = step[<<h[(N - i) - 1], N - i>>]
      BY <1>9, <3>1
    <3>5. <<h[(N - i) - 1], N - i>> \in Nat \X (1 .. N)
      BY <3>1, <3>3
    <3>6. h[N - i] = Word(part(N - (N - i)) - Borrow(h[(N - i) - 1]))
      BY <3>4, <3>5
    <3> HIDE DEF t
    <3> QED
      BY <2>1, <2>3, <3>1, <3>2, <3>6
  <2> QED
    BY <2>2, <2>3
<1>11. t = SubtractRow(x, a, y, N, e, t)
  BY <1>10 DEF SubtractRow, part
<1> QED
  BY <1>11

(* D6's recursion has a value. *)
AddRow(x, a, y, N, t) ==
  [i \in 0 .. N |->
     x[a + i] + (IF i = 0 THEN 0 ELSE y[i]) + (IF i = N THEN 0 ELSE HHALF(t[i + 1]))]

LEMMA AddRowExists ==
  ASSUME NEW N \in 1 .. 4, NEW a \in 0 .. 4 - N, NEW x, NEW y,
         \A i \in a .. a + N : x[i] \in Digits,
         \A i \in 1 .. N : y[i] \in Digits
  PROVE  \E t : t = AddRow(x, a, y, N, t)
<1>1. PICK b \in Nat : b = B /\ b >= 2
  BY Shifts
<1>2. \A g \in Digits : g \in Int
  BY <1>1 DEF Digits
<1>4. \A k \in Int : HHALF(k) \in Int
  BY <1>1 DEF HHALF
<1> DEFINE part(i) == x[a + i] + (IF i = 0 THEN 0 ELSE y[i])
           step == [p \in Int \X (1 .. N) |-> part(N - p[2]) + HHALF(p[1])]
<1>5. \A i \in 0 .. N : part(i) \in Int
  <2> SUFFICES ASSUME NEW i \in 0 .. N PROVE part(i) \in Int
    OBVIOUS
  <2>1. x[a + i] \in Int
    <3>1. a + i \in a .. a + N
      OBVIOUS
    <3> QED
      BY <1>2, <3>1
  <2>2. (IF i = 0 THEN 0 ELSE y[i]) \in Int
    <3>1. i # 0 => y[i] \in Int
      BY <1>2
    <3> QED
      BY <3>1
  <2> QED
    BY <2>1, <2>2
<1> HIDE DEF part
<1>6. part(N) + 0 \in Int /\ N \in Nat
  BY <1>5
<1>7. IsStep(step, Int, N)
  <2>1. ASSUME NEW p \in Int \X (1 .. N) PROVE part(N - p[2]) + HHALF(p[1]) \in Int
    <3>1. p[1] \in Int /\ p[2] \in 1 .. N /\ N - p[2] \in 0 .. N
      OBVIOUS
    <3>2. part(N - p[2]) \in Int /\ HHALF(p[1]) \in Int
      BY <1>4, <1>5, <3>1
    <3> QED
      BY <3>2
  <2> QED
    BY <2>1 DEF IsStep
<1>8. PICK h : IsRecursion(h, Int, part(N) + 0, N, step)
  <2> HIDE DEF step
  <2> QED
    BY <1>6, <1>7, RecursionExists
<1>9. /\ h \in [0 .. N -> Int] /\ h[0] = part(N) + 0
      /\ \A i \in 1 .. N : h[i] = step[<<h[i - 1], i>>]
  BY <1>8 DEF IsRecursion
<1> DEFINE t == [i \in 0 .. N |-> h[N - i]]
<1>10. ASSUME NEW i \in 0 .. N
       PROVE  t[i] = part(i) + (IF i = N THEN 0 ELSE HHALF(t[i + 1]))
  <2>1. t[i] = h[N - i]
    OBVIOUS
  <2>2. CASE i = N
    <3>1. N - i = 0
      BY <2>2
    <3> QED
      BY <1>9, <2>1, <2>2, <3>1
  <2>3. CASE i # N
    <3>1. /\ i + 1 \in 0 .. N /\ N - i \in 1 .. N /\ N - (i + 1) = (N - i) - 1
          /\ N - (N - i) = i /\ (N - i) - 1 \in 0 .. N
      BY <2>3
    <3>2. t[i + 1] = h[(N - i) - 1]
      BY <3>1
    <3>3. h[(N - i) - 1] \in Int
      BY <1>9, <3>1
    <3>4. h[N - i] = step[<<h[(N - i) - 1], N - i>>]
      BY <1>9, <3>1
    <3>5. <<h[(N - i) - 1], N - i>> \in Int \X (1 .. N)
      BY <3>1, <3>3
    <3>6. h[N - i] = part(N - (N - i)) + HHALF(h[(N - i) - 1])
      BY <3>4, <3>5
    <3> HIDE DEF t
    <3> QED
      BY <2>1, <2>3, <3>1, <3>2, <3>6
  <2> QED
    BY <2>2, <2>3
<1>11. t = AddRow(x, a, y, N, t)
  BY <1>10 DEF AddRow, part
<1> QED
  BY <1>11

(* A window that the digits of t replace. *)
LEMMA WindowReplaced ==
  ASSUME NEW x, AtWork(x), j <= m, UNCHANGED <<args, shape, j, q, results>>,
         NEW t, \A i \in 0 .. n : LHALF(t[i]) \in Digits,
         u' = [k \in 0 .. 4 |-> IF k \in At(j) .. At(j + n)
                                  THEN LHALF(t[k - At(j)]) ELSE u[k]]
  PROVE  /\ AtWork(x)' /\ Here' = Here /\ Divisor' = Divisor
         /\ Window' = Value(u', Here - n, (Here - n) + n)
         /\ \A i \in 0 .. n : u'[(Here - n) + i] = LHALF(t[i])
<1>1. UNCHANGED <<division, uq, vq, n, m, d, v, j, q>>
  BY DEF args, shape
<1>2. /\ n \in 2 .. 4 /\ m \in 0 .. 4 - n /\ j \in 0 .. m /\ u \in [0 .. 4 -> Digits]
  BY DEF AtWork
<1>3. PICK a \in 0 .. 2 : a = Here - n /\ At(j) = a /\ At(j + n) = a + n /\ a + n = Here /\ a + n \in 0 .. 4
  <2>1. /\ Here \in 2 .. 4 /\ Here - n \in 0 .. 4 - n /\ (Here - n) + n = Here
        /\ At(j) = Here - n /\ At(j + n) = Here
    BY <1>2, Places
  <2>2. Here - n \in 0 .. 2
    BY <1>2, <2>1
  <2> QED
    BY <2>1, <2>2
<1>4. u' = [k \in 0 .. 4 |-> IF k \in a .. a + n THEN LHALF(t[k - a]) ELSE u[k]]
  BY <1>3
<1>5. ASSUME NEW i \in 0 .. n PROVE u'[a + i] = LHALF(t[i])
  <2>1. a + i \in 0 .. 4 /\ a + i \in a .. a + n /\ (a + i) - a = i
    BY <1>2, <1>3
  <2> QED
    BY <1>4, <2>1
<1>6. u' \in [0 .. 4 -> Digits]
  <2>1. ASSUME NEW k \in 0 .. 4 PROVE (IF k \in a .. a + n THEN LHALF(t[k - a]) ELSE u[k]) \in Digits
    <3>1. k \in a .. a + n => k - a \in 0 .. n
      BY <1>2
    <3> QED
      BY <1>2, <3>1
  <2> QED
    BY <1>4, <2>1
<1>7. \A k \in 0 .. 4 : k \notin a .. a + n => u'[k] = u[k]
  BY <1>4
<1>8. Here' = Here /\ Divisor' = Divisor
  BY <1>1 DEF Here, Divisor
<1>9. Window' = Value(u', Here - n, (Here - n) + n)
  BY <1>1, <1>3, <1>8 DEF Window
<1>10. (\A k \in 0 .. a - 1 : u'[k] = 0) /\ \A k \in (a + n) + 1 .. 4 : u'[k] = x[k]
  <2>1. (\A k \in 0 .. a - 1 : u[k] = 0) /\ \A k \in (a + n) + 1 .. 4 : u[k] = x[k]
    BY <1>3 DEF AtWork
  <2>2. \A k \in 0 .. a - 1 : k \in 0 .. 4 /\ k \notin a .. a + n
    BY <1>2
  <2>3. \A k \in (a + n) + 1 .. 4 : k \in 0 .. 4 /\ k \notin a .. a + n
    BY <1>2
  <2> QED
    BY <1>7, <2>1, <2>2, <2>3
<1>11. AtWork(x)'
  BY <1>1, <1>3, <1>6, <1>8, <1>10 DEF AtWork
<1> QED
  BY <1>3, <1>5, <1>8, <1>9, <1>11

DigitsAt(x, a, l) == \A i \in a .. l : x[i] \in Digits

TakesDigits(z, a, N, t) == \A i \in 0 .. N : z[a + i] = LHALF(t[i])

Difference(z, x, a, y, N, e, t) ==
  /\ \A i \in a .. a + N : z[i] \in Digits
  /\ HHALF(t[0]) = 0 => Value(z, a, a + N) = Value(x, a, a + N) - e * Value(y, 1, N)
  /\ HHALF(t[0]) # 0 =>
       Value(z, a, a + N) = Value(x, a, a + N) - e * Value(y, 1, N) + Pow(N + 1)

LEMMA SubtractWindow ==
  ASSUME NEW N \in 1 .. 4, NEW a \in 0 .. 4 - N, NEW x, NEW y, NEW z, NEW t, NEW e \in Digits,
         DigitsAt(x, a, a + N), DigitsAt(y, 1, N), Subtracts(x, a, y, N, e, t),
         TakesDigits(z, a, N, t)
  PROVE  Difference(z, x, a, y, N, e, t)
<1>1. /\ \A i \in a .. a + N : x[i] \in Digits
      /\ \A i \in 1 .. N : y[i] \in Digits
      /\ \A i \in 0 .. N : z[a + i] = LHALF(t[i])
  BY DEF DigitsAt, TakesDigits
<1>2. /\ \A i \in a .. a + N : z[i] \in Digits
      /\ HHALF(t[0]) = 0 => Value(z, a, a + N) = Value(x, a, a + N) - e * Value(y, 1, N)
      /\ HHALF(t[0]) # 0 =>
           Value(z, a, a + N) = Value(x, a, a + N) - e * Value(y, 1, N) + Pow(N + 1)
  BY <1>1, SubtractDigits
<1> QED
  BY <1>2 DEF Difference

LEMMA DivisionSubtracts == DivisionInv /\ Subtract => DivisionInv'
<1> SUFFICES ASSUME DivisionInv, Subtract PROVE DivisionInv'
  OBVIOUS
<1>1. PICK x : /\ AtWork(x) /\ j <= m /\ DividedBefore(x) /\ LargeEnough
               /\ (qhat - 1) * Divisor <= Window
  BY DEF DivisionInv, Subtract, Working, WorkInv
<1>2. /\ n \in 2 .. 4 /\ m \in 0 .. 4 - n /\ j \in 0 .. m
      /\ v \in [1 .. n -> Digits] /\ u \in [0 .. 4 -> Digits]
  BY <1>1 DEF AtWork
<1>3. PICK a \in 0 .. 4 - n : /\ a = Here - n /\ a + n = Here
                              /\ \A i \in Int : At(i + j) = a + i
  BY <1>2, Places
<1>4. PICK b \in Nat : b = B /\ b >= 2
  BY Shifts
<1>5. PICK U \in Nat, V \in Nat, c \in Nat :
        /\ U = Window /\ V = Divisor /\ c = Value(q, 0, Here - 1)
        /\ Value(x, 0, Here) = (c * b) * V + U
  BY <1>1, <1>4, WindowFacts
<1>6. PICK e \in Nat : e = qhat /\ e \in Digits /\ (e + 1) * V > U /\ (e - 1) * V <= U
  BY <1>1, <1>4, <1>5 DEF LargeEnough, Digits
<1>7. n \in 1 .. 4 /\ (\A i \in a .. a + n : u[i] \in Digits) /\ (\A i \in 1 .. n : v[i] \in Digits)
  BY <1>2
<1>e. e \in Digits /\ a \in 0 .. 4 - n
  BY <1>3, <1>6
<1> DEFINE Rec(t) == [i \in 0 .. n |->
                        LET owed == IF i = n THEN 0 ELSE Borrow(t[i + 1]) IN
                          Word(u[At(i + j)] - (IF i = 0 THEN 0 ELSE v[i] * qhat) - owed)]
<1>8. PICK t : /\ t = Rec(t)
               /\ u' = [k \in 0 .. 4 |-> IF k \in At(j) .. At(j + n)
                                           THEN LHALF(t[k - At(j)]) ELSE u[k]]
               /\ div_pc' = IF HHALF(t[0]) # 0 THEN "add_back" ELSE "store"
  <2>1. \E f : f = Rec(f)
    <3>1. PICK f : f = SubtractRow(u, a, v, n, e, f)
      BY <1>6, <1>7, SubtractRowExists
    <3>2. Rec(f) = SubtractRow(u, a, v, n, e, f)
      <4>1. \A i \in 0 .. n : At(i + j) = a + i
        BY <1>2, <1>3
      <4> QED
        BY <1>6, <4>1 DEF SubtractRow
    <3> QED
      BY <3>1, <3>2
  <2> DEFINE F == CHOOSE f : f = Rec(f)
  <2>2. F = Rec(F)
    <3> HIDE DEF Rec
    <3> QED
      BY <2>1
  <2>3. /\ u' = [k \in 0 .. 4 |-> IF k \in At(j) .. At(j + n)
                                    THEN LHALF(F[k - At(j)]) ELSE u[k]]
        /\ div_pc' = IF HHALF(F[0]) # 0 THEN "add_back" ELSE "store"
    BY DEF Subtract
  <2> HIDE DEF F, Rec
  <2> QED
    BY <2>2, <2>3
<1>9. Subtracts(u, a, v, n, e, t)
  <2>1. ASSUME NEW i \in 0 .. n
        PROVE  t[i] = Word(u[a + i] - (IF i = 0 THEN 0 ELSE v[i] * e)
                                    - (IF i = n THEN 0 ELSE Borrow(t[i + 1])))
    <3>1. At(i + j) = a + i
      BY <1>2, <1>3
    <3> QED
      BY <1>6, <1>8, <3>1
  <2> QED
    BY <2>1 DEF Subtracts
<1> HIDE DEF Rec
<1>10. \A i \in 0 .. n : LHALF(t[i]) \in Digits
  <2> DEFINE z == [k \in a .. a + n |-> LHALF(t[k - a])]
  <2>1. \A i \in 0 .. n : z[a + i] = LHALF(t[i])
    <3>1. \A i \in 0 .. n : a + i \in a .. a + n /\ (a + i) - a = i
      BY <1>2
    <3> QED
      BY <3>1
  <2> HIDE DEF z
  <2>2. \A i \in a .. a + n : z[i] \in Digits
    BY <1>e, <1>7, <1>9, <2>1, SubtractDigits
  <2>3. \A i \in 0 .. n : a + i \in a .. a + n
    BY <1>2
  <2> QED
    BY <2>1, <2>2, <2>3
<1>11. /\ AtWork(x)' /\ Here' = Here /\ Divisor' = Divisor
       /\ Window' = Value(u', a, a + n)
       /\ \A i \in 0 .. n : u'[a + i] = LHALF(t[i])
  BY <1>1, <1>3, <1>8, <1>10, WindowReplaced DEF Subtract
<1>12. /\ \A i \in a .. a + n : u'[i] \in Digits
       /\ HHALF(t[0]) = 0 => Window' = U - e * V
       /\ HHALF(t[0]) # 0 => Window' = U - e * V + Pow(n + 1)
  <2>1. U = Value(u, a, a + n) /\ V = Value(v, 1, n)
    BY <1>3, <1>5 DEF Window, Divisor
  <2> QED
    <3>1. DigitsAt(u, a, a + n) /\ DigitsAt(v, 1, n) /\ TakesDigits(u', a, n, t)
      BY <1>7, <1>11 DEF DigitsAt, TakesDigits
    <3>2. Difference(u', u, a, v, n, e, t)
      BY <1>e, <1>7, <1>9, <3>1, SubtractWindow
    <3> QED
      BY <1>11, <2>1, <3>2 DEF Difference
<1>13. PICK R \in Nat, p \in Nat : R = Window' /\ p = Pow(n + 1) /\ R < p
  <2>1. a \in Int /\ a + n \in Int /\ a - 1 <= a + n /\ (a + n) - a <= 4 /\ (a + n) - a = n
    BY <1>2
  <2>2. Value(u', a, a + n) \in Nat /\ Value(u', a, a + n) < Pow(n + 1)
    BY <1>12, <2>1, ValueBounds
  <2>3. Pow(n + 1) \in Nat
    <3>1. n + 1 \in 0 .. 5
      BY <1>2
    <3> QED
      BY <3>1, PowSteps
  <2> QED
    BY <1>11, <2>2, <2>3
<1>14. (q' = q) /\ (qhat' = qhat) /\ (j' = j) /\ (m' = m) /\ (n' = n)
  BY DEF Subtract, shape
<1>15. PICK g \in Nat : g = e * V
  OBVIOUS
<1>16. /\ (e + 1) * V = g + V /\ (e - 1) * V = g - V
  BY <1>15
<1>17. CASE HHALF(t[0]) = 0
  <2>1. R = U - g /\ R < V /\ div_pc' = "store"
    BY <1>6, <1>8, <1>12, <1>13, <1>15, <1>16, <1>17
  <2>2. (c * b) * V + U = (c * b + e) * V + R
    <3>1. (c * b + e) * V = (c * b) * V + g
      BY <1>15
    <3>2. (c * b) * V \in Nat
      OBVIOUS
    <3> QED
      BY <2>1, <3>1, <3>2
  <2>3. DividedBy(x, qhat, Window)'
    BY <1>4, <1>5, <1>6, <1>11, <1>13, <1>14, <2>1, <2>2 DEF DividedBy
  <2>4. WorkInv(x)'
    BY <1>2, <1>6, <1>11, <1>14, <2>1, <2>3 DEF WorkInv
  <2> QED
    BY <2>1, <2>4, StaysAtWork DEF Subtract, Working
<1>18. CASE HHALF(t[0]) # 0
  <2>1. R = U - g + p /\ U < g /\ div_pc' = "add_back"
    BY <1>8, <1>12, <1>13, <1>15, <1>18
  <2>2. e # 0
    <3>1. e = 0 => g = 0
      BY <1>15
    <3> QED
      BY <2>1, <3>1
  <2>3. PICK e1 \in Nat, r \in Nat : e1 = e - 1 /\ r = (R + V) - p /\ r < V /\ r = U - (g - V)
    BY <1>6, <1>16, <2>1, <2>2
  <2>4. (c * b) * V + U = (c * b + e1) * V + r
    <3>1. (c * b + e1) * V = (c * b) * V + e1 * V /\ (c * b) * V \in Nat
      OBVIOUS
    <3>2. e1 * V = g - V
      BY <1>16, <2>3
    <3> QED
      BY <2>3, <3>1, <3>2
  <2>5. r = Window' + Divisor' - Pow(n' + 1)
    BY <1>5, <1>11, <1>13, <1>14, <2>3
  <2>6. DividedBy(x, qhat - 1, Window + Divisor - Pow(n + 1))'
    <3>1. Pow(n' + 1) = Pow(n + 1)'
      BY DEF Pow
    <3>2. Value(x, 0, Here') = (Value(q', 0, Here' - 1) * B + (qhat' - 1)) * Divisor' + r
      BY <1>4, <1>5, <1>6, <1>11, <1>14, <2>3, <2>4
    <3>3. r < Divisor'
      BY <1>5, <1>11, <2>3
    <3> QED
      BY <2>5, <3>1, <3>2, <3>3 DEF DividedBy
  <2>7. WorkInv(x)'
    BY <1>2, <1>6, <1>11, <1>14, <2>1, <2>2, <2>6 DEF WorkInv
  <2> QED
    BY <2>1, <2>7, StaysAtWork DEF Subtract, Working
<1> QED
  BY <1>17, <1>18

Sum(z, x, a, y, N) ==
  /\ \A i \in a .. a + N : z[i] \in Digits
  /\ \E p \in {0, 1} :
       Value(z, a, a + N) = Value(x, a, a + N) + Value(y, 1, N) - p * Pow(N + 1)

LEMMA AddWindow ==
  ASSUME NEW N \in 1 .. 4, NEW a \in 0 .. 4 - N, NEW x, NEW y, NEW z, NEW t,
         DigitsAt(x, a, a + N), DigitsAt(y, 1, N), Adds(x, a, y, N, t),
         TakesDigits(z, a, N, t)
  PROVE  Sum(z, x, a, y, N)
<1>1. /\ \A i \in a .. a + N : x[i] \in Digits
      /\ \A i \in 1 .. N : y[i] \in Digits
      /\ \A i \in 0 .. N : z[a + i] = LHALF(t[i])
  BY DEF DigitsAt, TakesDigits
<1>2. /\ \A i \in a .. a + N : z[i] \in Digits
      /\ \E p \in {0, 1} :
           Value(z, a, a + N) = Value(x, a, a + N) + Value(y, 1, N) - p * Pow(N + 1)
  BY <1>1, AddDigits
<1> QED
  BY <1>2 DEF Sum

LEMMA DivisionAddsBack == DivisionInv /\ AddBack => DivisionInv'
<1> SUFFICES ASSUME DivisionInv, AddBack PROVE DivisionInv'
  OBVIOUS
<1>1. PICK x : /\ AtWork(x) /\ j <= m /\ qhat \in Nat /\ qhat # 0
               /\ DividedBy(x, qhat - 1, Window + Divisor - Pow(n + 1))
  BY DEF DivisionInv, AddBack, Working, WorkInv
<1>2. /\ n \in 2 .. 4 /\ m \in 0 .. 4 - n /\ j \in 0 .. m
      /\ v \in [1 .. n -> Digits] /\ u \in [0 .. 4 -> Digits]
  BY <1>1 DEF AtWork
<1>3. PICK a \in 0 .. 4 - n : /\ a = Here - n /\ a + n = Here
                              /\ \A i \in Int : At(i + j) = a + i
  BY <1>2, Places
<1>7. n \in 1 .. 4 /\ (\A i \in a .. a + n : u[i] \in Digits) /\ (\A i \in 1 .. n : v[i] \in Digits)
  BY <1>2
<1>e. a \in 0 .. 4 - n
  BY <1>3
<1> DEFINE Rec(t) == [i \in 0 .. n |->
                        u[At(i + j)] + (IF i = 0 THEN 0 ELSE v[i])
                                     + (IF i = n THEN 0 ELSE HHALF(t[i + 1]))]
<1>8. PICK t : /\ t = Rec(t)
               /\ u' = [k \in 0 .. 4 |-> IF k \in At(j) .. At(j + n)
                                           THEN LHALF(t[k - At(j)]) ELSE u[k]]
  <2>1. \E f : f = Rec(f)
    <3>1. PICK f : f = AddRow(u, a, v, n, f)
      BY <1>e, <1>7, AddRowExists
    <3>2. Rec(f) = AddRow(u, a, v, n, f)
      <4>1. \A i \in 0 .. n : At(i + j) = a + i
        BY <1>2, <1>3
      <4> QED
        BY <4>1 DEF AddRow
    <3> QED
      BY <3>1, <3>2
  <2> DEFINE F == CHOOSE f : f = Rec(f)
  <2>2. F = Rec(F)
    <3> HIDE DEF Rec
    <3> QED
      BY <2>1
  <2>3. u' = [k \in 0 .. 4 |-> IF k \in At(j) .. At(j + n)
                                 THEN LHALF(F[k - At(j)]) ELSE u[k]]
    BY DEF AddBack
  <2> HIDE DEF F, Rec
  <2> QED
    BY <2>2, <2>3
<1>9. Adds(u, a, v, n, t)
  <2>1. ASSUME NEW i \in 0 .. n
        PROVE  t[i] = u[a + i] + (IF i = 0 THEN 0 ELSE v[i])
                               + (IF i = n THEN 0 ELSE HHALF(t[i + 1]))
    <3>1. At(i + j) = a + i
      BY <1>2, <1>3
    <3> QED
      BY <1>8, <3>1
  <2> QED
    BY <2>1 DEF Adds
<1> HIDE DEF Rec
<1>d. DigitsAt(u, a, a + n) /\ DigitsAt(v, 1, n)
  BY <1>7 DEF DigitsAt
<1>10. \A i \in 0 .. n : LHALF(t[i]) \in Digits
  <2> DEFINE z == [k \in a .. a + n |-> LHALF(t[k - a])]
  <2>1. TakesDigits(z, a, n, t)
    <3>1. \A i \in 0 .. n : a + i \in a .. a + n /\ (a + i) - a = i
      BY <1>2
    <3> QED
      BY <3>1 DEF TakesDigits
  <2> HIDE DEF z
  <2>2. Sum(z, u, a, v, n)
    BY <1>e, <1>7, <1>9, <1>d, <2>1, AddWindow
  <2>3. \A i \in 0 .. n : a + i \in a .. a + n
    BY <1>2
  <2> QED
    BY <2>1, <2>2, <2>3 DEF Sum, TakesDigits
<1>11. /\ AtWork(x)' /\ Here' = Here /\ Divisor' = Divisor
       /\ Window' = Value(u', a, a + n)
       /\ \A i \in 0 .. n : u'[a + i] = LHALF(t[i])
  BY <1>1, <1>3, <1>8, <1>10, WindowReplaced DEF AddBack
<1>12. PICK U \in Nat, V \in Nat, p \in Nat :
         U = Window /\ V = Divisor /\ p = Pow(n + 1)
  <2>1. a \in Int /\ a + n \in Int /\ a - 1 <= a + n /\ (a + n) - a <= 4
    BY <1>2
  <2>2. Value(u, a, a + n) \in Nat
    BY <1>7, <2>1, ValueBounds
  <2>3. 1 - 1 <= n /\ n - 1 <= 4 /\ n \in Int
    BY <1>2
  <2>4. Divisor \in Nat
    BY <1>7, <2>3, ValueBounds DEF Divisor
  <2>5. Pow(n + 1) \in Nat
    <3>1. n + 1 \in 0 .. 5
      BY <1>2
    <3> QED
      BY <3>1, PowSteps
  <2> QED
    BY <1>3, <2>2, <2>4, <2>5 DEF Window
<1>13. Sum(u', u, a, v, n)
  <2>1. TakesDigits(u', a, n, t)
    BY <1>11 DEF TakesDigits
  <2> QED
    BY <1>e, <1>7, <1>9, <1>d, <2>1, AddWindow
<1>14. PICK R \in Nat : R = Window' /\ R < p
  <2>1. a \in Int /\ a + n \in Int /\ a - 1 <= a + n /\ (a + n) - a <= 4 /\ (a + n) - a = n
    BY <1>2
  <2>2. \A i \in a .. a + n : u'[i] \in Digits
    BY <1>13 DEF Sum
  <2>3. Value(u', a, a + n) \in Nat /\ Value(u', a, a + n) < Pow(n + 1)
    BY <2>1, <2>2, ValueBounds
  <2> QED
    BY <1>11, <1>12, <2>3
<1>15. PICK r \in Nat : r = (U + V) - p /\ DividedBy(x, qhat - 1, r)
  BY <1>1, <1>12 DEF DividedBy
<1>16. R = r
  <2>1. U = Value(u, a, a + n) /\ V = Value(v, 1, n)
    BY <1>3, <1>12 DEF Window, Divisor
  <2>2. PICK sn \in {0, 1} : R = (U + V) - sn * p
    BY <1>11, <1>12, <1>13, <1>14, <2>1 DEF Sum
  <2>3. CASE sn = 0
    <3>1. R = U + V
      BY <2>2, <2>3
    <3> QED
      BY <1>14, <1>15, <3>1
  <2>4. CASE sn = 1
    BY <1>15, <2>2, <2>4
  <2> QED
    BY <2>3, <2>4
<1>17. PICK e1 \in Nat : e1 = qhat - 1
  BY <1>1
<1>18. qhat' = e1 /\ q' = q /\ j' = j /\ m' = m /\ n' = n /\ div_pc' = "store"
  BY <1>17 DEF AddBack, shape
<1>19. DividedBy(x, qhat, Window)'
  BY <1>11, <1>14, <1>15, <1>16, <1>17, <1>18 DEF DividedBy
<1>20. WorkInv(x)'
  BY <1>2, <1>11, <1>17, <1>18, <1>19 DEF WorkInv
<1> QED
  BY <1>18, <1>20, StaysAtWork DEF AddBack, Working

LEMMA DivisionStores == DivisionInv /\ Store => DivisionInv'
<1> SUFFICES ASSUME DivisionInv, Store PROVE DivisionInv'
  OBVIOUS
<1>1. PICK x : AtWork(x) /\ j <= m /\ qhat \in Nat /\ DividedBy(x, qhat, Window)
  BY DEF DivisionInv, Store, Working, WorkInv
<1>2. /\ n \in 2 .. 4 /\ m \in 0 .. 4 - n /\ j \in 0 .. m
      /\ v \in [1 .. n -> Digits] /\ u \in [0 .. 4 -> Digits] /\ x \in [0 .. 4 -> Digits]
      /\ q \in [0 .. 4 -> Nat] /\ q[0] = 0
  BY <1>1 DEF AtWork
<1>3. PICK e \in 2 .. 4, a \in 0 .. 2 : e = Here /\ a = Here - n /\ a + n = e
  <2>1. Here \in 2 .. 4 /\ Here - n \in 0 .. 4 - n /\ (Here - n) + n = Here
    BY <1>2, Places
  <2>2. Here - n \in 0 .. 2
    BY <1>2, <2>1
  <2> QED
    BY <2>1, <2>2
<1>4. /\ n' = n /\ m' = m /\ d' = d /\ v' = v /\ u' = u /\ uq' = uq /\ vq' = vq
      /\ j' = j + 1 /\ q' = [q EXCEPT ![e] = qhat]
      /\ div_pc' = IF j < m THEN "estimate" ELSE "finish"
  BY <1>3 DEF Store, Here, shape, args
<1>5. Here' = e + 1 /\ (Here - n)' = a + 1 /\ Divisor' = Divisor /\ j' \in 0 .. m + 1
  BY <1>2, <1>3, <1>4 DEF Here, Divisor
<1>6. q' \in [0 .. 4 -> Nat] /\ q'[0] = 0 /\ q'[e] = qhat /\ \A k \in 0 .. e - 1 : q'[k] = q[k]
  BY <1>1, <1>2, <1>3, <1>4
<1>7. PICK b \in Nat : b = B /\ b >= 2
  BY Shifts
<1>8. \A g \in Digits : g \in Nat /\ g < b
  BY <1>7 DEF Digits
<1>9. Value(q', 0, e) = Value(q, 0, e - 1) * B + qhat
  <2>1. Value(q', 0, e) = Value(q', 0, e - 1) * B + q'[e]
    <3>1. e \in Int /\ e - 0 <= 4 /\ 0 <= e /\ \A k \in 0 .. e : q'[k] \in Int
      BY <1>6
    <3> QED
      BY <3>1, ValueSteps
  <2>2. \A k \in 0 .. 4 : DigitOf(q', 0, e - 1, k) = DigitOf(q, 0, e - 1, k)
    BY <1>6 DEF DigitOf
  <2>3. Value(q', 0, e - 1) = Value(q, 0, e - 1)
    BY <2>2, SameDigits
  <2> QED
    BY <1>6, <2>1, <2>3
<1>10. PICK U \in Nat, V \in Nat : U = Window /\ V = Divisor /\ U < V
  <2>1. 1 - 1 <= n /\ n - 1 <= 4 /\ n \in Int /\ \A k \in 1 .. n : v[k] \in Digits
    BY <1>2
  <2>2. Divisor \in Nat
    BY <2>1, ValueBounds DEF Divisor
  <2> QED
    BY <1>1, <2>2 DEF DividedBy
<1>11. u[a] = 0 /\ Value(u, a + 1, e) = U
  <2>1. /\ a \in Int /\ e \in Int /\ a - 1 <= a /\ a <= e /\ e - a <= 4 /\ e - a = n
        /\ \A k \in a .. e : u[k] \in Digits
    BY <1>2, <1>3
  <2>2. Value(u, a, e) = Value(u, a, a) * Pow(e - a) + Value(u, a + 1, e)
    BY <2>1, ValueParts
  <2>3. Value(u, a, a) = u[a]
    <3>1. \A k \in a .. a : u[k] \in Int
      BY <1>8, <2>1
    <3>2. Value(u, a, a) = Value(u, a, a - 1) * B + u[a]
      BY <2>1, <3>1, ValueSteps
    <3>3. Value(u, a, a - 1) = 0
      <4>1. a - 1 < a /\ (a - 1) - a <= 4 /\ a - 1 \in Int /\ \A k \in a .. a - 1 : u[k] \in Int
        BY <2>1
      <4> QED
        BY <2>1, <4>1, ValueSteps
    <3>4. 0 * b + u[a] = u[a]
      <4>1. u[a] \in Nat
        BY <1>8, <2>1
      <4> QED
        BY <4>1
    <3> QED
      BY <1>7, <3>2, <3>3, <3>4
  <2>4. PICK g \in Nat, rest \in Nat : g = u[a] /\ rest = Value(u, a + 1, e)
    <3>1. /\ a + 1 \in Int /\ (a + 1) - 1 <= e /\ e - (a + 1) <= 4 /\ e \in Int
          /\ \A k \in a + 1 .. e : u[k] \in Digits
      BY <2>1
    <3>2. Value(u, a + 1, e) \in Nat
      BY <3>1, ValueBounds
    <3> QED
      BY <1>8, <2>1, <3>2
  <2>5. PICK p \in Nat : p = Pow(n) /\ V < p
    <3>1. /\ 1 \in Int /\ 1 - 1 <= n /\ n - 1 <= 4 /\ n \in Int /\ (n - 1) + 1 = n
          /\ \A k \in 1 .. n : v[k] \in Digits
      BY <1>2
    <3>2. Value(v, 1, n) < Pow(n)
      BY <3>1, ValueBounds
    <3>3. Pow(n) \in Nat
      <4>1. n \in 0 .. 5
        BY <1>2
      <4> QED
        BY <4>1, PowSteps
    <3> QED
      BY <1>10, <3>2, <3>3 DEF Divisor
  <2>6. U = g * p + rest
    BY <1>3, <1>10, <2>1, <2>2, <2>3, <2>4, <2>5 DEF Window
  <2>7. g = 0
    <3>1. CASE g >= 1
      <4>1. 1 * p <= g * p
        BY <3>1
      <4>2. g * p \in Nat
        OBVIOUS
      <4> QED
        BY <1>10, <2>5, <2>6, <4>1, <4>2
    <3> QED
      BY <3>1
  <2>8. 0 * p + rest = rest
    OBVIOUS
  <2> QED
    BY <2>4, <2>6, <2>7, <2>8
<1>12. AtWork(x)'
  <2>1. (\A k \in 0 .. a - 1 : u[k] = 0) /\ \A k \in e + 1 .. 4 : u[k] = x[k]
    BY <1>1, <1>3 DEF AtWork
  <2>2. (\A k \in 0 .. (a + 1) - 1 : u[k] = 0) /\ \A k \in (e + 1) + 1 .. 4 : u[k] = x[k]
    BY <1>11, <2>1
  <2> QED
    BY <1>1, <1>4, <1>5, <1>6, <2>2 DEF AtWork
<1>13. DividedBefore(x)'
  <2>1. e + 1 <= 4 => u[e + 1] = x[e + 1]
    BY <1>1, <1>3 DEF AtWork
  <2>2. Value(x, 0, e) = Value(q', 0, e) * V + U
    BY <1>1, <1>3, <1>9, <1>10 DEF DividedBy
  <2>3. (e + 1) - 1 = e
    OBVIOUS
  <2> QED
    BY <1>4, <1>5, <1>10, <1>11, <2>1, <2>2, <2>3 DEF DividedBefore
<1>14. div_pc' \in Working
  BY <1>4 DEF Working
<1>15. WorkInv(x)'
  <2>1. CASE j < m
    BY <1>2, <1>4, <1>12, <1>13, <2>1 DEF WorkInv
  <2>2. CASE ~(j < m)
    BY <1>2, <1>4, <1>12, <1>13, <2>2 DEF WorkInv
  <2> QED
    BY <2>1, <2>2
<1> QED
  BY <1>14, <1>15, StaysAtWork DEF Store, Working

-----------------------------------------------------------------------------
(* The beginning and the end of __qdivrem.                                 *)

(* Zeros in front say nothing. *)
LEMMA SkipZeros ==
  ASSUME NEW x, NEW first \in Int, NEW mid \in Int, NEW last \in Int, first - 1 <= mid,
         \A k \in first .. mid : x[k] = 0
  PROVE  Value(x, first, last) = Value(x, mid + 1, last)
<1>1. ASSUME NEW k \in 0 .. 4 PROVE DigitOf(x, first, last, k) = DigitOf(x, mid + 1, last, k)
  <2>1. PICK i \in Int : i = last - k
    OBVIOUS
  <2>2. CASE i >= mid + 1
    <3>1. i >= first
      BY <2>2
    <3> QED
      BY <2>1, <2>2, <3>1 DEF DigitOf
  <2>3. CASE ~(i >= mid + 1)
    <3>1. i >= first => x[i] = 0
      BY <2>3
    <3> QED
      BY <2>1, <2>3, <3>1 DEF DigitOf
  <2> QED
    BY <2>2, <2>3
<1> QED
  BY <1>1, SameDigits

LEMMA OneDigit ==
  ASSUME NEW x, NEW k \in Int, x[k] \in Nat
  PROVE  Value(x, k, k) = x[k]
<1>1. PICK b \in Nat : b = B
  BY Shifts
<1>2. /\ DigitOf(x, k, k, 0) = x[k] /\ DigitOf(x, k, k, 1) = 0 /\ DigitOf(x, k, k, 2) = 0
      /\ DigitOf(x, k, k, 3) = 0 /\ DigitOf(x, k, k, 4) = 0
  BY DEF DigitOf
<1>3. PICK e \in Nat : e = x[k]
  OBVIOUS
<1>4. (((0 * b + 0) * b + 0) * b + 0) * b + e = e
  OBVIOUS
<1> QED
  BY <1>1, <1>2, <1>3, <1>4, ValueOfDigits

LEMMA ValueIsNat ==
  ASSUME NEW x, NEW first \in Int, NEW last \in Int, \A k \in first .. last : x[k] \in Nat
  PROVE  Value(x, first, last) \in Nat
<1>1. PICK b \in Nat : b = B
  BY Shifts
<1>2. \A k \in 0 .. 4 : DigitOf(x, first, last, k) \in Nat
  BY DEF DigitOf
<1>3. PICK e0 \in Nat, e1 \in Nat, e2 \in Nat, e3 \in Nat, e4 \in Nat :
        /\ e0 = DigitOf(x, first, last, 0) /\ e1 = DigitOf(x, first, last, 1)
        /\ e2 = DigitOf(x, first, last, 2) /\ e3 = DigitOf(x, first, last, 3)
        /\ e4 = DigitOf(x, first, last, 4)
  BY <1>2
<1>4. Value(x, first, last) = (((e4 * b + e3) * b + e2) * b + e1) * b + e0
  BY <1>1, <1>3, ValueOfDigits
<1> QED
  BY <1>4

(* A first digit that is no zero makes a number large. *)
LEMMA LeadingBound ==
  ASSUME NEW x, NEW first \in 1 .. 4, \A k \in first .. 4 : x[k] \in Digits, x[first] # 0
  PROVE  Value(x, first, 4) >= Pow(4 - first)
<1>1. \A g \in Digits : g \in Nat
  <2>1. PICK b \in Nat : b = B
    BY Shifts
  <2> QED
    BY <2>1 DEF Digits
<1>2. Value(x, first, 4) = Value(x, first, first) * Pow(4 - first) + Value(x, first + 1, 4)
  <2>1. first \in Int /\ 4 \in Int /\ first - 1 <= first /\ first <= 4 /\ 4 - first <= 4
    OBVIOUS
  <2> QED
    BY <2>1, ValueParts
<1>3. Value(x, first, first) = x[first]
  <2>1. x[first] \in Nat /\ first \in Int
    BY <1>1
  <2> QED
    BY <2>1, OneDigit
<1>4. PICK rest \in Nat : rest = Value(x, first + 1, 4)
  <2>1. first + 1 \in Int /\ 4 \in Int /\ \A k \in first + 1 .. 4 : x[k] \in Nat
    BY <1>1
  <2> QED
    BY <2>1, ValueIsNat
<1>5. PICK p \in Nat : p = Pow(4 - first)
  <2>1. 4 - first \in 0 .. 5
    OBVIOUS
  <2> QED
    BY <2>1, PowSteps
<1>6. PICK g \in Nat : g = x[first] /\ g >= 1
  BY <1>1
<1>7. 1 * p <= g * p /\ g * p \in Nat
  BY <1>6
<1> QED
  BY <1>2, <1>3, <1>4, <1>5, <1>6, <1>7

LEMMA QuadIsEven ==
  /\ QUAD \in Nat /\ QUAD >= 2 /\ QUAD = 2 * (QUAD \div 2)
<1>1. PICK b \in Nat, h \in Nat : b = B /\ b >= 2 /\ b = 2 * h
  BY Shifts
<1>2. PICK p \in Nat, r \in Nat : p = b * b * b /\ r = h * p
  OBVIOUS
<1>3. b * b * b * b = 2 * r
  <2>1. b * b * b * b = (b * b * b) * b
    OBVIOUS
  <2>2. p * (2 * h) = 2 * (h * p)
    OBVIOUS
  <2> QED
    BY <1>1, <1>2, <2>1, <2>2
<1>4. r >= 1
  <2>1. p >= 1
    <3>1. b * b >= 1
      <4>1. 1 * b <= b * b
        BY <1>1
      <4> QED
        BY <1>1, <4>1
    <3>2. 1 * b <= (b * b) * b
      <4>1. PICK b2 \in Nat : b2 = b * b /\ b2 >= 1
        BY <3>1
      <4>2. 1 * b <= b2 * b
        BY <4>1
      <4> QED
        BY <4>1, <4>2
    <3> QED
      BY <1>1, <1>2, <3>2
  <2>2. h >= 1
    BY <1>1
  <2>3. 1 * p <= h * p
    BY <2>2
  <2> QED
    BY <1>2, <2>1, <2>3
<1>5. (2 * r) \div 2 = r
  OBVIOUS
<1> QED
  BY <1>1, <1>3, <1>4, <1>5 DEF QUAD

(* The arguments are the absolute values. *)
LEMMA Arguments ==
  ASSUME division \in Divisions
  PROVE  /\ division.a \in Quads /\ division.b \in Quads
         /\ Argument(division.a) \in Quads /\ Argument(division.b) \in Quads
         /\ Argument(division.b) = 0 => division.b = 0
<1>1. division.a \in Quads /\ division.b \in Quads
  BY DivisionAssumption
<1>2. PICK N \in Nat, h \in Nat : N = QUAD /\ h = QUAD \div 2 /\ N = 2 * h /\ N >= 2
  <2>1. QUAD \in Nat /\ QUAD >= 2 /\ QUAD = 2 * (QUAD \div 2) /\ QUAD \div 2 \in Nat
    BY QuadIsEven
  <2> QED
    BY <2>1
<1>3. ASSUME NEW x \in Quads
      PROVE  Argument(x) \in Quads /\ (Argument(x) = 0 => x = 0)
  <2>1. PICK y \in Nat : y = x /\ y < N
    BY <1>2 DEF Quads
  <2>2. CASE Argument(x) = x
    BY <2>2
  <2>3. CASE Argument(x) # x
    <3>1. y >= h /\ Argument(x) = (N - y) % N
      BY <1>2, <2>1, <2>3 DEF Argument, Negative, Negated
    <3>2. N - y \in 1 .. N - 1
      BY <1>2, <2>1, <3>1
    <3>3. (N - y) % N = N - y
      BY <1>2, <3>2
    <3>4. N - y \in Quads /\ N - y # 0
      BY <1>2, <3>2 DEF Quads
    <3> QED
      BY <3>1, <3>3, <3>4
  <2> QED
    BY <2>2, <2>3
<1> QED
  BY <1>1, <1>3

(* What the start knows. *)
AtStart ==
  /\ uq \in Nat /\ vq \in Nat
  /\ u \in [0 .. 4 -> Digits] /\ u[0] = 0 /\ Value(u, 1, 4) = uq
  /\ v \in [1 .. 4 -> Digits] /\ Value(v, 1, 4) = vq
  /\ q = [k \in 0 .. 4 |-> 0] /\ j = 0
  /\ division \in Divisions
  /\ uq = Argument(division.a) /\ vq = Argument(division.b)

LEMMA StartFacts ==
  ASSUME DivisionInv, div_pc = "start"
  PROVE  AtStart
<1>1. /\ division \in Divisions
      /\ uq = Argument(division.a) /\ vq = Argument(division.b)
      /\ u = [k \in 0 .. 4 |-> IF k = 0 THEN 0 ELSE Split(uq)[k]]
      /\ v = Split(vq) /\ q = [k \in 0 .. 4 |-> 0] /\ j = 0
  BY DEF DivisionInv
<1>2. uq \in Quads /\ vq \in Quads
  BY <1>1, Arguments
<1>3. uq \in Nat /\ vq \in Nat
  <2>1. PICK N \in Nat : N = QUAD
    BY QuadIsEven
  <2> QED
    BY <1>2, <2>1 DEF Quads
<1>4. PICK sn \in [1 .. 4 -> Digits] : sn = Split(uq) /\ Value(sn, 1, 4) = uq
  BY <1>2, SplitDigits
<1>5. v \in [1 .. 4 -> Digits] /\ Value(v, 1, 4) = vq
  BY <1>1, <1>2, SplitDigits
<1>6. u = [k \in 0 .. 4 |-> IF k = 0 THEN 0 ELSE sn[k]]
  BY <1>1, <1>4
<1>7. u \in [0 .. 4 -> Digits] /\ u[0] = 0 /\ \A k \in 1 .. 4 : u[k] = sn[k]
  <2>1. 0 \in Digits
    <3>1. PICK b \in Nat : b = B /\ b >= 2
      BY Shifts
    <3> QED
      BY <3>1 DEF Digits
  <2>2. \A k \in 0 .. 4 : k # 0 => sn[k] \in Digits
    BY <1>4
  <2> QED
    BY <1>6, <2>1, <2>2
<1>8. Value(u, 1, 4) = Value(sn, 1, 4)
  <2>1. \A k \in 0 .. 4 : DigitOf(u, 1, 4, k) = DigitOf(sn, 1, 4, k)
    BY <1>7 DEF DigitOf
  <2> QED
    BY <2>1, SameDigits
<1> QED
  BY <1>1, <1>3, <1>4, <1>5, <1>7, <1>8 DEF AtStart

(* The first digit that counts. *)
LEMMA FirstDigit ==
  ASSUME NEW x, \A k \in 1 .. 4 : x[k] \in Digits, Value(x, 1, 4) # 0
  PROVE  /\ LeadingZeros(x) \in 0 .. 3
         /\ x[LeadingZeros(x) + 1] # 0
         /\ \A k \in 1 .. LeadingZeros(x) : x[k] = 0
         /\ Value(x, 1, 4) = Value(x, LeadingZeros(x) + 1, 4)
<1>1. \E k \in 1 .. 4 : x[k] # 0
  <2> SUFFICES ASSUME \A k \in 1 .. 4 : x[k] = 0 PROVE FALSE
    OBVIOUS
  <2>1. 1 \in Int /\ 4 \in Int /\ 1 - 1 <= 4
    OBVIOUS
  <2>2. Value(x, 1, 4) = Value(x, 4 + 1, 4)
    BY <2>1, SkipZeros
  <2>3. 4 + 1 \in Int /\ 4 \in Int /\ 4 < 4 + 1 /\ 4 - (4 + 1) <= 4
        /\ \A k \in 4 + 1 .. 4 : x[k] \in Int
    OBVIOUS
  <2>4. Value(x, 4 + 1, 4) = 0
    BY <2>3, ValueSteps
  <2> QED
    BY <2>2, <2>4
<1>2. /\ LeadingZeros(x) \in 0 .. 3
      /\ x[LeadingZeros(x) + 1] # 0
      /\ \A k \in 1 .. LeadingZeros(x) : x[k] = 0
  BY <1>1, LeadingZerosCount
<1>3. PICK l \in 0 .. 3 : l = LeadingZeros(x)
  BY <1>2
<1>4. 1 \in Int /\ l \in Int /\ 4 \in Int /\ 1 - 1 <= l /\ \A k \in 1 .. l : x[k] = 0
  BY <1>2, <1>3
<1>5. Value(x, 1, 4) = Value(x, l + 1, 4)
  BY <1>4, SkipZeros
<1> QED
  BY <1>2, <1>3, <1>5

(* D1's shift: the first digit becomes B/2 or more, and stays a digit. *)
LEMMA NormalShift ==
  ASSUME NEW w \in Digits, w # 0,
         NEW sh, sh = Min({ sn \in 0 .. HALF_BITS : w * TwoTo[sn] >= B \div 2 })
  PROVE  sh \in 0 .. HALF_BITS /\ w * TwoTo[sh] < B
<1> DEFINE S == { sn \in 0 .. HALF_BITS : w * TwoTo[sn] >= B \div 2 }
<1>h. PICK hb \in Nat : hb = HALF_BITS
  BY DivisionAssumption
<1>1. PICK b \in Nat, h \in Nat : b = B /\ b >= 2 /\ h = B \div 2 /\ b = 2 * h
  BY Shifts
<1>2. w \in Nat /\ w < b
  BY <1>1 DEF Digits
<1>3. HALF_BITS \in S
  <2>1. TwoTo[HALF_BITS] = b
    BY <1>1 DEF B
  <2>2. 1 * b <= w * b /\ w * b \in Nat
    BY <1>2
  <2>3. w * b >= h
    BY <1>1, <2>2
  <2>4. HALF_BITS \in 0 .. HALF_BITS
    BY <1>h
  <2> QED
    BY <1>1, <2>1, <2>3, <2>4
<1>4. S \subseteq Nat /\ S # {}
  BY <1>3, <1>h
<1>5. PICK k \in S : \A y \in S : k <= y
  <2> HIDE DEF S
  <2> QED
    BY <1>4, LeastNumber
<1>6. sh \in S /\ \A y \in S : sh <= y
  <2>1. sh = Min(S)
    OBVIOUS
  <2> HIDE DEF S
  <2> QED
    BY <1>5, <2>1 DEF Min
<1>7. sh \in 0 .. HALF_BITS
  BY <1>6
<1>8. PICK sn \in Nat : sn = sh /\ sn <= hb
  <2>1. sh \in 0 .. hb
    BY <1>7, <1>h
  <2>2. sh \in Nat /\ sh <= hb
    BY <2>1
  <2> QED
    BY <2>2
<1>9. CASE sn = 0
  <2>1. TwoTo[sh] = 1
    BY <1>8, <1>9, Powers
  <2>2. w * 1 = w
    BY <1>2
  <2> QED
    BY <1>1, <1>2, <1>7, <2>1, <2>2
<1>10. CASE sn # 0
  <2>1. sn - 1 \in 0 .. HALF_BITS /\ sn \in 1 .. HALF_BITS
    BY <1>h, <1>8, <1>10
  <2>2. sn - 1 \notin S
    <3>1. sn - 1 < sn
      BY <1>8
    <3> HIDE DEF S
    <3> QED
      BY <1>6, <1>8, <2>1, <3>1
  <2>3. PICK p \in Nat : p = TwoTo[sn - 1] /\ TwoTo[sn] = 2 * p
    BY <2>1, Powers
  <2>4. PICK g \in Nat : g = w * p
    BY <1>2
  <2>5. g < h
    BY <1>1, <2>1, <2>2, <2>3, <2>4
  <2>6. w * (2 * p) = 2 * g
    <3>1. w * (2 * p) = 2 * (w * p)
      BY <1>2
    <3> QED
      BY <2>4, <3>1
  <2>7. w * TwoTo[sh] = 2 * g
    BY <1>8, <2>3, <2>6
  <2> QED
    BY <1>1, <1>7, <2>5, <2>7
<1> QED
  BY <1>9, <1>10

(* D1, in numbers: the places of the digits. *)
LEMMA NormalPlaces ==
  ASSUME AtStart, vq # 0, uq >= vq, LeadingZeros(v) < 3
  PROVE  \E lz \in 0 .. 2, lu \in 0 .. 2 :
           /\ lz = LeadingZeros(v) /\ lu = LeadingZeros(u) /\ lu <= lz
           /\ \A k \in 0 .. lu : u[k] = 0
           /\ Value(u, lu, 4) = uq
           /\ v[lz + 1] \in Digits /\ v[lz + 1] # 0 /\ Value(v, lz + 1, 4) = vq
           /\ vq >= Pow(3 - lz)
<1>1. /\ uq \in Nat /\ vq \in Nat
      /\ u \in [0 .. 4 -> Digits] /\ u[0] = 0 /\ Value(u, 1, 4) = uq
      /\ v \in [1 .. 4 -> Digits] /\ Value(v, 1, 4) = vq
  BY DEF AtStart
<1>2. PICK lz \in 0 .. 2 : /\ lz = LeadingZeros(v) /\ v[lz + 1] # 0
                           /\ Value(v, lz + 1, 4) = vq
  <2>1. /\ LeadingZeros(v) \in 0 .. 3 /\ v[LeadingZeros(v) + 1] # 0
        /\ Value(v, 1, 4) = Value(v, LeadingZeros(v) + 1, 4)
    BY <1>1, FirstDigit
  <2>2. LeadingZeros(v) \in 0 .. 2
    BY <2>1
  <2> QED
    BY <1>1, <2>1, <2>2
<1>3. PICK lu \in 0 .. 3 : /\ lu = LeadingZeros(u)
                           /\ \A k \in 1 .. lu : u[k] = 0
                           /\ Value(u, lu + 1, 4) = uq
  <2>1. uq # 0 /\ \A k \in 1 .. 4 : u[k] \in Digits
    BY <1>1
  <2> QED
    BY <1>1, <2>1, FirstDigit
<1>4. PICK p \in Nat : p = Pow(3 - lz) /\ vq >= p
  <2>1. lz + 1 \in 1 .. 4 /\ 4 - (lz + 1) = 3 - lz /\ \A k \in lz + 1 .. 4 : v[k] \in Digits
    BY <1>1
  <2>2. Value(v, lz + 1, 4) >= Pow(4 - (lz + 1))
    BY <1>2, <2>1, LeadingBound
  <2>3. 3 - lz \in 0 .. 5
    OBVIOUS
  <2>4. Pow(3 - lz) \in Nat
    BY <2>3, PowSteps
  <2> QED
    BY <1>2, <2>1, <2>2, <2>4
<1>5. lu <= lz
  <2> SUFFICES ASSUME lu > lz PROVE FALSE
    OBVIOUS
  <2>1. lu + 1 \in Int /\ lz + 2 \in Int /\ (lz + 2) - 1 <= lu /\ lz + 2 >= 1
        /\ \A k \in lz + 2 .. lu : u[k] = 0
    <3>1. \A k \in lz + 2 .. lu : k \in 1 .. lu
      OBVIOUS
    <3> QED
      BY <1>3, <3>1
  <2>2. Value(u, lz + 2, 4) = Value(u, lu + 1, 4)
    <3>1. lz + 2 \in Int /\ lu \in Int /\ 4 \in Int
      OBVIOUS
    <3> QED
      BY <2>1, <3>1, SkipZeros
  <2>3. /\ 4 \in Int /\ (lz + 2) - 1 <= 4 /\ 4 - (lz + 2) <= 4 /\ (4 - (lz + 2)) + 1 = 3 - lz
        /\ \A k \in lz + 2 .. 4 : u[k] \in Digits
    BY <1>1
  <2>4. Value(u, lz + 2, 4) < Pow(3 - lz)
    BY <2>1, <2>3, ValueBounds
  <2> QED
    BY <1>1, <1>3, <1>4, <2>2, <2>4
<1>6. \A k \in 0 .. lu : u[k] = 0
  BY <1>1, <1>3
<1>7. Value(u, lu, 4) = uq
  <2>1. lu \in Int /\ 4 \in Int /\ lu - 1 <= lu /\ \A k \in lu .. lu : u[k] = 0
    BY <1>6
  <2> QED
    BY <1>3, <2>1, SkipZeros
<1>8. lu \in 0 .. 2 /\ v[lz + 1] \in Digits
  BY <1>1, <1>5
<1> QED
  BY <1>2, <1>3, <1>4, <1>5, <1>6, <1>7, <1>8

(* The dividend's first digits are less than the divisor. *)
LEMMA FirstWindow ==
  ASSUME NEW x, \A k \in 0 .. 4 : x[k] \in Digits,
         NEW lu \in 0 .. 2, NEW lz \in lu .. 2, x[lu] = 0, NEW y \in Nat, y >= Pow(3 - lz),
         NEW P \in Nat, P # 0, NEW c \in Nat, c < P
  PROVE  Value(x, lu, lu + (3 - lz)) * P + c < y * P
<1>1. /\ lu \in Int /\ lu + (3 - lz) \in Int /\ lu - 1 <= lu /\ lu + (3 - lz) \in 0 .. 4
      /\ \A k \in lu .. lu : x[k] = 0
  OBVIOUS
<1>2. Value(x, lu, lu + (3 - lz)) = Value(x, lu + 1, lu + (3 - lz))
  BY <1>1, SkipZeros
<1>3. /\ lu + 1 \in Int /\ (lu + 1) - 1 <= lu + (3 - lz) /\ (lu + (3 - lz)) - (lu + 1) <= 4
      /\ ((lu + (3 - lz)) - (lu + 1)) + 1 = 3 - lz
      /\ \A k \in lu + 1 .. lu + (3 - lz) : x[k] \in Digits
  OBVIOUS
<1>4. PICK X \in Nat : X = Value(x, lu, lu + (3 - lz)) /\ X < Pow(3 - lz)
  BY <1>1, <1>2, <1>3, ValueBounds
<1>5. PICK p \in Nat : p = Pow(3 - lz)
  <2>1. 3 - lz \in 0 .. 5
    OBVIOUS
  <2> QED
    BY <2>1, PowSteps
<1>6. X + 1 <= y
  BY <1>4, <1>5
<1>7. (X + 1) * P <= y * P
  BY <1>6
<1>8. (X + 1) * P = X * P + P /\ X * P \in Nat /\ y * P \in Nat
  OBVIOUS
<1> QED
  BY <1>4, <1>7, <1>8

LEMMA DivisionNormalises == DivisionInv /\ Normalise => DivisionInv'
<1> SUFFICES ASSUME DivisionInv, Normalise PROVE DivisionInv'
  OBVIOUS
<1>0. /\ div_pc = "start" /\ vq # 0 /\ uq >= vq /\ LeadingZeros(v) < 3
      /\ n' = 4 - LeadingZeros(v) /\ m' = 4 - n' - LeadingZeros(u)
      /\ div_pc' = "estimate" /\ j' = j /\ q' = q /\ UNCHANGED args
  BY DEF Normalise
<1>1. AtStart
  BY <1>0, StartFacts
<1>2. /\ uq \in Nat /\ vq \in Nat /\ u \in [0 .. 4 -> Digits] /\ v \in [1 .. 4 -> Digits]
      /\ q = [k \in 0 .. 4 |-> 0] /\ j = 0 /\ division \in Divisions
      /\ uq = Argument(division.a) /\ vq = Argument(division.b)
  BY <1>1 DEF AtStart
<1>3. PICK lz \in 0 .. 2, lu \in 0 .. 2 :
           /\ lz = LeadingZeros(v) /\ lu = LeadingZeros(u) /\ lu <= lz
           /\ \A k \in 0 .. lu : u[k] = 0
           /\ Value(u, lu, 4) = uq
           /\ v[lz + 1] \in Digits /\ v[lz + 1] # 0 /\ Value(v, lz + 1, 4) = vq
           /\ vq >= Pow(3 - lz)
  BY <1>0, <1>1, NormalPlaces
<1>4. n' = 4 - lz /\ m' = lz - lu /\ 4 - m' - n' = lu /\ 4 - n' = lz
  BY <1>0, <1>3
<1>5. n' \in 2 .. 4 /\ m' \in 0 .. 4 - n'
  <2>1. 4 - lz \in 2 .. 4 /\ lz - lu \in 0 .. lz /\ 4 - (4 - lz) = lz
    BY <1>3
  <2> QED
    BY <1>4, <2>1
<1> DEFINE w == [k \in 1 .. 4 - lz |-> v[lz + k]]
           sh == Min({ sn \in 0 .. HALF_BITS : w[1] * TwoTo[sn] >= B \div 2 })
<1>6. d' = sh /\ u' = Shl(u, lu, 4, sh) /\ v' = Shl(w, 1, 4 - lz, sh)
  <2>1. /\ d' = Min({ sn \in 0 .. HALF_BITS :
                       [k \in 1 .. n' |-> v[4 - n' + k]][1] * TwoTo[sn] >= B \div 2 })
        /\ u' = Shl(u, 4 - m' - n', 4, d')
        /\ v' = Shl([k \in 1 .. n' |-> v[4 - n' + k]], 1, n', d')
    BY DEF Normalise
  <2>2. [k \in 1 .. n' |-> v[4 - n' + k]] = w
    BY <1>4
  <2>3. 4 - m' - n' = lu /\ n' = 4 - lz
    BY <1>4
  <2>4. /\ d' = Min({ sn \in 0 .. HALF_BITS : w[1] * TwoTo[sn] >= B \div 2 })
        /\ u' = Shl(u, lu, 4, d')
        /\ v' = Shl(w, 1, 4 - lz, d')
    <3> HIDE DEF w
    <3> QED
      BY <2>1, <2>2, <2>3
  <2> QED
    BY <2>4
<1>7. DOMAIN w = 1 .. 4 - lz /\ \A k \in 1 .. 4 - lz : w[k] = v[lz + k] /\ w[k] \in Digits
  <2>1. \A k \in 1 .. 4 - lz : lz + k \in 1 .. 4
    OBVIOUS
  <2> QED
    BY <1>2, <2>1
<1>8. w[1] = v[lz + 1] /\ w[1] \in Digits /\ w[1] # 0
  <2>1. 1 \in 1 .. 4 - lz
    OBVIOUS
  <2>2. w[1] = v[lz + 1]
    BY <1>7, <2>1
  <2> QED
    BY <1>3, <2>2
<1>9. Value(w, 1, 4 - lz) = vq
  <2>1. ASSUME NEW k \in 0 .. 4
        PROVE  DigitOf(w, 1, 4 - lz, k) = DigitOf(v, lz + 1, 4, k)
    <3>1. CASE (4 - lz) - k >= 1
      <4>1. (4 - lz) - k \in 1 .. 4 - lz /\ lz + ((4 - lz) - k) = 4 - k /\ 4 - k >= lz + 1
        BY <3>1
      <4>2. w[(4 - lz) - k] = v[4 - k]
        BY <1>7, <4>1
      <4> QED
        BY <3>1, <4>1, <4>2 DEF DigitOf
    <3>2. CASE ~((4 - lz) - k >= 1)
      <4>1. ~(4 - k >= lz + 1)
        BY <3>2
      <4> QED
        BY <3>2, <4>1 DEF DigitOf
    <3> QED
      BY <3>1, <3>2
  <2>2. Value(w, 1, 4 - lz) = Value(v, lz + 1, 4)
    <3> HIDE DEF w
    <3> QED
      BY <2>1, SameDigits
  <2> QED
    BY <1>3, <2>2
<1> HIDE DEF w
<1>10. sh \in 0 .. HALF_BITS /\ w[1] * TwoTo[sh] < B
  BY <1>8, NormalShift
<1> HIDE DEF sh
<1>11. PICK P \in Nat : P = TwoTo[sh] /\ P # 0
  BY <1>10, Powers
<1>12. /\ v' \in [1 .. 4 - lz -> Digits] /\ v'[1] # 0 /\ Value(v', 1, 4 - lz) = vq * P
  <2>1. /\ 1 \in 0 .. 4 /\ 4 - lz \in 1 .. 4 /\ 1 .. 4 - lz \subseteq DOMAIN w
        /\ \A k \in 1 .. 4 - lz : w[k] \in Digits
    BY <1>7
  <2>2. /\ DOMAIN v' = DOMAIN w /\ \A k \in 1 .. 4 - lz : v'[k] \in Digits
        /\ v'[1] >= w[1] * TwoTo[sh]
        /\ Value(v', 1, 4 - lz) = Value(w, 1, 4 - lz) * TwoTo[sh]
    BY <1>6, <1>10, <2>1, ShlValue
  <2>3. v' = [k \in 1 .. 4 - lz |-> v'[k]]
    BY <1>6, <1>7 DEF Shl
  <2>4. v' \in [1 .. 4 - lz -> Digits]
    BY <2>2, <2>3
  <2>5. v'[1] # 0
    <3>1. \A g \in Digits : g \in Nat
      <4>1. PICK b \in Nat : b = B
        BY Shifts
      <4> QED
        BY <4>1 DEF Digits
    <3>2. PICK g \in Nat, g1 \in Nat : g = w[1] /\ g >= 1 /\ g1 = v'[1] /\ g1 >= g * P
      <4>1. 1 \in 1 .. 4 - lz
        OBVIOUS
      <4>2. v'[1] \in Nat /\ w[1] \in Nat
        BY <1>8, <2>2, <3>1, <4>1
      <4> QED
        BY <1>8, <1>11, <2>2, <4>2
    <3>3. 1 * P <= g * P /\ g * P \in Nat
      BY <3>2
    <3> QED
      BY <1>11, <3>2, <3>3
  <2> QED
    BY <1>9, <1>11, <2>2, <2>4, <2>5
<1>13. /\ u' \in [0 .. 4 -> Digits] /\ \A k \in 0 .. lu - 1 : u'[k] = 0
       /\ Value(u', lu, 4) = uq * P
       /\ \E c \in Nat : /\ c < P
                         /\ Value(u', lu, lu + (3 - lz)) = Value(u, lu, lu + (3 - lz)) * P + c
  <2>1. /\ lu \in 0 .. 4 /\ 4 \in lu .. 4 /\ DOMAIN u = 0 .. 4 /\ lu .. 4 \subseteq DOMAIN u
        /\ \A k \in lu .. 4 : u[k] \in Digits
    BY <1>2
  <2>2. u[lu] * TwoTo[sh] < B
    <3>1. PICK b \in Nat : b = B /\ b >= 2
      BY Shifts
    <3>2. u[lu] = 0
      BY <1>3
    <3>3. 0 * P < b
      BY <3>1
    <3> QED
      BY <1>11, <3>1, <3>2, <3>3
  <2>3. /\ DOMAIN u' = DOMAIN u /\ \A k \in DOMAIN u \ (lu .. 4) : u'[k] = u[k]
        /\ \A k \in lu .. 4 : u'[k] \in Digits
        /\ \A k \in lu .. 4 - 1 :
             /\ u[k + 1] \div TwoTo[HALF_BITS - sh] \in Nat
             /\ u[k + 1] \div TwoTo[HALF_BITS - sh] < TwoTo[sh]
             /\ Value(u', lu, k) =
                  Value(u, lu, k) * TwoTo[sh] + u[k + 1] \div TwoTo[HALF_BITS - sh]
        /\ Value(u', lu, 4) = Value(u, lu, 4) * TwoTo[sh]
    <3>1. sh \in 0 .. HALF_BITS /\ u' = Shl(u, lu, 4, sh)
      BY <1>6, <1>10
    <3> QED
      BY <2>1, <2>2, <3>1, ShlValue
  <2>4. u' = [k \in 0 .. 4 |-> u'[k]]
    BY <1>6, <2>1 DEF Shl
  <2>5. ASSUME NEW k \in 0 .. 4 PROVE u'[k] \in Digits
    <3>1. CASE k \in lu .. 4
      BY <2>3, <3>1
    <3>2. CASE k \notin lu .. 4
      BY <1>2, <2>1, <2>3, <3>2
    <3> QED
      BY <3>1, <3>2
  <2>6. u' \in [0 .. 4 -> Digits]
    BY <2>4, <2>5
  <2>7. \A k \in 0 .. lu - 1 : u'[k] = 0
    <3>1. \A k \in 0 .. lu - 1 : k \in 0 .. 4 /\ k \notin lu .. 4 /\ k \in 0 .. lu
      OBVIOUS
    <3> QED
      BY <1>3, <2>1, <2>3, <3>1
  <2>8. lu + (3 - lz) \in lu .. 4 - 1
    BY <1>3
  <2> QED
    BY <1>3, <1>11, <2>3, <2>6, <2>7, <2>8
<1>14. /\ Here' = lu + (4 - lz) /\ (Here - n)' = lu /\ Here' - 1 = lu + (3 - lz)
       /\ Divisor' = vq * P /\ Here' \in 2 .. 4
  <2>1. Here' = (4 - (lz - lu)) + 0 /\ n' = 4 - lz
    BY <1>0, <1>2, <1>4 DEF Here
  <2>2. (4 - (lz - lu)) + 0 = lu + (4 - lz) /\ lu + (4 - lz) \in 2 .. 4
        /\ (lu + (4 - lz)) - (4 - lz) = lu /\ (lu + (4 - lz)) - 1 = lu + (3 - lz)
    BY <1>3
  <2>3. Divisor' = vq * P
    BY <1>4, <1>12 DEF Divisor
  <2> QED
    BY <2>1, <2>2, <2>3
<1>15. /\ Value(u', 0, 4) = Value(u', lu, 4)
       /\ Value(u', 0, Here' - 1) = Value(u', lu, Here' - 1)
  <2>1. /\ 0 \in Int /\ lu - 1 \in Int /\ 0 - 1 <= lu - 1 /\ (lu - 1) + 1 = lu
        /\ 4 \in Int /\ Here' - 1 \in Int
    BY <1>14
  <2> QED
    <3>1. \A k \in 0 .. lu - 1 : u'[k] = 0
      BY <1>13
    <3>2. Value(u', 0, 4) = Value(u', (lu - 1) + 1, 4)
      BY <2>1, <3>1, SkipZeros
    <3>3. PICK l \in Int : l = Here' - 1
      BY <2>1
    <3>4. Value(u', 0, l) = Value(u', (lu - 1) + 1, l)
      BY <2>1, <3>1, SkipZeros
    <3> QED
      BY <2>1, <3>2, <3>3, <3>4
<1>x. PICK x : x = u'
  OBVIOUS
<1>16. AtWork(x)'
  <2>1. q' \in [0 .. 4 -> Nat] /\ q'[0] = 0
    BY <1>0, <1>2
  <2>2. uq' = uq /\ vq' = vq /\ j' = 0
    BY <1>0, <1>2 DEF args
  <2>3. \A k \in 0 .. (Here - n)' - 1 : u'[k] = 0
    BY <1>13, <1>14
  <2>4. /\ Divisor' = vq' * TwoTo[d'] /\ Value(u', 0, 4) = uq' * TwoTo[d']
    BY <1>6, <1>11, <1>13, <1>14, <1>15, <2>2
  <2>5. v' \in [1 .. n' -> Digits] /\ v'[1] # 0
    BY <1>4, <1>12
  <2>6. u' \in [0 .. 4 -> Digits] /\ d' \in 0 .. HALF_BITS
    BY <1>6, <1>10, <1>13
  <2>7. j' \in 0 .. m' + 1
    <3>1. PICK k \in Nat : k = m'
      BY <1>3, <1>4
    <3>2. 0 \in 0 .. k + 1
      OBVIOUS
    <3> QED
      BY <2>2, <3>1, <3>2
  <2> QED
    BY <1>x, <1>5, <2>1, <2>2, <2>3, <2>4, <2>5, <2>6, <2>7 DEF AtWork
<1>17. DividedBefore(x)'
  <2>1. Value(q', 0, Here' - 1) = 0
    <3>1. /\ 0 \in Int /\ Here' - 1 \in Int /\ 0 - 1 <= Here' - 1
          /\ \A k \in 0 .. Here' - 1 : q'[k] = 0
      BY <1>0, <1>2, <1>14
    <3>2. Value(q', 0, Here' - 1) = Value(q', (Here' - 1) + 1, Here' - 1)
      BY <3>1, SkipZeros
    <3>3. /\ (Here' - 1) + 1 \in Int /\ Here' - 1 < (Here' - 1) + 1
          /\ (Here' - 1) - ((Here' - 1) + 1) <= 4
          /\ \A k \in (Here' - 1) + 1 .. Here' - 1 : q'[k] \in Int
      BY <1>14
    <3> QED
      BY <3>1, <3>2, <3>3, ValueSteps
  <2>2. Value(u', lu, lu + (3 - lz)) < vq * P
    <3>1. PICK c \in Nat : /\ c < P
                           /\ Value(u', lu, lu + (3 - lz)) = Value(u, lu, lu + (3 - lz)) * P + c
      BY <1>13
    <3>2. lz \in lu .. 2 /\ u[lu] = 0 /\ \A k \in 0 .. 4 : u[k] \in Digits
      BY <1>2, <1>3
    <3>3. Value(u, lu, lu + (3 - lz)) * P + c < vq * P
      BY <1>2, <1>3, <1>11, <3>1, <3>2, FirstWindow
    <3> QED
      BY <3>1, <3>3
  <2>3. PICK R \in Nat, D \in Nat : R = Value(u', lu, lu + (3 - lz)) /\ D = vq * P
    <3>1. lu \in Int /\ lu + (3 - lz) \in Int /\ \A k \in lu .. lu + (3 - lz) : u'[k] \in Nat
      <4>1. \A g \in Digits : g \in Nat
        <5>1. PICK b \in Nat : b = B
          BY Shifts
        <5> QED
          BY <5>1 DEF Digits
      <4>2. \A k \in lu .. lu + (3 - lz) : k \in 0 .. 4
        BY <1>3
      <4> QED
        BY <1>13, <4>1, <4>2
    <3>2. Value(u', lu, lu + (3 - lz)) \in Nat
      BY <3>1, ValueIsNat
    <3>3. vq * P \in Nat
      BY <1>2
    <3> QED
      BY <3>2, <3>3
  <2>4. 0 * D + R = R
    OBVIOUS
  <2> QED
    BY <1>x, <1>14, <1>15, <2>1, <2>2, <2>3, <2>4 DEF DividedBefore
<1>18. WorkInv(x)'
  BY <1>0, <1>2, <1>5, <1>16, <1>17 DEF WorkInv
<1>19. UNCHANGED <<division, uq, vq>>
  BY <1>0 DEF args
<1>20. Argument(division.a)' = Argument(division.a) /\ Argument(division.b)' = Argument(division.b)
  BY <1>19 DEF Argument
<1>21. \E y : WorkInv(y)'
  BY <1>18
<1> QED
  BY <1>0, <1>2, <1>19, <1>20, <1>21 DEF DivisionInv, Working

LEMMA DivisionEnds ==
  ASSUME DivisionInv, UNCHANGED args, div_pc' = "done",
         quotient' \in Nat, remainder' \in Nat,
         uq = quotient' * vq + remainder', remainder' < vq
  PROVE  DivisionInv'
<1>1. UNCHANGED <<division, uq, vq>>
  BY DEF args
<1>2. division \in Divisions /\ uq = Argument(division.a) /\ vq = Argument(division.b)
  BY DEF DivisionInv
<1>3. Argument(division.a)' = Argument(division.a) /\ Argument(division.b)' = Argument(division.b)
  BY <1>1 DEF Argument
<1> QED
  BY <1>1, <1>2, <1>3 DEF DivisionInv, Working

(* The shift back leaves the remainder. *)
LEMMA BackFromFinish ==
  ASSUME NEW x, AtWork(x), j = m + 1, Finish, NEW P \in Nat, P = TwoTo[d], P # 0,
         NEW r \in Nat, Value(u, 5 - n, 4) = r * P
  PROVE  remainder' = r
<1>1. /\ n \in 2 .. 4 /\ m \in 0 .. 4 - n /\ d \in 0 .. HALF_BITS /\ u \in [0 .. 4 -> Digits]
  BY DEF AtWork
<1>2. PICK f \in 1 .. 3 : f = 5 - n
  BY <1>1
<1>3. \A k \in 0 .. f - 1 : u[k] = 0
  <2>1. Here - n = f
    BY <1>1, <1>2 DEF Here
  <2> QED
    BY <1>2, <2>1 DEF AtWork
<1>4. At(m) = f - 1
  BY <1>1, <1>2 DEF At
<1>5. remainder' = Value(u', 1, 4)
  BY DEF Finish
<1>6. CASE d = 0
  <2>1. u' = u
    BY <1>6 DEF Finish
  <2>2. Value(u, 1, 4) = Value(u, f, 4)
    <3>1. /\ 1 \in Int /\ f - 1 \in Int /\ 4 \in Int /\ 1 - 1 <= f - 1 /\ (f - 1) + 1 = f
          /\ \A k \in 1 .. f - 1 : u[k] = 0
      BY <1>3
    <3>2. Value(u, 1, 4) = Value(u, (f - 1) + 1, 4)
      BY <3>1, SkipZeros
    <3> QED
      BY <3>1, <3>2
  <2>3. P = 1
    BY <1>6, Powers
  <2>4. r * 1 = r
    OBVIOUS
  <2> QED
    BY <1>2, <1>5, <2>1, <2>2, <2>3, <2>4
<1>7. CASE d # 0
  <2>1. PICK R \in Nat : R = TwoTo[HALF_BITS - d] /\ R # 0 /\ P * R = B
    <3>1. HALF_BITS - d \in 0 .. HALF_BITS
      BY <1>1, DivisionAssumption
    <3>2. TwoTo[d] * TwoTo[HALF_BITS - d] = B
      BY <1>1, Shifts
    <3> QED
      BY <3>1, <3>2, Powers
  <2>2. u' = [k \in 0 .. 4 |->
                IF k >= f - 1
                  THEN IF k <= f - 1 THEN 0
                       ELSE u[k] \div P + LHALF(u[k - 1] * R)
                  ELSE u[k]]
    BY <1>4, <1>7, <2>1 DEF Finish
  <2>3. ShiftsBack(u, u', f, P, R)
    <3>1. ASSUME NEW k \in f .. 4 PROVE u'[k] = u[k] \div P + LHALF(u[k - 1] * R)
      <4>1. k \in 0 .. 4 /\ k >= f - 1 /\ ~(k <= f - 1)
        OBVIOUS
      <4> QED
        BY <2>2, <4>1
    <3> QED
      BY <3>1 DEF ShiftsBack
  <2>4. \A k \in 1 .. f - 1 : u'[k] = 0
    <3>1. ASSUME NEW k \in 1 .. f - 1 PROVE u'[k] = 0
      <4>1. k \in 0 .. 4 /\ k \in 0 .. f - 1
        OBVIOUS
      <4>2. CASE k = f - 1
        <5>1. k >= f - 1 /\ k <= f - 1
          BY <4>2
        <5> QED
          BY <2>2, <4>1, <5>1
      <4>3. CASE k # f - 1
        <5>1. ~(k >= f - 1)
          BY <4>3
        <5> QED
          BY <1>3, <2>2, <4>1, <5>1
      <4> QED
        BY <4>2, <4>3
    <3> QED
      BY <3>1
  <2> HIDE <2>2
  <2>5. PICK w \in Nat : /\ w = Value(u', f, 4)
                         /\ Value(u, f, 4) = w * P + (u[4] % P)
    <3>1. f \in 1 .. 4 /\ f - 1 \in 0 .. f - 1 /\ \A k \in f .. 4 : u[k] \in Digits
      BY <1>1
    <3>2. u[f - 1] = 0
      BY <1>3, <3>1
    <3>3. /\ Value(u', f, 4) \in Nat
          /\ Value(u, f, 4) = Value(u', f, 4) * P + (u[4] % P)
      BY <2>1, <2>3, <3>1, <3>2, ShrValue
    <3> QED
      BY <3>3
  <2>6. PICK c \in Nat : c = u[4] % P /\ c < P
    <3>1. u[4] \in Nat
      <4>1. PICK b \in Nat : b = B
        BY Shifts
      <4>2. u[4] \in Digits
        BY <1>1
      <4> QED
        BY <4>1, <4>2 DEF Digits
    <3> QED
      BY <3>1, DivRem
  <2>7. w = r
    <3>1. r * P + 0 = w * P + c
      <4>1. r * P \in Nat
        OBVIOUS
      <4> QED
        BY <1>2, <2>5, <2>6, <4>1
    <3>4. 0 < P /\ c < P /\ 0 \in Nat /\ r \in Int /\ w \in Int
      BY <2>6
    <3>2. (r * P + 0) \div P = r
      BY <3>4, DivUnique
    <3>3. (w * P + c) \div P = w
      BY <3>4, DivUnique
    <3> QED
      BY <3>1, <3>2, <3>3
  <2>8. Value(u', 1, 4) = Value(u', f, 4)
    <3>1. 1 \in Int /\ f - 1 \in Int /\ 4 \in Int /\ 1 - 1 <= f - 1 /\ (f - 1) + 1 = f
      OBVIOUS
    <3>2. Value(u', 1, 4) = Value(u', (f - 1) + 1, 4)
      BY <2>4, <3>1, SkipZeros
    <3> QED
      BY <3>1, <3>2
  <2> QED
    BY <1>5, <2>5, <2>7, <2>8
<1> QED
  BY <1>6, <1>7

LEMMA DivisionFinishes == DivisionInv /\ Finish => DivisionInv'
<1> SUFFICES ASSUME DivisionInv, Finish PROVE DivisionInv'
  OBVIOUS
<1>1. PICK x : AtWork(x) /\ j = m + 1 /\ DividedBefore(x)
  BY DEF DivisionInv, Finish, Working, WorkInv
<1>2. /\ n \in 2 .. 4 /\ m \in 0 .. 4 - n /\ d \in 0 .. HALF_BITS
      /\ v \in [1 .. n -> Digits] /\ x \in [0 .. 4 -> Digits] /\ u \in [0 .. 4 -> Digits]
      /\ q \in [0 .. 4 -> Nat] /\ q[0] = 0
  BY <1>1 DEF AtWork
<1>3. PICK U \in Nat, V \in Nat : U = uq /\ V = vq
  <2>1. division \in Divisions /\ uq = Argument(division.a) /\ vq = Argument(division.b)
    BY DEF DivisionInv
  <2>2. uq \in Quads /\ vq \in Quads
    BY <2>1, Arguments
  <2>3. PICK N \in Nat : N = QUAD
    BY QuadIsEven
  <2> QED
    BY <2>2, <2>3 DEF Quads
<1>4. PICK P \in Nat : P = TwoTo[d] /\ P # 0
  BY <1>2, Powers
<1>5. Here = 5 /\ Here - 1 = 4 /\ Here - n = 5 - n
  BY <1>1, <1>2 DEF Here
<1>6. PICK g \in Nat : g = Value(q, 0, 4)
  <2>1. 0 \in Int /\ 4 \in Int /\ \A k \in 0 .. 4 : q[k] \in Nat
    BY <1>2
  <2> QED
    BY <2>1, ValueIsNat
<1>7. quotient' = g
  <2>1. /\ 0 \in Int /\ 4 \in Int /\ 0 - 1 <= 0 /\ 0 + 1 = 1 /\ \A k \in 0 .. 0 : q[k] = 0
    BY <1>2
  <2>2. Value(q, 0, 4) = Value(q, 1, 4)
    BY <2>1, SkipZeros
  <2> QED
    BY <1>6, <2>2 DEF Finish
<1>8. PICK R \in Nat : R = Value(u, 5 - n, 4)
  <2>1. 5 - n \in Int /\ 4 \in Int /\ 5 - n - 1 <= 4 /\ 4 - (5 - n) <= 4
        /\ \A k \in 5 - n .. 4 : u[k] \in Digits
    BY <1>2
  <2> QED
    BY <2>1, ValueBounds
<1>9. U * P = g * (V * P) + R /\ R < V * P
  <2>1. Value(x, 0, 4) = U * P /\ Divisor = V * P
    BY <1>1, <1>3, <1>4 DEF AtWork
  <2> QED
    BY <1>1, <1>5, <1>6, <1>8, <2>1 DEF DividedBefore
<1>10. PICK r \in Nat : R = r * P /\ U = g * V + r /\ r < V
  <2>1. PICK h \in Nat : h = g * V
    OBVIOUS
  <2>2. g * (V * P) = h * P
    <3>1. g * (V * P) = (g * V) * P
      OBVIOUS
    <3> QED
      BY <2>1, <3>1
  <2>3. U >= h
    <3>1. CASE U < h
      <4>1. (U + 1) * P <= h * P
        BY <3>1
      <4>2. (U + 1) * P = U * P + P /\ U * P \in Nat /\ h * P \in Nat
        OBVIOUS
      <4> QED
        BY <1>4, <1>9, <2>2, <4>1, <4>2
    <3> QED
      BY <3>1
  <2>4. PICK r \in Nat : r = U - h
    BY <2>3
  <2>5. R = r * P
    <3>1. (h + r) * P = h * P + r * P /\ h * P \in Nat /\ r * P \in Nat
      OBVIOUS
    <3>2. h + r = U
      BY <2>4
    <3> QED
      BY <1>9, <2>2, <3>1, <3>2
  <2>6. r < V
    <3>1. CASE r >= V
      <4>1. V * P <= r * P
        BY <3>1
      <4>2. V * P \in Nat
        OBVIOUS
      <4> QED
        BY <1>9, <2>5, <4>1, <4>2
    <3> QED
      BY <3>1
  <2> QED
    BY <2>1, <2>4, <2>5, <2>6
<1>11. remainder' = r
  BY <1>1, <1>4, <1>8, <1>10, BackFromFinish
<1> QED
  BY <1>3, <1>7, <1>10, <1>11, DivisionEnds DEF Finish

(* The digits of h have been divided by c: short division so far. *)
Divided(c, h, g, r) == h \in Nat /\ g \in Nat /\ r \in Nat /\ h = g * c + r /\ r < c

(* Short division, one digit further. *)
LEMMA ShortDivisionStep ==
  ASSUME NEW b \in Nat, NEW c \in Nat, c # 0, NEW h, NEW g, NEW r, Divided(c, h, g, r),
         NEW e \in Nat
  PROVE  Divided(c, h * b + e, g * b + (r * b + e) \div c, (r * b + e) % c)
<1>1. h \in Nat /\ g \in Nat /\ r \in Nat /\ h = g * c + r
  BY DEF Divided
<1>2. PICK f \in Nat : f = r * b + e
  BY <1>1
<1>3. PICK g1 \in Nat, r1 \in Nat : g1 = f \div c /\ r1 = f % c /\ r1 < c /\ f = g1 * c + r1
  BY DivRem
<1>4. h * b + e = (g * b) * c + f
  <2>1. (g * c + r) * b + e = (g * b) * c + (r * b + e)
    BY <1>1
  <2> QED
    BY <1>1, <1>2, <2>1
<1>5. PICK k \in Nat : k = g * b
  BY <1>1
<1>6. (k + g1) * c + r1 = k * c + f
  <2>1. (k + g1) * c = k * c + g1 * c
    OBVIOUS
  <2>2. k * c \in Nat /\ g1 * c \in Nat
    OBVIOUS
  <2> QED
    BY <1>3, <2>1, <2>2
<1>7. h * b + e \in Nat
  BY <1>1
<1>8. PICK x \in Nat : x = h * b + e /\ x = (k + g1) * c + r1
  BY <1>4, <1>5, <1>6, <1>7
<1>9. Divided(c, x, k + g1, r1)
  BY <1>3, <1>8 DEF Divided
<1> QED
  BY <1>2, <1>3, <1>5, <1>8, <1>9

LEMMA DivisionByDigit == DivisionInv /\ DivideByDigit => DivisionInv'
<1> SUFFICES ASSUME DivisionInv, DivideByDigit PROVE DivisionInv'
  OBVIOUS
<1>1. /\ uq \in Nat /\ vq \in Nat /\ vq # 0
      /\ u \in [0 .. 4 -> Digits] /\ u[0] = 0 /\ Value(u, 1, 4) = uq
      /\ v \in [1 .. 4 -> Digits] /\ Value(v, 1, 4) = vq
  BY StartFacts DEF AtStart, DivideByDigit
<1>2. PICK b \in Nat : b = B /\ \A g \in Digits : g \in Nat
  <2>1. PICK b \in Nat : b = B
    BY Shifts
  <2>2. \A g \in Digits : g \in Nat
    BY <2>1 DEF Digits
  <2> QED
    BY <2>1, <2>2
<1>3. PICK c \in Nat : c = v[4] /\ c = vq /\ c # 0
  <2>1. LeadingZeros(v) = 3 /\ vq # 0
    BY DEF DivideByDigit
  <2>2. Value(v, 1, 4) = Value(v, 3 + 1, 4)
    BY <1>1, <2>1, FirstDigit
  <2>3. v[4] \in Nat /\ 4 \in Int
    BY <1>1, <1>2
  <2>4. Value(v, 4, 4) = v[4]
    BY <2>3, OneDigit
  <2>5. 3 + 1 = 4
    OBVIOUS
  <2> QED
    BY <1>1, <2>2, <2>3, <2>4, <2>5
<1>4. PICK e1 \in Nat, e2 \in Nat, e3 \in Nat, e4 \in Nat :
        e1 = u[1] /\ e2 = u[2] /\ e3 = u[3] /\ e4 = u[4]
  BY <1>1, <1>2
<1>5. uq = ((e1 * b + e2) * b + e3) * b + e4
  <2>1. /\ DigitOf(u, 1, 4, 0) = e4 /\ DigitOf(u, 1, 4, 1) = e3 /\ DigitOf(u, 1, 4, 2) = e2
        /\ DigitOf(u, 1, 4, 3) = e1 /\ DigitOf(u, 1, 4, 4) = 0
    BY <1>4 DEF DigitOf
  <2>2. uq = (((0 * b + e1) * b + e2) * b + e3) * b + e4
    BY <1>1, <1>2, <2>1, ValueOfDigits
  <2>3. 0 * b + e1 = e1
    OBVIOUS
  <2> QED
    BY <2>2, <2>3
<1>6. PICK g1 \in Nat, r1 \in Nat : /\ g1 = e1 \div c /\ r1 = e1 % c
                                   /\ Divided(c, e1, g1, r1)
  <2>1. PICK g1 \in Nat, r1 \in Nat : g1 = e1 \div c /\ r1 = e1 % c /\ e1 = g1 * c + r1 /\ r1 < c
    BY <1>3, DivRem
  <2>2. Divided(c, e1, g1, r1)
    BY <1>4, <2>1 DEF Divided
  <2> QED
    BY <2>1, <2>2
<1> DEFINE rb2 == r1 * b + e2
           f2 == g1 * b + rb2 \div c
           rb3 == (rb2 % c) * b + e3
           f3 == f2 * b + rb3 \div c
           rb4 == (rb3 % c) * b + e4
           f4 == f3 * b + rb4 \div c
<1>7. Divided(c, e1 * b + e2, f2, rb2 % c)
  BY <1>3, <1>4, <1>6, ShortDivisionStep
<1>8. Divided(c, (e1 * b + e2) * b + e3, f3, rb3 % c)
  <2> HIDE DEF f2, rb2
  <2> QED
    BY <1>3, <1>4, <1>7, ShortDivisionStep
<1>9. Divided(c, ((e1 * b + e2) * b + e3) * b + e4, f4, rb4 % c)
  <2> HIDE DEF f3, rb3
  <2> QED
    BY <1>3, <1>4, <1>8, ShortDivisionStep
<1>10. PICK g2 \in Nat, g3 \in Nat, g4 \in Nat :
         g2 = rb2 \div c /\ g3 = rb3 \div c /\ g4 = rb4 \div c
  <2>1. rb2 % c \in Nat /\ rb3 % c \in Nat
    BY <1>7, <1>8 DEF Divided
  <2>2. rb2 \in Nat /\ rb3 \in Nat /\ rb4 \in Nat
    <3>1. rb2 \in Nat
      OBVIOUS
    <3>2. \A g \in Nat, e \in Nat : g * b + e \in Nat
      OBVIOUS
    <3>3. rb3 \in Nat
      <4> HIDE DEF rb2
      <4> QED
        BY <2>1, <3>2
    <3>4. rb4 \in Nat
      <4> HIDE DEF rb3
      <4> QED
        BY <2>1, <3>2
    <3> QED
      BY <3>1, <3>3, <3>4
  <2> HIDE DEF rb2, rb3, rb4
  <2>3. rb2 \div c \in Nat /\ rb3 \div c \in Nat /\ rb4 \div c \in Nat
    BY <1>3, <2>2, DivRem
  <2> QED
    BY <2>3
<1>12. quotient' = Value(<<g1, g2, g3, g4>>, 1, 4) /\ remainder' = rb4 % c
  BY <1>2, <1>3, <1>4, <1>6, <1>10, Zenon DEF DivideByDigit, COMBINE
<1>13. quotient' = ((g1 * b + g2) * b + g3) * b + g4
  <2> DEFINE sn == <<g1, g2, g3, g4>>
  <2>1. /\ DigitOf(sn, 1, 4, 0) = g4 /\ DigitOf(sn, 1, 4, 1) = g3 /\ DigitOf(sn, 1, 4, 2) = g2
        /\ DigitOf(sn, 1, 4, 3) = g1 /\ DigitOf(sn, 1, 4, 4) = 0
    BY DEF DigitOf
  <2> HIDE DEF sn
  <2>2. quotient' = (((0 * b + g1) * b + g2) * b + g3) * b + g4
    <3>1. quotient' = Value(sn, 1, 4)
      BY <1>12 DEF sn
    <3> QED
      BY <1>2, <2>1, <3>1, ValueOfDigits
  <2>3. 0 * b + g1 = g1
    OBVIOUS
  <2> QED
    BY <2>2, <2>3
<1>14. Divided(c, uq, quotient', remainder')
  <2>1. quotient' = f4
    BY <1>10, <1>13, Zenon
  <2> QED
    BY <1>5, <1>9, <1>12, <2>1, Zenon
<1> QED
  BY <1>3, <1>14, DivisionEnds DEF DivideByDigit, Divided

LEMMA DivisionStarts == DivisionInit => DivisionInv
<1> SUFFICES ASSUME DivisionInit PROVE DivisionInv
  OBVIOUS
<1>1. /\ div_pc = "start" /\ division \in Divisions /\ j = 0
      /\ uq = Argument(division.a) /\ vq = Argument(division.b)
      /\ u = [k \in 0 .. 4 |-> IF k = 0 THEN 0 ELSE Split(uq)[k]]
      /\ v = Split(vq) /\ q = [k \in 0 .. 4 |-> 0]
  BY DEF DivisionInit
<1>2. div_pc \notin Working /\ div_pc # "fault" /\ div_pc # "done"
  BY <1>1 DEF Working
<1> QED
  BY <1>1, <1>2 DEF DivisionInv

LEMMA DivisionRefuses == DivisionInv /\ DivideByZero => DivisionInv'
<1> SUFFICES ASSUME DivisionInv, DivideByZero PROVE DivisionInv'
  OBVIOUS
<1>1. UNCHANGED <<division, uq, vq>> /\ vq = 0 /\ div_pc' = "fault"
  BY DEF DivideByZero, args
<1>2. division \in Divisions /\ uq = Argument(division.a) /\ vq = Argument(division.b)
  BY DEF DivisionInv
<1>3. Argument(division.a)' = Argument(division.a) /\ Argument(division.b)' = Argument(division.b)
  BY <1>1 DEF Argument
<1>4. div_pc' \notin Working /\ div_pc' # "start" /\ div_pc' # "done"
  BY <1>1 DEF Working
<1> QED
  BY <1>1, <1>2, <1>3, <1>4 DEF DivisionInv

LEMMA DivisionByLarger == DivisionInv /\ DivideByLarger => DivisionInv'
<1> SUFFICES ASSUME DivisionInv, DivideByLarger PROVE DivisionInv'
  OBVIOUS
<1>1. uq \in Nat /\ vq \in Nat
  BY StartFacts DEF AtStart, DivideByLarger
<1>2. /\ quotient' = 0 /\ remainder' = uq /\ uq < vq /\ UNCHANGED args /\ div_pc' = "done"
  BY DEF DivideByLarger
<1>3. uq = 0 * vq + uq
  BY <1>1
<1> QED
  BY <1>1, <1>2, <1>3, DivisionEnds

LEMMA DivisionStutters == DivisionInv /\ UNCHANGED divisionVars => DivisionInv'
<1> SUFFICES ASSUME DivisionInv, UNCHANGED divisionVars PROVE DivisionInv'
  OBVIOUS
<1>1. UNCHANGED <<div_pc, division, uq, vq, n, m, d, v, j, u, q, qhat, rhat, quotient, remainder>>
  BY DEF divisionVars, args, shape, results
<1>2. /\ division \in Divisions
      /\ uq = Argument(division.a) /\ vq = Argument(division.b)
      /\ div_pc \in {"start", "fault", "done"} \cup Working
      /\ div_pc = "start" =>
           /\ u = [k \in 0 .. 4 |-> IF k = 0 THEN 0 ELSE Split(uq)[k]]
           /\ v = Split(vq) /\ q = [k \in 0 .. 4 |-> 0] /\ j = 0
      /\ div_pc = "fault" => vq = 0
      /\ div_pc = "done" =>
           /\ quotient \in Nat /\ remainder \in Nat
           /\ uq = quotient * vq + remainder /\ remainder < vq
      /\ div_pc \in Working => vq # 0 /\ \E x : WorkInv(x)
  BY DEF DivisionInv
<1>3. Argument(division.a)' = Argument(division.a) /\ Argument(division.b)' = Argument(division.b)
  BY <1>1 DEF Argument
<1>4. ASSUME NEW x, WorkInv(x) PROVE WorkInv(x)'
  <2>1. Here' = Here /\ Divisor' = Divisor
    BY <1>1 DEF Here, Divisor
  <2>2. Window' = Window
    BY <1>1, <2>1 DEF Window
  <2>3. AtWork(x)' <=> AtWork(x)
    BY <1>1, <2>1 DEF AtWork
  <2>4. DividedBefore(x)' <=> DividedBefore(x)
    BY <1>1, <2>1 DEF DividedBefore
  <2>5. LargeEnough' <=> LargeEnough
    BY <1>1, <2>1, <2>2 DEF LargeEnough
  <2>6. /\ DividedBy(x, qhat, Window)' <=> DividedBy(x, qhat, Window)
        /\ DividedBy(x, qhat - 1, Window + Divisor - Pow(n + 1))'
             <=> DividedBy(x, qhat - 1, Window + Divisor - Pow(n + 1))
    BY <1>1, <2>1, <2>2 DEF DividedBy, Pow
  <2> QED
    BY <1>1, <1>4, <2>1, <2>2, <2>3, <2>4, <2>5, <2>6 DEF WorkInv
<1>5. div_pc \in Working => \E x : WorkInv(x)'
  BY <1>2, <1>4
<1> QED
  BY <1>1, <1>2, <1>3, <1>5 DEF DivisionInv, Working

LEMMA DivisionInvariant == DivisionSpec => []DivisionInv
<1>1. DivisionInit => DivisionInv
  BY DivisionStarts
<1>2. DivisionInv /\ [DivisionNext]_divisionVars => DivisionInv'
  BY DivisionRefuses, DivisionByLarger, DivisionByDigit, DivisionNormalises, DivisionEstimates,
     DivisionCorrects, DivisionSubtracts, DivisionAddsBack, DivisionStores, DivisionFinishes,
     DivisionStutters DEF DivisionNext, DivisionStep
<1> QED
  BY <1>1, <1>2, PTL DEF DivisionSpec

(* What is returned for signed numbers. *)
LEMMA SignedQuotient ==
  ASSUME division \in Divisions, division.op = "__divdi3",
         uq = Argument(division.a), vq = Argument(division.b),
         quotient \in Nat, remainder \in Nat,
         uq = quotient * vq + remainder, remainder < vq
  PROVE  LET rest == Signed(division.a) - Signed(Returned) * Signed(division.b) IN
           \/ rest \in -(vq - 1) .. vq - 1 /\ rest * Signed(division.a) >= 0
           \/ division.a = QUAD \div 2 /\ division.b = QUAD - 1
<1>1. PICK N \in Nat, h \in Nat : N = QUAD /\ h = QUAD \div 2 /\ N = 2 * h /\ h >= 1
  <2>1. QUAD \in Nat /\ QUAD >= 2 /\ QUAD = 2 * (QUAD \div 2) /\ QUAD \div 2 \in Nat
    BY QuadIsEven
  <2> QED
    BY <2>1
<1>2. PICK a \in Nat, b \in Nat : a = division.a /\ b = division.b /\ a < N /\ b < N
  <2>1. division.a \in Quads /\ division.b \in Quads
    BY Arguments
  <2> QED
    BY <1>1, <2>1 DEF Quads
<1>3. ASSUME NEW x \in Nat, x < N
      PROVE  /\ x >= h => /\ Negative(x) /\ Argument(x) = N - x /\ Signed(x) = x - N
                          /\ N - x \in Nat /\ N - x <= h /\ N - x >= 1
             /\ x < h => ~Negative(x) /\ Argument(x) = x /\ Signed(x) = x
  <2>1. CASE x >= h
    <3>1. N - x \in 1 .. N - 1
      BY <1>1, <1>3, <2>1
    <3>2. (N - x) % N = N - x
      BY <1>1, <3>1
    <3>3. N - x <= h /\ N - x >= 1
      BY <1>1, <2>1, <3>1
    <3> QED
      BY <1>1, <2>1, <3>1, <3>2, <3>3 DEF Negative, Argument, Negated, Signed
  <2>2. CASE x < h
    BY <1>1, <2>2 DEF Negative, Argument, Signed
  <2> QED
    BY <2>1, <2>2
<1>4. PICK U \in Nat, V \in Nat, g \in Nat, r \in Nat :
        /\ U = uq /\ V = vq /\ g = quotient /\ r = remainder /\ r < V /\ U = g * V + r
        /\ U <= h
        /\ (a >= h => Negative(a) /\ Signed(a) = -U /\ U = N - a)
        /\ (a < h => ~Negative(a) /\ Signed(a) = U)
        /\ (b >= h => Negative(b) /\ Signed(b) = -V /\ V = N - b)
        /\ (b < h => ~Negative(b) /\ Signed(b) = V)
  <2>1. PICK U \in Nat : /\ U = Argument(a) /\ U <= h
                         /\ a >= h => Negative(a) /\ Signed(a) = a - N /\ U = N - a
                         /\ a < h => ~Negative(a) /\ Signed(a) = a /\ U = a
    <3>1. CASE a >= h
      BY <1>1, <1>2, <1>3, <3>1
    <3>2. CASE a < h
      BY <1>1, <1>2, <1>3, <3>2
    <3> QED
      BY <1>1, <1>2, <3>1, <3>2
  <2>2. PICK V \in Nat : /\ V = Argument(b)
                         /\ b >= h => Negative(b) /\ Signed(b) = b - N /\ V = N - b
                         /\ b < h => ~Negative(b) /\ Signed(b) = b /\ V = b
    <3>1. CASE b >= h
      BY <1>1, <1>2, <1>3, <3>1
    <3>2. CASE b < h
      BY <1>1, <1>2, <1>3, <3>2
    <3> QED
      BY <1>1, <1>2, <3>1, <3>2
  <2>3. (a >= h => Signed(a) = -U) /\ (b >= h => Signed(b) = -V)
    <3>1. a - N = -(N - a) /\ b - N = -(N - b)
      BY <1>1, <1>2
    <3> QED
      BY <2>1, <2>2, <3>1
  <2>4. PICK g \in Nat, r \in Nat : g = quotient /\ r = remainder
    OBVIOUS
  <2>5. U = uq /\ V = vq /\ U = g * V + r /\ r < V
    BY <1>2, <2>1, <2>2, <2>4
  <2> QED
    BY <2>1, <2>2, <2>3, <2>4, <2>5
<1>5. g <= U /\ g <= h
  <2>1. g * 1 <= g * V
    BY <1>4
  <2>2. g * V \in Nat /\ g * 1 = g
    OBVIOUS
  <2> QED
    BY <1>4, <2>1, <2>2
<1>6. PICK p \in Nat : p = g * V /\ U = p + r
  BY <1>4
<1>7. r \in -(V - 1) .. V - 1 /\ -r \in -(V - 1) .. V - 1
  BY <1>4
<1>8. r * U >= 0 /\ (-r) * (-U) >= 0
  <2>1. r * U \in Nat /\ (-r) * (-U) = r * U
    OBVIOUS
  <2> QED
    BY <2>1
<1>9. Returned = IF Negative(a) # Negative(b) THEN Negated(g) ELSE g
  BY <1>2, <1>4 DEF Returned
<1>s. (Negative(a) # Negative(b)) <=> ((a >= h) # (b >= h))
  BY <1>1 DEF Negative
<1>10. CASE Negative(a) # Negative(b)
  <2>1. Signed(Returned) = -g
    <3>1. CASE g = 0
      <4>1. N % N = 0 /\ N - 0 = N
        BY <1>1
      <4>2. Returned = 0
        BY <1>1, <1>9, <1>10, <3>1, <4>1 DEF Negated
      <4> QED
        <5>1. Signed(0) = 0
          BY <1>1, <1>3
        <5> QED
          BY <3>1, <4>2, <5>1
    <3>2. CASE g # 0
      <4>1. N - g \in 1 .. N - 1 /\ N - g >= h
        BY <1>1, <1>5, <3>2
      <4>2. (N - g) % N = N - g
        BY <1>1, <4>1
      <4>3. Returned = N - g
        BY <1>1, <1>9, <1>10, <4>2 DEF Negated
      <4>4. Signed(N - g) = (N - g) - N
        BY <1>1, <1>3, <4>1
      <4>5. (N - g) - N = -g
        OBVIOUS
      <4> QED
        BY <4>3, <4>4, <4>5
    <3> QED
      BY <3>1, <3>2
  <2>2. CASE a >= h
    <3>1. Signed(a) = -U /\ Signed(b) = V
      <4>1. b < h
        BY <1>1, <1>2, <1>10, <1>s, <2>2
      <4> QED
        BY <1>4, <2>2, <4>1
    <3>2. -U - (-g) * V = -r
      <4>1. (-g) * V = -p
        BY <1>6
      <4> QED
        BY <1>6, <4>1
    <3> QED
      BY <1>2, <1>4, <1>7, <1>8, <2>1, <3>1, <3>2
  <2>3. CASE a < h
    <3>1. Signed(a) = U /\ Signed(b) = -V
      <4>1. b >= h
        BY <1>1, <1>2, <1>10, <1>s, <2>3
      <4> QED
        BY <1>4, <2>3, <4>1
    <3>2. U - (-g) * (-V) = r
      <4>1. (-g) * (-V) = p
        BY <1>6
      <4> QED
        BY <1>6, <4>1
    <3> QED
      BY <1>2, <1>4, <1>7, <1>8, <2>1, <3>1, <3>2
  <2> QED
    BY <1>1, <1>2, <2>2, <2>3
<1>11. CASE ~(Negative(a) # Negative(b))
  <2>1. Returned = g
    BY <1>9, <1>11
  <2>2. CASE g < h
    <3>1. Signed(Returned) = g
      BY <1>1, <1>3, <2>1, <2>2
    <3>2. CASE a >= h
      <4>1. Signed(a) = -U /\ Signed(b) = -V
        BY <1>4, <1>11, <3>2
      <4>2. -U - g * (-V) = -r
        <5>1. g * (-V) = -p
          BY <1>6
        <5> QED
          BY <1>6, <5>1
      <4> QED
        BY <1>2, <1>4, <1>7, <1>8, <3>1, <4>1, <4>2
    <3>3. CASE a < h
      <4>1. Signed(a) = U /\ Signed(b) = V
        BY <1>4, <1>11, <3>3
      <4>2. U - g * V = r
        BY <1>6
      <4> QED
        BY <1>2, <1>4, <1>7, <1>8, <3>1, <4>1, <4>2
    <3> QED
      BY <1>1, <1>2, <3>2, <3>3
  <2>3. CASE ~(g < h)
    <3>1. g = h /\ U = h
      BY <1>4, <1>5, <2>3
    <3>2. V = 1
      <4>1. CASE V >= 2
        <5>1. g * 2 <= g * V
          BY <4>1
        <5> QED
          BY <1>1, <1>6, <3>1, <5>1
      <4>2. V # 0
        BY <1>4
      <4> QED
        BY <4>1, <4>2
    <3>3. a >= h
      <4>1. CASE a < h
        <5>1. U = a
          <6>1. Argument(a) = a
            BY <1>2, <1>3, <4>1
          <6> QED
            BY <1>2, <1>4, <6>1
        <5> QED
          BY <3>1, <4>1, <5>1
      <4> QED
        BY <1>1, <1>2, <4>1
    <3>4. a = h
      BY <1>1, <1>4, <3>1, <3>3
    <3>5. b >= h
      BY <1>2, <1>4, <1>11, <3>3
    <3>6. b = N - 1
      <4>1. V = N - b
        BY <1>4, <3>5
      <4> QED
        BY <3>2, <4>1
    <3> QED
      BY <1>1, <1>2, <3>4, <3>6
  <2> QED
    BY <2>2, <2>3
<1> QED
  BY <1>10, <1>11

(* Whatever is divided, and however many bits a digit has, __qdivrem's     *)
(* quotient and remainder are right, the functions of the compiler return  *)
(* them with the sign of a quotient rounded to zero, and only a division   *)
(* by zero gives no result.                                                *)
THEOREM DivisionIsExactHolds == DivisionSpec => []DivisionIsExact
<1>1. DivisionInv => DivisionIsExact
  <2> SUFFICES ASSUME DivisionInv PROVE DivisionIsExact
    OBVIOUS
  <2>1. /\ division \in Divisions /\ uq = Argument(division.a) /\ vq = Argument(division.b)
        /\ div_pc = "fault" => vq = 0
        /\ div_pc = "done" =>
             /\ quotient \in Nat /\ remainder \in Nat
             /\ uq = quotient * vq + remainder /\ remainder < vq
    BY DEF DivisionInv
  <2>2. div_pc = "fault" => division.b = 0
    BY <2>1, Arguments
  <2>3. ASSUME div_pc = "done", division.op = "__divdi3"
        PROVE  LET rest == Signed(division.a) - Signed(Returned) * Signed(division.b) IN
                 \/ rest \in -(vq - 1) .. vq - 1 /\ rest * Signed(division.a) >= 0
                 \/ division.a = QUAD \div 2 /\ division.b = QUAD - 1
    BY <2>1, <2>3, SignedQuotient
  <2> QED
    BY <2>1, <2>2, <2>3, Zenon DEF DivisionIsExact
<1> QED
  BY <1>1, DivisionInvariant, PTL

(* Whatever is divided, the loop of D3 leaves an estimate that one          *)
(* correction makes right (qdivrem.c:284).                                 *)
THEOREM EstimateIsCloseHolds == DivisionSpec => []EstimateIsClose
<1>1. DivisionInv => EstimateIsClose
  <2> SUFFICES ASSUME DivisionInv, div_pc = "subtract"
               PROVE  qhat - Value(u, At(j), At(j + n)) \div Value(v, 1, n) \in {0, 1}
    BY DEF EstimateIsClose
  <2>1. PICK x : /\ AtWork(x) /\ j <= m /\ DividedBefore(x) /\ LargeEnough
                 /\ (qhat - 1) * Divisor <= Window
    BY DEF DivisionInv, Working, WorkInv
  <2>2. PICK b \in Nat : b = B
    BY Shifts
  <2>3. PICK U \in Nat, V \in Nat : U = Window /\ V = Divisor /\ U < V * b
    BY <2>1, <2>2, WindowFacts
  <2>4. PICK e \in Nat : e = qhat /\ (e + 1) * V > U /\ (e - 1) * V <= U
    BY <2>1, <2>2, <2>3 DEF LargeEnough, Digits
  <2>5. V # 0
    <3>1. V = 0 => V * b = 0
      OBVIOUS
    <3> QED
      BY <2>3, <3>1
  <2>6. PICK g \in Nat, c \in Nat : g = U \div V /\ c = U % V /\ U = g * V + c /\ c < V
    BY <2>5, DivRem
  <2>7. e >= g
    <3>1. CASE e + 1 <= g
      <4>1. (e + 1) * V <= g * V
        BY <3>1
      <4>2. (e + 1) * V \in Nat /\ g * V \in Nat
        OBVIOUS
      <4> QED
        BY <2>4, <2>6, <4>1, <4>2
    <3> QED
      BY <3>1
  <2>8. e <= g + 1
    <3>1. CASE g + 1 <= e - 1
      <4>1. PICK f \in Nat : f = e - 1 /\ g + 1 <= f
        BY <3>1
      <4>2. (g + 1) * V <= f * V /\ f * V <= U
        BY <2>4, <4>1
      <4>3. (g + 1) * V = g * V + V /\ g * V \in Nat /\ f * V \in Nat
        OBVIOUS
      <4> QED
        BY <2>6, <4>2, <4>3
    <3> QED
      BY <3>1
  <2>9. At(j) = Here - n /\ At(j + n) = Here
    BY <2>1, Places DEF AtWork
  <2>10. Value(u, At(j), At(j + n)) \div Value(v, 1, n) = g
    BY <2>3, <2>6, <2>9 DEF Window, Divisor
  <2>11. e - g \in {0, 1}
    BY <2>7, <2>8
  <2> QED
    BY <2>4, <2>10, <2>11
<1> QED
  BY <1>1, DivisionInvariant, PTL

=============================================================================
