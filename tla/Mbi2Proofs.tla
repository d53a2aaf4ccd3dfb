----------------------------- MODULE Mbi2Proofs -----------------------------
(***************************************************************************)
(* Proofs about Mbi2Info and Rsdp.                                         *)
(***************************************************************************)
EXTENDS Mbi2Info, InductionProofs, TLAPS

-----------------------------------------------------------------------------
(* The search for the RSDP.                                                *)

(* What is behind the cursor holds no table, what was found is one. *)
RsdpInv ==
  /\ memory \in [0 .. End -> Paragraphs]
  /\ range \in DOMAIN Ranges
  /\ cur \in Nat
  /\ Ranges[range].start <= cur
  /\ cur <= Ranges[range].start + Ranges[range].len
  /\ \A r \in DOMAIN Ranges : \A k \in 1 .. Ranges[r].len :
       r < range \/ (r = range /\ Ranges[r].start + k - 1 < cur)
         => ~IsTable(Ranges[r].start + k - 1)
  /\ ~done => ret = Null
  /\ done => \/ ret = Null /\ range = Len(Ranges) /\ ~InRange
             \/ ret = cur /\ InRange /\ IsTable(cur)

LEMMA RangesType ==
  /\ Len(Ranges) \in Nat /\ Len(Ranges) # 0 /\ DOMAIN Ranges = 1 .. Len(Ranges)
  /\ \A r \in DOMAIN Ranges : /\ Ranges[r].start \in Nat /\ Ranges[r].len \in Nat
                              /\ Ranges[r].start + Ranges[r].len <= End
<1>0. Ranges \in Seq([start: Nat, len: Nat]) /\ Ranges # <<>>
  BY RsdpAssumption, Zenon
<1>1. PICK n \in Nat : /\ n = Len(Ranges) /\ n # 0 /\ DOMAIN Ranges = 1 .. n
                      /\ \A r \in 1 .. n : Ranges[r] \in [start: Nat, len: Nat]
  <2> DEFINE S == [start: Nat, len: Nat]
  <2>1. Ranges \in Seq(S)
    BY <1>0
  <2> HIDE DEF S
  <2>2. Len(Ranges) # 0
    BY <1>0, <2>1, EmptySeq
  <2>3. \A r \in 1 .. Len(Ranges) : Ranges[r] \in S
    BY <2>1
  <2> QED
    BY <2>1, <2>2, <2>3 DEF S
<1>4. \A r \in DOMAIN Ranges : Ranges[r].start \in Nat /\ Ranges[r].len \in Nat
  BY <1>1
<1> QED
  BY <1>1, <1>4, RsdpAssumption

(* The remainder of the sum of two bytes. *)
LEMMA SumRemainder ==
  ASSUME NEW x \in 0 .. ByteSize - 1, NEW y \in 0 .. ByteSize - 1
  PROVE  (x + y) % ByteSize = 0 <=> x + y \in {0, ByteSize}
<1>0. ByteSize \in Nat \ {0}
  BY RsdpAssumption
<1>1. \A n \in Int : /\ n \div ByteSize \in Int
                     /\ n = (n \div ByteSize) * ByteSize + (n % ByteSize)
                     /\ n % ByteSize \in 0 .. ByteSize - 1
  BY <1>0
<1> DEFINE q == (x + y) \div ByteSize
           m == (x + y) % ByteSize
<1>2. q \in Int /\ x + y = q * ByteSize + m /\ m \in 0 .. ByteSize - 1
  <2>1. x + y \in Int
    BY <1>0
  <2> QED
    BY <1>1, <2>1, Zenon
<1> HIDE DEF q, m
<1>3. \A k \in Int : /\ k <= -1 => k * ByteSize <= -ByteSize
                     /\ k >= 2 => k * ByteSize >= 2 * ByteSize
  BY <1>0
<1>4. q \in {0, 1}
  BY <1>0, <1>2, <1>3
<1>5. m = 0 <=> x + y \in {0, ByteSize}
  BY <1>0, <1>2, <1>4
<1> QED
  BY <1>5 DEF m

(* Checksum20 is right, also at the end of a range. *)
LEMMA PassesIsTable ==
  ASSUME RsdpInv, InRange
  PROVE  Passes(cur) <=> IsTable(cur)
<1>1. cur \in 0 .. End /\ cur + 1 \in 0 .. End
  BY RangesType, RsdpAssumption DEF RsdpInv, InRange
<1>2. /\ memory[cur].sum \in 0 .. ByteSize - 1
      /\ memory[cur + 1].sum4 \in 0 .. ByteSize - 1
  <2>1. memory[cur] \in Paragraph /\ memory[cur + 1] \in Paragraph
    BY <1>1, RsdpAssumption DEF RsdpInv
  <2> QED
    BY <2>1 DEF Paragraph
<1>3. Checksum20(cur) = 0 <=> memory[cur].sum + memory[cur + 1].sum4 \in {0, ByteSize}
  BY <1>2, SumRemainder DEF Checksum20
<1> QED
  BY <1>3 DEF Passes, IsTable

LEMMA RsdpInvStart == RsdpInit => RsdpInv
<1> SUFFICES ASSUME RsdpInit PROVE RsdpInv
  OBVIOUS
<1>1. range = 1 /\ cur = Ranges[1].start /\ 1 \in DOMAIN Ranges
  BY RangesType DEF RsdpInit
<1> QED
  BY <1>1, RangesType DEF RsdpInit, RsdpInv

LEMMA RsdpInvStep == ASSUME RsdpInv, AcpiGetRsdp PROVE RsdpInv'
<1>0. memory' = memory /\ \A p : IsTable(p)' <=> IsTable(p)
  BY DEF AcpiGetRsdp, Found, PassOver, NextRange, IsTable
<1>1. CASE Found
  <2>1. IsTable(cur)
    BY <1>1, PassesIsTable DEF Found
  <2> QED
    BY <1>0, <1>1, <2>1, RangesType DEF Found, RsdpInv, InRange
<1>2. CASE PassOver
  <2>1. ~IsTable(cur)
    BY <1>2, PassesIsTable DEF PassOver
  <2>2. /\ range' = range /\ cur' = cur + 1 /\ ret' = ret /\ ~done /\ done' = done
        /\ cur < Ranges[range].start + Ranges[range].len
    BY <1>2 DEF PassOver, InRange
  <2>3. ASSUME NEW r \in DOMAIN Ranges, NEW k \in 1 .. Ranges[r].len,
               r < range' \/ (r = range' /\ Ranges[r].start + k - 1 < cur')
        PROVE  ~IsTable(Ranges[r].start + k - 1)'
    <3>1. CASE r = range /\ Ranges[r].start + k - 1 = cur
      BY <1>0, <2>1, <3>1
    <3>2. CASE r < range \/ (r = range /\ Ranges[r].start + k - 1 < cur)
      BY <1>0, <3>2 DEF RsdpInv
    <3> QED
      BY <2>2, <2>3, <3>1, <3>2, RangesType, SMTT(40) DEF RsdpInv
  <2> QED
    BY <1>0, <2>2, <2>3, RangesType DEF RsdpInv
<1>3. CASE NextRange
  <2>0. ~done /\ ret' = ret /\ ret = Null
        /\ cur = Ranges[range].start + Ranges[range].len
    BY <1>3, RangesType, SMTT(40) DEF NextRange, RsdpInv, InRange
  <2>1. CASE range < Len(Ranges)
    <3>1. /\ range' = range + 1 /\ cur' = Ranges[range'].start /\ done' = done
          /\ range' \in DOMAIN Ranges
      BY <1>3, <2>1, RangesType DEF NextRange, RsdpInv
    <3>2. ASSUME NEW r \in DOMAIN Ranges, NEW k \in 1 .. Ranges[r].len,
                 r < range' \/ (r = range' /\ Ranges[r].start + k - 1 < cur')
          PROVE  ~IsTable(Ranges[r].start + k - 1)'
      <4>1. Ranges[r].start \in Nat /\ Ranges[r].len \in Nat
        BY RangesType
      <4>2. r < range'
        <5>1. CASE r = range'
          <6>1. Ranges[r].start + k - 1 >= cur'
            BY <3>1, <4>1, <5>1
          <6> QED
            BY <3>1, <3>2, <4>1, <5>1, <6>1
        <5> QED
          BY <3>2, <5>1
      <4>3. r < range \/ (r = range /\ Ranges[r].start + k - 1 < cur)
        BY <2>0, <3>1, <4>1, <4>2, RangesType, SMTT(40) DEF RsdpInv
      <4> QED
        BY <1>0, <4>3 DEF RsdpInv
    <3>3. /\ cur' \in Nat /\ Ranges[range'].start <= cur'
          /\ cur' <= Ranges[range'].start + Ranges[range'].len
      BY <3>1, RangesType
    <3> QED
      BY <1>0, <2>0, <3>1, <3>2, <3>3 DEF RsdpInv
  <2>2. CASE ~(range < Len(Ranges))
    <3>1. done' /\ range' = range /\ cur' = cur /\ range = Len(Ranges)
      BY <1>3, <2>2, RangesType DEF NextRange, RsdpInv
    <3>2. ~InRange'
      BY <1>3, <3>1 DEF NextRange, InRange
    <3> QED
      BY <1>0, <2>0, <3>1, <3>2 DEF RsdpInv
  <2> QED
    BY <2>1, <2>2
<1> QED
  BY <1>1, <1>2, <1>3 DEF AcpiGetRsdp

-----------------------------------------------------------------------------
(* The addresses of one range, and those of the first n of them: h as in   *)
(* Flattens.                                                               *)
Rows == [r \in DOMAIN Ranges |-> [k \in 1 .. Ranges[r].len |-> Ranges[r].start + k - 1]]

(* An entry of g is an address of a range up to the i-th. *)
FromRanges(g, i) ==
  \A j \in 1 .. Len(g) : \E r \in 1 .. i : \E k \in 1 .. Ranges[r].len :
    g[j] = Ranges[r].start + k - 1

(* An address of a range up to the i-th is in g, behind others that are    *)
(* before it.                                                              *)
InOrder(g, i) ==
  \A r \in 1 .. i : \A k \in 1 .. Ranges[r].len :
    \E j \in 1 .. Len(g) :
      /\ g[j] = Ranges[r].start + k - 1
      /\ \A l \in 1 .. j - 1 : \E s \in DOMAIN Ranges : \E m \in 1 .. Ranges[s].len :
           /\ g[l] = Ranges[s].start + m - 1
           /\ s < r \/ (s = r /\ m < k)

LEMMA RowsType ==
  /\ Rows \in Seq(Seq(Nat)) /\ Len(Rows) = Len(Ranges)
  /\ \A r \in DOMAIN Ranges : /\ Len(Rows[r]) = Ranges[r].len
                              /\ \A k \in 1 .. Ranges[r].len :
                                   Rows[r][k] = Ranges[r].start + k - 1
<1>1. ASSUME NEW r \in DOMAIN Ranges
      PROVE  /\ Rows[r] \in Seq(Nat) /\ Len(Rows[r]) = Ranges[r].len
             /\ \A k \in 1 .. Ranges[r].len : Rows[r][k] = Ranges[r].start + k - 1
  <2>1. PICK n \in Nat, a \in Nat : n = Ranges[r].len /\ a = Ranges[r].start
    BY RangesType
  <2>2. Rows[r] = [k \in 1 .. n |-> a + k - 1]
    BY <2>1, SMTT(40) DEF Rows
  <2> QED
    BY <2>1, <2>2
<1>2. PICK n \in Nat : n = Len(Ranges) /\ DOMAIN Ranges = 1 .. n
  BY RangesType
<1>3. Rows \in [1 .. n -> Seq(Nat)]
  BY <1>1, <1>2 DEF Rows
<1>4. Rows \in Seq(Seq(Nat)) /\ Len(Rows) = n
  BY <1>3
<1> QED
  BY <1>1, <1>2, <1>4

(* One more range. *)
LEMMA OneMoreRow ==
  ASSUME NEW g \in Seq(Nat), NEW i \in 0 .. Len(Ranges) - 1,
         FromRanges(g, i), InOrder(g, i)
  PROVE  FromRanges(g \o Rows[i + 1], i + 1) /\ InOrder(g \o Rows[i + 1], i + 1)
<1> DEFINE f == g \o Rows[i + 1]
<1>0. i + 1 \in DOMAIN Ranges /\ i + 1 \in Nat /\ 1 .. i \subseteq DOMAIN Ranges
  BY RangesType
<1>1. PICK n \in Nat : n = Len(g)
  OBVIOUS
<1>2. PICK c \in Nat, a \in Nat : c = Ranges[i + 1].len /\ a = Ranges[i + 1].start
  BY <1>0, RangesType
<1>3. Rows[i + 1] \in Seq(Nat) /\ Len(Rows[i + 1]) = c
      /\ \A k \in 1 .. c : Rows[i + 1][k] = a + k - 1
  <2>1. Rows[i + 1] \in Seq(Nat)
    BY <1>0, RowsType, RangesType
  <2> QED
    BY <1>0, <1>2, <2>1, RowsType
<1>4. /\ Len(f) = n + c
      /\ \A j \in 1 .. n : f[j] = g[j]
      /\ \A k \in 1 .. c : f[n + k] = a + k - 1
  <2>1. PICK q \in Seq(Nat) : q = Rows[i + 1] /\ Len(q) = c /\ \A k \in 1 .. c : q[k] = a + k - 1
    BY <1>3
  <2>2. Len(g \o q) = n + c /\ \A j \in 1 .. n + c :
          (g \o q)[j] = IF j <= n THEN g[j] ELSE q[j - n]
    <3>1. Len(g \o q) = Len(g) + Len(q) /\ \A j \in 1 .. Len(g) + Len(q) :
            (g \o q)[j] = IF j <= Len(g) THEN g[j] ELSE q[j - Len(g)]
      BY <2>1, ConcatProperties
    <3> QED
      BY <1>1, <2>1, <3>1
  <2>3. \A k \in 1 .. c : (n + k) \in 1 .. n + c /\ ~(n + k <= n) /\ (n + k) - n = k
    OBVIOUS
  <2>4. ASSUME NEW k \in 1 .. c PROVE (g \o q)[n + k] = a + k - 1
    <3>1. (g \o q)[n + k] = q[(n + k) - n]
      BY <2>2, <2>3
    <3> QED
      BY <2>1, <2>3, <3>1
  <2>5. \A j \in 1 .. n : (g \o q)[j] = g[j]
    <3>1. \A j \in 1 .. n : j \in 1 .. n + c /\ j <= n
      OBVIOUS
    <3> QED
      BY <2>2, <3>1
  <2> QED
    BY <2>1, <2>2, <2>4, <2>5
<1> HIDE DEF f
<1>5. FromRanges(f, i + 1)
  <2> SUFFICES ASSUME NEW j \in 1 .. n + c
               PROVE  \E r \in 1 .. i + 1 : \E k \in 1 .. Ranges[r].len :
                        f[j] = Ranges[r].start + k - 1
    BY <1>4 DEF FromRanges
  <2>1. CASE j <= n
    <3>1. PICK r \in 1 .. i : \E k \in 1 .. Ranges[r].len : g[j] = Ranges[r].start + k - 1
      <4>1. j \in 1 .. Len(g)
        BY <1>1, <2>1
      <4> QED
        BY <4>1, Zenon DEF FromRanges
    <3>2. r \in 1 .. i + 1
      OBVIOUS
    <3> QED
      BY <1>4, <2>1, <3>1, <3>2
  <2>2. CASE ~(j <= n)
    <3>1. PICK k \in 1 .. c : j = n + k
      <4>1. j - n \in 1 .. c /\ j = n + (j - n)
        BY <2>2
      <4> QED
        BY <4>1
    <3>2. f[j] = Ranges[i + 1].start + k - 1 /\ k \in 1 .. Ranges[i + 1].len
      BY <1>2, <1>4, <3>1
    <3>3. i + 1 \in 1 .. i + 1
      OBVIOUS
    <3> QED
      BY <3>2, <3>3
  <2> QED
    BY <2>1, <2>2
<1>6. InOrder(f, i + 1)
  <2> SUFFICES ASSUME NEW r \in 1 .. i + 1, NEW k \in 1 .. Ranges[r].len
               PROVE  \E j \in 1 .. Len(f) :
                        /\ f[j] = Ranges[r].start + k - 1
                        /\ \A l \in 1 .. j - 1 : \E s \in DOMAIN Ranges :
                             \E m \in 1 .. Ranges[s].len :
                               /\ f[l] = Ranges[s].start + m - 1
                               /\ s < r \/ (s = r /\ m < k)
    BY Zenon DEF InOrder
  <2>1. CASE r # i + 1
    <3>0. r \in 1 .. i
      BY <2>1
    <3>1. PICK j \in 1 .. n :
            /\ g[j] = Ranges[r].start + k - 1
            /\ \A l \in 1 .. j - 1 : \E s \in DOMAIN Ranges : \E m \in 1 .. Ranges[s].len :
                 /\ g[l] = Ranges[s].start + m - 1
                 /\ s < r \/ (s = r /\ m < k)
      BY <1>1, <3>0 DEF InOrder
    <3>2. j \in 1 .. Len(f) /\ f[j] = Ranges[r].start + k - 1
      BY <1>4, <3>1
    <3>3. ASSUME NEW l \in 1 .. j - 1
          PROVE  \E s \in DOMAIN Ranges : \E m \in 1 .. Ranges[s].len :
                   /\ f[l] = Ranges[s].start + m - 1
                   /\ s < r \/ (s = r /\ m < k)
      <4>1. f[l] = g[l]
        <5>1. l \in 1 .. n
          OBVIOUS
        <5> QED
          BY <1>4, <5>1
      <4> QED
        BY <3>1, <4>1
    <3> QED
      BY <3>2, <3>3
  <2>2. CASE r = i + 1
    <3>0. k \in 1 .. c
      BY <1>2, <2>2
    <3>1. n + k \in 1 .. Len(f) /\ f[n + k] = Ranges[r].start + k - 1
      BY <1>2, <1>4, <2>2, <3>0
    <3>2. ASSUME NEW l \in 1 .. (n + k) - 1
          PROVE  \E s \in DOMAIN Ranges : \E m \in 1 .. Ranges[s].len :
                   /\ f[l] = Ranges[s].start + m - 1
                   /\ s < r \/ (s = r /\ m < k)
      <4>1. CASE l <= n
        <5>1. PICK s \in 1 .. i : \E m \in 1 .. Ranges[s].len : g[l] = Ranges[s].start + m - 1
          <6>1. l \in 1 .. Len(g)
            BY <1>1, <3>0, <4>1
          <6> QED
            BY <6>1, Zenon DEF FromRanges
        <5>2. s \in DOMAIN Ranges /\ s < r /\ f[l] = g[l]
          BY <1>0, <1>4, <2>2, <4>1
        <5> QED
          BY <5>1, <5>2
      <4>2. CASE ~(l <= n)
        <5>1. PICK m \in 1 .. c : l = n + m /\ m < k
          <6>1. l - n \in 1 .. c /\ l = n + (l - n) /\ l - n < k
            BY <3>0, <4>2
          <6> QED
            BY <6>1
        <5>2. f[l] = Ranges[i + 1].start + m - 1 /\ m \in 1 .. Ranges[i + 1].len
          BY <1>2, <1>4, <5>1, SMTT(40)
        <5> QED
          BY <1>0, <2>2, <5>1, <5>2
      <4> QED
        BY <3>0, <4>1, <4>2
    <3> QED
      BY <3>1, <3>2
  <2> QED
    BY <2>1, <2>2
<1> QED
  BY <1>5, <1>6 DEF f

(* All the addresses. *)
LEMMA LookedInOrder ==
  /\ Looked \in Seq(Nat)
  /\ FromRanges(Looked, Len(Ranges)) /\ InOrder(Looked, Len(Ranges))
<1>m. PICK m \in Nat : m = Len(Ranges)
  BY RangesType
<1>1. PICK h : Flattens(h, Rows, Nat)
  BY RowsType, FlattenSteps
<1>2. /\ h \in [0 .. m -> Seq(Nat)] /\ h[0] = <<>>
      /\ \A i \in 1 .. m : h[i] = h[i - 1] \o Rows[i]
      /\ Looked = h[m]
  BY <1>m, <1>1, RowsType DEF Flattens, Looked, Rows
<1> DEFINE T == { i \in 0 .. m : FromRanges(h[i], i) /\ InOrder(h[i], i) }
<1>3. 0 \in T
  <2>1. Len(h[0]) = 0
    BY <1>2
  <2> QED
    BY <2>1 DEF FromRanges, InOrder
<1>4. ASSUME NEW i \in 0 .. m - 1, i \in T PROVE i + 1 \in T
  <2>1. i + 1 \in 1 .. m /\ (i + 1) - 1 = i /\ h[i] \in Seq(Nat)
    BY <1>2
  <2>2. h[i + 1] = h[i] \o Rows[i + 1]
    BY <1>2, <2>1
  <2>3. FromRanges(h[i], i) /\ InOrder(h[i], i)
    BY <1>4
  <2>4. FromRanges(h[i] \o Rows[i + 1], i + 1) /\ InOrder(h[i] \o Rows[i + 1], i + 1)
    BY <1>m, <2>1, <2>3, OneMoreRow
  <2>5. i + 1 \in 0 .. m
    OBVIOUS
  <2> QED
    BY <2>2, <2>4, <2>5
<1>5. \A i \in 0 .. m : i \in T
  <2> HIDE DEF T
  <2> QED
    BY <1>3, <1>4, InductionUpTo
<1>6. m \in 0 .. m
  OBVIOUS
<1> QED
  BY <1>m, <1>2, <1>5, <1>6

(* SelectInSeq finds the first index. *)
LEMMA FirstTableIsFirst ==
  /\ (\A n \in DOMAIN Looked : ~IsTable(Looked[n])) => FirstTable = Null
  /\ \A n \in DOMAIN Looked :
       IsTable(Looked[n]) /\ (\A j \in 1 .. n - 1 : ~IsTable(Looked[j]))
         => FirstTable = Looked[n]
<1>0. PICK m \in Nat : m = Len(Looked) /\ DOMAIN Looked = 1 .. m
  BY LookedInOrder
<1> DEFINE I == { i \in 1 .. Len(Looked) : IsTable(Looked[i]) }
<1>1. SelectInSeq(Looked, IsTable) = IF I # {} THEN Min(I) ELSE 0
  BY DEF SelectInSeq
<1>2. ASSUME \A n \in DOMAIN Looked : ~IsTable(Looked[n])
      PROVE  FirstTable = Null
  <2>1. I = {}
    BY <1>0, <1>2
  <2> QED
    BY <1>1, <2>1 DEF FirstTable
<1>3. ASSUME NEW n \in DOMAIN Looked, IsTable(Looked[n]),
             \A j \in 1 .. n - 1 : ~IsTable(Looked[j])
      PROVE  FirstTable = Looked[n]
  <2>0. n \in Nat /\ n # 0
    BY <1>0
  <2>1. n \in I /\ \A j \in I : j \in Nat /\ n <= j
    BY <1>0, <1>3
  <2> HIDE DEF I
  <2>2. \A x \in I : (\A y \in I : x <= y) => x = n
    <3> SUFFICES ASSUME NEW x \in I, \A y \in I : x <= y PROVE x = n
      OBVIOUS
    <3>1. x <= n /\ n <= x /\ x \in Nat
      BY <2>1
    <3> QED
      BY <2>0, <3>1
  <2>3. Min(I) = n
    BY <2>1, <2>2 DEF Min
  <2> QED
    BY <1>1, <2>0, <2>1, <2>3 DEF FirstTable
<1> QED
  BY <1>2, <1>3

LEMMA RsdpInvImplies == RsdpInv => RsdpIsFirst
<1> SUFFICES ASSUME RsdpInv, done PROVE ret = FirstTable
  BY DEF RsdpIsFirst
<1>0. PICK m \in Nat : m = Len(Looked) /\ DOMAIN Looked = 1 .. m
  BY LookedInOrder
<1>1. CASE ret = Null /\ range = Len(Ranges) /\ ~InRange
  <2>1. ASSUME NEW n \in DOMAIN Looked PROVE ~IsTable(Looked[n])
    <3>1. PICK r \in 1 .. Len(Ranges) : \E k \in 1 .. Ranges[r].len :
                 Looked[n] = Ranges[r].start + k - 1
      BY <1>0, LookedInOrder DEF FromRanges
    <3>2. PICK k \in 1 .. Ranges[r].len : Looked[n] = Ranges[r].start + k - 1
      BY <3>1
    <3>3. r \in DOMAIN Ranges /\ Ranges[r].start \in Nat /\ Ranges[r].len \in Nat
      BY RangesType
    <3>4. r < range \/ (r = range /\ Ranges[r].start + k - 1 < cur)
      BY <1>1, <3>3, RangesType DEF InRange, RsdpInv
    <3> QED
      BY <3>2, <3>3, <3>4 DEF RsdpInv
  <2> QED
    BY <1>1, <2>1, FirstTableIsFirst
<1>2. CASE ret = cur /\ InRange /\ IsTable(cur)
  <2>0. range \in 1 .. Len(Ranges) /\ Ranges[range].start \in Nat /\ Ranges[range].len \in Nat
    BY RangesType DEF RsdpInv
  <2>1. PICK k \in 1 .. Ranges[range].len : cur = Ranges[range].start + k - 1
    <3>1. PICK k \in Int : k = cur - Ranges[range].start + 1
      BY <2>0 DEF RsdpInv
    <3>2. k \in 1 .. Ranges[range].len /\ cur = Ranges[range].start + k - 1
      BY <1>2, <2>0, <3>1, SMTT(40) DEF RsdpInv, InRange
    <3> QED
      BY <3>2
  <2>2. PICK j \in 1 .. Len(Looked) :
          /\ Looked[j] = Ranges[range].start + k - 1
          /\ \A l \in 1 .. j - 1 : \E s \in DOMAIN Ranges : \E n \in 1 .. Ranges[s].len :
               /\ Looked[l] = Ranges[s].start + n - 1
               /\ s < range \/ (s = range /\ n < k)
    BY <2>0, <2>1, LookedInOrder DEF InOrder
  <2>3. ASSUME NEW l \in 1 .. j - 1 PROVE ~IsTable(Looked[l])
    <3>1. PICK s \in DOMAIN Ranges : \E n \in 1 .. Ranges[s].len :
            /\ Looked[l] = Ranges[s].start + n - 1
            /\ s < range \/ (s = range /\ n < k)
      BY <2>2
    <3>2. PICK n \in 1 .. Ranges[s].len :
            /\ Looked[l] = Ranges[s].start + n - 1
            /\ s < range \/ (s = range /\ n < k)
      BY <3>1
    <3>3. Ranges[s].start \in Nat /\ Ranges[s].len \in Nat
      BY RangesType
    <3>4. s < range \/ (s = range /\ Ranges[s].start + n - 1 < cur)
      BY <2>0, <2>1, <3>2, <3>3, SMTT(40)
    <3> QED
      BY <3>2, <3>4 DEF RsdpInv
  <2>4. Looked[j] = cur /\ j \in DOMAIN Looked
    BY <1>0, <2>1, <2>2
  <2> QED
    BY <1>2, <2>3, <2>4, FirstTableIsFirst
<1> QED
  BY <1>1, <1>2 DEF RsdpInv

LEMMA RsdpInvNext == RsdpInv /\ [Next]_vars => RsdpInv'
<1> SUFFICES ASSUME RsdpInv, [Next]_vars PROVE RsdpInv'
  OBVIOUS
<1>1. CASE SearchRsdp
  BY <1>1, RsdpInvStep DEF SearchRsdp
<1>2. CASE UNCHANGED rsdpVars
  BY <1>2 DEF RsdpInv, rsdpVars, InRange, IsTable
<1>3. SearchRsdp \/ UNCHANGED rsdpVars
  BY DEF Next, Step, vars, input, reader, NoModule, PopModule, Build, ConvertCmdline,
     ConvertMemmap, ConvertModule, ConvertRsdp, Finish, KernelStart, ReadCmdline,
     ReadModule, ReadMemoryMap, ReadEntry, LastEntryRead, ReadOther
<1> QED
  BY <1>1, <1>2, <1>3

(* The search finds the first table of its ranges, and none only if there  *)
(* is none.                                                                *)
THEOREM RsdpIsFirstHolds == Spec => []RsdpIsFirst
<1>1. Init => RsdpInv
  BY RsdpInvStart DEF Init
<1> QED
  BY <1>1, RsdpInvNext, RsdpInvImplies, PTL DEF Spec

-----------------------------------------------------------------------------
(* The builder: blobs, and the memory they are in.                         *)

PlainBlobs ==
  { InfoBlob(n) : n \in Nat }
  \cup { StringBlob(s) : s \in String }
  \cup { ModuleBlob(m) : m \in [mod_start: Nat, mod_end: Nat, string: String] }
  \cup { MemoryBlob }
  \cup { EntryBlob(e) : e \in [addr: Nat, len: Nat, type: Nat] }
  \cup { RsdpBlob(r) : r \in [rev: Nat, size: Nat] }

TagBlobs == { TagBlob(x[1], x[2]) : x \in Nat \X Nat }

Blobs == PlainBlobs \cup TagBlobs

Memories == UNION { [D -> Blobs] : D \in SUBSET Nat }

Builders == [start: Nat, cur: Nat, end: Nat, mem: Memories, ok: BOOLEAN]

(* Nothing is outside, nothing overlaps. *)
Packed(b) ==
  /\ b \in Builders
  /\ b.start <= b.cur /\ b.cur <= b.end
  /\ \A a \in DOMAIN b.mem : b.start <= a /\ a + b.mem[a].size <= b.cur
  /\ \A a, c \in DOMAIN b.mem : a < c => a + b.mem[a].size <= c

(* c is b with more in the same memory; a blob of no bytes may be lost. *)
Grows(b, c) ==
  /\ c.start = b.start /\ c.end = b.end
  /\ \A a \in DOMAIN b.mem :
       b.mem[a].size # 0 => a \in DOMAIN c.mem /\ c.mem[a] = b.mem[a]

LEMMA AlignOne == \A n \in Nat : AlignUp(n, 1) = n
BY DEF AlignUp

LEMMA AlignEight ==
  \A n \in Nat : /\ AlignUp(n, 8) \in Nat /\ n <= AlignUp(n, 8) /\ AlignUp(n, 8) < n + 8
                 /\ AlignUp(n, 8) % 8 = 0
BY DEF AlignUp

LEMMA AlignBounds ==
  ASSUME NEW n \in Nat, NEW align \in {1, 8}
  PROVE  /\ AlignUp(n, align) \in Nat
         /\ n <= AlignUp(n, align) /\ AlignUp(n, align) < n + align
<1>1. CASE align = 1
  BY <1>1, AlignOne
<1>2. CASE align = 8
  BY <1>2, AlignEight
<1> QED
  BY <1>1, <1>2

LEMMA PlainFields ==
  ASSUME NEW x \in PlainBlobs
  PROVE  x.size \in Nat /\ "type" \notin DOMAIN x
<1>1. CASE x \in { InfoBlob(n) : n \in Nat }
  BY <1>1 DEF InfoBlob, BootInfoSize
<1>2. CASE x \in { StringBlob(s) : s \in String }
  BY <1>2 DEF StringBlob, String
<1>3. CASE x \in { ModuleBlob(m) : m \in [mod_start: Nat, mod_end: Nat, string: String] }
  BY <1>3 DEF ModuleBlob, ModuleSize
<1>4. CASE x = MemoryBlob
  BY <1>4 DEF MemoryBlob, MemorySize
<1>5. CASE x \in { EntryBlob(e) : e \in [addr: Nat, len: Nat, type: Nat] }
  BY <1>5 DEF EntryBlob, MemoryEntrySize
<1>6. CASE x \in { RsdpBlob(r) : r \in [rev: Nat, size: Nat] }
  <2>1. PICK r \in [rev: Nat, size: Nat] : x = RsdpBlob(r)
    BY <1>6
  <2>2. DOMAIN x = {"size", "rsdp"} /\ x.size = IF r.rev <= 1 THEN 20 ELSE r.size
    BY <2>1 DEF RsdpBlob, RsdpV1Size
  <2> QED
    BY <2>1, <2>2
<1> QED
  BY <1>1, <1>2, <1>3, <1>4, <1>5, <1>6 DEF PlainBlobs

LEMMA TagFields ==
  ASSUME NEW x \in TagBlobs
  PROVE  /\ x.size = 8 /\ x.type \in Nat /\ x.tag_size \in Nat
         /\ "type" \in DOMAIN x
BY DEF TagBlobs, TagBlob, TagSize

LEMMA TagIsBlob ==
  ASSUME NEW type \in Nat, NEW n \in Nat
  PROVE  TagBlob(type, n) \in TagBlobs /\ TagBlob(type, n) \in Blobs
<1>1. <<type, n>> \in Nat \X Nat
  OBVIOUS
<1>2. TagBlob(<<type, n>>[1], <<type, n>>[2]) \in TagBlobs
  BY <1>1, Zenon DEF TagBlobs
<1> QED
  BY <1>2 DEF Blobs

LEMMA BlobSize == \A x \in Blobs : x.size \in Nat
BY PlainFields, TagFields DEF Blobs

LEMMA MemoryFields ==
  ASSUME NEW m \in Memories
  PROVE  DOMAIN m \subseteq Nat /\ \A a \in DOMAIN m : m[a] \in Blobs
BY DEF Memories

LEMMA WrittenMemory ==
  ASSUME NEW m \in Memories, NEW at \in Nat, NEW x \in Blobs
  PROVE  /\ Written(m, at, x) \in Memories
         /\ DOMAIN Written(m, at, x) = DOMAIN m \cup {at}
         /\ Written(m, at, x)[at] = x
         /\ \A a \in DOMAIN m : a # at => Written(m, at, x)[a] = m[a]
<1> DEFINE w == Written(m, at, x)
<1>1. DOMAIN w = DOMAIN m \cup {at} /\ DOMAIN w \subseteq Nat
  BY MemoryFields DEF Written
<1>2. w \in [DOMAIN w -> Blobs]
  BY MemoryFields DEF Written
<1>3. w \in Memories
  <2> HIDE DEF w
  <2> QED
    BY <1>1, <1>2 DEF Memories
<1> QED
  BY <1>1, <1>3 DEF Written

(* There is space for a blob. *)
Fits(b, align, x) == b.ok /\ x.size + align <= b.end - b.cur

LEMMA AddBlobFits ==
  ASSUME NEW b \in Builders, NEW align \in {1, 8}, NEW x \in Blobs, Fits(b, align, x)
  PROVE  LET c == AddBlob(b, align, x)
             at == AlignUp(b.cur, align)
         IN  /\ c \in Builders /\ c.ok
             /\ c.start = b.start /\ c.end = b.end
             /\ c.cur = at + x.size /\ c.cur <= c.end
             /\ c.mem = Written(b.mem, at, x)
<1> DEFINE at == AlignUp(b.cur, align)
           c == AddBlob(b, align, x)
<1>1. c = [b EXCEPT !.mem = Written(@, at, x), !.cur = at + x.size]
  BY DEF AddBlob, Fits
<1>2. b.cur \in Nat /\ b.end \in Nat /\ b.start \in Nat /\ b.mem \in Memories /\ b.ok
  BY DEF Builders, Fits
<1>3. at \in Nat /\ at < b.cur + align /\ x.size \in Nat
  BY <1>2, AlignBounds, BlobSize
<1>4. Written(b.mem, at, x) \in Memories
  BY <1>2, <1>3, WrittenMemory
<1>5. at + x.size \in Nat /\ at + x.size <= b.end
  BY <1>2, <1>3 DEF Fits
<1> HIDE DEF at, c
<1>6. /\ c \in Builders /\ c.ok /\ c.start = b.start /\ c.end = b.end
      /\ c.cur = at + x.size /\ c.mem = Written(b.mem, at, x)
  BY <1>1, <1>2, <1>4, <1>5 DEF Builders
<1> QED
  BY <1>5, <1>6 DEF at, c

LEMMA AddBlobFails ==
  ASSUME NEW b \in Builders, NEW align, NEW x, ~Fits(b, align, x)
  PROVE  LET c == AddBlob(b, align, x)
         IN  /\ c \in Builders /\ ~c.ok
             /\ c.start = b.start /\ c.end = b.end /\ c.cur = b.cur /\ c.mem = b.mem
BY DEF AddBlob, Fits, Builders

LEMMA AddBlobPacked ==
  ASSUME NEW b, Packed(b), NEW align \in {1, 8}, NEW x \in Blobs
  PROVE  Packed(AddBlob(b, align, x)) /\ Grows(b, AddBlob(b, align, x))
<1> DEFINE c == AddBlob(b, align, x)
<1>0. b \in Builders
  BY DEF Packed
<1>1. CASE ~Fits(b, align, x)
  BY <1>0, <1>1, AddBlobFails DEF Packed, Grows
<1>2. CASE Fits(b, align, x)
  <2>1. PICK at \in Nat : at = AlignUp(b.cur, align) /\ b.cur <= at
    BY <1>0, AlignBounds DEF Builders
  <2>2. /\ c \in Builders /\ c.start = b.start /\ c.end = b.end
        /\ c.cur = at + x.size /\ c.cur <= c.end
        /\ c.mem = Written(b.mem, at, x)
    BY <1>0, <1>2, <2>1, AddBlobFits
  <2> HIDE DEF c
  <2>3. /\ DOMAIN c.mem = DOMAIN b.mem \cup {at} /\ c.mem[at] = x
        /\ \A a \in DOMAIN b.mem : a # at => c.mem[a] = b.mem[a]
    <3>1. b.mem \in Memories
      BY <1>0 DEF Builders
    <3>2. LET w == Written(b.mem, at, x)
          IN  /\ DOMAIN w = DOMAIN b.mem \cup {at} /\ w[at] = x
              /\ \A a \in DOMAIN b.mem : a # at => w[a] = b.mem[a]
      BY <3>1, WrittenMemory, ZenonT(40)
    <3> QED
      BY <2>2, <3>2
  <2>4. x.size \in Nat
    BY BlobSize
  <2>5. \A a \in DOMAIN b.mem : a \in Nat /\ b.mem[a].size \in Nat
    BY <1>0, MemoryFields, BlobSize DEF Builders
  <2>6. b.start \in Nat /\ b.cur \in Nat /\ b.end \in Nat /\ b.start <= b.cur /\ b.cur <= b.end
    BY <1>0 DEF Packed, Builders
  <2>7. \A a \in DOMAIN b.mem : b.start <= a /\ a + b.mem[a].size <= b.cur
    BY DEF Packed
  <2>8. ASSUME NEW a \in DOMAIN c.mem
        PROVE  c.start <= a /\ a + c.mem[a].size <= c.cur
    <3>1. CASE a = at
      BY <2>1, <2>2, <2>3, <2>4, <2>6, <3>1
    <3>2. CASE a # at
      BY <2>1, <2>2, <2>3, <2>4, <2>5, <2>6, <2>7, <3>2
    <3> QED
      BY <3>1, <3>2
  <2>9. ASSUME NEW a \in DOMAIN c.mem, NEW d \in DOMAIN c.mem, a < d
        PROVE  a + c.mem[a].size <= d
    <3>1. CASE a = at
      BY <2>1, <2>3, <2>5, <2>6, <2>7, <2>9, <3>1
    <3>2. CASE a # at /\ d = at
      BY <2>1, <2>3, <2>5, <2>6, <2>7, <2>9, <3>2
    <3>3. CASE a # at /\ d # at
      BY <2>3, <2>9, <3>3 DEF Packed
    <3> QED
      BY <3>1, <3>2, <3>3
  <2>10. c.start <= c.cur
    BY <2>1, <2>2, <2>4, <2>6
  <2>11. Packed(c)
    BY <2>2, <2>8, <2>9, <2>10 DEF Packed
  <2>12. ASSUME NEW a \in DOMAIN b.mem, b.mem[a].size # 0
         PROVE  a \in DOMAIN c.mem /\ c.mem[a] = b.mem[a]
    <3>1. a # at
      BY <2>1, <2>5, <2>6, <2>7, <2>12
    <3> QED
      BY <2>3, <3>1
  <2>13. Grows(b, c)
    BY <2>2, <2>12 DEF Grows
  <2> QED
    BY <2>11, <2>13 DEF c
<1> QED
  BY <1>1, <1>2

-----------------------------------------------------------------------------
(* h holds what AddTag has made of b after each of the blobs.              *)
Adds(h, b, type, n, payload, c) ==
  /\ h \in [0 .. Len(payload) -> Builders]
  /\ h[0] = AddBlob(b, 8, TagBlob(type, n))
  /\ \A k \in 1 .. Len(payload) : h[k] = AddBlob(h[k - 1], 1, payload[k])
  /\ c = h[Len(payload)]

LEMMA GrowsTransitive ==
  ASSUME NEW b, NEW c, NEW d, Grows(b, c), Grows(c, d)
  PROVE  Grows(b, d)
BY DEF Grows

LEMMA AddBlobType ==
  ASSUME NEW b \in Builders, NEW align \in {1, 8}, NEW x \in Blobs
  PROVE  AddBlob(b, align, x) \in Builders
BY AddBlobFits, AddBlobFails

LEMMA AddTagSteps ==
  ASSUME NEW b \in Builders, NEW type \in Nat, NEW n \in Nat, NEW payload \in Seq(Blobs)
  PROVE  \E h : Adds(h, b, type, n, payload, AddTag(b, type, n, payload))
<1>m. PICK m \in Nat : m = Len(payload)
  OBVIOUS
<1> DEFINE base == AddBlob(b, 8, TagBlob(type, n))
           step == [p \in Builders \X (1 .. m) |-> AddBlob(p[1], 1, payload[p[2]])]
<1>1. base \in Builders
  <2>1. TagBlob(type, n) \in Blobs
    BY TagIsBlob
  <2> QED
    BY <2>1, AddBlobType
<1>2. IsStep(step, Builders, m)
  <2> SUFFICES ASSUME NEW p \in Builders \X (1 .. m)
               PROVE  AddBlob(p[1], 1, payload[p[2]]) \in Builders
    BY DEF IsStep
  <2>1. PICK d \in Builders, k \in 1 .. m : p = <<d, k>>
    OBVIOUS
  <2>2. payload[k] \in Blobs
    BY <1>m
  <2>3. AddBlob(d, 1, payload[k]) \in Builders
    BY <2>2, AddBlobType
  <2> QED
    BY <2>1, <2>3
<1>3. PICK h : IsRecursion(h, Builders, base, m, step)
  <2> HIDE DEF base, step
  <2> QED
    BY <1>1, <1>2, RecursionExists
<1>4. /\ h \in [0 .. m -> Builders]
      /\ h[0] = base
      /\ \A k \in 1 .. m : h[k] = step[<<h[k - 1], k>>]
  BY <1>3 DEF IsRecursion
<1>5. ASSUME NEW k \in 1 .. m PROVE h[k] = AddBlob(h[k - 1], 1, payload[k])
  <2>1. k - 1 \in 0 .. m
    OBVIOUS
  <2>2. h[k - 1] \in Builders
    BY <1>4, <2>1
  <2>3. h[k] = step[<<h[k - 1], k>>]
    BY <1>4
  <2> QED
    BY <2>2, <2>3
<1> DEFINE Rec(g) == [k \in 0 .. m |-> IF k = 0 THEN base ELSE AddBlob(g[k - 1], 1, payload[k])]
           F == CHOOSE g : g = Rec(g)
<1>6. AddTag(b, type, n, payload) = F[m]
  BY <1>m DEF AddTag, MBI2_TAG_ALIGNMENT
<1>7. h = Rec(h)
  <2> HIDE DEF base
  <2> SUFFICES ASSUME NEW k \in 0 .. m
               PROVE  h[k] = IF k = 0 THEN base ELSE AddBlob(h[k - 1], 1, payload[k])
    BY <1>4
  <2>1. CASE k = 0
    BY <1>4, <2>1
  <2>2. CASE k # 0
    <3>1. k \in 1 .. m
      BY <2>2
    <3> QED
      BY <1>5, <2>2, <3>1
  <2> QED
    BY <2>1, <2>2
<1>8. F = Rec(F)
  <2>1. \E g : g = Rec(g)
    BY <1>7
  <2> HIDE DEF Rec
  <2> QED
    BY <2>1
<1> HIDE DEF F
<1>9. \A k \in 0 .. m : h[k] = F[k]
  <2> HIDE DEF base
  <2>1. F[0] = base
    <3>1. 0 \in 0 .. m
      OBVIOUS
    <3> QED
      BY <1>8, <3>1
  <2>2. ASSUME NEW k \in 1 .. m, h[k - 1] = F[k - 1] PROVE h[k] = F[k]
    <3>1. F[k] = AddBlob(F[k - 1], 1, payload[k])
      <4>1. k \in 0 .. m /\ k # 0
        OBVIOUS
      <4> QED
        BY <1>8, <4>1
    <3> QED
      BY <1>5, <2>2, <3>1
  <2>3. h[0] = F[0]
    BY <1>4, <2>1
  <2> QED
    BY <2>2, <2>3, StepsAgree
<1>10. AddTag(b, type, n, payload) = h[m]
  <2>1. m \in 0 .. m
    OBVIOUS
  <2> QED
    BY <1>6, <1>9, <2>1
<1>11. Adds(h, b, type, n, payload, AddTag(b, type, n, payload))
  BY <1>m, <1>4, <1>5, <1>10 DEF Adds
<1> QED
  BY <1>11

(* A tag in its place, with its payload behind it. *)
LEMMA AddTagPacked ==
  ASSUME NEW b, Packed(b), NEW type \in Nat, NEW n \in Nat, NEW payload \in Seq(Blobs)
  PROVE  LET c == AddTag(b, type, n, payload) IN Packed(c) /\ Grows(b, c)
<1>m. PICK m \in Nat : m = Len(payload)
  OBVIOUS
<1>0. b \in Builders
  BY DEF Packed
<1>1. PICK h : Adds(h, b, type, n, payload, AddTag(b, type, n, payload))
  BY <1>0, AddTagSteps
<1> DEFINE T == { k \in 0 .. m : Packed(h[k]) /\ Grows(b, h[k]) }
<1>2. 0 \in T
  <2>1. TagBlob(type, n) \in Blobs
    BY TagIsBlob
  <2>2. h[0] = AddBlob(b, 8, TagBlob(type, n))
    BY <1>1 DEF Adds
  <2>3. Packed(h[0]) /\ Grows(b, h[0])
    BY <2>1, <2>2, AddBlobPacked
  <2> QED
    BY <2>3
<1>3. ASSUME NEW k \in 0 .. m - 1, k \in T PROVE k + 1 \in T
  <2>1. k + 1 \in 1 .. m /\ (k + 1) - 1 = k /\ payload[k + 1] \in Blobs
    BY <1>m
  <2>2. h[k + 1] = AddBlob(h[k], 1, payload[k + 1])
    BY <1>m, <1>1, <2>1 DEF Adds
  <2>3. Packed(h[k]) /\ Grows(b, h[k])
    BY <1>3
  <2>4. Packed(h[k + 1]) /\ Grows(h[k], h[k + 1])
    BY <2>1, <2>2, <2>3, AddBlobPacked
  <2> QED
    BY <2>1, <2>3, <2>4, GrowsTransitive
<1>4. \A k \in 0 .. m : k \in T
  <2> HIDE DEF T
  <2> QED
    BY <1>2, <1>3, InductionUpTo
<1>5. AddTag(b, type, n, payload) = h[m] /\ m \in 0 .. m
  BY <1>m, <1>1 DEF Adds
<1> QED
  BY <1>4, <1>5

(* What the tags are made of. *)
EntrySet == [addr: Nat, len: Nat, type: Nat]
ModuleSet == [mod_start: Nat, mod_end: Nat, string: String]
TableSet == [rev: Nat, size: Nat]

LEMMA CmdlinePayload ==
  ASSUME NEW s \in String
  PROVE  <<StringBlob(s)>> \in Seq(PlainBlobs) /\ s.len \in Nat
<1>1. StringBlob(s) \in PlainBlobs
  BY DEF PlainBlobs
<1> QED
  BY <1>1 DEF String

LEMMA ModulePayload ==
  ASSUME NEW m \in ModuleSet
  PROVE  <<ModuleBlob(m), StringBlob(m.string)>> \in Seq(PlainBlobs) /\ m.string \in String
<1>1. m.string \in String
  BY DEF ModuleSet
<1>2. StringBlob(m.string) \in PlainBlobs
  BY <1>1 DEF PlainBlobs
<1>3. ModuleBlob(m) \in PlainBlobs
  BY DEF PlainBlobs, ModuleSet
<1> QED
  BY <1>1, <1>2, <1>3

MapPayload(mmap) == <<MemoryBlob>> \o [k \in DOMAIN mmap |-> EntryBlob(mmap[k])]

LEMMA MmapPayload ==
  ASSUME NEW mmap \in Seq(EntrySet)
  PROVE  /\ MapPayload(mmap) \in Seq(PlainBlobs) /\ Len(MapPayload(mmap)) = Len(mmap) + 1
         /\ MapPayload(mmap)[1] = MemoryBlob
         /\ \A k \in 1 .. Len(mmap) : MapPayload(mmap)[k + 1] = EntryBlob(mmap[k])
<1>m. PICK m \in Nat : m = Len(mmap) /\ DOMAIN mmap = 1 .. m
  OBVIOUS
<1> DEFINE e == [k \in 1 .. m |-> EntryBlob(mmap[k])]
<1>1. \A k \in 1 .. m : EntryBlob(mmap[k]) \in PlainBlobs
  <2> SUFFICES ASSUME NEW k \in 1 .. m PROVE EntryBlob(mmap[k]) \in PlainBlobs
    OBVIOUS
  <2>1. mmap[k] \in EntrySet
    BY <1>m
  <2> QED
    BY <2>1 DEF PlainBlobs, EntrySet
<1>2. e \in Seq(PlainBlobs) /\ Len(e) = m /\ \A k \in 1 .. m : e[k] = EntryBlob(mmap[k])
  BY <1>1
<1>3. MemoryBlob \in PlainBlobs
  BY DEF PlainBlobs
<1>4. MapPayload(mmap) = <<MemoryBlob>> \o e
  BY <1>m DEF MapPayload
<1> HIDE DEF e
<1>5. PICK f : f = <<MemoryBlob>> /\ f \in Seq(PlainBlobs) /\ Len(f) = 1 /\ f[1] = MemoryBlob
  <2>1. PICK x \in PlainBlobs : x = MemoryBlob
    BY <1>3
  <2> DEFINE S == PlainBlobs
  <2>2. x \in S
    OBVIOUS
  <2> HIDE DEF S
  <2>3. <<x>> \in Seq(S) /\ Len(<<x>>) = 1 /\ <<x>>[1] = x
    BY <2>2
  <2> QED
    BY <2>1, <2>3 DEF S
<1>6. /\ f \o e \in Seq(PlainBlobs) /\ Len(f \o e) = 1 + m
      /\ \A j \in 1 .. 1 + m : (f \o e)[j] = IF j <= 1 THEN f[j] ELSE e[j - 1]
  <2>1. /\ f \o e \in Seq(PlainBlobs)
        /\ Len(f \o e) = Len(f) + Len(e)
        /\ \A j \in 1 .. Len(f) + Len(e) : (f \o e)[j] = IF j <= Len(f) THEN f[j] ELSE e[j - Len(f)]
    BY <1>2, <1>5, ConcatProperties, ZenonT(40)
  <2> QED
    BY <1>2, <1>5, <2>1
<1>7. (f \o e)[1] = MemoryBlob
  <2>1. 1 \in 1 .. 1 + m
    OBVIOUS
  <2> QED
    BY <1>5, <1>6, <2>1
<1>8. ASSUME NEW k \in 1 .. m PROVE (f \o e)[k + 1] = EntryBlob(mmap[k])
  <2>1. k + 1 \in 1 .. 1 + m /\ ~(k + 1 <= 1) /\ (k + 1) - 1 = k
    OBVIOUS
  <2>2. (f \o e)[k + 1] = e[(k + 1) - 1]
    BY <1>6, <2>1
  <2> QED
    BY <1>2, <2>1, <2>2
<1>9. MapPayload(mmap) = f \o e
  BY <1>4, <1>5
<1>10. PICK g : g = f \o e
  OBVIOUS
<1>11. /\ g \in Seq(PlainBlobs) /\ Len(g) = m + 1 /\ g[1] = MemoryBlob
       /\ \A k \in 1 .. m : g[k + 1] = EntryBlob(mmap[k])
  BY <1>6, <1>7, <1>8, <1>10
<1>12. MapPayload(mmap) = g /\ m = Len(mmap)
  BY <1>m, <1>9, <1>10
<1> QED
  BY <1>11, <1>12, Zenon

LEMMA RsdpPayload ==
  ASSUME NEW r \in TableSet
  PROVE  <<RsdpBlob(r)>> \in Seq(PlainBlobs) /\ RsdpBlob(r).size \in Nat
<1>1. RsdpBlob(r) \in PlainBlobs
  BY DEF PlainBlobs, TableSet
<1> QED
  BY <1>1, PlainFields

LEMMA PlainIsBlobs == Seq(PlainBlobs) \subseteq Seq(Blobs)
BY DEF Blobs

-----------------------------------------------------------------------------
(* Where the structure is built.                                           *)

InputInv ==
  /\ area.phys_addr \in Nat /\ area.length \in Nat
  /\ mbi \in [flags: SUBSET {"mem", "cmdline", "mods"}, cmdline: String,
              mmap: Seq(EntrySet) \ {<<>>}, mods: Seq(ModuleSet)]
  /\ mod_index \in Nat

Before(p) == p \in {"start", "exit", "build"}

BldInv ==
  /\ Packed(bld)
  /\ Before(pc) => DOMAIN bld.mem = {}
  /\ ~Before(pc) => /\ bld.start = area.phys_addr
                    /\ bld.end = area.phys_addr + area.length
  /\ ~Before(pc) /\ pc # "halted" =>
       bld.ok /\ bld.start \in DOMAIN bld.mem /\ bld.mem[bld.start].size = 8

LEMMA EmptyMemory == <<>> \in Memories /\ DOMAIN <<>> = {}
<1>1. <<>> \in [{} -> Blobs]
  OBVIOUS
<1>2. {} \in SUBSET Nat
  OBVIOUS
<1>3. DOMAIN <<>> = {}
  OBVIOUS
<1> QED
  BY <1>1, <1>2, <1>3 DEF Memories

LEMMA InputInvInit == Init => InputInv
<1> SUFFICES ASSUME Init PROVE InputInv
  OBVIOUS
<1>1. mbi \in Mbis /\ area \in [phys_addr: PhysAddrs, length: Lengths] /\ mod_index = 0
  BY DEF Init
<1>2. area.phys_addr \in Nat /\ area.length \in Nat
  BY <1>1, Mbi2Assumption
<1>3. mbi \in [flags: SUBSET {"mem", "cmdline", "mods"}, cmdline: String,
              mmap: Seq(EntrySet) \ {<<>>}, mods: Seq(ModuleSet)]
  BY <1>1, Mbi2Assumption, Zenon DEF EntrySet, ModuleSet
<1> QED
  BY <1>1, <1>2, <1>3 DEF InputInv

LEMMA InputInvNext == InputInv /\ [Next]_vars => InputInv'
<1> SUFFICES ASSUME InputInv, [Next]_vars PROVE InputInv'
  OBVIOUS
<1>1. CASE PopModule
  <2>1. /\ mbi' = [mbi EXCEPT !.mods = Tail(@), !.cmdline = Head(mbi.mods).string,
                              !.flags = @ \cup {"cmdline"}]
        /\ mbi.mods # <<>> /\ mbi.mods \in Seq(ModuleSet)
    BY <1>1 DEF PopModule, InputInv
  <2>2. Tail(mbi.mods) \in Seq(ModuleSet) /\ Head(mbi.mods) \in ModuleSet
    <3> DEFINE S == ModuleSet
    <3>1. mbi.mods \in Seq(S)
      BY <2>1
    <3> HIDE DEF S
    <3>2. Tail(mbi.mods) \in Seq(S) /\ Head(mbi.mods) \in S
      BY <2>1, <3>1
    <3> QED
      BY <3>2 DEF S
  <2>3. Head(mbi.mods).string \in String
    BY <2>2 DEF ModuleSet
  <2>4. mbi' \in [flags: SUBSET {"mem", "cmdline", "mods"}, cmdline: String,
                  mmap: Seq(EntrySet) \ {<<>>}, mods: Seq(ModuleSet)]
    BY <2>1, <2>2, <2>3 DEF InputInv
  <2> QED
    BY <1>1, <2>4 DEF PopModule, InputInv
<1>2. CASE ConvertModule
  BY <1>2 DEF ConvertModule, input, InputInv
<1>3. CASE UNCHANGED <<area, mbi, mod_index>>
  BY <1>3 DEF InputInv
<1> QED
  BY <1>1, <1>2, <1>3 DEF Next, Step, vars, input, reader, NoModule, Build, ConvertCmdline,
     ConvertMemmap, SearchRsdp, ConvertRsdp, Finish, KernelStart, ReadCmdline,
     ReadModule, ReadMemoryMap, ReadEntry, LastEntryRead, ReadOther

LEMMA BldInvInit == Init => BldInv
<1> SUFFICES ASSUME Init PROVE BldInv
  OBVIOUS
<1>1. /\ bld = [start |-> 0, cur |-> 0, end |-> 0, mem |-> <<>>, ok |-> TRUE]
      /\ pc = "start"
  BY DEF Init
<1>2. bld \in Builders /\ DOMAIN bld.mem = {}
  BY <1>1, EmptyMemory DEF Builders
<1> QED
  BY <1>1, <1>2 DEF BldInv, Packed, Before

(* mbi2_build *)
LEMMA BuildPacked ==
  ASSUME NEW at \in Nat, NEW n \in Nat
  PROVE  LET c == BuilderAt(at, n)
         IN  /\ Packed(c) /\ c.start = at /\ c.end = at + n
             /\ c.ok => /\ at % 8 = 0 /\ c.cur = at + 8 /\ DOMAIN c.mem = {at}
                        /\ c.mem[at] = InfoBlob(0)
<1> DEFINE b == [start |-> at, cur |-> at, end |-> at + n, mem |-> <<>>, ok |-> at % 8 = 0]
           c == BuilderAt(at, n)
<1>1. c = AddBlob(b, 8, InfoBlob(0))
  BY DEF BuilderAt, MBI2_TAG_ALIGNMENT
<1>2. /\ b \in Builders /\ DOMAIN b.mem = {} /\ b.mem \in Memories
      /\ b.start = at /\ b.cur = at /\ b.end = at + n /\ (b.ok <=> at % 8 = 0)
  <2>1. (at % 8 = 0) \in BOOLEAN /\ at + n \in Nat
    OBVIOUS
  <2> QED
    BY <2>1, EmptyMemory DEF Builders
<1> HIDE DEF b, c
<1>3. Packed(b)
  BY <1>2 DEF Packed
<1>4. InfoBlob(0) \in Blobs /\ InfoBlob(0).size = 8
  <2>1. InfoBlob(0) \in PlainBlobs
    BY DEF PlainBlobs
  <2> QED
    BY <2>1 DEF Blobs, InfoBlob, BootInfoSize
<1>5. Packed(c) /\ c.start = at /\ c.end = at + n
  <2>1. Packed(c) /\ Grows(b, c)
    BY <1>1, <1>3, <1>4, AddBlobPacked
  <2> QED
    BY <1>2, <2>1 DEF Grows
<1>6. ASSUME c.ok
      PROVE  /\ at % 8 = 0 /\ c.cur = at + 8 /\ DOMAIN c.mem = {at}
             /\ c.mem[at] = InfoBlob(0)
  <2>1. Fits(b, 8, InfoBlob(0))
    BY <1>1, <1>2, <1>6, AddBlobFails
  <2>2. at % 8 = 0
    BY <1>2, <2>1 DEF Fits
  <2>3. AlignUp(at, 8) = at
    BY <2>2 DEF AlignUp
  <2>4. c.cur = at + 8 /\ c.mem = Written(b.mem, at, InfoBlob(0))
    BY <1>1, <1>2, <1>4, <2>1, <2>3, AddBlobFits
  <2>5. LET w == Written(b.mem, at, InfoBlob(0))
        IN  DOMAIN w = DOMAIN b.mem \cup {at} /\ w[at] = InfoBlob(0)
    <3> DEFINE x == InfoBlob(0)
               m == b.mem
    <3>1. x \in Blobs /\ m \in Memories
      BY <1>2, <1>4
    <3> HIDE DEF x, m
    <3>2. LET w == Written(m, at, x) IN DOMAIN w = DOMAIN m \cup {at} /\ w[at] = x
      BY <3>1, WrittenMemory
    <3> QED
      BY <3>2 DEF x, m
  <2> QED
    BY <1>2, <2>2, <2>4, <2>5
<1> QED
  BY <1>5, <1>6 DEF c

(* One more tag, or none. *)
LEMMA BldInvTag ==
  ASSUME BldInv, ~Before(pc), pc # "halted", area' = area,
         bld' = bld \/ (Packed(bld') /\ Grows(bld, bld')),
         ~Before(pc'), pc' = "halted" \/ bld'.ok
  PROVE  BldInv'
<1>1. Packed(bld') /\ bld'.start = bld.start /\ bld'.end = bld.end
  BY DEF BldInv, Grows
<1>2. bld.start \in DOMAIN bld'.mem /\ bld'.mem[bld.start].size = 8
  BY DEF BldInv, Grows
<1> QED
  BY <1>1, <1>2 DEF BldInv

LEMMA GoOnTo ==
  ASSUME NEW from, NEW to, NEW b, GoOn(from, to, b), ~Before(to)
  PROVE  bld' = b /\ pc = from /\ ~Before(pc') /\ (pc' = "halted" \/ bld'.ok)
BY DEF GoOn, Before

LEMMA CmdlinePacked ==
  ASSUME NEW b, Packed(b), NEW s \in String
  PROVE  Packed(AddBootCmdline(b, s)) /\ Grows(b, AddBootCmdline(b, s))
<1>1. <<StringBlob(s)>> \in Seq(Blobs) /\ s.len \in Nat
  BY CmdlinePayload, PlainIsBlobs
<1>2. MBI2_TAG_CMDLINE \in Nat /\ TagSize + s.len + 1 \in Nat
  BY <1>1 DEF MBI2_TAG_CMDLINE, TagSize
<1> QED
  BY <1>1, <1>2, AddTagPacked, Zenon DEF AddBootCmdline

LEMMA ModulePacked ==
  ASSUME NEW b, Packed(b), NEW m \in ModuleSet
  PROVE  Packed(AddModule(b, m)) /\ Grows(b, AddModule(b, m))
<1>1. <<ModuleBlob(m), StringBlob(m.string)>> \in Seq(Blobs) /\ m.string.len \in Nat
  BY ModulePayload, PlainIsBlobs DEF String
<1>2. MBI2_TAG_MODULE \in Nat /\ TagSize + ModuleSize + m.string.len + 1 \in Nat
  BY <1>1 DEF MBI2_TAG_MODULE, TagSize, ModuleSize
<1> QED
  BY <1>1, <1>2, AddTagPacked, Zenon DEF AddModule

LEMMA MmapPacked ==
  ASSUME NEW b, Packed(b), NEW mmap \in Seq(EntrySet)
  PROVE  Packed(AddMbi1Memmap(b, mmap)) /\ Grows(b, AddMbi1Memmap(b, mmap))
<1>1. MapPayload(mmap) \in Seq(Blobs) /\ Len(mmap) \in Nat
  BY MmapPayload, PlainIsBlobs
<1>2. /\ MBI2_TAG_MEMORY \in Nat
      /\ TagSize + MemorySize + MemoryEntrySize * Len(mmap) \in Nat
  BY <1>1 DEF MBI2_TAG_MEMORY, TagSize, MemorySize, MemoryEntrySize
<1>3. AddMbi1Memmap(b, mmap)
        = AddTag(b, MBI2_TAG_MEMORY, TagSize + MemorySize + MemoryEntrySize * Len(mmap),
                 MapPayload(mmap))
  BY DEF AddMbi1Memmap, MapPayload
<1> QED
  BY <1>1, <1>2, <1>3, AddTagPacked

LEMMA RsdpPacked ==
  ASSUME NEW b, Packed(b), NEW r \in TableSet
  PROVE  Packed(AddRsdp(b, r)) /\ Grows(b, AddRsdp(b, r))
<1>1. <<RsdpBlob(r)>> \in Seq(Blobs) /\ RsdpBlob(r).size \in Nat
  BY RsdpPayload, PlainIsBlobs
<1> DEFINE type == IF r.rev = 1 THEN MBI2_TAG_RSDP_V1 ELSE MBI2_TAG_RSDP_V2
<1>2. type \in Nat /\ TagSize + RsdpBlob(r).size \in Nat
  BY <1>1 DEF MBI2_TAG_RSDP_V1, MBI2_TAG_RSDP_V2, TagSize
<1> HIDE DEF type
<1>3. AddRsdp(b, r) = AddTag(b, type, TagSize + RsdpBlob(r).size, <<RsdpBlob(r)>>)
  BY DEF AddRsdp, type
<1> QED
  BY <1>1, <1>2, <1>3, AddTagPacked

(* mbi2_finish writes total_size over the place that was kept for it. *)
LEMMA FinishedPacked ==
  ASSUME NEW b, Packed(b), b.start \in DOMAIN b.mem, b.mem[b.start].size = 8
  PROVE  LET c == BuilderFinished(b)
         IN  /\ Packed(c) /\ c.start = b.start /\ c.end = b.end
             /\ c.start \in DOMAIN c.mem /\ c.mem[c.start].size = 8
<1> DEFINE c == AddTag(b, MBI2_TAG_END, TagSize, <<>>)
           f == BuilderFinished(b)
           x == InfoBlob(c.cur - c.start)
<1>1. Packed(c) /\ Grows(b, c)
  <2>1. MBI2_TAG_END \in Nat /\ TagSize \in Nat /\ <<>> \in Seq(Blobs)
    BY DEF MBI2_TAG_END, TagSize
  <2> QED
    BY <2>1, AddTagPacked
<1>2. f = IF c.ok THEN [c EXCEPT !.mem = [@ EXCEPT ![c.start] = x]] ELSE c
  BY DEF BuilderFinished
<1>3. c.start = b.start /\ c.end = b.end /\ c.start \in DOMAIN c.mem /\ c.mem[c.start].size = 8
  BY <1>1 DEF Grows
<1>4. c \in Builders /\ c.mem \in Memories /\ c.cur - c.start \in Nat
  BY <1>1 DEF Packed, Builders
<1>5. x \in Blobs /\ x.size = 8
  <2>1. x \in PlainBlobs
    BY <1>4 DEF PlainBlobs
  <2> QED
    BY <2>1 DEF Blobs, InfoBlob, BootInfoSize
<1> HIDE DEF x, c, f
<1>6. CASE ~c.ok
  <2>1. f = c
    BY <1>2, <1>6
  <2> QED
    BY <1>1, <1>3, <2>1 DEF f
<1>7. CASE c.ok
  <2> DEFINE w == [c.mem EXCEPT ![c.start] = x]
  <2>1. /\ DOMAIN w = DOMAIN c.mem /\ w[c.start] = x
        /\ \A a \in DOMAIN c.mem : a # c.start => w[a] = c.mem[a]
    BY <1>3
  <2>2. w \in Memories
    <3>1. DOMAIN c.mem \subseteq Nat /\ \A a \in DOMAIN c.mem : c.mem[a] \in Blobs
      BY <1>4, MemoryFields
    <3>2. w = [a \in DOMAIN c.mem |-> IF a = c.start THEN x ELSE c.mem[a]]
      <4>1. PICK D \in SUBSET Nat : c.mem \in [D -> Blobs]
        BY <1>4 DEF Memories
      <4>2. DOMAIN c.mem = D
        BY <4>1
      <4> QED
        BY <4>1, <4>2
    <3>3. w \in [DOMAIN c.mem -> Blobs]
      BY <1>5, <3>1, <3>2
    <3> HIDE DEF w
    <3> QED
      BY <3>1, <3>3 DEF Memories
  <2> HIDE DEF w
  <2>3. /\ f \in Builders /\ f.start = c.start /\ f.end = c.end /\ f.cur = c.cur /\ f.mem = w
    <3>1. f = [c EXCEPT !.mem = w]
      BY <1>2, <1>7 DEF w
    <3> QED
      BY <1>4, <2>2, <3>1 DEF Builders
  <2>4. \A a \in DOMAIN w : w[a].size = c.mem[a].size
    BY <1>3, <1>5, <2>1
  <2>5. Packed(f)
    BY <1>1, <2>1, <2>3, <2>4 DEF Packed
  <2> QED
    BY <1>3, <1>5, <2>1, <2>3, <2>5 DEF f
<1> QED
  BY <1>6, <1>7

LEMMA TableType == ASSUME RsdpInv, done, ret # Null PROVE memory[ret].table \in TableSet
<1>1. ret \in 0 .. End
  BY RangesType, RsdpAssumption, SMTT(40) DEF RsdpInv, InRange
<1>2. memory[ret] \in Paragraph
  BY <1>1, RsdpAssumption DEF RsdpInv
<1> QED
  BY <1>2 DEF Paragraph, TableSet

LEMMA BldInvNext == RsdpInv /\ InputInv /\ BldInv /\ [Next]_vars => BldInv'
<1> SUFFICES ASSUME RsdpInv, InputInv, BldInv, [Next]_vars PROVE BldInv'
  OBVIOUS
<1>0. Packed(bld)
  BY DEF BldInv
<1>i. /\ mbi.cmdline \in String /\ mbi.mmap \in Seq(EntrySet)
      /\ mbi.mods \in Seq(ModuleSet) /\ mod_index \in Nat
  BY DEF InputInv
<1>1. CASE NoModule \/ PopModule
  BY <1>1 DEF NoModule, PopModule, BldInv, Before
<1>2. CASE Build
  <2>1. bld' = BuilderAt(area.phys_addr, area.length) /\ ~Before(pc')
        /\ (pc' = "halted" \/ bld'.ok) /\ area' = area
    BY <1>2, GoOnTo DEF Build, Before, input
  <2>2. /\ Packed(bld') /\ bld'.start = area.phys_addr
        /\ bld'.end = area.phys_addr + area.length
        /\ bld'.ok => DOMAIN bld'.mem = {area.phys_addr}
                      /\ bld'.mem[area.phys_addr] = InfoBlob(0)
    BY <2>1, BuildPacked DEF InputInv
  <2> QED
    BY <2>1, <2>2 DEF BldInv, InfoBlob, BootInfoSize
<1>3. CASE ConvertCmdline
  <2>1. Packed(AddBootCmdline(bld, mbi.cmdline)) /\ Grows(bld, AddBootCmdline(bld, mbi.cmdline))
    BY <1>0, <1>i, CmdlinePacked
  <2>2. /\ bld' = bld \/ bld' = AddBootCmdline(bld, mbi.cmdline)
        /\ pc = "cmdline" /\ ~Before(pc') /\ (pc' = "halted" \/ bld'.ok) /\ area' = area
    BY <1>3, GoOnTo DEF ConvertCmdline, Before, input
  <2> QED
    BY <2>1, <2>2, BldInvTag DEF Before
<1>4. CASE ConvertMemmap
  <2>1. Packed(AddMbi1Memmap(bld, mbi.mmap)) /\ Grows(bld, AddMbi1Memmap(bld, mbi.mmap))
    BY <1>0, <1>i, MmapPacked
  <2>2. /\ bld' = bld \/ bld' = AddMbi1Memmap(bld, mbi.mmap)
        /\ pc = "mem" /\ ~Before(pc') /\ (pc' = "halted" \/ bld'.ok) /\ area' = area
    BY <1>4, GoOnTo DEF ConvertMemmap, Before, input
  <2> QED
    BY <2>1, <2>2, BldInvTag DEF Before
<1>5. CASE ConvertModule
  <2>0. mbi.mods[mod_index + 1] \in ModuleSet
    BY <1>5, <1>i DEF ConvertModule
  <2>1. /\ Packed(AddModule(bld, mbi.mods[mod_index + 1]))
        /\ Grows(bld, AddModule(bld, mbi.mods[mod_index + 1]))
    BY <1>0, <2>0, ModulePacked
  <2>2. /\ bld' = AddModule(bld, mbi.mods[mod_index + 1])
        /\ pc = "mods" /\ ~Before(pc') /\ (pc' = "halted" \/ bld'.ok) /\ area' = area
    BY <1>5, GoOnTo DEF ConvertModule, Before, input
  <2> QED
    BY <2>1, <2>2, BldInvTag DEF Before
<1>6. CASE ConvertRsdp
  <2>1. /\ bld' = bld \/ (ret # Null /\ bld' = AddRsdp(bld, memory[ret].table))
        /\ pc = "mods" /\ ~Before(pc') /\ (pc' = "halted" \/ bld'.ok) /\ area' = area /\ done
    BY <1>6, GoOnTo DEF ConvertRsdp, Before, input
  <2>2. bld' = bld \/ (Packed(bld') /\ Grows(bld, bld'))
    BY <1>0, <2>1, TableType, RsdpPacked
  <2> QED
    BY <2>1, <2>2, BldInvTag DEF Before
<1>7. CASE Finish
  <2>1. /\ bld' = BuilderFinished(bld)
        /\ pc = "finish" /\ ~Before(pc') /\ (pc' = "halted" \/ bld'.ok) /\ area' = area
    BY <1>7, GoOnTo DEF Finish, Before, input
  <2>2. /\ Packed(bld') /\ bld'.start = bld.start /\ bld'.end = bld.end
        /\ bld'.start \in DOMAIN bld'.mem /\ bld'.mem[bld'.start].size = 8
    BY <2>1, FinishedPacked DEF BldInv, Before
  <2> QED
    BY <2>1, <2>2 DEF BldInv, Before
<1>8. CASE SearchRsdp \/ KernelStart \/ ReadCmdline \/ ReadModule \/ ReadMemoryMap \/ ReadEntry
           \/ LastEntryRead \/ ReadOther
  <2>1. /\ bld' = bld /\ area' = area /\ ~Before(pc) /\ pc # "halted"
        /\ ~Before(pc') /\ pc' # "halted"
    BY <1>8 DEF SearchRsdp, KernelStart, ReadCmdline, ReadModule, ReadMemoryMap, ReadEntry,
       LastEntryRead, ReadOther, GoToNextTag, input, Before
  <2>2. bld'.ok
    BY <2>1 DEF BldInv
  <2> QED
    BY <2>1, <2>2, BldInvTag
<1>9. CASE UNCHANGED vars
  BY <1>9 DEF vars, BldInv
<1> QED
  BY <1>1, <1>2, <1>3, <1>4, <1>5, <1>6, <1>7, <1>8, <1>9 DEF Next, Step

LEMMA Mbi2InvHolds == Spec => [](RsdpInv /\ InputInv /\ BldInv)
<1>1. Init => RsdpInv
  BY RsdpInvStart DEF Init
<1> QED
  BY <1>1, RsdpInvNext, InputInvInit, InputInvNext, BldInvInit, BldInvNext, PTL DEF Spec

(* The structure stays inside the memory that was set aside for it, and no *)
(* part of it overwrites another, whatever there is to be converted.       *)
THEOREM BuiltInsideAreaHolds == Spec => []BuiltInsideArea
<1>1. InputInv /\ BldInv => BuiltInsideArea
  <2> SUFFICES ASSUME InputInv, BldInv PROVE BuiltInsideArea
    OBVIOUS
  <2>1. bld.mem \in Memories /\ bld.start \in Nat /\ bld.cur \in Nat /\ bld.end \in Nat
    BY DEF BldInv, Packed, Builders
  <2>2. \A a \in DOMAIN bld.mem : a \in Nat /\ bld.mem[a].size \in Nat
    BY <2>1, MemoryFields, BlobSize
  <2>3. ASSUME NEW a \in DOMAIN bld.mem
        PROVE  Extent(a) \subseteq area.phys_addr .. area.phys_addr + area.length - 1
    <3>1. bld.start = area.phys_addr /\ bld.end = area.phys_addr + area.length
      BY DEF BldInv
    <3>2. bld.start <= a /\ a + bld.mem[a].size <= bld.cur /\ bld.cur <= bld.end
      BY DEF BldInv, Packed
    <3> QED
      BY <2>1, <2>2, <3>1, <3>2, SMTT(40) DEF Extent, InputInv
  <2>4. ASSUME NEW a \in DOMAIN bld.mem, NEW c \in DOMAIN bld.mem, a # c
        PROVE  Extent(a) \cap Extent(c) = {}
    <3>1. (a < c /\ a + bld.mem[a].size <= c) \/ (c < a /\ c + bld.mem[c].size <= a)
      BY <2>2, <2>4 DEF BldInv, Packed
    <3> QED
      BY <2>2, <3>1 DEF Extent
  <2> QED
    BY <2>3, <2>4 DEF BuiltInsideArea
<1> QED
  BY <1>1, Mbi2InvHolds, PTL

-----------------------------------------------------------------------------
(* How the structure is laid out.                                          *)

Tags(mem) == { a \in DOMAIN mem : "type" \in DOMAIN mem[a] }

(* There is a blob for every byte. *)
Covered(mem, lo, hi) ==
  \A x \in lo .. hi - 1 : \E a \in DOMAIN mem : lo <= a /\ a <= x /\ x < a + mem[a].size

(* The tag at a is a header and the blobs its size covers. *)
Complete(mem, a) ==
  /\ a % 8 = 0
  /\ mem[a] \in TagBlobs /\ 8 <= mem[a].tag_size
  /\ Covered(mem, a, a + mem[a].tag_size)
  /\ \A d \in DOMAIN mem :
       a < d => \/ d \notin Tags(mem) /\ d + mem[d].size <= a + mem[a].tag_size
                \/ TagAfter(mem, a) <= d

(* Every tag of b is complete, and has a neighbour or is the last one. *)
Laid(b) ==
  /\ b.start % 8 = 0
  /\ b.start \in DOMAIN b.mem /\ b.start \notin Tags(b.mem) /\ b.mem[b.start].size = 8
  /\ \A a \in Tags(b.mem) :
       /\ Complete(b.mem, a)
       /\ a + b.mem[a].tag_size <= b.cur
       /\ TagAfter(b.mem, a) \in Tags(b.mem) \/ TagAfter(b.mem, a) = AlignUp(b.cur, 8)
  /\ TagFirst(b.start) \in Tags(b.mem) \/ b.cur = TagFirst(b.start)

(* c is b with a tag at A, which is being filled. *)
Filling(b, c, A, type, n) ==
  /\ Packed(c) /\ c.ok /\ Grows(b, c)
  /\ A + 8 <= c.cur
  /\ A \in DOMAIN c.mem /\ c.mem[A] = TagBlob(type, n)
  /\ \A a \in DOMAIN c.mem : a < A => a \in DOMAIN b.mem /\ c.mem[a] = b.mem[a]
  /\ \A a \in DOMAIN b.mem : a < A => a \in DOMAIN c.mem
  /\ \A a \in DOMAIN c.mem : A < a => a \notin Tags(c.mem)
  /\ Covered(c.mem, A, c.cur)

LEMMA PackedFields ==
  ASSUME NEW b, Packed(b)
  PROVE  /\ b \in Builders /\ b.start \in Nat /\ b.cur \in Nat /\ b.end \in Nat
         /\ b.mem \in Memories
         /\ \A a \in DOMAIN b.mem : /\ a \in Nat /\ b.mem[a].size \in Nat
                                    /\ b.mem[a] \in Blobs
                                    /\ a + b.mem[a].size <= b.cur
<1>1. /\ b \in Builders /\ b.start \in Nat /\ b.cur \in Nat /\ b.end \in Nat
      /\ b.mem \in Memories
  BY DEF Packed, Builders
<1> QED
  BY <1>1, MemoryFields, BlobSize DEF Packed

(* The blob that AddBlob has written, if it has not failed. *)
LEMMA AddBlobOk ==
  ASSUME NEW b, Packed(b), NEW align \in {1, 8}, NEW x \in Blobs,
         AddBlob(b, align, x).ok
  PROVE  LET c == AddBlob(b, align, x)
             at == AlignUp(b.cur, align)
         IN  /\ b.ok /\ Packed(c) /\ Grows(b, c)
             /\ c.cur = at + x.size
             /\ DOMAIN c.mem = DOMAIN b.mem \cup {at} /\ c.mem[at] = x
             /\ \A a \in DOMAIN b.mem : a # at => c.mem[a] = b.mem[a]
<1> DEFINE c == AddBlob(b, align, x)
           at == AlignUp(b.cur, align)
<1>0. b \in Builders /\ b.cur \in Nat /\ b.mem \in Memories /\ at \in Nat
  BY PackedFields, AlignBounds
<1>1. Fits(b, align, x)
  BY <1>0, AddBlobFails
<1>2. c.cur = at + x.size /\ c.mem = Written(b.mem, at, x)
  BY <1>0, <1>1, AddBlobFits
<1>3. Packed(c) /\ Grows(b, c)
  BY AddBlobPacked
<1> HIDE DEF c, at
<1>4. LET w == Written(b.mem, at, x)
      IN  /\ DOMAIN w = DOMAIN b.mem \cup {at} /\ w[at] = x
          /\ \A a \in DOMAIN b.mem : a # at => w[a] = b.mem[a]
  BY DEF Written
<1> QED
  BY <1>1, <1>2, <1>3, <1>4 DEF Fits, c, at

LEMMA FillingStart ==
  ASSUME NEW b, Packed(b), NEW type \in Nat, NEW n \in Nat,
         AddBlob(b, 8, TagBlob(type, n)).ok
  PROVE  LET c == AddBlob(b, 8, TagBlob(type, n))
             A == AlignUp(b.cur, 8)
         IN  b.ok /\ Filling(b, c, A, type, n) /\ c.cur = A + 8
<1> DEFINE x == TagBlob(type, n)
           c == AddBlob(b, 8, x)
<1>1. PICK A \in Nat : A = AlignUp(b.cur, 8) /\ b.cur <= A
  BY PackedFields, AlignEight
<1>2. x \in Blobs /\ x.size = 8
  BY TagIsBlob, TagFields
<1> HIDE DEF x
<1>3. /\ b.ok /\ Packed(c) /\ Grows(b, c) /\ c.ok
      /\ c.cur = A + 8
      /\ DOMAIN c.mem = DOMAIN b.mem \cup {A} /\ c.mem[A] = x
      /\ \A a \in DOMAIN b.mem : a # A => c.mem[a] = b.mem[a]
  BY <1>1, <1>2, AddBlobOk DEF x
<1> HIDE DEF c
<1>4. \A a \in DOMAIN b.mem : a \in Nat /\ a <= b.cur /\ b.cur \in Nat
  BY PackedFields
<1>5. \A a \in DOMAIN c.mem : A < a => a \notin Tags(c.mem)
  BY <1>1, <1>3, <1>4
<1>6. Covered(c.mem, A, c.cur)
  <2> SUFFICES ASSUME NEW y \in A .. A + 8 - 1
               PROVE  \E a \in DOMAIN c.mem : A <= a /\ a <= y /\ y < a + c.mem[a].size
    BY <1>3 DEF Covered
  <2>1. A \in DOMAIN c.mem /\ A <= A /\ A <= y /\ y < A + c.mem[A].size
    BY <1>1, <1>2, <1>3
  <2> QED
    BY <2>1
<1>7. \A a \in DOMAIN c.mem : a < A => a \in DOMAIN b.mem /\ c.mem[a] = b.mem[a]
  BY <1>1, <1>3
<1>8. \A a \in DOMAIN b.mem : a < A => a \in DOMAIN c.mem
  BY <1>3
<1>9. A + 8 <= c.cur
  BY <1>3
<1>10. Filling(b, c, A, type, n)
  BY <1>3, <1>5, <1>6, <1>7, <1>8, <1>9 DEF Filling, x
<1> QED
  BY <1>1, <1>3, <1>10 DEF c, x

LEMMA FillingStep ==
  ASSUME NEW b, NEW d, NEW A \in Nat, NEW type, NEW n,
         Packed(d), d.ok => Filling(b, d, A, type, n),
         NEW x \in PlainBlobs, AddBlob(d, 1, x).ok
  PROVE  LET c == AddBlob(d, 1, x)
         IN  d.ok /\ Filling(b, c, A, type, n) /\ c.cur = d.cur + x.size
<1> DEFINE c == AddBlob(d, 1, x)
<1>1. x \in Blobs /\ x.size \in Nat /\ "type" \notin DOMAIN x
  BY PlainFields DEF Blobs
<1>2. PICK at \in Nat : at = d.cur
  BY PackedFields
<1>3. /\ d.ok /\ Packed(c) /\ Grows(d, c) /\ c.ok
      /\ c.cur = at + x.size
      /\ DOMAIN c.mem = DOMAIN d.mem \cup {at} /\ c.mem[at] = x
      /\ \A a \in DOMAIN d.mem : a # at => c.mem[a] = d.mem[a]
  BY <1>1, <1>2, AddBlobOk, AlignOne
<1> HIDE DEF c
<1>4. Filling(b, d, A, type, n)
  BY <1>3
<1>5. A + 8 <= at
  BY <1>2, <1>4 DEF Filling
<1>6. \A a \in DOMAIN d.mem : a \in Nat /\ d.mem[a].size \in Nat /\ a + d.mem[a].size <= at
  BY <1>2, PackedFields
<1>7. A \in DOMAIN c.mem /\ c.mem[A] = TagBlob(type, n)
  BY <1>3, <1>4, <1>5 DEF Filling
<1>8. \A a \in DOMAIN c.mem : a < A => a \in DOMAIN b.mem /\ c.mem[a] = b.mem[a]
  BY <1>3, <1>4, <1>5 DEF Filling
<1>9. \A a \in DOMAIN b.mem : a < A => a \in DOMAIN c.mem
  BY <1>3, <1>4 DEF Filling
<1>10. ASSUME NEW a \in DOMAIN c.mem, A < a PROVE a \notin Tags(c.mem)
  <2>1. CASE a = at
    BY <1>1, <1>3, <2>1 DEF Tags
  <2>2. CASE a # at
    BY <1>3, <1>4, <1>10, <2>2 DEF Filling, Tags
  <2> QED
    BY <2>1, <2>2
<1>11. Covered(c.mem, A, c.cur)
  <2> SUFFICES ASSUME NEW y \in A .. c.cur - 1
               PROVE  \E a \in DOMAIN c.mem : A <= a /\ a <= y /\ y < a + c.mem[a].size
    BY DEF Covered
  <2>0. y \in Nat /\ A <= y /\ y < at + x.size
    BY <1>1, <1>3
  <2>1. CASE y >= at
    <3>1. at \in DOMAIN c.mem /\ A <= at /\ at <= y /\ y < at + c.mem[at].size
      BY <1>3, <1>5, <2>0, <2>1
    <3> QED
      BY <3>1
  <2>2. CASE y < at
    <3>1. Covered(d.mem, A, at) /\ y \in A .. at - 1
      BY <1>2, <1>4, <2>0, <2>2 DEF Filling
    <3>2. PICK a \in DOMAIN d.mem : A <= a /\ a <= y /\ y < a + d.mem[a].size
      BY <3>1 DEF Covered
    <3>3. a # at
      BY <1>6, <2>0, <2>2, <3>2
    <3> QED
      BY <1>3, <3>2, <3>3
  <2> QED
    BY <2>0, <2>1, <2>2
<1>12. A + 8 <= c.cur
  BY <1>1, <1>3, <1>5
<1>13. Grows(b, c)
  BY <1>3, <1>4, GrowsTransitive DEF Filling
<1>14. Filling(b, c, A, type, n)
  BY <1>3, <1>7, <1>8, <1>9, <1>10, <1>11, <1>12, <1>13 DEF Filling
<1> QED
  BY <1>2, <1>3, <1>14 DEF c

(* The size of a tag with this payload. *)
AddsUp(payload, n) ==
  \E s \in [0 .. Len(payload) -> Nat] :
    /\ s[0] = 8 /\ s[Len(payload)] = n
    /\ \A k \in 1 .. Len(payload) : s[k] = s[k - 1] + payload[k].size

LEMMA AddTagFilled ==
  ASSUME NEW b, Packed(b), NEW type \in Nat, NEW n \in Nat, NEW payload \in Seq(PlainBlobs),
         AddsUp(payload, n), AddTag(b, type, n, payload).ok
  PROVE  LET c == AddTag(b, type, n, payload)
             A == AlignUp(b.cur, 8)
         IN  b.ok /\ Filling(b, c, A, type, n) /\ c.cur = A + n
<1>m. PICK m \in Nat : m = Len(payload)
  OBVIOUS
<1>A. PICK A \in Nat : A = AlignUp(b.cur, 8)
  BY PackedFields, AlignEight
<1>p. payload \in Seq(Blobs) /\ b \in Builders
  BY PlainIsBlobs, PackedFields
<1>1. PICK h : Adds(h, b, type, n, payload, AddTag(b, type, n, payload))
  BY <1>p, AddTagSteps
<1>2. PICK s \in [0 .. m -> Nat] : /\ s[0] = 8 /\ s[m] = n
                                   /\ \A k \in 1 .. m : s[k] = s[k - 1] + payload[k].size
  BY <1>m DEF AddsUp
<1>3. /\ h[0] = AddBlob(b, 8, TagBlob(type, n))
      /\ \A k \in 1 .. m : h[k] = AddBlob(h[k - 1], 1, payload[k])
      /\ AddTag(b, type, n, payload) = h[m]
  BY <1>m, <1>1 DEF Adds
<1> DEFINE T == { k \in 0 .. m : /\ Packed(h[k])
                                 /\ h[k].ok => /\ b.ok /\ Filling(b, h[k], A, type, n)
                                               /\ h[k].cur = A + s[k] }
<1>4. 0 \in T
  <2>1. TagBlob(type, n) \in Blobs
    BY TagIsBlob
  <2>2. Packed(h[0])
    BY <1>3, <2>1, AddBlobPacked
  <2>3. h[0].ok => b.ok /\ Filling(b, h[0], A, type, n) /\ h[0].cur = A + s[0]
    BY <1>A, <1>2, <1>3, FillingStart
  <2> QED
    BY <2>2, <2>3
<1>5. ASSUME NEW k \in 0 .. m - 1, k \in T PROVE k + 1 \in T
  <2>1. k + 1 \in 1 .. m /\ (k + 1) - 1 = k /\ payload[k + 1] \in PlainBlobs /\ payload[k + 1] \in Blobs
    BY <1>m, <1>p
  <2>2. h[k + 1] = AddBlob(h[k], 1, payload[k + 1])
    BY <1>3, <2>1
  <2>3. /\ Packed(h[k])
        /\ h[k].ok => b.ok /\ Filling(b, h[k], A, type, n) /\ h[k].cur = A + s[k]
    BY <1>5
  <2>4. Packed(h[k + 1])
    BY <2>1, <2>2, <2>3, AddBlobPacked
  <2>5. ASSUME h[k + 1].ok
        PROVE  b.ok /\ Filling(b, h[k + 1], A, type, n) /\ h[k + 1].cur = A + s[k + 1]
    <3>1. /\ h[k].ok /\ Filling(b, h[k + 1], A, type, n)
          /\ h[k + 1].cur = h[k].cur + payload[k + 1].size
      <4>0. PICK d : d = h[k]
        OBVIOUS
      <4>1. PICK x \in PlainBlobs : x = payload[k + 1]
        BY <2>1
      <4>2. AddBlob(d, 1, x).ok /\ Packed(d) /\ (d.ok => Filling(b, d, A, type, n))
        BY <2>2, <2>3, <2>5, <4>0, <4>1
      <4>3. LET c == AddBlob(d, 1, x)
            IN  d.ok /\ Filling(b, c, A, type, n) /\ c.cur = d.cur + x.size
        BY <4>2, FillingStep, ZenonT(40)
      <4> QED
        BY <2>2, <4>0, <4>1, <4>3
    <3>2. s[k + 1] = s[k] + payload[k + 1].size /\ s[k] \in Nat
      BY <1>2, <2>1
    <3>3. payload[k + 1].size \in Nat
      BY <2>1, BlobSize
    <3> QED
      BY <2>3, <3>1, <3>2, <3>3, SMTT(40)
  <2> QED
    BY <2>1, <2>4, <2>5
<1>6. \A k \in 0 .. m : k \in T
  <2> HIDE DEF T
  <2> QED
    BY <1>4, <1>5, InductionUpTo
<1>7. m \in T
  BY <1>6
<1> QED
  BY <1>A, <1>2, <1>3, <1>7

LEMMA AlignSum ==
  ASSUME NEW a \in Nat, a % 8 = 0, NEW n \in Nat
  PROVE  AlignUp(a + n, 8) = a + AlignUp(n, 8)
BY DEF AlignUp

(* The tags are the blobs of one kind. *)
LEMMA TagsType ==
  ASSUME NEW m \in Memories, NEW a \in Tags(m)
  PROVE  /\ a \in Nat /\ a \in DOMAIN m
         /\ m[a] \in TagBlobs /\ m[a].size = 8 /\ m[a].type \in Nat /\ m[a].tag_size \in Nat
<1>1. a \in DOMAIN m /\ a \in Nat /\ m[a] \in Blobs /\ "type" \in DOMAIN m[a]
  BY MemoryFields DEF Tags
<1>2. m[a] \in TagBlobs
  BY <1>1, PlainFields DEF Blobs
<1> QED
  BY <1>1, <1>2, TagFields

(* c is b with one more tag, at A. *)
MoreBy(b, c, A, type, n) ==
  /\ Packed(c) /\ c.ok /\ Laid(c) /\ Grows(b, c)
  /\ A \in Nat /\ n \in Nat /\ A = AlignUp(b.cur, 8) /\ c.cur = A + n
  /\ Tags(c.mem) = Tags(b.mem) \cup {A} /\ c.mem[A] = TagBlob(type, n)
  /\ \A a \in Tags(b.mem) : a < A /\ c.mem[a] = b.mem[a]

(* One more tag. *)
LEMMA LaidTag ==
  ASSUME NEW b, NEW c, Packed(b), Laid(b), NEW A \in Nat, A = AlignUp(b.cur, 8),
         NEW type \in Nat, NEW n \in Nat, Filling(b, c, A, type, n), c.cur = A + n
  PROVE  MoreBy(b, c, A, type, n)
<1>b. /\ b.start \in Nat /\ b.cur \in Nat /\ b.mem \in Memories
      /\ \A a \in DOMAIN b.mem : a \in Nat /\ b.mem[a].size \in Nat
                                 /\ a + b.mem[a].size <= b.cur
  BY PackedFields
<1>c. /\ c.start = b.start /\ c.cur \in Nat /\ c.mem \in Memories
      /\ \A a \in DOMAIN c.mem : a \in Nat /\ c.mem[a].size \in Nat
                                 /\ a + c.mem[a].size <= c.cur
  BY PackedFields DEF Filling, Grows
<1>1. 8 <= n
  BY <1>c DEF Filling
<1>2. A % 8 = 0 /\ b.cur <= A
  BY <1>b, AlignEight
<1>x. TagBlob(type, n) \in TagBlobs /\ TagBlob(type, n).tag_size = n
      /\ "type" \in DOMAIN TagBlob(type, n)
  BY TagIsBlob, TagFields DEF TagBlob
<1>3. ASSUME NEW a \in Tags(b.mem)
      PROVE  /\ a \in Nat /\ a + 8 <= b.cur /\ a < A /\ a \in DOMAIN c.mem
             /\ c.mem[a] = b.mem[a] /\ a \in Tags(c.mem)
  <2>1. a \in Nat /\ a \in DOMAIN b.mem /\ b.mem[a].size = 8
    BY <1>b, TagsType
  <2>2. a + 8 <= b.cur
    BY <1>b, <2>1
  <2>3. a < A
    BY <1>b, <1>2, <2>1, <2>2
  <2>4. a \in DOMAIN c.mem /\ c.mem[a] = b.mem[a]
    BY <2>1, <2>3 DEF Filling
  <2> QED
    BY <2>1, <2>2, <2>3, <2>4 DEF Tags
<1>4. Tags(c.mem) = Tags(b.mem) \cup {A}
  <2>1. A \in Tags(c.mem)
    BY <1>x DEF Filling, Tags
  <2>2. ASSUME NEW a \in Tags(c.mem), a # A PROVE a \in Tags(b.mem)
    <3>1. a \in DOMAIN c.mem /\ a \in Nat
      BY <1>c DEF Tags
    <3>2. a < A
      BY <2>2, <3>1 DEF Filling
    <3> QED
      BY <2>2, <3>1, <3>2 DEF Filling, Tags
  <2> QED
    BY <1>3, <2>1, <2>2
<1>5. ASSUME NEW a \in Tags(b.mem)
      PROVE  TagAfter(c.mem, a) = TagAfter(b.mem, a) /\ TagAfter(b.mem, a) <= A
             /\ TagAfter(c.mem, a) \in Tags(c.mem)
  <2>1. TagAfter(c.mem, a) = TagAfter(b.mem, a)
    BY <1>3 DEF TagAfter
  <2>2. CASE TagAfter(b.mem, a) \in Tags(b.mem)
    BY <1>3, <1>4, <2>1, <2>2
  <2>3. CASE TagAfter(b.mem, a) = A
    BY <1>4, <2>1, <2>3
  <2> QED
    BY <2>2, <2>3 DEF Laid
<1>6. ASSUME NEW a \in Tags(b.mem)
      PROVE  Complete(c.mem, a) /\ a + c.mem[a].tag_size <= c.cur
  <2>0. Complete(b.mem, a) /\ a + b.mem[a].tag_size <= b.cur
    BY DEF Laid
  <2>1. a \in Nat /\ c.mem[a] = b.mem[a] /\ b.mem[a].tag_size \in Nat
    BY <1>b, <1>3, TagsType
  <2>n. PICK n0 \in Nat : n0 = b.mem[a].tag_size
    BY <2>1
  <2>2. a + n0 <= A
    BY <1>b, <1>2, <2>0, <2>1, <2>n
  <2>3. Covered(c.mem, a, a + n0)
    <3>h. PICK hi \in Nat : hi = a + n0
      BY <2>1, <2>n
    <3>0. Covered(b.mem, a, hi)
      BY <2>0, <2>n, <3>h DEF Complete
    <3> SUFFICES ASSUME NEW y \in a .. hi - 1
                 PROVE  \E d \in DOMAIN c.mem : a <= d /\ d <= y /\ y < d + c.mem[d].size
      BY <3>h DEF Covered
    <3>1. PICK d \in DOMAIN b.mem : a <= d /\ d <= y /\ y < d + b.mem[d].size
      BY <3>0 DEF Covered
    <3>2. d < A
      BY <1>b, <2>1, <2>2, <3>1, <3>h
    <3>3. d \in DOMAIN c.mem /\ c.mem[d] = b.mem[d]
      BY <3>2 DEF Filling
    <3> QED
      BY <3>1, <3>3
  <2>4. ASSUME NEW d \in DOMAIN c.mem, a < d
        PROVE  \/ d \notin Tags(c.mem) /\ d + c.mem[d].size <= a + n0
               \/ TagAfter(c.mem, a) <= d
    <3>1. CASE d < A
      <4>1. d \in DOMAIN b.mem /\ c.mem[d] = b.mem[d]
        BY <3>1 DEF Filling
      <4>2. \/ d \notin Tags(b.mem) /\ d + b.mem[d].size <= a + n0
            \/ TagAfter(b.mem, a) <= d
        BY <2>0, <2>n, <2>4, <4>1 DEF Complete
      <4>3. d # A
        BY <1>c, <3>1
      <4> QED
        BY <1>4, <1>5, <4>1, <4>2, <4>3
    <3>2. CASE ~(d < A)
      <4>1. d \in Nat /\ A <= d
        BY <1>c, <3>2
      <4>2. TagAfter(b.mem, a) \in Nat
        <5>1. TagAfter(b.mem, a) = a + AlignUp(n0, 8)
          BY <2>n DEF TagAfter, TagSize
        <5> QED
          BY <2>1, <5>1, AlignEight, SMTT(40)
      <4> QED
        BY <1>5, <4>1, <4>2
    <3> QED
      BY <3>1, <3>2
  <2>5. Complete(c.mem, a)
    BY <2>0, <2>1, <2>n, <2>3, <2>4 DEF Complete
  <2>6. a + c.mem[a].tag_size <= c.cur
    BY <1>1, <2>1, <2>n, <2>2
  <2> QED
    BY <2>5, <2>6
<1>7. Complete(c.mem, A) /\ A + c.mem[A].tag_size <= c.cur
      /\ TagAfter(c.mem, A) = AlignUp(c.cur, 8)
  <2>1. c.mem[A] = TagBlob(type, n) /\ c.mem[A].tag_size = n
    BY <1>x DEF Filling
  <2>2. Covered(c.mem, A, A + n)
    BY DEF Filling
  <2>3. \A d \in DOMAIN c.mem : A < d => d \notin Tags(c.mem) /\ d + c.mem[d].size <= A + n
    BY <1>c DEF Filling
  <2>4. Complete(c.mem, A)
    BY <1>1, <1>2, <1>x, <2>1, <2>2, <2>3 DEF Complete
  <2>5. TagAfter(c.mem, A) = AlignUp(A + n, 8)
    BY <1>2, <2>1, AlignSum DEF TagAfter, TagSize
  <2> QED
    BY <2>1, <2>4, <2>5
<1>8. c.start \in DOMAIN c.mem /\ c.start \notin Tags(c.mem) /\ c.mem[c.start].size = 8
  <2>1. b.start \in DOMAIN b.mem /\ b.start \notin Tags(b.mem) /\ b.mem[b.start].size = 8
    BY DEF Laid
  <2>2. b.start \in DOMAIN c.mem /\ c.mem[b.start] = b.mem[b.start]
    BY <2>1 DEF Filling, Grows
  <2>3. b.start # A
    BY <1>b, <1>2, <2>1
  <2> QED
    BY <1>4, <1>c, <2>1, <2>2, <2>3
<1>9. TagFirst(c.start) \in Tags(c.mem)
  <2>1. CASE TagFirst(b.start) \in Tags(b.mem)
    BY <1>4, <1>c, <2>1
  <2>2. CASE b.cur = TagFirst(b.start)
    <3>1. b.cur = b.start + 8 /\ b.start % 8 = 0
      BY <2>2 DEF Laid, TagFirst, BootInfoSize
    <3>2. A = b.start + 8
      <4>1. (b.start + 8) % 8 = 0
        BY <1>b, <3>1
      <4>2. AlignUp(b.cur, 8) = b.cur
        BY <1>b, <3>1, <4>1 DEF AlignUp
      <4> QED
        BY <3>1, <4>2
    <3> QED
      BY <1>4, <1>c, <3>1, <3>2, <2>2
  <2> QED
    BY <2>1, <2>2 DEF Laid
<1>10. Laid(c)
  <2>1. \A a \in Tags(c.mem) :
          /\ Complete(c.mem, a) /\ a + c.mem[a].tag_size <= c.cur
          /\ TagAfter(c.mem, a) \in Tags(c.mem) \/ TagAfter(c.mem, a) = AlignUp(c.cur, 8)
    BY <1>4, <1>5, <1>6, <1>7
  <2> QED
    BY <1>8, <1>9, <1>c, <2>1 DEF Laid
<1>11. Packed(c) /\ c.ok /\ Grows(b, c) /\ c.mem[A] = TagBlob(type, n)
  BY DEF Filling
<1> QED
  BY <1>3, <1>4, <1>10, <1>11 DEF MoreBy

(* The sizes that the code counts are those of the payloads. *)
LEMMA OneAddsUp ==
  ASSUME NEW x \in PlainBlobs, NEW n \in Nat, n = 8 + x.size
  PROVE  AddsUp(<<x>>, n)
<1>1. x.size \in Nat /\ Len(<<x>>) = 1 /\ <<x>>[1] = x
  BY PlainFields
<1> DEFINE s == [k \in 0 .. 1 |-> IF k = 0 THEN 8 ELSE n]
<1>2. s \in [0 .. 1 -> Nat] /\ s[0] = 8 /\ s[1] = n
  BY <1>1
<1> HIDE DEF s
<1>3. \A k \in 1 .. 1 : k = 1 /\ k - 1 = 0
  OBVIOUS
<1>4. \A k \in 1 .. 1 : s[k] = s[k - 1] + <<x>>[k].size
  BY <1>1, <1>2, <1>3
<1> QED
  BY <1>1, <1>2, <1>4 DEF AddsUp

LEMMA TwoAddUp ==
  ASSUME NEW x \in PlainBlobs, NEW y \in PlainBlobs, NEW n \in Nat, n = 8 + x.size + y.size
  PROVE  AddsUp(<<x, y>>, n)
<1>1. x.size \in Nat /\ y.size \in Nat /\ Len(<<x, y>>) = 2 /\ <<x, y>>[1] = x /\ <<x, y>>[2] = y
  BY PlainFields
<1> DEFINE s == [k \in 0 .. 2 |-> IF k = 0 THEN 8 ELSE IF k = 1 THEN 8 + x.size ELSE n]
<1>2. s \in [0 .. 2 -> Nat] /\ s[0] = 8 /\ s[1] = 8 + x.size /\ s[2] = n
  BY <1>1
<1> HIDE DEF s
<1>3. \A k \in 1 .. 2 : (k = 1 /\ k - 1 = 0) \/ (k = 2 /\ k - 1 = 1)
  OBVIOUS
<1>4. s[1] = s[0] + <<x, y>>[1].size /\ s[2] = s[1] + <<x, y>>[2].size
  BY <1>1, <1>2
<1>5. \A k \in 1 .. 2 : s[k] = s[k - 1] + <<x, y>>[k].size
  BY <1>3, <1>4
<1> QED
  BY <1>1, <1>2, <1>5 DEF AddsUp

LEMMA NoneAddsUp == AddsUp(<<>>, 8)
<1> DEFINE s == [k \in 0 .. 0 |-> 8]
<1>1. s \in [0 .. 0 -> Nat] /\ s[0] = 8 /\ Len(<<>>) = 0
  OBVIOUS
<1> HIDE DEF s
<1>2. \A k \in 1 .. 0 : FALSE
  OBVIOUS
<1> QED
  BY <1>1, <1>2 DEF AddsUp

LEMMA MmapAddsUp ==
  ASSUME NEW mmap \in Seq(EntrySet)
  PROVE  AddsUp(MapPayload(mmap), 16 + 24 * Len(mmap))
<1>m. PICK m \in Nat : m = Len(mmap)
  OBVIOUS
<1> DEFINE p == MapPayload(mmap)
<1>1. /\ Len(p) = m + 1 /\ p[1].size = 8 /\ \A k \in 1 .. m : p[k + 1].size = 24
  <2>1. Len(p) = m + 1 /\ p[1] = MemoryBlob /\ \A k \in 1 .. m : p[k + 1] = EntryBlob(mmap[k])
    BY <1>m, MmapPayload
  <2>2. MemoryBlob.size = 8 /\ \A e : EntryBlob(e).size = 24
    BY DEF MemoryBlob, EntryBlob, MemorySize, MemoryEntrySize
  <2> QED
    BY <2>1, <2>2
<1> HIDE DEF p
<1> DEFINE s == [k \in 0 .. m + 1 |-> IF k = 0 THEN 8 ELSE 16 + 24 * (k - 1)]
<1>2. s \in [0 .. m + 1 -> Nat] /\ s[0] = 8 /\ \A k \in 1 .. m + 1 : s[k] = 16 + 24 * (k - 1)
  OBVIOUS
<1> HIDE DEF s
<1>3. s[m + 1] = 16 + 24 * m
  <2>1. m + 1 \in 1 .. m + 1 /\ (m + 1) - 1 = m
    OBVIOUS
  <2> QED
    BY <1>2, <2>1
<1>4. ASSUME NEW k \in 1 .. m + 1 PROVE s[k] = s[k - 1] + p[k].size
  <2>1. CASE k = 1
    <3>1. k - 1 = 0 /\ s[k] = 16
      BY <1>2, <2>1
    <3> QED
      BY <1>1, <1>2, <2>1, <3>1
  <2>2. CASE k # 1
    <3>1. PICK l \in 1 .. m : k = l + 1 /\ k - 1 = l
      <4>1. k - 1 \in 1 .. m /\ k = (k - 1) + 1
        BY <2>2
      <4> QED
        BY <4>1
    <3>2. s[k] = 16 + 24 * (k - 1)
      BY <1>2
    <3>3. s[l] = 16 + 24 * (l - 1)
      <4>1. l \in 1 .. m + 1
        OBVIOUS
      <4> QED
        BY <1>2, <4>1
    <3>4. p[k].size = 24
      BY <1>1, <3>1
    <3> QED
      BY <3>1, <3>2, <3>3, <3>4
  <2> QED
    BY <2>1, <2>2
<1>5. AddsUp(p, 16 + 24 * m)
  BY <1>1, <1>2, <1>3, <1>4 DEF AddsUp
<1> QED
  BY <1>m, <1>5 DEF p

LEMMA AddTagMore ==
  ASSUME NEW b, Packed(b), Laid(b), NEW type \in Nat, NEW n \in Nat,
         NEW payload \in Seq(PlainBlobs), AddsUp(payload, n),
         NEW c, c = AddTag(b, type, n, payload), c.ok
  PROVE  MoreBy(b, c, AlignUp(b.cur, 8), type, n)
<1>1. PICK A \in Nat : A = AlignUp(b.cur, 8)
  BY PackedFields, AlignEight
<1>2. Filling(b, c, A, type, n) /\ c.cur = A + n
  BY <1>1, AddTagFilled
<1> QED
  BY <1>1, <1>2, LaidTag

(* c is b with one more tag of a type that is not that of the end. *)
MoreTag(b, c) ==
  \E A \in Nat, n \in Nat, type \in Nat \ {MBI2_TAG_END} : MoreBy(b, c, A, type, n)

-----------------------------------------------------------------------------
(* What the structure tells.                                               *)

(* What a kernel prints of a tag. *)
Item ==
  ({"cmdline", "module"} \X STRING) \cup ({"entry"} \X EntrySet) \cup ({"unknown"} \X Nat)

LEMMA ItemsThere ==
  /\ \A s \in STRING : <<"cmdline", s>> \in Item /\ <<"module", s>> \in Item
  /\ \A e \in EntrySet : <<"entry", e>> \in Item
  /\ \A n \in Nat : <<"unknown", n>> \in Item
BY DEF Item

LEMMA OneItem ==
  ASSUME NEW x \in Item
  PROVE  <<x>> \in Seq(Item) /\ Len(<<x>>) = 1 /\ <<x>>[1] = x /\ <<x>> # <<>>
<1> DEFINE S == Item
<1>1. x \in S
  OBVIOUS
<1> HIDE DEF S
<1>2. <<x>> \in Seq(S) /\ Len(<<x>>) = 1 /\ <<x>>[1] = x /\ <<x>> # <<>>
  BY <1>1
<1> QED
  BY <1>2 DEF S

Associative(s, t, u) == (s \o t) \o u = s \o (t \o u)

LEMMA ItemsAssociative == \A s, t, u \in Seq(Item) : Associative(s, t, u)
BY ConcatAssociative DEF Associative

(* The blob x is at an address. *)
There(mem, at, x) == at \in DOMAIN mem /\ mem[at] = x

(* Every blob of a tag is where the sizes of those before it put it. *)
LEMMA PayloadThere ==
  ASSUME NEW b, Packed(b), NEW type \in Nat, NEW n \in Nat, NEW payload \in Seq(PlainBlobs),
         NEW s \in [0 .. Len(payload) -> Nat], s[0] = 8,
         \A k \in 1 .. Len(payload) : s[k] = s[k - 1] + payload[k].size,
         NEW c, c = AddTag(b, type, n, payload), c.ok, NEW A \in Nat, A = AlignUp(b.cur, 8)
  PROVE  \A j \in 1 .. Len(payload) :
           payload[j].size # 0 => There(c.mem, A + s[j - 1], payload[j])
<1>m. PICK m \in Nat : m = Len(payload)
  OBVIOUS
<1>p. payload \in Seq(Blobs) /\ b \in Builders
  BY PlainIsBlobs, PackedFields
<1>1. PICK h : Adds(h, b, type, n, payload, c)
  BY <1>p, AddTagSteps
<1>2. /\ s \in [0 .. m -> Nat]
      /\ \A k \in 1 .. m : s[k] = s[k - 1] + payload[k].size /\ payload[k] \in Blobs
                           /\ payload[k].size \in Nat
  BY <1>m, <1>p, BlobSize
<1>3. /\ h[0] = AddBlob(b, 8, TagBlob(type, n))
      /\ \A k \in 1 .. m : h[k] = AddBlob(h[k - 1], 1, payload[k])
      /\ c = h[m]
  BY <1>m, <1>1 DEF Adds
<1> DEFINE Good(k) == /\ h[k].cur = A + s[k]
                      /\ \A j \in 1 .. k : payload[j].size # 0 =>
                           There(h[k].mem, A + s[j - 1], payload[j])
           T == { k \in 0 .. m : Packed(h[k]) /\ (h[k].ok => Good(k)) }
<1>4. 0 \in T
  <2>1. TagBlob(type, n) \in Blobs /\ TagBlob(type, n).size = 8
    BY TagIsBlob, TagFields
  <2>2. Packed(h[0])
    BY <1>3, <2>1, AddBlobPacked
  <2>3. ASSUME h[0].ok PROVE h[0].cur = A + s[0]
    BY <1>3, <2>1, <2>3, AddBlobOk
  <2> QED
    BY <2>2, <2>3
<1>5. ASSUME NEW k \in 0 .. m - 1, k \in T PROVE k + 1 \in T
  <2>0. k + 1 \in 1 .. m /\ (k + 1) - 1 = k
    OBVIOUS
  <2>1. /\ k + 1 \in 1 .. m /\ payload[k + 1] \in Blobs
        /\ s[k + 1] = s[k] + payload[k + 1].size /\ s[k] \in Nat
        /\ h[k + 1] = AddBlob(h[k], 1, payload[k + 1])
    <3>1. \A l \in 1 .. m : /\ payload[l] \in Blobs /\ s[l] = s[l - 1] + payload[l].size
                            /\ h[l] = AddBlob(h[l - 1], 1, payload[l])
      BY <1>2, <1>3
    <3>2. /\ payload[k + 1] \in Blobs
          /\ s[k + 1] = s[(k + 1) - 1] + payload[k + 1].size
          /\ h[k + 1] = AddBlob(h[(k + 1) - 1], 1, payload[k + 1])
      BY <2>0, <3>1, Zenon
    <3> QED
      BY <1>2, <2>0, <3>2
  <2>2. PICK d, f, x : /\ d = h[k] /\ f = h[k + 1] /\ x = payload[k + 1]
                       /\ x \in Blobs /\ f = AddBlob(d, 1, x)
    BY <2>1
  <2>3. Packed(d) /\ (d.ok => Good(k))
    BY <1>5, <2>2
  <2>4. Packed(f)
    BY <2>2, <2>3, AddBlobPacked
  <2>5. ASSUME f.ok PROVE Good(k + 1)
    <3>1. PICK at \in Nat : at = d.cur /\ at = AlignUp(d.cur, 1)
      BY <2>3, PackedFields, AlignOne
    <3>2. /\ d.ok /\ Grows(d, f) /\ f.cur = at + x.size
          /\ There(f.mem, at, x)
      <4>1. 1 \in {1, 8} /\ AddBlob(d, 1, x).ok
        BY <2>2, <2>5
      <4>2. LET g == AddBlob(d, 1, x)
                w == AlignUp(d.cur, 1)
            IN  /\ d.ok /\ Grows(d, g) /\ g.cur = w + x.size
                /\ DOMAIN g.mem = DOMAIN d.mem \cup {w} /\ g.mem[w] = x
        BY <2>2, <2>3, <4>1, AddBlobOk
      <4> QED
        BY <2>2, <3>1, <4>2 DEF There
    <3>3. /\ at = A + s[k] /\ s[k] \in Nat /\ s[k + 1] = s[k] + x.size /\ x.size \in Nat
      BY <2>1, <2>2, <2>3, <3>1, <3>2, BlobSize
    <3>4. f.cur = A + s[k + 1]
      BY <3>2, <3>3
    <3>5. ASSUME NEW j \in 1 .. k + 1, payload[j].size # 0
          PROVE  There(f.mem, A + s[j - 1], payload[j])
      <4>1. CASE j = k + 1
        BY <2>0, <2>2, <3>2, <3>3, <4>1
      <4>2. CASE j # k + 1
        <5>1. j \in 1 .. k
          BY <4>2
        <5>2. There(d.mem, A + s[j - 1], payload[j])
          BY <2>2, <2>3, <3>2, <3>5, <5>1
        <5> QED
          BY <3>2, <3>5, <5>2 DEF Grows, There
      <4> QED
        BY <4>1, <4>2
    <3> QED
      BY <2>2, <3>4, <3>5
  <2> HIDE DEF Good
  <2>6. k + 1 \in 0 .. m
    OBVIOUS
  <2> QED
    BY <2>2, <2>4, <2>5, <2>6
<1>6. \A k \in 0 .. m : k \in T
  <2> HIDE DEF T
  <2> QED
    BY <1>4, <1>5, InductionUpTo
<1>7. m \in T
  BY <1>6
<1> QED
  BY <1>m, <1>3, <1>7

(* A blob that stays where it is. *)
Stays(mem, at) == at \in DOMAIN mem /\ mem[at].size # 0

(* The tag at a is one of which a kernel prints q. *)
ShowsCmdline(mem, a, q) ==
  /\ mem[a].type = MBI2_TAG_CMDLINE /\ Stays(mem, a + 8)
  /\ q = << <<"cmdline", mem[a + 8].string>> >>

ShowsModule(mem, a, q) ==
  /\ mem[a].type = MBI2_TAG_MODULE /\ Stays(mem, a + 16)
  /\ q = << <<"module", mem[a + 16].string>> >>

ShowsEntries(mem, a, q) ==
  /\ mem[a].type = MBI2_TAG_MEMORY /\ mem[a].tag_size = 16 + 24 * Len(q) /\ Len(q) # 0
  /\ Stays(mem, a + 8) /\ mem[a + 8].entry_size = 24
  /\ \A k \in 1 .. Len(q) : /\ Stays(mem, a + 16 + 24 * (k - 1))
                            /\ q[k] = <<"entry", mem[a + 16 + 24 * (k - 1)].entry>>

ShowsOther(mem, a, q) ==
  /\ mem[a].type \notin {MBI2_TAG_CMDLINE, MBI2_TAG_MODULE, MBI2_TAG_MEMORY}
  /\ q = << <<"unknown", mem[a].type>> >>

Shows(mem, a, q) ==
  /\ q \in Seq(Item)
  /\ \/ ShowsCmdline(mem, a, q) \/ ShowsModule(mem, a, q)
     \/ ShowsEntries(mem, a, q) \/ ShowsOther(mem, a, q)

(* Everything but the blob at start and blobs of no bytes is in m2 too. *)
Keeps(m1, m2, start) ==
  \A a \in DOMAIN m1 : a # start /\ m1[a].size # 0 => a \in DOMAIN m2 /\ m2[a] = m1[a]

LEMMA ShowsKept ==
  ASSUME NEW m1, NEW m2, NEW start \in Nat, Keeps(m1, m2, start),
         NEW a \in Nat, start < a, m2[a] = m1[a], NEW q, Shows(m1, a, q)
  PROVE  Shows(m2, a, q)
<1>1. ASSUME NEW at \in Nat, a < at, Stays(m1, at)
      PROVE  Stays(m2, at) /\ m2[at] = m1[at]
  <2>1. at # start
    BY <1>1
  <2> QED
    BY <1>1, <2>1 DEF Keeps, Stays
<1>2. CASE ShowsCmdline(m1, a, q)
  <2>1. a + 8 \in Nat /\ a < a + 8
    OBVIOUS
  <2>2. Stays(m2, a + 8) /\ m2[a + 8] = m1[a + 8]
    BY <1>1, <1>2, <2>1 DEF ShowsCmdline
  <2> QED
    BY <1>2, <2>2 DEF Shows, ShowsCmdline
<1>3. CASE ShowsModule(m1, a, q)
  <2>1. a + 16 \in Nat /\ a < a + 16
    OBVIOUS
  <2>2. Stays(m2, a + 16) /\ m2[a + 16] = m1[a + 16]
    BY <1>1, <1>3, <2>1 DEF ShowsModule
  <2> QED
    BY <1>3, <2>2 DEF Shows, ShowsModule
<1>4. CASE ShowsEntries(m1, a, q)
  <2>1. a + 8 \in Nat /\ a < a + 8
    OBVIOUS
  <2>2. Stays(m2, a + 8) /\ m2[a + 8] = m1[a + 8]
    BY <1>1, <1>4, <2>1 DEF ShowsEntries
  <2>n. PICK n \in Nat : n = Len(q)
    BY DEF Shows
  <2>3. ASSUME NEW k \in 1 .. n
        PROVE  /\ Stays(m2, a + 16 + 24 * (k - 1))
               /\ q[k] = <<"entry", m2[a + 16 + 24 * (k - 1)].entry>>
    <3>1. PICK at \in Nat : at = a + 16 + 24 * (k - 1) /\ a < at
      OBVIOUS
    <3>2. Stays(m1, at) /\ q[k] = <<"entry", m1[at].entry>>
      BY <1>4, <2>n, <3>1 DEF ShowsEntries
    <3> QED
      BY <1>1, <3>1, <3>2
  <2> QED
    BY <1>4, <2>2, <2>n, <2>3 DEF Shows, ShowsEntries
<1>5. CASE ShowsOther(m1, a, q)
  BY <1>5 DEF Shows, ShowsOther
<1> QED
  BY <1>2, <1>3, <1>4, <1>5 DEF Shows

(* c is b with one more tag, of which a kernel prints q. *)
TellsMore(b, c, q) ==
  \E A \in Nat, n \in Nat, type \in Nat \ {MBI2_TAG_END} :
    MoreBy(b, c, A, type, n) /\ Shows(c.mem, A, q)

LEMMA TellsIsMore ==
  ASSUME NEW b, NEW c, NEW q, TellsMore(b, c, q) PROVE MoreTag(b, c)
BY DEF TellsMore, MoreTag

LEMMA SomeTellsMore ==
  ASSUME NEW b, NEW c, NEW q, NEW A \in Nat, NEW n \in Nat, NEW type \in Nat \ {MBI2_TAG_END},
         MoreBy(b, c, A, type, n), Shows(c.mem, A, q)
  PROVE  TellsMore(b, c, q)
BY DEF TellsMore

(* c is b with one more tag, at A, and its payload, as s sums its sizes. *)
TagAt(b, c, type, n, payload, A, s) ==
  /\ MoreBy(b, c, A, type, n) /\ c.mem[A].type = type /\ c.mem[A].tag_size = n
  /\ s[0] = 8 /\ \A k \in 1 .. Len(payload) : s[k] = s[k - 1] + payload[k].size
  /\ \A j \in 1 .. Len(payload) :
       payload[j].size # 0 => There(c.mem, A + s[j - 1], payload[j])

LEMMA TagTells ==
  ASSUME NEW b, Packed(b), Laid(b), NEW type \in Nat, NEW n \in Nat,
         NEW payload \in Seq(PlainBlobs), AddsUp(payload, n),
         NEW c, c = AddTag(b, type, n, payload), c.ok
  PROVE  \E A \in Nat, s \in [0 .. Len(payload) -> Nat] : TagAt(b, c, type, n, payload, A, s)
<1>1. PICK A \in Nat : A = AlignUp(b.cur, 8)
  BY PackedFields, AlignEight
<1>2. PICK s \in [0 .. Len(payload) -> Nat] :
        /\ s[0] = 8
        /\ \A k \in 1 .. Len(payload) : s[k] = s[k - 1] + payload[k].size
  BY DEF AddsUp
<1>3. MoreBy(b, c, A, type, n)
  BY <1>1, AddTagMore
<1>4. c.mem[A].type = type /\ c.mem[A].tag_size = n
  BY <1>3 DEF MoreBy, TagBlob
<1>5. \A j \in 1 .. Len(payload) :
        payload[j].size # 0 => There(c.mem, A + s[j - 1], payload[j])
  BY <1>1, <1>2, PayloadThere
<1> QED
  BY <1>2, <1>3, <1>4, <1>5 DEF TagAt

LEMMA CmdlineTells ==
  ASSUME NEW b, Packed(b), Laid(b), NEW s \in String, AddBootCmdline(b, s).ok
  PROVE  TellsMore(b, AddBootCmdline(b, s), << <<"cmdline", s.id>> >>)
<1> DEFINE n == TagSize + s.len + 1
           x == StringBlob(s)
           p == <<x>>
           c == AddBootCmdline(b, s)
<1>1. p \in Seq(PlainBlobs) /\ s.len \in Nat /\ x \in PlainBlobs /\ s.id \in STRING
  BY CmdlinePayload DEF PlainBlobs, String
<1>2. n \in Nat /\ n = 8 + x.size /\ x.size # 0 /\ x.string = s.id /\ Len(p) = 1 /\ p[1] = x
  BY <1>1 DEF TagSize, StringBlob
<1>3. c = AddTag(b, MBI2_TAG_CMDLINE, n, p) /\ c.ok
  BY DEF AddBootCmdline
<1>4. MBI2_TAG_CMDLINE \in Nat \ {MBI2_TAG_END}
  BY DEF MBI2_TAG_CMDLINE, MBI2_TAG_END
<1>5. AddsUp(p, n)
  BY <1>1, <1>2, OneAddsUp
<1> HIDE DEF n, x, p, c
<1>6. PICK A \in Nat, z \in [0 .. Len(p) -> Nat] :
        TagAt(b, c, MBI2_TAG_CMDLINE, n, p, A, z)
  BY <1>1, <1>2, <1>3, <1>4, <1>5, TagTells
<1>m. MoreBy(b, c, A, MBI2_TAG_CMDLINE, n) /\ c.mem[A].type = MBI2_TAG_CMDLINE
  BY <1>6 DEF TagAt
<1>7. There(c.mem, A + 8, x)
  <2>1. 1 \in 1 .. Len(p) /\ 1 - 1 = 0
    BY <1>2
  <2> QED
    BY <1>2, <1>6, <2>1 DEF TagAt
<1>8. Stays(c.mem, A + 8) /\ c.mem[A + 8].string = s.id
  BY <1>2, <1>7 DEF Stays, There
<1>9. << <<"cmdline", s.id>> >> \in Seq(Item)
  BY <1>1, ItemsThere, OneItem
<1>10. Shows(c.mem, A, << <<"cmdline", s.id>> >>)
  BY <1>m, <1>8, <1>9 DEF Shows, ShowsCmdline
<1> QED
  BY <1>2, <1>4, <1>m, <1>10, SomeTellsMore DEF c

LEMMA ModuleTells ==
  ASSUME NEW b, Packed(b), Laid(b), NEW m \in ModuleSet, AddModule(b, m).ok
  PROVE  TellsMore(b, AddModule(b, m), << <<"module", m.string.id>> >>)
<1> DEFINE n == TagSize + ModuleSize + m.string.len + 1
           x == ModuleBlob(m)
           y == StringBlob(m.string)
           p == <<x, y>>
           c == AddModule(b, m)
<1>1. /\ p \in Seq(PlainBlobs) /\ m.string.len \in Nat /\ m.string.id \in STRING
      /\ x \in PlainBlobs /\ y \in PlainBlobs
  BY ModulePayload DEF PlainBlobs, ModuleSet, String
<1>2. /\ n \in Nat /\ n = 8 + x.size + y.size /\ x.size = 8
      /\ y.size # 0 /\ y.string = m.string.id
      /\ Len(p) = 2 /\ p[1] = x /\ p[2] = y
  BY <1>1 DEF TagSize, ModuleSize, ModuleBlob, StringBlob
<1>3. c = AddTag(b, MBI2_TAG_MODULE, n, p) /\ c.ok
  BY DEF AddModule
<1>4. MBI2_TAG_MODULE \in Nat \ {MBI2_TAG_END}
  BY DEF MBI2_TAG_MODULE, MBI2_TAG_END
<1>5. AddsUp(p, n)
  BY <1>1, <1>2, TwoAddUp
<1> HIDE DEF n, x, y, p, c
<1>6. PICK A \in Nat, z \in [0 .. Len(p) -> Nat] :
        TagAt(b, c, MBI2_TAG_MODULE, n, p, A, z)
  BY <1>1, <1>2, <1>3, <1>4, <1>5, TagTells, ZenonT(40)
<1>m. MoreBy(b, c, A, MBI2_TAG_MODULE, n) /\ c.mem[A].type = MBI2_TAG_MODULE
  BY <1>6 DEF TagAt
<1>7. There(c.mem, A + 16, y)
  <2>1. 1 \in 1 .. Len(p) /\ 1 - 1 = 0 /\ 2 \in 1 .. Len(p) /\ 2 - 1 = 1
    BY <1>2
  <2>2. z[1] = 16
    BY <1>2, <1>6, <2>1 DEF TagAt
  <2> QED
    BY <1>2, <1>6, <2>1, <2>2 DEF TagAt
<1>8. Stays(c.mem, A + 16) /\ c.mem[A + 16].string = m.string.id
  BY <1>2, <1>7 DEF Stays, There
<1>9. << <<"module", m.string.id>> >> \in Seq(Item)
  BY <1>1, ItemsThere, OneItem
<1>10. Shows(c.mem, A, << <<"module", m.string.id>> >>)
  BY <1>m, <1>8, <1>9 DEF Shows, ShowsModule
<1> QED
  BY <1>2, <1>4, <1>m, <1>10, SomeTellsMore DEF c

(* What a kernel prints of a memory map. *)
EntryItems(mmap) == [k \in DOMAIN mmap |-> <<"entry", mmap[k]>>]

LEMMA EntryItemsType ==
  ASSUME NEW mmap \in Seq(EntrySet)
  PROVE  /\ EntryItems(mmap) \in Seq(Item) /\ Len(EntryItems(mmap)) = Len(mmap)
         /\ \A k \in 1 .. Len(mmap) : EntryItems(mmap)[k] = <<"entry", mmap[k]>>
<1>1. PICK m \in Nat : m = Len(mmap) /\ DOMAIN mmap = 1 .. m
  OBVIOUS
<1>2. \A k \in 1 .. m : <<"entry", mmap[k]>> \in Item
  BY <1>1, ItemsThere
<1>3. EntryItems(mmap) = [k \in 1 .. m |-> <<"entry", mmap[k]>>]
  BY <1>1 DEF EntryItems
<1> QED
  BY <1>1, <1>2, <1>3

LEMMA MmapTells ==
  ASSUME NEW b, Packed(b), Laid(b), NEW mmap \in Seq(EntrySet), mmap # <<>>,
         AddMbi1Memmap(b, mmap).ok
  PROVE  TellsMore(b, AddMbi1Memmap(b, mmap), EntryItems(mmap))
<1> DEFINE p == MapPayload(mmap)
           c == AddMbi1Memmap(b, mmap)
           q == EntryItems(mmap)
<1>1. PICK m \in Nat : m = Len(mmap) /\ m # 0
  BY EmptySeq
<1>2. PICK n \in Nat : n = 16 + 24 * m
  OBVIOUS
<1>3. /\ p \in Seq(PlainBlobs) /\ Len(p) = m + 1 /\ p[1] = MemoryBlob
      /\ \A k \in 1 .. m : p[k + 1] = EntryBlob(mmap[k])
  BY <1>1, MmapPayload
<1>4. c = AddTag(b, MBI2_TAG_MEMORY, n, p) /\ c.ok
  <2>1. TagSize + MemorySize + MemoryEntrySize * Len(mmap) = n
    BY <1>1, <1>2 DEF TagSize, MemorySize, MemoryEntrySize
  <2> QED
    BY <2>1 DEF AddMbi1Memmap, MapPayload
<1>5. MBI2_TAG_MEMORY \in Nat \ {MBI2_TAG_END}
  BY DEF MBI2_TAG_MEMORY, MBI2_TAG_END
<1>6. AddsUp(p, n)
  BY <1>1, <1>2, MmapAddsUp
<1>7. /\ MemoryBlob.size = 8 /\ MemoryBlob.entry_size = 24
      /\ \A e : EntryBlob(e).size = 24 /\ EntryBlob(e).entry = e
  BY DEF MemoryBlob, EntryBlob, MemorySize, MemoryEntrySize
<1>8. q \in Seq(Item) /\ Len(q) = m /\ \A k \in 1 .. m : q[k] = <<"entry", mmap[k]>>
  BY <1>1, EntryItemsType
<1> HIDE DEF p, c, q
<1>t. PICK A \in Nat, z \in [0 .. Len(p) -> Nat] :
        TagAt(b, c, MBI2_TAG_MEMORY, n, p, A, z)
  BY <1>3, <1>4, <1>5, <1>6, TagTells
<1>9. /\ MoreBy(b, c, A, MBI2_TAG_MEMORY, n)
      /\ c.mem[A].type = MBI2_TAG_MEMORY /\ c.mem[A].tag_size = n
      /\ z[0] = 8 /\ \A k \in 1 .. Len(p) : z[k] = z[k - 1] + p[k].size
      /\ \A j \in 1 .. Len(p) : p[j].size # 0 => There(c.mem, A + z[j - 1], p[j])
  BY <1>t DEF TagAt
<1>10. \A k \in 0 .. m : z[k + 1] = 16 + 24 * k
  <2> DEFINE T == { k \in 0 .. m : z[k + 1] = 16 + 24 * k }
  <2>1. 0 \in T
    <3>1. 1 \in 1 .. Len(p) /\ 1 - 1 = 0 /\ 0 + 1 = 1 /\ 0 \in 0 .. m
      BY <1>3
    <3>2. z[1] = 16
      BY <1>3, <1>7, <1>9, <3>1
    <3> QED
      BY <3>1, <3>2
  <2>2. ASSUME NEW k \in 0 .. m - 1, k \in T PROVE k + 1 \in T
    <3>1. k + 2 \in 1 .. Len(p) /\ (k + 2) - 1 = k + 1 /\ k + 1 \in 1 .. m
          /\ (k + 1) + 1 = k + 2
      BY <1>3
    <3>2. p[k + 2].size = 24
      <4>1. p[(k + 1) + 1] = EntryBlob(mmap[k + 1])
        BY <1>3, <3>1
      <4> QED
        BY <1>7, <3>1, <4>1
    <3>3. z[k + 2] = z[k + 1] + 24
      BY <1>9, <3>1, <3>2
    <3> QED
      BY <2>2, <3>1, <3>3
  <2>3. \A k \in 0 .. m : k \in T
    <3> HIDE DEF T
    <3> QED
      BY <2>1, <2>2, InductionUpTo
  <2> QED
    BY <2>3
<1>11. Stays(c.mem, A + 8) /\ c.mem[A + 8].entry_size = 24
  <2>1. 1 \in 1 .. Len(p) /\ 1 - 1 = 0
    BY <1>3
  <2>2. There(c.mem, A + 8, MemoryBlob)
    <3>1. p[1].size # 0 => There(c.mem, A + z[1 - 1], p[1])
      BY <1>9, <2>1
    <3> QED
      BY <1>3, <1>7, <1>9, <2>1, <3>1
  <2> QED
    BY <1>7, <2>2 DEF Stays, There
<1>12. ASSUME NEW k \in 1 .. m
       PROVE  /\ Stays(c.mem, A + 16 + 24 * (k - 1))
              /\ q[k] = <<"entry", c.mem[A + 16 + 24 * (k - 1)].entry>>
  <2>1. k + 1 \in 1 .. Len(p) /\ (k + 1) - 1 = k /\ k - 1 \in 0 .. m /\ (k - 1) + 1 = k
    BY <1>3
  <2>2. z[k] = 16 + 24 * (k - 1)
    BY <1>10, <2>1
  <2>3. PICK at \in Nat : at = A + 16 + 24 * (k - 1) /\ at = A + z[k]
    BY <2>2
  <2>4. p[k + 1] = EntryBlob(mmap[k])
    BY <1>3
  <2>5. There(c.mem, at, EntryBlob(mmap[k]))
    <3>1. p[k + 1].size # 0 => There(c.mem, A + z[(k + 1) - 1], p[k + 1])
      BY <1>9, <2>1
    <3> QED
      BY <1>7, <2>1, <2>3, <2>4, <3>1
  <2>6. Stays(c.mem, at) /\ c.mem[at].entry = mmap[k]
    BY <1>7, <2>5 DEF Stays, There
  <2> QED
    BY <1>8, <2>3, <2>6
<1>13. Shows(c.mem, A, q)
  <2>1. ShowsEntries(c.mem, A, q)
    BY <1>1, <1>2, <1>8, <1>9, <1>11, <1>12 DEF ShowsEntries
  <2> QED
    BY <1>8, <2>1 DEF Shows
<1> QED
  BY <1>5, <1>9, <1>13, SomeTellsMore DEF c, q

(* What a kernel prints of the RSDP. *)
RsdpItems(r) == << <<"unknown", IF r.rev = 1 THEN MBI2_TAG_RSDP_V1 ELSE MBI2_TAG_RSDP_V2>> >>

LEMMA RsdpTells ==
  ASSUME NEW b, Packed(b), Laid(b), NEW r \in TableSet, AddRsdp(b, r).ok
  PROVE  TellsMore(b, AddRsdp(b, r), RsdpItems(r))
<1> DEFINE n == TagSize + RsdpBlob(r).size
           type == IF r.rev = 1 THEN MBI2_TAG_RSDP_V1 ELSE MBI2_TAG_RSDP_V2
           x == RsdpBlob(r)
           c == AddRsdp(b, r)
<1>1. <<x>> \in Seq(PlainBlobs) /\ x.size \in Nat /\ x \in PlainBlobs
  BY RsdpPayload DEF PlainBlobs, TableSet
<1>2. n \in Nat /\ n = 8 + x.size
  BY <1>1 DEF TagSize
<1>3. /\ type \in Nat \ {MBI2_TAG_END}
      /\ type \notin {MBI2_TAG_CMDLINE, MBI2_TAG_MODULE, MBI2_TAG_MEMORY}
  BY DEF MBI2_TAG_RSDP_V1, MBI2_TAG_RSDP_V2, MBI2_TAG_END, MBI2_TAG_CMDLINE, MBI2_TAG_MODULE,
     MBI2_TAG_MEMORY
<1>4. c = AddTag(b, type, n, <<x>>) /\ c.ok
  BY DEF AddRsdp
<1>5. RsdpItems(r) = << <<"unknown", type>> >>
  BY DEF RsdpItems
<1> HIDE DEF n, type, x, c
<1>6. AddsUp(<<x>>, n)
  BY <1>1, <1>2, OneAddsUp
<1>t. PICK A \in Nat, z \in [0 .. Len(<<x>>) -> Nat] : TagAt(b, c, type, n, <<x>>, A, z)
  BY <1>1, <1>2, <1>3, <1>4, <1>6, TagTells
<1>7. MoreBy(b, c, A, type, n) /\ c.mem[A].type = type
  BY <1>t DEF TagAt
<1>8. << <<"unknown", type>> >> \in Seq(Item)
  BY <1>3, ItemsThere, OneItem
<1>9. Shows(c.mem, A, << <<"unknown", type>> >>)
  BY <1>3, <1>7, <1>8 DEF Shows, ShowsOther
<1> QED
  BY <1>2, <1>3, <1>5, <1>7, <1>9, SomeTellsMore DEF c

-----------------------------------------------------------------------------
NoEnd(b) == \A a \in Tags(b.mem) : b.mem[a].type # MBI2_TAG_END

(* The end tag is there, it is the last one, and total_size is right. *)
Ending(b) ==
  /\ b.cur % 8 = 0 /\ b.cur - 8 \in Tags(b.mem)
  /\ b.mem[b.start] = InfoBlob(b.cur - b.start)
  /\ b.mem[b.cur - 8] = TagBlob(MBI2_TAG_END, TagSize)
  /\ \A a \in Tags(b.mem) : a # b.cur - 8 => b.mem[a].type # MBI2_TAG_END
  /\ \A a \in Tags(b.mem) : a <= b.cur - 8

HasFirst(b) == TagFirst(b.start) \in Tags(b.mem)

LEMMA MoreTagKeeps ==
  ASSUME NEW b, NEW c, Packed(b), Laid(b), MoreTag(b, c)
  PROVE  /\ Packed(c) /\ Laid(c) /\ HasFirst(c) /\ c.start = b.start
         /\ NoEnd(b) => NoEnd(c)
<1>1. PICK A \in Nat, n \in Nat, type \in Nat \ {MBI2_TAG_END} : MoreBy(b, c, A, type, n)
  BY DEF MoreTag
<1>2. /\ Packed(c) /\ Laid(c) /\ c.start = b.start /\ c.cur = A + n
      /\ Tags(c.mem) = Tags(b.mem) \cup {A} /\ c.mem[A].type = type
      /\ \A a \in Tags(b.mem) : c.mem[a] = b.mem[a]
  BY <1>1 DEF MoreBy, Grows, TagBlob
<1>3. HasFirst(c)
  <2>1. CASE TagFirst(c.start) \in Tags(c.mem)
    BY <2>1 DEF HasFirst
  <2>2. CASE c.cur = TagFirst(c.start)
    <3>1. A \in Nat /\ A \in DOMAIN c.mem /\ A + 8 <= c.cur
      <4>1. c.mem \in Memories /\ A \in Tags(c.mem)
        BY <1>2, PackedFields
      <4>2. A \in DOMAIN c.mem /\ c.mem[A].size = 8
        BY <4>1, TagsType
      <4> QED
        BY <1>2, <4>2, PackedFields
    <3>2. c.start \in Nat /\ c.cur = c.start + 8 /\ c.start <= A
      BY <1>2, <2>2, <3>1, PackedFields DEF TagFirst, BootInfoSize, Packed
    <3>3. A = c.start
      BY <3>1, <3>2
    <3> QED
      BY <1>2, <3>3 DEF Laid
  <2> QED
    BY <1>2, <2>1, <2>2 DEF Laid
<1>4. NoEnd(b) => NoEnd(c)
  BY <1>2 DEF NoEnd
<1> QED
  BY <1>2, <1>3, <1>4

(* mbi2_finish *)
LEMMA FinishedEnding ==
  ASSUME NEW b, Packed(b), Laid(b), HasFirst(b), NoEnd(b), NEW f, f = BuilderFinished(b), f.ok
  PROVE  /\ Laid(f) /\ Ending(f) /\ HasFirst(f) /\ TagFirst(f.start) # f.cur - 8
         /\ f.start = b.start /\ f.cur - 8 = AlignUp(b.cur, 8)
         /\ Tags(f.mem) \ {f.cur - 8} = Tags(b.mem)
         /\ Keeps(b.mem, f.mem, b.start)
<1> DEFINE c == AddTag(b, MBI2_TAG_END, TagSize, <<>>)
           x == InfoBlob(c.cur - c.start)
<1>1. f = IF c.ok THEN [c EXCEPT !.mem = [@ EXCEPT ![c.start] = x]] ELSE c
  BY DEF BuilderFinished
<1>2. c.ok
  BY <1>1
<1>3. MoreBy(b, c, AlignUp(b.cur, 8), MBI2_TAG_END, 8)
  <2>1. MBI2_TAG_END \in Nat /\ TagSize = 8 /\ <<>> \in Seq(PlainBlobs) /\ AddsUp(<<>>, 8)
    BY NoneAddsUp DEF MBI2_TAG_END, TagSize
  <2> HIDE DEF c
  <2>2. c = AddTag(b, MBI2_TAG_END, 8, <<>>)
    BY <2>1 DEF c
  <2> QED
    BY <1>2, <2>1, <2>2, AddTagMore
<1> HIDE DEF c
<1>4. PICK A \in Nat : /\ A = AlignUp(b.cur, 8) /\ c.cur = A + 8
                       /\ Tags(c.mem) = Tags(b.mem) \cup {A}
                       /\ c.mem[A] = TagBlob(MBI2_TAG_END, 8)
                       /\ \A a \in Tags(b.mem) : a < A /\ c.mem[a] = b.mem[a]
                       /\ Packed(c) /\ Laid(c) /\ c.start = b.start
                       /\ Keeps(b.mem, c.mem, b.start)
  BY <1>3 DEF MoreBy, Grows, Keeps
<1>5. /\ c \in Builders /\ c.mem \in Memories /\ c.start \in Nat /\ c.cur \in Nat
      /\ c.start \in DOMAIN c.mem /\ c.start \notin Tags(c.mem) /\ c.mem[c.start].size = 8
  BY <1>4, PackedFields DEF Laid
<1>x. x.size = 8 /\ "type" \notin DOMAIN x
  BY DEF InfoBlob, BootInfoSize
<1> HIDE DEF x
<1>6. /\ f.start = c.start /\ f.cur = c.cur
      /\ DOMAIN f.mem = DOMAIN c.mem /\ f.mem[c.start] = x
      /\ \A a \in DOMAIN c.mem : a # c.start => f.mem[a] = c.mem[a]
  <2>1. f = [c EXCEPT !.mem = [@ EXCEPT ![c.start] = x]]
    BY <1>1, <1>2
  <2> QED
    BY <1>5, <2>1 DEF Builders
<1>7. Tags(f.mem) = Tags(c.mem) /\ \A a \in Tags(c.mem) : f.mem[a] = c.mem[a]
  BY <1>5, <1>6, <1>x DEF Tags
<1>8. \A a \in DOMAIN c.mem : f.mem[a].size = c.mem[a].size
  BY <1>5, <1>6, <1>x
<1>9. Laid(f)
  <2>1. ASSUME NEW a \in Tags(c.mem)
        PROVE  /\ Complete(f.mem, a) /\ a + f.mem[a].tag_size <= f.cur
               /\ TagAfter(f.mem, a) \in Tags(f.mem) \/ TagAfter(f.mem, a) = AlignUp(f.cur, 8)
    <3>1. /\ Complete(c.mem, a) /\ a + c.mem[a].tag_size <= c.cur
          /\ TagAfter(c.mem, a) \in Tags(c.mem) \/ TagAfter(c.mem, a) = AlignUp(c.cur, 8)
      BY <1>4 DEF Laid
    <3>2. f.mem[a] = c.mem[a] /\ TagAfter(f.mem, a) = TagAfter(c.mem, a)
      BY <1>7 DEF TagAfter
    <3>3. Covered(f.mem, a, a + f.mem[a].tag_size)
      <4>1. PICK hi : hi = a + c.mem[a].tag_size
        OBVIOUS
      <4>2. Covered(c.mem, a, hi)
        BY <3>1, <4>1 DEF Complete
      <4>3. Covered(f.mem, a, hi)
        BY <1>6, <1>8, <4>2 DEF Covered
      <4> QED
        BY <3>2, <4>1, <4>3
    <3>4. ASSUME NEW d \in DOMAIN f.mem, a < d
          PROVE  \/ d \notin Tags(f.mem) /\ d + f.mem[d].size <= a + f.mem[a].tag_size
                 \/ TagAfter(f.mem, a) <= d
      BY <1>6, <1>7, <1>8, <3>1, <3>2, <3>4 DEF Complete
    <3> QED
      BY <1>6, <1>7, <3>1, <3>2, <3>3, <3>4 DEF Complete
  <2>2. /\ f.start % 8 = 0
        /\ f.start \in DOMAIN f.mem /\ f.start \notin Tags(f.mem) /\ f.mem[f.start].size = 8
    BY <1>4, <1>5, <1>6, <1>7, <1>8 DEF Laid
  <2>3. TagFirst(f.start) \in Tags(f.mem)
    BY <1>4, <1>6, <1>7 DEF HasFirst
  <2> QED
    BY <1>7, <2>1, <2>2, <2>3 DEF Laid
<1>10. f.cur - 8 = A
  BY <1>4, <1>6
<1>11. Ending(f)
  <2>1. f.cur % 8 = 0
    <3>1. A % 8 = 0
      BY <1>4, AlignEight, PackedFields
    <3> QED
      BY <1>4, <1>6, <3>1
  <2>2. f.mem[f.start] = InfoBlob(f.cur - f.start)
    BY <1>6 DEF x
  <2>3. f.mem[A] = TagBlob(MBI2_TAG_END, TagSize)
    BY <1>4, <1>7 DEF TagSize
  <2>4. \A a \in Tags(f.mem) : a # A => f.mem[a].type # MBI2_TAG_END
    BY <1>4, <1>7 DEF NoEnd
  <2>5. \A a \in Tags(f.mem) : a <= A
    <3>1. \A a \in Tags(b.mem) : a \in Nat
      BY PackedFields, TagsType
    <3> QED
      BY <1>4, <1>7, <3>1
  <2> QED
    BY <1>4, <1>7, <1>10, <2>1, <2>2, <2>3, <2>4, <2>5 DEF Ending
<1>12. TagFirst(f.start) \in Tags(f.mem) /\ TagFirst(f.start) # f.cur - 8
  <2>1. TagFirst(f.start) \in Tags(b.mem)
    BY <1>4, <1>6 DEF HasFirst
  <2>2. TagFirst(f.start) < A /\ TagFirst(f.start) \in Nat
    BY <1>4, <2>1, PackedFields, TagsType
  <2> QED
    BY <1>4, <1>7, <1>10, <2>1, <2>2
<1>13. f.start = b.start /\ f.cur - 8 = AlignUp(b.cur, 8)
  BY <1>4, <1>6, <1>10
<1>14. Tags(f.mem) \ {A} = Tags(b.mem)
  <2>1. \A a \in Tags(b.mem) : a \in Nat /\ a < A
    BY <1>4, PackedFields, TagsType
  <2>2. A \notin Tags(b.mem)
    BY <2>1
  <2> QED
    BY <1>4, <1>7, <2>2
<1>15. Keeps(b.mem, f.mem, b.start)
  BY <1>4, <1>6 DEF Keeps
<1> QED
  BY <1>9, <1>10, <1>11, <1>12, <1>13, <1>14, <1>15 DEF HasFirst

-----------------------------------------------------------------------------
(* The whole of the structure, while it is built and while it is read.     *)

Building == {"cmdline", "mem", "mods", "finish"}
Reading == {"boot", "read", "entries", "done"}

LaidInv ==
  /\ pc \in Building => Laid(bld) /\ NoEnd(bld)
  /\ pc \in Reading =>
       Laid(bld) /\ Ending(bld) /\ HasFirst(bld) /\ TagFirst(bld.start) # bld.cur - 8
  /\ pc \notin {"start", "exit"} => "cmdline" \in mbi.flags
  /\ pc \in {"mem", "mods", "finish"} => HasFirst(bld)
  /\ pc \in {"read", "entries"} => tag \in Tags(bld.mem) /\ tag # bld.cur - 8
  /\ pc # "astray"

LEMMA LaidInvInit == Init => LaidInv
BY DEF Init, LaidInv, Building, Reading

(* After every tag but the last there is another one. *)
LEMMA NextIsTag ==
  ASSUME NEW b, Packed(b), Laid(b), Ending(b), NEW a \in Tags(b.mem), a # b.cur - 8
  PROVE  TagAfter(b.mem, a) \in Tags(b.mem)
<1>1. b.mem \in Memories /\ b.cur \in Nat
  BY PackedFields
<1>2. PICK e \in Nat : e = b.cur - 8 /\ e \in Tags(b.mem) /\ e \in DOMAIN b.mem
  BY <1>1, TagsType DEF Ending
<1>3. a \in Nat /\ a < e
  <2>1. a \in Nat /\ a <= e
    BY <1>1, <1>2, TagsType DEF Ending
  <2> QED
    BY <1>2, <2>1
<1>4. TagAfter(b.mem, a) <= e
  BY <1>2, <1>3 DEF Laid, Complete
<1>5. AlignUp(b.cur, 8) = b.cur
  BY <1>1 DEF Ending, AlignUp
<1>6. b.cur = e + 8
  BY <1>1, <1>2
<1>7. TagAfter(b.mem, a) # AlignUp(b.cur, 8)
  BY <1>2, <1>4, <1>5, <1>6
<1> QED
  BY <1>7 DEF Laid

(* mbi2_tag_next stays on the tags. *)
LEMMA OnToTag ==
  ASSUME Packed(bld), Laid(bld), Ending(bld), tag \in Tags(bld.mem), tag # bld.cur - 8,
         GoToNextTag
  PROVE  /\ pc' \in {"read", "done"}
         /\ pc' = "read" => tag' \in Tags(bld.mem) /\ tag' # bld.cur - 8
<1>1. PICK n : n = TagAfter(bld.mem, tag)
  OBVIOUS
<1>2. n \in Tags(bld.mem)
  BY <1>1, NextIsTag
<1>3. IsTag(n)
  BY <1>2 DEF IsTag, Tags
<1>4. /\ tag' = IF bld.mem[n].type = MBI2_TAG_END THEN 0 ELSE n
      /\ pc' = IF tag' = 0 THEN "done" ELSE "read"
  BY <1>1, <1>3 DEF GoToNextTag
<1>5. bld.mem[bld.cur - 8].type = MBI2_TAG_END
  BY DEF Ending, TagBlob
<1>6. CASE bld.mem[n].type = MBI2_TAG_END
  BY <1>4, <1>6
<1>7. CASE bld.mem[n].type # MBI2_TAG_END
  <2>1. n # bld.cur - 8
    BY <1>5, <1>7
  <2> QED
    BY <1>2, <1>4, <1>7, <2>1
<1> QED
  BY <1>6, <1>7

(* What a step of convert_mb1_to_mbi2 does, if no assertion fails: another *)
(* tag, or none.                                                           *)
LEMMA LaidInvTag ==
  ASSUME LaidInv, BldInv, pc \in Building, mbi' = mbi,
         bld' = bld \/ MoreTag(bld, bld'),
         pc' = "halted" \/ pc' \in {"mem", "mods", "finish"},
         pc' # "halted" => HasFirst(bld) \/ MoreTag(bld, bld')
  PROVE  LaidInv'
<1>1. Packed(bld) /\ Laid(bld) /\ NoEnd(bld) /\ "cmdline" \in mbi.flags
  BY DEF BldInv, LaidInv, Building
<1>2. CASE pc' = "halted"
  BY <1>1, <1>2 DEF LaidInv, Building, Reading
<1>3. CASE pc' # "halted"
  <2>1. Laid(bld') /\ NoEnd(bld') /\ HasFirst(bld')
    <3>1. CASE MoreTag(bld, bld')
      BY <1>1, <3>1, MoreTagKeeps
    <3>2. CASE ~MoreTag(bld, bld')
      <4>1. bld' = bld /\ HasFirst(bld)
        BY <1>3, <3>2
      <4> QED
        BY <1>1, <4>1
    <3> QED
      BY <3>1, <3>2
  <2> QED
    BY <1>1, <1>3, <2>1 DEF LaidInv, Building, Reading
<1> QED
  BY <1>2, <1>3

(* A step that leaves the structure and the loader's information alone. *)
LEMMA LaidInvRead ==
  ASSUME LaidInv, pc \in Reading, mbi' = mbi, bld' = bld, pc' \in Reading,
         pc' \in {"read", "entries"} => tag' \in Tags(bld.mem) /\ tag' # bld.cur - 8
  PROVE  LaidInv'
<1>1. /\ Laid(bld) /\ Ending(bld) /\ HasFirst(bld) /\ TagFirst(bld.start) # bld.cur - 8
      /\ "cmdline" \in mbi.flags
  BY DEF LaidInv, Reading
<1>2. Laid(bld') /\ Ending(bld') /\ HasFirst(bld') /\ TagFirst(bld'.start) # bld'.cur - 8
  BY <1>1
<1>3. pc' \notin Building /\ pc' \notin {"mem", "mods", "finish"} /\ pc' # "astray"
  BY DEF Building, Reading
<1>4. pc' \in {"read", "entries"} => tag' \in Tags(bld'.mem) /\ tag' # bld'.cur - 8
  OBVIOUS
<1> QED
  BY <1>1, <1>2, <1>3, <1>4 DEF LaidInv

LEMMA LaidInvNext == RsdpInv /\ InputInv /\ BldInv /\ LaidInv /\ [Next]_vars => LaidInv'
<1> SUFFICES ASSUME RsdpInv, InputInv, BldInv, LaidInv, [Next]_vars PROVE LaidInv'
  OBVIOUS
<1>i. /\ mbi.cmdline \in String /\ mbi.mmap \in Seq(EntrySet)
      /\ mbi.mods \in Seq(ModuleSet) /\ mod_index \in Nat
  BY DEF InputInv
<1>p. Packed(bld)
  BY DEF BldInv
<1>1. CASE NoModule
  BY <1>1 DEF NoModule, input, LaidInv, Building, Reading
<1>2. CASE PopModule
  <2>1. mbi.flags \in SUBSET {"mem", "cmdline", "mods"} /\ pc' = "build"
        /\ mbi' = [mbi EXCEPT !.mods = Tail(@), !.cmdline = Head(mbi.mods).string,
                              !.flags = @ \cup {"cmdline"}]
    BY <1>2 DEF PopModule, InputInv
  <2>2. "cmdline" \in mbi'.flags
    BY <2>1 DEF InputInv
  <2> QED
    BY <2>1, <2>2 DEF LaidInv, Building, Reading
<1>3. CASE Build
  <2>1. /\ bld' = BuilderAt(area.phys_addr, area.length) /\ mbi' = mbi /\ pc = "build"
        /\ pc' = (IF bld'.ok THEN "cmdline" ELSE "halted")
    BY <1>3 DEF Build, GoOn, input
  <2>2. "cmdline" \in mbi'.flags
    BY <2>1 DEF LaidInv
  <2>3. CASE ~bld'.ok
    BY <2>1, <2>2, <2>3 DEF LaidInv, Building, Reading
  <2>4. CASE bld'.ok
    <3>1. PICK at \in Nat : at = area.phys_addr
      BY DEF InputInv
    <3>2. /\ bld'.start = at /\ at % 8 = 0 /\ bld'.cur = at + 8
          /\ DOMAIN bld'.mem = {at} /\ bld'.mem[at] = InfoBlob(0)
      BY <2>1, <2>4, <3>1, BuildPacked, ZenonT(40) DEF InputInv
    <3>3. InfoBlob(0).size = 8 /\ "type" \notin DOMAIN InfoBlob(0)
      BY DEF InfoBlob, BootInfoSize
    <3>4. Tags(bld'.mem) = {}
      BY <3>2, <3>3 DEF Tags
    <3>5. bld'.cur = TagFirst(bld'.start)
      BY <3>2 DEF TagFirst, BootInfoSize
    <3>6. Laid(bld') /\ NoEnd(bld')
      BY <3>2, <3>3, <3>4, <3>5 DEF Laid, NoEnd
    <3>7. pc' = "cmdline"
      BY <2>1, <2>4
    <3> QED
      BY <2>2, <3>6, <3>7 DEF LaidInv, Building, Reading
  <2> QED
    BY <2>3, <2>4
<1>4. CASE ConvertCmdline
  <2>1. pc = "cmdline" /\ "cmdline" \in mbi.flags /\ mbi' = mbi
        /\ bld' = AddBootCmdline(bld, mbi.cmdline)
        /\ pc' = (IF bld'.ok THEN "mem" ELSE "halted")
    BY <1>4 DEF ConvertCmdline, GoOn, input, LaidInv
  <2>2. CASE ~bld'.ok
    BY <2>1, <2>2 DEF LaidInv, Building, Reading
  <2>3. CASE bld'.ok
    <3>1. MoreTag(bld, bld')
      BY <1>i, <1>p, <2>1, <2>3, CmdlineTells, TellsIsMore DEF LaidInv, Building
    <3> QED
      BY <2>1, <2>3, <3>1, LaidInvTag DEF Building
  <2> QED
    BY <2>2, <2>3
<1>5. CASE ConvertMemmap
  <2>1. pc = "mem" /\ mbi' = mbi /\ HasFirst(bld) /\ "cmdline" \in mbi.flags
        /\ bld' = (IF "mem" \in mbi.flags THEN AddMbi1Memmap(bld, mbi.mmap) ELSE bld)
        /\ pc' = (IF bld'.ok THEN "mods" ELSE "halted")
    BY <1>5 DEF ConvertMemmap, GoOn, input, LaidInv
  <2>2. CASE ~bld'.ok
    BY <2>1, <2>2 DEF LaidInv, Building, Reading
  <2>3. CASE bld'.ok
    <3>1. bld' = bld \/ MoreTag(bld, bld')
      <4>1. mbi.mmap # <<>>
        BY DEF InputInv
      <4> QED
        BY <1>i, <1>p, <2>1, <2>3, <4>1, MmapTells, TellsIsMore DEF LaidInv, Building
    <3> QED
      BY <2>1, <2>3, <3>1, LaidInvTag DEF Building
  <2> QED
    BY <2>2, <2>3
<1>6. CASE ConvertModule
  <2>1. pc = "mods" /\ mbi' = mbi /\ HasFirst(bld) /\ "cmdline" \in mbi.flags
        /\ bld' = AddModule(bld, mbi.mods[mod_index + 1])
        /\ pc' = (IF bld'.ok THEN "mods" ELSE "halted")
    BY <1>6 DEF ConvertModule, GoOn, input, LaidInv
  <2>2. CASE ~bld'.ok
    BY <2>1, <2>2 DEF LaidInv, Building, Reading
  <2>3. CASE bld'.ok
    <3>0. PICK m \in ModuleSet : m = mbi.mods[mod_index + 1]
      BY <1>6, <1>i DEF ConvertModule
    <3>1. MoreTag(bld, bld')
      BY <1>p, <2>1, <2>3, <3>0, ModuleTells, TellsIsMore DEF LaidInv, Building
    <3> QED
      BY <2>1, <2>3, <3>1, LaidInvTag DEF Building
  <2> QED
    BY <2>2, <2>3
<1>7. CASE SearchRsdp
  BY <1>7 DEF SearchRsdp, reader, LaidInv
<1>8. CASE ConvertRsdp
  <2>1. pc = "mods" /\ mbi' = mbi /\ HasFirst(bld) /\ "cmdline" \in mbi.flags /\ done
        /\ bld' = (IF ret # Null THEN AddRsdp(bld, memory[ret].table) ELSE bld)
        /\ pc' = (IF bld'.ok THEN "finish" ELSE "halted")
    BY <1>8 DEF ConvertRsdp, GoOn, input, LaidInv
  <2>2. CASE ~bld'.ok
    BY <2>1, <2>2 DEF LaidInv, Building, Reading
  <2>3. CASE bld'.ok
    <3>1. bld' = bld \/ MoreTag(bld, bld')
      <4>1. CASE ret = Null
        BY <2>1, <4>1
      <4>2. CASE ret # Null
        <5>1. PICK r \in TableSet : r = memory[ret].table
          BY <2>1, <4>2, TableType
        <5> QED
          BY <1>p, <2>1, <2>3, <4>2, <5>1, RsdpTells, TellsIsMore DEF LaidInv, Building
      <4> QED
        BY <4>1, <4>2
    <3> QED
      BY <2>1, <2>3, <3>1, LaidInvTag DEF Building
  <2> QED
    BY <2>2, <2>3
<1>9. CASE Finish
  <2>1. pc = "finish" /\ mbi' = mbi /\ HasFirst(bld) /\ "cmdline" \in mbi.flags
        /\ Laid(bld) /\ NoEnd(bld)
        /\ bld' = BuilderFinished(bld)
        /\ pc' = (IF bld'.ok THEN "boot" ELSE "halted")
    BY <1>9 DEF Finish, GoOn, input, LaidInv, Building
  <2>2. CASE ~bld'.ok
    BY <2>1, <2>2 DEF LaidInv, Building, Reading
  <2>3. CASE bld'.ok
    <3>1. /\ Laid(bld') /\ Ending(bld') /\ HasFirst(bld')
          /\ TagFirst(bld'.start) # bld'.cur - 8
      BY <1>p, <2>1, <2>3, FinishedEnding
    <3> QED
      BY <2>1, <2>3, <3>1 DEF LaidInv, Building, Reading
  <2> QED
    BY <2>2, <2>3
<1>10. CASE KernelStart
  <2>1. pc = "boot" /\ pc' = "read" /\ mbi' = mbi /\ bld' = bld /\ tag' = TagFirst(bld.start)
    BY <1>10 DEF KernelStart, input
  <2>2. tag' \in Tags(bld.mem) /\ tag' # bld.cur - 8
    BY <2>1 DEF LaidInv, Reading, HasFirst
  <2> QED
    BY <2>1, <2>2, LaidInvRead DEF Reading
<1>11. CASE ReadCmdline \/ ReadModule \/ LastEntryRead \/ ReadOther
  <2>1. pc \in {"read", "entries"} /\ GoToNextTag /\ mbi' = mbi /\ bld' = bld
    BY <1>11 DEF ReadCmdline, ReadModule, LastEntryRead, ReadOther, input
  <2>2. Laid(bld) /\ Ending(bld) /\ tag \in Tags(bld.mem) /\ tag # bld.cur - 8
    BY <2>1 DEF LaidInv, Reading
  <2>3. /\ pc' \in {"read", "done"}
        /\ pc' = "read" => tag' \in Tags(bld.mem) /\ tag' # bld.cur - 8
    BY <1>p, <2>1, <2>2, OnToTag
  <2>4. pc \in Reading /\ pc' \in Reading
        /\ (pc' \in {"read", "entries"} => tag' \in Tags(bld.mem) /\ tag' # bld.cur - 8)
    BY <2>1, <2>3 DEF Reading
  <2> QED
    BY <2>1, <2>4, LaidInvRead
<1>12. CASE ReadMemoryMap \/ ReadEntry
  <2>1. /\ pc \in {"read", "entries"} /\ pc' = "entries" /\ tag' = tag
        /\ mbi' = mbi /\ bld' = bld
    BY <1>12 DEF ReadMemoryMap, ReadEntry, input
  <2>2. tag \in Tags(bld.mem) /\ tag # bld.cur - 8
    BY <2>1 DEF LaidInv
  <2>3. pc \in Reading /\ pc' \in Reading
    BY <2>1 DEF Reading
  <2> QED
    BY <2>1, <2>2, <2>3, LaidInvRead
<1>13. CASE UNCHANGED vars
  BY <1>13 DEF vars, LaidInv
<1> QED
  BY <1>1, <1>2, <1>3, <1>4, <1>5, <1>6, <1>7, <1>8, <1>9, <1>10, <1>11, <1>12, <1>13
     DEF Next, Step

LEMMA LaidInvHolds == Spec => [](BldInv /\ LaidInv)
<1>1. RsdpInv /\ InputInv /\ BldInv /\ LaidInv /\ [Next]_vars => LaidInv'
  BY LaidInvNext
<1> QED
  BY <1>1, LaidInvInit, Mbi2InvHolds, PTL DEF Spec

(* The kernel never looks for a tag where the builder has put none         *)
(* (mbi2_tag_next, mbi2.h): the sizes it goes by lead from the first tag   *)
(* to the last, and there is a tag besides the last.                       *)
THEOREM KernelStaysInsideHolds == Spec => []KernelStaysInside
<1>1. LaidInv => KernelStaysInside
  BY DEF LaidInv, KernelStaysInside
<1> QED
  BY <1>1, LaidInvHolds, PTL

(* The blobs between a tag and the next one are what its size says.        *)
LEMMA ExtentsOfTag ==
  ASSUME Packed(bld), Laid(bld), Ending(bld), NEW a \in Tags(bld.mem)
  PROVE  UNION { Extent(b) : b \in { d \in DOMAIN bld.mem :
                   a <= d /\ \A t \in Tags(bld.mem) : t <= a \/ d < t } }
           = a .. a + bld.mem[a].tag_size - 1
<1> DEFINE mem == bld.mem
           own == { d \in DOMAIN mem : a <= d /\ \A t \in Tags(mem) : t <= a \/ d < t }
<1>1. /\ mem \in Memories /\ bld.cur \in Nat
      /\ \A d \in DOMAIN mem : d \in Nat /\ mem[d].size \in Nat /\ d + mem[d].size <= bld.cur
  BY PackedFields
<1>2. a \in Nat /\ a \in DOMAIN mem /\ mem[a].size = 8 /\ mem[a].tag_size \in Nat
  BY <1>1, TagsType
<1>3. PICK n \in Nat : n = mem[a].tag_size
  BY <1>2
<1>4. PICK hi \in Nat : hi = a + n
  BY <1>2, <1>3
<1>5. PICK next \in Nat : next = TagAfter(mem, a) /\ hi <= next
  <2>1. TagAfter(mem, a) = a + AlignUp(n, 8)
    BY <1>3 DEF TagAfter, TagSize
  <2>2. AlignUp(n, 8) \in Nat /\ n <= AlignUp(n, 8)
    BY AlignEight
  <2> QED
    BY <1>2, <1>4, <2>1, <2>2
<1>6. /\ 8 <= n /\ Covered(mem, a, hi)
      /\ \A d \in DOMAIN mem :
           a < d => \/ d \notin Tags(mem) /\ d + mem[d].size <= hi
                    \/ next <= d
  BY <1>3, <1>4, <1>5 DEF Laid, Complete
<1>7. a = bld.cur - 8 \/ next \in Tags(mem)
  BY <1>5, NextIsTag
<1>8. a = bld.cur - 8 => next = bld.cur
  <2> SUFFICES ASSUME a = bld.cur - 8 PROVE next = bld.cur
    OBVIOUS
  <2>1. mem[a].tag_size = 8
    BY DEF Ending, TagBlob, TagSize
  <2>2. AlignUp(8, 8) = 8
    BY DEF AlignUp
  <2>3. next = a + 8
    BY <1>5, <2>1, <2>2 DEF TagAfter, TagSize
  <2> QED
    BY <1>1, <2>3
<1> HIDE DEF mem
<1>9. ASSUME NEW d \in own, NEW x \in d .. d + mem[d].size - 1
      PROVE  x \in a .. hi - 1
  <2>1. /\ d \in DOMAIN mem /\ d \in Nat /\ mem[d].size \in Nat /\ a <= d
        /\ d + mem[d].size <= bld.cur
        /\ \A t \in Tags(mem) : t <= a \/ d < t
    BY <1>1
  <2>2. x \in Int /\ d <= x /\ x < d + mem[d].size
    BY <2>1
  <2>3. CASE d = a
    BY <1>2, <1>4, <1>6, <2>2, <2>3
  <2>4. CASE a < d
    <3>1. ~(next <= d)
      <4>1. CASE next \in Tags(mem)
        BY <1>2, <1>4, <1>5, <1>6, <2>1, <4>1
      <4>2. CASE a = bld.cur - 8
        BY <1>1, <1>8, <2>1, <2>2, <4>2
      <4> QED
        BY <1>7, <4>1, <4>2
    <3>2. d + mem[d].size <= hi
      BY <1>6, <2>1, <2>4, <3>1
    <3> QED
      BY <1>2, <1>4, <2>1, <2>2, <3>2
  <2> QED
    BY <1>2, <2>1, <2>3, <2>4
<1>10. ASSUME NEW x \in a .. hi - 1
       PROVE  \E d \in own : x \in d .. d + mem[d].size - 1
  <2>1. PICK d \in DOMAIN mem : a <= d /\ d <= x /\ x < d + mem[d].size
    BY <1>6 DEF Covered
  <2>2. d \in Nat /\ mem[d].size \in Nat /\ x \in Nat /\ x < hi
    BY <1>1, <1>2, <1>4
  <2>3. ASSUME NEW t \in Tags(mem), ~(t <= a) PROVE d < t
    <3>1. t \in Nat /\ t \in DOMAIN mem
      BY <1>1, TagsType
    <3>2. next <= t
      BY <1>2, <1>6, <2>3, <3>1
    <3> QED
      BY <1>5, <2>1, <2>2, <3>1, <3>2
  <2>4. d \in own
    BY <2>1, <2>3
  <2>5. x \in d .. d + mem[d].size - 1
    BY <2>1, <2>2
  <2> QED
    BY <2>4, <2>5
<1> HIDE DEF own
<1>11. \A d : Extent(d) = d .. d + mem[d].size - 1
  BY DEF Extent, mem
<1>12. UNION { Extent(d) : d \in own } = a .. hi - 1
  BY <1>9, <1>10, <1>11
<1>13. hi - 1 = a + bld.mem[a].tag_size - 1
  BY <1>2, <1>3, <1>4 DEF mem
<1>14. UNION { Extent(b) : b \in { d \in DOMAIN bld.mem :
                 a <= d /\ \A t \in Tags(bld.mem) : t <= a \/ d < t } } = a .. hi - 1
  BY <1>12, Zenon DEF own, mem
<1> QED
  BY <1>13, <1>14, Zenon

(* What the finished structure says of its sizes is so (mbi2.c): a tag is  *)
(* where its neighbour ends, aligned, its size counts the bytes behind it, *)
(* and total_size leads to the end of the last tag, which is the end tag.  *)
THEOREM SizesAddUpHolds == Spec => []SizesAddUp
<1>1. ASSUME BldInv, LaidInv PROVE SizesAddUp
  <2> SUFFICES ASSUME pc \in Reading PROVE SizesAddUp
    BY DEF SizesAddUp, Reading
  <2>1. Packed(bld) /\ Laid(bld) /\ Ending(bld)
    BY <1>1 DEF BldInv, LaidInv
  <2> DEFINE tags == { a \in DOMAIN bld.mem : IsTag(a) }
             last == bld.start + bld.mem[bld.start].total_size
  <2>2. tags = Tags(bld.mem)
    BY DEF IsTag, Tags
  <2>3. last = bld.cur
    <3>1. bld.mem[bld.start].total_size = bld.cur - bld.start
      BY <2>1 DEF Ending, InfoBlob
    <3> QED
      BY <2>1, <3>1, PackedFields
  <2>4. bld.mem[bld.cur - TagSize] = TagBlob(MBI2_TAG_END, TagSize) /\ TagSize = 8
    BY <2>1 DEF Ending, TagSize
  <2>5. ASSUME NEW a \in Tags(bld.mem)
        PROVE  /\ a % MBI2_TAG_ALIGNMENT = 0
               /\ a = bld.cur - TagSize \/ TagAfter(bld.mem, a) \in Tags(bld.mem)
    BY <2>1, <2>4, NextIsTag DEF Laid, Complete, MBI2_TAG_ALIGNMENT
  <2>6. ASSUME NEW a \in Tags(bld.mem)
        PROVE  UNION { Extent(b) : b \in { d \in DOMAIN bld.mem :
                         a <= d /\ \A t \in Tags(bld.mem) : t <= a \/ d < t } }
                 = a .. a + bld.mem[a].tag_size - 1
    BY <2>1, ExtentsOfTag
  <2> HIDE DEF tags, last
  <2>7. /\ bld.mem[last - TagSize] = TagBlob(MBI2_TAG_END, TagSize)
        /\ \A a \in tags :
             /\ a % MBI2_TAG_ALIGNMENT = 0
             /\ a = last - TagSize \/ TagAfter(bld.mem, a) \in tags
             /\ UNION { Extent(b) : b \in { d \in DOMAIN bld.mem :
                          a <= d /\ \A t \in tags : t <= a \/ d < t } }
                  = a .. a + bld.mem[a].tag_size - 1
    BY <2>2, <2>3, <2>4, <2>5, <2>6
  <2> QED
    BY <2>7 DEF SizesAddUp, tags, last
<1> QED
  BY <1>1, LaidInvHolds, PTL

-----------------------------------------------------------------------------
(* P holds what a kernel has printed when it comes to one of the tags T or *)
(* to E, behind them, Q what it prints of a tag, told all of it.           *)
Tells(mem, start, T, E, P, Q, told) ==
  /\ P \in [T \cup {E} -> Seq(Item)] /\ Q \in [T -> Seq(Item)] /\ told \in Seq(Item)
  /\ TagFirst(start) \in T \cup {E} /\ P[TagFirst(start)] = <<>>
  /\ P[E] = told
  /\ \A a \in T :
       /\ Shows(mem, a, Q[a])
       /\ TagAfter(mem, a) \in T \cup {E} /\ P[TagAfter(mem, a)] = P[a] \o Q[a]
       /\ \E r \in Seq(Item) : told = (P[a] \o Q[a]) \o r

(* One more tag tells what is in it, behind the rest. *)
LEMMA TellsTag ==
  ASSUME NEW b, Packed(b), Laid(b), NEW P, NEW Q, NEW told,
         Tells(b.mem, b.start, Tags(b.mem), AlignUp(b.cur, 8), P, Q, told),
         NEW c, NEW q, TellsMore(b, c, q)
  PROVE  \E P2, Q2 :
           Tells(c.mem, c.start, Tags(c.mem), AlignUp(c.cur, 8), P2, Q2, told \o q)
<1>1. PICK A \in Nat, n \in Nat, type \in Nat \ {MBI2_TAG_END} :
        MoreBy(b, c, A, type, n) /\ Shows(c.mem, A, q)
  BY DEF TellsMore
<1>2. /\ Packed(c) /\ Grows(b, c) /\ c.start = b.start
      /\ A = AlignUp(b.cur, 8) /\ c.cur = A + n
      /\ Tags(c.mem) = Tags(b.mem) \cup {A} /\ c.mem[A].tag_size = n
      /\ \A a \in Tags(b.mem) : a < A /\ c.mem[a] = b.mem[a]
  BY <1>1 DEF MoreBy, Grows, TagBlob
<1>3. /\ b.start \in Nat /\ b.cur \in Nat
      /\ \A a \in Tags(b.mem) : a \in Nat /\ a \in DOMAIN b.mem
  BY PackedFields, TagsType
<1>4. PICK E \in Nat : E = AlignUp(c.cur, 8) /\ A < E
  <2>1. c.cur \in Nat /\ A + 8 <= c.cur
    <3>1. c.mem \in Memories /\ A \in Tags(c.mem)
      BY <1>2, PackedFields
    <3>2. A \in DOMAIN c.mem /\ c.mem[A].size = 8
      BY <3>1, TagsType
    <3> QED
      BY <1>2, <3>2, PackedFields
  <2>2. AlignUp(c.cur, 8) \in Nat /\ c.cur <= AlignUp(c.cur, 8)
    BY <2>1, AlignEight
  <2> QED
    BY <2>1, <2>2
<1>5. TagAfter(c.mem, A) = E
  <2>1. A % 8 = 0
    BY <1>2, <1>3, AlignEight
  <2> QED
    BY <1>2, <1>4, <2>1, AlignSum DEF TagAfter, TagSize
<1> DEFINE T == Tags(b.mem)
           P2 == [a \in T \cup {A, E} |-> IF a = E THEN told \o q ELSE P[a]]
           Q2 == [a \in T \cup {A} |-> IF a = A THEN q ELSE Q[a]]
<1>6. E \notin T \cup {A} /\ A \notin T
  BY <1>2, <1>3, <1>4
<1>7. /\ P \in [T \cup {A} -> Seq(Item)] /\ Q \in [T -> Seq(Item)] /\ told \in Seq(Item)
      /\ TagFirst(b.start) \in T \cup {A} /\ P[TagFirst(b.start)] = <<>> /\ P[A] = told
      /\ \A a \in T :
           /\ Shows(b.mem, a, Q[a])
           /\ TagAfter(b.mem, a) \in T \cup {A} /\ P[TagAfter(b.mem, a)] = P[a] \o Q[a]
           /\ \E r \in Seq(Item) : told = (P[a] \o Q[a]) \o r
  BY <1>2 DEF Tells
<1>8. q \in Seq(Item) /\ told \o q \in Seq(Item)
  <2>1. q \in Seq(Item)
    BY <1>1 DEF Shows
  <2> QED
    BY <1>7, <2>1, ConcatProperties
<1> HIDE DEF T
<1>9. /\ P2 \in [T \cup {A, E} -> Seq(Item)] /\ P2[E] = told \o q
      /\ \A a \in T \cup {A} : P2[a] = P[a]
  BY <1>6, <1>7, <1>8
<1>10. Q2 \in [T \cup {A} -> Seq(Item)] /\ Q2[A] = q /\ \A a \in T : Q2[a] = Q[a]
  BY <1>6, <1>7, <1>8
<1> HIDE DEF P2, Q2
<1>11. ASSUME NEW a \in T
       PROVE  /\ Shows(c.mem, a, Q2[a])
              /\ TagAfter(c.mem, a) \in T \cup {A, E}
              /\ P2[TagAfter(c.mem, a)] = P2[a] \o Q2[a]
              /\ \E r \in Seq(Item) : told \o q = (P2[a] \o Q2[a]) \o r
  <2>1. P2[a] = P[a] /\ Q2[a] = Q[a] /\ TagAfter(c.mem, a) = TagAfter(b.mem, a)
    BY <1>2, <1>9, <1>10 DEF T, TagAfter
  <2>2. Shows(c.mem, a, Q[a])
    <3>1. Keeps(b.mem, c.mem, b.start)
      BY <1>2 DEF Keeps, Grows
    <3>2. a \in Nat /\ b.start < a
      BY <1>3 DEF T, Packed, Laid
    <3> QED
      BY <1>2, <1>3, <1>7, <3>1, <3>2, ShowsKept DEF T
  <2>3. P2[TagAfter(c.mem, a)] = P2[a] \o Q2[a] /\ TagAfter(c.mem, a) \in T \cup {A, E}
    BY <1>7, <1>9, <2>1
  <2>4. PICK r \in Seq(Item) : told = (P[a] \o Q[a]) \o r
    BY <1>7
  <2>5. P[a] \o Q[a] \in Seq(Item)
    BY <1>7, ConcatProperties
  <2>6. r \o q \in Seq(Item) /\ told \o q = (P[a] \o Q[a]) \o (r \o q)
    <3>1. PICK x \in Seq(Item) : x = P[a] \o Q[a]
      BY <2>5
    <3>2. r \o q \in Seq(Item)
      BY <1>8, ConcatProperties
    <3>3. Associative(x, r, q)
      BY <1>8, ItemsAssociative
    <3> QED
      BY <2>4, <3>1, <3>2, <3>3 DEF Associative
  <2> QED
    BY <2>1, <2>2, <2>3, <2>6
<1>12. /\ Shows(c.mem, A, Q2[A]) /\ P2[TagAfter(c.mem, A)] = P2[A] \o Q2[A]
       /\ \E r \in Seq(Item) : told \o q = (P2[A] \o Q2[A]) \o r
  <2>1. (told \o q) \o <<>> = told \o q /\ <<>> \in Seq(Item)
    BY <1>8, ConcatEmptySeq, EmptySeq
  <2> QED
    BY <1>1, <1>5, <1>7, <1>9, <1>10, <2>1
<1>13. TagFirst(c.start) \in T \cup {A, E} /\ P2[TagFirst(c.start)] = <<>>
  BY <1>2, <1>7, <1>9
<1>14. Tags(c.mem) = T \cup {A} /\ (T \cup {A}) \cup {E} = T \cup {A, E}
  BY <1>2 DEF T
<1>15. Tells(c.mem, c.start, Tags(c.mem), E, P2, Q2, told \o q)
  BY <1>5, <1>8, <1>9, <1>10, <1>11, <1>12, <1>13, <1>14 DEF Tells
<1> QED
  BY <1>4, <1>15

(* What has been told is kept when the end tag is added. *)
LEMMA TellsFinished ==
  ASSUME NEW b, Packed(b), Laid(b), HasFirst(b), NoEnd(b), NEW f, f = BuilderFinished(b), f.ok,
         NEW P, NEW Q, NEW told,
         Tells(b.mem, b.start, Tags(b.mem), AlignUp(b.cur, 8), P, Q, told)
  PROVE  Tells(f.mem, f.start, Tags(f.mem) \ {f.cur - 8}, f.cur - 8, P, Q, told)
<1>1. /\ f.start = b.start /\ f.cur - 8 = AlignUp(b.cur, 8)
      /\ Tags(f.mem) \ {f.cur - 8} = Tags(b.mem) /\ Keeps(b.mem, f.mem, b.start)
  BY FinishedEnding
<1> DEFINE T == Tags(b.mem)
           E == AlignUp(b.cur, 8)
<1>2. b.start \in Nat /\ b.mem \in Memories
  BY PackedFields
<1>3. ASSUME NEW a \in T
      PROVE  /\ a \in Nat /\ b.start < a /\ f.mem[a] = b.mem[a]
             /\ TagAfter(f.mem, a) = TagAfter(b.mem, a)
  <2>1. a \in DOMAIN b.mem /\ a \in Nat /\ b.mem[a].size = 8
    BY <1>2, TagsType
  <2>2. b.start < a
    BY <1>2, <2>1 DEF Packed, Laid
  <2>3. f.mem[a] = b.mem[a]
    BY <1>1, <1>2, <2>1, <2>2 DEF Keeps
  <2> QED
    BY <2>1, <2>2, <2>3 DEF TagAfter
<1>4. Tells(b.mem, b.start, T, E, P, Q, told)
  OBVIOUS
<1> HIDE DEF T, E
<1>5. \A a \in T : Shows(f.mem, a, Q[a])
  <2> SUFFICES ASSUME NEW a \in T PROVE Shows(f.mem, a, Q[a])
    OBVIOUS
  <2>1. Shows(b.mem, a, Q[a])
    BY <1>4 DEF Tells
  <2> QED
    BY <1>1, <1>2, <1>3, <2>1, ShowsKept
<1>6. Tells(f.mem, b.start, T, E, P, Q, told)
  BY <1>3, <1>4, <1>5 DEF Tells
<1> QED
  BY <1>1, <1>6 DEF T, E

-----------------------------------------------------------------------------
(* What the loader has told, by what Bender has of it.                     *)

HandedInv ==
  /\ loaded.mods \in Seq(ModuleSet) /\ mod_index <= Len(mbi.mods)
  /\ pc \in {"start", "exit"} => mbi = loaded
  /\ pc \notin {"start", "exit"} =>
       /\ loaded.mods # <<>> /\ mbi.mods = Tail(loaded.mods) /\ "mods" \in mbi.flags
       /\ mbi.cmdline = loaded.mods[1].string /\ mbi.mmap = loaded.mmap
       /\ "mem" \in mbi.flags <=> "mem" \in loaded.flags
  /\ pc \in {"start", "exit", "build", "cmdline", "mem"} => mod_index = 0 /\ ~done
  /\ pc = "mods" /\ done => mod_index = Len(mbi.mods)
  /\ pc \in {"finish"} \cup Reading => done /\ mod_index = Len(mbi.mods)
  /\ pc \notin {"read", "entries", "done", "astray"} => seen = <<>>

ToldCmdline == << <<"cmdline", mbi.cmdline.id>> >>

ToldEntries == IF "mem" \in mbi.flags THEN EntryItems(mbi.mmap) ELSE <<>>

ToldModules == [k \in 1 .. mod_index |-> <<"module", mbi.mods[k].string.id>>]

ToldRsdp == IF ret = Null THEN <<>> ELSE RsdpItems(memory[ret].table)

ToldSoFar ==
  IF pc = "cmdline" THEN <<>>
  ELSE IF pc = "mem" THEN ToldCmdline
  ELSE IF pc = "mods" THEN (ToldCmdline \o ToldEntries) \o ToldModules
  ELSE ((ToldCmdline \o ToldEntries) \o ToldModules) \o ToldRsdp

LEMMA HandedInvInit == Init => HandedInv
<1> SUFFICES ASSUME Init PROVE HandedInv
  OBVIOUS
<1>1. /\ mbi \in Mbis /\ loaded = mbi /\ pc = "start" /\ mod_index = 0 /\ seen = <<>> /\ ~done
  BY DEF Init, RsdpInit
<1>2. mbi.mods \in Seq(ModuleSet)
  BY <1>1, InputInvInit DEF InputInv
<1>3. mod_index <= Len(mbi.mods)
  BY <1>1, <1>2, LenProperties
<1> QED
  BY <1>1, <1>2, <1>3 DEF HandedInv, Reading

LEMMA HandedInvNext == InputInv /\ HandedInv /\ [Next]_vars => HandedInv'
<1> SUFFICES ASSUME InputInv, HandedInv, [Next]_vars PROVE HandedInv'
  OBVIOUS
<1>i. mbi.mods \in Seq(ModuleSet) /\ Len(mbi.mods) \in Nat /\ mod_index \in Nat
  BY LenProperties DEF InputInv
<1>1. CASE NoModule
  BY <1>1 DEF NoModule, input, reader, rsdpVars, HandedInv, Reading
<1>2. CASE PopModule
  <2>1. /\ pc = "start" /\ pc' = "build" /\ mbi.mods # <<>> /\ "mods" \in mbi.flags
        /\ mbi' = [mbi EXCEPT !.mods = Tail(@), !.cmdline = Head(mbi.mods).string,
                              !.flags = @ \cup {"cmdline"}]
        /\ UNCHANGED <<loaded, mod_index, seen, done>>
    BY <1>2 DEF PopModule, rsdpVars, reader
  <2>2. /\ mbi'.mods = Tail(mbi.mods) /\ mbi'.cmdline = Head(mbi.mods).string
        /\ mbi'.flags = mbi.flags \cup {"cmdline"} /\ mbi'.mmap = mbi.mmap
    BY <2>1 DEF InputInv
  <2>3. Head(mbi.mods) = mbi.mods[1]
    OBVIOUS
  <2>4. mod_index = 0 /\ mbi = loaded /\ ~done /\ seen = <<>>
    BY <2>1 DEF HandedInv
  <2>5. 0 <= Len(Tail(mbi.mods))
    BY <1>i, <2>1, HeadTailProperties, LenProperties
  <2>6. "mem" \in mbi'.flags <=> "mem" \in loaded.flags
    BY <2>2, <2>4
  <2> QED
    BY <2>1, <2>2, <2>3, <2>4, <2>5, <2>6 DEF HandedInv, Reading
<1>3. CASE Build \/ ConvertCmdline \/ ConvertMemmap
  <2>1. /\ pc \in {"build", "cmdline", "mem"} /\ pc' \in {"cmdline", "mem", "mods", "halted"}
        /\ UNCHANGED <<mbi, loaded, mod_index, seen, done>>
    BY <1>3 DEF Build, ConvertCmdline, ConvertMemmap, GoOn, input, reader, rsdpVars
  <2> QED
    BY <2>1 DEF HandedInv, Reading
<1>4. CASE ConvertModule
  <2>1. /\ pc = "mods" /\ pc' \in {"mods", "halted"} /\ mod_index' = mod_index + 1
        /\ mod_index < Len(mbi.mods) /\ UNCHANGED <<mbi, loaded, seen, done>>
    BY <1>4 DEF ConvertModule, GoOn, input, reader, rsdpVars
  <2>2. ~done
    BY <1>i, <2>1 DEF HandedInv
  <2>3. mod_index' <= Len(mbi.mods)
    BY <1>i, <2>1
  <2> QED
    BY <2>1, <2>2, <2>3 DEF HandedInv, Reading
<1>5. CASE SearchRsdp
  <2>1. /\ pc = "mods" /\ pc' = pc /\ ("mods" \in mbi.flags => mod_index >= Len(mbi.mods))
        /\ UNCHANGED <<mbi, loaded, mod_index, seen>>
    BY <1>5 DEF SearchRsdp, reader
  <2>2. mod_index = Len(mbi.mods)
    BY <1>i, <2>1 DEF HandedInv
  <2> QED
    BY <2>1, <2>2 DEF HandedInv, Reading
<1>6. CASE ConvertRsdp \/ Finish
  <2>1. /\ pc \in {"mods", "finish"} /\ pc' \in {"finish", "boot", "halted"} /\ done
        /\ UNCHANGED <<mbi, loaded, mod_index, seen, done>>
    BY <1>6 DEF ConvertRsdp, Finish, GoOn, input, reader, rsdpVars, HandedInv
  <2> QED
    BY <2>1 DEF HandedInv, Reading
<1>7. CASE KernelStart \/ ReadCmdline \/ ReadModule \/ ReadMemoryMap \/ ReadEntry
           \/ LastEntryRead \/ ReadOther
  <2>1. /\ pc \in Reading /\ pc' \in {"read", "entries", "done", "astray"}
        /\ UNCHANGED <<mbi, loaded, mod_index, done>>
    BY <1>7 DEF KernelStart, ReadCmdline, ReadModule, ReadMemoryMap, ReadEntry,
       LastEntryRead, ReadOther, GoToNextTag, input, rsdpVars, Reading
  <2> QED
    BY <2>1 DEF HandedInv, Reading
<1>8. CASE UNCHANGED vars
  BY <1>8 DEF vars, rsdpVars, HandedInv
<1> QED
  BY <1>1, <1>2, <1>3, <1>4, <1>5, <1>6, <1>7, <1>8 DEF Next, Step

-----------------------------------------------------------------------------
(* What the structure tells while it is built, and what a kernel has       *)
(* printed where it is.                                                    *)

Printed(P, Q) ==
  /\ pc = "boot" => seen = <<>>
  /\ pc = "read" => seen = P[tag]
  /\ pc = "entries" =>
       /\ bld.mem[tag].type = MBI2_TAG_MEMORY
       /\ \E k \in 0 .. Len(Q[tag]) :
            /\ seen = P[tag] \o SubSeq(Q[tag], 1, k)
            /\ entry = IF k = Len(Q[tag]) THEN 0 ELSE tag + 16 + 24 * k
  /\ pc = "done" => seen = ToldSoFar

Telling(b, told) ==
  \E P, Q : Tells(b.mem, b.start, Tags(b.mem), AlignUp(b.cur, 8), P, Q, told)

TellsAll(b, P, Q, told) == Tells(b.mem, b.start, Tags(b.mem) \ {b.cur - 8}, b.cur - 8, P, Q, told)

ToldInv ==
  /\ pc \in Building => Telling(bld, ToldSoFar)
  /\ pc \in Reading => \E P, Q : TellsAll(bld, P, Q, ToldSoFar) /\ Printed(P, Q)

(* A tag's type tells what a kernel prints of it. *)
LEMMA ShowsOf ==
  ASSUME NEW mem, NEW a, NEW q, Shows(mem, a, q)
  PROVE  /\ q \in Seq(Item)
         /\ mem[a].type = MBI2_TAG_CMDLINE => ShowsCmdline(mem, a, q)
         /\ mem[a].type = MBI2_TAG_MODULE => ShowsModule(mem, a, q)
         /\ mem[a].type = MBI2_TAG_MEMORY => ShowsEntries(mem, a, q)
         /\ mem[a].type \notin {MBI2_TAG_CMDLINE, MBI2_TAG_MODULE, MBI2_TAG_MEMORY}
              => ShowsOther(mem, a, q)
BY DEF Shows, ShowsCmdline, ShowsModule, ShowsEntries, ShowsOther, MBI2_TAG_CMDLINE,
   MBI2_TAG_MODULE, MBI2_TAG_MEMORY

(* mbi2_tag_next, when all of a tag has been printed. *)
LEMMA PrintedTag ==
  ASSUME Packed(bld), Laid(bld), Ending(bld), NEW P, NEW Q, NEW told, TellsAll(bld, P, Q, told),
         tag \in Tags(bld.mem), tag # bld.cur - 8, GoToNextTag, seen' = P[tag] \o Q[tag]
  PROVE  /\ pc' \in {"read", "done"}
         /\ pc' = "read" => seen' = P[tag']
         /\ pc' = "done" => seen' = told
<1> DEFINE e == bld.cur - 8
           T == Tags(bld.mem) \ {e}
<1>1. PICK n : n = TagAfter(bld.mem, tag)
  OBVIOUS
<1>2. n \in T \cup {e} /\ P[n] = P[tag] \o Q[tag] /\ P[e] = told
  BY <1>1 DEF TellsAll, Tells
<1>3. e \in Tags(bld.mem) /\ bld.mem[e].type = MBI2_TAG_END
  BY DEF Ending, TagBlob
<1>4. n \in Tags(bld.mem) /\ IsTag(n)
  BY <1>2, <1>3 DEF IsTag, Tags
<1>5. n # 0
  BY <1>4, PackedFields, TagsType DEF Packed, Laid
<1>6. /\ tag' = IF bld.mem[n].type = MBI2_TAG_END THEN 0 ELSE n
      /\ pc' = IF tag' = 0 THEN "done" ELSE "read"
  BY <1>1, <1>4 DEF GoToNextTag
<1>7. CASE n = e
  <2>1. pc' = "done"
    BY <1>3, <1>6, <1>7
  <2> QED
    BY <1>2, <1>7, <2>1
<1>8. CASE n # e
  <2>1. bld.mem[n].type # MBI2_TAG_END
    BY <1>4, <1>8 DEF Ending
  <2>2. tag' = n /\ pc' = "read"
    BY <1>5, <1>6, <2>1
  <2> QED
    BY <1>2, <2>2
<1> QED
  BY <1>7, <1>8

(* Nothing of what Bender has of it changes any more. *)
LEMMA ToldSoFarKept ==
  ASSUME UNCHANGED <<mbi, mod_index, ret, memory>>,
         pc \in {"finish"} \cup Reading, pc' \in {"finish"} \cup Reading
  PROVE  ToldSoFar' = ToldSoFar
<1>1. pc \notin {"cmdline", "mem", "mods"} /\ pc' \notin {"cmdline", "mem", "mods"}
  BY DEF Reading
<1>2. /\ ToldSoFar = ((ToldCmdline \o ToldEntries) \o ToldModules) \o ToldRsdp
      /\ ToldSoFar' = ((ToldCmdline' \o ToldEntries') \o ToldModules') \o ToldRsdp'
  BY <1>1 DEF ToldSoFar
<1>3. /\ ToldCmdline' = ToldCmdline /\ ToldEntries' = ToldEntries
      /\ ToldModules' = ToldModules /\ ToldRsdp' = ToldRsdp
  BY DEF ToldCmdline, ToldEntries, ToldModules, ToldRsdp
<1> QED
  BY <1>2, <1>3

(* A step of the kernel prints what is next. *)
LEMMA ToldInvRead ==
  ASSUME BldInv, LaidInv, ToldInv,
         ReadCmdline \/ ReadModule \/ ReadMemoryMap \/ ReadEntry \/ LastEntryRead \/ ReadOther
  PROVE  ToldInv'
<1>0. /\ pc \in {"read", "entries"} /\ bld' = bld
      /\ UNCHANGED <<mbi, mod_index, ret, memory>>
  BY DEF ReadCmdline, ReadModule, ReadMemoryMap, ReadEntry, LastEntryRead, ReadOther, input,
     rsdpVars
<1>1. /\ Packed(bld) /\ Laid(bld) /\ Ending(bld) /\ tag \in Tags(bld.mem) /\ tag # bld.cur - 8
      /\ pc \in Reading
  BY <1>0 DEF BldInv, LaidInv, Reading
<1>2. PICK P, Q : TellsAll(bld, P, Q, ToldSoFar) /\ Printed(P, Q)
  BY <1>1 DEF ToldInv
<1> DEFINE p == P[tag]
           q == Q[tag]
<1>3. /\ p \in Seq(Item) /\ q \in Seq(Item) /\ Shows(bld.mem, tag, q)
  BY <1>1, <1>2 DEF TellsAll, Tells
<1>n. PICK n \in Nat : n = Len(q)
  BY <1>3
<1>t. tag \in Nat
  BY <1>1, PackedFields, TagsType
<1>4. ASSUME GoToNextTag, seen' = p \o q PROVE ToldInv'
  <2>1. /\ pc' \in {"read", "done"}
        /\ pc' = "read" => seen' = P[tag']
        /\ pc' = "done" => seen' = ToldSoFar
    BY <1>1, <1>2, <1>4, PrintedTag
  <2>2. pc' \in Reading /\ pc' \notin Building
    BY <2>1 DEF Reading, Building
  <2>3. ToldSoFar' = ToldSoFar
    BY <1>0, <1>1, <2>2, ToldSoFarKept
  <2>4. Printed(P, Q)'
    BY <2>1, <2>3 DEF Printed
  <2>5. TellsAll(bld', P, Q, ToldSoFar')
    BY <1>0, <1>2, <2>3
  <2> QED
    BY <2>2, <2>4, <2>5 DEF ToldInv
<1>5. ASSUME pc' = "entries", tag' = tag, bld.mem[tag].type = MBI2_TAG_MEMORY,
             NEW k \in 0 .. n, seen' = p \o SubSeq(q, 1, k),
             entry' = IF k = n THEN 0 ELSE tag + 16 + 24 * k
      PROVE  ToldInv'
  <2>2. pc' \in Reading /\ pc' \notin Building
    BY <1>5 DEF Reading, Building
  <2>3. ToldSoFar' = ToldSoFar
    BY <1>0, <1>1, <2>2, ToldSoFarKept
  <2>4. Printed(P, Q)'
    BY <1>0, <1>5, <1>n DEF Printed
  <2>5. TellsAll(bld', P, Q, ToldSoFar')
    BY <1>0, <1>2, <2>3
  <2> QED
    BY <2>2, <2>4, <2>5 DEF ToldInv
<1>6. ASSUME pc = "read", NEW x, seen' = Append(seen, x), q = <<x>>, GoToNextTag PROVE ToldInv'
  <2>1. seen = p
    BY <1>2, <1>6 DEF Printed
  <2>2. x \in Item
    <3>1. <<x>> \in Seq(Item) /\ Len(<<x>>) = 1 /\ <<x>>[1] = x
      BY <1>3, <1>6
    <3>2. 1 \in 1 .. Len(<<x>>)
      BY <3>1
    <3> QED
      BY <3>1, <3>2, ElementOfSeq
  <2>3. Append(p, x) = p \o <<x>>
    BY <1>3, <2>2, AppendIsConcat
  <2> QED
    BY <1>4, <1>6, <2>1, <2>3
<1> HIDE DEF p, q
<1>7. CASE ReadCmdline
  <2>1. /\ pc = "read" /\ bld.mem[tag].type = MBI2_TAG_CMDLINE /\ GoToNextTag
        /\ seen' = Append(seen, <<"cmdline", bld.mem[tag + 8].string>>)
    BY <1>7 DEF ReadCmdline, TagPayload, TagSize
  <2>2. q = << <<"cmdline", bld.mem[tag + 8].string>> >>
    BY <1>3, <2>1, ShowsOf DEF ShowsCmdline
  <2> QED
    BY <1>6, <2>1, <2>2
<1>8. CASE ReadModule
  <2>0. (tag + 8) + 8 = tag + 16
    BY <1>t
  <2>1. /\ pc = "read" /\ bld.mem[tag].type = MBI2_TAG_MODULE /\ GoToNextTag
        /\ seen' = Append(seen, <<"module", bld.mem[tag + 16].string>>)
    BY <1>8, <2>0 DEF ReadModule, TagPayload, TagSize, ModuleSize
  <2>2. q = << <<"module", bld.mem[tag + 16].string>> >>
    BY <1>3, <2>1, ShowsOf DEF ShowsModule
  <2> QED
    BY <1>6, <2>1, <2>2
<1>9. CASE ReadOther
  <2>1. /\ pc = "read" /\ GoToNextTag
        /\ bld.mem[tag].type \notin {MBI2_TAG_CMDLINE, MBI2_TAG_MODULE, MBI2_TAG_MEMORY}
        /\ seen' = Append(seen, <<"unknown", bld.mem[tag].type>>)
    BY <1>9 DEF ReadOther
  <2>2. ShowsOther(bld.mem, tag, q)
    BY <1>3, <2>1, ShowsOf
  <2>3. q = << <<"unknown", bld.mem[tag].type>> >>
    BY <2>2, Zenon DEF ShowsOther
  <2> QED
    BY <1>6, <2>1, <2>3
<1>10. CASE ReadMemoryMap
  <2>1. /\ pc = "read" /\ pc' = "entries" /\ tag' = tag /\ seen' = seen
        /\ bld.mem[tag].type = MBI2_TAG_MEMORY /\ entry' = tag + 16
    <3>1. (tag + 8) + 8 = tag + 16
      BY <1>t
    <3> QED
      BY <1>10, <3>1 DEF ReadMemoryMap, MemoryMapFirst, TagPayload, TagSize, MemorySize
  <2>2. n # 0
    BY <1>3, <1>n, <2>1, ShowsOf DEF ShowsEntries
  <2>3. seen = p
    BY <1>2, <2>1 DEF Printed, p
  <2>4. p \o SubSeq(q, 1, 0) = p
    <3>1. SubSeq(q, 1, 0) = <<>>
      BY SubSeqEmpty
    <3> QED
      BY <1>3, <3>1, ConcatEmptySeq
  <2>5. 0 \in 0 .. n /\ tag + 16 = tag + 16 + 24 * 0
    BY <1>t
  <2>6. entry' = IF 0 = n THEN 0 ELSE tag + 16 + 24 * 0
    BY <2>1, <2>2, <2>5
  <2> QED
    BY <1>5, <2>1, <2>3, <2>4, <2>5, <2>6
<1>11. ASSUME pc = "entries"
       PROVE  /\ ShowsEntries(bld.mem, tag, q) /\ bld.mem[tag].type = MBI2_TAG_MEMORY
              /\ \E k \in 0 .. n : /\ seen = p \o SubSeq(q, 1, k)
                                   /\ entry = IF k = n THEN 0 ELSE tag + 16 + 24 * k
  BY <1>2, <1>3, <1>n, <1>11, ShowsOf DEF Printed, p, q
<1>12. CASE ReadEntry
  <2>0. pc = "entries"
    BY <1>12 DEF ReadEntry
  <2>1. PICK k \in 0 .. n : /\ seen = p \o SubSeq(q, 1, k)
                            /\ entry = IF k = n THEN 0 ELSE tag + 16 + 24 * k
    BY <1>11, <2>0
  <2>2. k + 1 \in 1 .. n /\ entry = tag + 16 + 24 * k
    BY <1>12, <2>1 DEF ReadEntry
  <2>3. /\ bld.mem[tag].tag_size = 16 + 24 * n /\ bld.mem[tag + 8].entry_size = 24
        /\ q[k + 1] = <<"entry", bld.mem[entry].entry>>
    <3>1. (k + 1) - 1 = k
      OBVIOUS
    <3>2. \A l \in 1 .. n : q[l] = <<"entry", bld.mem[tag + 16 + 24 * (l - 1)].entry>>
      BY <1>11, <1>n, <2>0 DEF ShowsEntries
    <3> QED
      BY <1>11, <1>n, <2>0, <2>2, <3>1, <3>2 DEF ShowsEntries
  <2>4. seen' = Append(seen, q[k + 1])
    BY <1>12, <2>3 DEF ReadEntry
  <2>5. entry' = IF k + 1 = n THEN 0 ELSE tag + 16 + 24 * (k + 1)
    <3>1. entry + 24 = tag + 16 + 24 * (k + 1)
      BY <1>t, <2>2
    <3>2. entry + 24 < tag + (16 + 24 * n) <=> k + 1 # n
      BY <1>t, <2>2
    <3>3. entry' = IF entry + 24 < tag + (16 + 24 * n) THEN entry + 24 ELSE 0
      BY <1>12, <2>3 DEF ReadEntry, MemoryMapNext, TagPayload, TagSize
    <3> QED
      BY <3>1, <3>2, <3>3
  <2>6. Append(seen, q[k + 1]) = p \o SubSeq(q, 1, k + 1)
    <3>1. q[k + 1] \in Item
      BY <1>3, <1>n, <2>2, ElementOfSeq
    <3>2. SubSeq(q, 1, k) \in Seq(Item)
      <4>1. \A i \in 1 .. k : q[i] \in Item
        BY <1>3, <1>n, ElementOfSeq
      <4> QED
        BY <4>1, SubSeqProperties
    <3>3. SubSeq(q, 1, k + 1) = SubSeq(q, 1, k) \o <<q[k + 1]>>
      <4>1. 1 \in 1 .. Len(q) /\ k + 1 \in 1 .. Len(q) /\ (k + 1) - 1 = k
        BY <1>n, <2>2
      <4>2. SubSeq(q, 1, k + 1) = SubSeq(q, 1, (k + 1) - 1) \o <<q[k + 1]>>
        BY <1>3, <4>1, SubSeqRecursiveSecond
      <4> QED
        BY <4>1, <4>2
    <3>4. Append(seen, q[k + 1]) = (p \o SubSeq(q, 1, k)) \o <<q[k + 1]>>
      <4>1. p \o SubSeq(q, 1, k) \in Seq(Item)
        BY <1>3, <3>2, ConcatProperties
      <4> QED
        BY <2>1, <3>1, <4>1, AppendIsConcat
    <3>5. <<q[k + 1]>> \in Seq(Item)
      BY <3>1, OneItem
    <3>6. (p \o SubSeq(q, 1, k)) \o <<q[k + 1]>> = p \o (SubSeq(q, 1, k) \o <<q[k + 1]>>)
      <4>1. Associative(p, SubSeq(q, 1, k), <<q[k + 1]>>)
        BY <1>3, <3>2, <3>5, ItemsAssociative
      <4> QED
        BY <4>1 DEF Associative
    <3> QED
      BY <3>3, <3>4, <3>6
  <2>7. pc' = "entries" /\ tag' = tag /\ k + 1 \in 0 .. n
    BY <1>12, <2>0, <2>2 DEF ReadEntry
  <2> QED
    BY <1>5, <1>11, <2>0, <2>4, <2>5, <2>6, <2>7
<1>13. CASE LastEntryRead
  <2>0. pc = "entries" /\ GoToNextTag /\ seen' = seen /\ entry = 0
    BY <1>13 DEF LastEntryRead
  <2>1. PICK k \in 0 .. n : /\ seen = p \o SubSeq(q, 1, k)
                            /\ entry = IF k = n THEN 0 ELSE tag + 16 + 24 * k
    BY <1>11, <2>0
  <2>2. k = n
    BY <1>t, <2>0, <2>1
  <2>3. SubSeq(q, 1, n) = q
    BY <1>3, <1>n, SubSeqFull
  <2> QED
    BY <1>4, <2>0, <2>1, <2>2, <2>3
<1> QED
  BY <1>7, <1>8, <1>9, <1>10, <1>12, <1>13

ModuleItems(mods, n) == [k \in 1 .. n |-> <<"module", mods[k].string.id>>]

LEMMA ModuleItemsType ==
  ASSUME NEW mods \in Seq(ModuleSet), NEW n \in 0 .. Len(mods)
  PROVE  /\ ModuleItems(mods, n) \in Seq(Item) /\ Len(ModuleItems(mods, n)) = n
         /\ \A k \in 1 .. n : ModuleItems(mods, n)[k] = <<"module", mods[k].string.id>>
<1>1. n \in Nat /\ \A k \in 1 .. n : mods[k] \in ModuleSet
  BY ElementOfSeq
<1>2. \A k \in 1 .. n : <<"module", mods[k].string.id>> \in Item
  <2> SUFFICES ASSUME NEW k \in 1 .. n PROVE <<"module", mods[k].string.id>> \in Item
    OBVIOUS
  <2>1. mods[k].string.id \in STRING
    BY <1>1 DEF ModuleSet, String
  <2> QED
    BY <2>1, ItemsThere
<1>3. ModuleItems(mods, n) = [k \in 1 .. n |-> <<"module", mods[k].string.id>>]
  BY DEF ModuleItems
<1> QED
  BY <1>1, <1>2, <1>3

LEMMA OneMoreModule ==
  ASSUME NEW mods \in Seq(ModuleSet), NEW n \in 0 .. Len(mods) - 1
  PROVE  ModuleItems(mods, n + 1)
           = ModuleItems(mods, n) \o << <<"module", mods[n + 1].string.id>> >>
<1> DEFINE x == <<"module", mods[n + 1].string.id>>
           s == ModuleItems(mods, n)
           t == ModuleItems(mods, n + 1)
<1>1. PICK m \in Nat : m = n
  OBVIOUS
<1>2. n \in 0 .. Len(mods) /\ n + 1 \in 0 .. Len(mods) /\ m + 1 \in 1 .. m + 1
  BY <1>1
<1>3. /\ s \in Seq(Item) /\ Len(s) = m
      /\ \A k \in 1 .. m : s[k] = <<"module", mods[k].string.id>>
  BY <1>1, <1>2, ModuleItemsType
<1>4. /\ t \in Seq(Item) /\ Len(t) = m + 1
      /\ \A k \in 1 .. m + 1 : t[k] = <<"module", mods[k].string.id>>
  BY <1>1, <1>2, ModuleItemsType
<1>5. t[m + 1] = x
  BY <1>1, <1>2, <1>4
<1>6. x \in Item
  BY <1>2, <1>4, <1>5, ElementOfSeq
<1> HIDE DEF x, s, t
<1>7. <<x>> \in Seq(Item) /\ Len(<<x>>) = 1 /\ <<x>>[1] = x
  BY <1>6, OneItem
<1>8. /\ s \o <<x>> \in Seq(Item) /\ Len(s \o <<x>>) = m + 1
      /\ \A k \in 1 .. m + 1 : (s \o <<x>>)[k] = IF k <= m THEN s[k] ELSE <<x>>[k - m]
  <2> DEFINE y == <<x>>
  <2>1. y \in Seq(Item) /\ Len(y) = 1
    BY <1>7
  <2> HIDE DEF y
  <2> QED
    BY <1>3, <2>1, ConcatProperties DEF y
<1>9. \A k \in 1 .. m + 1 : t[k] = (s \o <<x>>)[k]
  <2> SUFFICES ASSUME NEW k \in 1 .. m + 1 PROVE t[k] = (s \o <<x>>)[k]
    OBVIOUS
  <2>1. CASE k <= m
    <3>1. k \in 1 .. m
      BY <2>1
    <3> QED
      BY <1>3, <1>4, <1>8, <2>1, <3>1
  <2>2. CASE ~(k <= m)
    <3>1. k = m + 1 /\ k - m = 1
      BY <2>2
    <3> QED
      BY <1>5, <1>7, <1>8, <2>2, <3>1
  <2> QED
    BY <2>1, <2>2
<1>10. t = s \o <<x>>
  <2> DEFINE y == s \o <<x>>
  <2>1. y \in Seq(Item) /\ Len(y) = m + 1 /\ \A k \in 1 .. m + 1 : t[k] = y[k]
    BY <1>8, <1>9
  <2> HIDE DEF y
  <2>2. t = y
    BY <1>4, <2>1, SMTT(40)
  <2> QED
    BY <2>2 DEF y
<1> QED
  BY <1>10 DEF s, t, x

LEMMA ToldTypes ==
  ASSUME RsdpInv, InputInv, HandedInv
  PROVE  /\ ToldCmdline \in Seq(Item) /\ ToldEntries \in Seq(Item) /\ ToldModules \in Seq(Item)
         /\ done => ToldRsdp \in Seq(Item)
<1>1. ToldCmdline \in Seq(Item)
  <2>1. mbi.cmdline.id \in STRING
    BY DEF InputInv, String
  <2>2. <<"cmdline", mbi.cmdline.id>> \in Item
    BY <2>1, ItemsThere
  <2> QED
    BY <2>2, OneItem DEF ToldCmdline
<1>2. <<>> \in Seq(Item)
  OBVIOUS
<1>3. ToldEntries \in Seq(Item)
  <2>1. mbi.mmap \in Seq(EntrySet)
    BY DEF InputInv
  <2> QED
    BY <1>2, <2>1, EntryItemsType DEF ToldEntries
<1>4. ToldModules \in Seq(Item)
  <2>1. mbi.mods \in Seq(ModuleSet) /\ mod_index \in 0 .. Len(mbi.mods)
    BY LenProperties DEF InputInv, HandedInv
  <2>2. ToldModules = ModuleItems(mbi.mods, mod_index)
    BY DEF ToldModules, ModuleItems
  <2> QED
    BY <2>1, <2>2, ModuleItemsType
<1>5. ASSUME done PROVE ToldRsdp \in Seq(Item)
  <2>1. CASE ret = Null
    BY <1>2, <2>1 DEF ToldRsdp
  <2>2. CASE ret # Null
    <3>1. \A r : RsdpItems(r) \in Seq(Item)
      <4> SUFFICES ASSUME NEW r PROVE RsdpItems(r) \in Seq(Item)
        OBVIOUS
      <4>1. PICK type \in Nat : type = IF r.rev = 1 THEN MBI2_TAG_RSDP_V1 ELSE MBI2_TAG_RSDP_V2
        BY DEF MBI2_TAG_RSDP_V1, MBI2_TAG_RSDP_V2
      <4>2. <<"unknown", type>> \in Item
        BY ItemsThere
      <4> QED
        BY <4>1, <4>2, OneItem DEF RsdpItems
    <3> QED
      BY <2>2, <3>1 DEF ToldRsdp
  <2> QED
    BY <2>1, <2>2
<1> QED
  BY <1>1, <1>3, <1>4, <1>5

(* A tag more tells more. *)
LEMMA MoreTold ==
  ASSUME NEW b, Packed(b), Laid(b), NEW told, Telling(b, told), NEW c, NEW q, TellsMore(b, c, q)
  PROVE  Telling(c, told \o q)
BY TellsTag DEF Telling

(* Nothing has been told when building begins. *)
LEMMA NothingTold ==
  ASSUME NEW at \in Nat, NEW n \in Nat, BuilderAt(at, n).ok
  PROVE  Telling(BuilderAt(at, n), <<>>)
<1> DEFINE b == BuilderAt(at, n)
<1>1. /\ b.start = at /\ at % 8 = 0 /\ b.cur = at + 8 /\ DOMAIN b.mem = {at}
      /\ b.mem[at] = InfoBlob(0)
  BY BuildPacked
<1> HIDE DEF b
<1>2. Tags(b.mem) = {}
  <2>1. "type" \notin DOMAIN InfoBlob(0)
    BY DEF InfoBlob
  <2> QED
    BY <1>1, <2>1 DEF Tags
<1>3. AlignUp(b.cur, 8) = TagFirst(b.start)
  <2>1. (at + 8) % 8 = 0
    BY <1>1
  <2>2. AlignUp(at + 8, 8) = at + 8
    <3>1. PICK m \in Nat : m = at + 8
      OBVIOUS
    <3>2. PICK x \in Nat : x = AlignUp(m, 8)
      BY AlignEight
    <3>3. m <= x /\ x < m + 8 /\ m % 8 = 0 /\ x % 8 = 0
      BY <2>1, <3>1, <3>2, AlignEight
    <3>4. x = m
      BY <3>3
    <3> QED
      BY <3>1, <3>2, <3>4
  <2> QED
    BY <1>1, <2>2 DEF TagFirst, BootInfoSize
<1> DEFINE E == AlignUp(b.cur, 8)
           none == <<>>
           P == [a \in {} \cup {E} |-> none]
           Q == [a \in {} |-> none]
<1>4. none \in Seq(Item)
  OBVIOUS
<1>5. P \in [{} \cup {E} -> Seq(Item)] /\ Q \in [{} -> Seq(Item)] /\ P[E] = none
  BY <1>4
<1> HIDE DEF P, Q, E, none
<1>6. TagFirst(b.start) = E
  BY <1>3 DEF E
<1>7. Tells(b.mem, b.start, {}, E, P, Q, none)
  <2>1. TagFirst(b.start) \in {} \cup {E} /\ P[TagFirst(b.start)] = none /\ none = <<>>
    BY <1>5, <1>6 DEF none
  <2> QED
    BY <1>4, <1>5, <2>1 DEF Tells
<1> QED
  BY <1>2, <1>7 DEF Telling, E, none, b

LEMMA TellsSeq == ASSUME NEW b, NEW c, NEW q, TellsMore(b, c, q) PROVE q \in Seq(Item)
BY DEF TellsMore, Shows

LEMMA ToldInvInit == Init => ToldInv
BY DEF Init, ToldInv, Building, Reading

LEMMA ToldInvNext ==
  RsdpInv /\ InputInv /\ BldInv /\ LaidInv /\ HandedInv /\ ToldInv /\ [Next]_vars => ToldInv'
<1> SUFFICES ASSUME RsdpInv, InputInv, BldInv, LaidInv, HandedInv, ToldInv, [Next]_vars
             PROVE  ToldInv'
  OBVIOUS
<1>i. /\ mbi.cmdline \in String /\ mbi.mmap \in Seq(EntrySet) /\ mbi.mmap # <<>>
      /\ mbi.mods \in Seq(ModuleSet) /\ mod_index \in Nat /\ Len(mbi.mods) \in Nat
      /\ area.phys_addr \in Nat /\ area.length \in Nat
  BY LenProperties DEF InputInv
<1>p. Packed(bld) /\ (pc \in Building => Laid(bld))
  BY DEF BldInv, LaidInv
<1>t. /\ ToldCmdline \in Seq(Item) /\ ToldEntries \in Seq(Item) /\ ToldModules \in Seq(Item)
      /\ done => ToldRsdp \in Seq(Item)
  BY ToldTypes
<1>e. \A s \in Seq(Item) : s \o <<>> = s /\ <<>> \o s = s
  BY ConcatEmptySeq
<1>h. ASSUME pc' = "halted" PROVE ToldInv'
  BY <1>h DEF ToldInv, Building, Reading
<1>b. ASSUME pc' \in Building, Telling(bld', ToldSoFar') PROVE ToldInv'
  BY <1>b DEF ToldInv, Building, Reading
<1>1. CASE NoModule \/ PopModule
  <2>1. pc' \in {"exit", "build"}
    BY <1>1 DEF NoModule, PopModule
  <2> QED
    BY <2>1 DEF ToldInv, Building, Reading
<1>2. CASE Build
  <2>1. /\ bld' = BuilderAt(area.phys_addr, area.length)
        /\ pc' = (IF bld'.ok THEN "cmdline" ELSE "halted")
    BY <1>2 DEF Build, GoOn
  <2>2. CASE ~bld'.ok
    BY <1>h, <2>1, <2>2
  <2>3. CASE bld'.ok
    <3>1. Telling(bld', <<>>)
      BY <1>i, <2>1, <2>3, NothingTold
    <3>2. pc' = "cmdline" /\ ToldSoFar' = <<>>
      BY <2>1, <2>3 DEF ToldSoFar
    <3> QED
      BY <1>b, <3>1, <3>2 DEF Building
  <2> QED
    BY <2>2, <2>3
<1>3. CASE ConvertCmdline
  <2>1. /\ pc = "cmdline" /\ "cmdline" \in mbi.flags /\ mbi' = mbi
        /\ bld' = AddBootCmdline(bld, mbi.cmdline)
        /\ pc' = (IF bld'.ok THEN "mem" ELSE "halted")
    BY <1>3 DEF ConvertCmdline, GoOn, input, LaidInv
  <2>2. CASE ~bld'.ok
    BY <1>h, <2>1, <2>2
  <2>3. CASE bld'.ok
    <3>1. Telling(bld, <<>>) /\ Laid(bld)
      BY <1>p, <2>1 DEF ToldInv, ToldSoFar, Building
    <3>2. TellsMore(bld, bld', ToldCmdline)
      BY <1>i, <1>p, <2>1, <2>3, <3>1, CmdlineTells DEF ToldCmdline
    <3>3. Telling(bld', <<>> \o ToldCmdline)
      BY <1>p, <3>1, <3>2, MoreTold
    <3>4. pc' = "mem" /\ ToldSoFar' = ToldCmdline
      BY <2>1, <2>3 DEF ToldSoFar, ToldCmdline
    <3>5. <<>> \o ToldCmdline = ToldCmdline
      BY <1>t, <1>e
    <3> QED
      BY <1>b, <3>3, <3>4, <3>5 DEF Building
  <2> QED
    BY <2>2, <2>3
<1>4. CASE ConvertMemmap
  <2>1. /\ pc = "mem" /\ mbi' = mbi /\ mod_index' = mod_index /\ mod_index = 0
        /\ bld' = (IF "mem" \in mbi.flags THEN AddMbi1Memmap(bld, mbi.mmap) ELSE bld)
        /\ pc' = (IF bld'.ok THEN "mods" ELSE "halted")
    BY <1>4 DEF ConvertMemmap, GoOn, input, HandedInv
  <2>2. CASE ~bld'.ok
    BY <1>h, <2>1, <2>2
  <2>3. CASE bld'.ok
    <3>1. Telling(bld, ToldCmdline) /\ Laid(bld)
      BY <1>p, <2>1 DEF ToldInv, ToldSoFar, Building
    <3>2. Telling(bld', ToldCmdline \o ToldEntries)
      <4>1. CASE "mem" \in mbi.flags
        <5>1. TellsMore(bld, bld', ToldEntries)
          BY <1>i, <1>p, <2>1, <2>3, <3>1, <4>1, MmapTells DEF ToldEntries
        <5> QED
          BY <1>p, <3>1, <5>1, MoreTold
      <4>2. CASE "mem" \notin mbi.flags
        <5>1. bld' = bld /\ ToldEntries = <<>>
          BY <2>1, <4>2 DEF ToldEntries
        <5>2. ToldCmdline \o ToldEntries = ToldCmdline
          BY <1>t, <1>e, <5>1
        <5> QED
          BY <3>1, <5>1, <5>2
      <4> QED
        BY <4>1, <4>2
    <3>3. pc' = "mods" /\ ToldCmdline' = ToldCmdline /\ ToldEntries' = ToldEntries
      BY <2>1, <2>3 DEF ToldCmdline, ToldEntries
    <3>4. ToldModules' = <<>>
      <4>1. ToldModules' = [k \in 1 .. 0 |-> <<"module", mbi.mods[k].string.id>>]
        BY <2>1 DEF ToldModules
      <4>2. 1 .. 0 = {}
        OBVIOUS
      <4> QED
        BY <4>1, <4>2
    <3>5. ToldSoFar' = ToldCmdline \o ToldEntries
      <4>1. ToldSoFar' = (ToldCmdline \o ToldEntries) \o <<>>
        BY <3>3, <3>4 DEF ToldSoFar
      <4>2. ToldCmdline \o ToldEntries \in Seq(Item)
        BY <1>t, ConcatProperties
      <4> QED
        BY <1>e, <4>1, <4>2
    <3> QED
      BY <1>b, <3>2, <3>3, <3>5 DEF Building
  <2> QED
    BY <2>2, <2>3
<1>5. CASE ConvertModule
  <2>1. /\ pc = "mods" /\ mbi' = mbi /\ mod_index < Len(mbi.mods) /\ mod_index' = mod_index + 1
        /\ bld' = AddModule(bld, mbi.mods[mod_index + 1])
        /\ pc' = (IF bld'.ok THEN "mods" ELSE "halted")
    BY <1>5 DEF ConvertModule, GoOn, input
  <2>2. CASE ~bld'.ok
    BY <1>h, <2>1, <2>2
  <2>3. CASE bld'.ok
    <3> DEFINE before == ToldCmdline \o ToldEntries
               x == << <<"module", mbi.mods[mod_index + 1].string.id>> >>
    <3>1. Telling(bld, before \o ToldModules) /\ Laid(bld)
      BY <1>p, <2>1 DEF ToldInv, ToldSoFar, Building
    <3>2. mod_index \in 0 .. Len(mbi.mods) - 1
      BY <1>i, <2>1
    <3>3. TellsMore(bld, bld', x)
      <4>1. PICK m \in ModuleSet : m = mbi.mods[mod_index + 1]
        <5>1. mod_index + 1 \in 1 .. Len(mbi.mods)
          BY <1>i, <3>2
        <5> QED
          BY <1>i, <5>1, ElementOfSeq
      <4> QED
        BY <1>p, <2>1, <2>3, <3>1, <4>1, ModuleTells
    <3>4. ToldModules' = ToldModules \o x
      <4>1. /\ ToldModules = ModuleItems(mbi.mods, mod_index)
            /\ ToldModules' = ModuleItems(mbi.mods, mod_index + 1)
        BY <2>1 DEF ToldModules, ModuleItems
      <4> QED
        BY <1>i, <3>2, <4>1, OneMoreModule
    <3>5. pc' = "mods" /\ ToldCmdline' = ToldCmdline /\ ToldEntries' = ToldEntries
      BY <2>1, <2>3 DEF ToldCmdline, ToldEntries
    <3>6. ToldSoFar' = before \o (ToldModules \o x)
      BY <3>4, <3>5 DEF ToldSoFar
    <3>7. x \in Seq(Item) /\ before \in Seq(Item)
      <4>1. x \in Seq(Item)
        BY <3>3, TellsSeq
      <4> QED
        BY <1>t, <4>1, ConcatProperties
    <3> HIDE DEF before, x
    <3>8. (before \o ToldModules) \o x = before \o (ToldModules \o x)
      <4>1. Associative(before, ToldModules, x)
        BY <1>t, <3>7, ItemsAssociative
      <4> QED
        BY <4>1 DEF Associative
    <3>9. Telling(bld', (before \o ToldModules) \o x)
      BY <1>p, <3>1, <3>3, MoreTold
    <3> QED
      BY <1>b, <3>5, <3>6, <3>8, <3>9 DEF Building
  <2> QED
    BY <2>2, <2>3
<1>6. CASE SearchRsdp
  <2>1. pc = "mods" /\ pc' = pc /\ bld' = bld /\ UNCHANGED <<mbi, mod_index>>
    BY <1>6 DEF SearchRsdp
  <2>2. ToldSoFar' = ToldSoFar
    <3>1. ToldCmdline' = ToldCmdline /\ ToldEntries' = ToldEntries /\ ToldModules' = ToldModules
      BY <2>1 DEF ToldCmdline, ToldEntries, ToldModules
    <3>2. ToldSoFar' = (ToldCmdline' \o ToldEntries') \o ToldModules'
      BY <2>1 DEF ToldSoFar
    <3>3. ToldSoFar = (ToldCmdline \o ToldEntries) \o ToldModules
      BY <2>1 DEF ToldSoFar
    <3> QED
      BY <3>1, <3>2, <3>3
  <2>3. Telling(bld, ToldSoFar)
    BY <2>1 DEF ToldInv, Building
  <2> QED
    BY <1>b, <2>1, <2>2, <2>3 DEF Building
<1>7. CASE ConvertRsdp
  <2>1. /\ pc = "mods" /\ done /\ UNCHANGED <<mbi, mod_index, ret, memory>>
        /\ bld' = (IF ret # Null THEN AddRsdp(bld, memory[ret].table) ELSE bld)
        /\ pc' = (IF bld'.ok THEN "finish" ELSE "halted")
    BY <1>7 DEF ConvertRsdp, GoOn, input, rsdpVars
  <2>2. CASE ~bld'.ok
    BY <1>h, <2>1, <2>2
  <2>3. CASE bld'.ok
    <3> DEFINE before == (ToldCmdline \o ToldEntries) \o ToldModules
    <3>1. Telling(bld, before) /\ Laid(bld)
      BY <1>p, <2>1 DEF ToldInv, ToldSoFar, Building
    <3>2. before \in Seq(Item)
      <4>1. ToldCmdline \o ToldEntries \in Seq(Item)
        BY <1>t, ConcatProperties
      <4> QED
        BY <1>t, <4>1, ConcatProperties
    <3>3. pc' = "finish" /\ ToldSoFar' = before \o ToldRsdp
      <4>1. pc' = "finish"
        BY <2>1, <2>3
      <4>2. /\ ToldCmdline' = ToldCmdline /\ ToldEntries' = ToldEntries
            /\ ToldModules' = ToldModules /\ ToldRsdp' = ToldRsdp
        BY <2>1 DEF ToldCmdline, ToldEntries, ToldModules, ToldRsdp
      <4>3. ToldSoFar' = ((ToldCmdline' \o ToldEntries') \o ToldModules') \o ToldRsdp'
        BY <4>1 DEF ToldSoFar
      <4> QED
        BY <4>1, <4>2, <4>3
    <3> HIDE DEF before
    <3>4. Telling(bld', before \o ToldRsdp)
      <4>1. CASE ret = Null
        <5>1. bld' = bld /\ before \o ToldRsdp = before
          BY <1>e, <2>1, <3>2, <4>1 DEF ToldRsdp
        <5> QED
          BY <3>1, <5>1
      <4>2. CASE ret # Null
        <5>1. PICK r \in TableSet : r = memory[ret].table
          BY <2>1, <4>2, TableType
        <5>2. TellsMore(bld, bld', RsdpItems(r))
          BY <1>p, <2>1, <2>3, <3>1, <4>2, <5>1, RsdpTells
        <5>3. ToldRsdp = RsdpItems(r)
          BY <4>2, <5>1 DEF ToldRsdp
        <5> QED
          BY <1>p, <3>1, <5>2, <5>3, MoreTold
      <4> QED
        BY <4>1, <4>2
    <3> QED
      BY <1>b, <3>3, <3>4 DEF Building
  <2> QED
    BY <2>2, <2>3
<1>8. CASE Finish
  <2>1. /\ pc = "finish" /\ UNCHANGED <<mbi, mod_index, ret, memory>> /\ seen' = seen
        /\ bld' = BuilderFinished(bld) /\ pc' = (IF bld'.ok THEN "boot" ELSE "halted")
    BY <1>8 DEF Finish, GoOn, input, rsdpVars, reader
  <2>2. CASE ~bld'.ok
    BY <1>h, <2>1, <2>2
  <2>3. CASE bld'.ok
    <3>1. Laid(bld) /\ HasFirst(bld) /\ NoEnd(bld) /\ Telling(bld, ToldSoFar)
      BY <2>1 DEF LaidInv, ToldInv, Building
    <3>2. PICK P, Q :
            Tells(bld.mem, bld.start, Tags(bld.mem), AlignUp(bld.cur, 8), P, Q, ToldSoFar)
      BY <3>1 DEF Telling
    <3>3. TellsAll(bld', P, Q, ToldSoFar)
      <4> DEFINE told == ToldSoFar
      <4>1. Tells(bld.mem, bld.start, Tags(bld.mem), AlignUp(bld.cur, 8), P, Q, told)
        BY <3>2
      <4> HIDE DEF told
      <4>2. TellsAll(bld', P, Q, told)
        BY <1>p, <2>1, <2>3, <3>1, <4>1, TellsFinished DEF TellsAll
      <4> QED
        BY <4>2 DEF told
    <3>4. pc' = "boot" /\ ToldSoFar' = ToldSoFar
      <4>1. pc' = "boot"
        BY <2>1, <2>3
      <4>2. pc \in {"finish"} \cup Reading /\ pc' \in {"finish"} \cup Reading
        BY <2>1, <4>1 DEF Reading
      <4> QED
        BY <2>1, <4>1, <4>2, ToldSoFarKept
    <3>5. seen' = <<>>
      BY <2>1 DEF HandedInv
    <3>6. Printed(P, Q)'
      BY <3>4, <3>5 DEF Printed
    <3>7. TellsAll(bld', P, Q, ToldSoFar')
      BY <3>3, <3>4
    <3> QED
      BY <3>4, <3>6, <3>7 DEF ToldInv, Building, Reading
  <2> QED
    BY <2>2, <2>3
<1>9. CASE KernelStart
  <2>1. /\ pc = "boot" /\ pc' = "read" /\ UNCHANGED <<mbi, mod_index, ret, memory, bld, seen>>
        /\ tag' = TagFirst(bld.start)
    BY <1>9 DEF KernelStart, input, rsdpVars
  <2>2. pc \in Reading /\ pc' \in Reading /\ pc' \notin Building
    BY <2>1 DEF Reading, Building
  <2>3. PICK P, Q : TellsAll(bld, P, Q, ToldSoFar)
    BY <2>2 DEF ToldInv
  <2>4. ToldSoFar' = ToldSoFar
    BY <2>1, <2>2, ToldSoFarKept
  <2>5. seen = <<>> /\ P[TagFirst(bld.start)] = <<>>
    BY <2>1, <2>3 DEF HandedInv, TellsAll, Tells
  <2>6. Printed(P, Q)'
    BY <2>1, <2>5 DEF Printed
  <2>7. TellsAll(bld', P, Q, ToldSoFar')
    BY <2>1, <2>3, <2>4
  <2> QED
    BY <2>2, <2>6, <2>7 DEF ToldInv
<1>10. CASE ReadCmdline \/ ReadModule \/ ReadMemoryMap \/ ReadEntry \/ LastEntryRead \/ ReadOther
  BY <1>10, ToldInvRead
<1>11. CASE UNCHANGED vars
  <2>1. /\ UNCHANGED <<mbi, mod_index, ret, memory, bld, seen, tag, entry>> /\ pc' = pc
    BY <1>11 DEF vars, rsdpVars
  <2>2. /\ ToldCmdline' = ToldCmdline /\ ToldEntries' = ToldEntries
        /\ ToldModules' = ToldModules /\ ToldRsdp' = ToldRsdp
    BY <2>1 DEF ToldCmdline, ToldEntries, ToldModules, ToldRsdp
  <2>3. ToldSoFar' = ToldSoFar
    BY <2>1, <2>2 DEF ToldSoFar
  <2>4. CASE pc \in Building
    BY <1>b, <2>1, <2>3, <2>4 DEF ToldInv
  <2>5. CASE pc \in Reading
    <3>1. PICK P, Q : TellsAll(bld, P, Q, ToldSoFar) /\ Printed(P, Q)
      BY <2>5 DEF ToldInv
    <3>2. Printed(P, Q)'
      BY <2>1, <2>3, <3>1 DEF Printed
    <3>3. TellsAll(bld', P, Q, ToldSoFar')
      BY <2>1, <2>3, <3>1
    <3> QED
      BY <2>1, <2>5, <3>2, <3>3 DEF ToldInv, Building, Reading
  <2> QED
    BY <2>1, <2>4, <2>5 DEF ToldInv
<1> QED
  BY <1>1, <1>2, <1>3, <1>4, <1>5, <1>6, <1>7, <1>8, <1>9, <1>10, <1>11 DEF Next, Step

LEMMA PrefixOfConcat ==
  ASSUME NEW s \in Seq(Item), NEW r \in Seq(Item)
  PROVE  IsPrefix(s, s \o r)
<1>1. PICK m \in Nat, n \in Nat : m = Len(s) /\ n = Len(r)
  OBVIOUS
<1>2. Len(s \o r) = m + n
  BY <1>1, ConcatProperties
<1>3. SubSeq(s, 1, m) = SubSeq(s \o r, 1, m)
  <2>1. CASE m = 0
    BY <2>1, SubSeqEmpty
  <2>2. CASE m # 0
    <3>1. 1 \in 1 .. m /\ m \in 1 .. m
      BY <2>2
    <3> QED
      BY <1>1, <3>1, SubSeqOfConcat1
  <2> QED
    BY <2>1, <2>2
<1>4. m <= m + n
  OBVIOUS
<1> QED
  BY <1>1, <1>2, <1>3, <1>4 DEF IsPrefix

(* What Bender has of it in the end is what the loader has told. *)
LEMMA ToldIsAll ==
  ASSUME RsdpInv, InputInv, HandedInv, pc \in Reading
  PROVE  ToldSoFar = Told
<1>1. /\ pc \notin {"start", "exit", "cmdline", "mem", "mods"} /\ done
      /\ mod_index = Len(mbi.mods)
  BY DEF HandedInv, Reading
<1>2. /\ loaded.mods \in Seq(ModuleSet) /\ loaded.mods # <<>> /\ mbi.mods = Tail(loaded.mods)
      /\ mbi.cmdline = loaded.mods[1].string /\ mbi.mmap = loaded.mmap
      /\ "mem" \in mbi.flags <=> "mem" \in loaded.flags
  BY <1>1 DEF HandedInv
<1>3. PICK n \in Nat : n = Len(loaded.mods) - 1 /\ n = Len(mbi.mods)
  <2>1. Len(mbi.mods) = Len(loaded.mods) - 1 /\ Len(mbi.mods) \in Nat
    BY <1>2, HeadTailProperties, LenProperties
  <2> QED
    BY <2>1
<1>4. \A k \in 1 .. n : mbi.mods[k] = loaded.mods[k + 1]
  BY <1>2, <1>3, HeadTailProperties
<1>5. ToldModules = [k \in 1 .. Len(loaded.mods) - 1 |-> <<"module", loaded.mods[k + 1].string.id>>]
  BY <1>1, <1>3, <1>4 DEF ToldModules
<1>6. ToldCmdline = << <<"cmdline", loaded.mods[1].string.id>> >>
  BY <1>2 DEF ToldCmdline
<1>7. ToldEntries = IF "mem" \in loaded.flags
                      THEN [k \in DOMAIN loaded.mmap |-> <<"entry", loaded.mmap[k]>>] ELSE <<>>
  BY <1>2 DEF ToldEntries, EntryItems
<1>8. ret = FirstTable
  BY <1>1, RsdpInvImplies DEF RsdpIsFirst
<1>9. ToldRsdp = IF FirstTable = Null THEN <<>>
                 ELSE << <<"unknown", IF memory[FirstTable].table.rev = 1
                                        THEN MBI2_TAG_RSDP_V1 ELSE MBI2_TAG_RSDP_V2>> >>
  BY <1>8 DEF ToldRsdp, RsdpItems
<1>10. ToldSoFar = ((ToldCmdline \o ToldEntries) \o ToldModules) \o ToldRsdp
  BY <1>1 DEF ToldSoFar
<1> QED
  BY <1>5, <1>6, <1>7, <1>9, <1>10 DEF Told

(* What the kernel has printed is where it is in what has been told. *)
LEMMA PrintedIsPrefix ==
  ASSUME pc \in Reading, LaidInv, NEW P, NEW Q, NEW told, told = ToldSoFar,
         TellsAll(bld, P, Q, told), Printed(P, Q), seen # <<>>
  PROVE  IsPrefix(seen, told)
<1>t. told \in Seq(Item)
  BY DEF TellsAll, Tells
<1>1. CASE pc = "done"
  <2>1. seen = told
    BY <1>1 DEF Printed
  <2>2. told \o <<>> = told /\ <<>> \in Seq(Item)
    BY <1>t, ConcatEmptySeq, EmptySeq
  <2> QED
    BY <1>t, <2>1, <2>2, PrefixOfConcat
<1>2. CASE pc \in {"read", "entries"}
  <2>1. tag \in Tags(bld.mem) \ {bld.cur - 8}
    BY <1>2 DEF LaidInv
  <2>2. /\ P[tag] \in Seq(Item) /\ Q[tag] \in Seq(Item)
        /\ \E r \in Seq(Item) : told = (P[tag] \o Q[tag]) \o r
    BY <2>1 DEF TellsAll, Tells
  <2>3. PICK p, q, r : /\ p = P[tag] /\ q = Q[tag] /\ p \in Seq(Item) /\ q \in Seq(Item)
                       /\ r \in Seq(Item) /\ told = (p \o q) \o r
    BY <2>2
  <2>c. \A x, y \in Seq(Item) : x \o y \in Seq(Item)
    BY ConcatProperties
  <2>4. CASE pc = "read"
    <3>1. seen = p
      BY <2>3, <2>4 DEF Printed
    <3>2. told = p \o (q \o r) /\ q \o r \in Seq(Item)
      <4>1. q \o r \in Seq(Item)
        BY <2>3, <2>c
      <4>2. (p \o q) \o r = p \o (q \o r)
        <5>1. Associative(p, q, r)
          BY <2>3, ItemsAssociative
        <5> QED
          BY <5>1 DEF Associative
      <4> QED
        BY <2>3, <4>1, <4>2
    <3> QED
      BY <2>3, <3>1, <3>2, PrefixOfConcat
  <2>5. CASE pc = "entries"
    <3>1. PICK n \in Nat : n = Len(q)
      BY <2>3
    <3>2. PICK k \in 0 .. n : seen = p \o SubSeq(q, 1, k)
      BY <2>3, <2>5, <3>1 DEF Printed
    <3>3. PICK f, g : f = SubSeq(q, 1, k) /\ g = SubSeq(q, k + 1, n)
      OBVIOUS
    <3>4. f \in Seq(Item) /\ g \in Seq(Item)
      <4>1. \A i \in 1 .. k : q[i] \in Item
        BY <2>3, <3>1, ElementOfSeq
      <4>2. \A i \in k + 1 .. n : q[i] \in Item
        BY <2>3, <3>1, ElementOfSeq
      <4> QED
        BY <3>3, <4>1, <4>2, SubSeqProperties
    <3>5. q = f \o g
      <4>1. 1 \in 1 .. Len(q) + 1 /\ k \in 1 - 1 .. Len(q) /\ n \in k .. Len(q)
        BY <3>1
      <4>2. SubSeq(q, 1, k) \o SubSeq(q, k + 1, n) = SubSeq(q, 1, n)
        BY <2>3, <4>1, ConcatAdjacentSubSeq
      <4>3. SubSeq(q, 1, n) = q
        BY <2>3, <3>1, SubSeqFull
      <4> QED
        BY <3>3, <4>2, <4>3
    <3>6. p \o f \in Seq(Item) /\ g \o r \in Seq(Item)
      BY <2>3, <2>c, <3>4
    <3>7. told = (p \o f) \o (g \o r)
      <4>1. told = (p \o (f \o g)) \o r
        BY <2>3, <3>5
      <4>2. p \o (f \o g) = (p \o f) \o g
        <5>1. Associative(p, f, g)
          BY <2>3, <3>4, ItemsAssociative
        <5> QED
          BY <5>1 DEF Associative
      <4>3. ((p \o f) \o g) \o r = (p \o f) \o (g \o r)
        <5>1. Associative(p \o f, g, r)
          BY <2>3, <3>4, <3>6, ItemsAssociative
        <5> QED
          BY <5>1 DEF Associative
      <4> QED
        BY <4>1, <4>2, <4>3
    <3>8. seen = p \o f
      BY <3>2, <3>3
    <3> QED
      BY <3>6, <3>7, <3>8, PrefixOfConcat
  <2> QED
    BY <1>2, <2>4, <2>5
<1>3. CASE pc = "boot"
  BY <1>3 DEF Printed
<1> QED
  BY <1>1, <1>2, <1>3 DEF Reading

LEMMA ToldInvImplies ==
  ASSUME RsdpInv, InputInv, LaidInv, HandedInv, ToldInv
  PROVE  KernelReadsWhatLoaderTold
<1>1. CASE pc \notin Reading
  <2>1. seen = <<>> /\ pc # "done"
    BY <1>1 DEF HandedInv, LaidInv, Reading
  <2> QED
    BY <2>1 DEF KernelReadsWhatLoaderTold
<1>2. CASE pc \in Reading
  <2>1. ToldSoFar = Told
    BY <1>2, ToldIsAll
  <2>2. PICK P, Q : TellsAll(bld, P, Q, ToldSoFar) /\ Printed(P, Q)
    BY <1>2 DEF ToldInv
  <2>3. seen # <<>> => IsPrefix(seen, ToldSoFar)
    BY <1>2, <2>2, PrintedIsPrefix
  <2>4. pc = "done" => seen = ToldSoFar
    BY <2>2 DEF Printed
  <2> QED
    BY <2>1, <2>3, <2>4 DEF KernelReadsWhatLoaderTold
<1> QED
  BY <1>1, <1>2

(* The kernel prints what the loader has told Bender, in its order, with   *)
(* nothing lost or twice, and comes to the end (mbi2_example.c:28-53, and  *)
(* what boot-mbi2.tcl:28-37 looks for), whatever the command lines, the    *)
(* memory map, the modules and the RSDP are and wherever there is memory   *)
(* for the structure: as long as no assertion has stopped Bender, each of  *)
(* its steps writes one tag that tells one item of it, behind the others,  *)
(* and overwrites none of those; the kernel goes from tag to tag and finds *)
(* in each what was written.                                               *)
THEOREM KernelReadsWhatLoaderToldHolds == Spec => []KernelReadsWhatLoaderTold
<1>1. Init => HandedInv /\ ToldInv
  BY HandedInvInit, ToldInvInit
<1>2. /\ RsdpInv /\ InputInv /\ BldInv /\ LaidInv /\ HandedInv /\ ToldInv /\ [Next]_vars
           => HandedInv' /\ ToldInv'
  BY HandedInvNext, ToldInvNext
<1>3. RsdpInv /\ InputInv /\ LaidInv /\ HandedInv /\ ToldInv => KernelReadsWhatLoaderTold
  BY ToldInvImplies
<1> QED
  BY <1>1, <1>2, <1>3, Mbi2InvHolds, LaidInvHolds, PTL DEF Spec

-----------------------------------------------------------------------------
(* What the structure takes.                                               *)

(* u[k] is what the first k tags of these sizes take. *)
Takes(u, sizes) ==
  /\ u \in [0 .. Len(sizes) -> Nat]
  /\ u[0] = 8
  /\ \A k \in 1 .. Len(sizes) : u[k] = u[k - 1] + AlignUp(sizes[k], 8)
  /\ SpaceFor(sizes) = u[Len(sizes)] + 8

LEMMA SpaceSteps == ASSUME NEW sizes \in Seq(Nat) PROVE \E u : Takes(u, sizes)
<1>m. PICK m \in Nat : m = Len(sizes)
  OBVIOUS
<1> DEFINE step == [p \in Nat \X (1 .. m) |-> p[1] + AlignUp(sizes[p[2]], 8)]
<1>1. \A k \in 1 .. m : sizes[k] \in Nat /\ AlignUp(sizes[k], 8) \in Nat
  BY <1>m, ElementOfSeq, AlignEight
<1>2. IsStep(step, Nat, m)
  <2> SUFFICES ASSUME NEW p \in Nat \X (1 .. m)
               PROVE  p[1] + AlignUp(sizes[p[2]], 8) \in Nat
    BY DEF IsStep
  <2>1. PICK d \in Nat, k \in 1 .. m : p = <<d, k>>
    OBVIOUS
  <2> QED
    BY <1>1, <2>1
<1>3. PICK h : IsRecursion(h, Nat, 8, m, step)
  <2> HIDE DEF step
  <2> QED
    BY <1>2, RecursionExists
<1>4. /\ h \in [0 .. m -> Nat]
      /\ h[0] = 8
      /\ \A k \in 1 .. m : h[k] = step[<<h[k - 1], k>>]
  BY <1>3 DEF IsRecursion
<1>5. ASSUME NEW k \in 1 .. m PROVE h[k] = h[k - 1] + AlignUp(sizes[k], 8)
  <2>1. k - 1 \in 0 .. m
    OBVIOUS
  <2>2. h[k - 1] \in Nat
    BY <1>4, <2>1
  <2>3. h[k] = step[<<h[k - 1], k>>]
    BY <1>4
  <2> QED
    BY <2>2, <2>3
<1> DEFINE Rec(g) == [k \in 0 .. m |-> IF k = 0 THEN 8 ELSE g[k - 1] + AlignUp(sizes[k], 8)]
           F == CHOOSE g : g = Rec(g)
<1>6. SpaceFor(sizes) = F[m] + 8
  BY <1>m DEF SpaceFor, MBI2_TAG_ALIGNMENT, BootInfoSize, TagSize
<1>7. h = Rec(h)
  <2> SUFFICES ASSUME NEW k \in 0 .. m
               PROVE  h[k] = IF k = 0 THEN 8 ELSE h[k - 1] + AlignUp(sizes[k], 8)
    BY <1>4
  <2>1. CASE k = 0
    BY <1>4, <2>1
  <2>2. CASE k # 0
    <3>1. k \in 1 .. m
      BY <2>2
    <3> QED
      BY <1>5, <2>2, <3>1
  <2> QED
    BY <2>1, <2>2
<1>8. F = Rec(F)
  <2>1. \E g : g = Rec(g)
    BY <1>7
  <2> HIDE DEF Rec
  <2> QED
    BY <2>1
<1> HIDE DEF F
<1>9. \A k \in 0 .. m : h[k] = F[k]
  <2>1. F[0] = 8
    <3>1. 0 \in 0 .. m
      OBVIOUS
    <3> QED
      BY <1>8, <3>1
  <2>2. ASSUME NEW k \in 1 .. m, h[k - 1] = F[k - 1] PROVE h[k] = F[k]
    <3>1. F[k] = F[k - 1] + AlignUp(sizes[k], 8)
      <4>1. k \in 0 .. m /\ k # 0
        OBVIOUS
      <4> QED
        BY <1>8, <4>1
    <3> QED
      BY <1>5, <2>2, <3>1
  <2>3. h[0] = F[0]
    BY <1>4, <2>1
  <2> HIDE DEF step, Rec
  <2> QED
    BY <2>2, <2>3, StepsAgree, ZenonT(40)
<1>10. SpaceFor(sizes) = h[m] + 8
  <2>1. m \in 0 .. m
    OBVIOUS
  <2> QED
    BY <1>6, <1>9, <2>1
<1>11. Takes(h, sizes)
  BY <1>m, <1>4, <1>5, <1>10 DEF Takes
<1> QED
  BY <1>11

LEMMA SumsGrow ==
  ASSUME NEW m \in Nat, NEW s \in [0 .. m -> Nat], \A k \in 1 .. m : s[k - 1] <= s[k]
  PROVE  \A k \in 0 .. m : s[0] <= s[k] /\ s[k] <= s[m]
<1> DEFINE T == { k \in 0 .. m : s[0] <= s[k] }
           U == { k \in 0 .. m : s[m - k] <= s[m] }
<1>1. 0 \in T /\ 0 \in U
  OBVIOUS
<1>2. ASSUME NEW k \in 0 .. m - 1, k \in T PROVE k + 1 \in T
  <2>1. k + 1 \in 1 .. m /\ (k + 1) - 1 = k /\ 0 \in 0 .. m
    OBVIOUS
  <2>2. s[k] <= s[k + 1] /\ s[k] \in Nat /\ s[k + 1] \in Nat /\ s[0] \in Nat
    BY <2>1
  <2> QED
    BY <1>2, <2>1, <2>2
<1>3. ASSUME NEW k \in 0 .. m - 1, k \in U PROVE k + 1 \in U
  <2>1. m - k \in 1 .. m /\ (m - k) - 1 = m - (k + 1) /\ k + 1 \in 0 .. m
    OBVIOUS
  <2>2. s[m - (k + 1)] <= s[m - k]
    BY <2>1
  <2>3. m - k \in 0 .. m /\ m - (k + 1) \in 0 .. m /\ m \in 0 .. m
    OBVIOUS
  <2>4. s[m - (k + 1)] \in Nat /\ s[m - k] \in Nat /\ s[m] \in Nat
    BY <2>3
  <2> QED
    BY <1>3, <2>1, <2>2, <2>4
<1>4. (\A k \in 0 .. m : k \in T) /\ (\A k \in 0 .. m : k \in U)
  <2> HIDE DEF T, U
  <2> QED
    BY <1>1, <1>2, <1>3, InductionUpTo
<1>5. ASSUME NEW k \in 0 .. m PROVE s[k] <= s[m]
  <2>1. m - k \in 0 .. m /\ m - (m - k) = k
    OBVIOUS
  <2>2. m - k \in U
    BY <1>4, <2>1
  <2> QED
    BY <2>1, <2>2
<1> QED
  BY <1>4, <1>5

(* A tag of size n is added, or there is less than eight bytes more than   *)
(* it takes.                                                               *)
Adding(b, c, n) ==
  /\ c.ok => AlignUp(c.cur, 8) = AlignUp(b.cur, 8) + AlignUp(n, 8)
  /\ ~c.ok => b.end < AlignUp(b.cur, 8) + AlignUp(n, 8) + 8

LEMMA TagIsAdded ==
  ASSUME NEW b, Packed(b), Laid(b), b.ok, NEW type \in Nat, NEW n \in Nat,
         NEW payload \in Seq(PlainBlobs), AddsUp(payload, n),
         NEW c, c = AddTag(b, type, n, payload)
  PROVE  Adding(b, c, n)
<1>1. PICK A \in Nat : A = AlignUp(b.cur, 8) /\ b.cur <= A
  BY PackedFields, AlignEight
<1>2. PICK z \in Nat : z = AlignUp(n, 8) /\ n <= z
  BY AlignEight
<1>3. ASSUME c.ok PROVE AlignUp(c.cur, 8) = A + z
  <2>1. c.cur = A + n
    BY <1>1, <1>3, AddTagMore DEF MoreBy
  <2>2. A % 8 = 0
    BY <1>1, PackedFields, AlignEight
  <2>3. AlignUp(A + n, 8) = A + AlignUp(n, 8)
    BY <2>2, AlignSum
  <2> QED
    BY <1>2, <2>1, <2>3
<1>4. ASSUME A + z + 8 <= b.end PROVE c.ok
  <2>m. PICK m \in Nat : m = Len(payload)
    OBVIOUS
  <2>p. payload \in Seq(Blobs) /\ b \in Builders /\ b.end \in Nat /\ b.cur \in Nat
    BY PlainIsBlobs, PackedFields
  <2>e. PICK e \in Nat, w \in Nat : e = b.end /\ w = b.cur
    BY <2>p
  <2>l. w <= A /\ n <= z /\ A + z + 8 <= e
    BY <1>1, <1>2, <1>4, <2>e
  <2>1. PICK h : Adds(h, b, type, n, payload, c)
    BY <2>p, AddTagSteps
  <2>2. /\ h \in [0 .. m -> Builders]
        /\ h[0] = AddBlob(b, 8, TagBlob(type, n))
        /\ \A k \in 1 .. m : h[k] = AddBlob(h[k - 1], 1, payload[k])
        /\ c = h[m]
    BY <2>m, <2>1 DEF Adds
  <2>3. PICK s \in [0 .. m -> Nat] :
          s[0] = 8 /\ s[m] = n /\ \A k \in 1 .. m : s[k] = s[k - 1] + payload[k].size
    BY <2>m DEF AddsUp
  <2>4. \A k \in 1 .. m : payload[k] \in Blobs /\ payload[k].size \in Nat
    BY <2>m, <2>p, ElementOfSeq, BlobSize
  <2>5. \A k \in 0 .. m : 8 <= s[k] /\ s[k] <= n
    <3>1. \A k \in 1 .. m : s[k - 1] <= s[k]
      <4> SUFFICES ASSUME NEW k \in 1 .. m PROVE s[k - 1] <= s[k]
        OBVIOUS
      <4>1. k - 1 \in 0 .. m /\ k \in 0 .. m
        OBVIOUS
      <4>2. PICK f \in Nat, g \in Nat, x \in Nat :
              f = s[k - 1] /\ g = s[k] /\ x = payload[k].size
        BY <2>4, <4>1
      <4>3. g = f + x
        BY <2>3, <4>2
      <4>4. f <= g
        BY <4>3
      <4> QED
        BY <4>2, <4>4
    <3> QED
      BY <2>3, <3>1, SumsGrow
  <2> DEFINE T == { k \in 0 .. m : h[k].ok /\ h[k].cur = A + s[k] /\ h[k].end = b.end }
  <2>6. 0 \in T
    <3>1. TagBlob(type, n) \in Blobs /\ TagBlob(type, n).size = 8
      BY TagIsBlob, TagFields
    <3>2. 8 <= n
      BY <2>3, <2>5
    <3>3. 8 + 8 <= e - w
      BY <2>l, <3>2
    <3>4. Fits(b, 8, TagBlob(type, n))
      BY <2>e, <3>1, <3>3 DEF Fits
    <3> QED
      BY <1>1, <2>2, <2>3, <2>p, <3>1, <3>4, AddBlobFits
  <2>7. ASSUME NEW k \in 0 .. m - 1, k \in T PROVE k + 1 \in T
    <3>1. k + 1 \in 1 .. m /\ (k + 1) - 1 = k /\ k \in 0 .. m /\ k + 1 \in 0 .. m
      OBVIOUS
    <3>2. PICK d, f, x : /\ d = h[k] /\ f = h[k + 1] /\ x = payload[k + 1]
                         /\ d \in Builders /\ x \in Blobs /\ x.size \in Nat
                         /\ f = AddBlob(d, 1, x)
      <4>1. h[k + 1] = AddBlob(h[(k + 1) - 1], 1, payload[k + 1])
        BY <2>2, <3>1
      <4> QED
        BY <2>2, <2>4, <3>1, <4>1
    <3>3. d.ok /\ d.cur = A + s[k] /\ d.end = b.end
      BY <2>7, <3>2
    <3>4. s[k + 1] = s[k] + x.size /\ s[k] \in Nat /\ s[k + 1] <= n
      <4>1. s[k + 1] = s[(k + 1) - 1] + payload[k + 1].size
        BY <2>3, <3>1
      <4> QED
        BY <2>5, <3>1, <3>2, <4>1
    <3>5. Fits(d, 1, x)
      <4>1. PICK g \in Nat, y \in Nat : g = s[k] /\ y = x.size /\ g + y <= n
        BY <3>2, <3>4
      <4>2. y + 1 <= e - (A + g)
        BY <2>l, <4>1, SMTT(40)
      <4> QED
        BY <2>e, <3>3, <4>1, <4>2 DEF Fits
    <3>6. d.cur \in Nat
      BY <3>2 DEF Builders
    <3>7. f.ok /\ f.end = b.end /\ f.cur = A + s[k + 1]
      <4>1. f.ok /\ f.end = d.end /\ f.cur = AlignUp(d.cur, 1) + x.size
        BY <3>2, <3>5, AddBlobFits
      <4>2. AlignUp(d.cur, 1) = d.cur
        BY <3>6, AlignOne
      <4>3. f.cur = (A + s[k]) + x.size
        BY <3>3, <4>1, <4>2
      <4>4. (A + s[k]) + x.size = A + s[k + 1]
        <5>1. PICK g \in Nat, y \in Nat : g = s[k] /\ y = x.size /\ s[k + 1] = g + y
          BY <3>2, <3>4
        <5>2. (A + g) + y = A + (g + y)
          OBVIOUS
        <5> QED
          BY <5>1, <5>2
      <4> QED
        BY <3>3, <4>1, <4>3, <4>4
    <3> QED
      BY <3>1, <3>2, <3>7
  <2>8. \A k \in 0 .. m : k \in T
    <3> HIDE DEF T
    <3> QED
      BY <2>6, <2>7, InductionUpTo
  <2>9. m \in T
    BY <2>8
  <2> QED
    BY <2>2, <2>9
<1>5. b.end \in Nat
  BY PackedFields
<1> QED
  BY <1>1, <1>2, <1>3, <1>4, <1>5 DEF Adding

LEMMA CmdlineIsAdded ==
  ASSUME NEW b, Packed(b), Laid(b), b.ok, NEW s \in String
  PROVE  Adding(b, AddBootCmdline(b, s), TagSize + s.len + 1)
<1> DEFINE n == TagSize + s.len + 1
           x == StringBlob(s)
<1>1. <<x>> \in Seq(PlainBlobs) /\ s.len \in Nat /\ x \in PlainBlobs
  BY CmdlinePayload DEF PlainBlobs
<1>2. n \in Nat /\ n = 8 + x.size
  BY <1>1 DEF TagSize, StringBlob
<1>3. AddBootCmdline(b, s) = AddTag(b, MBI2_TAG_CMDLINE, n, <<x>>) /\ MBI2_TAG_CMDLINE \in Nat
  BY DEF AddBootCmdline, MBI2_TAG_CMDLINE
<1> HIDE DEF n, x
<1>4. AddsUp(<<x>>, n)
  BY <1>1, <1>2, OneAddsUp
<1> QED
  BY <1>1, <1>2, <1>3, <1>4, TagIsAdded DEF n

LEMMA ModuleIsAdded ==
  ASSUME NEW b, Packed(b), Laid(b), b.ok, NEW m \in ModuleSet
  PROVE  Adding(b, AddModule(b, m), TagSize + ModuleSize + m.string.len + 1)
<1> DEFINE n == TagSize + ModuleSize + m.string.len + 1
           x == ModuleBlob(m)
           y == StringBlob(m.string)
           p == <<x, y>>
<1>1. /\ p \in Seq(PlainBlobs) /\ m.string.len \in Nat
      /\ x \in PlainBlobs /\ y \in PlainBlobs
  BY ModulePayload DEF PlainBlobs, ModuleSet, String
<1>2. n \in Nat /\ n = 8 + x.size + y.size
  BY <1>1 DEF TagSize, ModuleSize, ModuleBlob, StringBlob
<1>3. AddModule(b, m) = AddTag(b, MBI2_TAG_MODULE, n, p) /\ MBI2_TAG_MODULE \in Nat
  BY DEF AddModule, MBI2_TAG_MODULE
<1> HIDE DEF n, x, y
<1>4. AddsUp(p, n)
  BY <1>1, <1>2, TwoAddUp
<1> HIDE DEF p
<1> QED
  BY <1>1, <1>2, <1>3, <1>4, TagIsAdded DEF n

LEMMA MmapIsAdded ==
  ASSUME NEW b, Packed(b), Laid(b), b.ok, NEW mmap \in Seq(EntrySet)
  PROVE  Adding(b, AddMbi1Memmap(b, mmap), TagSize + MemorySize + MemoryEntrySize * Len(mmap))
<1>1. MapPayload(mmap) \in Seq(PlainBlobs) /\ Len(mmap) \in Nat
  BY MmapPayload
<1>2. PICK n \in Nat : n = 16 + 24 * Len(mmap)
  BY <1>1
<1>3. AddsUp(MapPayload(mmap), n) /\ MBI2_TAG_MEMORY \in Nat
  BY <1>2, MmapAddsUp DEF MBI2_TAG_MEMORY
<1>4. TagSize + MemorySize + MemoryEntrySize * Len(mmap) = n
  BY <1>1, <1>2 DEF TagSize, MemorySize, MemoryEntrySize
<1>5. AddMbi1Memmap(b, mmap) = AddTag(b, MBI2_TAG_MEMORY, n, MapPayload(mmap))
  BY <1>4 DEF AddMbi1Memmap, MapPayload
<1> QED
  BY <1>1, <1>3, <1>4, <1>5, TagIsAdded

LEMMA RsdpIsAdded ==
  ASSUME NEW b, Packed(b), Laid(b), b.ok, NEW r \in TableSet
  PROVE  Adding(b, AddRsdp(b, r), TagSize + RsdpBlob(r).size)
<1> DEFINE n == TagSize + RsdpBlob(r).size
           type == IF r.rev = 1 THEN MBI2_TAG_RSDP_V1 ELSE MBI2_TAG_RSDP_V2
           x == RsdpBlob(r)
<1>1. <<x>> \in Seq(PlainBlobs) /\ x.size \in Nat /\ x \in PlainBlobs
  BY RsdpPayload DEF PlainBlobs, TableSet
<1>2. n \in Nat /\ n = 8 + x.size /\ type \in Nat
  BY <1>1 DEF TagSize, MBI2_TAG_RSDP_V1, MBI2_TAG_RSDP_V2
<1>3. AddRsdp(b, r) = AddTag(b, type, n, <<x>>)
  BY DEF AddRsdp
<1> HIDE DEF n, type, x
<1>4. AddsUp(<<x>>, n)
  BY <1>1, <1>2, OneAddsUp
<1> QED
  BY <1>1, <1>2, <1>3, <1>4, TagIsAdded DEF n

LEMMA EndIsAdded ==
  ASSUME NEW b, Packed(b), Laid(b), b.ok, NEW f, f = BuilderFinished(b), ~f.ok
  PROVE  b.end < AlignUp(b.cur, 8) + 16
<1> DEFINE c == AddTag(b, MBI2_TAG_END, TagSize, <<>>)
<1>1. f = IF c.ok THEN [c EXCEPT !.mem = [@ EXCEPT ![c.start] = InfoBlob(c.cur - c.start)]] ELSE c
  BY DEF BuilderFinished
<1>2. MBI2_TAG_END \in Nat /\ TagSize \in Nat /\ TagSize = 8 /\ <<>> \in Seq(PlainBlobs)
  BY DEF MBI2_TAG_END, TagSize
<1>3. c \in Builders
  <2>1. <<>> \in Seq(Blobs)
    OBVIOUS
  <2>2. Packed(c)
    BY <1>2, <2>1, AddTagPacked
  <2> QED
    BY <2>2, PackedFields
<1> HIDE DEF c
<1>4. ~c.ok
  <2>1. ASSUME c.ok PROVE FALSE
    <3>1. f = [c EXCEPT !.mem = [@ EXCEPT ![c.start] = InfoBlob(c.cur - c.start)]]
      BY <1>1, <2>1
    <3>2. f.ok = c.ok
      BY <1>3, <3>1 DEF Builders
    <3> QED
      BY <2>1, <3>2
  <2> QED
    BY <2>1
<1>5. Adding(b, c, 8)
  BY <1>2, NoneAddsUp, TagIsAdded DEF c
<1>6. AlignUp(8, 8) = 8
  BY DEF AlignUp
<1>7. PICK A \in Nat, e \in Nat : A = AlignUp(b.cur, 8) /\ e = b.end
  BY PackedFields, AlignEight
<1>8. e < A + 8 + 8
  BY <1>4, <1>5, <1>6, <1>7 DEF Adding
<1>9. A + 8 + 8 = A + 16
  OBVIOUS
<1> QED
  BY <1>7, <1>8, <1>9

(* The j-th tag, behind those before it. *)
LEMMA OneMoreTag ==
  ASSUME NEW sizes \in Seq(Nat), NEW u, Takes(u, sizes), NEW j \in 0 .. Len(sizes) - 1,
         NEW b, Packed(b), NEW c, Adding(b, c, sizes[j + 1]), NEW len \in Nat,
         AlignUp(b.cur, 8) = b.start + u[j], b.end = b.start + len
  PROVE  /\ ~c.ok => len < SpaceFor(sizes) + 8
         /\ c.ok => AlignUp(c.cur, 8) = b.start + u[j + 1]
<1>1. PICK m \in Nat : m = Len(sizes)
  OBVIOUS
<1>2. /\ u \in [0 .. m -> Nat] /\ SpaceFor(sizes) = u[m] + 8
      /\ \A k \in 1 .. m : u[k] = u[k - 1] + AlignUp(sizes[k], 8)
  BY <1>1 DEF Takes
<1>3. j + 1 \in 1 .. m /\ (j + 1) - 1 = j /\ j + 1 \in 0 .. m /\ j \in 0 .. m /\ m \in 0 .. m
  BY <1>1
<1>4. sizes[j + 1] \in Nat
  BY <1>1, <1>3, ElementOfSeq
<1>5. PICK x, y, z, t, e : /\ x = u[j] /\ y = u[j + 1] /\ z = u[m] /\ t = AlignUp(sizes[j + 1], 8)
                           /\ e = b.start
                           /\ x \in Nat /\ y \in Nat /\ z \in Nat /\ t \in Nat /\ e \in Nat
  BY <1>2, <1>3, <1>4, AlignEight, PackedFields
<1>t. x \in Nat /\ y \in Nat /\ z \in Nat /\ t \in Nat /\ e \in Nat
  BY <1>5
<1>6. y = x + t
  <2>1. u[j + 1] = u[(j + 1) - 1] + AlignUp(sizes[j + 1], 8)
    BY <1>2, <1>3
  <2> QED
    BY <1>3, <1>5, <2>1
<1>7. y <= z
  <2>1. \A k \in 1 .. m : u[k - 1] <= u[k]
    <3> SUFFICES ASSUME NEW k \in 1 .. m PROVE u[k - 1] <= u[k]
      OBVIOUS
    <3>1. k - 1 \in 0 .. m /\ k \in 0 .. m
      OBVIOUS
    <3>2. sizes[k] \in Nat
      BY <1>1, ElementOfSeq
    <3>3. PICK f \in Nat, g \in Nat, h \in Nat :
            f = u[k - 1] /\ g = u[k] /\ h = AlignUp(sizes[k], 8)
      BY <1>2, <3>1, <3>2, AlignEight
    <3>4. g = f + h
      BY <1>2, <3>3
    <3>5. f <= g
      BY <3>4
    <3> QED
      BY <3>3, <3>5
  <2>2. u[j + 1] <= u[m]
    BY <1>2, <1>3, <2>1, SumsGrow
  <2> QED
    BY <1>5, <2>2
<1>8. CASE c.ok
  <2>1. AlignUp(c.cur, 8) = (e + x) + t
    BY <1>5, <1>8 DEF Adding
  <2>2. (e + x) + t = e + y
    BY <1>t, <1>6
  <2> QED
    BY <1>5, <1>8, <2>1, <2>2
<1>9. CASE ~c.ok
  <2>1. e + len < ((e + x) + t) + 8
    BY <1>5, <1>9 DEF Adding
  <2>2. len < (z + 8) + 8
    BY <1>t, <1>6, <1>7, <2>1
  <2> QED
    BY <1>2, <1>5, <1>9, <2>2
<1> QED
  BY <1>8, <1>9

(* The search's result does not depend on where the search is. *)
LEMMA FirstTableKept == ASSUME memory' = memory PROVE FirstTable' = FirstTable
<1>1. \A p : IsTable(p)' <=> IsTable(p)
  BY DEF IsTable
<1> QED
  BY <1>1 DEF FirstTable, SelectInSeq

LEMMA SizesKept == ASSUME memory' = memory, loaded' = loaded PROVE ToldSizes' = ToldSizes
BY FirstTableKept DEF ToldSizes

LEMMA FirstTableType ==
  ASSUME memory \in [0 .. End -> Paragraphs]
  PROVE  FirstTable # Null => memory[FirstTable].table \in TableSet
<1>0. PICK m \in Nat : m = Len(Looked) /\ DOMAIN Looked = 1 .. m
  BY LookedInOrder
<1> DEFINE I == { n \in 1 .. m : IsTable(Looked[n]) }
<1>1. CASE I = {}
  BY <1>0, <1>1, FirstTableIsFirst
<1>2. CASE I # {}
  <2>1. PICK n \in I : \A j \in I : n <= j
    <3>1. I \subseteq Nat
      OBVIOUS
    <3> HIDE DEF I
    <3> QED
      BY <1>2, <3>1, LeastNumber
  <2>2. n \in 1 .. m /\ IsTable(Looked[n]) /\ \A j \in 1 .. n - 1 : ~IsTable(Looked[j])
    <3>1. \A j \in 1 .. n - 1 : j \in 1 .. m /\ ~(n <= j)
      OBVIOUS
    <3> QED
      BY <2>1, <3>1
  <2>3. FirstTable = Looked[n]
    BY <1>0, <2>2, FirstTableIsFirst
  <2>4. PICK r \in 1 .. Len(Ranges) :
          \E k \in 1 .. Ranges[r].len : Looked[n] = Ranges[r].start + k - 1
    BY <1>0, <2>2, LookedInOrder DEF FromRanges
  <2>5. Looked[n] \in 0 .. End
    <3>1. Ranges[r].start \in Nat /\ Ranges[r].len \in Nat
          /\ Ranges[r].start + Ranges[r].len <= End /\ End \in Nat
      BY RangesType, RsdpAssumption
    <3> QED
      BY <2>4, <3>1
  <2>6. memory[FirstTable] \in Paragraph
    BY <2>3, <2>5, RsdpAssumption
  <2> QED
    BY <2>6 DEF Paragraph, TableSet
<1> QED
  BY <1>1, <1>2

(* How many tags there have to be for the memory map, the modules and the RSDP. *)
MapTags == IF "mem" \in loaded.flags THEN 1 ELSE 0
ModuleTags == Len(loaded.mods) - 1
RsdpTags == IF FirstTable = Null THEN 0 ELSE 1

(* r is s, of length m, and t, of length n. *)
Joins(r, s, m, t, n) ==
  /\ r \in Seq(Nat) /\ Len(r) = m + n
  /\ \A i \in 1 .. m : r[i] = s[i]
  /\ \A i \in 1 .. n : r[m + i] = t[i]

LEMMA Joined ==
  ASSUME NEW s \in Seq(Nat), NEW t \in Seq(Nat), NEW m \in Nat, NEW n \in Nat,
         m = Len(s), n = Len(t)
  PROVE  Joins(s \o t, s, m, t, n)
<1>1. /\ s \o t \in Seq(Nat) /\ Len(s \o t) = m + n
      /\ \A i \in 1 .. m + n : (s \o t)[i] = IF i <= m THEN s[i] ELSE t[i - m]
  BY ConcatProperties
<1>2. ASSUME NEW i \in 1 .. m PROVE (s \o t)[i] = s[i]
  <2>1. i \in 1 .. m + n /\ i <= m
    OBVIOUS
  <2> QED
    BY <1>1, <2>1
<1>3. ASSUME NEW i \in 1 .. n PROVE (s \o t)[m + i] = t[i]
  <2>1. m + i \in 1 .. m + n /\ ~(m + i <= m) /\ (m + i) - m = i
    OBVIOUS
  <2> QED
    BY <1>1, <2>1
<1> QED
  BY <1>1, <1>2, <1>3 DEF Joins

LEMMA SizesAre ==
  ASSUME memory \in [0 .. End -> Paragraphs], loaded.mods \in Seq(ModuleSet),
         loaded.mods # <<>>, loaded.mmap \in Seq(EntrySet)
  PROVE  /\ ToldSizes \in Seq(Nat) /\ ModuleTags \in Nat
         /\ Len(ToldSizes) = 1 + MapTags + ModuleTags + RsdpTags
         /\ ToldSizes[1] = TagSize + loaded.mods[1].string.len + 1
         /\ MapTags = 1 =>
              ToldSizes[2] = TagSize + MemorySize + MemoryEntrySize * Len(loaded.mmap)
         /\ \A k \in 1 .. ModuleTags :
              ToldSizes[1 + MapTags + k] = TagSize + ModuleSize + loaded.mods[k + 1].string.len + 1
         /\ RsdpTags = 1 =>
              ToldSizes[1 + MapTags + ModuleTags + 1]
                = TagSize + RsdpBlob(memory[FirstTable].table).size
<1> DEFINE size(k) == TagSize + ModuleSize + loaded.mods[k + 1].string.len + 1
           x == TagSize + loaded.mods[1].string.len + 1
           y == TagSize + MemorySize + MemoryEntrySize * Len(loaded.mmap)
           z == TagSize + RsdpBlob(memory[FirstTable].table).size
           t1 == <<x>>
           t2 == IF "mem" \in loaded.flags THEN <<y>> ELSE <<>>
           t3 == [k \in 1 .. ModuleTags |-> size(k)]
           t4 == IF FirstTable = Null THEN <<>> ELSE <<z>>
<1>0. PICK c \in Nat : c = ModuleTags /\ c + 1 = Len(loaded.mods)
  <2>1. PICK l \in Nat : l = Len(loaded.mods) /\ l # 0
    BY EmptySeq, LenProperties
  <2>2. l - 1 \in Nat /\ (l - 1) + 1 = l
    BY <2>1
  <2> QED
    BY <2>1, <2>2 DEF ModuleTags
<1>1. ASSUME NEW k \in 1 .. c + 1 PROVE loaded.mods[k].string.len \in Nat
  <2>1. loaded.mods[k] \in ModuleSet
    BY <1>0, ElementOfSeq
  <2> QED
    BY <2>1 DEF ModuleSet, String
<1>2. x \in Nat /\ y \in Nat /\ (FirstTable # Null => z \in Nat) /\ \A k \in 1 .. c : size(k) \in Nat
  <2>1. x \in Nat
    <3>1. 1 \in 1 .. c + 1
      OBVIOUS
    <3> QED
      BY <1>1, <3>1 DEF TagSize
  <2>2. y \in Nat
    <3>1. Len(loaded.mmap) \in Nat
      BY LenProperties
    <3> QED
      BY <3>1 DEF TagSize, MemorySize, MemoryEntrySize
  <2>3. ASSUME FirstTable # Null PROVE z \in Nat
    <3>1. RsdpBlob(memory[FirstTable].table).size \in Nat
      BY <2>3, FirstTableType, RsdpPayload
    <3> QED
      BY <3>1 DEF TagSize
  <2>4. ASSUME NEW k \in 1 .. c PROVE size(k) \in Nat
    <3>1. k + 1 \in 1 .. c + 1
      OBVIOUS
    <3> QED
      BY <1>1, <3>1 DEF TagSize, ModuleSize
  <2> QED
    BY <2>1, <2>2, <2>3, <2>4
<1>3. ToldSizes = ((t1 \o t2) \o t3) \o t4
  BY DEF ToldSizes, ModuleTags
<1> HIDE DEF x, y, z, size
<1>4. t1 \in Seq(Nat) /\ Len(t1) = 1 /\ t1[1] = x
  BY <1>2
<1>5. PICK e \in {0, 1} : /\ e = MapTags /\ t2 \in Seq(Nat) /\ e = Len(t2)
                          /\ e = 1 => t2[1] = y
  BY <1>2 DEF MapTags
<1>6. t3 \in Seq(Nat) /\ Len(t3) = c /\ \A k \in 1 .. c : t3[k] = size(k)
  <2> DEFINE t == [k \in 1 .. c |-> size(k)]
  <2>1. t3 = t
    BY <1>0
  <2>2. t \in Seq(Nat) /\ Len(t) = c /\ \A k \in 1 .. c : t[k] = size(k)
    BY <1>2
  <2> QED
    BY <2>1, <2>2
<1>7. PICK d \in {0, 1} : /\ d = RsdpTags /\ t4 \in Seq(Nat) /\ d = Len(t4)
                          /\ d = 1 => t4[1] = z
  BY <1>2 DEF RsdpTags
<1> HIDE DEF t1, t2, t3, t4
<1>n. e \in Nat /\ d \in Nat /\ 1 + e \in Nat /\ 1 + e + c \in Nat /\ 1 \in Nat
  OBVIOUS
<1>9. PICK s2 : /\ s2 = t1 \o t2 /\ s2 \in Seq(Nat) /\ Len(s2) = 1 + e
                /\ s2[1] = x /\ (e = 1 => s2[2] = y)
  <2>1. /\ t1 \o t2 \in Seq(Nat) /\ Len(t1 \o t2) = 1 + e
        /\ \A i \in 1 .. 1 : (t1 \o t2)[i] = t1[i]
        /\ \A i \in 1 .. e : (t1 \o t2)[1 + i] = t2[i]
    <3>1. Joins(t1 \o t2, t1, 1, t2, e)
      BY <1>n, <1>4, <1>5, Joined
    <3> QED
      BY <3>1 DEF Joins
  <2>2. 1 \in 1 .. 1 /\ (e = 1 => 1 \in 1 .. e) /\ 1 + 1 = 2
    OBVIOUS
  <2>3. (t1 \o t2)[1] = x
    BY <1>4, <2>1, <2>2
  <2>4. e = 1 => (t1 \o t2)[2] = y
    BY <1>5, <2>1, <2>2
  <2> QED
    BY <2>1, <2>3, <2>4
<1>10. PICK s3 : /\ s3 = s2 \o t3 /\ s3 \in Seq(Nat) /\ Len(s3) = 1 + e + c
                 /\ s3[1] = x /\ (e = 1 => s3[2] = y)
                 /\ \A k \in 1 .. c : s3[1 + e + k] = size(k)
  <2>1. /\ s2 \o t3 \in Seq(Nat) /\ Len(s2 \o t3) = 1 + e + c
        /\ \A i \in 1 .. 1 + e : (s2 \o t3)[i] = s2[i]
        /\ \A i \in 1 .. c : (s2 \o t3)[1 + e + i] = t3[i]
    <3>1. Joins(s2 \o t3, s2, 1 + e, t3, c)
      BY <1>n, <1>6, <1>9, Joined
    <3> QED
      BY <3>1 DEF Joins
  <2>2. 1 \in 1 .. 1 + e /\ (e = 1 => 2 \in 1 .. 1 + e)
    OBVIOUS
  <2>3. (s2 \o t3)[1] = x /\ (e = 1 => (s2 \o t3)[2] = y)
    BY <1>9, <2>1, <2>2
  <2>4. \A k \in 1 .. c : (s2 \o t3)[1 + e + k] = size(k)
    BY <1>6, <2>1
  <2> QED
    BY <2>1, <2>3, <2>4
<1>11. /\ s3 \o t4 \in Seq(Nat) /\ Len(s3 \o t4) = 1 + e + c + d
       /\ \A i \in 1 .. 1 + e + c : (s3 \o t4)[i] = s3[i]
       /\ \A i \in 1 .. d : (s3 \o t4)[1 + e + c + i] = t4[i]
  <2>1. Joins(s3 \o t4, s3, 1 + e + c, t4, d)
    BY <1>n, <1>7, <1>10, Joined
  <2> QED
    BY <2>1 DEF Joins
<1>12. PICK s : s = s3 \o t4 /\ s = ToldSizes
  BY <1>3, <1>9, <1>10
<1>13. s[1] = x /\ (e = 1 => s[2] = y)
  <2>1. 1 \in 1 .. 1 + e + c /\ (e = 1 => 2 \in 1 .. 1 + e + c)
    OBVIOUS
  <2> QED
    BY <1>10, <1>11, <1>12, <2>1
<1>14. ASSUME NEW k \in 1 .. c PROVE s[1 + e + k] = size(k)
  <2>1. 1 + e + k \in 1 .. 1 + e + c
    OBVIOUS
  <2> QED
    BY <1>10, <1>11, <1>12, <2>1
<1>15. d = 1 => s[1 + e + c + 1] = z
  <2>1. d = 1 => 1 \in 1 .. d
    OBVIOUS
  <2> QED
    BY <1>7, <1>11, <1>12, <2>1
<1>16. s \in Seq(Nat) /\ Len(s) = 1 + e + c + d
  BY <1>11, <1>12
<1> QED
  BY <1>0, <1>5, <1>7, <1>12, <1>13, <1>14, <1>15, <1>16 DEF x, y, z, size

(* How many tags there are. *)
TagsSoFar ==
  IF pc = "cmdline" THEN 0
  ELSE IF pc = "mem" THEN 1
  ELSE IF pc = "mods" THEN 1 + MapTags + mod_index
  ELSE 1 + MapTags + ModuleTags + RsdpTags

TightInv ==
  /\ memory \in [0 .. End -> Paragraphs] /\ loaded.mmap \in Seq(EntrySet)
  /\ area.phys_addr % 8 = 0
  /\ pc \in Building =>
       \E u : Takes(u, ToldSizes) /\ AlignUp(bld.cur, 8) = bld.start + u[TagsSoFar]
  /\ pc = "halted" => area.length < SpaceFor(ToldSizes) + 8

LEMMA TightInvInit == Init => TightInv
<1> SUFFICES ASSUME Init PROVE TightInv
  OBVIOUS
<1>1. /\ memory \in [0 .. End -> Paragraphs] /\ mbi \in Mbis /\ loaded = mbi
      /\ area.phys_addr \in PhysAddrs /\ pc = "start"
  BY DEF Init, RsdpInit
<1>2. mbi.mmap \in Seq(EntrySet)
  BY <1>1, InputInvInit DEF InputInv
<1>3. area.phys_addr % 8 = 0
  BY <1>1, Mbi2Assumption DEF MBI2_TAG_ALIGNMENT
<1> QED
  BY <1>1, <1>2, <1>3 DEF TightInv, Building

(* A step that adds the next tag, if there is space for it. *)
LEMMA TightInvTag ==
  ASSUME TightInv, HandedInv, BldInv, LaidInv, InputInv, pc \in Building,
         UNCHANGED <<memory, loaded, area>>,
         NEW j, j = TagsSoFar, j \in 0 .. Len(ToldSizes) - 1, Adding(bld, bld', ToldSizes[j + 1]),
         Grows(bld, bld'),
         pc' = "halted" \/ pc' \in Building, pc' = "halted" <=> ~bld'.ok,
         pc' \in Building => TagsSoFar' = j + 1, ToldSizes \in Seq(Nat)
  PROVE  TightInv'
<1>1. PICK u : Takes(u, ToldSizes) /\ AlignUp(bld.cur, 8) = bld.start + u[j]
  BY DEF TightInv
<1>2. Packed(bld) /\ bld.end = bld.start + area.length /\ area.length \in Nat
  BY DEF BldInv, Building, Before, InputInv
<1>3. /\ ~bld'.ok => area.length < SpaceFor(ToldSizes) + 8
      /\ bld'.ok => AlignUp(bld'.cur, 8) = bld.start + u[j + 1]
  <2> DEFINE b == bld
             c == bld'
             sizes == ToldSizes
             len == area.length
  <2>1. /\ sizes \in Seq(Nat) /\ Takes(u, sizes) /\ j \in 0 .. Len(sizes) - 1 /\ Packed(b)
        /\ Adding(b, c, sizes[j + 1]) /\ len \in Nat /\ AlignUp(b.cur, 8) = b.start + u[j]
        /\ b.end = b.start + len
    BY <1>1, <1>2
  <2> HIDE DEF b, c, sizes, len
  <2>2. /\ ~c.ok => len < SpaceFor(sizes) + 8
        /\ c.ok => AlignUp(c.cur, 8) = b.start + u[j + 1]
    BY <2>1, OneMoreTag
  <2> QED
    BY <2>2 DEF b, c, sizes, len
<1>4. ToldSizes' = ToldSizes /\ bld'.start = bld.start
  BY SizesKept DEF Grows
<1>5. SpaceFor(ToldSizes)' = SpaceFor(ToldSizes)
  BY <1>4
<1>6. /\ memory' \in [0 .. End -> Paragraphs] /\ loaded'.mmap \in Seq(EntrySet)
      /\ area'.phys_addr % 8 = 0 /\ area' = area
  BY DEF TightInv
<1>7. pc' = "halted" => area'.length < SpaceFor(ToldSizes)' + 8
  BY <1>3, <1>5, <1>6
<1>8. ASSUME pc' \in Building
      PROVE  \E w : Takes(w, ToldSizes') /\ AlignUp(bld'.cur, 8) = bld'.start + w[TagsSoFar']
  <2>1. bld'.ok
    BY <1>8 DEF Building
  <2>2. Takes(u, ToldSizes') /\ AlignUp(bld'.cur, 8) = bld'.start + u[TagsSoFar']
    BY <1>1, <1>3, <1>4, <1>8, <2>1
  <2> QED
    BY <2>2
<1> QED
  BY <1>6, <1>7, <1>8 DEF TightInv

(* A step that leaves the structure alone. *)
LEMMA TightInvSame ==
  ASSUME TightInv, UNCHANGED <<memory, loaded, area>>,
         \/ pc' \notin Building \cup {"halted"}
         \/ pc' \in Building /\ pc \in Building /\ bld' = bld /\ TagsSoFar' = TagsSoFar
  PROVE  TightInv'
<1>1. ToldSizes' = ToldSizes
  BY SizesKept
<1>2. /\ memory' \in [0 .. End -> Paragraphs] /\ loaded'.mmap \in Seq(EntrySet)
      /\ area'.phys_addr % 8 = 0 /\ pc' # "halted"
  BY DEF TightInv, Building
<1>3. ASSUME pc' \in Building
      PROVE  \E w : Takes(w, ToldSizes') /\ AlignUp(bld'.cur, 8) = bld'.start + w[TagsSoFar']
  <2>1. PICK u : Takes(u, ToldSizes) /\ AlignUp(bld.cur, 8) = bld.start + u[TagsSoFar]
    BY <1>3 DEF TightInv
  <2>2. Takes(u, ToldSizes') /\ AlignUp(bld'.cur, 8) = bld'.start + u[TagsSoFar']
    BY <1>1, <1>3, <2>1
  <2> QED
    BY <2>2
<1> QED
  BY <1>2, <1>3 DEF TightInv

LEMMA TagsKept ==
  ASSUME memory' = memory, loaded' = loaded
  PROVE  MapTags' = MapTags /\ ModuleTags' = ModuleTags /\ RsdpTags' = RsdpTags
BY FirstTableKept DEF MapTags, ModuleTags, RsdpTags

(* The space there must be is that of the end tag at least. *)
LEMMA SpaceBounds ==
  ASSUME NEW sizes \in Seq(Nat), NEW u, Takes(u, sizes)
  PROVE  SpaceFor(sizes) \in Nat /\ 16 <= SpaceFor(sizes)
<1>1. PICK m \in Nat : m = Len(sizes)
  OBVIOUS
<1>2. /\ u \in [0 .. m -> Nat] /\ u[0] = 8 /\ SpaceFor(sizes) = u[m] + 8
      /\ \A k \in 1 .. m : u[k] = u[k - 1] + AlignUp(sizes[k], 8)
  BY <1>1 DEF Takes
<1>3. ASSUME NEW k \in 1 .. m PROVE u[k - 1] <= u[k]
  <2>1. sizes[k] \in Nat /\ k - 1 \in 0 .. m /\ k \in 0 .. m
    BY <1>1, ElementOfSeq
  <2>2. PICK f \in Nat, g \in Nat, h \in Nat :
          f = u[k - 1] /\ g = u[k] /\ h = AlignUp(sizes[k], 8)
    BY <1>2, <2>1, AlignEight
  <2>3. g = f + h
    BY <1>2, <2>2
  <2>4. f <= g
    BY <2>3
  <2> QED
    BY <2>2, <2>4
<1>4. 0 \in 0 .. m /\ m \in 0 .. m
  OBVIOUS
<1>5. u[0] <= u[m]
  BY <1>2, <1>3, <1>4, SumsGrow
<1>6. PICK z \in Nat : z = u[m]
  BY <1>2, <1>4
<1>7. 8 <= z
  BY <1>2, <1>5, <1>6
<1>8. z + 8 \in Nat /\ 16 <= z + 8
  BY <1>7
<1> QED
  BY <1>2, <1>6, <1>8

(* mbi2_init fails only if there is no space for a structure without tags. *)
LEMMA BuildFits ==
  ASSUME NEW at \in Nat, at % 8 = 0, NEW n \in Nat, ~BuilderAt(at, n).ok
  PROVE  n < 16
<1> DEFINE b == [start |-> at, cur |-> at, end |-> at + n, mem |-> <<>>, ok |-> at % 8 = 0]
           c == BuilderAt(at, n)
<1>1. c = AddBlob(b, 8, InfoBlob(0))
  BY DEF BuilderAt, MBI2_TAG_ALIGNMENT
<1>2. b \in Builders /\ b.cur = at /\ b.end = at + n /\ b.ok
  <2>1. (at % 8 = 0) \in BOOLEAN /\ at + n \in Nat
    OBVIOUS
  <2> QED
    BY <2>1, EmptyMemory DEF Builders
<1> HIDE DEF b, c
<1>3. InfoBlob(0) \in Blobs /\ InfoBlob(0).size = 8
  <2>1. InfoBlob(0) \in PlainBlobs
    BY DEF PlainBlobs
  <2> QED
    BY <2>1 DEF Blobs, InfoBlob, BootInfoSize
<1>4. ASSUME 16 <= n PROVE FALSE
  <2>1. 8 + 8 <= (at + n) - at
    BY <1>4
  <2>2. Fits(b, 8, InfoBlob(0))
    BY <1>2, <1>3, <2>1 DEF Fits
  <2>3. c.ok
    BY <1>1, <1>2, <1>3, <2>2, AddBlobFits
  <2> QED
    BY <2>3 DEF c
<1> QED
  BY <1>4

LEMMA TightInvNext ==
  RsdpInv /\ InputInv /\ BldInv /\ LaidInv /\ HandedInv /\ TightInv /\ [Next]_vars => TightInv'
<1> SUFFICES ASSUME RsdpInv, InputInv, BldInv, LaidInv, HandedInv, TightInv, [Next]_vars
             PROVE  TightInv'
  OBVIOUS
<1>i. /\ mbi.cmdline \in String /\ mbi.mmap \in Seq(EntrySet)
      /\ mbi.mods \in Seq(ModuleSet) /\ mod_index \in Nat
      /\ area.phys_addr \in Nat /\ area.length \in Nat
  BY DEF InputInv
<1>k. UNCHANGED <<loaded, area, memory>>
  BY DEF Next, Step, NoModule, PopModule, Build, ConvertCmdline, ConvertMemmap, ConvertModule,
         SearchRsdp, ConvertRsdp, Finish, KernelStart, ReadCmdline, ReadModule, ReadMemoryMap,
         ReadEntry, LastEntryRead, ReadOther, AcpiGetRsdp, Found, PassOver, NextRange,
         vars, input, rsdpVars
<1>m. /\ memory \in [0 .. End -> Paragraphs] /\ loaded.mmap \in Seq(EntrySet)
      /\ loaded.mods \in Seq(ModuleSet) /\ area.phys_addr % 8 = 0
  BY DEF TightInv, HandedInv
<1>t. /\ MapTags' = MapTags /\ ModuleTags' = ModuleTags /\ RsdpTags' = RsdpTags
      /\ ToldSizes' = ToldSizes
  BY <1>k, TagsKept, SizesKept
<1>n. MapTags \in {0, 1} /\ RsdpTags \in {0, 1}
  BY DEF MapTags, RsdpTags
<1>h. ASSUME pc \notin {"start", "exit"}
      PROVE  /\ loaded.mods # <<>> /\ mbi.mods = Tail(loaded.mods)
             /\ mbi.cmdline = loaded.mods[1].string /\ mbi.mmap = loaded.mmap
             /\ "mem" \in mbi.flags <=> "mem" \in loaded.flags
             /\ "cmdline" \in mbi.flags /\ "mods" \in mbi.flags
             /\ Len(mbi.mods) = ModuleTags
             /\ \A k \in 1 .. ModuleTags : mbi.mods[k] = loaded.mods[k + 1]
  <2>1. /\ loaded.mods # <<>> /\ mbi.mods = Tail(loaded.mods)
        /\ mbi.cmdline = loaded.mods[1].string /\ mbi.mmap = loaded.mmap
        /\ "mem" \in mbi.flags <=> "mem" \in loaded.flags
        /\ "cmdline" \in mbi.flags /\ "mods" \in mbi.flags
    BY <1>h DEF HandedInv, LaidInv
  <2>2. /\ Len(Tail(loaded.mods)) = Len(loaded.mods) - 1
        /\ \A k \in 1 .. Len(loaded.mods) - 1 : Tail(loaded.mods)[k] = loaded.mods[k + 1]
    <3> DEFINE S == ModuleSet
               s == loaded.mods
    <3>1. s \in Seq(S) /\ s # <<>>
      BY <1>m, <2>1
    <3> HIDE DEF S, s
    <3>2. /\ Len(Tail(s)) = Len(s) - 1
          /\ \A k \in 1 .. Len(s) - 1 : Tail(s)[k] = s[k + 1]
      BY <3>1, HeadTailProperties
    <3> QED
      BY <3>2 DEF s
  <2> QED
    BY <2>1, <2>2 DEF ModuleTags
<1>s. ASSUME pc \notin {"start", "exit"}
      PROVE  /\ ToldSizes \in Seq(Nat) /\ ModuleTags \in Nat
             /\ Len(ToldSizes) = 1 + MapTags + ModuleTags + RsdpTags
             /\ ToldSizes[1] = TagSize + mbi.cmdline.len + 1
             /\ MapTags = 1 =>
                  ToldSizes[2] = TagSize + MemorySize + MemoryEntrySize * Len(mbi.mmap)
             /\ \A k \in 1 .. ModuleTags :
                  ToldSizes[1 + MapTags + k] = TagSize + ModuleSize + mbi.mods[k].string.len + 1
             /\ RsdpTags = 1 =>
                  ToldSizes[1 + MapTags + ModuleTags + 1]
                    = TagSize + RsdpBlob(memory[FirstTable].table).size
  BY <1>h, <1>m, <1>s, SizesAre
<1>b. ASSUME pc \in Building PROVE Packed(bld) /\ Laid(bld) /\ bld.ok /\ pc \notin {"start", "exit"}
  BY <1>b DEF BldInv, LaidInv, Building, Before
<1>1. CASE NoModule \/ PopModule
  <2>1. pc' \in {"exit", "build"}
    BY <1>1 DEF NoModule, PopModule
  <2> QED
    BY <1>k, <2>1, TightInvSame DEF Building
<1>2. CASE Build
  <2>1. /\ bld' = BuilderAt(area.phys_addr, area.length) /\ pc = "build"
        /\ pc' = (IF bld'.ok THEN "cmdline" ELSE "halted")
    BY <1>2 DEF Build, GoOn
  <2>2. ToldSizes \in Seq(Nat)
    BY <1>s, <2>1
  <2>3. PICK u : Takes(u, ToldSizes)
    BY <2>2, SpaceSteps
  <2>4. SpaceFor(ToldSizes) \in Nat /\ 16 <= SpaceFor(ToldSizes)
    BY <2>2, <2>3, SpaceBounds
  <2>5. CASE ~bld'.ok
    <3>1. area.length < 16
      BY <1>i, <1>m, <2>1, <2>5, BuildFits
    <3>2. area.length < SpaceFor(ToldSizes) + 8
      BY <1>i, <2>4, <3>1
    <3>3. SpaceFor(ToldSizes)' = SpaceFor(ToldSizes) /\ pc' = "halted" /\ pc' \notin Building
      BY <1>t, <2>1, <2>5 DEF Building
    <3> QED
      BY <1>k, <1>m, <3>2, <3>3 DEF TightInv
  <2>6. CASE bld'.ok
    <3>1. bld'.start = area.phys_addr /\ bld'.cur = area.phys_addr + 8
      BY <1>i, <2>1, <2>6, BuildPacked
    <3>2. AlignUp(area.phys_addr + 8, 8) = area.phys_addr + 8
      <4>1. AlignUp(area.phys_addr + 8, 8) = area.phys_addr + AlignUp(8, 8)
        BY <1>i, <1>m, AlignSum
      <4>2. AlignUp(8, 8) = 8
        BY DEF AlignUp
      <4> QED
        BY <4>1, <4>2
    <3>3. pc' = "cmdline" /\ TagsSoFar' = 0 /\ u[0] = 8
      BY <2>1, <2>3, <2>6 DEF TagsSoFar, Takes
    <3>4. Takes(u, ToldSizes') /\ AlignUp(bld'.cur, 8) = bld'.start + u[TagsSoFar']
      BY <1>t, <2>3, <3>1, <3>2, <3>3
    <3> QED
      BY <1>k, <1>m, <3>3, <3>4 DEF TightInv
  <2> QED
    BY <2>5, <2>6
<1>3. CASE ConvertCmdline
  <2>1. /\ pc = "cmdline" /\ bld' = AddBootCmdline(bld, mbi.cmdline)
        /\ pc' = (IF bld'.ok THEN "mem" ELSE "halted")
    BY <1>3, <1>h DEF ConvertCmdline, GoOn
  <2>2. pc \in Building /\ (bld'.ok => pc' \in Building) /\ "mem" # "halted"
    BY <2>1 DEF Building
  <2>3. TagsSoFar = 0 /\ (pc' = "mem" => TagsSoFar' = 0 + 1)
    BY <2>1 DEF TagsSoFar
  <2>4. 0 \in 0 .. Len(ToldSizes) - 1
    <3>1. PICK c \in Nat, e \in Nat, d \in Nat : Len(ToldSizes) = 1 + e + c + d
      BY <1>b, <1>n, <1>s, <2>2, SMTT(40)
    <3>2. 0 \in 0 .. (1 + e + c + d) - 1
      OBVIOUS
    <3> QED
      BY <3>1, <3>2
  <2>5. Adding(bld, bld', ToldSizes[0 + 1])
    <3>1. 0 + 1 = 1 /\ ToldSizes[1] = TagSize + mbi.cmdline.len + 1
      BY <1>b, <1>s, <2>2
    <3> QED
      BY <1>b, <1>i, <2>1, <2>2, <3>1, CmdlineIsAdded
  <2>6. Grows(bld, bld')
    BY <1>b, <1>i, <2>1, <2>2, CmdlinePacked
  <2>7. /\ pc' = "halted" \/ pc' \in Building
        /\ pc' = "halted" <=> ~bld'.ok
        /\ pc' \in Building => TagsSoFar' = 0 + 1
    BY <2>1, <2>2, <2>3 DEF Building
  <2>8. ToldSizes \in Seq(Nat)
    BY <1>b, <1>s, <2>2
  <2> QED
    BY <1>k, <2>2, <2>3, <2>4, <2>5, <2>6, <2>7, <2>8, TightInvTag
<1>4. CASE ConvertMemmap
  <2>1. /\ pc = "mem" /\ mod_index' = mod_index /\ mod_index = 0
        /\ bld' = (IF "mem" \in mbi.flags THEN AddMbi1Memmap(bld, mbi.mmap) ELSE bld)
        /\ pc' = (IF bld'.ok THEN "mods" ELSE "halted")
    BY <1>4 DEF ConvertMemmap, GoOn, HandedInv
  <2>2. pc \in Building /\ (bld'.ok => pc' \in Building)
    BY <2>1 DEF Building
  <2>3. TagsSoFar = 1 /\ (pc' = "mods" => TagsSoFar' = 1 + MapTags)
    BY <1>n, <1>t, <2>1 DEF TagsSoFar
  <2>4. CASE "mem" \in mbi.flags
    <3>0. MapTags = 1 /\ bld' = AddMbi1Memmap(bld, mbi.mmap)
      BY <1>h, <2>1, <2>4 DEF MapTags
    <3>1. 1 \in 0 .. Len(ToldSizes) - 1
      BY <1>b, <1>n, <1>s, <2>2, <3>0
    <3>2. Adding(bld, bld', ToldSizes[1 + 1])
      <4>1. /\ 1 + 1 = 2
            /\ ToldSizes[2] = TagSize + MemorySize + MemoryEntrySize * Len(mbi.mmap)
        BY <1>b, <1>s, <2>2, <3>0
      <4> QED
        BY <1>b, <1>i, <2>2, <3>0, <4>1, MmapIsAdded
    <3>3. Grows(bld, bld')
      BY <1>b, <1>i, <2>2, <3>0, MmapPacked
    <3>4. /\ pc' = "halted" \/ pc' \in Building
          /\ pc' = "halted" <=> ~bld'.ok
          /\ pc' \in Building => TagsSoFar' = 1 + 1
      BY <2>1, <2>2, <2>3, <3>0 DEF Building
    <3>5. ToldSizes \in Seq(Nat)
      BY <1>b, <1>s, <2>2
    <3> QED
      BY <1>k, <2>2, <2>3, <3>1, <3>2, <3>3, <3>4, <3>5, TightInvTag
  <2>5. CASE "mem" \notin mbi.flags
    <3>1. MapTags = 0 /\ bld' = bld
      BY <1>h, <2>1, <2>5 DEF MapTags
    <3>2. pc' = "mods" /\ pc' \in Building /\ TagsSoFar' = TagsSoFar
      BY <1>b, <2>1, <2>2, <2>3, <3>1
    <3> QED
      BY <1>k, <2>2, <3>1, <3>2, TightInvSame
  <2> QED
    BY <2>4, <2>5
<1>5. CASE ConvertModule
  <2>1. /\ pc = "mods" /\ mod_index < Len(mbi.mods) /\ mod_index' = mod_index + 1
        /\ bld' = AddModule(bld, mbi.mods[mod_index + 1])
        /\ pc' = (IF bld'.ok THEN "mods" ELSE "halted")
    BY <1>5 DEF ConvertModule, GoOn
  <2>2. pc \in Building /\ (bld'.ok => pc' \in Building)
    BY <2>1 DEF Building
  <2>3. PICK c \in Nat, e \in Nat, i \in Nat, d \in Nat :
          /\ c = ModuleTags /\ e = MapTags /\ i = mod_index /\ d = RsdpTags
          /\ Len(mbi.mods) = c /\ i < c
    <3>1. MapTags \in Nat /\ RsdpTags \in Nat
      BY <1>n
    <3> QED
      BY <1>b, <1>h, <1>i, <1>s, <2>1, <2>2, <3>1, SMTT(40)
  <2>4. i + 1 \in 1 .. c /\ 1 + e + i \in 0 .. (1 + e + c + d) - 1 /\ 1 + e + i \in Nat
    BY <2>3
  <2>5. TagsSoFar = 1 + e + i /\ (pc' = "mods" => TagsSoFar' = (1 + e + i) + 1)
    <3>1. TagsSoFar = 1 + e + i
      BY <2>1, <2>3 DEF TagsSoFar
    <3>2. 1 + e + (i + 1) = (1 + e + i) + 1
      OBVIOUS
    <3>3. pc' = "mods" => TagsSoFar' = 1 + e + (i + 1)
      BY <1>t, <2>1, <2>3 DEF TagsSoFar
    <3> QED
      BY <3>1, <3>2, <3>3
  <2>6. PICK m \in ModuleSet : m = mbi.mods[i + 1]
    BY <1>i, <2>3, <2>4, ElementOfSeq
  <2>7. Adding(bld, bld', ToldSizes[(1 + e + i) + 1])
    <3>1. ToldSizes[1 + e + (i + 1)] = TagSize + ModuleSize + m.string.len + 1
      BY <1>b, <1>s, <2>2, <2>3, <2>4, <2>6
    <3>2. 1 + e + (i + 1) = (1 + e + i) + 1
      OBVIOUS
    <3>3. Adding(bld, AddModule(bld, m), TagSize + ModuleSize + m.string.len + 1)
      BY <1>b, <2>2, ModuleIsAdded
    <3>4. bld' = AddModule(bld, m)
      BY <2>1, <2>3, <2>6
    <3> QED
      BY <3>1, <3>2, <3>3, <3>4
  <2>8. Grows(bld, bld')
    BY <1>b, <2>1, <2>2, <2>3, <2>6, ModulePacked
  <2>9. /\ pc' = "halted" \/ pc' \in Building
        /\ pc' = "halted" <=> ~bld'.ok
        /\ pc' \in Building => TagsSoFar' = (1 + e + i) + 1
    BY <2>1, <2>2, <2>5 DEF Building
  <2>10. ToldSizes \in Seq(Nat) /\ 1 + e + i \in 0 .. Len(ToldSizes) - 1
    BY <1>b, <1>s, <2>2, <2>3, <2>4
  <2>11. PICK j : j = 1 + e + i
    OBVIOUS
  <2>12. /\ j = TagsSoFar /\ j \in 0 .. Len(ToldSizes) - 1 /\ Adding(bld, bld', ToldSizes[j + 1])
         /\ pc' \in Building => TagsSoFar' = j + 1
    BY <2>5, <2>7, <2>9, <2>10, <2>11
  <2> QED
    BY <1>k, <2>2, <2>8, <2>9, <2>10, <2>12, TightInvTag
<1>6. CASE SearchRsdp
  <2>1. pc = "mods" /\ pc' = pc /\ bld' = bld /\ mod_index' = mod_index
    BY <1>6 DEF SearchRsdp
  <2>2. TagsSoFar' = TagsSoFar /\ pc \in Building
    BY <1>t, <2>1 DEF TagsSoFar, Building
  <2> QED
    BY <1>k, <2>1, <2>2, TightInvSame
<1>7. CASE ConvertRsdp
  <2>1. /\ pc = "mods" /\ done /\ mod_index = Len(mbi.mods)
        /\ bld' = (IF ret # Null THEN AddRsdp(bld, memory[ret].table) ELSE bld)
        /\ pc' = (IF bld'.ok THEN "finish" ELSE "halted")
    BY <1>7 DEF ConvertRsdp, GoOn, HandedInv
  <2>2. pc \in Building /\ (bld'.ok => pc' \in Building)
    BY <2>1 DEF Building
  <2>3. PICK c \in Nat, e \in Nat, d \in Nat :
          c = ModuleTags /\ e = MapTags /\ d = RsdpTags /\ mod_index = c
    BY <1>b, <1>h, <1>n, <1>s, <2>1, <2>2
  <2>4. TagsSoFar = 1 + e + c /\ (pc' = "finish" => TagsSoFar' = 1 + e + c + d)
    BY <1>t, <2>1, <2>3 DEF TagsSoFar
  <2>5. ret = FirstTable
    BY <2>1, RsdpInvImplies DEF RsdpIsFirst
  <2>6. CASE ret # Null
    <3>0. d = 1 /\ bld' = AddRsdp(bld, memory[ret].table)
      BY <2>1, <2>3, <2>5, <2>6 DEF RsdpTags
    <3>1. PICK r \in TableSet : r = memory[ret].table
      BY <2>1, <2>6, TableType
    <3>2. Adding(bld, bld', ToldSizes[(1 + e + c) + 1])
      <4>1. ToldSizes[1 + e + c + 1] = TagSize + RsdpBlob(r).size
        BY <1>b, <1>s, <2>2, <2>3, <2>5, <3>0, <3>1
      <4> QED
        BY <1>b, <2>2, <3>0, <3>1, <4>1, RsdpIsAdded
    <3>3. Grows(bld, bld')
      BY <1>b, <2>2, <3>0, <3>1, RsdpPacked
    <3>4. 1 + e + c \in 0 .. (1 + e + c + d) - 1
      BY <3>0
    <3>5. ToldSizes \in Seq(Nat) /\ 1 + e + c \in 0 .. Len(ToldSizes) - 1
      BY <1>b, <1>s, <2>2, <2>3, <3>4
    <3>6. /\ pc' = "halted" \/ pc' \in Building
          /\ pc' = "halted" <=> ~bld'.ok
          /\ pc' \in Building => TagsSoFar' = (1 + e + c) + 1
      BY <2>1, <2>2, <2>4, <3>0 DEF Building
    <3>7. PICK j : j = 1 + e + c
      OBVIOUS
    <3>8. /\ j = TagsSoFar /\ j \in 0 .. Len(ToldSizes) - 1
          /\ Adding(bld, bld', ToldSizes[j + 1]) /\ (pc' \in Building => TagsSoFar' = j + 1)
      BY <2>4, <3>2, <3>5, <3>6, <3>7
    <3> QED
      BY <1>k, <2>2, <3>3, <3>5, <3>6, <3>8, TightInvTag
  <2>7. CASE ret = Null
    <3>1. d = 0 /\ bld' = bld
      BY <2>1, <2>3, <2>5, <2>7 DEF RsdpTags
    <3>2. pc' = "finish" /\ pc' \in Building
      BY <1>b, <2>1, <2>2, <3>1
    <3>3. 1 + e + c + d = 1 + e + c
      BY <3>1
    <3> QED
      BY <1>k, <2>2, <2>4, <3>1, <3>2, <3>3, TightInvSame
  <2> QED
    BY <2>6, <2>7
<1>8. CASE Finish
  <2>1. /\ pc = "finish" /\ bld' = BuilderFinished(bld)
        /\ pc' = (IF bld'.ok THEN "boot" ELSE "halted")
    BY <1>8 DEF Finish, GoOn
  <2>2. pc \in Building
    BY <2>1 DEF Building
  <2>3. CASE bld'.ok
    <3>1. pc' \notin Building \cup {"halted"}
      BY <2>1, <2>3 DEF Building
    <3> QED
      BY <1>k, <3>1, TightInvSame
  <2>4. CASE ~bld'.ok
    <3>1. PICK u : Takes(u, ToldSizes) /\ AlignUp(bld.cur, 8) = bld.start + u[TagsSoFar]
      BY <2>2 DEF TightInv
    <3>2. TagsSoFar = Len(ToldSizes) /\ ToldSizes \in Seq(Nat)
      BY <1>b, <1>s, <2>1, <2>2 DEF TagsSoFar
    <3>3. bld.end < AlignUp(bld.cur, 8) + 16
      BY <1>b, <2>1, <2>2, <2>4, EndIsAdded
    <3>4. bld.end = bld.start + area.length /\ bld.start \in Nat
      BY <1>i, <2>1 DEF BldInv, Before
    <3>5. PICK z : z = u[Len(ToldSizes)] /\ z \in Nat /\ SpaceFor(ToldSizes) = z + 8
      <4>1. Len(ToldSizes) \in 0 .. Len(ToldSizes)
        BY <3>2, LenProperties
      <4> QED
        BY <3>1, <4>1 DEF Takes
    <3>6. PICK f \in Nat, l \in Nat : f = bld.start /\ l = area.length /\ f + l < (f + z) + 16
      BY <1>i, <3>1, <3>2, <3>3, <3>4, <3>5
    <3>7. l < (z + 8) + 8
      <4>1. z \in Nat /\ f + l < (f + z) + 16
        BY <3>5, <3>6
      <4> QED
        BY <4>1
    <3>8. SpaceFor(ToldSizes)' = SpaceFor(ToldSizes) /\ pc' = "halted" /\ pc' \notin Building
      BY <1>t, <2>1, <2>4 DEF Building
    <3>9. area'.length < SpaceFor(ToldSizes)' + 8
      BY <1>k, <3>5, <3>6, <3>7, <3>8
    <3> QED
      BY <1>k, <1>m, <3>8, <3>9 DEF TightInv
  <2> QED
    BY <2>3, <2>4
<1>9. CASE KernelStart \/ ReadCmdline \/ ReadModule \/ ReadMemoryMap \/ ReadEntry
           \/ LastEntryRead \/ ReadOther
  <2>1. pc' \in {"read", "entries", "done", "astray"}
    BY <1>9 DEF KernelStart, ReadCmdline, ReadModule, ReadMemoryMap, ReadEntry,
                LastEntryRead, ReadOther, GoToNextTag
  <2> QED
    BY <1>k, <2>1, TightInvSame DEF Building
<1>10. CASE UNCHANGED vars
  <2>1. pc' = pc /\ bld' = bld /\ mod_index' = mod_index
    BY <1>10 DEF vars
  <2>2. TagsSoFar' = TagsSoFar
    BY <1>t, <2>1 DEF TagsSoFar
  <2>3. CASE pc \in Building
    BY <1>k, <2>1, <2>2, <2>3, TightInvSame
  <2>4. CASE pc \notin Building
    <3>1. pc' = "halted" => area'.length < SpaceFor(ToldSizes)' + 8
      BY <1>k, <1>t, <2>1 DEF TightInv
    <3> QED
      BY <1>k, <1>m, <2>1, <2>4, <3>1 DEF TightInv
  <2> QED
    BY <2>3, <2>4
<1> QED
  BY <1>1, <1>2, <1>3, <1>4, <1>5, <1>6, <1>7, <1>8, <1>9, <1>10 DEF Next, Step

(* No assertion of the builder fails if there is memory for what the       *)
(* loader has told, with the tags aligned, and for eight bytes more        *)
(* (mbi2.c:34-37), whatever the loader has told.                           *)
THEOREM HaltsOnlyIfTightHolds == Spec => []HaltsOnlyIfTight
<1>1. Init => HandedInv /\ TightInv
  BY HandedInvInit, TightInvInit
<1>2. /\ RsdpInv /\ InputInv /\ BldInv /\ LaidInv /\ HandedInv /\ TightInv /\ [Next]_vars
           => HandedInv' /\ TightInv'
  BY HandedInvNext, TightInvNext
<1>3. TightInv => HaltsOnlyIfTight
  BY DEF TightInv, HaltsOnlyIfTight
<1> QED
  BY <1>1, <1>2, <1>3, Mbi2InvHolds, LaidInvHolds, PTL DEF Spec

=============================================================================
