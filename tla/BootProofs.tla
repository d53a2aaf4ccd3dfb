----------------------------- MODULE BootProofs -----------------------------
(***************************************************************************)
(* Proofs about Boot: the generated code is executed from end to end       *)
(* unless a segment is put on it, moves every segment, writes nothing      *)
(* else, and enters the kernel as it wants to be entered; for any module   *)
(* and any number of segments.                                             *)
(*                                                                         *)
(* The argument.  Offset(phs)[n] instructions come before those of program *)
(* header n + 1, and what they are follows from that header.  So each      *)
(* place in the code belongs to one header p + 1 and one of its six        *)
(* instructions k + 1, or to the three at the end; RunAt says what the     *)
(* registers and the memory are there.  The invariant leaves open what     *)
(* memory held in the beginning: m.                                        *)
(***************************************************************************)
EXTENDS Boot, InductionProofs

RegisterNames == {"eax", "ecx", "edx", "ebx", "esi", "edi"}

Registers == [eax: Nat, ecx: Nat, edx: Nat, ebx: Nat, esi: Nat, edi: Nat]

Instruction ==
  [op: {"mov"}, reg: RegisterNames, constant: Nat]
    \cup [op: {"rep movsb", "rep stosb", "jmp"}]

-----------------------------------------------------------------------------
(* How long code is.                                                       *)

(* f[n] bytes are taken by the first n instructions of s. *)
Sizes(f, s) ==
  /\ f \in [0 .. Len(s) -> Nat]
  /\ f[0] = 0
  /\ \A n \in 1 .. Len(s) : f[n] = f[n - 1] + InstructionSize(s[n])
  /\ CodeSize(s) = f[Len(s)]

LEMMA SizesExist ==
  ASSUME NEW s, Len(s) \in Nat
  PROVE  \E f : Sizes(f, s)
<1>m. PICK m \in Nat : m = Len(s)
  OBVIOUS
<1> DEFINE step == [p \in Nat \X (1 .. m) |-> p[1] + InstructionSize(s[p[2]])]
<1>1. IsStep(step, Nat, m)
  BY DEF IsStep, InstructionSize
<1>2. PICK f : IsRecursion(f, Nat, 0, m, step)
  <2> HIDE DEF step
  <2>1. 0 \in Nat
    OBVIOUS
  <2> QED
    BY <1>1, <2>1, RecursionExists
<1>3. f \in [0 .. m -> Nat] /\ f[0] = 0
  BY <1>2 DEF IsRecursion
<1>4. ASSUME NEW n \in 1 .. m PROVE f[n] = f[n - 1] + InstructionSize(s[n])
  <2>1. n - 1 \in 0 .. m
    OBVIOUS
  <2>2. f[n - 1] \in Nat
    BY <1>3, <2>1
  <2>3. f[n] = step[<<f[n - 1], n>>]
    BY <1>2 DEF IsRecursion
  <2> QED
    BY <2>2, <2>3
<1> DEFINE Rec(g) == [n \in 0 .. m |-> IF n = 0 THEN 0 ELSE g[n - 1] + InstructionSize(s[n])]
           F == CHOOSE g : g = Rec(g)
<1>5. CodeSize(s) = F[m]
  BY <1>m DEF CodeSize
<1>6. f = Rec(f)
  <2> SUFFICES ASSUME NEW n \in 0 .. m
               PROVE  f[n] = IF n = 0 THEN 0 ELSE f[n - 1] + InstructionSize(s[n])
    BY <1>3
  <2>1. CASE n = 0
    BY <1>3, <2>1
  <2>2. CASE n # 0
    <3>1. n \in 1 .. m
      BY <2>2
    <3> QED
      BY <1>4, <2>2, <3>1
  <2> QED
    BY <2>1, <2>2
<1>7. F = Rec(F)
  <2>1. \E g : g = Rec(g)
    BY <1>6
  <2> HIDE DEF Rec
  <2> QED
    BY <2>1
<1> HIDE DEF F
<1>8. \A n \in 0 .. m : f[n] = F[n]
  <2>1. f[0] = F[0]
    <3>1. 0 \in 0 .. m
      OBVIOUS
    <3> QED
      BY <1>3, <1>7, <3>1
  <2>2. ASSUME NEW n \in 1 .. m, f[n - 1] = F[n - 1] PROVE f[n] = F[n]
    <3>1. n \in 0 .. m /\ n # 0
      OBVIOUS
    <3>2. F[n] = F[n - 1] + InstructionSize(s[n])
      BY <1>7, <3>1
    <3> QED
      BY <1>4, <2>2, <3>2
  <2> QED
    BY <2>1, <2>2, StepsAgree, SMTT(40)
<1>9. CodeSize(s) = f[m]
  BY <1>5, <1>8
<1>10. Sizes(f, s)
  BY <1>m, <1>3, <1>4, <1>9 DEF Sizes
<1> QED
  BY <1>10

(* The first n instructions by themselves take as much. *)
LEMMA SizeOfPrefix ==
  ASSUME NEW S, NEW s \in Seq(S), NEW f, Sizes(f, s), NEW n \in 0 .. Len(s)
  PROVE  CodeSize(SubSeq(s, 1, n)) = f[n]
<1> DEFINE t == SubSeq(s, 1, n)
<1>1. Len(t) = n /\ n \in Nat /\ \A x \in 1 .. n : t[x] = s[x]
  OBVIOUS
<1> HIDE DEF t
<1>2. PICK g : Sizes(g, t)
  BY <1>1, SizesExist
<1>3. f[0] = g[0] /\ CodeSize(t) = g[n]
  BY <1>1, <1>2 DEF Sizes
<1>4. ASSUME NEW x \in 1 .. n, f[x - 1] = g[x - 1] PROVE f[x] = g[x]
  <2>1. x \in 1 .. Len(s) /\ x \in 1 .. Len(t)
    BY <1>1
  <2>2. f[x] = f[x - 1] + InstructionSize(s[x]) /\ g[x] = g[x - 1] + InstructionSize(t[x])
    BY <1>2, <2>1 DEF Sizes
  <2> QED
    BY <1>1, <1>4, <2>2
<1>5. \A x \in 0 .. n : f[x] = g[x]
  <2>1. n \in Nat /\ \A x \in 1 .. n : f[x - 1] = g[x - 1] => f[x] = g[x]
    BY <1>1, <1>4
  <2>2. f[0] = g[0]
    BY <1>3
  <2> QED
    BY <2>1, <2>2, StepsAgree, ZenonT(40)
<1> QED
  BY <1>1, <1>3, <1>5 DEF t

LEMMA SizesGrow ==
  ASSUME NEW s, Len(s) \in Nat, NEW f, Sizes(f, s),
         NEW a \in 0 .. Len(s), NEW b \in a .. Len(s)
  PROVE  f[a] <= f[b]
<1>m. PICK m \in Nat : m = Len(s) - a
  OBVIOUS
<1> DEFINE T == { x \in 0 .. m : f[a] <= f[a + x] }
<1>1. \A x \in 0 .. m : f[a + x] \in Nat
  BY <1>m DEF Sizes
<1>2. 0 \in T
  <2>1. f[a] \in Nat /\ a + 0 = a
    BY DEF Sizes
  <2> QED
    BY <2>1
<1>3. ASSUME NEW x \in 0 .. m - 1, x \in T PROVE x + 1 \in T
  <2>1. PICK y \in 1 .. Len(s) : y = a + (x + 1) /\ y - 1 = a + x
    BY <1>m
  <2>2. f[y] = f[y - 1] + InstructionSize(s[y])
    BY DEF Sizes
  <2>3. InstructionSize(s[y]) \in Nat
    BY DEF InstructionSize
  <2>4. f[a + x] \in Nat /\ f[a] <= f[a + x] /\ f[a] \in Nat
    BY <1>1, <1>3 DEF Sizes
  <2>5. f[a] <= f[y]
    BY <2>1, <2>2, <2>3, <2>4
  <2> QED
    BY <2>1, <2>5
<1>4. \A x \in 0 .. m : x \in T
  <2> HIDE DEF T
  <2> QED
    BY <1>2, <1>3, InductionUpTo
<1>5. b - a \in 0 .. m /\ a + (b - a) = b
  BY <1>m
<1> QED
  BY <1>4, <1>5

(* Where instruction n is, and that it is part of the code.                *)
LEMMA InstructionPlace ==
  ASSUME NEW S, NEW s \in Seq(S), NEW n \in 1 .. Len(s)
  PROVE  /\ CodeSize(SubSeq(s, 1, n - 1)) \in Nat
         /\ CodeSize(SubSeq(s, 1, n - 1)) + InstructionSize(s[n]) <= CodeSize(s)
<1>1. PICK f : Sizes(f, s)
  BY SizesExist
<1>2. n - 1 \in 0 .. Len(s) /\ n \in 0 .. Len(s) /\ Len(s) \in n .. Len(s)
  OBVIOUS
<1>3. CodeSize(SubSeq(s, 1, n - 1)) = f[n - 1]
  BY <1>1, <1>2, SizeOfPrefix
<1>4. f[n - 1] \in Nat /\ f[n] = f[n - 1] + InstructionSize(s[n]) /\ CodeSize(s) = f[Len(s)]
  BY <1>1, <1>2 DEF Sizes
<1>5. f[n] <= f[Len(s)]
  BY <1>1, <1>2, SizesGrow
<1> QED
  BY <1>3, <1>4, <1>5

LEMMA NoCode == CodeSize(<<>>) = 0
<1>1. Len(<<>>) = 0
  OBVIOUS
<1>2. PICK f : Sizes(f, <<>>)
  BY <1>1, SizesExist
<1> QED
  BY <1>1, <1>2 DEF Sizes

(* The code grows by six instructions of a segment, or by three.           *)
LEMMA CodeGrows ==
  ASSUME NEW S, NEW s \in Seq(S), NEW t \in Seq(S)
  PROVE  /\ CodeSize(s) \in Nat /\ CodeSize(s \o t) \in Nat
         /\ CodeSize(s) <= CodeSize(s \o t)
         /\ Len(t) = 6 => CodeSize(s \o t) = CodeSize(s)
                            + InstructionSize(t[1]) + InstructionSize(t[2])
                            + InstructionSize(t[3]) + InstructionSize(t[4])
                            + InstructionSize(t[5]) + InstructionSize(t[6])
         /\ Len(t) = 3 => CodeSize(s \o t) = CodeSize(s)
                            + InstructionSize(t[1]) + InstructionSize(t[2])
                            + InstructionSize(t[3])
<1> DEFINE u == s \o t
<1>1. PICK l \in Nat, r \in Nat : l = Len(s) /\ r = Len(t)
  OBVIOUS
<1>2. /\ u \in Seq(S) /\ Len(u) = l + r /\ SubSeq(u, 1, l) = s
      /\ \A x \in 1 .. r : u[l + x] = t[x]
  BY <1>1
<1> HIDE DEF u
<1>3. PICK f : Sizes(f, u)
  BY <1>1, <1>2, SizesExist
<1>4. CodeSize(s) = f[l]
  <2>1. l \in 0 .. Len(u)
    BY <1>1, <1>2
  <2>2. CodeSize(SubSeq(u, 1, l)) = f[l]
    BY <1>2, <1>3, <2>1, SizeOfPrefix
  <2> QED
    BY <1>2, <2>2
<1>5. f[l] <= f[l + r]
  <2>1. Len(u) \in Nat /\ l \in 0 .. Len(u) /\ l + r \in l .. Len(u)
    BY <1>2
  <2> QED
    BY <1>3, <2>1, SizesGrow
<1>6. f[l] \in Nat /\ f[l + r] \in Nat /\ CodeSize(u) = f[l + r]
  BY <1>1, <1>2, <1>3 DEF Sizes
<1>7. ASSUME NEW x \in 1 .. r
      PROVE  f[l + x] = f[l + (x - 1)] + InstructionSize(t[x]) /\ f[l + (x - 1)] \in Nat
             /\ f[l + x] \in Nat
  <2>1. PICK y \in 1 .. Len(u) : y = l + x /\ y - 1 = l + (x - 1)
    BY <1>2
  <2>2. f[y] = f[y - 1] + InstructionSize(u[y]) /\ f[y - 1] \in Nat /\ f[y] \in Nat
    BY <1>3 DEF Sizes
  <2> QED
    BY <1>2, <2>1, <2>2
<1>8. \A x \in 1 .. r : InstructionSize(t[x]) \in Nat
  BY DEF InstructionSize
<1>9. ASSUME r >= 3
      PROVE  /\ f[l + 1] = f[l] + InstructionSize(t[1])
             /\ f[l + 2] = f[l + 1] + InstructionSize(t[2])
             /\ f[l + 3] = f[l + 2] + InstructionSize(t[3])
             /\ f[l + 1] \in Nat /\ f[l + 2] \in Nat /\ f[l + 3] \in Nat
  <2>1. 1 \in 1 .. r /\ 2 \in 1 .. r /\ 3 \in 1 .. r
    BY <1>9
  <2>2. l + (1 - 1) = l /\ l + (2 - 1) = l + 1 /\ l + (3 - 1) = l + 2
    OBVIOUS
  <2> QED
    BY <1>7, <2>1, <2>2
<1>10. ASSUME r >= 6
       PROVE  /\ f[l + 4] = f[l + 3] + InstructionSize(t[4])
              /\ f[l + 5] = f[l + 4] + InstructionSize(t[5])
              /\ f[l + 6] = f[l + 5] + InstructionSize(t[6])
              /\ f[l + 4] \in Nat /\ f[l + 5] \in Nat /\ f[l + 6] \in Nat
  <2>1. 4 \in 1 .. r /\ 5 \in 1 .. r /\ 6 \in 1 .. r
    BY <1>10
  <2>2. l + (4 - 1) = l + 3 /\ l + (5 - 1) = l + 4 /\ l + (6 - 1) = l + 5
    OBVIOUS
  <2> QED
    BY <1>7, <2>1, <2>2
<1>11. ASSUME r = 6
       PROVE  f[l + 6] = f[l] + InstructionSize(t[1]) + InstructionSize(t[2])
                         + InstructionSize(t[3]) + InstructionSize(t[4])
                         + InstructionSize(t[5]) + InstructionSize(t[6])
  <2>1. \A x \in 1 .. 6 : InstructionSize(t[x]) \in Nat
    BY <1>8, <1>11
  <2> QED
    BY <1>6, <1>9, <1>10, <1>11, <2>1
<1>12. ASSUME r = 3
       PROVE  f[l + 3] = f[l] + InstructionSize(t[1]) + InstructionSize(t[2])
                         + InstructionSize(t[3])
  <2>1. \A x \in 1 .. 3 : InstructionSize(t[x]) \in Nat
    BY <1>8, <1>12
  <2> QED
    BY <1>6, <1>9, <1>12, <2>1
<1> QED
  BY <1>1, <1>4, <1>5, <1>6, <1>11, <1>12 DEF u

(* What is where in code that has been added to. *)
Joined(u, s, t, l, r) ==
  /\ u \in Seq(Instruction) /\ Len(u) = l + r
  /\ \A x \in 1 .. l : u[x] = s[x]
  /\ \A x \in 0 .. r - 1 : u[l + x + 1] = t[x + 1]

LEMMA JoinedCode ==
  ASSUME NEW s \in Seq(Instruction), NEW t \in Seq(Instruction), NEW l, NEW r,
         l = Len(s), r = Len(t)
  PROVE  Joined(s \o t, s, t, l, r)
<1> DEFINE S == Instruction
<1>1. s \in Seq(S) /\ t \in Seq(S) /\ l \in Nat /\ r \in Nat
  OBVIOUS
<1> HIDE DEF S
<1> DEFINE u == s \o t
<1>2. /\ u \in Seq(S) /\ Len(u) = l + r
      /\ \A x \in 1 .. l + r : u[x] = IF x <= l THEN s[x] ELSE t[x - l]
  BY <1>1, ConcatProperties
<1> HIDE DEF u
<1>3. \A x \in 1 .. l : u[x] = s[x]
  BY <1>1, <1>2
<1>4. ASSUME NEW x \in 0 .. r - 1 PROVE u[l + x + 1] = t[x + 1]
  <2>1. PICK y \in 1 .. l + r : y = l + x + 1 /\ y - l = x + 1 /\ y > l
    BY <1>1, SMTT(40)
  <2>2. u[y] = t[y - l]
    BY <1>1, <1>2, <2>1
  <2> QED
    BY <2>1, <2>2
<1> QED
  BY <1>2, <1>3, <1>4 DEF Joined, S, u

-----------------------------------------------------------------------------
(* Where the instructions of a segment are.                                *)

Running == pc \in {"run", "kernel", "astray"}

(* f[n] instructions are generated for the first n program headers.        *)
IsOffset(f, phs) ==
  /\ f \in [0 .. Len(phs) -> Nat]
  /\ f[0] = 0
  /\ \A n \in 1 .. Len(phs) :
       f[n] = f[n - 1] + (IF phs[n].p_type = PT_LOAD THEN 6 ELSE 0)

Offset(phs) == CHOOSE f : IsOffset(f, phs)

LEMMA OffsetExists ==
  ASSUME NEW S, NEW phs \in Seq(S)
  PROVE  IsOffset(Offset(phs), phs)
<1>m. PICK m \in Nat : m = Len(phs)
  OBVIOUS
<1> DEFINE More(n) == IF phs[n].p_type = PT_LOAD THEN 6 ELSE 0
           step == [p \in Nat \X (1 .. m) |-> p[1] + More(p[2])]
<1>1. IsStep(step, Nat, m)
  BY DEF IsStep
<1>2. PICK f : IsRecursion(f, Nat, 0, m, step)
  <2> HIDE DEF step
  <2>1. 0 \in Nat
    OBVIOUS
  <2> QED
    BY <1>1, <2>1, RecursionExists
<1>3. f \in [0 .. m -> Nat] /\ f[0] = 0
  BY <1>2 DEF IsRecursion
<1>4. ASSUME NEW n \in 1 .. m PROVE f[n] = f[n - 1] + More(n)
  <2>1. n - 1 \in 0 .. m
    OBVIOUS
  <2>2. f[n - 1] \in Nat
    BY <1>3, <2>1
  <2>3. f[n] = step[<<f[n - 1], n>>]
    BY <1>2 DEF IsRecursion
  <2> QED
    BY <2>2, <2>3
<1>5. IsOffset(f, phs)
  BY <1>m, <1>3, <1>4 DEF IsOffset
<1> HIDE DEF More, step
<1> QED
  BY <1>5 DEF Offset

(* From header p on, the next one that is loaded, or the end. *)
IsNext(k, p, q) ==
  /\ q \in p .. Len(k.phs)
  /\ q = Len(k.phs) \/ k.phs[q + 1].p_type = PT_LOAD
  /\ Offset(k.phs)[q] = Offset(k.phs)[p]
  /\ \A n \in 1 .. Len(k.phs) : p < n /\ n <= q => k.phs[n].p_type # PT_LOAD

LEMMA NextExists ==
  ASSUME NEW k, IsKernel(k), NEW p \in 0 .. Len(k.phs)
  PROVE  \E q \in 0 .. Len(k.phs) : IsNext(k, p, q)
<1> DEFINE phs == k.phs
           f == Offset(phs)
<1>m. PICK m \in Nat : m = Len(phs)
  BY DEF IsKernel
<1>0. phs \in Seq(ProgramHeader) /\ p \in 0 .. m
  BY <1>m DEF IsKernel
<1>1. IsOffset(f, phs)
  BY <1>0, OffsetExists
<1> HIDE DEF f, phs
<1> DEFINE T == { n \in p .. m : n = m \/ phs[n + 1].p_type = PT_LOAD }
<1>2. T \subseteq Nat /\ m \in T
  BY <1>0
<1>3. PICK q \in T : \A y \in T : q <= y
  <2> HIDE DEF T
  <2> QED
    BY <1>2, LeastNumber
<1>4. \A n \in p .. q - 1 : phs[n + 1].p_type # PT_LOAD
  BY <1>0, <1>3
<1>5. \A n \in 1 .. m : p < n /\ n <= q => phs[n].p_type # PT_LOAD
  <2> SUFFICES ASSUME NEW n \in 1 .. m, p < n, n <= q PROVE phs[n].p_type # PT_LOAD
    OBVIOUS
  <2>1. PICK x \in p .. q - 1 : x = n - 1 /\ x + 1 = n
    BY <1>0, <1>3
  <2> QED
    BY <1>4, <2>1
<1> DEFINE U == { x \in 0 .. q - p : f[p + x] = f[p] }
<1>6. 0 \in U
  BY <1>0, <1>3
<1>7. ASSUME NEW x \in 0 .. (q - p) - 1, x \in U PROVE x + 1 \in U
  <2>1. PICK y \in 1 .. m : y = p + (x + 1) /\ y - 1 = p + x /\ p < y /\ y <= q
    BY <1>0, <1>3
  <2>2. phs[y].p_type # PT_LOAD
    BY <1>5, <2>1
  <2>3. /\ f \in [0 .. m -> Nat]
        /\ \A n \in 1 .. m : f[n] = f[n - 1] + (IF phs[n].p_type = PT_LOAD THEN 6 ELSE 0)
    BY <1>m, <1>1 DEF IsOffset
  <2>4. f[y] = f[y - 1] + 0
    BY <2>2, <2>3
  <2>5. f[y - 1] \in Nat
    BY <1>0, <2>1, <2>3
  <2>6. f[y] = f[p + x] /\ f[p + x] = f[p]
    BY <1>7, <2>1, <2>4, <2>5
  <2> QED
    BY <2>1, <2>6
<1>8. f[q] = f[p]
  <2>1. PICK d \in Nat : d = q - p
    BY <1>0, <1>3
  <2>2. \A x \in 0 .. d : x \in U
    <3>1. \A x \in 0 .. d - 1 : x \in U => x + 1 \in U
      BY <1>7, <2>1
    <3> HIDE DEF U
    <3> QED
      BY <1>6, <3>1, InductionUpTo
  <2>3. d \in 0 .. d /\ p + d = q
    BY <1>0, <1>3, <2>1
  <2> QED
    BY <2>2, <2>3
<1>9. q \in p .. m /\ (q = m \/ phs[q + 1].p_type = PT_LOAD)
  BY <1>3
<1> QED
  BY <1>0, <1>m, <1>5, <1>8, <1>9 DEF IsNext, f, phs

-----------------------------------------------------------------------------
(* The invariant.                                                          *)

SegmentCode(n) ==
  LET ph == kernel.phs[n] IN
  ElfSegment(ph.p_paddr, kernel.mod_start + ph.p_offset, ph.p_filesz,
             ph.p_memsz - ph.p_filesz)

EntryCode ==
  << GenMov("edx", kernel.e_entry),
     GenMov("eax", IF header # 0 THEN MBI2_MAGIC ELSE MBI_MAGIC), JmpEdx >>

(* Instruction k + 1 of those for header p + 1, or of the last three.      *)
InstructionAt(p, k) ==
  IF p < Len(kernel.phs) THEN SegmentCode(p + 1)[k + 1] ELSE EntryCode[k + 1]

CodeInv ==
  LET phs == kernel.phs
      f == Offset(phs)
      rest == IF Running THEN 3 ELSE 0
  IN
    /\ code \in Seq(Instruction)
    /\ i \in 0 .. Len(phs)
    /\ Running => i = Len(phs)
    /\ pc \in {"header", "check"} => i = 0 /\ code = <<>>
    /\ Len(code) = f[i] + rest
    /\ CodeSize(code) <= 24 * i + 4 * rest
    /\ \A n \in 1 .. i : phs[n].p_type = PT_LOAD =>
         \A k \in 0 .. 5 : code[f[n - 1] + k + 1] = SegmentCode(n)[k + 1]
    /\ Running => \A k \in 0 .. 2 : code[f[Len(phs)] + k + 1] = EntryCode[k + 1]

StateInv ==
  /\ IsKernel(kernel)
  /\ LoaderSpace(kernel) \subseteq Addr
  /\ pc \in {"header", "check", "generate", "run", "kernel", "halted", "astray"}
  /\ pc # "header" => header = HeaderFind(kernel)
  /\ regs \in Registers
  /\ eip \in Nat
  /\ ~Running => eip = 1

Targets == UNION { Target(n) : n \in Segments }

(* m is what memory held in the beginning. *)
WrittenInv(m) ==
  \A a \in Addr : (Running => a \notin Targets) =>
    mem[a] = IF a \in CodeSpace THEN CodeByte(a - CodeAddr) ELSE m[a]

Arrived(m, n) ==
  \A a \in Target(n) :
    LET offset == a - kernel.phs[n].p_paddr
    IN  mem[a] = IF offset < kernel.phs[n].p_filesz THEN m[FileAddr(n) + offset] ELSE Zero

(* No segment is put where a later one is needed, nor is the code. *)
Orderly == SafeOrder /\ \A n \in Segments : InFile(n) \cap CodeSpace = {}

MemAt(m, p, k) ==
  Orderly =>
    /\ \A n \in Segments : n <= p => Arrived(m, n)
    /\ p < Len(kernel.phs) /\ k >= 4 =>
         \A o \in 0 .. kernel.phs[p + 1].p_filesz - 1 :
           mem[kernel.phs[p + 1].p_paddr + o] = m[FileAddr(p + 1) + o]
    /\ \A n \in Segments : n > p + 1 \/ (n = p + 1 /\ k <= 3) =>
         \A a \in InFile(n) : mem[a] = m[a]

RegsAt(p, k) ==
  LET last == p = Len(kernel.phs)
      ph == kernel.phs[p + 1]
  IN  /\ regs.ebx = IF header # 0 THEN InfoAddr ELSE MbiAddr
      /\ regs.eax = IF last /\ k = 2
                      THEN IF header # 0 THEN MBI2_MAGIC ELSE MBI_MAGIC ELSE 0
      /\ last /\ k >= 1 => regs.edx = kernel.e_entry
      /\ ~last =>
           /\ k \in 1 .. 3 => regs.edi = ph.p_paddr
           /\ k \in 2 .. 3 => regs.esi = FileAddr(p + 1)
           /\ k = 3 => regs.ecx = ph.p_filesz
           /\ k \in 4 .. 5 => regs.edi = ph.p_paddr + ph.p_filesz
           /\ k = 5 => regs.ecx = ph.p_memsz - ph.p_filesz

(* The processor is at instruction k + 1 of header p + 1. *)
PlaceAt(p, k) ==
  /\ p \in 0 .. Len(kernel.phs)
  /\ k \in 0 .. 5
  /\ p = Len(kernel.phs) => k <= 2
  /\ p = Len(kernel.phs) \/ kernel.phs[p + 1].p_type = PT_LOAD
  /\ eip = Offset(kernel.phs)[p] + k + 1

RunAt(m, p, k) == PlaceAt(p, k) /\ RegsAt(p, k) /\ MemAt(m, p, k)

RunInv(m) ==
  /\ pc = "run" => \E p, k : RunAt(m, p, k)
  /\ pc = "kernel" => RunAt(m, Len(kernel.phs), 2)

BootInv(m) ==
  /\ StateInv /\ CodeInv /\ WrittenInv(m) /\ RunInv(m) /\ StaysOnCourse

-----------------------------------------------------------------------------
(* What follows from the types.                                            *)

LEMMA SegmentFacts ==
  ASSUME StateInv, NEW n \in Segments
  PROVE  /\ n \in 1 .. Len(kernel.phs)
         /\ kernel.phs[n].p_paddr \in Nat /\ kernel.phs[n].p_filesz \in Nat
         /\ kernel.phs[n].p_memsz \in Nat /\ kernel.phs[n].p_offset \in Nat
         /\ FileAddr(n) \in Nat
         /\ kernel.phs[n].p_filesz <= kernel.phs[n].p_memsz
         /\ kernel.phs[n].p_paddr + kernel.phs[n].p_memsz <= MemTop
         /\ FileAddr(n) + kernel.phs[n].p_filesz <= MemTop
         /\ MemTop \in Nat
<1>1. /\ MemTop \in Nat /\ kernel.phs \in Seq(ProgramHeader)
      /\ kernel.mod_start \in Nat /\ kernel.mod_end \in kernel.mod_start .. MemTop
      /\ n \in DOMAIN kernel.phs /\ kernel.phs[n].p_type = PT_LOAD
  BY BootAssumption DEF StateInv, IsKernel, Segments, Addr
<1>2. n \in 1 .. Len(kernel.phs)
  BY <1>1
<1>3. kernel.phs[n] \in ProgramHeader
  BY <1>1, <1>2
<1>4. /\ kernel.phs[n].p_paddr \in Nat /\ kernel.phs[n].p_filesz \in Nat
      /\ kernel.phs[n].p_memsz \in Nat /\ kernel.phs[n].p_offset \in Nat
      /\ kernel.phs[n].p_filesz <= kernel.phs[n].p_memsz
  BY <1>3 DEF ProgramHeader
<1>5. /\ kernel.phs[n].p_paddr + kernel.phs[n].p_memsz <= MemTop
      /\ FileAddr(n) + kernel.phs[n].p_filesz <= kernel.mod_end
  BY <1>1 DEF StateInv, IsKernel, FileAddr
<1>6. FileAddr(n) \in Nat
  BY <1>1, <1>4 DEF FileAddr
<1>7. FileAddr(n) + kernel.phs[n].p_filesz <= MemTop
  <2>1. PICK x \in Nat, y \in Nat, z \in Nat :
          x = FileAddr(n) /\ y = kernel.phs[n].p_filesz /\ z = kernel.mod_end
    BY <1>1, <1>4, <1>6
  <2>2. x + y <= z /\ z <= MemTop
    BY <1>1, <1>5, <2>1
  <2> QED
    BY <1>1, <2>1, <2>2
<1> QED
  BY <1>1, <1>2, <1>4, <1>5, <1>6, <1>7

LEMMA OffsetFacts ==
  ASSUME StateInv
  PROVE  /\ Len(kernel.phs) \in Nat
         /\ Offset(kernel.phs) \in [0 .. Len(kernel.phs) -> Nat]
         /\ Offset(kernel.phs)[0] = 0
         /\ \A n \in 1 .. Len(kernel.phs) :
              Offset(kernel.phs)[n] = Offset(kernel.phs)[n - 1]
                + (IF kernel.phs[n].p_type = PT_LOAD THEN 6 ELSE 0)
BY OffsetExists DEF StateInv, IsKernel, IsOffset

LEMMA OffsetGrows ==
  ASSUME StateInv, NEW a \in 0 .. Len(kernel.phs), NEW b \in a .. Len(kernel.phs)
  PROVE  Offset(kernel.phs)[a] <= Offset(kernel.phs)[b]
<1> DEFINE f == Offset(kernel.phs)
           T == { x \in 0 .. b - a : f[a] <= f[a + x] }
<1>m. PICK d \in Nat, l \in Nat : d = b - a /\ l = Len(kernel.phs)
  <2>1. PICK l \in Nat : l = Len(kernel.phs)
    BY OffsetFacts
  <2>2. b - a \in Nat
    BY <2>1
  <2> QED
    BY <2>1, <2>2
<1>1. f \in [0 .. l -> Nat] /\ a \in 0 .. l /\ b \in a .. l
  BY <1>m, OffsetFacts
<1>2. \A n \in 1 .. l : f[n] = f[n - 1] + (IF kernel.phs[n].p_type = PT_LOAD THEN 6 ELSE 0)
  BY <1>m, OffsetFacts
<1> HIDE DEF f
<1>3. 0 \in T
  BY <1>1
<1>4. ASSUME NEW x \in 0 .. d - 1, x \in T PROVE x + 1 \in T
  <2>1. PICK y \in 1 .. l : y = a + (x + 1) /\ y - 1 = a + x
    BY <1>m, <1>1
  <2>2. f[y - 1] \in Nat /\ f[a] \in Nat /\ f[a] <= f[y - 1]
    BY <1>1, <1>4, <2>1
  <2>3. f[y] >= f[y - 1] /\ f[y] \in Nat
    <3>1. f[y] = f[y - 1] + (IF kernel.phs[y].p_type = PT_LOAD THEN 6 ELSE 0)
      BY <1>2
    <3> QED
      BY <2>2, <3>1
  <2>4. f[a] <= f[y]
    BY <2>2, <2>3
  <2> QED
    BY <1>m, <2>1, <2>4
<1>5. \A x \in 0 .. d : x \in T
  <2> HIDE DEF T
  <2> QED
    BY <1>3, <1>4, InductionUpTo
<1>6. d \in 0 .. d /\ a + d = b
  BY <1>m, <1>1
<1> QED
  BY <1>5, <1>6 DEF f

(* The generated code is in memory. *)
LEMMA CodeFits ==
  ASSUME StateInv, CodeInv
  PROVE  /\ CodeSize(code) \in Nat /\ CodeSpace \subseteq Addr
         /\ CodeAddr \in Nat /\ CodeSize(code) <= 24 * Len(kernel.phs) + 12
<1>1. CodeSize(code) \in Nat
  <2>1. code \in Seq(Instruction) /\ <<>> \in Seq(Instruction)
    BY DEF CodeInv
  <2> QED
    BY <2>1, CodeGrows
<1>2. Len(kernel.phs) \in Nat /\ i \in 0 .. Len(kernel.phs) /\ CodeAddr \in Nat
  BY OffsetFacts, BootAssumption DEF CodeInv, Addr
<1>3. CodeSize(code) <= 24 * i + 12
  <2>1. CodeSize(code) <= 24 * i + 4 * (IF Running THEN 3 ELSE 0)
    BY DEF CodeInv
  <2> QED
    BY <1>1, <1>2, <2>1
<1>4. CodeSize(code) <= 24 * Len(kernel.phs) + 12
  BY <1>1, <1>2, <1>3
<1>5. CodeSpace \subseteq LoaderSpace(kernel)
  BY <1>1, <1>2, <1>4 DEF CodeSpace, LoaderSpace
<1> QED
  BY <1>1, <1>2, <1>4, <1>5 DEF StateInv

(* Where the instructions are. *)
LEMMA BytesInCode ==
  ASSUME StateInv, CodeInv, NEW n \in 1 .. Len(code)
  PROVE  BytesOf(n) \subseteq CodeSpace
<1>1. code \in Seq(Instruction)
  BY DEF CodeInv
<1>2. /\ CodeSize(SubSeq(code, 1, n - 1)) \in Nat
      /\ CodeSize(SubSeq(code, 1, n - 1)) + InstructionSize(code[n]) <= CodeSize(code)
  BY <1>1, InstructionPlace
<1>3. CodeSize(code) \in Nat /\ CodeAddr \in Nat
  BY CodeFits
<1>4. InstructionSize(code[n]) \in Nat
  BY DEF InstructionSize
<1> QED
  BY <1>2, <1>3, <1>4 DEF BytesOf, CodeSpace

(* The segments' instructions, and the last ones. *)
LEMMA SegmentCodeFacts ==
  ASSUME StateInv, NEW n \in Segments
  PROVE  /\ SegmentCode(n) \in Seq(Instruction) /\ Len(SegmentCode(n)) = 6
         /\ SegmentCode(n)[1] = GenMov("edi", kernel.phs[n].p_paddr)
         /\ SegmentCode(n)[2] = GenMov("esi", FileAddr(n))
         /\ SegmentCode(n)[3] = GenMov("ecx", kernel.phs[n].p_filesz)
         /\ SegmentCode(n)[4] = RepMovsb
         /\ SegmentCode(n)[5] = GenMov("ecx", kernel.phs[n].p_memsz - kernel.phs[n].p_filesz)
         /\ SegmentCode(n)[6] = RepStosb
<1>1. PICK t \in Nat, a \in Nat, l \in Nat, r \in Nat :
        /\ t = kernel.phs[n].p_paddr /\ a = FileAddr(n) /\ l = kernel.phs[n].p_filesz
        /\ r = kernel.phs[n].p_memsz - kernel.phs[n].p_filesz
  <2>1. PICK t \in Nat, a \in Nat, l \in Nat, w \in Nat :
          /\ t = kernel.phs[n].p_paddr /\ a = FileAddr(n) /\ l = kernel.phs[n].p_filesz
          /\ w = kernel.phs[n].p_memsz /\ l <= w
    BY SegmentFacts
  <2>2. w - l \in Nat /\ w - l = kernel.phs[n].p_memsz - kernel.phs[n].p_filesz
    BY <2>1
  <2> QED
    BY <2>1, <2>2
<1>2. SegmentCode(n) = ElfSegment(t, a, l, r)
  BY <1>1 DEF SegmentCode, FileAddr
<1>3. /\ GenMov("edi", t) \in Instruction /\ GenMov("esi", a) \in Instruction
      /\ GenMov("ecx", l) \in Instruction /\ GenMov("ecx", r) \in Instruction
      /\ RepMovsb \in Instruction /\ RepStosb \in Instruction
  BY DEF GenMov, RepMovsb, RepStosb, Instruction, RegisterNames
<1>4. PICK x1 \in Instruction, x2 \in Instruction, x3 \in Instruction, x4 \in Instruction,
           x5 \in Instruction, x6 \in Instruction :
        /\ x1 = GenMov("edi", t) /\ x2 = GenMov("esi", a) /\ x3 = GenMov("ecx", l)
        /\ x4 = RepMovsb /\ x5 = GenMov("ecx", r) /\ x6 = RepStosb
  BY <1>3
<1>5. SegmentCode(n) = <<x1, x2, x3, x4, x5, x6>>
  BY <1>2, <1>4 DEF ElfSegment
<1>6. PICK s : s = <<x1, x2, x3, x4, x5, x6>>
  OBVIOUS
<1>7. /\ s \in Seq(Instruction) /\ Len(s) = 6 /\ s[1] = x1 /\ s[2] = x2 /\ s[3] = x3
      /\ s[4] = x4 /\ s[5] = x5 /\ s[6] = x6
  <2> DEFINE S == Instruction
  <2>1. x1 \in S /\ x2 \in S /\ x3 \in S /\ x4 \in S /\ x5 \in S /\ x6 \in S
    OBVIOUS
  <2> HIDE DEF S
  <2>2. /\ s \in Seq(S) /\ Len(s) = 6 /\ s[1] = x1 /\ s[2] = x2 /\ s[3] = x3
        /\ s[4] = x4 /\ s[5] = x5 /\ s[6] = x6
    BY <1>6, <2>1
  <2> QED
    BY <2>2 DEF S
<1> QED
  BY <1>1, <1>4, <1>5, <1>6, <1>7

LEMMA EntryCodeFacts ==
  ASSUME StateInv
  PROVE  /\ EntryCode \in Seq(Instruction) /\ Len(EntryCode) = 3
         /\ EntryCode[1] = GenMov("edx", kernel.e_entry)
         /\ EntryCode[2] = GenMov("eax", IF header # 0 THEN MBI2_MAGIC ELSE MBI_MAGIC)
         /\ EntryCode[3] = JmpEdx
<1>1. PICK e \in Nat, c \in Nat :
        e = kernel.e_entry /\ c = IF header # 0 THEN MBI2_MAGIC ELSE MBI_MAGIC
  BY DEF StateInv, IsKernel, MBI2_MAGIC, MBI_MAGIC
<1>2. /\ GenMov("edx", e) \in Instruction /\ GenMov("eax", c) \in Instruction
      /\ JmpEdx \in Instruction
  BY DEF GenMov, JmpEdx, Instruction, RegisterNames
<1>3. PICK x1 \in Instruction, x2 \in Instruction, x3 \in Instruction :
        x1 = GenMov("edx", e) /\ x2 = GenMov("eax", c) /\ x3 = JmpEdx
  BY <1>2
<1>4. PICK s : s = <<x1, x2, x3>>
  OBVIOUS
<1>5. EntryCode = s
  BY <1>1, <1>3, <1>4 DEF EntryCode
<1>6. s \in Seq(Instruction) /\ Len(s) = 3 /\ s[1] = x1 /\ s[2] = x2 /\ s[3] = x3
  <2> DEFINE S == Instruction
  <2>1. x1 \in S /\ x2 \in S /\ x3 \in S
    OBVIOUS
  <2> HIDE DEF S
  <2>2. s \in Seq(S) /\ Len(s) = 3 /\ s[1] = x1 /\ s[2] = x2 /\ s[3] = x3
    BY <1>4, <2>1
  <2> QED
    BY <2>2 DEF S
<1> QED
  BY <1>1, <1>3, <1>5, <1>6

-----------------------------------------------------------------------------
(* Up to the jump.                                                         *)

(* The memory as it is before anything is generated. *)
Untouched == [a \in Addr |-> a]

(* Before the first step, whatever is in memory. *)
LEMMA BootBegins ==
  ASSUME NEW m, IsKernel(kernel), LoaderSpace(kernel) \subseteq Addr, pc = "header",
         i = 0, code = <<>>, eip = 1, regs \in Registers, \A a \in Addr : mem[a] = m[a]
  PROVE  BootInv(m)
<1>1. pc = "header" /\ i = 0 /\ code = <<>> /\ eip = 1
  OBVIOUS
<1>2. StateInv
  BY DEF StateInv, Running
<1>3. CodeInv
  <2>1. Offset(kernel.phs)[0] = 0 /\ Len(kernel.phs) \in Nat
    BY <1>2, OffsetFacts
  <2>2. code \in Seq(Instruction) /\ Len(code) = 0 /\ CodeSize(code) = 0
    BY <1>1, NoCode
  <2> QED
    BY <1>1, <2>1, <2>2 DEF CodeInv, Running
<1>4. CodeSpace = {}
  <2>1. CodeSize(code) = 0 /\ CodeAddr \in Nat
    BY <1>1, NoCode, BootAssumption DEF Addr
  <2> QED
    BY <2>1 DEF CodeSpace
<1>5. WrittenInv(m)
  BY <1>4 DEF WrittenInv
<1> QED
  BY <1>1, <1>2, <1>3, <1>5 DEF BootInv, RunInv, StaysOnCourse

LEMMA BootInit == Init => BootInv(Untouched)
<1> SUFFICES ASSUME Init PROVE BootInv(Untouched)
  OBVIOUS
<1>1. IsKernel(kernel) /\ LoaderSpace(kernel) \subseteq Addr
  BY BootAssumption DEF Init
<1>2. pc = "header" /\ i = 0 /\ code = <<>> /\ eip = 1 /\ mem = Untouched
  BY DEF Init, Untouched
<1>3. regs \in Registers
  BY DEF Init, Registers
<1> QED
  BY <1>1, <1>2, <1>3, BootBegins

(* Before code is generated, memory is what it was in the beginning.       *)
LEMMA MemoryUnchanged ==
  ASSUME NEW m, BootInv(m), pc = "check", NEW a \in Addr
  PROVE  mem[a] = m[a]
<1>1. CodeSpace = {}
  <2>1. CodeSize(code) = 0
    BY NoCode DEF BootInv, CodeInv
  <2>2. CodeAddr \in Nat
    BY BootAssumption DEF Addr
  <2>3. \A c \in Nat : c .. c + 0 - 1 = {}
    OBVIOUS
  <2> QED
    BY <2>1, <2>2, <2>3 DEF CodeSpace
<1>2. ~Running
  BY DEF Running
<1> QED
  BY <1>1, <1>2 DEF BootInv, WrittenInv

(* Memory may still change before code is generated. *)
LEMMA MemoryPrepared ==
  ASSUME NEW m, NEW w, BootInv(m), pc = "check", \A a \in Addr : mem'[a] = w[a],
         UNCHANGED <<kernel, pc, header, i, code, eip, regs>>
  PROVE  BootInv(w)'
<1>1. StateInv'
  BY DEF BootInv, StateInv, Running
<1>2. CodeInv'
  <2>1. \A n : SegmentCode(n)' = SegmentCode(n)
    BY DEF SegmentCode
  <2> QED
    BY <2>1 DEF BootInv, CodeInv, Running
<1>3. CodeSpace' = {}
  <2>1. code' = <<>> /\ CodeSize(<<>>) = 0 /\ CodeAddr \in Nat
    BY NoCode, BootAssumption DEF BootInv, CodeInv, Addr
  <2> QED
    BY <2>1 DEF CodeSpace
<1>4. WrittenInv(w)'
  BY <1>3 DEF WrittenInv
<1> QED
  BY <1>1, <1>2, <1>4 DEF BootInv, RunInv, StaysOnCourse

(* One more piece of code: everything in memory but the code is as before. *)
LEMMA GenerateEffect ==
  ASSUME NEW m, StateInv, CodeInv, WrittenInv(m), ~Running,
         NEW t \in Seq(Instruction), Generate(t), kernel' = kernel
  PROVE  /\ code' = code \o t /\ code' \in Seq(Instruction)
         /\ \A a \in Addr :
              mem'[a] = IF a \in CodeSpace' THEN CodeByte(a - CodeAddr) ELSE m[a]
<1>1. code \in Seq(Instruction)
  BY DEF CodeInv
<1>2. code' = code \o t /\ code' \in Seq(Instruction)
  BY <1>1 DEF Generate
<1>3. PICK old \in Nat, new \in Nat, from \in Nat :
        /\ old = CodeSize(code) /\ new = CodeSize(code \o t) /\ old <= new /\ from = CodeAddr
  BY <1>1, CodeGrows, CodeFits
<1>4. CodeSpace = from .. from + old - 1 /\ CodeSpace' = from .. from + new - 1
  BY <1>2, <1>3 DEF CodeSpace
<1>5. mem' = [a \in Addr |-> IF a \in from .. from + new - 1
                               THEN CodeByte(a - CodeAddr) ELSE mem[a]]
  BY <1>3 DEF Generate
<1>6. \A a \in Addr : mem[a] = IF a \in CodeSpace THEN CodeByte(a - CodeAddr) ELSE m[a]
  BY DEF WrittenInv
<1>7. \A a \in Addr : a \notin from .. from + new - 1 => a \notin from .. from + old - 1
  BY <1>3 DEF Addr
<1> QED
  BY <1>2, <1>4, <1>5, <1>6, <1>7

LEMMA FindHeaderInv ==
  ASSUME NEW m, BootInv(m), FindHeader
  PROVE  BootInv(m)'
<1>1. StateInv'
  BY DEF BootInv, FindHeader, StateInv, Running
<1>2. CodeInv'
  <2>1. \A n : SegmentCode(n)' = SegmentCode(n)
    BY DEF FindHeader, SegmentCode
  <2> QED
    BY <2>1 DEF BootInv, FindHeader, CodeInv, Running
<1>3. WrittenInv(m)'
  BY DEF BootInv, FindHeader, WrittenInv, Running, CodeSpace
<1> QED
  BY <1>1, <1>2, <1>3 DEF BootInv, FindHeader, RunInv, StaysOnCourse

LEMMA CheckElfInv ==
  ASSUME NEW m, BootInv(m), CheckElf
  PROVE  BootInv(m)'
<1>1. StateInv'
  BY DEF BootInv, CheckElf, StateInv, Running
<1>2. CodeInv'
  <2>1. \A n : SegmentCode(n)' = SegmentCode(n)
    BY DEF CheckElf, SegmentCode
  <2> QED
    BY <2>1 DEF BootInv, CheckElf, CodeInv, Running
<1>3. WrittenInv(m)'
  BY DEF BootInv, CheckElf, WrittenInv, Running, CodeSpace
<1> QED
  BY <1>1, <1>2, <1>3 DEF BootInv, CheckElf, RunInv, StaysOnCourse

LEMMA SkipSegmentInv ==
  ASSUME NEW m, BootInv(m), SkipSegment
  PROVE  BootInv(m)'
<1>1. /\ pc = "generate" /\ pc' = pc /\ i < Len(kernel.phs) /\ i' = i + 1
      /\ kernel.phs[i + 1].p_type # PT_LOAD
      /\ UNCHANGED <<kernel, header, code, mem, eip, regs>>
  BY DEF SkipSegment
<1>2. StateInv'
  BY <1>1 DEF BootInv, StateInv, Running
<1>3. CodeInv'
  <2>1. PICK j \in Nat, l \in Nat, z \in Nat :
          /\ j = i /\ l = Len(kernel.phs) /\ j < l /\ z = CodeSize(code) /\ z <= 24 * j
          /\ Len(code) = Offset(kernel.phs)[j]
    BY <1>1, OffsetFacts, CodeFits, SMTT(40) DEF BootInv, CodeInv, Running
  <2>2. Offset(kernel.phs)[j + 1] = Offset(kernel.phs)[j]
    <3>1. PICK n \in 1 .. l : n = j + 1 /\ n - 1 = j
      BY <2>1
    <3>2. Offset(kernel.phs)[n] = Offset(kernel.phs)[n - 1] + 0 /\ Offset(kernel.phs)[j] \in Nat
      BY <1>1, <2>1, <3>1, OffsetFacts, SMTT(40) DEF BootInv
    <3> QED
      BY <3>1, <3>2
  <2>3. z <= 24 * (j + 1) /\ j + 1 \in 0 .. l
    BY <2>1
  <2>4. \A n : SegmentCode(n)' = SegmentCode(n)
    BY <1>1 DEF SegmentCode
  <2>5. ASSUME NEW n \in 1 .. j + 1, kernel.phs[n].p_type = PT_LOAD, NEW k \in 0 .. 5
        PROVE  code[Offset(kernel.phs)[n - 1] + k + 1] = SegmentCode(n)[k + 1]
    <3>1. n \in 1 .. i
      BY <1>1, <2>1, <2>5
    <3> QED
      BY <2>5, <3>1 DEF BootInv, CodeInv
  <2>6. i' = j + 1 /\ Len(code) = Offset(kernel.phs)[j + 1] + 0 /\ CodeSize(code) <= 24 * (j + 1) + 4 * 0
    BY <1>1, <2>1, <2>2, <2>3
  <2>7. code \in Seq(Instruction) /\ j + 1 \in 0 .. Len(kernel.phs)
    BY <2>1, <2>3 DEF BootInv, CodeInv
  <2> QED
    BY <1>1, <2>4, <2>5, <2>6, <2>7 DEF CodeInv, Running
<1>4. WrittenInv(m)'
  BY <1>1 DEF BootInv, WrittenInv, Running, CodeSpace
<1> QED
  BY <1>1, <1>2, <1>3, <1>4 DEF BootInv, RunInv, StaysOnCourse

LEMMA GenerateSegmentInv ==
  ASSUME NEW m, BootInv(m), GenerateSegment
  PROVE  BootInv(m)'
<1>1. /\ pc = "generate" /\ pc' = pc /\ i < Len(kernel.phs) /\ i' = i + 1
      /\ kernel.phs[i + 1].p_type = PT_LOAD
      /\ Generate(SegmentCode(i + 1))
      /\ UNCHANGED <<kernel, header, eip, regs>>
  BY DEF GenerateSegment, SegmentCode
<1>2. StateInv'
  BY <1>1 DEF BootInv, StateInv, Running
<1>3. PICK j \in Nat, l \in Nat, z \in Nat, c \in Seq(Instruction), h \in Nat :
        /\ j = i /\ l = Len(kernel.phs) /\ j < l /\ c = code /\ z = CodeSize(c) /\ z <= 24 * j
        /\ h = Offset(kernel.phs)[j] /\ Len(c) = h
  BY <1>1, OffsetFacts, CodeFits, SMTT(40) DEF BootInv, CodeInv, Running
<1>4. PICK n \in Segments : n = j + 1 /\ n \in 1 .. l /\ n - 1 = j
  <2>1. DOMAIN kernel.phs = 1 .. l
    BY <1>3 DEF BootInv, StateInv, IsKernel
  <2> QED
    BY <1>1, <1>3, <2>1 DEF Segments
<1>5. PICK t \in Seq(Instruction) : t = SegmentCode(n) /\ Len(t) = 6
  BY SegmentCodeFacts DEF BootInv
<1>6. /\ code' = c \o t
      /\ \A a \in Addr : mem'[a] = IF a \in CodeSpace' THEN CodeByte(a - CodeAddr) ELSE m[a]
  <2>1. ~Running /\ StateInv /\ CodeInv /\ WrittenInv(m)
    BY <1>1 DEF BootInv, Running
  <2>2. Generate(t) /\ kernel' = kernel
    BY <1>1, <1>3, <1>4, <1>5
  <2> QED
    BY <1>3, <2>1, <2>2, GenerateEffect
<1>7. CodeSize(c \o t) = z + 24
  <2>1. CodeSize(c \o t) = z + InstructionSize(t[1]) + InstructionSize(t[2])
                             + InstructionSize(t[3]) + InstructionSize(t[4])
                             + InstructionSize(t[5]) + InstructionSize(t[6])
    BY <1>3, <1>5, CodeGrows
  <2>2. /\ InstructionSize(t[1]) = 5 /\ InstructionSize(t[2]) = 5 /\ InstructionSize(t[3]) = 5
        /\ InstructionSize(t[4]) = 2 /\ InstructionSize(t[5]) = 5 /\ InstructionSize(t[6]) = 2
    <3>1. /\ \A r, x : InstructionSize(GenMov(r, x)) = 5
          /\ InstructionSize(RepMovsb) = 2 /\ InstructionSize(RepStosb) = 2
      BY DEF InstructionSize, GenMov, RepMovsb, RepStosb
    <3>2. StateInv
      BY DEF BootInv
    <3> QED
      BY <1>5, <3>1, <3>2, SegmentCodeFacts
  <2> QED
    BY <1>3, <2>1, <2>2, SMTT(40)
<1>8. Offset(kernel.phs)[n] = h + 6
  BY <1>1, <1>3, <1>4, OffsetFacts DEF BootInv
<1>a. PICK d \in Seq(Instruction) : d = c \o t /\ Joined(d, c, t, h, 6)
  <2>1. Joined(c \o t, c, t, h, 6)
    BY <1>3, <1>5, JoinedCode
  <2> QED
    BY <2>1 DEF Joined
<1>9. /\ d = c \o t /\ d \in Seq(Instruction) /\ Len(d) = h + 6
      /\ \A x \in 1 .. h : d[x] = c[x]
      /\ \A x \in 0 .. 5 : d[h + x + 1] = t[x + 1]
  <2>1. 6 - 1 = 5
    OBVIOUS
  <2> QED
    BY <1>a, <2>1 DEF Joined
<1>10. CodeInv'
  <2>1. \A x : SegmentCode(x)' = SegmentCode(x)
    BY <1>1 DEF SegmentCode
  <2>2. ASSUME NEW x \in 1 .. n, kernel.phs[x].p_type = PT_LOAD, NEW k \in 0 .. 5
        PROVE  d[Offset(kernel.phs)[x - 1] + k + 1] = SegmentCode(x)[k + 1]
    <3>1. CASE x = n
      <4>1. Offset(kernel.phs)[x - 1] = h /\ SegmentCode(x) = t
        BY <1>3, <1>4, <1>5, <3>1
      <4>2. d[h + k + 1] = t[k + 1]
        BY <1>9
      <4> QED
        BY <4>1, <4>2
    <3>2. CASE x # n
      <4>1. x \in 1 .. j
        BY <1>4, <3>2
      <4>2. c[Offset(kernel.phs)[x - 1] + k + 1] = SegmentCode(x)[k + 1]
        BY <1>3, <2>2, <4>1 DEF BootInv, CodeInv
      <4>3. PICK o \in Nat : o = Offset(kernel.phs)[x - 1] /\ o + 6 <= h
        <5>1. /\ Offset(kernel.phs)[x - 1] \in Nat
              /\ Offset(kernel.phs)[x] = Offset(kernel.phs)[x - 1] + 6
          <6>1. x \in 1 .. Len(kernel.phs) /\ x - 1 \in 0 .. Len(kernel.phs) /\ StateInv
            BY <1>3, <4>1 DEF BootInv
          <6> QED
            BY <2>2, <6>1, OffsetFacts
        <5>2. Offset(kernel.phs)[x] <= Offset(kernel.phs)[j]
          BY <1>3, <4>1, OffsetGrows, SMTT(40) DEF BootInv
        <5> QED
          BY <1>3, <5>1, <5>2
      <4>4. o + k + 1 \in 1 .. h
        BY <4>3, SMTT(40)
      <4> QED
        BY <1>9, <4>2, <4>3, <4>4
    <3> QED
      BY <3>1, <3>2
  <2>3. /\ code' = d /\ kernel' = kernel /\ i' = n /\ pc' = "generate"
    BY <1>1, <1>3, <1>4, <1>6, <1>9
  <2>4. n \in 0 .. Len(kernel.phs) /\ CodeSize(d) <= 24 * n + 4 * 0
    BY <1>3, <1>4, <1>7, <1>9
  <2>5. Len(d) = Offset(kernel.phs)[n] + 0
    BY <1>3, <1>8, <1>9
  <2> QED
    BY <1>9, <2>1, <2>2, <2>3, <2>4, <2>5 DEF CodeInv, Running
<1>11. WrittenInv(m)'
  BY <1>6 DEF WrittenInv
<1> QED
  BY <1>1, <1>2, <1>10, <1>11 DEF BootInv, RunInv, StaysOnCourse

(* Files and segments are in memory. *)
LEMMA SegmentsInMemory ==
  ASSUME StateInv, NEW n \in Segments
  PROVE  InFile(n) \subseteq Addr /\ Target(n) \subseteq Addr
<1>1. PICK p \in Nat, l \in Nat, w \in Nat, f \in Nat :
        /\ p = kernel.phs[n].p_paddr /\ l = kernel.phs[n].p_filesz
        /\ w = kernel.phs[n].p_memsz /\ f = FileAddr(n)
        /\ p + w <= MemTop /\ f + l <= MemTop /\ MemTop \in Nat
  BY SegmentFacts
<1>2. InFile(n) = f .. f + l - 1 /\ Target(n) = p .. p + w - 1
  BY <1>1 DEF InFile, Target
<1>3. f .. f + l - 1 \subseteq 0 .. MemTop - 1 /\ p .. p + w - 1 \subseteq 0 .. MemTop - 1
  BY <1>1
<1> QED
  BY <1>2, <1>3 DEF Addr

LEMMA JumpToCodeInv ==
  ASSUME NEW m, BootInv(m), JumpToCode
  PROVE  BootInv(m)'
<1>1. /\ pc = "generate" /\ pc' = "run" /\ i >= Len(kernel.phs)
      /\ Generate(EntryCode)
      /\ regs' = RegsForCode
      /\ UNCHANGED <<kernel, header, i, eip>>
  BY DEF JumpToCode, EntryCode
<1>2. StateInv'
  <2>1. RegsForCode \in Registers
    <3>1. regs \in Registers /\ CodeAddr \in Nat /\ InfoAddr \in Nat /\ MbiAddr \in Nat
      BY BootAssumption DEF BootInv, StateInv, Addr
    <3>2. PICK x \in Nat : x = IF header # 0 THEN InfoAddr ELSE MbiAddr
      BY <3>1
    <3>3. RegsForCode = [regs EXCEPT !.eax = 0, !.edx = CodeAddr, !.ebx = x]
      BY <3>2 DEF RegsForCode
    <3> QED
      BY <3>1, <3>3 DEF Registers
  <2> QED
    BY <1>1, <2>1 DEF BootInv, StateInv, Running
<1>3. PICK l \in Nat, z \in Nat, c \in Seq(Instruction), h \in Nat :
        /\ l = Len(kernel.phs) /\ l = i /\ c = code /\ z = CodeSize(c) /\ z <= 24 * l
        /\ h = Offset(kernel.phs)[l] /\ Len(c) = h
  <2>1. StateInv /\ CodeInv /\ ~Running
    BY <1>1 DEF BootInv, Running
  <2>2. i = Len(kernel.phs) /\ Len(kernel.phs) \in Nat
    BY <1>1, <2>1, OffsetFacts DEF CodeInv
  <2>3. CodeSize(code) \in Nat /\ Offset(kernel.phs)[i] \in Nat
    BY <2>1, <2>2, CodeFits, OffsetFacts
  <2>4. code \in Seq(Instruction) /\ Len(code) = Offset(kernel.phs)[i] + 0 /\ CodeSize(code) <= 24 * i + 4 * 0
    BY <2>1 DEF CodeInv
  <2> QED
    BY <2>2, <2>3, <2>4
<1>5. PICK t \in Seq(Instruction) : t = EntryCode /\ Len(t) = 3
  BY EntryCodeFacts DEF BootInv
<1>6. /\ code' = c \o t
      /\ \A a \in Addr : mem'[a] = IF a \in CodeSpace' THEN CodeByte(a - CodeAddr) ELSE m[a]
  <2>1. ~Running /\ StateInv /\ CodeInv /\ WrittenInv(m)
    BY <1>1 DEF BootInv, Running
  <2>2. Generate(t) /\ kernel' = kernel
    BY <1>1, <1>5
  <2> QED
    BY <1>3, <2>1, <2>2, GenerateEffect
<1>7. CodeSize(c \o t) = z + 12
  <2>1. CodeSize(c \o t) = z + InstructionSize(t[1]) + InstructionSize(t[2])
                             + InstructionSize(t[3])
    BY <1>3, <1>5, CodeGrows
  <2>2. InstructionSize(t[1]) = 5 /\ InstructionSize(t[2]) = 5 /\ InstructionSize(t[3]) = 2
    <3>1. (\A r, x : InstructionSize(GenMov(r, x)) = 5) /\ InstructionSize(JmpEdx) = 2
      BY DEF InstructionSize, GenMov, JmpEdx
    <3>2. StateInv
      BY DEF BootInv
    <3> QED
      BY <1>5, <3>1, <3>2, EntryCodeFacts
  <2> QED
    BY <1>3, <2>1, <2>2
<1>a. PICK d \in Seq(Instruction) : d = c \o t /\ Joined(d, c, t, h, 3)
  <2>1. Joined(c \o t, c, t, h, 3)
    BY <1>3, <1>5, JoinedCode
  <2> QED
    BY <2>1 DEF Joined
<1>9. /\ d = c \o t /\ d \in Seq(Instruction) /\ Len(d) = h + 3
      /\ \A x \in 1 .. h : d[x] = c[x]
      /\ \A x \in 0 .. 2 : d[h + x + 1] = t[x + 1]
  <2>1. 3 - 1 = 2
    OBVIOUS
  <2> QED
    BY <1>a, <2>1, SMTT(40) DEF Joined
<1>10. CodeInv'
  <2>1. (\A x : SegmentCode(x)' = SegmentCode(x)) /\ EntryCode' = EntryCode
    BY <1>1 DEF SegmentCode, EntryCode
  <2>2. ASSUME NEW x \in 1 .. l, kernel.phs[x].p_type = PT_LOAD, NEW k \in 0 .. 5
        PROVE  d[Offset(kernel.phs)[x - 1] + k + 1] = SegmentCode(x)[k + 1]
    <3>2. c[Offset(kernel.phs)[x - 1] + k + 1] = SegmentCode(x)[k + 1]
      BY <1>3, <2>2 DEF BootInv, CodeInv
    <3>3. PICK o \in Nat : o = Offset(kernel.phs)[x - 1] /\ o + 6 <= h
      <4>1. /\ Offset(kernel.phs)[x - 1] \in Nat
            /\ Offset(kernel.phs)[x] = Offset(kernel.phs)[x - 1] + 6
        <5>1. x \in 1 .. Len(kernel.phs) /\ x - 1 \in 0 .. Len(kernel.phs) /\ StateInv
          BY <1>3 DEF BootInv
        <5> QED
          BY <2>2, <5>1, OffsetFacts
      <4>2. Offset(kernel.phs)[x] <= Offset(kernel.phs)[l]
        BY <1>3, OffsetGrows DEF BootInv
      <4> QED
        BY <1>3, <4>1, <4>2
    <3>4. o + k + 1 \in 1 .. h
      BY <3>3, SMTT(40)
    <3> QED
      BY <1>9, <3>2, <3>3, <3>4
  <2>3. code' = d /\ kernel' = kernel /\ i' = l /\ pc' = "run"
    BY <1>1, <1>3, <1>6, <1>9
  <2>4. l \in 0 .. Len(kernel.phs) /\ CodeSize(d) <= 24 * l + 4 * 3
    BY <1>3, <1>7, <1>9
  <2>5. Len(d) = Offset(kernel.phs)[l] + 3
    BY <1>3, <1>9
  <2>6. \A k \in 0 .. 2 : d[Offset(kernel.phs)[l] + k + 1] = EntryCode[k + 1]
    BY <1>3, <1>5, <1>9
  <2> QED
    BY <1>3, <1>9, <2>1, <2>2, <2>3, <2>4, <2>5, <2>6 DEF CodeInv, Running
<1>11. WrittenInv(m)'
  BY <1>6 DEF WrittenInv
<1>12. PICK q \in 0 .. l : IsNext(kernel, 0, q)
  <2>1. IsKernel(kernel) /\ 0 \in 0 .. Len(kernel.phs)
    BY <1>3 DEF BootInv, StateInv
  <2> QED
    BY <1>3, <2>1, NextExists
<1>13. RunAt(m, q, 0)'
  <2>1. PlaceAt(q, 0)'
    <3>1. eip = 1 /\ Offset(kernel.phs)[0] = 0
      BY <1>1, OffsetFacts DEF BootInv, StateInv, Running
    <3>2. Offset(kernel.phs)[q] = 0
      BY <1>12, <3>1 DEF IsNext
    <3> QED
      BY <1>1, <1>3, <1>12, <3>1, <3>2 DEF PlaceAt, IsNext
  <2>2. RegsAt(q, 0)'
    <3>1. regs'.eax = 0 /\ regs'.ebx = IF header # 0 THEN InfoAddr ELSE MbiAddr
      BY <1>1 DEF RegsForCode, BootInv, StateInv, Registers
    <3> QED
      BY <1>1, <3>1 DEF RegsAt
  <2>3. MemAt(m, q, 0)'
    <3> SUFFICES ASSUME Orderly'
                 PROVE  /\ \A n \in Segments' : ~(n <= q)
                        /\ \A n \in Segments' : \A a \in InFile(n)' : mem'[a] = m[a]
      BY DEF MemAt
    <3>1. /\ Segments' = Segments /\ Segments \subseteq 1 .. l
          /\ \A n \in Segments : InFile(n)' = InFile(n)
      <4>1. \A n \in Segments : n \in 1 .. l
        BY <1>3, SegmentFacts DEF BootInv
      <4>2. Segments' = Segments /\ \A n \in Segments : InFile(n)' = InFile(n)
        BY <1>1 DEF Segments, InFile, FileAddr
      <4> QED
        BY <4>1, <4>2
    <3>2. \A n \in Segments : ~(n <= q)
      BY <1>3, <1>12, <3>1 DEF IsNext, Segments
    <3>3. ASSUME NEW n \in Segments, NEW a \in InFile(n) PROVE mem'[a] = m[a]
      <4>1. a \in Addr
        BY SegmentsInMemory DEF BootInv
      <4>2. a \notin CodeSpace'
        BY <3>1 DEF Orderly
      <4> QED
        BY <1>6, <4>1, <4>2
    <3> QED
      BY <3>1, <3>2, <3>3
  <2> QED
    BY <2>1, <2>2, <2>3 DEF RunAt
<1> QED
  BY <1>1, <1>2, <1>10, <1>11, <1>13 DEF BootInv, RunInv, StaysOnCourse

-----------------------------------------------------------------------------
(* The code runs.                                                          *)

(* Instruction k + 1 of header p + 1 is what the processor executes. *)
LEMMA InstructionExecuted ==
  ASSUME StateInv, CodeInv, Running, NEW p, NEW k, PlaceAt(p, k)
  PROVE  eip \in 1 .. Len(code) /\ code[eip] = InstructionAt(p, k)
<1>1. PICK l \in Nat, o \in Nat, h \in Nat :
        /\ l = Len(kernel.phs) /\ p \in 0 .. l /\ k \in 0 .. 5
        /\ o = Offset(kernel.phs)[p] /\ h = Offset(kernel.phs)[l] /\ eip = o + k + 1
        /\ Len(code) = h + 3 /\ i = l
  <2>1. Len(kernel.phs) \in Nat /\ p \in 0 .. Len(kernel.phs) /\ k \in 0 .. 5
    BY OffsetFacts DEF PlaceAt
  <2>2. Offset(kernel.phs)[p] \in Nat /\ Offset(kernel.phs)[Len(kernel.phs)] \in Nat
    BY <2>1, OffsetFacts, SMTT(40)
  <2> QED
    BY <2>1, <2>2 DEF PlaceAt, CodeInv
<1>2. CASE p = l
  <2>1. k \in 0 .. 2 /\ o = h
    BY <1>1, <1>2, SMTT(40) DEF PlaceAt
  <2>2. code[o + k + 1] = EntryCode[k + 1]
    <3>1. \A x \in 0 .. 2 :
            code[Offset(kernel.phs)[Len(kernel.phs)] + x + 1] = EntryCode[x + 1]
      BY DEF CodeInv
    <3>2. code[h + k + 1] = EntryCode[k + 1]
      BY <1>1, <2>1, <3>1
    <3> QED
      BY <2>1, <3>2
  <2>3. eip \in 1 .. Len(code)
    <3>1. PICK j \in 0 .. 2, z \in Nat : j = k /\ z = h + 3 /\ h + j + 1 \in 1 .. z
      BY <2>1
    <3>2. eip = h + j + 1 /\ Len(code) = z
      BY <1>1, <2>1, <3>1
    <3> QED
      BY <3>1, <3>2
  <2>4. InstructionAt(p, k) = EntryCode[k + 1]
    BY <1>1, <1>2 DEF InstructionAt
  <2> QED
    BY <1>1, <2>2, <2>3, <2>4
<1>3. CASE p < l
  <2>1. PICK n \in 1 .. l : n = p + 1 /\ n - 1 = p /\ kernel.phs[n].p_type = PT_LOAD
    BY <1>1, <1>3 DEF PlaceAt
  <2>2. code[o + k + 1] = SegmentCode(n)[k + 1]
    BY <1>1, <2>1 DEF CodeInv
  <2>3. o + 6 <= h
    <3>1. Offset(kernel.phs)[n] = o + 6
      BY <1>1, <2>1, OffsetFacts
    <3>2. n \in 0 .. Len(kernel.phs) /\ l \in n .. Len(kernel.phs)
      BY <1>1, <2>1
    <3>3. Offset(kernel.phs)[n] <= Offset(kernel.phs)[l]
      BY <3>2, OffsetGrows
    <3> QED
      BY <1>1, <3>1, <3>3
  <2>4. eip \in 1 .. Len(code)
    <3>1. PICK j \in Nat : j = k /\ j <= 5
      BY <1>1
    <3>2. o + j + 1 \in 1 .. h + 3
      BY <2>3, <3>1
    <3>3. eip = o + j + 1 /\ Len(code) = h + 3
      BY <1>1, <3>1
    <3> QED
      BY <3>2, <3>3
  <2>5. InstructionAt(p, k) = SegmentCode(n)[k + 1]
    BY <1>1, <1>3, <2>1 DEF InstructionAt
  <2> QED
    BY <1>1, <2>2, <2>4, <2>5
<1> QED
  BY <1>1, <1>2, <1>3

(* The segment that is being moved. *)
LEMMA SegmentAt ==
  ASSUME StateInv, NEW p, NEW k, PlaceAt(p, k), p # Len(kernel.phs)
  PROVE  /\ p + 1 \in Segments /\ p < Len(kernel.phs) /\ p \in Nat
         /\ InstructionAt(p, k) = SegmentCode(p + 1)[k + 1]
<1>1. PICK l \in Nat : l = Len(kernel.phs) /\ p \in 0 .. l
  BY OffsetFacts DEF PlaceAt
<1>2. p + 1 \in 1 .. l /\ p < l
  BY <1>1
<1>3. kernel.phs \in Seq(ProgramHeader)
  BY DEF StateInv, IsKernel
<1>4. DOMAIN kernel.phs = 1 .. l
  BY <1>1, <1>3
<1>5. p + 1 \in Segments
  BY <1>2, <1>4 DEF PlaceAt, Segments
<1> QED
  BY <1>1, <1>2, <1>5 DEF InstructionAt

(* What an instruction leaves alone. *)
LEMMA RunFrame ==
  ASSUME NEW m, BootInv(m), pc = "run", pc' \in {"run", "kernel", "astray"},
         UNCHANGED <<kernel, header, i, code>>, regs' \in Registers, eip' \in Nat
  PROVE  /\ StateInv' /\ CodeInv'
         /\ CodeSpace' = CodeSpace /\ Segments' = Segments /\ Targets' = Targets
         /\ Orderly' = Orderly
         /\ \A n : Target(n)' = Target(n) /\ InFile(n)' = InFile(n) /\ FileAddr(n)' = FileAddr(n)
<1>1. StateInv'
  BY DEF BootInv, StateInv, Running
<1>2. CodeInv'
  <2>1. (\A x : SegmentCode(x)' = SegmentCode(x)) /\ EntryCode' = EntryCode
    BY DEF SegmentCode, EntryCode
  <2>2. Running /\ Running'
    BY DEF Running
  <2>3. CodeInv
    BY DEF BootInv
  <2> QED
    BY <2>1, <2>2, <2>3 DEF CodeInv
<1>3. /\ CodeSpace' = CodeSpace /\ Segments' = Segments
      /\ \A n : Target(n)' = Target(n) /\ InFile(n)' = InFile(n) /\ FileAddr(n)' = FileAddr(n)
  BY DEF CodeSpace, Segments, Target, InFile, FileAddr
<1>4. Targets' = Targets
  BY <1>3 DEF Targets
<1>5. Orderly' = Orderly
  BY <1>3 DEF Orderly, SafeOrder
<1> QED
  BY <1>1, <1>2, <1>3, <1>4, <1>5

LEMMA MovEffect ==
  ASSUME regs \in Registers, ExecMov, NEW r \in RegisterNames, NEW x \in Nat,
         code[eip] = GenMov(r, x)
  PROVE  /\ regs' \in Registers
         /\ regs'.eax = IF r = "eax" THEN x ELSE regs.eax
         /\ regs'.ecx = IF r = "ecx" THEN x ELSE regs.ecx
         /\ regs'.edx = IF r = "edx" THEN x ELSE regs.edx
         /\ regs'.ebx = IF r = "ebx" THEN x ELSE regs.ebx
         /\ regs'.esi = IF r = "esi" THEN x ELSE regs.esi
         /\ regs'.edi = IF r = "edi" THEN x ELSE regs.edi
<1>1. code[eip].reg = r /\ code[eip].constant = x
  BY DEF GenMov
<1>2. regs' = [regs EXCEPT ![r] = x]
  BY <1>1 DEF ExecMov
<1>3. CASE r = "eax"
  BY <1>2, <1>3 DEF Registers
<1>4. CASE r = "ecx"
  BY <1>2, <1>4 DEF Registers
<1>5. CASE r = "edx"
  BY <1>2, <1>5 DEF Registers
<1>6. CASE r = "ebx"
  BY <1>2, <1>6 DEF Registers
<1>7. CASE r = "esi"
  BY <1>2, <1>7 DEF Registers
<1>8. CASE r = "edi"
  BY <1>2, <1>8 DEF Registers
<1> QED
  BY <1>3, <1>4, <1>5, <1>6, <1>7, <1>8 DEF RegisterNames

(* Which of the instructions is executed. *)
LEMMA OpOf ==
  ASSUME StateInv, CodeInv, Running, NEW p, NEW k, PlaceAt(p, k)
  PROVE  /\ code[eip].op = "mov" =>
              /\ p # Len(kernel.phs) => k \in {0, 1, 2, 4}
              /\ p = Len(kernel.phs) => k \in {0, 1}
         /\ code[eip].op = "rep movsb" => p # Len(kernel.phs) /\ k = 3
         /\ code[eip].op = "rep stosb" => p # Len(kernel.phs) /\ k = 5
         /\ code[eip].op = "jmp" => p = Len(kernel.phs) /\ k = 2
<1>1. code[eip] = InstructionAt(p, k)
  BY InstructionExecuted
<1>2. /\ \A r, x : GenMov(r, x).op = "mov"
      /\ RepMovsb.op = "rep movsb" /\ RepStosb.op = "rep stosb" /\ JmpEdx.op = "jmp"
  BY DEF GenMov, RepMovsb, RepStosb, JmpEdx
<1>3. ASSUME p # Len(kernel.phs)
      PROVE  /\ k \in {0, 1, 2, 4} => code[eip].op = "mov"
             /\ k = 3 => code[eip].op = "rep movsb"
             /\ k = 5 => code[eip].op = "rep stosb"
  <2>1. p + 1 \in Segments /\ code[eip] = SegmentCode(p + 1)[k + 1]
    BY <1>1, <1>3, SegmentAt
  <2>2. PICK n \in Segments : n = p + 1
    BY <2>1
  <2>3. k = 0 \/ k = 1 \/ k = 2 \/ k = 3 \/ k = 4 \/ k = 5
    BY DEF PlaceAt
  <2>4. /\ SegmentCode(n)[1].op = "mov" /\ SegmentCode(n)[2].op = "mov"
        /\ SegmentCode(n)[3].op = "mov" /\ SegmentCode(n)[4].op = "rep movsb"
        /\ SegmentCode(n)[5].op = "mov" /\ SegmentCode(n)[6].op = "rep stosb"
    <3>1. /\ SegmentCode(n)[1] = GenMov("edi", kernel.phs[n].p_paddr)
          /\ SegmentCode(n)[2] = GenMov("esi", FileAddr(n))
          /\ SegmentCode(n)[3] = GenMov("ecx", kernel.phs[n].p_filesz)
          /\ SegmentCode(n)[4] = RepMovsb
          /\ SegmentCode(n)[5] = GenMov("ecx", kernel.phs[n].p_memsz - kernel.phs[n].p_filesz)
          /\ SegmentCode(n)[6] = RepStosb
      BY SegmentCodeFacts
    <3>2. /\ SegmentCode(n)[1].op = "mov" /\ SegmentCode(n)[2].op = "mov"
          /\ SegmentCode(n)[3].op = "mov" /\ SegmentCode(n)[5].op = "mov"
      BY <3>1 DEF GenMov
    <3>3. SegmentCode(n)[4].op = "rep movsb" /\ SegmentCode(n)[6].op = "rep stosb"
      BY <1>2, <3>1
    <3> QED
      BY <3>2, <3>3
  <2>5. PICK s : s = SegmentCode(n)
    OBVIOUS
  <2>6. /\ s[1].op = "mov" /\ s[2].op = "mov" /\ s[3].op = "mov" /\ s[4].op = "rep movsb"
        /\ s[5].op = "mov" /\ s[6].op = "rep stosb"
    BY <2>4, <2>5
  <2>7. PICK x \in 1 .. 6 : x = k + 1
    BY <2>3
  <2>8. code[eip] = s[x]
    BY <2>1, <2>2, <2>5, <2>7
  <2>9. /\ k = 0 => x = 1
        /\ k = 1 => x = 2
        /\ k = 2 => x = 3
        /\ k = 3 => x = 4
        /\ k = 4 => x = 5
        /\ k = 5 => x = 6
    BY <2>7
  <2> QED
    BY <2>6, <2>8, <2>9
<1>4. ASSUME p = Len(kernel.phs)
      PROVE  k \in 0 .. 2 /\ code[eip].op = IF k = 2 THEN "jmp" ELSE "mov"
  <2>1. k = 0 \/ k = 1 \/ k = 2
    BY <1>4 DEF PlaceAt
  <2>2. PICK s : s = EntryCode
    OBVIOUS
  <2>3. s[1].op = "mov" /\ s[2].op = "mov" /\ s[3].op = "jmp"
    <3>1. /\ s[1] = GenMov("edx", kernel.e_entry)
          /\ s[2] = GenMov("eax", IF header # 0 THEN MBI2_MAGIC ELSE MBI_MAGIC)
          /\ s[3] = JmpEdx
      BY <2>2, EntryCodeFacts
    <3> QED
      BY <1>2, <3>1, ZenonT(40)
  <2>4. code[eip] = s[k + 1]
    BY <1>1, <1>4, <2>2, OffsetFacts DEF InstructionAt
  <2> QED
    BY <2>1, <2>3, <2>4
<1>5. k \in 0 .. 5
  BY DEF PlaceAt
<1>6. CASE p = Len(kernel.phs)
  <2>1. k = 0 \/ k = 1 \/ k = 2
    BY <1>4, <1>6
  <2>2. CASE k = 2
    <3>1. code[eip].op = "jmp"
      BY <1>4, <1>6, <2>2
    <3> QED
      BY <1>6, <2>2, <3>1
  <2>3. CASE k # 2
    <3>1. code[eip].op = "mov"
      BY <1>4, <1>6, <2>3
    <3> QED
      BY <1>6, <2>1, <2>3, <3>1
  <2> QED
    BY <2>2, <2>3
<1>7. CASE p # Len(kernel.phs)
  <2>1. CASE k = 3
    <3>1. code[eip].op = "rep movsb"
      BY <1>3, <1>7, <2>1
    <3> QED
      BY <1>7, <2>1, <3>1
  <2>2. CASE k = 5
    <3>1. code[eip].op = "rep stosb"
      BY <1>3, <1>7, <2>2
    <3>2. "rep stosb" # "mov" /\ "rep stosb" # "rep movsb" /\ "rep stosb" # "jmp"
      OBVIOUS
    <3> QED
      BY <1>7, <2>2, <3>1, <3>2
  <2>3. CASE k # 3 /\ k # 5
    <3>1. k \in {0, 1, 2, 4}
      BY <1>5, <2>3
    <3>2. code[eip].op = "mov"
      BY <1>3, <1>7, <3>1
    <3> QED
      BY <1>7, <3>1, <3>2
  <2> QED
    BY <2>1, <2>2, <2>3
<1> QED
  BY <1>6, <1>7

(* The registers while the code runs. *)
LEMMA RegisterFacts ==
  ASSUME StateInv
  PROVE  /\ regs \in Registers
         /\ regs.eax \in Nat /\ regs.ecx \in Nat /\ regs.edx \in Nat
         /\ regs.ebx \in Nat /\ regs.esi \in Nat /\ regs.edi \in Nat
BY DEF StateInv, Registers

(* After a mov to register r of a segment's code, or of the last code. *)
LEMMA RegsAfterMov ==
  ASSUME StateInv, CodeInv, ExecMov, NEW p, NEW k, PlaceAt(p, k), RegsAt(p, k)
  PROVE  regs' \in Registers /\ PlaceAt(p, k + 1)' /\ RegsAt(p, k + 1)'
<1>1. /\ pc = "run" /\ Running /\ code[eip].op = "mov" /\ eip' = eip + 1
      /\ kernel' = kernel /\ header' = header
  BY DEF ExecMov, Fetched, Running
<1>2. /\ code[eip] = InstructionAt(p, k)
      /\ p # Len(kernel.phs) => k \in {0, 1, 2, 4}
      /\ p = Len(kernel.phs) => k \in {0, 1}
  BY <1>1, InstructionExecuted, OpOf
<1>3. regs \in Registers
  BY RegisterFacts
<1>4. PlaceAt(p, k + 1)'
  <2>1. PICK l \in Nat, o \in Nat :
          /\ l = Len(kernel.phs) /\ o = Offset(kernel.phs)[p] /\ p \in 0 .. l
    <3>1. Len(kernel.phs) \in Nat /\ p \in 0 .. Len(kernel.phs)
      BY OffsetFacts DEF PlaceAt
    <3> QED
      BY <3>1, OffsetFacts
  <2>2. eip = o + k + 1 /\ k \in 0 .. 4 /\ (p = l => k <= 1)
    BY <1>2, <2>1 DEF PlaceAt
  <2>3. eip' = o + (k + 1) + 1 /\ k + 1 \in 0 .. 5 /\ (p = l => k + 1 <= 2)
    BY <1>1, <2>2
  <2> QED
    BY <1>1, <2>1, <2>3 DEF PlaceAt
<1>5. CASE p # Len(kernel.phs)
  <2>1. PICK n \in Segments : n = p + 1
    BY <1>5, SegmentAt
  <2>2. PICK t \in Nat, a \in Nat, l \in Nat, w \in Nat, r \in Nat :
          /\ t = kernel.phs[n].p_paddr /\ a = FileAddr(n) /\ l = kernel.phs[n].p_filesz
          /\ w = kernel.phs[n].p_memsz /\ r = w - l
    <3>1. PICK t \in Nat, a \in Nat, l \in Nat, w \in Nat :
            /\ t = kernel.phs[n].p_paddr /\ a = FileAddr(n) /\ l = kernel.phs[n].p_filesz
            /\ w = kernel.phs[n].p_memsz /\ l <= w
      BY SegmentFacts
    <3>2. w - l \in Nat
      BY <3>1
    <3> QED
      BY <3>1, <3>2
  <2>3. code[eip] = SegmentCode(n)[k + 1]
    BY <1>2, <1>5, <2>1, SegmentAt
  <2>4. /\ SegmentCode(n)[1] = GenMov("edi", t) /\ SegmentCode(n)[2] = GenMov("esi", a)
        /\ SegmentCode(n)[3] = GenMov("ecx", l) /\ SegmentCode(n)[5] = GenMov("ecx", r)
    BY <2>2, SegmentCodeFacts
  <2>5. /\ regs.ebx = IF header # 0 THEN InfoAddr ELSE MbiAddr
        /\ regs.eax = 0
        /\ k \in 1 .. 3 => regs.edi = t
        /\ k \in 2 .. 3 => regs.esi = a
        /\ k \in 4 .. 5 => regs.edi = t + l
    BY <1>5, <2>1, <2>2 DEF RegsAt
  <2>6. SUFFICES /\ regs' \in Registers /\ regs'.ebx = regs.ebx /\ regs'.eax = 0
                 /\ k + 1 \in 1 .. 3 => regs'.edi = t
                 /\ k + 1 \in 2 .. 3 => regs'.esi = a
                 /\ k + 1 = 3 => regs'.ecx = l
                 /\ k + 1 \in 4 .. 5 => regs'.edi = t + l
                 /\ k + 1 = 5 => regs'.ecx = r
    <3>1. FileAddr(p + 1)' = FileAddr(n)
      BY <1>1, <2>1 DEF FileAddr
    <3> QED
      BY <1>1, <1>4, <1>5, <2>1, <2>2, <2>5, <3>1 DEF RegsAt
  <2>7. CASE k = 0
    <3>1. code[eip] = GenMov("edi", t) /\ "edi" \in RegisterNames
      BY <2>3, <2>4, <2>7 DEF RegisterNames
    <3>2. regs' \in Registers /\ regs'.ebx = regs.ebx /\ regs'.eax = regs.eax /\ regs'.edi = t
      BY <1>3, <3>1, MovEffect
    <3> QED
      BY <2>5, <2>7, <3>2
  <2>8. CASE k = 1
    <3>1. code[eip] = GenMov("esi", a) /\ "esi" \in RegisterNames
      BY <2>3, <2>4, <2>8 DEF RegisterNames
    <3>2. /\ regs' \in Registers /\ regs'.ebx = regs.ebx /\ regs'.eax = regs.eax
          /\ regs'.edi = regs.edi /\ regs'.esi = a
      BY <1>3, <3>1, MovEffect
    <3> QED
      BY <2>5, <2>8, <3>2
  <2>9. CASE k = 2
    <3>1. code[eip] = GenMov("ecx", l) /\ "ecx" \in RegisterNames
      BY <2>3, <2>4, <2>9 DEF RegisterNames
    <3>2. /\ regs' \in Registers /\ regs'.ebx = regs.ebx /\ regs'.eax = regs.eax
          /\ regs'.edi = regs.edi /\ regs'.esi = regs.esi /\ regs'.ecx = l
      BY <1>3, <3>1, MovEffect
    <3> QED
      BY <2>5, <2>9, <3>2
  <2>10. CASE k = 4
    <3>1. code[eip] = GenMov("ecx", r) /\ "ecx" \in RegisterNames
      BY <2>3, <2>4, <2>10 DEF RegisterNames
    <3>2. /\ regs' \in Registers /\ regs'.ebx = regs.ebx /\ regs'.eax = regs.eax
          /\ regs'.edi = regs.edi /\ regs'.ecx = r
      BY <1>3, <3>1, MovEffect
    <3> QED
      BY <2>5, <2>10, <3>2
  <2> QED
    BY <1>2, <1>5, <2>7, <2>8, <2>9, <2>10
<1>6. CASE p = Len(kernel.phs)
  <2>1. PICK e \in Nat, c \in Nat :
          e = kernel.e_entry /\ c = IF header # 0 THEN MBI2_MAGIC ELSE MBI_MAGIC
    BY DEF StateInv, IsKernel, MBI2_MAGIC, MBI_MAGIC
  <2>2. code[eip] = EntryCode[k + 1]
    BY <1>2, <1>6, OffsetFacts DEF InstructionAt
  <2>3. EntryCode[1] = GenMov("edx", e) /\ EntryCode[2] = GenMov("eax", c)
    BY <2>1, EntryCodeFacts
  <2>4. /\ regs.ebx = IF header # 0 THEN InfoAddr ELSE MbiAddr
        /\ k \in {0, 1} => regs.eax = 0
        /\ k >= 1 => regs.edx = e
    BY <1>6, <2>1 DEF RegsAt
  <2>5. SUFFICES /\ regs' \in Registers /\ regs'.ebx = regs.ebx /\ regs'.edx = e
                 /\ k + 1 # 2 => regs'.eax = 0
                 /\ k + 1 = 2 => regs'.eax = c
    BY <1>1, <1>4, <1>6, <2>1, <2>4 DEF RegsAt
  <2>6. CASE k = 0
    <3>1. code[eip] = GenMov("edx", e) /\ "edx" \in RegisterNames
      BY <2>2, <2>3, <2>6 DEF RegisterNames
    <3>2. regs' \in Registers /\ regs'.ebx = regs.ebx /\ regs'.eax = regs.eax /\ regs'.edx = e
      BY <1>3, <3>1, MovEffect
    <3> QED
      BY <2>4, <2>6, <3>2
  <2>7. CASE k = 1
    <3>1. code[eip] = GenMov("eax", c) /\ "eax" \in RegisterNames
      BY <2>2, <2>3, <2>7 DEF RegisterNames
    <3>2. regs' \in Registers /\ regs'.ebx = regs.ebx /\ regs'.eax = c /\ regs'.edx = regs.edx
      BY <1>3, <3>1, MovEffect
    <3> QED
      BY <2>4, <2>7, <3>2
  <2> QED
    BY <1>2, <1>6, <2>6, <2>7
<1> QED
  BY <1>4, <1>5, <1>6

LEMMA ExecMovInv ==
  ASSUME NEW m, BootInv(m), ExecMov
  PROVE  BootInv(m)'
<1>1. /\ pc = "run" /\ pc' = "run" /\ mem' = mem /\ eip' = eip + 1
      /\ UNCHANGED <<kernel, header, i, code>>
  BY DEF ExecMov, Fetched
<1>2. PICK p, k : PlaceAt(p, k) /\ RegsAt(p, k) /\ MemAt(m, p, k)
  BY <1>1 DEF BootInv, RunInv, RunAt
<1>3. regs' \in Registers /\ PlaceAt(p, k + 1)' /\ RegsAt(p, k + 1)'
  BY <1>2, RegsAfterMov DEF BootInv
<1>4. eip' \in Nat
  BY <1>1 DEF BootInv, StateInv
<1>5. /\ StateInv' /\ CodeInv'
      /\ CodeSpace' = CodeSpace /\ Segments' = Segments /\ Targets' = Targets
      /\ Orderly' = Orderly
      /\ \A n : Target(n)' = Target(n) /\ InFile(n)' = InFile(n) /\ FileAddr(n)' = FileAddr(n)
  BY <1>1, <1>3, <1>4, RunFrame
<1>6. k \in 0 .. 5 /\ k # 3
  <2>1. Running /\ code[eip].op = "mov"
    BY <1>1 DEF ExecMov, Fetched, Running
  <2>2. k \in {0, 1, 2, 4}
    BY <1>2, <2>1, OpOf DEF BootInv
  <2> QED
    BY <2>2
<1>7. MemAt(m, p, k + 1)'
  <2> SUFFICES ASSUME Orderly'
               PROVE  /\ \A n \in Segments : n <= p => Arrived(m, n)'
                      /\ p < Len(kernel.phs) /\ k + 1 >= 4 =>
                           \A o \in 0 .. kernel.phs[p + 1].p_filesz - 1 :
                             mem[kernel.phs[p + 1].p_paddr + o] = m[FileAddr(p + 1) + o]
                      /\ \A n \in Segments : n > p + 1 \/ (n = p + 1 /\ k + 1 <= 3) =>
                           \A a \in InFile(n) : mem[a] = m[a]
    BY <1>1, <1>5 DEF MemAt
  <2>1. Orderly
    BY <1>5
  <2>2. \A n \in Segments : Arrived(m, n)' = Arrived(m, n)
    BY <1>1, <1>5 DEF Arrived
  <2>3. \A n \in Segments : n <= p => Arrived(m, n)
    BY <1>2, <2>1 DEF MemAt
  <2>4. /\ k + 1 >= 4 => k >= 4
        /\ k + 1 <= 3 => k <= 3
    BY <1>6
  <2> QED
    BY <1>2, <2>1, <2>2, <2>3, <2>4 DEF MemAt
<1>8. WrittenInv(m)'
  BY <1>1, <1>5 DEF BootInv, WrittenInv, Running
<1>9. RunInv(m)' /\ StaysOnCourse'
  BY <1>1, <1>3, <1>7 DEF RunInv, RunAt, StaysOnCourse
<1> QED
  BY <1>5, <1>8, <1>9 DEF BootInv

(* A write to a part of a segment's place. *)
LEMMA SegmentWritten ==
  ASSUME NEW m, BootInv(m), pc = "run", UNCHANGED <<kernel, header, i, code>>,
         NEW n \in Segments, NEW stretch \in SUBSET Target(n),
         NEW p, NEW k, PlaceAt(p, k),
         \A a \in Addr : a \notin stretch => mem'[a] = mem[a],
         GoOnAfterWriting(stretch), regs' \in Registers
  PROVE  /\ pc' \in {"run", "astray"} /\ StateInv' /\ CodeInv' /\ WrittenInv(m)' /\ StaysOnCourse'
<1>1. pc' \in {"run", "astray"} /\ eip' = eip + 1
  BY DEF GoOnAfterWriting
<1>2. eip' \in Nat
  BY <1>1 DEF BootInv, StateInv
<1>3. /\ StateInv' /\ CodeInv' /\ CodeSpace' = CodeSpace /\ Targets' = Targets
      /\ Segments' = Segments /\ \A x : Target(x)' = Target(x)
  BY <1>1, <1>2, RunFrame
<1>4. stretch \subseteq Targets
  BY DEF Targets
<1>5. WrittenInv(m)'
  <2>1. Running /\ Running'
    BY <1>1 DEF Running
  <2> QED
    BY <1>3, <1>4, <2>1 DEF BootInv, WrittenInv
<1>6. BytesOf(eip) \subseteq CodeSpace
  <2>1. eip \in 1 .. Len(code)
    BY InstructionExecuted DEF BootInv, Running
  <2> QED
    BY <2>1, BytesInCode DEF BootInv
<1>7. StaysOnCourse'
  <2> SUFFICES ASSUME pc' = "astray" PROVE \E x \in Segments : Target(x) \cap CodeSpace # {}
    BY <1>3 DEF StaysOnCourse
  <2>1. stretch \cap BytesOf(eip) # {}
    BY DEF GoOnAfterWriting
  <2> QED
    BY <1>6, <2>1
<1> QED
  BY <1>1, <1>3, <1>5, <1>7

(* What was put in its place stays there while segment n is written, and   *)
(* so do the bytes of the later ones in the file.                          *)
LEMMA OthersStay ==
  ASSUME NEW m, StateInv, SafeOrder, UNCHANGED kernel, NEW n \in Segments,
         NEW stretch \in SUBSET Target(n),
         \A a \in Addr : a \notin stretch => mem'[a] = mem[a]
  PROVE  /\ \A x \in Segments : x < n /\ Arrived(m, x) => Arrived(m, x)'
         /\ \A x \in Segments : n < x => \A a \in InFile(x) : mem'[a] = mem[a]
<1>1. \A x : Target(x)' = Target(x) /\ FileAddr(x)' = FileAddr(x)
  BY DEF Target, FileAddr
<1>2. ASSUME NEW x \in Segments, x < n, Arrived(m, x) PROVE Arrived(m, x)'
  <2>1. Target(x) \cap Target(n) = {}
    BY <1>2 DEF SafeOrder
  <2>2. \A a \in Target(x) : mem'[a] = mem[a]
    BY <2>1, SegmentsInMemory
  <2> QED
    BY <1>1, <1>2, <2>2 DEF Arrived
<1>3. ASSUME NEW x \in Segments, n < x, NEW a \in InFile(x) PROVE mem'[a] = mem[a]
  <2>1. Target(n) \cap InFile(x) = {}
    BY <1>3 DEF SafeOrder
  <2> QED
    BY <2>1, SegmentsInMemory
<1> QED
  BY <1>2, <1>3

LEMMA SegmentIndex ==
  ASSUME StateInv
  PROVE  \A n \in Segments :
           /\ n \in 1 .. Len(kernel.phs) /\ n \in Nat /\ n \in 0 .. Len(kernel.phs) /\ n - 1 \in Nat
           /\ kernel.phs[n].p_type = PT_LOAD
<1> SUFFICES ASSUME NEW n \in Segments
             PROVE  /\ n \in 1 .. Len(kernel.phs) /\ n \in Nat /\ n \in 0 .. Len(kernel.phs)
                    /\ n - 1 \in Nat /\ kernel.phs[n].p_type = PT_LOAD
  OBVIOUS
<1>1. n \in 1 .. Len(kernel.phs) /\ kernel.phs[n].p_type = PT_LOAD
  BY SegmentFacts DEF Segments
<1>2. PICK l \in Nat : l = Len(kernel.phs)
  BY OffsetFacts
<1>3. n \in 1 .. l
  BY <1>1, <1>2
<1>4. n \in Nat /\ n \in 0 .. l /\ n - 1 \in Nat
  BY <1>3
<1> QED
  BY <1>1, <1>2, <1>4

LEMMA SmallRemainder == ASSUME NEW d \in Nat \ {0}, NEW o \in 0 .. d - 1 PROVE o % d = o
OBVIOUS

LEMMA ExecRepMovsbInv ==
  ASSUME NEW m, BootInv(m), ExecRepMovsb
  PROVE  BootInv(m)'
<1>1. /\ pc = "run" /\ Running /\ code[eip].op = "rep movsb"
      /\ UNCHANGED <<kernel, header, i, code>>
      /\ StateInv /\ CodeInv
  BY DEF ExecRepMovsb, Fetched, Running, BootInv
<1>2. PICK p, k : PlaceAt(p, k) /\ RegsAt(p, k) /\ MemAt(m, p, k)
  BY <1>1 DEF BootInv, RunInv, RunAt
<1>3. p # Len(kernel.phs) /\ k = 3
  BY <1>1, <1>2, OpOf
<1>4. PICK n \in Segments : n = p + 1 /\ p < Len(kernel.phs) /\ p \in Nat
  BY <1>1, <1>2, <1>3, SegmentAt
<1>5. PICK t \in Nat, s \in Nat, l \in Nat, w \in Nat :
        /\ t = kernel.phs[n].p_paddr /\ s = FileAddr(n) /\ l = kernel.phs[n].p_filesz
        /\ w = kernel.phs[n].p_memsz /\ l <= w /\ t + w <= MemTop /\ MemTop \in Nat
  BY <1>1, SegmentFacts
<1>6. regs.edi = t /\ regs.esi = s /\ regs.ecx = l /\ regs.eax = 0
  BY <1>2, <1>3, <1>4, <1>5 DEF RegsAt
<1>7. PICK stretch \in SUBSET Target(n) : stretch = t .. t + l - 1
  <2>1. Target(n) = t .. t + w - 1
    BY <1>5 DEF Target
  <2>2. t .. t + l - 1 \subseteq t .. t + w - 1
    BY <1>5
  <2> QED
    BY <2>1, <2>2
<1>8. /\ mem' = [a \in Addr |->
                   IF a \notin stretch THEN mem[a]
                   ELSE IF t > s THEN mem[s + ((a - t) % (t - s))]
                   ELSE mem[s + (a - t)]]
      /\ GoOnAfterWriting(stretch)
      /\ regs' = [regs EXCEPT !.edi = t + l, !.esi = s + l, !.ecx = 0]
  BY <1>6, <1>7 DEF ExecRepMovsb
<1>9. \A a \in Addr : a \notin stretch => mem'[a] = mem[a]
  BY <1>8
<1>10. /\ regs' \in Registers /\ regs'.edi = t + l /\ regs'.eax = 0 /\ regs'.ebx = regs.ebx
  <2>1. PICK x \in Nat, y \in Nat : x = t + l /\ y = s + l
    OBVIOUS
  <2>2. regs' = [regs EXCEPT !.edi = x, !.esi = y, !.ecx = 0]
    BY <1>8, <2>1
  <2> QED
    BY <1>1, <1>6, <2>1, <2>2, RegisterFacts DEF Registers
<1>11. /\ pc' \in {"run", "astray"} /\ StateInv' /\ CodeInv' /\ WrittenInv(m)' /\ StaysOnCourse'
  BY <1>1, <1>2, <1>8, <1>9, <1>10, SegmentWritten
<1>12. PlaceAt(p, 4)'
  <2>1. PICK o \in Nat : o = Offset(kernel.phs)[p]
    BY <1>1, <1>2, OffsetFacts DEF PlaceAt
  <2>2. eip = o + 3 + 1 /\ eip' = eip + 1
    BY <1>2, <1>3, <1>8, <2>1 DEF PlaceAt, GoOnAfterWriting
  <2>3. eip' = o + 4 + 1
    BY <2>2
  <2>4. /\ kernel' = kernel /\ p \in 0 .. Len(kernel.phs) /\ kernel.phs[p + 1].p_type = PT_LOAD
        /\ p # Len(kernel.phs)
    BY <1>1, <1>2, <1>3 DEF PlaceAt
  <2>5. 4 \in 0 .. 5
    OBVIOUS
  <2> QED
    BY <2>1, <2>3, <2>4, <2>5 DEF PlaceAt
<1>13. RegsAt(p, 4)'
  <2>1. regs.ebx = IF header # 0 THEN InfoAddr ELSE MbiAddr
    BY <1>2 DEF RegsAt
  <2>2. kernel.phs[p + 1].p_paddr = t /\ kernel.phs[p + 1].p_filesz = l
    BY <1>4, <1>5
  <2>3. kernel' = kernel /\ header' = header /\ p # Len(kernel.phs)
    BY <1>1, <1>3
  <2>4. 4 \notin 1 .. 3 /\ 4 \notin 2 .. 3 /\ 4 # 3 /\ 4 # 5 /\ 4 # 2
    OBVIOUS
  <2> QED
    BY <1>10, <2>1, <2>2, <2>3, <2>4 DEF RegsAt
<1>14. MemAt(m, p, 4)'
  <2> SUFFICES ASSUME Orderly'
               PROVE  /\ \A x \in Segments : x <= p => Arrived(m, x)'
                      /\ \A o \in 0 .. l - 1 : mem'[t + o] = m[s + o]
                      /\ \A x \in Segments : x > n => \A a \in InFile(x) : mem'[a] = m[a]
    <3>1. Segments' = Segments /\ \A x : InFile(x)' = InFile(x) /\ FileAddr(x)' = FileAddr(x)
      BY <1>1 DEF Segments, InFile, FileAddr
    <3>2. /\ kernel'.phs[p + 1].p_paddr = t /\ kernel'.phs[p + 1].p_filesz = l
          /\ FileAddr(p + 1)' = s /\ p + 1 = n
      BY <1>1, <1>4, <1>5, <3>1
    <3>3. ~(4 <= 3)
      OBVIOUS
    <3>4. Orderly' =>
            \A o \in 0 .. kernel'.phs[p + 1].p_filesz - 1 :
              mem'[kernel'.phs[p + 1].p_paddr + o] = m[FileAddr(p + 1)' + o]
      BY <3>2
    <3>5. Orderly' =>
            \A x \in Segments' : x > p + 1 \/ (x = p + 1 /\ 4 <= 3) =>
              \A a \in InFile(x)' : mem'[a] = m[a]
      BY <3>1, <3>2, <3>3
    <3>6. Orderly' => \A x \in Segments' : x <= p => Arrived(m, x)'
      BY <3>1
    <3> QED
      BY <3>4, <3>5, <3>6 DEF MemAt
  <2>1. Orderly
    <3>1. eip' \in Nat /\ pc' \in {"run", "kernel", "astray"}
      BY <1>11 DEF StateInv
    <3> QED
      BY <1>1, <1>10, <3>1, RunFrame
  <2>2. SafeOrder
    BY <2>1 DEF Orderly
  <2>3. /\ \A x \in Segments : x <= p => Arrived(m, x)
        /\ \A x \in Segments : x > n \/ x = n => \A a \in InFile(x) : mem[a] = m[a]
    BY <1>2, <1>3, <1>4, <2>1 DEF MemAt
  <2>4. /\ \A x \in Segments : x < n /\ Arrived(m, x) => Arrived(m, x)'
        /\ \A x \in Segments : n < x => \A a \in InFile(x) : mem'[a] = mem[a]
    BY <1>1, <1>9, <2>2, OthersStay
  <2>5. \A x \in Segments : x \in Nat
    BY <1>1, SegmentIndex
  <2>6. \A x \in Segments : x <= p => x < n
    BY <1>4, <2>5
  <2>7. \A x \in Segments : x > n => n < x
    BY <1>4, <2>5
  <2>8. InFile(n) = s .. s + l - 1 /\ Target(n) = t .. t + w - 1
    BY <1>5 DEF InFile, Target
  <2>9. ASSUME NEW o \in 0 .. l - 1 PROVE mem'[t + o] = m[s + o]
    <3>1. t + o \in Addr /\ t + o \in stretch /\ (t + o) - t = o /\ s + o \in InFile(n)
      <4>1. t + o \in t .. t + l - 1 /\ s + o \in s .. s + l - 1 /\ (t + o) - t = o
        OBVIOUS
      <4>2. t + o \in stretch /\ s + o \in InFile(n)
        BY <1>7, <2>8, <4>1
      <4> QED
        BY <1>1, <4>1, <4>2, SegmentsInMemory
    <3>2. mem[s + o] = m[s + o]
      BY <2>3, <3>1
    <3>3. CASE t > s
      <4>1. Target(n) \cap InFile(n) = {}
        BY <1>5, <2>2, <3>3 DEF SafeOrder
      <4>2. l <= t - s
        <5> SUFFICES ASSUME l > t - s PROVE FALSE
          OBVIOUS
        <5>1. t \in s .. s + l - 1 /\ t \in t .. t + w - 1
          BY <1>5, <3>3
        <5> QED
          BY <2>8, <4>1, <5>1
      <4>3. PICK d \in Nat \ {0} : d = t - s /\ o \in 0 .. d - 1
        BY <3>3, <4>2
      <4>4. o % (t - s) = o
        BY <4>3, SmallRemainder
      <4>5. mem'[t + o] = mem[s + (((t + o) - t) % (t - s))]
        BY <1>8, <3>1, <3>3
      <4> QED
        BY <3>1, <3>2, <4>4, <4>5
    <3>4. CASE ~(t > s)
      <4>1. mem'[t + o] = mem[s + ((t + o) - t)]
        BY <1>8, <3>1, <3>4
      <4> QED
        BY <3>1, <3>2, <4>1
    <3> QED
      BY <3>3, <3>4
  <2> QED
    BY <2>3, <2>4, <2>6, <2>7, <2>9
<1>15. RunInv(m)'
  BY <1>11, <1>12, <1>13, <1>14 DEF RunInv, RunAt
<1> QED
  BY <1>11, <1>15 DEF BootInv

LEMMA ExecRepStosbInv ==
  ASSUME NEW m, BootInv(m), ExecRepStosb
  PROVE  BootInv(m)'
<1>1. /\ pc = "run" /\ Running /\ code[eip].op = "rep stosb"
      /\ UNCHANGED <<kernel, header, i, code>>
      /\ StateInv /\ CodeInv
  BY DEF ExecRepStosb, Fetched, Running, BootInv
<1>2. PICK p, k : PlaceAt(p, k) /\ RegsAt(p, k) /\ MemAt(m, p, k)
  BY <1>1 DEF BootInv, RunInv, RunAt
<1>3. p # Len(kernel.phs) /\ k = 5
  BY <1>1, <1>2, OpOf
<1>4. PICK n \in Segments : n = p + 1 /\ p < Len(kernel.phs) /\ p \in Nat
  BY <1>1, <1>2, <1>3, SegmentAt
<1>5. PICK t \in Nat, s \in Nat, l \in Nat, w \in Nat, r \in Nat :
        /\ t = kernel.phs[n].p_paddr /\ s = FileAddr(n) /\ l = kernel.phs[n].p_filesz
        /\ w = kernel.phs[n].p_memsz /\ r = w - l /\ w = l + r /\ t + w <= MemTop
        /\ MemTop \in Nat
  <2>1. PICK t \in Nat, s \in Nat, l \in Nat, w \in Nat :
          /\ t = kernel.phs[n].p_paddr /\ s = FileAddr(n) /\ l = kernel.phs[n].p_filesz
          /\ w = kernel.phs[n].p_memsz /\ l <= w /\ t + w <= MemTop /\ MemTop \in Nat
    BY <1>1, SegmentFacts
  <2>2. PICK r \in Nat : r = w - l /\ w = l + r
    BY <2>1
  <2> QED
    BY <2>1, <2>2
<1>6. regs.edi = t + l /\ regs.ecx = r /\ regs.eax = 0
  BY <1>2, <1>3, <1>4, <1>5 DEF RegsAt
<1>7. PICK stretch \in SUBSET Target(n) : stretch = t + l .. t + w - 1
  <2>1. Target(n) = t .. t + w - 1
    BY <1>5 DEF Target
  <2>2. t + l .. t + w - 1 \subseteq t .. t + w - 1
    BY <1>5
  <2> QED
    BY <2>1, <2>2
<1>8. /\ mem' = [a \in Addr |-> IF a \in stretch THEN Zero ELSE mem[a]]
      /\ GoOnAfterWriting(stretch)
      /\ regs' = [regs EXCEPT !.edi = (t + l) + r, !.ecx = 0]
  <2>1. regs.edi .. regs.edi + regs.ecx - 1 = stretch
    <3>1. (t + l) + r - 1 = t + w - 1
      BY <1>5
    <3> QED
      BY <1>6, <1>7, <3>1
  <2>2. FilledWith(regs.eax) = Zero
    <3>1. 0 % 256 = 0
      OBVIOUS
    <3> QED
      BY <1>6, <3>1 DEF FilledWith
  <2> QED
    BY <1>6, <2>1, <2>2 DEF ExecRepStosb
<1>9. \A a \in Addr : a \notin stretch => mem'[a] = mem[a]
  BY <1>8
<1>10. regs' \in Registers /\ regs'.eax = 0 /\ regs'.ebx = regs.ebx
  <2>1. PICK x \in Nat : x = (t + l) + r
    OBVIOUS
  <2>2. regs' = [regs EXCEPT !.edi = x, !.ecx = 0]
    BY <1>8, <2>1
  <2> QED
    BY <1>1, <1>6, <2>2, RegisterFacts DEF Registers
<1>11. /\ pc' \in {"run", "astray"} /\ StateInv' /\ CodeInv' /\ WrittenInv(m)' /\ StaysOnCourse'
  BY <1>1, <1>2, <1>8, <1>9, <1>10, SegmentWritten
<1>q. PICK q \in 0 .. Len(kernel.phs) : IsNext(kernel, n, q)
  <2>1. IsKernel(kernel) /\ n \in 0 .. Len(kernel.phs)
    BY <1>1, SegmentIndex DEF StateInv
  <2> QED
    BY <2>1, NextExists
<1>12. PlaceAt(q, 0)'
  <2>1. PICK o \in Nat : o = Offset(kernel.phs)[p]
    BY <1>1, <1>2, OffsetFacts DEF PlaceAt
  <2>2. eip = o + 5 + 1 /\ eip' = eip + 1
    BY <1>2, <1>3, <1>8, <2>1 DEF PlaceAt, GoOnAfterWriting
  <2>3. Offset(kernel.phs)[n] = o + 6
    <3>1. n \in 1 .. Len(kernel.phs) /\ kernel.phs[n].p_type = PT_LOAD
      BY <1>1, SegmentIndex
    <3>2. n - 1 = p
      BY <1>4
    <3> QED
      BY <1>1, <2>1, <3>1, <3>2, OffsetFacts
  <2>4. eip' = Offset(kernel.phs)[q] + 0 + 1
    BY <1>q, <2>2, <2>3 DEF IsNext
  <2>5. kernel' = kernel
    BY <1>1
  <2>6. 0 \in 0 .. 5 /\ 0 <= 2
    OBVIOUS
  <2> QED
    BY <1>q, <2>4, <2>5, <2>6 DEF PlaceAt, IsNext
<1>13. RegsAt(q, 0)'
  <2>1. regs.ebx = IF header # 0 THEN InfoAddr ELSE MbiAddr
    BY <1>2 DEF RegsAt
  <2>2. kernel' = kernel /\ header' = header
    BY <1>1
  <2>3. /\ 0 \notin 1 .. 3 /\ 0 \notin 2 .. 3 /\ 0 \notin 4 .. 5
        /\ 0 # 3 /\ 0 # 5 /\ 0 # 2 /\ ~(0 >= 1)
    OBVIOUS
  <2> QED
    BY <1>10, <2>1, <2>2, <2>3 DEF RegsAt
<1>14. MemAt(m, q, 0)'
  <2> SUFFICES ASSUME Orderly'
               PROVE  /\ \A x \in Segments : x <= q => Arrived(m, x)'
                      /\ \A x \in Segments : x > q => \A a \in InFile(x) : mem'[a] = m[a]
    <3>1. Segments' = Segments /\ \A x : InFile(x)' = InFile(x) /\ FileAddr(x)' = FileAddr(x)
      BY <1>1 DEF Segments, InFile, FileAddr
    <3>2. \A x \in Segments : x > q + 1 \/ x = q + 1 => x > q
      <4>1. \A x \in Segments : x \in Nat
        BY <1>1, SegmentIndex
      <4>2. q \in Nat
        <5>1. PICK d \in Nat : d = Len(kernel.phs)
          BY <1>1, OffsetFacts
        <5>2. q \in 0 .. d
          BY <1>q, <5>1
        <5> QED
          BY <5>2
      <4> QED
        BY <4>1, <4>2
    <3>3. ~(0 >= 4)
      OBVIOUS
    <3> QED
      BY <3>1, <3>2, <3>3 DEF MemAt
  <2>1. Orderly
    <3>1. eip' \in Nat /\ pc' \in {"run", "kernel", "astray"}
      BY <1>11 DEF StateInv
    <3> QED
      BY <1>1, <1>10, <3>1, RunFrame
  <2>2. SafeOrder
    BY <2>1 DEF Orderly
  <2>3. /\ \A x \in Segments : x <= p => Arrived(m, x)
        /\ \A x \in Segments : x > n => \A a \in InFile(x) : mem[a] = m[a]
        /\ \A o \in 0 .. l - 1 : mem[t + o] = m[s + o]
    <3>1. kernel.phs[p + 1].p_paddr = t /\ kernel.phs[p + 1].p_filesz = l
          /\ FileAddr(p + 1) = s /\ p + 1 = n /\ p < Len(kernel.phs) /\ k >= 4
      BY <1>2, <1>3, <1>4, <1>5
    <3>2. /\ \A x \in Segments : x <= p => Arrived(m, x)
          /\ \A x \in Segments : x > n => \A a \in InFile(x) : mem[a] = m[a]
      BY <1>2, <2>1, <3>1 DEF MemAt
    <3>3. \A o \in 0 .. kernel.phs[p + 1].p_filesz - 1 :
            mem[kernel.phs[p + 1].p_paddr + o] = m[FileAddr(p + 1) + o]
      BY <1>2, <2>1, <3>1 DEF MemAt
    <3> QED
      BY <3>1, <3>2, <3>3
  <2>4. /\ \A x \in Segments : x < n /\ Arrived(m, x) => Arrived(m, x)'
        /\ \A x \in Segments : n < x => \A a \in InFile(x) : mem'[a] = mem[a]
    BY <1>1, <1>9, <2>2, OthersStay
  <2>5. \A x \in Segments : x \in Nat
    BY <1>1, SegmentIndex
  <2>6. Arrived(m, n)'
    <3>1. Target(n)' = Target(n) /\ FileAddr(n)' = s /\ kernel' = kernel
      BY <1>1, <1>5 DEF Target, FileAddr
    <3>2. Target(n) = t .. t + w - 1
      BY <1>5 DEF Target
    <3>3. ASSUME NEW a \in t .. t + w - 1
          PROVE  mem'[a] = IF a - t < l THEN m[s + (a - t)] ELSE Zero
      <4>1. a \in Addr
        BY <1>1, <3>2, SegmentsInMemory
      <4>2. CASE a - t < l
        <5>1. PICK o \in 0 .. l - 1 : o = a - t /\ a = t + o
          BY <4>2
        <5>2. a \notin stretch
          BY <1>7, <4>2
        <5>3. mem'[a] = mem[t + o] /\ mem[t + o] = m[s + o]
          BY <1>9, <2>3, <4>1, <5>1, <5>2
        <5> QED
          BY <4>2, <5>1, <5>3
      <4>3. CASE ~(a - t < l)
        <5>1. a \in stretch
          BY <1>7, <4>3
        <5> QED
          BY <1>8, <4>1, <4>3, <5>1
      <4> QED
        BY <4>2, <4>3
    <3> QED
      BY <1>5, <3>1, <3>2, <3>3 DEF Arrived
  <2>7. ASSUME NEW x \in Segments, x <= q PROVE Arrived(m, x)'
    <3>1. x \in 1 .. Len(kernel.phs) /\ kernel.phs[x].p_type = PT_LOAD /\ x \in Nat
      BY <1>1, SegmentIndex
    <3>2. x <= n
      BY <1>4, <1>q, <2>7, <3>1 DEF IsNext
    <3>3. CASE x = n
      BY <2>6, <3>3
    <3>4. CASE x # n
      <4>1. x <= p /\ x < n
        BY <1>4, <3>1, <3>2, <3>4
      <4> QED
        BY <2>3, <2>4, <4>1
    <3> QED
      BY <3>3, <3>4
  <2>8. ASSUME NEW x \in Segments, x > q PROVE n < x /\ x > n
    <3>1. n \in Nat /\ x \in Nat /\ q \in n .. Len(kernel.phs) /\ Len(kernel.phs) \in Nat
      BY <1>1, <1>q, <2>5, OffsetFacts DEF IsNext
    <3> QED
      BY <2>8, <3>1
  <2> QED
    BY <2>3, <2>4, <2>7, <2>8
<1>15. RunInv(m)'
  BY <1>11, <1>12, <1>13, <1>14 DEF RunInv, RunAt
<1> QED
  BY <1>11, <1>15 DEF BootInv

LEMMA ExecJmpInv ==
  ASSUME NEW m, BootInv(m), ExecJmp
  PROVE  BootInv(m)'
<1>1. /\ pc = "run" /\ Running /\ code[eip].op = "jmp" /\ pc' = "kernel"
      /\ UNCHANGED <<kernel, header, i, code, mem, eip, regs>>
      /\ StateInv /\ CodeInv
  BY DEF ExecJmp, Fetched, Running, BootInv
<1>2. PICK p, k : PlaceAt(p, k) /\ RegsAt(p, k) /\ MemAt(m, p, k)
  BY <1>1 DEF BootInv, RunInv, RunAt
<1>3. p = Len(kernel.phs) /\ k = 2
  BY <1>1, <1>2, OpOf
<1>4. /\ StateInv' /\ CodeInv'
      /\ CodeSpace' = CodeSpace /\ Segments' = Segments /\ Targets' = Targets
      /\ Orderly' = Orderly
      /\ \A n : Target(n)' = Target(n) /\ InFile(n)' = InFile(n) /\ FileAddr(n)' = FileAddr(n)
  <2>1. regs' \in Registers /\ eip' \in Nat
    BY <1>1 DEF StateInv
  <2> QED
    BY <1>1, <2>1, RunFrame
<1>5. WrittenInv(m)'
  BY <1>1, <1>4 DEF BootInv, WrittenInv, Running
<1>6. RunAt(m, p, k)'
  <2>1. PlaceAt(p, k)' /\ RegsAt(p, k)'
    BY <1>1, <1>2, <1>4 DEF PlaceAt, RegsAt
  <2>2. \A n : Arrived(m, n)' = Arrived(m, n)
    BY <1>1, <1>4 DEF Arrived
  <2>3. MemAt(m, p, k)'
    BY <1>1, <1>2, <1>4, <2>2 DEF MemAt
  <2> QED
    BY <2>1, <2>3 DEF RunAt
<1>7. RunInv(m)' /\ StaysOnCourse'
  BY <1>1, <1>3, <1>6 DEF RunInv, StaysOnCourse
<1> QED
  BY <1>4, <1>5, <1>7 DEF BootInv

LEMMA FetchOtherInv ==
  ASSUME NEW m, BootInv(m), FetchOther
  PROVE  BootInv(m)'
<1>1. /\ pc = "run" /\ Running /\ pc' = "astray" /\ ~Intact(eip)
      /\ UNCHANGED <<kernel, header, i, code, mem, eip, regs>>
      /\ StateInv /\ CodeInv /\ WrittenInv(m)
  BY DEF FetchOther, Running, BootInv
<1>2. PICK p, k : PlaceAt(p, k)
  BY <1>1 DEF BootInv, RunInv, RunAt
<1>4. /\ StateInv' /\ CodeInv'
      /\ CodeSpace' = CodeSpace /\ Segments' = Segments /\ Targets' = Targets
      /\ \A n : Target(n)' = Target(n)
  <2>1. regs' \in Registers /\ eip' \in Nat
    BY <1>1 DEF StateInv
  <2> QED
    BY <1>1, <2>1, RunFrame
<1>5. WrittenInv(m)'
  BY <1>1, <1>4 DEF WrittenInv, Running
<1>6. PICK a \in BytesOf(eip) : mem[a] # CodeByte(a - CodeAddr)
  BY <1>1 DEF Intact
<1>7. a \in CodeSpace /\ a \in Addr
  <2>1. eip \in 1 .. Len(code)
    BY <1>1, <1>2, InstructionExecuted
  <2>2. a \in CodeSpace
    BY <1>1, <1>6, <2>1, BytesInCode
  <2> QED
    BY <1>1, <2>2, CodeFits
<1>8. a \in Targets
  BY <1>1, <1>6, <1>7 DEF WrittenInv
<1>9. \E n \in Segments : Target(n) \cap CodeSpace # {}
  BY <1>7, <1>8 DEF Targets
<1>10. StaysOnCourse' /\ RunInv(m)'
  BY <1>1, <1>4, <1>9 DEF StaysOnCourse, RunInv
<1> QED
  BY <1>4, <1>5, <1>10 DEF BootInv

LEMMA StayInv ==
  ASSUME NEW m, BootInv(m), UNCHANGED vars
  PROVE  BootInv(m)'
<1>1. UNCHANGED <<kernel, pc, header, i, code, mem, eip, regs>>
  BY DEF vars
<1>2. /\ CodeSpace' = CodeSpace /\ Segments' = Segments
      /\ \A n : Target(n)' = Target(n) /\ InFile(n)' = InFile(n) /\ FileAddr(n)' = FileAddr(n)
      /\ \A n : SegmentCode(n)' = SegmentCode(n)
      /\ EntryCode' = EntryCode /\ Running' = Running
  BY <1>1 DEF CodeSpace, Segments, Target, InFile, FileAddr, SegmentCode, EntryCode, Running
<1>3. Targets' = Targets /\ Orderly' = Orderly /\ \A n : Arrived(m, n)' = Arrived(m, n)
  BY <1>1, <1>2 DEF Targets, Orderly, SafeOrder, Arrived
<1>4. StateInv'
  BY <1>1, <1>2 DEF BootInv, StateInv
<1>5. CodeInv'
  <2>1. CodeInv
    BY DEF BootInv
  <2> QED
    BY <1>1, <1>2, <2>1 DEF CodeInv
<1>6. WrittenInv(m)' /\ StaysOnCourse'
  BY <1>1, <1>2, <1>3 DEF BootInv, WrittenInv, StaysOnCourse
<1>7. \A p, k : RunAt(m, p, k)' = RunAt(m, p, k)
  <2> SUFFICES ASSUME NEW p, NEW k PROVE RunAt(m, p, k)' = RunAt(m, p, k)
    OBVIOUS
  <2>1. PlaceAt(p, k)' = PlaceAt(p, k)
    BY <1>1 DEF PlaceAt
  <2>2. RegsAt(p, k)' = RegsAt(p, k)
    BY <1>1, <1>2 DEF RegsAt
  <2>3. MemAt(m, p, k)' = MemAt(m, p, k)
    BY <1>1, <1>2, <1>3 DEF MemAt
  <2> QED
    BY <2>1, <2>2, <2>3 DEF RunAt
<1>8. RunInv(m)'
  BY <1>1, <1>7 DEF BootInv, RunInv
<1> QED
  BY <1>4, <1>5, <1>6, <1>8 DEF BootInv

-----------------------------------------------------------------------------
(* The theorems.                                                           *)

(* The invariant is kept by every step, whatever memory held before. *)
LEMMA BootStep ==
  ASSUME NEW m, BootInv(m), [Next]_vars
  PROVE  BootInv(m)'
<1>1. CASE FindHeader
  BY <1>1, FindHeaderInv
<1>2. CASE CheckElf
  BY <1>2, CheckElfInv
<1>3. CASE GenerateSegment
  BY <1>3, GenerateSegmentInv
<1>4. CASE SkipSegment
  BY <1>4, SkipSegmentInv
<1>5. CASE JumpToCode
  BY <1>5, JumpToCodeInv
<1>6. CASE ExecMov
  BY <1>6, ExecMovInv
<1>7. CASE ExecRepMovsb
  BY <1>7, ExecRepMovsbInv
<1>8. CASE ExecRepStosb
  BY <1>8, ExecRepStosbInv
<1>9. CASE ExecJmp
  BY <1>9, ExecJmpInv
<1>10. CASE FetchOther
  BY <1>10, FetchOtherInv
<1>11. CASE UNCHANGED vars
  BY <1>11, StayInv
<1> QED
  BY <1>1, <1>2, <1>3, <1>4, <1>5, <1>6, <1>7, <1>8, <1>9, <1>10, <1>11 DEF Next, Step

(* The generated code is what the program headers say, and the registers   *)
(* and the memory at each of its instructions are what its place in the    *)
(* code tells (gen_elf_segment, elf.c:43-49).                              *)
THEOREM BootInvHolds == Spec => []BootInv(Untouched)
<1>1. BootInv(Untouched) /\ [Next]_vars => BootInv(Untouched)'
  BY BootStep
<1> QED
  BY BootInit, <1>1, PTL DEF Spec

(* Nothing is written but the segments and the code (elf.c:43-49,          *)
(* elf.c:125-177), whatever the program headers are.                       *)
THEOREM OnlySegmentsWrittenHolds == Spec => []OnlySegmentsWritten
<1>1. BootInv(Untouched) => OnlySegmentsWritten
  <2> SUFFICES ASSUME BootInv(Untouched), NEW a \in Addr, a \notin CodeSpace, a \notin Targets
               PROVE  mem[a] = a
    BY DEF OnlySegmentsWritten, Targets
  <2> QED
    BY DEF BootInv, WrittenInv, Untouched
<1> QED
  BY BootInvHolds, <1>1, PTL

(* The processor leaves the generated code for the kernel only, unless a   *)
(* segment belongs where the code is (elf.c:123-124).                      *)
THEOREM StaysOnCourseHolds == Spec => []StaysOnCourse
<1>1. BootInv(Untouched) => StaysOnCourse
  BY DEF BootInv
<1> QED
  BY BootInvHolds, <1>1, PTL

(* The first module stays the one that was given. *)
LEMMA KernelStays == Spec => [](kernel \in Kernels)
<1>1. Init => kernel \in Kernels
  BY DEF Init
<1>2. kernel \in Kernels /\ [Next]_vars => (kernel \in Kernels)'
  BY DEF Next, Step, FindHeader, CheckElf, GenerateSegment, SkipSegment, JumpToCode,
         ExecMov, ExecRepMovsb, ExecRepStosb, ExecJmp, FetchOther, vars
<1> QED
  BY <1>1, <1>2, PTL DEF Spec

(* When the kernel is entered, each segment holds the bytes of the file    *)
(* and zeros behind them, even if it was put over the file or over code    *)
(* that had been executed (elf.c:43-49).                                   *)
THEOREM SegmentsArriveHolds == Spec => []SegmentsArrive
<1>1. BootInv(Untouched) /\ kernel \in Kernels => SegmentsArrive
  <2> SUFFICES ASSUME BootInv(Untouched), kernel \in Kernels, pc = "kernel", SafeOrder,
                      NEW n \in Segments
               PROVE  \A a \in Target(n) :
                        LET offset == a - kernel.phs[n].p_paddr
                        IN  mem[a] = IF offset < kernel.phs[n].p_filesz
                                       THEN FileAddr(n) + offset ELSE Zero
    BY DEF SegmentsArrive
  <2>1. StateInv /\ CodeInv
    BY DEF BootInv
  <2>2. \A x \in Segments : InFile(x) \cap CodeSpace = {}
    <3> SUFFICES ASSUME NEW x \in Segments PROVE InFile(x) \cap CodeSpace = {}
      OBVIOUS
    <3>1. CodeSpace \cap (kernel.mod_start .. kernel.mod_end - 1) = {}
      <4>1. CodeSpace \subseteq LoaderSpace(kernel)
        <5>1. PICK z \in Nat, l \in Nat, c \in Nat :
                z = CodeSize(code) /\ l = Len(kernel.phs) /\ c = CodeAddr /\ z <= 24 * l + 12
          BY <2>1, CodeFits, OffsetFacts
        <5>2. c .. c + z - 1 \subseteq c .. c + 24 * l + 11
          BY <5>1
        <5> QED
          BY <5>1, <5>2 DEF CodeSpace, LoaderSpace
      <4>2. LoaderSpace(kernel) \subseteq Addr \ (kernel.mod_start .. kernel.mod_end - 1)
        BY BootAssumption
      <4> QED
        BY <4>1, <4>2
    <3>2. InFile(x) \subseteq kernel.mod_start .. kernel.mod_end - 1
      <4>1. PICK f \in Nat, o \in Nat, l \in Nat, s \in Nat, e \in Nat :
              /\ f = FileAddr(x) /\ o = kernel.phs[x].p_offset /\ l = kernel.phs[x].p_filesz
              /\ s = kernel.mod_start /\ e = kernel.mod_end
        <5>1. /\ kernel.mod_start \in Nat /\ MemTop \in Nat
              /\ kernel.mod_end \in kernel.mod_start .. MemTop
          BY <2>1, BootAssumption DEF StateInv, IsKernel, Addr
        <5>2. kernel.mod_start \in Nat /\ kernel.mod_end \in Nat
          BY <5>1
        <5> QED
          BY <2>1, <5>2, SegmentFacts
      <4>2. f = s + o
        BY <4>1 DEF FileAddr
      <4>3. s + o + l <= e
        BY <2>1, <4>1 DEF StateInv, IsKernel, Segments
      <4>4. f .. f + l - 1 \subseteq s .. e - 1
        BY <4>2, <4>3
      <4> QED
        BY <4>1, <4>4 DEF InFile
    <3> QED
      BY <3>1, <3>2
  <2>3. Orderly
    BY <2>2 DEF Orderly
  <2>4. Arrived(Untouched, n)
    <3>1. MemAt(Untouched, Len(kernel.phs), 2)
      BY DEF BootInv, RunInv, RunAt
    <3>2. n <= Len(kernel.phs)
      <4>1. n \in 1 .. Len(kernel.phs) /\ Len(kernel.phs) \in Nat
        BY <2>1, SegmentIndex, OffsetFacts
      <4> QED
        BY <4>1
    <3> QED
      BY <2>3, <3>1, <3>2 DEF MemAt
  <2>5. PICK t \in Nat, s \in Nat, l \in Nat, w \in Nat :
          /\ t = kernel.phs[n].p_paddr /\ s = FileAddr(n) /\ l = kernel.phs[n].p_filesz
          /\ w = kernel.phs[n].p_memsz
    BY <2>1, SegmentFacts
  <2>6. Target(n) = t .. t + w - 1 /\ InFile(n) = s .. s + l - 1
    BY <2>5 DEF Target, InFile
  <2>7. ASSUME NEW a \in t .. t + w - 1
        PROVE  mem[a] = IF a - t < l THEN s + (a - t) ELSE Zero
    <3>1. mem[a] = IF a - t < l THEN Untouched[s + (a - t)] ELSE Zero
      BY <2>4, <2>5, <2>6, <2>7 DEF Arrived
    <3>2. CASE a - t < l
      <4>1. s + (a - t) \in s .. s + l - 1
        BY <3>2
      <4>2. s + (a - t) \in Addr
        BY <2>1, <2>6, <4>1, SegmentsInMemory
      <4> QED
        BY <3>1, <3>2, <4>2 DEF Untouched
    <3> QED
      BY <3>1, <3>2
  <2> QED
    BY <2>5, <2>6, <2>7
<1> QED
  BY BootInvHolds, KernelStays, <1>1, PTL

(* What mbi2_header_find finds. *)
LEMMA HeaderFound ==
  ASSUME NEW k, IsKernel(k), k.mod_start # 0
  PROVE  HeaderFind(k) # 0 <=>
           \E m \in k.magics :
             /\ m.sum = 0 /\ (m.at - k.mod_start) % 8 = 0
             /\ m.at + HeaderSize <= k.mod_end
<1> DEFINE R == { x \in k.magics : /\ x.sum = 0 /\ (x.at - k.mod_start) % 8 = 0
                                   /\ x.at + HeaderSize <= k.mod_end }
           found == { m.at : m \in R }
<1>1. HeaderFind(k) = IF found = {} THEN 0 ELSE Min(found)
  BY DEF HeaderFind
<1>2. (\E m \in k.magics : /\ m.sum = 0 /\ (m.at - k.mod_start) % 8 = 0
                           /\ m.at + HeaderSize <= k.mod_end) <=> R # {}
  OBVIOUS
<1>3. R # {} <=> found # {}
  <2> HIDE DEF R
  <2> QED
    OBVIOUS
<1>4. \A y \in found : y \in Nat /\ y # 0
  <2>2. k.mod_start \in Nat /\ k.mod_start # 0 /\ MemTop \in Nat
    BY BootAssumption DEF IsKernel, Addr
  <2>3. \A x \in k.magics : x.at \in k.mod_start .. MemTop
    BY DEF IsKernel
  <2>4. \A y \in k.mod_start .. MemTop : y \in Nat /\ y # 0
    BY <2>2
  <2> QED
    BY <2>3, <2>4
<1> HIDE DEF R, found
<1>5. found # {} => Min(found) \in found
  <2> SUFFICES ASSUME found # {} PROVE Min(found) \in found
    OBVIOUS
  <2>1. PICK y : y \in found
    OBVIOUS
  <2>2. found \subseteq Nat
    BY <1>4
  <2>3. \E x \in found : \A z \in found : x <= z
    BY <2>1, <2>2, LeastNumber
  <2> QED
    BY <2>3 DEF Min
<1> QED
  BY <1>1, <1>2, <1>3, <1>4, <1>5

(* An address is a multiple of eight bytes behind another. *)
LEMMA EightBytes ==
  ASSUME NEW s \in Nat, NEW top \in Nat, NEW at \in s .. top
  PROVE  (at - s) % 8 = 0 <=> \E k \in 0 .. top : at = s + 8 * k
<1>1. PICK d \in Nat : d = at - s /\ at = s + d /\ d <= top
  OBVIOUS
<1>2. d = 8 * (d \div 8) + (d % 8) /\ d \div 8 \in Int /\ d % 8 \in 0 .. 7
  OBVIOUS
<1>3. PICK q \in Int : q = d \div 8 /\ d = 8 * q + (d % 8) /\ d % 8 \in 0 .. 7
  BY <1>2
<1>4. ASSUME d % 8 = 0 PROVE \E k \in 0 .. top : at = s + 8 * k
  <2>1. d = 8 * q
    BY <1>3, <1>4
  <2>2. q \in 0 .. top /\ at = s + 8 * q
    BY <1>1, <2>1
  <2> QED
    BY <2>2
<1>5. ASSUME NEW k \in 0 .. top, at = s + 8 * k PROVE d % 8 = 0
  <2>1. d = 8 * k
    BY <1>1, <1>5
  <2> QED
    BY <1>3, <2>1
<1> QED
  BY <1>1, <1>4, <1>5

(* The kernel is entered where it wants to be, with the magic number and   *)
(* the information that go together: Multiboot2 if and only if it has an   *)
(* aligned header inside the file (mbi2.c, mbi2_header_find; elf.c).       *)
THEOREM KernelGetsItsProtocolHolds == Spec => []KernelGetsItsProtocol
<1>1. BootInv(Untouched) /\ kernel \in Kernels => KernelGetsItsProtocol
  <2> SUFFICES ASSUME BootInv(Untouched), kernel \in Kernels, pc = "kernel" PROVE KernelGetsItsProtocol
    BY DEF KernelGetsItsProtocol
  <2> DEFINE isHeader(m) ==
        /\ m.sum = 0
        /\ \E k \in 0 .. MemTop : m.at = kernel.mod_start + 8 * k
        /\ m.at .. m.at + 15 \subseteq kernel.mod_start .. kernel.mod_end - 1
  <2>1. IsKernel(kernel) /\ kernel.mod_start # 0 /\ header = HeaderFind(kernel)
    BY BootAssumption DEF BootInv, StateInv
  <2>2. /\ regs.ebx = IF header # 0 THEN InfoAddr ELSE MbiAddr
        /\ regs.eax = IF header # 0 THEN MBI2_MAGIC ELSE MBI_MAGIC
        /\ regs.edx = kernel.e_entry
    <3>1. RegsAt(Len(kernel.phs), 2)
      BY DEF BootInv, RunInv, RunAt
    <3> QED
      BY <3>1 DEF RegsAt
  <2>3. ASSUME NEW m \in kernel.magics
        PROVE  isHeader(m) <=> /\ m.sum = 0 /\ (m.at - kernel.mod_start) % 8 = 0
                               /\ m.at + HeaderSize <= kernel.mod_end
    <3>1. PICK s \in Nat, e \in Nat, top \in Nat, at \in Nat :
            /\ s = kernel.mod_start /\ e = kernel.mod_end /\ top = MemTop /\ at = m.at
            /\ at \in s .. top
      <4>1. /\ kernel.mod_start \in Nat /\ MemTop \in Nat
            /\ kernel.mod_end \in kernel.mod_start .. MemTop
            /\ m.at \in kernel.mod_start .. MemTop
        BY <2>1, BootAssumption DEF IsKernel, Addr
      <4>2. kernel.mod_start \in Nat /\ kernel.mod_end \in Nat /\ m.at \in Nat
        BY <4>1
      <4> QED
        BY <4>1, <4>2
    <3>2. (at - s) % 8 = 0 <=> \E k \in 0 .. top : at = s + 8 * k
      BY <3>1, EightBytes
    <3>3. at .. at + 15 \subseteq s .. e - 1 <=> at + 16 <= e
      <4>1. ASSUME at .. at + 15 \subseteq s .. e - 1 PROVE at + 16 <= e
        <5>1. at + 15 \in at .. at + 15
          OBVIOUS
        <5>2. at + 15 \in s .. e - 1
          BY <4>1, <5>1
        <5> QED
          BY <5>2
      <4>2. ASSUME at + 16 <= e PROVE at .. at + 15 \subseteq s .. e - 1
        BY <3>1, <4>2
      <4> QED
        BY <4>1, <4>2
    <3> QED
      BY <3>1, <3>2, <3>3 DEF HeaderSize
  <2>4. header # 0 <=> \E m \in kernel.magics : isHeader(m)
    <3>1. HeaderFind(kernel) # 0 <=>
            \E m \in kernel.magics :
              /\ m.sum = 0 /\ (m.at - kernel.mod_start) % 8 = 0
              /\ m.at + HeaderSize <= kernel.mod_end
      BY <2>1, HeaderFound
    <3> HIDE DEF isHeader
    <3> QED
      BY <2>1, <2>3, <3>1
  <2>5. <<regs.eax, regs.ebx>> = IF \E m \in kernel.magics : isHeader(m)
                                   THEN <<MBI2_MAGIC, InfoAddr>> ELSE <<MBI_MAGIC, MbiAddr>>
    <3> HIDE DEF isHeader
    <3> QED
      BY <2>2, <2>4
  <2> QED
    BY <2>2, <2>5 DEF KernelGetsItsProtocol
<1> QED
  BY BootInvHolds, KernelStays, <1>1, PTL

=============================================================================
