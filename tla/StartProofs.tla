----------------------------- MODULE StartProofs -----------------------------
(***************************************************************************)
(* start_module as a whole: when the kernel is entered, its segments hold  *)
(* the bytes the loader had put into its file, and the other modules, the  *)
(* strings and the information are there; for every memory map, every list *)
(* of modules, every file and every number of segments.                    *)
(*                                                                         *)
(* The argument.  Up to the end of the relocation RelocInv and StringInv   *)
(* hold, and leave behind a memory m in which every module and string can  *)
(* be read where its entry says, and which the extra space of a move is    *)
(* not part of.  With the information in it, m is what the code for the    *)
(* segments finds: BootInv, which is stated for any such memory, says what *)
(* becomes of it.                                                          *)
(***************************************************************************)
EXTENDS StartModule, RelocationProofs

P == INSTANCE BootProofs WITH pc <- step, i <- ph_index, Kernels <- {}

(* What the relocation has decided. *)
Settled ==
  /\ pc \in {"moved", "already", "unmoved"}
  /\ loaded \in Seq(LoadedModule) /\ loaded # <<>>
  /\ \A k \in Modules :
       /\ mods[k].mod_start \in Nat /\ mods[k].mod_end \in Nat /\ mods[k].string \in Nat
       /\ mods[k].mod_end <= MemTop
       /\ mods[k].mod_end = mods[k].mod_start + ModLen(loaded[k])
       /\ mods[k].string + loaded[k].slen <= MemTop
  /\ block \in Nat
  /\ pc = "moved" =>
       /\ block + ExtraSpace <= MemTop
       /\ \A k \in Modules : Extent(k) \cap (block .. block + ExtraSpace - 1) = {}

(* What it has left in memory. *)
Left(m) ==
  /\ m \in [Addr -> Addr]
  /\ \A k \in Modules : \A o \in 0 .. ModLen(loaded[k]) - 1 :
       m[mods[k].mod_start + o] = loaded[k].mod_start + o
  /\ \A k \in Modules : (pc = "moved" => StringClear(k)) =>
       \A o \in 0 .. loaded[k].slen - 1 : m[mods[k].string + o] = loaded[k].string + o

(* The same with the information. *)
Told(m) ==
  [a \in Addr |-> IF built /\ a \in InfoSpace THEN InfoByte(a - block) ELSE m[a]]

(* Nothing is known yet of the code. *)
Idle ==
  /\ header = 0 /\ ph_index = 0 /\ code = <<>> /\ eip = 1 /\ ~built
  /\ regs \in P!Registers

StartInv ==
  /\ file \in Files /\ FitsIn(file, loaded[1]) /\ built \in BOOLEAN
  /\ step = "relocate" => RelocInv /\ StringInv /\ Idle
  /\ step # "relocate" => Settled /\ kernel = KernelOf(mods[1])
  /\ step = "header" => Idle /\ Left(mem)
  /\ step \notin {"relocate", "header"} =>
       \E m, w : Left(m) /\ w = Told(m) /\ P!BootInv(w)
  /\ built => header # 0
  /\ header # 0 /\ step \notin {"relocate", "header", "check", "halted"} => built

-----------------------------------------------------------------------------
(* The end of the relocation. *)

LEMMA EndOfMove ==
  ASSUME RelocInv, StringInv, pc = "moved"
  PROVE  Settled /\ Left(mem)
<1>1. MovedModules = Modules
  BY DEF MovedModules
<1>2. /\ loaded \in Seq(LoadedModule) /\ loaded # <<>> /\ mem \in [Addr -> Addr]
      /\ block \in Nat
  BY DEF RelocInv, TypeOK, SearchTypeOK
<1>3. MemTop \in Nat /\ PhysMax \in Nat /\ PhysMax <= MemTop /\ ExtraSpace \in Nat
  BY LimitsAssumption
<1>4. block + size <= PhysMax
  BY BlockFound DEF IsFree
<1>5. ASSUME NEW k \in Modules
      PROVE  /\ mods[k].mod_start = block + slot[k]
             /\ mods[k].mod_end = block + slot[k] + ModLen(loaded[k])
             /\ mods[k].string = block + slot[k] + ModLen(loaded[k])
  <2>1. mods[k] = EntryAfter(k)
    BY <1>1 DEF RelocInv, PlaceInv
  <2> QED
    BY <2>1, MovedEntry
<1>6. ASSUME NEW k \in Modules
      PROVE  /\ mods[k].mod_start \in Nat /\ mods[k].mod_end \in Nat /\ mods[k].string \in Nat
             /\ mods[k].mod_end <= MemTop
             /\ mods[k].mod_end = mods[k].mod_start + ModLen(loaded[k])
             /\ mods[k].string + loaded[k].slen <= MemTop
             /\ Extent(k) \cap (block .. block + ExtraSpace - 1) = {}
             /\ block + ExtraSpace <= MemTop
  <2>1. PICK b \in Nat, s \in Nat, n \in Nat, l \in Nat, z \in Nat, t \in Nat, e \in Nat :
          /\ b = block /\ s = slot[k] /\ n = ModLen(loaded[k]) /\ l = loaded[k].slen
          /\ z = size /\ t = slot[k + 1] /\ e = ExtraSpace
          /\ s + n + l <= t /\ e <= s /\ t <= z
    BY <1>3, SlotRange
  <2>2. b + z <= MemTop
    BY <1>3, <1>4, <2>1
  <2>3. /\ mods[k].mod_start = b + s /\ mods[k].mod_end = b + s + n
        /\ mods[k].string = b + s + n
    BY <1>5, <2>1
  <2>4. Extent(k) = (b + s .. b + s + n - 1) \cup (b + s + n .. b + s + n + l - 1)
    BY <2>1, <2>3 DEF Extent
  <2>5. Extent(k) \cap (b .. b + e - 1) = {}
    BY <2>1, <2>4
  <2> QED
    BY <1>3, <2>1, <2>2, <2>3, <2>5
<1>7. Settled
  <2>1. 1 \in Modules
    BY <1>2, LoadFacts DEF Modules
  <2> QED
    BY <1>2, <1>6, <2>1 DEF Settled
<1>8. ASSUME NEW k \in Modules
      PROVE  \A o \in 0 .. ModLen(loaded[k]) - 1 : mem[mods[k].mod_start + o] = loaded[k].mod_start + o
  BY <1>1, <1>5 DEF RelocInv, PlaceInv, SameBytes
<1>9. ASSUME NEW k \in Modules, StringClear(k)
      PROVE  \A o \in 0 .. loaded[k].slen - 1 : mem[mods[k].string + o] = loaded[k].string + o
  BY <1>1, <1>5, <1>9 DEF StringInv, SameBytes
<1> QED
  BY <1>2, <1>7, <1>8, <1>9 DEF Left

(* The modules are where the loader had put them. *)
LEMMA EndWithoutMove ==
  ASSUME RelocInv, pc \in {"already", "unmoved"}
  PROVE  Settled /\ Left(mem)
<1>1. MovedModules = {}
  BY DEF MovedModules
<1>2. /\ loaded \in Seq(LoadedModule) /\ loaded # <<>> /\ mem \in [Addr -> Addr]
      /\ block \in Nat
  BY DEF RelocInv, TypeOK, SearchTypeOK
<1>3. \A a \in Addr : mem[a] = a
  BY DEF RelocInv, MemInv
<1>4. ASSUME NEW k \in Modules
      PROVE  /\ mods[k].mod_start = loaded[k].mod_start /\ mods[k].mod_end = loaded[k].mod_end
             /\ mods[k].string = loaded[k].string
  <2>1. mods[k] = EntryBefore(k)
    BY <1>1 DEF RelocInv, PlaceInv
  <2> QED
    BY <2>1 DEF EntryBefore
<1>5. ASSUME NEW k \in Modules
      PROVE  /\ mods[k].mod_start \in Nat /\ mods[k].mod_end \in Nat /\ mods[k].string \in Nat
             /\ mods[k].mod_end <= MemTop
             /\ mods[k].mod_end = mods[k].mod_start + ModLen(loaded[k])
             /\ mods[k].string + loaded[k].slen <= MemTop
             /\ \A o \in 0 .. ModLen(loaded[k]) - 1 : mem[mods[k].mod_start + o] = loaded[k].mod_start + o
             /\ \A o \in 0 .. loaded[k].slen - 1 : mem[mods[k].string + o] = loaded[k].string + o
  <2>1. PICK s \in Nat, e \in Nat, c \in Nat, l \in Nat :
          /\ s = loaded[k].mod_start /\ e = loaded[k].mod_end
          /\ c = loaded[k].string /\ l = loaded[k].slen
          /\ s <= e /\ e <= MemTop /\ c + l <= MemTop
    BY <1>2, LoadFacts
  <2>2. ModLen(loaded[k]) = e - s
    BY <2>1 DEF ModLen
  <2>3. MemTop \in Nat
    BY LimitsAssumption
  <2>4. /\ \A o \in 0 .. e - s - 1 : mem[s + o] = s + o
        /\ \A o \in 0 .. l - 1 : mem[c + o] = c + o
    BY <1>3, <2>1, <2>3 DEF Addr
  <2> QED
    BY <1>4, <2>1, <2>2, <2>3, <2>4
<1>6. Settled
  BY <1>2, <1>5 DEF Settled
<1> QED
  BY <1>2, <1>5, <1>6 DEF Left

-----------------------------------------------------------------------------
(* The first module is one that BootProofs knows of. *)

LEMMA BootAssumptionHolds == P!BootAssumption
BY StartAssumption, LimitsAssumption
DEF P!BootAssumption, Addr, P!Addr, P!ELFCLASS32, P!ELFCLASS64, B!ELFCLASS32, B!ELFCLASS64

LEMMA SameAddr == P!Addr = Addr
BY DEF P!Addr, Addr

LEMMA FileFacts ==
  ASSUME file \in Files, FitsIn(file, loaded[1])
  PROVE  /\ file.phs \in Seq(P!ProgramHeader)
         /\ file.headers \subseteq 0 .. ModLen(loaded[1])
         /\ CodeAddr + 24 * Len(file.phs) + 12 <= MemTop
         /\ \A n \in DOMAIN file.phs : file.phs[n].p_type = P!PT_LOAD =>
              /\ file.phs[n].p_paddr + file.phs[n].p_memsz <= MemTop
              /\ file.phs[n].p_offset + file.phs[n].p_filesz <= ModLen(loaded[1])
<1>1. B!ProgramHeader = P!ProgramHeader
  BY DEF B!ProgramHeader, P!ProgramHeader
<1>2. B!PT_LOAD = P!PT_LOAD
  BY DEF B!PT_LOAD, P!PT_LOAD
<1> QED
  BY <1>1, <1>2, StartAssumption DEF FitsIn

LEMMA KernelFacts ==
  ASSUME Settled, file \in Files, FitsIn(file, loaded[1]), kernel = KernelOf(mods[1])
  PROVE  /\ 1 \in Modules
         /\ kernel.mod_start = mods[1].mod_start /\ kernel.mod_end = mods[1].mod_end
         /\ kernel.phs = file.phs
         /\ P!IsKernel(kernel) /\ P!LoaderSpace(kernel) \subseteq P!Addr
<1>1. 1 \in Modules
  BY LoadFacts DEF Settled, Modules
<1>2. /\ kernel.mod_start = mods[1].mod_start /\ kernel.mod_end = mods[1].mod_end
      /\ kernel.phs = file.phs /\ kernel.e_entry = 3
      /\ kernel.magics = { [at |-> mods[1].mod_start + o, sum |-> 0] : o \in file.headers }
  BY DEF KernelOf
<1>3. PICK s \in Nat, e \in Nat, n \in Nat, t \in Nat :
        /\ s = mods[1].mod_start /\ e = mods[1].mod_end /\ n = ModLen(loaded[1])
        /\ e = s + n /\ e <= t /\ t = MemTop
  BY <1>1, LimitsAssumption, LoadFacts DEF Settled
<1>4. kernel.magics \subseteq [at: s .. t, sum: Nat]
  <2>1. file.headers \subseteq 0 .. n
    BY <1>3, FileFacts
  <2>2. \A o \in 0 .. n : s + o \in s .. t
    BY <1>3
  <2>3. \A o \in file.headers : [at |-> s + o, sum |-> 0] \in [at: s .. t, sum: Nat]
    BY <2>1, <2>2
  <2> QED
    BY <1>2, <1>3, <2>3
<1>5. ASSUME NEW x \in DOMAIN kernel.phs, kernel.phs[x].p_type = P!PT_LOAD
      PROVE  /\ kernel.phs[x].p_paddr + kernel.phs[x].p_memsz <= MemTop
             /\ kernel.mod_start + kernel.phs[x].p_offset + kernel.phs[x].p_filesz <= kernel.mod_end
  <2>1. /\ kernel.phs[x].p_paddr + kernel.phs[x].p_memsz <= MemTop
        /\ kernel.phs[x].p_offset + kernel.phs[x].p_filesz <= n
    BY <1>2, <1>3, <1>5, FileFacts
  <2>2. kernel.phs[x].p_offset \in Nat /\ kernel.phs[x].p_filesz \in Nat
    <3>1. kernel.phs[x] \in P!ProgramHeader
      BY <1>2, FileFacts
    <3> QED
      BY <3>1 DEF P!ProgramHeader
  <2> QED
    BY <1>2, <1>3, <2>1, <2>2
<1>6. P!IsKernel(kernel)
  BY <1>2, <1>3, <1>4, <1>5, FileFacts DEF P!IsKernel
<1>7. P!LoaderSpace(kernel) \subseteq P!Addr
  <2>1. PICK c \in Nat, l \in Nat, t1 \in Nat : c = CodeAddr /\ l = Len(kernel.phs) /\ t1 = MemTop
    <3>1. Len(kernel.phs) \in Nat
      <4> DEFINE S == P!ProgramHeader
      <4>1. kernel.phs \in Seq(S)
        BY <1>2, FileFacts
      <4> HIDE DEF S
      <4> QED
        BY <4>1
    <3>2. MemTop \in Nat /\ CodeAddr \in Nat
      BY StartAssumption, LimitsAssumption DEF Addr
    <3> QED
      BY <3>1, <3>2
  <2>2. c + 24 * l + 12 <= t1
    BY <1>2, <2>1, FileFacts
  <2>3. c .. c + 24 * l + 11 \subseteq 0 .. t1 - 1
    BY <2>2
  <2> QED
    BY <2>1, <2>3 DEF P!LoaderSpace, P!Addr
<1> QED
  BY <1>1, <1>2, <1>6, <1>7

-----------------------------------------------------------------------------
(* The steps. *)

(* Boot's steps are those that BootProofs is about. *)
LEMMA StepIsStep ==
  ASSUME B!Step
  PROVE  P!Step
<1>0. B!FindHeader => P!FindHeader
  <2>1. \A S : B!Min(S) = P!Min(S)
    BY DEF B!Min, P!Min
  <2> QED
    BY <2>1
    DEF B!FindHeader, P!FindHeader, B!HeaderFind, P!HeaderFind, B!HeaderSize, P!HeaderSize
<1> USE DEF B!HeaderSize, P!HeaderSize, B!ELFCLASS32, P!ELFCLASS32, B!ELFCLASS64, P!ELFCLASS64,
    B!ET_EXEC, P!ET_EXEC, B!EM_386, P!EM_386, B!EM_X86_64, P!EM_X86_64, B!PT_LOAD, P!PT_LOAD,
    B!MBI_MAGIC, P!MBI_MAGIC, B!MBI2_MAGIC, P!MBI2_MAGIC
<1>1. CASE B!FindHeader
  BY <1>0, <1>1 DEF P!Step
<1>2. CASE B!CheckElf
  BY <1>2 DEF B!CheckElf, P!CheckElf, B!ElfIsCorrect, P!ElfIsCorrect, P!Step
<1>3. CASE B!SkipSegment
  BY <1>3 DEF B!SkipSegment, P!SkipSegment, P!Step
<1>4. \A s : B!CodeSize(s) = P!CodeSize(s)
  BY DEF B!CodeSize, P!CodeSize, B!InstructionSize, P!InstructionSize
<1>5. \A s : B!Generate(s) => P!Generate(s)
  BY <1>4 DEF B!Generate, P!Generate, B!Addr, P!Addr, B!CodeByte, P!CodeByte
<1>6. /\ \A r, x : B!GenMov(r, x) = P!GenMov(r, x)
      /\ B!JmpEdx = P!JmpEdx /\ B!RepMovsb = P!RepMovsb /\ B!RepStosb = P!RepStosb
  BY DEF B!GenMov, P!GenMov, B!JmpEdx, P!JmpEdx, B!RepMovsb, P!RepMovsb, B!RepStosb, P!RepStosb
<1>7. CASE B!GenerateSegment
  BY <1>5, <1>6, <1>7 DEF B!GenerateSegment, P!GenerateSegment, B!ElfSegment, P!ElfSegment, P!Step
<1>8. CASE B!JumpToCode
  BY <1>5, <1>6, <1>8 DEF B!JumpToCode, P!JumpToCode, B!RegsForCode, P!RegsForCode, P!Step
<1>9. \A n : B!BytesOf(n) = P!BytesOf(n)
  BY <1>4 DEF B!BytesOf, P!BytesOf, B!InstructionSize, P!InstructionSize
<1>10. \A n : B!Intact(n) <=> P!Intact(n)
  BY <1>9 DEF B!Intact, P!Intact, B!CodeByte, P!CodeByte
<1>11. \A op : B!Fetched(op) <=> P!Fetched(op)
  BY <1>10 DEF B!Fetched, P!Fetched
<1>12. \A x : B!GoOnAfterWriting(x) <=> P!GoOnAfterWriting(x)
  BY <1>9 DEF B!GoOnAfterWriting, P!GoOnAfterWriting
<1>13. CASE B!ExecMov
  BY <1>11, <1>13 DEF B!ExecMov, P!ExecMov, P!Step
<1>14. CASE B!ExecRepMovsb
  BY <1>11, <1>12, <1>14 DEF B!ExecRepMovsb, P!ExecRepMovsb, B!Addr, P!Addr, P!Step
<1>15. CASE B!ExecRepStosb
  BY <1>11, <1>12, <1>15
  DEF B!ExecRepStosb, P!ExecRepStosb, B!FilledWith, P!FilledWith, B!Zero, P!Zero, B!Addr, P!Addr, P!Step
<1>16. CASE B!ExecJmp
  BY <1>11, <1>16 DEF B!ExecJmp, P!ExecJmp, P!Step
<1>17. CASE B!FetchOther
  BY <1>10, <1>17 DEF B!FetchOther, P!FetchOther, P!Step
<1> QED
  BY <1>1, <1>2, <1>3, <1>7, <1>8, <1>13, <1>14, <1>15, <1>16, <1>17 DEF B!Step

(* What they leave alone. *)
LEMMA StepFrame ==
  ASSUME B!Step
  PROVE  /\ kernel' = kernel
         /\ step # "header" => header' = header
         /\ step \in {"header", "check", "generate", "run"}
         /\ step' \in {"check", "generate", "run", "kernel", "halted", "astray"}
         /\ step = "header" => step' = "check"
         /\ step = "check" => step' \in {"generate", "halted"}
<1> USE DEF B!Fetched, B!GoOnAfterWriting, B!Generate
<1>1. CASE B!FindHeader
  BY <1>1 DEF B!FindHeader
<1>2. CASE B!CheckElf
  BY <1>2 DEF B!CheckElf
<1>3. CASE B!SkipSegment
  BY <1>3 DEF B!SkipSegment
<1>4. CASE B!GenerateSegment
  BY <1>4 DEF B!GenerateSegment
<1>5. CASE B!JumpToCode
  BY <1>5 DEF B!JumpToCode
<1>6. CASE B!ExecMov
  BY <1>6 DEF B!ExecMov
<1>7. CASE B!ExecRepMovsb
  BY <1>7 DEF B!ExecRepMovsb
<1>8. CASE B!ExecRepStosb
  BY <1>8 DEF B!ExecRepStosb
<1>9. CASE B!ExecJmp
  BY <1>9 DEF B!ExecJmp
<1>10. CASE B!FetchOther
  BY <1>10 DEF B!FetchOther
<1> QED
  BY <1>1, <1>2, <1>3, <1>4, <1>5, <1>6, <1>7, <1>8, <1>9, <1>10 DEF B!Step

LEMMA RelocateInv ==
  ASSUME StartInv, Relocate
  PROVE  StartInv'
<1>1. step = "relocate" /\ Step /\ UNCHANGED <<bootVars, file, built>>
  BY DEF Relocate
<1>2. step' = "relocate" /\ header' = header /\ built' = built /\ file' = file
  BY <1>1 DEF bootVars
<1>3. RelocInv' /\ StringInv'
  <2>1. RelocInv /\ StringInv /\ [Next]_vars
    BY <1>1 DEF StartInv, Next
  <2> QED
    BY <2>1, StepInv, StringInvStep
<1>4. Idle'
  BY <1>1 DEF StartInv, Idle, bootVars
<1>5. loaded' = loaded
  BY <1>1 DEF Step, SizeModule, SearchForAll, Search, localVars, Found, NotFound, CheckPasses,
              CheckSeemsRelocated, CheckMightOverlap, CheckDone, CopyModule, CopyDone,
              RetryFound, RetryNotFound
<1>6. file' \in Files /\ FitsIn(file, loaded[1])'
  BY <1>2, <1>5 DEF StartInv, FitsIn
<1> QED
  BY <1>2, <1>3, <1>4, <1>6 DEF StartInv, Idle

LEMMA SettledStays ==
  ASSUME UNCHANGED <<block, size, mods, pc, loaded>>
  PROVE  /\ Settled' = Settled
         /\ \A m : Left(m)' = Left(m)
<1>1. \A k : Extent(k)' = Extent(k) /\ StringClear(k)' = StringClear(k)
  BY DEF Extent, StringClear
<1>2. Modules' = Modules
  BY DEF Modules
<1>3. Settled' = Settled
  BY <1>1, <1>2 DEF Settled
<1>4. \A m : Left(m)' = Left(m)
  BY <1>1, <1>2 DEF Left
<1> QED
  BY <1>3, <1>4

LEMMA PopModuleInv ==
  ASSUME StartInv, PopModule
  PROVE  StartInv'
<1>1. /\ step = "relocate" /\ pc \in {"moved", "already", "unmoved"}
      /\ kernel' = KernelOf(mods[1]) /\ step' = "header"
      /\ UNCHANGED <<block, size, mods, pc, loaded, mem>>
      /\ UNCHANGED <<file, built, header, ph_index, code, eip, regs>>
  BY DEF PopModule, Endings, vars, searchVars, localVars
<1>2. Settled /\ Left(mem)
  BY <1>1, EndOfMove, EndWithoutMove DEF StartInv
<1>3. Settled' /\ Left(mem)'
  BY <1>1, <1>2, SettledStays
<1>4. Idle'
  BY <1>1 DEF StartInv, Idle
<1>5. kernel' = KernelOf(mods[1])'
  BY <1>1 DEF KernelOf
<1>6. file' \in Files /\ FitsIn(file, loaded[1])'
  BY <1>1 DEF StartInv, FitsIn
<1> QED
  BY <1>1, <1>3, <1>4, <1>5, <1>6 DEF StartInv, Idle

LEMMA NotTold ==
  ASSUME NEW m, Left(m), ~built
  PROVE  Told(m) = m
BY DEF Left, Told

LEMMA ToldStays ==
  ASSUME UNCHANGED <<block, built>>, built => UNCHANGED header, NEW m
  PROVE  Told(m)' = Told(m)
<1>1. built => InfoSpace' = InfoSpace
  BY DEF InfoSpace
<1>2. CASE built
  BY <1>1, <1>2 DEF Told, InfoByte
<1>3. CASE ~built
  BY <1>3 DEF Told
<1> QED
  BY <1>2, <1>3

LEMMA ConvertInv ==
  ASSUME StartInv, Convert
  PROVE  StartInv'
<1>1. /\ step = "check" /\ header # 0 /\ ~built /\ built' = TRUE
      /\ mem' = [a \in Addr |-> IF a \in InfoSpace THEN InfoByte(a - block) ELSE mem[a]]
      /\ UNCHANGED <<block, size, mods, pc, loaded, file>>
      /\ UNCHANGED <<step, kernel, header, ph_index, code, eip, regs>>
  BY DEF Convert, searchVars, bootVars
<1>2. PICK m, w : Left(m) /\ w = Told(m) /\ P!BootInv(w)
  BY <1>1 DEF StartInv
<1>3. w = m
  BY <1>1, <1>2, NotTold
<1>4. \A a \in Addr : mem[a] = m[a]
  BY <1>1, <1>2, <1>3, P!MemoryUnchanged, BootAssumptionHolds, SameAddr
<1>5. PICK v : v = [a \in Addr |-> IF a \in InfoSpace THEN InfoByte(a - block) ELSE m[a]]
  OBVIOUS
<1>6. v = Told(m)'
  BY <1>1, <1>5 DEF Told, InfoSpace, InfoByte
<1>7. \A a \in P!Addr : mem'[a] = v[a]
  BY <1>1, <1>4, <1>5, SameAddr
<1>8. P!BootInv(v)'
  BY <1>1, <1>2, <1>7, P!MemoryPrepared, BootAssumptionHolds
<1>9. Settled' /\ Left(m)'
  BY <1>1, <1>2, SettledStays DEF StartInv
<1>10. kernel' = KernelOf(mods[1])'
  BY <1>1 DEF StartInv, KernelOf
<1>11. file' \in Files /\ FitsIn(file, loaded[1])'
  BY <1>1 DEF StartInv, FitsIn
<1> QED
  BY <1>1, <1>6, <1>8, <1>9, <1>10, <1>11 DEF StartInv

LEMMA StartStepInv ==
  ASSUME StartInv, Start
  PROVE  StartInv'
<1>1. /\ step = "check" => header = 0 \/ built
      /\ B!Step
      /\ UNCHANGED <<block, size, mods, pc, loaded, file, built>>
  BY DEF Start, searchVars
<1>2. /\ kernel' = kernel
      /\ step # "header" => header' = header
      /\ step \in {"header", "check", "generate", "run"}
      /\ step' \in {"check", "generate", "run", "kernel", "halted", "astray"}
      /\ step = "header" => step' = "check"
      /\ step = "check" => step' \in {"generate", "halted"}
  BY <1>1, StepFrame
<1>3. PICK m, w : Left(m) /\ w = Told(m) /\ P!BootInv(w)
  <2>1. CASE step = "header"
    <3>1. PICK m : m = mem
      OBVIOUS
    <3>2. Left(m) /\ Told(m) = m
      BY <2>1, <3>1, NotTold DEF StartInv, Idle
    <3>3. P!IsKernel(kernel) /\ P!LoaderSpace(kernel) \subseteq P!Addr
      BY <2>1, KernelFacts DEF StartInv
    <3>4. /\ ph_index = 0 /\ code = <<>> /\ eip = 1 /\ regs \in P!Registers
          /\ \A a \in P!Addr : mem[a] = m[a]
      BY <2>1, <3>1 DEF StartInv, Idle
    <3>5. P!BootInv(m)
      BY <2>1, <3>3, <3>4, P!BootBegins, BootAssumptionHolds
    <3> QED
      BY <3>2, <3>5
  <2>2. CASE step # "header"
    BY <1>2, <2>2 DEF StartInv
  <2> QED
    BY <2>1, <2>2
<1>4. P!BootInv(w)'
  <2>1. [P!Next]_P!vars
    BY <1>1, StepIsStep DEF P!Next
  <2> QED
    BY <1>3, <2>1, P!BootStep, BootAssumptionHolds
<1>5. Told(m)' = w
  <2>1. built => UNCHANGED header
    BY <1>2 DEF StartInv, Idle
  <2> QED
    BY <1>1, <1>3, <2>1, ToldStays
<1>6. Settled' /\ Left(m)'
  BY <1>1, <1>2, <1>3, SettledStays DEF StartInv
<1>7. kernel' = KernelOf(mods[1])'
  BY <1>1, <1>2 DEF StartInv, KernelOf
<1>8. file' \in Files /\ FitsIn(file, loaded[1])'
  BY <1>1 DEF StartInv, FitsIn
<1>9. /\ built' => header' # 0
      /\ header' # 0 /\ step' \notin {"relocate", "header", "check", "halted"} => built'
  BY <1>1, <1>2 DEF StartInv, Idle
<1>10. built' \in BOOLEAN
  BY <1>1 DEF StartInv
<1>11. (\E mm, ww : Left(mm) /\ ww = Told(mm) /\ P!BootInv(ww))'
  BY <1>4, <1>5, <1>6
<1> QED
  BY <1>2, <1>6, <1>7, <1>8, <1>9, <1>10, <1>11 DEF StartInv

LEMMA StartStutterInv ==
  ASSUME StartInv, UNCHANGED startVars
  PROVE  StartInv'
<1>1. /\ UNCHANGED vars
      /\ UNCHANGED <<block, size, mods, pc, loaded, mem, file, built>>
      /\ UNCHANGED <<step, kernel, header, ph_index, code, eip, regs>>
  BY DEF startVars, vars, searchVars, localVars, bootVars
<1>2. step = "relocate" => RelocInv' /\ StringInv'
  BY <1>1, StepInv, StringInvStep DEF StartInv
<1>3. Idle' = Idle
  BY <1>1 DEF Idle
<1>4. Settled' = Settled /\ \A m : Left(m)' = Left(m)
  BY <1>1, SettledStays
<1>5. Left(mem)' = Left(mem)
  BY <1>1, <1>4
<1>6. step \notin {"relocate", "header"} => (\E m, w : Left(m) /\ w = Told(m) /\ P!BootInv(w))'
  <2> SUFFICES ASSUME step \notin {"relocate", "header"}
               PROVE  (\E m, w : Left(m) /\ w = Told(m) /\ P!BootInv(w))'
    OBVIOUS
  <2>1. PICK m, w : Left(m) /\ w = Told(m) /\ P!BootInv(w)
    BY DEF StartInv
  <2>2. UNCHANGED P!vars
    BY <1>1 DEF P!vars
  <2>3. P!BootInv(w)'
    BY <2>1, <2>2, P!StayInv, BootAssumptionHolds
  <2>4. Told(m)' = w
    BY <1>1, <2>1, ToldStays
  <2> QED
    BY <1>4, <2>1, <2>3, <2>4
<1>7. kernel' = KernelOf(mods[1])' <=> kernel = KernelOf(mods[1])
  BY <1>1 DEF KernelOf
<1>8. file' \in Files /\ FitsIn(file, loaded[1])'
  BY <1>1 DEF StartInv, FitsIn
<1> QED
  BY <1>1, <1>2, <1>3, <1>4, <1>5, <1>6, <1>7, <1>8 DEF StartInv

LEMMA StartInvInit == StartInit => StartInv
<1> SUFFICES ASSUME StartInit PROVE StartInv
  OBVIOUS
<1>1. Init /\ step = "relocate" /\ built = FALSE /\ header = 0
  BY DEF StartInit
<1>2. RelocInv
  BY <1>1, InitInv
<1>3. StringInv
  BY <1>1 DEF Init, StringInv, MovedModules
<1>4. Idle
  BY DEF StartInit, Idle, P!Registers
<1> QED
  BY <1>1, <1>2, <1>3, <1>4 DEF StartInit, StartInv

(* The inductive invariant. *)
THEOREM StartInvHolds == StartSpec => []StartInv
<1>1. StartInv /\ [StartNext]_startVars => StartInv'
  <2> SUFFICES ASSUME StartInv, [StartNext]_startVars PROVE StartInv'
    OBVIOUS
  <2> QED
    BY RelocateInv, PopModuleInv, ConvertInv, StartStepInv, StartStutterInv
    DEF StartNext, StartEnded
<1> QED
  BY <1>1, StartInvInit, PTL DEF StartSpec

-----------------------------------------------------------------------------
(* The kernel is entered. *)

LEMMA SameNames ==
  /\ B!Segments = P!Segments
  /\ \A n : B!Target(n) = P!Target(n)
  /\ B!CodeSpace = P!CodeSpace
  /\ B!Zero = P!Zero
<1>1. \A s : B!CodeSize(s) = P!CodeSize(s)
  BY DEF B!CodeSize, P!CodeSize, B!InstructionSize, P!InstructionSize
<1>2. B!CodeSpace = P!CodeSpace
  BY <1>1 DEF B!CodeSpace, P!CodeSpace
<1>3. B!Segments = P!Segments
  BY DEF B!Segments, P!Segments, B!PT_LOAD, P!PT_LOAD
<1> QED
  BY <1>2, <1>3 DEF B!Target, P!Target, B!Zero, P!Zero

(* What is in use is not overwritten by the code or by a segment. *)
LEMMA HeldStays ==
  ASSUME SegmentsApart, NEW w, P!BootInv(w), step = "kernel",
         NEW a \in Addr, a \in Held \cup InfoSpace
  PROVE  mem[a] = w[a]
<1>1. a \notin P!CodeSpace
  BY SameNames DEF SegmentsApart
<1>2. \A n \in P!Segments : a \notin P!Target(n)
  BY SameNames DEF SegmentsApart
<1>3. a \notin P!Targets
  BY <1>2 DEF P!Targets
<1>4. a \in P!Addr
  BY SameAddr
<1> QED
  BY <1>1, <1>3, <1>4 DEF P!BootInv, P!WrittenInv

(* The information is not put where something is in use. *)
LEMMA HeldIsNotInfo ==
  ASSUME Settled, pc = "moved" \/ header = 0, NEW a \in Held
  PROVE  a \notin InfoSpace
<1>1. PICK k \in Modules : a \in Extent(k)
  BY DEF Held
<1>2. CASE header = 0
  BY <1>2 DEF InfoSpace
<1>3. CASE pc = "moved"
  BY <1>1, <1>3 DEF Settled, InfoSpace
<1> QED
  BY <1>2, <1>3

LEMMA HeldIsMemory ==
  ASSUME Settled, NEW k \in Modules
  PROVE  /\ \A o \in 0 .. ModLen(loaded[k]) - 1 :
              mods[k].mod_start + o \in Addr /\ mods[k].mod_start + o \in Held
         /\ \A o \in 0 .. loaded[k].slen - 1 :
              mods[k].string + o \in Addr /\ mods[k].string + o \in Held
<1>1. PICK s \in Nat, e \in Nat, n \in Nat, c \in Nat, l \in Nat, t \in Nat :
        /\ s = mods[k].mod_start /\ e = mods[k].mod_end /\ n = ModLen(loaded[k])
        /\ c = mods[k].string /\ l = loaded[k].slen /\ t = MemTop
        /\ e = s + n /\ e <= t /\ c + l <= t
  BY LoadFacts, LimitsAssumption DEF Settled
<1>2. Extent(k) = (s .. e - 1) \cup (c .. c + l - 1)
  BY <1>1 DEF Extent
<1>3. Extent(k) \subseteq Held
  BY DEF Held
<1>4. Addr = 0 .. t - 1
  BY <1>1 DEF Addr
<1>5. \A o \in 0 .. n - 1 : s + o \in Addr /\ s + o \in Extent(k)
  <2> SUFFICES ASSUME NEW o \in 0 .. n - 1
               PROVE  s + o \in Addr /\ s + o \in Extent(k)
    OBVIOUS
  <2>1. e = s + n /\ e <= t
    BY <1>1
  <2>2. s + o \in s .. e - 1 /\ s + o \in 0 .. t - 1
    BY <2>1
  <2> QED
    BY <1>2, <1>4, <2>2
<1>6. \A o \in 0 .. l - 1 : c + o \in Addr /\ c + o \in Extent(k)
  <2> SUFFICES ASSUME NEW o \in 0 .. l - 1
               PROVE  c + o \in Addr /\ c + o \in Extent(k)
    OBVIOUS
  <2>1. c + l <= t
    BY <1>1
  <2>2. c + o \in c .. c + l - 1 /\ c + o \in 0 .. t - 1
    BY <2>1
  <2> QED
    BY <1>2, <1>4, <2>2
<1> QED
  BY <1>1, <1>3, <1>5, <1>6

(* The bytes of a module and of its string are there. *)
LEMMA ModuleIsThere ==
  ASSUME Settled, SegmentsApart, step = "kernel", pc = "moved" \/ header = 0,
         NEW m, Left(m), NEW w, w = Told(m), P!BootInv(w), NEW k \in Modules
  PROVE  /\ \A o \in 0 .. ModLen(loaded[k]) - 1 :
              mem[mods[k].mod_start + o] = loaded[k].mod_start + o
         /\ (pc = "moved" => StringClear(k)) =>
              \A o \in 0 .. loaded[k].slen - 1 : mem[mods[k].string + o] = loaded[k].string + o
<1>1. \A a \in Addr : a \in Held => mem[a] = m[a]
  BY HeldStays, HeldIsNotInfo DEF Told
<1>2. /\ \A o \in 0 .. ModLen(loaded[k]) - 1 :
           mem[mods[k].mod_start + o] = m[mods[k].mod_start + o]
      /\ \A o \in 0 .. loaded[k].slen - 1 : mem[mods[k].string + o] = m[mods[k].string + o]
  BY <1>1, HeldIsMemory
<1> QED
  BY <1>2 DEF Left

LEMMA SegmentIsHeld ==
  ASSUME Settled, file \in Files, FitsIn(file, loaded[1]), kernel = KernelOf(mods[1]),
         P!StateInv, NEW n \in P!Segments
  PROVE  /\ 1 \in Modules
         /\ kernel.phs[n].p_offset \in Nat /\ kernel.phs[n].p_filesz \in Nat
         /\ kernel.phs[n].p_offset + kernel.phs[n].p_filesz <= ModLen(loaded[1])
         /\ P!FileAddr(n) = mods[1].mod_start + kernel.phs[n].p_offset
         /\ P!InFile(n) \subseteq Held
<1>1. 1 \in Modules /\ kernel.mod_start = mods[1].mod_start /\ kernel.phs = file.phs
  BY KernelFacts
<1>2. P!FileAddr(n) = mods[1].mod_start + kernel.phs[n].p_offset
  BY <1>1 DEF P!FileAddr
<1>3. kernel.phs[n].p_offset + kernel.phs[n].p_filesz <= ModLen(loaded[1])
  BY <1>1, FileFacts DEF P!Segments
<1>4. PICK s \in Nat, o \in Nat, z \in Nat, l \in Nat :
        /\ s = mods[1].mod_start /\ o = kernel.phs[n].p_offset
        /\ z = kernel.phs[n].p_filesz /\ l = ModLen(loaded[1])
  BY <1>1, P!SegmentFacts, BootAssumptionHolds, LoadFacts DEF Settled
<1>5. \A x \in 0 .. l - 1 : s + x \in Held
  BY <1>1, <1>4, HeldIsMemory
<1>6. P!InFile(n) = s + o .. s + o + z - 1
  BY <1>2, <1>4 DEF P!InFile
<1>7. \A a \in s + o .. s + o + z - 1 : a - s \in 0 .. l - 1 /\ a = s + (a - s)
  BY <1>3, <1>4
<1>8. P!InFile(n) \subseteq Held
  BY <1>5, <1>6, <1>7
<1> QED
  BY <1>1, <1>2, <1>3, <1>4, <1>8

(* Segments that are put on nothing in use are in a safe order. *)
LEMMA InOrder ==
  ASSUME SegmentsApart, NEW w, P!StateInv,
         \A n \in P!Segments : P!InFile(n) \subseteq Held
  PROVE  P!Orderly
<1>1. /\ P!CodeSpace \cap Held = {}
      /\ \A n \in P!Segments : P!Target(n) \cap Held = {}
      /\ \A n, o \in P!Segments : n # o => P!Target(n) \cap P!Target(o) = {}
  BY SameNames DEF SegmentsApart
<1>2. \A n, o \in P!Segments : P!Target(n) \cap P!InFile(o) = {}
  BY <1>1
<1>3. \A n, o \in P!Segments : n < o => n # o
  BY P!SegmentIndex, BootAssumptionHolds
<1>4. P!SafeOrder
  BY <1>1, <1>2, <1>3 DEF P!SafeOrder
<1> QED
  BY <1>1, <1>4 DEF P!Orderly

(* The bytes of a segment are there, with its zeros. *)
LEMMA SegmentIsThere ==
  ASSUME StartInv, SegmentsApart, step = "kernel", pc = "moved" \/ header = 0,
         NEW m, Left(m), NEW w, w = Told(m), P!BootInv(w), NEW n \in P!Segments
  PROVE  /\ SameBytes(kernel.phs[n].p_paddr, loaded[1].mod_start + kernel.phs[n].p_offset,
                      kernel.phs[n].p_filesz)
         /\ \A o \in kernel.phs[n].p_filesz .. kernel.phs[n].p_memsz - 1 :
              mem[kernel.phs[n].p_paddr + o] = P!Zero
<1>1. /\ Settled /\ file \in Files /\ FitsIn(file, loaded[1]) /\ kernel = KernelOf(mods[1])
      /\ P!StateInv
  BY DEF StartInv, P!BootInv
<1>2. P!Orderly
  BY <1>1, SegmentIsHeld, InOrder
<1>3. P!Arrived(w, n)
  <2>1. P!MemAt(w, Len(kernel.phs), 2)
    BY DEF P!BootInv, P!RunInv, P!RunAt
  <2>2. n <= Len(kernel.phs)
    BY <1>1, P!SegmentFacts, P!OffsetFacts, BootAssumptionHolds
  <2> QED
    BY <1>2, <2>1, <2>2 DEF P!MemAt
<1>4. PICK t \in Nat, z \in Nat, l \in Nat, x \in Nat, s \in Nat, b \in Nat, u \in Nat :
        /\ t = kernel.phs[n].p_paddr /\ z = kernel.phs[n].p_filesz
        /\ l = kernel.phs[n].p_memsz /\ x = kernel.phs[n].p_offset
        /\ s = mods[1].mod_start /\ b = loaded[1].mod_start /\ u = ModLen(loaded[1])
        /\ z <= l /\ x + z <= u
  BY <1>1, SegmentIsHeld, P!SegmentFacts, BootAssumptionHolds, LoadFacts DEF Settled
<1>5. P!Target(n) = t .. t + l - 1
  BY <1>4 DEF P!Target
<1>6. \A o \in 0 .. l - 1 :
        mem[t + o] = IF o < z THEN w[s + x + o] ELSE P!Zero
  <2> SUFFICES ASSUME NEW o \in 0 .. l - 1
               PROVE  mem[t + o] = IF o < z THEN w[s + x + o] ELSE P!Zero
    OBVIOUS
  <2>1. t + o \in P!Target(n) /\ (t + o) - t = o
    <3>1. t + o \in t .. t + l - 1 /\ (t + o) - t = o
      OBVIOUS
    <3> QED
      BY <1>5, <3>1
  <2>2. P!FileAddr(n) = s + x
    BY <1>1, <1>4, SegmentIsHeld
  <2> QED
    BY <1>3, <1>4, <2>1, <2>2 DEF P!Arrived
<1>7. \A o \in 0 .. z - 1 : w[s + x + o] = b + x + o
  <2> SUFFICES ASSUME NEW o \in 0 .. z - 1
               PROVE  w[s + x + o] = b + x + o
    OBVIOUS
  <2>1. x + o \in 0 .. u - 1 /\ s + x + o = s + (x + o) /\ b + x + o = b + (x + o)
    BY <1>4
  <2>2. 1 \in Modules
    BY <1>1, KernelFacts
  <2>3. m[s + (x + o)] = b + (x + o)
    BY <1>4, <2>1, <2>2 DEF Left
  <2>4. s + (x + o) \in Addr /\ s + (x + o) \in Held
    BY <1>1, <1>4, <2>1, <2>2, HeldIsMemory
  <2>5. w[s + (x + o)] = m[s + (x + o)]
    BY <1>1, <2>4, HeldIsNotInfo DEF Told
  <2> QED
    BY <2>1, <2>3, <2>5
<1>8. \A o \in 0 .. z - 1 : mem[t + o] = (b + x) + o
  BY <1>4, <1>6, <1>7
<1>9. \A o \in z .. l - 1 : mem[t + o] = P!Zero
  BY <1>4, <1>6
<1> QED
  BY <1>4, <1>8, <1>9 DEF SameBytes

(* Whatever the loader has left where, the kernel gets its segments as     *)
(* they are in its file, the other modules, the strings and the            *)
(* information, if no segment is put on any of them.                       *)
THEOREM HandoverIsIntactHolds == StartSpec => []HandoverIsIntact
<1>1. StartInv => HandoverIsIntact
  <2> SUFFICES ASSUME StartInv, step = "kernel", SegmentsApart, pc = "moved" \/ header = 0
               PROVE  /\ \A n \in B!Segments :
                          LET ph == kernel.phs[n] IN
                          /\ SameBytes(ph.p_paddr, loaded[1].mod_start + ph.p_offset, ph.p_filesz)
                          /\ \A o \in ph.p_filesz .. ph.p_memsz - 1 : mem[ph.p_paddr + o] = B!Zero
                      /\ \A k \in Modules \ {1} :
                          SameBytes(mods[k].mod_start, loaded[k].mod_start, ModLen(loaded[k]))
                      /\ \A k \in Modules : (pc = "moved" => StringClear(k)) =>
                          SameBytes(mods[k].string, loaded[k].string, loaded[k].slen)
                      /\ \A a \in InfoSpace : mem[a] = InfoByte(a - block)
                      /\ (regs.ebx = InfoAddr) = built
    BY DEF HandoverIsIntact
  <2>1. PICK m, w : Left(m) /\ w = Told(m) /\ P!BootInv(w)
    BY DEF StartInv
  <2>2. Settled /\ (built <=> header # 0)
    BY DEF StartInv
  <2>3. \A n \in B!Segments :
          LET ph == kernel.phs[n] IN
          /\ SameBytes(ph.p_paddr, loaded[1].mod_start + ph.p_offset, ph.p_filesz)
          /\ \A o \in ph.p_filesz .. ph.p_memsz - 1 : mem[ph.p_paddr + o] = B!Zero
    BY <2>1, SegmentIsThere, SameNames
  <2>4. /\ \A k \in Modules : SameBytes(mods[k].mod_start, loaded[k].mod_start, ModLen(loaded[k]))
        /\ \A k \in Modules : (pc = "moved" => StringClear(k)) =>
             SameBytes(mods[k].string, loaded[k].string, loaded[k].slen)
    BY <2>1, <2>2, ModuleIsThere DEF SameBytes
  <2>5. ASSUME NEW a \in InfoSpace
        PROVE  mem[a] = InfoByte(a - block)
    <3>1. header # 0 /\ built /\ pc = "moved"
      BY <2>2 DEF InfoSpace
    <3>2. a \in Addr
      <4>1. PICK b \in Nat, e \in Nat, t \in Nat :
              b = block /\ e = ExtraSpace /\ t = MemTop /\ b + e <= t
        BY <2>2, <3>1, LimitsAssumption, LoadFacts DEF Settled
      <4>2. a \in b .. b + e - 1
        BY <3>1, <4>1 DEF InfoSpace
      <4> QED
        BY <4>1, <4>2 DEF Addr
    <3>3. w[a] = InfoByte(a - block)
      BY <2>1, <3>1, <3>2 DEF Told
    <3> QED
      BY <2>1, <3>2, <3>3, HeldStays
  <2>6. (regs.ebx = InfoAddr) = built
    <3>1. regs.ebx = IF header # 0 THEN InfoAddr ELSE MbiAddr
      BY <2>1 DEF P!BootInv, P!RunInv, P!RunAt, P!RegsAt
    <3>2. InfoAddr # MbiAddr
      BY StartAssumption
    <3>3. CASE built
      BY <2>2, <3>1, <3>3
    <3>4. CASE ~built
      <4>1. regs.ebx # InfoAddr
        BY <2>2, <3>1, <3>2, <3>4
      <4>2. built = FALSE
        BY <3>4 DEF StartInv
      <4> QED
        BY <4>1, <4>2
    <3> QED
      BY <3>3, <3>4
  <2> QED
    BY <2>3, <2>4, <2>5, <2>6
<1> QED
  BY <1>1, StartInvHolds, PTL

=============================================================================
