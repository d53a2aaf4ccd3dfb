-------------------------------- MODULE Rsdp --------------------------------
(***************************************************************************)
(* acpi_get_rsdp of acpi.c: the search for the ACPI root pointer, which    *)
(* Mbi2Info calls.                                                         *)
(*                                                                         *)
(* Memory is seen in paragraphs of 16 bytes, at which the search looks: of *)
(* each it matters whether it begins with the signature, the sums of all   *)
(* of its bytes and of the first four, and what the table says that begins *)
(* there, if one does.                                                     *)
(***************************************************************************)
EXTENDS Integers, Sequences, SequencesExt

CONSTANTS
  ByteSize,   (* values of a byte: 256                                     *)
  Paragraphs, (* the paragraphs there may be                               *)
  Ranges,     (* where find is called: 0x40 .. 0x7F, 0xE000 .. 0xFFFF      *)
  End,        (* the last paragraph of the model's memory                  *)
  Null

Paragraph == [signature: BOOLEAN, sum: 0 .. ByteSize - 1, sum4: 0 .. ByteSize - 1,
              table: [rev: Nat, size: Nat]]

ASSUME RsdpAssumption ==
  /\ ByteSize \in Nat \ {0} /\ End \in Nat
  /\ Paragraphs \subseteq Paragraph
  /\ Ranges \in Seq([start: Nat, len: Nat]) \ {<<>>}
  /\ \A r \in DOMAIN Ranges : Ranges[r].start + Ranges[r].len <= End
  /\ Null \notin 0 .. End

VARIABLES
  memory,     (* never written                                             *)
  range,      (* the call of find at work                                  *)
  cur,        (* its cursor                                                *)
  ret,        (* the pointer found, or Null                                *)
  done        (* the search is over                                        *)

rsdpVars == <<memory, range, cur, ret, done>>

RsdpInit ==
  /\ memory \in [0 .. End -> Paragraphs]
  /\ range = 1
  /\ cur = Ranges[1].start
  /\ ret = Null
  /\ done = FALSE

(* Mutant: the sum of one paragraph. *)
MutChecksum16(p) == memory[p].sum

(* acpi_checksum of 20 bytes, which go into the next paragraph. *)
Checksum20(p) == (memory[p].sum + memory[p + 1].sum4) % ByteSize

(* check *)
Passes(p) == memory[p].signature /\ Checksum20(p) = 0

InRange == cur < Ranges[range].start + Ranges[range].len

Found ==
  /\ ~done /\ InRange /\ Passes(cur)
  /\ ret' = cur
  /\ done' = TRUE
  /\ UNCHANGED <<memory, range, cur>>

PassOver ==
  /\ ~done /\ InRange /\ ~Passes(cur)
  /\ cur' = cur + 1
  /\ UNCHANGED <<memory, range, ret, done>>

(* find has come to its end. *)
NextRange ==
  /\ ~done /\ ~InRange
  /\ IF range < Len(Ranges)
       THEN range' = range + 1 /\ cur' = Ranges[range'].start /\ UNCHANGED done
       ELSE done' = TRUE /\ UNCHANGED <<range, cur>>
  /\ UNCHANGED <<memory, ret>>

AcpiGetRsdp == Found \/ PassOver \/ NextRange

-----------------------------------------------------------------------------
(* Properties.                                                             *)

(* The addresses that are to be looked at, in order. *)
Looked ==
  FlattenSeq([r \in DOMAIN Ranges |->
                [k \in 1 .. Ranges[r].len |-> Ranges[r].start + k - 1]])

(* A table: the signature, and 20 bytes that add up to zero. *)
IsTable(p) ==
  /\ memory[p].signature
  /\ memory[p].sum + memory[p + 1].sum4 \in {0, ByteSize}

(* The first address of them with a table, or Null. *)
FirstTable ==
  LET n == SelectInSeq(Looked, IsTable) IN IF n = 0 THEN Null ELSE Looked[n]

(* The search returns the first address in its ranges with the signature   *)
(* and 20 bytes that add up to zero, also if it is the last one and the    *)
(* bytes are partly behind its range (acpi.c:28, 35), and a null pointer   *)
(* only if there is none.                                                  *)
RsdpIsFirst == done => ret = FirstTable

=============================================================================
