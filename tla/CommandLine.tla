----------------------------- MODULE CommandLine -----------------------------
(***************************************************************************)
(* parse_cmdline of bender.c with the string functions it is made of:      *)
(* strncpy, strtok_r and strcmp.  SerialDiscovery calls it.                *)
(*                                                                         *)
(* The buffer is a function from 0 on; pointers are indexes in it.  Only   *)
(* command lines that fit with their NUL are in the model: with others the *)
(* code reads behind the buffer.                                           *)
(***************************************************************************)
EXTENDS Integers, Sequences, FiniteSetsExt

CONSTANTS
  Letters,      (* characters other than NUL and the blank                 *)
  NUL, Blank,
  BufSize,      (* sizeof(cmdline_buf): 256                                *)
  Promisc, AcceptLegacy, PhysMax,   (* the options, sequences of letters   *)
  Cmdlines,     (* the command lines to parse                              *)
  Null          (* the null pointer                                        *)

Strings(n) == UNION { [1 .. k -> Letters \cup {Blank}] : k \in 0 .. n }

ASSUME CommandLineAssumption ==
  /\ BufSize \in Nat \ {0}
  /\ NUL # Blank /\ {NUL, Blank} \cap Letters = {}
  /\ {Promisc, AcceptLegacy, PhysMax} \subseteq Seq(Letters) \ {<<>>}
  /\ Cmdlines \subseteq Strings(BufSize - 1)
  /\ Null \notin 0 .. BufSize - 1

VARIABLES
  parsing,           (* where parse_cmdline is                                  *)
  cmdline,      (* its argument, never written                             *)
  buf,          (* cmdline_buf                                             *)
  last_ptr, token, i,                           (* its local variables     *)
  be_promisc, accept_legacy, phys_max_relocate  (* static variables        *)

options == <<be_promisc, accept_legacy, phys_max_relocate>>
parserVars == <<parsing, cmdline, buf, last_ptr, token, i, options>>

CommandLineInit ==
  /\ parsing = "copy"
  /\ cmdline \in Cmdlines
  /\ buf = [k \in 0 .. BufSize - 1 |-> NUL]
  /\ last_ptr = Null /\ token = Null /\ i = 0
  /\ be_promisc = FALSE /\ accept_legacy = FALSE
  /\ phys_max_relocate = 2048     \* MiB

-----------------------------------------------------------------------------
(* strncpy: padded with NULs, which also end the string. *)
Strncpy(src, n) == [k \in 0 .. n - 1 |-> IF k < Len(src) THEN src[k + 1] ELSE NUL]

CopyCmdline ==
  /\ parsing = "copy"
  /\ buf' = Strncpy(cmdline, BufSize)
  /\ last_ptr' = 0
  /\ parsing' = "next"
  /\ UNCHANGED <<cmdline, token, i, options>>

(* Mutant: does not pass over delimiters. *)
MutTokenStartHere(s) == s

(* Where strtok_r finds a token, or the NUL behind the last one. *)
TokenStart(s) == Min({ k \in s .. BufSize - 1 : buf[k] # Blank })

TokenEnd(s) == Min({ k \in s .. BufSize - 1 : buf[k] \in {Blank, NUL} })

HasToken == last_ptr # Null /\ buf[TokenStart(last_ptr)] # NUL

(* strtok_r returns NULL, and the loop ends. *)
NoToken ==
  /\ parsing = "next"
  /\ ~HasToken
  /\ token' = Null /\ last_ptr' = Null
  /\ parsing' = "done"
  /\ UNCHANGED <<cmdline, buf, i, options>>

(* strtok_r returns a token, which it has ended with a NUL. *)
NextToken ==
  /\ parsing = "next"
  /\ HasToken
  /\ token' = TokenStart(last_ptr)
  /\ LET end == TokenEnd(token') IN
       IF buf[end] = NUL
         THEN last_ptr' = Null /\ UNCHANGED buf
         ELSE last_ptr' = end + 1 /\ buf' = [buf EXCEPT ![end] = NUL]
  /\ parsing' = "compare"
  /\ UNCHANGED <<cmdline, i, options>>

(* The string a pointer points to. *)
String(s) ==
  LET end == Min({ k \in s .. BufSize - 1 : buf[k] = NUL })
  IN  [k \in 1 .. end - s |-> buf[s + k - 1]]

(* strcmp(token, name) == 0, and not our own name. *)
Names(name) == i # 0 /\ String(token) = name

Compare ==
  /\ parsing = "compare"
  /\ be_promisc' = (be_promisc \/ Names(Promisc))
  /\ accept_legacy' = (accept_legacy \/ Names(AcceptLegacy))
  /\ phys_max_relocate' = IF Names(PhysMax) THEN 256 ELSE phys_max_relocate
  /\ i' = i + 1
  /\ parsing' = "next"
  /\ UNCHANGED <<cmdline, buf, last_ptr, token>>

ParseStep == CopyCmdline \/ NoToken \/ NextToken \/ Compare

-----------------------------------------------------------------------------
(* Properties.                                                             *)

(* The words of a command line, by their first and last character. *)
IsWord(first, last) ==
  /\ \A k \in first .. last : cmdline[k] # Blank
  /\ first > 1 => cmdline[first - 1] = Blank
  /\ last < Len(cmdline) => cmdline[last + 1] = Blank

(* An option is set exactly if it is a whole word of the command line      *)
(* other than the first one, wherever blanks are (bender.c:35-49).         *)
Given(name) ==
  \E first, last \in DOMAIN cmdline :
    /\ first <= last /\ IsWord(first, last)
    /\ SubSeq(cmdline, first, last) = name
    /\ \E k \in 1 .. first - 1 : cmdline[k] # Blank

OptionsAreExact ==
  parsing = "done" =>
    /\ be_promisc = Given(Promisc)
    /\ accept_legacy = Given(AcceptLegacy)
    /\ phys_max_relocate = IF Given(PhysMax) THEN 256 ELSE 2048

=============================================================================
