------------------------------- MODULE Printf -------------------------------
(***************************************************************************)
(* vprintf of printf.c.  A format is a sequence of characters; the         *)
(* arguments are the words the caller has put on the stack, an unsigned    *)
(* long long being two, the lower one first.  out_char, Console's, is the  *)
(* end of out.  The divisions are those of Division.                       *)
(***************************************************************************)
EXTENDS Integers, Sequences, SequencesExt, FiniteSetsExt

CONSTANTS
  WordSize,     (* values of a word: 2^32                                  *)
  BufSize,      (* the figures buf has space for                           *)
  Calls,        (* the calls to check, sequences of items                  *)
  Texts         (* the strings whose addresses may be arguments            *)

Figures == <<"0", "1", "2", "3", "4", "5", "6", "7", "8", "9">>
Hex == <<"0", "1", "2", "3", "4", "5", "6", "7", "8", "9", "a", "b", "c", "d", "e", "f">>

Conversions == {"l", "c", "s", "d", "u", "p", "x"}

(* What may stand between the "%" and the letter that ends a directive.    *)
Modifiers == Seq(STRING \ (Conversions \ {"l"}))

(* The last figure of a directive says how wide a number is at least.      *)
IsWidth(width, mods) ==
  \/ width = 0 /\ \A k \in DOMAIN mods : mods[k] \notin ToSet(Figures)
  \/ \E k \in DOMAIN mods :
       /\ mods[k] = Figures[width + 1]
       /\ \A l \in k + 1 .. Len(mods) : mods[l] \notin ToSet(Figures)

Longs(mods) == { k \in DOMAIN mods : mods[k] = "l" }

power(base, k) ==
  LET p[l \in 0 .. k] == IF l = 0 THEN 1 ELSE base * p[l - 1] IN p[k]

(* A call of printf, item by item: text, or a directive with its argument. *)
(* The format matches the arguments: two "l" stand for an unsigned long    *)
(* long, and what a number is to look like is a base and a width.          *)
Item ==
  [prints: {"text"}, text: Seq(STRING \ {"%"}) \ {<<>>}]
    \cup [prints: {"char"}, mods: Modifiers, conversion: {"c"}, value: STRING]
    \cup [prints: {"string"}, mods: Modifiers, conversion: {"s"}, value: Texts]
    \cup { item \in [prints: {"number"}, mods: Modifiers, conversion: {"d", "u", "p", "x"},
                     value: 0 .. WordSize * WordSize - 1, long: BOOLEAN,
                     base: {10, 16}, width: 0 .. 9] :
             /\ item.long = (Cardinality(Longs(item.mods)) >= 2)
             /\ item.long \/ item.value < WordSize
             /\ item.base = IF item.conversion \in {"d", "u"} THEN 10 ELSE 16
             /\ IsWidth(item.width, item.mods) }

ASSUME PrintfAssumption ==
  /\ WordSize \in Nat \ {0}
  /\ BufSize \in Nat /\ WordSize * WordSize <= power(10, BufSize)
  /\ \A str \in Texts : str \in Seq(STRING)
  /\ \A call \in Calls : call \in Seq(Item)

VARIABLES
  call,           (* what printf is called with, never written             *)
  fmt,            (* what is left of the format                            *)
  ap,             (* the words va_arg has not taken                        *)
  state, longness, fill,      (* local variables of vprintf                *)
  out             (* history: the calls of out_char                        *)

printfVars == <<call, fmt, ap, state, longness, fill, out>>

Directive(item) ==
  IF item.prints = "text" THEN item.text ELSE <<"%">> \o item.mods \o <<item.conversion>>

(* The words of an argument, as the compiler puts them on the stack.       *)
Words(item) ==
  CASE item.prints = "text" -> <<>>
    [] item.prints = "number" /\ item.long ->
         <<item.value % WordSize, item.value \div WordSize>>
    [] OTHER -> <<item.value>>

PrintfInit ==
  /\ call \in Calls
  /\ fmt = FlattenSeq([k \in DOMAIN call |-> Directive(call[k])])
  /\ ap = FlattenSeq([k \in DOMAIN call |-> Words(call[k])])
  /\ state = "PLAIN" /\ longness = 0 /\ fill = 0
  /\ out = <<>>

-----------------------------------------------------------------------------
(* The next character is one of chars, in this state; then it is consumed. *)
Reads(st, chars) ==
  /\ fmt # <<>> /\ state = st /\ Head(fmt) \in chars
  /\ fmt' = Tail(fmt)
  /\ UNCHANGED call

Plain ==
  /\ fmt # <<>> /\ Reads("PLAIN", {Head(fmt)})
  /\ longness' = 0 /\ fill' = 0
  /\ IF Head(fmt) = "%"
       THEN state' = "INFMT" /\ UNCHANGED out
       ELSE out' = Append(out, Head(fmt)) /\ UNCHANGED state
  /\ UNCHANGED ap

(* The last figure counts. *)
Fill ==
  /\ Reads("INFMT", ToSet(Figures))
  /\ \E k \in 1 .. 10 : Head(fmt) = Figures[k] /\ fill' = k - 1
  /\ UNCHANGED <<ap, state, longness, out>>

Longer ==
  /\ Reads("INFMT", {"l"})
  /\ longness' = longness + 1
  /\ UNCHANGED <<ap, state, fill, out>>

(* Any other character, "%" too, has no effect in a conversion. *)
Ignore ==
  /\ fmt # <<>>
  /\ Reads("INFMT", {Head(fmt)} \ (ToSet(Figures) \cup Conversions))
  /\ UNCHANGED <<ap, state, longness, fill, out>>

PrintChar ==
  /\ Reads("INFMT", {"c"})
  /\ out' = Append(out, Head(ap)) /\ ap' = Tail(ap)
  /\ state' = "PLAIN"
  /\ UNCHANGED <<longness, fill>>

(* out_string *)
PrintString ==
  /\ Reads("INFMT", {"s"})
  /\ out' = out \o Head(ap) /\ ap' = Tail(ap)
  /\ state' = "PLAIN"
  /\ UNCHANGED <<longness, fill>>

(* The digits of a number, at least one; buf holds them backwards.         *)
Numeral(ull, base) ==
  LET digits[n \in 0 .. ull] ==
        LET last == Hex[(n % base) + 1]
        IN  IF n \div base = 0 THEN <<last>> ELSE Append(digits[n \div base], last)
  IN  digits[ull]

(* What dumpbuf puts in front of n digits; fill wraps as it counts down.   *)
Zeros(n) == [k \in 1 .. fill - n |-> "0"]

(* Mutant: takes two words only for three "l". *)
MutTakenByLll == IF longness <= 2 THEN 1 ELSE 2

(* The words va_arg takes for a number. *)
Taken == IF longness < 2 THEN 1 ELSE 2

PrintNumber(conversions, base) ==
  /\ Reads("INFMT", conversions)
  /\ LET ull == IF Taken = 1 THEN ap[1] ELSE ap[1] + WordSize * ap[2]
         numeral == Numeral(ull, base)
     IN  /\ out' = out \o Zeros(Len(numeral)) \o numeral
         /\ fill' = (Min({fill, Len(numeral)}) - 1) % WordSize
  /\ ap' = SubSeq(ap, Taken + 1, Len(ap))
  /\ state' = "PLAIN"
  /\ UNCHANGED longness

PrintDecimal == PrintNumber({"d", "u"}, 10)

PrintHexadecimal == PrintNumber({"p", "x"}, 16)

PrintfNext ==
  \/ Plain \/ Fill \/ Longer \/ Ignore
  \/ PrintChar \/ PrintString \/ PrintDecimal \/ PrintHexadecimal
  \/ fmt = <<>> /\ UNCHANGED printfVars

PrintfSpec == PrintfInit /\ [][PrintfNext]_printfVars

-----------------------------------------------------------------------------
(* Properties.                                                             *)

(* A number in a base, at least width figures long. *)
Padded(number, base, width) ==
  LET n == Max({1, width} \cup { k \in 1 .. BufSize : power(base, k - 1) <= number })
  IN  [k \in 1 .. n |-> Hex[((number \div power(base, n - k)) % base) + 1]]

Printed(item) ==
  CASE item.prints = "text" -> item.text
    [] item.prints = "char" -> <<item.value>>
    [] item.prints = "string" -> item.value
    [] item.prints = "number" -> Padded(item.value, item.base, item.width)

(* Every directive prints its own argument, whatever the directives before *)
(* it have taken and set (printf.c:36-40, 68-72): a number completely, in  *)
(* its base, and as wide as it says.                                       *)
ItemsArePrinted ==
  fmt = <<>> =>
    /\ ap = <<>>
    /\ out = FlattenSeq([k \in DOMAIN call |-> Printed(call[k])])

=============================================================================
