----------------------------- MODULE UtilProofs -----------------------------
(***************************************************************************)
(* Proofs about Console with Serial, about Delay, and about Printf: what   *)
(* serial.c, out_char, wait and __exit of util.c, reboot.c and printf.c    *)
(* promise, for any ports, characters, numbers of polls, screen, timer and *)
(* formats.                                                                *)
(***************************************************************************)
EXTENDS Console, Delay, Printf, InductionProofs, TLAPS

(* The variables hold values of their types. *)
ConsoleTypeOK ==
  /\ output_enabled \in BOOLEAN
  /\ serial_base \in Ports \cup {0}
  /\ at \in {"idle", "poll", "write", "init"}
  /\ c \in Chars \cup {NoChar}
  /\ max_tries \in 0 .. MaxTries
  /\ done \in 0 .. Len(InitWrites) - 1
  /\ present \in SUBSET Ports
  /\ uart \in [Ports -> Uart]
  /\ line \in [Ports -> Seq(Chars)]
  /\ sent \in Seq(Chars)
  /\ todo \in Seq(Chars)

(* What is known at each place of serial.c: it sends only while output is  *)
(* enabled, which it is only on a port that was given to serial_init_port. *)
CallInv ==
  /\ at # "idle" => output_enabled
  /\ output_enabled => serial_base \in Ports
  /\ at \in {"poll", "write"} => c \in Chars
  /\ at # "init" => done = 0

(* A uart takes no second character while it has one: between the look at  *)
(* its status and the write to it, it can only become emptier.             *)
HoldInv ==
  /\ \A p \in Ports : Len(uart[p].hold) <= 1
  /\ at = "write" => HoldEmpty(serial_base)

(* How far the uart in use is set up after the first n port writes of      *)
(* serial_init_port.  The latch is selected exactly for the divisor.       *)
SetUpAfter(n) ==
  LET u == uart[serial_base] IN
    /\ n \in 1 .. 3 => u.dlab
    /\ n >= 2 => u.divisor[0] = 1
    /\ n >= 3 => u.divisor[1] = 0
    /\ n >= 4 => ~u.dlab /\ u.format = LCR_8N1
    /\ n >= 5 => u.ier = 0
    /\ n >= 6 => Output(serial_base) = <<>> /\ sent = <<>>

SetUpInv ==
  serial_base \in present =>
    /\ at = "init" => SetUpAfter(done)
    /\ at # "init" => SetUpAfter(5)

(* A character is on its way from serial_send to the uart.                 *)
OutputInv ==
  serial_base \in present /\ at # "init" =>
    /\ IsPrefix(Output(serial_base), sent)
    /\ output_enabled /\ at = "idle" => Output(serial_base) = sent
    /\ at \in {"poll", "write"} => Append(Output(serial_base), c) = sent

SerialInv == ConsoleTypeOK /\ CallInv /\ HoldInv /\ SetUpInv /\ OutputInv

-----------------------------------------------------------------------------
(* Sequences.                                                              *)

LEMMA PrefixSelf ==
  ASSUME NEW S, NEW s \in Seq(S)
  PROVE  IsPrefix(s, s)
BY DEF IsPrefix

LEMMA PrefixAppend ==
  ASSUME NEW S, NEW s \in Seq(S), NEW t \in Seq(S), NEW x \in S, IsPrefix(s, t)
  PROVE  IsPrefix(s, Append(t, x))
BY DEF IsPrefix

(* A character that goes from a uart to its line stays in the output. *)
LEMMA ShiftHead ==
  ASSUME NEW S, NEW s \in Seq(S), NEW h \in Seq(S), h # <<>>
  PROVE  Append(s, Head(h)) \o Tail(h) = s \o h
BY SMTT(40)

-----------------------------------------------------------------------------
(* Before the first serial_init_port there is no port in use. *)
LEMMA NoPortZero == 0 \notin Ports /\ MaxTries \in Nat
<1>1. \A n : 0 \notin 1 .. n
  OBVIOUS
<1> DEFINE last == 2^16 - 8
<1>2. Ports \subseteq 1 .. last /\ MaxTries \in Nat
  BY SerialAssumption
<1> HIDE DEF last
<1> QED
  BY <1>1, <1>2

LEMMA InitWritesLen == Len(InitWrites) = 7
BY DEF InitWrites

LEMMA SerialInvInit == Init => SerialInv
<1> SUFFICES ASSUME Init PROVE SerialInv
  OBVIOUS
<1> USE DEF Init, SerialInit
<1>1. ResetUart \in Uart
  BY DEF ResetUart, Uart
<1>2. ConsoleTypeOK
  <2>1. uart \in [Ports -> Uart] /\ line \in [Ports -> Seq(Chars)]
    BY <1>1
  <2>2. done \in 0 .. Len(InitWrites) - 1 /\ max_tries \in 0 .. MaxTries
    BY NoPortZero, InitWritesLen
  <2>3. sent \in Seq(Chars) /\ todo \in Seq(Chars)
    OBVIOUS
  <2>4. /\ output_enabled \in BOOLEAN /\ serial_base \in Ports \cup {0}
        /\ c \in Chars \cup {NoChar} /\ present \in SUBSET Ports
    OBVIOUS
  <2>5. at \in {"idle", "poll", "write", "init"}
    OBVIOUS
  <2> QED
    BY <2>1, <2>2, <2>3, <2>4, <2>5, Zenon DEF ConsoleTypeOK
<1>3. CallInv
  BY DEF CallInv
<1>4. HoldInv
  BY DEF HoldInv, ResetUart
<1>5. SetUpInv /\ OutputInv
  BY NoPortZero DEF SetUpInv, OutputInv
<1> QED
  BY <1>2, <1>3, <1>4, <1>5 DEF SerialInv

(* Steps that touch neither the driver nor a uart. *)
LEMMA SerialInvStutter ==
  ASSUME SerialInv, UNCHANGED <<serialVars, todo>>
  PROVE  SerialInv'
BY DEF SerialInv, ConsoleTypeOK, CallInv, HoldInv, HoldEmpty, SetUpInv, SetUpAfter,
       OutputInv, Output, serialVars, driverVars

LEMMA SerialInvSend ==
  ASSUME SerialInv, NEW ch \in Chars, Send(ch), todo' \in Seq(Chars)
  PROVE  SerialInv'
<1> USE DEF SerialInv, Send
<1>1. ConsoleTypeOK'
  BY NoPortZero DEF ConsoleTypeOK
<1>2. CallInv'
  BY DEF CallInv, ConsoleTypeOK
<1>3. HoldInv'
  BY DEF HoldInv, HoldEmpty, ConsoleTypeOK
<1>4. SetUpInv'
  BY DEF SetUpInv, SetUpAfter, ConsoleTypeOK
<1>5. OutputInv'
  <2> SUFFICES ASSUME serial_base \in present
               PROVE  /\ IsPrefix(Output(serial_base)', sent')
                      /\ at' = "idle" => ~output_enabled
                      /\ at' # "idle" => Append(Output(serial_base)', c') = sent'
    BY DEF OutputInv
  <2>1. Output(serial_base)' = Output(serial_base)
    BY DEF Output
  <2>2. Output(serial_base) \in Seq(Chars) /\ sent \in Seq(Chars)
    BY DEF Output, ConsoleTypeOK, Uart
  <2>3. IsPrefix(Output(serial_base), Append(sent, ch))
    BY <2>2, PrefixAppend DEF OutputInv
  <2> QED
    BY <2>1, <2>3 DEF OutputInv
<1> QED
  BY <1>1, <1>2, <1>3, <1>4, <1>5

LEMMA SerialInvPollReady ==
  ASSUME SerialInv, PollReady, UNCHANGED todo
  PROVE  SerialInv'
BY DEF SerialInv, PollReady, ConsoleTypeOK, CallInv, HoldInv, HoldEmpty, SetUpInv,
       SetUpAfter, OutputInv, Output

LEMMA SerialInvPollAgain ==
  ASSUME SerialInv, PollAgain, UNCHANGED todo
  PROVE  SerialInv'
<1>1. max_tries' \in 0 .. MaxTries
  BY NoPortZero DEF SerialInv, PollAgain, ConsoleTypeOK
<1> QED
  BY <1>1 DEF SerialInv, PollAgain, ConsoleTypeOK, CallInv, HoldInv, HoldEmpty, SetUpInv,
       SetUpAfter, OutputInv, Output

LEMMA SerialInvPollGiveUp ==
  ASSUME SerialInv, PollGiveUp, UNCHANGED todo
  PROVE  SerialInv'
<1>1. max_tries' \in 0 .. MaxTries
  BY NoPortZero DEF SerialInv, PollGiveUp, ConsoleTypeOK
<1> QED
  BY <1>1 DEF SerialInv, PollGiveUp, ConsoleTypeOK, CallInv, HoldInv, HoldEmpty, SetUpInv,
       SetUpAfter, OutputInv, Output

(* The registers of a uart are its fields. *)
LEMMA UartFields ==
  ASSUME NEW u \in Uart
  PROVE  /\ u = [dlab |-> u.dlab, format |-> u.format, divisor |-> u.divisor,
                 ier |-> u.ier, fcr |-> u.fcr, mcr |-> u.mcr, hold |-> u.hold]
         /\ u.dlab \in BOOLEAN /\ u.format \in 0 .. 127
         /\ u.divisor \in [0 .. 1 -> 0 .. 255]
         /\ u.ier \in 0 .. 255 /\ u.fcr \in 0 .. 255 /\ u.mcr \in 0 .. 255
         /\ u.hold \in Seq(Chars)
BY DEF Uart

(* A character goes into the holding register or leaves it: the rest of    *)
(* the uart stays as it is.                                                *)
LEMMA HoldEffect ==
  ASSUME NEW u \in Uart, NEW h \in Seq(Chars)
  PROVE  LET v == [u EXCEPT !.hold = h] IN
           /\ v \in Uart /\ v.hold = h
           /\ v.dlab = u.dlab /\ v.format = u.format
           /\ v.divisor = u.divisor /\ v.ier = u.ier
<1>1. [u EXCEPT !.hold = h]
        = [dlab |-> u.dlab, format |-> u.format, divisor |-> u.divisor,
           ier |-> u.ier, fcr |-> u.fcr, mcr |-> u.mcr, hold |-> h]
  BY UartFields
<1>2. [u EXCEPT !.hold = h] \in Uart
  BY <1>1, UartFields DEF Uart
<1> QED
  BY <1>1, <1>2

(* The port writes of serial_init_port, one by one.                        *)
LEMMA Write1 ==
  ASSUME NEW u \in Uart
  PROVE  LET v == Written(u, 3, 128) IN
           /\ v \in Uart
           /\ v.hold = u.hold /\ v.dlab
           /\ v.format = 0 /\ v.ier = u.ier
           /\ v.divisor[0] = u.divisor[0] /\ v.divisor[1] = u.divisor[1]
<1> DEFINE r == [dlab |-> TRUE, format |-> 0, divisor |-> u.divisor,
           ier |-> u.ier, fcr |-> u.fcr, mcr |-> u.mcr, hold |-> u.hold]
<1>1. Written(u, 3, 128) = [u EXCEPT !.dlab = 128 >= 128, !.format = 128 % 128]
  BY DEF Written, THR, IER, FCR, LCR, MCR, LCR_DLAB
<1>2. (128 >= 128) = TRUE /\ 128 % 128 = 0
  OBVIOUS
<1>3. Written(u, 3, 128) = r
  <2>1. u = [dlab |-> u.dlab, format |-> u.format, divisor |-> u.divisor,
             ier |-> u.ier, fcr |-> u.fcr, mcr |-> u.mcr, hold |-> u.hold]
    BY UartFields
  <2> QED
    BY <1>1, <1>2, <2>1, ZenonT(40)
<1>4. r \in Uart
  BY UartFields DEF Uart
<1>5. /\ r.hold = u.hold /\ r.dlab = TRUE
      /\ r.format = 0 /\ r.ier = u.ier
      /\ r.divisor[0] = u.divisor[0] /\ r.divisor[1] = u.divisor[1]
  BY UartFields
<1> HIDE DEF r
<1> QED
  BY <1>3, <1>4, <1>5

LEMMA Write2 ==
  ASSUME NEW u \in Uart, u.dlab
  PROVE  LET v == Written(u, 0, 1) IN
           /\ v \in Uart
           /\ v.hold = u.hold /\ v.dlab = u.dlab
           /\ v.format = u.format /\ v.ier = u.ier
           /\ v.divisor[0] = 1 /\ v.divisor[1] = u.divisor[1]
<1> DEFINE r == [dlab |-> u.dlab, format |-> u.format, divisor |-> [u.divisor EXCEPT ![0] = 1],
           ier |-> u.ier, fcr |-> u.fcr, mcr |-> u.mcr, hold |-> u.hold]
<1>1. Written(u, 0, 1) = [u EXCEPT !.divisor[0] = 1]
  BY DEF Written, THR, IER, FCR, LCR, MCR, LCR_DLAB
<1>3. Written(u, 0, 1) = r
  <2>1. u = [dlab |-> u.dlab, format |-> u.format, divisor |-> u.divisor,
             ier |-> u.ier, fcr |-> u.fcr, mcr |-> u.mcr, hold |-> u.hold]
    BY UartFields
  <2> QED
    BY <1>1, <2>1
<1>4. r \in Uart
  <2>1. [u.divisor EXCEPT ![0] = 1] \in [0 .. 1 -> 0 .. 255]
    BY UartFields
  <2> QED
    BY <2>1, UartFields DEF Uart
<1>5. /\ r.hold = u.hold /\ r.dlab = u.dlab
      /\ r.format = u.format /\ r.ier = u.ier
      /\ r.divisor[0] = 1 /\ r.divisor[1] = u.divisor[1]
  BY UartFields
<1> HIDE DEF r
<1> QED
  BY <1>3, <1>4, <1>5

LEMMA Write3 ==
  ASSUME NEW u \in Uart, u.dlab
  PROVE  LET v == Written(u, 1, 0) IN
           /\ v \in Uart
           /\ v.hold = u.hold /\ v.dlab = u.dlab
           /\ v.format = u.format /\ v.ier = u.ier
           /\ v.divisor[0] = u.divisor[0] /\ v.divisor[1] = 0
<1> DEFINE r == [dlab |-> u.dlab, format |-> u.format, divisor |-> [u.divisor EXCEPT ![1] = 0],
           ier |-> u.ier, fcr |-> u.fcr, mcr |-> u.mcr, hold |-> u.hold]
<1>1. Written(u, 1, 0) = [u EXCEPT !.divisor[1] = 0]
  BY DEF Written, THR, IER, FCR, LCR, MCR, LCR_DLAB
<1>3. Written(u, 1, 0) = r
  <2>1. u = [dlab |-> u.dlab, format |-> u.format, divisor |-> u.divisor,
             ier |-> u.ier, fcr |-> u.fcr, mcr |-> u.mcr, hold |-> u.hold]
    BY UartFields
  <2> QED
    BY <1>1, <2>1
<1>4. r \in Uart
  <2>1. [u.divisor EXCEPT ![1] = 0] \in [0 .. 1 -> 0 .. 255]
    BY UartFields
  <2> QED
    BY <2>1, UartFields DEF Uart
<1>5. /\ r.hold = u.hold /\ r.dlab = u.dlab
      /\ r.format = u.format /\ r.ier = u.ier
      /\ r.divisor[0] = u.divisor[0] /\ r.divisor[1] = 0
  BY UartFields
<1> HIDE DEF r
<1> QED
  BY <1>3, <1>4, <1>5

LEMMA Write4 ==
  ASSUME NEW u \in Uart
  PROVE  LET v == Written(u, 3, 3) IN
           /\ v \in Uart
           /\ v.hold = u.hold /\ ~v.dlab
           /\ v.format = 3 /\ v.ier = u.ier
           /\ v.divisor[0] = u.divisor[0] /\ v.divisor[1] = u.divisor[1]
<1> DEFINE r == [dlab |-> FALSE, format |-> 3, divisor |-> u.divisor,
           ier |-> u.ier, fcr |-> u.fcr, mcr |-> u.mcr, hold |-> u.hold]
<1>1. Written(u, 3, 3) = [u EXCEPT !.dlab = 3 >= 128, !.format = 3 % 128]
  BY DEF Written, THR, IER, FCR, LCR, MCR, LCR_DLAB
<1>2. (3 >= 128) = FALSE /\ 3 % 128 = 3
  OBVIOUS
<1>3. Written(u, 3, 3) = r
  <2>1. u = [dlab |-> u.dlab, format |-> u.format, divisor |-> u.divisor,
             ier |-> u.ier, fcr |-> u.fcr, mcr |-> u.mcr, hold |-> u.hold]
    BY UartFields
  <2> QED
    BY <1>1, <1>2, <2>1, ZenonT(40)
<1>4. r \in Uart
  BY UartFields DEF Uart
<1>5. /\ r.hold = u.hold /\ r.dlab = FALSE
      /\ r.format = 3 /\ r.ier = u.ier
      /\ r.divisor[0] = u.divisor[0] /\ r.divisor[1] = u.divisor[1]
  BY UartFields
<1> HIDE DEF r
<1> QED
  BY <1>3, <1>4, <1>5

LEMMA Write5 ==
  ASSUME NEW u \in Uart, ~u.dlab
  PROVE  LET v == Written(u, 1, 0) IN
           /\ v \in Uart
           /\ v.hold = u.hold /\ v.dlab = u.dlab
           /\ v.format = u.format /\ v.ier = 0
           /\ v.divisor[0] = u.divisor[0] /\ v.divisor[1] = u.divisor[1]
<1> DEFINE r == [dlab |-> u.dlab, format |-> u.format, divisor |-> u.divisor,
           ier |-> 0, fcr |-> u.fcr, mcr |-> u.mcr, hold |-> u.hold]
<1>1. Written(u, 1, 0) = [u EXCEPT !.ier = 0]
  BY DEF Written, THR, IER, FCR, LCR, MCR, LCR_DLAB
<1>3. Written(u, 1, 0) = r
  <2>1. u = [dlab |-> u.dlab, format |-> u.format, divisor |-> u.divisor,
             ier |-> u.ier, fcr |-> u.fcr, mcr |-> u.mcr, hold |-> u.hold]
    BY UartFields
  <2> QED
    BY <1>1, <2>1
<1>4. r \in Uart
  BY UartFields DEF Uart
<1>5. /\ r.hold = u.hold /\ r.dlab = u.dlab
      /\ r.format = u.format /\ r.ier = 0
      /\ r.divisor[0] = u.divisor[0] /\ r.divisor[1] = u.divisor[1]
  BY UartFields
<1> HIDE DEF r
<1> QED
  BY <1>3, <1>4, <1>5

LEMMA Write6 ==
  ASSUME NEW u \in Uart
  PROVE  LET v == Written(u, 2, 7) IN
           /\ v \in Uart
           /\ v.hold = <<>> /\ v.dlab = u.dlab
           /\ v.format = u.format /\ v.ier = u.ier
           /\ v.divisor[0] = u.divisor[0] /\ v.divisor[1] = u.divisor[1]
<1> DEFINE r == [dlab |-> u.dlab, format |-> u.format, divisor |-> u.divisor,
           ier |-> u.ier, fcr |-> 7, mcr |-> u.mcr, hold |-> <<>>]
<1>1. Written(u, 2, 7) = [u EXCEPT !.fcr = 7, !.hold = <<>>]
  BY DEF Written, THR, IER, FCR, LCR, MCR, LCR_DLAB
<1>3. Written(u, 2, 7) = r
  <2>1. u = [dlab |-> u.dlab, format |-> u.format, divisor |-> u.divisor,
             ier |-> u.ier, fcr |-> u.fcr, mcr |-> u.mcr, hold |-> u.hold]
    BY UartFields
  <2> QED
    BY <1>1, <2>1
<1>4. r \in Uart
  BY UartFields DEF Uart
<1>5. /\ r.hold = <<>> /\ r.dlab = u.dlab
      /\ r.format = u.format /\ r.ier = u.ier
      /\ r.divisor[0] = u.divisor[0] /\ r.divisor[1] = u.divisor[1]
  BY UartFields
<1> HIDE DEF r
<1> QED
  BY <1>3, <1>4, <1>5

LEMMA Write7 ==
  ASSUME NEW u \in Uart
  PROVE  LET v == Written(u, 4, 3) IN
           /\ v \in Uart
           /\ v.hold = u.hold /\ v.dlab = u.dlab
           /\ v.format = u.format /\ v.ier = u.ier
           /\ v.divisor[0] = u.divisor[0] /\ v.divisor[1] = u.divisor[1]
<1> DEFINE r == [dlab |-> u.dlab, format |-> u.format, divisor |-> u.divisor,
           ier |-> u.ier, fcr |-> u.fcr, mcr |-> 3, hold |-> u.hold]
<1>1. Written(u, 4, 3) = [u EXCEPT !.mcr = 3]
  BY DEF Written, THR, IER, FCR, LCR, MCR, LCR_DLAB
<1>3. Written(u, 4, 3) = r
  <2>1. u = [dlab |-> u.dlab, format |-> u.format, divisor |-> u.divisor,
             ier |-> u.ier, fcr |-> u.fcr, mcr |-> u.mcr, hold |-> u.hold]
    BY UartFields
  <2> QED
    BY <1>1, <2>1
<1>4. r \in Uart
  BY UartFields DEF Uart
<1>5. /\ r.hold = u.hold /\ r.dlab = u.dlab
      /\ r.format = u.format /\ r.ier = u.ier
      /\ r.divisor[0] = u.divisor[0] /\ r.divisor[1] = u.divisor[1]
  BY UartFields
<1> HIDE DEF r
<1> QED
  BY <1>3, <1>4, <1>5

(* All of them. *)
LEMMA InitWriteEffect ==
  ASSUME NEW u \in Uart, NEW n \in 0 .. 6, n \in 1 .. 3 => u.dlab, n >= 4 => ~u.dlab
  PROVE  LET v == Written(u, InitWrites[n + 1][1], InitWrites[n + 1][2]) IN
           /\ v \in Uart
           /\ v.hold = IF n = 5 THEN <<>> ELSE u.hold
           /\ v.dlab <=> n < 3
           /\ v.format = IF n = 3 THEN 3 ELSE IF n = 0 THEN 0 ELSE u.format
           /\ v.divisor[0] = IF n = 1 THEN 1 ELSE u.divisor[0]
           /\ v.divisor[1] = IF n = 2 THEN 0 ELSE u.divisor[1]
           /\ v.ier = IF n = 4 THEN 0 ELSE u.ier
<1> DEFINE w == InitWrites[n + 1]
<1>1. CASE n = 0
  <2>1. w[1] = 3 /\ w[2] = 128
    BY <1>1 DEF InitWrites, THR, IER, FCR, LCR, MCR, LCR_DLAB, LCR_8N1
  <2> QED
    BY <1>1, <2>1, Write1
<1>2. CASE n = 1
  <2>1. w[1] = 0 /\ w[2] = 1
    BY <1>2 DEF InitWrites, THR, IER, FCR, LCR, MCR, LCR_DLAB, LCR_8N1
  <2> QED
    BY <1>2, <2>1, Write2
<1>3. CASE n = 2
  <2>1. w[1] = 1 /\ w[2] = 0
    BY <1>3 DEF InitWrites, THR, IER, FCR, LCR, MCR, LCR_DLAB, LCR_8N1
  <2> QED
    BY <1>3, <2>1, Write3
<1>4. CASE n = 3
  <2>1. w[1] = 3 /\ w[2] = 3
    BY <1>4 DEF InitWrites, THR, IER, FCR, LCR, MCR, LCR_DLAB, LCR_8N1
  <2> QED
    BY <1>4, <2>1, Write4
<1>5. CASE n = 4
  <2>1. w[1] = 1 /\ w[2] = 0
    BY <1>5 DEF InitWrites, THR, IER, FCR, LCR, MCR, LCR_DLAB, LCR_8N1
  <2> QED
    BY <1>5, <2>1, Write5
<1>6. CASE n = 5
  <2>1. w[1] = 2 /\ w[2] = 7
    BY <1>6 DEF InitWrites, THR, IER, FCR, LCR, MCR, LCR_DLAB, LCR_8N1
  <2> QED
    BY <1>6, <2>1, Write6
<1>7. CASE n = 6
  <2>1. w[1] = 4 /\ w[2] = 3
    BY <1>7 DEF InitWrites, THR, IER, FCR, LCR, MCR, LCR_DLAB, LCR_8N1
  <2> QED
    BY <1>7, <2>1, Write7
<1> QED
  BY <1>1, <1>2, <1>3, <1>4, <1>5, <1>6, <1>7

(* And that of serial_send. *)
LEMMA WriteHold ==
  ASSUME NEW u \in Uart, NEW x \in Chars, ~u.dlab, u.hold = <<>>
  PROVE  LET v == Written(u, 0, x) IN
           /\ v \in Uart /\ v.hold = <<x>>
           /\ v.dlab = u.dlab /\ v.format = u.format
           /\ v.divisor = u.divisor /\ v.ier = u.ier
<1> DEFINE r == [dlab |-> u.dlab, format |-> u.format, divisor |-> u.divisor,
                 ier |-> u.ier, fcr |-> u.fcr, mcr |-> u.mcr, hold |-> <<x>>]
<1>1. Written(u, 0, x) = [u EXCEPT !.hold = Append(@, x)]
  BY DEF Written, THR, IER, FCR, LCR, MCR, LCR_DLAB
<1>2. Append(u.hold, x) = <<x>> /\ <<x>> \in Seq(Chars)
  OBVIOUS
<1>3. Written(u, 0, x) = r
  <2>1. u = [dlab |-> u.dlab, format |-> u.format, divisor |-> u.divisor,
             ier |-> u.ier, fcr |-> u.fcr, mcr |-> u.mcr, hold |-> u.hold]
    BY UartFields
  <2> QED
    BY <1>1, <1>2, <2>1
<1>4. r \in Uart
  <2>1. /\ u.dlab \in BOOLEAN /\ u.format \in 0 .. 127
        /\ u.divisor \in [0 .. 1 -> 0 .. 255]
        /\ u.ier \in 0 .. 255 /\ u.fcr \in 0 .. 255 /\ u.mcr \in 0 .. 255
    BY UartFields
  <2> QED
    BY <1>2, <2>1 DEF Uart
<1>5. /\ r.hold = <<x>> /\ r.dlab = u.dlab /\ r.format = u.format
      /\ r.divisor = u.divisor /\ r.ier = u.ier
  OBVIOUS
<1> HIDE DEF r
<1> QED
  BY <1>3, <1>4, <1>5

(* serial_send writes its character to a uart that is set up and empty.    *)
LEMMA SerialInvWrite ==
  ASSUME SerialInv, Write, UNCHANGED todo
  PROVE  SerialInv'
<1> DEFINE p == serial_base
<1>1. /\ p \in Ports /\ c \in Chars /\ at' = "idle" /\ c' = NoChar
      /\ UNCHANGED <<output_enabled, serial_base, done, present, line, sent>>
      /\ max_tries' = MaxTries /\ done = 0
  BY DEF Write, SerialInv, CallInv
<1>2. CASE p \in present
  <2>1. ~uart[p].dlab /\ uart[p].hold = <<>>
    BY <1>2 DEF Write, SerialInv, SetUpInv, SetUpAfter, HoldInv, HoldEmpty
  <2>2. uart[p] \in Uart /\ uart \in [Ports -> Uart]
    BY <1>1 DEF SerialInv, ConsoleTypeOK
  <2>3. uart' = [uart EXCEPT ![p] = Written(@, 0, c)]
    BY <1>2 DEF Write, Outb, THR
  <2>5. /\ uart' \in [Ports -> Uart]
        /\ uart'[p].hold = <<c>>
        /\ \A q \in Ports \ {p} : uart'[q] = uart[q]
        /\ uart'[p].dlab = uart[p].dlab /\ uart'[p].format = uart[p].format
        /\ uart'[p].divisor = uart[p].divisor /\ uart'[p].ier = uart[p].ier
    BY <1>1, <2>1, <2>2, <2>3, WriteHold
  <2>6. ConsoleTypeOK'
    BY <1>1, <2>5, NoPortZero DEF SerialInv, ConsoleTypeOK
  <2>7. CallInv'
    BY <1>1 DEF SerialInv, CallInv
  <2>8. HoldInv'
    <3>1. \A q \in Ports : uart'[q].hold \in {<<c>>, uart[q].hold}
      BY <2>5
    <3>2. Len(<<c>>) <= 1 /\ \A q \in Ports : Len(uart[q].hold) <= 1
      BY DEF SerialInv, HoldInv
    <3>3. \A q \in Ports : Len(uart'[q].hold) <= 1
      BY <3>1, <3>2, Zenon
    <3> QED
      BY <1>1, <3>3 DEF HoldInv
  <2>9. SetUpInv'
    BY <1>1, <1>2, <2>5 DEF SerialInv, SetUpInv, SetUpAfter, Write
  <2>10. Output(p)' = Append(Output(p), c)
    BY <1>1, <2>1, <2>5 DEF Output, SerialInv, ConsoleTypeOK
  <2>11. OutputInv'
    <3>1. Output(p)' = sent
      BY <1>2, <2>10 DEF Write, SerialInv, OutputInv
    <3> QED
      BY <1>1, <3>1, PrefixSelf DEF OutputInv, SerialInv, ConsoleTypeOK
  <2> QED
    BY <2>6, <2>7, <2>8, <2>9, <2>11 DEF SerialInv
<1>3. CASE p \notin present
  BY <1>1, <1>3, NoPortZero
     DEF Write, Outb, SerialInv, ConsoleTypeOK, CallInv, HoldInv, SetUpInv, OutputInv
<1> QED
  BY <1>2, <1>3

LEMMA SerialInvTransmit ==
  ASSUME SerialInv, NEW p \in Ports, Transmit(p), UNCHANGED todo
  PROVE  SerialInv'
<1>1. uart[p] \in Uart /\ line[p] \in Seq(Chars) /\ uart[p].hold # <<>>
  BY DEF SerialInv, ConsoleTypeOK, Transmit
<1>2. uart[p].hold \in Seq(Chars) /\ Len(uart[p].hold) <= 1
  BY <1>1 DEF Uart, SerialInv, HoldInv
<1>3. Tail(uart[p].hold) = <<>> /\ Head(uart[p].hold) \in Chars
  BY <1>1, <1>2
<1> DEFINE v == [uart[p] EXCEPT !.hold = <<>>]
<1>4. /\ v \in Uart /\ v.hold = <<>> /\ v.dlab = uart[p].dlab
      /\ v.format = uart[p].format
      /\ v.divisor = uart[p].divisor /\ v.ier = uart[p].ier
  <2>1. <<>> \in Seq(Chars)
    OBVIOUS
  <2> QED
    BY <1>1, <2>1, HoldEffect
<1>5. uart' = [uart EXCEPT ![p] = v]
  BY <1>3 DEF Transmit
<1>6. /\ uart' \in [Ports -> Uart]
      /\ uart'[p].hold = <<>>
      /\ \A q \in Ports \ {p} : uart'[q] = uart[q]
      /\ uart'[p].dlab = uart[p].dlab /\ uart'[p].format = uart[p].format
      /\ uart'[p].divisor = uart[p].divisor /\ uart'[p].ier = uart[p].ier
  <2> HIDE DEF v
  <2> QED
    BY <1>4, <1>5 DEF SerialInv, ConsoleTypeOK
<1>7. /\ line' \in [Ports -> Seq(Chars)]
      /\ line'[p] = Append(line[p], Head(uart[p].hold))
      /\ \A q \in Ports \ {p} : line'[q] = line[q]
  BY <1>1, <1>3 DEF Transmit, SerialInv, ConsoleTypeOK
<1>8. Output(p)' = Output(p)
  BY <1>1, <1>2, <1>3, <1>6, <1>7, ShiftHead, ZenonT(40) DEF Output
<1>9. \A q \in Ports : Output(q)' = Output(q)
  BY <1>6, <1>7, <1>8 DEF Output
<1>10. UNCHANGED <<driverVars, present, sent>>
  BY DEF Transmit
<1>11. ConsoleTypeOK'
  BY <1>6, <1>7, <1>10 DEF SerialInv, ConsoleTypeOK, driverVars
<1>12. CallInv'
  BY <1>10 DEF SerialInv, CallInv, driverVars
<1>13. HoldInv'
  <2>1. \A q \in Ports : Len(uart'[q].hold) <= 1
    BY <1>6 DEF SerialInv, HoldInv
  <2>2. at' = "write" => HoldEmpty(serial_base)'
    BY <1>6, <1>10 DEF SerialInv, ConsoleTypeOK, HoldInv, HoldEmpty, driverVars
  <2> QED
    BY <2>1, <2>2 DEF HoldInv
<1>14. SetUpInv'
  BY <1>6, <1>9, <1>10 DEF SerialInv, ConsoleTypeOK, SetUpInv, SetUpAfter, driverVars
<1>15. OutputInv'
  BY <1>9, <1>10 DEF SerialInv, ConsoleTypeOK, OutputInv, driverVars
<1> QED
  BY <1>11, <1>12, <1>13, <1>14, <1>15 DEF SerialInv

LEMMA SerialInvInitPort ==
  ASSUME SerialInv, NEW p \in Ports, InitPort(p), UNCHANGED todo
  PROVE  SerialInv'
BY NoPortZero, InitWritesLen
   DEF SerialInv, InitPort, ConsoleTypeOK, CallInv, HoldInv, SetUpInv, SetUpAfter, OutputInv

LEMMA SerialInvDisable ==
  ASSUME SerialInv, Disable, UNCHANGED todo
  PROVE  SerialInv'
BY ZenonT(40) DEF SerialInv, Disable, ConsoleTypeOK, CallInv, HoldInv, HoldEmpty, SetUpInv,
       SetUpAfter, OutputInv, Output

(* serial_init_port sets up one register after the other. *)
LEMMA SerialInvInitWrite ==
  ASSUME SerialInv, InitWrite, UNCHANGED todo
  PROVE  SerialInv'
<1> DEFINE p == serial_base
           w == InitWrites[done + 1]
<1>1. /\ p \in Ports /\ done \in 0 .. 6 /\ at = "init" /\ output_enabled
      /\ UNCHANGED <<output_enabled, serial_base, c, max_tries, present>>
      /\ at' = IF done = 6 THEN "idle" ELSE "init"
      /\ done' = IF done = 6 THEN 0 ELSE done + 1
  BY InitWritesLen DEF InitWrite, SerialInv, ConsoleTypeOK, CallInv
<1>2. w[1] = FCR <=> done = 5
  BY <1>1 DEF InitWrites, THR, IER, FCR, LCR, MCR
<1>3. /\ line' = IF done = 5 THEN [line EXCEPT ![p] = <<>>] ELSE line
      /\ sent' = IF done = 5 THEN <<>> ELSE sent
  BY <1>2 DEF InitWrite
<1>4. /\ line' \in [Ports -> Seq(Chars)] /\ sent' \in Seq(Chars)
      /\ done = 5 => line'[p] = <<>>
  BY <1>1, <1>3 DEF SerialInv, ConsoleTypeOK
<1>5. uart \in [Ports -> Uart] /\ uart[p] \in Uart
  BY <1>1 DEF SerialInv, ConsoleTypeOK
<1>6. CASE p \in present
  <2> DEFINE v == Written(uart[p], w[1], w[2])
  <2>1. uart' = [uart EXCEPT ![p] = v]
    BY <1>6 DEF InitWrite, Outb
  <2>2. SetUpAfter(done)
    BY <1>1, <1>6 DEF SerialInv, SetUpInv
  <2>3. /\ v \in Uart
        /\ v.hold = IF done = 5 THEN <<>> ELSE uart[p].hold
        /\ v.dlab <=> done < 3
        /\ v.format = IF done = 3 THEN 3 ELSE IF done = 0 THEN 0 ELSE uart[p].format
        /\ v.divisor[0] = IF done = 1 THEN 1 ELSE uart[p].divisor[0]
        /\ v.divisor[1] = IF done = 2 THEN 0 ELSE uart[p].divisor[1]
        /\ v.ier = IF done = 4 THEN 0 ELSE uart[p].ier
    BY <1>1, <1>5, <2>2, InitWriteEffect DEF SetUpAfter
  <2> HIDE DEF v, w
  <2>4. /\ uart' \in [Ports -> Uart] /\ uart'[p] = v
        /\ \A q \in Ports \ {p} : uart'[q] = uart[q]
    BY <1>1, <1>5, <2>1, <2>3
  <2>5. ConsoleTypeOK'
    BY <1>1, <1>4, <2>4, InitWritesLen DEF SerialInv, ConsoleTypeOK
  <2>6. CallInv'
    BY <1>1 DEF SerialInv, CallInv
  <2>7. HoldInv'
    <3>1. \A q \in Ports : Len(uart'[q].hold) <= 1
      <4> SUFFICES ASSUME NEW q \in Ports PROVE Len(uart'[q].hold) <= 1
        OBVIOUS
      <4>1. CASE q = p
        BY <2>3, <2>4, <4>1 DEF SerialInv, HoldInv
      <4>2. CASE q # p
        BY <2>4, <4>2 DEF SerialInv, HoldInv
      <4> QED
        BY <4>1, <4>2
    <3> QED
      BY <1>1, <3>1 DEF HoldInv
  <2>8. done >= 5 => Output(p)' = <<>> /\ sent' = <<>>
    <3>1. CASE done = 5
      BY <1>1, <1>3, <1>4, <2>3, <2>4, <3>1 DEF Output
    <3>2. CASE done = 6
      BY <1>1, <1>3, <2>2, <2>3, <2>4, <3>2 DEF Output, SetUpAfter
    <3> QED
      BY <1>1, <3>1, <3>2
  <2>9. SetUpInv'
    BY <1>1, <2>2, <2>3, <2>4, <2>8 DEF SetUpInv, SetUpAfter, LCR_8N1
  <2>10. OutputInv'
    <3>1. IsPrefix(<<>>, <<>>)
      BY DEF IsPrefix
    <3> QED
      BY <1>1, <2>8, <3>1 DEF OutputInv
  <2> QED
    BY <2>5, <2>6, <2>7, <2>9, <2>10 DEF SerialInv
<1>7. CASE p \notin present
  <2>1. uart' = uart
    BY <1>7 DEF InitWrite, Outb
  <2>2. ConsoleTypeOK'
    BY <1>1, <1>4, <2>1, InitWritesLen DEF SerialInv, ConsoleTypeOK
  <2> QED
    BY <1>1, <1>7, <2>1, <2>2 DEF SerialInv, CallInv, HoldInv, SetUpInv, OutputInv
<1> QED
  BY <1>6, <1>7

(* Every step of the program and of the uarts.                             *)
LEMMA SerialInvNext == SerialInv /\ [Next]_vars => SerialInv'
<1> SUFFICES ASSUME SerialInv, [Next]_vars PROVE SerialInv'
  OBVIOUS
<1> USE DEF consoleVars
<1>1. CASE CallSend
  <2>1. Head(todo) \in Chars /\ Tail(todo) \in Seq(Chars)
    BY <1>1 DEF CallSend, SerialInv, ConsoleTypeOK
  <2> QED
    BY <1>1, <2>1, SerialInvSend DEF CallSend
<1>2. CASE DriverStep /\ UNCHANGED consoleVars
  BY <1>2, SerialInvPollReady, SerialInvPollAgain, SerialInvPollGiveUp, SerialInvWrite,
     SerialInvInitWrite DEF DriverStep
<1>3. ASSUME NEW ch \in Chars, OutChar(ch) PROVE SerialInv'
  <2>1. todo' \in Seq(Chars) /\ UNCHANGED serialVars
    BY <1>3, ConsoleAssumption DEF OutChar, SerialCalls
  <2> QED
    BY <2>1 DEF SerialInv, ConsoleTypeOK, CallInv, HoldInv, HoldEmpty, SetUpInv,
                SetUpAfter, OutputInv, Output, serialVars, driverVars
<1>4. ASSUME NEW p \in Ports, InitPort(p), UNCHANGED todo PROVE SerialInv'
  BY <1>4, SerialInvInitPort
<1>5. CASE CallDisable
  BY <1>5, SerialInvDisable DEF CallDisable
<1>6. ASSUME NEW p \in Ports, Transmit(p), UNCHANGED todo PROVE SerialInv'
  BY <1>6, SerialInvTransmit
<1>7. CASE UNCHANGED vars
  BY <1>7, SerialInvStutter DEF vars
<1> QED
  BY <1>1, <1>2, <1>3, <1>4, <1>5, <1>6, <1>7
     DEF Next, ConsoleStep, CallOutChar, CallInitPort

(* The inductive invariant of the driver. *)
THEOREM SerialInvHolds == Spec => []SerialInv
<1> QED
  BY SerialInvInit, SerialInvNext, PTL DEF Spec

(* No character is written to a uart that has one already: what the status *)
(* register showed to serial_send still holds when it writes, whenever the *)
(* uart drains, for any number of polls.                                   *)
THEOREM NoOverrunHolds == Spec => []NoOverrun
<1>1. SerialInv => NoOverrun
  BY DEF SerialInv, HoldInv, NoOverrun
<1> QED
  BY <1>1, SerialInvHolds, PTL

(* The uart that serial_send works on has been set up completely by        *)
(* serial_init_port, and no later call for another port has undone it.     *)
THEOREM SetUpBeforeDataHolds == Spec => []SetUpBeforeData
<1>1. SerialInv => SetUpBeforeData
  BY DEF SerialInv, CallInv, SetUpInv, SetUpAfter, SetUpBeforeData
<1> QED
  BY <1>1, SerialInvHolds, PTL

(* What leaves the uart is a beginning of what was sent, without a gap,    *)
(* and all of it until output is given up.                                 *)
THEOREM OutputIsPrefixHolds == Spec => []OutputIsPrefix
<1>1. SerialInv => OutputIsPrefix
  BY DEF SerialInv, OutputInv, OutputIsPrefix
<1> QED
  BY <1>1, SerialInvHolds, PTL

-----------------------------------------------------------------------------
(* The serial line and the screen. *)

(* Every character that out_char was called with since the set-up of the   *)
(* port has been sent, or is about to be.                                  *)
LineInv ==
  /\ log \in Seq(Chars) /\ logged \in 0 .. Len(log)
  /\ at = "init" => todo = <<>> /\ logged = Len(log)
  /\ at # "init" \/ done >= 6 =>
       sent \o todo = Stream(SubSeq(log, logged + 1, Len(log)))

LEMMA PrefixConcat ==
  ASSUME NEW S, NEW r \in Seq(S), NEW s \in Seq(S), NEW t \in Seq(S), IsPrefix(r, s)
  PROVE  IsPrefix(r, s \o t)
BY DEF IsPrefix

LEMMA StreamEmpty == Stream(<<>>) = <<>>
<1>s. PICK s \in Seq(Chars) : s = <<>>
  <2>1. <<>> \in Seq(Chars)
    OBVIOUS
  <2> QED
    BY <2>1, Zenon
<1> DEFINE q == [k \in DOMAIN s |-> IF s[k] = NL THEN <<NL, CR>> ELSE <<s[k]>>]
<1>1. Len(q) = 0 /\ q = <<>>
  BY <1>s
<1> HIDE DEF q
<1>2. FlattenSeq(q) = q
  BY <1>1, Zenon DEF FlattenSeq
<1>3. Stream(s) = FlattenSeq(q)
  BY DEF Stream, q
<1> QED
  BY <1>s, <1>1, <1>2, <1>3

LEMMA FunctionIsSeq ==
  ASSUME NEW S, NEW n \in Nat, NEW f \in [1 .. n -> S]
  PROVE  f \in Seq(S) /\ Len(f) = n
<1>1. f \in Seq(S)
  BY SeqDef
<1> QED
  BY <1>1, LenProperties

LEMMA SubSeqAppend ==
  ASSUME NEW S, NEW s \in Seq(S), NEW n \in 0 .. Len(s), NEW x \in S
  PROVE  SubSeq(Append(s, x), n + 1, Len(Append(s, x))) = Append(SubSeq(s, n + 1, Len(s)), x)
<1> DEFINE t == Append(s, x)
           a == SubSeq(t, n + 1, Len(t))
           b == Append(SubSeq(s, n + 1, Len(s)), x)
<1>1. PICK m \in Nat : m = Len(s) /\ n <= m /\ n \in Nat
  OBVIOUS
<1>2. t \in Seq(S) /\ Len(t) = m + 1 /\ t[m + 1] = x /\ \A j \in 1 .. m : t[j] = s[j]
  BY <1>1
<1>3. a \in Seq(S) /\ Len(a) = m + 1 - n /\ \A j \in 1 .. m + 1 - n : a[j] = t[n + j]
  <2> HIDE DEF t
  <2> QED
    BY <1>1, <1>2
<1>4. /\ b \in Seq(S) /\ Len(b) = m - n + 1 /\ b[m - n + 1] = x
      /\ \A j \in 1 .. m - n : b[j] = s[n + j]
  BY <1>1
<1>5. \A j \in 1 .. m + 1 - n : a[j] = b[j]
  <2> HIDE DEF a, b, t
  <2> SUFFICES ASSUME NEW j \in 1 .. m + 1 - n PROVE a[j] = b[j]
    OBVIOUS
  <2>1. CASE j = m + 1 - n
    <3>1. n + j = m + 1 /\ m - n + 1 = j
      BY <1>1, <2>1
    <3>2. a[j] = t[m + 1]
      BY <1>3, <3>1
    <3>3. b[j] = x
      BY <1>4, <3>1
    <3> QED
      BY <1>2, <3>2, <3>3
  <2>2. CASE j < m + 1 - n
    <3>1. n + j \in 1 .. m
      BY <1>1, <2>2
    <3> QED
      BY <1>1, <1>2, <1>3, <1>4, <2>2, <3>1
  <2> QED
    BY <1>1, <2>1, <2>2
<1> HIDE DEF a, b
<1>6. a = b
  BY <1>1, <1>3, <1>4, <1>5, SeqEqual, SMTT(40)
<1> QED
  BY <1>6 DEF a, b

(* What out_char adds to the stream. *)
LEMMA StreamAppend ==
  ASSUME NEW s \in Seq(Chars), NEW ch \in Chars
  PROVE  /\ Stream(s) \in Seq(Chars)
         /\ Stream(Append(s, ch)) = Stream(s) \o SerialCalls(ch)
<1> DEFINE q == [k \in DOMAIN s |-> IF s[k] = NL THEN <<NL, CR>> ELSE <<s[k]>>]
           t == Append(s, ch)
           r == [k \in DOMAIN t |-> IF t[k] = NL THEN <<NL, CR>> ELSE <<t[k]>>]
<1>1. \A x \in Chars : (IF x = NL THEN <<NL, CR>> ELSE <<x>>) \in Seq(Chars)
  BY ConsoleAssumption
<1>2. q \in Seq(Seq(Chars)) /\ Len(q) = Len(s)
  <2>1. q \in [1 .. Len(s) -> Seq(Chars)]
    BY <1>1
  <2> HIDE DEF q
  <2> QED
    BY <2>1, FunctionIsSeq
<1>3. r \in Seq(Seq(Chars)) /\ Len(r) = Len(s) + 1
  <2>1. t \in Seq(Chars) /\ Len(t) = Len(s) + 1
    OBVIOUS
  <2>2. r \in [1 .. Len(s) + 1 -> Seq(Chars)]
    BY <1>1, <2>1
  <2> HIDE DEF r
  <2> QED
    BY <2>2, FunctionIsSeq
<1>4. SerialCalls(ch) \in Seq(Chars)
  BY <1>1 DEF SerialCalls
<1>5. r = Append(q, SerialCalls(ch))
  <2>1. \A k \in 1 .. Len(s) + 1 : r[k] = Append(q, SerialCalls(ch))[k]
    BY SMTT(40) DEF SerialCalls
  <2>2. Append(q, SerialCalls(ch)) \in Seq(Seq(Chars))
    BY <1>2, <1>4
  <2>3. Len(Append(q, SerialCalls(ch))) = Len(s) + 1
    BY <1>2, <1>4
  <2> HIDE DEF q, r
  <2> QED
    BY <1>3, <2>1, <2>2, <2>3, SeqEqual
<1>6. Stream(s) = FlattenSeq(q) /\ Stream(t) = FlattenSeq(r)
  BY DEF Stream
<1> HIDE DEF q, r
<1> QED
  BY <1>2, <1>4, <1>5, <1>6, FlattenAppend

LEMMA LineInvInit == Init => LineInv
<1> SUFFICES ASSUME Init PROVE LineInv
  OBVIOUS
<1>1. log = <<>> /\ logged = 0 /\ sent = <<>> /\ todo = <<>> /\ at = "idle"
  BY DEF Init, SerialInit
<1>2. SubSeq(log, logged + 1, Len(log)) = <<>>
  BY <1>1
<1>3. Stream(SubSeq(log, logged + 1, Len(log))) = <<>>
  BY <1>2, StreamEmpty
<1>4. sent \o todo = <<>>
  BY <1>1
<1> QED
  BY <1>1, <1>3, <1>4 DEF LineInv

LEMMA LineInvOutChar ==
  ASSUME SerialInv, LineInv, NEW ch \in Chars, OutChar(ch)
  PROVE  LineInv'
<1>1. /\ at = "idle" /\ todo = <<>> /\ todo' = SerialCalls(ch)
      /\ log' = Append(log, ch) /\ logged' = logged /\ at' = at /\ sent' = sent
  BY DEF OutChar, serialVars, driverVars
<1> DEFINE s == SubSeq(log, logged + 1, Len(log))
<1>2. s \in Seq(Chars) /\ logged' \in 0 .. Len(log')
  BY <1>1 DEF LineInv
<1>3. SubSeq(log', logged' + 1, Len(log')) = Append(s, ch)
  BY <1>1, SubSeqAppend DEF LineInv
<1>4. sent = Stream(s)
  BY <1>1 DEF LineInv, SerialInv, ConsoleTypeOK
<1> HIDE DEF s
<1>5. sent' \o todo' = Stream(Append(s, ch))
  BY <1>1, <1>2, <1>4, StreamAppend
<1>6. log' \in Seq(Chars)
  BY <1>1 DEF LineInv
<1>7. sent' \o todo' = Stream(SubSeq(log', logged' + 1, Len(log')))
  BY <1>3, <1>5
<1> QED
  BY <1>1, <1>2, <1>6, <1>7 DEF LineInv

LEMMA LineInvCallSend ==
  ASSUME SerialInv, LineInv, CallSend
  PROVE  LineInv'
<1>1. /\ at = "idle" /\ at' # "init" /\ todo # <<>> /\ sent' = Append(sent, Head(todo))
      /\ todo' = Tail(todo) /\ log' = log /\ logged' = logged
  BY DEF CallSend, Send
<1>2. sent' \o todo' = sent \o todo
  BY <1>1, ShiftHead DEF SerialInv, ConsoleTypeOK
<1> QED
  BY <1>1, <1>2 DEF LineInv

LEMMA LineInvInitWrite ==
  ASSUME SerialInv, LineInv, InitWrite, UNCHANGED consoleVars
  PROVE  LineInv'
<1>1. /\ at = "init" /\ todo' = <<>> /\ log' = log /\ logged' = logged
      /\ logged = Len(log) /\ done \in 0 .. 6
  BY InitWritesLen DEF InitWrite, consoleVars, LineInv, SerialInv, ConsoleTypeOK
<1>2. SubSeq(log', logged' + 1, Len(log')) = <<>>
  BY <1>1 DEF LineInv
<1>3. /\ Stream(SubSeq(log', logged' + 1, Len(log'))) = <<>>
      /\ Stream(SubSeq(log, logged + 1, Len(log))) = <<>>
  BY <1>1, <1>2, StreamEmpty
<1>4. done < 5 => at' = "init" /\ done' \in 0 .. 5
  BY <1>1, InitWritesLen DEF InitWrite
<1>5. done >= 5 => sent' = <<>>
  <2>1. CASE done = 5
    BY <2>1 DEF InitWrite, InitWrites, FCR, LCR, MCR, THR, IER
  <2>2. CASE done = 6
    <3>1. sent' = sent
      BY <2>2 DEF InitWrite, InitWrites, FCR, LCR, MCR, THR, IER
    <3>2. sent = <<>>
      <4>1. sent \o todo = <<>>
        BY <1>3, <2>2 DEF LineInv
      <4>2. todo = <<>> /\ sent \in Seq(Chars)
        BY <1>1 DEF LineInv, SerialInv, ConsoleTypeOK
      <4> QED
        BY <4>1, <4>2
    <3> QED
      BY <3>1, <3>2
  <2> QED
    BY <1>1, <2>1, <2>2
<1>6. done >= 5 => sent' \o todo' = <<>>
  BY <1>1, <1>5
<1>7. done < 5 \/ done >= 5
  BY <1>1
<1> QED
  BY <1>1, <1>3, <1>4, <1>6, <1>7 DEF LineInv

LEMMA LineInvNext == SerialInv /\ LineInv /\ [Next]_vars => LineInv'
<1> SUFFICES ASSUME SerialInv, LineInv, [Next]_vars PROVE LineInv'
  OBVIOUS
<1> USE DEF consoleVars
<1>1. CASE CallSend
  BY <1>1, LineInvCallSend
<1>2. CASE (PollReady \/ PollAgain \/ PollGiveUp \/ Write) /\ UNCHANGED consoleVars
  BY <1>2 DEF PollReady, PollAgain, PollGiveUp, Write, LineInv, SerialInv, CallInv
<1>3. CASE InitWrite /\ UNCHANGED consoleVars
  BY <1>3, LineInvInitWrite
<1>4. ASSUME NEW ch \in Chars, OutChar(ch) PROVE LineInv'
  BY <1>4, LineInvOutChar
<1>5. CASE CallInitPort
  BY <1>5 DEF CallInitPort, InitPort, LineInv
<1>6. CASE CallDisable
  BY <1>6 DEF CallDisable, Disable, LineInv
<1>7. ASSUME NEW p \in Ports, Transmit(p), UNCHANGED consoleVars PROVE LineInv'
  BY <1>7 DEF Transmit, driverVars, LineInv
<1>8. CASE UNCHANGED vars
  BY <1>8 DEF vars, serialVars, driverVars, LineInv
<1> QED
  BY <1>1, <1>2, <1>3, <1>4, <1>5, <1>6, <1>7, <1>8
     DEF Next, ConsoleStep, CallOutChar, DriverStep

(* The serial line shows what the screen shows: since the port was set up, *)
(* the stream of the characters that out_char was called with has gone to  *)
(* the uart up to some point, and all of it while output stays enabled.    *)
THEOREM LineFollowsScreenHolds == Spec => []LineFollowsScreen
<1>1. Spec => []LineInv
  <2> QED
    BY LineInvInit, LineInvNext, SerialInvHolds, PTL DEF Spec
<1>2. SerialInv /\ LineInv => LineFollowsScreen
  <2> SUFFICES ASSUME SerialInv, LineInv, serial_base \in present, at # "init"
               PROVE  LET printed == Stream(SubSeq(log, logged + 1, Len(log))) IN
                        /\ IsPrefix(Output(serial_base), printed)
                        /\ output_enabled /\ at = "idle" /\ todo = <<>> =>
                             Output(serial_base) = printed
    BY DEF LineFollowsScreen
  <2>1. sent \o todo = Stream(SubSeq(log, logged + 1, Len(log)))
    BY DEF LineInv
  <2>2. sent \in Seq(Chars) /\ todo \in Seq(Chars) /\ Output(serial_base) \in Seq(Chars)
    BY DEF SerialInv, ConsoleTypeOK, Output, Uart
  <2>3. /\ IsPrefix(Output(serial_base), sent)
        /\ output_enabled /\ at = "idle" => Output(serial_base) = sent
    BY DEF SerialInv, OutputInv
  <2>4. IsPrefix(Output(serial_base), sent \o todo)
    BY <2>2, <2>3, PrefixConcat
  <2>5. todo = <<>> => sent \o todo = sent
    BY <2>2
  <2> QED
    BY <2>1, <2>3, <2>4, <2>5
<1> QED
  BY <1>1, <1>2, SerialInvHolds, PTL

-----------------------------------------------------------------------------
(* The screen. *)

(* Where the characters of lg go on a screen without end: the n-th one to  *)
(* row[n - 1] and column[n - 1].                                           *)
Walk(row, column, lg) ==
  /\ row \in [0 .. Len(lg) -> Nat] /\ column \in [0 .. Len(lg) -> 0 .. Cols - 1]
  /\ row[0] = 0 /\ column[0] = 0
  /\ \A n \in 1 .. Len(lg) :
       IF lg[n] = NL \/ column[n - 1] = Cols - 1
         THEN row[n] = row[n - 1] + 1 /\ column[n] = 0
         ELSE row[n] = row[n - 1] /\ column[n] = column[n - 1] + 1
  /\ \A n \in 0 .. Len(lg) : row[n] <= row[Len(lg)]

(* The n-th character of lg goes to (r, k) of a screen that starts at top. *)
IsAt(row, column, lg, top, n, r, k) ==
  lg[n] # NL /\ row[n - 1] = top + r /\ column[n - 1] = k

(* The screen s shows at (r, k) a character that went there, or what is    *)
(* behind the text if none did.                                            *)
Shown(row, column, lg, top, s, r, k) ==
  \/ \E n \in 1 .. Len(lg) :
       IsAt(row, column, lg, top, n, r, k) /\ s[Base(r) + k] = lg[n]
  \/ /\ s[Base(r) + k] = Behind(top + (Rows - 1), Base(r) + k)
     /\ \A n \in 1 .. Len(lg) : ~IsAt(row, column, lg, top, n, r, k)

ShownAll(row, column, lg, top, s) ==
  \A r \in 0 .. Rows - 1, k \in 0 .. Cols - 1 : Shown(row, column, lg, top, s, r, k)

Screens == [0 .. Rows * Cols - 1 -> Chars \cup {Blank}]

(* The next character goes to the last row, at col. *)
ScreenInv ==
  /\ log \in Seq(Chars)
  /\ screen \in Screens
  /\ \E row, column :
       /\ Walk(row, column, log)
       /\ col = column[Len(log)]
       /\ ShownAll(row, column, log, row[Len(log)] - (Rows - 1), screen)

LEMMA ScreenConstants ==
  /\ NL \in Chars /\ CR \in Chars /\ NL # CR /\ Blank \notin Chars
  /\ Rows \in Nat \ {0} /\ Cols \in Nat \ {0}
BY ConsoleAssumption

(* The cells of the screen, row by row. *)
LEMMA CellIndex ==
  ASSUME NEW r \in 0 .. Rows - 1, NEW k \in 0 .. Cols - 1
  PROVE  /\ Base(r) + k \in 0 .. Rows * Cols - 1
         /\ Base(r) \in Int
         /\ Base(r + 1) = Base(r) + Cols
         /\ r < Rows - 1 => Base(r) + k < Base(Rows - 1)
         /\ r = Rows - 1 => ~(Base(r) + k < Base(Rows - 1))
<1> USE ScreenConstants
<1>1. /\ Base(r) \in Int /\ Base(Rows) \in Int /\ Base(Rows - 1) \in Int
      /\ Base(r + 1) = Base(r) + Cols /\ Base(r) >= 0
      /\ Base(Rows) = Base(Rows - 1) + Cols
      /\ Base(Rows) = Rows * Cols
  BY DEF Base
<1>2. \A a, b \in Int : a <= b => a * Cols <= b * Cols
  OBVIOUS
<1>3. r < Rows - 1 => Base(r + 1) <= Base(Rows - 1)
  BY <1>2 DEF Base
<1>4. Base(r + 1) <= Base(Rows)
  BY <1>2 DEF Base
<1> QED
  BY <1>1, <1>3, <1>4

LEMMA CellDiffers ==
  ASSUME NEW r \in 0 .. Rows - 1, NEW k \in 0 .. Cols - 1,
         NEW q \in 0 .. Rows - 1, NEW j \in 0 .. Cols - 1,
         Base(r) + k = Base(q) + j
  PROVE  r = q /\ k = j
<1> USE ScreenConstants
<1>1. \A a, b \in Int : a <= b => a * Cols <= b * Cols
  OBVIOUS
<1>2. /\ Base(r) \in Int /\ Base(q) \in Int
      /\ Base(r + 1) = Base(r) + Cols /\ Base(q + 1) = Base(q) + Cols
  BY DEF Base
<1>3. /\ r + 1 <= q => Base(r + 1) <= Base(q)
      /\ q + 1 <= r => Base(q + 1) <= Base(r)
  BY <1>1 DEF Base
<1>4. r = q
  BY <1>2, <1>3
<1> QED
  BY <1>2, <1>4

LEMMA DivCols ==
  \A x \in Int : /\ x \div Cols \in Int
                 /\ x = (x \div Cols) * Cols + (x % Cols)
                 /\ x % Cols \in 0 .. Cols - 1
BY ScreenConstants

(* Every index is that of a row and a column. *)
LEMMA IndexCell ==
  ASSUME NEW n \in 0 .. Rows * Cols - 1
  PROVE  /\ n \div Cols \in 0 .. Rows - 1
         /\ n % Cols \in 0 .. Cols - 1
         /\ n = Base(n \div Cols) + (n % Cols)
<1> USE ScreenConstants
<1>n. n \in Nat /\ n \in Int
  <2>1. Rows * Cols \in Int
    OBVIOUS
  <2> QED
    BY <2>1
<1>1. /\ n \div Cols \in Int
      /\ n = (n \div Cols) * Cols + (n % Cols)
      /\ n % Cols \in 0 .. Cols - 1
  BY <1>n, DivCols, Zenon
<1>2. n = Base(n \div Cols) + (n % Cols)
  BY <1>1 DEF Base
<1> DEFINE d == n \div Cols
<1>3. d \in Int /\ Base(d) > -Cols /\ Base(d) < Rows * Cols /\ Base(d) = d * Cols
  BY <1>n, <1>1, <1>2 DEF Base
<1> HIDE DEF d
<1>4. \A a, b \in Int : a <= b => a * Cols <= b * Cols
  OBVIOUS
<1>5. ~(d <= -1)
  BY <1>3, <1>4
<1>6. ~(Rows <= d)
  BY <1>3, <1>4
<1>7. d \in 0 .. Rows - 1
  BY <1>3, <1>5, <1>6
<1> QED
  BY <1>1, <1>2, <1>7 DEF d


(* out_char advances to the next cell. *)
Advances(row, column, lg, row2, column2, ch) ==
  LET n == Len(lg) + 1 IN
  /\ Walk(row2, column2, Append(lg, ch))
  /\ \A m \in 0 .. Len(lg) : row2[m] = row[m] /\ column2[m] = column[m]
  /\ IF ch = NL \/ column[n - 1] = Cols - 1
       THEN row2[n] = row[n - 1] + 1 /\ column2[n] = 0
       ELSE row2[n] = row[n - 1] /\ column2[n] = column[n - 1] + 1

LEMMA WalkAppend ==
  ASSUME NEW lg \in Seq(Chars), NEW ch \in Chars, NEW row, NEW column,
         Walk(row, column, lg)
  PROVE  \E row2, column2 : Advances(row, column, lg, row2, column2, ch)
<1> USE ScreenConstants
<1> DEFINE lg2 == Append(lg, ch)
<1>1. PICK m \in Nat : m = Len(lg)
  OBVIOUS
<1>2. Len(lg2) = m + 1 /\ lg2[m + 1] = ch /\ \A j \in 1 .. m : lg2[j] = lg[j]
  BY <1>1
<1>3. /\ row \in [0 .. m -> Nat] /\ column \in [0 .. m -> 0 .. Cols - 1]
      /\ row[0] = 0 /\ column[0] = 0
      /\ \A n \in 1 .. m :
           IF lg[n] = NL \/ column[n - 1] = Cols - 1
             THEN row[n] = row[n - 1] + 1 /\ column[n] = 0
             ELSE row[n] = row[n - 1] /\ column[n] = column[n - 1] + 1
      /\ \A n \in 0 .. m : row[n] <= row[m]
  BY <1>1 DEF Walk
<1> DEFINE ends == ch = NL \/ column[m] = Cols - 1
           nextRow == IF ends THEN row[m] + 1 ELSE row[m]
           nextCol == IF ends THEN 0 ELSE column[m] + 1
           row2 == [n \in 0 .. m + 1 |-> IF n <= m THEN row[n] ELSE nextRow]
           column2 == [n \in 0 .. m + 1 |-> IF n <= m THEN column[n] ELSE nextCol]
<1>4. /\ row[m] \in Nat /\ nextRow \in Nat /\ nextRow >= row[m]
      /\ column[m] \in 0 .. Cols - 1 /\ nextCol \in 0 .. Cols - 1
  <2>1. row[m] \in Nat /\ column[m] \in 0 .. Cols - 1
    BY <1>3
  <2>2. PICK r \in Nat, k \in 0 .. Cols - 1 : r = row[m] /\ k = column[m]
    BY <2>1
  <2> QED
    BY <2>2
<1>5. /\ row2 \in [0 .. m + 1 -> Nat] /\ column2 \in [0 .. m + 1 -> 0 .. Cols - 1]
      /\ row2[m + 1] = nextRow /\ column2[m + 1] = nextCol
      /\ \A n \in 0 .. m : row2[n] = row[n] /\ column2[n] = column[n]
  <2> HIDE DEF nextRow, nextCol
  <2>1. row2 \in [0 .. m + 1 -> Nat]
    BY <1>3, <1>4
  <2>2. column2 \in [0 .. m + 1 -> 0 .. Cols - 1]
    BY <1>3, <1>4
  <2>3. /\ row2[m + 1] = nextRow /\ column2[m + 1] = nextCol
        /\ \A n \in 0 .. m : row2[n] = row[n] /\ column2[n] = column[n]
    OBVIOUS
  <2> QED
    BY <2>1, <2>2, <2>3
<1>6. IF ends THEN nextRow = row[m] + 1 /\ nextCol = 0
              ELSE nextRow = row[m] /\ nextCol = column[m] + 1
  OBVIOUS
<1> HIDE DEF row2, column2, nextRow, nextCol
<1>7. ASSUME NEW n \in 1 .. m + 1
      PROVE  IF lg2[n] = NL \/ column2[n - 1] = Cols - 1
               THEN row2[n] = row2[n - 1] + 1 /\ column2[n] = 0
               ELSE row2[n] = row2[n - 1] /\ column2[n] = column2[n - 1] + 1
  <2>1. CASE n \in 1 .. m
    <3>1. n - 1 \in 0 .. m /\ n \in 0 .. m
      BY <2>1
    <3>2. /\ row2[n] = row[n] /\ column2[n] = column[n] /\ lg2[n] = lg[n]
          /\ row2[n - 1] = row[n - 1] /\ column2[n - 1] = column[n - 1]
      BY <1>2, <1>5, <2>1, <3>1
    <3> QED
      BY <1>3, <2>1, <3>2
  <2>2. CASE n = m + 1
    <3>1. n - 1 = m /\ m \in 0 .. m
      BY <2>2
    <3>2. row2[m] = row[m] /\ column2[m] = column[m]
      BY <1>5, <3>1
    <3> QED
      BY <1>2, <1>5, <1>6, <2>2, <3>1, <3>2
  <2>3. n \in 1 .. m \/ n = m + 1
    OBVIOUS
  <2> QED
    BY <2>1, <2>2, <2>3, Zenon
<1>8. ASSUME NEW n \in 0 .. m + 1 PROVE row2[n] <= row2[m + 1]
  <2>1. CASE n \in 0 .. m
    <3>1. row2[n] = row[n] /\ row[n] \in Nat /\ row[n] <= row[m]
      BY <1>3, <1>5, <2>1
    <3> QED
      BY <1>4, <1>5, <3>1, SMTT(40)
  <2>2. CASE n = m + 1
    BY <1>4, <1>5, <2>2
  <2> QED
    BY <2>1, <2>2
<1>9. Walk(row2, column2, lg2)
  <2>1. row2[0] = 0 /\ column2[0] = 0
    BY <1>3, <1>5
  <2> HIDE DEF lg2
  <2> QED
    BY <1>2, <1>5, <1>7, <1>8, <2>1 DEF Walk
<1>10. Advances(row, column, lg, row2, column2, ch)
  <2>1. m + 1 - 1 = m
    OBVIOUS
  <2> QED
    BY <1>1, <1>5, <1>6, <1>9, <2>1 DEF Advances
<1> QED
  BY <1>10


LEMMA ScreenInvInit == Init => ScreenInv
<1> SUFFICES ASSUME Init PROVE ScreenInv
  OBVIOUS
<1> USE ConsoleAssumption
<1>1. log = <<>> /\ col = 0 /\ screen = Firmware
  BY DEF Init
<1> DEFINE zero == [n \in 0 .. 0 |-> 0]
<1>2. zero \in [0 .. 0 -> Nat] /\ zero \in [0 .. 0 -> 0 .. Cols - 1] /\ zero[0] = 0
  OBVIOUS
<1> HIDE DEF zero
<1>3. Walk(zero, zero, log) /\ col = zero[Len(log)]
  BY <1>1, <1>2 DEF Walk
<1>4. ASSUME NEW r \in 0 .. Rows - 1, NEW k \in 0 .. Cols - 1
      PROVE  Shown(zero, zero, log, 0 - (Rows - 1), screen, r, k)
  <2>1. PICK x : x = Base(r) + k
    OBVIOUS
  <2>2. x \in 0 .. Rows * Cols - 1 /\ x \in Int
    BY <2>1, CellIndex
  <2>3. (0 - (Rows - 1)) + (Rows - 1) = 0 /\ x + (0 * Cols) = x /\ x < Rows * Cols
    BY <2>2
  <2>4. screen[x] = Behind(0, x)
    BY <1>1, <2>3 DEF Behind
  <2> QED
    BY <1>1, <2>1, <2>3, <2>4 DEF Shown
<1>5. ShownAll(zero, zero, log, zero[Len(log)] - (Rows - 1), screen)
  BY <1>1, <1>2, <1>4 DEF ShownAll
<1>6. log \in Seq(Chars) /\ screen \in Screens
  BY <1>1 DEF Screens
<1> QED
  BY <1>3, <1>5, <1>6 DEF ScreenInv

(* The last row of the screen shows nothing from beyond its cells: the     *)
(* character that is put shows, and the others still do.                   *)
LEMMA ShownPut ==
  ASSUME NEW lg \in Seq(Chars), NEW ch \in Chars, NEW s \in Screens,
         NEW row, NEW column, NEW row2, NEW column2,
         Walk(row, column, lg), Advances(row, column, lg, row2, column2, ch),
         ShownAll(row, column, lg, row[Len(lg)] - (Rows - 1), s),
         NEW t, t = IF ch # NL THEN [s EXCEPT ![Base(Rows - 1) + column[Len(lg)]] = ch] ELSE s
  PROVE  /\ t \in Screens
         /\ ShownAll(row2, column2, Append(lg, ch), row[Len(lg)] - (Rows - 1), t)
<1> USE ScreenConstants
<1> DEFINE lg2 == Append(lg, ch)
<1>1. PICK m \in Nat : m = Len(lg)
  OBVIOUS
<1>2. Len(lg2) = m + 1 /\ lg2[m + 1] = ch /\ \A j \in 1 .. m : lg2[j] = lg[j]
  BY <1>1
<1>3. /\ row[m] \in Nat /\ column[m] \in 0 .. Cols - 1 /\ Rows - 1 \in 0 .. Rows - 1
      /\ \A n \in 0 .. m : row[n] \in Nat /\ column[n] \in 0 .. Cols - 1
  <2>1. row \in [0 .. m -> Nat] /\ column \in [0 .. m -> 0 .. Cols - 1]
    BY <1>1 DEF Walk
  <2> QED
    BY <2>1
<1>4. \A n \in 0 .. m : row2[n] = row[n] /\ column2[n] = column[n]
  BY <1>1 DEF Advances
<1> DEFINE here == Base(Rows - 1) + column[m]
           top == row[m] - (Rows - 1)
<1>5. here \in 0 .. Rows * Cols - 1
  BY <1>3, CellIndex
<1>6. t \in Screens
  BY <1>1, <1>5 DEF Screens
<1>7. ASSUME NEW r \in 0 .. Rows - 1, NEW k \in 0 .. Cols - 1
      PROVE  Shown(row2, column2, lg2, top, t, r, k)
  <2> DEFINE x == Base(r) + k
  <2>1. x \in 0 .. Rows * Cols - 1
    BY CellIndex
  <2>2. \A n \in 1 .. m : IsAt(row2, column2, lg2, top, n, r, k)
                            <=> IsAt(row, column, lg, top, n, r, k)
    <3> SUFFICES ASSUME NEW n \in 1 .. m
                 PROVE  IsAt(row2, column2, lg2, top, n, r, k)
                          <=> IsAt(row, column, lg, top, n, r, k)
      OBVIOUS
    <3>1. n - 1 \in 0 .. m
      OBVIOUS
    <3>2. lg2[n] = lg[n] /\ row2[n - 1] = row[n - 1] /\ column2[n - 1] = column[n - 1]
      BY <1>2, <1>4, <3>1
    <3> QED
      BY <3>2 DEF IsAt
  <2>3. Shown(row, column, lg, top, s, r, k)
    BY <1>1 DEF ShownAll
  <2>4. IsAt(row2, column2, lg2, top, m + 1, r, k)
          <=> ch # NL /\ r = Rows - 1 /\ k = column[m]
    <3>1. m \in 0 .. m /\ m + 1 - 1 = m
      OBVIOUS
    <3>2. row2[m] = row[m] /\ column2[m] = column[m]
      BY <1>4, <3>1
    <3>3. row[m] = top + r <=> r = Rows - 1
      BY <1>3
    <3> QED
      BY <1>2, <3>1, <3>2, <3>3 DEF IsAt
  <2>5. CASE ch # NL /\ r = Rows - 1 /\ k = column[m]
    <3>1. t[x] = ch
      BY <1>1, <1>5, <2>5 DEF Screens
    <3>2. m + 1 \in 1 .. m + 1
      OBVIOUS
    <3> QED
      BY <1>2, <2>4, <2>5, <3>1, <3>2 DEF Shown
  <2>6. CASE ~(ch # NL /\ r = Rows - 1 /\ k = column[m])
    <3>1. t[x] = s[x]
      <4>1. ch # NL => x # here
        BY <1>3, <2>6, CellDiffers
      <4> QED
        BY <1>1, <2>1, <4>1 DEF Screens
    <3>2. CASE \E n \in 1 .. m : IsAt(row, column, lg, top, n, r, k) /\ s[x] = lg[n]
      <4>1. PICK n \in 1 .. m : IsAt(row, column, lg, top, n, r, k) /\ s[x] = lg[n]
        BY <3>2
      <4>2. n \in 1 .. m + 1 /\ t[x] = lg2[n] /\ IsAt(row2, column2, lg2, top, n, r, k)
        BY <1>2, <2>2, <3>1, <4>1
      <4> QED
        BY <1>2, <4>2 DEF Shown
    <3>3. CASE /\ s[x] = Behind(top + (Rows - 1), x)
               /\ \A n \in 1 .. m : ~IsAt(row, column, lg, top, n, r, k)
      <4>1. \A n \in 1 .. m + 1 : ~IsAt(row2, column2, lg2, top, n, r, k)
        BY <2>2, <2>4, <2>6, <3>3
      <4> QED
        BY <1>2, <3>1, <3>3, <4>1 DEF Shown
    <3> QED
      BY <1>1, <2>3, <3>2, <3>3 DEF Shown
  <2> QED
    BY <2>5, <2>6
<1> HIDE DEF lg2
<1>8. ShownAll(row2, column2, lg2, top, t)
  BY <1>7 DEF ShownAll
<1> QED
  BY <1>1, <1>6, <1>8 DEF lg2

(* When the screen scrolls, its rows move up and the last one is empty. *)
LEMMA ShownScrolled ==
  ASSUME NEW lg \in Seq(Chars), NEW s \in Screens, NEW row, NEW column, NEW top \in Int,
         NEW m \in Nat, Len(lg) = m + 1, Walk(row, column, lg),
         0 <= top + (Rows - 1),
         \A n \in 0 .. m : row[n] < top + Rows,
         ShownAll(row, column, lg, top, s)
  PROVE  /\ Scrolled(s) \in Screens
         /\ ShownAll(row, column, lg, top + 1, Scrolled(s))
<1> USE ScreenConstants
<1> DEFINE t == Scrolled(s)
<1>1. DOMAIN s = 0 .. Rows * Cols - 1
  BY DEF Screens
<1>2. \A n \in 0 .. Rows * Cols - 1 :
        t[n] = IF n < Base(Rows - 1) THEN s[n + Cols] ELSE Blank
  BY <1>1 DEF Scrolled
<1>3. ASSUME NEW r \in 0 .. Rows - 1, NEW k \in 0 .. Cols - 1
      PROVE  /\ r < Rows - 1 => t[Base(r) + k] = s[Base(r + 1) + k]
             /\ r = Rows - 1 => t[Base(r) + k] = Blank
  <2>1. /\ Base(r) + k \in 0 .. Rows * Cols - 1
        /\ Base(r) \in Int
        /\ Base(r + 1) = Base(r) + Cols
        /\ r < Rows - 1 => Base(r) + k < Base(Rows - 1)
        /\ r = Rows - 1 => ~(Base(r) + k < Base(Rows - 1))
    BY CellIndex
  <2>2. (Base(r) + k) + Cols = Base(r + 1) + k
    BY <2>1
  <2>3. t[Base(r) + k] = IF Base(r) + k < Base(Rows - 1)
                           THEN s[(Base(r) + k) + Cols] ELSE Blank
    BY <1>2, <2>1
  <2> HIDE DEF t
  <2> QED
    BY <2>1, <2>2, <2>3
<1>6. ASSUME NEW r \in 0 .. Rows - 1, NEW k \in 0 .. Cols - 1
      PROVE  /\ r < Rows - 1 => Behind(top + 1 + (Rows - 1), Base(r) + k)
                                  = Behind(top + (Rows - 1), Base(r + 1) + k)
             /\ r = Rows - 1 => Behind(top + 1 + (Rows - 1), Base(r) + k) = Blank
  <2>1. PICK above \in Nat : above = top + (Rows - 1)
    OBVIOUS
  <2>2. top + 1 + (Rows - 1) = above + 1
    BY <2>1
  <2>3. PICK x \in Int : x = Base(r) + k
    BY CellIndex
  <2>4. PICK size \in Int : size = Rows * Cols
    OBVIOUS
  <2>5. PICK gone \in Int : gone = above * Cols
    OBVIOUS
  <2>6. (above + 1) * Cols = gone + Cols /\ 0 <= gone
    BY <2>5
  <2>7. r < Rows - 1 => Base(r + 1) + k = x + Cols
    <3>1. Base(r + 1) = Base(r) + Cols /\ Base(r) \in Int
      BY CellIndex
    <3> QED
      BY <2>3, <3>1
  <2>8. x + (gone + Cols) = (x + Cols) + gone
    BY <2>3, <2>5
  <2>9. ASSUME r < Rows - 1 PROVE Behind(above + 1, x) = Behind(above, x + Cols)
    BY <2>5, <2>6, <2>8, Zenon DEF Behind
  <2>10. ASSUME r = Rows - 1 PROVE Behind(above + 1, x) = Blank
    <3>1. Base(Rows - 1) <= x /\ Base(Rows - 1) \in Int /\ Base(Rows - 1) + Cols = size
      BY <2>3, <2>4, <2>10 DEF Base
    <3>2. ~(x + (gone + Cols) < size)
      BY <2>6, <3>1
    <3> QED
      BY <2>4, <2>6, <3>2, Zenon DEF Behind
  <2> QED
    BY <2>1, <2>2, <2>3, <2>7, <2>9, <2>10
<1>4. ASSUME NEW r \in 0 .. Rows - 1, NEW k \in 0 .. Cols - 1
      PROVE  Shown(row, column, lg, top + 1, t, r, k)
  <2> HIDE DEF t
  <2>1. CASE r < Rows - 1
    <3>1. r + 1 \in 0 .. Rows - 1
      BY <2>1
    <3>2. Shown(row, column, lg, top, s, r + 1, k)
      BY <3>1 DEF ShownAll
    <3>3. \A n \in 1 .. Len(lg) : IsAt(row, column, lg, top + 1, n, r, k)
                                    <=> IsAt(row, column, lg, top, n, r + 1, k)
      <4>1. top + 1 + r = top + (r + 1)
        OBVIOUS
      <4> QED
        BY <4>1 DEF IsAt
    <3>4. t[Base(r) + k] = s[Base(r + 1) + k]
      BY <1>3, <2>1
    <3>5. Behind(top + 1 + (Rows - 1), Base(r) + k)
            = Behind(top + (Rows - 1), Base(r + 1) + k)
      BY <1>6, <2>1
    <3> QED
      BY <3>2, <3>3, <3>4, <3>5 DEF Shown
  <2>2. CASE r = Rows - 1
    <3>1. t[Base(r) + k] = Blank
      BY <1>3, <2>2
    <3>2. \A n \in 1 .. Len(lg) : ~IsAt(row, column, lg, top + 1, n, r, k)
      <4> SUFFICES ASSUME NEW n \in 1 .. m + 1 PROVE row[n - 1] # top + 1 + r
        BY DEF IsAt
      <4>1. n - 1 \in 0 .. m
        OBVIOUS
      <4>2. row[n - 1] < top + Rows /\ row[n - 1] \in Nat
        BY <4>1 DEF Walk
      <4> QED
        BY <2>2, <4>2
    <3>3. Behind(top + 1 + (Rows - 1), Base(r) + k) = Blank
      BY <1>6, <2>2
    <3> QED
      BY <3>1, <3>2, <3>3 DEF Shown
  <2> QED
    BY <2>1, <2>2
<1>5. t \in Screens
  <2>1. t = [n \in 0 .. Rows * Cols - 1 |-> IF n < Base(Rows - 1) THEN s[n + Cols] ELSE Blank]
    BY <1>1 DEF Scrolled
  <2>2. ASSUME NEW n \in 0 .. Rows * Cols - 1, n < Base(Rows - 1)
        PROVE  s[n + Cols] \in Chars \cup {Blank}
    <3>1. Base(Rows - 1) \in Int /\ Base(Rows - 1) + Cols = Rows * Cols
      BY DEF Base
    <3>2. n + Cols \in 0 .. Rows * Cols - 1
      BY <2>2, <3>1
    <3> QED
      BY <3>2 DEF Screens
  <2> QED
    BY <2>1, <2>2 DEF Screens
<1> HIDE DEF t
<1> QED
  BY <1>4, <1>5 DEF ShownAll, t


LEMMA ScreenInvOutChar ==
  ASSUME ScreenInv, NEW ch \in Chars, OutChar(ch)
  PROVE  ScreenInv'
<1> USE ScreenConstants
<1>1. PICK m \in Nat : m = Len(log)
  BY DEF ScreenInv
<1>2. PICK row, column : /\ Walk(row, column, log) /\ col = column[m]
                         /\ ShownAll(row, column, log, row[m] - (Rows - 1), screen)
  BY <1>1 DEF ScreenInv
<1>3. PICK row2, column2 : Advances(row, column, log, row2, column2, ch)
  BY <1>2, WalkAppend DEF ScreenInv
<1> DEFINE t == IF ch # NL THEN [screen EXCEPT ![Base(Rows - 1) + col] = ch] ELSE screen
           lg2 == Append(log, ch)
           top == row[m] - (Rows - 1)
<1>4. Len(lg2) = m + 1 /\ lg2 \in Seq(Chars) /\ log' = lg2
  BY <1>1 DEF ScreenInv, OutChar
<1>5. t \in Screens /\ ShownAll(row2, column2, lg2, top, t)
  BY <1>1, <1>2, <1>3, ShownPut DEF ScreenInv
<1>6. /\ row \in [0 .. m -> Nat] /\ column \in [0 .. m -> 0 .. Cols - 1]
      /\ \A n \in 0 .. m : row[n] <= row[m]
  BY <1>1, <1>2 DEF Walk
<1>7. /\ Walk(row2, column2, lg2)
      /\ \A n \in 0 .. m : row2[n] = row[n]
      /\ IF ch = NL \/ column[m] = Cols - 1
           THEN row2[m + 1] = row[m] + 1 /\ column2[m + 1] = 0
           ELSE row2[m + 1] = row[m] /\ column2[m + 1] = column[m] + 1
  <2>1. Len(log) + 1 - 1 = m
    BY <1>1
  <2> QED
    BY <1>1, <1>3, <2>1 DEF Advances
<1>8. /\ ch = NL \/ column[m] = Cols - 1 => col' = 0 /\ screen' = Scrolled(t)
      /\ ~(ch = NL \/ column[m] = Cols - 1) => col' = column[m] + 1 /\ screen' = t
  <2>1. column[m] \in 0 .. Cols - 1
    BY <1>6
  <2>2. CASE ch = NL
    BY <1>2, <2>1, <2>2 DEF OutChar, RowEnds
  <2>3. CASE ch # NL
    BY <1>2, <2>1, <2>3 DEF OutChar, RowEnds
  <2> QED
    BY <2>2, <2>3
<1>9. row[m] \in Nat
  BY <1>6
<1> HIDE DEF t, lg2
<1>10. CASE ch = NL \/ column[m] = Cols - 1
  <2>1. \A n \in 0 .. m : row2[n] < top + Rows
    BY <1>6, <1>7, <1>9
  <2>2. Scrolled(t) \in Screens /\ ShownAll(row2, column2, lg2, top + 1, Scrolled(t))
    <3>1. 0 <= top + (Rows - 1)
      BY <1>9
    <3> QED
      BY <1>4, <1>5, <1>7, <1>9, <2>1, <3>1, ShownScrolled
  <2>3. top + 1 = row2[m + 1] - (Rows - 1)
    BY <1>7, <1>9, <1>10
  <2>4. /\ screen' \in Screens /\ Walk(row2, column2, log') /\ col' = column2[Len(log')]
        /\ ShownAll(row2, column2, log', row2[Len(log')] - (Rows - 1), screen')
    BY <1>4, <1>7, <1>8, <1>10, <2>2, <2>3
  <2> QED
    BY <1>4, <2>4 DEF ScreenInv
<1>11. CASE ~(ch = NL \/ column[m] = Cols - 1)
  <2>1. top = row2[m + 1] - (Rows - 1)
    BY <1>7, <1>11
  <2>2. /\ screen' \in Screens /\ Walk(row2, column2, log') /\ col' = column2[Len(log')]
        /\ ShownAll(row2, column2, log', row2[Len(log')] - (Rows - 1), screen')
    BY <1>4, <1>5, <1>7, <1>8, <1>11, <2>1
  <2> QED
    BY <1>4, <2>2 DEF ScreenInv
<1> QED
  BY <1>10, <1>11

LEMMA ScreenInvNext == ScreenInv /\ [Next]_vars => ScreenInv'
<1> SUFFICES ASSUME ScreenInv, [Next]_vars PROVE ScreenInv'
  OBVIOUS
<1>1. ASSUME NEW ch \in Chars, OutChar(ch) PROVE ScreenInv'
  BY <1>1, ScreenInvOutChar
<1>2. ASSUME UNCHANGED <<screen, col, log>> PROVE ScreenInv'
  BY <1>2 DEF ScreenInv
<1>3. CASE CallSend \/ CallInitPort \/ CallDisable
  BY <1>2, <1>3 DEF CallSend, CallInitPort, CallDisable
<1>4. CASE UNCHANGED consoleVars \/ UNCHANGED vars
  BY <1>2, <1>4 DEF consoleVars, vars
<1> QED
  BY <1>1, <1>3, <1>4 DEF Next, ConsoleStep, CallOutChar

(* The cells of the property are the rows and columns of the walk. *)
LEMMA CellIsWalk ==
  ASSUME NEW row, NEW column, log \in Seq(Chars), Walk(row, column, log)
  PROVE  \A n \in 0 .. Len(log) : Cell[n] = <<row[n], column[n]>>
<1>1. PICK m \in Nat : m = Len(log)
  OBVIOUS
<1> DEFINE C(g) == [n \in 0 .. m |->
             IF n = 0 THEN <<0, 0>>
             ELSE IF log[n] = NL \/ g[n - 1][2] = Cols - 1
                    THEN <<g[n - 1][1] + 1, 0>>
                    ELSE <<g[n - 1][1], g[n - 1][2] + 1>>]
           F == CHOOSE g : g = C(g)
           h == [n \in 0 .. m |-> <<row[n], column[n]>>]
<1>2. Cell = F
  BY <1>1 DEF Cell
<1>3. /\ row[0] = 0 /\ column[0] = 0
      /\ \A n \in 1 .. m :
           IF log[n] = NL \/ column[n - 1] = Cols - 1
             THEN row[n] = row[n - 1] + 1 /\ column[n] = 0
             ELSE row[n] = row[n - 1] /\ column[n] = column[n - 1] + 1
  BY <1>1 DEF Walk
<1>4. \A n \in 0 .. m : h[n] = <<row[n], column[n]>>
  OBVIOUS
<1>5. h = C(h)
  <2> SUFFICES ASSUME NEW n \in 0 .. m PROVE h[n] = C(h)[n]
    <3>1. DOMAIN h = 0 .. m /\ h = [n \in 0 .. m |-> h[n]]
      OBVIOUS
    <3> QED
      BY <3>1
  <2>1. CASE n = 0
    BY <1>3, <1>4, <2>1
  <2>2. CASE n # 0
    <3>1. n \in 1 .. m /\ n - 1 \in 0 .. m
      BY <2>2
    <3>2. /\ h[n] = <<row[n], column[n]>>
          /\ h[n - 1][1] = row[n - 1] /\ h[n - 1][2] = column[n - 1]
      BY <1>4, <3>1
    <3> HIDE DEF h
    <3> QED
      BY <1>3, <2>2, <3>1, <3>2
  <2> QED
    BY <2>1, <2>2
<1>6. F = C(F)
  <2>1. \E g : g = C(g)
    BY <1>5
  <2> HIDE DEF C
  <2> QED
    BY <2>1
<1> HIDE DEF F, h
<1>7. \A n \in 0 .. m : F[n] = h[n]
  <2>1. F[0] = h[0]
    BY <1>3, <1>4, <1>6
  <2>2. ASSUME NEW n \in 1 .. m, F[n - 1] = h[n - 1] PROVE F[n] = h[n]
    <3>1. n \in 0 .. m /\ n # 0
      OBVIOUS
    <3>2. F[n] = C(F)[n] /\ h[n] = C(h)[n]
      BY <1>5, <1>6
    <3> QED
      BY <2>2, <3>1, <3>2
  <2> QED
    BY <2>1, <2>2, StepsAgree, SMTT(40)
<1> QED
  BY <1>1, <1>2, <1>4, <1>7

(* The screen shows the last rows of what was printed, and above and       *)
(* behind it what was there before (util.c:62-79).                         *)
THEOREM ScreenShowsTailHolds == Spec => []ScreenShowsTail
<1>1. Spec => []ScreenInv
  BY ScreenInvInit, ScreenInvNext, PTL DEF Spec
<1>2. ScreenInv => ScreenShowsTail
  <2> SUFFICES ASSUME ScreenInv PROVE ScreenShowsTail
    OBVIOUS
  <2> USE ScreenConstants
  <2>1. PICK m \in Nat : m = Len(log)
    BY DEF ScreenInv
  <2>2. PICK row, column : /\ Walk(row, column, log)
                           /\ ShownAll(row, column, log, row[m] - (Rows - 1), screen)
    BY <2>1 DEF ScreenInv
  <2>3. DOMAIN log = 1 .. m /\ DOMAIN screen = 0 .. Rows * Cols - 1 /\ log \in Seq(Chars)
    BY <2>1 DEF ScreenInv, Screens
  <2>4. \A n \in 0 .. m : Cell[n] = <<row[n], column[n]>>
    BY <2>1, <2>2, <2>3, CellIsWalk
  <2> DEFINE scrolled == Cell[Len(log)][1]
             top == scrolled - (Rows - 1)
             here(n) == { k \in DOMAIN log :
                            /\ log[k] # NL
                            /\ Cell[k - 1] = <<top + (n \div Cols), n % Cols>> }
  <2>5. scrolled = row[m] /\ top = row[m] - (Rows - 1) /\ top + (Rows - 1) = scrolled
    <3>1. row[m] \in Nat
      BY <2>1, <2>2 DEF Walk
    <3> QED
      BY <2>1, <2>4, <3>1
  <2>6. ASSUME NEW n \in 0 .. Rows * Cols - 1
        PROVE  IF here(n) = {} THEN screen[n] = Behind(scrolled, n)
                               ELSE \E k \in here(n) : screen[n] = log[k]
    <3> DEFINE r == n \div Cols
               j == n % Cols
    <3>1. r \in 0 .. Rows - 1 /\ j \in 0 .. Cols - 1 /\ n = Base(r) + j
      BY IndexCell
    <3>2. Shown(row, column, log, top, screen, r, j)
      BY <2>2, <2>5, <3>1 DEF ShownAll
    <3>3. \A k \in 1 .. m : IsAt(row, column, log, top, k, r, j) <=> k \in here(n)
      <4> SUFFICES ASSUME NEW k \in 1 .. m
                   PROVE  IsAt(row, column, log, top, k, r, j) <=> k \in here(n)
        OBVIOUS
      <4>1. k - 1 \in 0 .. m
        OBVIOUS
      <4>2. Cell[k - 1] = <<row[k - 1], column[k - 1]>>
        BY <2>4, <4>1
      <4> HIDE DEF top, r, j
      <4>3. Cell[k - 1] = <<top + r, j>> <=> row[k - 1] = top + r /\ column[k - 1] = j
        BY <4>2
      <4> QED
        BY <2>3, <4>3 DEF IsAt, r, j
    <3>4. here(n) \subseteq 1 .. m
      BY <2>3
    <3> HIDE DEF here, scrolled, top, r, j
    <3>5. CASE \E k \in 1 .. m : IsAt(row, column, log, top, k, r, j) /\ screen[n] = log[k]
      BY <3>3, <3>5
    <3>6. CASE /\ screen[n] = Behind(scrolled, n)
               /\ \A k \in 1 .. m : ~IsAt(row, column, log, top, k, r, j)
      BY <3>3, <3>4, <3>6
    <3> QED
      BY <2>1, <2>5, <3>1, <3>2, <3>5, <3>6 DEF Shown
  <2> QED
    BY <2>3, <2>6, Zenon DEF ScreenShowsTail
<1> QED
  BY <1>1, <1>2, PTL

-----------------------------------------------------------------------------
(* wait and __exit. *)

DelayTypeOK ==
  /\ delay_pc \in {"main", "exit", "dot", "wait", "read", "reboot", "kb_wait",
                   "pulse", "reset", "hang"}
  /\ caller \in {"main", "dot", "kb_wait", "reboot"}
  /\ ms \in Int /\ asked \in Nat /\ spent \in Nat /\ since \in Nat
  /\ i \in Nat /\ polls \in Nat
  /\ lag \in 0 .. MaxLag
  /\ counter \in 0 .. Period - 1 /\ old \in 0 .. Period - 1 /\ latch \in 0 .. Period - 1
  /\ ibf \in BOOLEAN

(* What wait still has to wait for goes with the last value of the timer   *)
(* that it has seen: it has missed no turn of the timer.                   *)
TimerInv ==
  /\ delay_pc \in {"wait", "read"} =>
       /\ counter = (0 - spent) % Period
       /\ old = (ms - asked) % Period
  /\ delay_pc = "wait" => ms = asked - (spent - lag) /\ ms > 0 - MaxLag
  /\ delay_pc = "read" =>
       /\ latch = (lag - spent) % Period
       /\ (spent - lag) - (asked - ms) \in 0 .. MaxLag
       /\ ms > 0

(* How long __exit and kb_wait have been at work at each place. *)
SinceInv ==
  LET second == Second * TicksPerMs IN
  /\ delay_pc \in {"wait", "read"} =>
       /\ caller # "main"
       /\ caller = "dot" => asked = second /\ since - spent >= i * second
       /\ caller = "kb_wait" =>
            polls >= 1 /\ asked = TicksPerMs /\ since - spent >= (polls - 1) * TicksPerMs
       /\ caller = "reboot" => i >= 1
  /\ delay_pc = "main" => i = 0
  /\ delay_pc = "exit" => since >= i * second
  /\ delay_pc = "dot" => since >= (i + 1) * second
  /\ delay_pc = "reboot" => i >= 1 \/ since >= Dots * second
  /\ delay_pc = "kb_wait" => since >= polls * TicksPerMs
  /\ delay_pc = "pulse" => ~ibf \/ since >= MaxPolls * TicksPerMs

DelayInv == DelayTypeOK /\ TimerInv /\ SinceInv

LEMMA DelayConstants ==
  /\ Period \in Nat \ {0} /\ TicksPerMs \in Nat \ {0} /\ MaxLag \in Nat \ {0}
  /\ Second \in Nat \ {0} /\ Dots \in Nat \ {0} /\ MaxPolls \in Nat \ {0}
  /\ MaxLag < Period
  /\ Second * TicksPerMs \in Nat \ {0}
<1>1. \A a, b \in Nat \ {0} : a * b \in Nat \ {0}
  OBVIOUS
<1> QED
  BY <1>1, DelayAssumption

LEMMA DivPeriod ==
  \A x \in Int : /\ x \div Period \in Int
                 /\ x = (x \div Period) * Period + (x % Period)
                 /\ x % Period \in 0 .. Period - 1
BY DelayConstants

LEMMA ModUnique ==
  ASSUME NEW k \in Int, NEW z \in 0 .. Period - 1, NEW x \in Int, x = k * Period + z
  PROVE  x % Period = z
<1> USE DelayConstants
<1> DEFINE d == x \div Period
           r == x % Period
<1>1. d \in Int /\ x = d * Period + r /\ r \in 0 .. Period - 1
  BY DivPeriod, Zenon
<1> HIDE DEF d, r
<1>2. \A a, b \in Int : a <= b => a * Period <= b * Period
  OBVIOUS
<1>3. /\ (d + 1) * Period = d * Period + Period
      /\ (k + 1) * Period = k * Period + Period
      /\ d * Period \in Int /\ k * Period \in Int
  BY <1>1
<1>4. ~(d + 1 <= k)
  BY <1>1, <1>2, <1>3
<1>5. ~(k + 1 <= d)
  BY <1>1, <1>2, <1>3
<1>6. d = k
  BY <1>1, <1>4, <1>5
<1> QED
  BY <1>1, <1>3, <1>6 DEF r

(* A difference of remainders is one of the numbers. *)
LEMMA ModDiff ==
  ASSUME NEW x \in Int, NEW y \in Int
  PROVE  ((x % Period) - (y % Period)) % Period = (x - y) % Period
<1> USE DelayConstants
<1> DEFINE p == x \div Period
           q == y \div Period
           u == x % Period
           v == y % Period
           d == (x - y) \div Period
           r == (x - y) % Period
<1>1. p \in Int /\ x = p * Period + u /\ u \in 0 .. Period - 1
  BY DivPeriod, Zenon
<1>2. q \in Int /\ y = q * Period + v /\ v \in 0 .. Period - 1
  BY DivPeriod, Zenon
<1>3. d \in Int /\ x - y = d * Period + r /\ r \in 0 .. Period - 1
  <2>1. x - y \in Int
    OBVIOUS
  <2> QED
    BY <2>1, DivPeriod, Zenon
<1> HIDE DEF p, q, u, v, d, r
<1>4. u - v = (d - p + q) * Period + r
  BY <1>1, <1>2, <1>3
<1>5. (u - v) % Period = r
  BY <1>1, <1>2, <1>3, <1>4, ModUnique
<1> QED
  BY <1>5 DEF u, v, r

LEMMA ModSmall ==
  ASSUME NEW z \in 0 .. Period - 1
  PROVE  z % Period = z
<1> USE DelayConstants
<1>1. z = 0 * Period + z
  OBVIOUS
<1> QED
  BY <1>1, ModUnique

LEMMA ModNext ==
  ASSUME NEW x \in Int
  PROVE  ((x % Period) - 1) % Period = (x - 1) % Period
<1> USE DelayConstants
<1> DEFINE p == x \div Period
           u == x % Period
           d == (x - 1) \div Period
           r == (x - 1) % Period
<1>1. p \in Int /\ x = p * Period + u /\ u \in 0 .. Period - 1
  BY DivPeriod, Zenon
<1>2. d \in Int /\ x - 1 = d * Period + r /\ r \in 0 .. Period - 1
  <2>1. x - 1 \in Int
    OBVIOUS
  <2> QED
    BY <2>1, DivPeriod, Zenon
<1> HIDE DEF p, u, d, r
<1>3. u - 1 = (d - p) * Period + r
  BY <1>1, <1>2
<1>4. (u - 1) % Period = r
  BY <1>1, <1>2, <1>3, ModUnique
<1> QED
  BY <1>4 DEF u, r

LEMMA DelayInvInit == DelayInit => DelayInv
BY DelayConstants DEF DelayInit, DelayInv, DelayTypeOK, TimerInv, SinceInv


LEMMA DelayInvCallWait ==
  ASSUME DelayInv, NEW time \in Nat, time * TicksPerMs \in Nat \ {0},
         NEW back \in {"dot", "kb_wait", "reboot"}, CallWait(time, back),
         i' \in Nat, polls' \in Nat, since' \in Nat
  PROVE  DelayTypeOK' /\ TimerInv'
<1> USE DelayConstants
<1>1. 0 % Period = 0
  BY ModSmall
<1>2. /\ ms' = time * TicksPerMs /\ asked' = ms' /\ spent' = 0 /\ lag' = 0
      /\ counter' = 0 /\ old' = 0 /\ delay_pc' = "wait" /\ caller' = back
      /\ latch' = latch /\ ibf' = ibf
  BY DEF CallWait, controller
<1>3. ms' \in Nat \ {0}
  BY <1>2
<1>4. DelayTypeOK'
  BY <1>2, <1>3 DEF DelayInv, DelayTypeOK
<1>5. ms' - asked' = 0 /\ 0 - spent' = 0
  BY <1>2, <1>3
<1>6. TimerInv'
  BY <1>1, <1>2, <1>3, <1>5 DEF TimerInv
<1> QED
  BY <1>4, <1>6

LEMMA DelayInvLatch == ASSUME DelayInv, Latch PROVE DelayInv'
<1> USE DelayConstants
<1>1. /\ delay_pc = "wait" /\ ms > 0 /\ delay_pc' = "read" /\ latch' = counter /\ lag' = 0
      /\ UNCHANGED <<caller, ms, old, asked, spent, i, polls, counter, ibf, since>>
  BY DEF Latch, controller
<1>2. DelayTypeOK /\ DelayTypeOK'
  BY <1>1 DEF DelayInv, DelayTypeOK
<1>3. TimerInv'
  <2>1. lag' - spent' = 0 - spent /\ (spent' - lag') - (asked' - ms') = lag
    BY <1>1, <1>2 DEF DelayInv, DelayTypeOK, TimerInv
  <2> QED
    BY <1>1, <1>2, <2>1 DEF DelayInv, DelayTypeOK, TimerInv
<1>4. SinceInv'
  BY <1>1 DEF DelayInv, SinceInv
<1> QED
  BY <1>2, <1>3, <1>4 DEF DelayInv

LEMMA DelayInvRead == ASSUME DelayInv, Read PROVE DelayInv'
<1> USE DelayConstants
<1> DEFINE d == (old - latch) % Period
<1>1. /\ delay_pc = "read" /\ delay_pc' = "wait" /\ ms' = ms - d /\ old' = latch
      /\ UNCHANGED <<caller, latch, asked, spent, i, polls, counter, lag, ibf, since>>
  BY DEF Read, timer, controller
<1>2. /\ ms \in Int /\ asked \in Nat /\ spent \in Nat /\ lag \in 0 .. MaxLag
      /\ latch \in 0 .. Period - 1
  BY DEF DelayInv, DelayTypeOK
<1>3. /\ latch = (lag - spent) % Period /\ old = (ms - asked) % Period
      /\ (spent - lag) - (asked - ms) \in 0 .. MaxLag /\ ms > 0
  BY <1>1 DEF DelayInv, TimerInv
<1>4. d = (spent - lag) - (asked - ms)
  <2>1. d = ((ms - asked) - (lag - spent)) % Period
    <3>1. ms - asked \in Int /\ lag - spent \in Int
      BY <1>2
    <3> QED
      BY <1>3, <3>1, ModDiff
  <2>2. (ms - asked) - (lag - spent) = (spent - lag) - (asked - ms)
    BY <1>2
  <2>3. (spent - lag) - (asked - ms) \in 0 .. Period - 1
    BY <1>2, <1>3
  <2> QED
    BY <2>1, <2>2, <2>3, ModSmall
<1> HIDE DEF d
<1>5. /\ ms' = asked - (spent - lag) /\ ms' > 0 - MaxLag /\ ms' \in Int
      /\ ms' - asked = lag - spent
  BY <1>1, <1>2, <1>3, <1>4
<1>6. DelayTypeOK'
  BY <1>1, <1>2, <1>5 DEF DelayInv, DelayTypeOK
<1>7. TimerInv'
  BY <1>1, <1>3, <1>5 DEF DelayInv, TimerInv
<1>8. SinceInv'
  BY <1>1 DEF DelayInv, SinceInv
<1> QED
  BY <1>6, <1>7, <1>8 DEF DelayInv

LEMMA DelayInvTick == ASSUME DelayInv, Tick PROVE DelayInv'
<1> USE DelayConstants
<1>1. /\ delay_pc \in {"wait", "read"} /\ lag < MaxLag
      /\ counter' = (counter - 1) % Period
      /\ lag' = lag + 1 /\ spent' = spent + 1 /\ since' = since + 1
      /\ UNCHANGED <<delay_pc, caller, ms, old, latch, asked, i, polls, ibf>>
  BY DEF Tick, controller
<1>2. DelayTypeOK
  BY DEF DelayInv
<1>3. counter = (0 - spent) % Period
  BY <1>1 DEF DelayInv, TimerInv
<1>4. counter' = (0 - spent') % Period
  <2>1. counter' = (0 - spent - 1) % Period
    BY <1>1, <1>2, <1>3, ModNext DEF DelayTypeOK
  <2>2. 0 - spent - 1 = 0 - spent'
    BY <1>1, <1>2 DEF DelayTypeOK
  <2> QED
    BY <2>1, <2>2
<1>5. counter' \in 0 .. Period - 1
  <2>1. counter - 1 \in Int
    BY <1>2 DEF DelayTypeOK
  <2> QED
    BY <1>1, <2>1, DivPeriod
<1>6. lag' - spent' = lag - spent /\ spent' - lag' = spent - lag
  BY <1>1, <1>2 DEF DelayTypeOK
<1>7. DelayTypeOK'
  BY <1>1, <1>2, <1>5 DEF DelayTypeOK
<1>8. TimerInv'
  BY <1>1, <1>4, <1>6 DEF DelayInv, TimerInv
<1>9. SinceInv'
  <2>1. since' - spent' = since - spent
    BY <1>1, <1>2 DEF DelayTypeOK
  <2> QED
    BY <1>1, <2>1 DEF DelayInv, SinceInv
<1> QED
  BY <1>7, <1>8, <1>9 DEF DelayInv

LEMMA DelayInvReturn == ASSUME DelayInv, Return PROVE DelayInv'
<1> USE DelayConstants
<1>1. /\ delay_pc = "wait" /\ ms <= 0 /\ delay_pc' = caller
      /\ UNCHANGED <<caller, ms, old, latch, asked, spent, i, polls, counter, lag, ibf, since>>
  BY DEF Return, waiting, timer, controller
<1>2. DelayTypeOK /\ DelayTypeOK'
  BY <1>1 DEF DelayInv, DelayTypeOK
<1> DEFINE D == Second * TicksPerMs
<1>3. D \in Nat \ {0}
  OBVIOUS
<1>4. /\ caller # "main"
      /\ caller = "dot" => asked = D /\ since - spent >= i * D
      /\ caller = "kb_wait" =>
           polls >= 1 /\ asked = TicksPerMs /\ since - spent >= (polls - 1) * TicksPerMs
      /\ caller = "reboot" => i >= 1
  BY <1>1 DEF DelayInv, SinceInv
<1>5. ms = asked - (spent - lag)
  BY <1>1 DEF DelayInv, TimerInv
<1>6. spent >= asked
  BY <1>1, <1>2, <1>5 DEF DelayTypeOK
<1> HIDE DEF D
<1>7. caller = "dot" => since >= (i + 1) * D
  <2>1. (i + 1) * D = i * D + D /\ i * D \in Int
    BY <1>2, <1>3 DEF DelayTypeOK
  <2> QED
    BY <1>2, <1>3, <1>4, <1>6, <2>1 DEF DelayTypeOK
<1>8. caller = "kb_wait" => since >= polls * TicksPerMs
  <2>1. (polls - 1) * TicksPerMs = polls * TicksPerMs - TicksPerMs /\ polls * TicksPerMs \in Int
    BY <1>2 DEF DelayTypeOK
  <2> QED
    BY <1>2, <1>4, <1>6, <2>1 DEF DelayTypeOK
<1>9. caller \in {"dot", "kb_wait", "reboot"}
  BY <1>2, <1>4 DEF DelayTypeOK
<1>10. TimerInv'
  BY <1>1, <1>9 DEF TimerInv
<1>11. SinceInv'
  BY <1>1, <1>4, <1>7, <1>8, <1>9 DEF SinceInv, D
<1> QED
  BY <1>2, <1>10, <1>11 DEF DelayInv


LEMMA DelayInvExitWaits == ASSUME DelayInv, ExitWaits PROVE DelayInv'
<1> USE DelayConstants
<1>1. /\ delay_pc = "exit" /\ CallWait(Second, "dot") /\ UNCHANGED <<i, polls, since>>
  BY DEF ExitWaits
<1>2. DelayTypeOK' /\ TimerInv'
  BY <1>1, DelayInvCallWait DEF DelayInv, DelayTypeOK
<1>3. since >= i * (Second * TicksPerMs)
  BY <1>1 DEF DelayInv, SinceInv
<1>4. since \in Nat /\ since - 0 = since
  BY DEF DelayInv, DelayTypeOK
<1>5. /\ delay_pc' = "wait" /\ caller' = "dot"
      /\ asked' = Second * TicksPerMs /\ spent' = 0
  BY <1>1 DEF CallWait
<1>6. SinceInv'
  BY <1>1, <1>3, <1>4, <1>5 DEF SinceInv
<1> QED
  BY <1>2, <1>6 DEF DelayInv

LEMMA DelayInvKbPoll == ASSUME DelayInv, KbPoll PROVE DelayInv'
<1> USE DelayConstants
<1>1. DelayTypeOK /\ delay_pc = "kb_wait" /\ UNCHANGED <<i, since>>
  BY DEF DelayInv, KbPoll
<1>2. since >= polls * TicksPerMs
  BY <1>1 DEF DelayInv, SinceInv
<1>3. CASE polls < MaxPolls /\ ibf
  <2>1. CallWait(1, "kb_wait") /\ polls' = polls + 1
    BY <1>3 DEF KbPoll
  <2>2. 1 * TicksPerMs = TicksPerMs
    OBVIOUS
  <2>3. DelayTypeOK' /\ TimerInv'
    BY <1>1, <2>1, <2>2, DelayInvCallWait DEF DelayTypeOK
  <2>4. /\ delay_pc' = "wait" /\ caller' = "kb_wait" /\ asked' = TicksPerMs /\ spent' = 0
    BY <2>1, <2>2 DEF CallWait
  <2>5. polls' - 1 = polls /\ polls' >= 1 /\ since - 0 = since
    BY <1>1, <2>1 DEF DelayTypeOK
  <2>6. SinceInv'
    BY <1>1, <1>2, <2>4, <2>5 DEF SinceInv
  <2> QED
    BY <2>3, <2>6 DEF DelayInv
<1>4. CASE ~(polls < MaxPolls /\ ibf)
  <2>1. delay_pc' = "pulse" /\ UNCHANGED <<polls, waiting, timer, controller>>
    BY <1>4 DEF KbPoll
  <2>2. polls >= MaxPolls => polls * TicksPerMs >= MaxPolls * TicksPerMs
    BY <1>1 DEF DelayTypeOK
  <2>3. ~ibf \/ since >= MaxPolls * TicksPerMs
    <3>1. polls * TicksPerMs \in Int /\ MaxPolls * TicksPerMs \in Int
      BY <1>1 DEF DelayTypeOK
    <3> HIDE DelayConstants
    <3>2. polls \in Nat /\ since \in Nat /\ MaxPolls \in Nat
      BY <1>1, DelayConstants DEF DelayTypeOK
    <3>3. polls >= MaxPolls => since >= MaxPolls * TicksPerMs
      BY <1>2, <2>2, <3>1, <3>2
    <3> QED
      BY <1>4, <3>2, <3>3
  <2>4. DelayTypeOK'
    BY <1>1, <2>1 DEF DelayTypeOK, waiting, timer, controller
  <2>5. TimerInv' /\ SinceInv'
    BY <1>1, <2>1, <2>3 DEF TimerInv, SinceInv, controller
  <2> QED
    BY <2>4, <2>5 DEF DelayInv
<1> QED
  BY <1>3, <1>4

LEMMA DelayInvPulseFails == ASSUME DelayInv, PulseFails PROVE DelayInv'
<1> USE DelayConstants
<1>1. /\ CallWait(1, "reboot") /\ i' = i + 1 /\ UNCHANGED <<polls, since>>
  BY DEF PulseFails
<1>2. 1 * TicksPerMs = TicksPerMs /\ i' \in Nat /\ i' >= 1
  BY <1>1 DEF DelayInv, DelayTypeOK
<1>3. DelayTypeOK' /\ TimerInv'
  BY <1>1, <1>2, DelayInvCallWait DEF DelayInv, DelayTypeOK
<1>4. delay_pc' = "wait" /\ caller' = "reboot"
  BY <1>1 DEF CallWait
<1>5. SinceInv'
  BY <1>2, <1>4 DEF SinceInv
<1> QED
  BY <1>3, <1>5 DEF DelayInv

LEMMA DelayInvExitReboots == ASSUME DelayInv, ExitReboots PROVE DelayInv'
<1> USE DelayConstants
<1> DEFINE D == Second * TicksPerMs
<1>1. /\ delay_pc = "exit" /\ i >= Dots /\ i' = 0 /\ delay_pc' = "reboot"
      /\ UNCHANGED <<waiting, polls, timer, controller, since>>
  BY DEF ExitReboots
<1>2. DelayTypeOK /\ since >= i * D
  BY <1>1 DEF DelayInv, SinceInv
<1>3. since >= Dots * D
  <2>1. D \in Nat \ {0} /\ i \in Nat /\ since \in Nat /\ Dots \in Nat
    BY <1>2 DEF DelayTypeOK
  <2> HIDE DEF D
  <2> HIDE DelayConstants
  <2>2. i * D >= Dots * D
    BY <1>1, <2>1
  <2>3. i * D \in Int /\ Dots * D \in Int
    BY <2>1
  <2> QED
    BY <1>2, <2>1, <2>2, <2>3
<1>4. DelayTypeOK'
  BY <1>1, <1>2 DEF DelayTypeOK, waiting, timer, controller
<1>5. TimerInv' /\ SinceInv'
  BY <1>1, <1>3 DEF TimerInv, SinceInv
<1> QED
  BY <1>4, <1>5 DEF DelayInv

LEMMA DelayInvNext == DelayInv /\ [DelayNext]_delayVars => DelayInv'
<1> SUFFICES ASSUME DelayInv, [DelayNext]_delayVars PROVE DelayInv'
  OBVIOUS
<1> USE DelayConstants DEF waiting, timer, controller
<1>1. CASE CallExit
  <2>1. 0 * (Second * TicksPerMs) = 0
    OBVIOUS
  <2>2. /\ delay_pc = "main" /\ delay_pc' = "exit"
        /\ UNCHANGED <<waiting, i, polls, timer, controller, since>>
    BY <1>1 DEF CallExit
  <2>3. DelayTypeOK /\ DelayTypeOK' /\ TimerInv'
    BY <2>2 DEF DelayInv, DelayTypeOK, TimerInv
  <2>4. SinceInv'
    BY <2>1, <2>2, <2>3 DEF DelayInv, SinceInv, DelayTypeOK
  <2> QED
    BY <2>3, <2>4 DEF DelayInv
<1>2. CASE Dot
  BY <1>2 DEF Dot, DelayInv, DelayTypeOK, TimerInv, SinceInv
<1>3. CASE Attempt
  BY <1>3 DEF Attempt, DelayInv, DelayTypeOK, TimerInv, SinceInv
<1>4. CASE PulseResets
  BY <1>4 DEF PulseResets, DelayInv, DelayTypeOK, TimerInv, SinceInv
<1>5. CASE Drain
  BY <1>5, ZenonT(40) DEF Drain, DelayInv, DelayTypeOK, TimerInv, SinceInv
<1>6. CASE UNCHANGED delayVars
  BY <1>6 DEF delayVars, DelayInv, DelayTypeOK, TimerInv, SinceInv
<1> QED
  BY <1>1, <1>2, <1>3, <1>4, <1>5, <1>6, DelayInvLatch, DelayInvRead, DelayInvReturn,
     DelayInvTick, DelayInvExitWaits, DelayInvExitReboots, DelayInvKbPoll, DelayInvPulseFails
     DEF DelayNext, Program

(* wait returns after what it was asked for and at most two looks at the   *)
(* timer more; the message of a failed assertion stays for all the dots,   *)
(* and a busy keyboard controller gets all of its polls.                   *)
THEOREM WaitsAreKeptHolds == DelaySpec => []WaitsAreKept
<1>1. DelayInv => WaitsAreKept
  <2> SUFFICES ASSUME DelayInv PROVE WaitsAreKept
    OBVIOUS
  <2> USE DelayConstants
  <2>1. delay_pc = "wait" /\ ms <= 0 => spent \in asked .. asked + 2 * MaxLag - 1
    BY DEF DelayInv, DelayTypeOK, TimerInv
  <2>2. delay_pc = "reboot" /\ i = 0 => since >= Dots * (Second * TicksPerMs)
    BY DEF DelayInv, SinceInv
  <2>3. Dots * (Second * TicksPerMs) = Dots * Second * TicksPerMs
    OBVIOUS
  <2>4. delay_pc = "pulse" /\ ibf => since >= MaxPolls * TicksPerMs
    BY DEF DelayInv, SinceInv
  <2> QED
    BY <2>1, <2>2, <2>3, <2>4 DEF WaitsAreKept
<1> QED
  BY <1>1, DelayInvInit, DelayInvNext, PTL DEF DelaySpec

-----------------------------------------------------------------------------
(* printf: powers, and the figures of a number.                            *)

(* p holds the powers of b up to the n-th. *)
IsTable(p, b, n) ==
  /\ p \in [0 .. n -> Nat] /\ p[0] = 1
  /\ \A k \in 1 .. n : p[k] = b * p[k - 1]
  /\ power(b, n) = p[n]

(* The recursion of power has a solution. *)
LEMMA PowerTable ==
  ASSUME NEW b \in Nat, NEW n \in Nat
  PROVE  \E p : IsTable(p, b, n)
<1> DEFINE step == [x \in Nat \X (1 .. n) |-> b * x[1]]
           Rec(g) == [l \in 0 .. n |-> IF l = 0 THEN 1 ELSE b * g[l - 1]]
           p == CHOOSE g : g = Rec(g)
<1>1. IsStep(step, Nat, n)
  BY DEF IsStep
<1>2. PICK h : IsRecursion(h, Nat, 1, n, step)
  <2> HIDE DEF step
  <2> QED
    BY <1>1, RecursionExists
<1>3. h \in [0 .. n -> Nat] /\ h[0] = 1
  BY <1>2 DEF IsRecursion
<1>4. ASSUME NEW k \in 1 .. n PROVE h[k] = b * h[k - 1] /\ k - 1 \in 0 .. n /\ h[k - 1] \in Nat
  <2>1. h[k] = step[<<h[k - 1], k>>]
    BY <1>2 DEF IsRecursion
  <2>2. k - 1 \in 0 .. n /\ h[k - 1] \in Nat
    BY <1>3
  <2> QED
    BY <2>1, <2>2
<1>5. h = Rec(h)
  <2> SUFFICES ASSUME NEW k \in 0 .. n PROVE h[k] = IF k = 0 THEN 1 ELSE b * h[k - 1]
    BY <1>3
  <2>1. CASE k = 0
    BY <1>3, <2>1
  <2>2. CASE k # 0
    <3>1. k \in 1 .. n
      BY <2>2
    <3> QED
      BY <1>4, <2>2, <3>1
  <2> QED
    BY <2>1, <2>2
<1>6. p = Rec(p)
  <2>1. \E g : g = Rec(g)
    BY <1>5
  <2> HIDE DEF Rec
  <2> QED
    BY <2>1
<1> HIDE DEF p
<1>7. \A k \in 0 .. n : h[k] = p[k]
  <2>1. h[0] = p[0]
    BY <1>3, <1>6
  <2>2. ASSUME NEW k \in 1 .. n, h[k - 1] = p[k - 1] PROVE h[k] = p[k]
    <3>1. p[k] = b * p[k - 1]
      BY <1>6
    <3> QED
      BY <1>4, <2>2, <3>1
  <2> QED
    BY <2>1, <2>2, StepsAgree
<1>8. power(b, n) = p[n]
  BY DEF power, p
<1>9. power(b, n) = h[n]
  BY <1>7, <1>8
<1>10. IsTable(h, b, n)
  BY <1>3, <1>4, <1>9 DEF IsTable
<1> QED
  BY <1>10

(* A power is the base times the power before. *)
LEMMA PowerSteps ==
  ASSUME NEW b \in Nat
  PROVE  /\ power(b, 0) = 1
         /\ \A n \in Nat : power(b, n) \in Nat /\ power(b, n + 1) = b * power(b, n)
<1>1. power(b, 0) = 1
  <2>1. PICK p : IsTable(p, b, 0)
    BY PowerTable
  <2> QED
    BY <2>1 DEF IsTable
<1>2. ASSUME NEW n \in Nat
      PROVE  power(b, n) \in Nat /\ power(b, n + 1) = b * power(b, n)
  <2>1. PICK p : IsTable(p, b, n)
    BY PowerTable
  <2>2. PICK r : IsTable(r, b, n + 1)
    BY PowerTable
  <2>3. \A k \in 0 .. n : p[k] = r[k]
    <3>1. p[0] = r[0]
      BY <2>1, <2>2 DEF IsTable
    <3>2. ASSUME NEW k \in 1 .. n, p[k - 1] = r[k - 1] PROVE p[k] = r[k]
      <4>1. k \in 1 .. n + 1
        OBVIOUS
      <4> QED
        BY <2>1, <2>2, <3>2, <4>1 DEF IsTable
    <3> QED
      BY <3>1, <3>2, StepsAgree
  <2>4. p[n] = r[n] /\ p[n] \in Nat /\ power(b, n) = p[n]
    BY <2>1, <2>3 DEF IsTable
  <2>5. n + 1 \in 1 .. n + 1 /\ (n + 1) - 1 = n
    OBVIOUS
  <2>6. r[n + 1] = b * r[n] /\ power(b, n + 1) = r[n + 1]
    BY <2>2, <2>5 DEF IsTable
  <2> QED
    BY <2>4, <2>6
<1> QED
  BY <1>1, <1>2

(* A power of a base that is no less than 2: never 0, and they grow. *)
LEMMA PowersGrow ==
  ASSUME NEW b \in Nat, b >= 2, NEW k \in Nat, NEW l \in Nat, k <= l
  PROVE  power(b, k) \in Nat /\ power(b, k) >= 1 /\ power(b, k) <= power(b, l)
<1> DEFINE T == { n \in Nat : power(b, n) >= 1 }
           U == { n \in Nat : power(b, k) <= power(b, k + n) }
<1>1. 0 \in T /\ \A n \in Nat : n \in T => n + 1 \in T
  <2>1. 0 \in T
    BY PowerSteps
  <2>2. ASSUME NEW n \in Nat, n \in T PROVE n + 1 \in T
    <3>1. PICK x \in Nat : x = power(b, n) /\ x >= 1 /\ power(b, n + 1) = b * x
      BY <2>2, PowerSteps
    <3>2. b * x >= 1
      BY <3>1
    <3> QED
      BY <3>1, <3>2
  <2> QED
    BY <2>1, <2>2
<1>2. Nat \subseteq T
  <2> HIDE DEF T
  <2> QED
    BY <1>1, Induction
<1>3. ASSUME NEW n \in Nat PROVE power(b, n) \in Nat /\ power(b, n) >= 1
  BY <1>2, PowerSteps
<1>4. 0 \in U
  BY <1>3
<1>5. ASSUME NEW n \in Nat, n \in U PROVE n + 1 \in U
  <2>1. PICK x \in Nat, y \in Nat : x = power(b, k) /\ y = power(b, k + n) /\ x <= y
    BY <1>3, <1>5
  <2>2. power(b, (k + n) + 1) = b * y
    BY <2>1, PowerSteps
  <2>3. b * y >= 2 * y
    BY <2>1
  <2>4. (k + n) + 1 = k + (n + 1) /\ k + (n + 1) \in Nat
    OBVIOUS
  <2>5. power(b, k + (n + 1)) >= x
    BY <2>1, <2>2, <2>3, <2>4
  <2> QED
    BY <2>1, <2>5
<1>6. Nat \subseteq U
  <2> HIDE DEF U
  <2> QED
    BY <1>4, <1>5, Induction
<1>7. l - k \in U /\ k + (l - k) = l
  BY <1>6
<1> QED
  BY <1>3, <1>7

(* A larger base has larger powers. *)
LEMMA LargerBase ==
  ASSUME NEW a \in Nat, NEW b \in Nat, a <= b, NEW n \in Nat
  PROVE  power(a, n) <= power(b, n)
<1> DEFINE T == { k \in Nat : power(a, k) <= power(b, k) }
<1>1. 0 \in T
  BY PowerSteps
<1>2. ASSUME NEW k \in Nat, k \in T PROVE k + 1 \in T
  <2>1. PICK x \in Nat, y \in Nat : x = power(a, k) /\ y = power(b, k) /\ x <= y
    BY <1>2, PowerSteps
  <2>2. power(a, k + 1) = a * x /\ power(b, k + 1) = b * y
    BY <2>1, PowerSteps
  <2>3. a * x <= b * x /\ b * x <= b * y
    BY <2>1
  <2>4. a * x \in Nat /\ b * x \in Nat /\ b * y \in Nat
    OBVIOUS
  <2>5. a * x <= b * y
    BY <2>3, <2>4
  <2> QED
    BY <2>2, <2>5
<1>3. Nat \subseteq T
  <2> HIDE DEF T
  <2> QED
    BY <1>1, <1>2, Induction
<1> QED
  BY <1>3

LEMMA DivModOf ==
  ASSUME NEW b \in Nat, b # 0, NEW x \in Nat
  PROVE  \E y \in Nat, e \in Nat : y = x \div b /\ e = x % b /\ x = b * y + e /\ e < b
OBVIOUS

(* There is only one quotient with a remainder below the divisor. *)
LEMMA DivModIs ==
  ASSUME NEW b \in Nat, NEW x \in Nat, NEW y \in Nat, NEW e \in Nat, x = b * y + e, e < b
  PROVE  x \div b = y /\ x % b = e
<1>1. PICK y2 \in Nat, e2 \in Nat :
        y2 = x \div b /\ e2 = x % b /\ x = b * y2 + e2 /\ e2 < b
  BY DivModOf
<1>2. CASE y < y2
  <2>1. b * (y + 1) <= b * y2
    BY <1>2
  <2>2. b * (y + 1) = b * y + b
    OBVIOUS
  <2> QED
    BY <1>1, <2>1, <2>2
<1>3. CASE y2 < y
  <2>1. b * (y2 + 1) <= b * y
    BY <1>3
  <2>2. b * (y2 + 1) = b * y2 + b
    OBVIOUS
  <2> QED
    BY <1>1, <2>1, <2>2
<1> QED
  BY <1>1, <1>2, <1>3

(* To divide by b and then by p is to divide by their product. *)
LEMMA DivDiv ==
  ASSUME NEW b \in Nat, b # 0, NEW p \in Nat, p # 0, NEW x \in Nat
  PROVE  (x \div b) \div p = x \div (b * p)
<1>1. PICK y \in Nat, e \in Nat : y = x \div b /\ x = b * y + e /\ e < b
  BY DivModOf
<1>2. PICK z \in Nat, r \in Nat : z = y \div p /\ y = p * z + r /\ r < p
  BY DivModOf
<1>3. PICK g \in Nat : g = b * p
  OBVIOUS
<1>4. PICK h \in Nat : h = b * r + e
  OBVIOUS
<1>5. h < g
  <2>1. b * (r + 1) <= b * p
    BY <1>2
  <2>2. b * (r + 1) = b * r + b
    OBVIOUS
  <2> QED
    BY <1>1, <1>3, <1>4, <2>1, <2>2
<1>6. x = g * z + h
  <2>1. b * (p * z + r) = (b * p) * z + b * r
    OBVIOUS
  <2>2. b * y = g * z + b * r
    BY <1>2, <1>3, <2>1
  <2>3. g * z \in Nat /\ b * r \in Nat
    OBVIOUS
  <2> QED
    BY <1>1, <1>4, <2>2, <2>3
<1>7. x \div g = z
  BY <1>5, <1>6, DivModIs
<1> QED
  BY <1>1, <1>2, <1>3, <1>7

(* The last figure of x in base b. *)
Figure(b, x) == Hex[(x % b) + 1]

(* What Numeral makes of x, given what g holds for less. *)
FiguresStep(b, g, x) ==
  IF x \div b = 0 THEN <<Figure(b, x)>> ELSE Append(g[x \div b], Figure(b, x))

(* Characters.  The provers do not know that literals are strings. *)
Symbols == STRING \cup {"%", "c", "s", "d", "u", "p", "x"} \cup { Hex[k] : k \in 1 .. 16 }

LEMMA FigureIsChar ==
  ASSUME NEW b \in {10, 16}, NEW x \in Nat
  PROVE  Figure(b, x) \in Symbols
<1>1. x % b \in 0 .. 15
  OBVIOUS
<1>2. (x % b) + 1 \in 1 .. 16
  BY <1>1
<1> QED
  BY <1>2 DEF Figure, Symbols

LEMMA SameFunction ==
  ASSUME NEW S, NEW T, NEW f \in [S -> T], NEW g \in [S -> T], \A x \in S : f[x] = g[x]
  PROVE  f = g
OBVIOUS

(* The recursion of Numeral has a solution. *)
LEMMA NumeralTable ==
  ASSUME NEW b \in {10, 16}, NEW x \in Nat
  PROVE  \E f : /\ Numeral(x, b) = f[x]
                /\ \A y \in 0 .. x : f[y] = FiguresStep(b, f, y)
<1> DEFINE V == [0 .. x -> Seq(Symbols)]
           Rec(g) == [y \in 0 .. x |-> FiguresStep(b, g, y)]
           step == [p \in V \X (1 .. x + 2) |-> Rec(p[1])]
           none == [y \in 0 .. x |-> <<>>]
           F == CHOOSE g : g = Rec(g)
<1>1. ASSUME NEW y \in 0 .. x
      PROVE  y \div b \in 0 .. x /\ (y \div b # 0 => y \div b < y)
  <2>1. PICK z \in Nat, e \in Nat : z = y \div b /\ y = b * z + e
    BY DivModOf
  <2> QED
    BY <2>1
<1>2. ASSUME NEW g \in V PROVE Rec(g) \in V
  <2> SUFFICES ASSUME NEW y \in 0 .. x PROVE FiguresStep(b, g, y) \in Seq(Symbols)
    OBVIOUS
  <2>1. y \div b \in 0 .. x
    BY <1>1
  <2>2. g[y \div b] \in Seq(Symbols) /\ Figure(b, y) \in Symbols
    BY <2>1, FigureIsChar
  <2>3. <<Figure(b, y)>> \in Seq(Symbols) /\ Append(g[y \div b], Figure(b, y)) \in Seq(Symbols)
    BY <2>2, AppendProperties
  <2> QED
    BY <2>3 DEF FiguresStep
<1> HIDE DEF Rec
<1>3. none \in V /\ x + 2 \in Nat
  OBVIOUS
<1>4. IsStep(step, V, x + 2)
  <2>1. \A p \in V \X (1 .. x + 2) : Rec(p[1]) \in V
    BY <1>2
  <2> HIDE DEF V
  <2> QED
    BY <2>1 DEF IsStep
<1>5. PICK h : IsRecursion(h, V, none, x + 2, step)
  <2> HIDE DEF V, step, none
  <2> QED
    BY <1>3, <1>4, RecursionExists
<1>6. /\ h \in [0 .. x + 2 -> V]
      /\ \A k \in 1 .. x + 2 : h[k] = Rec(h[k - 1])
  <2>1. /\ h \in [0 .. x + 2 -> V] /\ h[0] = none
        /\ \A k \in 1 .. x + 2 : h[k] = step[<<h[k - 1], k>>]
    BY <1>5 DEF IsRecursion
  <2> SUFFICES ASSUME NEW k \in 1 .. x + 2 PROVE step[<<h[k - 1], k>>] = Rec(h[k - 1])
    BY <2>1
  <2>2. k - 1 \in 0 .. x + 2
    OBVIOUS
  <2>3. h[k - 1] \in V
    BY <2>1, <2>2
  <2> HIDE DEF V
  <2>4. <<h[k - 1], k>> \in V \X (1 .. x + 2)
    BY <2>3
  <2> QED
    BY <2>4
<1> DEFINE T == { k \in 0 .. x + 1 : \A y \in 0 .. x : y < k => h[k][y] = h[k + 1][y] }
<1>7. 0 \in T
  OBVIOUS
<1>8. ASSUME NEW k \in 0 .. (x + 1) - 1, k \in T PROVE k + 1 \in T
  <2> SUFFICES ASSUME NEW y \in 0 .. x, y < k + 1 PROVE h[k + 1][y] = h[(k + 1) + 1][y]
    OBVIOUS
  <2>1. h[k + 1] = Rec(h[k]) /\ h[(k + 1) + 1] = Rec(h[k + 1])
    <3>1. k + 1 \in 1 .. x + 2 /\ (k + 1) + 1 \in 1 .. x + 2
          /\ (k + 1) - 1 = k /\ ((k + 1) + 1) - 1 = k + 1
      OBVIOUS
    <3> QED
      BY <1>6, <3>1
  <2>2. /\ h[k + 1][y] = FiguresStep(b, h[k], y)
        /\ h[(k + 1) + 1][y] = FiguresStep(b, h[k + 1], y)
    BY <2>1 DEF Rec
  <2>3. CASE y \div b = 0
    BY <2>2, <2>3 DEF FiguresStep
  <2>4. CASE y \div b # 0
    <3>1. y \div b \in 0 .. x /\ y \div b < k
      BY <1>1, <2>4
    <3>2. h[k][y \div b] = h[k + 1][y \div b]
      BY <1>8, <3>1
    <3> QED
      BY <2>2, <3>2 DEF FiguresStep
  <2> QED
    BY <2>3, <2>4
<1>9. h[x + 1] = Rec(h[x + 1])
  <2>1. \A k \in 0 .. x + 1 : k \in T
    <3> HIDE DEF T
    <3> QED
      BY <1>7, <1>8, InductionUpTo
  <2>2. x + 1 \in T
    BY <2>1
  <2>3. /\ x + 1 \in 0 .. x + 2 /\ (x + 1) + 1 \in 0 .. x + 2 /\ (x + 1) + 1 \in 1 .. x + 2
        /\ ((x + 1) + 1) - 1 = x + 1
    OBVIOUS
  <2>4. h[(x + 1) + 1] = Rec(h[x + 1])
    BY <1>6, <2>3
  <2>5. h[x + 1] \in V /\ h[(x + 1) + 1] \in V
    <3> HIDE DEF V
    <3> QED
      BY <1>6, <2>3
  <2>6. \A y \in 0 .. x : h[x + 1][y] = h[(x + 1) + 1][y]
    BY <2>2
  <2>7. h[x + 1] = h[(x + 1) + 1]
    BY <2>5, <2>6, SameFunction
  <2> QED
    BY <2>4, <2>7
<1>10. F = Rec(F)
  BY <1>9
<1>11. Numeral(x, b) = F[x]
  BY DEF Numeral, FiguresStep, Figure, Rec
<1> HIDE DEF F
<1>12. \A y \in 0 .. x : F[y] = FiguresStep(b, F, y)
  BY <1>10 DEF Rec
<1> QED
  BY <1>11, <1>12

-----------------------------------------------------------------------------
(* z holds the figures of x in base b, as many as it takes. *)
IsNumeral(z, x, b) ==
  /\ z \in Seq(Symbols) /\ Len(z) >= 1
  /\ \A k \in 1 .. Len(z) : z[k] = Figure(b, x \div power(b, Len(z) - k))
  /\ x < power(b, Len(z))
  /\ IF x = 0 THEN Len(z) = 1 ELSE power(b, Len(z) - 1) <= x

LEMMA SingleFigure ==
  ASSUME NEW b \in {10, 16}, NEW x \in Nat, x \div b = 0
  PROVE  IsNumeral(<<Figure(b, x)>>, x, b)
<1>b. b \in Nat /\ b >= 2
  OBVIOUS
<1>1. x < b
  <2>1. PICK y \in Nat, e \in Nat : y = x \div b /\ x = b * y + e /\ e < b
    BY <1>b, DivModOf
  <2> QED
    BY <2>1
<1>2. power(b, 0) = 1 /\ power(b, 1) = b
  <2>1. power(b, 0 + 1) = b * power(b, 0) /\ power(b, 0) = 1
    BY <1>b, PowerSteps
  <2> QED
    BY <2>1
<1>3. PICK ch \in Symbols : ch = Figure(b, x)
  BY FigureIsChar
<1>4. <<ch>> \in Seq(Symbols) /\ Len(<<ch>>) = 1 /\ <<ch>>[1] = ch
  OBVIOUS
<1>5. x \div 1 = x
  OBVIOUS
<1>6. x = 0 \/ 1 <= x
  OBVIOUS
<1>7. \A k \in 1 .. 1 : <<ch>>[k] = Figure(b, x \div power(b, 1 - k))
  <2> SUFFICES <<ch>>[1] = Figure(b, x \div power(b, 1 - 1))
    OBVIOUS
  <2>1. 1 - 1 = 0
    OBVIOUS
  <2> QED
    BY <1>2, <1>3, <1>4, <1>5, <2>1
<1>8. IsNumeral(<<ch>>, x, b)
  <2>1. 1 - 1 = 0
    OBVIOUS
  <2> QED
    BY <1>1, <1>2, <1>4, <1>6, <1>7, <2>1 DEF IsNumeral
<1> QED
  BY <1>3, <1>8

LEMMA OneMoreFigure ==
  ASSUME NEW b \in {10, 16}, NEW x \in Nat, x \div b # 0,
         NEW z, IsNumeral(z, x \div b, b)
  PROVE  IsNumeral(Append(z, Figure(b, x)), x, b)
<1>b. b \in Nat /\ b >= 2
  OBVIOUS
<1>1. PICK y \in Nat, e \in Nat : y = x \div b /\ x = b * y + e /\ e < b
  BY <1>b, DivModOf
<1>2. PICK L \in Nat : L = Len(z) /\ L >= 1
  BY DEF IsNumeral
<1>3. /\ z \in Seq(Symbols) /\ y < power(b, L) /\ power(b, L - 1) <= y
      /\ \A k \in 1 .. L : z[k] = Figure(b, y \div power(b, L - k))
  BY <1>1, <1>2 DEF IsNumeral
<1>4. PICK ch \in Symbols : ch = Figure(b, x)
  BY FigureIsChar
<1> DEFINE w == Append(z, ch)
<1>5. /\ w \in Seq(Symbols) /\ Len(w) = L + 1
      /\ w[L + 1] = ch /\ \A k \in 1 .. L : w[k] = z[k]
  BY <1>2, <1>3, <1>4, AppendProperties
<1> HIDE DEF w
<1>6. PICK p \in Nat, r \in Nat :
        p = power(b, L - 1) /\ r = power(b, L) /\ r = b * p /\ power(b, L + 1) = b * r
  <2>1. PICK l \in Nat : l = L - 1 /\ L = l + 1
    BY <1>2
  <2>2. power(b, l) \in Nat /\ power(b, l + 1) = b * power(b, l)
    BY <1>b, PowerSteps
  <2>3. power(b, L) \in Nat /\ power(b, L + 1) = b * power(b, L)
    BY <1>b, PowerSteps
  <2> QED
    BY <2>1, <2>2, <2>3
<1>7. x < b * r
  <2>1. y + 1 <= r
    BY <1>3, <1>6
  <2>2. b * (y + 1) <= b * r
    BY <2>1
  <2>3. b * (y + 1) = b * y + b
    OBVIOUS
  <2> QED
    BY <1>1, <2>2, <2>3
<1>8. r <= x
  <2>1. b * p <= b * y
    BY <1>3, <1>6
  <2> QED
    BY <1>1, <1>6, <2>1
<1>9. x # 0
  BY <1>1
<1>10. ASSUME NEW k \in 1 .. L + 1 PROVE w[k] = Figure(b, x \div power(b, (L + 1) - k))
  <2>1. CASE k = L + 1
    <3>1. power(b, (L + 1) - k) = 1
      <4>1. (L + 1) - k = 0
        BY <2>1
      <4> QED
        BY <1>b, <4>1, PowerSteps
    <3>2. x \div 1 = x
      OBVIOUS
    <3> QED
      BY <1>4, <1>5, <2>1, <3>1, <3>2
  <2>2. CASE k # L + 1
    <3>1. k \in 1 .. L /\ L - k \in Nat /\ (L + 1) - k = (L - k) + 1
      BY <2>2
    <3>2. PICK f \in Nat : f = power(b, L - k) /\ f # 0
      <4>1. power(b, L - k) \in Nat /\ power(b, L - k) >= 1
        BY <1>b, <3>1, PowersGrow
      <4> QED
        BY <4>1
    <3>3. power(b, (L + 1) - k) = b * f
      BY <1>b, <3>1, <3>2, PowerSteps
    <3>4. y \div f = x \div (b * f)
      BY <1>b, <1>1, <3>2, DivDiv
    <3> QED
      BY <1>3, <1>5, <3>1, <3>2, <3>3, <3>4
  <2> QED
    BY <2>1, <2>2
<1>11. (L + 1) - 1 = L
  OBVIOUS
<1>12. IsNumeral(w, x, b)
  <2>1. Len(w) >= 1 /\ \A k \in 1 .. Len(w) : w[k] = Figure(b, x \div power(b, Len(w) - k))
    BY <1>2, <1>5, <1>10
  <2>2. x < power(b, Len(w)) /\ power(b, Len(w) - 1) <= x
    BY <1>5, <1>6, <1>7, <1>8, <1>11
  <2> QED
    BY <1>5, <1>9, <2>1, <2>2 DEF IsNumeral
<1> QED
  BY <1>4, <1>12 DEF w

(* Numeral computes them. *)
(* The loop over ull yields the figures of ull. *)
LEMMA NumeralIsNumeral ==
  ASSUME NEW b \in {10, 16}, NEW x \in Nat
  PROVE  IsNumeral(Numeral(x, b), x, b)
<1>b. b \in Nat /\ b >= 2
  OBVIOUS
<1>1. PICK f : /\ Numeral(x, b) = f[x]
               /\ \A y \in 0 .. x : f[y] = FiguresStep(b, f, y)
  BY NumeralTable
<1> DEFINE T == { k \in 0 .. x : \A y \in 0 .. k : IsNumeral(f[y], y, b) }
<1>2. ASSUME NEW y \in 0 .. x, \A l \in 0 .. x : l < y => IsNumeral(f[l], l, b)
      PROVE  IsNumeral(f[y], y, b)
  <2>1. CASE y \div b = 0
    <3>1. y \in Nat /\ f[y] = <<Figure(b, y)>>
      <4>1. f[y] = FiguresStep(b, f, y)
        BY <1>1
      <4> QED
        BY <2>1, <4>1 DEF FiguresStep
    <3> QED
      BY <2>1, <3>1, SingleFigure
  <2>2. CASE y \div b # 0
    <3>1. y \div b \in 0 .. x /\ y \div b < y
      <4>1. PICK l \in Nat, e \in Nat : l = y \div b /\ y = b * l + e
        BY <1>b, DivModOf
      <4> QED
        BY <2>2, <4>1
    <3>2. IsNumeral(f[y \div b], y \div b, b)
      BY <1>2, <3>1
    <3>3. f[y] = Append(f[y \div b], Figure(b, y))
      BY <1>1, <2>2 DEF FiguresStep
    <3> QED
      BY <2>2, <3>2, <3>3, OneMoreFigure
  <2> QED
    BY <2>1, <2>2
<1>3. 0 \in T
  BY <1>2
<1>4. ASSUME NEW k \in 0 .. x - 1, k \in T PROVE k + 1 \in T
  <2> SUFFICES ASSUME NEW y \in 0 .. k + 1 PROVE IsNumeral(f[y], y, b)
    OBVIOUS
  <2>1. CASE y \in 0 .. k
    BY <1>4, <2>1
  <2>2. CASE y = k + 1
    <3>1. \A l \in 0 .. x : l < y => IsNumeral(f[l], l, b)
      BY <1>4, <2>2
    <3> QED
      BY <1>2, <2>2, <3>1
  <2> QED
    BY <2>1, <2>2
<1>5. \A k \in 0 .. x : k \in T
  <2> HIDE DEF T
  <2> QED
    BY <1>3, <1>4, InductionUpTo
<1> QED
  BY <1>1, <1>5

LEMMA MaxIs ==
  ASSUME NEW S, NEW x \in S, S \subseteq Int, \A y \in S : y <= x
  PROVE  Max(S) = x
<1>1. \A y \in S : (\A l \in S : y >= l) => y = x
  OBVIOUS
<1> QED
  BY <1>1 DEF Max

(* With the zeros in front it is the number as it is to be printed. *)
(* z, with zeros in front, is x as wide as w. *)
IsPadding(zeros, z, x, b, w) ==
  /\ zeros \o z = Padded(x, b, w)
  /\ z \in Seq(Symbols) /\ zeros \in Seq(Symbols) /\ Padded(x, b, w) \in Seq(Symbols)

LEMMA NumeralIsPadded ==
  ASSUME NEW b \in {10, 16}, NEW x \in Nat, x < power(10, BufSize),
         NEW w \in 0 .. 9,
         NEW zeros, zeros = [k \in 1 .. w - Len(Numeral(x, b)) |-> "0"]
  PROVE  IsPadding(zeros, Numeral(x, b), x, b, w)
<1>b. b \in Nat /\ b >= 2
  OBVIOUS
<1> DEFINE z == Numeral(x, b)
<1>0. IsNumeral(z, x, b)
  BY NumeralIsNumeral
<1> HIDE DEF z
<1>1. PICK L \in Nat : L = Len(z) /\ L >= 1 /\ z \in Seq(Symbols)
  BY <1>0 DEF IsNumeral
<1>2. /\ \A k \in 1 .. L : z[k] = Figure(b, x \div power(b, L - k))
      /\ x < power(b, L)
      /\ IF x = 0 THEN L = 1 ELSE power(b, L - 1) <= x
  BY <1>0, <1>1 DEF IsNumeral
<1>3. BufSize \in Nat /\ x < power(b, BufSize)
  <2>1. BufSize \in Nat
    BY PrintfAssumption
  <2>2. power(10, BufSize) <= power(b, BufSize) /\ power(10, BufSize) \in Nat
        /\ power(b, BufSize) \in Nat
    <3>1. 10 \in Nat /\ 10 <= b
      OBVIOUS
    <3>2. power(10, BufSize) \in Nat
      BY <2>1, <3>1, PowerSteps
    <3>3. power(b, BufSize) \in Nat
      BY <1>b, <2>1, PowerSteps
    <3> QED
      BY <1>b, <2>1, <3>1, <3>2, <3>3, LargerBase
  <2> QED
    BY <2>1, <2>2
<1> DEFINE S == {1, w} \cup { k \in 1 .. BufSize : power(b, k - 1) <= x }
           M == IF w > L THEN w ELSE L
<1>4. L \in S
  <2>1. CASE x = 0
    BY <1>2, <2>1
  <2>2. CASE x # 0
    <3>1. ASSUME BufSize <= L - 1 PROVE FALSE
      <4>1. power(b, BufSize) <= power(b, L - 1)
        BY <1>b, <1>1, <1>3, <3>1, PowersGrow
      <4>2. power(b, BufSize) \in Nat /\ power(b, L - 1) \in Nat
        <5>1. L - 1 \in Nat
          BY <1>1
        <5> QED
          BY <1>b, <1>3, <5>1, PowerSteps
      <4> QED
        BY <1>2, <1>3, <2>2, <4>1, <4>2
    <3>2. L \in 1 .. BufSize
      BY <1>1, <1>3, <3>1
    <3> QED
      BY <1>2, <2>2, <3>2
  <2> QED
    BY <2>1, <2>2
<1>5. ASSUME NEW k \in S PROVE k <= M
  <2>1. CASE k \in {1, w}
    BY <1>1, <2>1
  <2>2. CASE k \in 1 .. BufSize /\ power(b, k - 1) <= x
    <3>1. ASSUME L <= k - 1 PROVE FALSE
      <4>1. k - 1 \in Nat
        BY <2>2
      <4>2. power(b, L) <= power(b, k - 1)
        BY <1>b, <3>1, <4>1, PowersGrow
      <4>3. power(b, L) \in Nat /\ power(b, k - 1) \in Nat
        BY <1>b, <4>1, PowerSteps
      <4> QED
        BY <1>2, <2>2, <4>2, <4>3
    <3> QED
      BY <2>2, <3>1
  <2> QED
    BY <2>1, <2>2
<1>6. M \in S /\ S \subseteq Int
  BY <1>3, <1>4
<1>7. Max(S) = M
  <2> HIDE DEF S, M
  <2> QED
    BY <1>5, <1>6, MaxIs
<1>8. M \in Nat /\ L <= M
  BY <1>1
<1> DEFINE P == [k \in 1 .. M |-> Figure(b, x \div power(b, M - k))]
<1>9. Padded(x, b, w) = P
  BY <1>7 DEF Padded, Figure
<1>10. PICK f \in Nat : f = M - L /\ 1 .. w - L = 1 .. f
  BY <1>8
<1> DEFINE Z == [k \in 1 .. f |-> "0"]
<1>11. zeros = Z
  BY <1>1, <1>10 DEF z
<1> HIDE DEF S, M
<1>12. "0" \in Symbols /\ Hex[1] = "0"
  <2>1. Hex[1] = "0" /\ 1 \in 1 .. 16
    BY DEF Hex
  <2> QED
    BY <2>1 DEF Symbols
<1>13. Z \in Seq(Symbols) /\ Len(Z) = f /\ \A k \in 1 .. f : Z[k] = "0"
  <2>1. \A k \in 1 .. f : Z[k] = "0"
    OBVIOUS
  <2>2. Z \in [1 .. f -> Symbols]
    BY <1>12
  <2> HIDE DEF Z
  <2> QED
    BY <2>1, <2>2
<1>14. ASSUME NEW k \in 1 .. M
       PROVE  /\ M - k \in Nat /\ x \div power(b, M - k) \in Nat
              /\ P[k] = Figure(b, x \div power(b, M - k))
  <2>1. M - k \in Nat
    BY <1>8
  <2>2. PICK p \in Nat : p = power(b, M - k) /\ p # 0
    <3>1. power(b, M - k) \in Nat /\ power(b, M - k) >= 1
      BY <1>b, <2>1, PowersGrow
    <3> QED
      BY <3>1
  <2>3. x \div p \in Nat
    BY <2>2, DivModOf
  <2> QED
    BY <2>1, <2>2, <2>3
<1>15. P \in Seq(Symbols) /\ Len(P) = M
  <2>1. \A k \in 1 .. M : P[k] \in Symbols
    BY <1>14, FigureIsChar
  <2>2. P \in [1 .. M -> Symbols]
    BY <2>1
  <2> HIDE DEF P
  <2> QED
    BY <1>8, <2>2
<1> HIDE DEF P, Z
<1>16. /\ Z \o z \in Seq(Symbols) /\ Len(Z \o z) = M
       /\ \A k \in 1 .. M : (Z \o z)[k] = IF k <= f THEN Z[k] ELSE z[k - f]
  <2>1. f + L = M
    BY <1>8, <1>10
  <2>2. PICK y \in Seq(Symbols) : y = Z /\ Len(y) = f
    BY <1>13
  <2>3. PICK v \in Seq(Symbols) : v = z /\ Len(v) = L
    BY <1>1
  <2>4. /\ y \o v \in Seq(Symbols) /\ Len(y \o v) = f + L
        /\ \A k \in 1 .. f + L : (y \o v)[k] = IF k <= f THEN y[k] ELSE v[k - f]
    <3>1. /\ y \o v \in Seq(Symbols) /\ Len(y \o v) = Len(y) + Len(v)
          /\ \A k \in 1 .. Len(y) + Len(v) :
               (y \o v)[k] = IF k <= Len(y) THEN y[k] ELSE v[k - Len(y)]
      BY ConcatProperties
    <3> QED
      BY <2>2, <2>3, <3>1
  <2> QED
    BY <2>1, <2>2, <2>3, <2>4
<1>17. ASSUME NEW k \in 1 .. M PROVE (Z \o z)[k] = P[k]
  <2>1. CASE k <= f
    <3>1. L <= M - k
      BY <1>8, <1>10, <2>1
    <3>2. PICK p \in Nat : p = power(b, M - k) /\ x < p
      <4>1. power(b, L) <= power(b, M - k) /\ power(b, L) \in Nat /\ power(b, M - k) \in Nat
        BY <1>b, <1>14, <3>1, PowersGrow, PowerSteps
      <4> QED
        BY <1>2, <4>1
    <3>3. x \div p = 0 /\ 0 % b = 0
      <4>1. x = p * 0 + x
        BY <3>2
      <4>2. x \div p = 0
        BY <3>2, <4>1, DivModIs
      <4> QED
        BY <4>2
    <3>4. Figure(b, 0) = "0"
      BY <1>12, <3>3 DEF Figure
    <3>5. k \in 1 .. f
      BY <2>1
    <3>6. Z[k] = "0"
      BY <1>13, <3>5
    <3> QED
      BY <1>14, <1>16, <2>1, <3>2, <3>3, <3>4, <3>6
  <2>2. CASE k > f
    <3>1. k - f \in 1 .. L /\ L - (k - f) = M - k
      BY <1>8, <1>10, <2>2
    <3> QED
      BY <1>2, <1>14, <1>16, <2>2, <3>1
  <2>3. k <= f \/ k > f
    BY <1>8, <1>10
  <2> QED
    BY <2>1, <2>2, <2>3, Zenon
<1>18. Z \o z = P
  BY <1>15, <1>16, <1>17, SeqEqual
<1>19. IsPadding(zeros, z, x, b, w)
  BY <1>1, <1>9, <1>11, <1>13, <1>15, <1>18 DEF IsPadding
<1> QED
  BY <1>19 DEF z

-----------------------------------------------------------------------------
(* Sequences put together from parts.                                      *)

LEMMA HeadOfConcat ==
  ASSUME NEW S, NEW s \in Seq(S), s # <<>>, NEW t \in Seq(S)
  PROVE  /\ s \o t # <<>> /\ Head(s \o t) = Head(s) /\ Head(s) \in S
         /\ Tail(s \o t) = Tail(s) \o t /\ Tail(s) \in Seq(S)
<1>1. s \o t # <<>> /\ Head(s \o t) = Head(s) /\ Head(s) \in S /\ Tail(s) \in Seq(S)
  OBVIOUS
<1>2. Tail(s \o t) = Tail(s) \o t
  OBVIOUS
<1> QED
  BY <1>1, <1>2

LEMMA HeadOfMore ==
  ASSUME NEW S, NEW x \in S, NEW t \in Seq(S)
  PROVE  /\ <<x>> \o t # <<>> /\ Head(<<x>> \o t) = x /\ Tail(<<x>> \o t) = t
OBVIOUS

LEMMA MoveHead ==
  ASSUME NEW S, NEW s \in Seq(S), NEW t \in Seq(S), t # <<>>
  PROVE  Append(s, Head(t)) \o Tail(t) = s \o t /\ Append(s, Head(t)) \in Seq(S)
OBVIOUS

LEMMA EmptyConcat ==
  ASSUME NEW S, NEW s \in Seq(S), NEW t \in Seq(S), s \o t = <<>>
  PROVE  s = <<>> /\ t = <<>>
<1>1. Len(s) + Len(t) = 0 /\ Len(s) \in Nat /\ Len(t) \in Nat
  BY ConcatProperties
<1> QED
  BY <1>1

(* r holds what comes behind each of the parts of q. *)
Rests(r, q, S) ==
  /\ r \in [0 .. Len(q) -> Seq(S)]
  /\ r[0] = FlattenSeq(q) /\ r[Len(q)] = <<>>
  /\ \A k \in 1 .. Len(q) : r[k - 1] = q[k] \o r[k]

(* A concatenation, seen from behind: FlattenSteps sees it from the front. *)
LEMMA FlattenRests ==
  ASSUME NEW S, NEW q \in Seq(Seq(S))
  PROVE  \E r : Rests(r, q, S)
<1>1. PICK m \in Nat : m = Len(q)
  OBVIOUS
<1>2. PICK h : Flattens(h, q, S)
  BY FlattenSteps
<1>3. /\ h \in [0 .. m -> Seq(S)] /\ h[0] = <<>> /\ FlattenSeq(q) = h[m]
      /\ \A k \in 1 .. m : h[k] = h[k - 1] \o q[k]
  BY <1>1, <1>2 DEF Flattens
<1> DEFINE V == Seq(S)
           step == [x \in V \X (1 .. m) |-> q[m - x[2] + 1] \o x[1]]
<1>4. \A k \in 1 .. m : q[k] \in V
  BY <1>1
<1>5. IsStep(step, V, m)
  <2> SUFFICES ASSUME NEW g \in V, NEW k \in 1 .. m PROVE q[m - k + 1] \o g \in V
    BY DEF IsStep
  <2>1. m - k + 1 \in 1 .. m
    OBVIOUS
  <2>2. q[m - k + 1] \in V
    BY <1>4, <2>1
  <2> QED
    BY <2>2
<1>6. PICK g : IsRecursion(g, V, <<>>, m, step)
  <2>1. <<>> \in V
    OBVIOUS
  <2> HIDE DEF V, step
  <2> QED
    BY <1>5, <2>1, RecursionExists
<1>7. g \in [0 .. m -> Seq(S)] /\ g[0] = <<>>
  BY <1>6 DEF IsRecursion
<1>8. ASSUME NEW k \in 1 .. m PROVE g[k] = q[m - k + 1] \o g[k - 1]
  <2>1. g[k] = step[<<g[k - 1], k>>]
    BY <1>6 DEF IsRecursion
  <2>2. k - 1 \in 0 .. m
    OBVIOUS
  <2>3. g[k - 1] \in V
    BY <1>7, <2>2
  <2> QED
    BY <2>1, <2>3
<1> DEFINE r == [k \in 0 .. m |-> g[m - k]]
           T == { k \in 0 .. m : h[m] = h[m - k] \o g[k] }
<1>9. 0 \in T
  <2>1. h[m] \in Seq(S) /\ m - 0 = m
    BY <1>3
  <2>2. h[m] \o <<>> = h[m]
    BY <2>1
  <2> QED
    BY <1>7, <2>1, <2>2
<1>10. ASSUME NEW k \in 0 .. m - 1, k \in T PROVE k + 1 \in T
  <2>1. PICK l \in 1 .. m : l = m - k /\ l - 1 = m - (k + 1) /\ m - (k + 1) + 1 = l
    <3>1. m - k \in 1 .. m
      OBVIOUS
    <3> QED
      BY <3>1
  <2>2. /\ h[l] = h[l - 1] \o q[l] /\ h[l - 1] \in Seq(S) /\ q[l] \in Seq(S)
        /\ g[k] \in Seq(S)
    <3>1. l - 1 \in 0 .. m /\ k \in 0 .. m
      OBVIOUS
    <3> QED
      BY <1>3, <1>4, <1>7, <3>1
  <2>3. g[k + 1] = q[l] \o g[k]
    <3>1. k + 1 \in 1 .. m /\ (k + 1) - 1 = k
      OBVIOUS
    <3> QED
      BY <1>8, <2>1, <3>1
  <2>4. h[m] = (h[l - 1] \o q[l]) \o g[k]
    BY <1>10, <2>1, <2>2
  <2>5. (h[l - 1] \o q[l]) \o g[k] = h[l - 1] \o (q[l] \o g[k])
    <3>1. PICK x \in Seq(S), y \in Seq(S), z \in Seq(S) : x = h[l - 1] /\ y = q[l] /\ z = g[k]
      BY <2>2
    <3>2. (x \o y) \o z = x \o (y \o z)
      BY ConcatAssociative
    <3> QED
      BY <3>1, <3>2
  <2>6. h[m] = h[m - (k + 1)] \o g[k + 1]
    BY <2>1, <2>3, <2>4, <2>5
  <2>7. k + 1 \in 0 .. m
    OBVIOUS
  <2> QED
    BY <2>6, <2>7
<1>11. h[m] = g[m]
  <2>1. \A k \in 0 .. m : k \in T
    <3> HIDE DEF T
    <3> QED
      BY <1>9, <1>10, InductionUpTo
  <2>2. m \in T
    <3> HIDE DEF T
    <3> QED
      BY <2>1
  <2>3. h[m] = h[0] \o g[m]
    <3>1. m - m = 0
      OBVIOUS
    <3> QED
      BY <2>2, <3>1
  <2>4. g[m] \in Seq(S)
    BY <1>7
  <2>5. <<>> \o g[m] = g[m]
    BY <2>4
  <2> QED
    BY <1>3, <2>3, <2>5
<1>12. r \in [0 .. m -> Seq(S)]
  <2>1. \A k \in 0 .. m : m - k \in 0 .. m
    OBVIOUS
  <2>2. \A k \in 0 .. m : g[m - k] \in Seq(S)
    BY <1>7, <2>1
  <2> QED
    BY <2>2
<1>13. r[0] = FlattenSeq(q) /\ r[m] = <<>>
  <2>1. m - 0 = m /\ m - m = 0
    OBVIOUS
  <2> QED
    BY <1>3, <1>7, <1>11, <2>1
<1>14. ASSUME NEW k \in 1 .. m PROVE r[k - 1] = q[k] \o r[k]
  <2>1. PICK l \in 1 .. m : l = m - (k - 1) /\ l - 1 = m - k /\ m - l + 1 = k
    <3>1. m - (k - 1) \in 1 .. m
      OBVIOUS
    <3> QED
      BY <3>1
  <2>2. k \in 0 .. m /\ k - 1 \in 0 .. m
    OBVIOUS
  <2>3. g[l] = q[m - l + 1] \o g[l - 1]
    BY <1>8
  <2> QED
    BY <2>1, <2>2, <2>3
<1> HIDE DEF r
<1> QED
  BY <1>1, <1>12, <1>13, <1>14 DEF Rests

-----------------------------------------------------------------------------
(* Items.                                                                  *)

(* The kinds of items. *)
Plainly(item) ==
  item.prints = "text" /\ item.text \in Seq(STRING \ {"%"}) /\ item.text # <<>>

OfChar(item) ==
  /\ item.prints = "char" /\ item.mods \in Modifiers
  /\ item.conversion = "c" /\ item.value \in STRING

OfString(item) ==
  /\ item.prints = "string" /\ item.mods \in Modifiers
  /\ item.conversion = "s" /\ item.value \in Texts

OfNumber(item) ==
  /\ item.prints = "number" /\ item.mods \in Modifiers
  /\ item.conversion \in {"d", "u", "p", "x"} /\ item.value \in 0 .. WordSize * WordSize - 1
  /\ item.long = (Cardinality(Longs(item.mods)) >= 2) /\ (item.long \/ item.value < WordSize)
  /\ item.base = IF item.conversion \in {"d", "u"} THEN 10 ELSE 16
  /\ item.width \in 0 .. 9 /\ IsWidth(item.width, item.mods)

LEMMA ItemKinds ==
  ASSUME NEW item \in Item
  PROVE  Plainly(item) \/ OfChar(item) \/ OfString(item) \/ OfNumber(item)
<1>1. CASE item \in [prints: {"text"}, text: Seq(STRING \ {"%"}) \ {<<>>}]
  BY <1>1 DEF Plainly
<1>2. CASE item \in [prints: {"char"}, mods: Modifiers, conversion: {"c"}, value: STRING]
  BY <1>2 DEF OfChar
<1>3. CASE item \in [prints: {"string"}, mods: Modifiers, conversion: {"s"}, value: Texts]
  BY <1>3 DEF OfString
<1>4. CASE /\ item \in [prints: {"number"}, mods: Modifiers, conversion: {"d", "u", "p", "x"},
                        value: 0 .. WordSize * WordSize - 1, long: BOOLEAN,
                        base: {10, 16}, width: 0 .. 9]
           /\ item.long = (Cardinality(Longs(item.mods)) >= 2)
           /\ item.long \/ item.value < WordSize
           /\ item.base = IF item.conversion \in {"d", "u"} THEN 10 ELSE 16
           /\ IsWidth(item.width, item.mods)
  <2>1. /\ item.prints = "number" /\ item.mods \in Modifiers
        /\ item.conversion \in {"d", "u", "p", "x"}
        /\ item.value \in 0 .. WordSize * WordSize - 1 /\ item.width \in 0 .. 9
    BY <1>4
  <2> QED
    BY <1>4, <2>1 DEF OfNumber
<1> QED
  BY <1>1, <1>2, <1>3, <1>4 DEF Item

(* What a word on the stack may hold. *)
Values == Nat \cup Symbols \cup Texts

LEMMA Typed ==
  /\ Seq(STRING \ {"%"}) \subseteq Seq(Symbols) /\ Modifiers \subseteq Seq(Symbols)
  /\ Seq(STRING) \subseteq Seq(Symbols) /\ Texts \subseteq Seq(Symbols)
<1>1. STRING \subseteq Symbols
  BY DEF Symbols
<1>2. \A S : S \subseteq Symbols => Seq(S) \subseteq Seq(Symbols)
  BY SeqMonotonic
<1>3. Seq(STRING) \subseteq Seq(Symbols)
  BY <1>1, <1>2
<1>4. Seq(STRING \ {"%"}) \subseteq Seq(Symbols)
  BY <1>1, <1>2
<1>5. Modifiers \subseteq Seq(Symbols)
  BY <1>1, <1>2 DEF Modifiers
<1> QED
  BY <1>3, <1>4, <1>5, PrintfAssumption

LEMMA NumberFacts ==
  ASSUME NEW item, OfNumber(item)
  PROVE  /\ item.value \in Nat /\ item.value < power(10, BufSize) /\ item.base \in {10, 16}
         /\ WordSize \in Nat /\ WordSize # 0
         /\ item.value \div WordSize \in Nat /\ item.value % WordSize \in Nat
         /\ item.value = (item.value % WordSize) + WordSize * (item.value \div WordSize)
<1>1. PICK w \in Nat : w = WordSize /\ w # 0
  BY PrintfAssumption
<1>2. PICK x \in Nat : x = item.value /\ x < w * w
  <2>1. w * w \in Nat
    OBVIOUS
  <2>2. item.value \in 0 .. w * w - 1
    BY <1>1 DEF OfNumber
  <2> QED
    BY <2>1, <2>2
<1>3. x < power(10, BufSize)
  <2>1. w * w <= power(10, BufSize) /\ BufSize \in Nat
    BY <1>1, PrintfAssumption
  <2>2. w * w \in Nat /\ power(10, BufSize) \in Nat
    BY <2>1, PowerSteps
  <2> QED
    BY <1>2, <2>1, <2>2
<1>4. item.base \in {10, 16}
  BY DEF OfNumber
<1>5. PICK y \in Nat, e \in Nat : y = x \div w /\ e = x % w /\ x = w * y + e
  BY <1>1, DivModOf
<1>6. x = e + w * y
  BY <1>5
<1> QED
  BY <1>1, <1>2, <1>3, <1>4, <1>5, <1>6

(* No item is an empty string, and all it consists of are characters. *)
LEMMA ItemTypes ==
  ASSUME NEW item \in Item
  PROVE  /\ Directive(item) \in Seq(Symbols) /\ Directive(item) # <<>>
         /\ Words(item) \in Seq(Values) /\ Printed(item) \in Seq(Symbols)
<1>0. /\ "text" # "char" /\ "text" # "string" /\ "text" # "number" /\ "char" # "string"
      /\ "char" # "number" /\ "string" # "number"
  OBVIOUS
<1>1. CASE Plainly(item)
  <2>1. item.text \in Seq(Symbols) /\ item.text # <<>>
    BY <1>1, Typed DEF Plainly
  <2>2. Directive(item) = item.text /\ Words(item) = <<>> /\ Printed(item) = item.text
    BY <1>1 DEF Plainly, Directive, Words, Printed
  <2> QED
    BY <2>1, <2>2
<1>2. ASSUME item.mods \in Modifiers, item.prints # "text",
             item.conversion \in {"c", "s", "d", "u", "p", "x"}
      PROVE  Directive(item) \in Seq(Symbols) /\ Directive(item) # <<>>
  <2>1. "%" \in Symbols /\ item.conversion \in Symbols
    BY <1>2 DEF Symbols
  <2>2. <<"%">> \in Seq(Symbols) /\ item.mods \in Seq(Symbols) /\ <<item.conversion>> \in Seq(Symbols)
    BY <1>2, <2>1, Typed
  <2>3. Directive(item) = <<"%">> \o item.mods \o <<item.conversion>>
    BY <1>2 DEF Directive
  <2>4. Directive(item) \in Seq(Symbols) /\ Len(Directive(item)) >= 1
    <3>1. PICK x \in Seq(Symbols) : x = item.mods
      BY <2>2
    <3>2. PICK y \in Seq(Symbols) : y = <<item.conversion>>
      BY <2>2
    <3>3. <<"%">> \o x \in Seq(Symbols) /\ Len(<<"%">> \o x) >= 1
      BY <2>2, ConcatProperties
    <3>4. (<<"%">> \o x) \o y \in Seq(Symbols) /\ Len((<<"%">> \o x) \o y) >= 1
      BY <3>3, ConcatProperties
    <3> QED
      BY <2>3, <3>1, <3>2, <3>4
  <2> QED
    BY <2>4
<1>3. CASE OfChar(item)
  <2>1. Words(item) = <<item.value>> /\ Printed(item) = <<item.value>>
    BY <1>3 DEF OfChar, Words, Printed
  <2>2. item.value \in Symbols /\ item.value \in Values
    BY <1>3 DEF OfChar, Symbols, Values
  <2>3. Directive(item) \in Seq(Symbols) /\ Directive(item) # <<>>
    BY <1>2, <1>3 DEF OfChar
  <2> QED
    BY <2>1, <2>2, <2>3
<1>4. CASE OfString(item)
  <2>1. Words(item) = <<item.value>> /\ Printed(item) = item.value
    BY <1>4 DEF OfString, Words, Printed
  <2>2. item.value \in Seq(Symbols) /\ item.value \in Values
    BY <1>4, Typed DEF OfString, Values
  <2>3. Directive(item) \in Seq(Symbols) /\ Directive(item) # <<>>
    BY <1>2, <1>4 DEF OfString
  <2> QED
    BY <2>1, <2>2, <2>3
<1>5. CASE OfNumber(item)
  <2>1. Printed(item) = Padded(item.value, item.base, item.width)
    BY <1>5 DEF OfNumber, Printed
  <2>2. Padded(item.value, item.base, item.width) \in Seq(Symbols)
    <3>1. item.width \in 0 .. 9
      BY <1>5 DEF OfNumber
    <3>2. item.value \in Nat /\ item.value < power(10, BufSize) /\ item.base \in {10, 16}
      BY <1>5, NumberFacts
    <3>3. PICK x \in Nat, b \in {10, 16}, w \in 0 .. 9 :
            x = item.value /\ b = item.base /\ w = item.width /\ x < power(10, BufSize)
      BY <3>1, <3>2
    <3>4. \E zeros : IsPadding(zeros, Numeral(x, b), x, b, w)
      BY <3>3, NumeralIsPadded
    <3> QED
      BY <3>3, <3>4 DEF IsPadding
  <2>3. Words(item) \in Seq(Values)
    <3>1. /\ item.value \in Values /\ item.value % WordSize \in Values
          /\ item.value \div WordSize \in Values
      BY <1>5, NumberFacts DEF Values
    <3>2. \/ Words(item) = <<item.value % WordSize, item.value \div WordSize>>
          \/ Words(item) = <<item.value>>
      BY <1>5 DEF OfNumber, Words
    <3>3. \A x, y \in Values : <<x>> \in Seq(Values) /\ <<x, y>> \in Seq(Values)
      OBVIOUS
    <3> QED
      BY <3>1, <3>2, <3>3, Zenon
  <2>4. Directive(item) \in Seq(Symbols) /\ Directive(item) # <<>>
    BY <1>2, <1>5 DEF OfNumber
  <2> QED
    BY <2>1, <2>2, <2>3, <2>4
<1> QED
  BY <1>1, <1>3, <1>4, <1>5, ItemKinds

-----------------------------------------------------------------------------
(* printf: the invariant.                                                  *)

ToPrint == [k \in DOMAIN call |-> Printed(call[k])]

(* F and A hold the format and the words behind each item, P what is to be *)
(* printed up to it.                                                       *)
Tables(F, A, P) ==
  /\ Len(call) \in Nat
  /\ F \in [0 .. Len(call) -> Seq(Symbols)] /\ A \in [0 .. Len(call) -> Seq(Values)]
  /\ P \in [0 .. Len(call) -> Seq(Symbols)]
  /\ F[Len(call)] = <<>> /\ A[Len(call)] = <<>> /\ P[0] = <<>>
  /\ P[Len(call)] = FlattenSeq(ToPrint)
  /\ \A k \in 1 .. Len(call) :
       /\ call[k] \in Item
       /\ F[k - 1] = Directive(call[k]) \o F[k]
       /\ A[k - 1] = Words(call[k]) \o A[k]
       /\ P[k] = P[k - 1] \o Printed(call[k])

(* In the text of the k-th item, of which rest has not been read, or       *)
(* between two items.                                                      *)
Between(F, A, P) ==
  /\ state = "PLAIN" /\ out \in Seq(Symbols)
  /\ \E k \in 0 .. Len(call), rest \in Seq(STRING \ {"%"}) :
       fmt = rest \o F[k] /\ ap = A[k] /\ out \o rest = P[k]

(* In the directive of the k-th item, of which some modifiers were read.   *)
InsideAt(F, A, P, k, read, rest) ==
  /\ call[k].prints # "text" /\ call[k].mods = read \o rest
  /\ fmt = rest \o (<<call[k].conversion>> \o F[k])
  /\ ap = Words(call[k]) \o A[k]
  /\ out = P[k - 1]
  /\ longness = Cardinality(Longs(read))
  /\ fill \in 0 .. 9 /\ IsWidth(fill, read)

Inside(F, A, P) ==
  /\ state = "INFMT" /\ out \in Seq(Symbols)
  /\ \E k \in 1 .. Len(call), read \in Modifiers, rest \in Modifiers :
       InsideAt(F, A, P, k, read, rest)

(* printf has read some items, completely or up to a place in the last     *)
(* one, and printed just these.                                            *)
PrintfInv ==
  call \in Calls /\ \E F, A, P : Tables(F, A, P) /\ (Between(F, A, P) \/ Inside(F, A, P))

LEMMA TablesExist ==
  ASSUME call \in Calls
  PROVE  \E F, A, P :
           /\ Tables(F, A, P)
           /\ F[0] = FlattenSeq([k \in DOMAIN call |-> Directive(call[k])])
           /\ A[0] = FlattenSeq([k \in DOMAIN call |-> Words(call[k])])
<1>1. call \in Seq(Item)
  BY PrintfAssumption
<1>2. PICK m \in Nat : m = Len(call) /\ DOMAIN call = 1 .. m
  BY <1>1
<1>3. \A k \in 1 .. m : call[k] \in Item
  BY <1>1, <1>2
<1> DEFINE D == [k \in DOMAIN call |-> Directive(call[k])]
           W == [k \in DOMAIN call |-> Words(call[k])]
<1>4. D \in [1 .. m -> Seq(Symbols)] /\ \A k \in 1 .. m : D[k] = Directive(call[k])
  BY <1>2, <1>3, ItemTypes
<1>5. W \in [1 .. m -> Seq(Values)] /\ \A k \in 1 .. m : W[k] = Words(call[k])
  BY <1>2, <1>3, ItemTypes
<1>6. ToPrint \in [1 .. m -> Seq(Symbols)] /\ \A k \in 1 .. m : ToPrint[k] = Printed(call[k])
  BY <1>2, <1>3, ItemTypes DEF ToPrint
<1> HIDE DEF D, W
<1>7. \A S, q : q \in [1 .. m -> Seq(S)] => q \in Seq(Seq(S)) /\ Len(q) = m
  OBVIOUS
<1>8. PICK F : Rests(F, D, Symbols)
  BY <1>4, <1>7, FlattenRests
<1>9. PICK A : Rests(A, W, Values)
  BY <1>5, <1>7, FlattenRests
<1>10. PICK P : Flattens(P, ToPrint, Symbols)
  BY <1>6, <1>7, FlattenSteps
<1>11. /\ F \in [0 .. m -> Seq(Symbols)] /\ F[m] = <<>> /\ F[0] = FlattenSeq(D)
       /\ \A k \in 1 .. m : F[k - 1] = Directive(call[k]) \o F[k]
  <2>1. Len(D) = m
    BY <1>4, <1>7
  <2> QED
    BY <1>4, <1>8, <2>1 DEF Rests
<1>12. /\ A \in [0 .. m -> Seq(Values)] /\ A[m] = <<>> /\ A[0] = FlattenSeq(W)
       /\ \A k \in 1 .. m : A[k - 1] = Words(call[k]) \o A[k]
  <2>1. Len(W) = m
    BY <1>5, <1>7
  <2> QED
    BY <1>5, <1>9, <2>1 DEF Rests
<1>13. /\ P \in [0 .. m -> Seq(Symbols)] /\ P[0] = <<>> /\ P[m] = FlattenSeq(ToPrint)
       /\ \A k \in 1 .. m : P[k] = P[k - 1] \o Printed(call[k])
  <2>1. Len(ToPrint) = m
    BY <1>6, <1>7
  <2> QED
    BY <1>6, <1>10, <2>1 DEF Flattens
<1>14. Tables(F, A, P)
  BY <1>2, <1>3, <1>11, <1>12, <1>13, Zenon DEF Tables
<1> QED
  BY <1>11, <1>12, <1>14 DEF D, W

(* What they hold at an item. *)
RowOf(F, A, P, k) ==
  /\ call[k] \in Item /\ k \in 0 .. Len(call) /\ k - 1 \in 0 .. Len(call)
  /\ F[k - 1] = Directive(call[k]) \o F[k] /\ F[k] \in Seq(Symbols)
  /\ A[k - 1] = Words(call[k]) \o A[k] /\ A[k] \in Seq(Values)
  /\ P[k] = P[k - 1] \o Printed(call[k]) /\ P[k - 1] \in Seq(Symbols)

LEMMA TablesAt ==
  ASSUME NEW F, NEW A, NEW P, Tables(F, A, P), NEW k \in 1 .. Len(call)
  PROVE  RowOf(F, A, P, k)
<1>1. PICK m \in Nat : m = Len(call)
  BY DEF Tables
<1>2. k \in 0 .. m /\ k - 1 \in 0 .. m
  BY <1>1
<1>3. /\ F \in [0 .. m -> Seq(Symbols)] /\ A \in [0 .. m -> Seq(Values)]
      /\ P \in [0 .. m -> Seq(Symbols)]
  BY <1>1, Zenon DEF Tables
<1>4. F[k] \in Seq(Symbols) /\ A[k] \in Seq(Values) /\ P[k - 1] \in Seq(Symbols)
  BY <1>2, <1>3
<1>5. /\ call[k] \in Item
      /\ F[k - 1] = Directive(call[k]) \o F[k]
      /\ A[k - 1] = Words(call[k]) \o A[k]
      /\ P[k] = P[k - 1] \o Printed(call[k])
  BY Zenon DEF Tables
<1> QED
  BY <1>1, <1>2, <1>4, <1>5 DEF RowOf

LEMMA PrintfStarts == PrintfInit => PrintfInv
<1> SUFFICES ASSUME PrintfInit PROVE PrintfInv
  OBVIOUS
<1> USE DEF PrintfInit
<1>1. PICK F, A, P : /\ Tables(F, A, P) /\ F[0] = fmt /\ A[0] = ap
  BY TablesExist
<1>2. /\ 0 \in 0 .. Len(call) /\ P[0] = <<>> /\ fmt \in Seq(Symbols)
  BY <1>1 DEF Tables
<1>3. /\ <<>> \in Seq(STRING \ {"%"}) /\ <<>> \in Seq(Symbols) /\ <<>> \o <<>> = <<>>
  OBVIOUS
<1>4. <<>> \o fmt = fmt
  BY <1>2
<1>5. Between(F, A, P)
  BY <1>1, <1>2, <1>3, <1>4 DEF Between
<1> QED
  BY <1>1, <1>5 DEF PrintfInv

(* What remains when all of the format has been read. *)
LEMMA PrintfEnds == PrintfInv => ItemsArePrinted
<1> SUFFICES ASSUME PrintfInv, fmt = <<>>
             PROVE  ap = <<>> /\ out = FlattenSeq(ToPrint)
  BY DEF ItemsArePrinted, ToPrint
<1>1. PICK F, A, P : Tables(F, A, P) /\ (Between(F, A, P) \/ Inside(F, A, P))
  BY DEF PrintfInv
<1>2. ~ Inside(F, A, P)
  <2> SUFFICES ASSUME Inside(F, A, P) PROVE FALSE
    OBVIOUS
  <2>1. PICK k \in 1 .. Len(call), rest \in Modifiers :
          call[k].prints # "text" /\ fmt = rest \o (<<call[k].conversion>> \o F[k])
    BY DEF Inside, InsideAt
  <2>2. call[k].conversion \in Symbols
    <3>1. call[k] \in Item
      BY <1>1, <2>1 DEF Tables
    <3> QED
      BY <2>1, <3>1, ItemKinds DEF Plainly, OfChar, OfString, OfNumber, Symbols
  <2>3. F[k] \in Seq(Symbols) /\ rest \in Seq(Symbols)
    BY <1>1, <2>1, Typed DEF Tables
  <2>4. PICK x \in Symbols, y \in Seq(Symbols) : x = call[k].conversion /\ y = F[k]
    BY <2>2, <2>3
  <2>5. <<x>> \o y # <<>> /\ <<x>> \o y \in Seq(Symbols)
    OBVIOUS
  <2>6. rest \o (<<x>> \o y) = <<>>
    BY <2>1, <2>4
  <2> QED
    BY <2>3, <2>5, <2>6, EmptyConcat
<1>3. PICK k \in 0 .. Len(call), rest \in Seq(STRING \ {"%"}) :
        fmt = rest \o F[k] /\ ap = A[k] /\ out \o rest = P[k] /\ out \in Seq(Symbols)
  BY <1>1, <1>2 DEF Between
<1>4. rest \in Seq(Symbols) /\ F[k] \in Seq(Symbols)
  BY <1>1, <1>3, Typed DEF Tables
<1>5. rest = <<>> /\ F[k] = <<>>
  <2>1. PICK x \in Seq(Symbols) : x = F[k]
    BY <1>4
  <2>2. rest \o x = <<>>
    BY <1>3, <2>1
  <2> QED
    BY <1>4, <2>1, <2>2, EmptyConcat
<1>6. out = P[k]
  BY <1>3, <1>5
<1>7. k = Len(call)
  <2> SUFFICES ASSUME k # Len(call) PROVE FALSE
    OBVIOUS
  <2>1. PICK l \in 1 .. Len(call) : l = k + 1 /\ l - 1 = k
    BY <1>1 DEF Tables
  <2>2. call[l] \in Item /\ F[k] = Directive(call[l]) \o F[l] /\ F[l] \in Seq(Symbols)
    <3>1. RowOf(F, A, P, l)
      BY <1>1, TablesAt
    <3> QED
      BY <2>1, <3>1 DEF RowOf
  <2>3. Directive(call[l]) \in Seq(Symbols) /\ Directive(call[l]) # <<>>
    BY <2>2, ItemTypes
  <2> QED
    <3>1. PICK x \in Seq(Symbols), y \in Seq(Symbols) : x = Directive(call[l]) /\ y = F[l]
      BY <2>2, <2>3
    <3>2. x \o y = <<>>
      BY <1>5, <2>2, <3>1
    <3> QED
      BY <2>3, <3>1, <3>2, EmptyConcat
<1> QED
  BY <1>1, <1>3, <1>6, <1>7 DEF Tables

Associate(s, t, x) == (s \o t) \o x = s \o (t \o x)

LEMMA SymbolsAssociate == \A s, t, x \in Seq(Symbols) : Associate(s, t, x)
BY ConcatAssociative DEF Associate

Regroups(s, t, x, y) == ((s \o t) \o x) \o y = s \o (t \o (x \o y))

LEMMA RegroupConcat ==
  ASSUME NEW s \in Seq(Symbols), NEW t \in Seq(Symbols), NEW x \in Seq(Symbols),
         NEW y \in Seq(Symbols)
  PROVE  Regroups(s, t, x, y)
<1>1. s \o t \in Seq(Symbols) /\ x \o y \in Seq(Symbols)
  OBVIOUS
<1>2. PICK g \in Seq(Symbols), h \in Seq(Symbols) : g = s \o t /\ h = x \o y
  BY <1>1, Zenon
<1>3. Associate(g, x, y) /\ Associate(s, t, h)
  BY SymbolsAssociate, Zenon
<1>4. (g \o x) \o y = g \o (x \o y) /\ (s \o t) \o h = s \o (t \o h)
  BY <1>3, Zenon DEF Associate
<1> QED
  BY <1>2, <1>4, Zenon DEF Regroups

LEMMA DirectiveItem ==
  ASSUME NEW item \in Item, ~ Plainly(item)
  PROVE  /\ item.prints # "text" /\ item.mods \in Modifiers
         /\ item.conversion \in {"c", "s", "d", "u", "p", "x"} /\ item.conversion \in Symbols
         /\ Directive(item) = (<<"%">> \o item.mods) \o <<item.conversion>>
<1>1. OfChar(item) \/ OfString(item) \/ OfNumber(item)
  BY ItemKinds
<1>2. /\ item.prints # "text" /\ item.mods \in Modifiers
      /\ item.conversion \in {"c", "s", "d", "u", "p", "x"}
  BY <1>1 DEF OfChar, OfString, OfNumber
<1> QED
  BY <1>2 DEF Directive, Symbols

(* A character of a text is printed. *)
LEMMA TextRead ==
  ASSUME NEW F, NEW A, NEW P, Tables(F, A, P), Plain, out \in Seq(Symbols),
         NEW k \in 0 .. Len(call), NEW rest \in Seq(STRING \ {"%"}), rest # <<>>,
         fmt = rest \o F[k], ap = A[k], out \o rest = P[k]
  PROVE  Between(F, A, P)'
<1>1. /\ Head(rest) \in STRING \ {"%"} /\ Tail(rest) \in Seq(STRING \ {"%"})
  OBVIOUS
<1>2. F[k] \in Seq(Symbols) /\ rest \in Seq(Symbols)
  BY Typed DEF Tables
<1>3. PICK h, r : h = Head(rest) /\ r = Tail(rest)
  OBVIOUS
<1>4. Head(fmt) = h /\ Tail(fmt) = r \o F[k] /\ h # "%"
  <2>1. PICK f \in Seq(Symbols) : f = F[k]
    BY <1>2
  <2>2. Head(rest \o f) = Head(rest) /\ Tail(rest \o f) = Tail(rest) \o f
    BY <1>2, HeadOfConcat
  <2> QED
    BY <1>1, <1>3, <2>1, <2>2
<1>5. /\ fmt' = r \o F[k] /\ call' = call /\ ap' = ap /\ state = "PLAIN" /\ state' = state
      /\ out' = Append(out, h)
  BY <1>4 DEF Plain, Reads
<1>6. Append(out, h) \o r = P[k] /\ Append(out, h) \in Seq(Symbols)
  <2>1. Append(out, Head(rest)) \o Tail(rest) = out \o rest
        /\ Append(out, Head(rest)) \in Seq(Symbols)
    BY <1>2, MoveHead
  <2> QED
    BY <1>3, <2>1
<1>7. r \in Seq(STRING \ {"%"})
  BY <1>1, <1>3
<1> QED
  BY <1>5, <1>6, <1>7 DEF Between

LEMMA NothingRead ==
  /\ <<>> \in Modifiers /\ Longs(<<>>) = {} /\ Cardinality(Longs(<<>>)) = 0
  /\ IsWidth(0, <<>>)
<1>1. <<>> \in Modifiers /\ DOMAIN <<>> = {}
  BY DEF Modifiers
<1>2. Longs(<<>>) = {} /\ IsWidth(0, <<>>)
  BY <1>1 DEF Longs, IsWidth
<1> QED
  BY <1>1, <1>2, FS_EmptySet

(* A directive begins. *)
LEMMA DirectiveBegins ==
  ASSUME NEW F, NEW A, NEW P, Tables(F, A, P), Plain, state = "PLAIN",
         NEW k \in 1 .. Len(call), ~ Plainly(call[k]),
         fmt = F[k - 1], ap = A[k - 1], out = P[k - 1]
  PROVE  Inside(F, A, P)'
<1> DEFINE item == call[k]
<1>1. /\ item \in Item /\ F[k - 1] = Directive(item) \o F[k] /\ F[k] \in Seq(Symbols)
      /\ A[k - 1] = Words(item) \o A[k] /\ P[k - 1] \in Seq(Symbols)
  <2>1. RowOf(F, A, P, k)
    BY TablesAt
  <2> QED
    BY <2>1 DEF RowOf, item
<1>2. /\ item.prints # "text" /\ item.mods \in Modifiers /\ item.conversion \in Symbols
      /\ Directive(item) = (<<"%">> \o item.mods) \o <<item.conversion>>
  BY <1>1, DirectiveItem
<1> HIDE DEF item
<1>3. "%" \in Symbols
  BY DEF Symbols
<1>4. PICK g \in Seq(Symbols), x \in Seq(Symbols), y \in Seq(Symbols), z \in Seq(Symbols) :
        g = <<"%">> /\ x = item.mods /\ y = <<item.conversion>> /\ z = F[k]
  <2>1. <<"%">> \in Seq(Symbols) /\ <<item.conversion>> \in Seq(Symbols)
    BY <1>2, <1>3
  <2>2. item.mods \in Seq(Symbols) /\ F[k] \in Seq(Symbols)
    BY <1>1, <1>2, Typed
  <2> QED
    BY <2>1, <2>2
<1>5. fmt = g \o (x \o (y \o z))
  <2>1. fmt = ((g \o x) \o y) \o z
    BY <1>1, <1>2, <1>4
  <2> QED
    <3>1. Regroups(g, x, y, z)
      BY RegroupConcat
    <3> QED
      BY <2>1, <3>1 DEF Regroups
<1>6. x \o (y \o z) \in Seq(Symbols)
  BY <1>4
<1>7. Head(fmt) = "%" /\ Tail(fmt) = x \o (y \o z)
  <2>1. PICK w \in Seq(Symbols) : w = x \o (y \o z)
    BY <1>6
  <2>2. Head(<<"%">> \o w) = "%" /\ Tail(<<"%">> \o w) = w
    BY <1>3, HeadOfMore
  <2> QED
    BY <1>4, <1>5, <2>1, <2>2
<1>8. /\ fmt' = x \o (y \o z) /\ call' = call /\ ap' = ap /\ out' = out
      /\ state' = "INFMT" /\ longness' = 0 /\ fill' = 0
  BY <1>7 DEF Plain, Reads
<1>9. item.mods = <<>> \o item.mods
  BY <1>4
<1>10. 0 \in 0 .. 9
  OBVIOUS
<1> QED
  <2>1. fmt' = item.mods \o (<<item.conversion>> \o F[k])
    BY <1>4, <1>8
  <2>2. out' \in Seq(Symbols) /\ out' = P[k - 1] /\ ap' = Words(item) \o A[k]
    BY <1>1, <1>8
  <2>3. longness' = Cardinality(Longs(<<>>)) /\ IsWidth(fill', <<>>) /\ fill' \in 0 .. 9
    BY <1>8, <1>10, NothingRead
  <2>4. \E read \in Modifiers, rest \in Modifiers :
          /\ item.prints # "text" /\ item.mods = read \o rest
          /\ fmt' = rest \o (<<item.conversion>> \o F[k])
          /\ ap' = Words(item) \o A[k]
          /\ out' = P[k - 1]
          /\ longness' = Cardinality(Longs(read))
          /\ fill' \in 0 .. 9 /\ IsWidth(fill', read)
    BY <1>2, <1>9, <2>1, <2>2, <2>3, NothingRead
  <2> QED
    BY <1>8, <2>2, <2>4 DEF Inside, InsideAt, item

LEMMA PlainKeeps ==
  ASSUME NEW F, NEW A, NEW P, Tables(F, A, P), Between(F, A, P), Plain
  PROVE  Between(F, A, P)' \/ Inside(F, A, P)'
<1>1. PICK k \in 0 .. Len(call), rest \in Seq(STRING \ {"%"}) :
        /\ fmt = rest \o F[k] /\ ap = A[k] /\ out \o rest = P[k]
        /\ out \in Seq(Symbols) /\ state = "PLAIN"
  BY DEF Between
<1>2. CASE rest # <<>>
  BY <1>1, <1>2, TextRead
<1>3. CASE rest = <<>>
  <2>1. F[k] \in Seq(Symbols) /\ Len(call) \in Nat
    BY DEF Tables
  <2>2. fmt = F[k] /\ out = P[k]
    BY <1>1, <1>3, <2>1
  <2>3. k # Len(call)
    <3>1. fmt # <<>>
      BY DEF Plain
    <3> QED
      BY <2>2, <3>1 DEF Tables
  <2>4. PICK l \in 1 .. Len(call) : l - 1 = k
    <3>1. k + 1 \in 1 .. Len(call) /\ (k + 1) - 1 = k
      BY <2>1, <2>3
    <3> QED
      BY <3>1
  <2>5. /\ call[l] \in Item /\ F[k] = Directive(call[l]) \o F[l]
        /\ A[k] = Words(call[l]) \o A[l] /\ A[l] \in Seq(Values)
        /\ P[l] = P[k] \o Printed(call[l]) /\ l \in 0 .. Len(call)
    <3>0. RowOf(F, A, P, l)
      BY <2>4, TablesAt
    <3>1. /\ call[l] \in Item /\ F[l - 1] = Directive(call[l]) \o F[l]
          /\ A[l - 1] = Words(call[l]) \o A[l] /\ A[l] \in Seq(Values)
          /\ P[l] = P[l - 1] \o Printed(call[l]) /\ l \in 0 .. Len(call)
      BY <3>0 DEF RowOf
    <3> QED
      BY <2>4, <3>1
  <2>6. CASE Plainly(call[l])
    <3>1. /\ Directive(call[l]) = call[l].text /\ Words(call[l]) = <<>>
          /\ Printed(call[l]) = call[l].text
      BY <2>6 DEF Plainly, Directive, Words, Printed
    <3>2. A[k] = A[l]
      <4>1. <<>> \o A[l] = A[l]
        BY <2>5
      <4> QED
        BY <2>5, <3>1, <4>1
    <3>3. PICK text \in Seq(STRING \ {"%"}) : text = call[l].text /\ text # <<>>
      BY <2>6 DEF Plainly
    <3>4. fmt = text \o F[l] /\ ap = A[l] /\ out \o text = P[l]
      BY <1>1, <2>2, <2>5, <3>1, <3>2, <3>3
    <3> QED
      BY <1>1, <2>5, <3>3, <3>4, TextRead
  <2>7. CASE ~ Plainly(call[l])
    BY <1>1, <2>2, <2>4, <2>7, DirectiveBegins
  <2> QED
    BY <2>6, <2>7
<1> QED
  BY <1>2, <1>3

LEMMA LongsCounted ==
  ASSUME NEW mods \in Modifiers
  PROVE  IsFiniteSet(Longs(mods)) /\ Cardinality(Longs(mods)) \in Nat
<1>1. PICK n \in Nat : n = Len(mods)
  BY DEF Modifiers
<1>2. Longs(mods) \subseteq 1 .. n
  BY <1>1 DEF Longs, Modifiers
<1>3. IsFiniteSet(1 .. n)
  BY FS_Interval
<1>4. IsFiniteSet(Longs(mods))
  BY <1>2, <1>3, FS_Subset
<1> QED
  BY <1>4, FS_CardinalityType

(* One more modifier. *)
LEMMA ModifierRead ==
  ASSUME NEW read \in Modifiers, NEW x \in STRING \ (Conversions \ {"l"})
  PROVE  /\ Append(read, x) \in Modifiers
         /\ Cardinality(Longs(Append(read, x))) =
              Cardinality(Longs(read)) + IF x = "l" THEN 1 ELSE 0
<1>1. PICK n \in Nat : n = Len(read) /\ DOMAIN read = 1 .. n
  BY DEF Modifiers
<1> DEFINE more == Append(read, x)
<1>2. /\ more \in Modifiers /\ DOMAIN more = 1 .. n + 1 /\ more[n + 1] = x
      /\ \A k \in 1 .. n : more[k] = read[k]
  BY <1>1, AppendProperties DEF Modifiers
<1> HIDE DEF more
<1>3. Longs(read) \subseteq 1 .. n
  BY <1>1 DEF Longs
<1>4. Longs(more) = Longs(read) \cup (IF x = "l" THEN {n + 1} ELSE {})
  <2>1. ASSUME NEW k \in Longs(more)
        PROVE  k \in Longs(read) \cup (IF x = "l" THEN {n + 1} ELSE {})
    <3>1. k \in 1 .. n + 1 /\ more[k] = "l"
      BY <1>2, <2>1 DEF Longs
    <3>2. CASE k = n + 1
      BY <1>2, <3>1, <3>2
    <3>3. CASE k # n + 1
      <4>1. k \in 1 .. n
        BY <3>1, <3>3
      <4> QED
        BY <1>1, <1>2, <3>1, <4>1 DEF Longs
    <3> QED
      BY <3>2, <3>3
  <2>2. ASSUME NEW k \in Longs(read) PROVE k \in Longs(more)
    <3>1. k \in 1 .. n /\ read[k] = "l"
      BY <1>1, <2>2 DEF Longs
    <3> QED
      BY <1>2, <3>1 DEF Longs
  <2>3. x = "l" => n + 1 \in Longs(more)
    BY <1>2 DEF Longs
  <2> QED
    BY <2>1, <2>2, <2>3
<1>5. IsFiniteSet(Longs(read)) /\ Cardinality(Longs(read)) \in Nat
  BY LongsCounted
<1>6. Cardinality(Longs(more)) = Cardinality(Longs(read)) + IF x = "l" THEN 1 ELSE 0
  <2>1. CASE x = "l"
    <3>1. n + 1 \notin Longs(read) /\ Longs(more) = Longs(read) \cup {n + 1}
      BY <1>3, <1>4, <2>1
    <3>2. Cardinality(Longs(read) \cup {n + 1}) = Cardinality(Longs(read)) + 1
      BY <1>5, <3>1, FS_AddElement
    <3> QED
      BY <2>1, <3>1, <3>2
  <2>2. CASE x # "l"
    <3>1. Longs(more) = Longs(read)
      BY <1>4, <2>2
    <3> QED
      BY <1>5, <2>2, <3>1
  <2> QED
    BY <2>1, <2>2
<1> QED
  BY <1>2, <1>6 DEF more

LEMMA FiguresOf ==
  /\ ToSet(Figures) = {"0", "1", "2", "3", "4", "5", "6", "7", "8", "9"}
  /\ "l" \notin ToSet(Figures)
  /\ \A k \in 1 .. 10 : Figures[k] \in ToSet(Figures)
  /\ \A k, l \in 1 .. 10 : Figures[k] = Figures[l] => k = l
<1>1. ToSet(Figures) = {"0", "1", "2", "3", "4", "5", "6", "7", "8", "9"}
  BY DEF ToSet, Figures
<1>2. "l" \notin ToSet(Figures)
  BY <1>1
<1>3. \A k \in 1 .. 10 : Figures[k] \in ToSet(Figures)
  BY DEF ToSet, Figures
<1>4. \A k, l \in 1 .. 10 : Figures[k] = Figures[l] => k = l
  BY DEF Figures
<1> QED
  BY <1>1, <1>2, <1>3, <1>4

(* What the last figure says changes only with another one. *)
LEMMA WidthRead ==
  ASSUME NEW read \in Modifiers, NEW x \in STRING \ (Conversions \ {"l"}),
         NEW w \in 0 .. 9
  PROVE  /\ x \notin ToSet(Figures) /\ IsWidth(w, read) => IsWidth(w, Append(read, x))
         /\ x = Figures[w + 1] => IsWidth(w, Append(read, x))
<1>1. PICK n \in Nat : n = Len(read) /\ DOMAIN read = 1 .. n
  BY DEF Modifiers
<1> DEFINE more == Append(read, x)
<1>2. /\ DOMAIN more = 1 .. n + 1 /\ Len(more) = n + 1 /\ more[n + 1] = x
      /\ \A k \in 1 .. n : more[k] = read[k]
  BY <1>1, AppendProperties DEF Modifiers
<1> HIDE DEF more
<1> DEFINE none(y) == y \notin ToSet(Figures)
<1>3. ASSUME none(x), IsWidth(w, read) PROVE IsWidth(w, more)
  <2>1. CASE w = 0 /\ \A k \in 1 .. n : none(read[k])
    <3>1. ASSUME NEW k \in 1 .. n + 1 PROVE none(more[k])
      <4>1. k \in 1 .. n \/ k = n + 1
        OBVIOUS
      <4> QED
        BY <1>2, <1>3, <2>1, <4>1
    <3> QED
      BY <1>2, <2>1, <3>1 DEF IsWidth
  <2>2. CASE \E k \in 1 .. n : read[k] = Figures[w + 1] /\ \A l \in k + 1 .. n : none(read[l])
    <3>1. PICK k \in 1 .. n : read[k] = Figures[w + 1] /\ \A l \in k + 1 .. n : none(read[l])
      BY <2>2
    <3>2. k \in 1 .. n + 1 /\ more[k] = Figures[w + 1]
      BY <1>2, <3>1
    <3>3. ASSUME NEW l \in k + 1 .. n + 1 PROVE none(more[l])
      <4>1. (l \in k + 1 .. n /\ l \in 1 .. n) \/ l = n + 1
        OBVIOUS
      <4> QED
        BY <1>2, <1>3, <3>1, <4>1
    <3> QED
      BY <1>2, <3>2, <3>3 DEF IsWidth
  <2> QED
    BY <1>1, <1>3, <2>1, <2>2 DEF IsWidth
<1>4. ASSUME x = Figures[w + 1] PROVE IsWidth(w, more)
  <2>1. n + 1 \in 1 .. n + 1 /\ (n + 1) + 1 .. n + 1 = {}
    OBVIOUS
  <2> QED
    BY <1>2, <1>4, <2>1 DEF IsWidth
<1> QED
  BY <1>3, <1>4 DEF more

(* Only one number is the width. *)
LEMMA WidthIsUnique ==
  ASSUME NEW mods \in Modifiers, NEW v \in 0 .. 9, NEW w \in 0 .. 9,
         IsWidth(v, mods), IsWidth(w, mods)
  PROVE  v = w
<1>1. PICK n \in Nat : n = Len(mods) /\ DOMAIN mods = 1 .. n
  BY DEF Modifiers
<1> DEFINE none(y) == y \notin ToSet(Figures)
           last(y, k) == mods[k] = Figures[y + 1] /\ \A l \in k + 1 .. n : none(mods[l])
<1>2. ASSUME NEW y \in 0 .. 9, NEW k \in 1 .. n, last(y, k) PROVE ~ none(mods[k])
  <2>1. y + 1 \in 1 .. 10
    OBVIOUS
  <2> QED
    BY <1>2, <2>1, FiguresOf
<1>3. ASSUME NEW y \in 0 .. 9, IsWidth(y, mods)
      PROVE  \/ y = 0 /\ \A k \in 1 .. n : none(mods[k])
             \/ \E k \in 1 .. n : last(y, k)
  BY <1>1, <1>3 DEF IsWidth
<1>4. ASSUME NEW k \in 1 .. n, NEW l \in 1 .. n, last(v, k), last(w, l) PROVE v = w
  <2>1. ~ (k < l) /\ ~ (l < k)
    <3>1. k < l => l \in k + 1 .. n
      OBVIOUS
    <3>2. l < k => k \in l + 1 .. n
      OBVIOUS
    <3> QED
      BY <1>2, <1>4, <3>1, <3>2
  <2>2. k = l
    BY <2>1
  <2>3. v + 1 \in 1 .. 10 /\ w + 1 \in 1 .. 10 /\ Figures[v + 1] = Figures[w + 1]
    BY <1>4, <2>2
  <2>4. v + 1 = w + 1
    BY <2>3, FiguresOf
  <2> QED
    BY <2>4
<1> HIDE DEF none
<1> QED
  BY <1>2, <1>3, <1>4

(* What is read next in a directive. *)
HeadIs(F, k, read, rest) ==
  /\ call[k] \in Item /\ ~ Plainly(call[k])
  /\ call[k].conversion \in {"c", "s", "d", "u", "p", "x"}
  /\ rest # <<>> =>
       /\ Head(fmt) \in STRING \ (Conversions \ {"l"}) /\ Tail(rest) \in Modifiers
       /\ Tail(fmt) = Tail(rest) \o (<<call[k].conversion>> \o F[k])
       /\ call[k].mods = Append(read, Head(fmt)) \o Tail(rest)
  /\ rest = <<>> =>
       Head(fmt) = call[k].conversion /\ Tail(fmt) = F[k] /\ call[k].mods = read

LEMMA InsideHead ==
  ASSUME NEW F, NEW A, NEW P, Tables(F, A, P), NEW k \in 1 .. Len(call),
         NEW read \in Modifiers, NEW rest \in Modifiers, InsideAt(F, A, P, k, read, rest)
  PROVE  HeadIs(F, k, read, rest)
<1>1. call[k] \in Item /\ F[k] \in Seq(Symbols)
  <2>1. RowOf(F, A, P, k)
    BY TablesAt
  <2> QED
    BY <2>1 DEF RowOf
<1>2. ~ Plainly(call[k])
  BY DEF Plainly, InsideAt
<1>3. call[k].conversion \in {"c", "s", "d", "u", "p", "x"} /\ call[k].conversion \in Symbols
  BY <1>1, <1>2, DirectiveItem
<1>4. PICK x \in Symbols, y \in Seq(Symbols) : x = call[k].conversion /\ y = F[k]
  BY <1>1, <1>3
<1>5. <<x>> \o y \in Seq(Symbols)
  BY <1>4
<1>6. PICK z \in Seq(Symbols) : z = <<x>> \o y
  BY <1>5, Zenon
<1>7. fmt = rest \o z /\ rest \in Seq(Symbols) /\ call[k].mods = read \o rest
  BY <1>4, <1>6, Typed DEF InsideAt
<1>8. ASSUME rest # <<>>
      PROVE  /\ Head(fmt) = Head(rest) /\ Head(fmt) \in STRING \ (Conversions \ {"l"})
             /\ Tail(rest) \in Modifiers /\ Tail(fmt) = Tail(rest) \o z
             /\ call[k].mods = Append(read, Head(fmt)) \o Tail(rest)
  <2>1. Head(rest \o z) = Head(rest) /\ Tail(rest \o z) = Tail(rest) \o z
    BY <1>7, <1>8, HeadOfConcat
  <2>2. Head(rest) \in STRING \ (Conversions \ {"l"}) /\ Tail(rest) \in Modifiers
    BY <1>8 DEF Modifiers
  <2>3. Append(read, Head(rest)) \o Tail(rest) = read \o rest
    BY <1>8, MoveHead DEF Modifiers
  <2> QED
    BY <1>7, <2>1, <2>2, <2>3
<1>9. ASSUME rest = <<>>
      PROVE  Head(fmt) = x /\ Tail(fmt) = y /\ call[k].mods = read
  <2>1. <<>> \o z = z
    OBVIOUS
  <2>2. Head(<<x>> \o y) = x /\ Tail(<<x>> \o y) = y
    BY HeadOfMore
  <2>3. read \o <<>> = read
    BY DEF Modifiers
  <2> QED
    BY <1>6, <1>7, <1>9, <2>1, <2>2, <2>3
<1> QED
  BY <1>1, <1>2, <1>3, <1>4, <1>6, <1>8, <1>9 DEF HeadIs

LEMMA ModifierKeeps ==
  ASSUME NEW F, NEW A, NEW P, Tables(F, A, P), NEW k \in 1 .. Len(call),
         NEW read \in Modifiers, NEW rest \in Modifiers, InsideAt(F, A, P, k, read, rest),
         rest # <<>>, state = "INFMT", out \in Seq(Symbols),
         call' = call, fmt' = Tail(fmt), ap' = ap, out' = out, state' = state,
         longness' = longness + IF Head(fmt) = "l" THEN 1 ELSE 0,
         fill' \in 0 .. 9,
         \/ Head(fmt) \notin ToSet(Figures) /\ fill' = fill
         \/ Head(fmt) = Figures[fill' + 1]
  PROVE  Inside(F, A, P)'
<1>1. /\ Head(fmt) \in STRING \ (Conversions \ {"l"}) /\ Tail(rest) \in Modifiers
      /\ Tail(fmt) = Tail(rest) \o (<<call[k].conversion>> \o F[k])
      /\ call[k].mods = Append(read, Head(fmt)) \o Tail(rest)
  <2>1. HeadIs(F, k, read, rest)
    BY InsideHead
  <2> QED
    BY <2>1 DEF HeadIs
<1>2. /\ call[k].prints # "text" /\ ap = Words(call[k]) \o A[k] /\ out = P[k - 1]
      /\ longness = Cardinality(Longs(read)) /\ fill \in 0 .. 9 /\ IsWidth(fill, read)
  BY DEF InsideAt
<1>3. PICK more : more = Append(read, Head(fmt))
  OBVIOUS
<1>4. more \in Modifiers /\ longness' = Cardinality(Longs(more))
  BY <1>1, <1>2, <1>3, ModifierRead
<1>5. IsWidth(fill', more)
  BY <1>1, <1>2, <1>3, WidthRead
<1>6. PICK left : left = Tail(rest)
  OBVIOUS
<1>7. left \in Modifiers /\ call[k].mods = more \o left
      /\ fmt' = left \o (<<call[k].conversion>> \o F[k])
  BY <1>1, <1>3, <1>6
<1>8. k \in 1 .. Len(call') /\ call'[k] = call[k]
  OBVIOUS
<1>9. InsideAt(F, A, P, k, more, left)'
  BY <1>2, <1>4, <1>5, <1>7 DEF InsideAt
<1> QED
  BY <1>4, <1>7, <1>8, <1>9 DEF Inside

(* The directive ends, and with it its item. *)
LEMMA DirectiveEnds ==
  ASSUME NEW F, NEW A, NEW P, Tables(F, A, P), NEW k \in 1 .. Len(call),
         call' = call, fmt' = F[k], ap' = A[k], out' = P[k], state' = "PLAIN"
  PROVE  Between(F, A, P)'
<1>1. /\ k \in 0 .. Len(call) /\ F[k] \in Seq(Symbols) /\ P[k] \in Seq(Symbols)
  <2>1. RowOf(F, A, P, k)
    BY TablesAt
  <2>2. P \in [0 .. Len(call) -> Seq(Symbols)]
    BY DEF Tables
  <2> QED
    BY <2>1, <2>2 DEF RowOf
<1>2. <<>> \in Seq(STRING \ {"%"}) /\ <<>> \o F[k] = F[k] /\ P[k] \o <<>> = P[k]
  BY <1>1
<1> QED
  BY <1>1, <1>2 DEF Between

(* A conversion prints what its item is to print, and takes its words.     *)
LEMMA CharPrinted ==
  ASSUME NEW F, NEW A, NEW P, Tables(F, A, P), NEW k \in 1 .. Len(call),
         NEW read \in Modifiers, NEW rest \in Modifiers, InsideAt(F, A, P, k, read, rest),
         PrintChar
  PROVE  Between(F, A, P)'
<1>1. Head(fmt) = "c" /\ fmt' = Tail(fmt) /\ call' = call /\ state' = "PLAIN"
      /\ out' = Append(out, Head(ap)) /\ ap' = Tail(ap)
  BY DEF PrintChar, Reads
<1>h. HeadIs(F, k, read, rest)
  BY InsideHead
<1>2. rest = <<>>
  BY <1>1, <1>h DEF HeadIs, Conversions
<1>3. /\ call[k] \in Item /\ ~ Plainly(call[k]) /\ call[k].conversion = "c" /\ fmt' = F[k]
  BY <1>1, <1>2, <1>h DEF HeadIs
<1>4. OfChar(call[k])
  BY <1>3, ItemKinds DEF OfString, OfNumber
<1>5. RowOf(F, A, P, k)
  BY TablesAt
<1>6. PICK x \in Symbols : x = call[k].value
  BY <1>4 DEF OfChar, Symbols
<1>7. Words(call[k]) = <<x>> /\ Printed(call[k]) = <<x>> /\ x \in Values
  BY <1>4, <1>6 DEF OfChar, Words, Printed, Values
<1>8. ap = <<x>> \o A[k] /\ out = P[k - 1] /\ A[k] \in Seq(Values) /\ P[k - 1] \in Seq(Symbols)
  BY <1>5, <1>7 DEF InsideAt, RowOf
<1>9. Head(ap) = x /\ Tail(ap) = A[k]
  <2>1. PICK t \in Seq(Values) : t = A[k]
    BY <1>8
  <2>2. Head(<<x>> \o t) = x /\ Tail(<<x>> \o t) = t
    BY <1>7, HeadOfMore
  <2> QED
    BY <1>8, <2>1, <2>2
<1>10. out' = P[k]
  <2>1. PICK t \in Seq(Symbols) : t = P[k - 1]
    BY <1>8
  <2>2. Append(t, x) = t \o <<x>>
    BY AppendIsConcat
  <2> QED
    BY <1>1, <1>5, <1>7, <1>8, <1>9, <2>1, <2>2 DEF RowOf
<1> QED
  BY <1>1, <1>3, <1>9, <1>10, DirectiveEnds

LEMMA StringPrinted ==
  ASSUME NEW F, NEW A, NEW P, Tables(F, A, P), NEW k \in 1 .. Len(call),
         NEW read \in Modifiers, NEW rest \in Modifiers, InsideAt(F, A, P, k, read, rest),
         PrintString
  PROVE  Between(F, A, P)'
<1>1. Head(fmt) = "s" /\ fmt' = Tail(fmt) /\ call' = call /\ state' = "PLAIN"
      /\ out' = out \o Head(ap) /\ ap' = Tail(ap)
  BY DEF PrintString, Reads
<1>h. HeadIs(F, k, read, rest)
  BY InsideHead
<1>2. rest = <<>>
  BY <1>1, <1>h DEF HeadIs, Conversions
<1>3. /\ call[k] \in Item /\ ~ Plainly(call[k]) /\ call[k].conversion = "s" /\ fmt' = F[k]
  BY <1>1, <1>2, <1>h DEF HeadIs
<1>4. OfString(call[k])
  BY <1>3, ItemKinds DEF OfChar, OfNumber
<1>5. RowOf(F, A, P, k)
  BY TablesAt
<1>6. PICK x \in Values : x = call[k].value
  BY <1>4 DEF OfString, Values
<1>7. Words(call[k]) = <<x>> /\ Printed(call[k]) = x
  BY <1>4, <1>6 DEF OfString, Words, Printed
<1>8. ap = <<x>> \o A[k] /\ out = P[k - 1] /\ A[k] \in Seq(Values)
  BY <1>5, <1>7 DEF InsideAt, RowOf
<1>9. Head(ap) = x /\ Tail(ap) = A[k]
  <2>1. PICK t \in Seq(Values) : t = A[k]
    BY <1>8
  <2>2. Head(<<x>> \o t) = x /\ Tail(<<x>> \o t) = t
    BY HeadOfMore
  <2> QED
    BY <1>8, <2>1, <2>2
<1>10. out' = P[k]
  BY <1>1, <1>5, <1>7, <1>8, <1>9 DEF RowOf
<1> QED
  BY <1>1, <1>3, <1>9, <1>10, DirectiveEnds

(* What is left when one or two words are taken. *)
LEMMA TakesOne ==
  ASSUME NEW x \in Values, NEW t \in Seq(Values)
  PROVE  (<<x>> \o t)[1] = x /\ SubSeq(<<x>> \o t, 2, Len(<<x>> \o t)) = t
<1>1. <<x>> \in Seq(Values) /\ Len(<<x>>) = 1 /\ <<x>>[1] = x
  OBVIOUS
<1> DEFINE z == <<x>> \o t
<1>2. z \in Seq(Values) /\ z # <<>> /\ z[1] = x
  <2>1. z \in Seq(Values) /\ Len(z) = 1 + Len(t)
    BY <1>1, ConcatProperties
  <2>2. 1 \in 1 .. 1 + Len(t) /\ 1 <= Len(<<x>>)
    BY <1>1
  <2>3. z[1] = <<x>>[1]
    BY <1>1, <2>2, ConcatProperties
  <2> QED
    BY <1>1, <2>1, <2>3
<1>3. Tail(z) = t
  BY HeadOfMore
<1> HIDE DEF z
<1>4. Tail(z) = SubSeq(z, 2, Len(z))
  BY <1>2, TailIsSubSeq
<1> QED
  BY <1>2, <1>3, <1>4 DEF z

LEMMA TakesTwo ==
  ASSUME NEW x \in Values, NEW y \in Values, NEW t \in Seq(Values)
  PROVE  /\ (<<x, y>> \o t)[1] = x /\ (<<x, y>> \o t)[2] = y
         /\ SubSeq(<<x, y>> \o t, 3, Len(<<x, y>> \o t)) = t
<1>1. PICK m \in Nat : m = Len(t)
  OBVIOUS
<1>2. <<x, y>> \in Seq(Values) /\ Len(<<x, y>>) = 2
  OBVIOUS
<1> DEFINE z == <<x, y>> \o t
<1>3. z \in Seq(Values) /\ Len(z) = 2 + m
  BY <1>1, <1>2, ConcatProperties
<1>4. \A k \in 1 .. 2 + m : z[k] = IF k <= 2 THEN <<x, y>>[k] ELSE t[k - 2]
  BY <1>1, <1>2, ConcatProperties
<1>5. z[1] = x /\ z[2] = y
  BY <1>1, <1>4
<1> HIDE DEF z
<1> DEFINE w == SubSeq(z, 3, 2 + m)
<1>6. w \in Seq(Values) /\ Len(w) = m /\ \A k \in 1 .. m : w[k] = z[k + 2]
  <2>1. 3 \in Int /\ 2 + m \in Int /\ (2 + m) - 3 + 1 = m
    OBVIOUS
  <2>2. \A k \in 3 .. 2 + m : z[k] \in Values
    BY <1>3
  <2>3. /\ w \in Seq(Values) /\ Len(w) = IF 3 <= 2 + m THEN (2 + m) - 3 + 1 ELSE 0
        /\ \A k \in 1 .. (2 + m) - 3 + 1 : w[k] = z[3 + k - 1]
    BY <2>1, <2>2, SubSeqProperties
  <2>4. \A k \in 1 .. m : 3 + k - 1 = k + 2
    OBVIOUS
  <2>5. Len(w) = m
    BY <2>1, <2>3
  <2> QED
    BY <2>1, <2>3, <2>4, <2>5
<1> HIDE DEF w
<1>7. ASSUME NEW k \in 1 .. m PROVE w[k] = t[k]
  <2>1. k + 2 \in 1 .. 2 + m /\ ~ (k + 2 <= 2) /\ (k + 2) - 2 = k
    OBVIOUS
  <2>2. z[k + 2] = t[(k + 2) - 2]
    BY <1>4, <2>1 DEF z
  <2> QED
    BY <1>6, <2>1, <2>2
<1>8. w = t
  BY <1>1, <1>6, <1>7, SeqEqual
<1> QED
  BY <1>3, <1>5, <1>8 DEF z, w

(* The words taken are those of the argument, and its figures are printed. *)
LEMMA NumberPrinted ==
  ASSUME NEW F, NEW A, NEW P, Tables(F, A, P), NEW k \in 1 .. Len(call),
         NEW read \in Modifiers, NEW rest \in Modifiers, InsideAt(F, A, P, k, read, rest),
         NEW conversions, NEW b,
         \/ conversions = {"d", "u"} /\ b = 10
         \/ conversions = {"p", "x"} /\ b = 16,
         PrintNumber(conversions, b)
  PROVE  Between(F, A, P)'
<1> DEFINE item == call[k]
           ull == IF Taken = 1 THEN ap[1] ELSE ap[1] + WordSize * ap[2]
           zeros(z) == [l \in 1 .. fill - Len(z) |-> "0"]
<1>1. Head(fmt) \in conversions /\ fmt' = Tail(fmt) /\ call' = call /\ state' = "PLAIN"
  BY DEF PrintNumber, Reads
<1>2. /\ out' = out \o zeros(Numeral(ull, b)) \o Numeral(ull, b)
      /\ ap' = SubSeq(ap, Taken + 1, Len(ap))
  BY DEF PrintNumber, Zeros
<1>h. HeadIs(F, k, read, rest)
  BY InsideHead
<1>3. rest = <<>>
  BY <1>1, <1>h DEF HeadIs, Conversions
<1>4. /\ item \in Item /\ ~ Plainly(item) /\ item.conversion \in conversions
      /\ fmt' = F[k] /\ item.mods = read
  BY <1>1, <1>3, <1>h DEF HeadIs
<1>r. RowOf(F, A, P, k)
  BY TablesAt
<1> HIDE DEF item
<1>5. OfNumber(item)
  BY <1>4, ItemKinds DEF OfChar, OfString
<1>6. item.base = b /\ b \in {10, 16}
  BY <1>4, <1>5 DEF OfNumber
<1>7. /\ item.value \in Nat /\ item.value < power(10, BufSize)
      /\ WordSize \in Nat /\ WordSize # 0
      /\ item.value \div WordSize \in Nat /\ item.value % WordSize \in Nat
      /\ item.value = (item.value % WordSize) + WordSize * (item.value \div WordSize)
  BY <1>5, NumberFacts
<1>8. /\ longness = Cardinality(Longs(read)) /\ fill \in 0 .. 9 /\ IsWidth(fill, read)
      /\ ap = Words(item) \o A[k] /\ out = P[k - 1]
  BY DEF InsideAt, item
<1>9. fill = item.width
  <2>1. item.width \in 0 .. 9 /\ IsWidth(item.width, read)
    BY <1>4, <1>5 DEF OfNumber
  <2> QED
    BY <1>8, <2>1, WidthIsUnique
<1>10. A[k] \in Seq(Values) /\ P[k - 1] \in Seq(Symbols) /\ P[k] = P[k - 1] \o Printed(item)
  BY <1>r DEF RowOf, item
<1>11. ull = item.value /\ ap' = A[k]
  <2>0. PICK x \in Nat, y \in Nat, z \in Nat, w \in Nat, t \in Seq(Values) :
          /\ x = item.value /\ y = item.value % WordSize /\ z = item.value \div WordSize
          /\ w = WordSize /\ t = A[k] /\ x = y + w * z
    BY <1>7, <1>10
  <2>1. x \in Values /\ y \in Values /\ z \in Values
    BY DEF Values
  <2>2. longness \in Nat
    BY <1>8, LongsCounted
  <2>3. CASE item.long
    <3>1. longness >= 2
      BY <1>4, <1>5, <1>8, <2>3 DEF OfNumber
    <3>2. Taken = 2
      BY <2>2, <3>1 DEF Taken
    <3>3. Words(item) = <<y, z>>
      BY <1>5, <2>0, <2>3 DEF OfNumber, Words
    <3>4. ap = <<y, z>> \o t
      BY <1>8, <2>0, <3>3
    <3>5. ap[1] = y /\ ap[2] = z /\ SubSeq(ap, 3, Len(ap)) = t
      BY <2>1, <3>4, TakesTwo
    <3>6. ull = y + w * z
      BY <2>0, <3>2, <3>5
    <3>7. ap' = SubSeq(ap, 3, Len(ap))
      BY <1>2, <3>2
    <3> QED
      BY <2>0, <3>5, <3>6, <3>7
  <2>4. CASE ~ item.long
    <3>1. ~ (longness >= 2)
      BY <1>4, <1>5, <1>8, <2>4 DEF OfNumber
    <3>2. Taken = 1
      BY <2>2, <3>1 DEF Taken
    <3>3. Words(item) = <<x>>
      BY <1>5, <2>0, <2>4 DEF OfNumber, Words
    <3>4. ap = <<x>> \o t
      BY <1>8, <2>0, <3>3
    <3>5. ap[1] = x /\ SubSeq(ap, 2, Len(ap)) = t
      BY <2>1, <3>4, TakesOne
    <3>6. ull = x
      BY <3>2, <3>5
    <3>7. ap' = SubSeq(ap, 2, Len(ap))
      BY <1>2, <3>2
    <3> QED
      BY <2>0, <3>5, <3>6, <3>7
  <2> QED
    BY <2>3, <2>4
<1> HIDE DEF ull
<1>12. PICK x \in Nat, w \in 0 .. 9 : x = item.value /\ w = item.width /\ x < power(10, BufSize)
  BY <1>5, <1>7 DEF OfNumber
<1>13. PICK z, y : z = Numeral(x, b) /\ y = zeros(z)
  OBVIOUS
<1>14. y \o z = Padded(x, b, w) /\ z \in Seq(Symbols) /\ y \in Seq(Symbols)
  <2>1. y = [l \in 1 .. w - Len(Numeral(x, b)) |-> "0"]
    BY <1>9, <1>12, <1>13
  <2>2. IsPadding(y, Numeral(x, b), x, b, w)
    BY <1>6, <1>12, <2>1, NumeralIsPadded
  <2> QED
    BY <1>13, <2>2 DEF IsPadding
<1>15. out' = P[k]
  <2>1. PICK t \in Seq(Symbols) : t = P[k - 1]
    BY <1>10
  <2>2. (t \o y) \o z = t \o (y \o z)
    <3>1. PICK r \in Seq(Symbols), v \in Seq(Symbols) : r = y /\ v = z
      BY <1>14
    <3>2. Associate(t, r, v)
      BY SymbolsAssociate, Zenon
    <3> QED
      BY <3>1, <3>2 DEF Associate
  <2>3. Printed(item) = y \o z
    BY <1>5, <1>6, <1>12, <1>14 DEF OfNumber, Printed
  <2>4. out' = (t \o y) \o z
    BY <1>2, <1>8, <1>11, <1>12, <1>13, <2>1
  <2> QED
    BY <1>10, <2>1, <2>2, <2>3, <2>4
<1> QED
  BY <1>1, <1>4, <1>11, <1>15, DirectiveEnds

LEMMA InsideKeeps ==
  ASSUME NEW F, NEW A, NEW P, Tables(F, A, P), Inside(F, A, P), PrintfNext, fmt # <<>>
  PROVE  Between(F, A, P)' \/ Inside(F, A, P)'
<1>1. PICK k \in 1 .. Len(call), read \in Modifiers, rest \in Modifiers :
        InsideAt(F, A, P, k, read, rest)
  BY DEF Inside
<1>2. state = "INFMT" /\ out \in Seq(Symbols)
  BY DEF Inside
<1>h. HeadIs(F, k, read, rest)
  BY <1>1, InsideHead
<1>3. CASE Plain
  BY <1>2, <1>3 DEF Plain, Reads
<1>4. fill \in 0 .. 9 /\ longness \in Nat
  <2>1. fill \in 0 .. 9 /\ longness = Cardinality(Longs(read))
    BY <1>1 DEF InsideAt
  <2> QED
    BY <2>1, LongsCounted
<1>5. CASE Fill
  <2>1. Head(fmt) \in ToSet(Figures)
    BY <1>5 DEF Fill, Reads
  <2>2. rest # <<>> /\ Head(fmt) # "l"
    BY <1>h, <2>1, FiguresOf DEF HeadIs
  <2>3. PICK l \in 1 .. 10 : Head(fmt) = Figures[l] /\ fill' = l - 1
    BY <1>5 DEF Fill
  <2>4. fill' \in 0 .. 9 /\ Head(fmt) = Figures[fill' + 1]
    BY <2>3
  <2>5. /\ call' = call /\ fmt' = Tail(fmt) /\ ap' = ap /\ out' = out /\ state' = state
        /\ longness' = longness + IF Head(fmt) = "l" THEN 1 ELSE 0
    BY <1>4, <1>5, <2>2 DEF Fill, Reads
  <2> QED
    BY <1>1, <1>2, <2>2, <2>4, <2>5, ModifierKeeps
<1>6. CASE Longer
  <2>1. Head(fmt) = "l" /\ Head(fmt) \notin ToSet(Figures) /\ fill' = fill
    BY <1>6, FiguresOf DEF Longer, Reads
  <2>2. rest # <<>>
    BY <1>h, <2>1 DEF HeadIs
  <2>3. /\ call' = call /\ fmt' = Tail(fmt) /\ ap' = ap /\ out' = out /\ state' = state
        /\ longness' = longness + IF Head(fmt) = "l" THEN 1 ELSE 0
    BY <1>6, <2>1 DEF Longer, Reads
  <2>4. fill' \in 0 .. 9
    BY <1>4, <2>1
  <2> QED
    BY <1>1, <1>2, <2>1, <2>2, <2>3, <2>4, ModifierKeeps
<1>7. CASE Ignore
  <2>1. Head(fmt) \notin ToSet(Figures) /\ Head(fmt) \notin Conversions /\ fill' = fill
    BY <1>7 DEF Ignore, Reads
  <2>2. rest # <<>> /\ Head(fmt) # "l"
    BY <1>h, <2>1 DEF HeadIs, Conversions
  <2>3. /\ call' = call /\ fmt' = Tail(fmt) /\ ap' = ap /\ out' = out /\ state' = state
        /\ longness' = longness + IF Head(fmt) = "l" THEN 1 ELSE 0
    BY <1>4, <1>7, <2>2 DEF Ignore, Reads
  <2>4. fill' \in 0 .. 9
    BY <1>4, <2>1
  <2> QED
    BY <1>1, <1>2, <2>1, <2>2, <2>3, <2>4, ModifierKeeps
<1>8. CASE PrintChar
  BY <1>1, <1>8, CharPrinted
<1>9. CASE PrintString
  BY <1>1, <1>9, StringPrinted
<1>10. CASE PrintDecimal
  BY <1>1, <1>10, NumberPrinted DEF PrintDecimal
<1>11. CASE PrintHexadecimal
  BY <1>1, <1>11, NumberPrinted DEF PrintHexadecimal
<1> QED
  BY <1>3, <1>5, <1>6, <1>7, <1>8, <1>9, <1>10, <1>11 DEF PrintfNext

LEMMA PrintfStutters == PrintfInv /\ UNCHANGED printfVars => PrintfInv'
<1> SUFFICES ASSUME PrintfInv, UNCHANGED printfVars PROVE PrintfInv'
  OBVIOUS
<1>1. PICK F, A, P : Tables(F, A, P) /\ (Between(F, A, P) \/ Inside(F, A, P)) /\ call \in Calls
  BY DEF PrintfInv
<1>2. /\ call' = call /\ fmt' = fmt /\ ap' = ap /\ state' = state /\ longness' = longness
      /\ fill' = fill /\ out' = out
  BY DEF printfVars
<1>3. Tables(F, A, P)'
  BY <1>1, <1>2 DEF Tables, ToPrint
<1>4. Between(F, A, P) => Between(F, A, P)'
  BY <1>2 DEF Between
<1>5. Inside(F, A, P) => Inside(F, A, P)'
  BY <1>2 DEF Inside, InsideAt
<1> QED
  BY <1>1, <1>2, <1>3, <1>4, <1>5 DEF PrintfInv

LEMMA PrintfKeeps == PrintfInv /\ PrintfNext => PrintfInv'
<1> SUFFICES ASSUME PrintfInv, PrintfNext PROVE PrintfInv'
  OBVIOUS
<1>1. PICK F, A, P : Tables(F, A, P) /\ (Between(F, A, P) \/ Inside(F, A, P)) /\ call \in Calls
  BY DEF PrintfInv
<1>2. CASE fmt = <<>> /\ UNCHANGED printfVars
  BY <1>2, PrintfStutters
<1>3. CASE ~ (fmt = <<>> /\ UNCHANGED printfVars)
  <2>1. call' = call /\ fmt # <<>>
    BY <1>3 DEF PrintfNext, Plain, Fill, Longer, Ignore, PrintChar, PrintString, PrintDecimal,
                PrintHexadecimal, PrintNumber, Reads
  <2>2. Tables(F, A, P)'
    BY <1>1, <2>1 DEF Tables, ToPrint
  <2>3. Between(F, A, P)' \/ Inside(F, A, P)'
    <3>1. CASE Between(F, A, P)
      <4>1. Plain
        BY <1>3, <3>1 DEF Between, PrintfNext, Fill, Longer, Ignore, PrintChar, PrintString,
                          PrintDecimal, PrintHexadecimal, PrintNumber, Reads
      <4> QED
        BY <1>1, <3>1, <4>1, PlainKeeps
    <3>2. CASE Inside(F, A, P)
      BY <1>1, <2>1, <3>2, InsideKeeps
    <3> QED
      BY <1>1, <3>1, <3>2
  <2> QED
    BY <1>1, <2>1, <2>2, <2>3 DEF PrintfInv
<1> QED
  BY <1>2, <1>3

(* Every directive prints its own argument, whatever the directives before *)
(* it have taken and set (printf.c:36-40, 68-72), for words of any size    *)
(* and formats of any length.                                              *)
THEOREM ItemsArePrintedHolds == PrintfSpec => []ItemsArePrinted
<1>1. PrintfInv /\ [PrintfNext]_printfVars => PrintfInv'
  BY PrintfKeeps, PrintfStutters
<1> QED
  BY <1>1, PrintfStarts, PrintfEnds, PTL DEF PrintfSpec

=============================================================================
