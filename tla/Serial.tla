------------------------------- MODULE Serial -------------------------------
(***************************************************************************)
(* serial.c and the part of a 16550 uart it drives.                        *)
(*                                                                         *)
(* The uart works on its own: it may drain its holding register between    *)
(* any two port accesses of the program, or never.  At a port without a    *)
(* uart a read returns all ones and a write has no effect.                 *)
(***************************************************************************)
EXTENDS Integers, Sequences, SequencesExt

CONSTANTS
  Ports,      (* the base ports the program may be told to use             *)
  Chars,      (* the characters it may send                                *)
  NoChar,     (* what c is outside serial_send                             *)
  MaxTries    (* unsuccessful polls that serial_send forgives: 0x10000     *)

ASSUME SerialAssumption ==
  /\ Ports # {} /\ Ports \subseteq 1 .. 2^16 - 8
  /\ NoChar \notin Chars
  /\ MaxTries \in Nat

VARIABLES
  output_enabled, serial_base,    (* the static variables of serial.c      *)
  at,         (* where serial.c is: idle, poll, write, or init             *)
  c,          (* the argument of serial_send, or NoChar                    *)
  max_tries,  (* local variable of serial_send                             *)
  done,       (* the number of port writes serial_init_port has done       *)
  present,    (* the ports that have a uart                                *)
  uart,       (* the registers of the uart at a port                       *)
  line,       (* history: what has left a uart since its fifo was reset    *)
  sent        (* history: the calls of serial_send since the last init     *)

driverVars == <<output_enabled, serial_base, at, c, max_tries, done>>
serialVars == <<driverVars, present, uart, line, sent>>

-----------------------------------------------------------------------------
(* The uart.                                                               *)

THR == 0   IER == 1   FCR == 2   LCR == 3   MCR == 4
LCR_DLAB == 128
LCR_8N1 == 3

Uart == [dlab: BOOLEAN, format: 0 .. 127, divisor: [0 .. 1 -> 0 .. 255],
         ier: 0 .. 255, fcr: 0 .. 255, mcr: 0 .. 255, hold: Seq(Chars)]

(* What the firmware may leave behind: 9600 baud, 7 data bits.             *)
ResetUart ==
  [dlab |-> FALSE, format |-> 2, divisor |-> [b \in 0 .. 1 |-> 12 * (1 - b)],
   ier |-> 1, fcr |-> 0, mcr |-> 0, hold |-> <<>>]

(* The effect of outb(port + reg, v); with DLAB set, registers 0 and 1 are *)
(* the divisor's.  Each write to FCR here resets the transmit fifo.        *)
Written(u, reg, v) ==
  CASE reg \in {THR, IER} /\ u.dlab -> [u EXCEPT !.divisor[reg] = v]
    [] reg = THR /\ ~u.dlab -> [u EXCEPT !.hold = Append(@, v)]
    [] reg = IER /\ ~u.dlab -> [u EXCEPT !.ier = v]
    [] reg = FCR -> [u EXCEPT !.fcr = v, !.hold = <<>>]
    [] reg = LCR -> [u EXCEPT !.dlab = v >= LCR_DLAB, !.format = v % 128]
    [] reg = MCR -> [u EXCEPT !.mcr = v]

(* LSR_TMIT_HOLD_EMPTY as read from a port. *)
HoldEmpty(p) == p \notin present \/ uart[p].hold = <<>>

(* outb to the port in use. *)
Outb(reg, v) ==
  uart' = IF serial_base \in present
            THEN [uart EXCEPT ![serial_base] = Written(@, reg, v)]
            ELSE uart

Transmit(p) ==
  /\ uart[p].hold # <<>>
  /\ line' = [line EXCEPT ![p] = Append(@, Head(uart[p].hold))]
  /\ uart' = [uart EXCEPT ![p].hold = Tail(@)]
  /\ UNCHANGED <<driverVars, present, sent>>

SerialInit ==
  /\ output_enabled = FALSE
  /\ serial_base = 0
  /\ at = "idle"
  /\ c = NoChar
  /\ max_tries = MaxTries
  /\ done = 0
  /\ present \in SUBSET Ports
  /\ uart = [p \in Ports |-> ResetUart]
  /\ line = [p \in Ports |-> <<>>]
  /\ sent = <<>>

-----------------------------------------------------------------------------
(* serial_send, called with ch: nothing happens while output is disabled.  *)
Send(ch) ==
  /\ at = "idle"
  /\ sent' = Append(sent, ch)
  /\ IF output_enabled
       THEN at' = "poll" /\ c' = ch /\ max_tries' = MaxTries
       ELSE UNCHANGED <<at, c, max_tries>>
  /\ UNCHANGED <<output_enabled, serial_base, done, present, uart, line>>

(* Mutant: writes whatever the status register says. *)
MutPollReadyAlways ==
  /\ at = "poll"
  /\ at' = "write"
  /\ UNCHANGED <<output_enabled, serial_base, c, max_tries, done, present,
                 uart, line, sent>>

PollReady ==
  /\ at = "poll"
  /\ HoldEmpty(serial_base)
  /\ at' = "write"
  /\ UNCHANGED <<output_enabled, serial_base, c, max_tries, done, present,
                 uart, line, sent>>

(* Mutant: the count does not go down. *)
MutPollAgainForever ==
  /\ at = "poll"
  /\ ~HoldEmpty(serial_base)
  /\ max_tries # 0
  /\ UNCHANGED serialVars

PollAgain ==
  /\ at = "poll"
  /\ ~HoldEmpty(serial_base)
  /\ max_tries # 0
  /\ max_tries' = max_tries - 1
  /\ UNCHANGED <<output_enabled, serial_base, at, c, done, present, uart,
                 line, sent>>

(* Mutant: drops the character and keeps output on. *)
MutPollGiveUpDrops ==
  /\ at = "poll"
  /\ ~HoldEmpty(serial_base)
  /\ max_tries = 0
  /\ at' = "idle"
  /\ c' = NoChar
  /\ max_tries' = MaxTries
  /\ UNCHANGED <<output_enabled, serial_base, done, present, uart, line, sent>>

(* The count is used up: output is disabled until the next init. *)
PollGiveUp ==
  /\ at = "poll"
  /\ ~HoldEmpty(serial_base)
  /\ max_tries = 0
  /\ output_enabled' = FALSE
  /\ at' = "idle"
  /\ c' = NoChar
  /\ max_tries' = MaxTries
  /\ UNCHANGED <<serial_base, done, present, uart, line, sent>>

Write ==
  /\ at = "write"
  /\ Outb(THR, c)
  /\ at' = "idle"
  /\ c' = NoChar
  /\ max_tries' = MaxTries
  /\ UNCHANGED <<output_enabled, serial_base, done, present, line, sent>>

-----------------------------------------------------------------------------
(* Mutant: leaves the divisor latch selected. *)
MutInitWritesDlab ==
  << <<LCR, LCR_DLAB>>, <<THR, 1>>, <<IER, 0>>, <<IER, 0>>, <<FCR, 7>>,
     <<MCR, 3>> >>

(* The port writes of serial_init_port, in order: 115200 baud, 8N1, no     *)
(* interrupts, fifos on and reset, DTR and RTS.                            *)
InitWrites ==
  << <<LCR, LCR_DLAB>>, <<THR, 1>>, <<IER, 0>>, <<LCR, LCR_8N1>>,
     <<IER, 0>>, <<FCR, 7>>, <<MCR, 3>> >>

(* serial_init_port, called with base_port. *)
InitPort(base_port) ==
  /\ at = "idle"
  /\ output_enabled' = TRUE
  /\ serial_base' = base_port
  /\ at' = "init"
  /\ done' = 0
  /\ UNCHANGED <<c, max_tries, present, uart, line, sent>>

(* Its next port write.  What was in the fifo is lost when it is reset.    *)
InitWrite ==
  /\ at = "init"
  /\ LET w == InitWrites[done + 1] IN
       /\ Outb(w[1], w[2])
       /\ IF w[1] = FCR
            THEN /\ line' = [line EXCEPT ![serial_base] = <<>>]
                 /\ sent' = <<>>
            ELSE UNCHANGED <<line, sent>>
  /\ IF done + 1 = Len(InitWrites)
       THEN at' = "idle" /\ done' = 0
       ELSE done' = done + 1 /\ UNCHANGED at
  /\ UNCHANGED <<output_enabled, serial_base, c, max_tries, present>>

(* serial_disable *)
Disable ==
  /\ at = "idle"
  /\ output_enabled' = FALSE
  /\ UNCHANGED <<serial_base, at, c, max_tries, done, present, uart, line, sent>>

(* The steps the driver takes without being called. *)
DriverStep == PollReady \/ PollAgain \/ PollGiveUp \/ Write \/ InitWrite

-----------------------------------------------------------------------------
(* Properties.                                                             *)

(* A character is written only into an empty holding register, though the  *)
(* register is looked at in one step and written in another                *)
(* (serial.c:41-49): none is overrun.                                      *)
NoOverrun == \A p \in Ports : Len(uart[p].hold) <= 1

(* While serial_send works, the uart it writes to is set up: the divisor   *)
(* latch is not in the way of the holding register, and speed and format   *)
(* are those of serial_init_port, whichever ports were set up before.      *)
SetUpBeforeData ==
  at \in {"poll", "write"} =>
    /\ serial_base \in Ports
    /\ serial_base \in present =>
         /\ ~uart[serial_base].dlab
         /\ uart[serial_base].format = LCR_8N1
         /\ uart[serial_base].divisor[0] = 1
         /\ uart[serial_base].divisor[1] = 0
         /\ uart[serial_base].ier = 0

(* What is on the line, or will be, since the port was set up.             *)
Output(p) == line[p] \o uart[p].hold

(* The line shows a beginning of what serial_send was called with since    *)
(* the port was set up, and all of it as long as output is enabled: a      *)
(* character is never left out in the middle (serial.c:43-46).             *)
OutputIsPrefix ==
  serial_base \in present /\ at # "init" =>
    /\ IsPrefix(Output(serial_base), sent)
    /\ output_enabled /\ at = "idle" => Output(serial_base) = sent

=============================================================================
