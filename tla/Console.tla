------------------------------ MODULE Console ------------------------------
(***************************************************************************)
(* out_char of util.c: characters go to the last row of the screen, which  *)
(* scrolls, and to the serial port.  The programs call out_char (through   *)
(* printf and out_string), set up a port, and disable output again, in     *)
(* whatever order (bender.c, amy.c).                                       *)
(***************************************************************************)
EXTENDS Serial

CONSTANTS
  NL, CR,       (* '\n' and '\r'                                           *)
  Blank,        (* a cell without a character                              *)
  Rows, Cols,   (* 25 and 80                                               *)
  Firmware,     (* what is on the screen when the program starts           *)
  MaxLog,       (* bound of the model: calls of out_char                   *)
  MaxCalls      (* bound of the model: calls of the other functions        *)

ASSUME ConsoleAssumption ==
  /\ {NL, CR} \subseteq Chars /\ NL # CR
  /\ Blank \notin Chars
  /\ Rows \in Nat \ {0} /\ Cols \in Nat \ {0}
  /\ Firmware \in [0 .. Rows * Cols - 1 -> Chars \cup {Blank}]

VARIABLES
  screen,     (* the characters in the frame buffer at 0xb8000             *)
  col,        (* static variable of out_char                               *)
  todo,       (* the calls of serial_send that out_char still has to make  *)
  calls,      (* counts the calls of InitPort and Disable                  *)
  log,        (* history: the calls of out_char                            *)
  logged      (* history: the length of log at the last init               *)

consoleVars == <<screen, col, todo, log, logged, calls>>
vars == <<serialVars, consoleVars>>

Init ==
  /\ SerialInit
  /\ screen = Firmware
  /\ col = 0
  /\ todo = <<>>
  /\ calls = 0
  /\ log = <<>>
  /\ logged = 0

-----------------------------------------------------------------------------
Base(row) == row * Cols

(* Mutant: does not clear the last row. *)
MutScrolledKeeps(s) ==
  [n \in DOMAIN s |-> IF n < Base(Rows - 1) THEN s[n + Cols] ELSE s[n]]

(* memcpy of Rows - 1 rows to the row above, memset of the last row. *)
Scrolled(s) ==
  [n \in DOMAIN s |-> IF n < Base(Rows - 1) THEN s[n + Cols] ELSE Blank]

RowEnds(ch, next) == next >= Cols \/ ch = NL

(* Mutant: the carriage return first. *)
MutSerialCallsCrFirst(ch) == IF ch = NL THEN <<CR, ch>> ELSE <<ch>>

SerialCalls(ch) == IF ch = NL THEN <<ch, CR>> ELSE <<ch>>

(* out_char, up to its calls of serial_send. *)
OutChar(ch) ==
  /\ at = "idle" /\ todo = <<>>
  /\ LET put == IF ch # NL
                  THEN [screen EXCEPT ![Base(Rows - 1) + col] = ch]
                  ELSE screen
         next == IF ch # NL THEN col + 1 ELSE col
     IN  IF RowEnds(ch, next)
           THEN col' = 0 /\ screen' = Scrolled(put)
           ELSE col' = next /\ screen' = put
  /\ todo' = SerialCalls(ch)
  /\ log' = Append(log, ch)
  /\ UNCHANGED <<serialVars, logged, calls>>

CallSend ==
  /\ todo # <<>>
  /\ Send(Head(todo))
  /\ todo' = Tail(todo)
  /\ UNCHANGED <<screen, col, log, logged, calls>>

CallOutChar == Len(log) < MaxLog /\ \E ch \in Chars \ {CR} : OutChar(ch)

CallInitPort ==
  /\ calls < MaxCalls /\ todo = <<>>
  /\ \E p \in Ports : InitPort(p)
  /\ logged' = Len(log)
  /\ calls' = calls + 1
  /\ UNCHANGED <<screen, col, todo, log>>

CallDisable ==
  /\ calls < MaxCalls /\ todo = <<>>
  /\ output_enabled
  /\ Disable
  /\ calls' = calls + 1
  /\ UNCHANGED <<screen, col, todo, log, logged>>

ConsoleStep == CallSend \/ (DriverStep /\ UNCHANGED consoleVars)

Next ==
  \/ ConsoleStep \/ CallOutChar \/ CallInitPort \/ CallDisable
  \/ \E p \in Ports : Transmit(p) /\ UNCHANGED consoleVars
  \/ at = "idle" /\ todo = <<>> /\ UNCHANGED vars   \* the program may stop

(* The processor goes on with a call it has begun; a uart owes nothing.    *)
Spec == Init /\ [][Next]_vars /\ WF_vars(ConsoleStep)

-----------------------------------------------------------------------------
(* Properties.                                                             *)

(* The cell after the first n characters on a screen without end. *)
Cell ==
  LET cell[n \in 0 .. Len(log)] ==
        IF n = 0 THEN <<0, 0>>
        ELSE IF log[n] = NL \/ cell[n - 1][2] = Cols - 1
               THEN <<cell[n - 1][1] + 1, 0>>
               ELSE <<cell[n - 1][1], cell[n - 1][2] + 1>>
  IN  cell

(* What a cell shows without text when the screen has scrolled so often.   *)
Behind(rows, n) ==
  IF n + rows * Cols < Rows * Cols THEN Firmware[n + rows * Cols] ELSE Blank

(* The screen shows the last rows of what was printed, the next character  *)
(* goes to the last row (util.c:64), and nothing else is on the screen but *)
(* what was there before, moved up with the text.                          *)
ScreenShowsTail ==
  LET cell == Cell
      scrolled == cell[Len(log)][1]
      top == scrolled - (Rows - 1)
  IN  \A n \in DOMAIN screen :
        LET here == { k \in DOMAIN log :
                        /\ log[k] # NL
                        /\ cell[k - 1] = <<top + (n \div Cols), n % Cols>> }
        IN  IF here = {} THEN screen[n] = Behind(scrolled, n)
                         ELSE \E k \in here : screen[n] = log[k]

(* The serial stream of some characters: a newline is followed by '\r'.    *)
Stream(s) ==
  FlattenSeq([k \in DOMAIN s |-> IF s[k] = NL THEN <<NL, CR>> ELSE <<s[k]>>])

(* From the set-up of a port on, its line shows what the screen shows,     *)
(* with '\r' after each newline, without gaps, and all of it while output  *)
(* stays enabled and out_char is not at work (util.c:81-84).               *)
LineFollowsScreen ==
  serial_base \in present /\ at # "init" =>
    LET printed == Stream(SubSeq(log, logged + 1, Len(log))) IN
      /\ IsPrefix(Output(serial_base), printed)
      /\ output_enabled /\ at = "idle" /\ todo = <<>> =>
           Output(serial_base) = printed

(* Every call ends, even if the uart never drains its register             *)
(* (serial.c:40-46).                                                       *)
CallsEnd == (at # "idle" \/ todo # <<>>) ~> (at = "idle" /\ todo = <<>>)

=============================================================================
