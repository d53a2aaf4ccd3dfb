------------------------------- MODULE MCUtil -------------------------------
(***************************************************************************)
(* The functions the programs are linked with: output (out_char and        *)
(* serial.c), __exit with reboot, printf, the 64-bit division and          *)
(* strtoull.  One of them is at work at a time; the variables of the       *)
(* others keep a value that does not matter.                               *)
(***************************************************************************)
EXTENDS Console, Delay, MCPrintf, MCDivision, MCStrtoull

VARIABLE running    (* the function at work *)

utilVars == <<running, vars, delayVars, printfVars, divisionVars, strtoullVars>>

(* A screen with text, different in each row and column. *)
MCFirmware == [cell \in 0 .. Rows * Cols - 1 |-> <<Blank, NL, CR, NL>>[cell + 1]]

OutputIsIdle == present = {}
ExitIsIdle == counter = 0 /\ ibf = FALSE /\ alive = FALSE /\ wired = FALSE
PrintfIsIdle == call = <<>>
DivisionIsIdle == division = [op |-> "__qdivrem", a |-> 0, b |-> 0]
StrtoullIsIdle == nptr = <<>> /\ base = 0

MCInit ==
  /\ running \in {"output", "exit", "printf", "division", "strtoull"}
  /\ running # "output" => OutputIsIdle
  /\ running # "exit" => ExitIsIdle
  /\ running # "printf" => PrintfIsIdle
  /\ running # "division" => DivisionIsIdle
  /\ running # "strtoull" => StrtoullIsIdle
  /\ Init /\ DelayInit /\ PrintfInit /\ DivisionInit /\ StrtoullInit

MCNext ==
  /\ UNCHANGED running
  /\ IF running = "output" THEN Next ELSE UNCHANGED vars
  /\ IF running = "exit" THEN DelayNext ELSE UNCHANGED delayVars
  /\ IF running = "printf" THEN PrintfNext ELSE UNCHANGED printfVars
  /\ IF running = "division" THEN DivisionNext ELSE UNCHANGED divisionVars
  /\ IF running = "strtoull" THEN StrtoullNext ELSE UNCHANGED strtoullVars

(* The fairness of Console's Spec and of DelaySpec, for the one at work.   *)
MCSpec ==
  /\ MCInit /\ [][MCNext]_utilVars
  /\ WF_vars(running = "output" /\ ConsoleStep)
  /\ WF_delayVars(running = "exit" /\ Program)
  /\ WF_delayVars(running = "exit" /\ Tick)

=============================================================================
