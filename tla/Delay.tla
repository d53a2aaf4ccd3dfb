-------------------------------- MODULE Delay --------------------------------
(***************************************************************************)
(* wait and __exit of util.c, and reboot.c: an assertion has failed, the   *)
(* user gets time to read it, and the keyboard controller is asked to      *)
(* reset the machine.                                                      *)
(*                                                                         *)
(* The timer (PIT) counts down on its own; the program sees one byte of    *)
(* it.  The keyboard controller empties its input buffer on its own, or    *)
(* never, and may not be wired to the reset line.                          *)
(***************************************************************************)
EXTENDS Integers

CONSTANTS
  Period,     (* values of the byte: 256                                   *)
  TicksPerMs, (* 1193                                                      *)
  MaxLag,     (* most ticks between two looks of the program at the timer  *)
  Second,     (* 1000 ms                                                   *)
  Dots,       (* delay of __exit: 300                                      *)
  Pulses,     (* attempts of reboot: 10                                    *)
  MaxPolls    (* polls of kb_wait: 0x10000                                 *)

(* A look at the timer takes some microseconds of port accesses, a turn of *)
(* the timer 214: the program misses none as long as it runs.              *)
ASSUME DelayAssumption ==
  /\ {Period, TicksPerMs, MaxLag, Second, Dots, Pulses, MaxPolls} \subseteq Nat \ {0}
  /\ MaxLag < Period

VARIABLES
  delay_pc,   (* where the program is                                      *)
  caller,     (* where it goes on after wait                               *)
  ms, old,    (* local variables of wait                                   *)
  i, polls,   (* the loop counters of __exit or reboot, and of kb_wait     *)
  counter, latch,   (* the byte of the timer, and the one latched          *)
  ibf,        (* bit 1 of port 0x64: the controller's input buffer is full *)
  alive, wired,     (* does the controller empty it?  can it reset?        *)
  lag,        (* ticks since the timer was programmed or latched           *)
  asked, spent,     (* history: ticks wait was asked for, has taken        *)
  since       (* history: ticks since __exit, or this kb_wait, began       *)

timer == <<counter, lag>>
controller == <<ibf, alive, wired>>
waiting == <<caller, ms, old, latch, asked, spent>>
delayVars == <<delay_pc, waiting, i, polls, timer, controller, since>>

DelayInit ==
  /\ delay_pc = "main" /\ caller = "main"
  /\ ms = 0 /\ old = 0 /\ latch = 0 /\ asked = 0 /\ spent = 0
  /\ i = 0 /\ polls = 0
  /\ counter \in 0 .. Period - 1 /\ lag = 0
  /\ ibf \in BOOLEAN /\ alive \in BOOLEAN /\ wired \in BOOLEAN
  /\ since = 0

-----------------------------------------------------------------------------
(* wait(time), called from a place that goes on at back: program the timer *)
(* to count from 0, which is Period, backwards.                            *)
CallWait(time, back) ==
  /\ ms' = time * TicksPerMs
  /\ old' = 0
  /\ counter' = 0 /\ lag' = 0
  /\ asked' = ms' /\ spent' = 0
  /\ delay_pc' = "wait" /\ caller' = back
  /\ UNCHANGED <<latch, controller>>

(* outb(0x43, 0): the counter goes on while the program reads the latch.   *)
Latch ==
  /\ delay_pc = "wait" /\ ms > 0
  /\ latch' = counter /\ lag' = 0
  /\ delay_pc' = "read"
  /\ UNCHANGED <<caller, ms, old, asked, spent, i, polls, counter, controller, since>>

(* Mutant: compares with the value at the start. *)
MutReadKeepsOld ==
  /\ delay_pc = "read"
  /\ ms' = ms - ((old - latch) % Period)
  /\ delay_pc' = "wait"
  /\ UNCHANGED <<caller, old, latch, asked, spent, i, polls, timer, controller, since>>

(* inb(0x40), and what has passed since the last time, in one byte. *)
Read ==
  /\ delay_pc = "read"
  /\ ms' = ms - ((old - latch) % Period)
  /\ old' = latch
  /\ delay_pc' = "wait"
  /\ UNCHANGED <<caller, latch, asked, spent, i, polls, timer, controller, since>>

Return ==
  /\ delay_pc = "wait" /\ ms <= 0
  /\ delay_pc' = caller
  /\ UNCHANGED <<waiting, i, polls, timer, controller, since>>

Tick ==
  /\ delay_pc \in {"wait", "read"} /\ lag < MaxLag
  /\ counter' = (counter - 1) % Period
  /\ lag' = lag + 1
  /\ spent' = spent + 1 /\ since' = since + 1
  /\ UNCHANGED <<delay_pc, caller, ms, old, latch, asked, i, polls, controller>>

-----------------------------------------------------------------------------
(* An assertion fails, or main returns: __exit is called. *)
CallExit ==
  /\ delay_pc = "main"
  /\ delay_pc' = "exit"
  /\ UNCHANGED <<waiting, i, polls, timer, controller, since>>

(* __exit: a second, then a dot. *)
ExitWaits ==
  /\ delay_pc = "exit" /\ i < Dots
  /\ CallWait(Second, "dot")
  /\ UNCHANGED <<i, polls, since>>

Dot ==
  /\ delay_pc = "dot"
  /\ i' = i + 1
  /\ delay_pc' = "exit"
  /\ UNCHANGED <<waiting, polls, timer, controller, since>>

ExitReboots ==
  /\ delay_pc = "exit" /\ i >= Dots
  /\ i' = 0
  /\ delay_pc' = "reboot"
  /\ UNCHANGED <<waiting, polls, timer, controller, since>>

(* reboot: the next attempt, or "Reboot didn't work" and an endless loop.  *)
Attempt ==
  /\ delay_pc = "reboot"
  /\ delay_pc' = IF i < Pulses THEN "kb_wait" ELSE "hang"
  /\ polls' = 0 /\ since' = 0
  /\ UNCHANGED <<waiting, i, timer, controller>>

(* kb_wait: look for the input buffer to be empty, a millisecond apart. *)
KbPoll ==
  /\ delay_pc = "kb_wait"
  /\ IF polls < MaxPolls /\ ibf
       THEN CallWait(1, "kb_wait") /\ polls' = polls + 1
       ELSE delay_pc' = "pulse" /\ UNCHANGED <<polls, waiting, timer, controller>>
  /\ UNCHANGED <<i, since>>

(* outb(0x64, 0xFE): a controller that is ready resets the machine if it   *)
(* can; one that is not may miss the command.                              *)
PulseResets ==
  /\ delay_pc = "pulse" /\ alive /\ wired
  /\ delay_pc' = "reset"
  /\ UNCHANGED <<waiting, i, polls, timer, controller, since>>

(* Mutant: an attempt that fails does not count. *)
MutPulseFailsForever ==
  /\ delay_pc = "pulse" /\ (ibf \/ ~wired \/ ~alive)
  /\ CallWait(1, "reboot")
  /\ UNCHANGED <<i, polls, since>>

PulseFails ==
  /\ delay_pc = "pulse" /\ (ibf \/ ~wired \/ ~alive)
  /\ i' = i + 1
  /\ CallWait(1, "reboot")
  /\ UNCHANGED <<polls, since>>

(* The controller takes what is in its buffer. *)
Drain ==
  /\ ibf /\ alive /\ delay_pc \notin {"reset", "hang"}
  /\ ibf' = FALSE
  /\ UNCHANGED <<delay_pc, waiting, i, polls, timer, alive, wired, since>>

Program ==
  \/ Latch \/ Read \/ Return
  \/ ExitWaits \/ Dot \/ ExitReboots \/ Attempt \/ KbPoll \/ PulseResets \/ PulseFails

ExitEnded == delay_pc \in {"reset", "hang"}

DelayNext ==
  \/ CallExit \/ Program \/ Tick \/ Drain
  \/ ExitEnded /\ UNCHANGED delayVars

(* The processor runs and the timer counts; the controller owes nothing.   *)
DelaySpec ==
  DelayInit /\ [][DelayNext]_delayVars /\ WF_delayVars(Program) /\ WF_delayVars(Tick)

-----------------------------------------------------------------------------
(* Properties.                                                             *)

(* No wait is too short, and each takes hardly longer than it was asked    *)
(* for, though the program sees the timer in pieces of one byte            *)
(* (util.c:17).  So the message of a failed assertion stays for the time   *)
(* of all the dots, and a controller that is busy gets all of its polls    *)
(* before it is sent the command (reboot.c:6-12).                          *)
WaitsAreKept ==
  /\ delay_pc = "wait" /\ ms <= 0 => spent \in asked .. asked + 2 * MaxLag - 1
  /\ delay_pc = "reboot" /\ i = 0 => since >= Dots * Second * TicksPerMs
  /\ delay_pc = "pulse" /\ ibf => since >= MaxPolls * TicksPerMs

(* Either the machine is reset or the program gives up with a message, and *)
(* a controller that could reset the machine and is ready does so before   *)
(* the attempts are used up (reboot.c:16-22).                              *)
ExitEnds ==
  /\ (delay_pc = "exit") ~> ExitEnded
  /\ (delay_pc = "reboot" /\ i < Pulses /\ ~ibf /\ alive /\ wired)
       ~> (delay_pc = "reset")

=============================================================================
