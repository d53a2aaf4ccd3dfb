----------------------------- MODULE MCPrograms -----------------------------
(***************************************************************************)
(* The programs that share pci.c or stand for themselves: bender, amy and  *)
(* basicperf.  The loader starts one of them; the variables of the others  *)
(* keep a value that does not matter.  Bender and amy are checked on all   *)
(* the buses of MCPci, and bender with every command line on one of them.  *)
(***************************************************************************)
EXTENDS MCSerialDiscovery, Amy, BasicPerf

VARIABLE running    (* the program that was started *)

(* Unused, misaligned and usable COM ports.                                *)
MCComPorts ==
  { [k \in 0 .. 3 |-> ports[k + 1]] : ports \in
      { <<0, 0, 0, 0>>, <<1016, 0, 760, 0>>, <<0, 1017, 0, 1016>>,
        <<760, 1016, 1016, 1020>>, <<1016, 760, 744, 760>> } }

(* Durations that scatter, that do not, and that may or may not, with a    *)
(* sum that is rounded up to Word * Tries, and one that does not fit.      *)
MCDurations == {1, 2, 63, 65}

MCAllCmdlines == Strings(BufSize - 1)

OneBus ==
  [bda \in (0 .. 1) \X (0 .. 2) |->
     IF bda = <<0, 0>> THEN Modem(FALSE) ELSE IF bda = <<1, 0>> THEN Uart(FALSE) ELSE NoDevice]

BenderIsIdle ==
  /\ cmdline = <<>> /\ magic = MBI_MAGIC /\ equipment = 0 /\ com0 = 0

AmyIsIdle == loader = "mbi" /\ com_port = [k \in 0 .. 3 |-> 0]

MCInit ==
  /\ \/ running = "bender" /\ AmyIsIdle /\ cmdline \in MCCmdlines
     \/ /\ running = "bender" /\ AmyIsIdle /\ cmdline \in MCAllCmdlines
        /\ config = OneBus /\ magic = MBI_MAGIC /\ com0 = 760 /\ equipment = 1
     \/ running = "amy" /\ BenderIsIdle
     \/ running = "basicperf" /\ BenderIsIdle /\ AmyIsIdle /\ config = OneBus
  /\ Init /\ AmyInit /\ PerfInit

MCNext ==
  \/ /\ running = "bender" /\ Next
     /\ UNCHANGED <<running, amyVars, outputVars, shown, perfVars>>
  \/ /\ running = "amy" /\ AmyNext
     /\ UNCHANGED <<running, parserVars, mainVars, bdaVars, serialVars, perfVars>>
  \/ /\ running = "basicperf" /\ PerfNext
     /\ UNCHANGED <<running, vars, amyVars, outputVars, shown>>

MCSpec == MCInit /\ [][MCNext]_<<running, vars, amyAllVars, perfVars>>

=============================================================================
