-------------------------------- MODULE Amy --------------------------------
(***************************************************************************)
(* amy.c: announce itself at every serial port there may be, first those   *)
(* of the BIOS data area, then those of the controllers on the PCI bus.    *)
(* Of serial.c (module Serial) it matters here which port is in use, and   *)
(* that output to a uart that does not drain is given up.                  *)
(***************************************************************************)
EXTENDS Pci, FiniteSets, SequencesExt

CONSTANTS
  ComPorts,   (* what the BIOS may leave in com_port                       *)
  Stuck       (* the ports with a uart that does not drain                 *)

ASSUME AmyAssumption ==
  ComPorts \subseteq [0 .. 3 -> 0 .. 2^16 - 1] /\ Stuck \subseteq 1 .. 2^16 - 1

VARIABLES
  amy_pc,     (* where main is                                             *)
  loader,     (* its argument magic                                        *)
  com_port,   (* in the BIOS data area, never written                      *)
  com,        (* the loop variable i of probe_legacy                       *)
  port,       (* the port to probe: port there, iobase in probe_pci        *)
  enabled, base,    (* output_enabled and serial_base of serial.c          *)
  probed,     (* history: the ports that were set up                       *)
  shown       (* history: the messages that went to a serial port          *)

outputVars == <<enabled, base, probed>>
amyVars == <<amy_pc, loader, com_port, com, port>>
amyAllVars == <<pciVars, amyVars, outputVars, shown>>

AmyInit ==
  /\ PciInit
  /\ amy_pc = "start"
  /\ loader \in {"mbi", "mbi2", "other"}
  /\ com_port \in ComPorts
  /\ com = 0 /\ port = 0
  /\ enabled = FALSE /\ base = 0
  /\ probed = <<>> /\ shown = <<>>

-----------------------------------------------------------------------------
(* printf, on whatever port output is enabled. *)
Printf(message) ==
  IF enabled
    THEN /\ shown' = IF base \in Stuck THEN shown
                     ELSE Append(shown, <<base, message>>)
         /\ enabled' = (base \notin Stuck)
         /\ UNCHANGED <<base, probed>>
    ELSE UNCHANGED <<outputVars, shown>>

(* main, up to probe_legacy. *)
Start ==
  /\ amy_pc = "start"
  /\ Printf("banner")
  /\ amy_pc' = IF loader = "mbi" THEN "legacy" ELSE "exit"
  /\ UNCHANGED <<pciVars, loader, com_port, com, port>>

Bogus(p) == p = 0 \/ p % 8 # 0

(* probe_legacy, for one entry. *)
SkipLegacy ==
  /\ amy_pc = "legacy" /\ com < 4 /\ Bogus(com_port[com])
  /\ Printf("skipping")
  /\ com' = com + 1
  /\ UNCHANGED <<pciVars, amy_pc, loader, com_port, port>>

ProbeLegacy ==
  /\ amy_pc = "legacy" /\ com < 4 /\ ~Bogus(com_port[com])
  /\ port' = com_port[com]
  /\ com' = com + 1
  /\ amy_pc' = "init_legacy"
  /\ UNCHANGED <<pciVars, loader, com_port, outputVars, shown>>

StartPci ==
  /\ amy_pc = "legacy" /\ com >= 4
  /\ Printf("probing for PCI serial controllers")
  /\ amy_pc' = "pci"
  /\ UNCHANGED <<pciVars, loader, com_port, com, port>>

(* probe_pci: the loop of pci_iter_next_matching. *)
IsSerialController(d) ==
  MatchesClass(d, PCI_CLASS_SIMPLE_COMM, PCI_SUBCLASS_SERIAL_CTRL)

ProbePassAbsent ==
  /\ amy_pc = "pci" /\ SkipAbsent
  /\ UNCHANGED <<amyVars, outputVars, shown>>

ProbePassOther ==
  /\ amy_pc = "pci" /\ NextDevice /\ ~IsSerialController(dev')
  /\ UNCHANGED <<amyVars, outputVars, shown>>

(* apply_quirks, in 16 bits. *)
AmyApplyQuirks(d, raw_iobase) ==
  IF LookupDevice(d).offset_c0 THEN (raw_iobase + 192) % 2^16 ELSE raw_iobase

TakeController ==
  /\ amy_pc = "pci" /\ NextDevice /\ IsSerialController(dev')
  /\ Printf("found")
  /\ IF IoBars(dev') = {}
       THEN UNCHANGED <<amy_pc, port>>
       ELSE port' = AmyApplyQuirks(dev', IoBase(dev')) /\ amy_pc' = "init_pci"
  /\ UNCHANGED <<loader, com_port, com>>

Finish ==
  /\ amy_pc = "pci" /\ NoMoreDevices
  /\ Printf("sleeping")
  /\ amy_pc' = "halt"
  /\ UNCHANGED <<pciVars, loader, com_port, com, port>>

(* serial_init_port *)
InitPort ==
  /\ amy_pc \in {"init_legacy", "init_pci"}
  /\ enabled' = TRUE /\ base' = port
  /\ probed' = Append(probed, port)
  /\ amy_pc' = IF amy_pc = "init_legacy" THEN "announce_legacy" ELSE "announce_pci"
  /\ UNCHANGED <<pciVars, loader, com_port, com, port, shown>>

Announce ==
  /\ amy_pc \in {"announce_legacy", "announce_pci"}
  /\ Printf("probing")
  /\ amy_pc' = IF amy_pc = "announce_legacy" THEN "disable_legacy" ELSE "disable_pci"
  /\ UNCHANGED <<pciVars, loader, com_port, com, port>>

(* Mutant: leaves output enabled behind the last COM port. *)
MutDisableNotLast ==
  /\ amy_pc \in {"disable_legacy", "disable_pci"}
  /\ enabled' = (com >= 4 /\ enabled)
  /\ amy_pc' = IF amy_pc = "disable_legacy" THEN "legacy" ELSE "pci"
  /\ UNCHANGED <<pciVars, loader, com_port, com, port, base, probed, shown>>

(* serial_disable, and the next port. *)
Disable ==
  /\ amy_pc \in {"disable_legacy", "disable_pci"}
  /\ enabled' = FALSE
  /\ amy_pc' = IF amy_pc = "disable_legacy" THEN "legacy" ELSE "pci"
  /\ UNCHANGED <<pciVars, loader, com_port, com, port, base, probed, shown>>

AmyStep ==
  \/ Start \/ SkipLegacy \/ ProbeLegacy \/ StartPci
  \/ ProbePassAbsent \/ ProbePassOther \/ TakeController \/ Finish
  \/ InitPort \/ Announce \/ Disable

AmyNext == AmyStep \/ (amy_pc \in {"halt", "exit"} /\ UNCHANGED amyAllVars)

AmySpec == AmyInit /\ [][AmyNext]_amyAllVars

-----------------------------------------------------------------------------
(* Properties.                                                             *)

LegacyPorts ==
  FlattenSeq([k \in 1 .. 4 |-> LET entry == com_port[k - 1]
                               IN  IF entry # 0 /\ entry % 8 = 0 THEN <<entry>> ELSE <<>>])

(* Addresses in their order: the k-th has k - 1 others before it. *)
InOrder(addresses) ==
  [k \in 1 .. Cardinality(addresses) |->
     CHOOSE a \in addresses : Cardinality({ b \in addresses : Before(b, a) }) = k - 1]

(* The port that the first bar with bit 0 set names. *)
NamedPort(d) ==
  LET offset == IF <<d.vendor_id, d.device_id>> = <<7168, 12883>> THEN 192 ELSE 0
  IN  (d.bars[FirstIoBar(d)].value - 1 + offset) % 2^16

NamesPort(d) == d.class = 7 /\ d.subclass = 0 /\ IoBars(d) # {}

(* The ports of the controllers among the functions that can be found.     *)
ControllerPorts ==
  LET controllers == InOrder({ a \in Discoverable : NamesPort(config[a]) })
  IN  [k \in DOMAIN controllers |-> NamedPort(config[controllers[k]])]

(* What is seen if these ports are announced. *)
Announcements(ports) ==
  FlattenSeq([k \in DOMAIN ports |-> IF ports[k] \in Stuck THEN <<>>
                                     ELSE << <<ports[k], "probing">> >>])

(* Every port is set up once for each place that names it, and each that   *)
(* works shows its own announcement and nothing else: not what is printed  *)
(* while the next port is looked for, and not less because the port before *)
(* it was stuck (amy.c:28-33, 66-71).                                      *)
EachPortIsAnnounced ==
  /\ amy_pc = "halt" => probed = LegacyPorts \o ControllerPorts
  /\ amy_pc \in {"halt", "exit", "legacy", "pci"} =>
       shown = Announcements(probed)

=============================================================================
