-------------------------- MODULE SerialDiscovery --------------------------
(***************************************************************************)
(* main of bender.c up to start_module: read the command line, look for    *)
(* the last serial controller on the PCI bus, enter its I/O port into the  *)
(* BIOS data area and switch serial output on.                             *)
(***************************************************************************)
EXTENDS Pci, CommandLine

CONSTANTS
  Equipments,   (* equipment words the BIOS may leave in the data area       *)
  Com0s         (* com_port[0] entries the BIOS may leave there              *)

ASSUME DiscoveryAssumption ==
  /\ Equipments \subseteq 0 .. 2^16 - 1
  /\ Com0s \subseteq 0 .. 2^16 - 1

VARIABLES
  pc,             (* where main is                                       *)
  magic,          (* its argument                                        *)
  com0, equipment,   (* the parts of struct bios_data_area in use        *)
  serial_ctrl,    (* the last matching function, or NoDevice             *)
  output_enabled, serial_base,     (* serial.c                           *)
  bios            (* history: the data area as the BIOS left it          *)

mainVars == <<pc, magic, serial_ctrl>>
bdaVars == <<com0, equipment, bios>>
serialVars == <<output_enabled, serial_base>>
vars == <<pciVars, parserVars, mainVars, bdaVars, serialVars>>

MBI_MAGIC == "mbi"
MBI2_MAGIC == "mbi2"

(* The number of serial ports, bits 9 to 11 of the equipment word.         *)
SerialPorts(w) == (w \div 2^9) % 8

Init ==
  /\ PciInit
  /\ CommandLineInit
  /\ pc = "start"
  /\ magic \in {MBI_MAGIC, MBI2_MAGIC, "other"}
  /\ com0 \in Com0s
  /\ equipment \in Equipments
  /\ bios = [com0 |-> com0, equipment |-> equipment]
  /\ serial_ctrl = NoDevice
  /\ output_enabled = FALSE
  /\ serial_base = 0

-----------------------------------------------------------------------------
(* Not loaded as Multiboot1: main returns 1. *)
RefuseLoader ==
  /\ pc = "start"
  /\ magic # MBI_MAGIC
  /\ pc' = "exit"
  /\ UNCHANGED <<pciVars, parserVars, magic, serial_ctrl, bdaVars, serialVars>>

(* parse_cmdline, step by step. *)
ParseCmdline ==
  /\ pc = "start"
  /\ magic = MBI_MAGIC
  /\ ParseStep
  /\ UNCHANGED <<pciVars, mainVars, bdaVars, serialVars>>

(* parse_cmdline has returned, or it is not called: an empty command line  *)
(* stands also for none, without MBI_FLAG_CMDLINE.                         *)
CmdlineParsed ==
  /\ pc = "start"
  /\ magic = MBI_MAGIC
  /\ parsing = "done" \/ (parsing = "copy" /\ cmdline = <<>>)
  /\ pc' = "legacy"
  /\ UNCHANGED <<pciVars, parserVars, magic, serial_ctrl, bdaVars, serialVars>>

(* The test that skips the search.  Its mask is not that of SerialPorts.   *)
HonoursLegacy == accept_legacy /\ equipment % 8 # 0

SkipSearch ==
  /\ pc = "legacy"
  /\ HonoursLegacy
  /\ pc' = "boot_next"
  /\ UNCHANGED <<pciVars, parserVars, magic, serial_ctrl, bdaVars, serialVars>>

StartSearch ==
  /\ pc = "legacy"
  /\ ~HonoursLegacy
  /\ pc' = "scan"
  /\ UNCHANGED <<pciVars, parserVars, magic, serial_ctrl, bdaVars, serialVars>>

(* is_simple_comm or is_serial_controller. *)
Wanted(d) ==
  MatchesClass(d, PCI_CLASS_SIMPLE_COMM,
    IF be_promisc THEN PCI_SUBCLASS_ANY ELSE PCI_SUBCLASS_SERIAL_CTRL)

PassAbsent ==
  /\ pc = "scan"
  /\ SkipAbsent
  /\ UNCHANGED <<parserVars, mainVars, bdaVars, serialVars>>

(* Mutant: keeps the first match. *)
MutTakeMatchingFirst ==
  /\ pc = "scan"
  /\ NextDevice
  /\ Wanted(dev')
  /\ serial_ctrl' = IF serial_ctrl = NoDevice THEN dev' ELSE serial_ctrl
  /\ UNCHANGED <<parserVars, pc, magic, bdaVars, serialVars>>

(* Mutant: patches the data area for every match. *)
MutTakeMatchingPatches ==
  /\ pc = "scan"
  /\ NextDevice
  /\ Wanted(dev')
  /\ serial_ctrl' = dev'
  /\ equipment' = (equipment \div 2^13) * 2^13 + 2^9 + (equipment % 2^9)
  /\ UNCHANGED <<parserVars, pc, magic, com0, bios, serialVars>>

(* pci_iter_next_matching returns a match, which main copies. *)
TakeMatching ==
  /\ pc = "scan"
  /\ NextDevice
  /\ Wanted(dev')
  /\ serial_ctrl' = dev'
  /\ UNCHANGED <<parserVars, pc, magic, bdaVars, serialVars>>

(* pci_iter_next_matching goes on to the next function. *)
PassOther ==
  /\ pc = "scan"
  /\ NextDevice
  /\ ~Wanted(dev')
  /\ UNCHANGED <<parserVars, mainVars, bdaVars, serialVars>>

FinishSearch ==
  /\ pc = "scan"
  /\ NoMoreDevices
  /\ pc' = IF serial_ctrl = NoDevice THEN "boot_next" ELSE "found"
  /\ UNCHANGED <<pciVars, parserVars, magic, serial_ctrl, bdaVars, serialVars>>

-----------------------------------------------------------------------------
(* Mutant: no quirks. *)
MutApplyQuirksNone(d, raw_iobase) == raw_iobase

(* apply_quirks, in 16 bits. *)
ApplyQuirks(d, raw_iobase) ==
  IF LookupDevice(d).offset_c0 THEN (raw_iobase + 192) % 2^16 ELSE raw_iobase

(* Bits 9 to 12 cleared, bit 9 set. *)
OnePort(w) == (w \div 2^13) * 2^13 + 2^9 + (w % 2^9)

NoIoBar ==
  /\ pc = "found"
  /\ IoBars(serial_ctrl) = {}
  /\ pc' = "boot_next"
  /\ UNCHANGED <<pciVars, parserVars, magic, serial_ctrl, bdaVars, serialVars>>

(* The port that goes into the data area, or 0. *)
ComPort ==
  LET raw_iobase == IoBase(serial_ctrl) IN ApplyQuirks(serial_ctrl, raw_iobase)

NoPorts ==
  /\ pc = "found"
  /\ IoBars(serial_ctrl) # {}
  /\ ComPort = 0
  /\ pc' = "boot_next"
  /\ UNCHANGED <<pciVars, parserVars, magic, serial_ctrl, bdaVars, serialVars>>

PatchBda ==
  /\ pc = "found"
  /\ IoBars(serial_ctrl) # {}
  /\ ComPort # 0
  /\ com0' = ComPort
  /\ equipment' = OnePort(equipment)
  /\ pc' = "boot_next"
  /\ UNCHANGED <<pciVars, parserVars, magic, serial_ctrl, bios, serialVars>>

BootNext ==
  /\ pc = "boot_next"
  /\ output_enabled' = (output_enabled \/ SerialPorts(equipment) # 0)
  /\ serial_base' = IF SerialPorts(equipment) # 0 THEN com0 ELSE serial_base
  /\ pc' = "start_module"
  /\ UNCHANGED <<pciVars, parserVars, magic, serial_ctrl, bdaVars>>

Step ==
  \/ RefuseLoader \/ ParseCmdline \/ CmdlineParsed \/ SkipSearch \/ StartSearch
  \/ PassAbsent \/ TakeMatching \/ PassOther \/ FinishSearch
  \/ NoIoBar \/ NoPorts \/ PatchBda \/ BootNext

(* start_module and the exit path have taken over. *)
Ended == pc \in {"start_module", "exit"}

Next == Step \/ (Ended /\ UNCHANGED vars)

Spec == Init /\ [][Next]_vars /\ WF_vars(Step)

-----------------------------------------------------------------------------
(* Properties.                                                             *)

(* The port of the uart behind a bar.  One chip has it at an offset        *)
(* (bender.c:52-60).                                                       *)
UartPort(d, n) ==
  d.bars[n].value - 1
    + (IF d.vendor_id = 7168 /\ d.device_id = 12883 THEN 192 ELSE 0)

Controllers == { a \in Discoverable : Wanted(config[a]) }

(* The controller the search is for (comment in bender.c:96). *)
IsLast(a) == a \in Controllers /\ \A b \in Controllers : b = a \/ Before(b, a)

Patched == <<com0, equipment>> # <<bios.com0, bios.equipment>>

(* The data area changes only on behalf of the last controller of the bus. *)
(* It then names the port of that controller's uart behind the first bar   *)
(* that has bit 0 set, in 16 bits, announces exactly one port, and keeps   *)
(* every other bit that the BIOS has left in the equipment word, but for   *)
(* bit 12.  The bar of the chip with the offset may be unassigned.         *)
PatchNamesLastController ==
  Patched =>
    /\ SerialPorts(equipment) = 1
    /\ equipment % 2^9 = bios.equipment % 2^9
    /\ equipment \div 2^13 = bios.equipment \div 2^13
    /\ \E a \in Controllers, n \in 0 .. BarNum - 1 :
         /\ IsLast(a) /\ serial_ctrl = config[a]
         /\ config[a].bars[n].value % 2 = 1
         /\ \A m \in 0 .. n - 1 : config[a].bars[m].value % 2 = 0
         /\ com0 = UartPort(config[a], n) % 2^16 /\ com0 # 0

(* An assigned io bar with a uart's port behind it, and in front of it no  *)
(* bar that pci_first_iobar_base would take (pci.c:97-108): memory bars do *)
(* no harm, unless the upper half of one has bit 0 set; but the code looks *)
(* no further than to an io bar that is not assigned.                      *)
Usable(d, n) ==
  /\ d.bars[n].kind = "io" /\ d.bars[n].value # 1
  /\ UartPort(d, n) < 2^16
  /\ \A m \in 0 .. n - 1 : d.bars[m].value % 2 = 0

(* If the last controller has a usable bar, the boot goes on with output   *)
(* enabled on the uart behind it, whatever the other controllers are like; *)
(* unless accept_legacy is on and the BIOS has announced a device that it  *)
(* looks at.  Without a controller output follows the BIOS.                *)
OutputFindsItsPort ==
  /\ \A a \in Controllers, n \in 0 .. BarNum - 1 :
       /\ pc = "start_module" /\ IsLast(a) /\ Usable(config[a], n)
       /\ ~(accept_legacy /\ bios.equipment % 8 # 0)
       => output_enabled /\ serial_base = UartPort(config[a], n)
  /\ Ended /\ (Controllers = {} \/ magic # MBI_MAGIC) =>
       /\ output_enabled <=> magic = MBI_MAGIC /\ SerialPorts(bios.equipment) # 0
       /\ output_enabled => serial_base = bios.com0

(* Nothing is written to the data area before the whole bus is seen, and   *)
(* nothing any more once output has taken its port from there              *)
(* (serial.c:56 copies com_port[0]).                                       *)
PatchAfterScanBeforeOutput ==
  [][bdaVars' # bdaVars => NoMoreDevices /\ ~output_enabled]_vars

(* What README.md says of accept_legacy: no controller is claimed if the   *)
(* BIOS already indicates a legacy serial controller.  The code tests bits *)
(* 0 to 2 of the equipment word, the serial ports are in bits 9 to 11.     *)
AcceptLegacyHonoured ==
  accept_legacy /\ SerialPorts(bios.equipment) # 0 => ~Patched

(* What pci.h says of pci_first_iobar_base: the port is that of a PIO bar. *)
(* The upper half of a 64-bit memory bar may have bit 0 set as well.       *)
PortIsFromPioBar ==
  Patched => serial_ctrl.bars[FirstIoBar(serial_ctrl)].kind = "io"

=============================================================================
