-------------------------------- MODULE Pci --------------------------------
(***************************************************************************)
(* pci.c and pci_db.c: the iterator over the functions on the PCI bus, and *)
(* what the program reads from one function's configuration space.         *)
(*                                                                         *)
(* A configuration space is a record of the fields the code looks at.  The *)
(* program is the only user of the configuration ports, so a read is one   *)
(* step.  A bar carries, besides the value the code reads, the kind of     *)
(* register it is, which the code does not look up: kind "high" is the     *)
(* upper half of a 64-bit memory bar.                                      *)
(***************************************************************************)
EXTENDS Integers, Sequences, FiniteSetsExt

CONSTANTS
  BusDevices,   (* number of bus/device pairs: 1 << 13 in the code      *)
  MaxFunction,  (* last function of a multifunction device: 7           *)
  BarNum,       (* PCI_BAR_NUM: 6                                       *)
  Configs,      (* the PCI buses of the machines checked                *)
  NoDevice      (* what a read of 0xFFFFFFFF stands for                 *)

ASSUME PciAssumption ==
  /\ BusDevices \in Nat \ {0}
  /\ MaxFunction \in Nat \ {0}
  /\ BarNum \in Nat \ {0}

(* Bit 0 of a bar tells io from memory; the upper half has no such bit.    *)
Bar ==
  { b \in [kind: {"io", "memory", "low", "high"}, value: Nat] :
      b.kind # "high" => (b.value % 2 = 1 <=> b.kind = "io") }

(* struct pci_device, with the parts of the configuration space it names.  *)
PciDevice ==
  [vendor_id: Nat, device_id: Nat, class: 0 .. 255, subclass: 0 .. 255,
   multifunction: BOOLEAN, bars: [0 .. BarNum - 1 -> Bar]]

ASSUME ConfigsAssumption ==
  /\ NoDevice \notin PciDevice
  /\ Configs \subseteq
       [(0 .. BusDevices - 1) \X (0 .. MaxFunction) -> PciDevice \cup {NoDevice}]

VARIABLES
  config,     (* what is on the bus; never written                      *)
  iter,       (* struct pci_iter                                        *)
  dev,        (* *dev, the function the iterator has returned last      *)
  returned    (* history: the addresses the iterator has returned       *)

pciVars == <<config, iter, dev, returned>>

PCI_CLASS_SIMPLE_COMM == 7
PCI_SUBCLASS_SERIAL_CTRL == 0
PCI_SUBCLASS_ANY == 255

-----------------------------------------------------------------------------
(* pci_iter_advance *)
Advanced(it) ==
  IF it.function = it.max_function
    THEN [bus_device |-> it.bus_device + 1, function |-> 0, max_function |-> 0]
    ELSE [it EXCEPT !.function = @ + 1]

Here == <<iter.bus_device, iter.function>>

PciInit ==
  /\ config \in Configs
  /\ iter = [bus_device |-> 0, function |-> 0, max_function |-> 0]
  /\ dev = NoDevice
  /\ returned = <<>>

(* A present function 0 tells whether there are others to probe. *)
Probed(d) ==
  IF iter.max_function = 0 /\ d.multifunction
    THEN [iter EXCEPT !.max_function = MaxFunction]
    ELSE iter

(* Mutant: gives up the device at the first gap. *)
MutSkipAbsentDevice ==
  /\ iter.bus_device < BusDevices
  /\ config[Here] = NoDevice
  /\ iter' = [bus_device |-> iter.bus_device + 1, function |-> 0,
              max_function |-> 0]
  /\ UNCHANGED <<config, dev, returned>>

(* pci_iter_next_device: the loop passes over an absent function. *)
SkipAbsent ==
  /\ iter.bus_device < BusDevices
  /\ config[Here] = NoDevice
  /\ iter' = Advanced(iter)
  /\ UNCHANGED <<config, dev, returned>>

(* pci_iter_next_device returns true. *)
NextDevice ==
  /\ iter.bus_device < BusDevices
  /\ config[Here] # NoDevice
  /\ dev' = config[Here]
  /\ iter' = Advanced(Probed(dev'))
  /\ returned' = Append(returned, Here)
  /\ UNCHANGED config

(* pci_iter_next_device returns false. *)
NoMoreDevices == iter.bus_device >= BusDevices

-----------------------------------------------------------------------------
(* pci_matches_class *)
MatchesClass(d, class, subclass) ==
  /\ d.class = class
  /\ subclass = PCI_SUBCLASS_ANY \/ d.subclass = subclass

(* vendor_db: wildcards match every number; the first match counts. *)
Wildcard == 65535
VendorDb ==
  << [vendor_id |-> 7168, device_id |-> 12883, offset_c0 |-> TRUE],
     [vendor_id |-> Wildcard, device_id |-> Wildcard, offset_c0 |-> FALSE] >>

(* pci_lookup_device *)
LookupDevice(d) ==
  LET matches == { n \in DOMAIN VendorDb :
                     /\ VendorDb[n].vendor_id \in {Wildcard, d.vendor_id}
                     /\ VendorDb[n].device_id \in {Wildcard, d.device_id} }
  IN  VendorDb[Min(matches)]

(* The bars pci_first_iobar_base takes for io bars: those with bit 0 set.  *)
IoBars(d) == { b \in 0 .. BarNum - 1 : d.bars[b].value % 2 = 1 }

FirstIoBar(d) == Min(IoBars(d))

(* *iobase: the bar without bit 0, cut to 16 bits. *)
IoBase(d) == (d.bars[FirstIoBar(d)].value - 1) % 2^16

-----------------------------------------------------------------------------
(* Properties.                                                             *)

(* What a scan has to find: every function 0, and the other functions of   *)
(* the devices whose function 0 says that there may be others.             *)
Discoverable ==
  { a \in DOMAIN config :
      /\ config[a] # NoDevice
      /\ a[2] # 0 => /\ config[<<a[1], 0>>] # NoDevice
                     /\ config[<<a[1], 0>>].multifunction }

Before(a, b) == a[1] < b[1] \/ (a[1] = b[1] /\ a[2] < b[2])

(* The iterator returns the functions it has to, each one once, in the     *)
(* order of their addresses, and has skipped none of those it is past      *)
(* (pci.c:57-78); the assertion of pci_iter_advance (pci.c:46) holds.      *)
ScanIsExact ==
  /\ iter.function <= iter.max_function
  /\ \A j, k \in DOMAIN returned : j < k => Before(returned[j], returned[k])
  /\ { returned[k] : k \in DOMAIN returned }
       = { a \in Discoverable : Before(a, Here) }

=============================================================================
