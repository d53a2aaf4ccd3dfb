-------------------------- MODULE DiscoveryProofs --------------------------
(***************************************************************************)
(* Proofs about the programs: what main of bender.c promises, for any bus, *)
(* any command line that fits the buffer and whatever the BIOS has left    *)
(* behind (SerialDiscovery with Pci and CommandLine); what amy.c promises, *)
(* for any bus and data area (Amy); and what basicperf.c promises, for any *)
(* number of tests and tries (BasicPerf).                                  *)
(***************************************************************************)
EXTENDS SerialDiscovery, Amy, BasicPerf, InductionProofs, SequenceTheorems, TLAPS

Addresses == (0 .. BusDevices - 1) \X (0 .. MaxFunction)

(* The iterator and what it has returned. *)
IterTypeOK ==
  /\ config \in [Addresses -> PciDevice \cup {NoDevice}]
  /\ iter \in [bus_device: 0 .. BusDevices, function: 0 .. MaxFunction,
               max_function: {0, MaxFunction}]
  /\ returned \in Seq(Addresses)

(* It is past function 0 only of the devices whose function 0 says so, and *)
(* then goes on to the last function.                                      *)
IterInv ==
  /\ iter.function = 0 => iter.max_function = 0
  /\ iter.function # 0 =>
       /\ iter.max_function = MaxFunction
       /\ iter.bus_device < BusDevices
       /\ config[<<iter.bus_device, 0>>] # NoDevice
       /\ config[<<iter.bus_device, 0>>].multifunction

ReturnedInv ==
  /\ \A h, k \in DOMAIN returned : h < k => Before(returned[h], returned[k])
  /\ { returned[k] : k \in DOMAIN returned } = { a \in Discoverable : Before(a, Here) }

ScanInv == IterTypeOK /\ IterInv /\ ReturnedInv

-----------------------------------------------------------------------------
(* The iterator steps from one function to the next one it has to probe.   *)
LEMMA AdvanceIsExact ==
  ASSUME ScanInv, iter.bus_device < BusDevices,
         NEW it, it = Advanced(IF config[Here] = NoDevice THEN iter ELSE Probed(config[Here]))
  PROVE  /\ it \in [bus_device: 0 .. BusDevices, function: 0 .. MaxFunction,
                    max_function: {0, MaxFunction}]
         /\ it.function = 0 => it.max_function = 0
         /\ it.function # 0 =>
              /\ it.max_function = MaxFunction
              /\ it.bus_device < BusDevices
              /\ config[<<it.bus_device, 0>>] # NoDevice
              /\ config[<<it.bus_device, 0>>].multifunction
         /\ Here \in Addresses
         /\ Here \in Discoverable <=> config[Here] # NoDevice
         /\ \A a \in Discoverable :
              Before(a, <<it.bus_device, it.function>>) <=> Before(a, Here) \/ a = Here
<1> USE PciAssumption DEF ScanInv
<1> DEFINE bd == iter.bus_device
           f == iter.function
           max == iter.max_function
<1>1. /\ bd \in 0 .. BusDevices - 1 /\ f \in 0 .. MaxFunction /\ max \in {0, MaxFunction}
      /\ iter = [bus_device |-> bd, function |-> f, max_function |-> max]
  BY DEF IterTypeOK
<1>2. Here = <<bd, f>> /\ Here \in Addresses
  BY <1>1 DEF Here, Addresses
<1>3. /\ f = 0 => max = 0
      /\ f # 0 => /\ max = MaxFunction
                  /\ config[<<bd, 0>>] # NoDevice /\ config[<<bd, 0>>].multifunction
  BY DEF IterInv
<1>4. DOMAIN config = Addresses
  BY DEF IterTypeOK
<1>5. \A a \in Discoverable :
        /\ a = <<a[1], a[2]>> /\ a[1] \in 0 .. BusDevices - 1 /\ a[2] \in 0 .. MaxFunction
        /\ config[a] # NoDevice
        /\ a[2] # 0 => config[<<a[1], 0>>] # NoDevice /\ config[<<a[1], 0>>].multifunction
  BY <1>4 DEF Discoverable, Addresses
<1>6. Here \in Discoverable <=> config[Here] # NoDevice
  BY <1>2, <1>3, <1>4 DEF Discoverable
<1> DEFINE multi == f = 0 /\ config[<<bd, 0>>] # NoDevice /\ config[<<bd, 0>>].multifunction
<1>7. it = IF f = 0
             THEN IF multi
                    THEN [bus_device |-> bd, function |-> 1, max_function |-> MaxFunction]
                    ELSE [bus_device |-> bd + 1, function |-> 0, max_function |-> 0]
             ELSE IF f = MaxFunction
                    THEN [bus_device |-> bd + 1, function |-> 0, max_function |-> 0]
                    ELSE [bus_device |-> bd, function |-> f + 1, max_function |-> MaxFunction]
  BY <1>1, <1>2, <1>3 DEF Advanced, Probed
<1> HIDE DEF bd, f, max
<1>8. CASE multi
  <2>1. it = [bus_device |-> bd, function |-> 1, max_function |-> MaxFunction]
    BY <1>7, <1>8
  <2>2. \A a \in Discoverable : Before(a, <<bd, 1>>) <=> Before(a, <<bd, 0>>) \/ a = <<bd, 0>>
    <3> SUFFICES ASSUME NEW a \in Discoverable
                 PROVE  Before(a, <<bd, 1>>) <=> Before(a, <<bd, 0>>) \/ a = <<bd, 0>>
      OBVIOUS
    <3>1. PICK x \in 0 .. BusDevices - 1, y \in 0 .. MaxFunction : a = <<x, y>>
      BY <1>4 DEF Discoverable, Addresses
    <3>2. Before(<<x, y>>, <<bd, 0 + 1>>)
            <=> Before(<<x, y>>, <<bd, 0>>) \/ <<x, y>> = <<bd, 0>>
      BY <1>1, <3>1 DEF Before
    <3> QED
      BY <3>1, <3>2
  <2> QED
    BY <1>1, <1>2, <1>6, <1>8, <2>1, <2>2
<1>9. CASE f = 0 /\ ~multi
  <2>1. it = [bus_device |-> bd + 1, function |-> 0, max_function |-> 0]
    BY <1>7, <1>9
  <2>2. \A a \in Discoverable : a[1] = bd => a = <<bd, 0>>
    BY <1>5, <1>9
  <2>3. \A a \in Discoverable :
          Before(a, <<bd + 1, 0>>) <=> Before(a, <<bd, 0>>) \/ a = <<bd, 0>>
    <3> SUFFICES ASSUME NEW a \in Discoverable
                 PROVE  Before(a, <<bd + 1, 0>>) <=> Before(a, <<bd, 0>>) \/ a = <<bd, 0>>
      OBVIOUS
    <3>1. PICK x \in 0 .. BusDevices - 1, y \in 0 .. MaxFunction : a = <<x, y>>
      BY <1>4 DEF Discoverable, Addresses
    <3>2. x = bd => y <= 0
      BY <2>2, <3>1
    <3>3. Before(<<x, y>>, <<bd + 1, 0>>)
            <=> Before(<<x, y>>, <<bd, 0>>) \/ <<x, y>> = <<bd, 0>>
      BY <1>1, <3>1, <3>2 DEF Before
    <3> QED
      BY <3>1, <3>3
  <2> QED
    BY <1>1, <1>2, <1>6, <1>9, <2>1, <2>3
<1>10. CASE f # 0 /\ f = MaxFunction
  <2>1. it = [bus_device |-> bd + 1, function |-> 0, max_function |-> 0]
    BY <1>7, <1>10
  <2>2. \A a \in Discoverable :
          Before(a, <<bd + 1, 0>>) <=> Before(a, <<bd, f>>) \/ a = <<bd, f>>
    <3> SUFFICES ASSUME NEW a \in Discoverable
                 PROVE  Before(a, <<bd + 1, 0>>) <=> Before(a, <<bd, f>>) \/ a = <<bd, f>>
      OBVIOUS
    <3>1. PICK x \in 0 .. BusDevices - 1, y \in 0 .. MaxFunction : a = <<x, y>>
      BY <1>4 DEF Discoverable, Addresses
    <3>2. Before(<<x, y>>, <<bd + 1, 0>>)
            <=> Before(<<x, y>>, <<bd, f>>) \/ <<x, y>> = <<bd, f>>
      BY <1>1, <1>10, <3>1 DEF Before
    <3> QED
      BY <3>1, <3>2
  <2> QED
    BY <1>1, <1>2, <1>6, <2>1, <2>2
<1>11. CASE f # 0 /\ f # MaxFunction
  <2>1. it = [bus_device |-> bd, function |-> f + 1, max_function |-> MaxFunction]
    BY <1>7, <1>11
  <2>2. \A a \in Discoverable :
          Before(a, <<bd, f + 1>>) <=> Before(a, <<bd, f>>) \/ a = <<bd, f>>
    <3> SUFFICES ASSUME NEW a \in Discoverable
                 PROVE  Before(a, <<bd, f + 1>>) <=> Before(a, <<bd, f>>) \/ a = <<bd, f>>
      OBVIOUS
    <3>1. PICK x \in 0 .. BusDevices - 1, y \in 0 .. MaxFunction : a = <<x, y>>
      BY <1>4 DEF Discoverable, Addresses
    <3>2. Before(<<x, y>>, <<bd, f + 1>>)
            <=> Before(<<x, y>>, <<bd, f>>) \/ <<x, y>> = <<bd, f>>
      BY <1>1, <3>1 DEF Before
    <3> QED
      BY <3>1, <3>2
  <2> QED
    BY <1>1, <1>2, <1>3, <1>6, <1>11, <2>1, <2>2
<1> QED
  BY <1>8, <1>9, <1>10, <1>11


(* Nothing is before the first function. *)
LEMMA NoneBefore ==
  ASSUME IterTypeOK, iter.bus_device = 0, iter.function = 0
  PROVE  \A a \in Discoverable : ~Before(a, Here)
<1> SUFFICES ASSUME NEW a \in Discoverable PROVE ~Before(a, Here)
  OBVIOUS
<1>1. PICK x \in 0 .. BusDevices - 1, y \in 0 .. MaxFunction : a = <<x, y>>
  BY DEF Discoverable, IterTypeOK, Addresses
<1> QED
  BY <1>1, PciAssumption DEF Before, Here

(* Everything is before the end of the bus. *)
LEMMA AllBefore ==
  ASSUME IterTypeOK, iter.bus_device = BusDevices
  PROVE  \A a \in Discoverable : Before(a, Here)
<1> SUFFICES ASSUME NEW a \in Discoverable PROVE Before(a, Here)
  OBVIOUS
<1>1. PICK x \in 0 .. BusDevices - 1, y \in 0 .. MaxFunction : a = <<x, y>>
  BY DEF Discoverable, IterTypeOK, Addresses
<1> QED
  BY <1>1, PciAssumption DEF Before, Here

LEMMA ScanInvInit == PciInit => ScanInv
<1> SUFFICES ASSUME PciInit PROVE ScanInv
  OBVIOUS
<1> USE PciAssumption DEF PciInit
<1>1. IterTypeOK
  <2>1. config \in [Addresses -> PciDevice \cup {NoDevice}]
    BY ConfigsAssumption DEF Addresses
  <2> QED
    BY <2>1 DEF IterTypeOK
<1>2. IterInv
  BY DEF IterInv
<1>3. ReturnedInv
  <2>1. \A a \in Discoverable : ~Before(a, Here)
    BY <1>1, NoneBefore
  <2>2. DOMAIN returned = {}
    OBVIOUS
  <2> QED
    BY <2>1, <2>2 DEF ReturnedInv
<1> QED
  BY <1>1, <1>2, <1>3 DEF ScanInv

LEMMA ScanInvStutter ==
  ASSUME ScanInv, UNCHANGED <<config, iter, returned>>
  PROVE  ScanInv'
<1>1. IterTypeOK' /\ IterInv'
  BY DEF ScanInv, IterTypeOK, IterInv
<1>2. Discoverable' = Discoverable /\ Here' = Here
  BY DEF Discoverable, Here
<1>3. ReturnedInv'
  BY <1>2 DEF ScanInv, ReturnedInv
<1> QED
  BY <1>1, <1>3 DEF ScanInv

LEMMA ScanInvAdvance ==
  ASSUME ScanInv, SkipAbsent \/ NextDevice
  PROVE  /\ ScanInv'
         /\ Discoverable' = Discoverable
         /\ Here \in Discoverable <=> config[Here] # NoDevice
         /\ \A a \in Discoverable : Before(a, Here') <=> Before(a, Here) \/ a = Here
<1> USE PciAssumption
<1> DEFINE it == Advanced(IF config[Here] = NoDevice THEN iter ELSE Probed(config[Here]))
<1>1. /\ config' = config /\ iter' = it /\ iter.bus_device < BusDevices
      /\ returned' = IF config[Here] = NoDevice THEN returned ELSE Append(returned, Here)
  BY DEF SkipAbsent, NextDevice
<1>2. /\ it \in [bus_device: 0 .. BusDevices, function: 0 .. MaxFunction,
                 max_function: {0, MaxFunction}]
      /\ it.function = 0 => it.max_function = 0
      /\ it.function # 0 =>
           /\ it.max_function = MaxFunction
           /\ it.bus_device < BusDevices
           /\ config[<<it.bus_device, 0>>] # NoDevice
           /\ config[<<it.bus_device, 0>>].multifunction
      /\ Here \in Addresses
      /\ Here \in Discoverable <=> config[Here] # NoDevice
      /\ \A a \in Discoverable :
           Before(a, <<it.bus_device, it.function>>) <=> Before(a, Here) \/ a = Here
  BY <1>1, AdvanceIsExact
<1> HIDE DEF it
<1>3. Here' = <<it.bus_device, it.function>>
  BY <1>1 DEF Here
<1>4. Discoverable' = Discoverable
  BY <1>1 DEF Discoverable
<1>5. returned \in Seq(Addresses) /\ returned' \in Seq(Addresses)
  BY <1>1, <1>2 DEF ScanInv, IterTypeOK
<1>6. IterTypeOK' /\ IterInv'
  BY <1>1, <1>2, <1>5 DEF ScanInv, IterTypeOK, IterInv
<1>7. ReturnedInv'
  <2>1. /\ \A h, k \in DOMAIN returned : h < k => Before(returned[h], returned[k])
        /\ { returned[k] : k \in DOMAIN returned } = { a \in Discoverable : Before(a, Here) }
    BY DEF ScanInv, ReturnedInv
  <2>2. CASE config[Here] = NoDevice
    <3>1. { a \in Discoverable : Before(a, Here') } = { a \in Discoverable : Before(a, Here) }
      BY <1>2, <1>3, <2>2
    <3>2. returned' = returned
      BY <1>1, <2>2
    <3> QED
      BY <1>4, <2>1, <3>1, <3>2 DEF ReturnedInv
  <2>3. CASE config[Here] # NoDevice
    <3>1. PICK m \in Nat : m = Len(returned)
      BY <1>5
    <3>2. DOMAIN returned = 1 .. m /\ DOMAIN returned' = 1 .. m + 1
      BY <1>1, <1>5, <2>3, <3>1
    <3>3. returned'[m + 1] = Here /\ \A k \in 1 .. m : returned'[k] = returned[k]
      BY <1>1, <1>5, <2>3, <3>1
    <3>4. \A k \in 1 .. m : returned[k] \in Discoverable /\ Before(returned[k], Here)
      BY <2>1, <3>2
    <3>5. ASSUME NEW h \in 1 .. m + 1, NEW k \in 1 .. m + 1, h < k
          PROVE  Before(returned'[h], returned'[k])
      <4>1. CASE k \in 1 .. m
        <5>1. h \in 1 .. m
          BY <3>5, <4>1
        <5> QED
          BY <2>1, <3>2, <3>3, <3>5, <4>1, <5>1
      <4>2. CASE k = m + 1
        <5>1. h \in 1 .. m
          BY <3>5, <4>2
        <5> QED
          BY <3>3, <3>4, <4>2, <5>1
      <4> QED
        BY <4>1, <4>2
    <3>6. { returned'[k] : k \in 1 .. m + 1 } = { a \in Discoverable : Before(a, Here') }
      <4>1. { returned'[k] : k \in 1 .. m + 1 } = { returned[k] : k \in 1 .. m } \cup {Here}
        <5>1. 1 .. m + 1 = 1 .. m \cup {m + 1}
          OBVIOUS
        <5> QED
          BY <3>3, <5>1
      <4>2. Here \in Discoverable
        BY <1>2, <2>3
      <4>3. { a \in Discoverable : Before(a, Here') }
              = { a \in Discoverable : Before(a, Here) } \cup {Here}
        BY <1>2, <1>3, <4>2
      <4> QED
        BY <2>1, <3>2, <4>1, <4>3
    <3> QED
      BY <1>4, <3>2, <3>5, <3>6 DEF ReturnedInv
  <2> QED
    BY <2>2, <2>3
<1> QED
  BY <1>2, <1>3, <1>4, <1>6, <1>7 DEF ScanInv

LEMMA ScanInvNext == ScanInv /\ [Next]_vars => ScanInv'
<1> SUFFICES ASSUME ScanInv, [Next]_vars PROVE ScanInv'
  OBVIOUS
<1>1. ASSUME UNCHANGED pciVars PROVE ScanInv'
  BY <1>1, ScanInvStutter DEF pciVars
<1>2. CASE PassAbsent \/ TakeMatching \/ PassOther
  BY <1>2, ScanInvAdvance DEF PassAbsent, TakeMatching, PassOther
<1>3. CASE RefuseLoader \/ ParseCmdline \/ CmdlineParsed \/ SkipSearch \/ StartSearch
           \/ FinishSearch \/ NoIoBar \/ NoPorts \/ PatchBda \/ BootNext
  BY <1>1, <1>3 DEF RefuseLoader, ParseCmdline, CmdlineParsed, SkipSearch, StartSearch,
     FinishSearch, NoIoBar, NoPorts, PatchBda, BootNext
<1>4. CASE UNCHANGED vars
  BY <1>1, <1>4 DEF vars
<1> QED
  BY <1>2, <1>3, <1>4 DEF Next, Step

LEMMA ScanInvHolds == Spec => []ScanInv
<1>1. Init => ScanInv
  BY ScanInvInit DEF Init
<1> QED
  BY <1>1, ScanInvNext, PTL DEF Spec

(* The iterator returns what is on the bus, each function once, in order.  *)
THEOREM ScanIsExactHolds == Spec => []ScanIsExact
<1>1. ScanInv => ScanIsExact
  <2>1. IterTypeOK /\ IterInv => iter.function <= iter.max_function
    BY PciAssumption DEF IterTypeOK, IterInv
  <2> QED
    BY <2>1 DEF ScanInv, ReturnedInv, ScanIsExact
<1> QED
  BY <1>1, ScanInvHolds, PTL


-----------------------------------------------------------------------------
(* main of bender.c. *)

MainTypeOK ==
  /\ pc \in {"start", "legacy", "scan", "found", "boot_next", "start_module", "exit"}
  /\ magic \in {MBI_MAGIC, MBI2_MAGIC, "other"}
  /\ output_enabled \in BOOLEAN
  /\ bios.equipment \in Nat

Unpatched == com0 = bios.com0 /\ equipment = bios.equipment

LastController(d) ==
  \E a \in Controllers :
    d = config[a] /\ \A b \in Controllers : b = a \/ Before(b, a)

(* serial_ctrl is the last controller of those the iterator is past. *)
TrackInv ==
  /\ serial_ctrl = NoDevice => \A a \in Controllers : ~Before(a, Here)
  /\ serial_ctrl # NoDevice =>
       \E a \in Controllers :
         /\ Before(a, Here) /\ serial_ctrl = config[a]
         /\ \A b \in Controllers : Before(b, Here) => b = a \/ Before(b, a)

(* What the search has led to: nothing was looked for, nothing was found,  *)
(* or the data area is patched if the last controller has a port.          *)
Outcome ==
  \/ accept_legacy /\ bios.equipment % 8 # 0 /\ Unpatched
  \/ Controllers = {} /\ Unpatched
  \/ /\ LastController(serial_ctrl)
     /\ IF IoBars(serial_ctrl) # {} /\ ComPort # 0
          THEN com0 = ComPort /\ equipment = OnePort(bios.equipment)
          ELSE Unpatched

PlaceInv ==
  /\ pc \in {"start", "legacy", "exit"} =>
       iter.bus_device = 0 /\ iter.function = 0 /\ serial_ctrl = NoDevice
  /\ magic # MBI_MAGIC => pc \in {"start", "exit"}
  /\ pc = "exit" => magic # MBI_MAGIC
  /\ pc = "found" => iter.bus_device = BusDevices /\ serial_ctrl # NoDevice
  /\ pc \notin {"boot_next", "start_module"} => Unpatched
  /\ pc \in {"boot_next", "start_module"} => Outcome
  /\ pc # "start_module" => ~output_enabled
  /\ pc = "start_module" =>
       /\ output_enabled <=> SerialPorts(equipment) # 0
       /\ output_enabled => serial_base = com0

MainInv == MainTypeOK /\ TrackInv /\ PlaceInv

LEMMA Powers == 2^9 = 512 /\ 2^13 = 8192 /\ 2^16 = 65536
OBVIOUS

LEMMA UpFromZero == \A n \in Int : 0 .. n \subseteq Nat
OBVIOUS

LEMMA MainInvInit == Init => MainInv
<1> SUFFICES ASSUME Init PROVE MainInv
  OBVIOUS
<1> USE DEF Init, PciInit
<1>1. equipment \in Nat
  <2>1. \A n \in Int : 0 .. n \subseteq Nat
    BY UpFromZero, Zenon
  <2> DEFINE last == 2^16 - 1
  <2>2. equipment \in 0 .. last
    BY DiscoveryAssumption
  <2>3. last \in Int
    BY Powers
  <2> HIDE DEF last
  <2> QED
    BY <2>1, <2>2, <2>3
<1>2. MainTypeOK
  BY <1>1 DEF MainTypeOK
<1>3. TrackInv
  <2>1. \A a \in Discoverable : ~Before(a, Here)
    BY ScanInvInit, NoneBefore DEF ScanInv
  <2> QED
    BY <2>1 DEF TrackInv, Controllers
<1>4. PlaceInv
  BY DEF PlaceInv, Unpatched, MBI_MAGIC, MBI2_MAGIC
<1> QED
  BY <1>2, <1>3, <1>4 DEF MainInv

(* A step that passes a function on. *)
LEMMA TrackStep ==
  ASSUME ScanInv, TrackInv, UNCHANGED <<be_promisc, config>>,
         SkipAbsent \/ NextDevice,
         serial_ctrl' = IF config[Here] # NoDevice /\ Wanted(config[Here])
                          THEN config[Here] ELSE serial_ctrl
  PROVE  TrackInv'
<1>1. /\ Discoverable' = Discoverable
      /\ Here \in Discoverable <=> config[Here] # NoDevice
      /\ \A a \in Discoverable : Before(a, Here') <=> Before(a, Here) \/ a = Here
  BY ScanInvAdvance
<1>2. Controllers' = Controllers
  BY <1>1 DEF Controllers, Wanted
<1>3. Controllers \subseteq Discoverable
  BY DEF Controllers
<1>4. Here \in Controllers <=> config[Here] # NoDevice /\ Wanted(config[Here])
  BY <1>1 DEF Controllers
<1>5. CASE Here \in Controllers
  BY <1>1, <1>2, <1>3, <1>4, <1>5 DEF TrackInv
<1>6. CASE Here \notin Controllers
  <2>1. serial_ctrl' = serial_ctrl
    BY <1>4, <1>6
  <2>2. \A a \in Controllers : Before(a, Here') <=> Before(a, Here)
    BY <1>1, <1>3, <1>6
  <2>3. config' = config
    OBVIOUS
  <2> HIDE DEF Here
  <2> QED
    BY <1>2, <2>1, <2>2, <2>3 DEF TrackInv
<1> QED
  BY <1>5, <1>6

(* At the end of the bus it is the last controller of all. *)
LEMMA TrackEnd ==
  ASSUME ScanInv, TrackInv, iter.bus_device = BusDevices
  PROVE  /\ serial_ctrl = NoDevice => Controllers = {}
         /\ serial_ctrl # NoDevice => LastController(serial_ctrl)
<1>1. \A a \in Controllers : Before(a, Here)
  BY AllBefore DEF ScanInv, Controllers
<1> QED
  BY <1>1 DEF TrackInv, LastController


(* Steps that leave the bus and the options alone. *)
LEMMA TrackStutter ==
  ASSUME TrackInv, UNCHANGED <<pciVars, be_promisc, serial_ctrl>>
  PROVE  /\ TrackInv' /\ Controllers' = Controllers /\ Here' = Here
         /\ LastController(serial_ctrl)' = LastController(serial_ctrl)
<1>1. Controllers' = Controllers
  BY DEF pciVars, Controllers, Discoverable, Wanted
<1>2. Here' = Here /\ config' = config
  BY DEF Here, pciVars
<1> QED
  BY <1>1, <1>2 DEF TrackInv, LastController

(* The outcome does not change any more. *)
LEMMA OutcomeStutter ==
  ASSUME TrackInv, Outcome, UNCHANGED <<pciVars, parserVars, serial_ctrl, bdaVars>>
  PROVE  Outcome'
<1>1. Controllers' = Controllers /\ LastController(serial_ctrl)' = LastController(serial_ctrl)
  BY TrackStutter DEF parserVars, options
<1>2. Unpatched' = Unpatched
  BY DEF Unpatched, bdaVars
<1>3. ComPort' = ComPort
  BY DEF ComPort
<1> QED
  BY <1>1, <1>2, <1>3 DEF Outcome, bdaVars, parserVars, options

LEMMA MainInvParse == ASSUME ScanInv, MainInv, ParseCmdline PROVE MainInv'
<1>1. /\ pc = "start" /\ UNCHANGED <<pciVars, mainVars, bdaVars, serialVars>>
  BY DEF ParseCmdline
<1>2. MainTypeOK'
  BY <1>1 DEF MainInv, MainTypeOK, mainVars, bdaVars, serialVars
<1>3. PlaceInv'
  BY <1>1 DEF MainInv, PlaceInv, Unpatched, mainVars, bdaVars, serialVars, pciVars
<1>4. TrackInv'
  <2>1. serial_ctrl' = NoDevice
    BY <1>1 DEF MainInv, PlaceInv, mainVars
  <2>2. ScanInv'
    BY <1>1, ScanInvStutter DEF pciVars
  <2>3. iter'.bus_device = 0 /\ iter'.function = 0
    BY <1>1 DEF MainInv, PlaceInv, pciVars
  <2>4. \A a \in Discoverable : ~Before(a, Here)
    BY <1>1, NoneBefore DEF ScanInv, MainInv, PlaceInv
  <2>5. Discoverable' = Discoverable /\ Here' = Here
    BY <1>1 DEF pciVars, Discoverable, Here
  <2>6. \A a \in Controllers' : ~Before(a, Here')
    BY <2>4, <2>5 DEF Controllers
  <2> QED
    BY <2>1, <2>6 DEF TrackInv
<1> QED
  BY <1>2, <1>3, <1>4 DEF MainInv

LEMMA MainInvScan ==
  ASSUME ScanInv, MainInv, PassAbsent \/ TakeMatching \/ PassOther
  PROVE  MainInv'
<1>1. /\ pc = "scan" /\ UNCHANGED <<parserVars, pc, magic, bdaVars, serialVars>>
      /\ SkipAbsent \/ NextDevice
  BY DEF PassAbsent, TakeMatching, PassOther, mainVars
<1>2. UNCHANGED <<be_promisc, config>>
  BY <1>1 DEF parserVars, options, SkipAbsent, NextDevice
<1>3. serial_ctrl' = IF config[Here] # NoDevice /\ Wanted(config[Here])
                       THEN config[Here] ELSE serial_ctrl
  BY DEF PassAbsent, TakeMatching, PassOther, SkipAbsent, NextDevice, Wanted,
         parserVars, options, mainVars
<1>4. TrackInv'
  BY <1>1, <1>2, <1>3, TrackStep DEF MainInv
<1>5. MainTypeOK' /\ PlaceInv'
  BY <1>1 DEF MainInv, MainTypeOK, PlaceInv, Unpatched, bdaVars, serialVars
<1> QED
  BY <1>4, <1>5 DEF MainInv

LEMMA MainInvNext == ScanInv /\ MainInv /\ [Next]_vars => MainInv'
<1> SUFFICES ASSUME ScanInv, MainInv, [Next]_vars PROVE MainInv'
  OBVIOUS
<1> USE DEF MainInv
<1>1. CASE ParseCmdline
  BY <1>1, MainInvParse
<1>2. CASE PassAbsent \/ TakeMatching \/ PassOther
  BY <1>2, MainInvScan
<1>t. ASSUME UNCHANGED <<pciVars, parserVars, serial_ctrl>> PROVE TrackInv'
  BY <1>t, TrackStutter DEF parserVars, options
<1>3. CASE RefuseLoader \/ CmdlineParsed \/ StartSearch
  <2>1. UNCHANGED <<pciVars, parserVars, magic, serial_ctrl, bdaVars, serialVars>>
    BY <1>3 DEF RefuseLoader, CmdlineParsed, StartSearch
  <2>2. MainTypeOK' /\ PlaceInv'
    BY <1>3, <2>1 DEF RefuseLoader, CmdlineParsed, StartSearch, MainTypeOK, PlaceInv, Unpatched,
       bdaVars, serialVars, pciVars
  <2> QED
    BY <1>t, <2>1, <2>2
<1>4. CASE SkipSearch
  <2>1. /\ pc = "legacy" /\ pc' = "boot_next" /\ HonoursLegacy
        /\ UNCHANGED <<pciVars, parserVars, magic, serial_ctrl, bdaVars, serialVars>>
    BY <1>4 DEF SkipSearch
  <2>2. Unpatched /\ Unpatched' /\ accept_legacy' /\ bios'.equipment % 8 # 0
    BY <2>1 DEF PlaceInv, Unpatched, HonoursLegacy, bdaVars, parserVars, options
  <2>3. MainTypeOK' /\ PlaceInv'
    BY <2>1, <2>2 DEF MainTypeOK, PlaceInv, Outcome, bdaVars, serialVars
  <2> QED
    BY <1>t, <2>1, <2>3
<1>5. CASE FinishSearch
  <2>1. /\ pc = "scan" /\ NoMoreDevices /\ Unpatched /\ Unpatched'
        /\ pc' = IF serial_ctrl = NoDevice THEN "boot_next" ELSE "found"
        /\ UNCHANGED <<pciVars, parserVars, magic, serial_ctrl, bdaVars, serialVars>>
    BY <1>5 DEF FinishSearch, PlaceInv, Unpatched, bdaVars
  <2>2. iter.bus_device = BusDevices /\ iter'.bus_device = BusDevices
    BY <2>1, PciAssumption DEF NoMoreDevices, ScanInv, IterTypeOK, pciVars
  <2>3. serial_ctrl = NoDevice => Controllers' = {}
    BY <2>1, <2>2, TrackEnd, TrackStutter DEF parserVars, options
  <2>4. MainTypeOK' /\ PlaceInv'
    BY <2>1, <2>2, <2>3 DEF MainTypeOK, PlaceInv, Outcome, bdaVars, serialVars
  <2> QED
    BY <1>t, <2>1, <2>4
<1>6. CASE NoIoBar \/ NoPorts \/ PatchBda
  <2>1. /\ pc = "found" /\ pc' = "boot_next"
        /\ UNCHANGED <<pciVars, parserVars, magic, serial_ctrl, bios, serialVars>>
    BY <1>6 DEF NoIoBar, NoPorts, PatchBda, bdaVars
  <2>2. LastController(serial_ctrl)'
    <3>1. LastController(serial_ctrl)
      BY <2>1, TrackEnd DEF PlaceInv
    <3> QED
      BY <2>1, <3>1, TrackStutter DEF parserVars, options
  <2>3. ComPort' = ComPort /\ IoBars(serial_ctrl)' = IoBars(serial_ctrl)
    BY <2>1 DEF ComPort
  <2>4. IF IoBars(serial_ctrl) # {} /\ ComPort # 0
          THEN com0' = ComPort /\ equipment' = OnePort(bios.equipment)
          ELSE Unpatched'
    <3>1. Unpatched
      BY <2>1 DEF PlaceInv
    <3> QED
      BY <1>6, <2>1, <3>1 DEF NoIoBar, NoPorts, PatchBda, Unpatched, bdaVars
  <2>5. Outcome'
    BY <2>1, <2>2, <2>3, <2>4 DEF Outcome
  <2>6. MainTypeOK' /\ PlaceInv'
    BY <2>1, <2>5 DEF MainTypeOK, PlaceInv, serialVars
  <2> QED
    BY <1>t, <2>1, <2>6
<1>7. CASE BootNext
  <2>1. /\ pc = "boot_next" /\ pc' = "start_module"
        /\ output_enabled' = (output_enabled \/ SerialPorts(equipment) # 0)
        /\ serial_base' = IF SerialPorts(equipment) # 0 THEN com0 ELSE serial_base
        /\ UNCHANGED <<pciVars, parserVars, magic, serial_ctrl, bdaVars>>
    BY <1>7 DEF BootNext
  <2>2. ~output_enabled /\ Outcome /\ com0' = com0 /\ equipment' = equipment
    BY <2>1 DEF PlaceInv, bdaVars
  <2>3. Outcome'
    BY <2>1, <2>2, OutcomeStutter
  <2>4. MainTypeOK' /\ PlaceInv'
    BY <2>1, <2>2, <2>3 DEF MainTypeOK, PlaceInv, bdaVars
  <2> QED
    BY <1>t, <2>1, <2>4
<1>8. CASE UNCHANGED vars
  <2>1. pc \in {"boot_next", "start_module"} => Outcome'
    BY <1>8, OutcomeStutter DEF vars, PlaceInv, mainVars
  <2>2. MainTypeOK' /\ PlaceInv'
    BY <1>8, <2>1 DEF vars, mainVars, bdaVars, serialVars, pciVars, MainTypeOK, PlaceInv,
       Unpatched
  <2> QED
    BY <1>8, <1>t, <2>2 DEF vars, mainVars
<1> QED
  BY <1>1, <1>2, <1>3, <1>4, <1>5, <1>6, <1>7, <1>8 DEF Next, Step

LEMMA MainInvHolds == Spec => [](ScanInv /\ MainInv)
<1> QED
  BY MainInvInit, MainInvNext, ScanInvHolds, PTL DEF Spec


-----------------------------------------------------------------------------
(* Ports and words. *)

(* A word that announces one port, and is the BIOS's in its other bits. *)
LEMMA OnePortBits ==
  ASSUME NEW word \in Nat
  PROVE  /\ SerialPorts(OnePort(word)) = 1
         /\ OnePort(word) % 2^9 = word % 2^9
         /\ OnePort(word) \div 2^13 = word \div 2^13
<1> DEFINE o == (word \div 8192) * 8192 + 512 + (word % 512)
<1>1. (o \div 512) % 8 = 1 /\ o % 512 = word % 512 /\ o \div 8192 = word \div 8192
  OBVIOUS
<1>2. OnePort(word) = o
  BY Powers DEF OnePort
<1> HIDE DEF o
<1> QED
  BY <1>1, <1>2, Powers DEF SerialPorts

LEMMA ModSum ==
  \A v \in Int : (((v - 1) % 65536) + 192) % 65536 = ((v - 1) + 192) % 65536
OBVIOUS

(* The first io bar is one of them. *)
LEMMA FirstIoBarIsIo ==
  ASSUME NEW d, IoBars(d) # {}
  PROVE  /\ FirstIoBar(d) \in 0 .. BarNum - 1
         /\ d.bars[FirstIoBar(d)].value % 2 = 1
<1>1. IoBars(d) \subseteq Nat
  BY PciAssumption DEF IoBars
<1>2. \E x \in IoBars(d) : \A y \in IoBars(d) : x <= y
  BY <1>1, LeastNumber
<1>3. FirstIoBar(d) \in IoBars(d)
  BY <1>2 DEF FirstIoBar, Min
<1> QED
  BY <1>3 DEF IoBars

(* The quirk is that of one device. *)
LEMMA QuirkDevice ==
  ASSUME NEW d \in PciDevice
  PROVE  LookupDevice(d).offset_c0 <=> d.vendor_id = 7168 /\ d.device_id = 12883
<1> DEFINE matches == { n \in DOMAIN VendorDb :
                          /\ VendorDb[n].vendor_id \in {Wildcard, d.vendor_id}
                          /\ VendorDb[n].device_id \in {Wildcard, d.device_id} }
<1>1. DOMAIN VendorDb = {1, 2}
  BY DEF VendorDb
<1>2. /\ VendorDb[1] = [vendor_id |-> 7168, device_id |-> 12883, offset_c0 |-> TRUE]
      /\ VendorDb[2] = [vendor_id |-> Wildcard, device_id |-> Wildcard, offset_c0 |-> FALSE]
  BY DEF VendorDb
<1>3. 2 \in matches /\ matches \subseteq {1, 2}
      /\ (1 \in matches <=> d.vendor_id = 7168 /\ d.device_id = 12883)
  BY <1>1, <1>2 DEF Wildcard
<1>4. LookupDevice(d) = VendorDb[Min(matches)]
  BY DEF LookupDevice
<1> HIDE DEF matches
<1>5. CASE 1 \in matches
  <2>1. 1 \in matches /\ \A y \in matches : 1 <= y
    BY <1>3, <1>5
  <2>2. \A x \in matches : (\A y \in matches : x <= y) => x = 1
    <3> SUFFICES ASSUME NEW x \in matches, \A y \in matches : x <= y PROVE x = 1
      OBVIOUS
    <3>1. x <= 1 /\ x \in {1, 2}
      BY <1>3, <2>1
    <3> QED
      BY <3>1
  <2>3. Min(matches) = 1
    BY <2>1, <2>2 DEF Min
  <2> QED
    BY <1>2, <1>3, <1>4, <1>5, <2>3
<1>6. CASE 1 \notin matches
  <2>1. 2 \in matches /\ \A y \in matches : y = 2
    BY <1>3, <1>6
  <2>2. Min(matches) = 2
    BY <2>1 DEF Min
  <2> QED
    BY <1>2, <1>3, <1>4, <1>6, <2>2
<1> QED
  BY <1>5, <1>6

(* The port that main finds, for a device with an io bar. *)
LEMMA ComPortValue ==
  ASSUME serial_ctrl \in PciDevice, IoBars(serial_ctrl) # {}
  PROVE  LET v == serial_ctrl.bars[FirstIoBar(serial_ctrl)].value
             quirk == serial_ctrl.vendor_id = 7168 /\ serial_ctrl.device_id = 12883
         IN  /\ v \in Nat
             /\ ComPort = IF quirk THEN ((v - 1) + 192) % 65536 ELSE (v - 1) % 65536
<1> DEFINE v == serial_ctrl.bars[FirstIoBar(serial_ctrl)].value
<1>1. v \in Nat
  BY FirstIoBarIsIo DEF PciDevice, Bar
<1>2. IoBase(serial_ctrl) = (v - 1) % 65536
  BY Powers DEF IoBase
<1>3. ComPort = IF LookupDevice(serial_ctrl).offset_c0
                  THEN (((v - 1) % 65536) + 192) % 65536 ELSE (v - 1) % 65536
  BY <1>2, Powers DEF ComPort, ApplyQuirks
<1> HIDE DEF v
<1>4. (((v - 1) % 65536) + 192) % 65536 = ((v - 1) + 192) % 65536
  BY <1>1, ModSum
<1> QED
  BY <1>1, <1>3, <1>4, QuirkDevice DEF v

(* That is the port of the uart behind the bar, in 16 bits. *)
LEMMA ComPortIsUartPort ==
  ASSUME serial_ctrl \in PciDevice, IoBars(serial_ctrl) # {}
  PROVE  /\ UartPort(serial_ctrl, FirstIoBar(serial_ctrl)) \in Int
         /\ ComPort = UartPort(serial_ctrl, FirstIoBar(serial_ctrl)) % 2^16
<1> DEFINE v == serial_ctrl.bars[FirstIoBar(serial_ctrl)].value
           quirk == serial_ctrl.vendor_id = 7168 /\ serial_ctrl.device_id = 12883
<1>1. /\ v \in Nat
      /\ ComPort = IF quirk THEN ((v - 1) + 192) % 65536 ELSE (v - 1) % 65536
  BY ComPortValue
<1>2. UartPort(serial_ctrl, FirstIoBar(serial_ctrl)) = v - 1 + (IF quirk THEN 192 ELSE 0)
  BY DEF UartPort
<1> HIDE DEF v, quirk
<1>3. v - 1 + 0 = v - 1
  BY <1>1
<1>4. CASE quirk
  BY <1>1, <1>2, <1>4, Powers
<1>5. CASE ~quirk
  BY <1>1, <1>2, <1>3, <1>5, Powers
<1> QED
  BY <1>4, <1>5

(* No bar in front of the first io bar has bit 0 set, and it is the only   *)
(* one with bit 0 set of which that can be said.                           *)
LEMMA FirstIoBarIsFirst ==
  ASSUME NEW d \in PciDevice, IoBars(d) # {}
  PROVE  /\ \A m \in 0 .. FirstIoBar(d) - 1 : d.bars[m].value % 2 = 0
         /\ \A k \in 0 .. BarNum - 1 :
              /\ d.bars[k].value % 2 = 1
              /\ \A m \in 0 .. k - 1 : d.bars[m].value % 2 = 0
              => k = FirstIoBar(d)
<1>1. /\ FirstIoBar(d) \in 0 .. BarNum - 1
      /\ d.bars[FirstIoBar(d)].value % 2 = 1
  BY FirstIoBarIsIo
<1>2. \A k \in IoBars(d) : FirstIoBar(d) <= k
  <2>1. IoBars(d) \subseteq Nat
    BY PciAssumption DEF IoBars
  <2>2. \E x \in IoBars(d) : \A y \in IoBars(d) : x <= y
    BY <2>1, LeastNumber
  <2> QED
    BY <2>2 DEF FirstIoBar, Min
<1>3. \A k \in 0 .. BarNum - 1 : d.bars[k].value \in Nat
  BY DEF PciDevice, Bar
<1>4. \A m \in 0 .. FirstIoBar(d) - 1 : d.bars[m].value % 2 = 0
  <2> SUFFICES ASSUME NEW m \in 0 .. FirstIoBar(d) - 1, d.bars[m].value % 2 # 0
               PROVE  FALSE
    OBVIOUS
  <2>1. m \in 0 .. BarNum - 1 /\ ~(FirstIoBar(d) <= m)
    BY <1>1, PciAssumption
  <2>2. PICK v \in Nat : v = d.bars[m].value
    BY <1>3, <2>1
  <2>3. v % 2 = 1
    BY <2>2
  <2>4. m \in IoBars(d)
    BY <2>1, <2>2, <2>3 DEF IoBars
  <2> QED
    BY <1>2, <2>1, <2>4
<1>5. ASSUME NEW k \in 0 .. BarNum - 1, d.bars[k].value % 2 = 1,
             \A m \in 0 .. k - 1 : d.bars[m].value % 2 = 0
      PROVE  k = FirstIoBar(d)
  <2>1. k \in IoBars(d)
    BY <1>5 DEF IoBars
  <2>2. FirstIoBar(d) <= k
    BY <1>2, <2>1
  <2>3. ~(FirstIoBar(d) < k)
    <3> SUFFICES ASSUME FirstIoBar(d) < k PROVE FALSE
      OBVIOUS
    <3>1. FirstIoBar(d) \in 0 .. k - 1
      BY <1>1
    <3>2. d.bars[FirstIoBar(d)].value % 2 = 0
      BY <1>5, <3>1
    <3>3. PICK r : r = d.bars[FirstIoBar(d)].value % 2
      OBVIOUS
    <3> QED
      BY <1>1, <3>2, <3>3
  <2> QED
    BY <1>1, <2>2, <2>3
<1> QED
  BY <1>4, <1>5

LEMMA SmallWord ==
  ASSUME NEW v \in Int, 0 <= v, v <= 65535
  PROVE  v % 65536 = v
OBVIOUS

-----------------------------------------------------------------------------
(* The data area changes in one step, after the whole bus is seen and      *)
(* before output has taken its port from there.                            *)
THEOREM PatchAfterScanBeforeOutputHolds == Spec => PatchAfterScanBeforeOutput
<1>1. ScanInv /\ MainInv /\ [Next]_vars
        => [bdaVars' # bdaVars => NoMoreDevices /\ ~output_enabled]_vars
  <2> SUFFICES ASSUME ScanInv, MainInv, [Next]_vars, bdaVars' # bdaVars
               PROVE  NoMoreDevices /\ ~output_enabled
    OBVIOUS
  <2>1. PatchBda
    BY DEF Next, Step, RefuseLoader, ParseCmdline, CmdlineParsed, SkipSearch, StartSearch,
       PassAbsent, TakeMatching, PassOther, FinishSearch, NoIoBar, NoPorts, BootNext, vars
  <2> QED
    BY <2>1, PciAssumption DEF PatchBda, MainInv, PlaceInv, NoMoreDevices
<1> QED
  BY <1>1, MainInvHolds, PTL DEF Spec, PatchAfterScanBeforeOutput

(* If the data area is patched, then with a port of the last controller of *)
(* the bus, one announced port, and the other bits as the BIOS left them.  *)
THEOREM PatchNamesLastControllerHolds == Spec => []PatchNamesLastController
<1>1. ScanInv /\ MainInv => PatchNamesLastController
  <2> SUFFICES ASSUME ScanInv, MainInv, Patched
               PROVE  PatchNamesLastController
    BY DEF PatchNamesLastController
  <2>1. ~Unpatched /\ Outcome
    BY DEF Patched, Unpatched, MainInv, PlaceInv, MainTypeOK
  <2>2. /\ LastController(serial_ctrl)
        /\ IoBars(serial_ctrl) # {} /\ ComPort # 0
        /\ com0 = ComPort /\ equipment = OnePort(bios.equipment)
    BY <2>1 DEF Outcome, Unpatched
  <2>3. PICK a \in Controllers : /\ serial_ctrl = config[a]
                                 /\ \A b \in Controllers : b = a \/ Before(b, a)
    BY <2>2 DEF LastController
  <2>4. serial_ctrl \in PciDevice
    <3>1. a \in Addresses /\ config[a] # NoDevice
      BY DEF Controllers, Discoverable, ScanInv, IterTypeOK
    <3> QED
      BY <2>3, <3>1 DEF ScanInv, IterTypeOK
  <2>5. PICK n : n = FirstIoBar(serial_ctrl)
    OBVIOUS
  <2>6. /\ n \in 0 .. BarNum - 1
        /\ config[a].bars[n].value % 2 = 1
        /\ \A m \in 0 .. n - 1 : config[a].bars[m].value % 2 = 0
    BY <2>2, <2>3, <2>4, <2>5, FirstIoBarIsIo, FirstIoBarIsFirst
  <2>7. com0 = UartPort(config[a], n) % 2^16 /\ com0 # 0
    BY <2>2, <2>3, <2>4, <2>5, ComPortIsUartPort
  <2>8. IsLast(a)
    BY <2>3 DEF IsLast
  <2>9. /\ SerialPorts(equipment) = 1
        /\ equipment % 2^9 = bios.equipment % 2^9
        /\ equipment \div 2^13 = bios.equipment \div 2^13
    BY <2>2, OnePortBits DEF MainInv, MainTypeOK
  <2> QED
    BY <2>3, <2>6, <2>7, <2>8, <2>9, Zenon DEF PatchNamesLastController
<1> QED
  BY <1>1, MainInvHolds, PTL

(* Output comes out at the uart of the last controller if that one has a   *)
(* usable bar and accept_legacy does not stop the search; without a        *)
(* controller it follows the BIOS.                                         *)
THEOREM OutputFindsItsPortHolds == Spec => []OutputFindsItsPort
<1>1. ScanInv /\ MainInv => OutputFindsItsPort
  <2> SUFFICES ASSUME ScanInv, MainInv PROVE OutputFindsItsPort
    OBVIOUS
  <2>1. ASSUME NEW a \in Controllers, NEW n \in 0 .. BarNum - 1,
               pc = "start_module", IsLast(a), Usable(config[a], n),
               ~(accept_legacy /\ bios.equipment % 8 # 0)
        PROVE  output_enabled /\ serial_base = UartPort(config[a], n)
    <3>1. /\ LastController(serial_ctrl)
          /\ IF IoBars(serial_ctrl) # {} /\ ComPort # 0
               THEN com0 = ComPort /\ equipment = OnePort(bios.equipment)
               ELSE Unpatched
      BY <2>1 DEF MainInv, PlaceInv, Outcome
    <3>2. serial_ctrl = config[a]
      <4>1. PICK b \in Controllers : /\ serial_ctrl = config[b]
                                     /\ \A c \in Controllers : c = b \/ Before(c, b)
        BY <3>1 DEF LastController
      <4>2. a = b \/ (Before(a, b) /\ Before(b, a))
        BY <2>1, <4>1 DEF IsLast
      <4>3. a \in Addresses /\ b \in Addresses
        BY DEF Controllers, Discoverable, ScanInv, IterTypeOK
      <4>4. ~(Before(a, b) /\ Before(b, a))
        BY <4>3, PciAssumption DEF Before, Addresses
      <4> QED
        BY <4>1, <4>2, <4>4
    <3>3. config[a] \in PciDevice
      <4>1. a \in Addresses /\ config[a] # NoDevice
        BY DEF Controllers, Discoverable, ScanInv, IterTypeOK
      <4> QED
        BY <4>1 DEF ScanInv, IterTypeOK
    <3> DEFINE d == config[a]
    <3>4. PICK v : v = d.bars[n].value
      OBVIOUS
    <3>5. v \in Nat /\ v % 2 = 1
      <4>1. d.bars[n] \in Bar /\ d.bars[n].kind = "io"
        BY <2>1, <3>3 DEF PciDevice, Usable
      <4> QED
        BY <3>4, <4>1 DEF Bar
    <3>6. IoBars(d) # {}
      BY <3>4, <3>5 DEF IoBars
    <3>7. n = FirstIoBar(d)
      <4>1. \A m \in 0 .. n - 1 : d.bars[m].value % 2 = 0
        BY <2>1 DEF Usable
      <4> QED
        BY <3>3, <3>4, <3>5, <3>6, <4>1, FirstIoBarIsFirst
    <3>8. PICK p : p = UartPort(d, n)
      OBVIOUS
    <3>9. p \in Int /\ 0 < p /\ p <= 65535
      <4>1. p \in Int
        BY <3>2, <3>3, <3>6, <3>7, <3>8, ComPortIsUartPort
      <4>2. v # 1 /\ p < 65536
        BY <2>1, <3>4, <3>8, Powers DEF Usable
      <4>3. 1 < v
        BY <3>5, <4>2
      <4>4. p = v - 1 \/ p = v - 1 + 192
        BY <3>4, <3>5, <3>8 DEF UartPort
      <4> QED
        BY <3>5, <4>1, <4>2, <4>3, <4>4
    <3>10. ComPort = p
      <4>1. ComPort = p % 65536
        BY <3>2, <3>3, <3>6, <3>7, <3>8, ComPortIsUartPort, Powers
      <4> QED
        BY <3>9, <4>1, SmallWord
    <3>11. com0 = p /\ equipment = OnePort(bios.equipment)
      BY <3>1, <3>2, <3>6, <3>9, <3>10
    <3>12. SerialPorts(equipment) = 1
      BY <3>11, OnePortBits DEF MainInv, MainTypeOK
    <3> QED
      BY <2>1, <3>8, <3>11, <3>12 DEF MainInv, PlaceInv
  <2>2. ASSUME Ended, Controllers = {} \/ magic # MBI_MAGIC
        PROVE  /\ output_enabled <=> magic = MBI_MAGIC /\ SerialPorts(bios.equipment) # 0
               /\ output_enabled => serial_base = bios.com0
    <3>1. CASE pc = "exit"
      BY <3>1 DEF MainInv, PlaceInv
    <3>2. CASE pc = "start_module"
      <4>1. magic = MBI_MAGIC
        BY <3>2 DEF MainInv, PlaceInv
      <4>2. Unpatched
        BY <2>2, <3>2, <4>1 DEF MainInv, PlaceInv, Outcome, LastController
      <4> QED
        BY <3>2, <4>1, <4>2 DEF MainInv, PlaceInv, Unpatched
    <3> QED
      BY <2>2, <3>1, <3>2 DEF Ended
  <2> QED
    BY <2>1, <2>2, Zenon DEF OutputFindsItsPort
<1> QED
  BY <1>1, MainInvHolds, PTL

-----------------------------------------------------------------------------
(* The command line. *)

Chars == Letters \cup {Blank}

(* What strncpy puts into the buffer. *)
Copied(k) == IF k < Len(cmdline) THEN cmdline[k + 1] ELSE NUL

(* How far the words have been compared. *)
ParsedTo ==
  IF parsing = "compare" THEN token
  ELSE IF last_ptr = Null THEN Len(cmdline) ELSE last_ptr

(* Given, of the words that end there. *)
GivenUpTo(name, p) ==
  \E first, last \in DOMAIN cmdline :
    /\ first <= last /\ last <= p /\ IsWord(first, last)
    /\ SubSeq(cmdline, first, last) = name
    /\ \E k \in 1 .. first - 1 : cmdline[k] # Blank

BlankUpTo(p) == \A k \in 1 .. p : cmdline[k] = Blank

OptionInv ==
  /\ be_promisc <=> GivenUpTo(Promisc, ParsedTo)
  /\ accept_legacy <=> GivenUpTo(AcceptLegacy, ParsedTo)
  /\ phys_max_relocate = IF GivenUpTo(PhysMax, ParsedTo) THEN 256 ELSE 2048
  /\ i = 0 <=> BlankUpTo(ParsedTo)

(* The word from s up to e is a whole one. *)
WholeWord(s, e) ==
  /\ s \in Nat /\ e \in Nat /\ s < e /\ e <= Len(cmdline)
  /\ \A k \in s + 1 .. e : cmdline[k] # Blank
  /\ s > 0 => cmdline[s] = Blank
  /\ e < Len(cmdline) => cmdline[e + 1] = Blank

(* It has been cut out of the buffer. *)
TokenInv(e) ==
  /\ WholeWord(token, e)
  /\ \A k \in token .. e - 1 : buf[k] = cmdline[k + 1]
  /\ buf[e] = NUL
  /\ last_ptr = IF e = Len(cmdline) THEN Null ELSE e + 1

ParserInv ==
  /\ parsing \in {"copy", "next", "compare", "done"}
  /\ cmdline \in Cmdlines
  /\ i \in Nat /\ be_promisc \in BOOLEAN /\ accept_legacy \in BOOLEAN
  /\ parsing = "copy" =>
       i = 0 /\ ~be_promisc /\ ~accept_legacy /\ phys_max_relocate = 2048
  /\ parsing # "copy" =>
       /\ DOMAIN buf = 0 .. BufSize - 1
       /\ last_ptr \in (0 .. Len(cmdline)) \cup {Null}
       /\ last_ptr # Null =>
            /\ \A k \in last_ptr .. BufSize - 1 : buf[k] = Copied(k)
            /\ last_ptr > 0 => cmdline[last_ptr] = Blank
       /\ OptionInv
  /\ parsing = "compare" => \E e \in Nat : TokenInv(e)
  /\ parsing = "done" => last_ptr = Null

LEMMA CmdlineFacts ==
  ASSUME cmdline \in Cmdlines
  PROVE  /\ cmdline \in Seq(Chars) /\ Len(cmdline) \in Nat
         /\ DOMAIN cmdline = 1 .. Len(cmdline)
         /\ Len(cmdline) <= BufSize - 1 /\ BufSize \in Nat
         /\ \A k \in 1 .. Len(cmdline) : cmdline[k] # NUL
<1>1. cmdline \in Strings(BufSize - 1)
  BY CommandLineAssumption
<1>2. PICK l \in 0 .. BufSize - 1 : cmdline \in [1 .. l -> Chars]
  BY <1>1 DEF Strings, Chars
<1>3. cmdline \in Seq(Chars) /\ Len(cmdline) = l /\ DOMAIN cmdline = 1 .. l
  BY <1>2
<1>4. NUL \notin Chars
  BY CommandLineAssumption DEF Chars
<1> QED
  BY <1>2, <1>3, <1>4, CommandLineAssumption

(* Blanks do not make a word. *)
LEMMA BlanksPassed ==
  ASSUME cmdline \in Cmdlines, NEW p \in Nat, NEW q \in Nat, p <= q, q <= Len(cmdline),
         \A k \in p + 1 .. q : cmdline[k] = Blank
  PROVE  /\ \A name : GivenUpTo(name, q) <=> GivenUpTo(name, p)
         /\ BlankUpTo(q) <=> BlankUpTo(p)
<1>l. PICK l \in Nat : l = Len(cmdline) /\ DOMAIN cmdline = 1 .. l /\ q <= l
  BY CmdlineFacts
<1>1. \A k \in 1 .. q : k \in 1 .. p \/ k \in p + 1 .. q
  OBVIOUS
<1>2. ASSUME NEW first \in 1 .. l, NEW last \in 1 .. l, first <= last,
             IsWord(first, last), last <= q
      PROVE  last <= p
  <2>1. last \in first .. last
    BY <1>2
  <2>2. cmdline[last] # Blank
    BY <1>2, <2>1 DEF IsWord
  <2>3. last \notin p + 1 .. q
    BY <2>2
  <2> QED
    BY <1>2, <2>3
<1>3. ASSUME NEW name PROVE GivenUpTo(name, q) <=> GivenUpTo(name, p)
  <2>1. \A x \in 1 .. l : x <= p => x <= q
    OBVIOUS
  <2> QED
    BY <1>l, <1>2, <2>1, Zenon DEF GivenUpTo
<1>4. BlankUpTo(q) <=> BlankUpTo(p)
  <2>1. \A k \in 1 .. p : k \in 1 .. q
    OBVIOUS
  <2> QED
    BY <1>1, <2>1 DEF BlankUpTo
<1> QED
  BY <1>3, <1>4, ZenonT(40)

(* A whole word is one more. *)
LEMMA WordPassed ==
  ASSUME cmdline \in Cmdlines, NEW s, NEW e, WholeWord(s, e), NEW p \in Nat,
         p = IF e = Len(cmdline) THEN e ELSE e + 1
  PROVE  /\ \A name : GivenUpTo(name, p) <=>
              \/ GivenUpTo(name, s)
              \/ SubSeq(cmdline, s + 1, e) = name /\ ~BlankUpTo(s)
         /\ ~BlankUpTo(p)
<1>l. PICK l \in Nat : l = Len(cmdline) /\ DOMAIN cmdline = 1 .. l
  BY CmdlineFacts
<1>1. /\ s \in Nat /\ e \in Nat /\ s < e /\ e <= l
      /\ e <= p /\ p <= e + 1 /\ p <= l
      /\ p = e + 1 => e < l
  BY <1>l DEF WholeWord
<1>w. /\ \A k \in s + 1 .. e : cmdline[k] # Blank
      /\ s > 0 => cmdline[s] = Blank
      /\ e < l => cmdline[e + 1] = Blank
  BY <1>l DEF WholeWord
<1>2. ASSUME NEW first \in 1 .. l, NEW last \in 1 .. l, first <= last,
             IsWord(first, last), last <= p, ~(last <= s)
      PROVE  first = s + 1 /\ last = e
  <2>1. last \in first .. last
    BY <1>2
  <2>2. cmdline[last] # Blank
    BY <1>2, <2>1 DEF IsWord
  <2>3. last # e + 1
    BY <1>1, <1>2, <1>w, <2>2
  <2>4. last \in s + 1 .. e
    BY <1>1, <1>2, <2>3
  <2>5. last = e
    <3> SUFFICES ASSUME last < e PROVE FALSE
      BY <1>1, <2>4
    <3>1. last < l /\ last + 1 \in s + 1 .. e
      BY <1>1, <2>4
    <3>2. cmdline[last + 1] = Blank
      BY <1>2, <1>l, <3>1 DEF IsWord
    <3> QED
      BY <1>w, <3>1, <3>2
  <2>6. ~(first <= s)
    <3> SUFFICES ASSUME first <= s PROVE FALSE
      OBVIOUS
    <3>1. s > 0 /\ s \in first .. last
      BY <1>1, <2>4
    <3>2. cmdline[s] # Blank
      BY <1>2, <3>1 DEF IsWord
    <3> QED
      BY <1>w, <3>1, <3>2
  <2>7. ~(first > s + 1)
    <3> SUFFICES ASSUME first > s + 1 PROVE FALSE
      OBVIOUS
    <3>1. first > 1 /\ first - 1 \in s + 1 .. e
      BY <1>1, <1>2, <2>5
    <3>2. cmdline[first - 1] = Blank
      BY <1>2, <3>1 DEF IsWord
    <3> QED
      BY <1>w, <3>1, <3>2
  <2> QED
    BY <1>1, <2>5, <2>6, <2>7
<1>3. /\ s + 1 \in 1 .. l /\ e \in 1 .. l /\ s + 1 <= e
      /\ e <= p /\ ~(e <= s) /\ (s + 1) - 1 = s
  BY <1>1
<1>4. IsWord(s + 1, e)
  <2>1. s + 1 > 1 => s > 0
    BY <1>1
  <2>2. s + 1 > 1 => cmdline[(s + 1) - 1] = Blank
    BY <1>w, <1>3, <2>1, Zenon
  <2>3. e < Len(cmdline) => cmdline[e + 1] = Blank
    BY <1>l, <1>w, Zenon
  <2> QED
    BY <1>w, <2>2, <2>3 DEF IsWord
<1>5. ASSUME NEW name
      PROVE  GivenUpTo(name, p) <=>
               \/ GivenUpTo(name, s)
               \/ SubSeq(cmdline, s + 1, e) = name /\ ~BlankUpTo(s)
  <2>1. ASSUME GivenUpTo(name, p), ~GivenUpTo(name, s)
        PROVE  SubSeq(cmdline, s + 1, e) = name /\ ~BlankUpTo(s)
    <3>1. PICK first \in 1 .. l, last \in 1 .. l :
            /\ first <= last /\ last <= p /\ IsWord(first, last)
            /\ SubSeq(cmdline, first, last) = name
            /\ \E k \in 1 .. first - 1 : cmdline[k] # Blank
      BY <1>l, <2>1, Zenon DEF GivenUpTo
    <3>2. ~(last <= s)
      BY <1>l, <2>1, <3>1, Zenon DEF GivenUpTo
    <3>3. first = s + 1 /\ last = e
      BY <1>2, <3>1, <3>2, Zenon
    <3>4. first - 1 = s
      BY <1>1, <3>3
    <3> QED
      BY <3>1, <3>3, <3>4, Zenon DEF BlankUpTo
  <2>2. ASSUME GivenUpTo(name, s) PROVE GivenUpTo(name, p)
    <3>1. \A x \in 1 .. l : x <= s => x <= p
      BY <1>1
    <3> QED
      BY <1>l, <2>2, <3>1, Zenon DEF GivenUpTo
  <2>3. ASSUME SubSeq(cmdline, s + 1, e) = name, ~BlankUpTo(s)
        PROVE  GivenUpTo(name, p)
    <3>1. \E k \in 1 .. (s + 1) - 1 : cmdline[k] # Blank
      BY <1>3, <2>3, Zenon DEF BlankUpTo
    <3>2. s + 1 \in DOMAIN cmdline /\ e \in DOMAIN cmdline
      BY <1>l, <1>3, Zenon
    <3>3. /\ s + 1 <= e /\ e <= p /\ IsWord(s + 1, e)
          /\ SubSeq(cmdline, s + 1, e) = name
      BY <1>3, <1>4, <2>3, Zenon
    <3> SUFFICES \E first, last \in DOMAIN cmdline :
                   /\ first <= last /\ last <= p /\ IsWord(first, last)
                   /\ SubSeq(cmdline, first, last) = name
                   /\ \E k \in 1 .. first - 1 : cmdline[k] # Blank
      BY DEF GivenUpTo
    <3> USE <3>2
    <3> WITNESS s + 1 \in DOMAIN cmdline, e \in DOMAIN cmdline
    <3> QED
      BY <3>1, <3>3, Zenon
  <2> QED
    BY <2>1, <2>2, <2>3
<1>6. ~BlankUpTo(p)
  <2>1. e \in 1 .. p /\ e \in s + 1 .. e
    BY <1>1
  <2> QED
    BY <1>w, <2>1, Zenon DEF BlankUpTo
<1> QED
  BY <1>5, <1>6, ZenonT(40)

LEMMA MinIsLeast ==
  ASSUME NEW T, T \subseteq Nat, T # {}
  PROVE  Min(T) \in T /\ \A y \in T : Min(T) <= y
BY LeastNumber, Zenon DEF Min

(* strtok_r passes over blanks only. *)
LEMMA TokenStartFacts ==
  ASSUME ParserInv, parsing = "next", last_ptr # Null,
         NEW t, t = TokenStart(last_ptr)
  PROVE  /\ t \in last_ptr .. Len(cmdline) /\ last_ptr \in Nat /\ t \in Nat
         /\ \A k \in last_ptr + 1 .. t : cmdline[k] = Blank
         /\ buf[t] # NUL <=> t < Len(cmdline)
         /\ t < Len(cmdline) => cmdline[t + 1] # Blank
<1>l. PICK l \in Nat, z \in Nat :
        l = Len(cmdline) /\ z = BufSize /\ l <= z - 1
  <2>1. cmdline \in Cmdlines
    BY DEF ParserInv
  <2> QED
    BY <2>1, CmdlineFacts
<1>1. PICK s \in 0 .. l : s = last_ptr /\ \A k \in s .. z - 1 : buf[k] = Copied(k)
  <2>1. parsing # "copy"
    OBVIOUS
  <2>2. /\ last_ptr \in (0 .. Len(cmdline)) \cup {Null}
        /\ \A k \in last_ptr .. BufSize - 1 : buf[k] = Copied(k)
    BY <2>1, Zenon DEF ParserInv
  <2>3. last_ptr \in 0 .. l
    BY <1>l, <2>2
  <2> QED
    BY <1>l, <2>2, <2>3, Zenon
<1>2. /\ \A k \in s .. l - 1 : buf[k] = cmdline[k + 1]
      /\ buf[l] = NUL
  <2>1. \A k \in s .. l - 1 : k \in s .. z - 1 /\ k < l
    BY <1>l
  <2>2. l \in s .. z - 1 /\ ~(l < l)
    BY <1>l
  <2> QED
    BY <1>l, <1>1, <2>1, <2>2 DEF Copied
<1>3. PICK T : T = { k \in s .. z - 1 : buf[k] # Blank }
  OBVIOUS
<1>4. l \in T /\ T \subseteq Nat
  BY <1>l, <1>2, <1>3, CommandLineAssumption
<1>5. t = Min(T)
  BY <1>l, <1>1, <1>3 DEF TokenStart
<1>6. t \in T /\ \A y \in T : t <= y
  BY <1>4, <1>5, MinIsLeast
<1>7. t \in s .. l /\ buf[t] # Blank
  BY <1>3, <1>4, <1>6
<1>8. \A k \in s .. t - 1 : cmdline[k + 1] = Blank
  <2> SUFFICES ASSUME NEW k \in s .. t - 1 PROVE cmdline[k + 1] = Blank
    OBVIOUS
  <2>1. k \in s .. z - 1 /\ k \in s .. l - 1 /\ ~(t <= k)
    BY <1>l, <1>7
  <2> QED
    BY <1>2, <1>3, <1>6, <2>1
<1>9. \A k \in s + 1 .. t : cmdline[k] = Blank
  <2> SUFFICES ASSUME NEW k \in s + 1 .. t PROVE cmdline[k] = Blank
    OBVIOUS
  <2>1. k - 1 \in s .. t - 1 /\ (k - 1) + 1 = k
    BY <1>7
  <2> QED
    BY <1>8, <2>1
<1>10. ASSUME t < l PROVE buf[t] # NUL /\ cmdline[t + 1] # Blank
  <2>1. t \in s .. l - 1 /\ t + 1 \in 1 .. l
    BY <1>7, <1>10
  <2>2. buf[t] = cmdline[t + 1]
    BY <1>2, <2>1
  <2>3. cmdline[t + 1] # NUL
    BY <1>l, <2>1, CmdlineFacts DEF ParserInv
  <2> QED
    BY <1>7, <2>2, <2>3
<1>11. ~(t < l) => t = l
  BY <1>7
<1> QED
  BY <1>l, <1>1, <1>2, <1>7, <1>9, <1>10, <1>11, SMTT(40)

(* It stops at the blank behind a word, or at the end. *)
LEMMA TokenEndFacts ==
  ASSUME ParserInv, parsing = "next", last_ptr # Null,
         NEW t, t = TokenStart(last_ptr), t < Len(cmdline), NEW e, e = TokenEnd(t)
  PROVE  /\ WholeWord(t, e)
         /\ buf[e] = NUL <=> e = Len(cmdline)
         /\ \A k \in t .. e - 1 : buf[k] = cmdline[k + 1]
         /\ e \in 0 .. BufSize - 1
<1>l. PICK l \in Nat, z \in Nat :
        l = Len(cmdline) /\ z = BufSize /\ l <= z - 1
  <2>1. cmdline \in Cmdlines
    BY DEF ParserInv
  <2> QED
    BY <2>1, CmdlineFacts
<1>1. PICK s \in 0 .. l : s = last_ptr /\ \A k \in s .. z - 1 : buf[k] = Copied(k)
  <2>1. parsing # "copy"
    OBVIOUS
  <2>2. /\ last_ptr \in (0 .. Len(cmdline)) \cup {Null}
        /\ \A k \in last_ptr .. BufSize - 1 : buf[k] = Copied(k)
    BY <2>1, Zenon DEF ParserInv
  <2>3. last_ptr \in 0 .. l
    BY <1>l, <2>2
  <2> QED
    BY <1>l, <2>2, <2>3, Zenon
<1>t. /\ t \in Nat /\ s <= t /\ t < l
      /\ \A k \in s + 1 .. t : cmdline[k] = Blank
      /\ cmdline[t + 1] # Blank
  BY <1>l, <1>1, TokenStartFacts
<1>2. /\ \A k \in s .. l - 1 : buf[k] = cmdline[k + 1]
      /\ buf[l] = NUL
  <2>1. \A k \in s .. l - 1 : k \in s .. z - 1 /\ k < l
    BY <1>l
  <2>2. l \in s .. z - 1 /\ ~(l < l)
    BY <1>l
  <2> QED
    BY <1>l, <1>1, <2>1, <2>2 DEF Copied
<1>3. PICK T : T = { k \in t .. z - 1 : buf[k] \in {Blank, NUL} }
  OBVIOUS
<1>4. l \in T /\ T \subseteq Nat
  BY <1>l, <1>t, <1>2, <1>3
<1>5. e = Min(T)
  BY <1>l, <1>3 DEF TokenEnd
<1>6. e \in T /\ \A y \in T : e <= y
  BY <1>4, <1>5, MinIsLeast
<1>7. e \in t .. l /\ buf[e] \in {Blank, NUL}
  BY <1>3, <1>4, <1>6
<1>n. ASSUME NEW k \in t .. l - 1
      PROVE  buf[k] = cmdline[k + 1] /\ cmdline[k + 1] # NUL
  <2>1. k \in s .. l - 1 /\ k + 1 \in 1 .. l
    BY <1>t
  <2> QED
    BY <1>l, <1>2, <2>1, CmdlineFacts DEF ParserInv
<1>8. e > t
  <2>1. t \in t .. l - 1
    BY <1>t
  <2>2. buf[t] \notin {Blank, NUL}
    BY <1>n, <1>t, <2>1
  <2> QED
    BY <1>t, <1>7, <2>2
<1>9. \A k \in t .. e - 1 : buf[k] = cmdline[k + 1] /\ cmdline[k + 1] # Blank
  <2> SUFFICES ASSUME NEW k \in t .. e - 1
               PROVE  buf[k] = cmdline[k + 1] /\ cmdline[k + 1] # Blank
    OBVIOUS
  <2>1. k \in t .. z - 1 /\ k \in t .. l - 1 /\ ~(e <= k)
    BY <1>l, <1>7
  <2> QED
    BY <1>n, <1>3, <1>6, <2>1
<1>10. \A k \in t + 1 .. e : cmdline[k] # Blank
  <2> SUFFICES ASSUME NEW k \in t + 1 .. e PROVE cmdline[k] # Blank
    OBVIOUS
  <2>1. k - 1 \in t .. e - 1 /\ (k - 1) + 1 = k
    BY <1>t, <1>7
  <2> QED
    BY <1>9, <2>1
<1>11. ASSUME e < l PROVE cmdline[e + 1] = Blank /\ buf[e] # NUL
  <2>1. e \in t .. l - 1
    BY <1>7, <1>11
  <2> QED
    BY <1>n, <1>7, <2>1
<1>12. t > 0 => cmdline[t] = Blank
  <2>1. CASE t = s
    BY <1>1, <2>1 DEF ParserInv
  <2>2. CASE t # s
    <3>1. t \in s + 1 .. t
      BY <1>t, <2>2
    <3> QED
      BY <1>t, <3>1
  <2> QED
    BY <2>1, <2>2
<1>13. WholeWord(t, e)
  <2>1. e \in Nat /\ t < e /\ e <= l
    BY <1>t, <1>7, <1>8
  <2> QED
    BY <1>l, <1>t, <1>10, <1>11, <1>12, <2>1 DEF WholeWord
<1>14. e # l => e < l
  BY <1>7
<1>15. e \in 0 .. z - 1
  BY <1>l, <1>7, <1>t, SMTT(40)
<1> QED
  BY <1>l, <1>2, <1>9, <1>11, <1>13, <1>14, <1>15, SMTT(40)

(* The string at the token is the word. *)
LEMMA StringIsWord ==
  ASSUME ParserInv, parsing = "compare", NEW e \in Nat, TokenInv(e)
  PROVE  String(token) = SubSeq(cmdline, token + 1, e)
<1>l. PICK l \in Nat, z \in Nat :
        l = Len(cmdline) /\ z = BufSize /\ l <= z - 1
  <2>1. cmdline \in Cmdlines
    BY DEF ParserInv
  <2> QED
    BY <2>1, CmdlineFacts
<1>1. PICK t \in Nat : t = token /\ t < e /\ e <= l
  BY <1>l DEF TokenInv, WholeWord
<1>2. \A k \in t .. e - 1 : buf[k] = cmdline[k + 1] /\ buf[k] # NUL
  <2> SUFFICES ASSUME NEW k \in t .. e - 1
               PROVE  buf[k] = cmdline[k + 1] /\ buf[k] # NUL
    OBVIOUS
  <2>1. k + 1 \in 1 .. l
    BY <1>1
  <2> QED
    BY <1>l, <1>1, <2>1, CmdlineFacts DEF ParserInv, TokenInv
<1>3. PICK T : T = { k \in t .. z - 1 : buf[k] = NUL }
  OBVIOUS
<1>4. e \in T /\ T \subseteq Nat
  BY <1>l, <1>1, <1>3 DEF TokenInv
<1>5. Min(T) \in T /\ \A y \in T : Min(T) <= y
  BY <1>4, MinIsLeast
<1>6. Min(T) = e
  <2>1. PICK m \in Nat : m = Min(T)
    BY <1>4, <1>5
  <2>2. m \in t .. z - 1 /\ buf[m] = NUL /\ m <= e
    BY <1>3, <1>4, <1>5, <2>1
  <2>3. m \notin t .. e - 1
    BY <1>2, <2>2
  <2> QED
    BY <2>1, <2>2, <2>3
<1>7. String(token) = [k \in 1 .. e - t |-> buf[t + k - 1]]
  BY <1>l, <1>1, <1>3, <1>6 DEF String
<1>8. \A k \in 1 .. e - t : buf[t + k - 1] = cmdline[(t + 1) + k - 1]
  <2> SUFFICES ASSUME NEW k \in 1 .. e - t
               PROVE  buf[t + k - 1] = cmdline[(t + 1) + k - 1]
    OBVIOUS
  <2>1. t + k - 1 \in t .. e - 1 /\ (t + k - 1) + 1 = (t + 1) + k - 1
    BY <1>1
  <2> QED
    BY <1>2, <2>1
<1>9. SubSeq(cmdline, t + 1, e) = [k \in 1 .. e - t |-> cmdline[(t + 1) + k - 1]]
  <2>1. \A k \in t + 1 .. e : cmdline[k] \in Chars
    BY <1>l, <1>1, CmdlineFacts DEF ParserInv
  <2>2. PICK word : word = SubSeq(cmdline, t + 1, e)
    OBVIOUS
  <2>3. /\ word \in Seq(Chars)
        /\ Len(word) = IF t + 1 <= e THEN e - (t + 1) + 1 ELSE 0
        /\ \A k \in 1 .. e - (t + 1) + 1 : word[k] = cmdline[(t + 1) + k - 1]
    BY <1>1, <2>1, <2>2, SubSeqProperties
  <2>4. t + 1 <= e /\ e - (t + 1) + 1 = e - t
    BY <1>1
  <2> QED
    BY <2>2, <2>3, <2>4
<1>10. [k \in 1 .. e - t |-> buf[t + k - 1]] = [k \in 1 .. e - t |-> cmdline[(t + 1) + k - 1]]
  BY <1>8
<1> QED
  BY <1>1, <1>7, <1>9, <1>10, ZenonT(40)

LEMMA SameWords ==
  ASSUME UNCHANGED cmdline
  PROVE  /\ \A name, p : GivenUpTo(name, p)' = GivenUpTo(name, p)
         /\ \A p : BlankUpTo(p)' = BlankUpTo(p)
         /\ \A k : Copied(k)' = Copied(k)
         /\ \A s, e : WholeWord(s, e)' = WholeWord(s, e)
BY DEF GivenUpTo, IsWord, BlankUpTo, Copied, WholeWord

(* Where the words are that have been compared. *)
LEMMA ParsedToFacts ==
  ASSUME ParserInv, parsing # "copy"
  PROVE  ParsedTo \in Nat /\ ParsedTo <= Len(cmdline)
<1>l. PICK l \in Nat : l = Len(cmdline)
  BY CmdlineFacts DEF ParserInv
<1>1. CASE parsing = "compare"
  <2>1. PICK e \in Nat : TokenInv(e)
    BY <1>1 DEF ParserInv
  <2>2. token \in Nat /\ token < e /\ e <= l
    BY <1>l, <2>1 DEF TokenInv, WholeWord
  <2> QED
    BY <1>1, <1>l, <2>2 DEF ParsedTo
<1>2. CASE parsing # "compare"
  <2>1. last_ptr \in 0 .. l \/ last_ptr = Null
    BY <1>l DEF ParserInv
  <2> QED
    BY <1>2, <1>l, <2>1 DEF ParsedTo
<1> QED
  BY <1>1, <1>2, ZenonT(40)

LEMMA CopyInv ==
  ASSUME ParserInv, CopyCmdline
  PROVE  ParserInv'
<1>1. /\ parsing = "copy" /\ buf' = Strncpy(cmdline, BufSize) /\ last_ptr' = 0
      /\ parsing' = "next" /\ UNCHANGED <<cmdline, token, i, options>>
  BY DEF CopyCmdline
<1>2. /\ cmdline \in Cmdlines /\ i = 0 /\ ~be_promisc /\ ~accept_legacy
      /\ phys_max_relocate = 2048
      /\ i \in Nat /\ be_promisc \in BOOLEAN /\ accept_legacy \in BOOLEAN
  BY <1>1 DEF ParserInv
<1>3. /\ DOMAIN buf' = 0 .. BufSize - 1
      /\ \A k \in 0 .. BufSize - 1 : buf'[k] = Copied(k)
  BY <1>1 DEF Strncpy, Copied
<1>4. ParsedTo' = 0
  <2>1. Null # 0
    BY CommandLineAssumption
  <2> QED
    BY <1>1, <2>1 DEF ParsedTo
<1>5. \A name : ~GivenUpTo(name, 0)
  <2> SUFFICES ASSUME NEW name, GivenUpTo(name, 0) PROVE FALSE
    OBVIOUS
  <2>1. PICK last \in DOMAIN cmdline : last <= 0
    BY DEF GivenUpTo
  <2> QED
    BY <1>2, <2>1, CmdlineFacts
<1>6. BlankUpTo(0)
  BY DEF BlankUpTo
<1>7. OptionInv'
  BY <1>1, <1>2, <1>4, <1>5, <1>6, SameWords DEF OptionInv, options
<1>8. 0 \in 0 .. Len(cmdline)
  BY <1>2, CmdlineFacts
<1>9. last_ptr' # Null => \A k \in last_ptr' .. BufSize - 1 : buf'[k] = Copied(k)'
  BY <1>1, <1>3, SameWords
<1> QED
  BY <1>1, <1>2, <1>3, <1>7, <1>8, <1>9 DEF ParserInv, options

LEMMA NoTokenInv ==
  ASSUME ParserInv, NoToken
  PROVE  ParserInv'
<1>1. /\ parsing = "next" /\ ~HasToken /\ last_ptr' = Null /\ parsing' = "done"
      /\ UNCHANGED <<cmdline, buf, i, options>>
  BY DEF NoToken
<1>2. ParsedTo' = Len(cmdline)
  BY <1>1 DEF ParsedTo
<1>3. /\ \A name : GivenUpTo(name, Len(cmdline)) <=> GivenUpTo(name, ParsedTo)
      /\ BlankUpTo(Len(cmdline)) <=> BlankUpTo(ParsedTo)
  <2>1. CASE last_ptr = Null
    BY <1>1, <2>1 DEF ParsedTo
  <2>2. CASE last_ptr # Null
    <3>1. PICK t : t = TokenStart(last_ptr)
      OBVIOUS
    <3>2. buf[t] = NUL
      BY <1>1, <2>2, <3>1 DEF HasToken
    <3>3. t = Len(cmdline) /\ t \in Nat /\ last_ptr \in Nat /\ last_ptr <= t
      <4>1. PICK l \in Nat : l = Len(cmdline)
        <5>1. cmdline \in Cmdlines
          BY DEF ParserInv
        <5> QED
          BY <5>1, CmdlineFacts
      <4>2. t \in last_ptr .. l /\ last_ptr \in Nat /\ t \in Nat /\ ~(t < l)
        BY <1>1, <2>2, <3>1, <3>2, <4>1, TokenStartFacts
      <4> QED
        BY <4>1, <4>2, SMTT(40)
    <3>4. \A k \in last_ptr + 1 .. t : cmdline[k] = Blank
      BY <1>1, <2>2, <3>1, TokenStartFacts
    <3>5. cmdline \in Cmdlines /\ ParsedTo = last_ptr
      BY <1>1, <2>2 DEF ParsedTo, ParserInv
    <3> QED
      BY <3>3, <3>4, <3>5, BlanksPassed
  <2> QED
    BY <2>1, <2>2
<1>4. OptionInv'
  BY <1>1, <1>2, <1>3, SameWords DEF ParserInv, OptionInv, options
<1> QED
  BY <1>1, <1>4 DEF ParserInv, options

LEMMA NextTokenInv ==
  ASSUME ParserInv, NextToken
  PROVE  ParserInv'
<1>1. /\ parsing = "next" /\ HasToken /\ token' = TokenStart(last_ptr) /\ parsing' = "compare"
      /\ UNCHANGED <<cmdline, i, options>>
  BY DEF NextToken
<1>2. PICK e : /\ e = TokenEnd(token')
               /\ IF buf[e] = NUL
                    THEN last_ptr' = Null /\ UNCHANGED buf
                    ELSE last_ptr' = e + 1 /\ buf' = [buf EXCEPT ![e] = NUL]
  BY DEF NextToken
<1>c. cmdline \in Cmdlines /\ DOMAIN buf = 0 .. BufSize - 1 /\ OptionInv
  BY <1>1, SMTT(40) DEF ParserInv
<1>l. PICK l \in Nat, z \in Nat : l = Len(cmdline) /\ z = BufSize /\ l <= z - 1
  BY <1>c, CmdlineFacts
<1>3. PICK s \in Nat, t \in Nat :
        /\ s = last_ptr /\ t = token' /\ last_ptr # Null /\ buf[t] # NUL
        /\ s <= t /\ t < l
        /\ \A k \in s + 1 .. t : cmdline[k] = Blank
  <2>1. last_ptr # Null /\ buf[token'] # NUL
    BY <1>1 DEF HasToken
  <2> QED
    BY <1>1, <1>l, <2>1, TokenStartFacts
<1>4. /\ WholeWord(t, e)
      /\ buf[e] = NUL <=> e = l
      /\ \A k \in t .. e - 1 : buf[k] = cmdline[k + 1]
      /\ e \in 0 .. z - 1 /\ e \in Nat /\ t < e /\ e <= l
  <2>1. /\ WholeWord(t, e)
        /\ buf[e] = NUL <=> e = l
        /\ \A k \in t .. e - 1 : buf[k] = cmdline[k + 1]
        /\ e \in 0 .. z - 1
    BY <1>1, <1>2, <1>3, <1>l, TokenEndFacts
  <2>2. e \in Nat /\ t < e /\ e <= l
    BY <1>l, <2>1 DEF WholeWord
  <2> QED
    BY <2>1, <2>2
<1>5. /\ \A k \in t .. e - 1 : buf'[k] = buf[k]
      /\ buf'[e] = NUL
      /\ DOMAIN buf' = 0 .. BufSize - 1
      /\ \A k \in e + 1 .. z - 1 : buf'[k] = buf[k]
  <2>1. CASE buf[e] = NUL
    BY <1>2, <1>c, <2>1
  <2>2. CASE buf[e] # NUL
    <3>1. buf' = [buf EXCEPT ![e] = NUL]
      BY <1>2, <2>2
    <3>2. \A k \in t .. e - 1 : k # e
      BY <1>4
    <3>3. \A k \in e + 1 .. z - 1 : k # e
      BY <1>4
    <3>4. e \in DOMAIN buf
      BY <1>4, <1>l, <1>c
    <3>5. \A k : k # e => buf'[k] = buf[k]
      BY <3>1
    <3>6. DOMAIN buf' = DOMAIN buf /\ buf'[e] = NUL
      BY <3>1, <3>4
    <3> QED
      BY <1>c, <3>2, <3>3, <3>5, <3>6
  <2> QED
    BY <2>1, <2>2
<1>6. last_ptr' = IF e = l THEN Null ELSE e + 1
  BY <1>2, <1>4
<1>7. TokenInv(e)'
  BY <1>1, <1>3, <1>4, <1>5, <1>6, <1>l, SameWords DEF TokenInv
<1>8. /\ \A name : GivenUpTo(name, t) <=> GivenUpTo(name, s)
      /\ BlankUpTo(t) <=> BlankUpTo(s)
  <2>1. t <= Len(cmdline)
    BY <1>3, <1>l
  <2> QED
    BY <1>3, <1>c, <2>1, BlanksPassed
<1>9. OptionInv'
  <2>1. ParsedTo = s /\ ParsedTo' = t
    BY <1>1, <1>3 DEF ParsedTo
  <2> QED
    BY <1>1, <1>8, <1>c, <2>1, SameWords DEF OptionInv, options
<1>10. last_ptr' \in (0 .. Len(cmdline)) \cup {Null}
  <2>1. e # l => e + 1 \in 0 .. l
    BY <1>4
  <2> QED
    BY <1>6, <1>l, <2>1
<1>11. ASSUME last_ptr' # Null
       PROVE  /\ \A k \in last_ptr' .. BufSize - 1 : buf'[k] = Copied(k)'
              /\ last_ptr' > 0 => cmdline'[last_ptr'] = Blank
  <2>1. last_ptr' = e + 1 /\ e < l
    BY <1>4, <1>6, <1>11
  <2>2. ASSUME NEW k \in e + 1 .. z - 1 PROVE buf'[k] = Copied(k)'
    <3>1. k \in s .. z - 1
      BY <1>3, <1>4
    <3>2. buf[k] = Copied(k)
      <4>1. \A x \in last_ptr .. BufSize - 1 : buf[x] = Copied(x)
        <5>1. parsing # "copy"
          BY <1>1
        <5> QED
          BY <1>3, <5>1, Zenon DEF ParserInv
      <4> QED
        BY <1>3, <1>l, <3>1, <4>1
    <3> QED
      BY <1>1, <1>5, <3>2, SameWords
  <2>3. cmdline[e + 1] = Blank
    BY <1>4, <1>l, <2>1 DEF WholeWord
  <2> QED
    BY <1>1, <1>l, <2>1, <2>2, <2>3
<1>12. /\ cmdline' \in Cmdlines /\ i' \in Nat /\ be_promisc' \in BOOLEAN
       /\ accept_legacy' \in BOOLEAN
  BY <1>1 DEF ParserInv, options
<1>13. Len(cmdline') = Len(cmdline)
  BY <1>1
<1> QED
  BY <1>1, <1>4, <1>5, <1>7, <1>9, <1>10, <1>11, <1>12, <1>13 DEF ParserInv

LEMMA CompareInv ==
  ASSUME ParserInv, Compare
  PROVE  ParserInv'
<1>1. /\ parsing = "compare" /\ parsing' = "next"
      /\ be_promisc' = (be_promisc \/ Names(Promisc))
      /\ accept_legacy' = (accept_legacy \/ Names(AcceptLegacy))
      /\ phys_max_relocate' = IF Names(PhysMax) THEN 256 ELSE phys_max_relocate
      /\ i' = i + 1
      /\ UNCHANGED <<cmdline, buf, last_ptr, token>>
  BY DEF Compare
<1>c. /\ cmdline \in Cmdlines /\ OptionInv /\ i \in Nat
      /\ be_promisc \in BOOLEAN /\ accept_legacy \in BOOLEAN
  BY <1>1 DEF ParserInv
<1>2. PICK e \in Nat : TokenInv(e)
  BY <1>1 DEF ParserInv
<1>l. PICK l \in Nat, p \in Nat :
        l = Len(cmdline) /\ e <= l /\ p = IF e = l THEN e ELSE e + 1
  <2>1. Len(cmdline) \in Nat
    BY <1>c, CmdlineFacts
  <2>2. e <= Len(cmdline)
    BY <1>2 DEF TokenInv, WholeWord
  <2> QED
    BY <2>1, <2>2
<1>3. ParsedTo = token /\ ParsedTo' = p
  <2>1. /\ last_ptr = IF e = l THEN Null ELSE e + 1
        /\ e # l => last_ptr # Null
    <3>1. last_ptr = IF e = l THEN Null ELSE e + 1
      BY <1>2, <1>l DEF TokenInv
    <3>2. e # l => e + 1 \in 0 .. BufSize - 1
      BY <1>c, <1>l, CmdlineFacts
    <3> QED
      BY <3>1, <3>2, CommandLineAssumption
  <2>2. last_ptr' = last_ptr /\ Len(cmdline)' = l
    BY <1>1, <1>l
  <2> QED
    BY <1>1, <1>l, <2>1, <2>2 DEF ParsedTo
<1>4. /\ \A name : GivenUpTo(name, p) <=>
           \/ GivenUpTo(name, token)
           \/ SubSeq(cmdline, token + 1, e) = name /\ ~BlankUpTo(token)
      /\ ~BlankUpTo(p)
  <2>1. WholeWord(token, e)
    BY <1>2 DEF TokenInv
  <2> QED
    BY <1>c, <1>l, <2>1, WordPassed
<1>5. \A name : GivenUpTo(name, p) <=> GivenUpTo(name, token) \/ Names(name)
  <2>1. String(token) = SubSeq(cmdline, token + 1, e)
    BY <1>1, <1>2, StringIsWord
  <2>2. i # 0 <=> ~BlankUpTo(token)
    BY <1>3, <1>c DEF OptionInv
  <2> QED
    BY <1>4, <2>1, <2>2 DEF Names
<1>6. OptionInv'
  <2>1. i' # 0
    BY <1>1, <1>c
  <2>2. /\ \A name : GivenUpTo(name, p)' = GivenUpTo(name, p)
        /\ ~BlankUpTo(p)'
    BY <1>1, <1>4, SameWords
  <2>3. /\ be_promisc <=> GivenUpTo(Promisc, token)
        /\ accept_legacy <=> GivenUpTo(AcceptLegacy, token)
        /\ phys_max_relocate = IF GivenUpTo(PhysMax, token) THEN 256 ELSE 2048
    BY <1>3, <1>c DEF OptionInv
  <2>4. /\ be_promisc' <=> GivenUpTo(Promisc, p)
        /\ accept_legacy' <=> GivenUpTo(AcceptLegacy, p)
    BY <1>1, <1>5, <2>3
  <2>5. phys_max_relocate' = IF GivenUpTo(PhysMax, p) THEN 256 ELSE 2048
    BY <1>1, <1>5, <2>3
  <2> QED
    BY <1>3, <2>1, <2>2, <2>4, <2>5 DEF OptionInv
<1>7. i' \in Nat /\ be_promisc' \in BOOLEAN /\ accept_legacy' \in BOOLEAN
  BY <1>1, <1>c DEF Names
<1>8. \A k : Copied(k)' = Copied(k)
  BY <1>1, SameWords
<1> QED
  BY <1>1, <1>6, <1>7, <1>8 DEF ParserInv

LEMMA ParserStutter ==
  ASSUME ParserInv, UNCHANGED parserVars
  PROVE  ParserInv'
<1>1. UNCHANGED <<parsing, cmdline, buf, last_ptr, token, i, be_promisc, accept_legacy,
                  phys_max_relocate>>
  BY DEF parserVars, options
<1>2. OptionInv' = OptionInv
  BY <1>1, SameWords DEF OptionInv, ParsedTo
<1>3. \A e : TokenInv(e)' = TokenInv(e)
  BY <1>1, SameWords DEF TokenInv
<1>4. \A k : Copied(k)' = Copied(k)
  BY <1>1, SameWords
<1> QED
  BY <1>1, <1>2, <1>3, <1>4 DEF ParserInv

LEMMA ParserInvHolds == Spec => []ParserInv
<1>1. Init => ParserInv
  <2> SUFFICES ASSUME Init PROVE ParserInv
    OBVIOUS
  <2>1. /\ parsing = "copy" /\ cmdline \in Cmdlines /\ i = 0
        /\ be_promisc = FALSE /\ accept_legacy = FALSE /\ phys_max_relocate = 2048
    BY DEF Init, CommandLineInit
  <2> QED
    BY <2>1 DEF ParserInv
<1>2. ParserInv /\ [Next]_vars => ParserInv'
  <2> SUFFICES ASSUME ParserInv, [Next]_vars PROVE ParserInv'
    OBVIOUS
  <2>1. CASE ParseCmdline
    BY <2>1, CopyInv, NoTokenInv, NextTokenInv, CompareInv DEF ParseCmdline, ParseStep
  <2>2. CASE ~ParseCmdline
    <3>1. UNCHANGED parserVars
      BY <2>2 DEF Next, Step, RefuseLoader, CmdlineParsed, SkipSearch, StartSearch, PassAbsent,
        TakeMatching, PassOther, FinishSearch, NoIoBar, NoPorts, PatchBda, BootNext,
        vars
    <3> QED
      BY <3>1, ParserStutter
  <2> QED
    BY <2>1, <2>2
<1> QED
  BY <1>1, <1>2, PTL DEF Spec

(* An option is on exactly if it is a whole word of the command line that  *)
(* is not the first one: strncpy, strtok_r and strcmp as they are used in  *)
(* parse_cmdline, for any line that fits the buffer (bender.c:35-49).      *)
THEOREM OptionsAreExactHolds == Spec => []OptionsAreExact
<1>1. ParserInv => OptionsAreExact
  <2> SUFFICES ASSUME ParserInv, parsing = "done"
               PROVE  /\ be_promisc = Given(Promisc)
                      /\ accept_legacy = Given(AcceptLegacy)
                      /\ phys_max_relocate = IF Given(PhysMax) THEN 256 ELSE 2048
    BY DEF OptionsAreExact
  <2>1. cmdline \in Cmdlines /\ OptionInv /\ ParsedTo = Len(cmdline)
    BY DEF ParserInv, ParsedTo
  <2>2. \A last \in DOMAIN cmdline : last <= Len(cmdline)
    BY <2>1, CmdlineFacts
  <2>3. \A name : Given(name) = GivenUpTo(name, Len(cmdline))
    BY <2>2, Zenon DEF Given, GivenUpTo
  <2>4. be_promisc \in BOOLEAN /\ accept_legacy \in BOOLEAN
    BY DEF ParserInv
  <2>5. /\ be_promisc <=> Given(Promisc)
        /\ accept_legacy <=> Given(AcceptLegacy)
        /\ phys_max_relocate = IF Given(PhysMax) THEN 256 ELSE 2048
    BY <2>1, <2>3 DEF OptionInv
  <2>6. Given(Promisc) \in BOOLEAN /\ Given(AcceptLegacy) \in BOOLEAN
    BY DEF Given
  <2> QED
    BY <2>4, <2>5, <2>6
<1> QED
  BY <1>1, ParserInvHolds, PTL

-----------------------------------------------------------------------------
(* Amy. *)

(* Amy's addresses among those that the iterator has returned. *)
ControllersIn(q) == { a \in { q[k] : k \in DOMAIN q } : NamesPort(config[a]) }

PortsNamedBy(addresses) ==
  [k \in DOMAIN InOrder(addresses) |-> NamedPort(config[InOrder(addresses)[k]])]

(* The ports that the first entries of the data area name. *)
LegacyEntry(k) ==
  LET entry == com_port[k - 1] IN IF entry # 0 /\ entry % 8 = 0 THEN <<entry>> ELSE <<>>

LegacyUpTo(n) == FlattenSeq([k \in 1 .. n |-> LegacyEntry(k)])

Legacy == {"start", "exit", "legacy", "init_legacy", "announce_legacy", "disable_legacy"}
OnBus == {"pci", "init_pci", "announce_pci", "disable_pci", "halt"}
ToAnnounce == {"announce_legacy", "announce_pci"}

AmyTypeOK ==
  /\ amy_pc \in Legacy \cup OnBus
  /\ com_port \in [0 .. 3 -> Int] /\ com \in 0 .. 4 /\ port \in Int
  /\ probed \in Seq(Int)
  /\ enabled \in BOOLEAN

(* The ports set up, with the one to be set up next, are those named by    *)
(* what probe_legacy and the iterator have passed.                         *)
ProbedInv ==
  /\ amy_pc \in Legacy => returned = <<>>
  /\ amy_pc \in OnBus => com = 4
  /\ InOrder(ControllersIn(returned)) \in Seq(ControllersIn(returned))
  /\ LegacyUpTo(com) \o PortsNamedBy(ControllersIn(returned))
       = IF amy_pc \in {"init_legacy", "init_pci"} THEN Append(probed, port) ELSE probed

(* Output is enabled only on a port that has still to be announced, or     *)
(* just was.                                                               *)
ShownInv ==
  /\ amy_pc \in ToAnnounce =>
       /\ enabled /\ base = port
       /\ \E q \in Seq(Int) : probed = Append(q, port) /\ shown = Announcements(q)
  /\ amy_pc \notin ToAnnounce => shown = Announcements(probed)
  /\ amy_pc \notin ToAnnounce \cup {"disable_legacy", "disable_pci"} => ~enabled

HaltInv == amy_pc = "halt" => NoMoreDevices

AmyInv == AmyTypeOK /\ ProbedInv /\ ShownInv

(* A larger address becomes the last. *)
LEMMA InOrderAppend ==
  ASSUME NEW C, IsFiniteSet(C), C \subseteq Addresses, NEW a \in Addresses,
         \A b \in C : Before(b, a), InOrder(C) \in Seq(C)
  PROVE  /\ InOrder(C \cup {a}) = Append(InOrder(C), a)
         /\ InOrder(C \cup {a}) \in Seq(C \cup {a})
<1>b. \A x, y \in Addresses : Before(x, y) => ~Before(y, x) /\ x # y
  BY DEF Before, Addresses
<1>1. a \notin C /\ \A b \in C : ~Before(a, b)
  BY <1>b
<1>n. PICK n \in Nat : n = Cardinality(C)
  BY FS_CardinalityType
<1>2. Cardinality(C \cup {a}) = n + 1
  BY <1>1, <1>n, FS_AddElement
<1> DEFINE Below(x, S) == { b \in S : Before(b, x) }
           Nth(S, k) == CHOOSE x \in S : Cardinality(Below(x, S)) = k - 1
           D == C \cup {a}
<1>3. \A x \in C : Below(x, D) = Below(x, C)
  BY <1>1
<1>4. Below(a, D) = C
  <2>1. ~Before(a, a)
    BY <1>b
  <2> QED
    BY <2>1
<1>5. ASSUME NEW x \in C
      PROVE  Cardinality(Below(x, C)) < n
  <2>1. Below(x, C) \subseteq C /\ Below(x, C) # C
    <3>1. ~Before(x, x)
      BY <1>b
    <3> QED
      BY <3>1
  <2> HIDE DEF Below
  <2>2. /\ Cardinality(Below(x, C)) <= n /\ Cardinality(Below(x, C)) \in Nat
        /\ Cardinality(Below(x, C)) # n
    BY <1>n, <2>1, FS_Subset, FS_CardinalityType
  <2> QED
    BY <2>2
<1> HIDE DEF Below
<1>6. ASSUME NEW k \in 1 .. n PROVE Nth(D, k) = Nth(C, k)
  <2>1. \A x : x \in D /\ Cardinality(Below(x, D)) = k - 1
                 <=> x \in C /\ Cardinality(Below(x, C)) = k - 1
    <3>1. Cardinality(Below(a, D)) # k - 1
      BY <1>4, <1>n
    <3>2. \A x : x \in D <=> x \in C \/ x = a
      OBVIOUS
    <3> HIDE DEF D
    <3> QED
      BY <1>1, <1>3, <3>1, <3>2, ZenonT(40)
  <2> QED
    BY <2>1
<1>7. Nth(D, n + 1) = a
  <2>1. \A x : x \in D /\ Cardinality(Below(x, D)) = (n + 1) - 1 <=> x = a
    <3>1. Cardinality(Below(a, D)) = (n + 1) - 1
      BY <1>4, <1>n
    <3>2. \A x : x \in D <=> x \in C \/ x = a
      OBVIOUS
    <3>3. \A x \in C : Cardinality(Below(x, C)) # (n + 1) - 1
      BY <1>5
    <3> HIDE DEF D
    <3> QED
      BY <1>1, <1>3, <3>1, <3>2, <3>3, ZenonT(40)
  <2> QED
    BY <2>1
<1>8. \A S : InOrder(S) = [k \in 1 .. Cardinality(S) |-> Nth(S, k)]
  BY DEF InOrder, Below
<1> HIDE DEF Nth, D
<1>9. InOrder(D) = [k \in 1 .. n + 1 |-> Nth(D, k)]
  BY <1>2, <1>8 DEF D
<1>10. InOrder(C) = [k \in 1 .. n |-> Nth(C, k)]
  BY <1>n, <1>8
<1>11. Len(InOrder(C)) = n /\ \A k \in 1 .. n : Nth(C, k) \in C
  <2>1. DOMAIN InOrder(C) = 1 .. n /\ \A k \in 1 .. n : InOrder(C)[k] = Nth(C, k)
    BY <1>10
  <2> QED
    BY <2>1
<1>12. Append(InOrder(C), a) = [k \in 1 .. n + 1 |-> IF k = n + 1 THEN a ELSE Nth(C, k)]
  BY <1>10, <1>11
<1>13. InOrder(D) = Append(InOrder(C), a)
  BY <1>6, <1>7, <1>9, <1>12
<1>14. Append(InOrder(C), a) \in Seq(C \cup {a})
  <2>1. InOrder(C) \in Seq(C \cup {a})
    BY <1>10, <1>11
  <2> QED
    BY <2>1
<1> QED
  BY <1>13, <1>14 DEF D

LEMMA LegacyNext ==
  ASSUME com_port \in [0 .. 3 -> Int], NEW n \in 0 .. 3
  PROVE  /\ LegacyUpTo(n) \in Seq(Int)
         /\ LegacyUpTo(n + 1) = LegacyUpTo(n) \o LegacyEntry(n + 1)
         /\ LegacyUpTo(n + 1) \in Seq(Int)
<1> DEFINE q(m) == [k \in 1 .. m |-> LegacyEntry(k)]
<1>1. \A k \in 1 .. 4 : LegacyEntry(k) \in Seq(Int)
  BY DEF LegacyEntry
<1> HIDE DEF LegacyEntry
<1>2. /\ q(n) \in Seq(Seq(Int)) /\ LegacyEntry(n + 1) \in Seq(Int)
      /\ q(n + 1) = Append(q(n), LegacyEntry(n + 1))
  <2>1. q(n) = [k \in 1 .. n |-> LegacyEntry(k)]
    OBVIOUS
  <2>2. q(n + 1) = [k \in 1 .. n + 1 |-> LegacyEntry(k)]
    OBVIOUS
  <2>3. n + 1 \in 1 .. 4 /\ \A k \in 1 .. n : k \in 1 .. 4
    OBVIOUS
  <2> HIDE DEF q
  <2>n. n \in Nat
    OBVIOUS
  <2>4. q(n) \in Seq(Seq(Int)) /\ Len(q(n)) = n
    BY <1>1, <2>n, <2>1, <2>3
  <2>5. Append(q(n), LegacyEntry(n + 1))
          = [k \in 1 .. n + 1 |-> IF k = n + 1 THEN LegacyEntry(n + 1) ELSE q(n)[k]]
    BY <2>1, <2>4
  <2> QED
    <3>1. \A k \in 1 .. n + 1 : k # n + 1 => q(n)[k] = LegacyEntry(k)
      BY <2>1
    <3>2. q(n + 1) = Append(q(n), LegacyEntry(n + 1))
      BY <2>2, <2>5, <3>1
    <3> QED
      BY <1>1, <2>3, <2>4, <3>2
<1>3. Append(q(n), LegacyEntry(n + 1)) \in Seq(Seq(Int))
  BY <1>2
<1>4. \A m : LegacyUpTo(m) = FlattenSeq(q(m))
  BY DEF LegacyUpTo
<1> HIDE DEF q
<1> QED
  BY <1>2, <1>3, <1>4, FlattenAppend, ZenonT(40)

LEMMA LegacyEnds ==
  LegacyUpTo(0) = <<>> /\ LegacyUpTo(4) = LegacyPorts
<1>1. LegacyUpTo(4) = LegacyPorts
  BY DEF LegacyUpTo, LegacyEntry, LegacyPorts
<1>2. LegacyUpTo(0) = FlattenSeq(<<>>)
  BY DEF LegacyUpTo
<1>3. FlattenSeq(<<>>) = <<>>
  <2>1. Len(<<>>) = 0
    OBVIOUS
  <2> QED
    BY <2>1, Zenon DEF FlattenSeq
<1> QED
  BY <1>1, <1>2, <1>3

LEMMA AnnounceNext ==
  ASSUME NEW q \in Seq(Int), NEW p \in Int
  PROVE  /\ Announcements(q) \in Seq(Int \X {"probing"})
         /\ Announcements(Append(q, p)) =
              IF p \in Stuck THEN Announcements(q)
                             ELSE Append(Announcements(q), <<p, "probing">>)
<1>l. PICK n \in Nat : n = Len(q)
  OBVIOUS
<1>p. <<p, "probing">> \in Int \X {"probing"}
  OBVIOUS
<1> DEFINE each(x) == IF x \in Stuck THEN <<>> ELSE << <<x, "probing">> >>
           all(s) == [k \in DOMAIN s |-> each(s[k])]
<1>1. \A x \in Int : each(x) \in Seq(Int \X {"probing"})
  <2> SUFFICES ASSUME NEW x \in Int PROVE each(x) \in Seq(Int \X {"probing"})
    OBVIOUS
  <2>1. <<x, "probing">> \in Int \X {"probing"}
    OBVIOUS
  <2>2. \A S : \A y \in S : <<y>> \in Seq(S) /\ <<>> \in Seq(S)
    OBVIOUS
  <2>3. << <<x, "probing">> >> \in Seq(Int \X {"probing"}) /\ <<>> \in Seq(Int \X {"probing"})
    BY <2>1, <2>2
  <2> QED
    BY <2>3
<1>2. \A s : Announcements(s) = FlattenSeq(all(s))
  BY DEF Announcements
<1>n. n = Len(q) /\ DOMAIN q = 1 .. n /\ \A k \in 1 .. n : q[k] \in Int
  BY <1>l
<1>a. PICK r : r = Append(q, p)
  OBVIOUS
<1>b. DOMAIN r = 1 .. n + 1 /\ r[n + 1] = p /\ \A k \in 1 .. n : r[k] = q[k]
  BY <1>n, <1>a
<1>3. \A s, x : all(s) = [k \in DOMAIN s |-> each(s[k])]
  OBVIOUS
<1>4. /\ all(q) \in Seq(Seq(Int \X {"probing"}))
      /\ all(r) = Append(all(q), each(p))
  <2> HIDE DEF each
  <2>1. all(q) = [k \in 1 .. n |-> each(q[k])]
    BY <1>n
  <2>2. all(r) = [k \in 1 .. n + 1 |-> IF k = n + 1 THEN each(p) ELSE each(q[k])]
    BY <1>b
  <2>3. all(q) \in Seq(Seq(Int \X {"probing"})) /\ Len(all(q)) = n
    BY <1>1, <1>n, <2>1
  <2> QED
    <3>1. Append(all(q), each(p)) = [k \in 1 .. n + 1 |-> IF k = n + 1 THEN each(p) ELSE all(q)[k]]
      BY <2>1, <2>3
    <3>2. \A k \in 1 .. n + 1 : k # n + 1 => all(q)[k] = each(q[k])
      BY <2>1
    <3> HIDE DEF all
    <3> QED
      BY <2>2, <2>3, <3>1, <3>2
<1>5. /\ FlattenSeq(all(q)) \in Seq(Int \X {"probing"})
      /\ FlattenSeq(all(r)) = FlattenSeq(all(q)) \o each(p)
  <2> HIDE DEF all, each
  <2> QED
    BY <1>1, <1>4, FlattenAppend, ZenonT(40)
<1>6. Announcements(q) \in Seq(Int \X {"probing"}) /\ Announcements(r) = Announcements(q) \o each(p)
  <2> HIDE DEF all, each
  <2> QED
    BY <1>2, <1>5
<1>7. CASE p \in Stuck
  <2>1. each(p) = <<>>
    BY <1>7
  <2> HIDE DEF each
  <2> QED
    BY <1>a, <1>6, <1>7, <2>1
<1>8. CASE p \notin Stuck
  <2>1. each(p) = << <<p, "probing">> >> /\ <<p, "probing">> \in Int \X {"probing"}
    BY <1>p, <1>8
  <2> HIDE DEF each
  <2>2. \A s \in Seq(Int \X {"probing"}), x \in Int \X {"probing"} : s \o <<x>> = Append(s, x)
    OBVIOUS
  <2> QED
    BY <1>a, <1>6, <1>8, <2>1, <2>2
<1> QED
  BY <1>7, <1>8

LEMMA NamedPortIsTaken ==
  ASSUME NEW d \in PciDevice, IoBars(d) # {}
  PROVE  /\ AmyApplyQuirks(d, IoBase(d)) = NamedPort(d)
         /\ NamedPort(d) \in Int
<1> DEFINE v == d.bars[FirstIoBar(d)].value
           quirk == d.vendor_id = 7168 /\ d.device_id = 12883
<1>1. v \in Nat
  BY FirstIoBarIsIo DEF PciDevice, Bar
<1>2. IoBase(d) = (v - 1) % 65536
  BY Powers DEF IoBase
<1>3. AmyApplyQuirks(d, IoBase(d)) =
        IF LookupDevice(d).offset_c0 THEN (((v - 1) % 65536) + 192) % 65536
                                     ELSE (v - 1) % 65536
  BY <1>2, Powers DEF AmyApplyQuirks
<1>4. NamedPort(d) = IF quirk THEN ((v - 1) + 192) % 65536 ELSE ((v - 1) + 0) % 65536
  BY Powers DEF NamedPort
<1> HIDE DEF v
<1>5. /\ (((v - 1) % 65536) + 192) % 65536 = ((v - 1) + 192) % 65536
      /\ (v - 1) + 0 = v - 1
      /\ (v - 1) % 65536 \in Int /\ ((v - 1) + 192) % 65536 \in Int
  BY <1>1, ModSum
<1> QED
  BY <1>3, <1>4, <1>5, QuirkDevice

LEMMA AmyScanNext == ScanInv /\ [AmyNext]_amyAllVars => ScanInv'
<1> SUFFICES ASSUME ScanInv, [AmyNext]_amyAllVars PROVE ScanInv'
  OBVIOUS
<1>1. ASSUME UNCHANGED pciVars PROVE ScanInv'
  BY <1>1, ScanInvStutter DEF pciVars
<1>2. CASE ProbePassAbsent \/ ProbePassOther \/ TakeController
  BY <1>2, ScanInvAdvance DEF ProbePassAbsent, ProbePassOther, TakeController
<1>3. CASE Start \/ SkipLegacy \/ ProbeLegacy \/ StartPci \/ Finish \/ InitPort
           \/ Announce \/ Disable \/ UNCHANGED amyAllVars
  BY <1>1, <1>3 DEF Start, SkipLegacy, ProbeLegacy, StartPci, Finish, InitPort, Announce,
     Disable, amyAllVars
<1> QED
  BY <1>2, <1>3 DEF AmyNext, AmyStep

(* The iterator returns one function more. *)
LEMMA ControllersNext ==
  ASSUME ScanInv, InOrder(ControllersIn(returned)) \in Seq(ControllersIn(returned)),
         NextDevice
  PROVE  /\ ~NamesPort(dev') => ControllersIn(returned)' = ControllersIn(returned)
         /\ NamesPort(dev') =>
              /\ PortsNamedBy(ControllersIn(returned))'
                   = Append(PortsNamedBy(ControllersIn(returned)), NamedPort(dev'))
              /\ InOrder(ControllersIn(returned)') \in Seq(ControllersIn(returned)')
         /\ PortsNamedBy(ControllersIn(returned)) \in Seq(Int)
         /\ config' = config /\ dev' \in PciDevice
<1> DEFINE C == ControllersIn(returned)
<1>1. /\ config' = config /\ dev' = config[Here] /\ config[Here] # NoDevice
      /\ returned' = Append(returned, Here)
  BY DEF NextDevice
<1>2. /\ Here \in Addresses /\ returned \in Seq(Addresses)
      /\ config \in [Addresses -> PciDevice \cup {NoDevice}]
      /\ dev' \in PciDevice
  <2>1. Here \in Discoverable
    BY <1>1, ScanInvAdvance
  <2>2. config \in [Addresses -> PciDevice \cup {NoDevice}] /\ returned \in Seq(Addresses)
    BY DEF ScanInv, IterTypeOK
  <2>3. Here \in Addresses
    BY <2>1, <2>2 DEF Discoverable
  <2> QED
    BY <1>1, <2>2, <2>3
<1>n. PICK n \in Nat : n = Len(returned)
  BY <1>2
<1>3. /\ DOMAIN returned = 1 .. n /\ DOMAIN returned' = 1 .. n + 1
      /\ returned'[n + 1] = Here /\ \A k \in 1 .. n : returned'[k] = returned[k]
  BY <1>1, <1>2, <1>n
<1>4. { returned'[k] : k \in DOMAIN returned' } = { returned[k] : k \in DOMAIN returned } \cup {Here}
  <2>1. 1 .. n + 1 = 1 .. n \cup {n + 1}
    OBVIOUS
  <2> QED
    BY <1>3, <2>1
<1>5. /\ \A a \in C : /\ a \in Addresses /\ Before(a, Here)
                      /\ config[a] \in PciDevice /\ NamesPort(config[a])
      /\ IsFiniteSet(C)
  <2>1. { returned[k] : k \in DOMAIN returned } = { a \in Discoverable : Before(a, Here) }
    BY DEF ScanInv, ReturnedInv
  <2>2. \A a \in Discoverable : a \in Addresses /\ config[a] \in PciDevice
    BY <1>2 DEF Discoverable
  <2>3. IsFiniteSet({ returned[k] : k \in 1 .. n })
    <3> DEFINE f == [k \in 1 .. n |-> returned[k]]
    <3>1. IsFiniteSet(1 .. n)
      BY FS_Interval
    <3>2. f \in Surjection(1 .. n, { returned[k] : k \in 1 .. n })
      BY DEF Surjection
    <3> QED
      BY <3>1, <3>2, FS_Surjection
  <2>4. C \subseteq { returned[k] : k \in DOMAIN returned }
    BY DEF ControllersIn
  <2>5. IsFiniteSet(C)
    BY <1>3, <2>3, <2>4, FS_Subset
  <2>6. \A a \in C : NamesPort(config[a])
    BY DEF ControllersIn
  <2> QED
    BY <2>1, <2>2, <2>4, <2>5, <2>6
<1>6. ControllersIn(returned)' = IF NamesPort(dev') THEN C \cup {Here} ELSE C
  BY <1>1, <1>4 DEF ControllersIn
<1>7. PortsNamedBy(C) \in Seq(Int)
  <2>1. \A a \in C : NamedPort(config[a]) \in Int
    BY <1>5, NamedPortIsTaken DEF NamesPort
  <2> HIDE DEF C
  <2>2. PICK q : q = InOrder(C) /\ q \in Seq(C)
    BY DEF C
  <2>3. \A k \in DOMAIN q : NamedPort(config[q[k]]) \in Int
    BY <2>1, <2>2
  <2>4. PICK l \in Nat : l = Len(q)
    BY <2>2
  <2>5. PortsNamedBy(C) = [k \in 1 .. l |-> NamedPort(config[q[k]])] /\ DOMAIN q = 1 .. l
    BY <2>2, <2>4 DEF PortsNamedBy
  <2> QED
    BY <2>3, <2>5
<1>8. ASSUME NamesPort(dev')
      PROVE  /\ PortsNamedBy(C)' = Append(PortsNamedBy(C), NamedPort(dev'))
             /\ InOrder(C') \in Seq(C')
  <2>1. C' = C \cup {Here}
    BY <1>6, <1>8
  <2> HIDE DEF C
  <2>2. /\ InOrder(C \cup {Here}) = Append(InOrder(C), Here)
        /\ InOrder(C \cup {Here}) \in Seq(C \cup {Here})
    BY <1>2, <1>5, InOrderAppend DEF C
  <2>l. PICK l \in Nat : l = Len(InOrder(C)) /\ DOMAIN InOrder(C) = 1 .. l
    BY DEF C
  <2>3. PICK q : q = Append(InOrder(C), Here)
    OBVIOUS
  <2>4. /\ DOMAIN q = 1 .. l + 1 /\ q[l + 1] = Here
        /\ \A k \in 1 .. l : q[k] = InOrder(C)[k]
    <3>1. InOrder(C) \in Seq(C)
      BY DEF C
    <3> QED
      BY <2>l, <2>3, <3>1
  <2>5. PortsNamedBy(C)' = [k \in 1 .. l + 1 |-> NamedPort(config[q[k]])]
    <3>1. PortsNamedBy(C)' = [k \in DOMAIN q |-> NamedPort(config[q[k]])]
      <4>1. InOrder(C)' = q
        <5>1. InOrder(C)' = InOrder(C \cup {Here})
          BY <2>1 DEF InOrder
        <5> QED
          BY <2>2, <2>3, <5>1
      <4>2. PortsNamedBy(C)' = [k \in DOMAIN InOrder(C)' |-> NamedPort(config[InOrder(C)'[k]])]
        BY <1>1 DEF PortsNamedBy, NamedPort, FirstIoBar, IoBars
      <4> QED
        BY <4>1, <4>2
    <3> QED
      BY <2>4, <3>1
  <2>6. PortsNamedBy(C) = [k \in 1 .. l |-> NamedPort(config[InOrder(C)[k]])]
    BY <2>l DEF PortsNamedBy
  <2>7. Len(PortsNamedBy(C)) = l
    BY <1>7, <2>6 DEF C
  <2>8. Append(PortsNamedBy(C), NamedPort(dev'))
          = [k \in 1 .. l + 1 |-> IF k = l + 1 THEN NamedPort(dev') ELSE PortsNamedBy(C)[k]]
    BY <2>6, <2>7
  <2>9. PortsNamedBy(C)' = Append(PortsNamedBy(C), NamedPort(dev'))
    BY <1>1, <2>4, <2>5, <2>6, <2>8
  <2> QED
    BY <2>1, <2>2, <2>9
<1> QED
  BY <1>1, <1>2, <1>6, <1>7, <1>8

LEMMA NoneNamed ==
  ASSUME returned = <<>>
  PROVE  /\ PortsNamedBy(ControllersIn(returned)) = <<>>
         /\ InOrder(ControllersIn(returned)) \in Seq(ControllersIn(returned))
<1>1. DOMAIN returned = {}
  OBVIOUS
<1>2. ControllersIn(returned) = {}
  BY <1>1 DEF ControllersIn
<1>3. Cardinality({}) = 0
  BY FS_EmptySet
<1>4. InOrder({}) = <<>>
  BY <1>3 DEF InOrder
<1>5. PortsNamedBy({}) = <<>>
  BY <1>4 DEF PortsNamedBy
<1>6. <<>> \in Seq({})
  OBVIOUS
<1> QED
  BY <1>2, <1>4, <1>5, <1>6

LEMMA WordsAreInts ==
  \A n \in Int : \A f \in [0 .. 3 -> 0 .. n - 1] : f \in [0 .. 3 -> Int]
OBVIOUS

LEMMA AmyInvInit == AmyInit => AmyInv
<1> SUFFICES ASSUME AmyInit PROVE AmyInv
  OBVIOUS
<1>1. /\ amy_pc = "start" /\ com_port \in ComPorts /\ com = 0 /\ port = 0
      /\ enabled = FALSE /\ probed = <<>> /\ shown = <<>> /\ returned = <<>>
  BY DEF AmyInit, PciInit
<1>2. com_port \in [0 .. 3 -> Int]
  <2>1. com_port \in [0 .. 3 -> 0 .. 2^16 - 1]
    BY <1>1, AmyAssumption, Zenon
  <2>2. 2^16 \in Int
    BY Powers
  <2> QED
    BY <2>1, <2>2, WordsAreInts, Zenon
<1>3. AmyTypeOK
  <2>1. probed \in Seq(Int) /\ com \in 0 .. 4 /\ port \in Int
    BY <1>1
  <2> QED
    BY <1>1, <1>2, <2>1 DEF AmyTypeOK, Legacy
<1>4. ProbedInv
  <2>1. LegacyUpTo(com) = <<>> /\ PortsNamedBy(ControllersIn(returned)) = <<>>
    BY <1>1, LegacyEnds, NoneNamed
  <2>2. <<>> \o <<>> = <<>>
    OBVIOUS
  <2> QED
    BY <1>1, <2>1, <2>2, NoneNamed DEF ProbedInv, OnBus
<1>5. ShownInv
  <2>1. DOMAIN probed = {}
    BY <1>1
  <2>2. Announcements(probed) = FlattenSeq(<<>>)
    BY <2>1 DEF Announcements
  <2>3. FlattenSeq(<<>>) = <<>>
    BY LegacyEnds DEF LegacyUpTo
  <2> QED
    BY <1>1, <2>2, <2>3 DEF ShownInv, ToAnnounce
<1> QED
  BY <1>3, <1>4, <1>5 DEF AmyInv

(* What depends on the bus and the data area stays as it is with them. *)
LEMMA BusStays ==
  ASSUME UNCHANGED <<config, returned>>
  PROVE  /\ PortsNamedBy(ControllersIn(returned))' = PortsNamedBy(ControllersIn(returned))
         /\ (InOrder(ControllersIn(returned)) \in Seq(ControllersIn(returned)))'
              <=> InOrder(ControllersIn(returned)) \in Seq(ControllersIn(returned))
<1>1. ControllersIn(returned)' = ControllersIn(returned)
  BY DEF ControllersIn, NamesPort, IoBars
<1>2. InOrder(ControllersIn(returned))' = InOrder(ControllersIn(returned))
  BY <1>1 DEF InOrder, Before
<1>3. PortsNamedBy(ControllersIn(returned))' = PortsNamedBy(ControllersIn(returned))
  BY <1>2 DEF PortsNamedBy, NamedPort, FirstIoBar, IoBars
<1> QED
  BY <1>1, <1>2, <1>3

LEMMA LegacyStays ==
  ASSUME com_port' = com_port
  PROVE  \A n : LegacyUpTo(n)' = LegacyUpTo(n)
BY DEF LegacyUpTo, LegacyEntry

(* No port is set up or announced. *)
LEMMA ProbedAsBefore ==
  ASSUME AmyInv, UNCHANGED <<config, returned, com_port, com, port, probed>>,
         amy_pc \notin {"init_legacy", "init_pci"}, amy_pc' \notin {"init_legacy", "init_pci"},
         amy_pc' \in Legacy \/ amy_pc' \in OnBus,
         amy_pc' \in Legacy => amy_pc \in Legacy,
         amy_pc' \in OnBus => com = 4,
         enabled' \in BOOLEAN
  PROVE  AmyTypeOK' /\ ProbedInv'
<1>1. LegacyUpTo(com)' = LegacyUpTo(com)
  BY LegacyStays DEF LegacyUpTo, LegacyEntry
<1>2. ProbedInv'
  BY <1>1, BusStays DEF AmyInv, ProbedInv
<1> QED
  BY <1>2 DEF AmyInv, AmyTypeOK

LEMMA ShownAsBefore ==
  ASSUME AmyInv, UNCHANGED <<enabled, probed, shown>>,
         amy_pc \notin ToAnnounce \cup {"disable_legacy", "disable_pci"},
         amy_pc' \notin ToAnnounce \cup {"disable_legacy", "disable_pci"}
  PROVE  ShownInv'
BY DEF AmyInv, ShownInv, Announcements

LEMMA AmyInvNext == ScanInv /\ AmyInv /\ [AmyNext]_amyAllVars => AmyInv'
<1> SUFFICES ASSUME ScanInv, AmyInv, [AmyNext]_amyAllVars PROVE AmyInv'
  OBVIOUS
<1> DEFINE named == PortsNamedBy(ControllersIn(returned))
<1>p. ASSUME NEW message, Printf(message), ~enabled PROVE UNCHANGED <<outputVars, shown>>
  BY <1>p DEF Printf
<1>q. amy_pc \notin ToAnnounce \cup {"disable_legacy", "disable_pci"} => ~enabled
  BY DEF AmyInv, ShownInv
<1>i. ASSUME ProbedInv', AmyTypeOK', ShownInv' PROVE AmyInv'
  BY <1>i DEF AmyInv
<1>1. CASE Start \/ StartPci \/ Finish
  <2>1. ~enabled /\ UNCHANGED <<outputVars, shown>>
    BY <1>1, <1>p, <1>q DEF Start, StartPci, Finish, ToAnnounce
  <2>2. /\ UNCHANGED <<config, returned, com_port, com, port, probed, enabled, shown>>
        /\ \/ amy_pc = "start" /\ amy_pc' \in {"legacy", "exit"}
           \/ amy_pc = "legacy" /\ amy_pc' = "pci" /\ com >= 4
           \/ amy_pc = "pci" /\ amy_pc' = "halt"
    BY <1>1, <2>1 DEF Start, StartPci, Finish, pciVars, outputVars
  <2>3. amy_pc' \in OnBus => com = 4
    BY <2>2 DEF AmyInv, AmyTypeOK, ProbedInv, OnBus
  <2> QED
    BY <1>i, <2>2, <2>3, ProbedAsBefore, ShownAsBefore DEF Legacy, OnBus, ToAnnounce, AmyInv, AmyTypeOK
<1>2. CASE SkipLegacy \/ ProbeLegacy
  <2>1. ~enabled /\ UNCHANGED <<config, returned, com_port, enabled, probed, shown>>
    BY <1>2, <1>p, <1>q DEF SkipLegacy, ProbeLegacy, ToAnnounce, pciVars, outputVars
  <2>2. /\ amy_pc = "legacy" /\ com \in 0 .. 3 /\ com' = com + 1
        /\ com_port \in [0 .. 3 -> Int] /\ probed \in Seq(Int) /\ returned = <<>>
    BY <1>2 DEF SkipLegacy, ProbeLegacy, AmyInv, AmyTypeOK, ProbedInv, Legacy
  <2>3. named = <<>> /\ named' = <<>>
    BY <2>1, <2>2, NoneNamed, BusStays
  <2>4. LegacyUpTo(com) \in Seq(Int) /\ LegacyUpTo(com) = probed
    <3>1. LegacyUpTo(com) \in Seq(Int)
      BY <2>2, LegacyNext
    <3>2. LegacyUpTo(com) \o named = probed
      BY <2>2 DEF AmyInv, ProbedInv
    <3> QED
      BY <2>3, <3>1, <3>2
  <2>5. LegacyUpTo(com)' = probed \o LegacyEntry(com + 1)
    <3>1. LegacyUpTo(com)' = LegacyUpTo(com + 1)
      BY <2>1, <2>2 DEF LegacyUpTo, LegacyEntry
    <3> QED
      BY <2>2, <2>4, <3>1, LegacyNext
  <2>6. CASE SkipLegacy
    <3>1. LegacyEntry(com + 1) = <<>>
      BY <2>2, <2>6 DEF SkipLegacy, Bogus, LegacyEntry
    <3>2. LegacyUpTo(com)' \o named' = probed'
      <4>1. \A q \in Seq(Int) : (q \o <<>>) \o <<>> = q
        OBVIOUS
      <4> QED
        BY <2>1, <2>2, <2>3, <2>5, <3>1, <4>1
    <3>3. amy_pc' = "legacy" /\ port' = port
      BY <2>2, <2>6 DEF SkipLegacy
    <3>4. ProbedInv'
      BY <2>1, <2>2, <3>2, <3>3, BusStays DEF AmyInv, ProbedInv, OnBus
    <3>5. AmyTypeOK'
      BY <2>1, <2>2, <3>3 DEF AmyInv, AmyTypeOK
    <3>6. ShownInv'
      BY <2>1, <2>2, <3>3, ShownAsBefore DEF ToAnnounce
    <3> QED
      BY <1>i, <3>4, <3>5, <3>6
  <2>7. CASE ProbeLegacy
    <3>1. LegacyEntry(com + 1) = <<com_port[com]>> /\ port' = com_port[com]
          /\ port' \in Int
      BY <2>2, <2>7 DEF ProbeLegacy, Bogus, LegacyEntry
    <3>2. LegacyUpTo(com)' \o named' = Append(probed, port)'
      <4>1. LegacyUpTo(com)' = probed \o <<port'>>
        BY <2>5, <3>1
      <4>2. \A q \in Seq(Int), x \in Int : (q \o <<x>>) \o <<>> = Append(q, x)
        OBVIOUS
      <4>3. (probed \o <<port'>>) \o <<>> = Append(probed, port')
        BY <2>2, <3>1, <4>2
      <4> QED
        BY <2>1, <2>3, <4>1, <4>3
    <3>3. amy_pc' = "init_legacy"
      BY <2>7 DEF ProbeLegacy
    <3>4. ProbedInv'
      BY <2>1, <2>2, <3>2, <3>3, BusStays DEF AmyInv, ProbedInv, OnBus
    <3>5. AmyTypeOK'
      BY <2>1, <2>2, <3>1, <3>3 DEF AmyInv, AmyTypeOK, Legacy
    <3>6. ShownInv'
      BY <2>1, <2>2, <3>3, ShownAsBefore DEF ToAnnounce
    <3> QED
      BY <1>i, <3>4, <3>5, <3>6
  <2> QED
    BY <1>2, <2>6, <2>7
<1>3. CASE ProbePassAbsent
  <2>1. /\ UNCHANGED <<config, returned, com_port, com, port, probed, enabled, shown>>
        /\ amy_pc = "pci" /\ amy_pc' = "pci"
    BY <1>3 DEF ProbePassAbsent, SkipAbsent, amyVars, outputVars
  <2>2. com = 4 /\ enabled \in BOOLEAN
    BY <2>1 DEF AmyInv, AmyTypeOK, ProbedInv, OnBus
  <2> QED
    BY <1>i, <2>1, <2>2, ProbedAsBefore, ShownAsBefore DEF Legacy, OnBus, ToAnnounce
<1>4. CASE ProbePassOther \/ TakeController
  <2>1. /\ NextDevice /\ amy_pc = "pci"
        /\ ~enabled /\ UNCHANGED <<com_port, com, enabled, probed, shown>>
    BY <1>4, <1>p, <1>q DEF ProbePassOther, TakeController, ToAnnounce, amyVars, outputVars
  <2>2. /\ com = 4 /\ probed \in Seq(Int) /\ com_port \in [0 .. 3 -> Int]
        /\ InOrder(ControllersIn(returned)) \in Seq(ControllersIn(returned))
        /\ LegacyUpTo(com) \o named = probed
        /\ port \in Int
    BY <2>1 DEF AmyInv, AmyTypeOK, ProbedInv, OnBus
  <2>3. named \in Seq(Int) /\ config' = config /\ dev' \in PciDevice
    BY <2>1, <2>2, ControllersNext
  <2>4. LegacyUpTo(com)' = LegacyUpTo(com) /\ LegacyUpTo(com) \in Seq(Int)
    <3>1. LegacyUpTo(com)' = LegacyUpTo(com)
      BY <2>1 DEF LegacyUpTo, LegacyEntry
    <3>2. 3 \in 0 .. 3 /\ 3 + 1 = 4
      OBVIOUS
    <3> QED
      BY <2>2, <3>1, <3>2, LegacyNext
  <2>5. NamesPort(dev') <=> IsSerialController(dev') /\ IoBars(dev') # {}
    BY DEF NamesPort, IsSerialController, MatchesClass, PCI_CLASS_SIMPLE_COMM,
       PCI_SUBCLASS_SERIAL_CTRL, PCI_SUBCLASS_ANY
  <2>6. CASE ~NamesPort(dev')
    <3>1. amy_pc' = "pci" /\ port' = port
      BY <1>4, <2>1, <2>5, <2>6 DEF ProbePassOther, TakeController, amyVars
    <3>2. ControllersIn(returned)' = ControllersIn(returned)
      BY <2>1, <2>2, <2>6, ControllersNext
    <3>3. InOrder(ControllersIn(returned))' = InOrder(ControllersIn(returned))
      BY <3>2 DEF InOrder, Before
    <3>4. named' = named
      <4>1. config' = config
        BY <2>3
      <4> QED
        BY <3>3, <4>1 DEF PortsNamedBy, NamedPort, FirstIoBar, IoBars
    <3>5. ProbedInv'
      BY <2>1, <2>2, <2>4, <3>1, <3>2, <3>3, <3>4 DEF ProbedInv, Legacy, OnBus
    <3>6. AmyTypeOK'
      BY <2>1, <3>1 DEF AmyInv, AmyTypeOK
    <3>7. ShownInv'
      BY <2>1, <3>1, ShownAsBefore DEF ToAnnounce
    <3> QED
      BY <1>i, <3>5, <3>6, <3>7
  <2>7. CASE NamesPort(dev')
    <3>1. amy_pc' = "init_pci" /\ port' = NamedPort(dev') /\ port' \in Int
      <4>1. TakeController /\ IoBars(dev') # {}
        BY <1>4, <2>5, <2>7 DEF ProbePassOther
      <4>2. amy_pc' = "init_pci" /\ port' = AmyApplyQuirks(dev', IoBase(dev'))
        BY <4>1 DEF TakeController
      <4> QED
        BY <2>3, <4>1, <4>2, NamedPortIsTaken
    <3>2. named' = Append(named, port')
          /\ (InOrder(ControllersIn(returned)) \in Seq(ControllersIn(returned)))'
      BY <2>1, <2>2, <2>7, <3>1, ControllersNext
    <3>3. LegacyUpTo(com) \o Append(named, port') = Append(LegacyUpTo(com) \o named, port')
      <4> HIDE DEF named
      <4> QED
        BY <2>3, <2>4, <3>1
    <3>4. ProbedInv'
      BY <2>1, <2>2, <2>4, <3>1, <3>2, <3>3 DEF ProbedInv, Legacy, OnBus
    <3>5. AmyTypeOK'
      BY <2>1, <3>1 DEF AmyInv, AmyTypeOK, OnBus
    <3>6. ShownInv'
      BY <2>1, <3>1, ShownAsBefore DEF ToAnnounce
    <3> QED
      BY <1>i, <3>4, <3>5, <3>6
  <2> QED
    BY <2>6, <2>7
<1>5. CASE InitPort
  <2>1. /\ UNCHANGED <<config, returned, com_port, com, port, shown>>
        /\ enabled' = TRUE /\ base' = port /\ probed' = Append(probed, port)
        /\ \/ amy_pc = "init_legacy" /\ amy_pc' = "announce_legacy"
           \/ amy_pc = "init_pci" /\ amy_pc' = "announce_pci"
    BY <1>5 DEF InitPort, pciVars
  <2>2. probed \in Seq(Int) /\ port \in Int
    BY DEF AmyInv, AmyTypeOK
  <2>3. LegacyUpTo(com)' = LegacyUpTo(com)
    BY <2>1 DEF LegacyUpTo, LegacyEntry
  <2>4. LegacyUpTo(com) \o named = Append(probed, port)
    BY <2>1 DEF AmyInv, ProbedInv
  <2>5. ProbedInv'
    BY <2>1, <2>3, <2>4, BusStays DEF AmyInv, ProbedInv, Legacy, OnBus
  <2>6. AmyTypeOK'
    BY <2>1, <2>2 DEF AmyInv, AmyTypeOK, Legacy, OnBus
  <2>7. shown = Announcements(probed)
    BY <2>1 DEF AmyInv, ShownInv, ToAnnounce
  <2>8. ShownInv'
    BY <2>1, <2>2, <2>7 DEF ShownInv, ToAnnounce
  <2> QED
    BY <1>i, <2>5, <2>6, <2>8
<1>6. CASE Announce
  <2>1. /\ UNCHANGED <<config, returned, com_port, com, port>>
        /\ \/ amy_pc = "announce_legacy" /\ amy_pc' = "disable_legacy"
           \/ amy_pc = "announce_pci" /\ amy_pc' = "disable_pci"
        /\ Printf("probing")
    BY <1>6 DEF Announce, pciVars
  <2>2. /\ enabled /\ base = port
        /\ \E q \in Seq(Int) : probed = Append(q, port) /\ shown = Announcements(q)
    BY <2>1 DEF AmyInv, ShownInv, ToAnnounce
  <2>3. PICK q \in Seq(Int) : probed = Append(q, port) /\ shown = Announcements(q)
    BY <2>2
  <2>4. /\ shown' = IF port \in Stuck THEN shown ELSE Append(shown, <<port, "probing">>)
        /\ enabled' \in BOOLEAN /\ probed' = probed
    BY <2>1, <2>2 DEF Printf
  <2>5. port \in Int
    BY DEF AmyInv, AmyTypeOK
  <2>6. shown' = Announcements(probed')
    BY <2>3, <2>4, <2>5, AnnounceNext
  <2>7. ShownInv'
    BY <2>1, <2>6 DEF ShownInv, ToAnnounce
  <2>8. amy_pc' \in OnBus => com = 4
    BY <2>1 DEF AmyInv, ProbedInv, OnBus
  <2>9. AmyTypeOK' /\ ProbedInv'
    BY <2>1, <2>4, <2>8, ProbedAsBefore DEF Legacy, OnBus
  <2> QED
    BY <1>i, <2>7, <2>9
<1>7. CASE Disable
  <2>1. /\ UNCHANGED <<config, returned, com_port, com, port, probed, shown>>
        /\ \/ amy_pc = "disable_legacy" /\ amy_pc' = "legacy"
           \/ amy_pc = "disable_pci" /\ amy_pc' = "pci"
        /\ enabled' = FALSE
    BY <1>7 DEF Disable, pciVars
  <2>2. shown = Announcements(probed)
    BY <2>1 DEF AmyInv, ShownInv, ToAnnounce
  <2>3. ShownInv'
    BY <2>1, <2>2 DEF ShownInv, ToAnnounce, Announcements
  <2>4. amy_pc' \in OnBus => com = 4
    BY <2>1 DEF AmyInv, ProbedInv, OnBus
  <2>5. AmyTypeOK' /\ ProbedInv'
    BY <2>1, <2>4, ProbedAsBefore DEF Legacy, OnBus
  <2> QED
    BY <1>i, <2>3, <2>5
<1>8. CASE UNCHANGED amyAllVars
  <2>1. UNCHANGED <<config, returned, amy_pc, com_port, com, port, enabled, base, probed, shown>>
    BY <1>8 DEF amyAllVars, pciVars, amyVars, outputVars
  <2>2. LegacyUpTo(com)' = LegacyUpTo(com)
    BY <2>1 DEF LegacyUpTo, LegacyEntry
  <2>3. ProbedInv'
    BY <2>1, <2>2, BusStays DEF AmyInv, ProbedInv
  <2>4. AmyTypeOK'
    BY <2>1 DEF AmyInv, AmyTypeOK
  <2>5. ShownInv'
    BY <2>1 DEF AmyInv, ShownInv, Announcements
  <2> QED
    BY <1>i, <2>3, <2>4, <2>5
<1> QED
  BY <1>1, <1>2, <1>3, <1>4, <1>5, <1>6, <1>7, <1>8 DEF AmyNext, AmyStep

LEMMA HaltInvNext == HaltInv /\ [AmyNext]_amyAllVars => HaltInv'
BY DEF HaltInv, NoMoreDevices, AmyNext, AmyStep, Start, SkipLegacy, ProbeLegacy, StartPci,
   ProbePassAbsent, ProbePassOther, TakeController, Finish, InitPort, Announce, Disable,
   amyAllVars, pciVars, amyVars

(* At the end every port named by the data area or a controller has been   *)
(* set up, in order, and at any time what is seen is the announcement of   *)
(* each port that works (amy.c:28-33, 66-71).                              *)
THEOREM EachPortIsAnnouncedHolds == AmySpec => []EachPortIsAnnounced
<1>1. AmyInit => ScanInv /\ AmyInv /\ HaltInv
  BY ScanInvInit, AmyInvInit DEF AmyInit, HaltInv
<1>2. (ScanInv /\ AmyInv /\ HaltInv) /\ [AmyNext]_amyAllVars => (ScanInv /\ AmyInv /\ HaltInv)'
  BY AmyScanNext, AmyInvNext, HaltInvNext
<1>3. ScanInv /\ AmyInv /\ HaltInv => EachPortIsAnnounced
  <2> SUFFICES ASSUME ScanInv, AmyInv, HaltInv PROVE EachPortIsAnnounced
    OBVIOUS
  <2>1. ASSUME amy_pc \in {"halt", "exit", "legacy", "pci"}
        PROVE  shown = Announcements(probed)
    BY <2>1 DEF AmyInv, ShownInv, ToAnnounce
  <2>2. ASSUME amy_pc = "halt" PROVE probed = LegacyPorts \o ControllerPorts
    <3>1. probed = LegacyPorts \o PortsNamedBy(ControllersIn(returned))
      BY <2>2, LegacyEnds DEF AmyInv, ProbedInv, OnBus
    <3>2. { returned[k] : k \in DOMAIN returned } = Discoverable
      <4>1. \A a \in Discoverable : Before(a, Here)
        <5>1. iter.bus_device = BusDevices
          BY <2>2, PciAssumption DEF HaltInv, NoMoreDevices, ScanInv, IterTypeOK
        <5> QED
          BY <5>1, AllBefore DEF ScanInv
      <4> QED
        BY <4>1 DEF ScanInv, ReturnedInv
    <3>3. ControllersIn(returned) = { a \in Discoverable : NamesPort(config[a]) }
      BY <3>2 DEF ControllersIn
    <3>4. PortsNamedBy(ControllersIn(returned)) = ControllerPorts
      BY <3>3 DEF PortsNamedBy, ControllerPorts
    <3> QED
      BY <3>1, <3>4
  <2> QED
    BY <2>1, <2>2 DEF EachPortIsAnnounced
<1> QED
  BY <1>1, <1>2, <1>3, PTL DEF AmySpec

-----------------------------------------------------------------------------
(* Basic performance measurement. *)

(* Each call of the round has left its time in its place. *)
MeasuredUpTo(n) == \A t \in 0 .. n - 1 : results[t] = took[Tries + t + 1] % Word

(* As many calls have been made as w and j say, and what results holds of  *)
(* the second round is what the calls behind those of the first took.      *)
PerfInv ==
  /\ at \in Nat /\ w \in 0 .. 2 /\ j \in 0 .. Tries - 1 /\ retries \in 0 .. MaxRetries
  /\ results \in [0 .. Tries - 1 -> 0 .. Word - 1]
  /\ took \in Seq(Nat) /\ \E S : printed \in Seq(S)
  /\ w = 0 => Len(took) = j
  /\ w = 1 => Len(took) = Tries + j /\ MeasuredUpTo(j)
  /\ w = 2 => Len(took) = Tries + Tries /\ j = 0 /\ MeasuredUpTo(Tries)
  /\ w > 0 \/ j > 0 => at \in 1 .. Tests
  /\ at = 0 => Len(printed) = 0
  /\ at \in 1 .. Tests => Len(printed) = at - 1

LEMMA PerfConstants ==
  /\ Tests \in Nat \ {0} /\ Tries \in Nat \ {0} /\ Word \in Nat \ {0}
  /\ MaxRetries \in Nat /\ Durations \subseteq Nat /\ Precision \in Nat \ {0}
BY BasicPerfAssumption

LEMMA PerfDivision ==
  ASSUME NEW n \in Nat \ {0}
  PROVE  \A x \in Int : /\ x \div n \in Int
                       /\ x = (x \div n) * n + (x % n)
                       /\ x % n \in 0 .. n - 1
OBVIOUS

LEMMA NextTry ==
  ASSUME NEW n \in Nat \ {0}, NEW k \in 0 .. n - 1
  PROVE  (k + 1) % n = IF k + 1 = n THEN 0 ELSE k + 1
<1> DEFINE q == (k + 1) \div n
           r == (k + 1) % n
<1>1. q \in Int /\ r \in 0 .. n - 1 /\ k + 1 = q * n + r
  BY PerfDivision
<1> HIDE DEF q, r
<1>2. /\ 0 * n = 0 /\ 1 * n = n /\ 2 * n = n + n /\ -1 * n = -n
      /\ \A a, b \in Int : a <= b => a * n <= b * n
  OBVIOUS
<1>3. q \in {0, 1}
  <2>1. ~(q <= -1)
    <3> SUFFICES ASSUME q <= -1 PROVE FALSE
      OBVIOUS
    <3>1. q * n <= -1 * n
      BY <1>1, <1>2
    <3> QED
      BY <1>1, <1>2, <3>1
  <2>2. ~(2 <= q)
    <3> SUFFICES ASSUME 2 <= q PROVE FALSE
      OBVIOUS
    <3>1. 2 * n <= q * n
      BY <1>1, <1>2
    <3> QED
      BY <1>1, <1>2, <3>1
  <2> QED
    BY <1>1, <2>1, <2>2
<1>4. CASE q = 0
  BY <1>1, <1>2, <1>4 DEF r
<1>5. CASE q = 1
  <2>1. k + 1 = n + r
    BY <1>1, <1>2, <1>5
  <2>2. k + 1 = n /\ r = 0
    BY <1>1, <2>1
  <2> QED
    BY <2>2 DEF r
<1> QED
  BY <1>3, <1>4, <1>5

LEMMA SmallRemainder ==
  ASSUME NEW n \in Nat \ {0}, NEW x \in 0 .. n - 1
  PROVE  x % n = x
<1>1. CASE x = 0
  <2>1. 0 = 0 * n + 0
    OBVIOUS
  <2> QED
    BY <1>1, <2>1, PerfDivision
<1>2. CASE x # 0
  BY <1>2, NextTry
<1> QED
  BY <1>1, <1>2

LEMMA PerfInvInit == PerfInit => PerfInv
<1> SUFFICES ASSUME PerfInit PROVE PerfInv
  OBVIOUS
<1>1. /\ at = 0 /\ w = 0 /\ j = 0 /\ retries = 0
      /\ results = [t \in 0 .. Tries - 1 |-> 0]
      /\ printed = <<>> /\ took = <<>>
  BY DEF PerfInit
<1>2. results \in [0 .. Tries - 1 -> 0 .. Word - 1]
  BY <1>1, BasicPerfAssumption
<1>3. printed \in Seq({}) /\ took \in Seq(Nat) /\ Len(took) = 0
  BY <1>1
<1> QED
  BY <1>1, <1>2, <1>3, BasicPerfAssumption DEF PerfInv

LEMMA PerfInvTry == ASSUME PerfInv, Try PROVE PerfInv'
<1>1. /\ at \in 1 .. Tests /\ w \in {0, 1}
      /\ at' = at /\ retries' = retries /\ printed' = printed
      /\ j' = (j + 1) % Tries
      /\ w' = IF j' = 0 THEN w + 1 ELSE w
  BY DEF Try, PerfInv
<1>2. PICK d \in Durations : /\ results' = [results EXCEPT ![j] = d % Word]
                             /\ took' = Append(took, d)
  BY DEF Try
<1>3. /\ at \in Nat /\ j \in 0 .. Tries - 1 /\ retries \in 0 .. MaxRetries
      /\ results \in [0 .. Tries - 1 -> 0 .. Word - 1]
      /\ took \in Seq(Nat)
      /\ w = 0 => Len(took) = j
      /\ w = 1 => Len(took) = Tries + j /\ MeasuredUpTo(j)
  BY <1>1 DEF PerfInv
<1>p. /\ \E S : printed' \in Seq(S)
      /\ at' # 0 /\ (at' \in 1 .. Tests => Len(printed') = at' - 1)
  BY <1>1 DEF PerfInv
<1>c. Tries \in Nat \ {0} /\ Tries - 1 \in Nat
  BY PerfConstants
<1>4. j' = IF j + 1 = Tries THEN 0 ELSE j + 1
  BY <1>1, <1>3, <1>c, NextTry
<1>5. d \in Nat /\ d % Word \in 0 .. Word - 1
  <2>1. d \in Int /\ d \in Nat
    BY <1>2, PerfConstants
  <2> QED
    BY <2>1, PerfConstants, PerfDivision
<1>6. /\ took' \in Seq(Nat) /\ Len(took') = Len(took) + 1
      /\ took'[Len(took) + 1] = d
      /\ \A t \in 1 .. Len(took) : took'[t] = took[t]
  BY <1>2, <1>3, <1>5
<1>6a. PICK l \in Nat : l = Len(took) /\ Len(took') = l + 1
  BY <1>3, <1>6
<1>6b. (w = 0 => l = j) /\ (w = 1 => l = Tries + j)
  BY <1>3, <1>6a
<1>6c. took'[l + 1] = d /\ \A t \in 1 .. l : took'[t] = took[t]
  BY <1>6, <1>6a
<1>7. results' \in [0 .. Tries - 1 -> 0 .. Word - 1]
  BY <1>2, <1>3, <1>5
<1>8. ASSUME w = 1 PROVE \A t \in 0 .. j : results'[t] = took'[Tries + t + 1] % Word
  <2> SUFFICES ASSUME NEW t \in 0 .. j PROVE results'[t] = took'[Tries + t + 1] % Word
    OBVIOUS
  <2>1. CASE t = j
    <3>1. results'[j] = d % Word
      BY <1>2, <1>3
    <3>2. Tries + t + 1 = l + 1
      BY <1>6b, <1>8, <2>1
    <3> QED
      BY <1>6c, <2>1, <3>1, <3>2
  <2>2. CASE t # j
    <3>1. t \in 0 .. j - 1 /\ Tries + t + 1 \in 1 .. l
      BY <1>3, <1>6b, <1>8, <1>c, <2>2
    <3>2. results[t] = took[Tries + t + 1] % Word
      BY <1>3, <1>8, <3>1 DEF MeasuredUpTo
    <3>3. results'[t] = results[t]
      BY <1>2, <1>3, <2>2, <3>1
    <3>4. took'[Tries + t + 1] = took[Tries + t + 1]
      BY <1>6c, <3>1
    <3> QED
      BY <3>2, <3>3, <3>4
  <2> QED
    BY <2>1, <2>2
<1>9. ASSUME w' = 1 PROVE Len(took') = Tries + j' /\ MeasuredUpTo(j)'
  <2>1. CASE w = 0
    <3>1. j + 1 = Tries /\ j' = 0
      BY <1>1, <1>3, <1>4, <1>9, <2>1
    <3> QED
      BY <1>6a, <1>6b, <2>1, <3>1 DEF MeasuredUpTo
  <2>2. CASE w = 1
    <3>1. j' = j + 1
      BY <1>1, <1>4, <1>9, <2>2
    <3>2. Len(took') = Tries + j'
      <4>1. j \in Int /\ Len(took') = l + 1 /\ l = Tries + j
        BY <1>3, <1>6a, <1>6b, <2>2
      <4> QED
        BY <1>c, <3>1, <4>1
    <3>3. 0 .. j' - 1 = 0 .. j
      BY <1>3, <3>1
    <3>4. MeasuredUpTo(j)'
      BY <1>8, <2>2, <3>3, Zenon DEF MeasuredUpTo
    <3> QED
      BY <3>2, <3>4
  <2> QED
    BY <1>1, <2>1, <2>2
<1>10. ASSUME w' = 2 PROVE Len(took') = Tries + Tries /\ j' = 0 /\ MeasuredUpTo(Tries)'
  <2>1. w = 1 /\ j + 1 = Tries /\ j' = 0 /\ Tries - 1 = j
    BY <1>1, <1>3, <1>4, <1>10, <1>c, SMTT(40)
  <2>2. MeasuredUpTo(Tries)'
    BY <1>8, <2>1, Zenon DEF MeasuredUpTo
  <2> QED
    BY <1>3, <1>6a, <1>6b, <1>c, <2>1, <2>2
<1>11. ASSUME w' = 0 PROVE Len(took') = j'
  <2>1. w = 0 /\ j' = j + 1
    BY <1>1, <1>3, <1>4, <1>11
  <2> QED
    BY <1>6a, <1>6b, <2>1
<1>12. w' \in 0 .. 2 /\ j' \in 0 .. Tries - 1
  BY <1>1, <1>3, <1>4, <1>c
<1> QED
  BY <1>1, <1>3, <1>p, <1>6, <1>7, <1>9, <1>10, <1>11, <1>12 DEF PerfInv

(* A test, or its retry, begins. *)
LEMMA PerfInvFresh ==
  ASSUME PerfInv, w' = 0, j = 0, j' = 0, results' = results, took' = <<>>,
         retries' \in 0 .. MaxRetries, at' \in Nat, \E S : printed' \in Seq(S),
         at' # 0, at' \in 1 .. Tests => Len(printed') = at' - 1
  PROVE  PerfInv'
<1>1. took' \in Seq(Nat) /\ Len(took') = 0
  OBVIOUS
<1>2. /\ results' \in [0 .. Tries - 1 -> 0 .. Word - 1]
      /\ w' \in 0 .. 2 /\ j' \in 0 .. Tries - 1
  BY DEF PerfInv
<1>3. /\ w' = 0 => Len(took') = j'
      /\ w' # 1 /\ w' # 2 /\ ~(w' > 0 \/ j' > 0)
  BY <1>1
<1> QED
  BY <1>1, <1>2, <1>3, ZenonT(40) DEF PerfInv

LEMMA PerfInvNext == PerfInv /\ [PerfNext]_perfVars => PerfInv'
<1> SUFFICES ASSUME PerfInv, [PerfNext]_perfVars PROVE PerfInv'
  OBVIOUS
<1>1. CASE PerfRefuseLoader \/ Begin
  <2>1. /\ w' = w /\ j' = j /\ retries' = retries /\ results' = results
        /\ printed' = printed /\ took' = took
        /\ at = 0 /\ at' \in {1, Tests + 1}
    BY <1>1 DEF PerfRefuseLoader, Begin
  <2> QED
    <3>1. w = 0 /\ j = 0
      BY <2>1, PerfConstants DEF PerfInv
    <3>2. /\ Len(took) = 0 /\ took \in Seq(Nat)
          /\ \E S : printed \in Seq(S)
          /\ retries \in 0 .. MaxRetries
      BY <3>1 DEF PerfInv
    <3>3. took' = <<>> /\ at' \in Nat
      BY <2>1, <3>2, PerfConstants
    <3>4. at' # 0 /\ (at' \in 1 .. Tests => Len(printed') = at' - 1)
      <4>1. Len(printed') = 0
        BY <2>1 DEF PerfInv
      <4>2. at' # 0 /\ (at' \in 1 .. Tests => at' = 1)
        BY <2>1, PerfConstants
      <4> QED
        BY <4>1, <4>2
    <3> QED
      BY <2>1, <3>1, <3>2, <3>3, <3>4, PerfInvFresh
<1>2. CASE Try
  BY <1>2, PerfInvTry
<1>3. CASE Again
  <2>1. /\ w = 2 /\ w' = 0 /\ retries < MaxRetries /\ retries' = retries + 1
        /\ took' = <<>> /\ at' = at /\ j' = j /\ results' = results /\ printed' = printed
    BY <1>3 DEF Again
  <2>2. /\ j = 0 /\ at \in Nat /\ retries \in 0 .. MaxRetries
        /\ at # 0 /\ (at \in 1 .. Tests => Len(printed) = at - 1)
        /\ \E S : printed \in Seq(S)
    BY <2>1 DEF PerfInv
  <2>3. retries' \in 0 .. MaxRetries
    BY <2>1, <2>2, PerfConstants
  <2> QED
    BY <2>1, <2>2, <2>3, PerfInvFresh, ZenonT(40)
<1>4. CASE Report
  <2>1. PICK r : /\ w = 2 /\ w' = 0 /\ retries' = 0 /\ at' = at + 1 /\ j' = j
                 /\ results' = results /\ took' = <<>> /\ printed' = Append(printed, r)
    BY <1>4 DEF Report
  <2>2. j = 0 /\ at \in 1 .. Tests /\ at \in Nat /\ Len(printed) = at - 1
    BY <2>1 DEF PerfInv
  <2>3. PICK S : printed \in Seq(S)
    BY DEF PerfInv
  <2>4. printed' \in Seq(S \cup {r}) /\ Len(printed') = Len(printed) + 1
    <3>1. printed \in Seq(S \cup {r})
      BY <2>3
    <3> QED
      BY <2>1, <3>1
  <2>5. Len(printed') = at' - 1
    BY <2>1, <2>2, <2>4
  <2>6. at' \in Nat /\ at' # 0 /\ retries' \in 0 .. MaxRetries
    BY <2>1, <2>2, PerfConstants
  <2> QED
    BY <2>1, <2>2, <2>4, <2>5, <2>6, PerfInvFresh
<1>5. CASE UNCHANGED perfVars
  BY <1>5 DEF perfVars, PerfInv, MeasuredUpTo
<1> QED
  BY <1>1, <1>2, <1>3, <1>4, <1>5 DEF PerfNext

LEMMA PerfInvHolds == PerfSpec => []PerfInv
BY PerfInvInit, PerfInvNext, PTL DEF PerfSpec

(* A number less than w times n has a quotient less than w. *)
LEMMA SmallQuotient ==
  ASSUME NEW n \in Nat \ {0}, NEW u \in Nat \ {0}, NEW m \in Int, m < u * n
  PROVE  m \div n < u
<1>1. PICK q \in Int : q = m \div n
  BY PerfDivision
<1>2. m % n \in 0 .. n - 1 /\ m = q * n + (m % n)
  BY <1>1, PerfDivision
<1>3. q * n <= m /\ q * n \in Int /\ u * n \in Int
  BY <1>2
<1>4. u <= q => u * n <= q * n
  OBVIOUS
<1> QED
  BY <1>1, <1>3, <1>4

(* The printed mean is that of a sum off by its rounding. *)
LEMMA MeanIsClose ==
  ASSUME NEW r, SumFunction(r) \in Int, NEW mean \in Means(r),
         SumFunction(r) + (SumFunction(r) \div Precision) < Word * Tries
  PROVE  /\ mean * Tries <= SumFunction(r) + (SumFunction(r) \div Precision)
         /\ SumFunction(r) - (SumFunction(r) \div Precision) < (mean + 1) * Tries
<1>1. PICK sum \in Int : sum = SumFunction(r)
  OBVIOUS
<1>2. PICK off \in Int : off = sum \div Precision
  BY PerfConstants, PerfDivision
<1>3. sum + off < Word * Tries
  BY <1>1, <1>2
<1>4. PICK m \in sum - off .. sum + off :
        mean \in IF m \div Tries < Word THEN {m \div Tries} ELSE 0 .. Word - 1
  BY <1>1, <1>2, Zenon DEF Means
<1>5. m \in Int /\ sum - off <= m /\ m <= sum + off
  BY <1>4
<1>6. m < Word * Tries
  <2>1. PICK top \in Int : top = Word * Tries
    BY PerfConstants
  <2> QED
    BY <1>3, <1>5, <2>1
<1>7. m \div Tries < Word
  BY <1>5, <1>6, PerfConstants, SmallQuotient
<1>8. mean = m \div Tries
  BY <1>4, <1>7
<1>9. mean * Tries <= m /\ m < (mean + 1) * Tries /\ mean \in Int
  <2>1. /\ mean \in Int
        /\ m = mean * Tries + (m % Tries)
        /\ m % Tries \in 0 .. Tries - 1
    BY <1>5, <1>8, PerfConstants, PerfDivision
  <2>2. mean * Tries \in Int /\ (mean + 1) * Tries = mean * Tries + Tries
    BY <2>1, PerfConstants
  <2> QED
    BY <2>1, <2>2, PerfConstants
<1>10. mean * Tries <= sum + off /\ sum - off < (mean + 1) * Tries
  <2>1. mean * Tries \in Int /\ (mean + 1) * Tries \in Int
    BY <1>9, PerfConstants
  <2> QED
    BY <1>5, <1>9, <2>1
<1> QED
  BY <1>1, <1>2, <1>10

(* What is printed of a test comes from Tries calls in a row that Tries    *)
(* others of the same test have warmed up, and figures that scatter by     *)
(* more than the rounding can hide are printed only after all retries      *)
(* (basicperf.c:65, 93).                                                   *)
THEOREM FiguresAreMeasuredHolds == PerfSpec => FiguresAreMeasured
<1> DEFINE Measured ==
      printed' # printed =>
       LET figures  == printed'[Len(printed')]
           measured == [t \in 0 .. Tries - 1 |-> took[Tries + t + 1]]
           sum      == SumFunction(measured)
           off      == sum \div Precision
       IN  /\ Len(took) = 2 * Tries
           /\ Len(printed') = at
           /\ figures.unstable => figures.retries = MaxRetries + 1
           /\ Range(measured) \subseteq 0 .. Word - 1 =>
                /\ figures.min = Min(Range(measured)) /\ figures.max = Max(Range(measured))
                /\ Deviates(measured, MaxStddev + Margin(measured)) => figures.unstable
                /\ sum + off < Word * Tries =>
                     /\ figures.mean * Tries <= sum + off
                     /\ sum - off < (figures.mean + 1) * Tries
<1>1. ASSUME PerfInv, [PerfNext]_perfVars PROVE Measured
  <2> SUFFICES ASSUME printed' # printed PROVE Measured
    OBVIOUS
  <2>1. Report
    BY <1>1 DEF PerfNext, PerfRefuseLoader, Begin, Try, Again, perfVars
  <2>2. PICK mean \in Means(results), unstable \in Verdicts(results) :
          /\ retries >= MaxRetries \/ ~unstable
          /\ printed' = Append(printed, Figures(results, mean, unstable, retries + 1))
    BY <2>1 DEF Report
  <2>3. PICK f : f = Figures(results, mean, unstable, retries + 1)
    OBVIOUS
  <2>4. /\ at \in 1 .. Tests /\ Len(printed) = at - 1
        /\ retries \in 0 .. MaxRetries
        /\ Len(took) = Tries + Tries /\ MeasuredUpTo(Tries)
        /\ results \in [0 .. Tries - 1 -> 0 .. Word - 1]
    BY <1>1, <2>1 DEF PerfInv, Report
  <2>5. PICK S : printed \in Seq(S)
    BY <1>1 DEF PerfInv
  <2>6. Len(printed') = at /\ printed'[at] = f
    <3>1. printed \in Seq(S \cup {f})
      BY <2>5
    <3> QED
      BY <2>2, <2>3, <2>4, <3>1
  <2>f. /\ f.mean = mean /\ f.unstable = unstable /\ f.retries = retries + 1
        /\ f.min = Min(Range(results)) /\ f.max = Max(Range(results))
    BY <2>3 DEF Figures
  <2>7. f.unstable => f.retries = MaxRetries + 1
    BY <2>2, <2>4, <2>f, PerfConstants
  <2> DEFINE measured == [t \in 0 .. Tries - 1 |-> took[Tries + t + 1]]
             sum      == SumFunction(measured)
             off      == sum \div Precision
  <2>8. ASSUME Range(measured) \subseteq 0 .. Word - 1 PROVE measured = results
    <3> SUFFICES ASSUME NEW t \in 0 .. Tries - 1
                 PROVE  results[t] = took[Tries + t + 1]
      BY <2>4
    <3>1. took[Tries + t + 1] \in 0 .. Word - 1
      BY <2>8 DEF Range
    <3>2. results[t] = took[Tries + t + 1] % Word
      BY <2>4 DEF MeasuredUpTo
    <3>3. PICK d : d = took[Tries + t + 1]
      OBVIOUS
    <3>4. d % Word = d
      BY <3>1, <3>3, PerfConstants, SmallRemainder
    <3> QED
      BY <3>2, <3>3, <3>4
  <2> HIDE DEF measured
  <2>9. ASSUME measured = results
        PROVE  /\ f.min = Min(Range(measured)) /\ f.max = Max(Range(measured))
               /\ Deviates(measured, MaxStddev + Margin(measured)) => f.unstable
               /\ sum + off < Word * Tries =>
                    /\ f.mean * Tries <= sum + off
                    /\ sum - off < (f.mean + 1) * Tries
    <3>1. Deviates(results, MaxStddev + Margin(results)) => unstable
      BY <2>2, Zenon DEF Verdicts
    <3>2. SumFunction(results) \in Int
      <4>1. results \in [0 .. Tries - 1 -> Int] /\ Tries - 1 \in Nat
        BY <2>4, PerfConstants
      <4> QED
        BY <4>1, SumIsInteger
    <3>3. sum = SumFunction(results) /\ off = SumFunction(results) \div Precision
      BY <2>9
    <3> HIDE DEF sum, off
    <3>4. ASSUME sum + off < Word * Tries
          PROVE  mean * Tries <= sum + off /\ sum - off < (mean + 1) * Tries
      BY <2>2, <3>2, <3>3, <3>4, MeanIsClose
    <3> QED
      BY <2>9, <2>f, <3>1, <3>4, Zenon
  <2>10. Len(took) = 2 * Tries
    BY <2>4, PerfConstants
  <2> QED
    BY <2>6, <2>7, <2>8, <2>9, <2>10, Zenon DEF measured
<1> QED
  BY <1>1, PerfInvHolds, PTL DEF PerfSpec, FiguresAreMeasured

=============================================================================
