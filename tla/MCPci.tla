------------------------------- MODULE MCPci -------------------------------
(***************************************************************************)
(* Model values for Pci: two devices with up to three functions, two bars  *)
(* per function.                                                           *)
(***************************************************************************)
EXTENDS Pci, TLC

MCBar(k, v) == [kind |-> k, value |-> v]
NoBar == MCBar("memory", 0)

MCDevice(ids, class, subclass, multi, bar0, bar1) ==
  [vendor_id |-> ids[1], device_id |-> ids[2], class |-> class,
   subclass |-> subclass, multifunction |-> multi,
   bars |-> (0 :> bar0 @@ 1 :> bar1)]

Generic == <<32902, 1>>
Ch353 == <<7168, 12883>>

(* A serial controller with one io bar; its bar is not assigned, or its    *)
(* first one is not; it has none; it has a 64-bit memory bar at 132 GiB;   *)
(* it has a memory bar in front.                                           *)
Uart(multi) == MCDevice(Generic, 7, 0, multi, MCBar("io", 1017), NoBar)
Unassigned == MCDevice(Generic, 7, 0, FALSE, NoBar, MCBar("io", 1))
HalfAssigned == MCDevice(Generic, 7, 0, FALSE, MCBar("io", 1), MCBar("io", 1017))
Mmio == MCDevice(Generic, 7, 0, FALSE, MCBar("memory", 4096), NoBar)
HighMmio == MCDevice(Generic, 7, 0, FALSE, MCBar("low", 4100), MCBar("high", 33))
MmioFirst == MCDevice(Generic, 7, 0, FALSE, MCBar("memory", 4096), MCBar("io", 745))

(* The controller of the quirk, at a port, unassigned, and at a port whose *)
(* sum with the offset is 2^16.                                            *)
Wch(v) == MCDevice(Ch353, 7, 0, FALSE, MCBar("io", v), NoBar)

Modem(multi) == MCDevice(Generic, 7, 128, multi, MCBar("io", 737), NoBar)
Other(multi) == MCDevice(Generic, 6, 0, multi, MCBar("io", 257), NoBar)

(* The three functions of one device.  Functions 1 and 2 may be there      *)
(* though function 0 does not say so, or is missing.                       *)
Slots ==
  { <<NoDevice, NoDevice, NoDevice>>, <<NoDevice, Uart(FALSE), NoDevice>>,
    <<Uart(FALSE), NoDevice, NoDevice>>, <<Uart(FALSE), Modem(TRUE), NoDevice>>,
    <<Uart(TRUE), NoDevice, Wch(33)>>, <<Other(TRUE), Uart(FALSE), Modem(FALSE)>>,
    <<Other(TRUE), NoDevice, Unassigned>>, <<Mmio, NoDevice, NoDevice>>,
    <<HighMmio, NoDevice, NoDevice>>, <<HalfAssigned, NoDevice, NoDevice>>,
    <<MmioFirst, NoDevice, NoDevice>>, <<Wch(33), NoDevice, NoDevice>>,
    <<Wch(1), NoDevice, NoDevice>>, <<Wch(65345), NoDevice, NoDevice>>,
    <<Modem(FALSE), NoDevice, NoDevice>>, <<Other(FALSE), Uart(FALSE), NoDevice>> }

MCConfigs ==
  { [a \in (0 .. 1) \X (0 .. 2) |-> IF a[1] = 0 THEN s[a[2] + 1] ELSE t[a[2] + 1]] :
      s \in Slots, t \in Slots }

=============================================================================
