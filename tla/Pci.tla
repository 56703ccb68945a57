--------------------------------- MODULE Pci ---------------------------------
(***************************************************************************)
(* The PCI bus at start-up (pci.cpp): the scan of all buses, the choice of *)
(* the USB host controller and what xhci::Initialize writes into its       *)
(* configuration space: the MSI capability, and Intel's port routing.      *)
(***************************************************************************)
EXTENDS Integers, Sequences, FiniteSets, SequencesExt

CONSTANTS
  Machines,       \* machines: <<bus, device, function>> -> a function's configuration
  BusDevices,     \* device numbers of a bus (32)
  Functions,      \* function numbers of a device (8)
  DevicesSize,    \* pci::devices.size()
  ApicId,         \* of the boot processor
  XhciVector      \* InterruptVector::kXHCI

ASSUME PciAssumption == BusDevices \in Nat /\ Functions \in Nat \ {0} /\ DevicesSize \in Nat

VARIABLES
  pci_stage,  \* "off", "scanned", "ready", or "exit" after exit(1)
  conf,       \* the machine's configuration space
  devices,    \* the table, with num_device its length
  xhc_dev,    \* the controller, or None
  mmio_base

pciVars == <<pci_stage, conf, devices, xhc_dev, mmio_base>>

None == <<>>

PciInit == pci_stage = "off" /\ conf = None /\ devices = <<>> /\ xhc_dev = None /\ mmio_base = None

-----------------------------------------------------------------------------
(* The scan *)

\* ReadVendorId returns 0xffff for a function that is not there.
IsThere(a) == a \in DOMAIN conf

\* Bit 7 of the header type; all bits are set where there is no function.
IsSingleFunctionDevice(a) == IsThere(a) /\ ~conf[a].multi

\* The operators take and return [found |-> the table so far, full |-> BOOLEAN].
RECURSIVE ScanBus(_, _)

\* A bridge's secondary bus is scanned right after the bridge itself.
ScanFunction(s, a) ==
  IF Len(s.found) = DevicesSize THEN [s EXCEPT !.full = TRUE]
  ELSE LET t == [s EXCEPT !.found = Append(@, a)]
       IN  IF conf[a].class = "bridge" THEN ScanBus(t, conf[a].secondary) ELSE t

\* Faulty variant: the first function number that is missing ends the device.
ScanUpToGap(s, bus, device) ==
  LET At(f) == <<bus, device, f>>
      UpToGap(u, f) == IF ~u.full /\ \A g \in 1 .. f : IsThere(At(g)) THEN ScanFunction(u, At(f)) ELSE u
      first == ScanFunction(s, At(0))
  IN  IF first.full \/ IsSingleFunctionDevice(At(0)) THEN first
      ELSE FoldLeft(UpToGap, first, [f \in 1 .. Functions - 1 |-> f])

ScanDevice(s, bus, device) ==
  LET At(f) == <<bus, device, f>>
      NextFunction(u, f) == IF ~u.full /\ IsThere(At(f)) THEN ScanFunction(u, At(f)) ELSE u
      first == ScanFunction(s, At(0))
  IN  IF first.full \/ IsSingleFunctionDevice(At(0)) THEN first
      ELSE FoldLeft(NextFunction, first, [f \in 1 .. Functions - 1 |-> f])

ScanBus(s, bus) ==
  LET NextDevice(u, d) == IF ~u.full /\ IsThere(<<bus, d, 0>>) THEN ScanDevice(u, bus, d) ELSE u
  IN  FoldLeft(NextDevice, s, [i \in 1 .. BusDevices |-> i - 1])

\* A host bridge with several functions has a bus for each of them.
ScanAllBus ==
  LET NextHost(u, f) == IF ~u.full /\ IsThere(<<0, 0, f>>) THEN ScanBus(u, f) ELSE u
      nothing == [found |-> <<>>, full |-> FALSE]
  IN  IF IsSingleFunctionDevice(<<0, 0, 0>>) THEN ScanBus(nothing, 0)
      ELSE FoldLeft(NextHost, nothing, [i \in 1 .. Functions |-> i - 1])

PowerOn ==
  /\ pci_stage = "off"
  /\ conf' \in Machines /\ pci_stage' = "on"
  /\ UNCHANGED <<devices, xhc_dev, mmio_base>>

\* InitializePCI exits when the table is too small.
InitializePCI ==
  /\ pci_stage = "on"
  /\ devices' = ScanAllBus.found
  /\ pci_stage' = IF ScanAllBus.full THEN "exit" ELSE "scanned"
  /\ UNCHANGED <<conf, xhc_dev, mmio_base>>

-----------------------------------------------------------------------------
(* Message signalled interrupts: a capability is [id, regs], regs its double *)
(* words from the header on. In the header, count is a power of two.         *)

LastOf(dev, id) ==
  LET places == {i \in DOMAIN conf[dev].caps : conf[dev].caps[i].id = id}
  IN  IF places = {} THEN 0 ELSE CHOOSE i \in places : \A j \in places : j <= i

\* msg_data_addr, as an index of regs
DataPlace(header) == IF header.addr_64_capable THEN 4 ELSE 3

WriteMSICapability(regs, header, msg_addr, msg_data) ==
  [regs EXCEPT ![1] = header, ![2] = msg_addr, ![DataPlace(header)] = msg_data]

ConfigureMSIRegister(cap, msg_addr, msg_data, num_vector_exponent) ==
  LET h == cap.regs[1]
      enabled == IF h.multi_msg_capable <= num_vector_exponent THEN h.multi_msg_capable ELSE num_vector_exponent
  IN  [cap EXCEPT !.regs = WriteMSICapability(@, [h EXCEPT !.msi_enable = TRUE, !.multi_msg_enable = enabled],
                                              msg_addr, msg_data)]

\* ConfigureMSI: the last MSI capability in the list; MSI-X is not implemented, and the caller ignores
\* the error.
ConfigureMSI(dev, msg_addr, msg_data, num_vector_exponent) ==
  LET i == LastOf(dev, "MSI")
  IN  IF i = 0 THEN conf[dev]
      ELSE [conf[dev] EXCEPT !.caps[i] = ConfigureMSIRegister(@, msg_addr, msg_data, num_vector_exponent)]

\* Level triggered, fixed delivery.
ConfigureMSIFixedDestination(dev, apic_id, vector) ==
  ConfigureMSI(dev, <<"0xfee00000", apic_id>>, <<"level", "fixed", vector>>, 0)

-----------------------------------------------------------------------------
(* xhci::Initialize, up to the controller *)

Xhcs == SelectSeq(devices, LAMBDA a : conf[a].class = "xhci")

\* The first of Intel's, or else the last of all.
FindXhc ==
  LET intel == SelectSeq(Xhcs, LAMBDA a : conf[a].vendor = "Intel")
  IN  IF intel # <<>> THEN Head(intel) ELSE IF Xhcs # <<>> THEN Last(Xhcs) ELSE None

\* The flags of the low word are cleared; the upper word counts only for a 64-bit address.
ReadBar(dev) == IF conf[dev].bar.is64 THEN <<conf[dev].bar.hi, conf[dev].bar.lo>> ELSE <<0, conf[dev].bar.lo>>

\* Every port that may be routed to the xHC is, if there is an EHC of Intel's.
SwitchEhci2Xhci(c) ==
  IF \E i \in DOMAIN devices : conf[devices[i]].class = "ehci" /\ conf[devices[i]].vendor = "Intel"
  THEN [c EXCEPT !.routing.USB3_PSSEN = c.routing.USB3PRM, !.routing.XUSB2PR = c.routing.XUSB2PRM]
  ELSE c

SetUpXhc ==
  /\ pci_stage = "scanned"
  /\ LET dev == FindXhc
         set == ConfigureMSIFixedDestination(dev, ApicId, XhciVector)
     IN  IF dev = None
         THEN pci_stage' = "exit" /\ UNCHANGED <<conf, devices, xhc_dev, mmio_base>>
         ELSE /\ pci_stage' = "ready" /\ xhc_dev' = dev /\ mmio_base' = ReadBar(dev)
              /\ conf' = [conf EXCEPT ![dev] = IF set.vendor = "Intel" THEN SwitchEhci2Xhci(set) ELSE set]
              /\ UNCHANGED devices

PciNext == PowerOn \/ InitializePCI \/ SetUpXhc

-----------------------------------------------------------------------------
(* What the tables say *)

\* The functions on a set of buses that a scan may see, and the buses behind them.
FunctionsOn(buses) ==
  {a \in DOMAIN conf : a[1] \in buses /\ IsThere(<<a[1], a[2], 0>>)
                       /\ (a[3] # 0 => conf[<<a[1], a[2], 0>>].multi)}
BusesBehind(buses) == buses \cup {conf[a].secondary : a \in {b \in FunctionsOn(buses) : conf[b].class = "bridge"}}
HostBuses == IF conf[<<0, 0, 0>>].multi THEN {f \in 0 .. Functions - 1 : IsThere(<<0, 0, f>>)} ELSE {0}
ReachableBuses ==
  CHOOSE buses \in SUBSET (HostBuses \cup UNION {{a[1], conf[a].secondary} : a \in DOMAIN conf}) :
    /\ HostBuses \subseteq buses /\ BusesBehind(buses) = buses
    /\ \A fewer \in SUBSET buses : HostBuses \subseteq fewer /\ BusesBehind(fewer) = fewer => fewer = buses

\* What the controller sends its interrupts as, by the layout the PCI specification gives the capability.
Sends(regs) == <<regs[2], IF regs[1].addr_64_capable THEN regs[4] ELSE regs[3]>>

\* "PCI デバイスをすべて探索し" (pci.hpp:85): unless the table is full, it has every function behind every
\* chain of bridges once; a controller of Intel's is taken if there is one, and its interrupts go to the
\* boot processor whatever layout its capability has, which keeps its other registers.
DevicesAreFound ==
  /\ pci_stage \in {"scanned", "ready"} =>
       ToSet(devices) = FunctionsOn(ReachableBuses) /\ Len(devices) = Cardinality(ToSet(devices))
  /\ pci_stage = "ready" =>
       LET c == conf[xhc_dev]
       IN  /\ c.class = "xhci"
           /\ (\E a \in ToSet(devices) : conf[a].class = "xhci" /\ conf[a].vendor = "Intel") => c.vendor = "Intel"
           /\ LastOf(xhc_dev, "MSI") # 0 =>
                LET regs == c.caps[LastOf(xhc_dev, "MSI")].regs
                IN  /\ regs[1].msi_enable
                    /\ Sends(regs) = << <<"0xfee00000", ApicId>>, <<"level", "fixed", XhciVector>> >>
                    /\ \A i \in 3 .. Len(regs) : regs[1].addr_64_capable /\ i # 4 => regs[i] = "kept"
=============================================================================
