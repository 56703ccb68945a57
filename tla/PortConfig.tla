----------------------------- MODULE PortConfig -----------------------------
(***************************************************************************)
(* The configuration of USB devices (src/kernel/drivers/usb/xhci/xhci.cpp, *)
(* and the initialization phases of src/kernel/drivers/usb/device.cpp): a  *)
(* state machine per root hub port, driven by the events of the xHCI       *)
(* controller, which the main task takes from the event ring one by one.   *)
(* Devices are plugged and unplugged at any time, and the controller       *)
(* answers a command or a transfer when it likes.                          *)
(***************************************************************************)
EXTENDS Integers, Sequences, FiniteSets, FiniteSetsExt

CONSTANTS
  MaxPorts,    \* root hub ports
  kDeviceSize, \* device slots the driver enables
  Unsupported, \* ports whose device has no class driver
  MaxPlugs,    \* bound on the plugging of devices after the start
  MaxUnplugs,  \* bound on the unplugging of devices
  MayFail      \* whether the controller may report failures

Port == 1..MaxPorts
Slot == 1..kDeviceSize

ASSUME PortAssumption ==
  /\ MaxPorts \in Nat \ {0} /\ kDeviceSize \in Nat
  /\ Unsupported \subseteq Port
  /\ MaxPlugs \in Nat /\ MaxUnplugs \in Nat
  /\ MayFail \in BOOLEAN

VARIABLES
  port_config_phase, addressing_port,
  device,      \* the slots devices_ has a Device for
  init,        \* initialize_phase_ of the Device of a slot
  hid,         \* initialize_phase_ of its class driver, a keyboard's or a mouse's
  boot,        \* the port Initialize has reached
  \* the controller
  connected, enabled, csc, prc, \* port status: CCS, PED and the change bits CSC, PRC
  slot_port,   \* the root hub port in the device context of a slot, 0 before
  slots,       \* enabled slots
  commands,    \* the command ring
  transfers,   \* slots with a control transfer in progress
  reads,       \* a slot's reads of its interrupt endpoint in progress
  events,      \* the event ring
  failed,      \* the controller has refused or failed a request
  plugs, unplugs

class == <<init, hid, transfers, reads>>
driver == <<port_config_phase, addressing_port, device, boot>>
status == <<connected, enabled, csc, prc>>
vars == <<driver, class, status, slot_port, slots, commands, events, failed, plugs, unplugs>>

\* TRBs: the driver's commands, with the port whose context they carry, ...
EnableSlotCommandTRB(p) == [command |-> "EnableSlot", slot |-> 0, port |-> p]
AddressDeviceCommandTRB(p, s) == [command |-> "AddressDevice", slot |-> s, port |-> p]
ConfigureEndpointCommandTRB(p, s) == [command |-> "ConfigureEndpoint", slot |-> s, port |-> p]
\* ... and the controller's events.
PortChange(p) == [type |-> "port", port |-> p]
Completion(c, s) == [type |-> "command", command |-> c, slot |-> s]
TransferEvent(s, stage, ok) == [type |-> stage, slot |-> s, ok |-> ok]

Init ==
  /\ port_config_phase = [p \in Port |-> "NotConnected"]
  /\ addressing_port = 0
  /\ device = {}
  /\ init = [s \in Slot \cup {0} |-> 0] /\ hid = init /\ reads = init
  /\ boot = 1
  /\ connected \in [Port -> BOOLEAN]
  /\ enabled = [p \in Port |-> FALSE]
  /\ csc = connected
  /\ prc = [p \in Port |-> FALSE]
  /\ slot_port = [s \in Slot \cup {0} |-> 0]
  /\ slots = {}
  /\ commands = << >>
  /\ transfers = {}
  /\ \E order \in [1..Cardinality({p \in Port : connected[p]}) -> Port] :
       /\ \A i, j \in DOMAIN order : i < j => order[i] < order[j]
       /\ \A i \in DOMAIN order : connected[order[i]]
       /\ events = [i \in DOMAIN order |-> PortChange(order[i])]
  /\ failed = FALSE /\ plugs = 0 /\ unplugs = 0

-----------------------------------------------------------------------------
(* The controller                                                          *)

\* A status change is reported when no other is pending for the port.
Report(p) == IF csc[p] \/ prc[p] THEN << >> ELSE <<PortChange(p)>>

Plug(p) ==
  /\ ~connected[p] /\ plugs < MaxPlugs /\ plugs' = plugs + 1
  /\ connected' = [connected EXCEPT ![p] = TRUE]
  /\ csc' = [csc EXCEPT ![p] = TRUE]
  /\ events' = events \o Report(p)
  /\ UNCHANGED <<driver, class, enabled, prc, slot_port, slots, commands, failed, unplugs>>

Unplug(p) ==
  /\ connected[p] /\ unplugs < MaxUnplugs /\ unplugs' = unplugs + 1
  /\ connected' = [connected EXCEPT ![p] = FALSE]
  /\ enabled' = [enabled EXCEPT ![p] = FALSE]
  /\ csc' = [csc EXCEPT ![p] = TRUE]
  /\ events' = events \o Report(p)
  /\ UNCHANGED <<driver, class, prc, slot_port, slots, commands, failed, plugs>>

\* Enable Slot: a slot, or number 0 when there is none left or the command fails.
CompleteEnableSlot ==
  /\ commands # << >> /\ Head(commands).command = "EnableSlot"
  /\ \E s \in Slot \cup {0} :
       /\ \/ s \in Slot \ slots /\ s = Min(Slot \ slots)
          \/ s = 0 /\ (MayFail \/ Slot \subseteq slots)
       /\ slots' = slots \cup ({s} \ {0})
       /\ events' = Append(events, Completion("EnableSlot", s))
       /\ failed' = (failed \/ s = 0)
  /\ commands' = Tail(commands)
  /\ UNCHANGED <<driver, class, status, slot_port, plugs, unplugs>>

\* Address Device: the controller fills in the device context, unless it fails.
CompleteAddressDevice ==
  /\ commands # << >> /\ Head(commands).command = "AddressDevice"
  /\ LET c == Head(commands) IN
     /\ \/ /\ c.slot # 0 /\ enabled[c.port]
           /\ slot_port' = [slot_port EXCEPT ![c.slot] = c.port]
           /\ UNCHANGED failed
        \/ /\ c.slot = 0 \/ ~enabled[c.port] \/ MayFail
           /\ failed' = TRUE /\ UNCHANGED slot_port
     /\ events' = Append(events, Completion("AddressDevice", c.slot))
  /\ commands' = Tail(commands)
  /\ UNCHANGED <<driver, class, status, slots, plugs, unplugs>>

CompleteConfigureEndpoint ==
  /\ commands # << >> /\ Head(commands).command = "ConfigureEndpoint"
  /\ events' = Append(events, Completion("ConfigureEndpoint", Head(commands).slot))
  /\ commands' = Tail(commands)
  /\ UNCHANGED <<driver, class, status, slot_port, slots, failed, plugs, unplugs>>

\* The answer to a transfer: a failure when the device is gone, even if there is another
\* one at the port, which is disabled until it is reset.
Answer(s, stage) ==
  \/ /\ enabled[slot_port[s]]
     /\ events' = Append(events, TransferEvent(s, stage, TRUE)) /\ UNCHANGED failed
  \/ /\ MayFail \/ ~enabled[slot_port[s]]
     /\ events' = Append(events, TransferEvent(s, stage, FALSE)) /\ failed' = TRUE

CompleteControl(s) ==
  /\ s \in transfers /\ transfers' = transfers \ {s}
  /\ Answer(s, "control")
  /\ UNCHANGED <<driver, init, hid, reads, status, slot_port, slots, commands, plugs, unplugs>>

\* A read is answered when the device has something to report.
CompleteRead(s) ==
  /\ reads[s] > 0 /\ reads' = [reads EXCEPT ![s] = @ - 1]
  /\ Answer(s, "normal")
  /\ UNCHANGED <<driver, init, hid, transfers, status, slot_port, slots, commands, plugs, unplugs>>

Controller ==
  \/ CompleteEnableSlot \/ CompleteAddressDevice \/ CompleteConfigureEndpoint
  \/ \E s \in Slot : CompleteControl(s) \/ CompleteRead(s)

-----------------------------------------------------------------------------
(* The driver                                                              *)

Enter(p, phase) == port_config_phase' = [port_config_phase EXCEPT ![p] = phase]

\* Faulty variant: a port is reset while another one is being addressed.
ResetAtOnce(phases, ap, p) ==
  IF ~connected[p] THEN [phases |-> phases, ap |-> ap, reset |-> {}]
  ELSE [phases |-> [phases EXCEPT ![p] = "ResettingPort"], ap |-> p, reset |-> {p}]

\* ResetPort for the port p, from the given phases and addressing_port; the phase is
\* NotConnected or WaitingAddressed at every call.
ResetPort(phases, ap, p) ==
  IF ~connected[p] THEN [phases |-> phases, ap |-> ap, reset |-> {}]
  ELSE IF ap # 0
  THEN [phases |-> [phases EXCEPT ![p] = "WaitingAddressed"], ap |-> ap, reset |-> {}]
  ELSE [phases |-> [phases EXCEPT ![p] = "ResettingPort"], ap |-> p, reset |-> {p}]

\* The effect of ResetPort; Port::Reset waits for the end of the reset, which is
\* reported like any other change.
Apply(r, rest) ==
  /\ addressing_port' = r.ap
  /\ csc' = [p \in Port |-> csc[p] /\ p \notin r.reset]
  /\ prc' = [p \in Port |-> prc[p] \/ p \in r.reset]
  /\ enabled' = [p \in Port |-> IF p \in r.reset THEN connected[p] ELSE enabled[p]]
  /\ events' = rest \o (IF r.reset = {} THEN << >> ELSE <<PortChange(r.ap)>>)
  /\ UNCHANGED connected

\* Initialize: ConfigurePort for every connected port.
ConfigurePort ==
  /\ boot \in Port /\ boot' = boot + 1
  /\ IF port_config_phase[boot] = "NotConnected"
     THEN LET r == ResetPort(port_config_phase, addressing_port, boot) IN
          port_config_phase' = r.phases /\ Apply(r, events)
     ELSE UNCHANGED <<port_config_phase, addressing_port, status, events>>
  /\ UNCHANGED <<device, class, slot_port, slots, commands, failed, plugs, unplugs>>

\* The main task processes the event at the front of the ring.
Front(type) == boot > MaxPorts /\ events # << >> /\ Head(events).type = type
Ignore == events' = Tail(events) /\ UNCHANGED <<port_config_phase, addressing_port, device, class,
                                                enabled, csc, prc, commands>>

EnableSlot(p) ==
  /\ enabled[p] /\ prc[p]
  /\ prc' = [prc EXCEPT ![p] = FALSE]
  /\ Enter(p, "EnablingSlot")
  /\ commands' = Append(commands, EnableSlotCommandTRB(p))
  /\ events' = Tail(events)
  /\ UNCHANGED <<addressing_port, device, class, enabled, csc>>

\* Faulty variant: a device plugged in again is configured again.
ResetReplugged(phase) == phase \in {"NotConnected", "Configured"}

\* The phase in which a status change starts the configuration.
Resets(phase) == phase = "NotConnected"

OnPortStatusChange ==
  /\ Front("port")
  /\ LET p == Head(events).port IN
     CASE Resets(port_config_phase[p]) ->
            LET r == ResetPort(port_config_phase, addressing_port, p) IN
            /\ port_config_phase' = r.phases /\ Apply(r, Tail(events))
            /\ UNCHANGED <<device, class, commands>>
       [] port_config_phase[p] = "ResettingPort" ->
            EnableSlot(p) \/ (~(enabled[p] /\ prc[p]) /\ Ignore)
       [] OTHER -> Ignore
  /\ UNCHANGED <<boot, connected, slot_port, slots, failed, plugs, unplugs>>

\* A device that was allocated before stays.
AllocDevice(s) == device' = device \cup {s}

\* The device of a slot, if there is one.
FindBySlot(s) == s \in device

\* Completion codes are not looked at, so a slot number may be 0.
AddressDevice(p, s) ==
  /\ AllocDevice(s)
  /\ Enter(p, "AddressingDevice")
  /\ commands' = Append(commands, AddressDeviceCommandTRB(p, s))
  /\ events' = Tail(events)
  /\ UNCHANGED <<addressing_port, class, enabled, csc, prc>>

OnSlotEnabled ==
  /\ Front("command") /\ Head(events).command = "EnableSlot"
  /\ IF addressing_port # 0 /\ port_config_phase[addressing_port] = "EnablingSlot"
     THEN AddressDevice(addressing_port, Head(events).slot)
     ELSE Ignore
  /\ UNCHANGED <<boot, connected, slot_port, slots, failed, plugs, unplugs>>

\* Faulty variant: nobody looks for a waiting port.
ForgetWaiting == [phases |-> port_config_phase, ap |-> 0, reset |-> {}]

\* The first waiting port takes its turn.
ResetFirstWaiting ==
  LET waiting == {p \in Port : port_config_phase[p] = "WaitingAddressed"} IN
  IF waiting = {} THEN [phases |-> port_config_phase, ap |-> 0, reset |-> {}]
  ELSE ResetPort(port_config_phase, 0, Min(waiting))

\* Faulty variant: the answer is taken for the port being addressed, if there is one.
PortBeingAddressed(s) == IF addressing_port # 0 THEN addressing_port ELSE slot_port[s]

\* The port an answer is about: the root hub port in the device context.
PortOf(s) == slot_port[s]

\* ControlIn, ControlOut and NormalIn put a transfer on the ring of an endpoint.
Control(s) == transfers' = transfers \cup {s}
NormalIn(s) == reads' = [reads EXCEPT ![s] = @ + 1]

\* Asks for the device descriptor.
InitializeDevice(phases, p, s) ==
  /\ port_config_phase' = [phases EXCEPT ![p] = "InitializingDevice"]
  /\ init' = [init EXCEPT ![s] = 1]
  /\ Control(s)
  /\ UNCHANGED <<hid, reads>>

\* An Address Device command has completed: a waiting port takes its turn, and
\* the device is initialized.
OnAddressed ==
  /\ Front("command") /\ Head(events).command = "AddressDevice"
  /\ LET s == Head(events).slot
         p == PortOf(s)
         r == ResetFirstWaiting
     IN
     IF FindBySlot(s) /\ p # 0 /\ p = addressing_port /\ port_config_phase[p] = "AddressingDevice"
     THEN /\ Apply(r, Tail(events))
          /\ InitializeDevice(r.phases, p, s)
          /\ UNCHANGED <<device, commands>>
     ELSE Ignore
  /\ UNCHANGED <<boot, connected, slot_port, slots, failed, plugs, unplugs>>

\* No interface of the device is that of a boot keyboard or a mouse.
NoClassDriver(s) == slot_port[s] \in Unsupported

\* InitializePhase1 to 3: the device descriptor, the configuration descriptor, which tells
\* whether there is a class driver, and the choice of the configuration.
Initialize(s) ==
  LET stops == init[s] = 2 /\ NoClassDriver(s) IN
  /\ init' = [init EXCEPT ![s] = IF stops THEN 2 ELSE @ + 1]
  /\ IF init[s] = 3 \/ stops THEN UNCHANGED transfers ELSE Control(s)
  /\ UNCHANGED <<hid, reads>>

\* The class driver asks for the boot protocol.
SetProtocol(s) ==
  /\ hid' = [hid EXCEPT ![s] = 1]
  /\ Control(s)
  /\ UNCHANGED <<init, reads>>

\* The class driver's request to use the boot protocol is done: it reads the first report.
StartPolling(s) ==
  IF hid[s] = 1
  THEN hid' = [hid EXCEPT ![s] = 2] /\ NormalIn(s) /\ UNCHANGED <<init, transfers>>
  ELSE UNCHANGED class

\* An answer at the control endpoint is the device's until it is initialized, the class
\* driver's after that.
OnControlCompleted(s) ==
  IF init[s] = 4 THEN StartPolling(s) ELSE Initialize(s)

\* A report: the class driver takes it and reads the next one.
OnNormalCompleted(s) == NormalIn(s) /\ UNCHANGED <<init, hid, transfers>>

OnTransferEventReceived(s) ==
  IF Head(events).type = "control" THEN OnControlCompleted(s) ELSE OnNormalCompleted(s)

\* The port's speed cannot be read when the device is gone.
ConfigureEndpoints(p, s) ==
  IF connected[p]
  THEN /\ Enter(p, "ConfiguringEndpoints")
       /\ commands' = Append(commands, ConfigureEndpointCommandTRB(p, s))
  ELSE UNCHANGED <<port_config_phase, commands>>

\* A transfer that failed is dropped, and no other one takes its place.
OnTransfer ==
  /\ Front("control") \/ Front("normal")
  /\ LET s == Head(events).slot
         p == PortOf(s)
     IN
     IF FindBySlot(s) /\ Head(events).ok
     THEN /\ OnTransferEventReceived(s)
          /\ IF init'[s] = 4 /\ port_config_phase[p] = "InitializingDevice"
             THEN ConfigureEndpoints(p, s)
             ELSE UNCHANGED <<port_config_phase, commands>>
          /\ events' = Tail(events)
          /\ UNCHANGED <<addressing_port, device, enabled, csc, prc>>
     ELSE Ignore
  /\ UNCHANGED <<boot, connected, slot_port, slots, failed, plugs, unplugs>>

\* The class driver starts.
CompleteConfiguration(p, s) ==
  /\ SetProtocol(s)
  /\ Enter(p, "Configured")

OnEndpointsConfigured ==
  /\ Front("command") /\ Head(events).command = "ConfigureEndpoint"
  /\ LET s == Head(events).slot
         p == PortOf(s)
     IN
     IF FindBySlot(s) /\ port_config_phase[p] = "ConfiguringEndpoints"
     THEN /\ CompleteConfiguration(p, s) /\ events' = Tail(events)
          /\ UNCHANGED <<addressing_port, device, enabled, csc, prc, commands>>
     ELSE Ignore
  /\ UNCHANGED <<boot, connected, slot_port, slots, failed, plugs, unplugs>>

ProcessEvent ==
  OnPortStatusChange \/ OnSlotEnabled \/ OnAddressed \/ OnTransfer \/ OnEndpointsConfigured

MainTask == ConfigurePort \/ ProcessEvent

Next == MainTask \/ Controller \/ \E p \in Port : Plug(p) \/ Unplug(p)

Spec == Init /\ [][Next]_vars

\* The main task handles every event and the controller answers every request.
FairSpec ==
  /\ Spec /\ WF_vars(MainTask)
  /\ WF_vars(CompleteEnableSlot) /\ WF_vars(CompleteAddressDevice)
  /\ WF_vars(CompleteConfigureEndpoint) /\ \A s \in Slot : WF_vars(CompleteControl(s))

-----------------------------------------------------------------------------
(* Properties *)

Addressing == {p \in Port : port_config_phase[p] \in {"ResettingPort", "EnablingSlot", "AddressingDevice"}}

\* xhci.cpp:38: from its reset to its address a port is the only one that is worked on,
\* whatever happens to the ports meanwhile; addressing_port names it.
OneAddressed == Addressing = {addressing_port} \ {0}

\* The answers find their port: a slot belongs to one port, a port with an addressed
\* device to one slot, and a slot enabled for a port is never used for another one.
SlotsMatchPorts ==
  /\ \A s, t \in slots : slot_port[s] = slot_port[t] /\ slot_port[s] # 0 => s = t
  /\ \A p \in Port : port_config_phase[p] \in {"InitializingDevice", "ConfiguringEndpoints", "Configured"} =>
       \E s \in device : slot_port[s] = p /\ init[s] > 0

\* The controller's answers, which name a slot or nothing at all, are taken for the right port.
AnswersFindPorts == OneAddressed /\ SlotsMatchPorts

\* A configured device was given its endpoints exactly once, after the descriptors were
\* read: no event, early, late or about another port, makes a port skip a phase.
Order == <<"NotConnected", "WaitingAddressed", "ResettingPort", "EnablingSlot", "AddressingDevice",
           "InitializingDevice", "ConfiguringEndpoints", "Configured">>
Rank(phase) == CHOOSE i \in DOMAIN Order : Order[i] = phase
InOrder ==
  [][\A p \in Port :
       LET before == Rank(port_config_phase[p])
           after  == Rank(port_config_phase'[p])
       IN  after = before \/ after = before + 1 \/ (before = 1 /\ after = 3)]_vars

\* Every supported device gets configured and its reports go on being read, however many
\* are plugged in before or while another one is addressed, unless a device is unplugged
\* or the controller fails a request: from some time on there is always exactly one read
\* in progress or one report to handle (hid.cpp:50, 58).
Reports(s) == Cardinality({i \in DOMAIN events : events[i].type = "normal" /\ events[i].slot = s})
Polled(p) == \E s \in device : slot_port[s] = p /\ reads[s] + Reports(s) = 1
AllPolled ==
  \A p \in Port \ Unsupported : <>[](connected[p] => Polled(p) \/ unplugs > 0 \/ failed)

\* xhci.cpp:40 calls WaitingAddressed the state of waiting for the reset-to-address
\* sequence to be executed: somebody is there who will hand the turn on.
WaitersAreServed ==
  \A p \in Port : port_config_phase[p] = "WaitingAddressed" /\ connected[p] => addressing_port # 0

=============================================================================
