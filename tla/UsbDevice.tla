------------------------------ MODULE UsbDevice ------------------------------
(***************************************************************************)
(* One USB device as its driver sees it: the control requests that         *)
(* initialize it (usb/device.cpp), the transfers on its rings              *)
(* (usb/xhci/device.cpp) and the class drivers for keyboards, mice and     *)
(* serial lines. PortConfig has the phases of many devices; here are the   *)
(* requests, the TRBs and who is told when one completes. The controller   *)
(* completes transfers at any time; events wait for the main task.         *)
(***************************************************************************)
EXTENDS Integers, Sequences, FiniteSets, FiniteSetsExt, SequencesExt

CONSTANTS
  UsbKinds,      \* devices: [class, conf], conf the sequence of configuration descriptors
  TrSize,        \* TRBs of a transfer ring, without the link
  MapSize,       \* N of the ArrayMap
  KeySlots,      \* what the slots of a keyboard report may hold: sequences of key codes
  MaxReports, MaxSerial, MaxUsbCommands, \* bounds on reports, bytes a serial device sends, usbtest and setbaud
  MaxPacket,     \* bytes of the buffer of a serial read (8)
  Senders,       \* terminals that may run usbtest, comproc and setbaud
  TransfersFail, \* whether a transfer may fail
  PastRaces      \* whether TLC follows what comes after a race (see Sending): no property claims anything then

NoValue == <<>>
EndpointID(number, dir_in) == number * 2 + (IF dir_in THEN 1 ELSE 0) \* a control pipe's counts as in
EP0 == EndpointID(0, TRUE) \* kDefaultControlPipeID

ASSUME UsbDeviceAssumption == TrSize \in Nat /\ TrSize >= 4 /\ MapSize \in Nat \ {0} /\ MaxPacket \in Nat \ {0}

VARIABLES
  usb,        \* the device that is plugged in
  dev,        \* the usb::xhci::Device with its class driver
  configured, \* the endpoints have been configured (Configure Endpoint is in PortConfig)
  transfer_events, \* transfer events that the main task has not seen
  halted,     \* endpoints on which a transfer has failed
  pressed,    \* the keys that are down after the last report the controller has taken
  reports,    \* reports so far
  serial_sent, serial_got, \* bytes the device has sent; what the terminals have received
  callers,    \* how far each terminal is in SendSerial and ReceiveSerial
  raced,      \* two calls have used a ring or the received bytes at the same time (see below)
  usb_commands \* usbtest and setbaud so far

usbVars == <<usb, dev, configured, transfer_events, halted, pressed, reports, serial_sent, serial_got, callers, raced, usb_commands>>

-----------------------------------------------------------------------------
(* ArrayMap: a table of [key, value]. Put drops what does not fit, Get and   *)
(* Delete take the first.                                                    *)

EmptyTable == [i \in 1 .. MapSize |-> NoValue]
PlacesOf(table, key) == {i \in 1 .. MapSize : table[i] # NoValue /\ table[i].key = key}
Holds(table, key) == PlacesOf(table, key) # {}
GetFrom(table, key) == table[Min(PlacesOf(table, key))].value
Put(table, key, value) ==
  LET free == {i \in 1 .. MapSize : table[i] = NoValue}
  IN  IF free = {} THEN table ELSE [table EXCEPT ![Min(free)] = [key |-> key, value |-> value]]
DeleteFrom(table, key) == IF Holds(table, key) THEN [table EXCEPT ![Min(PlacesOf(table, key))] = NoValue] ELSE table

-----------------------------------------------------------------------------
(* TRBs; a position of a transfer ring is used again when the ring has gone round. *)

SetupStageTRB(setup, transfer_type) == [trb |-> "Setup", setup |-> setup, transfer_type |-> transfer_type, ioc |-> FALSE]
DataStageTRB(dir_in) == [trb |-> "Data", dir_in |-> dir_in, ioc |-> TRUE]
StatusStageTRB(ioc) == [trb |-> "Status", ioc |-> ioc]
NormalTRB(buf) == [trb |-> "Normal", buf |-> buf, ioc |-> TRUE]
TransferEventTRB(ep, issuer, ok, data) == [ep |-> ep, issuer |-> issuer, ok |-> ok, data |-> data]

EmptyTr == [mem |-> [p \in 0 .. TrSize - 1 |-> NoValue], cycle_bits |-> [p \in 0 .. TrSize - 1 |-> FALSE],
            enq |-> 0, cycle_bit |-> TRUE, deq |-> 0, ccs |-> TRUE]
CopyToLast(tr, trb) == [tr EXCEPT !.mem[tr.enq] = trb, !.cycle_bits[tr.enq] = tr.cycle_bit]
Advance(tr) ==
  LET next == (tr.enq + 1) % TrSize
  IN  [tr EXCEPT !.enq = next, !.cycle_bit = IF next = 0 THEN ~@ ELSE @]
PushTr(tr, trb) == Advance(CopyToLast(tr, trb))

\* The controller's side: the TRBs that are its own by their cycle bits, and n of them done.
Offered(tr) ==
  {i \in 0 .. TrSize - 1 :
     \A j \in 0 .. i : tr.cycle_bits[(tr.deq + j) % TrSize] = (IF tr.deq + j < TrSize THEN tr.ccs ELSE ~tr.ccs)}
Done(tr, n) == [tr EXCEPT !.deq = (@ + n) % TrSize, !.ccs = IF tr.deq + n < TrSize THEN @ ELSE ~@]

Failed(d, what) == [d EXCEPT !.error = what]

Request(request, value, index, dir_in) == [request |-> request, value |-> value, index |-> index, dir_in |-> dir_in]

\* The driver that is told when a request has been answered.
Awaited(event_waiters, setup, issuer) == IF issuer THEN Put(event_waiters, setup, TRUE) ELSE event_waiters

\* ControlIn and ControlOut: the setup, data and status stages. The map leads from the stage whose
\* completion interrupts to the setup stage.
Control(d, setup, has_data, issuer) ==
  LET tr == d.rings[EP0]
      type == IF ~has_data THEN "NoData" ELSE IF setup.dir_in THEN "In" ELSE "Out"
      stages == IF has_data THEN <<SetupStageTRB(setup, type), DataStageTRB(setup.dir_in), StatusStageTRB(FALSE)>>
                            ELSE <<SetupStageTRB(setup, type), StatusStageTRB(TRUE)>>
  IN  [d EXCEPT !.rings[EP0] = FoldLeft(PushTr, tr, stages),
                !.setup_stage_map = Put(@, (tr.enq + 1) % TrSize, tr.enq),
                !.event_waiters = Awaited(@, setup, issuer)]

\* NormalIn and NormalOut
PushOneTransaction(d, ep, buf) ==
  IF ep \notin DOMAIN d.rings THEN Failed(d, "kTransferRingNotSet")
  ELSE [d EXCEPT !.rings[ep] = PushTr(@, NormalTRB(buf))]

-----------------------------------------------------------------------------
(* Class drivers: drv is NoValue or the fields of the only driver of the device. *)

HIDDriver(kind, if_desc) ==
  [kind |-> kind, interface |-> if_desc.number, phase |-> 0, ep_in |-> 0, buf |-> {}, previous_buf |-> {}, held |-> {}]

CDCDriver(data_interface) ==
  [kind |-> "cdc", interface |-> data_interface, ep_bulk_in |-> 0, ep_bulk_out |-> 0, receive_buf |-> <<>>, buffers |-> {}]

LastEp(eps, type, dir_in, default) ==
  LET fit == SelectSeq(eps, LAMBDA e : e.transfer = type /\ e.dir_in = dir_in)
  IN  IF fit = <<>> THEN default ELSE EndpointID(Last(fit).number, dir_in)

SetEndpoint(drv, eps) ==
  IF drv.kind = "cdc"
  THEN [drv EXCEPT !.ep_bulk_in = LastEp(eps, "bulk", TRUE, @), !.ep_bulk_out = LastEp(eps, "bulk", FALSE, @)]
  ELSE [drv EXCEPT !.ep_in = LastEp(eps, "interrupt", TRUE, @)]

\* HID: the boot protocol is asked for; CDC does nothing.
OnEndpointsConfigured(d) ==
  IF d.drv = NoValue \/ d.drv.kind = "cdc" THEN d
  ELSE Control([d EXCEPT !.drv.phase = 1], Request("SetProtocol", 0, d.drv.interface, FALSE), FALSE, TRUE)

\* The answer to SetProtocol starts the first read.
DriverOnControlCompleted(d) ==
  CASE d.drv.kind = "cdc" -> d
    [] d.drv.kind # "cdc" /\ d.drv.phase = 1 -> PushOneTransaction([d EXCEPT !.drv.phase = 2], d.drv.ep_in, "buf_")
    [] OTHER -> Failed(d, "kNotImplemented")

\* A keyboard: each key whose state has changed is pushed or released; held is what the observers make of it.
OnKeyData(drv) ==
  LET changed == (drv.previous_buf \ drv.buf) \cup (drv.buf \ drv.previous_buf)
  IN  [drv EXCEPT !.held = (@ \cup (changed \cap drv.buf)) \ (changed \ drv.buf)]

\* A mouse: the observers get the report as it is.
OnMouseData(drv) == [drv EXCEPT !.held = drv.buf]

\* Faulty variant: the buffers are compared, but the new one is not kept for the next time.
OnDataForgotten(drv) == IF drv.kind = "mouse" THEN OnMouseData(drv) ELSE OnKeyData(drv)

\* OnDataReceived of the driver; then the buffer becomes the previous one.
OnDataReceived(drv) ==
  [(IF drv.kind = "mouse" THEN OnMouseData(drv) ELSE OnKeyData(drv)) EXCEPT !.previous_buf = drv.buf]

\* HID reads on into the same buffer. CDC keeps what came in and deletes the transfer's buffer.
OnNormalCompleted(d, ep, buf, data) ==
  IF d.drv.kind # "cdc"
  THEN IF ep % 2 = 1 THEN PushOneTransaction([d EXCEPT !.drv = OnDataReceived(@)], d.drv.ep_in, "buf_") ELSE d
  ELSE IF ep \notin {d.drv.ep_bulk_in, d.drv.ep_bulk_out} THEN d
  ELSE IF buf \notin d.drv.buffers THEN Failed(d, "double delete")
  ELSE [d EXCEPT !.drv.receive_buf = IF ep = d.drv.ep_bulk_in THEN @ \o data ELSE @,
                 !.drv.buffers = @ \ {buf}]

-----------------------------------------------------------------------------
(* Initialization: GetDescriptor for the device, then for the configuration, SetConfiguration *)

GetDescriptor(d, type) == Control(d, Request("GetDescriptor", type, 0, TRUE), TRUE, FALSE)

NewDevice == [phase |-> 0, initialized |-> FALSE, drv |-> NoValue, eps |-> <<>>, rings |-> [ep \in {EP0} |-> EmptyTr],
              setup_stage_map |-> EmptyTable, event_waiters |-> EmptyTable, error |-> "none"]

StartInitialize(d) == GetDescriptor([d EXCEPT !.phase = 1], "device")

\* The HID boot interfaces that there is a driver for.
NewClassDriver(if_desc) ==
  CASE if_desc.class = 3 /\ if_desc.sub_class = 1 /\ if_desc.protocol = 1 -> HIDDriver("keyboard", if_desc)
    [] if_desc.class = 3 /\ if_desc.sub_class = 1 /\ if_desc.protocol = 2 -> HIDDriver("mouse", if_desc)
    [] OTHER -> NoValue

\* The first interface with a driver, and its endpoints, whatever lies between them.
HIDConfig(conf) ==
  LET usable == {i \in DOMAIN conf : conf[i].type = "interface" /\ NewClassDriver(conf[i]) # NoValue}
      i == Min(usable)
      endpoints == SelectSeq(SubSeq(conf, i + 1, Len(conf)), LAMBDA x : x.type = "endpoint")
  IN  IF usable = {} THEN [drv |-> NoValue, eps |-> <<>>]
      ELSE [drv |-> NewClassDriver(conf[i]), eps |-> SubSeq(endpoints, 1, conf[i].num_endpoints)]

\* After an interface descriptor the next num_endpoints descriptors are taken, endpoints or not.
CDCConfig(conf) ==
  LET Take(s, x) ==
        IF s.left > 0 THEN [s EXCEPT !.left = @ - 1, !.eps = IF x.type = "endpoint" THEN Append(@, x) ELSE @]
        ELSE IF x.type # "interface" THEN s
        ELSE [s EXCEPT !.left = x.num_endpoints, !.data = IF x.class = 10 THEN x.number ELSE @]
      read == FoldLeft(Take, [left |-> 0, eps |-> <<>>, data |-> 0], Tail(conf))
  IN  [drv |-> CDCDriver(read.data), eps |-> read.eps]

InitializePhase1(d) == GetDescriptor([d EXCEPT !.phase = 2], "configuration")

InitializePhase2(d, class, conf) ==
  LET c == IF class = 0 THEN HIDConfig(conf) ELSE CDCConfig(conf)
  IN  IF class \notin {0, 2} THEN Failed(d, "kNotImplemented")
      ELSE IF c.drv = NoValue THEN d
      ELSE Control([d EXCEPT !.drv = c.drv, !.eps = c.eps, !.phase = 3],
                   Request("SetConfiguration", Head(conf).value, 0, FALSE), FALSE, FALSE)

InitializePhase3(d) == [d EXCEPT !.drv = SetEndpoint(@, d.eps), !.phase = 4, !.initialized = TRUE]

OnControlCompleted(d, setup, data) ==
  CASE d.initialized /\ Holds(d.event_waiters, setup) -> DriverOnControlCompleted(d)
    [] d.initialized /\ ~Holds(d.event_waiters, setup) -> Failed(d, "kNoWaiter")
    [] ~d.initialized /\ d.phase = 1 /\ setup.request = "GetDescriptor" /\ data = "device" -> InitializePhase1(d)
    [] ~d.initialized /\ d.phase = 2 /\ setup.request = "GetDescriptor" /\ data = "configuration" ->
         InitializePhase2(d, usb.class, usb.conf)
    [] ~d.initialized /\ d.phase = 3 /\ setup.request = "SetConfiguration" -> InitializePhase3(d)
    [] OTHER -> Failed(d, "kInvalidPhase")

\* The issuer of the event is looked up in the ring; for a control transfer the map gives its setup stage.
OnTransferEventReceived(d, e) ==
  LET trb == d.rings[e.ep].mem[e.issuer]
      d1 == [d EXCEPT !.setup_stage_map = DeleteFrom(@, e.issuer)]
  IN  IF ~e.ok THEN Failed(d, "kTransferFailed")
      ELSE IF trb.trb = "Normal" THEN OnNormalCompleted(d, e.ep, trb.buf, e.data)
      ELSE IF ~Holds(d.setup_stage_map, e.issuer) THEN Failed(d, "kNoCorrespondingSetupStage")
      ELSE OnControlCompleted(d1, d.rings[EP0].mem[GetFrom(d.setup_stage_map, e.issuer)].setup, e.data)
-----------------------------------------------------------------------------
(* Steps of the driver *)

Idle == [at |-> "idle", ep |-> 0, buf |-> 0, len |-> 0, byte |-> 0]
CallersAt(places) == {t \in Senders : callers[t].at \in places}

UsbInit ==
  /\ usb = NoValue /\ dev = NewDevice /\ configured = FALSE /\ transfer_events = <<>> /\ halted = {}
  /\ pressed = {} /\ reports = 0 /\ serial_sent = 0 /\ serial_got = <<>> /\ callers = [t \in Senders |-> Idle]
  /\ raced = FALSE /\ usb_commands = 0

\* Address Device has succeeded.
Addressed ==
  /\ usb = NoValue
  /\ usb' \in UsbKinds /\ dev' = StartInitialize(dev)
  /\ UNCHANGED <<configured, transfer_events, halted, pressed, reports, serial_sent, serial_got, callers, raced, usb_commands>>

HandleTransferEvent ==
  /\ transfer_events # <<>>
  /\ dev' = OnTransferEventReceived(dev, Head(transfer_events))
  /\ transfer_events' = Tail(transfer_events)
  /\ raced' = (raced \/ (CallersAt({"pop"}) # {} /\ dev'.drv.receive_buf # dev.drv.receive_buf))
  /\ UNCHANGED <<usb, configured, halted, pressed, reports, serial_sent, serial_got, callers, usb_commands>>

\* Configure Endpoint has succeeded: every endpoint has a ring.
EndpointsConfigured ==
  /\ dev.initialized /\ ~configured
  /\ LET ids == {EndpointID(dev.eps[i].number, dev.eps[i].dir_in) : i \in DOMAIN dev.eps}
     IN  dev' = OnEndpointsConfigured([dev EXCEPT !.rings = [ep \in ids \cup {EP0} |-> IF ep = EP0 THEN @[EP0] ELSE EmptyTr]])
  /\ configured' = TRUE
  /\ UNCHANGED <<usb, transfer_events, halted, pressed, reports, serial_sent, serial_got, callers, raced, usb_commands>>

IsSerial == configured /\ dev.drv # NoValue /\ dev.drv.kind = "cdc"

\* operator new: any address that is not in use
FreeBuffer(used) == Min((1 .. Cardinality(used) + 1) \ used)

\* The terminals run with interrupts enabled, and nothing protects the rings or the received bytes: a caller
\* may be preempted anywhere in a call. A call of Push, and of ReceiveSerial, that overlaps another's, and an
\* append of the main task that falls between the beginning of front and the end of pop_front, are races, which
\* set raced; what the single steps do then is modelled as far as they are not torn themselves.
Sending == {"push", "storing", "stored"}
Taking == {"front", "pop"}

\* Push never looks whether a ring is full (see Rings), and a completed TRB is read again when its event is
\* handled: a bound keeps both from being overwritten.
HasRoom(ep) ==
  Cardinality(Offered(dev.rings[ep])) + Cardinality({i \in DOMAIN transfer_events : transfer_events[i].ep = ep})
    + Cardinality(CallersAt(Sending)) < TrSize - 1

\* SendSerial: the bytes are copied into a new buffer
SendSerial(t, len) ==
  /\ IsSerial /\ callers[t] = Idle /\ HasRoom(dev.drv.ep_bulk_in) /\ HasRoom(dev.drv.ep_bulk_out)
  /\ LET buf_out == FreeBuffer(dev.drv.buffers)
     IN  /\ callers' = [callers EXCEPT ![t] = [@ EXCEPT !.at = "push", !.ep = dev.drv.ep_bulk_out, !.buf = buf_out, !.len = len]]
         /\ dev' = [dev EXCEPT !.drv.buffers = @ \cup {buf_out}]
  /\ usb_commands < MaxUsbCommands /\ usb_commands' = usb_commands + 1
  /\ UNCHANGED <<usb, configured, transfer_events, halted, pressed, reports, serial_sent, serial_got, raced>>

\* Push for NormalOut, then for NormalIn: it begins, ...
BeginPush(t) ==
  LET c == callers[t] IN
  /\ c.at = "push"
  /\ callers' = [callers EXCEPT ![t].at = "storing"]
  /\ raced' = (raced \/ \E u \in CallersAt({"storing", "stored"}) : callers[u].ep = c.ep)
  /\ UNCHANGED <<usb, dev, configured, transfer_events, halted, pressed, reports, serial_sent, serial_got, usb_commands>>

\* ... the last word is stored, with which the TRB becomes the controller's, ...
StoreTRB(t) ==
  LET c == callers[t] IN
  /\ c.at = "storing"
  /\ dev' = [dev EXCEPT !.rings[c.ep] = CopyToLast(@, NormalTRB(c.buf))]
  /\ callers' = [callers EXCEPT ![t].at = "stored"]
  /\ UNCHANGED <<usb, configured, transfer_events, halted, pressed, reports, serial_sent, serial_got, raced, usb_commands>>

\* ... and write_index_ advances. After NormalOut an answer is asked for into another new buffer.
AdvanceRing(t) ==
  LET c == callers[t]
      d == [dev EXCEPT !.rings[c.ep] = Advance(@)]
      buf_in == FreeBuffer(dev.drv.buffers)
  IN
  /\ c.at = "stored"
  /\ \/ /\ c.ep = dev.drv.ep_bulk_out
        /\ dev' = [d EXCEPT !.drv.buffers = @ \cup {buf_in}]
        /\ callers' = [callers EXCEPT ![t] = [@ EXCEPT !.at = "push", !.ep = dev.drv.ep_bulk_in, !.buf = buf_in]]
     \/ /\ c.ep = dev.drv.ep_bulk_in
        /\ dev' = d
        /\ callers' = [callers EXCEPT ![t] = [Idle EXCEPT !.at = "receive", !.len = c.len]]
  /\ UNCHANGED <<usb, configured, transfer_events, halted, pressed, reports, serial_sent, serial_got, raced, usb_commands>>

\* ReceiveSerial, called until it returns some bytes: how many there are is asked once, ...
ReceiveSerial(t) ==
  /\ callers[t].at = "receive" /\ dev.drv.receive_buf # <<>>
  /\ callers' = [callers EXCEPT ![t] = [@ EXCEPT !.at = "front", !.len = Min({@, Len(dev.drv.receive_buf)})]]
  /\ raced' = (raced \/ CallersAt(Taking) # {})
  /\ UNCHANGED <<usb, dev, configured, transfer_events, halted, pressed, reports, serial_sent, serial_got, usb_commands>>

\* ... then each byte is read and removed. The front of an empty deque is any byte: 0 is none that was sent.
ReadFront(t) ==
  /\ callers[t].at = "front"
  /\ callers' = [callers EXCEPT ![t] = [@ EXCEPT !.at = "pop", !.byte = IF dev.drv.receive_buf = <<>> THEN 0 ELSE Head(dev.drv.receive_buf)]]
  /\ UNCHANGED <<usb, dev, configured, transfer_events, halted, pressed, reports, serial_sent, serial_got, raced, usb_commands>>

PopFront(t) ==
  LET c == callers[t] IN
  /\ c.at = "pop"
  /\ serial_got' = Append(serial_got, c.byte)
  /\ dev' = [dev EXCEPT !.drv.receive_buf = IF @ = <<>> THEN @ ELSE Tail(@)]
  /\ callers' = [callers EXCEPT ![t] = IF c.len = 1 THEN Idle ELSE [@ EXCEPT !.at = "front", !.len = @ - 1, !.byte = 0]]
  /\ UNCHANGED <<usb, configured, transfer_events, halted, pressed, reports, serial_sent, raced, usb_commands>>

\* usbtest awaits as many bytes as it has sent, comproc the exit code of the program it has sent.
UsbTest(t) == \E len \in 1 .. 2 : SendSerial(t, len)
ComProc(t) == SendSerial(t, 1)

\* setbaud; one at a time, since the ring is not protected
SetLineCoding ==
  /\ IsSerial /\ CallersAt({"idle"}) # {} /\ Offered(dev.rings[EP0]) = {}
  /\ EP0 \notin {transfer_events[i].ep : i \in DOMAIN transfer_events}
  /\ dev' = Control(dev, Request("SetLineCoding", 0, dev.drv.interface, FALSE), TRUE, TRUE)
  /\ usb_commands < MaxUsbCommands /\ usb_commands' = usb_commands + 1
  /\ UNCHANGED <<usb, configured, transfer_events, halted, pressed, reports, serial_sent, serial_got, callers, raced>>

-----------------------------------------------------------------------------
(* The controller and the device *)

\* A control transfer: the stages up to the status stage, the event from the one that interrupts.
CompleteControl ==
  LET tr == dev.rings[EP0]
      Stage(i) == (tr.deq + i) % TrSize
      has_data == tr.mem[Stage(1)].trb = "Data"
      setup == tr.mem[tr.deq].setup
      data == IF setup.dir_in THEN setup.value ELSE ""
  IN  /\ usb # NoValue /\ EP0 \notin halted /\ Offered(tr) # {}
      /\ \E ok \in {TRUE, ~TransfersFail} :
           /\ transfer_events' = Append(transfer_events, TransferEventTRB(EP0, Stage(1), ok, data))
           /\ halted' = IF ok THEN halted ELSE halted \cup {EP0}
      /\ dev' = [dev EXCEPT !.rings[EP0] = Done(@, IF has_data THEN 3 ELSE 2)]
      /\ UNCHANGED <<usb, configured, pressed, reports, serial_sent, serial_got, callers, raced, usb_commands>>

\* A report of a keyboard or mouse is written into buf_.
CompleteReport ==
  /\ configured /\ dev.drv # NoValue /\ dev.drv.kind # "cdc" /\ dev.drv.ep_in \in DOMAIN dev.rings \ halted
  /\ LET ep == dev.drv.ep_in
         tr == dev.rings[ep]
     IN  /\ Offered(tr) # {} /\ reports < MaxReports
         /\ \E keys \in KeySlots, ok \in {TRUE, ~TransfersFail} :
              /\ transfer_events' = Append(transfer_events, TransferEventTRB(ep, tr.deq, ok, <<>>))
              /\ halted' = IF ok THEN halted ELSE halted \cup {ep}
              /\ dev' = [dev EXCEPT !.rings[ep] = Done(@, 1),
                                    !.drv.buf = IF ok THEN ToSet(keys) \ {0} ELSE @]
              /\ pressed' = IF ok THEN ToSet(keys) \ {0} ELSE pressed
  /\ reports' = reports + 1
  /\ UNCHANGED <<usb, configured, serial_sent, serial_got, callers, raced, usb_commands>>

\* The device takes what was sent, or answers a read with the next bytes, at most a buffer. After a failure
\* the endpoint is halted.
CompleteSerial(ep) ==
  /\ IsSerial /\ ep \in {dev.drv.ep_bulk_in, dev.drv.ep_bulk_out} \ halted
  /\ LET tr == dev.rings[ep]
         Bytes(ok) == IF ok /\ ep = dev.drv.ep_bulk_in THEN 1 .. Min({MaxPacket, MaxSerial - serial_sent}) ELSE {0}
     IN  /\ Offered(tr) # {}
         /\ \E ok \in {TRUE, ~TransfersFail} : \E n \in Bytes(ok) :
              /\ transfer_events' = Append(transfer_events, TransferEventTRB(ep, tr.deq, ok, [i \in 1 .. n |-> serial_sent + i]))
              /\ serial_sent' = serial_sent + n
              /\ halted' = IF ok THEN halted ELSE halted \cup {ep}
         /\ dev' = [dev EXCEPT !.rings[ep] = Done(@, 1)]
  /\ UNCHANGED <<usb, configured, pressed, reports, serial_got, callers, raced, usb_commands>>

UsbNext ==
  /\ raced => PastRaces
  /\ \/ Addressed \/ HandleTransferEvent \/ EndpointsConfigured \/ SetLineCoding \/ CompleteControl \/ CompleteReport
     \/ \E t \in Senders : UsbTest(t) \/ ComProc(t) \/ BeginPush(t) \/ StoreTRB(t) \/ AdvanceRing(t)
                           \/ ReceiveSerial(t) \/ ReadFront(t) \/ PopFront(t)
     \/ \E ep \in DOMAIN dev.rings : CompleteSerial(ep)

-----------------------------------------------------------------------------
(* Properties *)

Bulk == {dev.drv.ep_bulk_in, dev.drv.ep_bulk_out}
EventsOf(ep) == {i \in DOMAIN transfer_events : transfer_events[i].ep = ep}
Outstanding(ep) == {dev.rings[ep].mem[(dev.rings[ep].deq + i) % TrSize].buf : i \in Offered(dev.rings[ep])}
InEvents(ep) == {dev.rings[ep].mem[transfer_events[i].issuer].buf : i \in EventsOf(ep)}
InHand(ep) == {callers[t].buf : t \in {u \in CallersAt({"push", "storing"}) : callers[u].ep = ep}}
ToReceive == FlattenSeq([i \in DOMAIN transfer_events |->
                           IF IsSerial /\ transfer_events[i].ep = dev.drv.ep_bulk_in THEN transfer_events[i].data ELSE <<>>])

\* Each buffer is in the hands of the caller that allocated it or of one transfer, until the completion deletes
\* it. That of a transfer that has failed is never deleted: one for each endpoint that is halted.
BuffersAreOwned ==
  LET owned == UNION {InHand(ep) \cup Outstanding(ep) \cup InEvents(ep) : ep \in Bulk}
      owners == MapThenSumSet(LAMBDA ep : Cardinality(CallersAt({"push", "storing"}) \cap {t \in Senders : callers[t].ep = ep})
                                            + Cardinality(Offered(dev.rings[ep])) + Cardinality(EventsOf(ep)), Bulk)
      failed == {ep \in Bulk \cap halted : \A i \in EventsOf(ep) : transfer_events[i].ok}
  IN  /\ owned \subseteq dev.drv.buffers /\ Cardinality(owned) = owners
      /\ Cardinality(dev.drv.buffers \ owned) = Cardinality(failed)

\* However the events of several endpoints are late and interleaved: no handler fails unless a transfer or
\* the device does; with no event left, the observers of a keyboard hold exactly the keys that are down.
\* And wherever the terminals are preempted, as long as no two calls were in the same ring, or took bytes, at
\* the same time: a serial line's bytes come in order and once, and its buffers have one owner each.
DriversKeepUp ==
  /\ dev.error # "none" => halted # {} \/ raced \/ usb.class \notin {0, 2}
  /\ usb # NoValue /\ dev.drv # NoValue /\ dev.drv.kind # "cdc" /\ transfer_events = <<>> => dev.drv.held = pressed
  /\ IsSerial /\ ~raced =>
       /\ serial_got \o dev.drv.receive_buf \o ToReceive = [i \in 1 .. serial_sent |-> i]
       /\ BuffersAreOwned
=============================================================================
