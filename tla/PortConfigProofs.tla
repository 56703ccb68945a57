--------------------------- MODULE PortConfigProofs ---------------------------
(***************************************************************************)
(* AnswersFindPorts and InOrder for any number of ports and slots. The     *)
(* controller's answers do not say which port they are about; what makes   *)
(* them find it is that at most one Enable Slot or Address Device command  *)
(* is on its way, as a command or as its answer, and that it is for the    *)
(* port addressing_port names, whose phase says which of the two it is.    *)
(***************************************************************************)
EXTENDS PortConfig, FiniteSetTheorems, SequenceTheorems, TLAPS

Slots == Slot \cup {0}
Phases == {"NotConnected", "WaitingAddressed", "ResettingPort", "EnablingSlot", "AddressingDevice",
           "InitializingDevice", "ConfiguringEndpoints", "Configured"}
Addressed == {"InitializingDevice", "ConfiguringEndpoints", "Configured"}
Commands == {"EnableSlot", "AddressDevice", "ConfigureEndpoint"}
Command == [command : Commands, slot : Slots, port : Port \cup {0}]
PortEvent == [type : {"port"}, port : Port]
CommandEvent == [type : {"command"}, command : Commands, slot : Slots]
TransferEvents == [type : {"control", "normal"}, slot : Slots, ok : BOOLEAN]
Event == PortEvent \cup CommandEvent \cup TransferEvents

Types ==
  /\ port_config_phase \in [Port -> Phases]
  /\ addressing_port \in Port \cup {0}
  /\ device \subseteq Slots
  /\ init \in [Slots -> Nat]
  /\ slot_port \in [Slots -> Port \cup {0}] /\ slot_port[0] = 0
  /\ slots \subseteq Slot
  /\ commands \in Seq(Command)
  /\ events \in Seq(Event)

\* The commands of which one at most is on its way, and their answers.
Asks(c) == c.command \in {"EnableSlot", "AddressDevice"}
Answers(e) == e.type = "command" /\ e.command \in {"EnableSlot", "AddressDevice"}

OneOnItsWay ==
  /\ \A i, j \in DOMAIN commands : Asks(commands[i]) /\ Asks(commands[j]) => i = j
  /\ \A i, j \in DOMAIN events : Answers(events[i]) /\ Answers(events[j]) => i = j
  /\ \A i \in DOMAIN commands, j \in DOMAIN events : ~(Asks(commands[i]) /\ Answers(events[j]))

\* A slot that was enabled and not yet addressed.
Fresh(s) == s # 0 => s \in slots /\ slot_port[s] = 0

\* What is on its way is for the port being addressed, and says what its phase waits for.
AskedForTurn ==
  \A i \in DOMAIN commands :
    LET c == commands[i] IN
    /\ Asks(c) => c.port = addressing_port /\ addressing_port # 0
    /\ c.command = "EnableSlot" => port_config_phase[addressing_port] = "EnablingSlot"
    /\ c.command = "AddressDevice" =>
         /\ port_config_phase[addressing_port] = "AddressingDevice"
         /\ Fresh(c.slot) /\ \A s \in Slot : slot_port[s] # addressing_port

AnsweredInTurn ==
  \A i \in DOMAIN events :
    LET e == events[i] IN
    Answers(e) =>
      /\ addressing_port # 0
      /\ e.command = "EnableSlot" =>
           port_config_phase[addressing_port] = "EnablingSlot" /\ Fresh(e.slot)
      /\ e.command = "AddressDevice" => port_config_phase[addressing_port] = "AddressingDevice"

\* A slot has the port that was being addressed when it was.
SlotsAddressed ==
  \A s \in Slot : slot_port[s] # 0 =>
    s \in slots /\ port_config_phase[slot_port[s]] \in Addressed \cup {"AddressingDevice"}

SlotsApart == \A s, t \in Slot : slot_port[s] = slot_port[t] /\ slot_port[s] # 0 => s = t

DevicesKnown ==
  \A p \in Port : port_config_phase[p] \in Addressed =>
    \E s \in device : slot_port[s] = p /\ init[s] > 0

IInv ==
  /\ Types /\ OneAddressed
  /\ OneOnItsWay /\ AskedForTurn /\ AnsweredInTurn
  /\ SlotsAddressed /\ SlotsApart /\ DevicesKnown

-----------------------------------------------------------------------------
(* Messages *)

\* The messages between the driver and the controller, and which of them answer a command.
LEMMA Messages ==
  /\ \A p \in Port : PortChange(p) \in Event /\ ~Answers(PortChange(p))
  /\ \A c \in Commands, s \in Slots :
       /\ Completion(c, s) \in Event
       /\ Completion(c, s).command = c /\ Completion(c, s).slot = s
       /\ Answers(Completion(c, s)) <=> c # "ConfigureEndpoint"
  /\ \A s \in Slots, ok \in BOOLEAN :
       /\ TransferEvent(s, "control", ok) \in Event /\ ~Answers(TransferEvent(s, "control", ok))
       /\ TransferEvent(s, "normal", ok) \in Event /\ ~Answers(TransferEvent(s, "normal", ok))
  /\ \A p \in Port, s \in Slots :
       /\ EnableSlotCommandTRB(p) \in Command /\ EnableSlotCommandTRB(p).command = "EnableSlot"
       /\ EnableSlotCommandTRB(p).port = p
       /\ AddressDeviceCommandTRB(p, s) \in Command
       /\ AddressDeviceCommandTRB(p, s).command = "AddressDevice"
       /\ AddressDeviceCommandTRB(p, s).port = p /\ AddressDeviceCommandTRB(p, s).slot = s
  /\ \A p \in Port \cup {0}, s \in Slots :
       ConfigureEndpointCommandTRB(p, s) \in Command /\ ~Asks(ConfigureEndpointCommandTRB(p, s))
<1>1. \A p \in Port : PortChange(p) \in Event /\ ~Answers(PortChange(p))
  BY DEF PortChange, Event, PortEvent, Answers
<1>2. \A c \in Commands, s \in Slots :
        /\ Completion(c, s) \in Event /\ Completion(c, s).command = c /\ Completion(c, s).slot = s
        /\ Answers(Completion(c, s)) <=> c # "ConfigureEndpoint"
  BY DEF Completion, Event, CommandEvent, Answers, Commands
<1>3. \A s \in Slots, ok \in BOOLEAN :
        /\ TransferEvent(s, "control", ok) \in Event /\ ~Answers(TransferEvent(s, "control", ok))
        /\ TransferEvent(s, "normal", ok) \in Event /\ ~Answers(TransferEvent(s, "normal", ok))
  BY DEF TransferEvent, Event, TransferEvents, Answers
<1>4. \A p \in Port, s \in Slots :
        /\ EnableSlotCommandTRB(p) \in Command /\ EnableSlotCommandTRB(p).command = "EnableSlot"
        /\ EnableSlotCommandTRB(p).port = p
        /\ AddressDeviceCommandTRB(p, s) \in Command
        /\ AddressDeviceCommandTRB(p, s).command = "AddressDevice"
        /\ AddressDeviceCommandTRB(p, s).port = p /\ AddressDeviceCommandTRB(p, s).slot = s
  BY DEF EnableSlotCommandTRB, AddressDeviceCommandTRB, Command, Commands, Slots
<1>5. \A p \in Port \cup {0}, s \in Slots :
        ConfigureEndpointCommandTRB(p, s) \in Command /\ ~Asks(ConfigureEndpointCommandTRB(p, s))
  BY DEF ConfigureEndpointCommandTRB, Command, Commands, Asks
<1> QED
  BY <1>1, <1>2, <1>3, <1>4, <1>5

\* What the elements of the two rings are.
LEMMA Elements ==
  ASSUME Types
  PROVE  /\ \A i \in DOMAIN commands : i \in Nat /\ commands[i] \in Command
         /\ \A i \in DOMAIN events : i \in Nat /\ events[i] \in Event
         /\ commands # << >> => 1 \in DOMAIN commands /\ Head(commands) = commands[1]
         /\ events # << >> => 1 \in DOMAIN events /\ Head(events) = events[1]
<1>1. commands \in Seq(Command) /\ events \in Seq(Event)
  BY DEF Types
<1> QED
  BY <1>1, LenProperties, ElementOfSeq, EmptySeq

\* Shifted by k or l places, what is on its way was on its way before.
OldCommands(l) ==
  \A i \in DOMAIN commands' : Asks(commands'[i]) =>
    i + l \in DOMAIN commands /\ commands'[i] = commands[i + l] /\ i \in Nat
OldEvents(k) ==
  \A i \in DOMAIN events' : Answers(events'[i]) =>
    i + k \in DOMAIN events /\ events'[i] = events[i + k] /\ i \in Nat

\* The command ring does not change.
LEMMA CommandsSame ==
  ASSUME Types, commands' = commands
  PROVE  commands' \in Seq(Command) /\ OldCommands(0)
BY Elements DEF Types, OldCommands

\* A status change, or nothing, is reported at the end of the ring.
LEMMA EventsReported ==
  ASSUME Types, NEW r, r = << >> \/ \E p \in Port : r = <<PortChange(p)>>
  PROVE  /\ events' = events \o r => events' \in Seq(Event) /\ OldEvents(0)
         /\ events # << >> /\ events' = Tail(events) \o r => events' \in Seq(Event) /\ OldEvents(1)
<1>1. r \in Seq(Event) /\ Len(r) \in {0, 1} /\ \A i \in 1..Len(r) : ~Answers(r[i])
  <2>1. CASE r = << >>
    BY <2>1, EmptySeq
  <2>2. ASSUME NEW p \in Port, r = <<PortChange(p)>> PROVE r \in Seq(Event) /\ Len(r) = 1 /\ r[1] = PortChange(p)
    BY <2>2, Messages
  <2> QED
    BY <2>1, <2>2, Messages
<1>2. events \in Seq(Event) /\ DOMAIN events = 1..Len(events) /\ Len(events) \in Nat
  BY LenProperties DEF Types
<1>3. ASSUME NEW q \in Seq(Event), events' = q \o r
      PROVE  /\ events' \in Seq(Event)
             /\ \A i \in DOMAIN events' : Answers(events'[i]) => i \in 1..Len(q) /\ events'[i] = q[i]
  <2>1. /\ events' \in Seq(Event) /\ Len(events') = Len(q) + Len(r)
        /\ \A i \in 1..Len(q) + Len(r) : events'[i] = IF i <= Len(q) THEN q[i] ELSE r[i - Len(q)]
    BY <1>1, <1>3, ConcatProperties
  <2>2. DOMAIN events' = 1..Len(q) + Len(r) /\ Len(q) \in Nat
    BY <2>1, LenProperties
  <2> QED
    BY <1>1, <2>1, <2>2
<1>4. ASSUME events' = events \o r PROVE events' \in Seq(Event) /\ OldEvents(0)
  BY <1>2, <1>3, <1>4 DEF OldEvents
<1>5. ASSUME events # << >>, events' = Tail(events) \o r PROVE events' \in Seq(Event) /\ OldEvents(1)
  <2>1. /\ Tail(events) \in Seq(Event) /\ Len(Tail(events)) = Len(events) - 1
        /\ \A i \in 1..Len(Tail(events)) : Tail(events)[i] = events[i + 1]
    BY <1>2, <1>5, HeadTailProperties
  <2>2. /\ events' \in Seq(Event)
        /\ \A i \in DOMAIN events' : Answers(events'[i]) =>
             i \in 1..Len(events) - 1 /\ events'[i] = Tail(events)[i]
    BY <1>3, <1>5, <2>1
  <2> QED
    BY <1>2, <2>1, <2>2 DEF OldEvents
<1> QED
  BY <1>4, <1>5

\* The main task takes the first event.
LEMMA EventsTaken ==
  ASSUME Types, events # << >>, events' = Tail(events)
  PROVE  events' \in Seq(Event) /\ OldEvents(1)
<1>1. events' = Tail(events) \o << >>
  BY HeadTailProperties, ConcatEmptySeq DEF Types
<1> QED
  BY <1>1, EventsReported

\* A new event, or a new command.
LEMMA EventsAdded ==
  ASSUME Types, NEW e \in Event, events' = Append(events, e)
  PROVE  /\ events' \in Seq(Event)
         /\ \A i \in DOMAIN events' : i \in Nat /\ \/ i \in DOMAIN events /\ events'[i] = events[i]
                                                   \/ i = Len(events) + 1 /\ events'[i] = e
         /\ Len(events) + 1 \notin DOMAIN events
         /\ ~Answers(e) => OldEvents(0)
<1>1. events \in Seq(Event) /\ DOMAIN events = 1..Len(events) /\ Len(events) \in Nat
  BY LenProperties DEF Types
<1>2. /\ events' \in Seq(Event) /\ Len(events') = Len(events) + 1
      /\ \A i \in 1..Len(events) : events'[i] = events[i]
      /\ events'[Len(events) + 1] = e
  BY <1>1, AppendProperties
<1>3. DOMAIN events' = 1..Len(events) + 1
  BY <1>2, LenProperties
<1>4. \A i \in DOMAIN events' : i \in Nat /\ \/ i \in DOMAIN events /\ events'[i] = events[i]
                                             \/ i = Len(events) + 1 /\ events'[i] = e
  BY <1>1, <1>2, <1>3
<1>5. ~Answers(e) => OldEvents(0)
  BY <1>1, <1>4 DEF OldEvents
<1> QED
  BY <1>1, <1>2, <1>4, <1>5

\* The driver asks for something.
LEMMA CommandsAdded ==
  ASSUME Types, NEW c \in Command, commands' = Append(commands, c)
  PROVE  /\ commands' \in Seq(Command)
         /\ \A i \in DOMAIN commands' : i \in Nat /\ \/ i \in DOMAIN commands /\ commands'[i] = commands[i]
                                                     \/ i = Len(commands) + 1 /\ commands'[i] = c
         /\ Len(commands) + 1 \notin DOMAIN commands
         /\ ~Asks(c) => OldCommands(0)
<1>1. commands \in Seq(Command) /\ DOMAIN commands = 1..Len(commands) /\ Len(commands) \in Nat
  BY LenProperties DEF Types
<1>2. /\ commands' \in Seq(Command) /\ Len(commands') = Len(commands) + 1
      /\ \A i \in 1..Len(commands) : commands'[i] = commands[i]
      /\ commands'[Len(commands) + 1] = c
  BY <1>1, AppendProperties
<1>3. DOMAIN commands' = 1..Len(commands) + 1
  BY <1>2, LenProperties
<1>4. \A i \in DOMAIN commands' : i \in Nat /\ \/ i \in DOMAIN commands /\ commands'[i] = commands[i]
                                               \/ i = Len(commands) + 1 /\ commands'[i] = c
  BY <1>1, <1>2, <1>3
<1>5. ~Asks(c) => OldCommands(0)
  BY <1>1, <1>4 DEF OldCommands
<1> QED
  BY <1>1, <1>2, <1>4, <1>5

\* The controller takes the first command.
LEMMA CommandsTaken ==
  ASSUME Types, commands # << >>, commands' = Tail(commands)
  PROVE  /\ commands' \in Seq(Command) /\ OldCommands(1)
         /\ \A i \in DOMAIN commands' : i \in Nat /\ i # 0
<1>1. commands \in Seq(Command) /\ DOMAIN commands = 1..Len(commands) /\ Len(commands) \in Nat
  BY LenProperties DEF Types
<1>2. /\ Tail(commands) \in Seq(Command) /\ Len(Tail(commands)) = Len(commands) - 1
      /\ \A i \in 1..Len(Tail(commands)) : Tail(commands)[i] = commands[i + 1]
  BY <1>1, HeadTailProperties
<1>3. DOMAIN commands' = 1..Len(commands) - 1
  BY <1>2, LenProperties
<1> QED
  BY <1>1, <1>2, <1>3 DEF OldCommands

-----------------------------------------------------------------------------
(* Steps *)

Working == {"ResettingPort", "EnablingSlot", "AddressingDevice"}
Idle == {"NotConnected", "WaitingAddressed"}

\* OneAddressed, port by port.
LEMMA OnePort ==
  ASSUME addressing_port \in Port \cup {0}
  PROVE  OneAddressed <=> \A p \in Port : port_config_phase[p] \in Working <=> p = addressing_port
<1>1. 0 \notin Port
  BY DEF Port
<1> QED
  BY <1>1 DEF OneAddressed, Addressing, Working

\* OneAddressed after a step, by the port that is addressed then.
LEMMA OnePortAfter ==
  ASSUME addressing_port' \in Port \cup {0}
  PROVE  OneAddressed' <=> \A p \in Port : port_config_phase'[p] \in Working <=> p = addressing_port'
<1>1. 0 \notin Port
  BY DEF Port
<1> QED
  BY <1>1 DEF OneAddressed, Addressing, Working

\* The first state has the invariant.
LEMMA InitIsSound == Init => IInv
<1> SUFFICES ASSUME Init PROVE IInv
  OBVIOUS
<1>1. /\ port_config_phase = [p \in Port |-> "NotConnected"] /\ addressing_port = 0 /\ device = {}
      /\ init = [s \in Slots |-> 0] /\ slot_port = [s \in Slots |-> 0] /\ slots = {} /\ commands = << >>
  BY DEF Init, Slots
<1>2. events \in Seq(Event) /\ \A i \in DOMAIN events : ~Answers(events[i])
  <2> DEFINE n == Cardinality({p \in Port : connected[p]})
  <2>1. n \in Nat
    <3>1. IsFiniteSet(Port)
      BY FS_Interval, PortAssumption DEF Port
    <3>2. IsFiniteSet({p \in Port : connected[p]})
      BY <3>1, FS_Subset
    <3> QED
      BY <3>2, FS_CardinalityType
  <2>2. PICK order \in [1..n -> Port] : events = [i \in DOMAIN order |-> PortChange(order[i])]
    BY DEF Init
  <2> HIDE DEF n
  <2>3. DOMAIN order = 1..n /\ events \in [1..n -> Event]
    BY <2>2, Messages
  <2>4. \A i \in 1..n : ~Answers(events[i])
    BY <2>2, <2>3, Messages
  <2> QED
    BY <2>1, <2>3, <2>4
<1>3. Types
  <2>1. commands \in Seq(Command)
    BY <1>1, EmptySeq
  <2> QED
    BY <1>1, <1>2, <2>1 DEF Types, Phases, Slots
<1>4. OneAddressed
  BY <1>1, OnePort DEF Working, Port
<1>5. DOMAIN commands = {}
  BY <1>1
<1> QED
  BY <1>1, <1>2, <1>3, <1>4, <1>5
     DEF IInv, OneOnItsWay, AskedForTurn, AnsweredInTurn, SlotsAddressed, SlotsApart, DevicesKnown, Addressed, Slots

\* Nothing new is on its way.
LEMMA StillOneOnItsWay ==
  ASSUME OneOnItsWay, NEW k \in {0, 1}, NEW l \in {0, 1}, OldEvents(k), OldCommands(l)
  PROVE  OneOnItsWay'
<1>1. \A i, j \in DOMAIN commands' : Asks(commands'[i]) /\ Asks(commands'[j]) => i = j
  <2> SUFFICES ASSUME NEW i \in DOMAIN commands', NEW j \in DOMAIN commands',
                      Asks(commands'[i]), Asks(commands'[j])
               PROVE  i = j
    OBVIOUS
  <2>1. /\ i + l \in DOMAIN commands /\ Asks(commands[i + l]) /\ i \in Nat
        /\ j + l \in DOMAIN commands /\ Asks(commands[j + l]) /\ j \in Nat
    BY DEF OldCommands
  <2>2. i + l = j + l
    BY <2>1 DEF OneOnItsWay
  <2> QED
    BY <2>1, <2>2
<1>2. \A i, j \in DOMAIN events' : Answers(events'[i]) /\ Answers(events'[j]) => i = j
  <2> SUFFICES ASSUME NEW i \in DOMAIN events', NEW j \in DOMAIN events',
                      Answers(events'[i]), Answers(events'[j])
               PROVE  i = j
    OBVIOUS
  <2>1. /\ i + k \in DOMAIN events /\ Answers(events[i + k]) /\ i \in Nat
        /\ j + k \in DOMAIN events /\ Answers(events[j + k]) /\ j \in Nat
    BY DEF OldEvents
  <2>2. i + k = j + k
    BY <2>1 DEF OneOnItsWay
  <2> QED
    BY <2>1, <2>2
<1>3. \A i \in DOMAIN commands', j \in DOMAIN events' : ~(Asks(commands'[i]) /\ Answers(events'[j]))
  BY DEF OneOnItsWay, OldCommands, OldEvents
<1> QED
  BY <1>1, <1>2, <1>3 DEF OneOnItsWay, Asks, Answers

\* A step in which no port being addressed and no slot changes.
LEMMA QuietStep ==
  ASSUME IInv, Types', NEW k \in {0, 1}, NEW l \in {0, 1}, OldEvents(k), OldCommands(l),
         UNCHANGED <<addressing_port, slot_port, slots>>, device \subseteq device',
         \A p \in Port : \/ port_config_phase'[p] = port_config_phase[p]
                         \/ port_config_phase[p] \in Addressed /\ port_config_phase'[p] \in Addressed
                         \/ port_config_phase[p] \in Idle /\ port_config_phase'[p] \in Idle,
         \A s \in Slots : init[s] > 0 => init'[s] > 0
  PROVE  IInv'
<1> USE DEF IInv
<1>1. /\ Addressed \cap Working = {} /\ Idle \cap Working = {} /\ Idle \cap Addressed = {}
      /\ "AddressingDevice" \in Working /\ "EnablingSlot" \in Working
  BY DEF Addressed, Working, Idle
<1>2. OneAddressed'
  BY <1>1, OnePort, OnePortAfter DEF Types
<1>3. OneOnItsWay'
  BY StillOneOnItsWay
<1>4. \A p \in Port : port_config_phase[p] \in Working => port_config_phase'[p] = port_config_phase[p]
  BY <1>1
<1>5. AskedForTurn'
  <2> SUFFICES ASSUME NEW i \in DOMAIN commands', NEW c, c = commands'[i], Asks(c)
               PROVE  /\ c.port = addressing_port /\ addressing_port # 0
                      /\ c.command = "EnableSlot" => port_config_phase'[addressing_port] = "EnablingSlot"
                      /\ c.command = "AddressDevice" =>
                           /\ port_config_phase'[addressing_port] = "AddressingDevice"
                           /\ Fresh(c.slot) /\ \A s \in Slot : slot_port[s] # addressing_port
    BY DEF AskedForTurn, Asks, Fresh
  <2>1. i + l \in DOMAIN commands /\ c = commands[i + l]
    BY DEF OldCommands
  <2>2. /\ c.port = addressing_port /\ addressing_port \in Port
        /\ c.command = "EnableSlot" => port_config_phase[addressing_port] = "EnablingSlot"
        /\ c.command = "AddressDevice" =>
             /\ port_config_phase[addressing_port] = "AddressingDevice"
             /\ Fresh(c.slot) /\ \A s \in Slot : slot_port[s] # addressing_port
    BY <2>1 DEF AskedForTurn, Types
  <2> QED
    BY <1>1, <1>4, <2>2, OnePort DEF Port
<1>6. AnsweredInTurn'
  <2> SUFFICES ASSUME NEW i \in DOMAIN events', NEW e, e = events'[i], Answers(e)
               PROVE  /\ addressing_port # 0
                      /\ e.command = "EnableSlot" =>
                           port_config_phase'[addressing_port] = "EnablingSlot" /\ Fresh(e.slot)
                      /\ e.command = "AddressDevice" => port_config_phase'[addressing_port] = "AddressingDevice"
    BY DEF AnsweredInTurn, Answers, Fresh
  <2>1. i + k \in DOMAIN events /\ e = events[i + k]
    BY DEF OldEvents
  <2>2. /\ addressing_port \in Port /\ addressing_port # 0
        /\ e.command = "EnableSlot" =>
             port_config_phase[addressing_port] = "EnablingSlot" /\ Fresh(e.slot)
        /\ e.command = "AddressDevice" => port_config_phase[addressing_port] = "AddressingDevice"
    BY <2>1 DEF AnsweredInTurn, Types
  <2> QED
    BY <1>1, <1>4, <2>2
<1>7. SlotsAddressed' /\ SlotsApart'
  <2>1. \A s \in Slot : slot_port[s] # 0 => slot_port[s] \in Port
    BY DEF Types, Slots
  <2> QED
    BY <1>1, <1>4, <2>1 DEF SlotsAddressed, SlotsApart
<1>8. DevicesKnown'
  <2>1. \A s \in device : s \in Slots
    BY DEF Types
  <2> QED
    BY <1>1, <2>1 DEF DevicesKnown
<1> QED
  BY <1>2, <1>3, <1>5, <1>6, <1>7, <1>8

-----------------------------------------------------------------------------
(* The controller *)

\* Plug keeps the invariant.
LEMMA PlugIsSound ==
  ASSUME IInv, NEW p \in Port, Plug(p) \/ Unplug(p)
  PROVE  IInv'
<1> USE DEF IInv
<1>1. /\ events' = events \o Report(p)
      /\ UNCHANGED <<port_config_phase, addressing_port, device, init, slot_port, slots, commands>>
  BY DEF Plug, Unplug, driver, class
<1>2. Report(p) = << >> \/ \E q \in Port : Report(p) = <<PortChange(q)>>
  BY DEF Report
<1>3. events' \in Seq(Event) /\ OldEvents(0)
  BY <1>1, <1>2, EventsReported
<1>4. OldCommands(0)
  BY <1>1, CommandsSame
<1>5. Types'
  BY <1>1, <1>3 DEF Types
<1> QED
  BY <1>1, <1>3, <1>4, <1>5, QuietStep

\* CompleteTransfer keeps the invariant.
LEMMA CompleteTransferIsSound ==
  ASSUME IInv, NEW s \in Slot, CompleteControl(s) \/ CompleteRead(s)
  PROVE  IInv'
<1> USE DEF IInv
<1>1. UNCHANGED <<port_config_phase, addressing_port, device, init, slot_port, slots, commands>>
  BY DEF CompleteControl, CompleteRead, driver
<1>2. PICK e \in Event : events' = Append(events, e) /\ ~Answers(e)
  <2>1. PICK stage \in {"control", "normal"}, ok \in BOOLEAN : events' = Append(events, TransferEvent(s, stage, ok))
    BY DEF CompleteControl, CompleteRead, Answer
  <2>2. TransferEvent(s, stage, ok) \in Event /\ ~Answers(TransferEvent(s, stage, ok))
    BY Messages DEF Slots
  <2> QED
    BY <2>1, <2>2
<1>3. events' \in Seq(Event) /\ OldEvents(0)
  BY <1>2, EventsAdded
<1>4. OldCommands(0)
  BY <1>1, CommandsSame
<1>5. Types'
  BY <1>1, <1>3 DEF Types
<1> QED
  BY <1>1, <1>3, <1>4, <1>5, QuietStep

\* CompleteConfigureEndpoint keeps the invariant.
LEMMA CompleteConfigureEndpointIsSound ==
  ASSUME IInv, CompleteConfigureEndpoint
  PROVE  IInv'
<1> USE DEF IInv
<1>1. /\ commands # << >> /\ commands' = Tail(commands)
      /\ events' = Append(events, Completion("ConfigureEndpoint", Head(commands).slot))
      /\ UNCHANGED <<port_config_phase, addressing_port, device, init, slot_port, slots>>
  BY DEF CompleteConfigureEndpoint, driver, class
<1>2. Head(commands) \in Command /\ Head(commands).slot \in Slots
  BY <1>1, Elements DEF Command
<1>3. PICK e \in Event : e = Completion("ConfigureEndpoint", Head(commands).slot) /\ ~Answers(e)
  BY <1>2, Messages DEF Commands
<1>4. events' \in Seq(Event) /\ OldEvents(0)
  BY <1>1, <1>3, EventsAdded
<1>5. commands' \in Seq(Command) /\ OldCommands(1)
  BY <1>1, CommandsTaken
<1>6. Types'
  BY <1>1, <1>4, <1>5 DEF Types
<1> QED
  BY <1>1, <1>4, <1>5, <1>6, QuietStep

\* The command the controller completes is the only one on its way.
LEMMA LastCommand ==
  ASSUME IInv, commands # << >>, Asks(Head(commands)), commands' = Tail(commands)
  PROVE  /\ \A i \in DOMAIN commands' : ~Asks(commands'[i])
         /\ \A i \in DOMAIN events : ~Answers(events[i])
         /\ addressing_port \in Port /\ addressing_port # 0 /\ Head(commands).port = addressing_port
<1> USE DEF IInv
<1>1. 1 \in DOMAIN commands /\ Asks(commands[1]) /\ Head(commands) = commands[1]
  BY Elements
<1>2. \A i \in DOMAIN commands' : ~Asks(commands'[i])
  <2> SUFFICES ASSUME NEW i \in DOMAIN commands', Asks(commands'[i]) PROVE FALSE
    OBVIOUS
  <2>1. i + 1 \in DOMAIN commands /\ Asks(commands[i + 1]) /\ i \in Nat /\ i # 0
    BY CommandsTaken DEF OldCommands
  <2>2. i + 1 = 1
    BY <1>1, <2>1 DEF OneOnItsWay
  <2> QED
    BY <2>1, <2>2
<1> QED
  BY <1>1, <1>2 DEF OneOnItsWay, AskedForTurn, Types

\* The answer to it is the only one on its way.
LEMMA NewAnswer ==
  ASSUME Types, NEW e \in Event, events' = Append(events, e),
         \A i \in DOMAIN commands' : ~Asks(commands'[i]),
         \A i \in DOMAIN events : ~Answers(events[i])
  PROVE  OneOnItsWay' /\ AskedForTurn' /\ \A i \in DOMAIN events' : Answers(events'[i]) => events'[i] = e
<1>1. \A i \in DOMAIN events' : Answers(events'[i]) => i = Len(events) + 1 /\ events'[i] = e
  BY EventsAdded
<1>2. AskedForTurn'
  BY DEF AskedForTurn, Asks
<1> QED
  BY <1>1, <1>2 DEF OneOnItsWay, Asks, Answers

\* CompleteEnableSlot keeps the invariant.
LEMMA CompleteEnableSlotIsSound ==
  ASSUME IInv, CompleteEnableSlot
  PROVE  IInv'
<1> USE DEF IInv
<1>1. /\ commands # << >> /\ Head(commands).command = "EnableSlot" /\ commands' = Tail(commands)
      /\ UNCHANGED <<port_config_phase, addressing_port, device, init, slot_port>>
  BY DEF CompleteEnableSlot, driver, class
<1>2. PICK s \in Slots : /\ s # 0 => s \in Slot \ slots
                         /\ slots' = slots \cup ({s} \ {0})
                         /\ events' = Append(events, Completion("EnableSlot", s))
  BY DEF CompleteEnableSlot, Slots
<1>3. PICK e \in Event : /\ e = Completion("EnableSlot", s) /\ Answers(e)
                         /\ e.command = "EnableSlot" /\ e.slot = s
  BY Messages DEF Commands
<1>4. /\ \A i \in DOMAIN commands' : ~Asks(commands'[i])
      /\ \A i \in DOMAIN events : ~Answers(events[i])
      /\ addressing_port \in Port /\ addressing_port # 0
      /\ port_config_phase[addressing_port] = "EnablingSlot"
  <2>1. Asks(Head(commands)) /\ Head(commands) = commands[1] /\ 1 \in DOMAIN commands
    BY <1>1, Elements DEF Asks
  <2> QED
    BY <1>1, <2>1, LastCommand DEF AskedForTurn
<1>5. Types'
  <2>1. events' \in Seq(Event) /\ commands' \in Seq(Command)
    BY <1>1, <1>2, <1>3, EventsAdded, CommandsTaken
  <2> QED
    BY <1>1, <1>2, <2>1 DEF Types, Slots
<1>6. /\ OneOnItsWay' /\ AskedForTurn'
      /\ \A i \in DOMAIN events' : Answers(events'[i]) => events'[i] = e
  BY <1>2, <1>3, <1>4, NewAnswer
<1>7. AnsweredInTurn'
  <2>1. s # 0 => s \in slots' /\ slot_port'[s] = 0
    BY <1>1, <1>2 DEF SlotsAddressed
  <2> QED
    BY <1>1, <1>3, <1>4, <1>6, <2>1 DEF AnsweredInTurn, Answers, Fresh
<1>8. OneAddressed' /\ SlotsAddressed' /\ SlotsApart' /\ DevicesKnown'
  BY <1>1, <1>2 DEF OneAddressed, Addressing, SlotsAddressed, SlotsApart, DevicesKnown
<1> QED
  BY <1>5, <1>6, <1>7, <1>8

\* CompleteAddressDevice keeps the invariant.
LEMMA CompleteAddressDeviceIsSound ==
  ASSUME IInv, CompleteAddressDevice
  PROVE  IInv'
<1> USE DEF IInv
<1>1. PICK c \in Command :
        /\ c = Head(commands) /\ c.command = "AddressDevice"
        /\ commands # << >> /\ commands' = Tail(commands)
        /\ events' = Append(events, Completion("AddressDevice", c.slot))
        /\ \/ c.slot # 0 /\ slot_port' = [slot_port EXCEPT ![c.slot] = c.port]
           \/ slot_port' = slot_port
        /\ UNCHANGED <<port_config_phase, addressing_port, device, init, slots>>
  BY Elements DEF CompleteAddressDevice, driver, class
<1>2. c.slot \in Slots /\ c.port \in Port \cup {0}
  BY DEF Command
<1>3. PICK e \in Event : e = Completion("AddressDevice", c.slot) /\ e.command = "AddressDevice"
  BY <1>2, Messages DEF Commands
<1>4. /\ \A i \in DOMAIN commands' : ~Asks(commands'[i])
      /\ \A i \in DOMAIN events : ~Answers(events[i])
      /\ addressing_port \in Port /\ addressing_port # 0 /\ c.port = addressing_port
      /\ port_config_phase[addressing_port] = "AddressingDevice"
      /\ Fresh(c.slot) /\ \A s \in Slot : slot_port[s] # addressing_port
  <2>1. Asks(Head(commands)) /\ Head(commands) = commands[1] /\ 1 \in DOMAIN commands
    BY <1>1, Elements DEF Asks
  <2> QED
    BY <1>1, <2>1, LastCommand DEF AskedForTurn
<1>5. /\ \A s \in Slots : \/ slot_port'[s] = slot_port[s]
                          \/ s = c.slot /\ s # 0 /\ slot_port'[s] = addressing_port
      /\ slot_port' \in [Slots -> Port \cup {0}]
  BY <1>1, <1>2, <1>4 DEF Types
<1>6. Types'
  <2>1. events' \in Seq(Event) /\ commands' \in Seq(Command)
    BY <1>1, <1>3, EventsAdded, CommandsTaken
  <2>2. slot_port'[0] = 0
    BY <1>5 DEF Types, Slots
  <2> QED
    BY <1>1, <1>5, <2>1, <2>2 DEF Types
<1>7. /\ OneOnItsWay' /\ AskedForTurn'
      /\ \A i \in DOMAIN events' : Answers(events'[i]) => events'[i] = e
  BY <1>1, <1>3, <1>4, NewAnswer
<1>8. AnsweredInTurn'
  BY <1>1, <1>3, <1>4, <1>7 DEF AnsweredInTurn, Answers
<1>9. SlotsAddressed'
  BY <1>1, <1>4, <1>5 DEF SlotsAddressed, Fresh, Slots
<1>10. SlotsApart'
  BY <1>4, <1>5 DEF SlotsApart, Slots
<1>11. DevicesKnown'
  <2> SUFFICES ASSUME NEW p \in Port, port_config_phase[p] \in Addressed
               PROVE  \E s \in device : slot_port'[s] = p /\ init[s] > 0
    BY <1>1 DEF DevicesKnown
  <2>1. PICK s \in device : slot_port[s] = p /\ init[s] > 0
    BY DEF DevicesKnown
  <2>2. s \in Slots /\ slot_port[s] # 0
    BY <2>1 DEF Types, Port
  <2>3. slot_port'[s] = p
    BY <1>4, <1>5, <2>1, <2>2 DEF Fresh
  <2> QED
    BY <2>1, <2>3
<1>12. OneAddressed'
  BY <1>1 DEF OneAddressed, Addressing
<1> QED
  BY <1>6, <1>7, <1>8, <1>9, <1>10, <1>11, <1>12

-----------------------------------------------------------------------------
(* The driver *)

\* A turn begins or ends with nothing on its way.
LEMMA NothingOnItsWay ==
  ASSUME \A i \in DOMAIN commands' : ~Asks(commands'[i]),
         \A i \in DOMAIN events' : ~Answers(events'[i])
  PROVE  OneOnItsWay' /\ AskedForTurn' /\ AnsweredInTurn'
BY DEF OneOnItsWay, AskedForTurn, AnsweredInTurn, Asks, Answers

\* The driver's new command is the only one on its way.
LEMMA NewCommand ==
  ASSUME Types, NEW c \in Command, commands' = Append(commands, c),
         \A i \in DOMAIN commands : ~Asks(commands[i]),
         \A i \in DOMAIN events' : ~Answers(events'[i])
  PROVE  OneOnItsWay' /\ AnsweredInTurn' /\ \A i \in DOMAIN commands' : Asks(commands'[i]) => commands'[i] = c
<1>1. \A i \in DOMAIN commands' : Asks(commands'[i]) => i = Len(commands) + 1 /\ commands'[i] = c
  BY CommandsAdded
<1>2. AnsweredInTurn'
  BY DEF AnsweredInTurn, Answers
<1> QED
  BY <1>1, <1>2 DEF OneOnItsWay, Asks, Answers

\* The answer the driver takes is the only one on its way.
LEMMA LastAnswer ==
  ASSUME IInv, events # << >>, Answers(Head(events)), events' \in Seq(Event), OldEvents(1)
  PROVE  /\ \A i \in DOMAIN commands : ~Asks(commands[i])
         /\ \A i \in DOMAIN events' : ~Answers(events'[i])
         /\ addressing_port \in Port /\ addressing_port # 0
<1> USE DEF IInv
<1>1. 1 \in DOMAIN events /\ Answers(events[1]) /\ Head(events) = events[1]
  BY Elements
<1>2. DOMAIN events' = 1..Len(events') /\ Len(events') \in Nat
  BY LenProperties
<1>3. \A i \in DOMAIN events' : ~Answers(events'[i])
  <2> SUFFICES ASSUME NEW i \in DOMAIN events', Answers(events'[i]) PROVE FALSE
    OBVIOUS
  <2>1. i + 1 \in DOMAIN events /\ Answers(events[i + 1]) /\ i \in Nat /\ i # 0
    BY <1>2 DEF OldEvents
  <2>2. i + 1 = 1
    BY <1>1, <2>1 DEF OneOnItsWay
  <2> QED
    BY <2>1, <2>2
<1> QED
  BY <1>1, <1>3 DEF OneOnItsWay, AnsweredInTurn, Types

\* Nothing is on its way in another phase.
LEMMA NoneOnItsWay ==
  ASSUME IInv, addressing_port = 0 \/ port_config_phase[addressing_port] = "ResettingPort"
  PROVE  /\ \A i \in DOMAIN commands : ~Asks(commands[i])
         /\ \A i \in DOMAIN events : ~Answers(events[i])
BY DEF IInv, AskedForTurn, AnsweredInTurn, Asks, Answers

\* ResetPort for a port that waits for a device.
LEMMA ResetIsSound ==
  ASSUME IInv, NEW p \in Port, port_config_phase[p] = "NotConnected", NEW r,
         r = ResetPort(port_config_phase, addressing_port, p), port_config_phase' = r.phases,
         \/ Apply(r, events)
         \/ Apply(r, Tail(events)) /\ events # << >>,
         UNCHANGED <<device, init, slot_port, slots, commands>>
  PROVE  IInv'
<1> USE DEF IInv
<1>1. /\ port_config_phase \in [Port -> Phases] /\ addressing_port' = r.ap /\ 0 \notin Port
      /\ "WaitingAddressed" \in Phases /\ "ResettingPort" \in Phases
  <2>1. addressing_port' = r.ap
    BY DEF Apply
  <2>2. 0 \notin Port
    BY DEF Port
  <2> QED
    BY <2>1, <2>2 DEF Types, Phases
<1>2. \/ r.phases = port_config_phase /\ r.ap = addressing_port /\ r.reset = {}
      \/ /\ addressing_port # 0 /\ r.phases = [port_config_phase EXCEPT ![p] = "WaitingAddressed"]
         /\ r.ap = addressing_port /\ r.reset = {}
      \/ /\ addressing_port = 0 /\ r.phases = [port_config_phase EXCEPT ![p] = "ResettingPort"]
         /\ r.ap = p /\ r.reset = {p}
  BY DEF ResetPort
<1>3. PICK k \in {0, 1} : events' \in Seq(Event) /\ OldEvents(k)
  <2> DEFINE new == IF r.reset = {} THEN << >> ELSE <<PortChange(r.ap)>>
  <2>1. new = << >> \/ \E q \in Port : new = <<PortChange(q)>>
    BY <1>2
  <2>2. events' = events \o new \/ (events' = Tail(events) \o new /\ events # << >>)
    BY DEF Apply
  <2> HIDE DEF new
  <2> QED
    BY <2>1, <2>2, EventsReported
<1>4. OldCommands(0) /\ commands' \in Seq(Command)
  BY CommandsSame
<1>5. Types'
  BY <1>1, <1>2, <1>3, <1>4 DEF Types
<1>6. CASE addressing_port = 0 /\ r.ap = p /\ r.phases = [port_config_phase EXCEPT ![p] = "ResettingPort"]
  <2>1. /\ port_config_phase'[p] = "ResettingPort"
        /\ \A q \in Port : q # p => port_config_phase'[q] = port_config_phase[q]
    BY <1>1, <1>6
  <2>2. OneAddressed'
    <3>1. \A q \in Port : port_config_phase[q] \notin Working
      BY <1>1, <1>6, OnePort
    <3> QED
      BY <1>1, <1>6, <2>1, <3>1, OnePortAfter DEF Working
  <2>3. OneOnItsWay' /\ AskedForTurn' /\ AnsweredInTurn'
    <3>1. \A i \in DOMAIN events' : ~Answers(events'[i])
      BY <1>3, <1>6, NoneOnItsWay DEF OldEvents
    <3>2. \A i \in DOMAIN commands' : ~Asks(commands'[i])
      BY <1>6, NoneOnItsWay
    <3> QED
      BY <3>1, <3>2, NothingOnItsWay
  <2>4. SlotsAddressed' /\ SlotsApart'
    <3>1. \A s \in Slot : slot_port[s] # 0 => slot_port[s] \in Port /\ slot_port[s] # p
      BY DEF Types, Slots, SlotsAddressed, Addressed
    <3> QED
      BY <2>1, <3>1 DEF SlotsAddressed, SlotsApart
  <2>5. DevicesKnown'
    BY <2>1 DEF DevicesKnown, Addressed
  <2> QED
    BY <1>5, <2>2, <2>3, <2>4, <2>5
<1>7. CASE r.ap = addressing_port /\ r.phases \in {port_config_phase, [port_config_phase EXCEPT ![p] = "WaitingAddressed"]}
  <2>1. \A q \in Port : \/ port_config_phase'[q] = port_config_phase[q]
                        \/ port_config_phase[q] \in Idle /\ port_config_phase'[q] \in Idle
    BY <1>1, <1>7 DEF Idle
  <2> QED
    BY <1>1, <1>3, <1>4, <1>5, <1>7, <2>1, QuietStep
<1> QED
  BY <1>2, <1>6, <1>7

\* The event at the front of the ring.
LEMMA FrontIs ==
  ASSUME Types, NEW type, Front(type)
  PROVE  /\ events # << >> /\ Head(events) \in Event /\ Head(events).type = type
         /\ type = "port" => Head(events).port \in Port
         /\ type = "command" => Head(events) \in CommandEvent /\ Head(events).slot \in Slots
         /\ type \in {"control", "normal"} => Head(events).slot \in Slots
<1>1. events # << >> /\ Head(events) \in Event /\ Head(events).type = type
  BY Elements DEF Front
<1> QED
  BY <1>1 DEF Event, PortEvent, CommandEvent, TransferEvents

\* Ignore keeps the invariant.
LEMMA IgnoreIsSound ==
  ASSUME IInv, events # << >>, Ignore, UNCHANGED <<slot_port, slots>>
  PROVE  IInv'
<1> USE DEF IInv
<1>1. /\ events' = Tail(events)
      /\ UNCHANGED <<port_config_phase, addressing_port, device, init, commands>>
  BY DEF Ignore, class
<1>2. events' \in Seq(Event) /\ OldEvents(1)
  BY <1>1, EventsTaken
<1>3. OldCommands(0) /\ Types'
  BY <1>1, <1>2, CommandsSame DEF Types
<1> QED
  BY <1>1, <1>2, <1>3, QuietStep

\* ConfigurePort keeps the invariant.
LEMMA ConfigurePortIsSound ==
  ASSUME IInv, ConfigurePort
  PROVE  IInv'
<1> USE DEF IInv
<1>1. boot \in Port /\ UNCHANGED <<device, init, slot_port, slots, commands>>
  BY DEF ConfigurePort, class
<1>2. CASE port_config_phase[boot] = "NotConnected"
  <2>1. PICK p \in Port : p = boot
    BY <1>1
  <2>2. PICK r : r = ResetPort(port_config_phase, addressing_port, p)
    OBVIOUS
  <2>3. port_config_phase' = r.phases /\ Apply(r, events)
    BY <1>2, <2>1, <2>2 DEF ConfigurePort
  <2> QED
    BY <1>1, <1>2, <2>1, <2>2, <2>3, ResetIsSound
<1>3. CASE port_config_phase[boot] # "NotConnected"
  <2>1. UNCHANGED <<port_config_phase, addressing_port, events>>
    BY <1>3 DEF ConfigurePort
  <2>2. /\ OldEvents(0) /\ OldCommands(0) /\ Types'
    BY <1>1, <2>1, Elements, CommandsSame DEF Types, OldEvents
  <2> QED
    BY <1>1, <2>1, <2>2, QuietStep
<1> QED
  BY <1>2, <1>3

\* OnPortStatusChange keeps the invariant.
LEMMA OnPortStatusChangeIsSound ==
  ASSUME IInv, OnPortStatusChange
  PROVE  IInv'
<1> USE DEF IInv
<1>1. PICK p \in Port : p = Head(events).port
  BY FrontIs DEF OnPortStatusChange
<1>2. events # << >> /\ UNCHANGED <<slot_port, slots>>
  BY DEF OnPortStatusChange, Front
<1>3. CASE port_config_phase[p] = "NotConnected"
  <2>1. PICK r : r = ResetPort(port_config_phase, addressing_port, p)
    OBVIOUS
  <2>2. /\ port_config_phase' = r.phases /\ Apply(r, Tail(events))
        /\ UNCHANGED <<device, init, commands>>
    BY <1>1, <1>3, <2>1 DEF OnPortStatusChange, Resets, class
  <2> QED
    BY <1>2, <1>3, <2>1, <2>2, ResetIsSound
<1>4. CASE Ignore
  BY <1>2, <1>4, IgnoreIsSound
<1>5. CASE port_config_phase[p] = "ResettingPort" /\ EnableSlot(p)
  <2>1. /\ port_config_phase' = [port_config_phase EXCEPT ![p] = "EnablingSlot"]
        /\ commands' = Append(commands, EnableSlotCommandTRB(p)) /\ events' = Tail(events)
        /\ UNCHANGED <<addressing_port, device, init>>
    BY <1>5 DEF EnableSlot, Enter, class
  <2>2. p = addressing_port /\ addressing_port # 0
    <3>1. 0 \notin Port
      BY DEF Port
    <3> QED
      BY <1>5, <3>1, OnePort DEF Types, Working
  <2>3. /\ port_config_phase'[p] = "EnablingSlot"
        /\ \A q \in Port : q # p => port_config_phase'[q] = port_config_phase[q]
    BY <2>1 DEF Types
  <2>4. PICK c \in Command : c = EnableSlotCommandTRB(p) /\ c.command = "EnableSlot" /\ c.port = p
    BY Messages DEF Slots
  <2>5. events' \in Seq(Event) /\ OldEvents(1) /\ commands' \in Seq(Command)
    BY <1>2, <2>1, <2>4, EventsTaken, CommandsAdded
  <2>6. Types'
    BY <1>2, <2>1, <2>5 DEF Types, Phases
  <2>7. OneAddressed'
    BY <1>5, <2>1, <2>2, <2>3, OnePort, OnePortAfter DEF Types, Working
  <2>8. OneOnItsWay' /\ AnsweredInTurn' /\ \A i \in DOMAIN commands' : Asks(commands'[i]) => commands'[i] = c
    <3>1. \A i \in DOMAIN events' : ~Answers(events'[i])
      BY <1>5, <2>2, <2>5, NoneOnItsWay DEF OldEvents
    <3> QED
      BY <1>5, <2>1, <2>2, <2>4, <3>1, NoneOnItsWay, NewCommand
  <2>9. AskedForTurn'
    BY <2>1, <2>2, <2>3, <2>4, <2>8 DEF AskedForTurn, Asks
  <2>10. SlotsAddressed' /\ SlotsApart'
    <3>1. \A s \in Slot : slot_port[s] # 0 => slot_port[s] \in Port /\ slot_port[s] # p
      BY <1>5 DEF Types, Slots, SlotsAddressed, Addressed
    <3> QED
      BY <1>2, <2>3, <3>1 DEF SlotsAddressed, SlotsApart
  <2>11. DevicesKnown'
    BY <1>2, <2>1, <2>3 DEF DevicesKnown, Addressed
  <2> QED
    BY <2>6, <2>7, <2>8, <2>9, <2>10, <2>11
<1> QED
  BY <1>1, <1>3, <1>4, <1>5 DEF OnPortStatusChange, Resets

\* OnSlotEnabled keeps the invariant.
LEMMA OnSlotEnabledIsSound ==
  ASSUME IInv, OnSlotEnabled
  PROVE  IInv'
<1> USE DEF IInv
<1>1. /\ events # << >> /\ Head(events).type = "command" /\ Head(events).command = "EnableSlot"
      /\ Head(events).slot \in Slots /\ UNCHANGED <<slot_port, slots>>
  BY FrontIs DEF OnSlotEnabled
<1>2. Answers(Head(events)) /\ 1 \in DOMAIN events /\ Head(events) = events[1]
  BY <1>1, Elements DEF Answers
<1>3. PICK s \in Slots : s = Head(events).slot
  BY <1>1
<1>4. addressing_port # 0 /\ port_config_phase[addressing_port] = "EnablingSlot" /\ Fresh(s)
  BY <1>1, <1>2, <1>3 DEF AnsweredInTurn
<1>5. PICK p \in Port : p = addressing_port
  BY <1>4 DEF Types
<1>6. /\ device' = device \cup {s} /\ port_config_phase' = [port_config_phase EXCEPT ![p] = "AddressingDevice"]
      /\ commands' = Append(commands, AddressDeviceCommandTRB(p, s)) /\ events' = Tail(events)
      /\ UNCHANGED <<addressing_port, init>>
  BY <1>3, <1>4, <1>5 DEF OnSlotEnabled, AddressDevice, AllocDevice, Enter, class
<1>7. /\ port_config_phase'[p] = "AddressingDevice"
      /\ \A q \in Port : q # p => port_config_phase'[q] = port_config_phase[q]
  BY <1>6 DEF Types
<1>8. PICK c \in Command : /\ c = AddressDeviceCommandTRB(p, s) /\ c.command = "AddressDevice"
                           /\ c.port = p /\ c.slot = s
  BY Messages
<1>9. events' \in Seq(Event) /\ OldEvents(1) /\ commands' \in Seq(Command)
  BY <1>1, <1>6, <1>8, EventsTaken, CommandsAdded
<1>10. Types'
  BY <1>1, <1>6, <1>9 DEF Types, Phases
<1>11. OneAddressed'
  BY <1>4, <1>5, <1>6, <1>7, OnePort, OnePortAfter DEF Types, Working
<1>12. OneOnItsWay' /\ AnsweredInTurn' /\ \A i \in DOMAIN commands' : Asks(commands'[i]) => commands'[i] = c
  BY <1>1, <1>2, <1>6, <1>8, <1>9, LastAnswer, NewCommand
<1>13. \A x \in Slot : slot_port[x] # 0 => slot_port[x] \in Port /\ slot_port[x] # p
  BY <1>4, <1>5 DEF Types, Slots, SlotsAddressed, Addressed
<1>14. AskedForTurn'
  BY <1>1, <1>4, <1>5, <1>6, <1>7, <1>8, <1>12, <1>13 DEF AskedForTurn, Asks, Fresh
<1>15. SlotsAddressed' /\ SlotsApart'
  BY <1>1, <1>7, <1>13 DEF SlotsAddressed, SlotsApart
<1>16. DevicesKnown'
  BY <1>1, <1>6, <1>7 DEF DevicesKnown, Addressed
<1> QED
  BY <1>10, <1>11, <1>12, <1>14, <1>15, <1>16

\* The first waiting port is one.
LEMMA FirstWaiting ==
  ASSUME NEW waiting \in SUBSET Port, waiting # {}
  PROVE  Min(waiting) \in Port /\ Min(waiting) \in waiting
<1>1. waiting \subseteq Nat
  BY DEF Port
<1>2. PICK m \in waiting : \A n \in waiting : <<n, m>> \notin OpToRel(<, Nat)
  BY <1>1, WFMin, NatLessThanWellFounded
<1>3. \A n \in waiting : ~(n < m)
  BY <1>1, <1>2 DEF OpToRel
<1>4. \A n \in waiting : m <= n
  BY <1>1, <1>3
<1>5. Min(waiting) \in waiting
  BY <1>4 DEF Min
<1> QED
  BY <1>5

\* The turn passes to a waiting port or to none.
LEMMA ResetFirstWaitingIs ==
  ASSUME NEW r, r = ResetFirstWaiting
  PROVE  \/ r.phases = port_config_phase /\ r.ap = 0 /\ r.reset = {}
         \/ \E q \in Port : /\ port_config_phase[q] = "WaitingAddressed" /\ r.ap = q /\ r.reset = {q}
                            /\ r.phases = [port_config_phase EXCEPT ![q] = "ResettingPort"]
<1> DEFINE waiting == {p \in Port : port_config_phase[p] = "WaitingAddressed"}
<1>1. CASE waiting = {}
  BY <1>1 DEF ResetFirstWaiting
<1>2. CASE waiting # {}
  <2>1. PICK q : q = Min(waiting)
    OBVIOUS
  <2>2. q \in Port /\ port_config_phase[q] = "WaitingAddressed"
    <3>1. waiting \in SUBSET Port
      OBVIOUS
    <3>2. q \in waiting
      BY <1>2, <2>1, <3>1, FirstWaiting
    <3> QED
      BY <3>2
  <2>3. r = ResetPort(port_config_phase, 0, q)
    BY <1>2, <2>1 DEF ResetFirstWaiting
  <2>4. \/ r = [phases |-> port_config_phase, ap |-> 0, reset |-> {}]
        \/ r = [phases |-> [port_config_phase EXCEPT ![q] = "ResettingPort"], ap |-> q, reset |-> {q}]
    BY <2>3 DEF ResetPort
  <2>5. CASE r = [phases |-> port_config_phase, ap |-> 0, reset |-> {}]
    <3>1. r.phases = port_config_phase /\ r.ap = 0 /\ r.reset = {}
      BY <2>5
    <3> QED
      BY <3>1
  <2>6. CASE r = [phases |-> [port_config_phase EXCEPT ![q] = "ResettingPort"], ap |-> q, reset |-> {q}]
    <3>1. r.phases = [port_config_phase EXCEPT ![q] = "ResettingPort"]
      BY <2>6
    <3>2. r.ap = q /\ r.reset = {q}
      BY <2>6
    <3> QED
      BY <2>2, <3>1, <3>2
  <2> QED
    BY <2>4, <2>5, <2>6
<1> QED
  BY <1>1, <1>2

\* OnAddressed keeps the invariant.
LEMMA OnAddressedIsSound ==
  ASSUME IInv, OnAddressed
  PROVE  IInv'
<1> USE DEF IInv
<1>1. /\ events # << >> /\ Head(events).type = "command" /\ Head(events).command = "AddressDevice"
      /\ Head(events).slot \in Slots /\ UNCHANGED <<slot_port, slots>>
  BY FrontIs DEF OnAddressed
<1>2. PICK s \in Slots : s = Head(events).slot
  BY <1>1
<1>3. PICK p : p = slot_port[s]
  OBVIOUS
<1>4. CASE ~(FindBySlot(s) /\ p # 0 /\ p = addressing_port /\ port_config_phase[p] = "AddressingDevice")
  <2>1. Ignore
    BY <1>2, <1>3, <1>4 DEF OnAddressed, PortOf
  <2> QED
    BY <1>1, <2>1, IgnoreIsSound
<1>5. CASE FindBySlot(s) /\ p # 0 /\ p = addressing_port /\ port_config_phase[p] = "AddressingDevice"
  <2>1. PICK r : r = ResetFirstWaiting
    OBVIOUS
  <2>2. Apply(r, Tail(events)) /\ InitializeDevice(r.phases, p, s) /\ UNCHANGED <<device, commands>>
    BY <1>2, <1>3, <1>5, <2>1 DEF OnAddressed, PortOf
  <2>3. /\ port_config_phase' = [r.phases EXCEPT ![p] = "InitializingDevice"]
        /\ init' = [init EXCEPT ![s] = 1] /\ addressing_port' = r.ap
        /\ UNCHANGED <<device, commands>>
    BY <2>2 DEF InitializeDevice, Apply
  <2>4. \/ r.phases = port_config_phase /\ r.ap = 0 /\ r.reset = {}
        \/ \E q \in Port : /\ port_config_phase[q] = "WaitingAddressed" /\ r.ap = q /\ r.reset = {q}
                           /\ r.phases = [port_config_phase EXCEPT ![q] = "ResettingPort"]
    BY <2>1, ResetFirstWaitingIs
  <2>5. /\ p \in Port /\ s \in device /\ r.ap \in Port \cup {0} /\ 0 \notin Port
        /\ port_config_phase' \in [Port -> Phases]
        /\ port_config_phase'[p] = "InitializingDevice"
        /\ \A x \in Port : x # p =>
             \/ port_config_phase'[x] = port_config_phase[x] /\ x # r.ap
             \/ /\ port_config_phase[x] = "WaitingAddressed" /\ port_config_phase'[x] = "ResettingPort"
                /\ x = r.ap
        /\ r.ap # p
    <3>1. /\ p \in Port /\ s \in device /\ port_config_phase \in [Port -> Phases] /\ 0 \notin Port
          /\ \A x \in Port : x # p => port_config_phase[x] \notin Working
      BY <1>5, OnePort DEF Types, FindBySlot, Port
    <3>2. CASE r.phases = port_config_phase /\ r.ap = 0
      BY <2>3, <3>1, <3>2 DEF Phases
    <3>4. CASE \E q \in Port : /\ port_config_phase[q] = "WaitingAddressed" /\ r.ap = q
                               /\ r.phases = [port_config_phase EXCEPT ![q] = "ResettingPort"]
      <4>1. PICK q \in Port : /\ port_config_phase[q] = "WaitingAddressed" /\ r.ap = q
                              /\ r.phases = [port_config_phase EXCEPT ![q] = "ResettingPort"]
        BY <3>4
      <4>2. q # p /\ "ResettingPort" \in Phases /\ "InitializingDevice" \in Phases
        BY <1>5, <4>1 DEF Phases
      <4>3. port_config_phase' = [[port_config_phase EXCEPT ![q] = "ResettingPort"] EXCEPT ![p] = "InitializingDevice"]
        BY <2>3, <4>1
      <4> QED
        BY <3>1, <4>1, <4>2, <4>3
    <3> QED
      BY <2>4, <3>2, <3>4
  <2>6. events' \in Seq(Event) /\ OldEvents(1)
    <3> DEFINE new == IF r.reset = {} THEN << >> ELSE <<PortChange(r.ap)>>
    <3>1. new = << >> \/ \E q \in Port : new = <<PortChange(q)>>
      BY <2>4
    <3>2. events' = Tail(events) \o new
      BY <2>2 DEF Apply
    <3> HIDE DEF new
    <3> QED
      BY <1>1, <3>1, <3>2, EventsReported
  <2>7. init' \in [Slots -> Nat] /\ init'[s] = 1 /\ \A x \in Slots : init[x] > 0 => init'[x] > 0
    BY <2>3 DEF Types
  <2>8. Types'
    BY <1>1, <2>3, <2>5, <2>6, <2>7 DEF Types
  <2>9. OneAddressed'
    <3>1. \A x \in Port : port_config_phase'[x] \in Working <=> x = r.ap
      <4>1. \A x \in Port : x # p => port_config_phase[x] \notin Working
        BY <1>5, OnePort DEF Types
      <4> QED
        BY <2>5, <4>1 DEF Working
    <3> QED
      BY <2>3, <2>5, <3>1, OnePortAfter
  <2>10. OneOnItsWay' /\ AskedForTurn' /\ AnsweredInTurn'
    <3>1. Answers(Head(events))
      BY <1>1 DEF Answers
    <3> QED
      BY <1>1, <2>3, <2>6, <3>1, LastAnswer, NothingOnItsWay
  <2>11. SlotsAddressed' /\ SlotsApart'
    <3>1. \A x \in Slot : slot_port[x] # 0 => slot_port[x] \in Port
      BY DEF Types, Slots
    <3> QED
      BY <1>1, <2>5, <3>1 DEF SlotsAddressed, SlotsApart, Addressed
  <2>12. DevicesKnown'
    <3> SUFFICES ASSUME NEW x \in Port, port_config_phase'[x] \in Addressed
                 PROVE  \E y \in device : slot_port[y] = x /\ init'[y] > 0
      BY <1>1, <2>3 DEF DevicesKnown
    <3>1. CASE x = p
      BY <1>3, <2>5, <2>7, <3>1
    <3>2. CASE x # p
      <4>1. PICK y \in device : slot_port[y] = x /\ init[y] > 0
        BY <2>5, <3>2 DEF DevicesKnown, Addressed
      <4> QED
        BY <2>7, <4>1 DEF Types
    <3> QED
      BY <3>1, <3>2
  <2> QED
    BY <2>8, <2>9, <2>10, <2>11, <2>12
<1> QED
  BY <1>4, <1>5

\* The phases of a device and of its driver, and what they ask for.
LEMMA OnTransferEventIs ==
  ASSUME Types, NEW s \in Slots, OnTransferEventReceived(s)
  PROVE  init' \in [Slots -> Nat] /\ \A x \in Slots : init[x] > 0 => init'[x] > 0
<1>1. \/ init' = init
      \/ init' = [init EXCEPT ![s] = 2] /\ init[s] = 2
      \/ init' = [init EXCEPT ![s] = @ + 1]
  BY DEF OnTransferEventReceived, OnControlCompleted, OnNormalCompleted, StartPolling, Initialize,
         NormalIn, class
<1>2. init \in [Slots -> Nat]
  BY DEF Types
<1>3. CASE init' = init
  BY <1>2, <1>3
<1>4. CASE init' = [init EXCEPT ![s] = 2]
  BY <1>2, <1>4
<1>5. CASE init' = [init EXCEPT ![s] = @ + 1]
  BY <1>2, <1>5
<1> QED
  BY <1>1, <1>3, <1>4, <1>5

\* OnTransfer keeps the invariant.
LEMMA OnTransferIsSound ==
  ASSUME IInv, OnTransfer
  PROVE  IInv'
<1> USE DEF IInv
<1>1. events # << >> /\ Head(events).slot \in Slots /\ UNCHANGED <<slot_port, slots>>
  BY FrontIs DEF OnTransfer
<1>2. PICK s \in Slots, p \in Port \cup {0} : s = Head(events).slot /\ p = slot_port[s]
  BY <1>1 DEF Types
<1>3. CASE Ignore
  BY <1>1, <1>3, IgnoreIsSound
<1>4. CASE ~Ignore
  <2>1. /\ OnTransferEventReceived(s)
        /\ \/ /\ port_config_phase[p] = "InitializingDevice"
              /\ port_config_phase' = [port_config_phase EXCEPT ![p] = "ConfiguringEndpoints"]
              /\ commands' = Append(commands, ConfigureEndpointCommandTRB(p, s))
           \/ UNCHANGED <<port_config_phase, commands>>
        /\ events' = Tail(events) /\ UNCHANGED <<addressing_port, device>>
    BY <1>2, <1>4 DEF OnTransfer, PortOf, ConfigureEndpoints, Enter
  <2>2. events' \in Seq(Event) /\ OldEvents(1)
    BY <1>1, <2>1, EventsTaken
  <2>3. commands' \in Seq(Command) /\ OldCommands(0)
    <3>1. ConfigureEndpointCommandTRB(p, s) \in Command /\ ~Asks(ConfigureEndpointCommandTRB(p, s))
      BY Messages
    <3> QED
      BY <2>1, <3>1, CommandsSame, CommandsAdded
  <2>4. \A x \in Port : \/ port_config_phase'[x] = port_config_phase[x]
                        \/ port_config_phase[x] \in Addressed /\ port_config_phase'[x] \in Addressed
    BY <2>1 DEF Types, Addressed
  <2>5. init' \in [Slots -> Nat] /\ \A x \in Slots : init[x] > 0 => init'[x] > 0
    BY <2>1, OnTransferEventIs
  <2>6. Types'
    <3>1. port_config_phase' \in [Port -> Phases]
      BY <2>1 DEF Types, Phases
    <3> QED
      BY <1>1, <2>1, <2>2, <2>3, <2>5, <3>1 DEF Types
  <2> QED
    BY <1>1, <2>1, <2>2, <2>3, <2>4, <2>5, <2>6, QuietStep
<1> QED
  BY <1>3, <1>4

\* OnEndpointsConfigured keeps the invariant.
LEMMA OnEndpointsConfiguredIsSound ==
  ASSUME IInv, OnEndpointsConfigured
  PROVE  IInv'
<1> USE DEF IInv
<1>1. events # << >> /\ Head(events).slot \in Slots /\ UNCHANGED <<slot_port, slots>>
  BY FrontIs DEF OnEndpointsConfigured
<1>2. PICK s \in Slots, p \in Port \cup {0} : s = Head(events).slot /\ p = slot_port[s]
  BY <1>1 DEF Types
<1>3. CASE Ignore
  BY <1>1, <1>3, IgnoreIsSound
<1>4. CASE ~Ignore
  <2>1. /\ port_config_phase[p] = "ConfiguringEndpoints"
        /\ port_config_phase' = [port_config_phase EXCEPT ![p] = "Configured"]
        /\ events' = Tail(events) /\ UNCHANGED <<addressing_port, device, init, commands>>
    BY <1>2, <1>4 DEF OnEndpointsConfigured, PortOf, CompleteConfiguration, SetProtocol, Enter
  <2>2. events' \in Seq(Event) /\ OldEvents(1) /\ OldCommands(0)
    BY <1>1, <2>1, EventsTaken, CommandsSame
  <2>3. \A x \in Port : \/ port_config_phase'[x] = port_config_phase[x]
                        \/ port_config_phase[x] \in Addressed /\ port_config_phase'[x] \in Addressed
    BY <2>1 DEF Types, Addressed
  <2>4. Types'
    <3>1. port_config_phase' \in [Port -> Phases]
      BY <2>1 DEF Types, Phases
    <3> QED
      BY <1>1, <2>1, <2>2, <3>1 DEF Types
  <2> QED
    BY <1>1, <2>1, <2>2, <2>3, <2>4, QuietStep
<1> QED
  BY <1>3, <1>4

-----------------------------------------------------------------------------
(* The theorems *)

\* Every step keeps the invariant.
LEMMA NextIsSound == IInv /\ [Next]_vars => IInv'
<1> SUFFICES ASSUME IInv, [Next]_vars PROVE IInv'
  OBVIOUS
<1>1. CASE MainTask
  BY <1>1, ConfigurePortIsSound, OnPortStatusChangeIsSound, OnSlotEnabledIsSound, OnAddressedIsSound,
     OnTransferIsSound, OnEndpointsConfiguredIsSound DEF MainTask, ProcessEvent
<1>2. CASE Controller
  BY <1>2, CompleteEnableSlotIsSound, CompleteAddressDeviceIsSound, CompleteConfigureEndpointIsSound,
     CompleteTransferIsSound DEF Controller
<1>3. ASSUME NEW p \in Port, Plug(p) \/ Unplug(p) PROVE IInv'
  BY <1>3, PlugIsSound
<1>4. CASE UNCHANGED vars
  BY <1>4 DEF vars, driver, class, status, IInv, Types, OneAddressed, Addressing, OneOnItsWay, AskedForTurn,
     AnsweredInTurn, Fresh, SlotsAddressed, SlotsApart, DevicesKnown, Asks, Answers
<1> QED
  BY <1>1, <1>2, <1>3, <1>4 DEF Next

\* The invariant holds in every state.
LEMMA AlwaysSound == Spec => []IInv
BY InitIsSound, NextIsSound, PTL DEF Spec

\* However many ports there are, in whatever order devices are plugged and unplugged and the
\* controller answers, fails or is late: addressing_port names the only port between its
\* reset and its address, and the slots of ports with an addressed device are theirs alone
\* (ResetPort, EnableSlot, AddressDevice, InitializeDevice in xhci.cpp).
THEOREM AnswersFindTheirPorts == Spec => []AnswersFindPorts
<1>1. IInv => AnswersFindPorts
  <2> SUFFICES ASSUME IInv PROVE AnswersFindPorts
    OBVIOUS
  <2>1. \A s, t \in slots : slot_port[s] = slot_port[t] /\ slot_port[s] # 0 => s = t
    BY DEF IInv, Types, SlotsApart
  <2>2. \A p \in Port : port_config_phase[p] \in Addressed => \E s \in device : slot_port[s] = p /\ init[s] > 0
    BY DEF IInv, DevicesKnown
  <2> QED
    BY <2>1, <2>2 DEF AnswersFindPorts, SlotsMatchPorts, IInv, Addressed
<1> QED
  BY <1>1, AlwaysSound, PTL

\* Which phase may follow which.
Follows(a, b) ==
  \/ a = b
  \/ a = "NotConnected" /\ b \in {"WaitingAddressed", "ResettingPort"}
  \/ a = "WaitingAddressed" /\ b = "ResettingPort"
  \/ a = "ResettingPort" /\ b = "EnablingSlot"
  \/ a = "EnablingSlot" /\ b = "AddressingDevice"
  \/ a = "AddressingDevice" /\ b = "InitializingDevice"
  \/ a = "InitializingDevice" /\ b = "ConfiguringEndpoints"
  \/ a = "ConfiguringEndpoints" /\ b = "Configured"

\* The places of the phases in Order.
LEMMA Ranks ==
  /\ Rank("NotConnected") = 1 /\ Rank("WaitingAddressed") = 2 /\ Rank("ResettingPort") = 3
  /\ Rank("EnablingSlot") = 4 /\ Rank("AddressingDevice") = 5 /\ Rank("InitializingDevice") = 6
  /\ Rank("ConfiguringEndpoints") = 7 /\ Rank("Configured") = 8
<1>1. DOMAIN Order = 1..8
  BY DEF Order
<1>2. /\ Order[1] = "NotConnected" /\ Order[2] = "WaitingAddressed" /\ Order[3] = "ResettingPort"
      /\ Order[4] = "EnablingSlot" /\ Order[5] = "AddressingDevice" /\ Order[6] = "InitializingDevice"
      /\ Order[7] = "ConfiguringEndpoints" /\ Order[8] = "Configured"
  BY DEF Order
<1>3. \A i, j \in 1..8 : Order[i] = Order[j] => i = j
  <2>1. \A i \in 1..8 : i \in {1, 2, 3, 4, 5, 6, 7, 8}
    OBVIOUS
  <2> QED
    BY <1>2, <2>1
<1>4. \A i \in 1..8 : Rank(Order[i]) = i
  BY <1>1, <1>3 DEF Rank
<1> QED
  BY <1>2, <1>4

\* ResetPort for a port that is not connected yet.
LEMMA ResetFollows ==
  ASSUME Types, NEW q \in Port, port_config_phase[q] = "NotConnected", NEW r,
         r = ResetPort(port_config_phase, addressing_port, q), port_config_phase' = r.phases
  PROVE  \A p \in Port : Follows(port_config_phase[p], port_config_phase'[p])
<1>1. \/ port_config_phase' = port_config_phase
      \/ port_config_phase' = [port_config_phase EXCEPT ![q] = "WaitingAddressed"]
      \/ port_config_phase' = [port_config_phase EXCEPT ![q] = "ResettingPort"]
  BY DEF ResetPort
<1> QED
  BY <1>1 DEF Follows, Types

\* A port's phase stays or goes to one that may follow it.
LEMMA StepFollows ==
  ASSUME IInv, [Next]_vars
  PROVE  \A p \in Port : Follows(port_config_phase[p], port_config_phase'[p])
<1>1. Types
  BY DEF IInv
<1>2. CASE UNCHANGED port_config_phase
  BY <1>2 DEF Follows
<1>3. CASE ConfigurePort
  <2>1. CASE port_config_phase[boot] = "NotConnected"
    <3>1. PICK q \in Port : q = boot
      BY <1>3 DEF ConfigurePort
    <3>2. PICK r : r = ResetPort(port_config_phase, addressing_port, q)
      OBVIOUS
    <3>3. port_config_phase' = r.phases
      BY <1>3, <2>1, <3>1, <3>2 DEF ConfigurePort
    <3> QED
      BY <1>1, <2>1, <3>1, <3>2, <3>3, ResetFollows
  <2> QED
    BY <1>2, <1>3, <2>1 DEF ConfigurePort
<1>4. CASE OnPortStatusChange
  <2>1. PICK q \in Port : q = Head(events).port
    BY <1>1, <1>4, FrontIs DEF OnPortStatusChange
  <2>2. CASE port_config_phase[q] = "NotConnected"
    <3>1. PICK r : r = ResetPort(port_config_phase, addressing_port, q)
      OBVIOUS
    <3>2. port_config_phase' = r.phases
      BY <1>4, <2>1, <2>2, <3>1 DEF OnPortStatusChange, Resets
    <3> QED
      BY <1>1, <2>2, <3>1, <3>2, ResetFollows
  <2>3. CASE port_config_phase[q] = "ResettingPort" /\ EnableSlot(q)
    <3>1. port_config_phase' = [port_config_phase EXCEPT ![q] = "EnablingSlot"]
      BY <2>3 DEF EnableSlot, Enter
    <3> QED
      BY <1>1, <2>3, <3>1 DEF Follows, Types
  <2>4. CASE Ignore
    BY <1>2, <2>4 DEF Ignore
  <2> QED
    BY <1>4, <2>1, <2>2, <2>3, <2>4 DEF OnPortStatusChange, Resets
<1>5. CASE OnSlotEnabled
  <2>1. CASE addressing_port # 0 /\ port_config_phase[addressing_port] = "EnablingSlot"
    <3>1. port_config_phase' = [port_config_phase EXCEPT ![addressing_port] = "AddressingDevice"]
      BY <1>5, <2>1 DEF OnSlotEnabled, AddressDevice, Enter
    <3> QED
      BY <1>1, <2>1, <3>1 DEF Follows, Types
  <2> QED
    BY <1>2, <1>5, <2>1 DEF OnSlotEnabled, Ignore
<1>6. CASE OnAddressed
  <2>1. PICK s, a : s = Head(events).slot /\ a = slot_port[s]
    OBVIOUS
  <2>2. CASE FindBySlot(s) /\ a # 0 /\ a = addressing_port /\ port_config_phase[a] = "AddressingDevice"
    <3>1. PICK r : r = ResetFirstWaiting
      OBVIOUS
    <3>2. port_config_phase' = [r.phases EXCEPT ![a] = "InitializingDevice"]
      BY <1>6, <2>1, <2>2, <3>1 DEF OnAddressed, PortOf, InitializeDevice
    <3>3. \/ r.phases = port_config_phase
          \/ \E q \in Port : /\ port_config_phase[q] = "WaitingAddressed"
                             /\ r.phases = [port_config_phase EXCEPT ![q] = "ResettingPort"]
      BY <3>1, ResetFirstWaitingIs
    <3>4. CASE r.phases = port_config_phase
      BY <1>1, <2>2, <3>2, <3>4 DEF Follows, Types
    <3>5. ASSUME NEW q \in Port, port_config_phase[q] = "WaitingAddressed",
                 r.phases = [port_config_phase EXCEPT ![q] = "ResettingPort"], NEW p \in Port
          PROVE  Follows(port_config_phase[p], port_config_phase'[p])
      <4>1. port_config_phase' = [[port_config_phase EXCEPT ![q] = "ResettingPort"] EXCEPT ![a] = "InitializingDevice"]
        BY <3>2, <3>5
      <4>2. \/ p = a /\ port_config_phase'[p] = "InitializingDevice"
            \/ p = q /\ p # a /\ port_config_phase'[p] = "ResettingPort"
            \/ port_config_phase'[p] = port_config_phase[p]
        BY <1>1, <3>5, <4>1 DEF Types
      <4> QED
        BY <2>2, <3>5, <4>2 DEF Follows
    <3> QED
      BY <3>3, <3>4, <3>5
  <2>3. CASE ~(FindBySlot(s) /\ a # 0 /\ a = addressing_port /\ port_config_phase[a] = "AddressingDevice")
    BY <1>2, <1>6, <2>1, <2>3 DEF OnAddressed, PortOf, Ignore
  <2> QED
    BY <2>2, <2>3
<1>7. CASE OnTransfer
  <2>1. PICK a : a = slot_port[Head(events).slot]
    OBVIOUS
  <2>2. \/ UNCHANGED port_config_phase
        \/ /\ port_config_phase[a] = "InitializingDevice"
           /\ port_config_phase' = [port_config_phase EXCEPT ![a] = "ConfiguringEndpoints"]
    BY <1>7, <2>1 DEF OnTransfer, PortOf, ConfigureEndpoints, Enter, Ignore
  <2> QED
    BY <1>1, <1>2, <2>2 DEF Follows, Types
<1>8. CASE OnEndpointsConfigured
  <2>1. PICK a : a = slot_port[Head(events).slot]
    OBVIOUS
  <2>2. \/ UNCHANGED port_config_phase
        \/ /\ port_config_phase[a] = "ConfiguringEndpoints"
           /\ port_config_phase' = [port_config_phase EXCEPT ![a] = "Configured"]
    BY <1>8, <2>1 DEF OnEndpointsConfigured, PortOf, CompleteConfiguration, Enter, Ignore
  <2> QED
    BY <1>1, <1>2, <2>2 DEF Follows, Types
<1>9. CASE Controller \/ \E p \in Port : Plug(p) \/ Unplug(p)
  BY <1>2, <1>9 DEF Controller, CompleteEnableSlot, CompleteAddressDevice, CompleteConfigureEndpoint,
     CompleteControl, CompleteRead, Plug, Unplug, driver
<1>10. CASE UNCHANGED vars
  BY <1>2, <1>10 DEF vars, driver
<1> QED
  BY <1>3, <1>4, <1>5, <1>6, <1>7, <1>8, <1>9, <1>10 DEF Next, MainTask, ProcessEvent

\* Whatever events come, early, late or about another port, no port skips a phase or goes
\* back to an earlier one (ProcessEvent and OnEvent in xhci.cpp).
THEOREM PhasesInOrder == Spec => InOrder
<1>1. IInv /\ [Next]_vars =>
        \A p \in Port : LET before == Rank(port_config_phase[p])
                            after  == Rank(port_config_phase'[p])
                        IN  after = before \/ after = before + 1 \/ (before = 1 /\ after = 3)
  BY StepFollows, Ranks DEF Follows
<1> QED
  BY <1>1, AlwaysSound, PTL DEF Spec, InOrder

=============================================================================
