-------------------------------- MODULE Rings --------------------------------
(***************************************************************************)
(* The rings between the xHCI driver and the controller                    *)
(* (src/kernel/drivers/usb/xhci/ring.cpp): a command or transfer ring that *)
(* the driver fills, and the event ring that the controller fills. Both    *)
(* sides know what is new in a ring from the cycle bit alone. The driver   *)
(* writes a TRB word by word while the controller looks at the ring.       *)
(***************************************************************************)
EXTENDS Integers, Sequences

CONSTANTS
  buf_size,       \* TRBs in the driver's ring, the last one for a link
  event_buf_size, \* TRBs in the event ring
  MaxOutstanding, \* commands whose completion has not been handled yet
  MaxCommands,    \* bound on the commands
  MaxOther        \* bound on the events that no command causes

ASSUME RingAssumption ==
  /\ buf_size \in Nat /\ buf_size > 2 /\ event_buf_size \in Nat /\ event_buf_size > 1
  /\ MaxCommands \in Nat /\ MaxOther \in Nat
  \* Push never looks whether the ring is full. One more outstanding TRB and it may
  \* overwrite a link that the controller has not followed yet.
  /\ MaxOutstanding \in 1 .. buf_size - 2

VARIABLES
  buf, cycle_bit, write_index, \* Ring
  push,                        \* where Push is: the words it still has to write
  dequeue, consumer_cycle,     \* the controller's side of the ring
  events, enqueue, producer_cycle, \* the event ring and the controller's side of it
  erdp, event_cycle_bit,       \* EventRing: the dequeue pointer and cycle_bit_
  handling,                    \* whether the event at the front is being handled
  \* history
  commands,  \* commands pushed
  taken,     \* those the controller took, in order
  posted,    \* events posted
  handled,   \* those the driver handled, in order
  completed  \* completions among the handled ones

driver == <<buf, cycle_bit, write_index, push>>
controller == <<dequeue, consumer_cycle>>
eventRing == <<events, enqueue, producer_cycle>>
eventDriver == <<erdp, event_cycle_bit, handling>>
vars == <<driver, controller, eventRing, eventDriver, commands, taken, posted, handled, completed>>

Link == -1
NoTRB == [data |-> 0, control |-> 0, cycle |-> FALSE]
NoEvent == [number |-> 0, issuer |-> -1, command |-> 0, cycle |-> FALSE]

Init ==
  /\ buf = [i \in 0 .. buf_size - 1 |-> NoTRB]
  /\ cycle_bit = TRUE /\ write_index = 0
  /\ push = << >>
  /\ dequeue = 0 /\ consumer_cycle = TRUE
  /\ events = [i \in 0 .. event_buf_size - 1 |-> NoEvent]
  /\ enqueue = 0 /\ producer_cycle = TRUE
  /\ erdp = 0 /\ event_cycle_bit = TRUE
  /\ handling = FALSE
  /\ commands = 0 /\ taken = << >> /\ posted = 0 /\ handled = << >> /\ completed = 0

-----------------------------------------------------------------------------
(* The driver's ring *)

\* Push(trb): the stores of CopyToLast, for the TRB and, before the end, for the link.
StartPush ==
  /\ push = << >>
  /\ commands < MaxCommands /\ commands - completed < MaxOutstanding
  /\ push' = <<"data", "control">>
             \o (IF write_index + 1 = buf_size - 1 THEN <<"linkdata", "linkcontrol">> ELSE << >>)
  /\ UNCHANGED <<buf, cycle_bit, write_index, controller, eventRing, eventDriver,
                 commands, taken, posted, handled, completed>>

\* Faulty variant: the cycle bit is written with the first word.
StoreCycleFirst(word, trb) ==
  CASE word = "data"        -> [trb EXCEPT !.control = commands + 1, !.cycle = cycle_bit]
    [] word = "control"     -> [trb EXCEPT !.data = commands + 1]
    [] word = "linkdata"    -> [trb EXCEPT !.control = Link, !.cycle = cycle_bit]
    [] word = "linkcontrol" -> [trb EXCEPT !.data = Link]

\* The words of data[0..2], then data[3] with the cycle bit.
Store(word, trb) ==
  CASE word = "data"        -> [trb EXCEPT !.data = commands + 1]
    [] word = "control"     -> [trb EXCEPT !.control = commands + 1, !.cycle = cycle_bit]
    [] word = "linkdata"    -> [trb EXCEPT !.data = Link]
    [] word = "linkcontrol" -> [trb EXCEPT !.control = Link, !.cycle = cycle_bit]

\* Faulty variant: the link is not followed by a new lap.
SameLap == [index |-> 0, cycle |-> cycle_bit]

\* The position after the link.
NextLap == [index |-> 0, cycle |-> ~cycle_bit]

\* The next store of Push.
PushStep ==
  /\ push # << >>
  /\ push' = Tail(push)
  /\ buf' = [buf EXCEPT ![write_index] = Store(Head(push), @)]
  /\ commands' = IF Head(push) = "control" THEN commands + 1 ELSE commands
  /\ CASE Head(push) = "control"     -> write_index' = write_index + 1 /\ UNCHANGED cycle_bit
       [] Head(push) = "linkcontrol" -> write_index' = NextLap.index /\ cycle_bit' = NextLap.cycle
       [] OTHER                      -> UNCHANGED <<write_index, cycle_bit>>
  /\ UNCHANGED <<controller, eventRing, eventDriver, taken, posted, handled, completed>>

-----------------------------------------------------------------------------
(* The controller *)

\* It never runs into the driver's dequeue pointer.
EventRingFull == (enqueue + 1) % event_buf_size = erdp

Post(issuer, command) ==
  /\ ~EventRingFull
  /\ events' = [events EXCEPT ![enqueue] =
       [number |-> posted + 1, issuer |-> issuer, command |-> command, cycle |-> producer_cycle]]
  /\ enqueue' = (enqueue + 1) % event_buf_size
  /\ producer_cycle' = IF enqueue + 1 = event_buf_size THEN ~producer_cycle ELSE producer_cycle
  /\ posted' = posted + 1

\* It takes the TRB at its dequeue pointer and posts the completion, or follows the link.
TakeTRB ==
  /\ buf[dequeue].cycle = consumer_cycle
  /\ \/ /\ buf[dequeue].control = Link
        /\ dequeue' = 0 /\ consumer_cycle' = ~consumer_cycle
        /\ UNCHANGED <<eventRing, taken, posted>>
     \/ /\ buf[dequeue].control # Link
        /\ taken' = Append(taken, IF buf[dequeue].data = buf[dequeue].control
                                  THEN buf[dequeue].data ELSE 0)
        /\ Post(dequeue, Len(taken) + 1)
        /\ dequeue' = dequeue + 1 /\ UNCHANGED consumer_cycle
  /\ UNCHANGED <<driver, eventDriver, commands, handled, completed>>

PostOther ==
  /\ posted - Len(taken) < MaxOther
  /\ Post(-1, 0)
  /\ UNCHANGED <<driver, controller, eventDriver, commands, taken, handled, completed>>

-----------------------------------------------------------------------------
(* The driver's side of the event ring *)

\* Faulty variant: the cycle bit is not compared.
AnyFront == events[erdp].number # 0

HasFront == events[erdp].cycle = event_cycle_bit

\* ProcessEvent looks at the event, and at the TRB it points to.
Handle ==
  /\ ~handling /\ HasFront
  /\ handling' = TRUE
  /\ LET e == events[erdp] IN
     /\ handled' = Append(handled, IF e.issuer = -1 \/ buf[e.issuer].control = e.command
                                   THEN e.number ELSE 0)
     /\ completed' = IF e.issuer = -1 THEN completed ELSE completed + 1
  /\ UNCHANGED <<driver, controller, eventRing, erdp, event_cycle_bit, commands, taken, posted>>

Pop ==
  /\ handling
  /\ handling' = FALSE
  /\ erdp' = IF erdp + 1 = event_buf_size THEN 0 ELSE erdp + 1
  /\ event_cycle_bit' = IF erdp + 1 = event_buf_size THEN ~event_cycle_bit ELSE event_cycle_bit
  /\ UNCHANGED <<driver, controller, eventRing, commands, taken, posted, handled, completed>>

Next == StartPush \/ PushStep \/ TakeTRB \/ PostOther \/ Handle \/ Pop

Spec == Init /\ [][Next]_vars

\* A push goes on, the controller is running, and the main task gets the interrupt.
Fairness == WF_vars(PushStep) /\ WF_vars(TakeTRB) /\ WF_vars(Handle) /\ WF_vars(Pop)

FairSpec == Spec /\ Fairness

-----------------------------------------------------------------------------
(* Properties *)

Commands == INSTANCE Fifo WITH put <- commands, got <- taken
Events == INSTANCE Fifo WITH put <- posted, got <- handled

\* The controller takes every TRB of a Push once, in order and never half written, over
\* any number of laps (ring.cpp:33, Ring::Push).
CommandsAreFifo == Commands!Spec

\* The driver handles every event once and in order, over any number of laps, and none
\* that is left from an earlier lap (HasFront, EventRing::Pop); and the TRB that caused it,
\* which its handler reads from the driver's ring (xhci.cpp:260), is still there.
EventsAreFifo == Events!Spec

\* Both rings, whose wrap-arounds meet in any order, are queues.
RingsAreFifo == CommandsAreFifo /\ EventsAreFifo

\* Every command's completion is handled in the end: neither ring gets stuck.
AllCompleted == \A n \in 1..MaxCommands : commands >= n ~> completed >= n

=============================================================================
