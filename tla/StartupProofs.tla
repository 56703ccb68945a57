----------------------------- MODULE StartupProofs -----------------------------
(***************************************************************************)
(* Proofs about parts of the machine that MCStartup runs together and that *)
(* share no state: the rings between driver and controller (RingsAreFifo), *)
(* the calibration of the timer (TickIsRight), what is drawn               *)
(* (ScreenIsComposition) and the console (ShowsTheLog), each for every     *)
(* value of its constants.                                                 *)
(***************************************************************************)
EXTENDS Rings, Acpi, Screen, Console, SequenceTheorems, WellFoundedInduction, TLAPS

-----------------------------------------------------------------------------
(* Numbers, and what is computed one number after the other: FoldLeft. *)

Less == {p \in Nat \X Nat : p[1] < p[2]}

\* A nonempty set of natural numbers has a least element.
LEMMA LeastNatural ==
  ASSUME NEW S \in SUBSET Nat, S # {}
  PROVE  \E x \in S : \A y \in S : x <= y
<1>1. OpToRel(<, Nat) = Less
  BY DEF OpToRel, Less
<1>2. IsWellFoundedOn(Less, Nat)
  BY NatLessThanWellFounded, <1>1
<1>3. PICK x \in S : \A y \in S : ~ (<<y, x>> \in Less)
  BY <1>2, WFMin, Zenon
<1>4. \A y \in S : x <= y
  <2> SUFFICES ASSUME NEW y \in S PROVE x <= y
    OBVIOUS
  <2>1. x \in Nat /\ y \in Nat
    OBVIOUS
  <2>2. ~ (<<y, x>> \in Less)
    BY <1>3
  <2> QED BY <2>1, <2>2 DEF Less
<1> QED BY <1>4

\* A set of natural numbers with 0 and the successors of its members has them all.
LEMMA InductionOn ==
  ASSUME NEW S \in SUBSET Nat, 0 \in S, \A n \in S : n + 1 \in S
  PROVE  S = Nat
<1> SUFFICES ASSUME Nat \ S # {} PROVE FALSE
  OBVIOUS
<1> DEFINE U == Nat \ S
<1>1. U \in SUBSET Nat /\ U # {}
  OBVIOUS
<1> HIDE DEF U
<1>2. PICK x \in U : \A y \in U : x <= y
  BY <1>1, LeastNatural
<1>3. x \in Nat /\ x \notin S /\ x # 0
  BY <1>2, <1>1 DEF U
<1>4. x - 1 \in Nat /\ x - 1 \notin U
  BY <1>2, <1>3
<1>5. x - 1 \in S
  BY <1>4 DEF U
<1> QED BY <1>5, <1>3

\* A nonempty set of numbers of 1 .. n has a greatest element, which Max chooses.
LEMMA MaxOf ==
  ASSUME NEW n \in Nat, NEW S \in SUBSET (1 .. n), S # {}
  PROVE  Max(S) \in S /\ \A y \in S : y <= Max(S)
<1> DEFINE D == {n - y : y \in S}
<1>1. D \in SUBSET Nat /\ D # {}
  OBVIOUS
<1>2. \A y \in S : y \in Int /\ n - y \in D
  OBVIOUS
<1>3. \A d \in D : \E y \in S : d = n - y
  OBVIOUS
<1> HIDE DEF D
<1>4. PICK d \in D : \A e \in D : d <= e
  BY <1>1, LeastNatural
<1>5. PICK x \in S : d = n - x
  BY <1>3
<1>6. \A y \in S : x >= y
  <2> SUFFICES ASSUME NEW y \in S PROVE x >= y
    OBVIOUS
  <2>1. d <= n - y /\ x \in Int /\ y \in Int
    BY <1>4, <1>2
  <2> QED BY <2>1, <1>5
<1>7. Max(S) \in S /\ \A y \in S : Max(S) >= y
  BY <1>6 DEF Max
<1>8. \A y \in S : y \in Int
  OBVIOUS
<1> QED BY <1>7, <1>8

\* The greatest of a set of numbers is what Max chooses.
LEMMA MaxIs ==
  ASSUME NEW n \in Nat, NEW S \in SUBSET (1 .. n), NEW x \in S, \A y \in S : y <= x
  PROVE  Max(S) = x
<1>1. Max(S) \in S /\ \A y \in S : y <= Max(S)
  BY MaxOf
<1>2. x \in Int /\ Max(S) \in Int
  <2>1. \A y \in S : y \in Int
    OBVIOUS
  <2> QED BY <2>1, <1>1
<1>3. x <= Max(S) /\ Max(S) <= x
  BY <1>1
<1> QED BY <1>2, <1>3

\* A step for each number up to n: what the subsets of 1 .. n are mapped to, whose greatest members are
\* taken off one by one. This is how FoldLeft computes.
Iteration(n, V, base, F) ==
  \E g \in [SUBSET (1 .. n) -> V] :
    \A t \in SUBSET (1 .. n) : g[t] = IF t = {} THEN base ELSE F[<<Max(t), g[t \ {Max(t)}]>>]

\* FoldLeft does one step after the other.
LEMMA Iterates ==
  ASSUME NEW n \in Nat, NEW V, NEW base \in V, NEW F \in [(1 .. n) \X V -> V]
  PROVE  Iteration(n, V, base, F)
<1> DEFINE Body(g, t) == IF t = {} THEN base ELSE F[<<Max(t), g[t \ {Max(t)}]>>]
           Exists(m) == \E g \in [SUBSET (1 .. m) -> V] : \A t \in SUBSET (1 .. m) : g[t] = Body(g, t)
           Good == {m \in Nat : m <= n => Exists(m)}
<1>1. 0 \in Good
  <2> DEFINE g == [t \in SUBSET (1 .. 0) |-> base]
  <2>1. \A t \in SUBSET (1 .. 0) : t = {}
    OBVIOUS
  <2>2. g \in [SUBSET (1 .. 0) -> V] /\ \A t \in SUBSET (1 .. 0) : g[t] = Body(g, t)
    BY <2>1
  <2> HIDE DEF g, Body
  <2> QED BY <2>2
<1>2. \A m \in Good : m + 1 \in Good
  <2> HIDE DEF Exists
  <2> SUFFICES ASSUME NEW m \in Nat, Exists(m), m + 1 <= n
               PROVE  Exists(m + 1)
    OBVIOUS
  <2> USE DEF Exists
  <2>1. PICK g \in [SUBSET (1 .. m) -> V] : \A t \in SUBSET (1 .. m) : g[t] = Body(g, t)
    OBVIOUS
  <2> DEFINE h == [t \in SUBSET (1 .. m + 1) |->
                     IF t \in SUBSET (1 .. m) THEN g[t] ELSE F[<<m + 1, g[t \ {m + 1}]>>]]
  <2>2. \A t \in SUBSET (1 .. m + 1) : h[t] \in V /\ h[t] = Body(h, t)
    <3> SUFFICES ASSUME NEW t \in SUBSET (1 .. m + 1) PROVE h[t] \in V /\ h[t] = Body(h, t)
      OBVIOUS
    <3>1. CASE t \in SUBSET (1 .. m)
      <4>1. h[t] = g[t] /\ g[t] = Body(g, t) /\ g[t] \in V
        BY <3>1, <2>1
      <4>2. h[t \ {Max(t)}] = g[t \ {Max(t)}]
        BY <3>1
      <4> QED BY <4>1, <4>2
    <3>2. CASE t \notin SUBSET (1 .. m)
      <4>1. m + 1 \in t /\ t # {} /\ t \ {m + 1} \in SUBSET (1 .. m) /\ m + 1 \in Nat /\ m + 1 \in 1 .. n
        BY <3>2
      <4>2. \A y \in t : y <= m + 1
        OBVIOUS
      <4>3. Max(t) = m + 1
        BY <4>1, <4>2, MaxIs
      <4>4. h[t] = F[<<m + 1, g[t \ {m + 1}]>>] /\ h[t \ {m + 1}] = g[t \ {m + 1}] /\ g[t \ {m + 1}] \in V
        BY <3>2, <4>1
      <4>5. F[<<m + 1, g[t \ {m + 1}]>>] \in V
        BY <4>1, <4>4
      <4> QED BY <4>1, <4>3, <4>4, <4>5
    <3> QED BY <3>1, <3>2
  <2>3. h \in [SUBSET (1 .. m + 1) -> V] /\ \A t \in SUBSET (1 .. m + 1) : h[t] = Body(h, t)
    BY <2>2
  <2> HIDE DEF h, Body
  <2> QED BY <2>3
<1>3. Good = Nat
  <2> HIDE DEF Good
  <2>1. Good \in SUBSET Nat
    BY DEF Good
  <2> QED BY <1>1, <1>2, <2>1, InductionOn
<1> HIDE DEF Exists
<1>4. Exists(n)
  BY <1>3
<1> QED BY <1>4 DEF Exists, Iteration

\* The greatest member of 1 .. i, taken off.
LEMMA Initial ==
  ASSUME NEW n \in Nat, NEW i \in 1 .. n
  PROVE  /\ 1 .. i \in SUBSET (1 .. n) /\ 1 .. i # {} /\ Max(1 .. i) = i /\ (1 .. i) \ {i} = 1 .. i - 1
         /\ 1 .. 0 = {}
<1>1. 1 .. i \in SUBSET (1 .. n) /\ 1 .. i # {} /\ i \in 1 .. i /\ i \in Nat /\ \A y \in 1 .. i : y <= i
  OBVIOUS
<1>2. 1 .. i \in SUBSET (1 .. i)
  OBVIOUS
<1>3. Max(1 .. i) = i
  BY <1>1, <1>2, MaxIs
<1>4. (1 .. i) \ {i} = 1 .. i - 1
  OBVIOUS
<1> QED BY <1>1, <1>3, <1>4


-----------------------------------------------------------------------------
(* Rings. Both rings are described by where the side that fills them is:   *)
(* the numbers in the cells follow from the number of the TRB (event) at   *)
(* index 0 of its lap, and the other side is in the same lap or in the one *)
(* before.                                                                 *)
T == Len(taken)
H == Len(handled)
\* TRBs in a lap, without the link
Lap == buf_size - 1
\* TRBs (events) before the lap that is being filled
Base == commands - write_index
EventBase == posted - enqueue

TRB == [data : Int, control : Int, cycle : BOOLEAN]
Event == [number : Nat, issuer : Int, command : Int, cycle : BOOLEAN]
\* What Push still has to write: of a TRB, of the link, of a TRB at the end with the link.
OfTRB == {<<"data", "control">>, <<"control">>}
OfLink == {<<"linkdata", "linkcontrol">>, <<"linkcontrol">>}
OfBoth == {<<"data", "control", "linkdata", "linkcontrol">>, <<"control", "linkdata", "linkcontrol">>}
\* The first word of the TRB is written, the one with the cycle bit is not.
HalfWritten == push \in {<<"control">>, <<"control", "linkdata", "linkcontrol">>}

RingTypes ==
  /\ buf \in [0..Lap -> TRB] /\ cycle_bit \in BOOLEAN /\ write_index \in 0..Lap
  /\ dequeue \in 0..Lap /\ consumer_cycle \in BOOLEAN
  /\ commands \in Nat /\ completed \in Nat /\ taken \in Seq(Int)
EventTypes ==
  /\ events \in [0..event_buf_size - 1 -> Event]
  /\ enqueue \in 0..event_buf_size - 1 /\ producer_cycle \in BOOLEAN
  /\ erdp \in 0..event_buf_size - 1 /\ event_cycle_bit \in BOOLEAN /\ handling \in BOOLEAN
  /\ posted \in Nat /\ handled \in Seq(Int)

\* Push works at write_index: at the link's cell only when it writes the link, and at the
\* last cell before it exactly when the link is still to come.
PushIsAt ==
  /\ push \in {<< >>} \cup OfTRB \cup OfLink \cup OfBoth
  /\ write_index = Lap <=> push \in OfLink
  /\ push \in OfTRB => write_index < Lap - 1
  /\ push \in OfBoth => write_index = Lap - 1

\* The driver's ring: this lap before write_index, the lap before behind it. A cell of the
\* lap before has the other cycle bit.
BufHolds ==
  /\ Base = 0 \/ Base >= Lap
  /\ \A i \in 0..Lap - 1 : i < write_index =>
       /\ buf[i].data = Base + i + 1 /\ buf[i].control = Base + i + 1 /\ buf[i].cycle = cycle_bit
  /\ \A i \in 0..Lap - 1 : write_index <= i =>
       /\ buf[i].cycle = ~cycle_bit
       /\ Base > 0 => buf[i].control = Base + i + 1 - Lap
       /\ Base > 0 /\ write_index < i => buf[i].data = Base + i + 1 - Lap
  /\ HalfWritten => buf[write_index].data = commands + 1
  /\ buf[Lap].cycle = ~cycle_bit
  /\ Base > 0 => buf[Lap].control = Link

\* The controller is in the driver's lap and not ahead of it, or in the lap before and
\* strictly behind the cell the driver works at.
ControllerIsAt ==
  \/ T - dequeue = Base /\ consumer_cycle = cycle_bit /\ dequeue <= write_index
  \/ /\ T - dequeue = Base - Lap /\ consumer_cycle = ~cycle_bit
     /\ write_index < dequeue /\ Base >= Lap

\* What keeps the driver from running into the controller: it counts no TRBs, but no more
\* commands are outstanding than fit.
FewOutstanding ==
  /\ completed <= T /\ commands - completed <= MaxOutstanding
  /\ push \in OfTRB \cup OfBoth => commands - completed < MaxOutstanding

\* The event ring: the same, seen from the controller's side.
EventsHold ==
  /\ EventBase = 0 \/ EventBase >= event_buf_size
  /\ \A i \in 0..event_buf_size - 1 : i < enqueue =>
       events[i].number = EventBase + i + 1 /\ events[i].cycle = producer_cycle
  /\ \A i \in 0..event_buf_size - 1 : enqueue <= i =>
       /\ events[i].cycle = ~producer_cycle
       /\ events[i].number = IF EventBase = 0 THEN 0 ELSE EventBase + i + 1 - event_buf_size

Popped == IF handling THEN H - 1 ELSE H
DriverIsAt ==
  \/ /\ Popped - erdp = EventBase /\ event_cycle_bit = producer_cycle
     /\ erdp <= enqueue /\ (handling => erdp < enqueue)
  \/ /\ Popped - erdp = EventBase - event_buf_size /\ event_cycle_bit = ~producer_cycle
     /\ enqueue < erdp /\ EventBase >= event_buf_size

\* An event that is not handled yet belongs to a TRB whose completion is not counted yet, and
\* which is at the place the event names; later events belong to later TRBs.
Unhandled(i) == events[i].number > H /\ events[i].issuer # -1
IssuedAt(k, i) == i \in 0..Lap - 1 /\ (i = k - Base - 1 \/ i = k - Base - 1 + Lap)
EventsOfTRBs ==
  /\ \A i \in 0..event_buf_size - 1 : Unhandled(i) =>
       /\ completed < events[i].command /\ events[i].command <= T
       /\ IssuedAt(events[i].command, events[i].issuer)
  /\ \A i, j \in 0..event_buf_size - 1 :
       Unhandled(i) /\ Unhandled(j) /\ events[i].number < events[j].number =>
         events[i].command < events[j].command

DriverInv == RingTypes /\ PushIsAt /\ BufHolds /\ ControllerIsAt /\ FewOutstanding
EventInv == EventTypes /\ EventsHold /\ DriverIsAt /\ EventsOfTRBs
IInv == DriverInv /\ EventInv

-----------------------------------------------------------------------------
\* The sizes of the rings.
LEMMA Sizes == Lap \in Nat /\ Lap >= 2 /\ buf_size = Lap + 1 /\ MaxOutstanding \in 1..Lap - 1
               /\ event_buf_size \in Nat /\ event_buf_size > 1
BY RingAssumption DEF Lap

\* The counts of pushed and handled TRBs are numbers.
LEMMA Lengths == (RingTypes => T \in Nat) /\ (EventTypes => H \in Nat)
BY LenProperties DEF RingTypes, EventTypes, T, H

\* What a push writes that ends a lap.
LEMMA PushWithLink ==
  <<"data", "control">> \o <<"linkdata", "linkcontrol">> = <<"data", "control", "linkdata", "linkcontrol">>
<1> DEFINE W == {"data", "control", "linkdata", "linkcontrol"}
           a == <<"data", "control">>
           b == <<"linkdata", "linkcontrol">>
           s == a \o b
           r == <<"data", "control", "linkdata", "linkcontrol">>
<1>1. a \in Seq(W) /\ b \in Seq(W)
  OBVIOUS
<1>2. r \in Seq(W)
  OBVIOUS
<1>3. s \in Seq(W)
  BY <1>1, ConcatProperties
<1>4. Len(a) = 2 /\ Len(b) = 2 /\ Len(r) = 4 /\ Len(s) = 4
  BY <1>1, ConcatProperties
<1>5. s[1] = "data" /\ s[2] = "control" /\ s[3] = "linkdata" /\ s[4] = "linkcontrol"
  BY <1>1, <1>4, ConcatProperties
<1>6. Len(s) = Len(r) /\ \A i \in 1..Len(s) : s[i] = r[i]
  BY <1>4, <1>5
<1> HIDE DEF s, r, W
<1>7. s = r
  BY <1>2, <1>3, <1>6, SeqEqual
<1> QED
  BY <1>7 DEF s, r

\* What each word changes of a TRB.
LEMMA StoredWords ==
  ASSUME NEW r \in TRB, commands \in Nat, cycle_bit \in BOOLEAN
  PROVE  /\ \A word \in {"data", "control", "linkdata", "linkcontrol"} : Store(word, r) \in TRB
         /\ Store("data", r).data = commands + 1 /\ Store("data", r).control = r.control
         /\ Store("data", r).cycle = r.cycle
         /\ Store("control", r).data = r.data /\ Store("control", r).control = commands + 1
         /\ Store("control", r).cycle = cycle_bit
         /\ Store("linkdata", r).control = r.control /\ Store("linkdata", r).cycle = r.cycle
         /\ Store("linkcontrol", r).control = Link /\ Store("linkcontrol", r).cycle = cycle_bit
<1>1. Store("data", r) \in TRB /\ Store("data", r).data = commands + 1
      /\ Store("data", r).control = r.control /\ Store("data", r).cycle = r.cycle
  BY DEF Store, TRB
<1>2. Store("control", r) \in TRB /\ Store("control", r).data = r.data
      /\ Store("control", r).control = commands + 1 /\ Store("control", r).cycle = cycle_bit
  <2> DEFINE q == [r EXCEPT !.control = commands + 1]
  <2>1. q \in TRB /\ q.data = r.data /\ q.control = commands + 1
    BY DEF TRB
  <2>2. Store("control", r) = [q EXCEPT !.cycle = cycle_bit]
    BY DEF Store
  <2> HIDE DEF q
  <2> QED
    BY <2>1, <2>2 DEF TRB
<1>3. Store("linkdata", r) \in TRB /\ Store("linkdata", r).control = r.control
      /\ Store("linkdata", r).cycle = r.cycle
  BY DEF Store, TRB, Link
<1>4. Store("linkcontrol", r) \in TRB /\ Store("linkcontrol", r).control = Link
      /\ Store("linkcontrol", r).cycle = cycle_bit
  <2> DEFINE q == [r EXCEPT !.control = Link]
  <2>1. q \in TRB /\ q.control = Link
    BY DEF TRB, Link
  <2>2. Store("linkcontrol", r) = [q EXCEPT !.cycle = cycle_bit]
    BY DEF Store
  <2> HIDE DEF q
  <2> QED
    BY <2>1, <2>2 DEF TRB
<1> QED
  BY <1>1, <1>2, <1>3, <1>4

\* The first state has the invariant.
LEMMA InitIsSound == Init => IInv
<1> SUFFICES ASSUME Init PROVE IInv
  OBVIOUS
<1> USE Sizes DEF Init
<1>1. T = 0 /\ H = 0 /\ Base = 0 /\ EventBase = 0
  BY DEF T, H, Base, EventBase
<1>2. RingTypes
  <2>1. NoTRB \in TRB
    BY DEF NoTRB, TRB
  <2> QED
    BY <2>1 DEF RingTypes
<1>3. EventTypes
  <2>1. NoEvent \in Event
    BY DEF NoEvent, Event
  <2> QED
    BY <2>1 DEF EventTypes
<1>4. PushIsAt /\ FewOutstanding /\ ControllerIsAt
  BY <1>1 DEF PushIsAt, OfTRB, OfLink, OfBoth, FewOutstanding, ControllerIsAt
<1>5. BufHolds
  <2>1. \A i \in 0..Lap : buf[i].cycle = FALSE
    BY DEF NoTRB
  <2>2. ~HalfWritten
    BY DEF HalfWritten
  <2> QED
    BY <1>1, <2>1, <2>2 DEF BufHolds
<1>6. EventsHold /\ DriverIsAt
  <2>1. \A i \in 0..event_buf_size - 1 : events[i].cycle = FALSE /\ events[i].number = 0
    BY DEF NoEvent
  <2>2. Popped = 0
    BY <1>1 DEF Popped
  <2> QED
    BY <1>1, <2>1, <2>2 DEF EventsHold, DriverIsAt
<1>7. EventsOfTRBs
  BY <1>1 DEF EventsOfTRBs, Unhandled, NoEvent
<1> QED
  BY <1>2, <1>3, <1>4, <1>5, <1>6, <1>7 DEF IInv, DriverInv, EventInv

\* A command is outstanding from its push on, so the controller is in one of two laps and the
\* commands taken are among those pushed.
LEMMA Outstanding ==
  ASSUME DriverInv
  PROVE  /\ T \in Nat /\ completed <= T /\ T <= commands
         /\ commands - T <= Lap - 1
<1> USE Sizes DEF DriverInv
<1>1. T \in Nat /\ commands \in Nat /\ completed \in Nat /\ write_index \in 0..Lap /\ dequeue \in 0..Lap
  BY Lengths DEF RingTypes
<1>2. T <= commands
  BY <1>1 DEF ControllerIsAt, Base
<1> QED
  BY <1>1, <1>2 DEF FewOutstanding

-----------------------------------------------------------------------------
(* The driver fills its ring *)

\* The event ring is not touched.
LEMMA EventsStay ==
  ASSUME EventInv, UNCHANGED <<eventRing, eventDriver, posted, handled>>
  PROVE  /\ EventTypes' /\ EventsHold' /\ DriverIsAt'
         /\ \A i : Unhandled(i)' <=> Unhandled(i)
BY DEF EventInv, EventTypes, EventsHold, DriverIsAt, EventBase, Popped, H, Unhandled, eventRing, eventDriver

\* The TRBs of events that are not handled yet are behind the driver by less than a lap.
LEMMA EventsOfTRBsStay ==
  ASSUME EventInv, UNCHANGED <<eventRing, eventDriver, posted, handled, completed>>, T' = T, Base' = Base
  PROVE  EventInv'
<1>1. EventTypes' /\ EventsHold' /\ DriverIsAt' /\ \A i : Unhandled(i)' <=> Unhandled(i)
  BY EventsStay
<1>2. EventsOfTRBs'
  BY <1>1 DEF EventInv, EventsOfTRBs, IssuedAt, eventRing, Lap
<1> QED
  BY <1>1, <1>2 DEF EventInv

\* StartPush keeps the invariant.
LEMMA StartPushIsSound == IInv /\ StartPush => IInv'
<1> SUFFICES ASSUME IInv, StartPush PROVE IInv'
  OBVIOUS
<1> USE Sizes DEF IInv, DriverInv
<1>1. /\ push = << >> /\ commands - completed < MaxOutstanding
      /\ UNCHANGED <<buf, cycle_bit, write_index, controller, eventRing, eventDriver,
                     commands, taken, posted, handled, completed>>
  BY DEF StartPush
<1>2. T' = T /\ Base' = Base
  BY <1>1 DEF T, Base
<1>3. \/ push' = <<"data", "control", "linkdata", "linkcontrol">> /\ write_index = Lap - 1
      \/ push' = <<"data", "control">> /\ write_index < Lap - 1
  <2>1. write_index \in 0..Lap /\ write_index # Lap
    BY <1>1 DEF RingTypes, PushIsAt, OfLink
  <2>2. CASE write_index + 1 = buf_size - 1
    <3>1. push' = <<"data", "control">> \o <<"linkdata", "linkcontrol">>
      BY <2>2 DEF StartPush
    <3> QED
      BY <3>1, <2>1, <2>2, PushWithLink
  <2>3. CASE write_index + 1 # buf_size - 1
    <3>1. push' = <<"data", "control">> \o << >>
      BY <2>3 DEF StartPush
    <3> QED
      BY <3>1, <2>1, <2>3
  <2> QED
    BY <2>2, <2>3
<1>4. RingTypes' /\ ControllerIsAt'
  BY <1>1, <1>2 DEF RingTypes, ControllerIsAt, controller, Lap
<1>5. PushIsAt'
  <2>1. write_index' = write_index /\ Lap' = Lap
    BY <1>1 DEF Lap
  <2>2. CASE push' = <<"data", "control", "linkdata", "linkcontrol">> /\ write_index = Lap - 1
    <3>1. push' \in OfBoth /\ push' \notin OfTRB /\ push' \notin OfLink
      BY <2>2 DEF OfTRB, OfLink, OfBoth
    <3> QED
      BY <2>1, <2>2, <3>1 DEF PushIsAt
  <2>3. CASE push' = <<"data", "control">> /\ write_index < Lap - 1
    <3>1. push' \in OfTRB /\ push' \notin OfBoth /\ push' \notin OfLink
      BY <2>3 DEF OfTRB, OfLink, OfBoth
    <3>2. write_index # Lap
      BY <2>3 DEF RingTypes
    <3> QED
      BY <2>1, <2>3, <3>1, <3>2 DEF PushIsAt
  <2> QED
    BY <1>3, <2>2, <2>3
<1>6. BufHolds'
  <2>1. ~HalfWritten'
    BY <1>3 DEF HalfWritten
  <2> QED
    BY <2>1, <1>1, <1>2 DEF BufHolds, Lap
<1>7. FewOutstanding'
  BY <1>1, <1>2 DEF FewOutstanding
<1>8. EventInv'
  BY <1>1, <1>2, EventsOfTRBsStay
<1> QED
  BY <1>4, <1>5, <1>6, <1>7, <1>8

\* What a step of Push does, by the word it writes.
LEMMA PushSteps ==
  ASSUME IInv, PushStep
  PROVE  /\ UNCHANGED <<controller, eventRing, eventDriver, taken, posted, handled, completed>>
         /\ T' = T
         /\ Head(push) \in {"data", "control", "linkdata", "linkcontrol"}
         /\ buf' \in [0..Lap -> TRB] /\ buf'[write_index] = Store(Head(push), buf[write_index])
         /\ \A i \in 0..Lap : i # write_index => buf'[i] = buf[i]
         /\ Head(push) = "data" =>
              /\ commands' = commands /\ write_index' = write_index /\ cycle_bit' = cycle_bit
              /\ \/ push \in OfTRB /\ push' = <<"control">>
                 \/ push \in OfBoth /\ push' = <<"control", "linkdata", "linkcontrol">>
         /\ Head(push) = "control" =>
              /\ HalfWritten
              /\ commands' = commands + 1 /\ write_index' = write_index + 1 /\ cycle_bit' = cycle_bit
              /\ \/ push \in OfTRB /\ push' = << >>
                 \/ push \in OfBoth /\ push' = <<"linkdata", "linkcontrol">>
         /\ Head(push) = "linkdata" =>
              /\ commands' = commands /\ write_index' = write_index /\ cycle_bit' = cycle_bit
              /\ push \in OfLink /\ push' = <<"linkcontrol">>
         /\ Head(push) = "linkcontrol" =>
              /\ commands' = commands /\ write_index' = 0 /\ cycle_bit' = ~cycle_bit
              /\ push \in OfLink /\ push' = << >>
<1> USE Sizes DEF IInv, DriverInv
<1>1. /\ UNCHANGED <<controller, eventRing, eventDriver, taken, posted, handled, completed>>
      /\ T' = T /\ push # << >> /\ push' = Tail(push)
      /\ buf' = [buf EXCEPT ![write_index] = Store(Head(push), @)]
  BY DEF PushStep, T
<1>2. push \in OfTRB \cup OfLink \cup OfBoth
  BY <1>1 DEF PushIsAt
<1>3. /\ Head(push) \in {"data", "control", "linkdata", "linkcontrol"}
      /\ Head(push) = "data" => \/ push \in OfTRB /\ push' = <<"control">>
                                \/ push \in OfBoth /\ push' = <<"control", "linkdata", "linkcontrol">>
      /\ Head(push) = "control" => /\ HalfWritten
                                   /\ \/ push \in OfTRB /\ push' = << >>
                                      \/ push \in OfBoth /\ push' = <<"linkdata", "linkcontrol">>
      /\ Head(push) = "linkdata" => push \in OfLink /\ push' = <<"linkcontrol">>
      /\ Head(push) = "linkcontrol" => push \in OfLink /\ push' = << >>
  <2>1. CASE push = <<"data", "control">>
    <3>1. Head(push) = "data" /\ push' = <<"control">> /\ push \in OfTRB
      BY <2>1, <1>1 DEF OfTRB
    <3> QED
      BY <3>1
  <2>2. CASE push = <<"control">>
    <3>1. Head(push) = "control" /\ push' = << >> /\ push \in OfTRB /\ HalfWritten
      BY <2>2, <1>1 DEF OfTRB, HalfWritten
    <3> QED
      BY <3>1
  <2>3. CASE push = <<"data", "control", "linkdata", "linkcontrol">>
    <3>1. Head(push) = "data" /\ push' = <<"control", "linkdata", "linkcontrol">> /\ push \in OfBoth
      BY <2>3, <1>1 DEF OfBoth
    <3> QED
      BY <3>1
  <2>4. CASE push = <<"control", "linkdata", "linkcontrol">>
    <3>1. Head(push) = "control" /\ push' = <<"linkdata", "linkcontrol">> /\ push \in OfBoth /\ HalfWritten
      BY <2>4, <1>1 DEF OfBoth, HalfWritten
    <3> QED
      BY <3>1
  <2>5. CASE push = <<"linkdata", "linkcontrol">>
    <3>1. Head(push) = "linkdata" /\ push' = <<"linkcontrol">> /\ push \in OfLink
      BY <2>5, <1>1 DEF OfLink
    <3> QED
      BY <3>1
  <2>6. CASE push = <<"linkcontrol">>
    <3>1. Head(push) = "linkcontrol" /\ push' = << >> /\ push \in OfLink
      BY <2>6, <1>1 DEF OfLink
    <3> QED
      BY <3>1
  <2> QED
    BY <1>2, <2>1, <2>2, <2>3, <2>4, <2>5, <2>6 DEF OfTRB, OfLink, OfBoth
<1>4. buf[write_index] \in TRB /\ commands \in Nat /\ cycle_bit \in BOOLEAN /\ write_index \in 0..Lap
  BY DEF RingTypes
<1>5. Store(Head(push), buf[write_index]) \in TRB
  BY <1>3, <1>4, StoredWords
<1>6. /\ buf' \in [0..Lap -> TRB] /\ buf'[write_index] = Store(Head(push), buf[write_index])
      /\ \A i \in 0..Lap : i # write_index => buf'[i] = buf[i]
  BY <1>1, <1>4, <1>5 DEF RingTypes
<1>7. /\ Head(push) = "data" \/ Head(push) = "linkdata" =>
           commands' = commands /\ write_index' = write_index /\ cycle_bit' = cycle_bit
      /\ Head(push) = "control" =>
           commands' = commands + 1 /\ write_index' = write_index + 1 /\ cycle_bit' = cycle_bit
      /\ Head(push) = "linkcontrol" =>
           commands' = commands /\ write_index' = 0 /\ cycle_bit' = ~cycle_bit
  BY DEF PushStep, NextLap
<1> QED
  BY <1>1, <1>3, <1>6, <1>7

\* Where Push can be, word by word.
LEMMA WordsLeft ==
  /\ << >> \notin OfTRB \cup OfLink \cup OfBoth
  /\ <<"control">> \in OfTRB /\ <<"control">> \notin OfLink \cup OfBoth
  /\ <<"control", "linkdata", "linkcontrol">> \in OfBoth
  /\ <<"control", "linkdata", "linkcontrol">> \notin OfTRB \cup OfLink
  /\ <<"linkdata", "linkcontrol">> \in OfLink /\ <<"linkdata", "linkcontrol">> \notin OfTRB \cup OfBoth
  /\ <<"linkcontrol">> \in OfLink /\ <<"linkcontrol">> \notin OfTRB \cup OfBoth
  /\ << >> # <<"control">> /\ << >> # <<"control", "linkdata", "linkcontrol">>
  /\ \A q \in OfLink : q # <<"control">> /\ q # <<"control", "linkdata", "linkcontrol">>
  /\ \A q \in OfTRB : q \notin OfLink \cup OfBoth
  /\ \A q \in OfBoth : q \notin OfLink \cup OfTRB
BY DEF OfTRB, OfLink, OfBoth

\* The first word of a TRB: the cell is still the lap before's for the controller.
LEMMA PushDataIsSound == IInv /\ PushStep /\ Head(push) = "data" => IInv'
<1> SUFFICES ASSUME IInv, PushStep, Head(push) = "data" PROVE IInv'
  OBVIOUS
<1> USE Sizes DEF IInv, DriverInv
<1>1. /\ UNCHANGED <<controller, eventRing, eventDriver, taken, posted, handled, completed>> /\ T' = T
      /\ buf' \in [0..Lap -> TRB] /\ buf'[write_index] = Store("data", buf[write_index])
      /\ \A i \in 0..Lap : i # write_index => buf'[i] = buf[i]
      /\ commands' = commands /\ write_index' = write_index /\ cycle_bit' = cycle_bit
      /\ \/ push \in OfTRB /\ push' = <<"control">>
         \/ push \in OfBoth /\ push' = <<"control", "linkdata", "linkcontrol">>
  BY PushSteps
<1>2. buf \in [0..Lap -> TRB] /\ write_index \in 0..Lap /\ commands \in Nat /\ cycle_bit \in BOOLEAN
  BY DEF RingTypes
<1>3. /\ buf'[write_index].data = commands + 1 /\ buf'[write_index].control = buf[write_index].control
      /\ buf'[write_index].cycle = buf[write_index].cycle
  BY <1>1, <1>2, StoredWords
<1>4. Base' = Base /\ Lap' = Lap
  BY <1>1 DEF Base, Lap
<1>5. write_index < Lap
  BY <1>1, <1>2 DEF PushIsAt
<1>6. RingTypes' /\ ControllerIsAt'
  BY <1>1, <1>2, <1>4 DEF RingTypes, ControllerIsAt, controller
<1>7. PushIsAt'
  BY <1>1, <1>4, <1>5, WordsLeft DEF PushIsAt
<1>8. BufHolds'
  BY <1>1, <1>2, <1>3, <1>4, <1>5 DEF BufHolds
<1>9. FewOutstanding'
  BY <1>1 DEF FewOutstanding
<1>10. EventInv'
  BY <1>1, <1>4, EventsOfTRBsStay
<1> QED
  BY <1>6, <1>7, <1>8, <1>9, <1>10

\* The last word of a TRB gives it to the controller; it is less than a lap behind.
LEMMA PushControlIsSound == IInv /\ PushStep /\ Head(push) = "control" => IInv'
<1> SUFFICES ASSUME IInv, PushStep, Head(push) = "control" PROVE IInv'
  OBVIOUS
<1> USE Sizes DEF IInv, DriverInv
<1>1. /\ UNCHANGED <<controller, eventRing, eventDriver, taken, posted, handled, completed>> /\ T' = T
      /\ buf' \in [0..Lap -> TRB] /\ buf'[write_index] = Store("control", buf[write_index])
      /\ \A i \in 0..Lap : i # write_index => buf'[i] = buf[i]
      /\ HalfWritten
      /\ commands' = commands + 1 /\ write_index' = write_index + 1 /\ cycle_bit' = cycle_bit
      /\ \/ push \in OfTRB /\ push' = << >>
         \/ push \in OfBoth /\ push' = <<"linkdata", "linkcontrol">>
  BY PushSteps
<1>2. /\ buf \in [0..Lap -> TRB] /\ write_index \in 0..Lap /\ commands \in Nat /\ cycle_bit \in BOOLEAN
      /\ dequeue \in 0..Lap /\ completed \in Nat /\ T \in Nat
  BY Lengths DEF RingTypes
<1>3. /\ buf'[write_index].data = commands + 1 /\ buf'[write_index].control = commands + 1
      /\ buf'[write_index].cycle = cycle_bit
  BY <1>1, <1>2, StoredWords DEF BufHolds
<1>4. Base' = Base /\ Lap' = Lap /\ Base \in Int
  BY <1>1, <1>2 DEF Base, Lap
<1>5. write_index < Lap /\ commands - completed < MaxOutstanding
  BY <1>1, <1>2 DEF PushIsAt, FewOutstanding
<1>6. RingTypes'
  BY <1>1, <1>2, <1>4, <1>5 DEF RingTypes, controller
<1>7. PushIsAt'
  <2>1. CASE push \in OfTRB /\ push' = << >>
    <3>1. write_index' < Lap
      BY <2>1, <1>1, <1>2 DEF PushIsAt
    <3> QED
      BY <2>1, <3>1, <1>2, <1>4, WordsLeft DEF PushIsAt
  <2>2. CASE push \in OfBoth /\ push' = <<"linkdata", "linkcontrol">>
    <3>1. write_index' = Lap
      BY <2>2, <1>1, <1>2 DEF PushIsAt
    <3> QED
      BY <2>2, <3>1, <1>4, WordsLeft DEF PushIsAt
  <2> QED
    BY <1>1, <2>1, <2>2
<1>8. BufHolds'
  <2>1. ~HalfWritten'
    BY <1>1, WordsLeft DEF HalfWritten
  <2>2. commands + 1 = Base + write_index + 1
    BY <1>2 DEF Base
  <2>3. \A i \in 0..Lap - 1 : i < write_index + 1 =>
          buf'[i].data = Base + i + 1 /\ buf'[i].control = Base + i + 1 /\ buf'[i].cycle = cycle_bit
    <3> SUFFICES ASSUME NEW i \in 0..Lap - 1, i < write_index + 1
                 PROVE  buf'[i].data = Base + i + 1 /\ buf'[i].control = Base + i + 1 /\ buf'[i].cycle = cycle_bit
      OBVIOUS
    <3>1. CASE i = write_index
      BY <3>1, <2>2, <1>3
    <3>2. CASE i # write_index
      BY <3>2, <1>1, <1>2 DEF BufHolds
    <3> QED
      BY <3>1, <3>2
  <2>4. \A i \in 0..Lap - 1 : write_index + 1 <= i =>
          /\ buf'[i].cycle = ~cycle_bit
          /\ Base > 0 => buf'[i].control = Base + i + 1 - Lap
          /\ Base > 0 /\ write_index + 1 < i => buf'[i].data = Base + i + 1 - Lap
    BY <1>1, <1>2 DEF BufHolds
  <2>5. buf'[Lap] = buf[Lap]
    BY <1>1, <1>5
  <2> QED
    BY <2>1, <2>3, <2>4, <2>5, <1>1, <1>4 DEF BufHolds
<1>9. ControllerIsAt'
  <2>1. commands - T < Lap - 1
    BY <1>2, <1>5 DEF FewOutstanding
  <2>2. CASE T - dequeue = Base /\ consumer_cycle = cycle_bit /\ dequeue <= write_index
    BY <2>2, <1>1, <1>2, <1>4 DEF ControllerIsAt, controller
  <2>3. CASE /\ T - dequeue = Base - Lap /\ consumer_cycle = ~cycle_bit
             /\ write_index < dequeue /\ Base >= Lap
    <3>1. write_index + 1 < dequeue
      BY <2>1, <2>3, <1>2 DEF Base
    <3> QED
      BY <2>3, <3>1, <1>1, <1>4 DEF ControllerIsAt, controller
  <2> QED
    BY <2>2, <2>3 DEF ControllerIsAt
<1>10. FewOutstanding'
  <2>1. push' \notin OfTRB \cup OfBoth
    BY <1>1, WordsLeft
  <2> QED
    BY <2>1, <1>1, <1>2, <1>5 DEF FewOutstanding
<1>11. EventInv'
  BY <1>1, <1>4, EventsOfTRBsStay
<1> QED
  BY <1>6, <1>7, <1>8, <1>9, <1>10, <1>11

\* The first words of the link: for the controller the cell is still the lap before's.
LEMMA PushLinkDataIsSound == IInv /\ PushStep /\ Head(push) = "linkdata" => IInv'
<1> SUFFICES ASSUME IInv, PushStep, Head(push) = "linkdata" PROVE IInv'
  OBVIOUS
<1> USE Sizes DEF IInv, DriverInv
<1>1. /\ UNCHANGED <<controller, eventRing, eventDriver, taken, posted, handled, completed>> /\ T' = T
      /\ buf' \in [0..Lap -> TRB] /\ buf'[write_index] = Store("linkdata", buf[write_index])
      /\ \A i \in 0..Lap : i # write_index => buf'[i] = buf[i]
      /\ commands' = commands /\ write_index' = write_index /\ cycle_bit' = cycle_bit
      /\ push \in OfLink /\ push' = <<"linkcontrol">>
  BY PushSteps
<1>2. buf \in [0..Lap -> TRB] /\ write_index = Lap /\ commands \in Nat /\ cycle_bit \in BOOLEAN
  BY <1>1 DEF RingTypes, PushIsAt
<1>3. buf'[Lap].control = buf[Lap].control /\ buf'[Lap].cycle = buf[Lap].cycle
  BY <1>1, <1>2, StoredWords
<1>4. Base' = Base /\ Lap' = Lap
  BY <1>1 DEF Base, Lap
<1>5. RingTypes' /\ ControllerIsAt'
  BY <1>1, <1>2, <1>4 DEF RingTypes, ControllerIsAt, controller
<1>6. PushIsAt'
  BY <1>1, <1>2, <1>4, WordsLeft DEF PushIsAt
<1>7. BufHolds'
  <2>1. ~HalfWritten'
    BY <1>1, WordsLeft DEF HalfWritten
  <2>2. \A i \in 0..Lap - 1 : buf'[i] = buf[i]
    BY <1>1, <1>2
  <2> QED
    BY <2>1, <2>2, <1>1, <1>2, <1>3, <1>4 DEF BufHolds
<1>8. FewOutstanding'
  BY <1>1, WordsLeft DEF FewOutstanding
<1>9. EventInv'
  BY <1>1, <1>4, EventsOfTRBsStay
<1> QED
  BY <1>5, <1>6, <1>7, <1>8, <1>9

\* The link is given to the controller and a new lap begins: the controller, in the same lap
\* until now, is in the lap before from now on.
LEMMA PushLinkControlIsSound == IInv /\ PushStep /\ Head(push) = "linkcontrol" => IInv'
<1> SUFFICES ASSUME IInv, PushStep, Head(push) = "linkcontrol" PROVE IInv'
  OBVIOUS
<1> USE Sizes DEF IInv, DriverInv
<1>1. /\ UNCHANGED <<controller, eventRing, eventDriver, taken, posted, handled, completed>> /\ T' = T
      /\ buf' \in [0..Lap -> TRB] /\ buf'[write_index] = Store("linkcontrol", buf[write_index])
      /\ \A i \in 0..Lap : i # write_index => buf'[i] = buf[i]
      /\ commands' = commands /\ write_index' = 0 /\ cycle_bit' = ~cycle_bit
      /\ push \in OfLink /\ push' = << >>
  BY PushSteps
<1>2. /\ buf \in [0..Lap -> TRB] /\ write_index = Lap /\ commands \in Nat /\ cycle_bit \in BOOLEAN
      /\ dequeue \in 0..Lap /\ completed \in Nat /\ T \in Nat
  BY <1>1, Lengths DEF RingTypes, PushIsAt
<1>3. buf'[Lap].control = Link /\ buf'[Lap].cycle = cycle_bit
  BY <1>1, <1>2, StoredWords
<1>4. Base' = commands /\ Base = commands - Lap /\ Lap' = Lap /\ Base >= 0
  BY <1>1, <1>2 DEF Base, Lap, BufHolds
<1>5. RingTypes'
  BY <1>1, <1>2, <1>4 DEF RingTypes, controller
<1>6. PushIsAt'
  BY <1>1, <1>2, <1>4, WordsLeft DEF PushIsAt
<1>7. BufHolds'
  <2>1. ~HalfWritten'
    BY <1>1, WordsLeft DEF HalfWritten
  <2>2. \A i \in 0..Lap - 1 :
          buf'[i].data = Base + i + 1 /\ buf'[i].control = Base + i + 1 /\ buf'[i].cycle = cycle_bit
    BY <1>1, <1>2 DEF BufHolds
  <2>3. Base' = Base + Lap /\ Base' >= Lap /\ Base \in Int
    BY <1>2, <1>4
  <2>4. \A i \in 0..Lap - 1 : buf'[i].data = Base' + i + 1 - Lap /\ buf'[i].control = Base' + i + 1 - Lap
    BY <2>2, <2>3
  <2>5. \A i \in 0..Lap : buf'[i].cycle = ~cycle_bit'
    <3>1. cycle_bit = ~cycle_bit'
      BY <1>1, <1>2
    <3>2. \A i \in 0..Lap : buf'[i].cycle = cycle_bit
      BY <2>2, <1>3
    <3> QED
      BY <3>1, <3>2
  <2>6. \A i \in 0..Lap - 1 : ~(i < write_index')
    BY <1>1
  <2> QED
    BY <2>1, <2>3, <2>4, <2>5, <2>6, <1>3, <1>4 DEF BufHolds
<1>8. ControllerIsAt'
  <2>1. T - dequeue = Base /\ consumer_cycle = cycle_bit
    BY <1>2 DEF ControllerIsAt
  <2>2. T - dequeue = Base' - Lap /\ Base' >= Lap /\ consumer_cycle = ~cycle_bit'
    BY <2>1, <1>1, <1>2, <1>4
  <2>3. 0 < dequeue
    BY <2>1, <1>2, <1>4 DEF FewOutstanding
  <2> QED
    BY <2>2, <2>3, <1>1, <1>4 DEF ControllerIsAt, controller
<1>9. FewOutstanding'
  BY <1>1, WordsLeft DEF FewOutstanding
<1>10. EventInv'
  <2>1. EventTypes' /\ EventsHold' /\ DriverIsAt' /\ \A i : Unhandled(i)' <=> Unhandled(i)
    BY <1>1, EventsStay
  <2>2. events' = events /\ completed' = completed
    BY <1>1 DEF eventRing
  <2>3. ASSUME NEW i \in 0..event_buf_size - 1, Unhandled(i)
        PROVE  IssuedAt(events[i].command, events[i].issuer)'
    <3> DEFINE k == events[i].command
               at == events[i].issuer
    <3>1. k \in Int /\ at \in Int
      BY DEF EventInv, EventTypes, Event
    <3>2. completed < k /\ k <= T /\ at \in 0..Lap - 1 /\ (at = k - Base - 1 \/ at = k - Base - 1 + Lap)
      BY <2>3 DEF EventInv, EventsOfTRBs, IssuedAt
    <3>3. Base < k
      BY <3>1, <3>2, <1>2, <1>4 DEF FewOutstanding
    <3>4. at = k - Base' - 1 + Lap
      BY <3>1, <3>2, <3>3, <1>2, <1>4
    <3> QED
      BY <3>2, <3>4, <2>2, <1>4 DEF IssuedAt
  <2>4. EventsOfTRBs'
    BY <2>1, <2>2, <2>3, <1>1 DEF EventInv, EventsOfTRBs
  <2> QED
    BY <2>1, <2>4 DEF EventInv
<1> QED
  BY <1>5, <1>6, <1>7, <1>8, <1>9, <1>10

\* PushStep keeps the invariant.
LEMMA PushStepIsSound == IInv /\ PushStep => IInv'
BY PushSteps, PushDataIsSound, PushControlIsSound, PushLinkDataIsSound, PushLinkControlIsSound

-----------------------------------------------------------------------------
(* The controller *)

\* Stepping round a ring.
LEMMA NextCell ==
  ASSUME NEW m \in Nat, m > 1, NEW e \in 0..m - 1
  PROVE  (e + 1) % m = IF e + 1 = m THEN 0 ELSE e + 1
OBVIOUS

\* An event is posted: it never runs into the driver, so the driver stays in its lap or the one before.
LEMMA PostKeepsEvents ==
  ASSUME EventInv, NEW at \in Int, NEW k \in Int, Post(at, k), UNCHANGED <<eventDriver, handled>>
  PROVE  /\ EventTypes' /\ EventsHold' /\ DriverIsAt' /\ H' = H
         /\ events'[enqueue].number = posted + 1 /\ events'[enqueue].issuer = at
         /\ events'[enqueue].command = k /\ enqueue \in 0..event_buf_size - 1
         /\ \A i \in 0..event_buf_size - 1 : i # enqueue => events'[i] = events[i]
         /\ \A i \in 0..event_buf_size - 1 : events[i].number \in Nat /\ events[i].number <= posted
<1> DEFINE M == event_buf_size
           new == [number |-> posted + 1, issuer |-> at, command |-> k, cycle |-> producer_cycle]
<1> USE Sizes DEF EventInv
<1>1. /\ events \in [0..M - 1 -> Event] /\ posted \in Nat /\ enqueue \in 0..M - 1 /\ erdp \in 0..M - 1
      /\ producer_cycle \in BOOLEAN /\ event_cycle_bit \in BOOLEAN /\ H \in Nat /\ handled \in Seq(Int)
      /\ handling \in BOOLEAN
  BY Lengths DEF EventTypes
<1>2. new \in Event
  BY <1>1 DEF Event
<1>3. /\ events' = [events EXCEPT ![enqueue] = new] /\ posted' = posted + 1 /\ ~EventRingFull
      /\ enqueue' = (enqueue + 1) % M
      /\ producer_cycle' = IF enqueue + 1 = M THEN ~producer_cycle ELSE producer_cycle
      /\ erdp' = erdp /\ event_cycle_bit' = event_cycle_bit /\ handling' = handling /\ handled' = handled
  BY DEF Post, eventDriver
<1>4. /\ events' \in [0..M - 1 -> Event] /\ events'[enqueue] = new
      /\ \A i \in 0..M - 1 : i # enqueue => events'[i] = events[i]
  BY <1>1, <1>2, <1>3
<1>5. enqueue' = IF enqueue + 1 = M THEN 0 ELSE enqueue + 1
  BY <1>1, <1>3, NextCell
<1>6. enqueue' # erdp
  BY <1>3 DEF EventRingFull
<1>7. H' = H /\ Popped' = Popped
  BY <1>3 DEF H, Popped
<1>8. EventTypes'
  <2>1. enqueue' \in 0..M - 1
    BY <1>1, <1>5
  <2>2. producer_cycle' \in BOOLEAN
    BY <1>1, <1>3
  <2>3. posted' \in Nat
    BY <1>1, <1>3
  <2> QED
    BY <2>1, <2>2, <2>3, <1>1, <1>3, <1>4 DEF EventTypes
<1>9. EventBase \in Int /\ (EventBase = 0 \/ EventBase >= M)
  BY <1>1 DEF EventsHold, EventBase
<1>10. new.number = EventBase + enqueue + 1 /\ new.cycle = producer_cycle
  BY <1>1 DEF EventBase
<1>11. \A i \in 0..M - 1 : events[i].number \in Nat /\ events[i].number <= posted
  <2> TAKE i \in 0..M - 1
  <2>1. events[i].number \in Nat
    BY <1>1 DEF Event
  <2>2. CASE i < enqueue
    BY <2>1, <2>2, <1>1 DEF EventsHold, EventBase
  <2>3. CASE enqueue <= i
    BY <2>1, <2>3, <1>1 DEF EventsHold, EventBase
  <2> QED
    BY <2>2, <2>3, <1>1, <2>1
<1>12. CASE enqueue + 1 # M
  <2>1. enqueue' = enqueue + 1 /\ producer_cycle' = producer_cycle /\ EventBase' = EventBase
    <3>1. enqueue' = enqueue + 1 /\ posted' = posted + 1
      BY <1>3, <1>5, <1>12
    <3>2. EventBase' = EventBase
      BY <3>1, <1>1 DEF EventBase
    <3> QED
      BY <3>1, <3>2, <1>3, <1>12
  <2>2. EventsHold'
    <3>1. \A i \in 0..M - 1 : i < enqueue + 1 =>
            events'[i].number = EventBase + i + 1 /\ events'[i].cycle = producer_cycle
      <4> SUFFICES ASSUME NEW i \in 0..M - 1, i < enqueue + 1
                   PROVE  events'[i].number = EventBase + i + 1 /\ events'[i].cycle = producer_cycle
        OBVIOUS
      <4>1. CASE i = enqueue
        BY <4>1, <1>4, <1>10
      <4>2. CASE i # enqueue
        BY <4>2, <1>1, <1>4 DEF EventsHold
      <4> QED
        BY <4>1, <4>2
    <3>2. \A i \in 0..M - 1 : enqueue + 1 <= i =>
            /\ events'[i].cycle = ~producer_cycle
            /\ events'[i].number = IF EventBase = 0 THEN 0 ELSE EventBase + i + 1 - M
      BY <1>1, <1>4 DEF EventsHold
    <3> QED
      BY <2>1, <3>1, <3>2, <1>9 DEF EventsHold
  <2>3. DriverIsAt'
    <3>1. CASE /\ Popped - erdp = EventBase /\ event_cycle_bit = producer_cycle
               /\ erdp <= enqueue /\ (handling => erdp < enqueue)
      BY <3>1, <2>1, <1>1, <1>3, <1>7 DEF DriverIsAt
    <3>2. CASE /\ Popped - erdp = EventBase - M /\ event_cycle_bit = ~producer_cycle
               /\ enqueue < erdp /\ EventBase >= M
      <4>1. enqueue + 1 < erdp
        BY <3>2, <2>1, <1>1, <1>6
      <4> QED
        BY <3>2, <4>1, <2>1, <1>3, <1>7 DEF DriverIsAt
    <3> QED
      BY <3>1, <3>2 DEF DriverIsAt
  <2> QED
    BY <2>2, <2>3, <1>1, <1>4, <1>7, <1>8, <1>11
<1>13. CASE enqueue + 1 = M
  <2>1. /\ enqueue' = 0 /\ producer_cycle' = ~producer_cycle /\ EventBase' = EventBase + M
        /\ EventBase + M = posted + 1
    BY <1>1, <1>3, <1>5, <1>13 DEF EventBase
  <2>2. \A i \in 0..M - 1 : events'[i].number = EventBase + i + 1 /\ events'[i].cycle = producer_cycle
    <3> TAKE i \in 0..M - 1
    <3>1. CASE i = enqueue
      BY <3>1, <1>4, <1>10
    <3>2. CASE i # enqueue
      BY <3>2, <1>1, <1>4, <1>13 DEF EventsHold
    <3> QED
      BY <3>1, <3>2
  <2>3. EventsHold'
    <3>1. EventBase' >= M /\ EventBase' # 0
      BY <2>1, <1>9
    <3>2. \A i \in 0..M - 1 : events'[i].number = EventBase' + i + 1 - M
      BY <2>1, <2>2, <1>9
    <3>3. \A i \in 0..M - 1 : events'[i].cycle = ~producer_cycle'
      BY <2>1, <2>2, <1>1
    <3>4. \A i \in 0..M - 1 : ~(i < enqueue')
      BY <2>1
    <3> QED
      BY <3>1, <3>2, <3>3, <3>4 DEF EventsHold
  <2>4. DriverIsAt'
    <3>1. 0 < erdp
      BY <2>1, <1>1, <1>6
    <3>2. /\ Popped - erdp = EventBase /\ event_cycle_bit = producer_cycle
      BY <1>1, <1>13 DEF DriverIsAt
    <3>3. Popped' - erdp' = EventBase' - M /\ EventBase' >= M
      BY <3>2, <2>1, <1>3, <1>7, <1>9
    <3>4. event_cycle_bit' = ~producer_cycle'
      BY <3>2, <2>1, <1>1, <1>3
    <3> QED
      BY <3>1, <3>3, <3>4, <2>1, <1>3 DEF DriverIsAt
  <2> QED
    BY <2>3, <2>4, <1>1, <1>4, <1>7, <1>8, <1>11
<1> QED
  BY <1>12, <1>13

\* A TRB the controller finds new is the next one, and whole; behind the last one of a lap is the link.
LEMMA TRBIsNext ==
  ASSUME DriverInv, buf[dequeue].cycle = consumer_cycle
  PROVE  \/ /\ dequeue = Lap /\ buf[dequeue].control = Link
            /\ T - dequeue = Base - Lap /\ consumer_cycle = ~cycle_bit
         \/ /\ dequeue < Lap /\ T < commands
            /\ buf[dequeue].data = T + 1 /\ buf[dequeue].control = T + 1
            /\ \/ /\ T - dequeue = Base /\ consumer_cycle = cycle_bit /\ dequeue < write_index
               \/ /\ T - dequeue = Base - Lap /\ consumer_cycle = ~cycle_bit
                  /\ write_index < dequeue /\ Base >= Lap
<1> USE Sizes DEF DriverInv
<1>1. /\ write_index \in 0..Lap /\ dequeue \in 0..Lap /\ T \in Nat /\ commands \in Nat
      /\ cycle_bit \in BOOLEAN /\ consumer_cycle \in BOOLEAN
  BY Lengths DEF RingTypes
<1>2. Base \in Int /\ commands = Base + write_index
  BY <1>1 DEF Base
<1>3. CASE T - dequeue = Base /\ consumer_cycle = cycle_bit /\ dequeue <= write_index
  <2>1. dequeue # write_index
    <3>1. buf[write_index].cycle = ~cycle_bit
      BY <1>1 DEF BufHolds
    <3> QED
      BY <3>1, <1>1, <1>3
  <2>2. dequeue \in 0..Lap - 1 /\ dequeue < write_index
    BY <2>1, <1>1, <1>3
  <2>3. buf[dequeue].data = Base + dequeue + 1 /\ buf[dequeue].control = Base + dequeue + 1
    BY <2>2 DEF BufHolds
  <2> QED
    BY <2>2, <2>3, <1>1, <1>2, <1>3
<1>4. CASE /\ T - dequeue = Base - Lap /\ consumer_cycle = ~cycle_bit
           /\ write_index < dequeue /\ Base >= Lap
  <2>1. CASE dequeue = Lap
    BY <2>1, <1>4, <1>2 DEF BufHolds
  <2>2. CASE dequeue # Lap
    <3>1. dequeue \in 0..Lap - 1 /\ write_index < dequeue
      BY <2>2, <1>1, <1>4
    <3>2. buf[dequeue].data = Base + dequeue + 1 - Lap /\ buf[dequeue].control = Base + dequeue + 1 - Lap
      BY <3>1, <1>1, <1>2, <1>4 DEF BufHolds
    <3> QED
      BY <3>1, <3>2, <1>1, <1>2, <1>4
  <2> QED
    BY <2>1, <2>2
<1> QED
  BY <1>3, <1>4 DEF ControllerIsAt

\* The event of a TRB comes after those of the TRBs before it.
LEMMA PostIsSound ==
  ASSUME EventInv, NEW at \in Int, NEW k \in Int, Post(at, k),
         UNCHANGED <<eventDriver, handled, completed>>, Base' = Base,
         T \in Nat, T' \in Nat, T <= T',
         at # -1 => completed < k /\ T < k /\ k <= T' /\ IssuedAt(k, at)
  PROVE  EventInv'
<1> USE DEF EventInv
<1>1. /\ EventTypes' /\ EventsHold' /\ DriverIsAt' /\ H' = H
      /\ events'[enqueue].number = posted + 1 /\ events'[enqueue].issuer = at
      /\ events'[enqueue].command = k /\ enqueue \in 0..event_buf_size - 1
      /\ \A i \in 0..event_buf_size - 1 : i # enqueue => events'[i] = events[i]
      /\ \A i \in 0..event_buf_size - 1 : events[i].number \in Nat /\ events[i].number <= posted
  BY PostKeepsEvents
<1>2. posted \in Nat /\ events \in [0..event_buf_size - 1 -> Event] /\ Lap' = Lap
  BY DEF EventTypes, Lap
<1>3. \A i \in 0..event_buf_size - 1 : i # enqueue => (Unhandled(i)' <=> Unhandled(i))
  BY <1>1 DEF Unhandled
<1>4. \A i \in 0..event_buf_size - 1 : events[i].command \in Int
  BY <1>2 DEF Event
<1>5. ASSUME NEW i \in 0..event_buf_size - 1, Unhandled(i)'
      PROVE  /\ completed < events'[i].command /\ events'[i].command <= T'
             /\ IssuedAt(events'[i].command, events'[i].issuer)
  <2>1. CASE i = enqueue
    BY <2>1, <1>1, <1>5 DEF Unhandled
  <2>2. CASE i # enqueue
    BY <2>2, <1>1, <1>3, <1>4, <1>5 DEF EventsOfTRBs
  <2> QED
    BY <2>1, <2>2
<1>6. ASSUME NEW i \in 0..event_buf_size - 1, NEW j \in 0..event_buf_size - 1,
             Unhandled(i)', Unhandled(j)', events'[i].number < events'[j].number
      PROVE  events'[i].command < events'[j].command
  <2>1. CASE j = enqueue
    <3>1. i # enqueue
      BY <2>1, <1>1, <1>2, <1>6
    <3>2. events'[i] = events[i] /\ events[i].command <= T
      BY <3>1, <1>1, <1>3, <1>6 DEF EventsOfTRBs
    <3> QED
      BY <2>1, <3>2, <1>1, <1>4, <1>6 DEF Unhandled
  <2>2. CASE j # enqueue
    <3>1. i # enqueue
      BY <2>2, <1>1, <1>2, <1>6
    <3> QED
      BY <2>2, <3>1, <1>1, <1>3, <1>6 DEF EventsOfTRBs
  <2> QED
    BY <2>1, <2>2
<1>7. \A c, i : IssuedAt(c, i)' <=> IssuedAt(c, i)
  BY <1>2 DEF IssuedAt
<1>8. EventsOfTRBs'
  BY <1>5, <1>6, <1>7 DEF EventsOfTRBs
<1> QED
  BY <1>1, <1>8

\* What TakeTRB does, and what it means for the queue: the next TRB, whole.
LEMMA TakeTRBSteps ==
  ASSUME IInv, TakeTRB
  PROVE  /\ UNCHANGED <<driver, eventDriver, commands, handled, completed>> /\ Base' = Base
         /\ \/ /\ dequeue = Lap /\ T - dequeue = Base - Lap /\ consumer_cycle = ~cycle_bit
               /\ dequeue' = 0 /\ consumer_cycle' = ~consumer_cycle
               /\ UNCHANGED <<eventRing, taken, posted>>
            \/ /\ dequeue < Lap /\ T < commands
               /\ \/ /\ T - dequeue = Base /\ consumer_cycle = cycle_bit /\ dequeue < write_index
                  \/ /\ T - dequeue = Base - Lap /\ consumer_cycle = ~cycle_bit
                     /\ write_index < dequeue /\ Base >= Lap
               /\ taken' = Append(taken, T + 1) /\ T' = T + 1 /\ taken' \in Seq(Int)
               /\ Post(dequeue, T + 1)
               /\ dequeue' = dequeue + 1 /\ consumer_cycle' = consumer_cycle
<1>1. UNCHANGED <<driver, eventDriver, commands, handled, completed>> /\ Base' = Base
  BY DEF TakeTRB, driver, Base
<1>2. T \in Nat /\ taken \in Seq(Int)
  BY Lengths DEF IInv, DriverInv, RingTypes
<1>3. DriverInv /\ buf[dequeue].cycle = consumer_cycle
  BY DEF IInv, TakeTRB
<1>4. CASE /\ dequeue = Lap /\ buf[dequeue].control = Link
           /\ T - dequeue = Base - Lap /\ consumer_cycle = ~cycle_bit
  <2>1. dequeue' = 0 /\ consumer_cycle' = ~consumer_cycle /\ UNCHANGED <<eventRing, taken, posted>>
    BY <1>4 DEF TakeTRB
  <2> QED
    BY <2>1, <1>1, <1>4
<1>5. CASE /\ dequeue < Lap /\ T < commands
           /\ buf[dequeue].data = T + 1 /\ buf[dequeue].control = T + 1
           /\ \/ /\ T - dequeue = Base /\ consumer_cycle = cycle_bit /\ dequeue < write_index
              \/ /\ T - dequeue = Base - Lap /\ consumer_cycle = ~cycle_bit
                 /\ write_index < dequeue /\ Base >= Lap
  <2>1. buf[dequeue].control # Link
    BY <1>2, <1>5 DEF Link
  <2>2. /\ taken' = Append(taken, T + 1) /\ Post(dequeue, T + 1)
        /\ dequeue' = dequeue + 1 /\ consumer_cycle' = consumer_cycle
    BY <2>1, <1>5 DEF TakeTRB, T
  <2>3. T' = T + 1 /\ taken' \in Seq(Int)
    BY <2>2, <1>2, AppendProperties DEF T
  <2> QED
    BY <2>2, <2>3, <1>1, <1>5
<1> QED
  BY <1>3, <1>4, <1>5, TRBIsNext

\* TakeTRB keeps the invariant.
LEMMA TakeTRBIsSound == IInv /\ TakeTRB => IInv'
<1> SUFFICES ASSUME IInv, TakeTRB PROVE IInv'
  OBVIOUS
<1> USE Sizes DEF IInv, DriverInv
<1>1. /\ UNCHANGED <<driver, eventDriver, commands, handled, completed>> /\ Base' = Base /\ Lap' = Lap
      /\ UNCHANGED <<buf, cycle_bit, write_index, push>>
  BY TakeTRBSteps DEF Lap, driver
<1>2. /\ write_index \in 0..Lap /\ dequeue \in 0..Lap /\ T \in Nat /\ commands \in Nat /\ completed \in Nat
      /\ cycle_bit \in BOOLEAN /\ consumer_cycle \in BOOLEAN /\ Base \in Int
  BY Lengths DEF RingTypes, Base
<1>3. PushIsAt' /\ BufHolds'
  BY <1>1 DEF PushIsAt, BufHolds, HalfWritten
<1>4. CASE /\ dequeue = Lap /\ T - dequeue = Base - Lap /\ consumer_cycle = ~cycle_bit
           /\ dequeue' = 0 /\ consumer_cycle' = ~consumer_cycle
           /\ UNCHANGED <<eventRing, taken, posted>>
  <2>1. T' = T
    BY <1>4 DEF T
  <2>2. RingTypes'
    <3>1. consumer_cycle' \in BOOLEAN /\ dequeue' \in 0..Lap' /\ UNCHANGED <<commands, completed, taken>>
      BY <1>1, <1>2, <1>4
    <3> QED
      BY <3>1, <1>1 DEF RingTypes
  <2>3. ControllerIsAt'
    <3>1. T' - dequeue' = Base'
      BY <2>1, <1>1, <1>2, <1>4
    <3>2. consumer_cycle' = cycle_bit'
      BY <1>1, <1>2, <1>4
    <3>3. dequeue' <= write_index'
      BY <1>1, <1>2, <1>4
    <3> QED
      BY <3>1, <3>2, <3>3 DEF ControllerIsAt
  <2>4. FewOutstanding'
    BY <2>1, <1>1, <1>2 DEF FewOutstanding
  <2>5. EventInv'
    BY <2>1, <1>1, <1>4, EventsOfTRBsStay
  <2> QED
    BY <2>2, <2>3, <2>4, <2>5, <1>3
<1>5. CASE /\ dequeue < Lap /\ T < commands
           /\ \/ /\ T - dequeue = Base /\ consumer_cycle = cycle_bit /\ dequeue < write_index
              \/ /\ T - dequeue = Base - Lap /\ consumer_cycle = ~cycle_bit
                 /\ write_index < dequeue /\ Base >= Lap
           /\ taken' = Append(taken, T + 1) /\ T' = T + 1 /\ taken' \in Seq(Int)
           /\ Post(dequeue, T + 1)
           /\ dequeue' = dequeue + 1 /\ consumer_cycle' = consumer_cycle
  <2>1. RingTypes'
    BY <1>1, <1>2, <1>5 DEF RingTypes
  <2>2. ControllerIsAt'
    BY <1>1, <1>2, <1>5 DEF ControllerIsAt
  <2>3. FewOutstanding'
    BY <1>1, <1>2, <1>5 DEF FewOutstanding
  <2>4. IssuedAt(T + 1, dequeue)
    BY <1>2, <1>5 DEF IssuedAt
  <2>5. completed <= T
    BY DEF FewOutstanding
  <2>6. EventInv'
    BY <2>4, <2>5, <1>1, <1>2, <1>5, PostIsSound
  <2> QED
    BY <2>1, <2>2, <2>3, <2>6, <1>3
<1> QED
  BY <1>4, <1>5, TakeTRBSteps

\* PostOther keeps the invariant.
LEMMA PostOtherIsSound == IInv /\ PostOther => IInv'
<1> SUFFICES ASSUME IInv, PostOther PROVE IInv'
  OBVIOUS
<1>1. UNCHANGED <<driver, controller, eventDriver, commands, taken, handled, completed>> /\ Post(-1, 0)
  BY DEF PostOther
<1>2. T' = T /\ Base' = Base /\ Lap' = Lap /\ T \in Nat
  BY <1>1, Lengths DEF T, Base, Lap, driver, IInv, DriverInv
<1>3. DriverInv'
  BY <1>1, <1>2 DEF IInv, DriverInv, RingTypes, PushIsAt, BufHolds, HalfWritten, ControllerIsAt,
                    FewOutstanding, driver, controller
<1>4. EventInv'
  BY <1>1, <1>2, PostIsSound DEF IInv
<1> QED
  BY <1>3, <1>4 DEF IInv

-----------------------------------------------------------------------------
(* The driver handles events *)

\* The event at the front, when its cycle bit says it is new, is the next one.
LEMMA EventIsNext ==
  ASSUME EventInv, ~handling, HasFront
  PROVE  /\ events[erdp].number = H + 1 /\ H < posted
         /\ \/ /\ H - erdp = EventBase /\ event_cycle_bit = producer_cycle /\ erdp < enqueue
            \/ /\ H - erdp = EventBase - event_buf_size /\ event_cycle_bit = ~producer_cycle
               /\ enqueue < erdp /\ EventBase >= event_buf_size
<1> USE Sizes DEF EventInv
<1>1. /\ posted \in Nat /\ enqueue \in 0..event_buf_size - 1 /\ erdp \in 0..event_buf_size - 1
      /\ producer_cycle \in BOOLEAN /\ event_cycle_bit \in BOOLEAN /\ H \in Nat
  BY Lengths DEF EventTypes
<1>2. EventBase \in Int /\ posted = EventBase + enqueue /\ Popped = H
  BY <1>1 DEF EventBase, Popped
<1>3. events[erdp].cycle = event_cycle_bit
  BY DEF HasFront
<1>4. CASE H - erdp = EventBase /\ event_cycle_bit = producer_cycle /\ erdp <= enqueue
  <2>1. erdp < enqueue
    BY <1>1, <1>3, <1>4 DEF EventsHold
  <2> QED
    BY <2>1, <1>1, <1>2, <1>4 DEF EventsHold
<1>5. CASE /\ H - erdp = EventBase - event_buf_size /\ event_cycle_bit = ~producer_cycle
           /\ enqueue < erdp /\ EventBase >= event_buf_size
  <2>1. events[erdp].number = EventBase + erdp + 1 - event_buf_size
    BY <1>1, <1>5 DEF EventsHold
  <2> QED
    BY <2>1, <1>1, <1>2, <1>5
<1> QED
  BY <1>2, <1>4, <1>5 DEF DriverIsAt

\* The TRB that an event names has not been overwritten.
LEMMA IssuerIsThere ==
  ASSUME IInv, NEW i \in 0..event_buf_size - 1, Unhandled(i)
  PROVE  /\ buf[events[i].issuer].control = events[i].command
         /\ completed < events[i].command /\ events[i].command <= T
<1> DEFINE k == events[i].command
           at == events[i].issuer
<1> USE Sizes DEF IInv, DriverInv
<1>1. k \in Int /\ at \in Int
  BY DEF EventInv, EventTypes, Event
<1>2. completed < k /\ k <= T /\ at \in 0..Lap - 1 /\ (at = k - Base - 1 \/ at = k - Base - 1 + Lap)
  BY DEF EventInv, EventsOfTRBs, IssuedAt
<1>3. /\ write_index \in 0..Lap /\ commands \in Nat /\ completed \in Nat /\ T \in Nat
      /\ Base \in Int /\ commands = Base + write_index
  BY Lengths DEF RingTypes, Base
<1>4. T <= commands /\ commands - completed <= Lap - 1
  BY <1>3, Outstanding DEF FewOutstanding
<1>5. CASE at = k - Base - 1
  <2>1. at < write_index
    BY <1>1, <1>2, <1>3, <1>4, <1>5
  <2> QED
    BY <2>1, <1>1, <1>2, <1>3, <1>5 DEF BufHolds
<1>6. CASE at = k - Base - 1 + Lap
  <2>1. write_index <= at /\ Base > 0
    BY <1>1, <1>2, <1>3, <1>4, <1>6
  <2>2. buf[at].control = Base + at + 1 - Lap
    BY <2>1, <1>2 DEF BufHolds
  <2> QED
    BY <2>2, <1>1, <1>2, <1>3, <1>6
<1> QED
  BY <1>2, <1>5, <1>6

\* What Handle does, and what it means for the queue: the next event, whose TRB is still there.
LEMMA HandleSteps ==
  ASSUME IInv, Handle
  PROVE  /\ UNCHANGED <<driver, controller, eventRing, erdp, event_cycle_bit, commands, taken, posted>>
         /\ ~handling /\ HasFront /\ handling' = TRUE
         /\ handled' = Append(handled, H + 1) /\ H' = H + 1 /\ handled' \in Seq(Int) /\ H < posted
         /\ completed' = IF events[erdp].issuer = -1 THEN completed ELSE completed + 1
<1>1. /\ UNCHANGED <<driver, controller, eventRing, erdp, event_cycle_bit, commands, taken, posted>>
      /\ ~handling /\ HasFront /\ handling' = TRUE
      /\ handled' = Append(handled, IF events[erdp].issuer = -1
                                       \/ buf[events[erdp].issuer].control = events[erdp].command
                                    THEN events[erdp].number ELSE 0)
      /\ completed' = IF events[erdp].issuer = -1 THEN completed ELSE completed + 1
  BY DEF Handle
<1>2. /\ handled \in Seq(Int) /\ H \in Nat /\ erdp \in 0..event_buf_size - 1
  BY Lengths DEF IInv, EventInv, EventTypes
<1>3. events[erdp].number = H + 1 /\ H < posted
  BY <1>1, EventIsNext DEF IInv
<1>4. events[erdp].issuer = -1 \/ buf[events[erdp].issuer].control = events[erdp].command
  <2>1. CASE events[erdp].issuer # -1
    <3>1. Unhandled(erdp)
      BY <2>1, <1>2, <1>3 DEF Unhandled
    <3> QED
      BY <3>1, <1>2, IssuerIsThere
  <2> QED
    BY <2>1
<1>5. handled' = Append(handled, H + 1)
  BY <1>1, <1>3, <1>4
<1>6. H' = H + 1 /\ handled' \in Seq(Int)
  BY <1>2, <1>5, AppendProperties DEF H
<1> QED
  BY <1>1, <1>3, <1>5, <1>6

\* Handle keeps the invariant.
LEMMA HandleIsSound == IInv /\ Handle => IInv'
<1> SUFFICES ASSUME IInv, Handle PROVE IInv'
  OBVIOUS
<1> USE Sizes DEF IInv, DriverInv, EventInv
<1>1. /\ UNCHANGED <<driver, controller, eventRing, erdp, event_cycle_bit, commands, taken, posted>>
      /\ ~handling /\ HasFront /\ handling' = TRUE
      /\ H' = H + 1 /\ handled' \in Seq(Int)
      /\ completed' = IF events[erdp].issuer = -1 THEN completed ELSE completed + 1
  BY HandleSteps
<1>2. /\ T' = T /\ Base' = Base /\ Lap' = Lap /\ EventBase' = EventBase /\ events' = events
      /\ T \in Nat /\ H \in Nat /\ completed \in Nat /\ commands \in Nat /\ erdp \in 0..event_buf_size - 1
  BY <1>1, Lengths DEF T, Base, Lap, EventBase, driver, eventRing, RingTypes, EventTypes
<1>3. /\ events[erdp].number = H + 1
      /\ \/ /\ H - erdp = EventBase /\ event_cycle_bit = producer_cycle /\ erdp < enqueue
         \/ /\ H - erdp = EventBase - event_buf_size /\ event_cycle_bit = ~producer_cycle
            /\ enqueue < erdp /\ EventBase >= event_buf_size
  BY <1>1, EventIsNext
<1>4. completed' <= T /\ completed' \in Nat /\ completed <= completed'
  <2>1. CASE events[erdp].issuer # -1
    <3>1. Unhandled(erdp)
      BY <2>1, <1>2, <1>3 DEF Unhandled
    <3>2. events[erdp].command \in Int
      BY <1>2 DEF EventTypes, Event
    <3>3. completed < events[erdp].command /\ events[erdp].command <= T
      BY <3>1, <1>2, IssuerIsThere
    <3> QED
      BY <2>1, <3>2, <3>3, <1>1, <1>2
  <2>2. CASE events[erdp].issuer = -1
    BY <2>2, <1>1, <1>2 DEF FewOutstanding
  <2> QED
    BY <2>1, <2>2
<1>5. RingTypes' /\ PushIsAt' /\ BufHolds' /\ ControllerIsAt'
  BY <1>1, <1>2, <1>4 DEF RingTypes, PushIsAt, BufHolds, HalfWritten, ControllerIsAt, driver, controller
<1>6. FewOutstanding'
  BY <1>1, <1>2, <1>4 DEF FewOutstanding, driver
<1>7. EventTypes' /\ EventsHold'
  BY <1>1, <1>2 DEF EventTypes, EventsHold, eventRing
<1>8. DriverIsAt'
  <2>1. Popped' = H
    BY <1>1, <1>2 DEF Popped
  <2>2. /\ UNCHANGED <<erdp, event_cycle_bit, enqueue, producer_cycle, EventBase>> /\ handling'
    BY <1>1, <1>2 DEF eventRing
  <2>3. CASE H - erdp = EventBase /\ event_cycle_bit = producer_cycle /\ erdp < enqueue
    <3>1. erdp <= enqueue
      BY <2>3, <1>2 DEF EventTypes
    <3> QED
      BY <2>1, <2>2, <2>3, <3>1 DEF DriverIsAt
  <2>4. CASE /\ H - erdp = EventBase - event_buf_size /\ event_cycle_bit = ~producer_cycle
             /\ enqueue < erdp /\ EventBase >= event_buf_size
    BY <2>1, <2>2, <2>4 DEF DriverIsAt
  <2> QED
    BY <1>3, <2>3, <2>4
<1>9. \A i \in 0..event_buf_size - 1 : Unhandled(i)' => Unhandled(i) /\ events[erdp].number < events[i].number
  <2> SUFFICES ASSUME NEW i \in 0..event_buf_size - 1, Unhandled(i)'
               PROVE  Unhandled(i) /\ events[erdp].number < events[i].number
    OBVIOUS
  <2>1. events[i].number \in Nat
    BY DEF EventTypes, Event
  <2> QED
    BY <2>1, <1>1, <1>2, <1>3 DEF Unhandled
<1>10. \A i \in 0..event_buf_size - 1 : Unhandled(i)' => completed' < events[i].command
  <2> SUFFICES ASSUME NEW i \in 0..event_buf_size - 1, Unhandled(i)'
               PROVE  completed' < events[i].command
    OBVIOUS
  <2>1. Unhandled(i) /\ events[erdp].number < events[i].number /\ completed < events[i].command
    BY <1>9 DEF EventsOfTRBs
  <2>2. events[i].command \in Int /\ events[erdp].command \in Int
    BY <1>2 DEF EventTypes, Event
  <2>3. CASE events[erdp].issuer = -1
    BY <2>1, <2>3, <1>1
  <2>4. CASE events[erdp].issuer # -1
    <3>1. Unhandled(erdp)
      BY <2>4, <1>2, <1>3 DEF Unhandled
    <3>2. completed < events[erdp].command /\ events[erdp].command < events[i].command
      BY <2>1, <3>1, <1>2 DEF EventsOfTRBs
    <3> QED
      BY <2>2, <2>4, <3>2, <1>1, <1>2
  <2> QED
    BY <2>3, <2>4
<1>11. EventsOfTRBs'
  BY <1>1, <1>2, <1>9, <1>10 DEF EventsOfTRBs, IssuedAt
<1> QED
  BY <1>5, <1>6, <1>7, <1>8, <1>11

\* Pop keeps the invariant.
LEMMA PopIsSound == IInv /\ Pop => IInv'
<1> SUFFICES ASSUME IInv, Pop PROVE IInv'
  OBVIOUS
<1> DEFINE M == event_buf_size
<1> USE Sizes DEF IInv, DriverInv, EventInv
<1>1. /\ handling /\ handling' = FALSE
      /\ erdp' = IF erdp + 1 = M THEN 0 ELSE erdp + 1
      /\ event_cycle_bit' = IF erdp + 1 = M THEN ~event_cycle_bit ELSE event_cycle_bit
      /\ UNCHANGED <<driver, controller, eventRing, commands, taken, posted, handled, completed>>
  BY DEF Pop
<1>2. /\ T' = T /\ H' = H /\ Base' = Base /\ Lap' = Lap /\ EventBase' = EventBase
      /\ events' = events /\ enqueue' = enqueue /\ producer_cycle' = producer_cycle
      /\ H \in Nat /\ EventBase \in Int /\ erdp \in 0..M - 1 /\ enqueue \in 0..M - 1
      /\ producer_cycle \in BOOLEAN /\ event_cycle_bit \in BOOLEAN
  BY <1>1, Lengths DEF T, H, Base, Lap, EventBase, driver, eventRing, EventTypes
<1>3. RingTypes' /\ PushIsAt' /\ BufHolds' /\ ControllerIsAt' /\ FewOutstanding'
  BY <1>1, <1>2 DEF RingTypes, PushIsAt, BufHolds, HalfWritten, ControllerIsAt, FewOutstanding,
                    driver, controller
<1>4. EventTypes'
  <2>1. erdp' \in 0..M - 1
    BY <1>1, <1>2
  <2>2. event_cycle_bit' \in BOOLEAN
    BY <1>1, <1>2
  <2> QED
    BY <2>1, <2>2, <1>1 DEF EventTypes, eventRing
<1>5. EventsHold'
  BY <1>1, <1>2 DEF EventsHold
<1>6. DriverIsAt'
  <2>1. Popped = H - 1 /\ Popped' = H
    BY <1>1, <1>2 DEF Popped
  <2>2. CASE /\ Popped - erdp = EventBase /\ event_cycle_bit = producer_cycle /\ erdp < enqueue
    <3>1. erdp' = erdp + 1 /\ event_cycle_bit' = event_cycle_bit
      BY <2>2, <1>1, <1>2
    <3> QED
      BY <2>1, <2>2, <3>1, <1>1, <1>2 DEF DriverIsAt
  <2>3. CASE /\ Popped - erdp = EventBase - M /\ event_cycle_bit = ~producer_cycle
             /\ enqueue < erdp /\ EventBase >= M
    <3>1. CASE erdp + 1 = M
      <4>1. erdp' = 0 /\ event_cycle_bit' = producer_cycle
        BY <2>3, <3>1, <1>1, <1>2
      <4>2. Popped' - erdp' = EventBase'
        BY <2>1, <2>3, <3>1, <4>1, <1>2
      <4>3. erdp' <= enqueue'
        BY <4>1, <1>2
      <4>4. event_cycle_bit' = producer_cycle' /\ ~handling'
        BY <4>1, <1>1, <1>2
      <4> QED
        BY <4>2, <4>3, <4>4 DEF DriverIsAt
    <3>2. CASE erdp + 1 # M
      <4>1. erdp' = erdp + 1 /\ event_cycle_bit' = event_cycle_bit
        BY <3>2, <1>1
      <4> QED
        BY <2>1, <2>3, <4>1, <1>1, <1>2 DEF DriverIsAt
    <3> QED
      BY <3>1, <3>2
  <2> QED
    BY <2>2, <2>3, <1>1 DEF DriverIsAt
<1>7. EventsOfTRBs'
  BY <1>1, <1>2 DEF EventsOfTRBs, Unhandled, IssuedAt
<1> QED
  BY <1>3, <1>4, <1>5, <1>6, <1>7

\* A step that changes nothing keeps it.
LEMMA StutterIsSound == IInv /\ UNCHANGED vars => IInv'
<1> SUFFICES ASSUME IInv, UNCHANGED vars PROVE IInv'
  OBVIOUS
<1>1. /\ UNCHANGED <<driver, controller, eventRing, eventDriver, commands, taken, posted, handled, completed>>
      /\ T' = T /\ Base' = Base
  BY DEF vars, T, Base, driver
<1>2. DriverInv'
  BY <1>1 DEF IInv, DriverInv, RingTypes, PushIsAt, BufHolds, HalfWritten, ControllerIsAt,
              FewOutstanding, driver, controller, Lap
<1>3. EventInv'
  BY <1>1, EventsOfTRBsStay DEF IInv
<1> QED
  BY <1>2, <1>3 DEF IInv

\* Every step keeps the invariant.
LEMMA NextIsSound == IInv /\ [Next]_vars => IInv'
BY StartPushIsSound, PushStepIsSound, TakeTRBIsSound, PostOtherIsSound, HandleIsSound, PopIsSound,
   StutterIsSound DEF Next

\* The invariant holds in every state.
LEMMA RingsAreSound == Spec => []IInv
<1>1. Init => IInv
  BY InitIsSound
<1>2. IInv /\ [Next]_vars => IInv'
  BY NextIsSound
<1> QED
  BY <1>1, <1>2, PTL DEF Spec

-----------------------------------------------------------------------------
(* The rings are queues *)

\* Of the two queues, a push only fills the commands, and that by the word with the cycle bit.
LEMMA PushIsPut ==
  ASSUME IInv, PushStep
  PROVE  Commands!Put \/ UNCHANGED <<commands, taken>>
<1>1. taken' = taken /\ (commands' = commands + 1 \/ commands' = commands)
  BY PushSteps
<1> QED
  BY <1>1 DEF Commands!Put

\* TakeTRB takes the next command, or follows the link; the driver's other steps and those at
\* the event ring leave the commands alone.
LEMMA CommandsStep ==
  IInv /\ [Next]_vars => [Commands!Put \/ Commands!Get]_<<commands, taken>>
<1> SUFFICES ASSUME IInv, [Next]_vars
             PROVE  Commands!Put \/ Commands!Get \/ UNCHANGED <<commands, taken>>
  OBVIOUS
<1>1. CASE PushStep
  BY <1>1, PushIsPut
<1>2. CASE TakeTRB
  <2>1. \/ UNCHANGED <<commands, taken>>
        \/ UNCHANGED commands /\ T < commands /\ taken' = Append(taken, T + 1)
    BY <1>2, TakeTRBSteps
  <2> QED
    BY <2>1 DEF Commands!Get, T
<1>3. CASE StartPush \/ PostOther \/ Handle \/ Pop \/ UNCHANGED vars
  BY <1>3 DEF StartPush, PostOther, Handle, Pop, vars
<1> QED
  BY <1>1, <1>2, <1>3 DEF Next

\* Handle handles the next event; only a post of the controller adds one.
LEMMA EventsStep ==
  IInv /\ [Next]_vars => [Events!Put \/ Events!Get]_<<posted, handled>>
<1> SUFFICES ASSUME IInv, [Next]_vars
             PROVE  Events!Put \/ Events!Get \/ UNCHANGED <<posted, handled>>
  OBVIOUS
<1>1. CASE TakeTRB
  <2>1. handled' = handled /\ (posted' = posted \/ posted' = posted + 1)
    BY <1>1 DEF TakeTRB, Post
  <2> QED
    BY <2>1 DEF Events!Put
<1>2. CASE PostOther
  BY <1>2 DEF PostOther, Post, Events!Put
<1>3. CASE Handle
  <2>1. UNCHANGED posted /\ H < posted /\ handled' = Append(handled, H + 1)
    BY <1>3, HandleSteps
  <2> QED
    BY <2>1 DEF Events!Get, H
<1>4. CASE StartPush \/ PushStep \/ Pop \/ UNCHANGED vars
  BY <1>4 DEF StartPush, PushStep, Pop, vars
<1> QED
  BY <1>1, <1>2, <1>3, <1>4 DEF Next

\* RingsAreFifo (ring.cpp:33, Ring::Push; ring.hpp, EventRing): the controller takes every TRB
\* once, whole and in order, and the driver handles every event once and in order while its TRB
\* is still there, for rings of any size and any number of laps. It rests on the number of
\* outstanding commands that RingAssumption allows.
THEOREM RingsImplementFifos == Spec => RingsAreFifo
<1>1. Init => Commands!Init /\ Events!Init
  BY DEF Init, Commands!Init, Events!Init
<1>2. IInv /\ [Next]_vars => [Commands!Put \/ Commands!Get]_<<commands, taken>>
  BY CommandsStep
<1>3. IInv /\ [Next]_vars => [Events!Put \/ Events!Get]_<<posted, handled>>
  BY EventsStep
<1> QED
  BY <1>1, <1>2, <1>3, RingsAreSound, PTL
     DEF Spec, RingsAreFifo, CommandsAreFifo, EventsAreFifo, Commands!Spec, Events!Spec

-----------------------------------------------------------------------------
(* Acpi: the wait. *)

\* The FADT is one of the firmware's tables, and its sum is right.
FadtIsValid ==
  /\ tables \in Firmwares /\ fadt \in DOMAIN tables.xsdt.entries
  /\ tables.xsdt.entries[fadt].sum = 0

\* Behind pm_end in the wait's own lap, or in the next one.
WaitIsSetUp ==
  /\ pm_start \in 0 .. Modulus - 1 /\ pm_counter \in 0 .. Modulus - 1 /\ waited \in Nat
  /\ pm_end \in 0 .. Modulus - 1
  /\ pm_end = pm_start + WaitTicks \/ pm_end = pm_start + WaitTicks - Modulus

\* The first loop ends in the lap after pm_start.
InOverflow == pm_end < pm_start /\ pm_counter = pm_start + waited

\* The second loop is never a lap behind, and is not a lap ahead unless the end may be missed.
InUntil ==
  /\ pm_end >= pm_start => /\ pm_start + waited >= pm_counter
                           /\ ~EndMayBeMissed => pm_start + waited = pm_counter /\ pm_counter < pm_end
  /\ pm_end < pm_start =>
       /\ pm_start + waited >= Modulus + pm_counter
       /\ ~EndMayBeMissed => /\ pm_start + waited = Modulus + pm_counter
                             /\ pm_counter < pm_end \/ pm_counter < MaxGap

AcpiInv ==
  /\ acpi_stage \in {"off", "found", "overflow", "until", "ticking", "exit"}
  /\ acpi_stage \in {"found", "overflow", "until", "ticking"} => FadtIsValid
  /\ acpi_stage \in {"overflow", "until"} => WaitIsSetUp
  /\ acpi_stage = "overflow" => InOverflow
  /\ acpi_stage = "until" => InUntil
  /\ TickIsRight

\* The width of the timer the FADT names.
LEMMA ModulusIs ==
  ASSUME FadtIsValid
  PROVE  /\ Modulus \in Nat /\ WaitTicks + 3 * MaxGap < Modulus
         /\ (pm_timer_32 /\ Modulus = 2^PMTimerBits.long) \/ (~pm_timer_32 /\ Modulus = 2^PMTimerBits.short)
<1>1. pm_timer_32 \in BOOLEAN
  <2>1. tables.xsdt.entries \in Seq([signature : STRING, sum : Nat, pm_timer_32 : BOOLEAN])
    BY AcpiAssumption DEF FadtIsValid
  <2>2. \A R : \A entries \in Seq(R) : \A i \in DOMAIN entries : entries[i] \in R
    OBVIOUS
  <2>3. fadt \in DOMAIN tables.xsdt.entries
    BY DEF FadtIsValid
  <2>4. tables.xsdt.entries[fadt] \in [signature : STRING, sum : Nat, pm_timer_32 : BOOLEAN]
    BY <2>1, <2>2, <2>3, Zenon
  <2> QED BY <2>4 DEF pm_timer_32
<1> DEFINE S == 2^PMTimerBits.short
           L == 2^PMTimerBits.long
<1>2. S \in Nat /\ L \in Nat /\ WaitTicks + 3 * MaxGap < S /\ 2 * S <= L /\ WaitTicks \in Nat /\ MaxGap \in Nat
  BY AcpiAssumption
<1>3. Modulus = 2^(IF pm_timer_32 THEN PMTimerBits.long ELSE PMTimerBits.short)
  BY Zenon DEF Modulus
<1>4. (pm_timer_32 /\ Modulus = L) \/ (~pm_timer_32 /\ Modulus = S)
  BY <1>1, <1>3, Zenon
<1> HIDE DEF S, L
<1>5. Modulus \in Nat /\ WaitTicks + 3 * MaxGap < Modulus
  BY <1>2, <1>4
<1> QED BY <1>4, <1>5 DEF S, L

\* What is left after a whole number of laps.
LEMMA OneLap ==
  ASSUME NEW m \in Nat, NEW x \in Nat, x < m
  PROVE  x % m = x
OBVIOUS

\* The timer's readings are those of the time modulo its width.
LEMMA InALap ==
  ASSUME NEW m \in Nat, NEW x \in Nat, x < 2 * m
  PROVE  /\ x % m \in 0 .. m - 1
         /\ (x % m = x /\ x < m) \/ (x % m = x - m /\ x >= m)
<1>1. CASE x < m
  BY <1>1
<1>2. CASE m <= x
  <2>1. x % m = x - m
    BY <1>2
  <2> QED BY <2>1, <1>2
<1> QED BY <1>1, <1>2

\* The end is the number of ticks asked for after the start, wrapped at the timer's width.
LEMMA EndIs ==
  ASSUME FadtIsValid, NEW start \in 0 .. Modulus - 1
  PROVE  /\ EndOf(start) \in 0 .. Modulus - 1
         /\ EndOf(start) = start + WaitTicks \/ EndOf(start) = start + WaitTicks - Modulus
<1> DEFINE S == 2^PMTimerBits.short
           L == 2^PMTimerBits.long
<1>1. S \in Nat /\ L \in Nat /\ WaitTicks + 3 * MaxGap < S /\ 2 * S <= L /\ WaitTicks \in Nat /\ MaxGap \in Nat
  BY AcpiAssumption
<1>2. (pm_timer_32 /\ Modulus = L) \/ (~pm_timer_32 /\ Modulus = S)
  BY ModulusIs
<1>3. EndOf(start) = IF pm_timer_32 THEN (start + WaitTicks) % L ELSE ((start + WaitTicks) % L) % S
  BY DEF EndOf
<1> HIDE DEF S, L
<1>4. start \in Nat /\ start < Modulus
  BY ModulusIs
<1>6. CASE pm_timer_32
  <2>1. Modulus = L /\ EndOf(start) = (start + WaitTicks) % L
    BY <1>2, <1>3, <1>6
  <2>2. start + WaitTicks \in Nat /\ start + WaitTicks < 2 * L
    BY <2>1, <1>1, <1>4
  <2> DEFINE x == start + WaitTicks
  <2> HIDE DEF x
  <2>3. /\ x % L \in 0 .. L - 1
        /\ (x % L = x /\ x < L) \/ (x % L = x - L /\ x >= L)
    <3>1. x \in Nat /\ x < 2 * L
      BY <2>2 DEF x
    <3> QED BY <3>1, <1>1, InALap
  <2>4. EndOf(start) = x % L
    BY <2>1 DEF x
  <2>8. EndOf(start) \in 0 .. Modulus - 1 /\ (EndOf(start) = x \/ EndOf(start) = x - Modulus)
    BY <2>1, <2>3, <2>4, Zenon
  <2>9. x = start + WaitTicks
    BY DEF x
  <2>10. x \in Int /\ Modulus \in Int
    BY <2>1, <2>2, <1>1 DEF x
  <2> QED BY <2>8, <2>9, <2>10, <1>1, <1>4
<1>7. CASE ~pm_timer_32
  <2>1. Modulus = S /\ EndOf(start) = ((start + WaitTicks) % L) % S
    BY <1>2, <1>3, <1>7
  <2>2. start + WaitTicks \in Nat /\ start + WaitTicks < 2 * S /\ start + WaitTicks < L /\ start + WaitTicks < 2 * L
    BY <2>1, <1>1, <1>4
  <2>3. (start + WaitTicks) % L = start + WaitTicks
    BY <2>2, OneLap, <1>1
  <2>4. EndOf(start) = (start + WaitTicks) % S
    BY <2>1, <2>3
  <2> DEFINE x == start + WaitTicks
  <2> HIDE DEF x
  <2>5. /\ x % S \in 0 .. S - 1
        /\ (x % S = x /\ x < S) \/ (x % S = x - S /\ x >= S)
    <3>1. x \in Nat /\ x < 2 * S
      BY <2>2 DEF x
    <3> QED BY <3>1, <1>1, InALap
  <2>6. EndOf(start) = x % S
    BY <2>4 DEF x
  <2>8. EndOf(start) \in 0 .. Modulus - 1 /\ (EndOf(start) = x \/ EndOf(start) = x - Modulus)
    BY <2>1, <2>5, <2>6, Zenon
  <2>9. x = start + WaitTicks
    BY DEF x
  <2>10. x \in Int /\ Modulus \in Int
    BY <2>1, <2>2, <1>1 DEF x
  <2> QED BY <2>8, <2>9, <2>10, <1>1, <1>4
<1> QED BY <1>6, <1>7

\* A read of the counter.
LEMMA CounterAfter ==
  ASSUME FadtIsValid, WaitIsSetUp, NEW gap \in 1 .. MaxGap
  PROVE  /\ (pm_counter + gap) % Modulus \in 0 .. Modulus - 1
         /\ \/ (pm_counter + gap) % Modulus = pm_counter + gap /\ pm_counter + gap < Modulus
            \/ (pm_counter + gap) % Modulus = pm_counter + gap - Modulus /\ pm_counter + gap >= Modulus
<1>1. Modulus \in Nat /\ MaxGap < Modulus /\ MaxGap \in Nat
  BY ModulusIs, AcpiAssumption
<1>2. pm_counter \in Nat /\ pm_counter < Modulus
  BY <1>1 DEF WaitIsSetUp
<1>3. pm_counter + gap \in Nat /\ pm_counter + gap < 2 * Modulus
  BY <1>1, <1>2
<1> DEFINE x == pm_counter + gap
           Lands(y) == /\ y % Modulus \in 0 .. Modulus - 1
                       /\ \/ y % Modulus = y /\ y < Modulus
                          \/ y % Modulus = y - Modulus /\ y >= Modulus
<1>4. Lands(x)
  <2> HIDE DEF x
  <2>1. x \in Nat /\ x < 2 * Modulus
    BY <1>3 DEF x
  <2> QED BY <2>1, <1>1, InALap
<1> HIDE DEF Lands
<1>5. Lands(pm_counter + gap)
  BY <1>4
<1> QED BY <1>1, <1>2, <1>3, <1>5 DEF Lands

\* The first entry that is a FADT is one.
LEMMA FadtIsFound ==
  ASSUME NEW f \in Firmwares, FindFadt(f.xsdt.entries) # NoFadt
  PROVE  /\ FindFadt(f.xsdt.entries) \in DOMAIN f.xsdt.entries
         /\ f.xsdt.entries[FindFadt(f.xsdt.entries)].sum = 0
<1> DEFINE valid == {i \in DOMAIN f.xsdt.entries : HeaderIsValid(f.xsdt.entries[i], "FACP")}
<1>1. valid \in SUBSET Nat /\ \A i \in valid : f.xsdt.entries[i].sum = 0
  BY AcpiAssumption DEF HeaderIsValid
<1>2. valid # {} /\ FindFadt(f.xsdt.entries) = Min(valid)
  BY DEF FindFadt
<1> HIDE DEF valid
<1>3. PICK x \in valid : \A y \in valid : x <= y
  BY <1>1, <1>2, LeastNatural
<1>4. Min(valid) \in valid
  BY <1>3 DEF Min
<1> QED BY <1>1, <1>2, <1>4 DEF valid

-----------------------------------------------------------------------------
(* The length of a tick. *)

\* Of two numbers, the greater has the greater quotient.
LEMMA DivIsMonotone ==
  ASSUME NEW d \in Nat \ {0}, NEW x \in Nat, NEW y \in Nat, x <= y
  PROVE  x \div d <= y \div d
OBVIOUS

\* Of two numbers, the greater has the greater multiple.
LEMMA TimesIsMonotone ==
  ASSUME NEW d \in Nat, NEW x \in Nat, NEW y \in Nat, x <= y
  PROVE  d * x <= d * y /\ d * x \in Nat /\ d * y \in Nat
OBVIOUS

\* A count over a longer time is not smaller, and one of at least the time asked for is exact from below,
\* since the counter does not run out by then.
LEMMA CountIs ==
  ASSUME NEW ticks \in Nat, NEW most \in Nat, WaitTicks <= ticks
  PROVE  /\ FreqFrom(LAPICTimerElapsed(ticks)) \div kTimerFreq >= TickAfter(WaitTicks)
         /\ ticks <= most => FreqFrom(LAPICTimerElapsed(ticks)) \div kTimerFreq <= TickAfter(most)
<1>1. LapicRate \in Nat /\ WaitTicks \in Nat /\ kCountMax \in Nat /\ kTimerFreq \in Nat \ {0}
      /\ LapicRate * WaitTicks <= kCountMax
  BY AcpiAssumption
<1> DEFINE w == LapicRate * WaitTicks
           t == LapicRate * ticks
           m == LapicRate * most
<1>2. w \in Nat /\ t \in Nat /\ m \in Nat /\ w <= t /\ (ticks <= most => t <= m)
  BY <1>1, TimesIsMonotone
<1>3. w <= kCountMax
  BY <1>1
<1>4. TickAfter(WaitTicks) = (w * 10) \div kTimerFreq /\ TickAfter(most) = (m * 10) \div kTimerFreq
  BY DEF TickAfter
<1>5. LAPICTimerElapsed(ticks) = Min({kCountMax, t})
  BY DEF LAPICTimerElapsed
<1> HIDE DEF w, t, m
<1> DEFINE e == Min({kCountMax, t})
<1>6. (e = kCountMax /\ kCountMax <= t) \/ (e = t /\ t <= kCountMax)
  <2>1. \E y \in {kCountMax, t} : \A z \in {kCountMax, t} : y <= z
    BY <1>1, <1>2
  <2>2. e \in {kCountMax, t} /\ \A z \in {kCountMax, t} : e <= z
    BY <2>1 DEF Min
  <2> QED BY <2>2
<1> HIDE DEF e
<1>7. e \in Nat /\ w <= e /\ e <= t
  BY <1>1, <1>2, <1>3, <1>6
<1>8. FreqFrom(LAPICTimerElapsed(ticks)) = e * 10
  BY <1>5 DEF FreqFrom, e
<1>9. (w * 10) \div kTimerFreq <= (e * 10) \div kTimerFreq
  BY <1>1, <1>2, <1>7, DivIsMonotone
<1>10. e <= m => (e * 10) \div kTimerFreq <= (m * 10) \div kTimerFreq
  BY <1>1, <1>2, <1>7, DivIsMonotone
<1>11. (e * 10) \div kTimerFreq \in Int /\ (w * 10) \div kTimerFreq \in Int
  BY <1>1, <1>2, <1>7
<1>12. ticks <= most => e <= m
  BY <1>2, <1>7
<1> QED BY <1>4, <1>8, <1>9, <1>10, <1>11, <1>12

-----------------------------------------------------------------------------
(* The steps. *)

\* acpi::Initialize keeps the invariant.
LEMMA InitializeAcpiStep ==
  ASSUME AcpiInv, InitializeAcpi
  PROVE  AcpiInv'
<1>1. tables' \in Firmwares /\ fadt' = FindFadt(tables'.xsdt.entries)
  BY DEF InitializeAcpi
<1>2. (acpi_stage' = "found" /\ fadt' # NoFadt) \/ acpi_stage' = "exit"
  BY DEF InitializeAcpi
<1>3. acpi_stage' = "found" => FadtIsValid'
  BY <1>1, <1>2, FadtIsFound DEF FadtIsValid
<1> QED BY <1>2, <1>3 DEF AcpiInv, TickIsRight

\* The start of the wait keeps it.
LEMMA StartWaitStep ==
  ASSUME AcpiInv, StartWait
  PROVE  AcpiInv'
<1>1. FadtIsValid
  BY DEF AcpiInv, StartWait
<1>2. FadtIsValid' /\ Modulus' = Modulus
  BY <1>1 DEF StartWait, FadtIsValid, Modulus, pm_timer_32
<1>3. /\ pm_start' \in 0 .. Modulus - 1 /\ pm_counter' = pm_start' /\ waited' = 0
      /\ pm_end' = EndOf(pm_start')
      /\ acpi_stage' = IF pm_end' < pm_start' THEN "overflow" ELSE "until"
  BY DEF StartWait
<1>4. Modulus \in Nat /\ WaitTicks + 3 * MaxGap < Modulus /\ WaitTicks \in Nat \ {0} /\ MaxGap \in Nat \ {0}
  BY <1>1, ModulusIs, AcpiAssumption
<1>5. /\ EndOf(pm_start') \in 0 .. Modulus - 1
      /\ EndOf(pm_start') = pm_start' + WaitTicks \/ EndOf(pm_start') = pm_start' + WaitTicks - Modulus
  BY <1>1, <1>3, EndIs
<1>6. WaitIsSetUp'
  BY <1>2, <1>3, <1>4, <1>5 DEF WaitIsSetUp
<1>7. acpi_stage' = "overflow" => InOverflow'
  <2>1. pm_start' \in Int /\ pm_end' \in Int
    BY <1>3, <1>4, <1>5
  <2>2. pm_counter' = pm_start' + waited'
    <3>1. \A start \in Int : start = start + 0
      OBVIOUS
    <3>2. pm_start' = pm_start' + 0
      BY <2>1, <3>1, Zenon
    <3> QED BY <3>2, <1>3, Zenon
  <2>3. acpi_stage' = "overflow" => pm_end' < pm_start'
    BY <1>3
  <2> QED BY <2>2, <2>3 DEF InOverflow
<1>8. acpi_stage' = "until" => InUntil'
  <2>1. pm_start' \in Int /\ pm_end' \in Int /\ pm_counter' \in Int
    BY <1>3, <1>4, <1>5
  <2>2. acpi_stage' = "until" => pm_end' = pm_start' + WaitTicks
    BY <1>3, <1>4, <1>5, <2>1
  <2>3. acpi_stage' = "until" => ~(pm_end' < pm_start') /\ pm_counter' < pm_end'
    BY <2>1, <2>2, <1>3, <1>4
  <2>4. pm_start' + waited' = pm_counter'
    <3>1. \A start \in Int : start = start + 0
      OBVIOUS
    <3>2. pm_start' = pm_start' + 0
      BY <2>1, <3>1, Zenon
    <3> QED BY <3>2, <1>3, Zenon
  <2> QED BY <2>1, <2>3, <2>4 DEF InUntil
<1>9. acpi_stage' \in {"overflow", "until"}
  BY <1>3
<1> QED BY <1>2, <1>6, <1>7, <1>8, <1>9 DEF AcpiInv, TickIsRight

\* A poll of the wait for the timer's overflow keeps it.
LEMMA WaitOverflowStep ==
  ASSUME AcpiInv, WaitOverflow
  PROVE  AcpiInv'
<1>1. FadtIsValid /\ WaitIsSetUp /\ InOverflow
  BY DEF AcpiInv, WaitOverflow
<1>2. FadtIsValid' /\ Modulus' = Modulus
  BY <1>1 DEF WaitOverflow, FadtIsValid, Modulus, pm_timer_32
<1>3. PICK gap \in 1 .. MaxGap : pm_counter' = (pm_counter + gap) % Modulus /\ waited' = waited + gap
  BY DEF WaitOverflow, ReadCounter
<1>4. pm_start' = pm_start /\ pm_end' = pm_end
      /\ acpi_stage' = IF pm_counter' >= pm_start THEN "overflow" ELSE "until"
  BY DEF WaitOverflow
<1>5. Modulus \in Nat /\ WaitTicks + 3 * MaxGap < Modulus /\ WaitTicks \in Nat \ {0} /\ MaxGap \in Nat \ {0}
  BY <1>1, ModulusIs, AcpiAssumption
<1>6. /\ pm_counter' \in 0 .. Modulus - 1
      /\ (pm_counter' = pm_counter + gap /\ pm_counter + gap < Modulus)
         \/ (pm_counter' = pm_counter + gap - Modulus /\ pm_counter + gap >= Modulus)
  BY <1>1, <1>3, CounterAfter
<1>7. /\ pm_start \in Nat /\ pm_counter \in Nat /\ waited \in Nat /\ pm_end \in Nat /\ gap \in Nat /\ gap <= MaxGap
      /\ pm_counter < Modulus /\ pm_end < pm_start /\ pm_counter = pm_start + waited
      /\ pm_start < Modulus /\ pm_end = pm_start + WaitTicks - Modulus
  BY <1>1, <1>5 DEF WaitIsSetUp, InOverflow
<1>8. WaitIsSetUp'
  BY <1>1, <1>2, <1>3, <1>4, <1>6, <1>7 DEF WaitIsSetUp
<1>9. acpi_stage' = "overflow" => InOverflow'
  BY <1>3, <1>4, <1>5, <1>6, <1>7 DEF InOverflow
<1>10. acpi_stage' = "until" => InUntil'
  <2>1. acpi_stage' = "until" => pm_counter' = pm_counter + gap - Modulus
    BY <1>3, <1>4, <1>5, <1>6, <1>7
  <2> QED BY <2>1, <1>2, <1>3, <1>4, <1>5, <1>7 DEF InUntil
<1>11. acpi_stage' \in {"overflow", "until"}
  BY <1>4
<1> QED BY <1>2, <1>8, <1>9, <1>10, <1>11 DEF AcpiInv, TickIsRight

\* A poll of the wait for the end keeps it.
LEMMA WaitUntilStep ==
  ASSUME AcpiInv, WaitUntil
  PROVE  AcpiInv'
<1>1. FadtIsValid /\ WaitIsSetUp /\ InUntil
  BY DEF AcpiInv, WaitUntil
<1>2. FadtIsValid' /\ Modulus' = Modulus
  BY <1>1 DEF WaitUntil, FadtIsValid, Modulus, pm_timer_32
<1>3. PICK gap \in 1 .. MaxGap : pm_counter' = (pm_counter + gap) % Modulus /\ waited' = waited + gap
  BY DEF WaitUntil, ReadCounter
<1>4. pm_start' = pm_start /\ pm_end' = pm_end
  BY DEF WaitUntil
<1>5. Modulus \in Nat /\ WaitTicks + 3 * MaxGap < Modulus /\ WaitTicks \in Nat \ {0} /\ MaxGap \in Nat \ {0}
  BY <1>1, ModulusIs, AcpiAssumption
<1>6. /\ pm_counter' \in 0 .. Modulus - 1
      /\ (pm_counter' = pm_counter + gap /\ pm_counter + gap < Modulus)
         \/ (pm_counter' = pm_counter + gap - Modulus /\ pm_counter + gap >= Modulus)
  BY <1>1, <1>3, CounterAfter
<1>7. /\ pm_start \in Nat /\ pm_counter \in Nat /\ waited \in Nat /\ pm_end \in Nat /\ gap \in Nat /\ gap <= MaxGap
      /\ pm_counter < Modulus /\ pm_start < Modulus
      /\ pm_end = pm_start + WaitTicks \/ pm_end = pm_start + WaitTicks - Modulus
  BY <1>1, <1>5 DEF WaitIsSetUp
<1>8. WaitIsSetUp'
  BY <1>1, <1>2, <1>3, <1>4, <1>6, <1>7 DEF WaitIsSetUp
<1>9. EndMayBeMissed' = EndMayBeMissed /\ (~EndMayBeMissed => pm_end + MaxGap <= Modulus)
  BY <1>2, <1>4, <1>5, <1>7 DEF EndMayBeMissed
<1>10. CASE pm_counter' < pm_end
  <2>1. acpi_stage' = "until"
    BY <1>10 DEF WaitUntil
  <2>2. InUntil'
    <3>1. pm_end >= pm_start => pm_start + waited' >= pm_counter'
      BY <1>1, <1>3, <1>5, <1>6, <1>7 DEF InUntil
    <3>2. pm_end >= pm_start /\ ~EndMayBeMissed => pm_start + waited' = pm_counter' /\ pm_counter' < pm_end
      BY <1>1, <1>3, <1>5, <1>6, <1>7, <1>9, <1>10 DEF InUntil
    <3>3. pm_end < pm_start => pm_start + waited' >= Modulus + pm_counter'
      BY <1>1, <1>3, <1>5, <1>6, <1>7 DEF InUntil
    <3>4. pm_end < pm_start /\ ~EndMayBeMissed => pm_start + waited' = Modulus + pm_counter' /\ pm_counter' < pm_end
      BY <1>1, <1>3, <1>5, <1>6, <1>7, <1>9, <1>10 DEF InUntil
    <3> QED BY <3>1, <3>2, <3>3, <3>4, <1>2, <1>4, <1>9 DEF InUntil
  <2> QED BY <1>2, <1>8, <2>1, <2>2 DEF AcpiInv, TickIsRight
<1>11. CASE ~(pm_counter' < pm_end)
  <2>1. acpi_stage' = "ticking"
    BY <1>11 DEF WaitUntil
  <2>2. PICK lag \in 0 .. MaxGap :
          initial_count' = FreqFrom(LAPICTimerElapsed(waited' + lag)) \div kTimerFreq
    BY <1>11 DEF WaitUntil
  <2>3. waited' \in Nat /\ waited' >= WaitTicks
    <3>1. pm_end >= pm_start => pm_start + waited' >= pm_counter' /\ pm_end = pm_start + WaitTicks
      BY <1>1, <1>3, <1>5, <1>6, <1>7 DEF InUntil
    <3>2. pm_end < pm_start => pm_start + waited' >= Modulus + pm_counter' /\ pm_end = pm_start + WaitTicks - Modulus
      BY <1>1, <1>3, <1>5, <1>6, <1>7 DEF InUntil
    <3> QED BY <3>1, <3>2, <1>3, <1>5, <1>6, <1>7, <1>11
  <2>4. ~EndMayBeMissed => waited' <= WaitTicks + 2 * MaxGap
    <3>1. pm_end >= pm_start /\ ~EndMayBeMissed => waited' <= WaitTicks + MaxGap
      BY <1>1, <1>3, <1>5, <1>6, <1>7, <1>9 DEF InUntil
    <3>2. pm_end < pm_start /\ ~EndMayBeMissed => waited' <= WaitTicks + 2 * MaxGap
      BY <1>1, <1>3, <1>5, <1>6, <1>7, <1>9 DEF InUntil
    <3> QED BY <3>1, <3>2, <1>3, <1>5, <1>7
  <2> DEFINE ticks == waited' + lag
             most == WaitTicks + 3 * MaxGap
  <2>5. ticks \in Nat /\ most \in Nat /\ WaitTicks <= ticks /\ (~EndMayBeMissed => ticks <= most)
    <3>1. PICK w \in Nat : w = waited'
      BY <2>3
    <3>2. w >= WaitTicks /\ (~EndMayBeMissed => w <= WaitTicks + 2 * MaxGap)
      BY <2>3, <2>4, <3>1
    <3>3. w + lag \in Nat /\ most \in Nat /\ WaitTicks <= w + lag
      BY <3>2, <1>5
    <3>4. ~EndMayBeMissed => w + lag <= most
      BY <3>2, <1>5
    <3> QED BY <3>1, <3>3, <3>4
  <2> HIDE DEF ticks, most
  <2>6. /\ FreqFrom(LAPICTimerElapsed(ticks)) \div kTimerFreq >= TickAfter(WaitTicks)
        /\ ticks <= most => FreqFrom(LAPICTimerElapsed(ticks)) \div kTimerFreq <= TickAfter(most)
    BY <2>5, CountIs
  <2>7. initial_count' >= TickAfter(WaitTicks) /\ (~EndMayBeMissed => initial_count' <= TickAfter(most))
    BY <2>2, <2>5, <2>6 DEF ticks
  <2>8. TickIsRight'
    BY <2>1, <2>3, <2>7, <1>2, <1>9, Zenon DEF TickIsRight, FadtIsValid, most
  <2> QED BY <1>2, <2>1, <2>8 DEF AcpiInv
<1> QED BY <1>10, <1>11

\* The tick of the whole system is right wherever the PM timer starts, whichever of its widths it has and
\* however slowly it is polled, for every table of the firmware's, every frequency and every period of the
\* tick (TickIsRight): the wait is at most a lap of the counter long and its end is in the lap the loops
\* have reached.
THEOREM TickStaysRight == AcpiInit /\ [][AcpiNext]_acpiVars => []TickIsRight
<1>1. AcpiInit => AcpiInv
  BY DEF AcpiInit, AcpiInv, TickIsRight
<1>2. AcpiInv /\ [AcpiNext]_acpiVars => AcpiInv'
  <2> SUFFICES ASSUME AcpiInv, [AcpiNext]_acpiVars PROVE AcpiInv'
    OBVIOUS
  <2>1. CASE UNCHANGED acpiVars
    BY <2>1 DEF acpiVars, AcpiInv, TickIsRight, FadtIsValid, WaitIsSetUp, InOverflow, InUntil, EndMayBeMissed,
      Modulus, pm_timer_32
  <2> QED
    BY <2>1, InitializeAcpiStep, StartWaitStep, WaitOverflowStep, WaitUntilStep DEF AcpiNext
<1>3. AcpiInv => TickIsRight
  BY DEF AcpiInv
<1> QED BY <1>1, <1>2, <1>3, PTL

-----------------------------------------------------------------------------
(* Screen: drawing a sequence of layers one after the other. *)

\* The buffers after 0, 1, ... of the layers were drawn.
InTurn(base, images, pos, area, s, n) ==
  \E f : /\ f[0] = base
         /\ \A i \in 1 .. n : f[i] = DrawTo(f[i - 1], s[i], images[s[i]], pos[s[i]], area)
         /\ f[n] = FoldLeft(LAMBDA b, l : DrawTo(b, l, images[l], pos[l], area), base, s)

\* A stack of layers is drawn one layer after the other.
LEMMA DrawnOneByOne ==
  ASSUME NEW base, NEW images, NEW pos, NEW area, NEW s, NEW n \in Nat, DOMAIN s = 1 .. n
  PROVE  InTurn(base, images, pos, area, s, n)
<1> DEFINE op(l, b) == DrawTo(b, l, images[l], pos[l], area)
           Body(g, t) == IF t = {} THEN base ELSE op(s[Max(t)], g[t \ {Max(t)}])
           Exists(m) == \E g : g = [t \in SUBSET (1 .. m) |-> Body(g, t)]
           Good == {m \in Nat : m <= n => Exists(m)}
<1>1. 0 \in Good
  <2>1. \A g : g = [t \in SUBSET (1 .. 0) |-> base] => g = [t \in SUBSET (1 .. 0) |-> Body(g, t)]
    <3>1. \A t \in SUBSET (1 .. 0) : t = {}
      OBVIOUS
    <3> QED BY <3>1
  <2> QED BY <2>1
<1>2. \A m \in Good : m + 1 \in Good
  <2> HIDE DEF Exists
  <2> SUFFICES ASSUME NEW m \in Nat, Exists(m), m + 1 <= n
               PROVE  Exists(m + 1)
    OBVIOUS
  <2> USE DEF Exists
  <2>1. PICK g : g = [t \in SUBSET (1 .. m) |-> Body(g, t)]
    OBVIOUS
  <2> DEFINE h == [t \in SUBSET (1 .. m + 1) |->
                     IF t \in SUBSET (1 .. m) THEN g[t] ELSE op(s[m + 1], g[t \ {m + 1}])]
  <2>2. \A t \in SUBSET (1 .. m + 1) : h[t] = Body(h, t)
    <3> SUFFICES ASSUME NEW t \in SUBSET (1 .. m + 1) PROVE h[t] = Body(h, t)
      OBVIOUS
    <3>1. CASE t \in SUBSET (1 .. m)
      <4>1. h[t] = g[t] /\ g[t] = Body(g, t)
        BY <3>1, <2>1
      <4>2. h[t \ {Max(t)}] = g[t \ {Max(t)}]
        BY <3>1
      <4> QED BY <4>1, <4>2
    <3>2. CASE t \notin SUBSET (1 .. m)
      <4>1. m + 1 \in t /\ t # {} /\ t \ {m + 1} \in SUBSET (1 .. m) /\ m + 1 \in Nat
        BY <3>2
      <4>2. \A y \in t : y <= m + 1
        OBVIOUS
      <4>3. Max(t) = m + 1
        BY <4>1, <4>2, MaxIs
      <4>4. h[t] = op(s[m + 1], g[t \ {m + 1}]) /\ h[t \ {m + 1}] = g[t \ {m + 1}]
        BY <3>2, <4>1
      <4> QED BY <4>1, <4>3, <4>4
    <3> QED BY <3>1, <3>2
  <2>3. h = [t \in SUBSET (1 .. m + 1) |-> Body(h, t)]
    BY <2>2
  <2> QED BY <2>3
<1>3. \E g : g = [t \in SUBSET (1 .. n) |-> Body(g, t)]
  <2>1. Good = Nat
    <3> HIDE DEF Good
    <3>1. Good \in SUBSET Nat
      BY DEF Good
    <3> QED BY <1>1, <1>2, <3>1, InductionOn
  <2> HIDE DEF Exists
  <2>2. Exists(n)
    BY <2>1
  <2> QED BY <2>2 DEF Exists
<1> DEFINE iter == CHOOSE g : g = [t \in SUBSET (1 .. n) |-> Body(g, t)]
<1>4. iter = [t \in SUBSET (1 .. n) |-> Body(iter, t)]
  BY <1>3
<1>5. FoldLeft(LAMBDA b, l : DrawTo(b, l, images[l], pos[l], area), base, s) = iter[1 .. n]
  BY DEF FoldLeft, MapThenFoldSet
<1> DEFINE f == [i \in 0 .. n |-> iter[1 .. i]]
<1>6. f[0] = base
  <2>1. 1 .. 0 = {} /\ 1 .. 0 \in SUBSET (1 .. n)
    OBVIOUS
  <2>2. iter[1 .. 0] = base
    BY <2>1, <1>4
  <2> QED BY <2>2
<1>7. \A i \in 1 .. n : f[i] = op(s[i], f[i - 1])
  <2> SUFFICES ASSUME NEW i \in 1 .. n PROVE f[i] = op(s[i], f[i - 1])
    OBVIOUS
  <2>1. 1 .. i \in SUBSET (1 .. n) /\ 1 .. i # {} /\ i \in 1 .. i /\ \A y \in 1 .. i : y <= i
    OBVIOUS
  <2>2. Max(1 .. i) = i
    BY <2>1, MaxIs
  <2>3. (1 .. i) \ {i} = 1 .. i - 1
    OBVIOUS
  <2>4. iter[1 .. i] = Body(iter, 1 .. i)
    BY <2>1, <1>4
  <2>5. i - 1 \in 0 .. n /\ i \in 0 .. n
    OBVIOUS
  <2> HIDE DEF iter, op
  <2> QED BY <2>1, <2>2, <2>3, <2>4, <2>5
<1>8. f[n] = FoldLeft(LAMBDA b, l : DrawTo(b, l, images[l], pos[l], area), base, s)
  <2>1. f[n] = iter[1 .. n]
    OBVIOUS
  <2> QED BY <2>1, <1>5
<1>9. \A i \in 1 .. n : f[i] = DrawTo(f[i - 1], s[i], images[s[i]], pos[s[i]], area)
  BY <1>7
<1> HIDE DEF f
<1> QED BY <1>6, <1>8, <1>9 DEF InTurn

-----------------------------------------------------------------------------
(* Rectangles and copies. *)

Rect == [x : Int, y : Int, w : Nat, h : Nat]
In(p, r) == r.x <= p[1] /\ p[1] < r.x + r.w /\ r.y <= p[2] /\ p[2] < r.y + r.h
Size == Nat \X Nat
Place == Int \X Int
W == Points(Whole)

\* A rectangle has the position and the size it is made from.
LEMMA RectangleIs ==
  ASSUME NEW pos \in Place, NEW size \in Size
  PROVE  /\ Rectangle(pos, size) \in Rect
         /\ Rectangle(pos, size).x = pos[1] /\ Rectangle(pos, size).y = pos[2]
         /\ Rectangle(pos, size).w = size[1] /\ Rectangle(pos, size).h = size[2]
  BY DEF Rectangle, Rect, Place, Size

\* The places in a rectangle.
LEMMA PointsIn ==
  ASSUME NEW r \in Rect
  PROVE  Points(r) \subseteq Place /\ \A p \in Place : p \in Points(r) <=> In(p, r)
<1>1. r.x \in Int /\ r.y \in Int /\ r.w \in Int /\ r.h \in Int
  BY DEF Rect
<1>2. Points(r) \subseteq Place
  BY <1>1 DEF Points, Place
<1>3. ASSUME NEW p \in Place PROVE p \in Points(r) <=> In(p, r)
  <2>1. p = <<p[1], p[2]>> /\ p[1] \in Int /\ p[2] \in Int
    BY DEF Place
  <2>2. p \in Points(r) <=> p[1] \in r.x .. r.x + r.w - 1 /\ p[2] \in r.y .. r.y + r.h - 1
    BY <2>1 DEF Points
  <2>3. p[1] \in r.x .. r.x + r.w - 1 <=> r.x <= p[1] /\ p[1] < r.x + r.w
    BY <2>1, <1>1
  <2>4. p[2] \in r.y .. r.y + r.h - 1 <=> r.y <= p[2] /\ p[2] < r.y + r.h
    BY <2>1, <1>1
  <2> QED BY <2>2, <2>3, <2>4 DEF In
<1> QED BY <1>2, <1>3

\* The intersection of two rectangles has the points of both, and none if they do not meet.
LEMMA IntersectionIs ==
  ASSUME NEW a \in Rect, NEW b \in Rect
  PROVE  Intersection(a, b) \in Rect /\ \A p \in Place : In(p, Intersection(a, b)) <=> In(p, a) /\ In(p, b)
<1>1. /\ a.x \in Int /\ a.y \in Int /\ a.w \in Nat /\ a.h \in Nat
      /\ b.x \in Int /\ b.y \in Int /\ b.w \in Nat /\ b.h \in Nat
  BY DEF Rect
<1> DEFINE x == Larger(a.x, b.x)
           y == Larger(a.y, b.y)
           w == Smaller(a.x + a.w, b.x + b.w) - x
           h == Smaller(a.y + a.h, b.y + b.h) - y
           none == a.x + a.w < b.x \/ a.y + a.h < b.y \/ b.x + b.w < a.x \/ b.y + b.h < a.y
<1>2. Intersection(a, b) = IF none THEN [x |-> 0, y |-> 0, w |-> 0, h |-> 0]
                                   ELSE [x |-> x, y |-> y, w |-> w, h |-> h]
  BY DEF Intersection, Rectangle
<1>3. x \in Int /\ y \in Int /\ (~none => w \in Nat /\ h \in Nat)
  BY <1>1 DEF Larger, Smaller
<1>4. Intersection(a, b) \in Rect
  BY <1>2, <1>3 DEF Rect
<1>5. ASSUME NEW p \in Place PROVE In(p, Intersection(a, b)) <=> In(p, a) /\ In(p, b)
  <2>1. p[1] \in Int /\ p[2] \in Int
    BY DEF Place
  <2>2. CASE none
    <3>1. ~In(p, Intersection(a, b))
      BY <2>1, <2>2, <1>2 DEF In
    <3>2. ~(In(p, a) /\ In(p, b))
      BY <2>1, <2>2, <1>1 DEF In
    <3> QED BY <3>1, <3>2
  <2>3. CASE ~none
    <3>1. In(p, Intersection(a, b)) <=> x <= p[1] /\ p[1] < x + w /\ y <= p[2] /\ p[2] < y + h
      BY <2>3, <1>2 DEF In
    <3>2. x <= p[1] /\ p[1] < x + w
            <=> a.x <= p[1] /\ b.x <= p[1] /\ p[1] < a.x + a.w /\ p[1] < b.x + b.w
      BY <2>1, <1>1 DEF Larger, Smaller
    <3>3. y <= p[2] /\ p[2] < y + h
            <=> a.y <= p[2] /\ b.y <= p[2] /\ p[2] < a.y + a.h /\ p[2] < b.y + b.h
      BY <2>1, <1>1 DEF Larger, Smaller
    <3> HIDE DEF x, y, w, h, none
    <3> QED BY <3>1, <3>2, <3>3 DEF In
  <2> QED BY <2>2, <2>3
<1> QED BY <1>4, <1>5

\* The whole screen is a rectangle, with every place of the screen in it.
LEMMA WholeIs == Whole \in Rect /\ W \subseteq Place /\ \A p \in Place : p \in W <=> In(p, Whole)
<1>1. <<0, 0>> \in Place /\ <<ScreenWidth, ScreenHeight>> \in Size
  BY ScreenAssumption DEF Place, Size
<1>2. Whole \in Rect
  BY <1>1, RectangleIs DEF Whole
<1> QED BY <1>2, PointsIn DEF W

\* Places are added and subtracted coordinate by coordinate.
LEMMA Differences ==
  ASSUME NEW p \in Place, NEW q \in Place
  PROVE  /\ Minus(p, q) \in Place /\ Minus(p, q)[1] = p[1] - q[1] /\ Minus(p, q)[2] = p[2] - q[2]
         /\ Shift(p, q) \in Place /\ Shift(p, q)[1] = p[1] + q[1] /\ Shift(p, q)[2] = p[2] + q[2]
         /\ Minus(p, <<0, 0>>) = p
         /\ Shift(Minus(p, q), q) = p
<1>1. p = <<p[1], p[2]>> /\ p[1] \in Int /\ p[2] \in Int /\ q[1] \in Int /\ q[2] \in Int
  BY DEF Place
<1>2. Minus(p, <<0, 0>>) = p
  <2>1. p[1] - 0 = p[1] /\ p[2] - 0 = p[2]
    BY <1>1
  <2> QED BY <2>1, <1>1 DEF Minus
<1>3. Shift(Minus(p, q), q) = p
  <2>1. p[1] - q[1] + q[1] = p[1] /\ p[2] - q[2] + q[2] = p[2]
    BY <1>1
  <2> QED BY <2>1, <1>1 DEF Minus, Shift
<1> QED BY <1>1, <1>2, <1>3 DEF Minus, Shift, Place

\* What Copy does to a place of the screen.
Origin(pos, part) == Minus(pos, <<part.x, part.y>>)
Copied(p, pos, size, part) ==
  In(p, Rectangle(Origin(pos, part), size)) /\ In(p, Rectangle(pos, <<part.w, part.h>>))

CopyIs(dst, pos, src, size, part, p) ==
  /\ Copied(p, pos, size, part) => Copy(dst, pos, src, size, part)[p] = src[Minus(p, Origin(pos, part))]
  /\ ~Copied(p, pos, size, part) => Copy(dst, pos, src, size, part)[p] = dst[p]

\* What a copy leaves at a place.
LEMMA CopiedPixel ==
  ASSUME NEW dst, NEW pos \in Place, NEW src, NEW size \in Size, NEW part \in Rect, NEW p \in W
  PROVE  CopyIs(dst, pos, src, size, part, p)
<1> DEFINE offset == Minus(pos, <<part.x, part.y>>)
           one == Rectangle(offset, size)
           two == Rectangle(pos, <<part.w, part.h>>)
           area == Intersection(Intersection(Whole, one), two)
<1>1. <<part.x, part.y>> \in Place /\ <<part.w, part.h>> \in Size
  BY DEF Rect, Place, Size
<1>2. offset \in Place
  BY <1>1, Differences
<1>3. one \in Rect /\ two \in Rect
  BY <1>1, <1>2, RectangleIs
<1>4. p \in Place /\ In(p, Whole) /\ Whole \in Rect
  BY WholeIs
<1> HIDE DEF one, two
<1>5. Intersection(Whole, one) \in Rect
  BY <1>3, <1>4, IntersectionIs
<1>6. area \in Rect /\ (In(p, area) <=> In(p, one) /\ In(p, two))
  BY <1>3, <1>4, <1>5, IntersectionIs
<1>7. p \in Points(area) <=> In(p, one) /\ In(p, two)
  BY <1>4, <1>6, PointsIn
<1>8. Copy(dst, pos, src, size, part)[p] = IF p \in Points(area) THEN src[Minus(p, offset)] ELSE dst[p]
  BY DEF Copy, W, one, two
<1> QED BY <1>7, <1>8 DEF one, two, Origin, Copied, CopyIs
-----------------------------------------------------------------------------
(* Drawing a layer. *)

All == Windows \cup {Desktop, Mouse}

\* Every layer has a size.
LEMMA SizeIs == \A l \in All : SizeOf(l) \in Size
  BY ScreenAssumption DEF SizeOf, Size, All

\* A place of the screen and of a layer's window.
LEMMA OwnPlaces ==
  ASSUME NEW l \in All, NEW at \in Place, NEW p \in W
  PROVE  Minus(p, at) \in Points(Rectangle(<<0, 0>>, SizeOf(l))) <=> In(p, Rectangle(at, SizeOf(l)))
<1>1. p \in Place /\ SizeOf(l) \in Size /\ Minus(p, at) \in Place /\ <<0, 0>> \in Place
  BY WholeIs, SizeIs, Differences DEF Place
<1> DEFINE home == Rectangle(<<0, 0>>, SizeOf(l))
           own == Rectangle(at, SizeOf(l))
           q == Minus(p, at)
<1>2. home \in Rect
  BY <1>1, RectangleIs
<1>3. q \in Points(home) <=> In(q, home)
  BY <1>1, <1>2, PointsIn
<1>4. In(q, home) <=> In(p, own)
  <2>1. /\ home.x = 0 /\ home.y = 0 /\ home.w = SizeOf(l)[1] /\ home.h = SizeOf(l)[2]
        /\ own.x = at[1] /\ own.y = at[2] /\ own.w = SizeOf(l)[1] /\ own.h = SizeOf(l)[2]
    BY <1>1, RectangleIs
  <2>2. q[1] = p[1] - at[1] /\ q[2] = p[2] - at[2]
    BY <1>1, Differences
  <2>3. p[1] \in Int /\ p[2] \in Int /\ at[1] \in Int /\ at[2] \in Int
        /\ SizeOf(l)[1] \in Nat /\ SizeOf(l)[2] \in Nat
    BY <1>1 DEF Place, Size
  <2> HIDE DEF home, own, q
  <2> QED BY <2>1, <2>2, <2>3 DEF In
<1> QED BY <1>3, <1>4

\* Layer l, whose window is image, shows at p.
CoversAt(l, image, at, p) ==
  In(p, Rectangle(at, SizeOf(l))) /\ image[Minus(p, at)] # Clear

\* ... and is drawn there when the area is: the mouse's window is drawn whole.
DrawnAt(l, image, at, area, p) ==
  IF l = Mouse THEN CoversAt(l, image, at, p) ELSE In(p, area) /\ In(p, Rectangle(at, SizeOf(l)))

DrawIs(buffer, l, image, at, area, p) ==
  DrawTo(buffer, l, image, at, area)[p] =
    IF DrawnAt(l, image, at, area, p) THEN image[Minus(p, at)] ELSE buffer[p]

\* What a layer that is drawn leaves at a place.
LEMMA DrawnPixel ==
  ASSUME NEW buffer, NEW l \in All, NEW image, NEW at \in Place, NEW area \in Rect, NEW p \in W
  PROVE  DrawIs(buffer, l, image, at, area, p)
<1> DEFINE own == Rectangle(at, SizeOf(l))
           q == Minus(p, at)
<1>1. p \in Place /\ SizeOf(l) \in Size /\ q \in Place /\ <<0, 0>> \in Place
  BY WholeIs, SizeIs, Differences DEF Place
<1>2. own \in Rect
  BY <1>1, RectangleIs
<1>3. CASE l = Mouse
  <2> DEFINE home == Rectangle(<<0, 0>>, SizeOf(l))
  <2>2. q \in Points(home) <=> In(p, own)
    BY OwnPlaces
  <2>4. DrawTo(buffer, l, image, at, area)[p] =
          IF q \in Points(home) /\ image[q] # Clear THEN image[q] ELSE buffer[p]
    BY <1>3 DEF DrawTo, W
  <2> QED BY <2>2, <2>4, <1>3 DEF DrawnAt, CoversAt, DrawIs
<1>4. CASE l # Mouse
  <2> DEFINE part == Intersection(area, own)
             cut == [part EXCEPT !.x = @ - at[1], !.y = @ - at[2]]
  <2>1. part \in Rect /\ (In(p, part) <=> In(p, area) /\ In(p, own))
    BY <1>1, <1>2, IntersectionIs
  <2>2. DrawTo(buffer, l, image, at, area) = Copy(buffer, <<part.x, part.y>>, image, SizeOf(l), cut)
    BY <1>4 DEF DrawTo
  <2>3. at = <<at[1], at[2]>> /\ at[1] \in Int /\ at[2] \in Int
    BY DEF Place
  <2> HIDE DEF part
  <2>4. part.x \in Int /\ part.y \in Int /\ part.w \in Nat /\ part.h \in Nat
        /\ part = [x |-> part.x, y |-> part.y, w |-> part.w, h |-> part.h]
    BY <2>1 DEF Rect
  <2>5. cut = [x |-> part.x - at[1], y |-> part.y - at[2], w |-> part.w, h |-> part.h]
    <3>1. PICK a \in Int, b \in Int, w \in Nat, h \in Nat : part = [x |-> a, y |-> b, w |-> w, h |-> h]
      BY <2>4
    <3>2. [part EXCEPT !.x = @ - at[1]] = [x |-> a - at[1], y |-> b, w |-> w, h |-> h]
      BY <3>1
    <3>3. cut = [[part EXCEPT !.x = @ - at[1]] EXCEPT !.y = @ - at[2]]
      BY <3>1
    <3>4. cut = [x |-> a - at[1], y |-> b - at[2], w |-> w, h |-> h]
      <4> HIDE DEF cut
      <4> QED BY <3>2, <3>3
    <3>5. part.x = a /\ part.y = b /\ part.w = w /\ part.h = h
      BY <3>1
    <3> QED BY <3>4, <3>5
  <2>6. cut \in Rect /\ <<part.x, part.y>> \in Place
    BY <2>3, <2>4, <2>5 DEF Rect, Place
  <2>7. Minus(<<part.x, part.y>>, <<cut.x, cut.y>>) = at
    <3>1. part.x - (part.x - at[1]) = at[1] /\ part.y - (part.y - at[2]) = at[2]
      BY <2>3, <2>4
    <3> QED BY <3>1, <2>3, <2>5 DEF Minus
  <2>8. Rectangle(<<part.x, part.y>>, <<cut.w, cut.h>>) = part
    BY <2>4, <2>5 DEF Rectangle
  <2> HIDE DEF cut
  <2>9. Copy(buffer, <<part.x, part.y>>, image, SizeOf(l), cut)[p] =
          IF In(p, own) /\ In(p, part) THEN image[q] ELSE buffer[p]
    <3> HIDE DEF own
    <3>1. at = Minus(<<part.x, part.y>>, <<cut.x, cut.y>>)
      BY <2>7
    <3>2. PICK from \in Place, size \in Size, c \in Rect :
            from = <<part.x, part.y>> /\ size = SizeOf(l) /\ c = cut
      BY <1>1, <2>6
    <3>3. at = Origin(from, c)
      BY <3>1, <3>2 DEF Origin
    <3>4. CopyIs(buffer, from, image, size, c, p)
      BY CopiedPixel
    <3>5. Copied(p, from, size, c) <=> In(p, own) /\ In(p, part)
      BY <3>2, <3>3, <2>8 DEF own, Copied
    <3> QED BY <3>2, <3>3, <3>4, <3>5 DEF CopyIs
  <2> QED BY <2>1, <2>2, <2>9, <1>4 DEF DrawnAt, DrawIs
<1> QED BY <1>3, <1>4

-----------------------------------------------------------------------------
(* What is seen. *)

\* The layers' windows, of which only the mouse's is transparent, and where they are.
Image(l, im) ==
  /\ DOMAIN im = Points(Rectangle(<<0, 0>>, SizeOf(l)))
  /\ IF l = Mouse THEN im = MouseImage ELSE \A q \in DOMAIN im : im[q] # Clear
Images(images) == \A l \in All : Image(l, images[l])
Places(pos) == (\A l \in All : pos[l] \in Place) /\ pos[Desktop] = <<0, 0>>

\* From the desktop, which is everywhere, to the mouse.
Stack(s) ==
  /\ s \in Seq(All) /\ Len(s) >= 2 /\ s[1] = Desktop /\ s[Len(s)] = Mouse
  /\ \A i, j \in 1 .. Len(s) : s[i] = s[j] => i = j

Scene(s, images, pos) == Stack(s) /\ Images(images) /\ Places(pos)

\* The layer at a height of the stack shows at p, and as what.
ShowsAt(s, images, pos, i, p) == CoversAt(s[i], images[s[i]], pos[s[i]], p)
Pixel(s, images, pos, i, p) == images[s[i]][Minus(p, pos[s[i]])]

Seen(s, images, pos, p, v) ==
  \E i \in 1 .. Len(s) :
    /\ ShowsAt(s, images, pos, i, p) /\ v = Pixel(s, images, pos, i, p)
    /\ \A j \in i + 1 .. Len(s) : ~ShowsAt(s, images, pos, j, p)

\* Both buffers have what is seen.
Right(pic, s, images, pos, p) == Seen(s, images, pos, p, pic.back[p]) /\ pic.front[p] = pic.back[p]

\* A window other than the mouse's shows wherever it is.
LEMMA WindowCovers ==
  ASSUME NEW l \in All, l # Mouse, NEW im, Image(l, im), NEW at \in Place, NEW p \in W
  PROVE  CoversAt(l, im, at, p) <=> In(p, Rectangle(at, SizeOf(l)))
  BY OwnPlaces DEF CoversAt, Image

\* The desktop is everywhere.
LEMMA DesktopCovers ==
  ASSUME NEW s, NEW images, NEW pos, Scene(s, images, pos), NEW p \in W
  PROVE  ShowsAt(s, images, pos, 1, p)
<1>1. s[1] = Desktop /\ Desktop \in All /\ Desktop # Mouse /\ pos[Desktop] = <<0, 0>> /\ Image(Desktop, images[Desktop])
  BY DEF Scene, Stack, Images, Places, All, Desktop, Mouse
<1>2. SizeOf(Desktop) = <<ScreenWidth, ScreenHeight>> /\ <<0, 0>> \in Place
  BY DEF SizeOf, Place
<1>3. In(p, Rectangle(<<0, 0>>, SizeOf(Desktop)))
  BY <1>2, WholeIs DEF Whole
<1> QED BY <1>1, <1>2, <1>3, WindowCovers DEF ShowsAt

-----------------------------------------------------------------------------
(* DrawLayers. *)

\* The place after the layers of a stack from height k on were drawn, as far as i.
Drawn(f, s, images, pos, area, p, k, i) ==
  f[i][p] = IF DrawnAt(s[k + i - 1], images[s[k + i - 1]], pos[s[k + i - 1]], area, p)
            THEN Pixel(s, images, pos, k + i - 1, p) ELSE f[i - 1][p]

LayersAreDrawn(pic, s, images, pos, k, area, p) ==
  \E f : /\ f[0] = pic.back
         /\ \A i \in 1 .. Len(s) - k + 1 : Drawn(f, s, images, pos, area, p, k, i)
         /\ f[Len(s) - k + 1] = DrawLayers(pic, SubSeq(s, k, Len(s)), images, pos, area).back

\* Layers drawn one above the other show the highest of them that covers the place.
LEMMA LayersDrawn ==
  ASSUME NEW pic, NEW s, NEW images, NEW pos, Scene(s, images, pos), NEW k \in 1 .. Len(s), NEW area \in Rect,
         NEW p \in W
  PROVE  LayersAreDrawn(pic, s, images, pos, k, area, p)
<1>1. s \in Seq(All) /\ Len(s) \in Nat /\ k \in Nat /\ k <= Len(s) /\ Places(pos)
  BY DEF Scene, Stack
<1> DEFINE n == Len(s) - k + 1
           t == SubSeq(s, k, Len(s))
<1>2. n \in Nat /\ n > 0
  BY <1>1
<1>3. t \in Seq(All) /\ Len(t) = n /\ \A i \in 1 .. n : t[i] = s[k + i - 1] /\ t[i] \in All
  <2>1. \A i \in k .. Len(s) : s[i] \in All
    BY <1>1, ElementOfSeq
  <2>2. /\ t \in Seq(All) /\ Len(t) = IF k <= Len(s) THEN Len(s) - k + 1 ELSE 0
        /\ \A i \in 1 .. Len(s) - k + 1 : t[i] = s[k + i - 1]
    BY <1>1, <2>1, SubSeqProperties
  <2>3. \A i \in 1 .. n : k + i - 1 \in k .. Len(s)
    BY <1>1
  <2> QED BY <1>1, <2>1, <2>2, <2>3
<1> HIDE DEF n, t
<1>4. DOMAIN t = 1 .. n
  BY <1>3
<1>5. PICK b, m, u : b = pic.back /\ m = n /\ u = t
  OBVIOUS
<1>6. InTurn(b, images, pos, area, u, m)
  BY <1>2, <1>4, <1>5, DrawnOneByOne
<1>7. PICK f : /\ f[0] = b
               /\ \A i \in 1 .. m : f[i] = DrawTo(f[i - 1], u[i], images[u[i]], pos[u[i]], area)
               /\ f[m] = FoldLeft(LAMBDA c, l : DrawTo(c, l, images[l], pos[l], area), b, u)
  BY <1>6 DEF InTurn
<1>8. f[n] = DrawLayers(pic, t, images, pos, area).back
  BY <1>5, <1>7 DEF DrawLayers
<1>9. \A i \in 1 .. n : Drawn(f, s, images, pos, area, p, k, i)
  <2> SUFFICES ASSUME NEW i \in 1 .. n PROVE Drawn(f, s, images, pos, area, p, k, i)
    OBVIOUS
  <2>1. t[i] \in All /\ t[i] = s[k + i - 1] /\ pos[t[i]] \in Place
    BY <1>1, <1>3 DEF Places
  <2>2. PICK l \in All, at \in Place : l = t[i] /\ at = pos[t[i]]
    BY <2>1
  <2>5. PICK image, c : image = images[t[i]] /\ c = f[i - 1]
    OBVIOUS
  <2>3. DrawIs(c, l, image, at, area, p)
    BY DrawnPixel
  <2>4. f[i] = DrawTo(c, l, image, at, area)
    BY <1>5, <1>7, <2>2, <2>5
  <2> QED BY <2>1, <2>2, <2>3, <2>4, <2>5 DEF Drawn, Pixel, DrawIs
<1>10. f[0] = pic.back
  BY <1>5, <1>7
<1> QED BY <1>8, <1>9, <1>10 DEF n, t, LayersAreDrawn
\* What does not change from i on is at the end what it was.
LEMMA StaysAfter ==
  ASSUME NEW n \in Nat, NEW i \in 0 .. n, NEW g, \A j \in i + 1 .. n : g[j] = g[j - 1]
  PROVE  g[n] = g[i]
<1> DEFINE S == {m \in Nat : i + m <= n => g[i + m] = g[i]}
<1>1. 0 \in S
  OBVIOUS
<1>2. ASSUME NEW m \in S PROVE m + 1 \in S
  <2>1. m \in Nat /\ i \in Nat /\ (i + m <= n => g[i + m] = g[i])
    BY <1>2
  <2>2. ASSUME i + (m + 1) <= n PROVE g[i + (m + 1)] = g[i]
    <3>1. i + (m + 1) \in i + 1 .. n /\ i + (m + 1) - 1 = i + m /\ i + m <= n
      BY <2>1, <2>2
    <3>2. g[i + (m + 1)] = g[i + m]
      BY <3>1
    <3> QED BY <2>1, <3>1, <3>2
  <2> QED BY <2>1, <2>2
<1>3. S = Nat
  <2>1. S \in SUBSET Nat
    OBVIOUS
  <2> HIDE DEF S
  <2> QED BY <1>1, <1>2, <2>1, InductionOn
<1>4. n - i \in Nat /\ i + (n - i) = n
  OBVIOUS
<1>5. n - i \in S
  <2> HIDE DEF S
  <2> QED BY <1>3, <1>4
<1> QED BY <1>4, <1>5

\* The layer at a height of the stack is drawn at p.
DrawnHere(s, images, pos, area, i, p) == DrawnAt(s[i], images[s[i]], pos[s[i]], area, p)

\* The highest of the layers that are drawn at p is there then; the area is copied to the screen.
DrawnFrom(pic, s, images, pos, k, area, p) ==
  LET r == DrawLayers(pic, SubSeq(s, k, Len(s)), images, pos, area)
  IN  /\ (\A i \in k .. Len(s) : ~DrawnHere(s, images, pos, area, i, p)) => r.back[p] = pic.back[p]
      /\ \A i \in k .. Len(s) :
           DrawnHere(s, images, pos, area, i, p) /\ (\A j \in i + 1 .. Len(s) : ~DrawnHere(s, images, pos, area, j, p))
             => r.back[p] = Pixel(s, images, pos, i, p)
      /\ r.front[p] = IF In(p, area) THEN r.back[p] ELSE pic.front[p]

\* So they do in both buffers, once the area is copied to the screen.
LEMMA HighestIsDrawn ==
  ASSUME NEW pic, NEW s, NEW images, NEW pos, Scene(s, images, pos), NEW k \in 1 .. Len(s), NEW area \in Rect,
         NEW p \in W
  PROVE  DrawnFrom(pic, s, images, pos, k, area, p)
<1> DEFINE r == DrawLayers(pic, SubSeq(s, k, Len(s)), images, pos, area)
<1>1. Len(s) \in Nat /\ k \in Nat /\ k <= Len(s) /\ k >= 1
  BY DEF Scene, Stack
<1>2. PICK n \in Nat : n = Len(s) - k + 1
  BY <1>1
<1>3. PICK f : /\ f[0] = pic.back
               /\ \A i \in 1 .. n : Drawn(f, s, images, pos, area, p, k, i)
               /\ f[n] = r.back
  <2>1. LayersAreDrawn(pic, s, images, pos, k, area, p)
    BY LayersDrawn
  <2> QED BY <1>2, <2>1 DEF LayersAreDrawn
<1> DEFINE g == [j \in 0 .. n |-> f[j][p]]
<1>4. \A i \in 1 .. n :
        g[i] = IF DrawnHere(s, images, pos, area, k + i - 1, p) THEN Pixel(s, images, pos, k + i - 1, p) ELSE g[i - 1]
  <2> SUFFICES ASSUME NEW i \in 1 .. n
               PROVE g[i] = IF DrawnHere(s, images, pos, area, k + i - 1, p)
                              THEN Pixel(s, images, pos, k + i - 1, p) ELSE g[i - 1]
    OBVIOUS
  <2>1. Drawn(f, s, images, pos, area, p, k, i) /\ i \in 0 .. n /\ i - 1 \in 0 .. n
    BY <1>3
  <2>2. g[i] = f[i][p] /\ g[i - 1] = f[i - 1][p]
    BY <2>1
  <2> HIDE DEF g
  <2> QED BY <2>1, <2>2 DEF Drawn, DrawnHere
<1>5. g[0] = pic.back[p] /\ g[n] = r.back[p]
  BY <1>3
<1> HIDE DEF g
<1>6. ASSUME \A i \in k .. Len(s) : ~DrawnHere(s, images, pos, area, i, p)
      PROVE  r.back[p] = pic.back[p]
  <2>1. \A j \in 0 + 1 .. n : g[j] = g[j - 1]
    <3> SUFFICES ASSUME NEW j \in 1 .. n PROVE g[j] = g[j - 1]
      OBVIOUS
    <3>1. k + j - 1 \in k .. Len(s)
      BY <1>1, <1>2
    <3> QED BY <3>1, <1>4, <1>6
  <2>2. 0 \in 0 .. n
    OBVIOUS
  <2>3. g[n] = g[0]
    BY <2>1, <2>2, StaysAfter
  <2> QED BY <2>3, <1>5
<1>7. ASSUME NEW i \in k .. Len(s), DrawnHere(s, images, pos, area, i, p),
             \A j \in i + 1 .. Len(s) : ~DrawnHere(s, images, pos, area, j, p)
      PROVE  r.back[p] = Pixel(s, images, pos, i, p)
  <2>1. PICK m \in 1 .. n : m = i - k + 1
    BY <1>1, <1>2
  <2>2. k + m - 1 = i /\ m \in 0 .. n
    BY <1>1, <2>1
  <2>3. g[m] = Pixel(s, images, pos, i, p)
    BY <1>4, <1>7, <2>2
  <2>4. \A j \in m + 1 .. n : g[j] = g[j - 1]
    <3> SUFFICES ASSUME NEW j \in m + 1 .. n PROVE g[j] = g[j - 1]
      OBVIOUS
    <3>1. k + j - 1 \in i + 1 .. Len(s) /\ j \in 1 .. n
      BY <1>1, <1>2, <2>1
    <3> QED BY <3>1, <1>4, <1>7
  <2>5. g[n] = g[m]
    BY <2>2, <2>4, StaysAfter
  <2> QED BY <2>3, <2>5, <1>5
<1>8. r.front[p] = IF In(p, area) THEN r.back[p] ELSE pic.front[p]
  <2>1. PICK at \in Place, size \in Size : at = <<area.x, area.y>> /\ size = <<ScreenWidth, ScreenHeight>>
    BY ScreenAssumption DEF Rect, Place, Size
  <2>2. PICK front, back : front = pic.front /\ back = r.back
    OBVIOUS
  <2>3. CopyIs(front, at, back, size, area, p)
    BY CopiedPixel
  <2>4. r.front = Copy(front, at, back, size, area)
    BY <2>1, <2>2 DEF DrawLayers
  <2>5. Origin(at, area) = <<0, 0>>
    <3>1. area.x \in Int /\ area.y \in Int
      BY DEF Rect
    <3>2. area.x - area.x = 0 /\ area.y - area.y = 0
      BY <3>1
    <3> QED BY <2>1, <3>2 DEF Origin, Minus
  <2>6. Rectangle(at, <<area.w, area.h>>) = area
    BY <2>1 DEF Rectangle, Rect
  <2>7. p \in Place /\ In(p, Whole)
    BY WholeIs
  <2>8. Minus(p, <<0, 0>>) = p
    BY <2>7, Differences DEF Place
  <2>9. Rectangle(<<0, 0>>, size) = Whole
    BY <2>1 DEF Whole
  <2>10. Copied(p, at, size, area) <=> In(p, area)
    BY <2>5, <2>6, <2>7, <2>9 DEF Copied
  <2> HIDE DEF r
  <2> QED BY <2>2, <2>3, <2>4, <2>5, <2>8, <2>10 DEF CopyIs
<1> QED BY <1>6, <1>7, <1>8 DEF DrawnFrom

\* In the area a layer is drawn where it shows, and elsewhere only the mouse's is.
LEMMA DrawnIsShown ==
  ASSUME NEW s, NEW images, NEW pos, Scene(s, images, pos), NEW i \in 1 .. Len(s), NEW area \in Rect, NEW p \in W
  PROVE  /\ In(p, area) => (DrawnHere(s, images, pos, area, i, p) <=> ShowsAt(s, images, pos, i, p))
         /\ ~In(p, area) =>
              (DrawnHere(s, images, pos, area, i, p) <=> s[i] = Mouse /\ ShowsAt(s, images, pos, i, p))
<1>1. s[i] \in All
  BY ElementOfSeq DEF Scene, Stack
<1>2. PICK l \in All, at \in Place : l = s[i] /\ at = pos[l]
  BY <1>1 DEF Scene, Places
<1>3. PICK im : im = images[l] /\ Image(l, im)
  BY DEF Scene, Images
<1>4. l # Mouse => (CoversAt(l, im, at, p) <=> In(p, Rectangle(at, SizeOf(l))))
  BY <1>3, WindowCovers
<1> QED BY <1>2, <1>3, <1>4 DEF DrawnHere, DrawnAt, ShowsAt

\* The highest layer that shows.
LEMMA TopShows ==
  ASSUME NEW s, NEW images, NEW pos, Scene(s, images, pos), NEW p, NEW k \in 1 .. Len(s),
         ShowsAt(s, images, pos, k, p)
  PROVE  \E i \in k .. Len(s) :
           ShowsAt(s, images, pos, i, p) /\ \A j \in i + 1 .. Len(s) : ~ShowsAt(s, images, pos, j, p)
<1>1. Len(s) \in Nat /\ k \in Nat
  BY DEF Scene, Stack
<1> DEFINE S == {i \in 1 .. Len(s) : ShowsAt(s, images, pos, i, p)}
<1>2. S \in SUBSET (1 .. Len(s)) /\ k \in S
  OBVIOUS
<1> HIDE DEF S
<1>3. Max(S) \in S /\ \A y \in S : y <= Max(S)
  BY <1>1, <1>2, MaxOf
<1>4. PICK i : i = Max(S)
  OBVIOUS
<1>5. i \in 1 .. Len(s) /\ ShowsAt(s, images, pos, i, p)
  BY <1>3, <1>4 DEF S
<1>6. k <= i
  BY <1>2, <1>3, <1>4
<1>7. \A j \in i + 1 .. Len(s) : ~ShowsAt(s, images, pos, j, p)
  <2> SUFFICES ASSUME NEW j \in i + 1 .. Len(s), ShowsAt(s, images, pos, j, p) PROVE FALSE
    OBVIOUS
  <2>1. j \in 1 .. Len(s) /\ j > i
    BY <1>1, <1>5
  <2>2. j \in S
    BY <2>1 DEF S
  <2>3. j <= i
    BY <2>2, <1>3, <1>4
  <2> QED BY <2>1, <2>3, <1>1, <1>5
<1>8. i \in k .. Len(s)
  BY <1>1, <1>5, <1>6
<1> QED BY <1>5, <1>7, <1>8

DrawsFrom(pic, s, images, pos, k, area) == DrawLayers(pic, SubSeq(s, k, Len(s)), images, pos, area)

\* Where one of the layers that are drawn shows, the screen is right.
LEMMA DrawMakes ==
  ASSUME NEW pic, NEW s, NEW images, NEW pos, Scene(s, images, pos), NEW k \in 1 .. Len(s), NEW area \in Rect,
         NEW p \in W, In(p, area), NEW h \in k .. Len(s), ShowsAt(s, images, pos, h, p)
  PROVE  Right(DrawsFrom(pic, s, images, pos, k, area), s, images, pos, p)
<1>0. PICK r : r = DrawLayers(pic, SubSeq(s, k, Len(s)), images, pos, area)
  OBVIOUS
<1>1. Len(s) \in Nat /\ k \in Nat /\ k >= 1 /\ h \in Nat /\ h >= k /\ h \in 1 .. Len(s)
  BY DEF Scene, Stack
<1>2. PICK i \in h .. Len(s) :
        ShowsAt(s, images, pos, i, p) /\ \A j \in i + 1 .. Len(s) : ~ShowsAt(s, images, pos, j, p)
  BY <1>1, TopShows
<1>3. i \in k .. Len(s) /\ i \in 1 .. Len(s) /\ \A j \in i + 1 .. Len(s) : j \in 1 .. Len(s)
  BY <1>1
<1>4. \A j \in 1 .. Len(s) : DrawnHere(s, images, pos, area, j, p) <=> ShowsAt(s, images, pos, j, p)
  BY DrawnIsShown
<1>5. DrawnFrom(pic, s, images, pos, k, area, p)
  BY HighestIsDrawn
<1>6. r.back[p] = Pixel(s, images, pos, i, p)
  BY <1>0, <1>2, <1>3, <1>4, <1>5 DEF DrawnFrom
<1>7. r.front[p] = r.back[p]
  BY <1>0, <1>5 DEF DrawnFrom
<1>8. Right(r, s, images, pos, p)
  BY <1>2, <1>3, <1>6, <1>7 DEF Right, Seen
<1> QED BY <1>0, <1>8 DEF DrawsFrom

\* Drawing keeps right what was.
LEMMA DrawKeeps ==
  ASSUME NEW pic, NEW s, NEW images, NEW pos, Scene(s, images, pos), NEW k \in 1 .. Len(s), NEW area \in Rect,
         NEW p \in W, Right(pic, s, images, pos, p)
  PROVE  Right(DrawsFrom(pic, s, images, pos, k, area), s, images, pos, p)
<1>0. PICK r : r = DrawLayers(pic, SubSeq(s, k, Len(s)), images, pos, area)
  OBVIOUS
<1>1. PICK n \in Nat : n = Len(s) /\ k \in 1 .. n /\ n >= 1 /\ s[n] = Mouse /\ \A i \in 1 .. n : s[i] = Mouse => i = n
  <2>1. Len(s) \in Nat /\ Len(s) >= 2 /\ s[Len(s)] = Mouse /\ \A i, j \in 1 .. Len(s) : s[i] = s[j] => i = j
    BY DEF Scene, Stack
  <2>2. Len(s) \in 1 .. Len(s)
    BY <2>1
  <2> QED BY <2>1, <2>2
<1>2. DrawnFrom(pic, s, images, pos, k, area, p)
  BY HighestIsDrawn
<1>3. /\ r.front[p] = IF In(p, area) THEN r.back[p] ELSE pic.front[p]
      /\ (\A i \in k .. n : ~DrawnHere(s, images, pos, area, i, p)) => r.back[p] = pic.back[p]
      /\ \A i \in k .. n : (DrawnHere(s, images, pos, area, i, p) /\ \A j \in i + 1 .. n : ~DrawnHere(s, images, pos, area, j, p)) => r.back[p] = Pixel(s, images, pos, i, p)
  BY <1>0, <1>1, <1>2 DEF DrawnFrom
<1>4. /\ In(p, area) => \A i \in k .. n : DrawnHere(s, images, pos, area, i, p) <=> ShowsAt(s, images, pos, i, p)
      /\ ~In(p, area) => \A i \in k .. n : DrawnHere(s, images, pos, area, i, p) <=> s[i] = Mouse /\ ShowsAt(s, images, pos, i, p)
  <2>1. \A i \in k .. n : i \in 1 .. Len(s)
    BY <1>1
  <2> QED BY <2>1, DrawnIsShown
<1>5. Seen(s, images, pos, p, pic.back[p]) /\ pic.front[p] = pic.back[p]
  BY DEF Right
<1>6. CASE In(p, area) /\ \E h \in k .. n : ShowsAt(s, images, pos, h, p)
  <2>1. PICK h \in k .. Len(s) : ShowsAt(s, images, pos, h, p)
    BY <1>1, <1>6
  <2> QED BY <2>1, <1>6, DrawMakes
<1>7. CASE In(p, area) /\ \A h \in k .. n : ~ShowsAt(s, images, pos, h, p)
  <2>1. r.back[p] = pic.back[p] /\ r.front[p] = r.back[p]
    BY <1>7, <1>3, <1>4
  <2> QED BY <2>1, <1>0, <1>5 DEF Right, DrawsFrom
<1>8. CASE ~In(p, area) /\ ShowsAt(s, images, pos, n, p)
  <2>1. n \in k .. n /\ n + 1 .. n = {}
    BY <1>1
  <2>2. DrawnHere(s, images, pos, area, n, p)
    BY <2>1, <1>8, <1>4, <1>1
  <2>3. r.back[p] = Pixel(s, images, pos, n, p)
    BY <2>1, <2>2, <1>3
  <2>4. PICK i \in 1 .. n : /\ ShowsAt(s, images, pos, i, p) /\ pic.back[p] = Pixel(s, images, pos, i, p)
                            /\ \A j \in i + 1 .. n : ~ShowsAt(s, images, pos, j, p)
    BY <1>1, <1>5 DEF Seen
  <2>5. i = n
    <3>1. ~ (n \in i + 1 .. n)
      BY <2>4, <1>8
    <3> QED BY <3>1, <1>1
  <2>6. r.back[p] = pic.back[p] /\ r.front[p] = r.back[p]
    BY <2>3, <2>4, <2>5, <1>3, <1>5, <1>8
  <2> QED BY <2>6, <1>0, <1>5 DEF Right, DrawsFrom
<1>9. CASE ~In(p, area) /\ ~ShowsAt(s, images, pos, n, p)
  <2>1. \A i \in k .. n : ~DrawnHere(s, images, pos, area, i, p)
    <3>1. \A i \in k .. n : i \in 1 .. n
      BY <1>1
    <3> QED BY <3>1, <1>1, <1>4, <1>9
  <2>2. r.back[p] = pic.back[p] /\ r.front[p] = r.back[p]
    BY <2>1, <1>3, <1>5, <1>9
  <2> QED BY <2>2, <1>0, <1>5 DEF Right, DrawsFrom
<1> QED BY <1>6, <1>7, <1>8, <1>9

-----------------------------------------------------------------------------
(* Scenes that look the same. *)

\* Where nothing changes that shows, the same is seen.
LEMMA SeenAlike ==
  ASSUME NEW s, NEW im, NEW at, NEW im2, NEW at2, NEW p, NEW v,
         \A i \in 1 .. Len(s) : /\ ShowsAt(s, im2, at2, i, p) <=> ShowsAt(s, im, at, i, p)
                                /\ ShowsAt(s, im, at, i, p) => Pixel(s, im2, at2, i, p) = Pixel(s, im, at, i, p),
         Len(s) \in Nat, Seen(s, im, at, p, v)
  PROVE  Seen(s, im2, at2, p, v)
<1>1. PICK i \in 1 .. Len(s) : /\ ShowsAt(s, im, at, i, p) /\ v = Pixel(s, im, at, i, p)
                               /\ \A j \in i + 1 .. Len(s) : ~ShowsAt(s, im, at, j, p)
  BY DEF Seen
<1>2. \A j \in i + 1 .. Len(s) : j \in 1 .. Len(s)
  OBVIOUS
<1>3. ShowsAt(s, im2, at2, i, p) /\ v = Pixel(s, im2, at2, i, p)
  BY <1>1
<1>4. \A j \in i + 1 .. Len(s) : ~ShowsAt(s, im2, at2, j, p)
  BY <1>1, <1>2
<1> QED BY <1>3, <1>4 DEF Seen

\* A stack and what is left of it without its element at height k.
Without(s, t, k) ==
  /\ Len(s) \in Nat /\ Len(t) \in Nat /\ Len(t) = Len(s) - 1 /\ k \in 1 .. Len(s)
  /\ \A j \in 1 .. Len(t) : t[j] = IF j < k THEN s[j] ELSE s[j + 1]

\* A layer that does not show at a place may be taken out of the stack there.
LEMMA SeenWithout ==
  ASSUME NEW s, NEW t, NEW k, Without(s, t, k), NEW im, NEW at, NEW p, NEW v, ~ShowsAt(s, im, at, k, p)
  PROVE  Seen(s, im, at, p, v) <=> Seen(t, im, at, p, v)
<1>1. PICK n \in Nat, m \in Nat : n = Len(s) /\ m = Len(t) /\ m = n - 1 /\ k \in 1 .. n
  BY DEF Without
<1>2. \A j \in 1 .. m : /\ j < k => t[j] = s[j] /\ (ShowsAt(t, im, at, j, p) <=> ShowsAt(s, im, at, j, p))
                                    /\ Pixel(t, im, at, j, p) = Pixel(s, im, at, j, p)
                        /\ j >= k => t[j] = s[j + 1] /\ (ShowsAt(t, im, at, j, p) <=> ShowsAt(s, im, at, j + 1, p))
                                     /\ Pixel(t, im, at, j, p) = Pixel(s, im, at, j + 1, p)
  <2> SUFFICES ASSUME NEW j \in 1 .. m
               PROVE  /\ j < k => t[j] = s[j] /\ (ShowsAt(t, im, at, j, p) <=> ShowsAt(s, im, at, j, p))
                                    /\ Pixel(t, im, at, j, p) = Pixel(s, im, at, j, p)
                      /\ j >= k => t[j] = s[j + 1] /\ (ShowsAt(t, im, at, j, p) <=> ShowsAt(s, im, at, j + 1, p))
                                     /\ Pixel(t, im, at, j, p) = Pixel(s, im, at, j + 1, p)
    OBVIOUS
  <2>1. t[j] = IF j < k THEN s[j] ELSE s[j + 1]
    BY <1>1 DEF Without
  <2>2. CASE j < k
    BY <2>1, <2>2, <1>1 DEF ShowsAt, Pixel
  <2>3. CASE j >= k
    <3>1. t[j] = s[j + 1] /\ ~ (j < k)
      BY <2>1, <2>3, <1>1
    <3> QED BY <3>1 DEF ShowsAt, Pixel
  <2> QED BY <2>2, <2>3, <1>1
<1>3. ASSUME Seen(s, im, at, p, v) PROVE Seen(t, im, at, p, v)
  <2>1. PICK i \in 1 .. n : /\ ShowsAt(s, im, at, i, p) /\ v = Pixel(s, im, at, i, p)
                            /\ \A j \in i + 1 .. n : ~ShowsAt(s, im, at, j, p)
    BY <1>1, <1>3 DEF Seen
  <2>2. i # k
    BY <2>1
  <2>3. CASE i < k
    <3>1. i \in 1 .. m /\ ShowsAt(t, im, at, i, p) /\ v = Pixel(t, im, at, i, p)
      BY <1>1, <1>2, <2>1, <2>3
    <3>2. \A j \in i + 1 .. m : ~ShowsAt(t, im, at, j, p)
      <4> SUFFICES ASSUME NEW j \in i + 1 .. m PROVE ~ShowsAt(t, im, at, j, p)
        OBVIOUS
      <4>1. j \in 1 .. m /\ j \in i + 1 .. n /\ j + 1 \in i + 1 .. n /\ (j < k \/ j >= k)
        BY <1>1
      <4> QED BY <4>1, <1>2, <2>1
    <3> QED BY <3>1, <3>2, <1>1 DEF Seen
  <2>4. CASE i > k
    <3>0. PICK h \in 1 .. m : i = h + 1 /\ h >= k
      <4>1. i - 1 \in 1 .. m /\ i = (i - 1) + 1 /\ i - 1 >= k
        BY <1>1, <2>4
      <4> QED BY <4>1
    <3>1. ShowsAt(t, im, at, h, p) /\ v = Pixel(t, im, at, h, p)
      BY <3>0, <1>2, <2>1
    <3>2. \A j \in h + 1 .. m : ~ShowsAt(t, im, at, j, p)
      <4> SUFFICES ASSUME NEW j \in h + 1 .. m PROVE ~ShowsAt(t, im, at, j, p)
        OBVIOUS
      <4>1. j \in 1 .. m /\ j + 1 \in i + 1 .. n /\ j >= k
        BY <1>1, <3>0
      <4> QED BY <4>1, <1>2, <2>1
    <3> QED BY <3>1, <3>2, <1>1 DEF Seen
  <2> QED BY <2>2, <2>3, <2>4, <1>1
<1>4. ASSUME Seen(t, im, at, p, v) PROVE Seen(s, im, at, p, v)
  <2>1. PICK h \in 1 .. m : /\ ShowsAt(t, im, at, h, p) /\ v = Pixel(t, im, at, h, p)
                            /\ \A j \in h + 1 .. m : ~ShowsAt(t, im, at, j, p)
    BY <1>1, <1>4 DEF Seen
  <2>2. PICK i \in 1 .. n : i = IF h < k THEN h ELSE h + 1
    <3>1. (IF h < k THEN h ELSE h + 1) \in 1 .. n
      BY <1>1
    <3> QED BY <3>1
  <2>3. ShowsAt(s, im, at, i, p) /\ v = Pixel(s, im, at, i, p)
    BY <2>1, <2>2, <1>1, <1>2
  <2>4. \A j \in i + 1 .. n : ~ShowsAt(s, im, at, j, p)
    <3> SUFFICES ASSUME NEW j \in i + 1 .. n PROVE ~ShowsAt(s, im, at, j, p)
      OBVIOUS
    <3>1. CASE j = k
      BY <3>1
    <3>2. CASE j < k
      <4>1. j \in 1 .. m /\ j \in h + 1 .. m
        BY <3>2, <2>2, <1>1
      <4> QED BY <4>1, <3>2, <2>1, <1>2
    <3>3. CASE j > k
      <4>1. PICK g \in 1 .. m : j = g + 1 /\ g >= k /\ g \in h + 1 .. m
        <5>1. j - 1 \in 1 .. m /\ j = (j - 1) + 1 /\ j - 1 >= k /\ j - 1 \in h + 1 .. m
          BY <3>3, <2>2, <1>1
        <5> QED BY <5>1
      <4> QED BY <4>1, <2>1, <1>2
    <3> QED BY <3>1, <3>2, <3>3, <1>1
  <2> QED BY <2>3, <2>4, <1>1 DEF Seen
<1> QED BY <1>3, <1>4

-----------------------------------------------------------------------------
(* The stack. *)

\* A layer is found at its height.
LEMMA FromIs ==
  ASSUME NEW s, Stack(s), NEW k \in 1 .. Len(s)
  PROVE  From(s, s[k]) = k
<1>1. Len(s) \in Nat /\ \A i, j \in 1 .. Len(s) : s[i] = s[j] => i = j
  BY DEF Stack
<1> DEFINE I == {i \in 1 .. Len(s) : s[i] = s[k]}
<1>2. I = {k}
  BY <1>1
<1>3. Min(I) = k
  <2>1. \A x \in {k} : \A y \in {k} : x <= y
    BY <1>1
  <2>2. Min({k}) = k
    BY <2>1 DEF Min
  <2> QED BY <2>2, <1>2
<1>4. From(s, s[k]) = Min(I)
  BY <1>2 DEF From, SelectInSeq
<1> QED BY <1>3, <1>4

\* Every layer of the stack has a height.
LEMMA StackHeight ==
  ASSUME NEW s, Stack(s), NEW l \in Range(s)
  PROVE  \E k \in 1 .. Len(s) : s[k] = l
<1>1. DOMAIN s = 1 .. Len(s)
  BY DEF Stack
<1> QED BY <1>1 DEF Range

\* A window leaves the stack.
LEMMA Removed ==
  ASSUME NEW s, Stack(s), NEW k \in 1 .. Len(s), s[k] \in Windows
  PROVE  /\ Without(s, RemoveFirst(s, s[k]), k) /\ Stack(RemoveFirst(s, s[k]))
<1>0. PICK n \in Nat : n = Len(s) /\ s \in Seq(All) /\ k \in 2 .. n - 1 /\ s[1] = Desktop /\ s[n] = Mouse
                       /\ \A i, j \in 1 .. n : s[i] = s[j] => i = j
  <2>1. s[k] # Desktop /\ s[k] # Mouse
    BY ScreenAssumption
  <2> QED BY <2>1 DEF Stack
<1> DEFINE t == RemoveFirst(s, s[k])
           a == SubSeq(s, 1, k - 1)
           b == SubSeq(s, k + 1, n)
<1>1. t = a \o b
  <2>1. \E i \in 1 .. Len(s) : s[i] = s[k]
    OBVIOUS
  <2>2. SelectInSeq(s, LAMBDA v : v = s[k]) = k
    BY FromIs DEF From
  <2> QED BY <2>1, <2>2, <1>0 DEF RemoveFirst, RemoveAt
<1>2. a \in Seq(All) /\ Len(a) = k - 1 /\ \A i \in 1 .. k - 1 : a[i] = s[i]
  <2>1. \A i \in 1 .. k - 1 : s[i] \in All
    BY <1>0, ElementOfSeq
  <2>2. k - 1 \in Int /\ 1 <= k - 1
    BY <1>0
  <2> QED BY <1>0, <2>1, <2>2, SubSeqProperties
<1>3. b \in Seq(All) /\ Len(b) = n - k /\ \A i \in 1 .. n - k : b[i] = s[k + i]
  <2>1. \A i \in k + 1 .. n : s[i] \in All
    BY <1>0, ElementOfSeq
  <2>2. k + 1 \in Int /\ k + 1 <= n
    BY <1>0
  <2>3. /\ b \in Seq(All) /\ Len(b) = n - (k + 1) + 1
        /\ \A i \in 1 .. n - (k + 1) + 1 : b[i] = s[(k + 1) + i - 1]
    BY <1>0, <2>1, <2>2, SubSeqProperties
  <2>4. n - (k + 1) + 1 = n - k /\ \A i \in 1 .. n - k : (k + 1) + i - 1 = k + i
    BY <1>0
  <2> QED BY <2>3, <2>4
<1> HIDE DEF t, a, b
<1>4. t \in Seq(All) /\ Len(t) = n - 1
      /\ \A i \in 1 .. n - 1 : t[i] = IF i < k THEN s[i] ELSE s[i + 1]
  <2>1. a \o b \in Seq(All) /\ Len(a \o b) = Len(a) + Len(b)
        /\ \A i \in 1 .. Len(a) + Len(b) : (a \o b)[i] = IF i <= Len(a) THEN a[i] ELSE b[i - Len(a)]
    BY <1>2, <1>3, ConcatProperties
  <2>2. Len(a) + Len(b) = n - 1
    <3>1. Len(a) = k - 1 /\ Len(b) = n - k
      BY <1>2, <1>3
    <3>2. k \in Int /\ n \in Int
      BY <1>0
    <3> QED BY <3>1, <3>2
  <2>3. ASSUME NEW i \in 1 .. n - 1 PROVE t[i] = IF i < k THEN s[i] ELSE s[i + 1]
    <3>1. CASE i < k
      BY <3>1, <2>1, <2>2, <1>0, <1>1, <1>2
    <3>2. CASE i >= k
      <4>1. i - (k - 1) \in 1 .. n - k /\ k + (i - (k - 1)) = i + 1 /\ ~ (i <= k - 1)
        BY <3>2, <1>0
      <4>2. b[i - (k - 1)] = s[i + 1]
        BY <4>1, <1>3
      <4> QED BY <4>1, <4>2, <3>2, <2>1, <2>2, <1>1, <1>2
    <3> QED BY <3>1, <3>2, <1>0
  <2> QED BY <2>1, <2>2, <2>3, <1>1
<1>5. Without(s, t, k)
  BY <1>0, <1>4 DEF Without
<1>6. Stack(t)
  <2>1. Len(t) >= 2 /\ t[1] = Desktop /\ t[Len(t)] = Mouse
    <3>1. 1 \in 1 .. n - 1 /\ n - 1 \in 1 .. n - 1 /\ 1 < k /\ ~ (n - 1 < k) /\ (n - 1) + 1 = n /\ n - 1 >= 2
      BY <1>0
    <3> QED BY <3>1, <1>0, <1>4
  <2>2. \A i, j \in 1 .. n - 1 : t[i] = t[j] => i = j
    <3> SUFFICES ASSUME NEW i \in 1 .. n - 1, NEW j \in 1 .. n - 1, t[i] = t[j] PROVE i = j
      OBVIOUS
    <3>1. PICK x \in 1 .. n, y \in 1 .. n :
            x = (IF i < k THEN i ELSE i + 1) /\ y = (IF j < k THEN j ELSE j + 1)
      <4>1. (IF i < k THEN i ELSE i + 1) \in 1 .. n /\ (IF j < k THEN j ELSE j + 1) \in 1 .. n
        BY <1>0
      <4> QED BY <4>1
    <3>2. s[x] = s[y]
      BY <3>1, <1>4
    <3>3. x = y
      BY <3>2, <1>0
    <3> QED BY <3>1, <3>3, <1>0
  <2> QED BY <2>1, <2>2, <1>4 DEF Stack
<1> QED BY <1>5, <1>6 DEF t

\* What is in one stack is in the other, but for the layer at k.
SameBut(s, t, k) ==
  /\ \A m \in 1 .. Len(s) : m # k => \E j \in 1 .. Len(t) : t[j] = s[m]
  /\ \A j \in 1 .. Len(t) : \E m \in 1 .. Len(s) : m # k /\ s[m] = t[j]

\* The layers that are left keep their order.
LEMMA WithoutKeeps ==
  ASSUME NEW s, NEW t, NEW k, Without(s, t, k)
  PROVE  SameBut(s, t, k)
<1>1. ASSUME NEW m \in 1 .. Len(s), m # k PROVE \E j \in 1 .. Len(t) : t[j] = s[m]
  <2>1. CASE m < k
    <3>1. m \in 1 .. Len(t)
      BY <2>1 DEF Without
    <3> QED BY <3>1, <2>1 DEF Without
  <2>2. CASE m > k
    <3>1. m - 1 \in 1 .. Len(t) /\ ~ (m - 1 < k) /\ m = (m - 1) + 1
      BY <2>2 DEF Without
    <3> QED BY <3>1 DEF Without
  <2> QED BY <2>1, <2>2, <1>1 DEF Without
<1>2. ASSUME NEW j \in 1 .. Len(t) PROVE \E m \in 1 .. Len(s) : m # k /\ s[m] = t[j]
  <2>1. (IF j < k THEN j ELSE j + 1) \in 1 .. Len(s) /\ (IF j < k THEN j ELSE j + 1) # k
    BY DEF Without
  <2>2. t[j] = s[IF j < k THEN j ELSE j + 1]
    BY DEF Without
  <2> QED BY <2>1, <2>2
<1> QED BY <1>1, <1>2 DEF SameBut

\* A window comes into the stack, between the desktop and the mouse.
LEMMA Inserted ==
  ASSUME NEW t, Stack(t), NEW h \in 2 .. Len(t), NEW l \in Windows, \A i \in 1 .. Len(t) : t[i] # l
  PROVE  Without(InsertAt(t, h, l), t, h) /\ Stack(InsertAt(t, h, l)) /\ InsertAt(t, h, l)[h] = l
<1>0. PICK n \in Nat : n = Len(t) /\ t \in Seq(All) /\ h \in 2 .. n /\ t[1] = Desktop /\ t[n] = Mouse
                       /\ \A i, j \in 1 .. n : t[i] = t[j] => i = j
  BY DEF Stack
<1> DEFINE u == InsertAt(t, h, l)
           a == SubSeq(t, 1, h - 1)
           b == SubSeq(t, h, n)
           c == a \o <<l>>
<1>1. u = c \o b
  BY <1>0 DEF InsertAt
<1>2. a \in Seq(All) /\ Len(a) = h - 1 /\ \A i \in 1 .. h - 1 : a[i] = t[i]
  <2>1. \A i \in 1 .. h - 1 : t[i] \in All
    BY <1>0, ElementOfSeq
  <2>2. h - 1 \in Int /\ 1 <= h - 1
    BY <1>0
  <2> QED BY <1>0, <2>1, <2>2, SubSeqProperties
<1>3. b \in Seq(All) /\ Len(b) = n - h + 1 /\ \A i \in 1 .. n - h + 1 : b[i] = t[h + i - 1]
  <2>1. \A i \in h .. n : t[i] \in All
    BY <1>0, ElementOfSeq
  <2>2. h \in Int /\ h <= n
    BY <1>0
  <2> QED BY <1>0, <2>1, <2>2, SubSeqProperties
<1> HIDE DEF u, a, b
<1>4. c \in Seq(All) /\ Len(c) = h /\ c[h] = l /\ \A i \in 1 .. h - 1 : c[i] = t[i]
  <2>1. <<l>> \in Seq(All) /\ Len(<<l>>) = 1 /\ <<l>>[1] = l
    BY DEF All
  <2>2. c \in Seq(All) /\ Len(c) = Len(a) + Len(<<l>>)
        /\ \A i \in 1 .. Len(a) + Len(<<l>>) : c[i] = IF i <= Len(a) THEN a[i] ELSE <<l>>[i - Len(a)]
    BY <1>2, <2>1, ConcatProperties
  <2>3. Len(a) + Len(<<l>>) = h
    BY <1>0, <1>2, <2>1
  <2>4. c[h] = l
    <3>1. h \in 1 .. h /\ ~ (h <= Len(a)) /\ h - Len(a) = 1
      BY <1>0, <1>2
    <3> QED BY <3>1, <2>1, <2>2, <2>3
  <2>5. \A i \in 1 .. h - 1 : c[i] = t[i]
    <3>1. \A i \in 1 .. h - 1 : i \in 1 .. h /\ i <= Len(a)
      BY <1>0, <1>2
    <3> QED BY <3>1, <1>2, <2>2, <2>3
  <2> QED BY <2>2, <2>3, <2>4, <2>5
<1> HIDE DEF c
<1>5. u \in Seq(All) /\ Len(u) = n + 1 /\ u[h] = l
      /\ \A i \in 1 .. n : t[i] = IF i < h THEN u[i] ELSE u[i + 1]
  <2>1. c \o b \in Seq(All) /\ Len(c \o b) = Len(c) + Len(b)
        /\ \A i \in 1 .. Len(c) + Len(b) : (c \o b)[i] = IF i <= Len(c) THEN c[i] ELSE b[i - Len(c)]
    BY <1>3, <1>4, ConcatProperties
  <2>2. Len(c) + Len(b) = n + 1
    BY <1>0, <1>3, <1>4
  <2>3. ASSUME NEW i \in 1 .. n PROVE t[i] = IF i < h THEN u[i] ELSE u[i + 1]
    <3>1. CASE i < h
      <4>1. i \in 1 .. n + 1 /\ i <= Len(c) /\ i \in 1 .. h - 1
        BY <3>1, <1>0, <1>4
      <4> QED BY <4>1, <3>1, <2>1, <2>2, <1>1, <1>4
    <3>2. CASE i >= h
      <4>1. i + 1 \in 1 .. n + 1 /\ ~ (i + 1 <= Len(c)) /\ (i + 1) - Len(c) \in 1 .. n - h + 1
            /\ h + ((i + 1) - Len(c)) - 1 = i /\ ~ (i < h)
        BY <3>2, <1>0, <1>4
      <4>2. b[(i + 1) - Len(c)] = t[i]
        BY <4>1, <1>3
      <4> QED BY <4>1, <4>2, <2>1, <2>2, <1>1
    <3> QED BY <3>1, <3>2, <1>0
  <2>4. u[h] = l
    <3>1. h \in 1 .. n + 1 /\ h <= Len(c)
      BY <1>0, <1>4
    <3> QED BY <3>1, <2>1, <2>2, <1>1, <1>4
  <2> QED BY <2>1, <2>2, <2>3, <2>4, <1>1
<1>6. Without(u, t, h)
  <2>1. n = n + 1 - 1 /\ h \in 1 .. n + 1 /\ n + 1 \in Nat
    BY <1>0
  <2> QED BY <2>1, <1>0, <1>5 DEF Without
<1>7. Stack(u)
  <2>1. Len(u) >= 2 /\ u[1] = Desktop /\ u[Len(u)] = Mouse
    <3>1. 1 \in 1 .. n /\ n \in 1 .. n /\ 1 < h /\ ~ (n < h) /\ n + 1 >= 2
      BY <1>0
    <3> QED BY <3>1, <1>0, <1>5
  <2>2. \A i, j \in 1 .. n + 1 : u[i] = u[j] => i = j
    <3>1. ASSUME NEW i \in 1 .. n + 1, i # h
          PROVE  \E x \in 1 .. n : i = (IF x < h THEN x ELSE x + 1) /\ u[i] = t[x]
      <4>1. CASE i < h
        <5>1. i \in 1 .. n
          BY <4>1, <1>0
        <5> QED BY <5>1, <4>1, <1>5
      <4>2. CASE i > h
        <5>1. i - 1 \in 1 .. n /\ ~ (i - 1 < h) /\ (i - 1) + 1 = i
          BY <4>2, <1>0
        <5> QED BY <5>1, <1>5
      <4> QED BY <4>1, <4>2, <3>1, <1>0
    <3> SUFFICES ASSUME NEW i \in 1 .. n + 1, NEW j \in 1 .. n + 1, u[i] = u[j] PROVE i = j
      OBVIOUS
    <3>2. i = h <=> u[i] = l
      BY <3>1, <1>0, <1>5
    <3>3. j = h <=> u[j] = l
      BY <3>1, <1>0, <1>5
    <3>4. CASE i = h
      BY <3>4, <3>2, <3>3
    <3>5. CASE i # h /\ j # h
      <4>1. PICK x \in 1 .. n : i = (IF x < h THEN x ELSE x + 1) /\ u[i] = t[x]
        BY <3>1, <3>5
      <4>2. PICK y \in 1 .. n : j = (IF y < h THEN y ELSE y + 1) /\ u[j] = t[y]
        BY <3>1, <3>5
      <4>3. x = y
        BY <4>1, <4>2, <1>0
      <4> QED BY <4>1, <4>2, <4>3
    <3> QED BY <3>2, <3>3, <3>4, <3>5
  <2> QED BY <2>1, <2>2, <1>5 DEF Stack
<1> QED BY <1>5, <1>6, <1>7 DEF u

-----------------------------------------------------------------------------
(* The invariant. *)

\* The active layer, if there is one, is in the stack.
Active(a, s) == a \in Draggable \cup {NoLayer} /\ (a # NoLayer => a \in Range(s))

ScreenInv ==
  /\ Scene(layer_stack, pixels, layer_pos)
  /\ DOMAIN pixels = All /\ DOMAIN layer_pos = All
  /\ Active(active_layer, layer_stack)
  /\ \A p \in W \ dirty : Right(Picture0, layer_stack, pixels, layer_pos, p)

\* The greatest height that is selected.
LEMMA LastSelected ==
  ASSUME NEW s, Len(s) \in Nat, NEW S \in SUBSET (1 .. Len(s)), NEW i \in S, \A j \in i + 1 .. Len(s) : j \notin S
  PROVE  S # {} /\ Max(S) = i
<1>1. \A y \in S : y <= i
  <2> SUFFICES ASSUME NEW y \in S, ~ (y <= i) PROVE FALSE
    OBVIOUS
  <2>1. y \in 1 .. Len(s) /\ i \in 1 .. Len(s)
    OBVIOUS
  <2>2. y \in i + 1 .. Len(s)
    BY <2>1
  <2> QED BY <2>2
<1> QED BY <1>1, MaxIs

\* What the invariant says is what the property says.
LEMMA SeenIsComposed ==
  ASSUME ScreenInv, NEW p \in W \ dirty
  PROVE  LET clicked == FindLayerByPosition(p, Mouse) IN
         /\ frame_buffer[p] = Composed(p)
         /\ frame_buffer[p] \in {Mouse, pixels[clicked][Minus(p, layer_pos[clicked])]}
<1>1. PICK s, im, at : s = layer_stack /\ im = pixels /\ at = layer_pos
  OBVIOUS
<1>2. Scene(s, im, at) /\ Len(s) \in Nat
  BY <1>1 DEF ScreenInv, Scene, Stack
<1>3. Seen(s, im, at, p, back_buffer[p]) /\ frame_buffer[p] = back_buffer[p]
  BY <1>1 DEF ScreenInv, Right, Picture0
<1>4. PICK i \in 1 .. Len(s) : /\ ShowsAt(s, im, at, i, p) /\ frame_buffer[p] = Pixel(s, im, at, i, p)
                               /\ \A j \in i + 1 .. Len(s) : ~ShowsAt(s, im, at, j, p)
  BY <1>3 DEF Seen
<1>5. \A j \in 1 .. Len(s) : s[j] \in All /\ at[s[j]] \in Place /\ Image(s[j], im[s[j]])
  <2>1. \A j \in 1 .. Len(s) : s[j] \in All
    BY <1>2, ElementOfSeq DEF Scene, Stack
  <2> QED BY <2>1, <1>2 DEF Scene, Images, Places
<1>6. \A j \in 1 .. Len(s) : p \in Points(AreaOf(s[j])) <=> In(p, Rectangle(at[s[j]], SizeOf(s[j])))
  <2> SUFFICES ASSUME NEW j \in 1 .. Len(s)
               PROVE  p \in Points(AreaOf(s[j])) <=> In(p, Rectangle(at[s[j]], SizeOf(s[j])))
    OBVIOUS
  <2>1. at[s[j]] \in Place /\ SizeOf(s[j]) \in Size /\ p \in Place
    BY <1>5, SizeIs, WholeIs
  <2>2. Rectangle(at[s[j]], SizeOf(s[j])) \in Rect
    BY <2>1, RectangleIs
  <2> QED BY <2>1, <2>2, <1>1, PointsIn DEF AreaOf
<1>7. \A j \in 1 .. Len(s) : Covers(s[j], p) <=> ShowsAt(s, im, at, j, p)
  BY <1>1, <1>6 DEF Covers, ShowsAt, CoversAt
<1>8. frame_buffer[p] = Composed(p)
  <2> DEFINE S == {j \in 1 .. Len(s) : Covers(s[j], p)}
  <2>1. S \in SUBSET (1 .. Len(s)) /\ i \in S /\ \A j \in i + 1 .. Len(s) : j \notin S
    BY <1>4, <1>7
  <2>2. SelectLastInSeq(s, LAMBDA l : Covers(l, p)) = IF S # {} THEN Max(S) ELSE 0
    BY DEF SelectLastInSeq
  <2> HIDE DEF S
  <2>3. SelectLastInSeq(s, LAMBDA l : Covers(l, p)) = i
    BY <2>1, <2>2, <1>2, LastSelected
  <2> QED BY <2>3, <1>1, <1>4 DEF Composed, Pixel
<1>9. frame_buffer[p] \in {Mouse, pixels[FindLayerByPosition(p, Mouse)][Minus(p, layer_pos[FindLayerByPosition(p, Mouse)])]}
  <2>1. CASE s[i] = Mouse
    <3>1. Mouse \in All /\ im[Mouse] = MouseImage /\ at[Mouse] \in Place
      BY <2>1, <1>5 DEF Image
    <3>2. Minus(p, at[Mouse]) \in Points(Rectangle(<<0, 0>>, SizeOf(Mouse)))
      BY <3>1, <2>1, <1>4, OwnPlaces DEF ShowsAt, CoversAt
    <3>3. MouseImage[Minus(p, at[Mouse])] \in {Mouse, Clear}
      BY <3>2 DEF MouseImage
    <3>4. frame_buffer[p] = Mouse
      BY <3>1, <3>3, <2>1, <1>4 DEF ShowsAt, CoversAt, Pixel
    <3> QED BY <3>4
  <2>2. CASE s[i] # Mouse
    <3> DEFINE S == {j \in 1 .. Len(s) : s[j] # Mouse /\ p \in Points(AreaOf(s[j]))}
    <3>1. \A j \in 1 .. Len(s) : s[j] # Mouse => (p \in Points(AreaOf(s[j])) <=> ShowsAt(s, im, at, j, p))
      <4> SUFFICES ASSUME NEW j \in 1 .. Len(s), s[j] # Mouse
                   PROVE  p \in Points(AreaOf(s[j])) <=> ShowsAt(s, im, at, j, p)
        OBVIOUS
      <4>1. CoversAt(s[j], im[s[j]], at[s[j]], p) <=> In(p, Rectangle(at[s[j]], SizeOf(s[j])))
        BY <1>5, WindowCovers
      <4> QED BY <4>1, <1>6 DEF ShowsAt
    <3>2. S \in SUBSET (1 .. Len(s)) /\ i \in S
      BY <3>1, <2>2, <1>4
    <3>3. \A j \in i + 1 .. Len(s) : j \notin S
      BY <3>1, <1>4
    <3>4. SelectLastInSeq(s, LAMBDA l : l # Mouse /\ p \in Points(AreaOf(l))) = IF S # {} THEN Max(S) ELSE 0
      BY DEF SelectLastInSeq
    <3> HIDE DEF S
    <3>5. SelectLastInSeq(s, LAMBDA l : l # Mouse /\ p \in Points(AreaOf(l))) = i
      BY <3>2, <3>3, <3>4, <1>2, LastSelected
    <3>6. FindLayerByPosition(p, Mouse) = s[i]
      BY <3>5, <1>1 DEF FindLayerByPosition
    <3> QED BY <3>6, <1>1, <1>4 DEF Pixel
  <2> QED BY <2>1, <2>2
<1> QED BY <1>8, <1>9

-----------------------------------------------------------------------------
(* The steps. *)

\* DrawArea draws from the lowest layer.
LEMMA AllAreDrawn ==
  ASSUME NEW pic, NEW s, Stack(s), NEW images, NEW pos, NEW area
  PROVE  1 \in 1 .. Len(s) /\ DrawArea(pic, s, images, pos, area) = DrawsFrom(pic, s, images, pos, 1, area)
<1>1. s \in Seq(All) /\ Len(s) \in Nat /\ Len(s) >= 2
  BY DEF Stack
<1>2. SubSeq(s, 1, Len(s)) = s
  BY <1>1, SubSeqFull
<1>3. DrawsFrom(pic, s, images, pos, 1, area) = DrawLayers(pic, s, images, pos, area)
  BY <1>2, Zenon DEF DrawsFrom
<1>4. 1 \in 1 .. Len(s)
  BY <1>1
<1> QED BY <1>3, <1>4 DEF DrawArea

\* DrawFrom draws from the layer's height.
LEMMA UpperAreDrawn ==
  ASSUME NEW pic, NEW s, Stack(s), NEW k \in 1 .. Len(s), NEW images, NEW pos, NEW area
  PROVE  DrawFrom(pic, s, images, pos, s[k], area) = DrawsFrom(pic, s, images, pos, k, area)
  BY FromIs DEF DrawFrom, DrawsFrom

\* Layer l may have changed, but not what shows of it at p.
Alike(l, im, at, im2, at2, p) ==
  /\ \A m \in All \ {l} : im2[m] = im[m] /\ at2[m] = at[m]
  /\ CoversAt(l, im2[l], at2[l], p) <=> CoversAt(l, im[l], at[l], p)
  /\ CoversAt(l, im[l], at[l], p) => im2[l][Minus(p, at2[l])] = im[l][Minus(p, at[l])]

\* A place where the layer shows the same as before stays right.
LEMMA RightAlike ==
  ASSUME NEW pic, NEW s, NEW im, NEW at, NEW im2, NEW at2, Scene(s, im, at), NEW l, NEW p,
         Alike(l, im, at, im2, at2, p), Right(pic, s, im, at, p)
  PROVE  Right(pic, s, im2, at2, p)
<1>1. Len(s) \in Nat /\ \A i \in 1 .. Len(s) : s[i] \in All
  <2>1. s \in Seq(All)
    BY DEF Scene, Stack
  <2> QED BY <2>1, ElementOfSeq
<1>2. \A i \in 1 .. Len(s) : /\ ShowsAt(s, im2, at2, i, p) <=> ShowsAt(s, im, at, i, p)
                             /\ ShowsAt(s, im, at, i, p) => Pixel(s, im2, at2, i, p) = Pixel(s, im, at, i, p)
  <2> SUFFICES ASSUME NEW i \in 1 .. Len(s)
               PROVE  /\ ShowsAt(s, im2, at2, i, p) <=> ShowsAt(s, im, at, i, p)
                      /\ ShowsAt(s, im, at, i, p) => Pixel(s, im2, at2, i, p) = Pixel(s, im, at, i, p)
    OBVIOUS
  <2>1. CASE s[i] = l
    BY <2>1 DEF Alike, ShowsAt, Pixel
  <2>2. CASE s[i] # l
    BY <2>2, <1>1 DEF Alike, ShowsAt, Pixel
  <2> QED BY <2>1, <2>2
<1>3. PICK v : v = pic.back[p]
  OBVIOUS
<1>4. Seen(s, im, at, p, v)
  BY <1>3 DEF Right
<1>5. Seen(s, im2, at2, p, v)
  BY <1>1, <1>2, <1>4, SeenAlike
<1> QED BY <1>3, <1>5 DEF Right

\* The buffers after a step.
LEMMA RightAfter ==
  ASSUME NEW r, NEW s, NEW im, NEW at, NEW p, SetPicture(r), Right(r, s, im, at, p)
  PROVE  Right(Picture0', s, im, at, p)
  BY DEF SetPicture, Right, Picture0

\* A window shows where it is, and there the screen is right when it and all above it are drawn.
LEMMA WindowDrawn ==
  ASSUME NEW pic, NEW s, NEW im, NEW at, Scene(s, im, at), NEW k \in 1 .. Len(s), s[k] # Mouse,
         NEW area \in Rect, NEW p \in W,
         In(p, area) => In(p, Rectangle(at[s[k]], SizeOf(s[k]))), ~In(p, area) => Right(pic, s, im, at, p)
  PROVE  Right(DrawFrom(pic, s, im, at, s[k], area), s, im, at, p)
<1>1. Stack(s) /\ Len(s) \in Nat /\ s[k] \in All /\ Images(im) /\ Places(at)
  BY ElementOfSeq DEF Scene, Stack
<1>2. DrawFrom(pic, s, im, at, s[k], area) = DrawsFrom(pic, s, im, at, k, area)
  BY <1>1, UpperAreDrawn
<1>3. CASE In(p, area)
  <2>1. PICK l \in All, place \in Place : l = s[k] /\ place = at[l] /\ l # Mouse
    BY <1>1 DEF Places
  <2>4. PICK image : image = im[l] /\ Image(l, image)
    BY <1>1 DEF Images
  <2>2. CoversAt(l, image, place, p)
    BY <2>1, <2>4, <1>3, WindowCovers
  <2>3. ShowsAt(s, im, at, k, p) /\ k \in k .. Len(s)
    BY <2>1, <2>2, <2>4, <1>1 DEF ShowsAt
  <2> QED BY <2>3, <1>2, <1>3, DrawMakes
<1>4. CASE ~In(p, area)
  BY <1>4, <1>2, DrawKeeps
<1> QED BY <1>3, <1>4

\* The whole stack is drawn: the desktop is everywhere.
LEMMA AreaDrawn ==
  ASSUME NEW pic, NEW s, NEW im, NEW at, Scene(s, im, at), NEW area \in Rect, NEW p \in W,
         ~In(p, area) => Right(pic, s, im, at, p)
  PROVE  Right(DrawArea(pic, s, im, at, area), s, im, at, p)
<1>1. Stack(s) /\ Len(s) \in Nat /\ Len(s) >= 2
  BY DEF Scene, Stack
<1>2. 1 \in 1 .. Len(s) /\ DrawArea(pic, s, im, at, area) = DrawsFrom(pic, s, im, at, 1, area)
  BY <1>1, AllAreDrawn
<1>3. ShowsAt(s, im, at, 1, p)
  BY DesktopCovers
<1>4. CASE In(p, area)
  BY <1>2, <1>3, <1>4, DrawMakes
<1>5. CASE ~In(p, area)
  BY <1>2, <1>5, DrawKeeps
<1> QED BY <1>4, <1>5

\* A blank window is a window's image.
LEMMA BlankedIs ==
  ASSUME NEW l \in All, l # Mouse, NEW c, c # Clear
  PROVE  Image(l, Blanked(l, c))
  BY DEF Image, Blanked

\* The invariant holds at first.
LEMMA ScreenStarts ==
  ASSUME ScreenInit
  PROVE  ScreenInv
<1>1. PICK s, im, at : s = layer_stack /\ im = pixels /\ at = layer_pos
  OBVIOUS
<1>2. Desktop # Mouse /\ Desktop # Clear /\ Mouse # Clear /\ MainWindow \in Windows /\ MainWindow # Desktop /\ MainWindow # Mouse
  BY ScreenAssumption DEF Desktop, Mouse, Clear
<1>3. /\ DOMAIN im = All /\ DOMAIN at = All
      /\ \A l \in All : /\ at[l] = <<0, 0>>
                        /\ im[l] = IF l = Mouse THEN MouseImage ELSE IF l = Desktop THEN DrawDesktop ELSE Blanked(l, l)
  BY <1>1 DEF ScreenInit, All
<1>4. Images(im)
  <2> SUFFICES ASSUME NEW l \in All PROVE Image(l, im[l])
    BY DEF Images
  <2>1. CASE l = Mouse
    BY <2>1, <1>3 DEF Image, MouseImage
  <2>2. CASE l = Desktop
    BY <2>2, <1>2, <1>3, BlankedIs DEF DrawDesktop
  <2>3. CASE l # Mouse /\ l # Desktop
    <3>1. l # Clear
      BY <2>3, ScreenAssumption DEF All
    <3> QED BY <2>3, <3>1, <1>3, BlankedIs
  <2> QED BY <2>1, <2>2, <2>3
<1>5. Places(at)
  <2>1. Desktop \in All /\ <<0, 0>> \in Place
    BY DEF All, Place
  <2> QED BY <2>1, <1>3 DEF Places
<1>6. s = <<Desktop, MainWindow, Mouse>> /\ Len(s) = 3 /\ s[1] = Desktop /\ s[2] = MainWindow /\ s[3] = Mouse
  BY <1>1 DEF ScreenInit
<1>7. Stack(s)
  <2>1. s \in Seq(All)
    BY <1>2, <1>6 DEF All
  <2>2. \A i, j \in 1 .. 3 : s[i] = s[j] => i = j
    <3>1. \A i \in 1 .. 3 : i = 1 \/ i = 2 \/ i = 3
      OBVIOUS
    <3> QED BY <3>1, <1>2, <1>6
  <2> QED BY <2>1, <2>2, <1>6 DEF Stack
<1>8. Scene(s, im, at)
  BY <1>4, <1>5, <1>7 DEF Scene
<1>9. Active(active_layer, s)
  BY DEF ScreenInit, Active
<1>10. ASSUME NEW p \in W PROVE Right(Picture0, s, im, at, p)
  <2>1. PICK pic : pic = [back |-> Blanked(Desktop, Clear), front |-> Blanked(Desktop, Clear)]
    OBVIOUS
  <2>2. PICK r : r = DrawArea(pic, s, im, at, Whole)
    OBVIOUS
  <2>3. Whole \in Rect /\ In(p, Whole)
    BY WholeIs
  <2>4. Right(r, s, im, at, p)
    BY <2>2, <2>3, <1>8, AreaDrawn
  <2>5. back_buffer = r.back /\ frame_buffer = back_buffer
    BY <2>1, <2>2, <1>1 DEF ScreenInit
  <2> QED BY <2>4, <2>5 DEF Right, Picture0
<1> QED BY <1>1, <1>3, <1>8, <1>9, <1>10 DEF ScreenInv

\* The area of a layer, at its position and of its size.
LEMMA AreaIs ==
  ASSUME ScreenInv, NEW l \in All
  PROVE  /\ layer_pos[l] \in Place /\ SizeOf(l) \in Size
         /\ AreaOf(l) = Rectangle(layer_pos[l], SizeOf(l)) /\ AreaOf(l) \in Rect
         /\ \A p \in W : p \in Points(AreaOf(l)) <=> In(p, AreaOf(l))
<1>1. layer_pos[l] \in Place /\ SizeOf(l) \in Size
  BY SizeIs DEF ScreenInv, Scene, Places
<1>2. AreaOf(l) \in Rect
  BY <1>1, RectangleIs DEF AreaOf
<1>3. W \subseteq Place
  BY WholeIs
<1> QED BY <1>1, <1>2, <1>3, PointsIn DEF AreaOf

\* A window is written to: where nothing is written nothing changes.
WrittenWell(im, at, l, part, im2) ==
  /\ DOMAIN im2 = All /\ Images(im2)
  /\ \A p \in W : p \notin {Shift(q, at[l]) : q \in part} => Alike(l, im, at, im2, at, p)

\* What is written in a window changes only the written part of the screen.
LEMMA WrittenIs ==
  ASSUME NEW im, DOMAIN im = All, NEW at, NEW l \in Windows, NEW c, c # Clear, NEW part,
         Images(im), Places(at), NEW im2,
         im2 = [im EXCEPT ![l] = [p \in DOMAIN @ |-> IF p \in part THEN c ELSE @[p]]]
  PROVE  WrittenWell(im, at, l, part, im2)
<1>1. l \in All /\ l # Mouse
  BY ScreenAssumption DEF All
<1>2. /\ DOMAIN im2 = All /\ \A m \in All \ {l} : im2[m] = im[m]
      /\ im2[l] = [p \in DOMAIN im[l] |-> IF p \in part THEN c ELSE im[l][p]]
  BY <1>1
<1>3. Image(l, im2[l])
  BY <1>1, <1>2 DEF Images, Image
<1>4. Images(im2)
  BY <1>2, <1>3 DEF Images
<1>5. ASSUME NEW p \in W, p \notin {Shift(q, at[l]) : q \in part} PROVE Alike(l, im, at, im2, at, p)
  <2>1. PICK place \in Place : place = at[l] /\ p \in Place
    BY <1>1, WholeIs DEF Places
  <2>2. PICK q : q = Minus(p, place)
    OBVIOUS
  <2>3. q \in Place /\ Shift(q, place) = p
    BY <2>1, <2>2, Differences
  <2>4. q \notin part
    BY <2>1, <2>3, <1>5
  <2>5. In(p, Rectangle(place, SizeOf(l))) => q \in DOMAIN im[l]
    BY <1>1, <2>2, OwnPlaces DEF Images, Image
  <2>6. In(p, Rectangle(place, SizeOf(l))) => im2[l][q] = im[l][q]
    BY <2>4, <2>5, <1>2
  <2> QED BY <2>1, <2>2, <2>6, <1>2 DEF Alike, CoversAt
<1> QED BY <1>2, <1>4, <1>5 DEF WrittenWell

\* An application that writes in its window keeps the invariant.
LEMMA DoWinFuncStep ==
  ASSUME ScreenInv, DoWinFunc
  PROVE  ScreenInv'
<1>1. PICK l \in DrawnIn, c \in Colors : \E part \in {DOMAIN pixels[l]} \union {{p} : p \in DOMAIN pixels[l]} :
        /\ InStack(l)
        /\ pixels' = WriteWindow(l, part, c)
        /\ \/ /\ dirty' = dirty \union ({Shift(p, layer_pos[l]) : p \in part} \intersect Points(Whole))
              /\ UNCHANGED <<back_buffer, frame_buffer>>
           \/ /\ SetPicture(DrawFrom(Picture0, layer_stack, pixels', layer_pos, l, AreaOf(l)))
              /\ dirty' = dirty \ Points(AreaOf(l))
        /\ UNCHANGED <<layer_pos, layer_stack, active_layer>>
  BY DEF DoWinFunc
<1>2. PICK part : /\ part \in SUBSET DOMAIN pixels[l] /\ InStack(l)
                  /\ pixels' = WriteWindow(l, part, c)
                  /\ \/ /\ dirty' = dirty \union ({Shift(p, layer_pos[l]) : p \in part} \intersect W)
                        /\ UNCHANGED <<back_buffer, frame_buffer>>
                     \/ /\ SetPicture(DrawFrom(Picture0, layer_stack, pixels', layer_pos, l, AreaOf(l)))
                        /\ dirty' = dirty \ Points(AreaOf(l))
                  /\ UNCHANGED <<layer_pos, layer_stack, active_layer>>
  BY <1>1 DEF W
<1>3. PICK s, im, at, im2 : s = layer_stack /\ im = pixels /\ at = layer_pos /\ im2 = pixels'
  OBVIOUS
<1>4. Stack(s) /\ Images(im) /\ Places(at) /\ Scene(s, im, at) /\ DOMAIN im = All
      /\ l \in Windows /\ l \in All /\ l # Mouse /\ c # Clear
  BY <1>3, ScreenAssumption DEF ScreenInv, Scene, All
<1>5. im2 = [im EXCEPT ![l] = [p \in DOMAIN @ |-> IF p \in part THEN c ELSE @[p]]]
  BY <1>2, <1>3 DEF WriteWindow
<1>6. /\ DOMAIN im2 = All /\ Images(im2)
      /\ \A p \in W : p \notin {Shift(q, at[l]) : q \in part} => Alike(l, im, at, im2, at, p)
  <2>1. WrittenWell(im, at, l, part, im2)
    BY <1>4, <1>5, WrittenIs
  <2> QED BY <2>1 DEF WrittenWell
<1>7. Scene(s, im2, at)
  BY <1>4, <1>6 DEF Scene
<1>8. \A p \in W \ dirty : Right(Picture0, s, im, at, p)
  BY <1>3 DEF ScreenInv
<1>9. PICK k \in 1 .. Len(s) : s[k] = l
  BY <1>2, <1>3, <1>4, StackHeight DEF InStack
<1>10. ASSUME NEW p \in W, p \notin dirty, p \notin {Shift(q, at[l]) : q \in part}
       PROVE  Right(Picture0, s, im2, at, p)
  <2>1. PICK pic : pic = Picture0
    OBVIOUS
  <2>2. Right(pic, s, im, at, p) /\ Alike(l, im, at, im2, at, p)
    BY <2>1, <1>6, <1>8, <1>10
  <2>3. Right(pic, s, im2, at, p)
    BY <2>2, <1>4, RightAlike
  <2> QED BY <2>1, <2>3
<1>11. ASSUME NEW p \in W, p \notin dirty' PROVE Right(Picture0', s, im2, at, p)
  <2>1. CASE /\ dirty' = dirty \union ({Shift(q, layer_pos[l]) : q \in part} \intersect W)
             /\ UNCHANGED <<back_buffer, frame_buffer>>
    <3>1. p \notin dirty /\ p \notin {Shift(q, at[l]) : q \in part}
      BY <2>1, <1>3, <1>11
    <3>2. Picture0' = Picture0
      BY <2>1 DEF Picture0
    <3> QED BY <3>1, <3>2, <1>10
  <2>2. CASE /\ SetPicture(DrawFrom(Picture0, layer_stack, pixels', layer_pos, l, AreaOf(l)))
             /\ dirty' = dirty \ Points(AreaOf(l))
    <3>1. PICK area \in Rect : area = AreaOf(l) /\ area = Rectangle(at[l], SizeOf(l)) /\ (p \in Points(area) <=> In(p, area))
      BY <1>3, <1>4, AreaIs
    <3>2. ASSUME ~In(p, area) PROVE p \notin dirty /\ p \notin {Shift(q, at[l]) : q \in part}
      <4>1. p \notin dirty
        BY <2>2, <3>1, <3>2, <1>11
      <4>2. ASSUME NEW q \in part, p = Shift(q, at[l]) PROVE FALSE
        <5>1. PICK place \in Place, size \in Size : place = at[l] /\ size = SizeOf(l)
          BY <1>4, SizeIs DEF Places
        <5>2. q \in Points(Rectangle(<<0, 0>>, size))
          BY <1>2, <1>3, <1>4, <5>1 DEF Images, Image
        <5>3. <<0, 0>> \in Place
          BY DEF Place
        <5>4. Rectangle(<<0, 0>>, size) \in Rect
          BY <5>3, RectangleIs
        <5>5. q \in Place /\ In(q, Rectangle(<<0, 0>>, size))
          BY <5>2, <5>4, PointsIn
        <5>6. q[1] \in Int /\ q[2] \in Int /\ place[1] \in Int /\ place[2] \in Int /\ size[1] \in Nat /\ size[2] \in Nat
          BY <5>1, <5>5 DEF Place, Size
        <5>7. p[1] = q[1] + place[1] /\ p[2] = q[2] + place[2]
          BY <4>2, <5>1, <5>5, Differences
        <5>8. 0 <= q[1] /\ q[1] < 0 + size[1] /\ 0 <= q[2] /\ q[2] < 0 + size[2]
          BY <5>3, <5>5, RectangleIs DEF In
        <5>9. In(p, Rectangle(place, size))
          <6>1. /\ Rectangle(place, size).x = place[1] /\ Rectangle(place, size).y = place[2]
                /\ Rectangle(place, size).w = size[1] /\ Rectangle(place, size).h = size[2]
            BY RectangleIs
          <6>2. place[1] <= p[1] /\ p[1] < place[1] + size[1] /\ place[2] <= p[2] /\ p[2] < place[2] + size[2]
            BY <5>6, <5>7, <5>8
          <6> QED BY <6>1, <6>2 DEF In
        <5> QED BY <5>1, <5>9, <3>1, <3>2
      <4> QED BY <4>1, <4>2
    <3>3. PICK pic, r : pic = Picture0 /\ r = DrawFrom(pic, s, im2, at, s[k], area)
      OBVIOUS
    <3>4. ~In(p, area) => Right(pic, s, im2, at, p)
      BY <3>2, <3>3, <1>10
    <3>5. In(p, area) => In(p, Rectangle(at[s[k]], SizeOf(s[k])))
      BY <3>1, <1>9
    <3>6. Right(r, s, im2, at, p)
      BY <3>3, <3>4, <3>5, <1>4, <1>7, <1>9, WindowDrawn
    <3>7. SetPicture(r)
      BY <2>2, <3>1, <3>3, <1>3, <1>9
    <3> QED BY <3>6, <3>7, RightAfter
  <2> QED BY <2>1, <2>2, <1>2
<1>12. layer_stack' = s /\ layer_pos' = at /\ pixels' = im2 /\ Active(active_layer', s) /\ DOMAIN at = All
  BY <1>2, <1>3 DEF ScreenInv
<1> QED BY <1>6, <1>7, <1>11, <1>12 DEF ScreenInv

\* A window that is drawn keeps it.
LEMMA DrawWindowStep ==
  ASSUME ScreenInv, DrawWindow
  PROVE  ScreenInv'
<1>1. PICK l \in Windows, part \in {<<0, 1, 1, 1>>, <<0, 0, -1, -1>>} : \E area :
        /\ area = IF part[3] < 0 /\ part[4] < 0 THEN AreaOf(l)
                  ELSE Intersection(AreaOf(l), Rectangle(Shift(<<part[1], part[2]>>, layer_pos[l]), <<part[3], part[4]>>))
        /\ InStack(l)
        /\ SetPicture(DrawFrom(Picture0, layer_stack, pixels, layer_pos, l, area))
        /\ dirty' = dirty \ Points(area)
        /\ UNCHANGED <<pixels, layer_pos, layer_stack, active_layer>>
  BY DEF DrawWindow
<1>8. PICK area :
        /\ area = IF part[3] < 0 /\ part[4] < 0 THEN AreaOf(l)
                  ELSE Intersection(AreaOf(l), Rectangle(Shift(<<part[1], part[2]>>, layer_pos[l]), <<part[3], part[4]>>))
        /\ InStack(l)
        /\ SetPicture(DrawFrom(Picture0, layer_stack, pixels, layer_pos, l, area))
        /\ dirty' = dirty \ Points(area)
        /\ UNCHANGED <<pixels, layer_pos, layer_stack, active_layer>>
  BY <1>1
<1>2. PICK s, im, at : s = layer_stack /\ im = pixels /\ at = layer_pos
  OBVIOUS
<1>3. Stack(s) /\ Scene(s, im, at) /\ l \in All /\ l # Mouse
  BY <1>2, ScreenAssumption DEF ScreenInv, Scene, All
<1>4. PICK k \in 1 .. Len(s) : s[k] = l
  BY <1>8, <1>2, <1>3, StackHeight DEF InStack
<1>5. AreaOf(l) \in Rect /\ at[l] \in Place /\ AreaOf(l) = Rectangle(at[l], SizeOf(l))
  BY <1>2, <1>3, AreaIs
<1>6. area \in Rect /\ \A p \in W : In(p, area) => In(p, AreaOf(l))
  <2>1. CASE part[3] < 0 /\ part[4] < 0
    BY <2>1, <1>8, <1>5
  <2>2. CASE ~(part[3] < 0 /\ part[4] < 0)
    <3>1. part = <<0, 1, 1, 1>>
      BY <2>2
    <3>2. <<0, 1>> \in Place /\ <<1, 1>> \in Size
      BY DEF Place, Size
    <3>3. PICK from \in Place, size \in Size : from = Shift(<<0, 1>>, at[l]) /\ size = <<1, 1>>
      BY <3>2, <1>5, Differences
    <3>4. Rectangle(from, size) \in Rect
      BY RectangleIs
    <3>5. area = Intersection(AreaOf(l), Rectangle(from, size))
      BY <3>1, <3>3, <2>2, <1>8, <1>2
    <3>6. W \subseteq Place
      BY WholeIs
    <3> QED BY <3>4, <3>5, <3>6, <1>5, IntersectionIs
  <2> QED BY <2>1, <2>2
<1>7. ASSUME NEW p \in W, p \notin dirty' PROVE Right(Picture0', s, im, at, p)
  <2>1. PICK pic, r : pic = Picture0 /\ r = DrawFrom(pic, s, im, at, s[k], area)
    OBVIOUS
  <2>2. p \in Points(area) <=> In(p, area)
    BY <1>6, PointsIn, WholeIs
  <2>3. ~In(p, area) => Right(pic, s, im, at, p)
    BY <2>1, <2>2, <1>8, <1>2, <1>7 DEF ScreenInv
  <2>4. Right(r, s, im, at, p)
    BY <2>1, <2>3, <1>3, <1>4, <1>5, <1>6, WindowDrawn
  <2>5. SetPicture(r)
    BY <2>1, <1>8, <1>2, <1>4
  <2> QED BY <2>4, <2>5, RightAfter
<1> QED BY <1>8, <1>2, <1>7 DEF ScreenInv

\* A window that is moved keeps it.
LEMMA MoveLayerStep ==
  ASSUME ScreenInv, MoveLayer
  PROVE  ScreenInv'
<1>1. PICK l \in Draggable \union {Mouse} : \E to \in Positions[l] :
        LET pos == [layer_pos EXCEPT ![l] = to]
            left == DrawArea(Picture0, layer_stack, pixels, pos, AreaOf(l))
            now == Rectangle(to, SizeOf(l))
        IN  /\ InStack(l)
            /\ layer_pos' = pos
            /\ SetPicture(DrawFrom(left, layer_stack, pixels, pos, l, now))
            /\ dirty' = (dirty \ Points(AreaOf(l))) \ (IF l = Mouse THEN {} ELSE Points(now))
            /\ UNCHANGED <<pixels, layer_stack, active_layer>>
  BY DEF MoveLayer
<1>14. PICK to \in Positions[l] :
        LET pos == [layer_pos EXCEPT ![l] = to]
            left == DrawArea(Picture0, layer_stack, pixels, pos, AreaOf(l))
            now == Rectangle(to, SizeOf(l))
        IN  /\ InStack(l)
            /\ layer_pos' = pos
            /\ SetPicture(DrawFrom(left, layer_stack, pixels, pos, l, now))
            /\ dirty' = (dirty \ Points(AreaOf(l))) \ (IF l = Mouse THEN {} ELSE Points(now))
            /\ UNCHANGED <<pixels, layer_stack, active_layer>>
  BY <1>1
<1>2. PICK s, im, at, at2 : s = layer_stack /\ im = pixels /\ at = layer_pos /\ at2 = [at EXCEPT ![l] = to]
  OBVIOUS
<1>3. PICK pic, left, r, now :
        /\ pic = Picture0 /\ left = DrawArea(pic, s, im, at2, AreaOf(l)) /\ now = Rectangle(to, SizeOf(l))
        /\ r = DrawFrom(left, s, im, at2, l, now)
  OBVIOUS
<1>4. /\ InStack(l) /\ layer_pos' = at2 /\ SetPicture(r)
      /\ dirty' = (dirty \ Points(AreaOf(l))) \ (IF l = Mouse THEN {} ELSE Points(now))
      /\ pixels' = im /\ layer_stack' = s /\ active_layer' = active_layer
  BY <1>14, <1>2, <1>3
<1>5. /\ Stack(s) /\ Images(im) /\ Places(at) /\ Scene(s, im, at) /\ DOMAIN at = All /\ DOMAIN im = All
      /\ l \in All /\ l # Desktop /\ to \in Place
  BY <1>2, ScreenAssumption DEF ScreenInv, Scene, All, Draggable, Desktop, Mouse, Place
<1>6. DOMAIN at2 = All /\ at2[l] = to /\ \A m \in All \ {l} : at2[m] = at[m]
  BY <1>2, <1>5
<1>7. Places(at2) /\ Scene(s, im, at2)
  BY <1>5, <1>6 DEF Places, Scene, All
<1>8. PICK k \in 1 .. Len(s) : s[k] = l
  BY <1>2, <1>4, <1>5, StackHeight DEF InStack
<1>9. PICK old \in Rect : old = AreaOf(l) /\ old = Rectangle(at[l], SizeOf(l)) /\ \A p \in W : p \in Points(old) <=> In(p, old)
  BY <1>2, <1>5, AreaIs
<1>10. now \in Rect /\ \A p \in W : p \in Points(now) <=> In(p, now)
  <2>1. SizeOf(l) \in Size
    BY <1>5, SizeIs
  <2>2. now \in Rect
    BY <2>1, <1>3, <1>5, RectangleIs
  <2> QED BY <2>2, PointsIn, WholeIs
<1>11. r = DrawsFrom(left, s, im, at2, k, now)
  <2>1. DrawFrom(left, s, im, at2, s[k], now) = DrawsFrom(left, s, im, at2, k, now)
    BY <1>5, UpperAreDrawn
  <2> QED BY <2>1, <1>3, <1>8
<1>12. ASSUME NEW p \in W, p \notin dirty' PROVE Right(Picture0', s, im, at2, p)
  <2>1. CASE CoversAt(l, im[l], to, p)
    <3>1. ShowsAt(s, im, at2, k, p) /\ In(p, now)
      BY <2>1, <1>3, <1>6, <1>8 DEF ShowsAt, CoversAt
    <3>2. k \in k .. Len(s)
      BY <1>5 DEF Stack
    <3>3. Right(DrawsFrom(left, s, im, at2, k, now), s, im, at2, p)
      BY <3>1, <3>2, <1>7, <1>10, DrawMakes
    <3> QED BY <3>3, <1>4, <1>11, RightAfter
  <2>2. CASE ~CoversAt(l, im[l], to, p)
    <3>1. ASSUME ~In(p, old) PROVE Right(pic, s, im, at2, p)
      <4>1. l = Mouse \/ ~In(p, now)
        <5>1. ASSUME l # Mouse PROVE ~In(p, now)
          <6>1. PICK image : image = im[l] /\ Image(l, image)
            BY <1>5 DEF Images
          <6>2. CoversAt(l, image, to, p) <=> In(p, Rectangle(to, SizeOf(l)))
            BY <5>1, <6>1, <1>5, WindowCovers
          <6> QED BY <6>1, <6>2, <2>2, <1>3
        <5> QED BY <5>1
      <4>2. p \notin dirty
        BY <4>1, <3>1, <1>4, <1>9, <1>10, <1>12
      <4>3. Right(pic, s, im, at, p)
        BY <4>2, <1>2, <1>3 DEF ScreenInv
      <4>4. ~CoversAt(l, im[l], at[l], p)
        BY <3>1, <1>9 DEF CoversAt
      <4>5. Alike(l, im, at, im, at2, p)
        BY <4>4, <2>2, <1>6 DEF Alike
      <4> QED BY <4>3, <4>5, <1>5, RightAlike
    <3>2. Right(left, s, im, at2, p)
      <4>1. Right(DrawArea(pic, s, im, at2, old), s, im, at2, p)
        BY <3>1, <1>7, AreaDrawn
      <4> QED BY <4>1, <1>3, <1>9
    <3>3. Right(DrawsFrom(left, s, im, at2, k, now), s, im, at2, p)
      BY <3>2, <1>7, <1>10, DrawKeeps
    <3> QED BY <3>3, <1>4, <1>11, RightAfter
  <2> QED BY <2>1, <2>2
<1>13. Active(active_layer', s)
  BY <1>2, <1>4 DEF ScreenInv
<1> QED BY <1>4, <1>5, <1>6, <1>7, <1>12, <1>13 DEF ScreenInv

-----------------------------------------------------------------------------
(* Activate and Deactivate. *)

\* Wherever nothing was written unseen, the picture is right.
Fine(pic, s, im, at, unseen) ==
  Scene(s, im, at) /\ DOMAIN im = All /\ \A p \in W \ unseen : Right(pic, s, im, at, p)

\* A window with its title is a window's image.
LEMMA TitledIs ==
  ASSUME NEW l \in All, l # Mouse, NEW image, Image(l, image), NEW active \in BOOLEAN
  PROVE  Image(l, Titled(image, active))
<1>1. TitleColor(active) # Clear
  BY DEF TitleColor, Clear
<1> QED BY <1>1 DEF Image, Titled

\* A window whose image changed is drawn: elsewhere nothing changed.
LEMMA RedrawnIs ==
  ASSUME NEW pic, NEW s, NEW im, NEW at, NEW im2, Scene(s, im, at), Scene(s, im2, at),
         NEW k \in 1 .. Len(s), s[k] # Mouse, \A m \in All \ {s[k]} : im2[m] = im[m],
         NEW area \in Rect, area = Rectangle(at[s[k]], SizeOf(s[k])), NEW p \in W,
         ~In(p, area) => Right(pic, s, im, at, p)
  PROVE  Right(DrawFrom(pic, s, im2, at, s[k], area), s, im2, at, p)
<1>1. ASSUME ~In(p, area) PROVE Right(pic, s, im2, at, p)
  <2>1. PICK l : l = s[k]
    OBVIOUS
  <2>2. ~CoversAt(l, im[l], at[l], p) /\ ~CoversAt(l, im2[l], at[l], p)
    BY <1>1, <2>1 DEF CoversAt
  <2>3. Alike(l, im, at, im2, at, p)
    BY <2>1, <2>2 DEF Alike
  <2> QED BY <1>1, <2>3, RightAlike
<1>2. In(p, area) => In(p, Rectangle(at[s[k]], SizeOf(s[k])))
  OBVIOUS
<1> QED BY <1>1, <1>2, WindowDrawn

\* The title of the window that was active is drawn.
LEMMA DeactivatedIs ==
  ASSUME NEW im, NEW at, Fine(Picture0, layer_stack, im, at, dirty), Active(active_layer, layer_stack),
         active_layer # NoLayer => at[active_layer] = layer_pos[active_layer]
  PROVE  Fine(DrawnInactive(im, at), layer_stack, Deactivated(im), at, StillDirty)
<1>1. CASE active_layer = NoLayer
  BY <1>1 DEF DrawnInactive, Deactivated, StillDirty
<1>2. CASE active_layer # NoLayer
  <2>1. PICK pic, s, l, im2, area : /\ pic = Picture0 /\ s = layer_stack /\ l = active_layer /\ im2 = Deactivated(im)
                                    /\ area = AreaOf(l)
    OBVIOUS
  <2>2. /\ l \in All /\ l # Mouse /\ l \in Range(s) /\ Stack(s) /\ Scene(s, im, at) /\ DOMAIN im = All
        /\ Images(im) /\ Places(at) /\ area = Rectangle(at[l], SizeOf(l))
    BY <1>2, <2>1, ScreenAssumption DEF Active, Draggable, All, Fine, Scene, AreaOf
  <2>3. im2 = [im EXCEPT ![l] = Titled(@, FALSE)]
    BY <1>2, <2>1 DEF Deactivated
  <2>4. DOMAIN im2 = All /\ im2[l] = Titled(im[l], FALSE) /\ \A m \in All \ {l} : im2[m] = im[m]
    BY <2>2, <2>3
  <2>5. Scene(s, im2, at)
    <3>1. PICK image : image = im[l] /\ Image(l, image)
      BY <2>2 DEF Images
    <3>2. Image(l, im2[l])
      BY <3>1, <2>2, <2>4, TitledIs
    <3> QED BY <3>2, <2>2, <2>4 DEF Scene, Images
  <2>6. PICK k \in 1 .. Len(s) : s[k] = l
    BY <2>2, StackHeight
  <2>7. area \in Rect
    BY <2>2, SizeIs, RectangleIs DEF Places
  <2>8. ASSUME NEW p \in W, p \notin dirty \ Points(area)
        PROVE  Right(DrawFrom(pic, s, im2, at, l, area), s, im2, at, p)
    <3>1. p \in Points(area) <=> In(p, area)
      BY <2>7, PointsIn, WholeIs
    <3>2. ~In(p, area) => Right(pic, s, im, at, p)
      BY <3>1, <2>1, <2>8 DEF Fine
    <3>3. Right(DrawFrom(pic, s, im2, at, s[k], area), s, im2, at, p)
      BY <3>2, <2>2, <2>4, <2>5, <2>6, <2>7, RedrawnIs
    <3> QED BY <3>3, <2>6
  <2>9. DrawnInactive(im, at) = DrawFrom(pic, s, im2, at, l, area) /\ StillDirty = dirty \ Points(area)
    BY <1>2, <2>1 DEF DrawnInactive, StillDirty
  <2>10. Fine(DrawFrom(pic, s, im2, at, l, area), s, im2, at, dirty \ Points(area))
    BY <2>4, <2>5, <2>8 DEF Fine
  <2> QED BY <2>1, <2>9, <2>10
<1> QED BY <1>1, <1>2

\* A layer that is not in the stack may change.
LEMMA HiddenChanges ==
  ASSUME NEW pic, NEW s, NEW im, NEW at, NEW unseen, Fine(pic, s, im, at, unseen),
         NEW im2, NEW at2, Images(im2), Places(at2), DOMAIN im2 = All,
         \A m \in All : m \in Range(s) => im2[m] = im[m] /\ at2[m] = at[m]
  PROVE  Fine(pic, s, im2, at2, unseen)
<1>1. Stack(s) /\ DOMAIN s = 1 .. Len(s) /\ Len(s) \in Nat
  BY DEF Fine, Scene, Stack
<1>2. \A i \in 1 .. Len(s) : im2[s[i]] = im[s[i]] /\ at2[s[i]] = at[s[i]]
  <2>1. \A i \in 1 .. Len(s) : s[i] \in All /\ s[i] \in Range(s)
    BY <1>1, ElementOfSeq DEF Stack, Range
  <2> QED BY <2>1
<1>3. \A p : \A i \in 1 .. Len(s) : /\ ShowsAt(s, im2, at2, i, p) <=> ShowsAt(s, im, at, i, p)
                                    /\ ShowsAt(s, im, at, i, p) => Pixel(s, im2, at2, i, p) = Pixel(s, im, at, i, p)
  BY <1>2 DEF ShowsAt, Pixel
<1>4. ASSUME NEW p \in W \ unseen PROVE Right(pic, s, im2, at2, p)
  <2>1. PICK v : v = pic.back[p]
    OBVIOUS
  <2>2. Seen(s, im, at, p, v) /\ pic.front[p] = v
    BY <2>1 DEF Fine, Right
  <2>3. Seen(s, im2, at2, p, v)
    BY <2>2, <1>1, <1>3, SeenAlike
  <2> QED BY <2>1, <2>2, <2>3 DEF Right
<1> QED BY <1>1, <1>4 DEF Fine, Scene

\* A window is raised, or opened, to height h below the mouse: of the others nothing changes.
IsRaised(s, u, l, h) ==
  /\ Stack(u) /\ h \in 1 .. Len(u) /\ u[h] = l /\ \A m \in Range(s) : m \in Range(u)
  /\ \A im, at, p, v : ~CoversAt(l, im[l], at[l], p) => (Seen(s, im, at, p, v) <=> Seen(u, im, at, p, v))

\* A window is taken out of the stack, if it is there: of the others nothing changes.
IsTaken(s, t, l) ==
  /\ Stack(t) /\ \A i \in 1 .. Len(t) : t[i] # l
  /\ \A m \in Range(s) : m = l \/ \E j \in 1 .. Len(t) : t[j] = m
  /\ \A im, at, p, v : ~CoversAt(l, im[l], at[l], p) => (Seen(s, im, at, p, v) <=> Seen(t, im, at, p, v))

\* RemoveFirst takes it out.
LEMMA TakenIs ==
  ASSUME NEW s, Stack(s), NEW l \in Windows
  PROVE  IsTaken(s, RemoveFirst(s, l), l)
<1>1. PICK n, t : n = Len(s) /\ n \in Nat /\ t = RemoveFirst(s, l) /\ \A i, j \in 1 .. n : s[i] = s[j] => i = j
  BY DEF Stack
<1>2. CASE \E k \in 1 .. n : s[k] = l
  <2>1. PICK k \in 1 .. Len(s) : s[k] = l
    BY <1>2, <1>1
  <2>2. Without(s, t, k) /\ Stack(t)
    BY <2>1, <1>1, Removed
  <2>3. SameBut(s, t, k)
    BY <2>2, WithoutKeeps
  <2>4. ASSUME NEW i \in 1 .. Len(t) PROVE t[i] # l
    <3>1. PICK j \in 1 .. Len(s) : j # k /\ s[j] = t[i]
      BY <2>3 DEF SameBut
    <3> QED BY <3>1, <2>1, <1>1
  <2>5. ASSUME NEW im, NEW at, NEW p, NEW v, ~CoversAt(l, im[l], at[l], p)
        PROVE  Seen(s, im, at, p, v) <=> Seen(t, im, at, p, v)
    <3>1. ~ShowsAt(s, im, at, k, p)
      BY <2>1, <2>5 DEF ShowsAt
    <3> QED BY <3>1, <2>2, SeenWithout
  <2>6. ASSUME NEW m \in Range(s) PROVE m = l \/ \E j \in 1 .. Len(t) : t[j] = m
    <3>1. PICK i \in 1 .. Len(s) : s[i] = m
      BY StackHeight
    <3> QED BY <3>1, <2>1, <2>3 DEF SameBut
  <2> QED BY <2>2, <2>4, <2>5, <2>6, <1>1 DEF IsTaken
<1>3. CASE ~ \E k \in 1 .. n : s[k] = l
  <2>1. t = s
    BY <1>3, <1>1 DEF RemoveFirst
  <2>2. \A m \in Range(s) : \E j \in 1 .. Len(s) : s[j] = m
    BY StackHeight
  <2>3. \A i \in 1 .. Len(s) : s[i] # l
    BY <1>1, <1>3
  <2>4. IsTaken(s, s, l)
    BY <2>2, <2>3 DEF IsTaken
  <2> QED BY <2>1, <2>4, <1>1
<1> QED BY <1>2, <1>3

\* A window that is in the stack or not goes to below the mouse cursor, and the others keep their order.
LEMMA RaisedIs ==
  ASSUME NEW s, Stack(s), NEW l \in Windows
  PROVE  \E h : IsRaised(s, InsertAt(RemoveFirst(s, l), From(RemoveFirst(s, l), Mouse), l), l, h)
<1>1. PICK t : t = RemoveFirst(s, l)
  OBVIOUS
<1>2. /\ IsTaken(s, t, l) /\ Stack(t) /\ \A i \in 1 .. Len(t) : t[i] # l
      /\ \A im, at, p, v : ~CoversAt(l, im[l], at[l], p) => (Seen(s, im, at, p, v) <=> Seen(t, im, at, p, v))
  BY <1>1, TakenIs DEF IsTaken
<1>3. PICK h \in 2 .. Len(t) : h = Len(t) /\ h \in 1 .. Len(t) /\ t[h] = Mouse
  <2>1. Len(t) \in Nat /\ Len(t) >= 2 /\ t[Len(t)] = Mouse
    BY <1>2 DEF Stack
  <2>2. Len(t) \in 2 .. Len(t) /\ Len(t) \in 1 .. Len(t)
    BY <2>1
  <2> QED BY <2>1, <2>2
<1>4. From(t, Mouse) = h
  <2>1. From(t, t[h]) = h
    BY <1>2, <1>3, FromIs
  <2> QED BY <2>1, <1>3
<1>5. PICK u : u = InsertAt(t, h, l)
  OBVIOUS
<1>6. Without(u, t, h) /\ Stack(u) /\ u[h] = l
  BY <1>2, <1>5, Inserted
<1>7. ASSUME NEW im, NEW at, NEW p, NEW v, ~CoversAt(l, im[l], at[l], p)
      PROVE  Seen(s, im, at, p, v) <=> Seen(u, im, at, p, v)
  <2>1. ~ShowsAt(u, im, at, h, p)
    BY <1>6, <1>7 DEF ShowsAt
  <2>2. Seen(u, im, at, p, v) <=> Seen(t, im, at, p, v)
    BY <2>1, <1>6, SeenWithout
  <2> QED BY <2>2, <1>2, <1>7
<1>8. h \in 1 .. Len(u)
  BY <1>6 DEF Without
<1>9. ASSUME NEW m \in Range(s) PROVE m \in Range(u)
  <2>1. \E j \in 1 .. Len(u) : u[j] = m
    <3>1. CASE m = l
      BY <3>1, <1>6, <1>8
    <3>2. CASE \E j \in 1 .. Len(t) : t[j] = m
      <4>1. SameBut(u, t, h)
        BY <1>6, WithoutKeeps
      <4> QED BY <3>2, <4>1 DEF SameBut
    <3> QED BY <3>1, <3>2, <1>2 DEF IsTaken
  <2>2. DOMAIN u = 1 .. Len(u)
    BY <1>6 DEF Stack
  <2> QED BY <2>1, <2>2 DEF Range
<1>10. IsRaised(s, u, l, h)
  BY <1>6, <1>7, <1>8, <1>9 DEF IsRaised
<1> QED BY <1>1, <1>4, <1>5, <1>10

\* A layer that becomes active keeps the invariant, if its image and place may be what they are given.
LEMMA ActivateLayerStep ==
  ASSUME ScreenInv, NEW l \in Draggable, NEW image, NEW place, ActivateLayer(l, image, place),
         Image(l, image), place \in Place,
         InStack(l) => image = pixels[l] /\ place = layer_pos[l]
  PROVE  ScreenInv'
<1>1. PICK s, im, at, u, now :
        /\ s = layer_stack /\ im = [pixels EXCEPT ![l] = image] /\ at = [layer_pos EXCEPT ![l] = place]
        /\ u = InsertAt(RemoveFirst(s, l), From(RemoveFirst(s, l), Mouse), l)
        /\ now = [Deactivated(im) EXCEPT ![l] = Titled(@, TRUE)]
  OBVIOUS
<1>2. PICK pic, area, r :
        pic = DrawnInactive(im, at) /\ area = Rectangle(place, SizeOf(l)) /\ r = DrawFrom(pic, u, now, at, l, area)
  OBVIOUS
<1>3. /\ active_layer # l /\ active_layer' = l /\ pixels' = now /\ layer_pos' = at /\ layer_stack' = u
      /\ SetPicture(r) /\ dirty' = StillDirty \ Points(area)
  BY <1>1, <1>2 DEF ActivateLayer, StackWithout
<1>4. /\ Stack(s) /\ DOMAIN pixels = All /\ DOMAIN layer_pos = All /\ Images(pixels) /\ Places(layer_pos)
      /\ l \in Windows /\ l \in All /\ l # Mouse /\ l # Desktop
  BY <1>1, ScreenAssumption DEF ScreenInv, Scene, Draggable, All
<1>5. /\ DOMAIN im = All /\ DOMAIN at = All /\ im[l] = image /\ at[l] = place
      /\ \A m \in All \ {l} : im[m] = pixels[m] /\ at[m] = layer_pos[m]
  BY <1>1, <1>4
<1>6. Images(im) /\ Places(at)
  BY <1>4, <1>5 DEF Images, Places, All
<1>7. Fine(Picture0, s, im, at, dirty)
  <2>1. Fine(Picture0, s, pixels, layer_pos, dirty)
    BY <1>1 DEF ScreenInv, Fine
  <2>2. \A m \in All : m \in Range(s) => im[m] = pixels[m] /\ at[m] = layer_pos[m]
    BY <1>1, <1>5 DEF InStack
  <2>3. PICK pic0, im0, at0, unseen0 : pic0 = Picture0 /\ im0 = pixels /\ at0 = layer_pos /\ unseen0 = dirty
    OBVIOUS
  <2>4. Fine(pic0, s, im, at, unseen0)
    BY <2>1, <2>2, <2>3, <1>5, <1>6, HiddenChanges
  <2> QED BY <2>3, <2>4
<1>8. PICK im1, unseen : im1 = Deactivated(im) /\ unseen = StillDirty
  OBVIOUS
<1>9. Fine(pic, s, im1, at, unseen)
  <2>1. Active(active_layer, layer_stack) /\ Fine(Picture0, layer_stack, im, at, dirty)
    BY <1>1, <1>7 DEF ScreenInv
  <2>2. active_layer # NoLayer => at[active_layer] = layer_pos[active_layer]
    BY <2>1, <1>3, <1>5 DEF Active, Draggable, All
  <2>3. Fine(DrawnInactive(im, at), layer_stack, Deactivated(im), at, StillDirty)
    BY <2>1, <2>2, DeactivatedIs
  <2> QED BY <2>3, <1>1, <1>2, <1>8
<1>10. Scene(s, im1, at) /\ Images(im1) /\ DOMAIN im1 = All
  BY <1>9 DEF Fine, Scene
<1>11. DOMAIN now = All /\ now[l] = Titled(im1[l], TRUE) /\ \A m \in All \ {l} : now[m] = im1[m]
  BY <1>1, <1>4, <1>8, <1>10
<1>12. PICK h : IsRaised(s, u, l, h)
  BY <1>1, <1>4, RaisedIs
<1>13. Stack(u) /\ h \in 1 .. Len(u) /\ u[h] = l
  BY <1>12 DEF IsRaised
<1>14. Scene(u, im1, at) /\ Scene(u, now, at)
  <2>1. PICK image1 : image1 = im1[l] /\ Image(l, image1)
    BY <1>4, <1>10 DEF Images
  <2>2. Image(l, now[l])
    BY <2>1, <1>4, <1>11, TitledIs
  <2> QED BY <2>2, <1>6, <1>10, <1>11, <1>13 DEF Scene, Images
<1>15. area \in Rect /\ area = Rectangle(at[u[h]], SizeOf(u[h]))
  BY <1>2, <1>4, <1>5, <1>13, SizeIs, RectangleIs
<1>16. ASSUME NEW p \in W, p \notin dirty' PROVE Right(Picture0', u, now, at, p)
  <2>1. p \in Points(area) <=> In(p, area)
    BY <1>15, PointsIn, WholeIs
  <2>2. ASSUME ~In(p, area) PROVE Right(pic, u, im1, at, p)
    <3>1. Right(pic, s, im1, at, p)
      BY <2>1, <2>2, <1>3, <1>8, <1>9, <1>16 DEF Fine
    <3>2. ~CoversAt(l, im1[l], at[l], p)
      BY <2>2, <1>13, <1>15 DEF CoversAt
    <3> QED BY <3>1, <3>2, <1>12 DEF Right, IsRaised
  <2>3. u[h] # Mouse /\ \A m \in All \ {u[h]} : now[m] = im1[m]
    BY <1>4, <1>11, <1>13
  <2>4. Right(DrawFrom(pic, u, now, at, u[h], area), u, now, at, p)
    BY <2>2, <2>3, <1>13, <1>14, <1>15, RedrawnIs
  <2>5. Right(r, u, now, at, p)
    BY <2>4, <1>2, <1>13
  <2> QED BY <2>5, <1>3, RightAfter
<1>17. Active(active_layer', u)
  <2>1. h \in DOMAIN u
    BY <1>13 DEF Stack
  <2> QED BY <2>1, <1>3, <1>13 DEF Active, Range
<1> QED BY <1>3, <1>5, <1>11, <1>14, <1>16, <1>17 DEF ScreenInv

\* A window that opens keeps it.
LEMMA OpenWindowStep ==
  ASSUME ScreenInv, OpenWindow
  PROVE  ScreenInv'
<1>0. PICK l \in Draggable : \E place \in Positions[l] : ~InStack(l) /\ ActivateLayer(l, NewImage(l), place)
  BY DEF OpenWindow
<1>1. PICK place \in Positions[l] : ~InStack(l) /\ ActivateLayer(l, NewImage(l), place)
  BY <1>0
<1>2. l \in All /\ l # Mouse /\ l # Clear /\ place \in Place
  BY <1>1, ScreenAssumption DEF Draggable, All, Place
<1>3. Image(l, NewImage(l))
  BY <1>2, BlankedIs, TitledIs DEF NewImage
<1> QED BY <1>1, <1>2, <1>3, ActivateLayerStep

\* A layer that is no longer active keeps it.
LEMMA ActivateNoneStep ==
  ASSUME ScreenInv, ActivateNone
  PROVE  ScreenInv'
<1>1. /\ active_layer' = NoLayer /\ pixels' = Deactivated(pixels) /\ SetPicture(DrawnInactive(pixels, layer_pos))
      /\ dirty' = StillDirty /\ layer_pos' = layer_pos /\ layer_stack' = layer_stack
  BY DEF ActivateNone
<1>2. PICK r, s, im, at : /\ r = DrawnInactive(pixels, layer_pos) /\ s = layer_stack
                          /\ im = Deactivated(pixels) /\ at = layer_pos
  OBVIOUS
<1>3. Fine(r, s, im, at, StillDirty)
  <2>1. Fine(Picture0, layer_stack, pixels, layer_pos, dirty) /\ Active(active_layer, layer_stack)
    BY DEF ScreenInv, Fine
  <2> QED BY <2>1, <1>2, DeactivatedIs
<1>4. \A p \in W \ dirty' : Right(Picture0', s, im, at, p)
  <2> SUFFICES ASSUME NEW p \in W \ dirty' PROVE Right(Picture0', s, im, at, p)
    OBVIOUS
  <2>1. Right(r, s, im, at, p)
    BY <1>1, <1>3 DEF Fine
  <2> QED BY <2>1, <1>1, <1>2, RightAfter
<1>5. Scene(s, im, at) /\ DOMAIN im = All /\ DOMAIN at = All /\ Active(active_layer', s)
  BY <1>1, <1>2, <1>3 DEF Fine, ScreenInv, Active
<1> QED BY <1>1, <1>2, <1>4, <1>5 DEF ScreenInv

\* A click keeps it.
LEMMA PressButtonStep ==
  ASSUME ScreenInv, PressButton
  PROVE  ScreenInv'
<1>1. PICK l : \/ l \in Draggable /\ ActivateLayer(l, pixels[l], layer_pos[l])
               \/ ActivateNone
  BY DEF PressButton
<1>2. CASE l \in Draggable /\ ActivateLayer(l, pixels[l], layer_pos[l])
  <2>1. PICK image, place : image = pixels[l] /\ place = layer_pos[l]
    OBVIOUS
  <2>2. l \in All /\ Images(pixels) /\ Places(layer_pos)
    BY <1>2 DEF Draggable, All, ScreenInv, Scene
  <2>3. Image(l, image) /\ place \in Place
    BY <2>1, <2>2 DEF Images, Places
  <2> QED BY <2>1, <2>3, <1>2, ActivateLayerStep
<1> QED BY <1>1, <1>2, ActivateNoneStep

\* A window that is removed keeps it.
LEMMA RemoveLayerStep ==
  ASSUME ScreenInv, RemoveLayer
  PROVE  ScreenInv'
<1>1. PICK l \in Draggable :
        /\ InStack(l) /\ active_layer' = NoLayer
        /\ layer_stack' = StackWithout(l)
        /\ SetPicture(DrawArea(DrawnInactive(pixels, layer_pos), StackWithout(l), Deactivated(pixels), layer_pos, AreaOf(l)))
        /\ pixels' = [Deactivated(pixels) EXCEPT ![l] = Blanked(l, l)]
        /\ dirty' = StillDirty \ Points(AreaOf(l))
        /\ UNCHANGED layer_pos
  BY DEF RemoveLayer
<1>2. PICK s, im, at, t : s = layer_stack /\ im = Deactivated(pixels) /\ at = layer_pos /\ t = RemoveFirst(s, l)
  OBVIOUS
<1>3. PICK im2 : im2 = [im EXCEPT ![l] = Blanked(l, l)]
  OBVIOUS
<1>4. PICK pic, r, unseen : /\ pic = DrawnInactive(pixels, layer_pos) /\ r = DrawArea(pic, t, im, at, AreaOf(l))
                            /\ unseen = StillDirty
  OBVIOUS
<1>5. InStack(l) /\ layer_stack' = t /\ SetPicture(r) /\ pixels' = im2 /\ dirty' = unseen \ Points(AreaOf(l)) /\ layer_pos' = at
  BY <1>1, <1>2, <1>3, <1>4 DEF StackWithout
<1>6. Fine(pic, s, im, at, unseen)
  <2>1. Fine(Picture0, layer_stack, pixels, layer_pos, dirty) /\ Active(active_layer, layer_stack)
    BY DEF ScreenInv, Fine
  <2> QED BY <2>1, <1>2, <1>4, DeactivatedIs
<1>7. /\ Stack(s) /\ Images(im) /\ Places(at) /\ DOMAIN at = All /\ DOMAIN im = All
      /\ l \in All /\ l \in Windows /\ l # Mouse /\ l # Clear
  BY <1>2, <1>6, ScreenAssumption DEF ScreenInv, Fine, Scene, All, Draggable
<1>8. IsTaken(s, t, l) /\ Stack(t)
  BY <1>2, <1>7, TakenIs DEF IsTaken
<1>9. DOMAIN im2 = All /\ im2[l] = Blanked(l, l) /\ \A m \in All \ {l} : im2[m] = im[m]
  BY <1>3, <1>7
<1>10. Images(im2)
  <2>1. Image(l, im2[l])
    BY <1>7, <1>9, BlankedIs
  <2> QED BY <2>1, <1>7, <1>9 DEF Images
<1>11. PICK area \in Rect : area = AreaOf(l) /\ area = Rectangle(at[l], SizeOf(l)) /\ \A p \in W : p \in Points(area) <=> In(p, area)
  BY <1>2, <1>7, AreaIs
<1>12. Scene(t, im, at)
  BY <1>7, <1>8 DEF Scene
<1>13. ASSUME NEW p \in W \ dirty' PROVE Right(r, t, im, at, p)
  <2>1. ASSUME ~In(p, area) PROVE Right(pic, t, im, at, p)
    <3>1. p \notin unseen
      BY <2>1, <1>5, <1>11
    <3>2. Right(pic, s, im, at, p)
      BY <3>1, <1>6 DEF Fine
    <3>3. ~CoversAt(l, im[l], at[l], p)
      BY <2>1, <1>11 DEF CoversAt
    <3> QED BY <3>2, <3>3, <1>8 DEF Right, IsTaken
  <2>2. Right(DrawArea(pic, t, im, at, area), t, im, at, p)
    BY <2>1, <1>12, AreaDrawn
  <2> QED BY <2>2, <1>4, <1>11
<1>14. Fine(r, t, im2, at, dirty')
  <2>1. Fine(r, t, im, at, dirty')
    BY <1>7, <1>12, <1>13 DEF Fine
  <2>2. l \notin Range(t)
    <3>1. DOMAIN t = 1 .. Len(t)
      BY <1>8 DEF Stack
    <3> QED BY <3>1, <1>8 DEF IsTaken, Range
  <2>3. PICK unseen2 : unseen2 = dirty'
    OBVIOUS
  <2>4. \A m \in All : m \in Range(t) => im2[m] = im[m]
    BY <2>2, <1>9
  <2>5. Fine(r, t, im2, at, unseen2)
    BY <2>1, <2>3, <2>4, <1>7, <1>9, <1>10, HiddenChanges
  <2> QED BY <2>3, <2>5
<1>15. \A p \in W \ dirty' : Right(Picture0', t, im2, at, p)
  <2> SUFFICES ASSUME NEW p \in W \ dirty' PROVE Right(Picture0', t, im2, at, p)
    OBVIOUS
  <2>1. Right(r, t, im2, at, p)
    BY <1>14 DEF Fine
  <2> QED BY <2>1, <1>5, RightAfter
<1>16. Scene(t, im2, at) /\ Active(active_layer', t)
  BY <1>1, <1>14 DEF Fine, Active
<1> QED BY <1>5, <1>7, <1>9, <1>15, <1>16 DEF ScreenInv

\* Rows that are moved are rows of the same window.
LEMMA RowsAreMoved ==
  ASSUME NEW l \in Windows, NEW image, Image(l, image), NEW from \in 0 .. 1, NEW to \in 0 .. 1
  PROVE  Image(l, MoveRows(image, from, to, SizeOf(l)[2] - 1))
<1>1. PICK w \in Nat, height \in Nat : SizeOf(l) = <<w, height>>
  <2>1. SizeOf(l) \in Nat \X Nat
    BY SizeIs DEF All, Size
  <2> QED BY <2>1
<1>2. PICK n \in Int : n = height - 1 /\ n = SizeOf(l)[2] - 1
  BY <1>1
<1>3. PICK m \in Nat : 1 .. m = 1 .. n
  <2>1. CASE n \in Nat
    BY <2>1
  <2>2. CASE n \notin Nat
    <3>1. 1 .. n = {} /\ 1 .. 0 = {} /\ 0 \in Nat
      BY <2>2
    <3> QED BY <3>1
  <2> QED BY <2>1, <2>2
<1>4. l # Mouse
  BY ScreenAssumption
<1> DEFINE D == DOMAIN image
           C == {image[q] : q \in D}
           V == {image} \union [D -> C]
           order == IF to < from THEN [i \in 1 .. n |-> i - 1] ELSE [i \in 1 .. n |-> n - i]
           CopyRow(x, i) == [p \in DOMAIN x |-> IF p[2] = to + i THEN x[<<p[1], from + i>>] ELSE x[p]]
<1>5. D = (0 .. 0 + w - 1) \X (0 .. 0 + height - 1)
  <2>1. Rectangle(<<0, 0>>, SizeOf(l)) = [x |-> 0, y |-> 0, w |-> w, h |-> height]
    BY <1>1 DEF Rectangle
  <2> QED BY <2>1 DEF Image, Points
<1>6. image \in V /\ \A x \in V : DOMAIN x = D /\ \A q \in D : x[q] \in C
  OBVIOUS
<1>7. \A j \in 1 .. n : order[j] \in 0 .. n - 1
  BY <1>2
<1>8. ASSUME NEW i \in 0 .. n - 1, NEW x \in V PROVE CopyRow(x, i) \in V
  <2>1. \A p \in D : p[2] = to + i => <<p[1], from + i>> \in D
    <3> SUFFICES ASSUME NEW p \in D, p[2] = to + i PROVE <<p[1], from + i>> \in D
      OBVIOUS
    <3>1. p[1] \in 0 .. 0 + w - 1 /\ from + i \in 0 .. 0 + height - 1
      BY <1>2, <1>5
    <3> QED BY <3>1, <1>5
  <2>2. DOMAIN x = D /\ \A q \in D : x[q] \in C
    BY <1>6
  <2>3. CopyRow(x, i) \in [D -> C]
    <3> HIDE DEF D, C
    <3> QED BY <2>1, <2>2
  <2> QED BY <2>3
<1> HIDE DEF D, C, V, order, CopyRow
<1> DEFINE op(i, x) == CopyRow(x, order[i])
           F == [p \in (1 .. m) \X V |-> op(p[1], p[2])]
           Body(g, t) == IF t = {} THEN image ELSE op(Max(t), g[t \ {Max(t)}])
<1>9. \A i \in 1 .. m : \A x \in V : op(i, x) \in V
  BY <1>3, <1>7, <1>8
<1>10. F \in [(1 .. m) \X V -> V] /\ \A i \in 1 .. m : \A x \in V : F[<<i, x>>] = op(i, x)
  <2> HIDE DEF op
  <2> QED BY <1>9
<1> HIDE DEF F
<1>11. PICK g \in [SUBSET (1 .. m) -> V] :
         \A t \in SUBSET (1 .. m) : g[t] = IF t = {} THEN image ELSE F[<<Max(t), g[t \ {Max(t)}]>>]
  <2>1. Iteration(m, V, image, F)
    BY <1>6, <1>10, Iterates
  <2> QED BY <2>1 DEF Iteration
<1>12. g = [t \in SUBSET (1 .. m) |-> Body(g, t)]
  <2> HIDE DEF op
  <2>1. ASSUME NEW t \in SUBSET (1 .. m) PROVE g[t] = Body(g, t)
    <3>1. CASE t = {}
      BY <1>11, <3>1
    <3>2. CASE t # {}
      <4>1. Max(t) \in 1 .. m
        BY <3>2, MaxOf
      <4>2. g[t \ {Max(t)}] \in V
        OBVIOUS
      <4> QED BY <1>10, <1>11, <3>2, <4>1, <4>2
    <3> QED BY <3>1, <3>2
  <2> HIDE DEF Body
  <2> QED BY <2>1
<1> DEFINE iter == CHOOSE h : h = [t \in SUBSET (1 .. m) |-> Body(h, t)]
<1>13. iter = [t \in SUBSET (1 .. m) |-> Body(iter, t)]
  <2> HIDE DEF Body
  <2> QED BY <1>12
<1>14. MoveRows(image, from, to, SizeOf(l)[2] - 1) = iter[1 .. m]
  <2>1. DOMAIN order = 1 .. m
    BY <1>3 DEF order
  <2>2. MoveRows(image, from, to, SizeOf(l)[2] - 1) = FoldLeft(CopyRow, image, order)
    BY <1>2 DEF MoveRows, CopyRow, order
  <2> QED BY <2>1, <2>2 DEF FoldLeft, MapThenFoldSet
<1> HIDE DEF iter
<1>15. iter[1 .. m] \in V
  <2> DEFINE S == {i \in Nat : i <= m => iter[1 .. i] \in V}
  <2>1. 0 \in S
    <3>1. 1 .. 0 = {} /\ 1 .. 0 \in SUBSET (1 .. m)
      OBVIOUS
    <3>2. iter[1 .. 0] = image
      BY <3>1, <1>13
    <3> QED BY <3>2, <1>6
  <2>2. ASSUME NEW i \in S PROVE i + 1 \in S
    <3>1. i \in Nat
      OBVIOUS
    <3>2. ASSUME i + 1 <= m PROVE iter[1 .. i + 1] \in V
      <4>1. i + 1 \in 1 .. m /\ i <= m /\ (i + 1) - 1 = i
        BY <3>1, <3>2
      <4>2. /\ 1 .. i + 1 \in SUBSET (1 .. m) /\ 1 .. i + 1 # {} /\ Max(1 .. i + 1) = i + 1
            /\ (1 .. i + 1) \ {i + 1} = 1 .. i
        BY <4>1, Initial
      <4>3. iter[1 .. i + 1] = op(i + 1, iter[1 .. i])
        <5>1. iter[1 .. i + 1] = Body(iter, 1 .. i + 1)
          BY <4>2, <1>13
        <5> HIDE DEF op
        <5> QED BY <4>2, <5>1
      <4>4. iter[1 .. i] \in V
        BY <4>1
      <4> HIDE DEF op
      <4> QED BY <4>1, <4>3, <4>4, <1>9
    <3> QED BY <3>1, <3>2
  <2>3. S = Nat
    <3>1. S \in SUBSET Nat
      OBVIOUS
    <3> HIDE DEF S
    <3> QED BY <2>1, <2>2, <3>1, InductionOn
  <2>4. m \in S
    BY <2>3
  <2> QED BY <2>4
<1>16. \A q \in D : image[q] # Clear
  BY <1>4 DEF Image, D
<1>17. \A c \in C : c # Clear
  BY <1>16 DEF C
<1>18. DOMAIN iter[1 .. m] = D /\ \A q \in D : iter[1 .. m][q] # Clear
  BY <1>6, <1>15, <1>17
<1>19. D = Points(Rectangle(<<0, 0>>, SizeOf(l)))
  BY DEF Image, D
<1> QED BY <1>4, <1>14, <1>18, <1>19 DEF Image

\* A window that is scrolled keeps it.
LEMMA ScrollWindowStep ==
  ASSUME ScreenInv, ScrollWindow
  PROVE  ScreenInv'
<1>1. PICK l \in DrawnIn, from \in 0 .. 1, to \in 0 .. 1 :
        /\ InStack(l) /\ from # to
        /\ pixels' = [pixels EXCEPT ![l] = MoveRows(@, from, to, SizeOf(l)[2] - 1)]
        /\ dirty' = dirty \union (Points(AreaOf(l)) \intersect Points(Whole))
        /\ UNCHANGED <<layer_pos, layer_stack, active_layer, back_buffer, frame_buffer>>
  BY DEF ScrollWindow
<1>2. PICK s, im, at, im2, moved :
        /\ s = layer_stack /\ im = pixels /\ at = layer_pos
        /\ moved = MoveRows(im[l], from, to, SizeOf(l)[2] - 1) /\ im2 = [im EXCEPT ![l] = moved]
  OBVIOUS
<1>3. /\ Stack(s) /\ Images(im) /\ Places(at) /\ Scene(s, im, at) /\ DOMAIN at = All /\ DOMAIN im = All
      /\ l \in Windows /\ l \in All /\ Active(active_layer', s)
  BY <1>1, <1>2, ScreenAssumption DEF ScreenInv, Scene, All
<1>4. pixels' = im2 /\ layer_stack' = s /\ layer_pos' = at
  BY <1>1, <1>2
<1>5. Image(l, moved)
  <2>1. PICK image : image = im[l] /\ Image(l, image)
    BY <1>3 DEF Images
  <2>2. Image(l, MoveRows(image, from, to, SizeOf(l)[2] - 1))
    BY <2>1, <1>3, RowsAreMoved
  <2> QED BY <2>1, <2>2, <1>2
<1>6. DOMAIN im2 = All /\ im2[l] = moved /\ \A m \in All \ {l} : im2[m] = im[m]
  BY <1>2, <1>3
<1>7. Images(im2) /\ Scene(s, im2, at)
  BY <1>3, <1>5, <1>6 DEF Images, Scene
<1>8. ASSUME NEW p \in W, p \notin dirty' PROVE Right(Picture0', s, im2, at, p)
  <2>1. PICK pic : pic = Picture0 /\ pic = Picture0'
    <3>1. Picture0' = Picture0
      BY <1>1 DEF Picture0
    <3> QED BY <3>1
  <2>2. p \notin dirty /\ p \notin Points(AreaOf(l))
    BY <1>1, <1>8 DEF W
  <2>3. Right(pic, s, im, at, p)
    BY <2>1, <2>2, <1>2 DEF ScreenInv
  <2>4. ~In(p, Rectangle(at[l], SizeOf(l)))
    BY <2>2, <1>2, <1>3, AreaIs
  <2>5. Alike(l, im, at, im2, at, p)
    BY <2>4, <1>6 DEF Alike, CoversAt
  <2>6. Right(pic, s, im2, at, p)
    BY <2>3, <2>5, <1>3, RightAlike
  <2> QED BY <2>1, <2>6
<1> QED BY <1>3, <1>4, <1>6, <1>7, <1>8 DEF ScreenInv

\* What is on the screen is what the layers show, wherever nothing was written since the place was drawn
\* (ScreenIsComposition): for every size of the screen and of windows, any number of them, anywhere. An
\* operation draws one area, and only the layer that changed and those above it; the invariant is that both
\* buffers have what is seen at each place that is not dirty, so that what lies below is still there.
THEOREM ScreenShowsTheLayers == ScreenInit /\ [][ScreenNext]_screenVars => []ScreenIsComposition
<1>1. ScreenInv /\ [ScreenNext]_screenVars => ScreenInv'
  <2> SUFFICES ASSUME ScreenInv, [ScreenNext]_screenVars PROVE ScreenInv'
    OBVIOUS
  <2>1. CASE UNCHANGED screenVars
    BY <2>1 DEF screenVars, ScreenInv, Picture0
  <2> QED
    BY <2>1, DoWinFuncStep, ScrollWindowStep, DrawWindowStep, MoveLayerStep, OpenWindowStep, PressButtonStep,
       RemoveLayerStep
    DEF ScreenNext
<1>2. ScreenInv => ScreenIsComposition
  BY SeenIsComposed DEF ScreenIsComposition, W
<1> QED BY <1>1, <1>2, ScreenStarts, PTL

-----------------------------------------------------------------------------
(* Console: what is put, one character at a time. *)

Char == STRING \cup {"N"}
Line == Seq(Char)
USE DEF Line
ConState == [rows : [ConRow -> Line], buffer : [ConRow -> Line], row : ConRow, column : Nat]
Lines == Seq(Line) \ {<<>>}

\* A character is put in the row: nothing is behind it, or the row keeps its length.
LEMMA RowIs ==
  ASSUME NEW row \in Line, NEW column \in Nat, NEW ch \in Char, column <= Len(row)
  PROVE  /\ SubSeq(row, 1, column) \o <<ch>> \o SubSeq(row, column + 2, Len(row)) \in Line
         /\ column + 1 <= Len(SubSeq(row, 1, column) \o <<ch>> \o SubSeq(row, column + 2, Len(row)))
         /\ Len(row) = column =>
              SubSeq(row, 1, column) \o <<ch>> \o SubSeq(row, column + 2, Len(row)) = Append(row, ch)
<1> DEFINE a == SubSeq(row, 1, column)
           b == SubSeq(row, column + 2, Len(row))
<1>1. a \in Line /\ Len(a) = column
  <2>1. \A i \in 1 .. column : row[i] \in Char
    BY ElementOfSeq
  <2> QED BY <2>1, SubSeqProperties
<1>2. b \in Line
  <2>1. \A i \in column + 2 .. Len(row) : row[i] \in Char
    BY ElementOfSeq
  <2> QED BY <2>1, SubSeqProperties
<1>3. a \o <<ch>> \in Line /\ Len(a \o <<ch>>) = column + 1
  <2> HIDE DEF a, b
  <2>1. <<ch>> \in Line /\ Len(<<ch>>) = 1
    OBVIOUS
  <2>2. a \o <<ch>> \in Line /\ Len(a \o <<ch>>) = Len(a) + Len(<<ch>>)
    BY <1>1, <2>1, ConcatProperties
  <2> QED BY <1>1, <2>1, <2>2
<1>4. a \o <<ch>> \o b \in Line /\ Len(a \o <<ch>> \o b) >= column + 1
  <2> DEFINE c == a \o <<ch>>
  <2> HIDE DEF a, b, c
  <2>1. c \in Line /\ Len(c) = column + 1 /\ Len(b) \in Nat
    BY <1>2, <1>3 DEF c
  <2>2. c \o b \in Line /\ Len(c \o b) = Len(c) + Len(b)
    BY <1>2, <2>1, ConcatProperties
  <2> QED BY <2>1, <2>2 DEF c
<1>5. ASSUME Len(row) = column
      PROVE  a \o <<ch>> \o b = Append(row, ch)
  <2>1. a = row
    BY <1>5, <1>1, SubSeqFull
  <2>2. b = << >>
    BY <1>5, SubSeqEmpty
  <2>3. a \o <<ch>> \o b = a \o <<ch>>
    BY <1>3, <2>2, ConcatEmptySeq
  <2> QED BY <2>1, <2>3, AppendIsConcat
<1> HIDE DEF a, b
<1>6. Len(a \o <<ch>> \o b) \in Nat
  BY <1>4
<1> QED BY <1>4, <1>5, <1>6 DEF a, b

\* A line as far as it fits.
Fits(l) == SubSeq(l, 1, IF Len(l) < conColumns - 1 THEN Len(l) ELSE conColumns - 1)

\* What of a line fits in a row.
LEMMA FitsIs ==
  ASSUME NEW l \in Line
  PROVE  /\ Fits(l) \in Line
         /\ Len(Fits(l)) = IF Len(l) < conColumns - 1 THEN Len(l) ELSE conColumns - 1
         /\ \A i \in 1 .. Len(Fits(l)) : Fits(l)[i] = l[i]
         /\ Len(l) <= conColumns - 1 => Fits(l) = l
<1> DEFINE n == IF Len(l) < conColumns - 1 THEN Len(l) ELSE conColumns - 1
<1>1. n \in Nat /\ n <= Len(l) /\ Len(l) \in Nat /\ (Len(l) <= conColumns - 1 => n = Len(l))
  BY ConsoleAssumption
<1>2. \A i \in 1 .. n : l[i] \in Char
  BY <1>1, ElementOfSeq
<1>3. Fits(l) = SubSeq(l, 1, n)
  BY DEF Fits
<1> HIDE DEF n
<1>4. SubSeq(l, 1, n) \in Line /\ Len(SubSeq(l, 1, n)) = n /\ \A i \in 1 .. n : SubSeq(l, 1, n)[i] = l[i]
  BY <1>1, <1>2, SubSeqProperties
<1>5. Len(l) <= conColumns - 1 => SubSeq(l, 1, n) = l
  BY <1>1, SubSeqFull
<1> QED BY <1>3, <1>4, <1>5 DEF n

\* One more character is seen only if there is room for it.
LEMMA FitsAppended ==
  ASSUME NEW l \in Line, NEW ch \in Char
  PROVE  /\ Len(Fits(l)) < conColumns - 1 => Fits(l) = l /\ Fits(Append(l, ch)) = Append(Fits(l), ch)
         /\ ~(Len(Fits(l)) < conColumns - 1) => Fits(Append(l, ch)) = Fits(l)
<1> DEFINE m == Append(l, ch)
<1>1. conColumns \in Nat \ {0} /\ Len(l) \in Nat /\ m \in Line /\ Len(m) = Len(l) + 1
      /\ \A i \in 1 .. Len(l) : m[i] = l[i]
  <2>1. conColumns \in Nat \ {0} /\ Len(l) \in Nat
    BY ConsoleAssumption
  <2>2. m \in Line /\ Len(m) = Len(l) + 1 /\ \A i \in 1 .. Len(l) : m[i] = l[i]
    BY AppendProperties
  <2> QED BY <2>1, <2>2
<1>2. CASE Len(Fits(l)) < conColumns - 1
  <2>1. Len(l) < conColumns - 1
    BY <1>1, <1>2, FitsIs
  <2>2. Fits(l) = l
    BY <1>1, <2>1, FitsIs
  <2>3. Fits(m) = m
    <3> HIDE DEF m
    <3>1. Len(m) <= conColumns - 1
      BY <1>1, <2>1
    <3> QED BY <1>1, <3>1, FitsIs
  <2> QED BY <1>2, <2>2, <2>3
<1>3. CASE ~(Len(Fits(l)) < conColumns - 1)
  <2>1. Len(l) >= conColumns - 1 /\ Len(Fits(l)) = conColumns - 1
    BY <1>1, <1>3, FitsIs
  <2>2. /\ Fits(m) \in Line /\ Len(Fits(m)) = conColumns - 1
        /\ \A i \in 1 .. conColumns - 1 : Fits(m)[i] = m[i]
    <3> HIDE DEF m
    <3>1. ~(Len(m) < conColumns - 1)
      BY <1>1, <2>1
    <3>2. /\ Fits(m) \in Line /\ \A i \in 1 .. Len(Fits(m)) : Fits(m)[i] = m[i]
          /\ Len(Fits(m)) = IF Len(m) < conColumns - 1 THEN Len(m) ELSE conColumns - 1
      BY <1>1, FitsIs
    <3> QED BY <3>1, <3>2
  <2>3. \A i \in 1 .. conColumns - 1 : Fits(l)[i] = l[i] /\ i \in 1 .. Len(l)
    BY <1>1, <2>1, FitsIs
  <2>4. \A i \in 1 .. conColumns - 1 : Fits(m)[i] = Fits(l)[i]
    <3> HIDE DEF m
    <3> QED BY <1>1, <2>2, <2>3
  <2>5. Fits(l) \in Line
    BY FitsIs
  <2>6. Fits(m) = Fits(l)
    <3> HIDE DEF m
    <3> QED BY <2>1, <2>2, <2>4, <2>5, SeqEqual
  <2> QED BY <1>3, <2>6
<1> QED BY <1>2, <1>3

\* The lines put, with one more character.
LEMMA RecordIs ==
  ASSUME NEW ls \in Lines, NEW ch \in Char
  PROVE  /\ Len(ls) \in Nat \ {0} /\ Last(ls) \in Line /\ Last(ls) = ls[Len(ls)]
         /\ \A i \in 1 .. Len(ls) : ls[i] \in Line
         /\ Record(ls, ch) \in Lines
         /\ ch = "N" => /\ Len(Record(ls, ch)) = Len(ls) + 1
                        /\ \A i \in 1 .. Len(ls) : Record(ls, ch)[i] = ls[i]
                        /\ Record(ls, ch)[Len(ls) + 1] = << >>
         /\ ch # "N" => /\ Len(Record(ls, ch)) = Len(ls)
                        /\ \A i \in 1 .. Len(ls) - 1 : Record(ls, ch)[i] = ls[i]
                        /\ Record(ls, ch)[Len(ls)] = Append(Last(ls), ch)
<1>1. ls \in Seq(Line) /\ ls # << >>
  BY DEF Lines
<1>2. Len(ls) \in Nat \ {0} /\ \A i \in 1 .. Len(ls) : ls[i] \in Line
  BY <1>1, EmptySeq, ElementOfSeq
<1>3. Last(ls) \in Line /\ Last(ls) = ls[Len(ls)]
  BY <1>2 DEF Last
<1>4. CASE ch = "N"
  <2>1. Record(ls, ch) = Append(ls, << >>)
    BY <1>4 DEF Record
  <2>2. << >> \in Line
    OBVIOUS
  <2>3. /\ Append(ls, << >>) \in Seq(Line) /\ Append(ls, << >>) # << >>
        /\ Len(Append(ls, << >>)) = Len(ls) + 1
        /\ \A i \in 1 .. Len(ls) : Append(ls, << >>)[i] = ls[i]
        /\ Append(ls, << >>)[Len(ls) + 1] = << >>
    BY <1>1, <2>2, AppendProperties
  <2> QED BY <1>2, <1>3, <1>4, <2>1, <2>3 DEF Lines
<1>5. CASE ch # "N"
  <2> DEFINE front == SubSeq(ls, 1, Len(ls) - 1)
             l == Append(Last(ls), ch)
  <2>1. Record(ls, ch) = front \o <<l>>
    BY <1>5 DEF Record, Front
  <2>2. l \in Line
    BY <1>3, AppendProperties
  <2>3. front \in Seq(Line) /\ Len(front) = Len(ls) - 1 /\ \A i \in 1 .. Len(ls) - 1 : front[i] = ls[i]
    <3>1. \A i \in 1 .. Len(ls) - 1 : ls[i] \in Line
      BY <1>2
    <3> DEFINE n == Len(ls) - 1
    <3>2. n \in Int /\ 1 \in Int /\ n >= 0
      BY <1>2
    <3> HIDE DEF n
    <3>3. \A i \in 1 .. n : ls[i] \in Line
      BY <3>1 DEF n
    <3>4. /\ SubSeq(ls, 1, n) \in Seq(Line)
          /\ Len(SubSeq(ls, 1, n)) = IF 1 <= n THEN n - 1 + 1 ELSE 0
          /\ \A i \in 1 .. n - 1 + 1 : SubSeq(ls, 1, n)[i] = ls[1 + i - 1]
      BY <3>2, <3>3, SubSeqProperties
    <3>5. SubSeq(ls, 1, n) \in Seq(Line) /\ Len(SubSeq(ls, 1, n)) = n
      BY <3>2, <3>4
    <3>6. \A i \in 1 .. n : SubSeq(ls, 1, n)[i] = ls[i]
      BY <3>2, <3>4
    <3> QED BY <3>5, <3>6 DEF n
  <2> HIDE DEF front, l
  <2>4. front \o <<l>> = Append(front, l)
    BY <2>2, <2>3, AppendIsConcat
  <2>5. /\ Append(front, l) \in Seq(Line) /\ Append(front, l) # << >>
        /\ Len(Append(front, l)) = Len(front) + 1
        /\ \A i \in 1 .. Len(front) : Append(front, l)[i] = front[i]
        /\ Append(front, l)[Len(front) + 1] = l
    BY <2>2, <2>3, AppendProperties
  <2>6. Len(front) + 1 = Len(ls)
    BY <2>3, <1>2
  <2>7. Record(ls, ch) \in Lines /\ Len(Record(ls, ch)) = Len(ls) /\ Record(ls, ch)[Len(ls)] = l
    BY <2>1, <2>4, <2>5, <2>6 DEF Lines
  <2>8. \A i \in 1 .. Len(ls) - 1 : Record(ls, ch)[i] = ls[i]
    BY <2>1, <2>3, <2>4, <2>5
  <2> QED BY <1>2, <1>3, <1>5, <2>7, <2>8 DEF l
<1> QED BY <1>4, <1>5

-----------------------------------------------------------------------------
(* One character. *)

At(row, column, ch) == SubSeq(row, 1, column) \o <<ch>> \o SubSeq(row, column + 2, Len(row))

\* The cursor is at most behind the last character of its row.
Cursor == {c \in ConState : c.column <= Len(c.rows[c.row]) /\ c.column <= Len(c.buffer[c.row])}

\* The rows after they have moved up.
LEMMA MovedIs ==
  ASSUME NEW rows \in [ConRow -> Line]
  PROVE  /\ Moved(rows) \in [ConRow -> Line]
         /\ \A r \in ConRow : Moved(rows)[r] = IF r < conRows - 1 THEN rows[r + 1] ELSE << >>
<1>1. << >> \in Line
  OBVIOUS
<1>2. \A r \in ConRow : r < conRows - 1 => r + 1 \in ConRow
  BY ConsoleAssumption DEF ConRow
<1> QED BY <1>1, <1>2 DEF Moved

\* A new line.
LEMMA NewlineIs ==
  ASSUME NEW c \in Cursor
  PROVE  LET d == ConPut(c, "N")
         IN  /\ d \in Cursor /\ d.column = 0
             /\ c.row < conRows - 1 => d.row = c.row + 1 /\ d.rows = c.rows /\ d.buffer = c.buffer
             /\ ~(c.row < conRows - 1) => d.row = c.row
             /\ ~(c.row < conRows - 1) /\ in_window => d.rows = Moved(c.rows)
             /\ ~(c.row < conRows - 1) /\ ~in_window => d.rows = Moved(c.buffer) /\ d.buffer = Moved(c.buffer)
<1>1. PICK rows \in [ConRow -> Line], buffer \in [ConRow -> Line], row \in ConRow, column \in Nat :
        c = [rows |-> rows, buffer |-> buffer, row |-> row, column |-> column]
  BY DEF Cursor, ConState
<1>2. row \in Nat /\ row < conRows /\ conRows \in Nat \ {0}
  BY ConsoleAssumption DEF ConRow
<1>3. ConPut(c, "N") = ConNewline(c)
  BY DEF ConPut
<1> DEFINE start == [rows |-> rows, buffer |-> buffer, row |-> row, column |-> 0]
<1>4. [c EXCEPT !.column = 0] = start
  <2>1. [[rows |-> rows, buffer |-> buffer, row |-> row, column |-> column] EXCEPT !.column = 0] = start
    OBVIOUS
  <2> QED BY <1>1, <2>1, Zenon
<1>5. ConNewline(c) = IF row < conRows - 1 THEN [start EXCEPT !.row = @ + 1]
                      ELSE IF in_window THEN [start EXCEPT !.rows = Moved(@)]
                      ELSE [start EXCEPT !.buffer = Moved(@), !.rows = Moved(buffer)]
  BY <1>1, <1>4 DEF ConNewline
<1>6. \A r \in ConRow : Len(rows[r]) \in Nat /\ Len(buffer[r]) \in Nat
                        /\ Len(Moved(rows)[r]) \in Nat /\ Len(Moved(buffer)[r]) \in Nat
  BY MovedIs
<1>7. CASE row < conRows - 1
  <2>1. ConNewline(c) = [rows |-> rows, buffer |-> buffer, row |-> row + 1, column |-> 0]
    BY <1>5, <1>7
  <2>2. row + 1 \in ConRow
    BY <1>2, <1>7 DEF ConRow
  <2> QED BY <1>1, <1>3, <1>6, <1>7, <2>1, <2>2 DEF Cursor, ConState
<1>8. CASE ~(row < conRows - 1) /\ in_window
  <2>1. ConNewline(c) = [rows |-> Moved(rows), buffer |-> buffer, row |-> row, column |-> 0]
    BY <1>5, <1>8
  <2>2. Moved(rows) \in [ConRow -> Line]
    BY MovedIs
  <2> QED BY <1>1, <1>3, <1>6, <1>8, <2>1, <2>2 DEF Cursor, ConState
<1>9. CASE ~(row < conRows - 1) /\ ~in_window
  <2>1. ConNewline(c) = [rows |-> Moved(buffer), buffer |-> Moved(buffer), row |-> row, column |-> 0]
    BY <1>5, <1>9
  <2>2. Moved(buffer) \in [ConRow -> Line]
    BY MovedIs
  <2> QED BY <1>1, <1>3, <1>6, <1>9, <2>1, <2>2 DEF Cursor, ConState
<1> QED BY <1>7, <1>8, <1>9

\* Any other character.
LEMMA CharacterIs ==
  ASSUME NEW c \in Cursor, NEW ch \in Char, ch # "N"
  PROVE  /\ ConPut(c, ch) \in Cursor
         /\ ~(c.column < conColumns - 1) => ConPut(c, ch) = c
         /\ c.column < conColumns - 1 =>
              /\ ConPut(c, ch).rows = [c.rows EXCEPT ![c.row] = At(@, c.column, ch)]
              /\ ConPut(c, ch).buffer = [c.buffer EXCEPT ![c.row] = At(@, c.column, ch)]
              /\ ConPut(c, ch).row = c.row /\ ConPut(c, ch).column = c.column + 1
<1>1. PICK rows \in [ConRow -> Line], buffer \in [ConRow -> Line], row \in ConRow, column \in Nat :
        c = [rows |-> rows, buffer |-> buffer, row |-> row, column |-> column]
  BY DEF Cursor, ConState
<1>2. column <= Len(rows[row]) /\ column <= Len(buffer[row])
  BY <1>1 DEF Cursor
<1>3. CASE column < conColumns - 1
  <2> DEFINE d == [rows |-> [rows EXCEPT ![row] = At(@, column, ch)],
                   buffer |-> [buffer EXCEPT ![row] = At(@, column, ch)], row |-> row, column |-> column + 1]
  <2>1. ConPut(c, ch) = d
    BY <1>1, <1>3 DEF ConPut, At
  <2>2. /\ At(rows[row], column, ch) \in Line /\ column + 1 <= Len(At(rows[row], column, ch))
        /\ At(buffer[row], column, ch) \in Line /\ column + 1 <= Len(At(buffer[row], column, ch))
    BY <1>2, RowIs DEF At
  <2>3. d \in Cursor
    BY <2>2 DEF Cursor, ConState
  <2>4. d.rows = [rows EXCEPT ![row] = At(@, column, ch)] /\ d.buffer = [buffer EXCEPT ![row] = At(@, column, ch)]
        /\ d.row = row /\ d.column = column + 1
    OBVIOUS
  <2>5. c.rows = rows /\ c.buffer = buffer /\ c.row = row /\ c.column = column
    BY <1>1
  <2> HIDE DEF d
  <2> QED BY <1>3, <2>1, <2>3, <2>4, <2>5
<1>4. CASE ~(column < conColumns - 1)
  <2>1. ConPut(c, ch) = c
    BY <1>1, <1>4 DEF ConPut
  <2> QED BY <1>1, <1>4, <2>1
<1> QED BY <1>3, <1>4

-----------------------------------------------------------------------------
(* What is shown. *)

First(n) == IF n > conRows THEN n - conRows ELSE 0

Shown(rows, ls) ==
  \A r \in ConRow :
    rows[r] = IF First(Len(ls)) + r + 1 <= Len(ls) THEN Fits(ls[First(Len(ls)) + r + 1]) ELSE << >>

\* The console shows the lines, its cursor is behind the last of them, and on the screen buffer_ has the
\* same rows.
Sound(c, ls) ==
  /\ c \in Cursor /\ ls \in Lines
  /\ c.row = Len(ls) - First(Len(ls)) - 1 /\ c.column = Len(Fits(Last(ls)))
  /\ Shown(c.rows, ls)
  /\ ~in_window => c.buffer = c.rows

\* A new line is shown.
LEMMA NewlineIsShown ==
  ASSUME NEW c, NEW ls, Sound(c, ls)
  PROVE  Sound(ConPut(c, "N"), Record(ls, "N"))
<1> DEFINE d == ConPut(c, "N")
           ms == Record(ls, "N")
           n == Len(ls)
<1>1. c \in Cursor /\ ls \in Lines /\ c.row = n - First(n) - 1 /\ Shown(c.rows, ls)
      /\ (~in_window => c.buffer = c.rows)
  BY DEF Sound
<1>2. /\ d \in Cursor /\ d.column = 0
      /\ c.row < conRows - 1 => d.row = c.row + 1 /\ d.rows = c.rows /\ d.buffer = c.buffer
      /\ ~(c.row < conRows - 1) => d.row = c.row
      /\ ~(c.row < conRows - 1) /\ in_window => d.rows = Moved(c.rows)
      /\ ~(c.row < conRows - 1) /\ ~in_window => d.rows = Moved(c.buffer) /\ d.buffer = Moved(c.buffer)
  BY <1>1, NewlineIs
<1>3. "N" \in Char
  BY DEF Char
<1>4. /\ n \in Nat \ {0} /\ ms \in Lines /\ Len(ms) = n + 1
      /\ \A i \in 1 .. n : ms[i] = ls[i]
      /\ ms[n + 1] = << >>
  BY <1>1, <1>3, RecordIs
<1>5. Last(ms) = << >>
  BY <1>4 DEF Last
<1>6. Fits(<< >>) = << >> /\ Len(Fits(<< >>)) = 0
  <2>1. << >> \in Line /\ Len(<< >>) = 0 /\ 0 <= conColumns - 1
    BY ConsoleAssumption
  <2> QED BY <2>1, FitsIs
<1>7. c.rows \in [ConRow -> Line] /\ conRows \in Nat \ {0}
  BY <1>1, ConsoleAssumption DEF Cursor, ConState
<1> HIDE DEF d, ms, n
<1>8. CASE n < conRows
  <2>1. First(n) = 0 /\ First(n + 1) = 0 /\ c.row = n - 1 /\ c.row < conRows - 1
    BY <1>1, <1>4, <1>7, <1>8 DEF First
  <2>2. d.row = (n + 1) - First(n + 1) - 1
    BY <1>2, <1>4, <2>1
  <2>3. Shown(d.rows, ms)
    <3> SUFFICES ASSUME NEW r \in ConRow
                 PROVE  d.rows[r] = IF 0 + r + 1 <= n + 1 THEN Fits(ms[0 + r + 1]) ELSE << >>
      BY <1>4, <2>1 DEF Shown
    <3>1. c.rows[r] = IF 0 + r + 1 <= n THEN Fits(ls[0 + r + 1]) ELSE << >>
      BY <1>1, <2>1 DEF Shown, n
    <3>2. r \in Nat
      BY <1>7 DEF ConRow
    <3>3. d.rows[r] = c.rows[r]
      BY <1>2, <2>1
    <3>4. CASE r + 1 <= n
      BY <1>4, <3>1, <3>2, <3>3, <3>4
    <3>5. CASE r = n
      BY <1>4, <1>6, <3>1, <3>2, <3>3, <3>5
    <3>6. CASE r > n
      BY <1>4, <3>1, <3>2, <3>3, <3>6
    <3> QED BY <1>4, <3>2, <3>4, <3>5, <3>6
  <2>4. ~in_window => d.buffer = d.rows
    BY <1>1, <1>2, <2>1
  <2> QED BY <1>2, <1>4, <1>5, <1>6, <2>2, <2>3, <2>4 DEF Sound, d, ms
<1>9. CASE n >= conRows
  <2>1. First(n) = n - conRows /\ First(n + 1) = n + 1 - conRows /\ c.row = conRows - 1
    BY <1>1, <1>4, <1>7, <1>9 DEF First
  <2>2. ~(c.row < conRows - 1)
    BY <1>7, <2>1
  <2>3. d.row = (n + 1) - First(n + 1) - 1
    BY <1>2, <1>4, <1>7, <2>1, <2>2
  <2>4. d.rows = Moved(c.rows)
    BY <1>1, <1>2, <2>2
  <2>5. Shown(d.rows, ms)
    <3> SUFFICES ASSUME NEW r \in ConRow
                 PROVE  d.rows[r] = IF First(n + 1) + r + 1 <= n + 1 THEN Fits(ms[First(n + 1) + r + 1]) ELSE << >>
      BY <1>4 DEF Shown
    <3>1. r \in Nat /\ r < conRows
      BY <1>7 DEF ConRow
    <3>2. d.rows[r] = IF r < conRows - 1 THEN c.rows[r + 1] ELSE << >>
      BY <2>4, <1>7, MovedIs
    <3>3. CASE r < conRows - 1
      <4> DEFINE s == r + 1
                 i == n - conRows + r + 2
      <4>1. s \in ConRow /\ i \in 1 .. n /\ First(n) + s + 1 = i /\ First(n + 1) + r + 1 = i
        BY <1>4, <1>7, <1>9, <2>1, <3>1, <3>3 DEF ConRow
      <4> HIDE DEF s, i
      <4>2. c.rows[s] = IF First(n) + s + 1 <= n THEN Fits(ls[First(n) + s + 1]) ELSE << >>
        BY <1>1, <4>1 DEF Shown, n
      <4>3. c.rows[s] = Fits(ls[i])
        BY <1>4, <4>1, <4>2
      <4>4. d.rows[r] = c.rows[s]
        BY <3>2, <3>3 DEF s
      <4> QED BY <1>4, <4>1, <4>3, <4>4
    <3>4. CASE ~(r < conRows - 1)
      <4>1. First(n + 1) + r + 1 = n + 1
        BY <1>4, <1>7, <2>1, <3>1, <3>4
      <4> QED BY <1>4, <1>6, <3>2, <3>4, <4>1
    <3> QED BY <3>3, <3>4
  <2>6. ~in_window => d.buffer = d.rows
    BY <1>1, <1>2, <2>2
  <2> QED BY <1>2, <1>4, <1>5, <1>6, <2>3, <2>5, <2>6 DEF Sound, d, ms
<1> QED BY <1>4, <1>7, <1>8, <1>9

\* Any other character is shown, if the row has room for it.
LEMMA CharacterIsShown ==
  ASSUME NEW c, NEW ls, NEW ch \in Char, ch # "N", Sound(c, ls)
  PROVE  Sound(ConPut(c, ch), Record(ls, ch))
<1> DEFINE d == ConPut(c, ch)
           ms == Record(ls, ch)
           n == Len(ls)
           last == Last(ls)
<1>1. c \in Cursor /\ ls \in Lines /\ c.row = n - First(n) - 1 /\ c.column = Len(Fits(last)) /\ Shown(c.rows, ls)
      /\ (~in_window => c.buffer = c.rows)
  BY DEF Sound
<1>2. /\ d \in Cursor
      /\ ~(c.column < conColumns - 1) => d = c
      /\ c.column < conColumns - 1 =>
           /\ d.rows = [c.rows EXCEPT ![c.row] = At(@, c.column, ch)]
           /\ d.buffer = [c.buffer EXCEPT ![c.row] = At(@, c.column, ch)]
           /\ d.row = c.row /\ d.column = c.column + 1
  BY <1>1, CharacterIs
<1>3. /\ n \in Nat \ {0} /\ last \in Line /\ last = ls[n] /\ ms \in Lines /\ Len(ms) = n
      /\ \A i \in 1 .. n - 1 : ms[i] = ls[i]
      /\ ms[n] = Append(last, ch)
  BY <1>1, RecordIs
<1>4. Last(ms) = Append(last, ch)
  BY <1>3 DEF Last
<1>5. c.rows \in [ConRow -> Line] /\ c.row \in ConRow /\ conRows \in Nat \ {0}
  BY <1>1, ConsoleAssumption DEF Cursor, ConState
<1>6. Fits(last) \in Line /\ Len(Fits(last)) \in Nat
  BY <1>3, FitsIs, LenProperties
<1> HIDE DEF d, ms, n, last
<1>7. c.row \in Nat /\ First(n) + c.row + 1 = n /\ First(n) \in Nat
  <2>1. PICK row \in Nat : row = c.row
    BY <1>5 DEF ConRow
  <2>2. First(n) \in Nat /\ n \in Nat
    BY <1>3, <1>5 DEF First
  <2>3. row = n - First(n) - 1
    BY <2>1, <1>1
  <2> HIDE DEF First
  <2>4. First(n) + row + 1 = n
    BY <2>2, <2>3
  <2> QED BY <2>1, <2>2, <2>4
<1>8. c.rows[c.row] = Fits(last)
  <2>1. c.rows[c.row] = IF First(n) + c.row + 1 <= n THEN Fits(ls[First(n) + c.row + 1]) ELSE << >>
    BY <1>1, <1>5 DEF Shown, n
  <2> QED BY <2>1, <1>3, <1>7
<1>9. CASE c.column < conColumns - 1
  <2>1. Fits(Append(last, ch)) = Append(Fits(last), ch)
    BY <1>1, <1>3, <1>9, FitsAppended
  <2>2. Len(Fits(Append(last, ch))) = c.column + 1
    BY <1>1, <1>6, <2>1, AppendProperties
  <2>3. At(c.rows[c.row], c.column, ch) = Append(Fits(last), ch)
    <3>1. c.column \in Nat /\ c.column <= Len(Fits(last))
      BY <1>1, <1>6
    <3> QED BY <1>1, <1>6, <1>8, <3>1, RowIs DEF At
  <2>4. d.rows = [c.rows EXCEPT ![c.row] = Fits(Append(last, ch))]
    BY <1>2, <1>9, <2>1, <2>3
  <2>5. Shown(d.rows, ms)
    <3> SUFFICES ASSUME NEW r \in ConRow
                 PROVE  d.rows[r] = IF First(n) + r + 1 <= n THEN Fits(ms[First(n) + r + 1]) ELSE << >>
      BY <1>3 DEF Shown
    <3>1. c.rows[r] = IF First(n) + r + 1 <= n THEN Fits(ls[First(n) + r + 1]) ELSE << >>
      BY <1>1 DEF Shown, n
    <3>2. r \in Nat
      BY <1>5 DEF ConRow
    <3>3. CASE r = c.row
      <4>1. d.rows[r] = Fits(Append(last, ch))
        BY <1>5, <2>4, <3>3
      <4>2. First(n) + r + 1 = n /\ First(n) + r + 1 <= n
        BY <1>3, <1>7, <3>3
      <4> QED BY <1>3, <4>1, <4>2
    <3>4. CASE r # c.row
      <4>1. d.rows[r] = c.rows[r]
        BY <1>5, <2>4, <3>4
      <4>2. CASE First(n) + r + 1 <= n
        <5>1. First(n) + r + 1 \in 1 .. n - 1
          BY <1>3, <1>7, <3>2, <3>4, <4>2
        <5> QED BY <1>3, <3>1, <4>1, <4>2, <5>1
      <4>3. CASE ~(First(n) + r + 1 <= n)
        BY <3>1, <4>1, <4>3
      <4> QED BY <4>2, <4>3
    <3> QED BY <3>3, <3>4
  <2>6. ~in_window => d.buffer = d.rows
    BY <1>1, <1>2, <1>9
  <2>7. d.row = n - First(n) - 1 /\ d.column = Len(Fits(Append(last, ch)))
    BY <1>1, <1>2, <1>9, <2>2
  <2> QED BY <1>2, <1>3, <1>4, <2>5, <2>6, <2>7 DEF Sound, d, ms
<1>10. CASE ~(c.column < conColumns - 1)
  <2>1. d = c
    BY <1>2, <1>10
  <2>2. Fits(Append(last, ch)) = Fits(last)
    BY <1>1, <1>3, <1>10, FitsAppended
  <2>3. Shown(c.rows, ms)
    <3> SUFFICES ASSUME NEW r \in ConRow
                 PROVE  c.rows[r] = IF First(n) + r + 1 <= n THEN Fits(ms[First(n) + r + 1]) ELSE << >>
      BY <1>3 DEF Shown
    <3>1. c.rows[r] = IF First(n) + r + 1 <= n THEN Fits(ls[First(n) + r + 1]) ELSE << >>
      BY <1>1 DEF Shown, n
    <3>2. r \in Nat
      BY <1>5 DEF ConRow
    <3>3. CASE First(n) + r + 1 = n
      BY <1>3, <2>2, <3>1, <3>3
    <3>4. CASE First(n) + r + 1 < n
      <4>1. First(n) + r + 1 \in 1 .. n - 1
        BY <1>3, <1>7, <3>2, <3>4
      <4> QED BY <1>3, <3>1, <3>4, <4>1
    <3>5. CASE First(n) + r + 1 > n
      BY <1>3, <1>7, <3>1, <3>2, <3>5
    <3> QED BY <1>3, <1>7, <3>2, <3>3, <3>4, <3>5
  <2> QED BY <1>1, <1>3, <1>4, <2>1, <2>2, <2>3 DEF Sound, d, ms, n, last
<1> QED BY <1>9, <1>10

-----------------------------------------------------------------------------
(* A message, and the theorem. *)

\* A character leaves the console a console.
LEMMA PutIsTyped ==
  ASSUME NEW c \in Cursor, NEW ch \in Char
  PROVE  ConPut(c, ch) \in Cursor
<1>1. CASE ch = "N"
  BY <1>1, NewlineIs
<1>2. CASE ch # "N"
  BY <1>2, CharacterIs
<1> QED BY <1>1, <1>2

\* The console after 0, 1, ... characters of a message.
LEMMA PutOneByOne ==
  ASSUME NEW c \in Cursor, NEW s \in Line
  PROVE  \E f : /\ f[0] = c
                /\ \A i \in 1 .. Len(s) : f[i] = ConPut(f[i - 1], s[i])
                /\ f[Len(s)] = FoldLeft(ConPut, c, s)
<1> DEFINE n == Len(s)
           op(x, y) == ConPut(y, x)
           F == [p \in (1 .. n) \X Cursor |-> op(s[p[1]], p[2])]
           Body(g, t) == IF t = {} THEN c ELSE op(s[Max(t)], g[t \ {Max(t)}])
<1>1. n \in Nat /\ \A i \in 1 .. n : s[i] \in Char
  BY ElementOfSeq
<1>2. F \in [(1 .. n) \X Cursor -> Cursor]
  BY <1>1, PutIsTyped
<1>3. \A i \in 1 .. n : \A b \in Cursor : F[<<i, b>>] = op(s[i], b)
  OBVIOUS
<1> HIDE DEF F
<1>4. PICK g \in [SUBSET (1 .. n) -> Cursor] :
        \A t \in SUBSET (1 .. n) : g[t] = IF t = {} THEN c ELSE F[<<Max(t), g[t \ {Max(t)}]>>]
  <2> HIDE DEF n, op, Body
  <2>1. n \in Nat /\ c \in Cursor
    BY <1>1
  <2>2. Iteration(n, Cursor, c, F)
    BY <2>1, <1>2, Iterates
  <2> QED BY <2>2 DEF Iteration
<1>5. g = [t \in SUBSET (1 .. n) |-> Body(g, t)]
  <2>1. ASSUME NEW t \in SUBSET (1 .. n) PROVE g[t] = Body(g, t)
    <3>1. CASE t = {}
      BY <1>4, <3>1
    <3>2. CASE t # {}
      <4>1. Max(t) \in 1 .. n
        BY <1>1, <3>2, MaxOf
      <4>2. g[t \ {Max(t)}] \in Cursor
        OBVIOUS
      <4> QED BY <1>3, <1>4, <3>2, <4>1, <4>2
    <3> QED BY <3>1, <3>2
  <2> HIDE DEF Body
  <2> QED BY <2>1
<1> DEFINE iter == CHOOSE h : h = [t \in SUBSET (1 .. n) |-> Body(h, t)]
<1>6. iter = [t \in SUBSET (1 .. n) |-> Body(iter, t)]
  <2> HIDE DEF Body
  <2> QED BY <1>5
<1>7. FoldLeft(ConPut, c, s) = iter[1 .. n]
  <2>1. DOMAIN s = 1 .. n
    OBVIOUS
  <2> QED BY <2>1 DEF FoldLeft, MapThenFoldSet
<1> DEFINE f == [i \in 0 .. n |-> iter[1 .. i]]
<1> HIDE DEF iter
<1>8. f[0] = c
  <2>1. 1 .. 0 = {} /\ 1 .. 0 \in SUBSET (1 .. n) /\ 0 \in 0 .. n
    BY <1>1
  <2> QED BY <2>1, <1>6
<1>9. \A i \in 1 .. n : f[i] = ConPut(f[i - 1], s[i])
  <2> SUFFICES ASSUME NEW i \in 1 .. n PROVE f[i] = ConPut(f[i - 1], s[i])
    OBVIOUS
  <2>1. /\ 1 .. i \in SUBSET (1 .. n) /\ 1 .. i # {} /\ Max(1 .. i) = i /\ (1 .. i) \ {i} = 1 .. i - 1
    BY <1>1, Initial
  <2>2. iter[1 .. i] = Body(iter, 1 .. i)
    BY <2>1, <1>6
  <2>3. i - 1 \in 0 .. n /\ i \in 0 .. n
    BY <1>1
  <2> QED BY <2>1, <2>2, <2>3
<1>10. f[n] = FoldLeft(ConPut, c, s)
  BY <1>1, <1>7
<1> HIDE DEF f
<1> QED BY <1>8, <1>9, <1>10

\* The lines put after 0, 1, ... characters of a message.
LEMMA RecordOneByOne ==
  ASSUME NEW c \in Lines, NEW s \in Line
  PROVE  \E f : /\ f[0] = c
                /\ \A i \in 1 .. Len(s) : f[i] = Record(f[i - 1], s[i])
                /\ f[Len(s)] = FoldLeft(Record, c, s)
<1> DEFINE n == Len(s)
           op(x, y) == Record(y, x)
           F == [p \in (1 .. n) \X Lines |-> op(s[p[1]], p[2])]
           Body(g, t) == IF t = {} THEN c ELSE op(s[Max(t)], g[t \ {Max(t)}])
<1>1. n \in Nat /\ \A i \in 1 .. n : s[i] \in Char
  BY ElementOfSeq
<1>2. F \in [(1 .. n) \X Lines -> Lines]
  BY <1>1, RecordIs
<1>3. \A i \in 1 .. n : \A b \in Lines : F[<<i, b>>] = op(s[i], b)
  OBVIOUS
<1> HIDE DEF F
<1>4. PICK g \in [SUBSET (1 .. n) -> Lines] :
        \A t \in SUBSET (1 .. n) : g[t] = IF t = {} THEN c ELSE F[<<Max(t), g[t \ {Max(t)}]>>]
  <2> HIDE DEF n, op, Body
  <2>1. n \in Nat /\ c \in Lines
    BY <1>1
  <2>2. Iteration(n, Lines, c, F)
    BY <2>1, <1>2, Iterates
  <2> QED BY <2>2 DEF Iteration
<1>5. g = [t \in SUBSET (1 .. n) |-> Body(g, t)]
  <2>1. ASSUME NEW t \in SUBSET (1 .. n) PROVE g[t] = Body(g, t)
    <3>1. CASE t = {}
      BY <1>4, <3>1
    <3>2. CASE t # {}
      <4>1. Max(t) \in 1 .. n
        BY <1>1, <3>2, MaxOf
      <4>2. g[t \ {Max(t)}] \in Lines
        OBVIOUS
      <4> QED BY <1>3, <1>4, <3>2, <4>1, <4>2
    <3> QED BY <3>1, <3>2
  <2> HIDE DEF Body
  <2> QED BY <2>1
<1> DEFINE iter == CHOOSE h : h = [t \in SUBSET (1 .. n) |-> Body(h, t)]
<1>6. iter = [t \in SUBSET (1 .. n) |-> Body(iter, t)]
  <2> HIDE DEF Body
  <2> QED BY <1>5
<1>7. FoldLeft(Record, c, s) = iter[1 .. n]
  <2>1. DOMAIN s = 1 .. n
    OBVIOUS
  <2> QED BY <2>1 DEF FoldLeft, MapThenFoldSet
<1> DEFINE f == [i \in 0 .. n |-> iter[1 .. i]]
<1> HIDE DEF iter
<1>8. f[0] = c
  <2>1. 1 .. 0 = {} /\ 1 .. 0 \in SUBSET (1 .. n) /\ 0 \in 0 .. n
    BY <1>1
  <2> QED BY <2>1, <1>6
<1>9. \A i \in 1 .. n : f[i] = Record(f[i - 1], s[i])
  <2> SUFFICES ASSUME NEW i \in 1 .. n PROVE f[i] = Record(f[i - 1], s[i])
    OBVIOUS
  <2>1. /\ 1 .. i \in SUBSET (1 .. n) /\ 1 .. i # {} /\ Max(1 .. i) = i /\ (1 .. i) \ {i} = 1 .. i - 1
    BY <1>1, Initial
  <2>2. iter[1 .. i] = Body(iter, 1 .. i)
    BY <2>1, <1>6
  <2>3. i - 1 \in 0 .. n /\ i \in 0 .. n
    BY <1>1
  <2> QED BY <2>1, <2>2, <2>3
<1>10. f[n] = FoldLeft(Record, c, s)
  BY <1>1, <1>7
<1> HIDE DEF f
<1> QED BY <1>8, <1>9, <1>10

\* Where FoldLeft gets to.
LEMMA MessageIsShown ==
  ASSUME NEW c, NEW ls, NEW s \in Line, Sound(c, ls)
  PROVE  Sound(FoldLeft(ConPut, c, s), FoldLeft(Record, ls, s))
<1>1. c \in Cursor /\ ls \in Lines
  BY DEF Sound
<1>2. PICK f : /\ f[0] = c
               /\ \A i \in 1 .. Len(s) : f[i] = ConPut(f[i - 1], s[i])
               /\ f[Len(s)] = FoldLeft(ConPut, c, s)
  BY <1>1, PutOneByOne
<1>3. PICK g : /\ g[0] = ls
               /\ \A i \in 1 .. Len(s) : g[i] = Record(g[i - 1], s[i])
               /\ g[Len(s)] = FoldLeft(Record, ls, s)
  BY <1>1, RecordOneByOne
<1> DEFINE Good == {m \in Nat : m <= Len(s) => Sound(f[m], g[m])}
<1>4. 0 \in Good
  BY <1>2, <1>3
<1>5. \A m \in Good : m + 1 \in Good
  <2> SUFFICES ASSUME NEW m \in Nat, Sound(f[m], g[m]), m + 1 <= Len(s)
               PROVE  Sound(f[m + 1], g[m + 1])
    BY LenProperties
  <2>1. m + 1 \in 1 .. Len(s) /\ (m + 1) - 1 = m
    BY LenProperties
  <2>2. s[m + 1] \in Char
    BY <2>1, ElementOfSeq
  <2>3. f[m + 1] = ConPut(f[m], s[m + 1]) /\ g[m + 1] = Record(g[m], s[m + 1])
    BY <1>2, <1>3, <2>1
  <2>4. Sound(ConPut(f[m], s[m + 1]), Record(g[m], s[m + 1]))
    <3>1. CASE s[m + 1] = "N"
      BY <3>1, NewlineIsShown
    <3>2. CASE s[m + 1] # "N"
      BY <2>2, <3>2, CharacterIsShown
    <3> QED BY <3>1, <3>2
  <2> QED BY <2>3, <2>4
<1>6. Good = Nat
  <2> HIDE DEF Good
  <2>1. Good \in SUBSET Nat
    BY DEF Good
  <2> QED BY <1>4, <1>5, <2>1, InductionOn
<1>7. Len(s) \in Good /\ Len(s) \in Nat
  BY <1>6, LenProperties
<1> QED BY <1>2, <1>3, <1>7

ConsoleInv == Sound(Con, logged)

\* The invariant says that the console shows the log.
LEMMA ShownIs ==
  ASSUME ConsoleInv
  PROVE  ShowsTheLog
<1>1. Shown(con_rows, logged)
  BY DEF ConsoleInv, Sound, Con
<1> QED BY <1>1 DEF Shown, First, Fits, ShowsTheLog

\* The invariant holds at first.
LEMMA ConsoleStarts ==
  ASSUME ConsoleInit
  PROVE  ConsoleInv
<1>1. Con = [rows |-> EmptyRows, buffer |-> EmptyRows, row |-> 0, column |-> 0] /\ logged = << << >> >>
  BY DEF ConsoleInit, Con
<1>2. << >> \in Line /\ 0 \in ConRow /\ conRows \in Nat \ {0} /\ conColumns \in Nat \ {0}
  BY ConsoleAssumption DEF ConRow
<1>3. EmptyRows \in [ConRow -> Line] /\ \A r \in ConRow : EmptyRows[r] = << >>
  BY <1>2 DEF EmptyRows
<1>4. Con \in Cursor
  BY <1>1, <1>2, <1>3 DEF Cursor, ConState
<1>5. logged \in Lines /\ Len(logged) = 1 /\ logged[1] = << >> /\ Last(logged) = << >>
  BY <1>1, <1>2 DEF Lines, Last
<1>6. Fits(<< >>) = << >> /\ Len(Fits(<< >>)) = 0
  <2>1. << >> \in Line /\ Len(<< >>) = 0 /\ 0 <= conColumns - 1
    BY <1>2
  <2> QED BY <2>1, FitsIs
<1>7. First(1) = 0
  BY <1>2 DEF First
<1>8. Shown(EmptyRows, logged)
  <2> SUFFICES ASSUME NEW r \in ConRow
               PROVE  EmptyRows[r] = IF 0 + r + 1 <= 1 THEN Fits(logged[0 + r + 1]) ELSE << >>
    BY <1>5, <1>7 DEF Shown
  <2>1. r \in Nat
    BY <1>2 DEF ConRow
  <2> QED BY <2>1, <1>3, <1>5, <1>6
<1>9. Con.rows = EmptyRows /\ Con.buffer = EmptyRows /\ Con.row = 0 /\ Con.column = 0
  BY <1>1
<1> QED BY <1>4, <1>5, <1>6, <1>7, <1>8, <1>9 DEF ConsoleInv, Sound

\* A message keeps it.
LEMMA LogStringStep ==
  ASSUME ConsoleInv, LogString
  PROVE  ConsoleInv'
<1>1. PICK s \in LogTexts : SetCon(FoldLeft(ConPut, Con, s)) /\ logged' = FoldLeft(Record, logged, s)
                            /\ in_window' = in_window
  BY DEF LogString
<1>0. PICK d, ms : d = FoldLeft(ConPut, Con, s) /\ ms = FoldLeft(Record, logged, s)
  OBVIOUS
<1>2. s \in Line
  <2>1. STRING \subseteq Char /\ s \in Seq(STRING)
    BY ConsoleAssumption DEF Char
  <2> QED BY <2>1, SeqMonotonic
<1>3. Sound(d, ms)
  BY <1>0, <1>2, MessageIsShown DEF ConsoleInv
<1>4. d \in Cursor
  BY <1>3 DEF Sound
<1>5. PICK rows \in [ConRow -> Line], buffer \in [ConRow -> Line], row \in ConRow, column \in Nat :
        d = [rows |-> rows, buffer |-> buffer, row |-> row, column |-> column]
  BY <1>4 DEF Cursor, ConState
<1>6. con_rows' = rows /\ con_buffer' = buffer /\ con_row' = row /\ con_column' = column
  BY <1>0, <1>1, <1>5 DEF SetCon
<1>7. Con' = d /\ logged' = ms
  BY <1>0, <1>1, <1>5, <1>6 DEF Con
<1>8. Sound(d, ms)'
  BY <1>1, <1>3 DEF Sound
<1> QED BY <1>7, <1>8 DEF ConsoleInv

\* The change to a window keeps it.
LEMMA SetWindowStep ==
  ASSUME ConsoleInv, SetWindow
  PROVE  ConsoleInv'
<1>1. con_rows' = con_rows /\ con_buffer' = con_buffer /\ con_row' = con_row /\ con_column' = con_column
      /\ logged' = logged /\ in_window' = TRUE
  BY DEF SetWindow, ConsoleInv, Sound, Con
<1> QED BY <1>1 DEF ConsoleInv, Sound, Con, Cursor, ConState, Shown

\* The console shows the last lines logged, each as far as it fits, before and after it moves to its window
\* (ShowsTheLog), for every size of it and messages of any text. The rows on the screen and buffer_ are the
\* same until then, which is what the window is first drawn from; that a message keeps this is an induction
\* over its characters.
THEOREM ConsoleShowsTheLog == ConsoleInit /\ [][ConsoleNext]_consoleVars => []ShowsTheLog
<1>1. ConsoleInv /\ [ConsoleNext]_consoleVars => ConsoleInv'
  <2>1. ASSUME ConsoleInv, UNCHANGED consoleVars PROVE ConsoleInv'
    BY <2>1 DEF consoleVars, ConsoleInv, Sound, Con, Shown
  <2> QED BY <2>1, LogStringStep, SetWindowStep DEF ConsoleNext
<1> QED BY <1>1, ConsoleStarts, ShownIs, PTL

=============================================================================
