----------------------------- MODULE PipeProofs -----------------------------
(* Proofs about Pipe, for every number of tasks, every size of a message and *)
(* every length of a Write or a Read: the pipe is a byte stream, and both    *)
(* its ends end cleanly.                                                     *)
EXTENDS Pipe, TaskManagerProofs

-----------------------------------------------------------------------------
(* The inductive invariant.                                                 *)

\* The messages of the kernel, and those of a pipe.
Signals == [type : {"xhci", "layer", "key", "finish"}]
PipeMessages == [type : {"pipe"}, data : Seq(Nat)]
AllMessages == Signals \cup PipeMessages

Stages == {"start", "loop", "sent", "line", "started", "command", "write", "wait", "read"}

PipeTypes ==
  /\ stage \in [TaskId -> Stages]
  /\ inbox \in [TaskId -> AllMessages \cup {NoMessage}]
  /\ todo \in [TaskId -> Nat] /\ writes \in [TaskId -> Nat] /\ want \in [TaskId -> Nat]
  /\ data \in [TaskId -> Seq(Nat)] /\ rcvd \in [TaskId -> Seq(Nat)]
  /\ sent \in [TaskId -> Nat]
  /\ closed \in [TaskId -> BOOLEAN] /\ ended \in [TaskId -> BOOLEAN]
  /\ eof \in [TaskId -> BOOLEAN] /\ freed \in [TaskId -> BOOLEAN]
  /\ keys \in Nat /\ prints \in Nat

\* The main task gets nothing but what it can handle.
ForMain(m) == m.type \in {"xhci", "layer"}
MainIsServed ==
  /\ \A i \in 1..Len(msgs[Main]) : ForMain(msgs[Main][i])
  /\ stage[Main] = "loop" /\ pc[Main] = "run" => ForMain(inbox[Main])

\* Where the keys go, and whom the terminal's command writes to: a subtask whose pipe
\* has not ended.
Connected == stage[Terminal] \in {"started", "command", "write"}
TerminalIsSound ==
  /\ focus \in {Terminal} \cup Children
  /\ stage[Terminal] \in {"start", "loop", "line", "started"} => focus = Terminal
  /\ stage[Terminal] \in {"command", "write", "wait"} => focus = subtask[Terminal]
  /\ Connected \/ stage[Terminal] = "wait" => subtask[Terminal] \in Children
  /\ Connected => subtask[Terminal] <= latest_id /\ ~ended[subtask[Terminal]]

\* The bytes a + 1, ..., a + n.
Bytes(a, n) == [k \in 1..n |-> a + k]

\* What message m brings to the reader c, who has had the first a bytes, makes it b
\* bytes. A message of no bytes ends the pipe.
Carries(c, m, a, b) ==
  IF m.type = "pipe"
  THEN /\ a <= b /\ m.data = Bytes(a, b - a)
       /\ a = b => ended[c] /\ a = sent[c]
  ELSE a = b

\* The bytes that have left the messages.
Reached(c) == Len(rcvd[c]) + Len(data[c])

\* Read has taken a message and not looked at it yet.
Holding(c) == stage[c] = "read" /\ pc[c] = "run"

\* The message in hand and those in the queue bring what was sent and not reached,
\* in order: before message i of the queue the reader has upto[i] bytes.
Brings(c, upto) ==
  /\ upto \in [1..Len(msgs[c]) + 1 -> Nat]
  /\ IF Holding(c) THEN Carries(c, inbox[c], Reached(c), upto[1])
                   ELSE upto[1] = Reached(c)
  /\ \A i \in 1..Len(msgs[c]) : Carries(c, msgs[c][i], upto[i], upto[i + 1])
  /\ upto[Len(msgs[c]) + 1] = sent[c]
  /\ \A i \in 1..Len(msgs[c]) + 1 : upto[i] <= sent[c]

InOrder(c) ==
  /\ rcvd[c] = Bytes(0, Len(rcvd[c]))
  /\ data[c] = Bytes(Len(rcvd[c]), Len(data[c]))
  /\ closed[c] => ended[c] /\ Reached(c) = sent[c]
  /\ \E upto : Brings(c, upto)

\* A reader that runs. It takes messages only when it has no bytes left.
IsReading(c) ==
  /\ stage[c] \in {"start", "read"}
  /\ stage[c] = "start" => pc[c] = "run"
  /\ stage[c] = "read" => want[c] > 0 /\ data[c] = << >> /\ ~closed[c]

\* A task that has not been made yet.
IsFresh(c) ==
  /\ stage[c] = "start" /\ pc[c] = "run" /\ msgs[c] = << >>
  /\ data[c] = << >> /\ rcvd[c] = << >> /\ sent[c] = 0
  /\ ~closed[c] /\ ~ended[c] /\ ~eof[c] /\ ~freed[c]

ReaderIsSound(c) ==
  /\ c \in tasks => IsReading(c) /\ InOrder(c)
  /\ c > latest_id => IsFresh(c)
  /\ freed[c] => c \notin tasks /\ ~eof[c]
  /\ eof[c] => ended[c]

PipeInv ==
  /\ Sound(AllMessages)
  /\ PipeTypes
  /\ MainIsServed
  /\ TerminalIsSound
  /\ \A c \in Children : ReaderIsSound(c)

-----------------------------------------------------------------------------
(* Stretches of the stream.                                                 *)

\* Bytes(a, n) has n bytes, the first of them a + 1.
LEMMA BytesAre ==
  ASSUME NEW a \in Nat, NEW n \in Nat
  PROVE  /\ Bytes(a, n) \in Seq(Nat) /\ Len(Bytes(a, n)) = n
         /\ \A k \in 1..n : Bytes(a, n)[k] = a + k
         /\ n = 0 <=> Bytes(a, n) = << >>
<1>1. Bytes(a, n) \in Seq(Nat) /\ Len(Bytes(a, n)) = n
  <2>1. Bytes(a, n) \in [1..n -> Nat]
    BY DEF Bytes
  <2>. QED BY <2>1
<1>2. n = 0 <=> Bytes(a, n) = << >>
  BY <1>1, EmptySeq
<1>. QED BY <1>1, <1>2 DEF Bytes

\* A stretch and the one that follows it are a stretch.
LEMMA BytesJoin ==
  ASSUME NEW a \in Nat, NEW n \in Nat, NEW k \in Nat
  PROVE  Bytes(a, n) \o Bytes(a + n, k) = Bytes(a, n + k)
<1>. DEFINE s == Bytes(a, n)
            t == Bytes(a + n, k)
            u == Bytes(a, n + k)
<1>1. /\ s \in Seq(Nat) /\ Len(s) = n /\ \A i \in 1..n : s[i] = a + i
      /\ t \in Seq(Nat) /\ Len(t) = k /\ \A i \in 1..k : t[i] = a + n + i
      /\ u \in Seq(Nat) /\ Len(u) = n + k /\ \A i \in 1..(n + k) : u[i] = a + i
  <2>1. a + n \in Nat /\ n + k \in Nat
    OBVIOUS
  <2>2. s \in Seq(Nat) /\ Len(s) = n /\ \A i \in 1..n : s[i] = a + i
    BY BytesAre
  <2>3. t \in Seq(Nat) /\ Len(t) = k /\ \A i \in 1..k : t[i] = a + n + i
    BY <2>1, BytesAre
  <2>4. u \in Seq(Nat) /\ Len(u) = n + k /\ \A i \in 1..(n + k) : u[i] = a + i
    BY <2>1, BytesAre
  <2>. QED BY <2>2, <2>3, <2>4
<1>. HIDE DEF s, t, u
<1>2. /\ s \o t \in Seq(Nat) /\ Len(s \o t) = n + k
      /\ \A i \in 1..(n + k) : (s \o t)[i] = IF i <= n THEN s[i] ELSE t[i - n]
  BY <1>1, ConcatProperties
<1>3. ASSUME NEW i \in 1..(n + k) PROVE (s \o t)[i] = u[i]
  <2>1. CASE i <= n
    BY <1>1, <1>2, <2>1
  <2>2. CASE i > n
    <3>1. i - n \in 1..k
      BY <2>2
    <3>2. t[i - n] = a + n + (i - n)
      BY <1>1, <3>1
    <3>3. (s \o t)[i] = t[i - n]
      BY <1>1, <1>2, <2>2
    <3>4. u[i] = a + i /\ a + n + (i - n) = a + i
      BY <1>1
    <3>. QED BY <3>2, <3>3, <3>4
  <2>3. i <= n \/ i > n
    OBVIOUS
  <2>. QED BY <2>1, <2>2, <2>3
<1>4. s \o t = u
  BY <1>1, <1>2, <1>3, SeqEqual
<1>. QED BY <1>4 DEF s, t, u

\* The parts of a stretch are stretches.
LEMMA BytesCut ==
  ASSUME NEW a \in Nat, NEW l \in Nat, NEW n \in 0..l
  PROVE  /\ SubSeq(Bytes(a, l), 1, n) = Bytes(a, n)
         /\ SubSeq(Bytes(a, l), n + 1, l) = Bytes(a + n, l - n)
<1>. DEFINE s == Bytes(a, l)
<1>1. /\ s \in Seq(Nat) /\ Len(s) = l /\ \A i \in 1..l : s[i] = a + i
      /\ l - n \in Nat /\ a + n \in Nat
  BY BytesAre
<1>. HIDE DEF s
<1>2. SubSeq(s, 1, n) = Bytes(a, n)
  <2>1. SubSeq(s, 1, n) = [i \in 1..n |-> s[1 + i - 1]]
    BY <1>1
  <2>2. \A i \in 1..n : s[1 + i - 1] = a + i
    BY <1>1
  <2>. QED BY <2>1, <2>2 DEF Bytes
<1>3. SubSeq(s, n + 1, l) = Bytes(a + n, l - n)
  <2>1. SubSeq(s, n + 1, l) = [i \in 1..(l - n) |-> s[(n + 1) + i - 1]]
    BY <1>1
  <2>2. \A i \in 1..(l - n) : s[(n + 1) + i - 1] = (a + n) + i
    BY <1>1
  <2>. QED BY <2>1, <2>2 DEF Bytes
<1>. QED BY <1>2, <1>3 DEF s

\* What a Read returns is the next stretch, and what it leaves the one after it.
LEMMA Delivered ==
  ASSUME NEW r \in Nat, NEW l \in Nat, NEW n \in 0..l
  PROVE  /\ Bytes(0, r) \o SubSeq(Bytes(r, l), 1, n) = Bytes(0, r + n)
         /\ SubSeq(Bytes(r, l), n + 1, l) = Bytes(r + n, l - n)
<1>1. n \in Nat /\ 0 + r = r
  OBVIOUS
<1>2. Bytes(0, r) \o Bytes(r, n) = Bytes(0, r + n)
  <2>1. Bytes(0, r) \o Bytes(0 + r, n) = Bytes(0, r + n)
    BY <1>1, BytesJoin, Zenon
  <2>. QED BY <1>1, <2>1
<1>. QED BY <1>2, BytesCut

-----------------------------------------------------------------------------
(* What changes for a reader, and what does not.                            *)

\* The task's own part of the state.
Own(c) == <<stage[c], pc[c], inbox[c], want[c], msgs[c], data[c], closed[c], sent[c], rcvd[c],
            ended[c], eof[c], freed[c]>>

\* The tasks by name, and the readers.
LEMMA ChildrenAre ==
  /\ {Main, Idle, Terminal} \subseteq TaskId /\ Children \subseteq TaskId
  /\ NoTask \notin Children /\ Main # Terminal /\ Main # Idle /\ Terminal # Idle
  /\ {Main, Idle, Terminal} \cap Children = {}
  /\ \A c \in Children : c > Terminal
  /\ TaskId \subseteq Nat
BY PipeAssumption, TaskManagerAssumption DEF Main, Idle, Terminal, Children, TaskId, NoTask

\* A reader whose part does not change stays sound.
LEMMA ReaderStays ==
  ASSUME NEW c \in Children, ReaderIsSound(c), UNCHANGED Own(c),
         c \in tasks' => c \in tasks, c > latest_id' => c > latest_id
  PROVE  ReaderIsSound(c)'
<1>1. /\ UNCHANGED <<stage[c], pc[c], inbox[c], want[c], msgs[c]>>
      /\ UNCHANGED <<data[c], closed[c], sent[c], rcvd[c], ended[c], eof[c], freed[c]>>
  BY DEF Own
<1>2. IsReading(c) => IsReading(c)'
  BY <1>1 DEF IsReading
<1>3. ASSUME NEW m, NEW a, NEW b PROVE Carries(c, m, a, b)' <=> Carries(c, m, a, b)
  BY <1>1 DEF Carries
<1>4. \A upto : Brings(c, upto) => Brings(c, upto)'
  <2>. SUFFICES ASSUME NEW upto, Brings(c, upto) PROVE Brings(c, upto)'
    OBVIOUS
  <2>1. Holding(c)' = Holding(c) /\ Reached(c)' = Reached(c)
    BY <1>1 DEF Holding, Reached
  <2>. QED BY <1>1, <1>3, <2>1 DEF Brings
<1>5. InOrder(c) => InOrder(c)'
  BY <1>1, <1>4 DEF InOrder, Reached
<1>6. IsFresh(c) => IsFresh(c)'
  BY <1>1 DEF IsFresh
<1>. QED BY <1>1, <1>2, <1>5, <1>6 DEF ReaderIsSound

\* A message is put into the queue of a reader: it brings the bytes after the last that
\* was sent, or none.
MessageAdded(c, m, b) ==
  /\ m \in AllMessages /\ msgs' = [msgs EXCEPT ![c] = Append(@, m)]
  /\ UNCHANGED <<stage[c], pc[c], inbox[c], want[c], data[c], closed[c], rcvd[c], eof[c], freed[c]>>
  /\ b \in Nat /\ sent'[c] = b /\ (ended[c] => ended'[c] /\ b = sent[c])
  /\ \A a : a = sent[c] => Carries(c, m, a, b)'
  /\ UNCHANGED <<tasks, latest_id>>

\* Such a message keeps the reader sound: what it brings follows what the queue brought.
LEMMA ReaderGets ==
  ASSUME PipeInv, NEW c \in Children, c \in tasks, NEW m, NEW b, MessageAdded(c, m, b)
  PROVE  ReaderIsSound(c)'
<1>. DEFINE n == Len(msgs[c])
<1>1. /\ msgs \in [TaskId -> Seq(AllMessages)] /\ c \in TaskId /\ c <= latest_id /\ ~(c > latest_id)
      /\ ReaderIsSound(c) /\ IsReading(c) /\ InOrder(c)
      /\ sent[c] \in Nat /\ b \in Nat
  <2>1. msgs \in [TaskId -> Seq(AllMessages)] /\ c \in TaskId /\ sent[c] \in Nat /\ b \in Nat
    BY ChildrenAre DEF PipeInv, Sound, TypeOver, PipeTypes, MessageAdded
  <2>2. c <= latest_id /\ c \in Nat /\ latest_id \in Nat
    BY ChildrenAre DEF PipeInv, Sound, TypeOver, Books
  <2>3. ReaderIsSound(c) /\ IsReading(c) /\ InOrder(c)
    BY DEF PipeInv, ReaderIsSound
  <2>. QED BY <2>1, <2>2, <2>3
<1>2. /\ n \in Nat /\ Len(msgs'[c]) = n + 1 /\ msgs'[c][n + 1] = m
      /\ \A i \in 1..n : msgs'[c][i] = msgs[c][i]
  <2>1. msgs'[c] = Append(msgs[c], m) /\ msgs[c] \in Seq(AllMessages)
    BY <1>1 DEF MessageAdded
  <2>. QED BY <2>1, AppendProperties DEF MessageAdded
<1>3. IsReading(c)' /\ Holding(c)' = Holding(c) /\ Reached(c)' = Reached(c)
  BY <1>1 DEF IsReading, Holding, Reached, MessageAdded
<1>4. ASSUME NEW x, NEW a, NEW d, Carries(c, x, a, d) PROVE Carries(c, x, a, d)'
  BY <1>4 DEF Carries, MessageAdded
<1>5. PICK upto : Brings(c, upto)
  BY <1>1 DEF InOrder
<1>6. /\ upto \in [1..(n + 1) -> Nat] /\ upto[n + 1] = sent[c]
      /\ IF Holding(c) THEN Carries(c, inbox[c], Reached(c), upto[1]) ELSE upto[1] = Reached(c)
      /\ \A i \in 1..n : Carries(c, msgs[c][i], upto[i], upto[i + 1])
      /\ \A i \in 1..(n + 1) : upto[i] <= sent[c]
  BY <1>5 DEF Brings
<1>. HIDE DEF n
<1>7. PICK next \in [1..(n + 2) -> Nat] :
        /\ next[n + 2] = b /\ next[n + 1] = sent[c]
        /\ \A i \in 1..(n + 1) : next[i] = upto[i]
  <2>. DEFINE f == [i \in 1..(n + 2) |-> IF i = n + 2 THEN b ELSE upto[i]]
  <2>1. /\ f \in [1..(n + 2) -> Nat] /\ f[n + 2] = b /\ f[n + 1] = sent[c]
        /\ \A i \in 1..(n + 1) : f[i] = upto[i]
    BY <1>1, <1>2, <1>6
  <2>. QED BY <2>1
<1>8. IF Holding(c)' THEN Carries(c, inbox[c], Reached(c), next[1])' ELSE next[1] = Reached(c)'
  <2>1. next[1] = upto[1] /\ inbox'[c] = inbox[c]
    BY <1>2, <1>7 DEF MessageAdded
  <2>. QED BY <1>3, <1>4, <1>6, <2>1
<1>9. ASSUME NEW i \in 1..(n + 1) PROVE Carries(c, msgs[c][i], next[i], next[i + 1])'
  <2>1. CASE i = n + 1
    <3>1. \A a : a = sent[c] => Carries(c, m, a, b)'
      BY DEF MessageAdded
    <3>2. msgs'[c][i] = m /\ next[i] = sent[c] /\ next[i + 1] = b
      BY <1>2, <1>7, <2>1
    <3>. QED BY <3>1, <3>2
  <2>2. CASE i \in 1..n
    <3>1. /\ msgs'[c][i] = msgs[c][i] /\ next[i] = upto[i] /\ next[i + 1] = upto[i + 1]
          /\ Carries(c, msgs[c][i], upto[i], upto[i + 1])
      BY <1>2, <1>6, <1>7, <2>2
    <3>. QED BY <1>4, <3>1
  <2>. QED BY <1>2, <2>1, <2>2
<1>10. Brings(c, next)'
  <2>1. sent'[c] = b /\ n + 1 + 1 = n + 2
    BY <1>2 DEF MessageAdded
  <2>2. sent[c] <= b /\ b <= b
    <3>1. \A a : a = sent[c] => Carries(c, m, a, b)'
      BY DEF MessageAdded
    <3>2. \A a : a = sent[c] => a <= b
      BY <1>1, <3>1 DEF Carries
    <3>. QED BY <1>1, <3>2
  <2>3. \A i \in 1..(n + 2) : next[i] <= b
    <3>1. ASSUME NEW i \in 1..(n + 2) PROVE next[i] <= b
      <4>1. CASE i = n + 2
        BY <1>7, <2>2, <4>1
      <4>2. CASE i \in 1..(n + 1)
        <5>1. next[i] = upto[i] /\ upto[i] <= sent[c] /\ upto[i] \in Nat
          BY <1>6, <1>7, <4>2
        <5>. QED BY <1>1, <2>2, <5>1
      <4>. QED BY <1>2, <4>1, <4>2
    <3>. QED BY <3>1
  <2>. QED BY <1>2, <1>7, <1>8, <1>9, <2>1, <2>3 DEF Brings
<1>11. InOrder(c)'
  BY <1>1, <1>3, <1>10 DEF InOrder, MessageAdded
<1>. QED BY <1>1, <1>3, <1>11 DEF ReaderIsSound, MessageAdded

-----------------------------------------------------------------------------
(* What the steps of the task manager do to the readers.                    *)

MainQueue == \A i \in 1..Len(msgs[Main]) : ForMain(msgs[Main][i])

\* The programs of the readers do nothing.
ReadersWait == \A c \in Children : UNCHANGED <<stage[c], inbox[c], want[c]>>

\* What the steps use of the invariant.
LEMMA InvIs ==
  ASSUME PipeInv
  PROVE  /\ Sound(AllMessages) /\ PipeTypes /\ MainIsServed /\ TerminalIsSound /\ MainQueue
         /\ msgs \in [TaskId -> Seq(AllMessages)] /\ tasks \subseteq TaskId /\ latest_id \in TaskId
         /\ pc \in [TaskId -> {"run", "recv", "wait"}] /\ cpu \in tasks
         /\ subtask \in [TaskId -> TaskId \cup {NoTask}]
         /\ \A t \in tasks : t <= latest_id
         /\ \A t \in TaskId : msgs[t] \in Seq(AllMessages) /\ Len(msgs[t]) \in Nat
         /\ cpu = CurrentTask(sched)
<1>1. Sound(AllMessages) /\ PipeTypes /\ MainIsServed /\ TerminalIsSound /\ MainQueue
  BY DEF PipeInv, MainIsServed, MainQueue
<1>2. /\ msgs \in [TaskId -> Seq(AllMessages)] /\ tasks \subseteq TaskId /\ latest_id \in TaskId
      /\ pc \in [TaskId -> {"run", "recv", "wait"}]
      /\ subtask \in [TaskId -> TaskId \cup {NoTask}]
      /\ \A t \in tasks : t <= latest_id
      /\ cpu = CurrentTask(sched)
  BY <1>1 DEF Sound, TypeOver, Books
<1>3. cpu \in tasks
  BY <1>1, CpuIsReady
<1>4. \A t \in TaskId : msgs[t] \in Seq(AllMessages) /\ Len(msgs[t]) \in Nat
  BY <1>2
<1>. QED BY <1>1, <1>2, <1>3, <1>4

\* No reader notices a step that leaves the readers, their queues and their pipes alone.
LEMMA ReadersStay ==
  ASSUME PipeInv, ReadersWait, UNCHANGED pipevars,
         \A c \in Children : /\ UNCHANGED <<msgs[c], pc[c]>> /\ (c \in tasks' => c \in tasks)
                             /\ (c > latest_id' => c > latest_id)
  PROVE  \A c \in Children : ReaderIsSound(c)'
<1>. SUFFICES ASSUME NEW c \in Children PROVE ReaderIsSound(c)'
  OBVIOUS
<1>1. UNCHANGED Own(c)
  BY DEF ReadersWait, pipevars, Own
<1>. QED BY <1>1, ReaderStays DEF PipeInv

\* A signal arrives at a task that expects it.
LEMMA SignalIsSound ==
  ASSUME PipeInv, NEW id \in TaskId, NEW m \in Signals, SendMessage(id, m),
         id = Main => ForMain(m), ReadersWait, UNCHANGED pipevars
  PROVE  Sound(AllMessages)' /\ MainQueue' /\ \A c \in Children : ReaderIsSound(c)'
<1>1. /\ msgs' = [msgs EXCEPT ![id] = Append(@, m)] /\ id \in tasks
      /\ UNCHANGED <<tasks, latest_id, cpu, finish_tasks, finish_waiter, pc, subtask>>
  BY DEF SendMessage, Post
<1>2. m \in AllMessages /\ m.type # "pipe"
  BY DEF AllMessages, Signals
<1>3. Sound(AllMessages)'
  BY <1>2, InvIs, SendKeeps
<1>4. MainQueue'
  <2>1. CASE id = Main
    <3>1. msgs'[Main] = Append(msgs[Main], m) /\ msgs[Main] \in Seq(AllMessages)
      BY <1>1, <2>1, InvIs
    <3>. QED BY <1>2, <2>1, <3>1, InvIs, AppendProperties DEF MainQueue
  <2>2. CASE id # Main
    BY <1>1, <2>2, InvIs DEF MainQueue
  <2>. QED BY <2>1, <2>2
<1>5. ASSUME NEW c \in Children PROVE ReaderIsSound(c)'
  <2>1. CASE c = id
    <3>1. \A a : a = sent[c] => Carries(c, m, a, a)'
      BY <1>2 DEF Carries
    <3>2. sent[c] \in Nat
      BY ChildrenAre, InvIs DEF PipeTypes
    <3>3. \A a : a = sent[c] => MessageAdded(c, m, a)
      BY <1>1, <1>2, <2>1, <3>1, <3>2 DEF MessageAdded, ReadersWait, pipevars
    <3>. QED BY <1>1, <2>1, <3>3, ReaderGets
  <2>2. CASE c # id
    <3>1. msgs'[c] = msgs[c]
      BY <1>1, <2>2, ChildrenAre, InvIs
    <3>2. UNCHANGED Own(c)
      BY <1>1, <3>1 DEF ReadersWait, pipevars, Own
    <3>. QED BY <1>1, <3>2, ReaderStays DEF PipeInv
  <2>. QED BY <2>1, <2>2
<1>. QED BY <1>3, <1>4, <1>5

\* The terminal's part of the invariant, when the terminal does nothing.
LEMMA TerminalStays ==
  ASSUME PipeInv, UNCHANGED <<stage[Terminal], focus, subtask[Terminal], ended>>,
         latest_id' = latest_id
  PROVE  TerminalIsSound'
BY InvIs DEF TerminalIsSound, Connected

\* And the main task's.
LEMMA MainStays ==
  ASSUME PipeInv, MainQueue', UNCHANGED <<stage[Main], pc[Main], inbox[Main]>>
  PROVE  MainIsServed'
BY InvIs DEF MainIsServed, MainQueue

-----------------------------------------------------------------------------
(* The actions. Each keeps the invariant, and is a step of the stream or no *)
(* step of it.                                                              *)

StreamStep == Stream!Next \/ UNCHANGED <<sent, rcvd, ended, eof>>

\* Timer keeps the invariant, and the stream.
LEMMA TimerIsSound == ASSUME PipeInv, Timer PROVE PipeInv' /\ StreamStep
<1>1. /\ SwitchTask /\ UNCHANGED <<pipevars, progvars, envvars>>
      /\ UNCHANGED <<tasks, latest_id, msgs, finish_tasks, finish_waiter, pc, subtask>>
  BY DEF Timer, SwitchTask
<1>2. Sound(AllMessages)'
  BY <1>1, InvIs, SwitchKeeps
<1>3. MainIsServed' /\ TerminalIsSound'
  BY <1>1, InvIs, MainStays, TerminalStays DEF progvars, envvars, pipevars, MainQueue
<1>4. \A c \in Children : ReaderIsSound(c)'
  BY <1>1, ReadersStay DEF progvars, ReadersWait
<1>5. PipeTypes' /\ StreamStep
  BY <1>1, InvIs DEF PipeTypes, StreamStep, pipevars, progvars, envvars
<1>. QED BY <1>2, <1>3, <1>4, <1>5 DEF PipeInv

\* KeyInterrupt keeps the invariant, and the stream.
LEMMA KeyInterruptIsSound == ASSUME PipeInv, KeyInterrupt PROVE PipeInv' /\ StreamStep
<1>1. /\ SendMessage(Main, [type |-> "xhci"]) /\ keys' = keys + 1
      /\ UNCHANGED <<pipevars, progvars, focus, prints>>
      /\ UNCHANGED <<latest_id, pc, subtask>>
  BY DEF KeyInterrupt, SendMessage
<1>2. [type |-> "xhci"] \in Signals /\ ForMain([type |-> "xhci"])
  BY DEF Signals, ForMain
<1>3. Sound(AllMessages)' /\ MainQueue' /\ \A c \in Children : ReaderIsSound(c)'
  BY <1>1, <1>2, ChildrenAre, SignalIsSound DEF progvars, ReadersWait
<1>4. MainIsServed' /\ TerminalIsSound'
  BY <1>1, <1>3, MainStays, TerminalStays DEF progvars, pipevars
<1>5. PipeTypes' /\ StreamStep
  <2>1. UNCHANGED pipevars /\ UNCHANGED progvars /\ keys' \in Nat /\ prints' \in Nat
    BY <1>1, InvIs DEF PipeTypes
  <2>. QED BY <2>1, InvIs DEF PipeTypes, StreamStep, pipevars, progvars
<1>. QED BY <1>3, <1>4, <1>5 DEF PipeInv

\* PrintLine keeps the invariant, and the stream.
LEMMA PrintLineIsSound ==
  ASSUME PipeInv, NEW c \in Children, PrintLine(c)
  PROVE  PipeInv' /\ StreamStep
<1>1. /\ SendMessage(Main, [type |-> "layer"]) /\ prints' = prints + 1
      /\ UNCHANGED <<pipevars, progvars, focus, keys>>
      /\ UNCHANGED <<latest_id, pc, subtask>>
  BY DEF PrintLine, SendMessage
<1>2. [type |-> "layer"] \in Signals /\ ForMain([type |-> "layer"])
  BY DEF Signals, ForMain
<1>3. Sound(AllMessages)' /\ MainQueue' /\ \A r \in Children : ReaderIsSound(r)'
  BY <1>1, <1>2, ChildrenAre, SignalIsSound DEF progvars, ReadersWait
<1>4. MainIsServed' /\ TerminalIsSound'
  BY <1>1, <1>3, MainStays, TerminalStays DEF progvars, pipevars
<1>5. PipeTypes' /\ StreamStep
  <2>1. UNCHANGED pipevars /\ UNCHANGED progvars /\ prints' \in Nat /\ keys' \in Nat
    BY <1>1, InvIs DEF PipeTypes
  <2>. QED BY <2>1, InvIs DEF PipeTypes, StreamStep, pipevars, progvars
<1>. QED BY <1>3, <1>4, <1>5 DEF PipeInv

\* HandlerDone of the main task or the terminal.
LEMMA HandledIsSound ==
  ASSUME PipeInv, NEW t \in {Main, Terminal}, HandlerDone(t), ReadersWait, UNCHANGED pipevars
  PROVE  Sound(AllMessages)' /\ MainQueue' /\ \A c \in Children : ReaderIsSound(c)'
<1>1. /\ pc' = [pc EXCEPT ![t] = "recv"] /\ t \in TaskId /\ t \notin Children
      /\ UNCHANGED <<tasks, latest_id, msgs, subtask>>
  BY ChildrenAre DEF HandlerDone
<1>2. Sound(AllMessages)'
  BY <1>1, InvIs, HandlerDoneKeeps
<1>3. MainQueue'
  BY <1>1, InvIs DEF MainQueue
<1>4. \A c \in Children : UNCHANGED pc[c]
  BY <1>1, InvIs, ChildrenAre
<1>5. \A c \in Children : ReaderIsSound(c)'
  BY <1>1, <1>4, ReadersStay
<1>. QED BY <1>2, <1>3, <1>5

\* A task's code goes to another place.
LEMMA StageTypes ==
  ASSUME PipeInv, NEW t \in TaskId, NEW s \in Stages, Goto(t, s)
  PROVE  /\ stage' \in [TaskId -> Stages] /\ stage'[t] = s
         /\ \A u \in TaskId : u # t => stage'[u] = stage[u]
BY InvIs DEF PipeTypes, Goto

\* MainBoots keeps the invariant, and the stream.
LEMMA MainBootsIsSound == ASSUME PipeInv, MainBoots PROVE PipeInv' /\ StreamStep
<1>1. UNCHANGED <<pipevars, inbox, todo, writes, want, envvars>> /\ Main \in TaskId /\ Terminal \in TaskId
  BY ChildrenAre DEF MainBoots
<1>2. CASE latest_id < Terminal
  <2>1. /\ Spawn(Main, FALSE) /\ UNCHANGED stage /\ latest_id' = latest_id + 1
        /\ tasks' = tasks \cup {latest_id + 1} /\ UNCHANGED <<msgs, pc, subtask>>
    BY <1>2 DEF MainBoots, Spawn
  <2>2. Sound(AllMessages)'
    BY <1>1, <2>1, InvIs, SpawnKeeps
  <2>3. \A c \in Children : c # latest_id + 1 /\ c > latest_id
    <3>1. latest_id \in Nat /\ Terminal \in Nat /\ \A c \in Children : c \in Nat /\ c > Terminal
      BY InvIs, ChildrenAre
    <3>. QED BY <1>2, <3>1
  <2>4. \A c \in Children : ReaderIsSound(c)'
    BY <1>1, <2>1, <2>3, ReadersStay DEF ReadersWait
  <2>5. MainIsServed'
    BY <1>1, <2>1, InvIs, MainStays DEF MainQueue
  <2>6. TerminalIsSound'
    <3>1. latest_id \in Nat /\ Terminal \in Nat /\ \A c \in Children : c \in Nat
      BY InvIs, ChildrenAre
    <3>2. \A c \in Children : ~(c <= latest_id)
      BY <2>3, <3>1
    <3>3. ~Connected /\ (stage[Terminal] = "wait" => subtask[Terminal] \in Children)
      BY <3>2, InvIs DEF TerminalIsSound
    <3>4. UNCHANGED <<stage[Terminal], focus, subtask[Terminal], ended>>
      BY <1>1, <2>1 DEF pipevars, envvars
    <3>. QED BY <3>3, <3>4, InvIs DEF TerminalIsSound, Connected
  <2>7. PipeTypes' /\ StreamStep
    BY <1>1, <2>1, InvIs DEF PipeTypes, StreamStep, pipevars, envvars
  <2>. QED BY <2>2, <2>4, <2>5, <2>6, <2>7 DEF PipeInv
<1>3. CASE ~(latest_id < Terminal)
  <2>1. /\ HandlerDone(Main) /\ Goto(Main, "loop") /\ pc' = [pc EXCEPT ![Main] = "recv"]
        /\ UNCHANGED <<latest_id, subtask>>
    BY <1>3 DEF MainBoots, HandlerDone
  <2>2. /\ stage' \in [TaskId -> Stages] /\ \A u \in TaskId : u # Main => stage'[u] = stage[u]
    BY <1>1, <2>1, StageTypes DEF Stages
  <2>3. ReadersWait /\ stage'[Terminal] = stage[Terminal]
    BY <1>1, <2>2, ChildrenAre DEF ReadersWait
  <2>4. Sound(AllMessages)' /\ MainQueue' /\ \A c \in Children : ReaderIsSound(c)'
    BY <1>1, <2>1, <2>3, HandledIsSound
  <2>5. MainIsServed'
    BY <1>1, <2>1, <2>4, InvIs DEF MainIsServed, MainQueue
  <2>6. TerminalIsSound'
    BY <1>1, <2>1, <2>3, TerminalStays DEF pipevars, envvars
  <2>7. PipeTypes' /\ StreamStep
    BY <1>1, <2>2, InvIs DEF PipeTypes, StreamStep, pipevars, envvars
  <2>. QED BY <2>4, <2>5, <2>6, <2>7 DEF PipeInv
<1>. QED BY <1>2, <1>3

\* A key goes to whoever has the focus, a layer operation is answered to the terminal: what the
\* main task has in hand is one of the two.
LEMMA MainHandlesIsSound == ASSUME PipeInv, MainHandles PROVE PipeInv' /\ StreamStep
<1>1. /\ UNCHANGED <<pipevars, inbox, todo, writes, want, envvars>> /\ Goto(Main, "sent")
      /\ stage[Main] = "loop" /\ pc[Main] = "run" /\ ForMain(inbox[Main])
  BY InvIs DEF MainHandles, At, MainIsServed
<1>2. /\ stage' \in [TaskId -> Stages] /\ stage'[Main] = "sent"
      /\ \A u \in TaskId : u # Main => stage'[u] = stage[u]
  BY <1>1, ChildrenAre, StageTypes DEF Stages
<1>3. ReadersWait /\ stage'[Terminal] = stage[Terminal]
  BY <1>1, <1>2, ChildrenAre DEF ReadersWait
<1>4. PICK id \in TaskId \ {Main}, m \in Signals : TrySend(id, m)
  <2>1. focus \in TaskId \ {Main} /\ Terminal \in TaskId \ {Main}
    BY InvIs, ChildrenAre DEF TerminalIsSound
  <2>2. [type |-> "key"] \in Signals /\ [type |-> "finish"] \in Signals
    BY DEF Signals
  <2>3. TrySend(focus, [type |-> "key"]) \/ TrySend(Terminal, [type |-> "finish"])
    <3>1. CASE inbox[Main].type = "xhci"
      BY <3>1 DEF MainHandles
    <3>2. CASE inbox[Main].type = "layer"
      BY <3>2 DEF MainHandles
    <3>. QED BY <1>1, <3>1, <3>2 DEF ForMain
  <2>. QED BY <2>1, <2>2, <2>3
<1>5. /\ Sound(AllMessages)' /\ MainQueue' /\ \A c \in Children : ReaderIsSound(c)'
      /\ UNCHANGED <<latest_id, pc, subtask>>
  <2>1. CASE id \in tasks
    <3>1. SendMessage(id, m)
      BY <1>4, <2>1 DEF TrySend
    <3>. QED BY <1>1, <1>3, <1>4, <3>1, SignalIsSound DEF SendMessage
  <2>2. CASE id \notin tasks
    <3>1. UNCHANGED vars
      BY <1>4, <2>2 DEF TrySend
    <3>2. UNCHANGED <<tasks, latest_id, msgs, pc, subtask>>
      BY <3>1 DEF vars
    <3>3. Sound(AllMessages)'
      BY <3>1, InvIs, StutterKeeps
    <3>. QED BY <1>1, <1>3, <3>2, <3>3, InvIs, ReadersStay DEF MainQueue
  <2>. QED BY <2>1, <2>2
<1>6. MainIsServed'
  BY <1>2, <1>5 DEF MainIsServed, MainQueue
<1>7. TerminalIsSound'
  BY <1>1, <1>3, <1>5, TerminalStays DEF pipevars, envvars
<1>8. PipeTypes' /\ StreamStep
  BY <1>1, <1>2, InvIs DEF PipeTypes, StreamStep, pipevars, envvars
<1>. QED BY <1>5, <1>6, <1>7, <1>8 DEF PipeInv

\* MainLoops keeps the invariant, and the stream.
LEMMA MainLoopsIsSound == ASSUME PipeInv, MainLoops PROVE PipeInv' /\ StreamStep
<1>1. /\ UNCHANGED <<pipevars, inbox, todo, writes, want, envvars>> /\ Main \in TaskId
      /\ HandlerDone(Main) /\ Goto(Main, "loop") /\ pc' = [pc EXCEPT ![Main] = "recv"]
      /\ UNCHANGED <<latest_id, subtask>>
  BY ChildrenAre DEF MainLoops, HandlerDone
<1>2. /\ stage' \in [TaskId -> Stages] /\ \A u \in TaskId : u # Main => stage'[u] = stage[u]
  BY <1>1, StageTypes DEF Stages
<1>3. ReadersWait /\ stage'[Terminal] = stage[Terminal]
  BY <1>1, <1>2, ChildrenAre DEF ReadersWait
<1>4. Sound(AllMessages)' /\ MainQueue' /\ \A c \in Children : ReaderIsSound(c)'
  BY <1>1, <1>3, HandledIsSound
<1>5. MainIsServed'
  BY <1>1, <1>4, InvIs DEF MainIsServed, MainQueue
<1>6. TerminalIsSound'
  BY <1>1, <1>3, TerminalStays DEF pipevars, envvars
<1>7. PipeTypes' /\ StreamStep
  BY <1>1, <1>2, InvIs DEF PipeTypes, StreamStep, pipevars, envvars
<1>. QED BY <1>4, <1>5, <1>6, <1>7 DEF PipeInv

\* The terminal's program does a step, and nothing happens to the task manager or the pipes.
TerminalAlone ==
  /\ UNCHANGED <<vars, pipevars>> /\ ReadersWait
  /\ UNCHANGED <<stage[Main], inbox[Main]>>

\* The terminal's own step leaves the rest of the invariant.
LEMMA TerminalAloneIsSound ==
  ASSUME PipeInv, TerminalAlone
  PROVE  Sound(AllMessages)' /\ MainIsServed' /\ \A c \in Children : ReaderIsSound(c)'
<1>1. UNCHANGED vars /\ UNCHANGED <<tasks, latest_id, msgs, pc, subtask>> /\ UNCHANGED pipevars
  BY DEF TerminalAlone, vars
<1>2. Sound(AllMessages)'
  BY <1>1, InvIs, StutterKeeps
<1>3. MainIsServed'
  BY <1>1, InvIs, MainStays DEF MainQueue, TerminalAlone
<1>4. \A c \in Children : ReaderIsSound(c)'
  BY <1>1, ReadersStay DEF TerminalAlone
<1>. QED BY <1>2, <1>3, <1>4

\* TerminalLoop keeps the invariant, and the stream.
LEMMA TerminalLoopIsSound == ASSUME PipeInv, TerminalLoop PROVE PipeInv' /\ StreamStep
<1>1. UNCHANGED <<pipevars, inbox, todo, writes, want, envvars>> /\ Terminal \in TaskId
  BY ChildrenAre DEF TerminalLoop
<1>2. PICK s \in {"loop", "line"} :
        /\ stage[Terminal] \in {"start", "loop"}
        /\ \/ HandlerDone(Terminal) /\ s = "loop"
           \/ UNCHANGED vars /\ s = "line"
        /\ \/ Goto(Terminal, s)
           \/ stage[Terminal] = s /\ UNCHANGED stage
  BY DEF TerminalLoop, At
<1>3. /\ stage' \in [TaskId -> Stages] /\ stage'[Terminal] = s
      /\ \A u \in TaskId : u # Terminal => stage'[u] = stage[u]
  BY <1>1, <1>2, InvIs, StageTypes DEF Stages, PipeTypes
<1>4. ReadersWait /\ UNCHANGED <<stage[Main], inbox[Main]>>
  BY <1>1, <1>3, ChildrenAre DEF ReadersWait
<1>5. /\ Sound(AllMessages)' /\ MainIsServed' /\ \A c \in Children : ReaderIsSound(c)'
      /\ UNCHANGED <<latest_id, subtask>>
  <2>1. CASE HandlerDone(Terminal)
    <3>1. Sound(AllMessages)' /\ MainQueue' /\ \A c \in Children : ReaderIsSound(c)'
      BY <1>1, <1>4, <2>1, HandledIsSound
    <3>2. pc'[Main] = pc[Main] /\ UNCHANGED <<latest_id, subtask>>
      BY <2>1, InvIs, ChildrenAre DEF HandlerDone
    <3>. QED BY <1>4, <3>1, <3>2, MainStays
  <2>2. CASE UNCHANGED vars
    <3>1. TerminalAlone
      BY <1>1, <1>4, <2>2 DEF TerminalAlone
    <3>. QED BY <2>2, <3>1, TerminalAloneIsSound DEF vars
  <2>. QED BY <1>2, <2>1, <2>2
<1>6. TerminalIsSound'
  BY <1>1, <1>2, <1>3, <1>5, InvIs DEF TerminalIsSound, Connected, pipevars, envvars
<1>7. PipeTypes' /\ StreamStep
  BY <1>1, <1>3, InvIs DEF PipeTypes, StreamStep, pipevars, envvars
<1>. QED BY <1>5, <1>6, <1>7 DEF PipeInv

\* MoveFocus keeps the invariant, and the stream.
LEMMA MoveFocusIsSound == ASSUME PipeInv, MoveFocus PROVE PipeInv' /\ StreamStep
<1>1. /\ UNCHANGED <<vars, pipevars, inbox, todo, writes, want, keys, prints>> /\ Terminal \in TaskId
      /\ stage[Terminal] = "started" /\ Goto(Terminal, "command") /\ focus' = subtask[Terminal]
      /\ UNCHANGED <<latest_id, subtask>>
  BY ChildrenAre DEF MoveFocus, At, vars
<1>2. /\ stage' \in [TaskId -> Stages] /\ stage'[Terminal] = "command"
      /\ \A u \in TaskId : u # Terminal => stage'[u] = stage[u]
  BY <1>1, StageTypes DEF Stages
<1>3. TerminalAlone
  BY <1>1, <1>2, ChildrenAre DEF TerminalAlone, ReadersWait
<1>4. TerminalIsSound'
  BY <1>1, <1>2, InvIs DEF TerminalIsSound, Connected, pipevars
<1>5. PipeTypes' /\ StreamStep
  BY <1>1, <1>2, InvIs DEF PipeTypes, StreamStep, pipevars
<1>. QED BY <1>3, <1>4, <1>5, TerminalAloneIsSound DEF PipeInv

\* CallWrite keeps the invariant, and the stream.
LEMMA CallWriteIsSound == ASSUME PipeInv, CallWrite PROVE PipeInv' /\ StreamStep
<1>1. /\ UNCHANGED <<vars, pipevars, inbox, want, envvars>> /\ Terminal \in TaskId
      /\ stage[Terminal] = "command" /\ Goto(Terminal, "write") /\ writes[Terminal] > 0
      /\ writes' = [writes EXCEPT ![Terminal] = @ - 1]
      /\ UNCHANGED <<latest_id, subtask>>
  BY ChildrenAre DEF CallWrite, At, vars
<1>2. /\ stage' \in [TaskId -> Stages] /\ stage'[Terminal] = "write"
      /\ \A u \in TaskId : u # Terminal => stage'[u] = stage[u]
  BY <1>1, StageTypes DEF Stages
<1>3. TerminalAlone
  BY <1>1, <1>2, ChildrenAre DEF TerminalAlone, ReadersWait
<1>4. TerminalIsSound'
  BY <1>1, <1>2, InvIs DEF TerminalIsSound, Connected, pipevars, envvars
<1>5. todo' \in [TaskId -> Nat] /\ writes' \in [TaskId -> Nat]
  <2>1. PICK len \in 0..Min2(MaxWrite, MaxBytes - sent[subtask[Terminal]]) :
          todo' = [todo EXCEPT ![Terminal] = len]
    BY DEF CallWrite
  <2>2. len \in Nat
    <3>1. sent[subtask[Terminal]] \in Nat
      BY <1>1, InvIs, ChildrenAre DEF TerminalIsSound, Connected, PipeTypes
    <3>2. Min2(MaxWrite, MaxBytes - sent[subtask[Terminal]]) \in Int
      BY <3>1, PipeAssumption DEF Min2
    <3>. QED BY <3>2
  <2>3. writes[Terminal] - 1 \in Nat
    <3>1. writes[Terminal] \in Nat
      BY <1>1, InvIs DEF PipeTypes
    <3>. QED BY <1>1, <3>1
  <2>. QED BY <1>1, <2>1, <2>2, <2>3, InvIs DEF PipeTypes
<1>6. PipeTypes' /\ StreamStep
  BY <1>1, <1>2, <1>5, InvIs DEF PipeTypes, StreamStep, pipevars, envvars
<1>. QED BY <1>3, <1>4, <1>6, TerminalAloneIsSound DEF PipeInv

\* A new task has had no bytes and no message.
LEMMA FreshReader ==
  ASSUME NEW c \in Children, IsFresh(c), UNCHANGED Own(c), ~(c > latest_id')
  PROVE  ReaderIsSound(c)'
<1>1. /\ stage'[c] = "start" /\ pc'[c] = "run" /\ msgs'[c] = << >>
      /\ data'[c] = << >> /\ rcvd'[c] = << >> /\ sent'[c] = 0
      /\ ~closed'[c] /\ ~ended'[c] /\ ~eof'[c] /\ ~freed'[c]
  BY DEF IsFresh, Own
<1>2. << >> = Bytes(0, 0) /\ Len(<< >>) = 0
  BY BytesAre
<1>3. Reached(c)' = 0 /\ ~Holding(c)'
  BY <1>1, <1>2 DEF Reached, Holding
<1>4. PICK upto \in [1..1 -> Nat] : upto[1] = 0
  <2>. DEFINE f == [i \in 1..1 |-> 0]
  <2>1. f \in [1..1 -> Nat] /\ f[1] = 0
    OBVIOUS
  <2>. QED BY <2>1
<1>5. Brings(c, upto)'
  <2>1. Len(msgs'[c]) = 0 /\ 1..0 = {} /\ 0 + 1 = 1
    BY <1>1, <1>2
  <2>. QED BY <1>1, <1>3, <1>4, <2>1 DEF Brings
<1>6. InOrder(c)'
  BY <1>1, <1>2, <1>5 DEF InOrder
<1>. QED BY <1>1, <1>6 DEF ReaderIsSound, IsReading

\* StartSubtask keeps the invariant, and the stream.
LEMMA StartSubtaskIsSound == ASSUME PipeInv, StartSubtask PROVE PipeInv' /\ StreamStep
<1>. DEFINE id == latest_id + 1
<1>1. /\ UNCHANGED <<pipevars, inbox, todo, want, envvars>> /\ Terminal \in TaskId
      /\ stage[Terminal] = "line" /\ Goto(Terminal, "started")
      /\ Spawn(Terminal, TRUE) /\ writes' = [writes EXCEPT ![Terminal] = MaxWrites]
      /\ latest_id' = id /\ tasks' = tasks \cup {id}
      /\ subtask' = [subtask EXCEPT ![Terminal] = id] /\ UNCHANGED <<msgs, pc>>
      /\ latest_id < MaxTasks /\ Terminal \in tasks
  BY ChildrenAre, InvIs DEF StartSubtask, At, Spawn, Running
<1>2. id \in Children /\ id > latest_id /\ latest_id \in Nat
  <2>1. latest_id \in Nat /\ Terminal <= latest_id /\ Terminal \in Nat
    BY <1>1, InvIs, ChildrenAre
  <2>. QED BY <1>1, <2>1, TaskManagerAssumption DEF Children, TaskId
<1>. HIDE DEF id
<1>3. /\ stage' \in [TaskId -> Stages] /\ stage'[Terminal] = "started"
      /\ \A u \in TaskId : u # Terminal => stage'[u] = stage[u]
  BY <1>1, StageTypes DEF Stages
<1>4. ReadersWait /\ UNCHANGED <<stage[Main], inbox[Main]>>
  BY <1>1, <1>3, ChildrenAre DEF ReadersWait
<1>5. Sound(AllMessages)'
  BY <1>1, InvIs, SpawnKeeps
<1>6. MainIsServed'
  BY <1>1, <1>4, InvIs, MainStays DEF MainQueue
<1>7. ASSUME NEW c \in Children PROVE ReaderIsSound(c)'
  <2>1. UNCHANGED Own(c)
    BY <1>1, <1>4 DEF Own, ReadersWait, pipevars
  <2>2. CASE c = id
    <3>1. IsFresh(c) /\ ~(c > latest_id')
      <4>1. c \in Nat /\ ~(c > c)
        BY ChildrenAre
      <4>. QED BY <1>1, <1>2, <2>2, <4>1 DEF PipeInv, ReaderIsSound
    <3>. QED BY <2>1, <3>1, FreshReader
  <2>3. CASE c # id
    <3>1. c \in tasks' => c \in tasks
      BY <1>1, <2>3
    <3>2. c > latest_id' => c > latest_id
      <4>1. c \in Nat /\ latest_id' = latest_id + 1
        BY <1>1, ChildrenAre DEF id
      <4>. QED BY <1>2, <4>1
    <3>. QED BY <2>1, <3>1, <3>2, ReaderStays DEF PipeInv
  <2>. QED BY <2>2, <2>3
<1>8. TerminalIsSound'
  <2>1. subtask'[Terminal] = id /\ ~ended'[id] /\ id <= latest_id' /\ focus' = focus
    <3>1. ~ended[id]
      BY <1>2 DEF PipeInv, ReaderIsSound, IsFresh
    <3>2. subtask'[Terminal] = id
      BY <1>1, InvIs
    <3>3. id <= id
      BY <1>2, ChildrenAre
    <3>. QED BY <1>1, <3>1, <3>2, <3>3 DEF pipevars, envvars
  <2>2. focus = Terminal
    BY <1>1, InvIs DEF TerminalIsSound
  <2>. QED BY <1>2, <1>3, <2>1, <2>2 DEF TerminalIsSound, Connected
<1>9. PipeTypes' /\ StreamStep
  BY <1>1, <1>3, InvIs, PipeAssumption DEF PipeTypes, StreamStep, pipevars, envvars
<1>. QED BY <1>5, <1>6, <1>7, <1>8, <1>9 DEF PipeInv

\* WaitSubtask keeps the invariant, and the stream.
LEMMA WaitSubtaskIsSound == ASSUME PipeInv, WaitSubtask PROVE PipeInv' /\ StreamStep
<1>1. /\ UNCHANGED <<pipevars, todo, writes, want, keys, prints>> /\ Terminal \in TaskId
      /\ stage[Terminal] = "wait" /\ WaitFinish(Terminal)
      /\ UNCHANGED <<tasks, latest_id, msgs>>
      /\ subtask[Terminal] \in Children /\ focus = subtask[Terminal]
  BY ChildrenAre, InvIs DEF WaitSubtask, At, WaitFinish, TerminalIsSound
<1>2. \A u \in TaskId : u # Terminal => pc'[u] = pc[u]
  <2>1. PICK p \in {"run", "wait"} : pc' = [pc EXCEPT ![Terminal] = p]
    BY <1>1 DEF WaitFinish
  <2>. QED BY <2>1, InvIs
<1>3. /\ stage' \in [TaskId -> Stages] /\ inbox' \in [TaskId -> AllMessages \cup {NoMessage}]
      /\ \A u \in TaskId : u # Terminal => stage'[u] = stage[u] /\ inbox'[u] = inbox[u]
      /\ \/ stage'[Terminal] = "wait" /\ UNCHANGED <<focus, subtask>>
         \/ stage'[Terminal] = "loop" /\ focus' = Terminal
  <2>1. CASE finish_tasks[subtask[Terminal]] = NoCode
    <3>1. UNCHANGED <<stage, inbox, focus, subtask>>
      BY <2>1 DEF WaitSubtask, WaitFinish
    <3>. QED BY <1>1, <3>1, InvIs DEF PipeTypes
  <2>2. CASE finish_tasks[subtask[Terminal]] # NoCode
    <3>1. /\ Goto(Terminal, "loop") /\ focus' = Terminal
          /\ inbox' = [inbox EXCEPT ![Terminal] = NoMessage]
      BY <2>2 DEF WaitSubtask
    <3>2. /\ stage' \in [TaskId -> Stages] /\ stage'[Terminal] = "loop"
          /\ \A u \in TaskId : u # Terminal => stage'[u] = stage[u]
      BY <1>1, <3>1, StageTypes DEF Stages
    <3>3. /\ inbox' \in [TaskId -> AllMessages \cup {NoMessage}]
          /\ \A u \in TaskId : u # Terminal => inbox'[u] = inbox[u]
      BY <3>1, InvIs DEF PipeTypes
    <3>. QED BY <3>1, <3>2, <3>3
  <2>. QED BY <2>1, <2>2
<1>4. ReadersWait /\ UNCHANGED <<stage[Main], inbox[Main], pc[Main]>> /\ \A c \in Children : UNCHANGED pc[c]
  BY <1>1, <1>2, <1>3, ChildrenAre DEF ReadersWait
<1>5. Sound(AllMessages)'
  BY <1>1, InvIs, WaitKeeps
<1>6. MainIsServed'
  BY <1>1, <1>4, InvIs, MainStays DEF MainQueue
<1>7. \A c \in Children : ReaderIsSound(c)'
  BY <1>1, <1>4, ReadersStay
<1>8. TerminalIsSound'
  BY <1>1, <1>3 DEF TerminalIsSound, Connected, pipevars
<1>9. PipeTypes' /\ StreamStep
  BY <1>1, <1>3, InvIs DEF PipeTypes, StreamStep, pipevars
<1>. QED BY <1>5, <1>6, <1>7, <1>8, <1>9 DEF PipeInv

\* A pipe message of the bytes a + 1, ..., b.
LEMMA PipeMessageCarries ==
  ASSUME NEW a \in Nat, NEW n \in Nat, NEW c \in Children,
         n = 0 => ended'[c] /\ sent'[c] = a
  PROVE  /\ PipeMessage(Bytes(a, n)) \in AllMessages
         /\ Carries(c, PipeMessage(Bytes(a, n)), a, a + n)'
<1>1. Bytes(a, n) \in Seq(Nat) /\ a + n \in Nat /\ a <= a + n /\ a + n - a = n
      /\ (a = a + n => n = 0)
  BY BytesAre
<1>2. PICK m : m = PipeMessage(Bytes(a, n))
  OBVIOUS
<1>3. m.type = "pipe" /\ m.data = Bytes(a, n) /\ m \in AllMessages
  BY <1>1, <1>2 DEF PipeMessage, AllMessages, PipeMessages
<1>4. Carries(c, m, a, a + n)'
  <2>1. PICK b : b = a + n
    OBVIOUS
  <2>2. a <= b /\ b - a = n /\ (a = b => ended'[c] /\ sent'[c] = a)
    BY <1>1, <2>1
  <2>3. Carries(c, m, a, b)'
    BY <1>3, <2>2 DEF Carries
  <2>. QED BY <2>1, <2>3
<1>. QED BY <1>2, <1>3, <1>4

\* The terminal sends to its subtask, which may be gone.
LEMMA SendToSubtaskIsSound ==
  ASSUME PipeInv, Connected, NEW id, id = subtask[Terminal], NEW n \in Nat,
         SendToSubtask(id, PipeMessage(Bytes(sent[id], n))),
         UNCHANGED <<inbox, want, data, closed, rcvd, eof>>,
         \A t \in TaskId : t # Terminal => stage'[t] = stage[t],
         sent' = [sent EXCEPT ![id] = @ + n],
         \/ n = 0 /\ ended' = [ended EXCEPT ![id] = TRUE]
         \/ n > 0 /\ ended' = ended
  PROVE  /\ Sound(AllMessages)' /\ MainIsServed' /\ \A c \in Children : ReaderIsSound(c)'
         /\ freed' \in [TaskId -> BOOLEAN] /\ UNCHANGED <<latest_id, subtask>>
<1>0. PICK a : a = sent[id]
  OBVIOUS
<1>. USE <1>0
<1>1. /\ id \in Children /\ id \in TaskId /\ id # Main /\ id # Terminal /\ ~ended[id] /\ id <= latest_id
      /\ a \in Nat /\ sent \in [TaskId -> Nat] /\ ended \in [TaskId -> BOOLEAN]
      /\ freed \in [TaskId -> BOOLEAN]
  BY InvIs, ChildrenAre DEF TerminalIsSound, PipeTypes
<1>2. PICK m : m = PipeMessage(Bytes(a, n))
  OBVIOUS
<1>3. /\ TrySend(id, m) /\ freed' = [freed EXCEPT ![id] = @ \/ id \notin tasks]
  BY <1>2 DEF SendToSubtask
<1>4. sent'[id] = a + n /\ (n = 0 => ended'[id] /\ sent'[id] = a)
  BY <1>1
<1>5. m \in AllMessages /\ Carries(id, m, a, a + n)'
  BY <1>1, <1>2, <1>4, PipeMessageCarries
<1>6. /\ UNCHANGED <<tasks, latest_id, pc, subtask>>
      /\ id \in tasks => SendMessage(id, m) /\ msgs' = [msgs EXCEPT ![id] = Append(@, m)]
      /\ id \notin tasks => UNCHANGED vars /\ UNCHANGED msgs
  BY <1>3 DEF TrySend, SendMessage, Post, vars
<1>7. Sound(AllMessages)'
  BY <1>1, <1>5, <1>6, InvIs, SendKeeps, StutterKeeps
<1>8. MainIsServed'
  <2>1. msgs'[Main] = msgs[Main] /\ stage'[Main] = stage[Main]
    BY <1>1, <1>6, InvIs, ChildrenAre
  <2>. QED BY <1>6, <2>1, InvIs, MainStays DEF MainQueue
<1>9. ASSUME NEW c \in Children, c # id PROVE ReaderIsSound(c)'
  <2>1. /\ UNCHANGED <<stage[c], pc[c], inbox[c], want[c]>>
        /\ UNCHANGED <<data[c], closed[c], rcvd[c], eof[c]>>
    BY <1>6, ChildrenAre
  <2>2. UNCHANGED <<msgs[c], sent[c], ended[c], freed[c]>>
    BY <1>1, <1>3, <1>6, <1>9, InvIs, ChildrenAre
  <2>. QED BY <1>6, <2>1, <2>2, ReaderStays DEF PipeInv, Own
<1>10. CASE id \in tasks
  <2>1. ~freed[id] /\ freed'[id] = freed[id]
    BY <1>1, <1>3, <1>10 DEF PipeInv, ReaderIsSound
  <2>2. \A x : x = sent[id] => Carries(id, m, x, a + n)'
    BY <1>5
  <2>3. MessageAdded(id, m, a + n)
    BY <1>1, <1>4, <1>5, <1>6, <1>10, <2>1, <2>2, ChildrenAre DEF MessageAdded
  <2>4. ReaderIsSound(id)'
    BY <1>1, <1>10, <2>3, ReaderGets
  <2>5. freed' \in [TaskId -> BOOLEAN]
    BY <1>1, <1>3, <1>10
  <2>. QED BY <1>6, <1>7, <1>8, <1>9, <2>4, <2>5
<1>11. CASE id \notin tasks
  <2>1. ~eof[id]
    BY <1>1 DEF PipeInv, ReaderIsSound
  <2>2. ~(id > latest_id') /\ id \notin tasks' /\ ~eof'[id]
    <3>1. id \in Nat /\ latest_id \in Nat
      BY <1>1, InvIs, ChildrenAre
    <3>. QED BY <1>1, <1>6, <1>11, <2>1, <3>1
  <2>3. ReaderIsSound(id)'
    BY <2>2 DEF ReaderIsSound
  <2>4. freed' \in [TaskId -> BOOLEAN]
    BY <1>1, <1>3, <1>11
  <2>. QED BY <1>6, <1>7, <1>8, <1>9, <2>3, <2>4
<1>. QED BY <1>10, <1>11

\* Write keeps the invariant, and the stream.
LEMMA WriteIsSound == ASSUME PipeInv, Write PROVE PipeInv' /\ StreamStep
<1>1. PICK id : id = subtask[Terminal]
  OBVIOUS
<1>2. PICK n : n = Min2(todo[Terminal], PipeData)
  OBVIOUS
<1>3. /\ stage[Terminal] = "write" /\ Connected /\ Terminal \in TaskId /\ id \in Children /\ id \in TaskId
      /\ ~ended[id] /\ todo[Terminal] \in Nat
      /\ UNCHANGED <<data, closed, rcvd, ended, eof, inbox, writes, want, envvars>>
  BY <1>1, InvIs, ChildrenAre DEF Write, At, Connected, TerminalIsSound, PipeTypes
<1>4. CASE todo[Terminal] = 0
  <2>1. Goto(Terminal, "command") /\ UNCHANGED <<vars, freed, sent, todo>>
    BY <1>4 DEF Write
  <2>2. /\ stage' \in [TaskId -> Stages] /\ stage'[Terminal] = "command"
        /\ \A u \in TaskId : u # Terminal => stage'[u] = stage[u]
    BY <1>3, <2>1, StageTypes DEF Stages
  <2>3. UNCHANGED pipevars
    BY <1>3, <2>1 DEF pipevars
  <2>4. TerminalAlone
    BY <1>3, <2>1, <2>2, <2>3, ChildrenAre DEF TerminalAlone, ReadersWait
  <2>5. TerminalIsSound'
    <3>1. UNCHANGED <<latest_id, subtask, focus, ended>>
      BY <1>3, <2>1 DEF vars, envvars
    <3>. QED BY <1>3, <2>2, <3>1, InvIs DEF TerminalIsSound, Connected
  <2>6. PipeTypes' /\ StreamStep
    BY <1>3, <2>1, <2>2, <2>3, InvIs DEF PipeTypes, StreamStep, pipevars, envvars
  <2>. QED BY <2>4, <2>5, <2>6, TerminalAloneIsSound DEF PipeInv
<1>5. CASE todo[Terminal] # 0
  <2>1. n \in Nat /\ n > 0 /\ todo[Terminal] - n \in Nat
    BY <1>2, <1>3, <1>5, PipeAssumption DEF Min2
  <2>2. /\ SendToSubtask(id, PipeMessage(Bytes(sent[id], n)))
        /\ sent' = [sent EXCEPT ![id] = @ + n]
        /\ todo' = [todo EXCEPT ![Terminal] = @ - n] /\ UNCHANGED stage
    BY <1>1, <1>2, <1>5 DEF Write, Bytes
  <2>3. /\ Sound(AllMessages)' /\ MainIsServed' /\ \A c \in Children : ReaderIsSound(c)'
        /\ freed' \in [TaskId -> BOOLEAN] /\ UNCHANGED <<latest_id, subtask>>
    BY <1>1, <1>3, <2>1, <2>2, SendToSubtaskIsSound
  <2>4. TerminalIsSound'
    BY <1>3, <2>2, <2>3, TerminalStays DEF envvars
  <2>5. /\ sent' \in [TaskId -> Nat] /\ todo' \in [TaskId -> Nat]
        /\ sent'[id] = sent[id] + n /\ sent'[id] > sent[id]
    <3>1. sent \in [TaskId -> Nat] /\ todo \in [TaskId -> Nat] /\ sent[id] \in Nat
      BY <1>3, InvIs DEF PipeTypes
    <3>2. sent[id] + n \in Nat /\ sent[id] + n > sent[id]
      BY <2>1, <3>1
    <3>. QED BY <1>3, <2>1, <2>2, <3>1, <3>2
  <2>6. PipeTypes'
    BY <1>3, <2>2, <2>3, <2>5, InvIs DEF PipeTypes, envvars
  <2>7. Stream!Write(id)
    BY <1>3, <2>2, <2>5 DEF Stream!Write
  <2>8. StreamStep
    BY <1>3, <2>7 DEF StreamStep, Stream!Next
  <2>. QED BY <2>3, <2>4, <2>6, <2>8 DEF PipeInv
<1>. QED BY <1>4, <1>5

\* FinishWrite keeps the invariant, and the stream.
LEMMA FinishWriteIsSound == ASSUME PipeInv, FinishWrite PROVE PipeInv' /\ StreamStep
<1>1. PICK id : id = subtask[Terminal]
  OBVIOUS
<1>2. /\ stage[Terminal] = "command" /\ Connected /\ Terminal \in TaskId /\ id \in Children /\ id \in TaskId
      /\ Goto(Terminal, "wait") /\ ended' = [ended EXCEPT ![id] = TRUE]
      /\ SendToSubtask(id, PipeMessage(<< >>))
      /\ UNCHANGED <<data, closed, sent, rcvd, eof, inbox, todo, writes, want, envvars>>
  BY <1>1, InvIs, ChildrenAre DEF FinishWrite, At, Connected, TerminalIsSound
<1>3. /\ stage' \in [TaskId -> Stages] /\ stage'[Terminal] = "wait"
      /\ \A u \in TaskId : u # Terminal => stage'[u] = stage[u]
  BY <1>2, StageTypes DEF Stages
<1>4. sent \in [TaskId -> Nat] /\ sent[id] \in Nat /\ 0 \in Nat
  BY <1>2, InvIs DEF PipeTypes
<1>5. sent' = [sent EXCEPT ![id] = @ + 0]
  BY <1>2, <1>4
<1>6. Bytes(sent[id], 0) = << >>
  BY <1>4, BytesAre
<1>7. /\ Sound(AllMessages)' /\ MainIsServed' /\ \A c \in Children : ReaderIsSound(c)'
      /\ freed' \in [TaskId -> BOOLEAN] /\ UNCHANGED <<latest_id, subtask>>
  <2>1. SendToSubtask(id, PipeMessage(Bytes(sent[id], 0)))
    BY <1>2, <1>6
  <2>2. \A t \in TaskId : t # Terminal => stage'[t] = stage[t]
    BY <1>3
  <2>3. UNCHANGED <<inbox, want, data, closed, rcvd, eof>>
    BY <1>2
  <2>. QED BY <1>1, <1>2, <1>4, <1>5, <2>1, <2>2, <2>3, SendToSubtaskIsSound
<1>8. TerminalIsSound'
  BY <1>1, <1>2, <1>3, <1>7, InvIs DEF TerminalIsSound, Connected, envvars
<1>9. PipeTypes'
  BY <1>2, <1>3, <1>7, InvIs DEF PipeTypes, envvars
<1>10. StreamStep
  BY <1>2 DEF StreamStep, Stream!Next, Stream!Finish
<1>. QED BY <1>7, <1>8, <1>9, <1>10 DEF PipeInv

\* A reader ends: nothing more is asked of its pipe.
LEMMA ExitIsSound ==
  ASSUME PipeInv, NEW c \in Children, Exit(c)
  PROVE  PipeInv' /\ StreamStep
<1>1. PICK code \in ExitCodes : Finish(c, code)
  BY DEF Exit
<1>2. UNCHANGED <<pipevars, progvars, envvars>> /\ c \in TaskId /\ c # Main /\ c \in tasks
  BY <1>1, InvIs, ChildrenAre DEF Exit, Finish, Running
<1>3. /\ tasks' = tasks \ {c} /\ msgs' = [msgs EXCEPT ![c] = << >>]
      /\ UNCHANGED <<latest_id, pc, subtask>>
  BY <1>1, InvIs DEF Finish, Running
<1>4. Sound(AllMessages)'
  BY <1>1, <1>2, InvIs, FinishKeeps
<1>5. MainIsServed' /\ TerminalIsSound'
  <2>1. msgs'[Main] = msgs[Main]
    BY <1>2, <1>3, InvIs
  <2>2. MainQueue'
    BY <2>1, InvIs DEF MainQueue
  <2>. QED BY <1>2, <1>3, <2>2, MainStays, TerminalStays DEF progvars, envvars, pipevars
<1>6. ASSUME NEW r \in Children PROVE ReaderIsSound(r)'
  <2>1. CASE r = c
    <3>1. c \in Nat /\ latest_id \in Nat /\ c <= latest_id
      BY <1>2, InvIs, ChildrenAre
    <3>2. ~(c > latest_id') /\ c \notin tasks' /\ ~freed[c] /\ (eof[c] => ended[c])
      BY <1>2, <1>3, <3>1 DEF PipeInv, ReaderIsSound
    <3>. QED BY <1>2, <2>1, <3>2 DEF ReaderIsSound, pipevars
  <2>2. CASE r # c
    <3>1. msgs'[r] = msgs[r]
      BY <1>3, <2>2, InvIs, ChildrenAre
    <3>2. UNCHANGED Own(r)
      BY <1>2, <1>3, <3>1 DEF Own, progvars, pipevars
    <3>. QED BY <1>3, <3>2, ReaderStays DEF PipeInv
  <2>. QED BY <2>1, <2>2
<1>7. PipeTypes' /\ StreamStep
  BY <1>2, InvIs DEF PipeTypes, StreamStep, pipevars, progvars, envvars
<1>. QED BY <1>4, <1>5, <1>6, <1>7 DEF PipeInv

\* A reader takes the next message into its hand.
LEMMA ReaderTakes ==
  ASSUME PipeInv, NEW c \in Children, c \in tasks, pc[c] = "recv", msgs[c] # << >>,
         msgs' = [msgs EXCEPT ![c] = Tail(@)], pc' = [pc EXCEPT ![c] = "run"],
         inbox' = [inbox EXCEPT ![c] = Head(msgs[c])],
         UNCHANGED <<tasks, latest_id, stage, want, pipevars>>
  PROVE  ReaderIsSound(c)'
<1>1. /\ msgs[c] \in Seq(AllMessages) /\ c \in TaskId /\ c <= latest_id /\ ~(c > latest_id)
      /\ ReaderIsSound(c) /\ IsReading(c) /\ InOrder(c)
  <2>1. msgs[c] \in Seq(AllMessages) /\ c \in TaskId /\ c \in Nat /\ latest_id \in Nat /\ c <= latest_id
    BY InvIs, ChildrenAre
  <2>. QED BY <2>1 DEF PipeInv, ReaderIsSound
<1>2. /\ stage[c] = "read" /\ stage'[c] = "read" /\ pc'[c] = "run" /\ inbox'[c] = Head(msgs[c])
      /\ msgs'[c] = Tail(msgs[c]) /\ ~Holding(c) /\ Holding(c)'
  BY <1>1, InvIs DEF IsReading, Holding, PipeTypes
<1>3. PICK upto : Brings(c, upto)
  BY <1>1 DEF InOrder
<1>4. PICK n \in Nat : n = Len(msgs[c]) - 1
  <2>1. Len(msgs[c]) \in Nat /\ Len(msgs[c]) # 0
    BY <1>1, EmptySeq
  <2>2. Len(msgs[c]) - 1 \in Nat
    BY <2>1
  <2>. QED BY <2>2
<1>5. /\ Len(msgs[c]) = n + 1 /\ Len(msgs'[c]) = n /\ Head(msgs[c]) = msgs[c][1]
      /\ \A i \in 1..n : msgs'[c][i] = msgs[c][i + 1]
  <2>1. /\ Len(Tail(msgs[c])) = Len(msgs[c]) - 1 /\ Head(msgs[c]) = msgs[c][1]
        /\ \A i \in 1..(Len(msgs[c]) - 1) : Tail(msgs[c])[i] = msgs[c][i + 1]
    BY <1>1, HeadTailProperties
  <2>2. Len(msgs[c]) = n + 1
    <3>1. Len(msgs[c]) \in Nat
      BY <1>1
    <3>. QED BY <1>4, <3>1
  <2>3. Len(msgs[c]) - 1 = n
    BY <1>4
  <2>4. \A i \in 1..n : Tail(msgs[c])[i] = msgs[c][i + 1]
    BY <2>1, <2>3
  <2>. QED BY <1>2, <2>1, <2>2, <2>3, <2>4
<1>6. /\ upto \in [1..(n + 2) -> Nat] /\ upto[1] = Reached(c) /\ upto[n + 2] = sent[c]
      /\ \A i \in 1..(n + 1) : Carries(c, msgs[c][i], upto[i], upto[i + 1])
      /\ \A i \in 1..(n + 2) : upto[i] <= sent[c]
  <2>1. n + 1 + 1 = n + 2
    OBVIOUS
  <2>. QED BY <1>2, <1>3, <1>5, <2>1 DEF Brings
<1>7. PICK next \in [1..(n + 1) -> Nat] : \A i \in 1..(n + 1) : next[i] = upto[i + 1]
  <2>. DEFINE f == [i \in 1..(n + 1) |-> upto[i + 1]]
  <2>1. f \in [1..(n + 1) -> Nat] /\ \A i \in 1..(n + 1) : f[i] = upto[i + 1]
    BY <1>6
  <2>. QED BY <2>1
<1>8. ASSUME NEW m, NEW a, NEW b PROVE Carries(c, m, a, b)' <=> Carries(c, m, a, b)
  BY DEF Carries, pipevars
<1>9. Reached(c)' = Reached(c)
  BY DEF Reached, pipevars
<1>10. Carries(c, inbox[c], Reached(c), next[1])'
  <2>1. Carries(c, msgs[c][1], upto[1], upto[2]) /\ next[1] = upto[2] /\ inbox'[c] = msgs[c][1]
    BY <1>2, <1>5, <1>6, <1>7
  <2>2. \A m, a, b : Carries(c, m, a, b) => Carries(c, m, a, b)'
    BY <1>8
  <2>. QED BY <1>6, <1>9, <2>1, <2>2
<1>11. ASSUME NEW i \in 1..n PROVE Carries(c, msgs[c][i], next[i], next[i + 1])'
  <2>1. /\ i + 1 \in 1..(n + 1) /\ msgs'[c][i] = msgs[c][i + 1]
        /\ next[i] = upto[i + 1] /\ next[i + 1] = upto[i + 1 + 1]
    BY <1>5, <1>7
  <2>. QED BY <1>6, <1>8, <2>1
<1>12. Brings(c, next)'
  <2>1. next[n + 1] = sent'[c] /\ \A i \in 1..(n + 1) : next[i] <= sent'[c]
    <3>1. \A i \in 1..(n + 1) : i + 1 \in 1..(n + 2) /\ next[i] = upto[i + 1]
      BY <1>7
    <3>2. n + 1 \in 1..(n + 1) /\ n + 1 + 1 = n + 2
      OBVIOUS
    <3>. QED BY <1>6, <3>1, <3>2 DEF pipevars
  <2>. QED BY <1>2, <1>5, <1>7, <1>10, <1>11, <2>1 DEF Brings
<1>13. InOrder(c)'
  BY <1>1, <1>9, <1>12 DEF InOrder, pipevars
<1>14. IsReading(c)'
  BY <1>1, <1>2 DEF IsReading, pipevars
<1>. QED BY <1>1, <1>13, <1>14 DEF ReaderIsSound, pipevars

\* Receive keeps the invariant, and the stream.
LEMMA ReceiveIsSound ==
  ASSUME PipeInv, NEW t \in TaskId, Receive(t)
  PROVE  PipeInv' /\ StreamStep
<1>1. /\ ReceiveMessage(t) /\ UNCHANGED <<stage, todo, writes, want, pipevars, envvars>>
      /\ UNCHANGED <<tasks, latest_id, subtask>> /\ t \in tasks /\ t # Idle /\ pc[t] = "recv"
      /\ msgs[t] \in Seq(AllMessages)
  BY InvIs DEF Receive, ReceiveMessage, Running
<1>2. Sound(AllMessages)'
  BY <1>1, InvIs, ReceiveKeeps
<1>3. TerminalIsSound'
  BY <1>1, TerminalStays DEF pipevars, envvars
<1>4. CASE msgs[t] = << >>
  <2>1. UNCHANGED <<msgs, pc, inbox>>
    BY <1>4 DEF Receive, ReceiveMessage
  <2>2. MainIsServed'
    BY <1>1, <2>1, InvIs, MainStays DEF MainQueue
  <2>3. \A c \in Children : ReaderIsSound(c)'
    BY <1>1, <2>1, ReadersStay DEF ReadersWait
  <2>4. PipeTypes' /\ StreamStep
    BY <1>1, <2>1, InvIs DEF PipeTypes, StreamStep, pipevars, envvars
  <2>. QED BY <1>2, <1>3, <2>2, <2>3, <2>4 DEF PipeInv
<1>5. CASE msgs[t] # << >>
  <2>1. /\ msgs' = [msgs EXCEPT ![t] = Tail(@)] /\ pc' = [pc EXCEPT ![t] = "run"]
        /\ inbox' = [inbox EXCEPT ![t] = Head(msgs[t])]
    BY <1>5 DEF Receive, ReceiveMessage
  <2>2. Head(msgs[t]) \in AllMessages /\ Head(msgs[t]) = msgs[t][1] /\ Len(msgs[t]) \in Nat /\ Len(msgs[t]) # 0
    BY <1>1, <1>5, HeadTailProperties, EmptySeq
  <2>3. \A u \in TaskId : u # t => msgs'[u] = msgs[u] /\ pc'[u] = pc[u] /\ inbox'[u] = inbox[u]
    BY <2>1, InvIs DEF PipeTypes
  <2>4. MainIsServed'
    <3>1. CASE t = Main
      <4>1. /\ Len(Tail(msgs[t])) = Len(msgs[t]) - 1
            /\ \A i \in 1..(Len(msgs[t]) - 1) : Tail(msgs[t])[i] = msgs[t][i + 1]
        BY <1>1, <1>5, HeadTailProperties
      <4>2. msgs'[Main] = Tail(msgs[t]) /\ inbox'[Main] = msgs[t][1]
        BY <2>1, <2>2, <3>1, InvIs DEF PipeTypes
      <4>3. \A i \in 1..Len(msgs[t]) : ForMain(msgs[t][i])
        BY <3>1, InvIs DEF MainQueue
      <4>4. \A i \in 1..(Len(msgs[t]) - 1) : i + 1 \in 1..Len(msgs[t])
        BY <2>2
      <4>5. ForMain(msgs[t][1])
        BY <2>2, <4>3
      <4>. QED BY <4>1, <4>2, <4>3, <4>4, <4>5 DEF MainIsServed
    <3>2. CASE t # Main
      <4>1. UNCHANGED <<msgs[Main], pc[Main], inbox[Main], stage[Main]>>
        BY <1>1, <2>3, <3>2, ChildrenAre
      <4>. QED BY <4>1, InvIs, MainStays DEF MainQueue
    <3>. QED BY <3>1, <3>2
  <2>5. ASSUME NEW c \in Children PROVE ReaderIsSound(c)'
    <3>1. CASE c = t
      BY <1>1, <1>5, <2>1, <3>1, ReaderTakes
    <3>2. CASE c # t
      <4>1. UNCHANGED Own(c)
        BY <1>1, <2>3, <3>2, ChildrenAre DEF Own, pipevars
      <4>. QED BY <1>1, <4>1, ReaderStays DEF PipeInv
    <3>. QED BY <3>1, <3>2
  <2>6. inbox' \in [TaskId -> AllMessages \cup {NoMessage}]
    BY <2>1, <2>2, InvIs DEF PipeTypes
  <2>7. PipeTypes' /\ StreamStep
    BY <1>1, <2>6, InvIs DEF PipeTypes, StreamStep, pipevars, envvars
  <2>. QED BY <1>2, <1>3, <2>4, <2>5, <2>7 DEF PipeInv
<1>. QED BY <1>4, <1>5

\* What a reader that runs has.
LEMMA ReaderHas ==
  ASSUME PipeInv, NEW c \in Children, cpu = c
  PROVE  /\ c \in tasks /\ c \in TaskId /\ c # Main /\ c # Terminal /\ ~(c > latest_id)
         /\ ReaderIsSound(c) /\ IsReading(c) /\ InOrder(c)
         /\ Len(rcvd[c]) \in Nat /\ Len(data[c]) \in Nat /\ sent[c] \in Nat /\ Reached(c) \in Nat
         /\ data[c] # << >> => Len(data[c]) > 0
         /\ data[c] = << >> => Len(data[c]) = 0
<1>1. c \in tasks /\ c \in TaskId /\ c # Main /\ c # Terminal
  BY InvIs, ChildrenAre
<1>2. ReaderIsSound(c) /\ IsReading(c) /\ InOrder(c)
  BY <1>1 DEF PipeInv, ReaderIsSound
<1>3. ~(c > latest_id)
  <2>1. c \in Nat /\ latest_id \in Nat /\ c <= latest_id
    BY <1>1, InvIs, ChildrenAre
  <2>. QED BY <2>1
<1>4. rcvd[c] \in Seq(Nat) /\ data[c] \in Seq(Nat) /\ sent[c] \in Nat
  BY <1>1, InvIs DEF PipeTypes
<1>5. /\ Len(rcvd[c]) \in Nat /\ Len(data[c]) \in Nat
      /\ data[c] # << >> => Len(data[c]) # 0
      /\ data[c] = << >> => Len(data[c]) = 0
  BY <1>4, EmptySeq
<1>6. Reached(c) \in Nat
  <2>1. \A a, b \in Nat : a + b \in Nat
    OBVIOUS
  <2>. QED BY <1>5, <2>1 DEF Reached
<1>7. data[c] # << >> => Len(data[c]) > 0
  <2>1. \A a \in Nat : a # 0 => a > 0
    OBVIOUS
  <2>. QED BY <1>5, <2>1
<1>. QED BY <1>1, <1>2, <1>3, <1>4, <1>5, <1>6, <1>7

\* Read returns n of the l bytes it has.
LEMMA DeliverIs ==
  ASSUME PipeInv, NEW c \in Children, cpu = c, NEW len \in Nat, len > 0, NEW buf, NEW l \in Nat, l > 0,
         buf = Bytes(Len(rcvd[c]), l), Deliver(c, buf, len)
  PROVE  \E n \in 1..l : /\ rcvd' = [rcvd EXCEPT ![c] = Bytes(0, Len(rcvd[c]) + n)]
                         /\ data' = [data EXCEPT ![c] = Bytes(Len(rcvd[c]) + n, l - n)]
<1>1. PICK r \in Nat : r = Len(rcvd[c])
  BY ReaderHas
<1>2. rcvd[c] = Bytes(0, r) /\ Len(buf) = l
  BY <1>1, ReaderHas, BytesAre DEF InOrder
<1>3. PICK n \in 1..l : n = Min2(Len(buf), len)
  <2>1. Min2(l, len) \in 1..l
    BY DEF Min2
  <2>. QED BY <1>2, <2>1
<1>4. /\ rcvd' = [rcvd EXCEPT ![c] = @ \o SubSeq(buf, 1, n)]
      /\ data' = [data EXCEPT ![c] = SubSeq(buf, n + 1, l)]
  BY <1>2, <1>3 DEF Deliver
<1>5. /\ Bytes(0, r) \o SubSeq(Bytes(r, l), 1, n) = Bytes(0, r + n)
      /\ SubSeq(Bytes(r, l), n + 1, l) = Bytes(r + n, l - n)
  <2>1. n \in 0..l
    OBVIOUS
  <2>. QED BY <2>1, Delivered
<1>. QED BY <1>1, <1>2, <1>4, <1>5

\* The messages still to come, when the reader has nothing in hand after a step in which its
\* queue did not change and has reached what the queue continues from.
LEMMA QueueGoesOn ==
  ASSUME NEW c \in Children, NEW upto, Brings(c, upto), NEW reached, reached = Reached(c)',
         upto[1] = reached, ~Holding(c)', UNCHANGED <<msgs[c], sent[c], ended[c]>>
  PROVE  Brings(c, upto)'
<1>1. ASSUME NEW m, NEW a, NEW b, Carries(c, m, a, b) PROVE Carries(c, m, a, b)'
  BY <1>1 DEF Carries
<1>. QED BY <1>1 DEF Brings

\* The rest of the invariant, when a reader does a step by itself.
ReaderAlone(c) ==
  /\ UNCHANGED <<tasks, latest_id, msgs, subtask, sent, ended, freed, inbox, todo, writes, envvars>>
  /\ \A t \in TaskId \ {c} : UNCHANGED <<stage[t], pc[t], want[t], data[t], closed[t], rcvd[t], eof[t]>>
  /\ stage' \in [TaskId -> Stages] /\ want' \in [TaskId -> Nat]
  /\ data' \in [TaskId -> Seq(Nat)] /\ rcvd' \in [TaskId -> Seq(Nat)]
  /\ closed' \in [TaskId -> BOOLEAN] /\ eof' \in [TaskId -> BOOLEAN]

\* A step of one reader leaves the rest of the invariant.
LEMMA ReaderAloneIsSound ==
  ASSUME PipeInv, NEW c \in Children, cpu = c, ReaderAlone(c), Sound(AllMessages)', ReaderIsSound(c)'
  PROVE  PipeInv'
<1>1. MainIsServed' /\ TerminalIsSound'
  <2>1. /\ UNCHANGED <<stage[Main], pc[Main], inbox[Main], msgs[Main]>>
        /\ UNCHANGED <<stage[Terminal], focus, subtask[Terminal], ended, latest_id>>
    BY ChildrenAre DEF ReaderAlone, envvars
  <2>. QED BY <2>1, InvIs, MainStays, TerminalStays DEF MainQueue
<1>2. ASSUME NEW r \in Children, r # c PROVE ReaderIsSound(r)'
  <2>1. UNCHANGED Own(r)
    BY <1>2, ChildrenAre DEF ReaderAlone, Own
  <2>2. UNCHANGED <<tasks, latest_id>>
    BY DEF ReaderAlone
  <2>. QED BY <2>1, <2>2, ReaderStays DEF PipeInv
<1>3. PipeTypes'
  BY InvIs DEF PipeTypes, ReaderAlone, envvars
<1>. QED BY <1>1, <1>2, <1>3 DEF PipeInv

\* n of the l bytes at hand are returned: the abstract stream's Read.
LEMMA DeliverIsRead ==
  ASSUME PipeInv, NEW c \in Children, cpu = c, NEW l \in Nat, NEW n \in 1..l,
         rcvd' = [rcvd EXCEPT ![c] = Bytes(0, Len(rcvd[c]) + n)],
         data' = [data EXCEPT ![c] = Bytes(Len(rcvd[c]) + n, l - n)],
         Len(rcvd[c]) + l <= sent[c], UNCHANGED <<sent, ended, eof>>
  PROVE  /\ Stream!Read(c)
         /\ data' \in [TaskId -> Seq(Nat)] /\ rcvd' \in [TaskId -> Seq(Nat)]
         /\ rcvd'[c] = Bytes(0, Len(rcvd'[c])) /\ data'[c] = Bytes(Len(rcvd'[c]), Len(data'[c]))
         /\ Reached(c)' = Len(rcvd[c]) + l
<1>1. PICK r \in Nat : r = Len(rcvd[c])
  BY ReaderHas
<1>2. PICK k \in Nat : k = r + n
  OBVIOUS
<1>3. PICK d \in Nat : d = l - n
  OBVIOUS
<1>4. /\ Bytes(0, k) \in Seq(Nat) /\ Len(Bytes(0, k)) = k
      /\ Bytes(k, d) \in Seq(Nat) /\ Len(Bytes(k, d)) = d
  BY BytesAre
<1>5. data \in [TaskId -> Seq(Nat)] /\ rcvd \in [TaskId -> Seq(Nat)] /\ c \in TaskId /\ sent[c] \in Nat
  BY InvIs, ReaderHas DEF PipeTypes
<1>6. /\ rcvd' = [rcvd EXCEPT ![c] = Bytes(0, k)] /\ data' = [data EXCEPT ![c] = Bytes(k, d)]
  BY <1>1, <1>2, <1>3
<1>7. /\ data' \in [TaskId -> Seq(Nat)] /\ rcvd' \in [TaskId -> Seq(Nat)]
      /\ rcvd'[c] = Bytes(0, k) /\ data'[c] = Bytes(k, d)
  BY <1>4, <1>5, <1>6
<1>8. Reached(c)' = Len(rcvd[c]) + l
  <2>1. k + d = r + l
    BY <1>2, <1>3
  <2>2. Len(rcvd'[c]) = k /\ Len(data'[c]) = d
    BY <1>4, <1>7
  <2>3. Reached(c)' = Len(rcvd'[c]) + Len(data'[c])
    BY DEF Reached
  <2>. QED BY <1>1, <2>1, <2>2, <2>3
<1>9. Stream!Read(c)
  <2>1. k \in (Len(rcvd[c]) + 1)..sent[c]
    BY <1>1, <1>2, <1>5
  <2>2. Bytes(0, k) = [i \in 1..k |-> i]
    <3>1. \A i \in 1..k : 0 + i = i
      OBVIOUS
    <3>. QED BY <3>1 DEF Bytes
  <2>. QED BY <1>6, <2>1, <2>2 DEF Stream!Read
<1>. QED BY <1>4, <1>7, <1>8, <1>9

\* What is known of a reader that has bytes left, or none and a queue that brings more.
LEMMA ReaderStarts ==
  ASSUME PipeInv, NEW c \in Children, CallRead(c)
  PROVE  /\ cpu = c /\ stage[c] = "start" /\ pc[c] = "run" /\ ~Holding(c)
         /\ UNCHANGED <<closed, sent, ended, freed, inbox, todo, writes, envvars>>
         /\ \E upto : Brings(c, upto) /\ upto[1] = Reached(c) /\ Reached(c) <= sent[c]
<1>1. /\ cpu = c /\ stage[c] = "start" /\ pc[c] = "run" /\ ~Holding(c)
      /\ UNCHANGED <<closed, sent, ended, freed, inbox, todo, writes, envvars>>
  BY DEF CallRead, At, Running, Holding
<1>2. PICK upto : Brings(c, upto)
  BY <1>1, ReaderHas DEF InOrder
<1>3. upto[1] = Reached(c)
  BY <1>1, <1>2 DEF Brings
<1>4. 1 \in 1..Len(msgs[c]) + 1
  <2>1. Len(msgs[c]) \in Nat
    BY <1>1, ReaderHas, InvIs
  <2>. QED BY <2>1
<1>5. upto[1] <= sent[c]
  BY <1>2, <1>4 DEF Brings
<1>. QED BY <1>1, <1>2, <1>3, <1>5

\* CallRead keeps the invariant, and the stream.
LEMMA CallReadIsSound ==
  ASSUME PipeInv, NEW c \in Children, CallRead(c)
  PROVE  PipeInv' /\ StreamStep
<1>1. /\ cpu = c /\ stage[c] = "start" /\ pc[c] = "run" /\ ~Holding(c)
      /\ UNCHANGED <<closed, sent, ended, freed, inbox, todo, writes, envvars>>
  BY ReaderStarts
<1>2. PICK upto : Brings(c, upto) /\ upto[1] = Reached(c) /\ Reached(c) <= sent[c]
  BY ReaderStarts
<1>3. PICK len \in 1..MaxRead :
        IF data[c] # << >>
        THEN Deliver(c, data[c], len) /\ UNCHANGED <<vars, eof, want, stage>>
        ELSE IF closed[c]
        THEN ReportEof(c) /\ UNCHANGED <<vars, data, rcvd, want, stage>>
        ELSE /\ want' = [want EXCEPT ![c] = len]
             /\ HandlerDone(c) /\ Goto(c, "read")
             /\ UNCHANGED <<data, rcvd, eof>>
  BY DEF CallRead
<1>4. len \in Nat /\ len > 0
  BY PipeAssumption
<1>5. CASE data[c] # << >>
  <2>1. Deliver(c, data[c], len) /\ UNCHANGED <<vars, eof, want, stage>>
    BY <1>3, <1>5
  <2>2. UNCHANGED <<tasks, latest_id, msgs, subtask, pc>>
    BY <2>1 DEF vars
  <2>3. PICK l \in Nat : l = Len(data[c])
    BY <1>1, ReaderHas
  <2>4. l > 0 /\ data[c] = Bytes(Len(rcvd[c]), l) /\ Len(rcvd[c]) + l = Reached(c)
    BY <1>1, <1>5, <2>3, ReaderHas DEF InOrder, Reached
  <2>5. PICK n \in 1..l : /\ rcvd' = [rcvd EXCEPT ![c] = Bytes(0, Len(rcvd[c]) + n)]
                          /\ data' = [data EXCEPT ![c] = Bytes(Len(rcvd[c]) + n, l - n)]
    BY <1>1, <1>4, <2>1, <2>4, DeliverIs
  <2>6. Len(rcvd[c]) + l <= sent[c]
    BY <1>2, <2>4
  <2>7. /\ Stream!Read(c)
        /\ data' \in [TaskId -> Seq(Nat)] /\ rcvd' \in [TaskId -> Seq(Nat)]
        /\ rcvd'[c] = Bytes(0, Len(rcvd'[c])) /\ data'[c] = Bytes(Len(rcvd'[c]), Len(data'[c]))
        /\ Reached(c)' = Len(rcvd[c]) + l
    BY <1>1, <2>1, <2>5, <2>6, DeliverIsRead
  <2>8. Reached(c)' = Reached(c) /\ ~Holding(c)'
    BY <1>1, <2>1, <2>2, <2>4, <2>7 DEF Holding
  <2>9. Brings(c, upto)'
    BY <1>1, <1>2, <2>2, <2>8, QueueGoesOn
  <2>10. InOrder(c)'
    BY <1>1, <2>7, <2>8, <2>9, ReaderHas DEF InOrder
  <2>11. ReaderIsSound(c)'
    BY <1>1, <2>1, <2>2, <2>10, ReaderHas DEF ReaderIsSound, IsReading
  <2>12. Sound(AllMessages)'
    BY <2>1, InvIs, StutterKeeps
  <2>13. ReaderAlone(c)
    <3>1. \A t \in TaskId \ {c} : UNCHANGED <<data[t], rcvd[t]>>
      BY <2>5, InvIs DEF PipeTypes
    <3>. QED BY <1>1, <2>1, <2>2, <2>7, <3>1, InvIs DEF ReaderAlone, PipeTypes
  <2>14. StreamStep
    BY <1>1, <2>7, ReaderHas DEF StreamStep, Stream!Next
  <2>. QED BY <1>1, <2>11, <2>12, <2>13, <2>14, ReaderAloneIsSound
<1>6. CASE data[c] = << >> /\ closed[c]
  <2>1. ReportEof(c) /\ UNCHANGED <<vars, data, rcvd, want, stage>>
    BY <1>3, <1>6
  <2>2. UNCHANGED <<tasks, latest_id, msgs, subtask, pc>>
    BY <2>1 DEF vars
  <2>3. eof' = [eof EXCEPT ![c] = TRUE] /\ eof' \in [TaskId -> BOOLEAN] /\ eof'[c]
        /\ \A t \in TaskId \ {c} : UNCHANGED eof[t]
    BY <1>1, <2>1, InvIs, ReaderHas DEF ReportEof, PipeTypes
  <2>4. ended[c] /\ Len(rcvd[c]) = sent[c]
    <3>1. ended[c] /\ Reached(c) = sent[c] /\ Len(data[c]) = 0 /\ Len(rcvd[c]) \in Nat
      BY <1>1, <1>6, ReaderHas DEF InOrder
    <3>2. Reached(c) = Len(rcvd[c]) + 0
      BY <3>1 DEF Reached
    <3>. QED BY <3>1, <3>2
  <2>5. Reached(c)' = Reached(c) /\ ~Holding(c)'
    BY <1>1, <2>1, <2>2 DEF Holding, Reached
  <2>6. Brings(c, upto)'
    BY <1>1, <1>2, <2>2, <2>5, QueueGoesOn
  <2>7. InOrder(c)'
    BY <1>1, <2>1, <2>5, <2>6, ReaderHas DEF InOrder
  <2>8. ReaderIsSound(c)'
    BY <1>1, <2>1, <2>2, <2>4, <2>7, ReaderHas DEF ReaderIsSound, IsReading
  <2>9. Sound(AllMessages)'
    BY <2>1, InvIs, StutterKeeps
  <2>10. ReaderAlone(c)
    BY <1>1, <2>1, <2>2, <2>3, InvIs DEF ReaderAlone, PipeTypes
  <2>11. StreamStep
    BY <1>1, <2>1, <2>3, <2>4, ReaderHas DEF StreamStep, Stream!Next, Stream!EndOfFile
  <2>. QED BY <1>1, <2>8, <2>9, <2>10, <2>11, ReaderAloneIsSound
<1>7. CASE data[c] = << >> /\ ~closed[c]
  <2>1. /\ want' = [want EXCEPT ![c] = len] /\ HandlerDone(c) /\ Goto(c, "read")
        /\ UNCHANGED <<data, rcvd, eof>>
    BY <1>3, <1>7
  <2>2. pc' = [pc EXCEPT ![c] = "recv"] /\ UNCHANGED <<tasks, latest_id, msgs, subtask>>
    BY <2>1 DEF HandlerDone
  <2>3. /\ stage' \in [TaskId -> Stages] /\ stage'[c] = "read"
        /\ \A u \in TaskId : u # c => stage'[u] = stage[u]
    BY <1>1, <2>1, ReaderHas, StageTypes DEF Stages
  <2>4. /\ pc'[c] = "recv" /\ want'[c] = len /\ want' \in [TaskId -> Nat]
        /\ \A t \in TaskId \ {c} : UNCHANGED <<pc[t], want[t]>>
    BY <1>1, <1>4, <2>1, <2>2, InvIs, ReaderHas DEF PipeTypes
  <2>5. Reached(c)' = Reached(c) /\ ~Holding(c)'
    BY <2>1, <2>4 DEF Holding, Reached
  <2>6. Brings(c, upto)'
    BY <1>1, <1>2, <2>2, <2>5, QueueGoesOn
  <2>7. InOrder(c)'
    BY <1>1, <2>1, <2>5, <2>6, ReaderHas DEF InOrder
  <2>8. IsReading(c)'
    BY <1>1, <1>4, <1>7, <2>1, <2>3, <2>4 DEF IsReading
  <2>9. ReaderIsSound(c)'
    BY <1>1, <2>1, <2>2, <2>7, <2>8, ReaderHas DEF ReaderIsSound
  <2>10. Sound(AllMessages)'
    BY <1>1, <2>1, InvIs, ReaderHas, HandlerDoneKeeps
  <2>11. ReaderAlone(c)
    BY <1>1, <2>1, <2>2, <2>3, <2>4, InvIs DEF ReaderAlone, PipeTypes
  <2>12. StreamStep
    BY <1>1, <2>1 DEF StreamStep
  <2>. QED BY <1>1, <2>9, <2>10, <2>11, <2>12, ReaderAloneIsSound
<1>. QED BY <1>5, <1>6, <1>7

\* The message a reader has in hand takes it to what the queue goes on from.
LEMMA ReaderHolds ==
  ASSUME PipeInv, NEW c \in Children, Read(c)
  PROVE  /\ cpu = c /\ stage[c] = "read" /\ pc[c] = "run" /\ want[c] \in Nat /\ want[c] > 0
         /\ data[c] = << >> /\ ~closed[c] /\ Reached(c) = Len(rcvd[c])
         /\ UNCHANGED <<sent, ended, freed, inbox, todo, writes, want, envvars>>
         /\ \E upto : /\ Brings(c, upto) /\ upto[1] \in Nat /\ upto[1] <= sent[c]
                      /\ Carries(c, inbox[c], Reached(c), upto[1])
<1>1. /\ cpu = c /\ stage[c] = "read" /\ pc[c] = "run" /\ Holding(c)
      /\ UNCHANGED <<sent, ended, freed, inbox, todo, writes, want, envvars>>
  BY DEF Read, At, Running, Holding
<1>2. want[c] \in Nat /\ want[c] > 0 /\ data[c] = << >> /\ ~closed[c]
  BY <1>1, ReaderHas, InvIs DEF IsReading, PipeTypes
<1>3. Reached(c) = Len(rcvd[c])
  <2>1. Len(data[c]) = 0 /\ Len(rcvd[c]) \in Nat
    BY <1>1, <1>2, ReaderHas
  <2>2. Len(rcvd[c]) + 0 = Len(rcvd[c])
    BY <2>1
  <2>. QED BY <2>1, <2>2 DEF Reached
<1>4. PICK upto : Brings(c, upto)
  BY <1>1, ReaderHas DEF InOrder
<1>5. Carries(c, inbox[c], Reached(c), upto[1])
  BY <1>1, <1>4 DEF Brings
<1>6. 1 \in 1..Len(msgs[c]) + 1
  <2>1. Len(msgs[c]) \in Nat
    BY <1>1, ReaderHas, InvIs
  <2>. QED BY <2>1
<1>7. upto[1] \in Nat /\ upto[1] <= sent[c]
  BY <1>4, <1>6 DEF Brings
<1>. QED BY <1>1, <1>2, <1>3, <1>4, <1>5, <1>7

\* Read keeps the invariant, and the stream.
LEMMA ReadIsSound ==
  ASSUME PipeInv, NEW c \in Children, Read(c)
  PROVE  PipeInv' /\ StreamStep
<1>1. /\ cpu = c /\ stage[c] = "read" /\ pc[c] = "run" /\ want[c] \in Nat /\ want[c] > 0
      /\ data[c] = << >> /\ ~closed[c] /\ Reached(c) = Len(rcvd[c])
      /\ UNCHANGED <<sent, ended, freed, inbox, todo, writes, want, envvars>>
  BY ReaderHolds
<1>2. PICK upto : /\ Brings(c, upto) /\ upto[1] \in Nat /\ upto[1] <= sent[c]
                  /\ Carries(c, inbox[c], Reached(c), upto[1])
  BY ReaderHolds
<1>3. CASE inbox[c].type # "pipe"
  <2>1. HandlerDone(c) /\ UNCHANGED <<data, rcvd, closed, eof, stage>>
    BY <1>3 DEF Read
  <2>2. pc' = [pc EXCEPT ![c] = "recv"] /\ UNCHANGED <<tasks, latest_id, msgs, subtask>>
    BY <2>1 DEF HandlerDone
  <2>3. pc'[c] = "recv" /\ \A t \in TaskId \ {c} : UNCHANGED pc[t]
    BY <1>1, <2>2, InvIs, ReaderHas
  <2>4. Reached(c)' = Reached(c) /\ ~Holding(c)'
    BY <2>1, <2>3 DEF Holding, Reached
  <2>5. upto[1] = Reached(c)
    BY <1>2, <1>3 DEF Carries
  <2>6. Brings(c, upto)'
    BY <1>1, <1>2, <2>2, <2>4, <2>5, QueueGoesOn
  <2>7. InOrder(c)'
    BY <1>1, <2>1, <2>4, <2>6, ReaderHas DEF InOrder
  <2>8. ReaderIsSound(c)'
    BY <1>1, <2>1, <2>2, <2>7, ReaderHas DEF ReaderIsSound, IsReading
  <2>9. Sound(AllMessages)'
    BY <1>1, <2>1, InvIs, ReaderHas, HandlerDoneKeeps
  <2>10. ReaderAlone(c)
    BY <1>1, <2>1, <2>2, <2>3, InvIs DEF ReaderAlone, PipeTypes
  <2>11. StreamStep
    BY <1>1, <2>1 DEF StreamStep
  <2>. QED BY <1>1, <2>8, <2>9, <2>10, <2>11, ReaderAloneIsSound
<1>4. CASE inbox[c].type = "pipe"
  <2>1. /\ Goto(c, "start") /\ UNCHANGED vars
        /\ IF inbox[c].data = << >>
           THEN closed' = [closed EXCEPT ![c] = TRUE] /\ ReportEof(c) /\ UNCHANGED <<data, rcvd>>
           ELSE Deliver(c, inbox[c].data, want[c]) /\ UNCHANGED <<closed, eof>>
    BY <1>4 DEF Read
  <2>2. UNCHANGED <<tasks, latest_id, msgs, subtask, pc>> /\ Sound(AllMessages)'
    BY <2>1, InvIs, StutterKeeps DEF vars
  <2>3. /\ stage' \in [TaskId -> Stages] /\ stage'[c] = "start"
        /\ \A u \in TaskId : u # c => stage'[u] = stage[u]
    BY <1>1, <2>1, ReaderHas, StageTypes DEF Stages
  <2>4. ~Holding(c)'
    BY <2>3 DEF Holding
  <2>5. PICK a \in Nat : a = Reached(c)
    BY <1>1, ReaderHas
  <2>6. PICK b \in Nat : b = upto[1]
    BY <1>2
  <2>7. /\ a <= b /\ inbox[c].data = Bytes(a, b - a)
        /\ a = b => ended[c] /\ a = sent[c]
    BY <1>2, <1>4, <2>5, <2>6 DEF Carries
  <2>8. PICK l \in Nat : l = b - a
    BY <2>7
  <2>9. inbox[c].data = Bytes(a, l) /\ (l = 0 <=> inbox[c].data = << >>)
    <3>1. inbox[c].data = Bytes(a, l)
      BY <2>7, <2>8
    <3>2. l = 0 <=> Bytes(a, l) = << >>
      BY BytesAre
    <3>. QED BY <3>1, <3>2
  <2>10. CASE inbox[c].data = << >>
    <3>1. closed' = [closed EXCEPT ![c] = TRUE] /\ ReportEof(c) /\ UNCHANGED <<data, rcvd>>
      BY <2>1, <2>10
    <3>2. /\ closed' \in [TaskId -> BOOLEAN] /\ \A t \in TaskId \ {c} : UNCHANGED closed[t]
          /\ eof' = [eof EXCEPT ![c] = TRUE] /\ eof' \in [TaskId -> BOOLEAN]
          /\ \A t \in TaskId \ {c} : UNCHANGED eof[t]
      BY <1>1, <3>1, InvIs, ReaderHas DEF ReportEof, PipeTypes
    <3>3. a = b
      BY <2>7, <2>8, <2>9, <2>10
    <3>4. ended[c] /\ a = sent[c] /\ Reached(c)' = a
      BY <2>5, <2>7, <3>1, <3>3 DEF Reached
    <3>5. Brings(c, upto)'
      BY <1>1, <1>2, <2>2, <2>4, <2>6, <3>3, <3>4, QueueGoesOn
    <3>6. InOrder(c)'
      BY <1>1, <3>1, <3>4, <3>5, ReaderHas DEF InOrder
    <3>7. ReaderIsSound(c)'
      BY <1>1, <2>2, <2>3, <3>1, <3>4, <3>6, ReaderHas DEF ReaderIsSound, IsReading
    <3>8. ReaderAlone(c)
      BY <1>1, <2>2, <2>3, <3>1, <3>2, InvIs DEF ReaderAlone, PipeTypes
    <3>9. StreamStep
      BY <1>1, <2>5, <3>1, <3>2, <3>4, ReaderHas DEF StreamStep, Stream!Next, Stream!EndOfFile
    <3>. QED BY <1>1, <2>2, <3>7, <3>8, <3>9, ReaderAloneIsSound
  <2>11. CASE inbox[c].data # << >>
    <3>1. Deliver(c, inbox[c].data, want[c]) /\ UNCHANGED <<closed, eof>>
      BY <2>1, <2>11
    <3>2. l > 0 /\ a + l = b /\ a = Len(rcvd[c]) /\ inbox[c].data = Bytes(Len(rcvd[c]), l)
      BY <1>1, <2>5, <2>7, <2>8, <2>9, <2>11
    <3>3. PICK n \in 1..l : /\ rcvd' = [rcvd EXCEPT ![c] = Bytes(0, Len(rcvd[c]) + n)]
                            /\ data' = [data EXCEPT ![c] = Bytes(Len(rcvd[c]) + n, l - n)]
      BY <1>1, <3>1, <3>2, DeliverIs
    <3>4. Len(rcvd[c]) + l <= sent[c]
      BY <1>2, <2>6, <3>2
    <3>5. /\ Stream!Read(c)
          /\ data' \in [TaskId -> Seq(Nat)] /\ rcvd' \in [TaskId -> Seq(Nat)]
          /\ rcvd'[c] = Bytes(0, Len(rcvd'[c])) /\ data'[c] = Bytes(Len(rcvd'[c]), Len(data'[c]))
          /\ Reached(c)' = Len(rcvd[c]) + l
      BY <1>1, <3>1, <3>3, <3>4, DeliverIsRead
    <3>6. Reached(c)' = upto[1]
      BY <2>6, <3>2, <3>5
    <3>7. Brings(c, upto)'
      BY <1>1, <1>2, <2>2, <2>4, <3>6, QueueGoesOn
    <3>8. InOrder(c)'
      BY <1>1, <3>1, <3>5, <3>7, ReaderHas DEF InOrder
    <3>9. ReaderIsSound(c)'
      BY <1>1, <2>2, <2>3, <3>1, <3>8, ReaderHas DEF ReaderIsSound, IsReading
    <3>10. ReaderAlone(c)
      <4>1. \A t \in TaskId \ {c} : UNCHANGED <<data[t], rcvd[t]>>
        BY <3>3, InvIs DEF PipeTypes
      <4>. QED BY <1>1, <2>2, <2>3, <3>1, <3>5, <4>1, InvIs DEF ReaderAlone, PipeTypes
    <3>11. StreamStep
      BY <1>1, <3>5, ReaderHas DEF StreamStep, Stream!Next
    <3>. QED BY <1>1, <2>2, <3>9, <3>10, <3>11, ReaderAloneIsSound
  <2>. QED BY <2>10, <2>11
<1>. QED BY <1>3, <1>4

-----------------------------------------------------------------------------
(* The theorems.                                                            *)

\* The pipeline starts in the invariant: no reader has been made.
LEMMA InitIsInv == ASSUME PipeInit PROVE PipeInv
<1>1. Sound(AllMessages)
  BY InitIsSound DEF PipeInit
<1>2. /\ tasks = {Main, Idle} /\ latest_id = Idle /\ msgs = [t \in TaskId |-> << >>]
      /\ pc = [t \in TaskId |-> "run"]
  BY DEF PipeInit, Init
<1>3. PipeTypes
  BY DEF PipeInit, PipeTypes, Stages
<1>4. MainIsServed
  <2>1. stage[Main] = "start" /\ Len(msgs[Main]) = 0
    BY <1>2, ChildrenAre DEF PipeInit
  <2>. QED BY <2>1 DEF MainIsServed
<1>5. TerminalIsSound
  <2>1. stage[Terminal] = "start" /\ focus = Terminal
    BY ChildrenAre DEF PipeInit
  <2>. QED BY <2>1 DEF TerminalIsSound, Connected
<1>6. ASSUME NEW c \in Children PROVE ReaderIsSound(c)
  <2>1. IsFresh(c)
    BY <1>2, ChildrenAre DEF IsFresh, PipeInit
  <2>2. c \notin tasks
    BY <1>2, ChildrenAre
  <2>. QED BY <2>1, <2>2 DEF ReaderIsSound, IsFresh
<1>. QED BY <1>1, <1>3, <1>4, <1>5, <1>6 DEF PipeInv

\* Every step of the pipeline keeps the invariant and is a step of the stream, or none.
LEMMA StepIsSound == ASSUME PipeInv, [PipeNext]_pvars PROVE PipeInv' /\ StreamStep
<1>1. CASE UNCHANGED pvars
  <2>1. UNCHANGED <<vars, pipevars, progvars, envvars>>
    BY <1>1 DEF pvars
  <2>2. UNCHANGED <<tasks, latest_id, msgs, pc, subtask>>
    BY <2>1 DEF vars
  <2>3. Sound(AllMessages)'
    BY <2>1, InvIs, StutterKeeps
  <2>4. MainIsServed' /\ TerminalIsSound'
    BY <2>1, <2>2, InvIs, MainStays, TerminalStays DEF progvars, envvars, pipevars, MainQueue
  <2>5. \A c \in Children : ReaderIsSound(c)'
    BY <2>1, <2>2, ReadersStay DEF progvars, ReadersWait
  <2>6. PipeTypes' /\ StreamStep
    BY <2>1, InvIs DEF PipeTypes, StreamStep, pipevars, progvars, envvars
  <2>. QED BY <2>3, <2>4, <2>5, <2>6 DEF PipeInv
<1>2. CASE Timer
  BY <1>2, TimerIsSound
<1>3. CASE KeyInterrupt
  BY <1>3, KeyInterruptIsSound
<1>4. CASE TaskStep
  <2>1. CASE MainBoots
    BY <2>1, MainBootsIsSound
  <2>2. CASE MainHandles
    BY <2>2, MainHandlesIsSound
  <2>3. CASE MainLoops
    BY <2>3, MainLoopsIsSound
  <2>4. CASE TerminalLoop
    BY <2>4, TerminalLoopIsSound
  <2>5. CASE StartSubtask
    BY <2>5, StartSubtaskIsSound
  <2>6. CASE MoveFocus
    BY <2>6, MoveFocusIsSound
  <2>7. CASE CallWrite
    BY <2>7, CallWriteIsSound
  <2>8. CASE Write
    BY <2>8, WriteIsSound
  <2>9. CASE FinishWrite
    BY <2>9, FinishWriteIsSound
  <2>10. CASE WaitSubtask
    BY <2>10, WaitSubtaskIsSound
  <2>11. ASSUME NEW t \in TaskId, Receive(t) PROVE PipeInv' /\ StreamStep
    BY <2>11, ReceiveIsSound
  <2>12. ASSUME NEW c \in Children, CallRead(c) PROVE PipeInv' /\ StreamStep
    BY <2>12, CallReadIsSound
  <2>13. ASSUME NEW c \in Children, Read(c) PROVE PipeInv' /\ StreamStep
    BY <2>13, ReadIsSound
  <2>14. ASSUME NEW c \in Children, PrintLine(c) PROVE PipeInv' /\ StreamStep
    BY <2>14, PrintLineIsSound
  <2>15. ASSUME NEW c \in Children, Exit(c) PROVE PipeInv' /\ StreamStep
    BY <2>15, ExitIsSound
  <2>. QED BY <1>4, <2>1, <2>2, <2>3, <2>4, <2>5, <2>6, <2>7, <2>8, <2>9, <2>10, <2>11, <2>12,
              <2>13, <2>14, <2>15 DEF TaskStep
<1>. QED BY <1>1, <1>2, <1>3, <1>4 DEF PipeNext

\* The pipeline's invariant holds in every state.
LEMMA PipeInvHolds == PipeSpec => []PipeInv
<1>1. PipeInit => PipeInv
  BY InitIsInv
<1>2. PipeInv /\ [PipeNext]_pvars => PipeInv'
  BY StepIsSound
<1>. QED BY <1>1, <1>2, PTL DEF PipeSpec

\* Every pipe is a byte stream, whatever the sizes of the messages, the Writes and the Reads:
\* PipeDescriptor::Write and Read lose, repeat and reorder no byte, and end of file comes last.
THEOREM PipeIsByteStream == PipeSpec => PipeIsStream
<1>1. PipeInit => Stream!Init
  BY DEF PipeInit, Stream!Init
<1>2. PipeInv /\ [PipeNext]_pvars => [Stream!Next]_(Stream!vars)
  BY StepIsSound DEF StreamStep, Stream!vars
<1>. QED BY <1>1, <1>2, PipeInvHolds, PTL DEF PipeSpec, PipeIsStream, Stream!Spec

\* Nothing is sent to a reader that saw the end of its pipe and was freed, and the keyboard is
\* the terminal's at the prompt: ExecuteLine's FinishWrite, WaitFinish and layer_task_map.
THEOREM PipesEndCleanly == PipeSpec => []PipeEndsCleanly
<1>1. PipeInv => PipeEndsCleanly
  BY DEF PipeInv, ReaderIsSound, TerminalIsSound, PipeEndsCleanly, NoSendAfterEof, FocusReturns
<1>. QED BY <1>1, PipeInvHolds, PTL

=============================================================================
