---------------------------- MODULE LayersProofs ----------------------------
(***************************************************************************)
(* Proofs about Layers: as long as nothing else activates a window while a *)
(* terminal starts (Patient), the stack, the focus, the map of the input's *)
(* receivers and the terminals' cursors agree, for any number of tasks,    *)
(* layers and messages.                                                    *)
(***************************************************************************)
EXTENDS Layers, SequenceTheorems, TLAPS

Message ==
  [type : {"WindowActive"}, arg : BOOLEAN] \cup [type : {"WindowClose"}, arg : Nat]
    \cup [type : {"KeyPush", "Mouse"}, arg : {0}]

Places == {"none", "new", "insert", "loop", "assign", "app", "wait", "sub", "finished"}
            \cup Activating

\* Types, and what no step may do to a layer that is not there.
Types ==
  /\ latest_id \in Nat /\ latest_id >= MouseLayer
  /\ layers \subseteq 1 .. latest_id /\ layer_stack \in Seq(Nat)
  /\ active_layer \in Nat /\ clock \in 0 .. latest_id
  /\ pc \in [Tasks -> Places]
  /\ window \in [Tasks -> Nat] /\ \A t \in Tasks : window[t] <= latest_id
  /\ window_isactive \in [Tasks -> BOOLEAN]
  /\ child \in [Tasks -> Tasks \cup {NoTask}]
  /\ windows \in [Tasks -> SUBSET Nat] /\ \A t \in Tasks : windows[t] \subseteq 1 .. latest_id
  /\ msgs \in [Tasks -> Seq(Message)]
  /\ undefined \subseteq {"MoveRelative"} /\ commanded \subseteq Tasks

OneStarts == \A t, u \in Tasks : Starting(t) /\ Starting(u) => t = u

\* A stack that holds each layer once.
Ordered(s) ==
  s \in Seq(Nat) /\ \A i, j \in 1 .. Len(s) : s[i] = s[j] => i = j

StackSound ==
  /\ Ordered(layer_stack) /\ Elements(layer_stack) \subseteq layers
  /\ {Background, ConsoleLayer, MouseLayer} \subseteq Elements(layer_stack)
  /\ Elements(layer_stack) \ System \subseteq DOMAIN layer_task_map
  /\ layer_stack[Len(layer_stack)] = MouseLayer
  /\ \A t \in Tasks : pc[t] = "raise" =>
       layer_stack[1] = active_layer /\ layer_stack[2] = Background
  /\ (\A t \in Tasks : pc[t] # "raise") => layer_stack[1] = Background
  /\ active_layer # 0 /\ (\A t \in Tasks : pc[t] \notin {"bottom", "raise"}) =>
       layer_stack[Len(layer_stack) - 1] = active_layer

ActiveSound ==
  /\ active_layer # 0 => active_layer \in DOMAIN layer_task_map
  /\ \A t \in Tasks :
       /\ pc[t] \in {"bottom", "raise", "tell"} => active_layer = window[t]
       /\ pc[t] \in {"insert", "deactivate", "set"} => active_layer # window[t]

Living(t) == pc[t] \in {"insert", "loop", "assign", "app", "wait"} \cup Activating

WindowsSound ==
  /\ \A t \in Tasks :
       /\ Living(t) => window[t] \in layers
       /\ pc[t] \in {"none", "new"} => window[t] = 0
       /\ window[t] # 0 => window[t] \notin System
       /\ windows[t] \cap System = {}
       /\ t \notin commanded => windows[t] = {}
  /\ \A t, u \in Tasks :
       /\ window[t] = window[u] /\ window[t] # 0 => t = u
       /\ window[u] \notin windows[t]

\* Where a terminal's own window is certainly mapped to it.
Mapped(t) ==
  pc[t] \in {"loop"} \cup Activating \/ (pc[t] = "app" /\ child[t] = NoTask)

MapSound ==
  /\ DOMAIN layer_task_map \subseteq layers \ System
  /\ \A l \in DOMAIN layer_task_map :
       /\ layer_task_map[l] \in Tasks
       /\ layer_task_map[l] \notin commanded => window[layer_task_map[l]] = l
       /\ \A u \in Tasks : window[u] = l =>
            layer_task_map[l] = u \/ pc[layer_task_map[l]] \in {"sub", "finished"}
  /\ \A t \in Tasks :
       /\ \A l \in windows[t] \cap layers : l \in DOMAIN layer_task_map /\ layer_task_map[l] = t
       /\ Mapped(t) => window[t] \in DOMAIN layer_task_map /\ layer_task_map[window[t]] = t
       /\ pc[t] = "insert" => window[t] \notin DOMAIN layer_task_map

ChildrenSound ==
  \A t \in Tasks :
    /\ child[t] # NoTask => child[t] \in commanded /\ pc[child[t]] \in {"sub", "finished"}
    /\ pc[t] \in {"none", "new", "insert", "loop"} \cup Activating => child[t] = NoTask
    /\ pc[t] \in {"assign", "wait"} => child[t] # NoTask
    /\ pc[t] \in {"assign", "app", "wait", "sub"} => t \in commanded

\* The layers that task t's message loop may close.
OwnLayers(t) == (1 .. latest_id) \ (System \cup {window[u] : u \in Tasks \ {t}})

OnlyCloses(q, S) ==
  \A i \in 1 .. Len(q) : q[i].type = "WindowClose" => q[i].arg \in S

ClosesSound ==
  \A t \in Tasks : pc[t] \notin {"sub", "finished"} => OnlyCloses(msgs[t], OwnLayers(t))

\* What a terminal will believe of its focus when it has read q, and believes w before.
Says(q, w, b) ==
  \E i \in 0 .. Len(q) :
    /\ IF i = 0 THEN w = b ELSE q[i] = WindowActive(b)
    /\ \A j \in (i + 1) .. Len(q) : q[j].type # "WindowActive"

Focused(t) ==
  pc[t] = "loop" /\ active_layer = window[t] /\ \A u \in Tasks : pc[u] # "set"

ToldSound ==
  \A t \in Tasks \ commanded : pc[t] # "finished" =>
    /\ Focused(t) => Says(msgs[t], window_isactive[t], TRUE)
    /\ ~Focused(t) => Says(msgs[t], window_isactive[t], FALSE)

IInv ==
  /\ Types /\ OneStarts /\ StackSound /\ ActiveSound /\ WindowsSound
  /\ MapSound /\ ChildrenSound /\ ClosesSound /\ ToldSound

-----------------------------------------------------------------------------
(* The stack. *)

\* In a stack that holds each layer once, a layer's position is the one it is at.
LEMMA PositionIsUnique ==
  ASSUME NEW s, Ordered(s), NEW k \in 1 .. Len(s)
  PROVE  Position(s, s[k]) = k
<1>1. DOMAIN s = 1 .. Len(s)
  BY DEF Ordered
<1>2. \A i \in DOMAIN s : s[i] = s[k] => i = k
  BY <1>1 DEF Ordered
<1>3. k \in DOMAIN s /\ k <= k
  BY <1>1
<1>4. \E i \in DOMAIN s : s[i] = s[k] /\ \A j \in DOMAIN s : s[j] = s[k] => i <= j
  BY <1>2, <1>3
<1> QED BY <1>2, <1>4 DEF Position

\* Erase closes the gap that the layer leaves.
LEMMA EraseAt ==
  ASSUME NEW s, Ordered(s), NEW k \in 1 .. Len(s)
  PROVE  /\ Ordered(Erase(s, s[k])) /\ Len(Erase(s, s[k])) = Len(s) - 1
         /\ \A i \in 1 .. (Len(s) - 1) :
              Erase(s, s[k])[i] = IF i < k THEN s[i] ELSE s[i + 1]
         /\ Elements(Erase(s, s[k])) = Elements(s) \ {s[k]}
<1>1. s \in Seq(Nat) /\ DOMAIN s = 1 .. Len(s) /\ Len(s) \in Nat
  BY DEF Ordered
<1>2. s[k] \in Elements(s)
  BY <1>1 DEF Elements
<1>3. Erase(s, s[k]) = [i \in 1 .. (Len(s) - 1) |-> IF i < k THEN s[i] ELSE s[i + 1]]
  BY <1>2, PositionIsUnique DEF Erase
<1> DEFINE e == Erase(s, s[k])
<1>4. Len(s) - 1 \in Nat
  BY <1>1
<1>5. \A i \in 1 .. (Len(s) - 1) : e[i] = (IF i < k THEN s[i] ELSE s[i + 1]) /\ e[i] \in Nat
  BY <1>1, <1>3
<1>6. e \in Seq(Nat) /\ Len(e) = Len(s) - 1 /\ DOMAIN e = 1 .. (Len(s) - 1)
  <2>1. DOMAIN e = 1 .. (Len(s) - 1) /\ e = [i \in 1 .. (Len(s) - 1) |-> e[i]]
    BY <1>3
  <2>2. e \in [1 .. (Len(s) - 1) -> Nat]
    BY <2>1, <1>5
  <2> HIDE DEF e
  <2>3. e \in Seq(Nat)
    BY <2>2, <1>4
  <2> QED BY <2>1, <2>3, <1>4
<1> HIDE DEF e
<1>7. \A i, j \in 1 .. (Len(s) - 1) : e[i] = e[j] => i = j
  BY <1>1, <1>5 DEF Ordered
<1>8. Elements(e) \subseteq Elements(s) \ {s[k]}
  <2> SUFFICES ASSUME NEW i \in 1 .. (Len(s) - 1)
               PROVE  e[i] \in Elements(s) \ {s[k]}
    BY <1>6 DEF Elements
  <2>1. PICK j \in 1 .. Len(s) : e[i] = s[j] /\ j # k
    <3>1. CASE i < k
      BY <3>1, <1>1, <1>5
    <3>2. CASE ~(i < k)
      <4>1. i + 1 \in 1 .. Len(s) /\ i + 1 # k
        BY <3>2, <1>1
      <4> QED BY <4>1, <3>2, <1>5
    <3> QED BY <3>1, <3>2
  <2>2. s[j] # s[k]
    BY <2>1 DEF Ordered
  <2> QED BY <2>1, <2>2, <1>1 DEF Elements
<1>9. Elements(s) \ {s[k]} \subseteq Elements(e)
  <2> SUFFICES ASSUME NEW i \in 1 .. Len(s), i # k
               PROVE  s[i] \in Elements(e)
    BY <1>1 DEF Elements
  <2>1. CASE i < k
    <3>1. i \in 1 .. (Len(s) - 1) /\ e[i] = s[i]
      BY <2>1, <1>1, <1>5
    <3> QED BY <3>1, <1>6 DEF Elements
  <2>2. CASE ~(i < k)
    <3>1. i - 1 \in 1 .. (Len(s) - 1) /\ ~(i - 1 < k) /\ (i - 1) + 1 = i
      BY <2>2, <1>1
    <3>2. e[i - 1] = s[i]
      BY <3>1, <1>5
    <3> QED BY <3>1, <3>2, <1>6 DEF Elements
  <2> QED BY <2>1, <2>2
<1> QED BY <1>5, <1>6, <1>7, <1>8, <1>9 DEF e, Ordered

\* InsertBehind makes room after position i.
LEMMA InsertedAt ==
  ASSUME NEW s, Ordered(s), NEW id \in Nat, id \notin Elements(s), NEW i \in 0 .. Len(s)
  PROVE  /\ Ordered(InsertBehind(s, i, id)) /\ Len(InsertBehind(s, i, id)) = Len(s) + 1
         /\ \A j \in 1 .. (Len(s) + 1) :
              InsertBehind(s, i, id)[j] = IF j <= i THEN s[j] ELSE IF j = i + 1 THEN id ELSE s[j - 1]
         /\ Elements(InsertBehind(s, i, id)) = Elements(s) \cup {id}
<1>1. s \in Seq(Nat) /\ DOMAIN s = 1 .. Len(s) /\ Len(s) \in Nat /\ i \in Nat
  BY DEF Ordered
<1> DEFINE p == SubSeq(s, 1, i)
           q == SubSeq(s, i + 1, Len(s))
           r == InsertBehind(s, i, id)
<1>2. p \in Seq(Nat) /\ Len(p) = i /\ \A j \in 1 .. i : p[j] = s[j]
  BY <1>1
<1>3. q \in Seq(Nat) /\ Len(q) = Len(s) - i /\ \A j \in 1 .. (Len(s) - i) : q[j] = s[i + j]
  <2>1. /\ i + 1 \in Int /\ Len(s) \in Int /\ Len(s) - (i + 1) + 1 = Len(s) - i
        /\ \A j \in (i + 1) .. Len(s) : s[j] \in Nat
    BY <1>1
  <2>2. /\ q \in Seq(Nat) /\ Len(q) = IF i + 1 <= Len(s) THEN Len(s) - (i + 1) + 1 ELSE 0
        /\ \A j \in 1 .. (Len(s) - (i + 1) + 1) : q[j] = s[(i + 1) + j - 1]
    BY <2>1, SubSeqProperties
  <2>3. Len(q) = Len(s) - i
    <3>1. CASE i + 1 <= Len(s)
      BY <3>1, <2>1, <2>2
    <3>2. CASE ~(i + 1 <= Len(s))
      <4>1. Len(s) \in Nat /\ i \in 0 .. Len(s)
        BY <1>1
      <4>2. Len(s) - i = 0
        BY <3>2, <4>1
      <4> QED BY <4>2, <3>2, <2>2
    <3> QED BY <3>1, <3>2
  <2>4. \A j \in 1 .. (Len(s) - i) : (i + 1) + j - 1 = i + j
    BY <1>1
  <2> QED BY <2>1, <2>2, <2>3, <2>4
<1>4. <<id>> \in Seq(Nat) /\ Len(<<id>>) = 1 /\ <<id>>[1] = id
  OBVIOUS
<1>5. r = (p \o <<id>>) \o q
  BY DEF InsertBehind
<1> HIDE DEF p, q, r
<1>6. /\ p \o <<id>> \in Seq(Nat) /\ Len(p \o <<id>>) = i + 1
      /\ \A j \in 1 .. (i + 1) : (p \o <<id>>)[j] = IF j <= i THEN s[j] ELSE id
  BY <1>1, <1>2, <1>4
<1>7. /\ r \in Seq(Nat) /\ Len(r) = Len(s) + 1
      /\ \A j \in 1 .. (Len(s) + 1) :
           r[j] = IF j <= i + 1 THEN (p \o <<id>>)[j] ELSE q[j - (i + 1)]
  <2> DEFINE pi == p \o <<id>>
  <2>1. pi \in Seq(Nat) /\ Len(pi) = i + 1
    BY <1>6
  <2> HIDE DEF pi
  <2>2. r = pi \o q
    BY <1>5 DEF pi
  <2>3. r \in Seq(Nat) /\ Len(r) = Len(pi) + Len(q)
    BY <2>1, <2>2, <1>3, ConcatProperties
  <2>4. Len(r) = Len(s) + 1
    BY <2>1, <2>3, <1>3, <1>1
  <2>5. \A j \in 1 .. (Len(pi) + Len(q)) :
          r[j] = IF j <= Len(pi) THEN pi[j] ELSE q[j - Len(pi)]
    BY <2>1, <2>2, <1>3, ConcatProperties
  <2>6. Len(pi) + Len(q) = Len(s) + 1
    BY <2>3, <2>4
  <2> QED BY <2>1, <2>3, <2>4, <2>5, <2>6 DEF pi
<1>8. \A j \in 1 .. (Len(s) + 1) :
        r[j] = IF j <= i THEN s[j] ELSE IF j = i + 1 THEN id ELSE s[j - 1]
  <2> SUFFICES ASSUME NEW j \in 1 .. (Len(s) + 1)
               PROVE  r[j] = IF j <= i THEN s[j] ELSE IF j = i + 1 THEN id ELSE s[j - 1]
    OBVIOUS
  <2>1. CASE j <= i + 1
    <3>1. j \in 1 .. (i + 1) /\ (j <= i \/ j = i + 1)
      BY <2>1, <1>1
    <3>2. r[j] = (p \o <<id>>)[j]
      BY <2>1, <1>7
    <3> QED BY <3>1, <3>2, <1>6, <1>1
  <2>2. CASE ~(j <= i + 1)
    <3>1. /\ j - (i + 1) \in 1 .. (Len(s) - i) /\ ~(j <= i) /\ j # i + 1
          /\ i + (j - (i + 1)) = j - 1
      BY <2>2, <1>1
    <3>2. r[j] = q[j - (i + 1)]
      BY <2>2, <1>7
    <3>3. q[j - (i + 1)] = s[i + (j - (i + 1))]
      BY <3>1, <1>3
    <3> QED BY <3>1, <3>2, <3>3
  <2> QED BY <2>1, <2>2
<1>9. \A j \in 1 .. Len(s) : s[j] # id
  BY <1>1 DEF Elements
<1>10. \A a, b \in 1 .. (Len(s) + 1) : r[a] = r[b] => a = b
  <2> SUFFICES ASSUME NEW a \in 1 .. (Len(s) + 1), NEW b \in 1 .. (Len(s) + 1), r[a] = r[b]
               PROVE  a = b
    OBVIOUS
  <2> DEFINE Old(j) == IF j <= i THEN j ELSE j - 1
  <2>1. \A j \in 1 .. (Len(s) + 1) : j # i + 1 => Old(j) \in 1 .. Len(s) /\ r[j] = s[Old(j)]
    BY <1>1, <1>8
  <2>2. r[i + 1] = id
    BY <1>1, <1>8
  <2>3. CASE a # i + 1 /\ b # i + 1
    <3>1. Old(a) = Old(b)
      BY <2>1, <2>3 DEF Ordered
    <3> QED BY <3>1, <2>3, <1>1
  <2>4. CASE a = i + 1 \/ b = i + 1
    BY <2>1, <2>2, <2>4, <1>9
  <2> QED BY <2>3, <2>4
<1>11. DOMAIN r = 1 .. (Len(s) + 1)
  BY <1>7
<1>12. Elements(r) \subseteq Elements(s) \cup {id}
  <2> SUFFICES ASSUME NEW j \in 1 .. (Len(s) + 1)
               PROVE  r[j] \in Elements(s) \cup {id}
    BY <1>11 DEF Elements
  <2>1. CASE j <= i
    BY <2>1, <1>1, <1>8 DEF Elements
  <2>2. CASE j = i + 1
    BY <2>2, <1>1, <1>8
  <2>3. CASE j > i + 1
    <3>1. j - 1 \in DOMAIN s /\ r[j] = s[j - 1]
      BY <2>3, <1>1, <1>8
    <3> QED BY <3>1 DEF Elements
  <2> QED BY <2>1, <2>2, <2>3, <1>1
<1>13. Elements(s) \cup {id} \subseteq Elements(r)
  <2>1. id \in Elements(r)
    <3>1. i + 1 \in DOMAIN r /\ r[i + 1] = id
      BY <1>1, <1>8, <1>11
    <3> QED BY <3>1 DEF Elements
  <2>2. ASSUME NEW j \in 1 .. Len(s)
        PROVE  s[j] \in Elements(r)
    <3>1. CASE j <= i
      <4>1. j \in DOMAIN r /\ r[j] = s[j]
        BY <3>1, <1>1, <1>8, <1>11
      <4> QED BY <4>1 DEF Elements
    <3>2. CASE j > i
      <4>1. j + 1 \in 1 .. (Len(s) + 1) /\ ~(j + 1 <= i) /\ j + 1 # i + 1 /\ (j + 1) - 1 = j
        BY <3>2, <1>1
      <4>2. j + 1 \in DOMAIN r /\ r[j + 1] = s[j]
        BY <4>1, <1>8, <1>11
      <4> QED BY <4>2 DEF Elements
    <3> QED BY <3>1, <3>2, <1>1
  <2> QED BY <2>1, <2>2, <1>1 DEF Elements
<1> QED BY <1>7, <1>8, <1>10, <1>12, <1>13 DEF r, Ordered

\* UpDown of a layer that is not on the stack inserts it at the new height.
LEMMA UpDownInserts ==
  ASSUME NEW s, Ordered(s), NEW id \in Nat, id \notin Elements(s), NEW h \in 0 .. Len(s)
  PROVE  UpDown(s, id, h) = InsertBehind(s, h, id)
<1>1. Len(s) \in Nat
  BY DEF Ordered
<1>2. Least(h, Len(s)) = h
  BY <1>1 DEF Least
<1> QED BY <1>2 DEF UpDown

\* Activate puts the layer on the bottom of the stack ...
LEMMA LowerPlaces ==
  ASSUME NEW s, Ordered(s), NEW id \in Nat,
         s[1] = Background, s[Len(s)] = MouseLayer, id \notin {Background, MouseLayer},
         Background \in Elements(s)
  PROVE  /\ Ordered(Lower(s, id)) /\ Elements(Lower(s, id)) = Elements(s) \cup {id}
         /\ Len(Lower(s, id)) \in Nat /\ Len(Lower(s, id)) >= 3
         /\ Lower(s, id)[1] = id /\ Lower(s, id)[2] = Background
         /\ Lower(s, id)[Len(Lower(s, id))] = MouseLayer
<1>1. s \in Seq(Nat) /\ DOMAIN s = 1 .. Len(s) /\ Len(s) \in Nat
  BY DEF Ordered
<1>2. Len(s) >= 2
  <2>1. PICK k \in 1 .. Len(s) : s[k] = Background
    BY <1>1 DEF Elements
  <2>2. Len(s) # 1
    BY DEF Background, MouseLayer
  <2> QED BY <2>1, <2>2, <1>1
<1>3. CASE id \notin Elements(s)
  <2>1. Lower(s, id) = InsertBehind(s, 0, id)
    BY <1>1, <1>3, UpDownInserts DEF Lower
  <2>2. 0 \in 0 .. Len(s)
    BY <1>1
  <2> DEFINE r == InsertBehind(s, 0, id)
  <2>3. /\ Ordered(r) /\ Len(r) = Len(s) + 1 /\ Elements(r) = Elements(s) \cup {id}
        /\ \A j \in 1 .. (Len(s) + 1) :
             r[j] = IF j <= 0 THEN s[j] ELSE IF j = 0 + 1 THEN id ELSE s[j - 1]
    BY <2>2, <1>3, InsertedAt
  <2> HIDE DEF r
  <2>4. r[1] = id /\ r[2] = s[1] /\ r[Len(s) + 1] = s[Len(s)]
    BY <2>3, <1>1, <1>2
  <2> QED BY <2>1, <2>3, <2>4, <1>1, <1>2 DEF r
<1>4. CASE id \in Elements(s)
  <2>1. PICK k \in 1 .. Len(s) : s[k] = id
    BY <1>1, <1>4 DEF Elements
  <2>2. k # 1 /\ k # Len(s)
    BY <2>1
  <2>3. Len(s) \in Nat /\ k \in Nat /\ k > 1 /\ k < Len(s)
    <3>1. Len(s) \in Nat /\ k \in 1 .. Len(s)
      BY <1>1
    <3> QED BY <3>1, <2>2
  <2> DEFINE e == Erase(s, id)
             r == InsertBehind(e, 0, id)
  <2>4. /\ Ordered(e) /\ Len(e) = Len(s) - 1 /\ Elements(e) = Elements(s) \ {id}
        /\ \A i \in 1 .. (Len(s) - 1) : e[i] = IF i < k THEN s[i] ELSE s[i + 1]
    BY <2>1, EraseAt
  <2>5. Lower(s, id) = r
    <3>1. Least(0, Len(s) - 1) = 0
      BY <1>1, <1>2 DEF Least
    <3> QED BY <3>1, <1>4 DEF Lower, UpDown
  <2> HIDE DEF e
  <2>6. 0 \in 0 .. Len(e) /\ id \notin Elements(e)
    BY <2>4, <1>1, <1>2
  <2>7. /\ Ordered(r) /\ Len(r) = Len(e) + 1 /\ Elements(r) = Elements(e) \cup {id}
        /\ \A j \in 1 .. (Len(e) + 1) :
             r[j] = IF j <= 0 THEN e[j] ELSE IF j = 0 + 1 THEN id ELSE e[j - 1]
    BY <2>4, <2>6, InsertedAt
  <2> HIDE DEF r
  <2>8. e[1] = s[1] /\ e[Len(s) - 1] = s[Len(s)]
    <3>1. /\ 1 \in 1 .. (Len(s) - 1) /\ 1 < k /\ Len(s) - 1 \in 1 .. (Len(s) - 1)
          /\ ~(Len(s) - 1 < k) /\ (Len(s) - 1) + 1 = Len(s)
      BY <2>3
    <3> QED BY <3>1, <2>4
  <2>9. r[1] = id /\ r[2] = e[1] /\ r[Len(e) + 1] = e[Len(e)] /\ Len(r) = Len(s)
    BY <2>4, <2>7, <1>1, <1>2
  <2>10. Len(s) >= 3
    BY <2>3, <1>1
  <2> QED BY <2>4, <2>5, <2>7, <2>8, <2>9, <2>10, <1>1, <1>4
<1> QED BY <1>3, <1>4

\* ... and from there right under the mouse cursor.
LEMMA RaisePlaces ==
  ASSUME NEW s, Ordered(s), NEW id \in Nat, s[1] = id, s[2] = Background,
         s[Len(s)] = MouseLayer, id \notin {Background, MouseLayer}, Len(s) >= 3
  PROVE  /\ Ordered(Raise(s, id)) /\ Elements(Raise(s, id)) = Elements(s)
         /\ Len(Raise(s, id)) = Len(s)
         /\ Raise(s, id)[1] = Background /\ Raise(s, id)[Len(s) - 1] = id
         /\ Raise(s, id)[Len(s)] = MouseLayer
<1>1. s \in Seq(Nat) /\ DOMAIN s = 1 .. Len(s) /\ Len(s) \in Nat
  BY DEF Ordered
<1>2. 1 \in 1 .. Len(s) /\ Len(s) \in 1 .. Len(s)
  BY <1>1
<1>3. id \in Elements(s) /\ MouseLayer \in Elements(s)
  BY <1>1, <1>2 DEF Elements
<1>4. GetHeight(s, MouseLayer) = Len(s) - 1
  BY <1>2, <1>3, PositionIsUnique DEF GetHeight
<1> DEFINE h == Len(s) - 2
           e == Erase(s, id)
           r == InsertBehind(e, h, id)
<1>5. /\ Ordered(e) /\ Len(e) = Len(s) - 1 /\ Elements(e) = Elements(s) \ {id}
      /\ \A i \in 1 .. (Len(s) - 1) : e[i] = IF i < 1 THEN s[i] ELSE s[i + 1]
  BY <1>2, EraseAt
<1>6. Raise(s, id) = r
  <2>1. (Len(s) - 1) - 1 = h /\ h < Len(s) - 1
    <3>1. Len(s) \in Nat
      BY <1>1
    <3> QED BY <3>1
  <2>2. Least(h, Len(s) - 1) = h
    BY <2>1 DEF Least
  <2> QED BY <2>1, <2>2, <1>3, <1>4 DEF Raise, UpDown
<1> HIDE DEF e
<1>7. h \in 0 .. Len(e) /\ id \notin Elements(e)
  BY <1>5, <1>1
<1>8. /\ Ordered(r) /\ Len(r) = Len(e) + 1 /\ Elements(r) = Elements(e) \cup {id}
      /\ \A j \in 1 .. (Len(e) + 1) :
           r[j] = IF j <= h THEN e[j] ELSE IF j = h + 1 THEN id ELSE e[j - 1]
  BY <1>5, <1>7, InsertedAt
<1> HIDE DEF r
<1>9. e[1] = s[2] /\ e[Len(s) - 1] = s[Len(s)]
  BY <1>1, <1>5
<1>10. r[1] = e[1] /\ r[Len(s) - 1] = id /\ r[Len(s)] = e[Len(s) - 1] /\ Len(r) = Len(s)
  <2>1. Len(s) \in Nat /\ h = Len(s) - 2
    BY <1>1
  <2> HIDE DEF h
  <2>2. /\ 1 \in 1 .. (Len(e) + 1) /\ 1 <= h /\ Len(s) - 1 \in 1 .. (Len(e) + 1)
        /\ ~(Len(s) - 1 <= h) /\ Len(s) - 1 = h + 1 /\ Len(e) + 1 = Len(s)
        /\ Len(s) \in 1 .. (Len(e) + 1) /\ ~(Len(s) <= h) /\ Len(s) # h + 1
    BY <2>1, <1>5
  <2> QED BY <2>2, <1>8
<1> QED BY <1>3, <1>5, <1>6, <1>8, <1>9, <1>10

-----------------------------------------------------------------------------
(* Queues of messages. *)

\* The messages are messages.
LEMMA MessageTypes ==
  /\ KeyPush \in Message /\ MouseEvent \in Message
  /\ KeyPush.type = "KeyPush" /\ MouseEvent.type = "Mouse"
  /\ \A b \in BOOLEAN :
       WindowActive(b) \in Message /\ WindowActive(b).type = "WindowActive"
  /\ \A id \in Nat :
       /\ WindowClose(id) \in Message /\ WindowClose(id).type = "WindowClose"
       /\ WindowClose(id).arg = id
BY DEF Message, KeyPush, MouseEvent, WindowActive, WindowClose

\* A queue goes on closing only the layers of a set when a message of another type, or one
\* about a layer of the set, is appended, and when a message is taken from it.
LEMMA AppendCloses ==
  ASSUME NEW S, NEW q \in Seq(Message), NEW x \in Message, OnlyCloses(q, S),
         x.type = "WindowClose" => x.arg \in S
  PROVE  OnlyCloses(Append(q, x), S)
<1>1. /\ Len(Append(q, x)) = Len(q) + 1 /\ Append(q, x)[Len(q) + 1] = x
      /\ \A i \in 1 .. Len(q) : Append(q, x)[i] = q[i]
  BY AppendProperties
<1>2. \A i \in 1 .. (Len(q) + 1) : i \in 1 .. Len(q) \/ i = Len(q) + 1
  OBVIOUS
<1> QED BY <1>1, <1>2 DEF OnlyCloses

\* A received message leaves a queue that closes only these windows.
LEMMA TailCloses ==
  ASSUME NEW S, NEW q \in Seq(Message), q # << >>, OnlyCloses(q, S)
  PROVE  OnlyCloses(Tail(q), S)
<1>1. Len(Tail(q)) = Len(q) - 1 /\ \A i \in 1 .. Len(Tail(q)) : Tail(q)[i] = q[i + 1]
  BY HeadTailProperties
<1>2. Len(q) \in Nat
  OBVIOUS
<1>3. \A i \in 1 .. Len(Tail(q)) : i + 1 \in 1 .. Len(q)
  BY <1>1, <1>2
<1> QED BY <1>1, <1>3 DEF OnlyCloses

\* What a queue says of the focus stays when a message about something else is appended,
\* and is what a message about the focus says when that is appended.
LEMMA AppendSaysSame ==
  ASSUME NEW q \in Seq(Message), NEW x \in Message, NEW w, NEW b \in BOOLEAN,
         Says(q, w, b), x.type # "WindowActive"
  PROVE  Says(Append(q, x), w, b)
<1>1. PICK i \in 0 .. Len(q) : /\ IF i = 0 THEN w = b ELSE q[i] = WindowActive(b)
                               /\ \A j \in (i + 1) .. Len(q) : q[j].type # "WindowActive"
  BY DEF Says
<1>2. /\ Len(Append(q, x)) = Len(q) + 1 /\ Append(q, x)[Len(q) + 1] = x
      /\ \A j \in 1 .. Len(q) : Append(q, x)[j] = q[j]
  BY AppendProperties
<1>3. Len(q) \in Nat /\ i \in 0 .. (Len(q) + 1) /\ (i # 0 => i \in 1 .. Len(q))
  OBVIOUS
<1>4. \A j \in (i + 1) .. (Len(q) + 1) :
        (j \in 1 .. Len(q) /\ j \in (i + 1) .. Len(q)) \/ j = Len(q) + 1
  BY <1>3
<1>5. \A j \in (i + 1) .. (Len(q) + 1) : Append(q, x)[j].type # "WindowActive"
  BY <1>1, <1>2, <1>4
<1> QED BY <1>1, <1>2, <1>3, <1>5 DEF Says

\* A queue that ends with WindowActive says what that says.
LEMMA AppendSays ==
  ASSUME NEW q \in Seq(Message), NEW w, NEW b \in BOOLEAN
  PROVE  Says(Append(q, WindowActive(b)), w, b)
<1> DEFINE x == WindowActive(b)
<1>1. x \in Message
  BY MessageTypes
<1>2. Len(Append(q, x)) = Len(q) + 1 /\ Append(q, x)[Len(q) + 1] = x
  BY <1>1, AppendProperties
<1>3. Len(q) \in Nat
  OBVIOUS
<1>4. /\ Len(q) + 1 \in 0 .. (Len(q) + 1) /\ Len(q) + 1 # 0
      /\ ((Len(q) + 1) + 1) .. (Len(q) + 1) = {}
  BY <1>3
<1> HIDE DEF x
<1>5. Says(Append(q, x), w, b)
  BY <1>2, <1>4 DEF Says, x
<1> QED BY <1>5 DEF x

\* Reading a message about the focus is believing it; reading another changes nothing.
LEMMA TailSays ==
  ASSUME NEW q \in Seq(Message), q # << >>, NEW w, NEW b \in BOOLEAN, Says(q, w, b)
  PROVE  /\ Head(q).type = "WindowActive" => Says(Tail(q), Head(q).arg, b)
         /\ Head(q).type # "WindowActive" => Says(Tail(q), w, b)
<1>1. PICK i \in 0 .. Len(q) : /\ IF i = 0 THEN w = b ELSE q[i] = WindowActive(b)
                               /\ \A j \in (i + 1) .. Len(q) : q[j].type # "WindowActive"
  BY DEF Says
<1>2. Len(Tail(q)) = Len(q) - 1 /\ \A j \in 1 .. Len(Tail(q)) : Tail(q)[j] = q[j + 1]
  BY HeadTailProperties
<1>3. Len(q) \in Nat /\ Len(q) # 0 /\ Head(q) = q[1]
  OBVIOUS
<1>4. \A j \in 1 .. (Len(q) - 1) : j + 1 \in 1 .. Len(q)
  BY <1>3
<1>5. CASE i = 0
  <2>1. 1 \in (i + 1) .. Len(q) /\ 0 \in 0 .. (Len(q) - 1)
    BY <1>3, <1>5
  <2>2. Head(q).type # "WindowActive"
    BY <1>1, <1>3, <2>1
  <2>3. \A j \in (0 + 1) .. (Len(q) - 1) : j \in 1 .. (Len(q) - 1) /\ j + 1 \in (i + 1) .. Len(q)
    BY <1>3, <1>5
  <2>4. \A j \in (0 + 1) .. Len(Tail(q)) : Tail(q)[j].type # "WindowActive"
    BY <1>1, <1>2, <2>3
  <2>5. Says(Tail(q), w, b)
    BY <1>1, <1>2, <1>5, <2>1, <2>4 DEF Says
  <2> QED BY <2>2, <2>5
<1>6. CASE i # 0
  <2>1. i - 1 \in 0 .. (Len(q) - 1) /\ (i - 1) + 1 = i
    BY <1>3, <1>6
  <2>2. \A j \in ((i - 1) + 1) .. (Len(q) - 1) :
          j \in 1 .. (Len(q) - 1) /\ j + 1 \in (i + 1) .. Len(q)
    BY <1>3, <1>6
  <2>3. \A j \in ((i - 1) + 1) .. Len(Tail(q)) : Tail(q)[j].type # "WindowActive"
    BY <1>1, <1>2, <2>2
  <2>4. CASE i = 1
    <3>1. Head(q) = WindowActive(b)
      BY <1>1, <1>3, <2>4
    <3>2. Head(q).type = "WindowActive" /\ Head(q).arg = b
      BY <3>1 DEF WindowActive
    <3>3. i - 1 = 0 /\ 0 \in 0 .. Len(Tail(q))
      BY <2>1, <2>4, <1>2
    <3>4. Says(Tail(q), b, b)
      BY <2>3, <3>3 DEF Says
    <3> QED BY <3>2, <3>4
  <2>5. CASE i # 1
    <3>1. i - 1 # 0 /\ i - 1 \in 1 .. Len(Tail(q)) /\ i - 1 \in 0 .. Len(Tail(q))
      BY <1>2, <1>3, <1>6, <2>5
    <3>2. Tail(q)[i - 1] = WindowActive(b)
      BY <3>1, <2>1, <1>1, <1>2, <1>6
    <3>3. \A v : Says(Tail(q), v, b)
      BY <2>3, <3>1, <3>2 DEF Says
    <3> QED BY <3>3
  <2> QED BY <2>4, <2>5
<1> QED BY <1>5, <1>6

\* A terminal that has read all messages believes what they said.
LEMMA EmptySays ==
  ASSUME NEW w, NEW b, Says(<< >>, w, b)
  PROVE  w = b
BY DEF Says

MapsToTasks(map) == \A l \in DOMAIN map : map[l] \in Tasks

\* Messages n are m and one more for a layer's task, unless it finished.
Appended(m, n, map, id, x) ==
  /\ n \in [Tasks -> Seq(Message)]
  /\ \A t \in Tasks :
       n[t] = IF id \in DOMAIN map /\ map[id] = t /\ pc[t] # "finished"
              THEN Append(m[t], x) ELSE m[t]

\* That is what SendWindowActiveMessage does,
LEMMA SendActiveAppends ==
  ASSUME NEW m \in [Tasks -> Seq(Message)], NEW map, NEW id, MapsToTasks(map)
  PROVE  /\ Appended(m, SendActive(m, map, id, TRUE), map, id, WindowActive(TRUE))
         /\ Appended(m, SendActive(m, map, id, FALSE), map, id, WindowActive(FALSE))
<1>1. WindowActive(TRUE) \in Message /\ WindowActive(FALSE) \in Message
  BY DEF Message, WindowActive
<1>2. ASSUME NEW x \in Message, NEW n,
             n = IF id \in DOMAIN map /\ pc[map[id]] # "finished"
                 THEN [m EXCEPT ![map[id]] = Append(@, x)] ELSE m
      PROVE  Appended(m, n, map, id, x)
  <2>1. \A t \in Tasks : Append(m[t], x) \in Seq(Message)
    OBVIOUS
  <2>2. CASE id \in DOMAIN map /\ pc[map[id]] # "finished"
    BY <2>1, <2>2, <1>2 DEF MapsToTasks, Appended
  <2>3. CASE ~(id \in DOMAIN map /\ pc[map[id]] # "finished")
    BY <2>3, <1>2 DEF Appended
  <2> QED BY <2>2, <2>3
<1> QED BY <1>1, <1>2 DEF SendActive

\* and the main task with the user's input, for the task of the active layer.
LEMMA InputAppends ==
  ASSUME NEW m \in [Tasks -> Seq(Message)], NEW id, NEW x \in Message,
         MapsToTasks(layer_task_map)
  PROVE  Appended(m, Input(m, id, x), layer_task_map, id, x)
<1>1. \A t \in Tasks : Append(m[t], x) \in Seq(Message)
  OBVIOUS
<1>2. CASE id \in DOMAIN layer_task_map /\ pc[layer_task_map[id]] # "finished"
  BY <1>1, <1>2 DEF Input, MapsToTasks, Appended
<1>3. CASE ~(id \in DOMAIN layer_task_map /\ pc[layer_task_map[id]] # "finished")
  BY <1>3 DEF Input, Appended
<1> QED BY <1>2, <1>3

\* A message that closes nothing leaves what a queue closes.
LEMMA AppendedCloses ==
  ASSUME NEW m \in [Tasks -> Seq(Message)], NEW n, NEW map, NEW id, NEW x \in Message,
         Appended(m, n, map, id, x), x.type # "WindowClose",
         NEW S, NEW t \in Tasks, OnlyCloses(m[t], S)
  PROVE  OnlyCloses(n[t], S)
<1>1. n[t] = Append(m[t], x) \/ n[t] = m[t]
  BY DEF Appended
<1>2. OnlyCloses(Append(m[t], x), S)
  BY AppendCloses
<1> QED BY <1>1, <1>2

-----------------------------------------------------------------------------
(* Activate, when nothing else activates. *)

Still == \A t \in Tasks : ~Starting(t)

\* The stack that Activate leaves.
LEMMA ActivatedStack ==
  ASSUME IInv, Still, NEW id \in Nat, id # 0, id \notin System
  PROVE  LET s == Activated(id, layer_stack).stack IN
         /\ Activated(id, layer_stack).active = id
         /\ Ordered(s) /\ Elements(s) = Elements(layer_stack) \cup {id}
         /\ s[1] = Background /\ s[Len(s) - 1] = id /\ s[Len(s)] = MouseLayer
<1>1. /\ Ordered(layer_stack) /\ Background \in Elements(layer_stack)
      /\ layer_stack[Len(layer_stack)] = MouseLayer /\ layer_stack[1] = Background
      /\ active_layer # 0 => layer_stack[Len(layer_stack) - 1] = active_layer
  <2>1. \A t \in Tasks : pc[t] \notin {"bottom", "raise"}
    BY DEF Still, Starting, Activating
  <2>2. StackSound
    BY DEF IInv
  <2> QED BY <2>1, <2>2 DEF StackSound
<1>2. id \notin {Background, MouseLayer}
  BY DEF System
<1>3. /\ layer_stack \in Seq(Nat) /\ DOMAIN layer_stack = 1 .. Len(layer_stack)
      /\ Len(layer_stack) \in Nat
  BY <1>1 DEF Ordered
<1>4. CASE active_layer = id
  <2>1. Activated(id, layer_stack) = [active |-> id, stack |-> layer_stack, msgs |-> msgs]
    BY <1>4 DEF Activated
  <2>2. PICK k \in 1 .. Len(layer_stack) : layer_stack[k] = Background
    BY <1>1, <1>3 DEF Elements
  <2>3. Len(layer_stack) # 1
    BY <1>1 DEF Background, MouseLayer
  <2>4. Len(layer_stack) - 1 \in DOMAIN layer_stack
    <3>1. Len(layer_stack) \in Nat /\ k \in 1 .. Len(layer_stack)
      BY <1>3
    <3> QED BY <3>1, <2>3, <1>3
  <2>5. id \in Elements(layer_stack)
    BY <2>4, <1>1, <1>4 DEF Elements
  <2> QED BY <2>1, <2>5, <1>1, <1>4
<1>5. CASE active_layer # id
  <2> DEFINE low == Lower(layer_stack, id)
             high == Raise(low, id)
  <2>1. /\ Activated(id, layer_stack).active = id
        /\ Activated(id, layer_stack).stack = high
    BY <1>5 DEF Activated
  <2>2. /\ Ordered(low) /\ Elements(low) = Elements(layer_stack) \cup {id}
        /\ Len(low) \in Nat /\ Len(low) >= 3 /\ low[1] = id /\ low[2] = Background
        /\ low[Len(low)] = MouseLayer
    BY <1>1, <1>2, LowerPlaces
  <2> HIDE DEF low
  <2>3. /\ Ordered(high) /\ Elements(high) = Elements(low) /\ Len(high) = Len(low)
        /\ high[1] = Background /\ high[Len(low) - 1] = id /\ high[Len(low)] = MouseLayer
    BY <2>2, <1>2, RaisePlaces
  <2> HIDE DEF high
  <2> QED BY <2>1, <2>2, <2>3
<1> QED BY <1>4, <1>5

\* The messages that Activate leaves: it tells the window that loses the focus and the
\* one that gains it, and closes nothing.
LEMMA ActivatedMessages ==
  ASSUME IInv, Still, NEW id \in Nat
  PROVE  LET m == Activated(id, layer_stack).msgs IN
         /\ m \in [Tasks -> Seq(Message)]
         /\ \A t \in Tasks :
              pc[t] \notin {"sub", "finished"} => OnlyCloses(m[t], OwnLayers(t))
         /\ \A t \in Tasks \ commanded : pc[t] # "finished" =>
              /\ pc[t] = "loop" /\ id = window[t] => Says(m[t], window_isactive[t], TRUE)
              /\ ~(pc[t] = "loop" /\ id = window[t]) => Says(m[t], window_isactive[t], FALSE)
<1>0. Types /\ WindowsSound /\ MapSound /\ ClosesSound /\ ToldSound /\ ActiveSound /\ ChildrenSound
  BY DEF IInv
<1>1. /\ msgs \in [Tasks -> Seq(Message)] /\ active_layer \in Nat
      /\ \A l \in DOMAIN layer_task_map : l # 0 /\ layer_task_map[l] \in Tasks
      /\ MapsToTasks(layer_task_map) /\ \A t \in Tasks : pc[t] # "set"
  BY <1>0 DEF Types, MapSound, MapsToTasks, System, Still, Starting, Activating
<1>2. \A t \in Tasks \ commanded : pc[t] \in {"none", "loop", "finished"}
  BY <1>0 DEF Types, Places, ChildrenSound, Still, Starting, Activating
<1>3. CASE active_layer = id
  <2>1. Activated(id, layer_stack).msgs = msgs
    BY <1>3 DEF Activated
  <2>2. \A t \in Tasks : Focused(t) <=> (pc[t] = "loop" /\ id = window[t])
    BY <1>1, <1>3 DEF Focused
  <2> QED BY <2>1, <2>2, <1>0, <1>1 DEF ClosesSound, ToldSound
<1>4. CASE active_layer # id
  <2> DEFINE told == SendActive(msgs, layer_task_map, active_layer, FALSE)
             m == SendActive(told, layer_task_map, id, TRUE)
  <2>0. /\ WindowActive(FALSE) \in Message /\ WindowActive(FALSE).type # "WindowClose"
        /\ WindowActive(TRUE) \in Message /\ WindowActive(TRUE).type # "WindowClose"
    BY DEF Message, WindowActive
  <2>1. Appended(msgs, told, layer_task_map, active_layer, WindowActive(FALSE))
    BY <1>1, SendActiveAppends
  <2>2. \A t \in Tasks : pc[t] \notin {"sub", "finished"} => OnlyCloses(told[t], OwnLayers(t))
    BY <1>0, <1>1, <2>0, <2>1, AppendedCloses DEF ClosesSound
  <2>3. ASSUME NEW t \in Tasks \ commanded, pc[t] # "finished"
        PROVE  Says(told[t], window_isactive[t], FALSE)
    <3>1. msgs[t] \in Seq(Message)
      BY <1>1
    <3>2. CASE Focused(t)
      <4>1. active_layer \in DOMAIN layer_task_map /\ layer_task_map[active_layer] = t
        BY <3>2, <1>0 DEF Focused, MapSound, Mapped
      <4> QED BY <4>1, <3>1, <2>1, <2>3, AppendSays DEF Appended
    <3>3. CASE ~Focused(t)
      <4>1. Says(msgs[t], window_isactive[t], FALSE)
        BY <3>3, <2>3, <1>0 DEF ToldSound
      <4> QED BY <4>1, <3>1, <2>1, AppendSays DEF Appended
    <3> QED BY <3>2, <3>3
  <2> HIDE DEF told
  <2>4. told \in [Tasks -> Seq(Message)]
    BY <2>1 DEF Appended
  <2>5. Appended(told, m, layer_task_map, id, WindowActive(TRUE))
    BY <2>4, <1>1, SendActiveAppends
  <2>6. \A t \in Tasks : pc[t] \notin {"sub", "finished"} => OnlyCloses(m[t], OwnLayers(t))
    BY <2>0, <2>2, <2>4, <2>5, AppendedCloses
  <2>7. Activated(id, layer_stack).msgs = IF id = 0 THEN told ELSE m
    <3>1. ~(active_layer > 0) => told = msgs
      <4>1. active_layer > 0 \/ active_layer = 0
        BY <1>1
      <4>2. active_layer = 0 => active_layer \notin DOMAIN layer_task_map
        BY <1>1
      <4> QED BY <4>1, <4>2 DEF told, SendActive
    <3> QED BY <3>1, <1>4 DEF Activated, told
  <2>8. id = 0 => m = told
    BY <1>1 DEF SendActive
  <2>9. Activated(id, layer_stack).msgs = m
    BY <2>7, <2>8
  <2> HIDE DEF m
  <2>10. ASSUME NEW t \in Tasks \ commanded, pc[t] # "finished"
        PROVE  /\ pc[t] = "loop" /\ id = window[t] => Says(m[t], window_isactive[t], TRUE)
               /\ ~(pc[t] = "loop" /\ id = window[t]) => Says(m[t], window_isactive[t], FALSE)
    <3>1. told[t] \in Seq(Message)
      BY <2>4
    <3>2. CASE pc[t] = "loop" /\ id = window[t]
      <4>1. id \in DOMAIN layer_task_map /\ layer_task_map[id] = t
        BY <3>2, <1>0 DEF MapSound, Mapped
      <4> QED BY <4>1, <3>1, <3>2, <2>5, <2>10, AppendSays DEF Appended
    <3>3. CASE ~(pc[t] = "loop" /\ id = window[t])
      <4>1. ~(id \in DOMAIN layer_task_map /\ layer_task_map[id] = t)
        <5> SUFFICES ASSUME id \in DOMAIN layer_task_map, layer_task_map[id] = t
                     PROVE  FALSE
          OBVIOUS
        <5>1. window[t] = id
          BY <1>0 DEF MapSound
        <5>2. pc[t] = "none"
          BY <5>1, <3>3, <2>10, <1>2
        <5>3. id = 0
          BY <5>1, <5>2, <1>0 DEF WindowsSound
        <5> QED BY <5>3, <1>1
      <4> QED BY <4>1, <3>3, <2>3, <2>5, <2>10 DEF Appended
    <3> QED BY <3>2, <3>3
  <2> QED BY <2>6, <2>9, <2>10, <2>5 DEF Appended
<1> QED BY <1>3, <1>4

-----------------------------------------------------------------------------
(* What steps that leave parts of the state alone keep. *)

\* A layer that is created is not known anywhere.
LEMMA FreshLayer ==
  ASSUME Types, WindowsSound, MapSound, ActiveSound
  PROVE  LET id == latest_id + 1 IN
         /\ id \in Nat /\ id # 0 /\ id \notin layers /\ id \notin System
         /\ id \notin {Background, ConsoleLayer, MouseLayer}
         /\ id \notin DOMAIN layer_task_map /\ id # active_layer
         /\ \A u \in Tasks : id # window[u] /\ id \notin windows[u] /\ id \notin OwnLayers(u)
         /\ \A i \in 0 .. latest_id : i # id
<1> DEFINE id == latest_id + 1
<1>1. /\ id \in Nat /\ \A i \in 0 .. latest_id : i # id /\ i \in 0 .. id
      /\ id \notin 1 .. latest_id /\ id # 0 /\ id # 1 /\ id # 2 /\ id # 3
  BY DEF Types, MouseLayer
<1>2. id \notin layers
  BY <1>1 DEF Types
<1>3. id \notin System /\ id \notin {Background, ConsoleLayer, MouseLayer}
  BY <1>1 DEF Types, System, Background, ConsoleLayer, MouseLayer
<1>4. id \notin DOMAIN layer_task_map
  BY <1>2 DEF MapSound
<1>5. \A u \in Tasks : window[u] \in 0 .. latest_id /\ windows[u] \subseteq 1 .. latest_id
  BY DEF Types
<1>6. \A u \in Tasks : id # window[u] /\ id \notin windows[u] /\ id \notin OwnLayers(u)
  BY <1>1, <1>5 DEF OwnLayers
<1>7. active_layer # id
  BY <1>1, <1>4 DEF ActiveSound
<1> QED BY <1>1, <1>2, <1>3, <1>4, <1>6, <1>7

\* The layers that a message loop may close depend on the layers' owners only.
LEMMA OwnKept ==
  ASSUME UNCHANGED <<latest_id, clock, window>>
  PROVE  \A u \in Tasks : OwnLayers(u)' = OwnLayers(u)
BY DEF OwnLayers, System

\* A queue that closes only some windows closes only more.
LEMMA ClosesMore ==
  ASSUME NEW q, NEW S, NEW T, OnlyCloses(q, S), S \subseteq T
  PROVE  OnlyCloses(q, T)
BY DEF OnlyCloses

\* Subtasks and tasks that finished never enter a message loop again.
Away(u) == pc[u] \in {"sub", "finished"}

\* A step that sends nothing keeps what the queues close,
LEMMA ClosesKept ==
  ASSUME ClosesSound, UNCHANGED msgs,
         \A u \in Tasks : Away(u) => Away(u)',
         \A u \in Tasks : OwnLayers(u) \subseteq OwnLayers(u)'
  PROVE  ClosesSound'
<1> SUFFICES ASSUME NEW u \in Tasks, ~Away(u)'
             PROVE  OnlyCloses(msgs[u], OwnLayers(u)')
  BY DEF ClosesSound, Away
<1>1. ~Away(u)
  OBVIOUS
<1>2. OnlyCloses(msgs[u], OwnLayers(u))
  BY <1>1 DEF ClosesSound, Away
<1> QED BY <1>2, ClosesMore

\* and, if nobody's focus changes, what they say.
LEMMA ToldKept ==
  ASSUME ToldSound, UNCHANGED <<msgs, window_isactive>>, commanded \subseteq commanded',
         \A u \in Tasks : pc[u] = "finished" => pc'[u] = "finished",
         \A u \in Tasks \ commanded' : pc'[u] # "finished" => (Focused(u)' <=> Focused(u))
  PROVE  ToldSound'
<1> SUFFICES ASSUME NEW u \in Tasks \ commanded', pc'[u] # "finished"
             PROVE  /\ Focused(u)' => Says(msgs[u], window_isactive[u], TRUE)
                    /\ ~Focused(u)' => Says(msgs[u], window_isactive[u], FALSE)
  BY DEF ToldSound
<1>1. u \in Tasks \ commanded /\ pc[u] # "finished" /\ (Focused(u)' <=> Focused(u))
  OBVIOUS
<1> QED BY <1>1 DEF ToldSound

\* Going somewhere changes the place of one task.
LEMMA PlaceAt ==
  ASSUME Types, NEW t \in Tasks, NEW place, pc' = [pc EXCEPT ![t] = place]
  PROVE  pc'[t] = place /\ \A u \in Tasks : u # t => pc'[u] = pc[u]
BY DEF Types

-----------------------------------------------------------------------------
(* A terminal starts. *)

\* Only one terminal starts at a time.
LEMMA NewTerminalKeeps ==
  ASSUME Patient, IInv, NEW t \in Tasks, NewTerminal(t)
  PROVE  IInv'
<1>0. /\ Types /\ OneStarts /\ StackSound /\ ActiveSound /\ WindowsSound
      /\ MapSound /\ ChildrenSound /\ ClosesSound /\ ToldSound
  BY DEF IInv
<1>1. /\ pc[t] = "none" /\ Quiet
      /\ pc' = [pc EXCEPT ![t] = "new"]
      /\ UNCHANGED <<layers, layer_stack, latest_id, active_layer, layer_task_map, clock,
                     window, window_isactive, child, windows, commanded, msgs, undefined>>
  BY DEF NewTerminal, manager, focus, mouse, terminal, Go, KeepTerminal
<1>2. pc'[t] = "new" /\ \A u \in Tasks : u # t => pc'[u] = pc[u]
  BY <1>0, <1>1, PlaceAt
<1>11. Types'
  BY <1>0, <1>1, <1>2 DEF Types, Places, Activating
<1>12. OneStarts'
  <2>1. \A u \in Tasks : ~Starting(u)
    BY <1>1 DEF Quiet
  <2> QED BY <2>1, <1>2 DEF OneStarts, Starting
<1>13. StackSound'
  BY <1>0, <1>1, <1>2 DEF Types, StackSound, System
<1>14. ActiveSound'
  BY <1>0, <1>1, <1>2 DEF Types, ActiveSound, Activating
<1>15. WindowsSound'
  BY <1>0, <1>1, <1>2 DEF Types, WindowsSound, Living, Activating, System
<1>16. MapSound'
  BY <1>0, <1>1, <1>2 DEF Types, MapSound, Mapped, Activating, System
<1>17. ChildrenSound'
  BY <1>0, <1>1, <1>2 DEF Types, ChildrenSound, Activating
<1>18. ClosesSound'
  <2>1. \A u \in Tasks : Away(u) => Away(u)'
    BY <1>0, <1>1, <1>2 DEF Away
  <2>2. \A u \in Tasks : OwnLayers(u) \subseteq OwnLayers(u)'
    BY <1>1, OwnKept
  <2> QED BY <1>0, <1>1, <2>1, <2>2, ClosesKept
<1>19. ToldSound'
  <2>1. \A u \in Tasks \ commanded' :
          pc'[u] # "finished" => (Focused(u)' <=> Focused(u))
    BY <1>0, <1>1, <1>2 DEF Types, Focused
  <2>2. \A u \in Tasks : pc[u] = "finished" => pc'[u] = "finished"
    BY <1>0, <1>1, <1>2
  <2> QED BY <1>0, <1>1, <2>1, <2>2, ToldKept
<1> QED BY <1>11, <1>12, <1>13, <1>14, <1>15, <1>16, <1>17, <1>18, <1>19 DEF IInv

\* The terminal's layer is new, so no other terminal, application or message knows it.
LEMMA ConstructKeeps ==
  ASSUME Patient, IInv, NEW t \in Tasks, Construct(t)
  PROVE  IInv'
<1>0. /\ Types /\ OneStarts /\ StackSound /\ ActiveSound /\ WindowsSound
      /\ MapSound /\ ChildrenSound /\ ClosesSound /\ ToldSound
  BY DEF IInv
<1>1. /\ pc[t] = "new" /\ latest_id' = latest_id + 1
      /\ layers' = layers \cup {latest_id'}
      /\ window' = [window EXCEPT ![t] = latest_id']
      /\ pc' = [pc EXCEPT ![t] = "insert"]
      /\ UNCHANGED <<layer_stack, active_layer, layer_task_map, clock, window_isactive, child,
                     windows, commanded, msgs, undefined>>
  BY DEF Construct, manager, focus, mouse, terminal, Go, KeepTerminal
<1>2. pc'[t] = "insert" /\ \A u \in Tasks : u # t => pc'[u] = pc[u]
  BY <1>0, <1>1, PlaceAt
<1>3. PICK id \in Nat : id = latest_id + 1
  BY <1>0 DEF Types
<1>4. /\ id # 0 /\ id \notin layers /\ id \notin System
      /\ id \notin {Background, ConsoleLayer, MouseLayer}
      /\ id \notin DOMAIN layer_task_map /\ id # active_layer
      /\ \A u \in Tasks : id # window[u] /\ id \notin windows[u] /\ id \notin OwnLayers(u)
      /\ \A i \in 0 .. latest_id : i # id
  BY <1>0, <1>3, FreshLayer
<1>5. window'[t] = id /\ \A u \in Tasks : u # t => window'[u] = window[u]
  BY <1>0, <1>1, <1>3 DEF Types
<1>6. layers' = layers \cup {id} /\ System' = System
  BY <1>1, <1>3 DEF System
<1>11. Types'
  <2>1. id \in 1 .. id /\ 1 .. latest_id \subseteq 1 .. id /\ 0 .. latest_id \subseteq 0 .. id
    BY <1>0, <1>3 DEF Types, MouseLayer
  <2>2. \A i \in Nat : i <= latest_id => i <= id
    BY <1>0, <1>3 DEF Types
  <2>3. latest_id' = id /\ id >= MouseLayer
    BY <1>0, <1>1, <1>3 DEF Types, MouseLayer
  <2>4. layers' \subseteq 1 .. id
    BY <1>0, <1>1, <1>3, <2>1 DEF Types
  <2>5. window' \in [Tasks -> Nat] /\ \A u \in Tasks : window'[u] <= id
    BY <1>0, <1>1, <1>3, <1>5, <2>2 DEF Types
  <2>6. pc' \in [Tasks -> Places]
    BY <1>0, <1>1 DEF Types, Places
  <2>7. clock \in 0 .. id /\ \A u \in Tasks : windows[u] \subseteq 1 .. id
    BY <1>0, <2>1 DEF Types
  <2> QED BY <1>0, <1>1, <2>3, <2>4, <2>5, <2>6, <2>7 DEF Types
<1>12. OneStarts'
  BY <1>0, <1>1, <1>2 DEF Types, OneStarts, Starting, Activating
<1>13. StackSound'
  BY <1>0, <1>1, <1>2, <1>4, <1>5, <1>6 DEF StackSound
<1>14. ActiveSound'
  BY <1>0, <1>1, <1>2, <1>4, <1>5 DEF ActiveSound
<1>15. WindowsSound'
  BY <1>0, <1>1, <1>2, <1>4, <1>5, <1>6 DEF WindowsSound, Living, Activating
<1>16. MapSound'
  <2>1. \A l \in DOMAIN layer_task_map : l # 0 /\ l # id
    BY <1>0, <1>4 DEF Types, MapSound
  <2>2. \A l \in DOMAIN layer_task_map : layer_task_map[l] = t => t \in commanded
    BY <2>1, <1>0, <1>1 DEF MapSound, WindowsSound
  <2>3. DOMAIN layer_task_map \subseteq (layers \cup {id}) \ System
    BY <1>0 DEF MapSound
  <2>4. \A l \in DOMAIN layer_task_map :
          /\ layer_task_map[l] \in Tasks
          /\ layer_task_map[l] \notin commanded => window'[layer_task_map[l]] = l
          /\ \A u \in Tasks : window'[u] = l =>
               layer_task_map[l] = u \/ pc'[layer_task_map[l]] \in {"sub", "finished"}
    BY <2>1, <2>2, <1>0, <1>1, <1>2, <1>5 DEF MapSound
  <2>5. \A u \in Tasks :
          /\ \A l \in windows[u] \cap layers' :
               l \in DOMAIN layer_task_map /\ layer_task_map[l] = u
          /\ Mapped(u)' => window'[u] \in DOMAIN layer_task_map /\ layer_task_map[window'[u]] = u
          /\ pc'[u] = "insert" => window'[u] \notin DOMAIN layer_task_map
    BY <1>0, <1>1, <1>2, <1>4, <1>5, <1>6 DEF MapSound, Mapped, Activating
  <2> QED BY <2>3, <2>4, <2>5, <1>1, <1>6 DEF MapSound
<1>17. ChildrenSound'
  BY <1>0, <1>1, <1>2 DEF Types, ChildrenSound, Activating
<1>18. ClosesSound'
  <2>1. \A u \in Tasks : Away(u) => Away(u)'
    BY <1>0, <1>1, <1>2 DEF Away
  <2>2. \A u \in Tasks : OwnLayers(u) \subseteq OwnLayers(u)'
    <3>1. 1 .. latest_id \subseteq 1 .. id /\ latest_id' = id
      BY <1>0, <1>1, <1>3 DEF Types, MouseLayer
    <3>2. id \notin 1 .. latest_id
      BY <1>0, <1>3 DEF Types
    <3> QED BY <1>5, <1>6, <3>1, <3>2 DEF OwnLayers
  <2> QED BY <1>0, <1>1, <2>1, <2>2, ClosesKept
<1>19. ToldSound'
  <2>1. \A u \in Tasks \ commanded' :
          pc'[u] # "finished" => (Focused(u)' <=> Focused(u))
    BY <1>0, <1>1, <1>2, <1>5 DEF Focused
  <2>2. \A u \in Tasks : pc[u] = "finished" => pc'[u] = "finished"
    BY <1>0, <1>1, <1>2
  <2> QED BY <1>0, <1>1, <2>1, <2>2, ToldKept
<1> QED BY <1>11, <1>12, <1>13, <1>14, <1>15, <1>16, <1>17, <1>18, <1>19 DEF IInv

\* Nobody has its input yet, so the map stays exact.
LEMMA InsertMapKeeps ==
  ASSUME Patient, IInv, NEW t \in Tasks, InsertMap(t)
  PROVE  IInv'
<1>0. /\ Types /\ OneStarts /\ StackSound /\ ActiveSound /\ WindowsSound
      /\ MapSound /\ ChildrenSound /\ ClosesSound /\ ToldSound
  BY DEF IInv
<1>1. /\ pc[t] = "insert" /\ layer_task_map' = With(layer_task_map, window[t], t)
      /\ pc' = [pc EXCEPT ![t] = "deactivate"]
      /\ UNCHANGED <<layers, layer_stack, latest_id, active_layer, clock,
                     window, window_isactive, child, windows, commanded, msgs, undefined>>
  BY DEF InsertMap, manager, focus, mouse, terminal, Go, KeepTerminal
<1>2. pc'[t] = "deactivate" /\ \A u \in Tasks : u # t => pc'[u] = pc[u]
  BY <1>0, <1>1, PlaceAt
<1>3. /\ DOMAIN layer_task_map' = DOMAIN layer_task_map \cup {window[t]}
      /\ layer_task_map'[window[t]] = t
      /\ \A l \in DOMAIN layer_task_map : l # window[t] => layer_task_map'[l] = layer_task_map[l]
  <2>1. /\ DOMAIN With(layer_task_map, window[t], t) = DOMAIN layer_task_map \cup {window[t]}
        /\ With(layer_task_map, window[t], t)[window[t]] = t
        /\ \A l \in DOMAIN layer_task_map : l # window[t] =>
             With(layer_task_map, window[t], t)[l] = layer_task_map[l]
    BY DEF With
  <2> QED BY <2>1, <1>1
<1>4. System' = System /\ window[t] \in layers /\ window[t] # 0 /\ window[t] \notin System
  BY <1>0, <1>1 DEF Types, WindowsSound, Living, System
<1>11. Types'
  BY <1>0, <1>1, <1>2 DEF Types, Places, Activating
<1>12. OneStarts'
  BY <1>0, <1>1, <1>2 DEF Types, OneStarts, Starting, Activating
<1>13. StackSound'
  BY <1>0, <1>1, <1>2, <1>3, <1>4 DEF StackSound
<1>14. ActiveSound'
  BY <1>0, <1>1, <1>2, <1>3 DEF ActiveSound
<1>15. WindowsSound'
  BY <1>0, <1>1, <1>2 DEF Types, WindowsSound, Living, Activating, System
<1>16. MapSound'
  BY <1>0, <1>1, <1>2, <1>3, <1>4 DEF MapSound, Mapped, Activating, WindowsSound
<1>17. ChildrenSound'
  BY <1>0, <1>1, <1>2 DEF Types, ChildrenSound, Activating
<1>18. ClosesSound'
  <2>1. \A u \in Tasks : Away(u) => Away(u)'
    BY <1>0, <1>1, <1>2 DEF Away
  <2>2. \A u \in Tasks : OwnLayers(u) \subseteq OwnLayers(u)'
    BY <1>1, OwnKept
  <2> QED BY <1>0, <1>1, <2>1, <2>2, ClosesKept
<1>19. ToldSound'
  <2>1. \A u \in Tasks \ commanded' :
          pc'[u] # "finished" => (Focused(u)' <=> Focused(u))
    BY <1>0, <1>1, <1>2 DEF Types, Focused
  <2>2. \A u \in Tasks : pc[u] = "finished" => pc'[u] = "finished"
    BY <1>0, <1>1, <1>2
  <2> QED BY <1>0, <1>1, <2>1, <2>2, ToldKept
<1> QED BY <1>11, <1>12, <1>13, <1>14, <1>15, <1>16, <1>17, <1>18, <1>19 DEF IInv

\* The layer that gains the focus is the terminal's.
LEMMA SetActiveKeeps ==
  ASSUME Patient, IInv, NEW t \in Tasks, SetActive(t)
  PROVE  IInv'
<1>0. /\ Types /\ OneStarts /\ StackSound /\ ActiveSound /\ WindowsSound
      /\ MapSound /\ ChildrenSound /\ ClosesSound /\ ToldSound
  BY DEF IInv
<1>1. /\ pc[t] = "set" /\ active_layer' = window[t]
      /\ pc' = [pc EXCEPT ![t] = "bottom"]
      /\ UNCHANGED <<layers, layer_stack, latest_id, layer_task_map, clock,
                     window, window_isactive, child, windows, commanded, msgs, undefined>>
  BY DEF SetActive, manager, focus, mouse, terminal, Go, KeepTerminal
<1>2. pc'[t] = "bottom" /\ \A u \in Tasks : u # t => pc'[u] = pc[u]
  BY <1>0, <1>1, PlaceAt
<1>3. \A u \in Tasks : u # t => pc[u] \notin {"new", "insert"} \cup Activating
  BY <1>0, <1>1 DEF OneStarts, Starting, Activating
<1>4. /\ window[t] # 0 /\ window[t] \in DOMAIN layer_task_map
      /\ \A u \in Tasks : u # t => window[u] # window[t]
  BY <1>0, <1>1 DEF Types, WindowsSound, MapSound, Mapped, Living, Activating, System
<1>11. Types'
  BY <1>0, <1>1, <1>2 DEF Types, Places, Activating
<1>12. OneStarts'
  BY <1>0, <1>1, <1>2 DEF Types, OneStarts, Starting, Activating
<1>13. StackSound'
  <2>1. System' = System
    BY <1>1 DEF System
  <2>2. \A u \in Tasks : pc'[u] # "raise" /\ pc[u] # "raise"
    BY <1>1, <1>2, <1>3 DEF Activating
  <2>3. pc'[t] \in {"bottom", "raise"}
    BY <1>2
  <2> QED BY <1>0, <1>1, <2>1, <2>2, <2>3 DEF StackSound
<1>14. ActiveSound'
  BY <1>0, <1>1, <1>2, <1>3, <1>4 DEF ActiveSound, Activating
<1>15. WindowsSound'
  BY <1>0, <1>1, <1>2 DEF Types, WindowsSound, Living, Activating, System
<1>16. MapSound'
  BY <1>0, <1>1, <1>2 DEF Types, MapSound, Mapped, Activating, System
<1>17. ChildrenSound'
  BY <1>0, <1>1, <1>2 DEF Types, ChildrenSound, Activating
<1>18. ClosesSound'
  <2>1. \A u \in Tasks : Away(u) => Away(u)'
    BY <1>0, <1>1, <1>2 DEF Away
  <2>2. \A u \in Tasks : OwnLayers(u) \subseteq OwnLayers(u)'
    BY <1>1, OwnKept
  <2> QED BY <1>0, <1>1, <2>1, <2>2, ClosesKept
<1>19. ToldSound'
  <2>1. \A u \in Tasks \ commanded' :
          pc'[u] # "finished" => (Focused(u)' <=> Focused(u))
    <3>1. \A u \in Tasks : ~Focused(u)
      BY <1>1 DEF Focused
    <3>2. \A u \in Tasks : ~Focused(u)'
      BY <1>1, <1>2, <1>4 DEF Focused
    <3> QED BY <3>1, <3>2
  <2>2. \A u \in Tasks : pc[u] = "finished" => pc'[u] = "finished"
    BY <1>0, <1>1, <1>2
  <2> QED BY <1>0, <1>1, <2>1, <2>2, ToldKept
<1> QED BY <1>11, <1>12, <1>13, <1>14, <1>15, <1>16, <1>17, <1>18, <1>19 DEF IInv

\* The window with the focus is another one; whoever has it is told that it goes.
LEMMA DeactivateKeeps ==
  ASSUME Patient, IInv, NEW t \in Tasks, Deactivate(t)
  PROVE  IInv'
<1>0. /\ Types /\ OneStarts /\ StackSound /\ ActiveSound /\ WindowsSound
      /\ MapSound /\ ChildrenSound /\ ClosesSound /\ ToldSound
  BY DEF IInv
<1>1. /\ pc[t] = "deactivate" /\ active_layer # window[t]
      /\ msgs' = SendActive(msgs, layer_task_map, active_layer, FALSE)
      /\ undefined' = undefined \cup ActivateFault(window[t])
      /\ pc' = [pc EXCEPT ![t] = "set"]
      /\ UNCHANGED <<layers, layer_stack, latest_id, active_layer, layer_task_map, clock,
                     window, window_isactive, child, windows, commanded>>
  BY <1>0 DEF Deactivate, ActiveSound, manager, focus, mouse, terminal, Go, KeepTerminal
<1>2. pc'[t] = "set" /\ \A u \in Tasks : u # t => pc'[u] = pc[u]
  BY <1>0, <1>1, PlaceAt
<1>3. Appended(msgs, msgs', layer_task_map, active_layer, WindowActive(FALSE))
  <2>1. msgs \in [Tasks -> Seq(Message)] /\ MapsToTasks(layer_task_map)
    BY <1>0 DEF Types, MapSound, MapsToTasks
  <2> QED BY <2>1, <1>1, SendActiveAppends
<1>4. undefined' = undefined
  <2>1. active_layer \in layers \cup {0}
    BY <1>0 DEF ActiveSound, MapSound
  <2> QED BY <2>1, <1>1 DEF ActivateFault
<1>11. Types'
  <2>1. msgs' \in [Tasks -> Seq(Message)]
    BY <1>3 DEF Appended
  <2> QED BY <1>0, <1>1, <1>2, <2>1, <1>4 DEF Types, Places, Activating
<1>12. OneStarts'
  BY <1>0, <1>1, <1>2 DEF Types, OneStarts, Starting, Activating
<1>13. StackSound'
  BY <1>0, <1>1, <1>2 DEF Types, StackSound, System
<1>14. ActiveSound'
  BY <1>0, <1>1, <1>2 DEF Types, ActiveSound, Activating
<1>15. WindowsSound'
  BY <1>0, <1>1, <1>2 DEF Types, WindowsSound, Living, Activating, System
<1>16. MapSound'
  BY <1>0, <1>1, <1>2 DEF Types, MapSound, Mapped, Activating, System
<1>17. ChildrenSound'
  BY <1>0, <1>1, <1>2 DEF Types, ChildrenSound, Activating
<1>18. ClosesSound'
  <2>1. WindowActive(FALSE) \in Message /\ WindowActive(FALSE).type # "WindowClose"
    BY DEF Message, WindowActive
  <2>2. msgs \in [Tasks -> Seq(Message)]
    BY <1>0 DEF Types
  <2>3. ASSUME NEW u \in Tasks, pc'[u] \notin {"sub", "finished"}
        PROVE  OnlyCloses(msgs'[u], OwnLayers(u))
    <3>1. OnlyCloses(msgs[u], OwnLayers(u))
      BY <2>3, <1>0, <1>1, <1>2 DEF ClosesSound
    <3> QED BY <3>1, <2>1, <2>2, <1>3, AppendedCloses
  <2>4. \A u \in Tasks : OwnLayers(u)' = OwnLayers(u)
    BY <1>1, OwnKept
  <2> QED BY <2>3, <2>4 DEF ClosesSound
<1>19. ToldSound'
  <2> SUFFICES ASSUME NEW u \in Tasks \ commanded, pc'[u] # "finished"
               PROVE  Says(msgs'[u], window_isactive[u], FALSE) /\ ~Focused(u)'
    BY <1>1 DEF ToldSound
  <2>1. pc[u] # "finished"
    BY <1>1, <1>2
  <2>2. ~Focused(u)'
    BY <1>2 DEF Focused
  <2>3. msgs[u] \in Seq(Message)
    BY <1>0 DEF Types
  <2>4. CASE Focused(u)
    <3>1. active_layer \in DOMAIN layer_task_map /\ layer_task_map[active_layer] = u
      BY <2>4, <1>0 DEF Focused, MapSound, Mapped
    <3>2. msgs'[u] = Append(msgs[u], WindowActive(FALSE))
      BY <3>1, <2>1, <1>3 DEF Appended
    <3> QED BY <3>2, <2>2, <2>3, AppendSays
  <2>5. CASE ~Focused(u)
    <3>1. Says(msgs[u], window_isactive[u], FALSE)
      BY <2>1, <2>5, <1>0 DEF ToldSound
    <3>2. msgs'[u] = Append(msgs[u], WindowActive(FALSE)) \/ msgs'[u] = msgs[u]
      BY <1>3 DEF Appended
    <3> QED BY <3>1, <3>2, <2>2, <2>3, AppendSays
  <2> QED BY <2>4, <2>5
<1> QED BY <1>11, <1>12, <1>13, <1>14, <1>15, <1>16, <1>17, <1>18, <1>19 DEF IInv

\* The window that gains the focus goes to the bottom, under the desktop.
LEMMA LowerActiveKeeps ==
  ASSUME Patient, IInv, NEW t \in Tasks, LowerActive(t)
  PROVE  IInv'
<1>0. /\ Types /\ OneStarts /\ StackSound /\ ActiveSound /\ WindowsSound
      /\ MapSound /\ ChildrenSound /\ ClosesSound /\ ToldSound
  BY DEF IInv
<1>1. /\ pc[t] = "bottom" /\ layer_stack' = Lower(layer_stack, active_layer)
      /\ undefined' = undefined \cup (IF active_layer \in layers THEN {} ELSE {"UpDown"})
      /\ pc' = [pc EXCEPT ![t] = "raise"]
      /\ UNCHANGED <<layers, latest_id, active_layer, layer_task_map, clock,
                     window, window_isactive, child, windows, commanded, msgs>>
  BY DEF LowerActive, MoveActive, manager, focus, mouse, terminal, Go, KeepTerminal
<1>2. pc'[t] = "raise" /\ \A u \in Tasks : u # t => pc'[u] = pc[u]
  BY <1>0, <1>1, PlaceAt
<1>3. /\ active_layer = window[t] /\ active_layer # 0 /\ active_layer \in DOMAIN layer_task_map
      /\ layer_task_map[active_layer] = t /\ active_layer \in layers
      /\ active_layer \notin System /\ active_layer \notin {Background, MouseLayer}
      /\ \A u \in Tasks : u # t => window[u] # active_layer
   BY <1>0, <1>1 DEF Types, ActiveSound, WindowsSound, MapSound, Mapped, Living,
       Activating, System
<1>4. \A u \in Tasks : u # t => pc[u] \notin {"new", "insert"} \cup Activating
  BY <1>0, <1>1 DEF OneStarts, Starting, Activating
<1>5. /\ Ordered(layer_stack') /\ Elements(layer_stack') = Elements(layer_stack) \cup {active_layer}
      /\ Len(layer_stack') \in Nat /\ Len(layer_stack') >= 3
      /\ layer_stack'[1] = active_layer /\ layer_stack'[2] = Background
      /\ layer_stack'[Len(layer_stack')] = MouseLayer
  <2>1. \A u \in Tasks : pc[u] # "raise"
    BY <1>1, <1>4 DEF Activating
  <2>2. /\ Ordered(layer_stack) /\ layer_stack[1] = Background
        /\ layer_stack[Len(layer_stack)] = MouseLayer /\ Background \in Elements(layer_stack)
    BY <1>0, <2>1 DEF StackSound
  <2>3. active_layer \in Nat
    BY <1>0 DEF Types
  <2> QED BY <2>2, <2>3, <1>1, <1>3, LowerPlaces
<1>11. Types'
  <2>1. layer_stack' \in Seq(Nat)
    BY <1>5 DEF Ordered
  <2>2. undefined' = undefined
    BY <1>1, <1>3
  <2> QED BY <1>0, <1>1, <1>2, <2>1, <2>2 DEF Types, Places, Activating
<1>12. OneStarts'
  BY <1>0, <1>1, <1>2 DEF Types, OneStarts, Starting, Activating
<1>13. StackSound'
  <2>1. System' = System
    BY <1>1 DEF System
  <2>2. \A u \in Tasks : u # t => pc'[u] # "raise"
    BY <1>2, <1>4 DEF Activating
  <2>3. /\ Elements(layer_stack') \subseteq layers
        /\ {Background, ConsoleLayer, MouseLayer} \subseteq Elements(layer_stack')
        /\ Elements(layer_stack') \ System \subseteq DOMAIN layer_task_map
    BY <1>0, <1>3, <1>5 DEF StackSound
  <2> QED BY <1>1, <1>2, <1>5, <2>1, <2>2, <2>3 DEF StackSound
<1>14. ActiveSound'
  BY <1>0, <1>1, <1>2 DEF Types, ActiveSound, Activating
<1>15. WindowsSound'
  BY <1>0, <1>1, <1>2 DEF Types, WindowsSound, Living, Activating, System
<1>16. MapSound'
  BY <1>0, <1>1, <1>2 DEF Types, MapSound, Mapped, Activating, System
<1>17. ChildrenSound'
  BY <1>0, <1>1, <1>2 DEF Types, ChildrenSound, Activating
<1>18. ClosesSound'
  <2>1. \A u \in Tasks : Away(u) => Away(u)'
    BY <1>0, <1>1, <1>2 DEF Away
  <2>2. \A u \in Tasks : OwnLayers(u) \subseteq OwnLayers(u)'
    BY <1>1, OwnKept
  <2> QED BY <1>0, <1>1, <2>1, <2>2, ClosesKept
<1>19. ToldSound'
  <2>1. \A u \in Tasks \ commanded' :
          pc'[u] # "finished" => (Focused(u)' <=> Focused(u))
    BY <1>0, <1>1, <1>2 DEF Types, Focused
  <2>2. \A u \in Tasks : pc[u] = "finished" => pc'[u] = "finished"
    BY <1>0, <1>1, <1>2
  <2> QED BY <1>0, <1>1, <2>1, <2>2, ToldKept
<1> QED BY <1>11, <1>12, <1>13, <1>14, <1>15, <1>16, <1>17, <1>18, <1>19 DEF IInv

\* The window that gains the focus comes right under the mouse cursor.
LEMMA RaiseActiveKeeps ==
  ASSUME Patient, IInv, NEW t \in Tasks, RaiseActive(t)
  PROVE  IInv'
<1>0. /\ Types /\ OneStarts /\ StackSound /\ ActiveSound /\ WindowsSound
      /\ MapSound /\ ChildrenSound /\ ClosesSound /\ ToldSound
  BY DEF IInv
<1>1. /\ pc[t] = "raise" /\ layer_stack' = Raise(layer_stack, active_layer)
      /\ undefined' = undefined \cup (IF active_layer \in layers THEN {} ELSE {"UpDown"})
      /\ pc' = [pc EXCEPT ![t] = "tell"]
      /\ UNCHANGED <<layers, latest_id, active_layer, layer_task_map, clock,
                     window, window_isactive, child, windows, commanded, msgs>>
  BY DEF RaiseActive, MoveActive, manager, focus, mouse, terminal, Go, KeepTerminal
<1>2. pc'[t] = "tell" /\ \A u \in Tasks : u # t => pc'[u] = pc[u]
  BY <1>0, <1>1, PlaceAt
<1>3. /\ active_layer = window[t] /\ active_layer # 0 /\ active_layer \in DOMAIN layer_task_map
      /\ layer_task_map[active_layer] = t /\ active_layer \in layers
      /\ active_layer \notin System /\ active_layer \notin {Background, MouseLayer}
      /\ \A u \in Tasks : u # t => window[u] # active_layer
   BY <1>0, <1>1 DEF Types, ActiveSound, WindowsSound, MapSound, Mapped, Living,
       Activating, System
<1>4. \A u \in Tasks : u # t => pc[u] \notin {"new", "insert"} \cup Activating
  BY <1>0, <1>1 DEF OneStarts, Starting, Activating
<1>5. /\ Ordered(layer_stack') /\ Elements(layer_stack') = Elements(layer_stack)
      /\ Len(layer_stack') = Len(layer_stack)
      /\ layer_stack'[1] = Background /\ layer_stack'[Len(layer_stack) - 1] = active_layer
      /\ layer_stack'[Len(layer_stack)] = MouseLayer
  <2>1. /\ Ordered(layer_stack) /\ layer_stack[1] = active_layer /\ layer_stack[2] = Background
        /\ layer_stack[Len(layer_stack)] = MouseLayer
    BY <1>0, <1>1 DEF StackSound
  <2>2. Len(layer_stack) >= 3
    <3>1. layer_stack \in Seq(Nat) /\ DOMAIN layer_stack = 1 .. Len(layer_stack)
      BY <2>1 DEF Ordered
    <3>2. MouseLayer \in Elements(layer_stack)
      BY <1>0 DEF StackSound
    <3>3. PICK k \in 1 .. Len(layer_stack) : layer_stack[k] = MouseLayer
      BY <3>1, <3>2 DEF Elements
    <3>4. Len(layer_stack) # 1 /\ Len(layer_stack) # 2
      BY <2>1, <1>3 DEF Background, MouseLayer
    <3>5. Len(layer_stack) \in Nat
      BY <3>1
    <3>6. PICK n \in Nat : n = Len(layer_stack)
      BY <3>5
    <3>7. n # 0 /\ n # 1 /\ n # 2
      BY <3>3, <3>4, <3>6
    <3>8. n >= 3
      BY <3>7
    <3> QED BY <3>6, <3>8
  <2>3. active_layer \in Nat
    BY <1>0 DEF Types
  <2> QED BY <2>1, <2>2, <2>3, <1>1, <1>3, RaisePlaces
<1>11. Types'
  <2>1. layer_stack' \in Seq(Nat)
    BY <1>5 DEF Ordered
  <2>2. undefined' = undefined
    BY <1>1, <1>3
  <2> QED BY <1>0, <1>1, <1>2, <2>1, <2>2 DEF Types, Places, Activating
<1>12. OneStarts'
  BY <1>0, <1>1, <1>2 DEF Types, OneStarts, Starting, Activating
<1>13. StackSound'
  <2>1. System' = System
    BY <1>1 DEF System
  <2>2. \A u \in Tasks : pc'[u] # "raise"
    BY <1>2, <1>4 DEF Activating
  <2>3. /\ Elements(layer_stack') \subseteq layers
        /\ {Background, ConsoleLayer, MouseLayer} \subseteq Elements(layer_stack')
        /\ Elements(layer_stack') \ System \subseteq DOMAIN layer_task_map
    BY <1>0, <1>5 DEF StackSound
  <2> QED BY <1>1, <1>5, <2>1, <2>2, <2>3 DEF StackSound
<1>14. ActiveSound'
  BY <1>0, <1>1, <1>2 DEF Types, ActiveSound, Activating
<1>15. WindowsSound'
  BY <1>0, <1>1, <1>2 DEF Types, WindowsSound, Living, Activating, System
<1>16. MapSound'
  BY <1>0, <1>1, <1>2 DEF Types, MapSound, Mapped, Activating, System
<1>17. ChildrenSound'
  BY <1>0, <1>1, <1>2 DEF Types, ChildrenSound, Activating
<1>18. ClosesSound'
  <2>1. \A u \in Tasks : Away(u) => Away(u)'
    BY <1>0, <1>1, <1>2 DEF Away
  <2>2. \A u \in Tasks : OwnLayers(u) \subseteq OwnLayers(u)'
    BY <1>1, OwnKept
  <2> QED BY <1>0, <1>1, <2>1, <2>2, ClosesKept
<1>19. ToldSound'
  <2>1. \A u \in Tasks \ commanded' :
          pc'[u] # "finished" => (Focused(u)' <=> Focused(u))
    BY <1>0, <1>1, <1>2 DEF Types, Focused
  <2>2. \A u \in Tasks : pc[u] = "finished" => pc'[u] = "finished"
    BY <1>0, <1>1, <1>2
  <2> QED BY <1>0, <1>1, <2>1, <2>2, ToldKept
<1> QED BY <1>11, <1>12, <1>13, <1>14, <1>15, <1>16, <1>17, <1>18, <1>19 DEF IInv

\* The terminal that gains the focus is told, and no other.
LEMMA TellActiveKeeps ==
  ASSUME Patient, IInv, NEW t \in Tasks, TellActive(t)
  PROVE  IInv'
<1>0. /\ Types /\ OneStarts /\ StackSound /\ ActiveSound /\ WindowsSound
      /\ MapSound /\ ChildrenSound /\ ClosesSound /\ ToldSound
  BY DEF IInv
<1>1. /\ pc[t] = "tell"
      /\ msgs' = SendActive(msgs, layer_task_map, active_layer, TRUE)
      /\ pc' = [pc EXCEPT ![t] = "loop"]
      /\ UNCHANGED <<layers, layer_stack, latest_id, active_layer, layer_task_map, clock,
                     window, window_isactive, child, windows, commanded, undefined>>
  BY DEF TellActive, manager, focus, mouse, terminal, Go, KeepTerminal
<1>2. pc'[t] = "loop" /\ \A u \in Tasks : u # t => pc'[u] = pc[u]
  BY <1>0, <1>1, PlaceAt
<1>3. /\ active_layer = window[t] /\ active_layer # 0 /\ active_layer \in DOMAIN layer_task_map
      /\ layer_task_map[active_layer] = t /\ active_layer \in layers
      /\ active_layer \notin System /\ active_layer \notin {Background, MouseLayer}
      /\ \A u \in Tasks : u # t => window[u] # active_layer
   BY <1>0, <1>1 DEF Types, ActiveSound, WindowsSound, MapSound, Mapped, Living,
       Activating, System
<1>4. \A u \in Tasks : u # t => pc[u] \notin {"new", "insert"} \cup Activating
  BY <1>0, <1>1 DEF OneStarts, Starting, Activating
<1>5. Appended(msgs, msgs', layer_task_map, active_layer, WindowActive(TRUE))
  <2>1. msgs \in [Tasks -> Seq(Message)] /\ MapsToTasks(layer_task_map)
    BY <1>0 DEF Types, MapSound, MapsToTasks
  <2> QED BY <2>1, <1>1, SendActiveAppends
<1>11. Types'
  <2>1. msgs' \in [Tasks -> Seq(Message)]
    BY <1>5 DEF Appended
  <2> QED BY <1>0, <1>1, <1>2, <2>1 DEF Types, Places, Activating
<1>12. OneStarts'
  BY <1>0, <1>1, <1>2 DEF Types, OneStarts, Starting, Activating
<1>13. StackSound'
  BY <1>0, <1>1, <1>2 DEF Types, StackSound, System
<1>14. ActiveSound'
  BY <1>0, <1>1, <1>2 DEF Types, ActiveSound, Activating
<1>15. WindowsSound'
  BY <1>0, <1>1, <1>2 DEF Types, WindowsSound, Living, Activating, System
<1>16. MapSound'
  BY <1>0, <1>1, <1>2 DEF Types, MapSound, Mapped, Activating, System
<1>17. ChildrenSound'
  BY <1>0, <1>1, <1>2 DEF Types, ChildrenSound, Activating
<1>18. ClosesSound'
  <2>1. WindowActive(TRUE) \in Message /\ WindowActive(TRUE).type # "WindowClose"
    BY DEF Message, WindowActive
  <2>2. msgs \in [Tasks -> Seq(Message)]
    BY <1>0 DEF Types
  <2>3. ASSUME NEW u \in Tasks, pc'[u] \notin {"sub", "finished"}
        PROVE  OnlyCloses(msgs'[u], OwnLayers(u))
    <3>1. OnlyCloses(msgs[u], OwnLayers(u))
      BY <2>3, <1>0, <1>1, <1>2 DEF ClosesSound
    <3> QED BY <3>1, <2>1, <2>2, <1>5, AppendedCloses
  <2>4. \A u \in Tasks : OwnLayers(u)' = OwnLayers(u)
    BY <1>1, OwnKept
  <2> QED BY <2>3, <2>4 DEF ClosesSound
<1>19. ToldSound'
  <2>1. \A u \in Tasks : pc'[u] # "set"
    BY <1>2, <1>4 DEF Activating
  <2>2. ASSUME t \notin commanded
        PROVE  Focused(t)' /\ Says(msgs'[t], window_isactive[t], TRUE)
    <3>1. Focused(t)'
      BY <1>1, <1>2, <1>3, <2>1 DEF Focused
    <3>2. msgs[t] \in Seq(Message)
      BY <1>0 DEF Types
    <3>3. msgs'[t] = Append(msgs[t], WindowActive(TRUE))
      BY <1>1, <1>3, <1>5 DEF Appended
    <3> QED BY <3>1, <3>2, <3>3, AppendSays
  <2>3. ASSUME NEW u \in Tasks \ commanded, u # t, pc'[u] # "finished"
        PROVE  ~Focused(u)' /\ Says(msgs'[u], window_isactive[u], FALSE)
    <3>1. ~Focused(u) /\ ~Focused(u)'
      BY <1>1, <1>3, <2>3 DEF Focused
    <3>2. msgs'[u] = msgs[u]
      BY <1>3, <1>5, <2>3 DEF Appended
    <3>3. pc[u] # "finished"
      BY <1>2, <2>3
    <3> QED BY <3>1, <3>2, <3>3, <1>0, <2>3 DEF ToldSound
  <2> QED BY <2>2, <2>3, <1>1 DEF ToldSound
<1> QED BY <1>11, <1>12, <1>13, <1>14, <1>15, <1>16, <1>17, <1>18, <1>19 DEF IInv

-----------------------------------------------------------------------------
(* A terminal's message loop. *)

\* Reading a message leaves the queues queues,
LEMMA ReceivedQueues ==
  ASSUME Types, NEW t \in Tasks, msgs[t] # << >>, Received(t)
  PROVE  /\ msgs' \in [Tasks -> Seq(Message)] /\ msgs'[t] = Tail(msgs[t])
         /\ \A u \in Tasks : u # t => msgs'[u] = msgs[u]
<1>1. msgs \in [Tasks -> Seq(Message)] /\ msgs' = [msgs EXCEPT ![t] = Tail(msgs[t])]
  BY DEF Types, Received
<1>2. Tail(msgs[t]) \in Seq(Message)
  BY <1>1, HeadTailProperties
<1> QED BY <1>1, <1>2

\* adds nothing to what they close,
LEMMA ReceivedCloses ==
  ASSUME Types, ClosesSound, NEW t \in Tasks, msgs[t] # << >>, Received(t),
         \A u \in Tasks : Away(u) => Away(u)',
         \A u \in Tasks : OwnLayers(u) \subseteq OwnLayers(u)'
  PROVE  ClosesSound'
<1> SUFFICES ASSUME NEW u \in Tasks, ~Away(u)'
             PROVE  OnlyCloses(msgs'[u], OwnLayers(u)')
  BY DEF ClosesSound, Away
<1>1. OnlyCloses(msgs[u], OwnLayers(u)) /\ msgs[u] \in Seq(Message)
  BY DEF ClosesSound, Away, Types
<1>2. OnlyCloses(msgs'[u], OwnLayers(u))
  BY <1>1, ReceivedQueues, TailCloses
<1> QED BY <1>2, ClosesMore

\* and, if it is not about the focus, changes nothing of what they say.
LEMMA ReceivedTold ==
  ASSUME Types, ToldSound, NEW t \in Tasks, msgs[t] # << >>, Received(t),
         t \in commanded' \/ Head(msgs[t]).type # "WindowActive",
         UNCHANGED window_isactive, commanded \subseteq commanded',
         \A u \in Tasks : pc[u] = "finished" => pc'[u] = "finished",
         \A u \in Tasks \ commanded' : pc'[u] # "finished" => (Focused(u)' <=> Focused(u))
  PROVE  ToldSound'
<1> SUFFICES ASSUME NEW u \in Tasks \ commanded', pc'[u] # "finished"
             PROVE  /\ Focused(u)' => Says(msgs'[u], window_isactive[u], TRUE)
                    /\ ~Focused(u)' => Says(msgs'[u], window_isactive[u], FALSE)
  BY DEF ToldSound
<1>1. /\ Focused(u) => Says(msgs[u], window_isactive[u], TRUE)
      /\ ~Focused(u) => Says(msgs[u], window_isactive[u], FALSE)
      /\ Focused(u)' <=> Focused(u)
  BY DEF ToldSound
<1>2. CASE u # t
  <2>1. msgs'[u] = msgs[u]
    BY <1>2, ReceivedQueues
  <2> QED BY <1>1, <2>1
<1>3. CASE u = t
  <2>1. msgs[t] \in Seq(Message) /\ msgs'[t] = Tail(msgs[t]) /\ Head(msgs[t]).type # "WindowActive"
    BY <1>3, ReceivedQueues DEF Types
  <2>2. /\ Says(msgs[t], window_isactive[t], TRUE) => Says(Tail(msgs[t]), window_isactive[t], TRUE)
        /\ Says(msgs[t], window_isactive[t], FALSE) =>
             Says(Tail(msgs[t]), window_isactive[t], FALSE)
    BY <2>1, TailSays
  <2> QED BY <1>1, <1>3, <2>1, <2>2
<1> QED BY <1>2, <1>3

\* A terminal that reads of its focus believes what the queue said before.
LEMMA ReceiveActiveKeeps ==
  ASSUME Patient, IInv, NEW t \in Tasks, ReceiveActive(t)
  PROVE  IInv'
<1>0. /\ Types /\ OneStarts /\ StackSound /\ ActiveSound /\ WindowsSound
      /\ MapSound /\ ChildrenSound /\ ClosesSound /\ ToldSound
  BY DEF IInv
<1>1. /\ pc[t] = "loop" /\ msgs[t] # << >> /\ Head(msgs[t]).type = "WindowActive" /\ Received(t)
      /\ window_isactive' = [window_isactive EXCEPT ![t] = Head(msgs[t]).arg]
      /\ UNCHANGED <<layers, layer_stack, latest_id, active_layer, layer_task_map, clock,
                     pc, window, child, windows, commanded, undefined>>
  BY DEF ReceiveActive, Receiving, manager, focus, mouse, terminal, Go, KeepTerminal
<1>3. /\ msgs' \in [Tasks -> Seq(Message)] /\ msgs'[t] = Tail(msgs[t])
      /\ \A u \in Tasks : u # t => msgs'[u] = msgs[u]
  BY <1>0, <1>1, ReceivedQueues
<1>4. msgs[t] \in Seq(Message) /\ Head(msgs[t]) \in Message
  <2>1. msgs[t] \in Seq(Message)
    BY <1>0 DEF Types
  <2> QED BY <2>1, <1>1, HeadTailProperties
<1>5. Head(msgs[t]).arg \in BOOLEAN
  BY <1>1, <1>4 DEF Message
<1>11. Types'
  <2>1. window_isactive' \in [Tasks -> BOOLEAN]
    BY <1>0, <1>1, <1>5 DEF Types
  <2> QED BY <1>0, <1>1, <1>3, <2>1 DEF Types
<1>12. OneStarts'
  BY <1>0, <1>1 DEF Types, OneStarts, Starting, Activating
<1>13. StackSound'
  BY <1>0, <1>1 DEF Types, StackSound, System
<1>14. ActiveSound'
  BY <1>0, <1>1 DEF Types, ActiveSound, Activating
<1>15. WindowsSound'
  BY <1>0, <1>1 DEF Types, WindowsSound, Living, Activating, System
<1>16. MapSound'
  BY <1>0, <1>1 DEF Types, MapSound, Mapped, Activating, System
<1>17. ChildrenSound'
  BY <1>0, <1>1 DEF Types, ChildrenSound, Activating
<1>18. ClosesSound'
  <2>1. \A u \in Tasks : Away(u) => Away(u)'
    BY <1>1 DEF Away
  <2>2. \A u \in Tasks : OwnLayers(u) \subseteq OwnLayers(u)'
    BY <1>1, OwnKept
  <2> QED BY <1>0, <1>1, <2>1, <2>2, ReceivedCloses
<1>19. ToldSound'
  <2> SUFFICES ASSUME NEW u \in Tasks \ commanded, pc[u] # "finished"
               PROVE  /\ Focused(u) => Says(msgs'[u], window_isactive'[u], TRUE)
                      /\ ~Focused(u) => Says(msgs'[u], window_isactive'[u], FALSE)
    BY <1>1 DEF ToldSound, Focused
  <2>1. /\ Focused(u) => Says(msgs[u], window_isactive[u], TRUE)
        /\ ~Focused(u) => Says(msgs[u], window_isactive[u], FALSE)
    BY <1>0 DEF ToldSound
  <2>2. CASE u # t
    <3>1. msgs'[u] = msgs[u] /\ window_isactive'[u] = window_isactive[u]
      BY <2>2, <1>0, <1>1, <1>3 DEF Types
    <3> QED BY <2>1, <3>1
  <2>3. CASE u = t
    <3>1. msgs'[t] = Tail(msgs[t]) /\ window_isactive'[t] = Head(msgs[t]).arg
      BY <1>0, <1>1, <1>3 DEF Types
    <3>2. /\ Says(msgs[t], window_isactive[t], TRUE) => Says(Tail(msgs[t]), Head(msgs[t]).arg, TRUE)
          /\ Says(msgs[t], window_isactive[t], FALSE) =>
               Says(Tail(msgs[t]), Head(msgs[t]).arg, FALSE)
      BY <1>1, <1>4, TailSays
    <3> QED BY <2>1, <2>3, <3>1, <3>2
  <2> QED BY <2>2, <2>3
<1> QED BY <1>11, <1>12, <1>13, <1>14, <1>15, <1>16, <1>17, <1>18, <1>19 DEF IInv

\* Reading another message changes nothing else, in the message loop or in an application.
LEMMA ReceiveOtherKeeps ==
  ASSUME Patient, IInv, NEW t \in Tasks, ReceiveMouse(t) \/ ReceiveKey(t) \/ ReadEvent(t)
  PROVE  IInv'
<1>0. /\ Types /\ OneStarts /\ StackSound /\ ActiveSound /\ WindowsSound
      /\ MapSound /\ ChildrenSound /\ ClosesSound /\ ToldSound
  BY DEF IInv
<1>1. /\ msgs[t] # << >> /\ Received(t)
      /\ t \in commanded \/ Head(msgs[t]).type # "WindowActive"
      /\ UNCHANGED <<layers, layer_stack, latest_id, active_layer, layer_task_map, clock, pc,
                     window, window_isactive, child, windows, commanded, undefined>>
   BY <1>0 DEF ReceiveMouse, ReceiveKey, ReadEvent, Receiving, InApp, ChildrenSound,
       manager, focus, mouse, terminal, Go, KeepTerminal
<1>3. /\ msgs' \in [Tasks -> Seq(Message)] /\ msgs'[t] = Tail(msgs[t])
      /\ \A u \in Tasks : u # t => msgs'[u] = msgs[u]
  BY <1>0, <1>1, ReceivedQueues
<1>11. Types'
  BY <1>0, <1>1, <1>3 DEF Types, Places, Activating
<1>12. OneStarts'
  BY <1>0, <1>1 DEF Types, OneStarts, Starting, Activating
<1>13. StackSound'
  BY <1>0, <1>1 DEF Types, StackSound, System
<1>14. ActiveSound'
  BY <1>0, <1>1 DEF Types, ActiveSound, Activating
<1>15. WindowsSound'
  BY <1>0, <1>1 DEF Types, WindowsSound, Living, Activating, System
<1>16. MapSound'
  BY <1>0, <1>1 DEF Types, MapSound, Mapped, Activating, System
<1>17. ChildrenSound'
  BY <1>0, <1>1 DEF Types, ChildrenSound, Activating
<1>18. ClosesSound'
  <2>1. \A u \in Tasks : Away(u) => Away(u)'
    BY <1>1 DEF Away
  <2>2. \A u \in Tasks : OwnLayers(u) \subseteq OwnLayers(u)'
    BY <1>1, OwnKept
  <2> QED BY <1>0, <1>1, <2>1, <2>2, ReceivedCloses
<1>19. ToldSound'
  <2>1. \A u \in Tasks \ commanded' :
          pc'[u] # "finished" => (Focused(u)' <=> Focused(u))
    BY <1>1 DEF Focused
  <2>2. \A u \in Tasks : pc[u] = "finished" => pc'[u] = "finished"
    BY <1>1
  <2> QED BY <1>0, <1>1, <2>1, <2>2, ReceivedTold
<1> QED BY <1>11, <1>12, <1>13, <1>14, <1>15, <1>16, <1>17, <1>18, <1>19 DEF IInv

\* A terminal that runs an application is no longer held to the messages it gets.
LEMMA ExecuteKeeps ==
  ASSUME Patient, IInv, NEW t \in Tasks, Execute(t)
  PROVE  IInv'
<1>0. /\ Types /\ OneStarts /\ StackSound /\ ActiveSound /\ WindowsSound
      /\ MapSound /\ ChildrenSound /\ ClosesSound /\ ToldSound
  BY DEF IInv
<1>1. /\ pc[t] = "loop" /\ msgs[t] # << >> /\ Received(t)
      /\ pc' = [pc EXCEPT ![t] = "app"] /\ commanded' = commanded \cup {t}
      /\ UNCHANGED <<layers, layer_stack, latest_id, active_layer, layer_task_map, clock,
                     window, window_isactive, child, windows, undefined>>
  BY DEF Execute, Receiving, manager, focus, mouse, terminal, Go, KeepTerminal
<1>2. pc'[t] = "app" /\ \A u \in Tasks : u # t => pc'[u] = pc[u]
  BY <1>0, <1>1, PlaceAt
<1>3. /\ msgs' \in [Tasks -> Seq(Message)] /\ msgs'[t] = Tail(msgs[t])
      /\ \A u \in Tasks : u # t => msgs'[u] = msgs[u]
  BY <1>0, <1>1, ReceivedQueues
<1>11. Types'
  BY <1>0, <1>1, <1>2, <1>3 DEF Types, Places, Activating
<1>12. OneStarts'
  BY <1>0, <1>1, <1>2 DEF Types, OneStarts, Starting, Activating
<1>13. StackSound'
  BY <1>0, <1>1, <1>2 DEF Types, StackSound, System
<1>14. ActiveSound'
  BY <1>0, <1>1, <1>2 DEF Types, ActiveSound, Activating
<1>15. WindowsSound'
  BY <1>0, <1>1, <1>2 DEF Types, WindowsSound, Living, Activating, System
<1>16. MapSound'
  BY <1>0, <1>1, <1>2 DEF Types, MapSound, Mapped, Activating, System
<1>17. ChildrenSound'
  BY <1>0, <1>1, <1>2 DEF Types, ChildrenSound, Activating
<1>18. ClosesSound'
  <2>1. \A u \in Tasks : Away(u) => Away(u)'
    BY <1>0, <1>1, <1>2 DEF Away
  <2>2. \A u \in Tasks : OwnLayers(u) \subseteq OwnLayers(u)'
    BY <1>1, OwnKept
  <2> QED BY <1>0, <1>1, <2>1, <2>2, ReceivedCloses
<1>19. ToldSound'
  <2>1. \A u \in Tasks \ commanded' :
          pc'[u] # "finished" => (Focused(u)' <=> Focused(u))
    BY <1>0, <1>1, <1>2 DEF Types, Focused
  <2>2. \A u \in Tasks : pc[u] = "finished" => pc'[u] = "finished"
    BY <1>0, <1>1, <1>2
  <2> QED BY <1>0, <1>1, <2>1, <2>2, ReceivedTold
<1> QED BY <1>11, <1>12, <1>13, <1>14, <1>15, <1>16, <1>17, <1>18, <1>19 DEF IInv

\* The subtask has no window, and nobody's input goes to it yet.
LEMMA ExecutePipeKeeps ==
  ASSUME Patient, IInv, NEW t \in Tasks, NEW s \in Tasks, ExecutePipe(t, s)
  PROVE  IInv'
<1>0. /\ Types /\ OneStarts /\ StackSound /\ ActiveSound /\ WindowsSound
      /\ MapSound /\ ChildrenSound /\ ClosesSound /\ ToldSound
  BY DEF IInv
<1>1. /\ pc[t] = "loop" /\ pc[s] = "none" /\ msgs[t] # << >> /\ Received(t)
      /\ pc' = [pc EXCEPT ![t] = "assign", ![s] = "sub"]
      /\ child' = [child EXCEPT ![t] = s] /\ commanded' = commanded \cup {t, s}
      /\ UNCHANGED <<layers, layer_stack, latest_id, active_layer, layer_task_map, clock,
                     window, window_isactive, windows, undefined>>
  BY DEF ExecutePipe, Receiving, manager, focus, mouse, terminal, Go, KeepTerminal
<1>2. /\ s # t /\ pc'[t] = "assign" /\ pc'[s] = "sub"
      /\ \A u \in Tasks : u \notin {s, t} => pc'[u] = pc[u]
  BY <1>0, <1>1 DEF Types
<1>3. /\ msgs' \in [Tasks -> Seq(Message)] /\ msgs'[t] = Tail(msgs[t])
      /\ \A u \in Tasks : u # t => msgs'[u] = msgs[u]
  BY <1>0, <1>1, ReceivedQueues
<1>4. child'[t] = s /\ \A u \in Tasks : u # t => child'[u] = child[u]
  BY <1>0, <1>1 DEF Types
<1>11. Types'
  BY <1>0, <1>1, <1>2, <1>3 DEF Types, Places, Activating
<1>12. OneStarts'
  BY <1>0, <1>1, <1>2 DEF Types, OneStarts, Starting, Activating
<1>13. StackSound'
  BY <1>0, <1>1, <1>2 DEF Types, StackSound, System
<1>14. ActiveSound'
  BY <1>0, <1>1, <1>2 DEF Types, ActiveSound, Activating
<1>15. WindowsSound'
  BY <1>0, <1>1, <1>2 DEF Types, WindowsSound, Living, Activating, System
<1>16. MapSound'
  BY <1>0, <1>1, <1>2, <1>4 DEF Types, MapSound, Mapped, Activating, System
<1>17. ChildrenSound'
  <2>1. \A u \in Tasks : pc[u] \in {"sub", "finished"} => pc'[u] \in {"sub", "finished"}
    BY <1>1, <1>2
  <2>2. child[s] = NoTask
    BY <1>0, <1>1 DEF ChildrenSound
  <2>3. \A u \in Tasks : child'[u] # NoTask =>
          child'[u] \in commanded' /\ pc'[child'[u]] \in {"sub", "finished"}
    <3> SUFFICES ASSUME NEW u \in Tasks, child'[u] # NoTask
                 PROVE  child'[u] \in commanded' /\ pc'[child'[u]] \in {"sub", "finished"}
      OBVIOUS
    <3>1. CASE u = t
      BY <3>1, <1>1, <1>2, <1>4
    <3>2. CASE u # t
      <4>1. child'[u] = child[u] /\ child[u] \in Tasks
        BY <3>2, <1>0, <1>4 DEF Types
      <4>2. child[u] \in commanded /\ pc[child[u]] \in {"sub", "finished"}
        BY <4>1, <3>2, <1>0 DEF ChildrenSound
      <4>3. pc'[child[u]] \in {"sub", "finished"}
        BY <4>1, <4>2, <2>1
      <4> QED BY <4>1, <4>2, <4>3, <1>1
    <3> QED BY <3>1, <3>2
  <2>4. s # NoTask
    BY LayersAssumption
  <2>5. \A u \in Tasks :
          /\ pc'[u] \in {"none", "new", "insert", "loop"} \cup Activating => child'[u] = NoTask
          /\ pc'[u] \in {"assign", "wait"} => child'[u] # NoTask
          /\ pc'[u] \in {"assign", "app", "wait", "sub"} => u \in commanded'
    <3> SUFFICES ASSUME NEW u \in Tasks
                 PROVE  /\ pc'[u] \in {"none", "new", "insert", "loop"} \cup Activating =>
                             child'[u] = NoTask
                        /\ pc'[u] \in {"assign", "wait"} => child'[u] # NoTask
                        /\ pc'[u] \in {"assign", "app", "wait", "sub"} => u \in commanded'
      OBVIOUS
    <3>1. CASE u = t
      BY <3>1, <1>1, <1>2, <1>4, <2>4 DEF Activating
    <3>2. CASE u = s
      BY <3>2, <1>1, <1>2, <1>4, <2>2 DEF Activating
    <3>3. CASE u \notin {s, t}
      BY <3>3, <1>0, <1>1, <1>2, <1>4 DEF ChildrenSound
    <3> QED BY <3>1, <3>2, <3>3
  <2> QED BY <2>3, <2>5 DEF ChildrenSound
<1>18. ClosesSound'
  <2>1. \A u \in Tasks : Away(u) => Away(u)'
    BY <1>0, <1>1, <1>2 DEF Away
  <2>2. \A u \in Tasks : OwnLayers(u) \subseteq OwnLayers(u)'
    BY <1>1, OwnKept
  <2> QED BY <1>0, <1>1, <2>1, <2>2, ReceivedCloses
<1>19. ToldSound'
  <2>1. \A u \in Tasks \ commanded' :
          pc'[u] # "finished" => (Focused(u)' <=> Focused(u))
    BY <1>0, <1>1, <1>2 DEF Types, Focused
  <2>2. \A u \in Tasks : pc[u] = "finished" => pc'[u] = "finished"
    BY <1>0, <1>1, <1>2
  <2> QED BY <1>0, <1>1, <2>1, <2>2, ReceivedTold
<1> QED BY <1>11, <1>12, <1>13, <1>14, <1>15, <1>16, <1>17, <1>18, <1>19 DEF IInv

\* The subtask gets the input of the terminal that waits for it.
LEMMA AssignMapKeeps ==
  ASSUME Patient, IInv, NEW t \in Tasks, AssignMap(t)
  PROVE  IInv'
<1>0. /\ Types /\ OneStarts /\ StackSound /\ ActiveSound /\ WindowsSound
      /\ MapSound /\ ChildrenSound /\ ClosesSound /\ ToldSound
  BY DEF IInv
<1>1. /\ pc[t] = "assign" /\ layer_task_map' = With(layer_task_map, window[t], child[t])
      /\ pc' = [pc EXCEPT ![t] = "app"]
      /\ UNCHANGED <<layers, layer_stack, latest_id, active_layer, clock,
                     window, window_isactive, child, windows, commanded, msgs, undefined>>
  BY DEF AssignMap, manager, focus, mouse, terminal, Go, KeepTerminal
<1>2. pc'[t] = "app" /\ \A u \in Tasks : u # t => pc'[u] = pc[u]
  BY <1>0, <1>1, PlaceAt
<1>3. /\ DOMAIN layer_task_map' = DOMAIN layer_task_map \cup {window[t]}
      /\ layer_task_map'[window[t]] = child[t]
      /\ \A l \in DOMAIN layer_task_map : l # window[t] => layer_task_map'[l] = layer_task_map[l]
  <2>1. /\ DOMAIN With(layer_task_map, window[t], child[t]) = DOMAIN layer_task_map \cup {window[t]}
        /\ With(layer_task_map, window[t], child[t])[window[t]] = child[t]
        /\ \A l \in DOMAIN layer_task_map : l # window[t] =>
             With(layer_task_map, window[t], child[t])[l] = layer_task_map[l]
    BY DEF With
  <2> QED BY <2>1, <1>1
<1>4. /\ System' = System /\ window[t] \in layers /\ window[t] # 0 /\ window[t] \notin System
      /\ t \in commanded /\ \A u \in Tasks : u # t => window[u] # window[t]
      /\ \A u \in Tasks : window[t] \notin windows[u]
  BY <1>0, <1>1 DEF Types, WindowsSound, Living, ChildrenSound, System
<1>5. /\ child[t] # NoTask /\ child[t] \in Tasks /\ child[t] \in commanded
      /\ pc'[child[t]] \in {"sub", "finished"}
  <2>1. child[t] # NoTask /\ child[t] \in Tasks
    BY <1>0, <1>1 DEF Types, ChildrenSound
  <2>2. child[t] \in commanded /\ pc[child[t]] \in {"sub", "finished"}
    BY <2>1, <1>0 DEF ChildrenSound
  <2> QED BY <2>1, <2>2, <1>1, <1>2
<1>11. Types'
  BY <1>0, <1>1, <1>2 DEF Types, Places, Activating
<1>12. OneStarts'
  BY <1>0, <1>1, <1>2 DEF Types, OneStarts, Starting, Activating
<1>13. StackSound'
  BY <1>0, <1>1, <1>2, <1>3, <1>4 DEF StackSound
<1>14. ActiveSound'
  BY <1>0, <1>1, <1>2, <1>3 DEF ActiveSound
<1>15. WindowsSound'
  BY <1>0, <1>1, <1>2 DEF Types, WindowsSound, Living, Activating, System
<1>16. MapSound'
  <2>1. DOMAIN layer_task_map' \subseteq layers \ System
    BY <1>0, <1>3, <1>4 DEF MapSound
  <2>2. ASSUME NEW l \in DOMAIN layer_task_map'
        PROVE  /\ layer_task_map'[l] \in Tasks
               /\ layer_task_map'[l] \notin commanded => window[layer_task_map'[l]] = l
               /\ \A u \in Tasks : window[u] = l =>
                    layer_task_map'[l] = u \/ pc'[layer_task_map'[l]] \in {"sub", "finished"}
    <3>1. CASE l = window[t]
      BY <3>1, <1>3, <1>4, <1>5
    <3>2. CASE l # window[t]
      <4>1. l \in DOMAIN layer_task_map /\ layer_task_map'[l] = layer_task_map[l]
        BY <3>2, <1>3
      <4> QED BY <4>1, <1>0, <1>1, <1>2 DEF MapSound
    <3> QED BY <3>1, <3>2
  <2>3. \A u \in Tasks :
          /\ \A l \in windows[u] \cap layers :
               l \in DOMAIN layer_task_map' /\ layer_task_map'[l] = u
          /\ Mapped(u)' => window[u] \in DOMAIN layer_task_map' /\ layer_task_map'[window[u]] = u
          /\ pc'[u] = "insert" => window[u] \notin DOMAIN layer_task_map'
    BY <1>0, <1>1, <1>2, <1>3, <1>4, <1>5 DEF MapSound, Mapped, Activating
  <2> QED BY <2>1, <2>2, <2>3, <1>1, <1>4 DEF MapSound
<1>17. ChildrenSound'
  BY <1>0, <1>1, <1>2 DEF Types, ChildrenSound, Activating
<1>18. ClosesSound'
  <2>1. \A u \in Tasks : Away(u) => Away(u)'
    BY <1>0, <1>1, <1>2 DEF Away
  <2>2. \A u \in Tasks : OwnLayers(u) \subseteq OwnLayers(u)'
    BY <1>1, OwnKept
  <2> QED BY <1>0, <1>1, <2>1, <2>2, ClosesKept
<1>19. ToldSound'
  <2>1. \A u \in Tasks \ commanded' :
          pc'[u] # "finished" => (Focused(u)' <=> Focused(u))
    BY <1>0, <1>1, <1>2 DEF Types, Focused
  <2>2. \A u \in Tasks : pc[u] = "finished" => pc'[u] = "finished"
    BY <1>0, <1>1, <1>2
  <2> QED BY <1>0, <1>1, <2>1, <2>2, ToldKept
<1> QED BY <1>11, <1>12, <1>13, <1>14, <1>15, <1>16, <1>17, <1>18, <1>19 DEF IInv

\* The terminal has its input back before it is in its message loop.
LEMMA ReapPipeKeeps ==
  ASSUME Patient, IInv, NEW t \in Tasks, ReapPipe(t)
  PROVE  IInv'
<1>0. /\ Types /\ OneStarts /\ StackSound /\ ActiveSound /\ WindowsSound
      /\ MapSound /\ ChildrenSound /\ ClosesSound /\ ToldSound
  BY DEF IInv
<1>1. /\ pc[t] = "wait" /\ layer_task_map' = With(layer_task_map, window[t], t)
      /\ child' = [child EXCEPT ![t] = NoTask] /\ pc' = [pc EXCEPT ![t] = "loop"]
      /\ UNCHANGED <<layers, layer_stack, latest_id, active_layer, clock,
                     window, window_isactive, windows, commanded, msgs, undefined>>
  BY DEF ReapPipe, manager, focus, mouse, terminal, Go, KeepTerminal
<1>2. pc'[t] = "loop" /\ \A u \in Tasks : u # t => pc'[u] = pc[u]
  BY <1>0, <1>1, PlaceAt
<1>3. /\ DOMAIN layer_task_map' = DOMAIN layer_task_map \cup {window[t]}
      /\ layer_task_map'[window[t]] = t
      /\ \A l \in DOMAIN layer_task_map : l # window[t] => layer_task_map'[l] = layer_task_map[l]
  <2>1. /\ DOMAIN With(layer_task_map, window[t], t) = DOMAIN layer_task_map \cup {window[t]}
        /\ With(layer_task_map, window[t], t)[window[t]] = t
        /\ \A l \in DOMAIN layer_task_map : l # window[t] =>
             With(layer_task_map, window[t], t)[l] = layer_task_map[l]
    BY DEF With
  <2> QED BY <2>1, <1>1
<1>4. /\ System' = System /\ window[t] \in layers /\ window[t] # 0 /\ window[t] \notin System
      /\ t \in commanded /\ \A u \in Tasks : u # t => window[u] # window[t]
      /\ \A u \in Tasks : window[t] \notin windows[u]
  BY <1>0, <1>1 DEF Types, WindowsSound, Living, ChildrenSound, System
<1>5. child'[t] = NoTask /\ \A u \in Tasks : u # t => child'[u] = child[u]
  BY <1>0, <1>1 DEF Types
<1>11. Types'
  BY <1>0, <1>1, <1>2 DEF Types, Places, Activating
<1>12. OneStarts'
  BY <1>0, <1>1, <1>2 DEF Types, OneStarts, Starting, Activating
<1>13. StackSound'
  BY <1>0, <1>1, <1>2, <1>3, <1>4 DEF StackSound
<1>14. ActiveSound'
  BY <1>0, <1>1, <1>2, <1>3 DEF ActiveSound
<1>15. WindowsSound'
  BY <1>0, <1>1, <1>2 DEF Types, WindowsSound, Living, Activating, System
<1>16. MapSound'
  <2>1. DOMAIN layer_task_map' \subseteq layers \ System
    BY <1>0, <1>3, <1>4 DEF MapSound
  <2>2. ASSUME NEW l \in DOMAIN layer_task_map'
        PROVE  /\ layer_task_map'[l] \in Tasks
               /\ layer_task_map'[l] \notin commanded => window[layer_task_map'[l]] = l
               /\ \A u \in Tasks : window[u] = l =>
                    layer_task_map'[l] = u \/ pc'[layer_task_map'[l]] \in {"sub", "finished"}
    <3>1. CASE l = window[t]
      BY <3>1, <1>3, <1>4, <1>5
    <3>2. CASE l # window[t]
      <4>1. l \in DOMAIN layer_task_map /\ layer_task_map'[l] = layer_task_map[l]
        BY <3>2, <1>3
      <4> QED BY <4>1, <1>0, <1>1, <1>2 DEF MapSound
    <3> QED BY <3>1, <3>2
  <2>3. \A u \in Tasks :
          /\ \A l \in windows[u] \cap layers :
               l \in DOMAIN layer_task_map' /\ layer_task_map'[l] = u
          /\ Mapped(u)' => window[u] \in DOMAIN layer_task_map' /\ layer_task_map'[window[u]] = u
          /\ pc'[u] = "insert" => window[u] \notin DOMAIN layer_task_map'
    BY <1>0, <1>1, <1>2, <1>3, <1>4, <1>5 DEF MapSound, Mapped, Activating
  <2> QED BY <2>1, <2>2, <2>3, <1>1, <1>4 DEF MapSound
<1>17. ChildrenSound'
  BY <1>0, <1>1, <1>2, <1>4, <1>5 DEF Types, ChildrenSound, Activating
<1>18. ClosesSound'
  <2>1. \A u \in Tasks : Away(u) => Away(u)'
    BY <1>0, <1>1, <1>2 DEF Away
  <2>2. \A u \in Tasks : OwnLayers(u) \subseteq OwnLayers(u)'
    BY <1>1, OwnKept
  <2> QED BY <1>0, <1>1, <2>1, <2>2, ClosesKept
<1>19. ToldSound'
  <2>1. \A u \in Tasks \ commanded' :
          pc'[u] # "finished" => (Focused(u)' <=> Focused(u))
    BY <1>1, <1>2, <1>4 DEF Focused
  <2>2. \A u \in Tasks : pc[u] = "finished" => pc'[u] = "finished"
    BY <1>0, <1>1, <1>2
  <2> QED BY <1>0, <1>1, <2>1, <2>2, ToldKept
<1> QED BY <1>11, <1>12, <1>13, <1>14, <1>15, <1>16, <1>17, <1>18, <1>19 DEF IInv

-----------------------------------------------------------------------------
(* Applications. *)

\* A subtask ends with its application, and its queue is freed.
LEMMA EndSubtaskKeeps ==
  ASSUME Patient, IInv, NEW t \in Tasks, ExitApp(t), pc[t] = "sub"
  PROVE  IInv'
<1>0. /\ Types /\ OneStarts /\ StackSound /\ ActiveSound /\ WindowsSound
      /\ MapSound /\ ChildrenSound /\ ClosesSound /\ ToldSound
  BY DEF IInv
<1>1. /\ pc[t] = "sub" /\ pc' = [pc EXCEPT ![t] = "finished"] /\ msgs' = [msgs EXCEPT ![t] = << >>]
      /\ UNCHANGED <<layers, layer_stack, latest_id, active_layer, layer_task_map, clock,
                     window, window_isactive, child, windows, commanded, undefined>>
  BY DEF ExitApp, manager, focus, mouse, terminal, Go, KeepTerminal
<1>2. pc'[t] = "finished" /\ \A u \in Tasks : u # t => pc'[u] = pc[u]
  BY <1>0, <1>1, PlaceAt
<1>3. /\ msgs' \in [Tasks -> Seq(Message)]
      /\ \A u \in Tasks : u # t => msgs'[u] = msgs[u]
  BY <1>0, <1>1 DEF Types
<1>4. t \in commanded
  BY <1>0, <1>1 DEF ChildrenSound
<1>11. Types'
  BY <1>0, <1>1, <1>2, <1>3 DEF Types, Places
<1>12. OneStarts'
  BY <1>0, <1>1, <1>2 DEF Types, OneStarts, Starting, Activating
<1>13. StackSound'
  BY <1>0, <1>1, <1>2 DEF Types, StackSound, System
<1>14. ActiveSound'
  BY <1>0, <1>1, <1>2 DEF Types, ActiveSound, Activating
<1>15. WindowsSound'
  BY <1>0, <1>1, <1>2 DEF Types, WindowsSound, Living, Activating, System
<1>16. MapSound'
  BY <1>0, <1>1, <1>2 DEF Types, MapSound, Mapped, Activating, System
<1>17. ChildrenSound'
  BY <1>0, <1>1, <1>2 DEF Types, ChildrenSound, Activating
<1>18. ClosesSound'
  <2>1. \A u \in Tasks : OwnLayers(u)' = OwnLayers(u)
    BY <1>1, OwnKept
  <2> QED BY <1>0, <1>1, <1>2, <1>3, <2>1 DEF ClosesSound
<1>19. ToldSound'
  <2>1. \A u \in Tasks \ commanded : Focused(u)' <=> Focused(u)
    BY <1>1, <1>2, <1>4 DEF Focused
  <2> QED BY <1>0, <1>1, <1>2, <1>3, <1>4, <2>1 DEF ToldSound
<1> QED BY <1>11, <1>12, <1>13, <1>14, <1>15, <1>16, <1>17, <1>18, <1>19 DEF IInv

\* A terminal is back in its loop, or waits for its subtask, and has not lost its window.
LEMMA EndApplicationKeeps ==
  ASSUME Patient, IInv, NEW t \in Tasks, ExitApp(t), pc[t] = "app"
  PROVE  IInv'
<1>0. /\ Types /\ OneStarts /\ StackSound /\ ActiveSound /\ WindowsSound
      /\ MapSound /\ ChildrenSound /\ ClosesSound /\ ToldSound
  BY DEF IInv
<1>1. /\ pc[t] = "app" /\ t \in commanded
      /\ pc' = [pc EXCEPT ![t] = IF child[t] = NoTask THEN "loop" ELSE "wait"]
      /\ UNCHANGED <<layers, layer_stack, latest_id, active_layer, layer_task_map, clock,
                     window, window_isactive, child, windows, commanded, msgs, undefined>>
  BY <1>0 DEF ExitApp, ChildrenSound, manager, focus, mouse, terminal, Go, KeepTerminal
<1>2. /\ pc'[t] = (IF child[t] = NoTask THEN "loop" ELSE "wait")
      /\ \A u \in Tasks : u # t => pc'[u] = pc[u]
  BY <1>0, <1>1 DEF Types
<1>11. Types'
  BY <1>0, <1>1, <1>2 DEF Types, Places, Activating
<1>12. OneStarts'
  BY <1>0, <1>1, <1>2 DEF Types, OneStarts, Starting, Activating
<1>13. StackSound'
  BY <1>0, <1>1, <1>2 DEF Types, StackSound, System
<1>14. ActiveSound'
  BY <1>0, <1>1, <1>2 DEF Types, ActiveSound, Activating
<1>15. WindowsSound'
  BY <1>0, <1>1, <1>2 DEF Types, WindowsSound, Living, Activating, System
<1>16. MapSound'
  BY <1>0, <1>1, <1>2 DEF Types, MapSound, Mapped, Activating, System
<1>17. ChildrenSound'
  BY <1>0, <1>1, <1>2 DEF Types, ChildrenSound, Activating
<1>18. ClosesSound'
  <2>1. \A u \in Tasks : Away(u) => Away(u)'
    BY <1>0, <1>1, <1>2 DEF Away
  <2>2. \A u \in Tasks : OwnLayers(u) \subseteq OwnLayers(u)'
    BY <1>1, OwnKept
  <2> QED BY <1>0, <1>1, <2>1, <2>2, ClosesKept
<1>19. ToldSound'
  <2>1. \A u \in Tasks \ commanded' :
          pc'[u] # "finished" => (Focused(u)' <=> Focused(u))
    BY <1>0, <1>1, <1>2 DEF Types, Focused
  <2>2. \A u \in Tasks : pc[u] = "finished" => pc'[u] = "finished"
    BY <1>0, <1>1, <1>2
  <2> QED BY <1>0, <1>1, <2>1, <2>2, ToldKept
<1> QED BY <1>11, <1>12, <1>13, <1>14, <1>15, <1>16, <1>17, <1>18, <1>19 DEF IInv

-----------------------------------------------------------------------------
(* The main task. *)

\* The user's input goes to the task of the active layer, and changes nothing else.
LEMMA InputKeeps ==
  ASSUME IInv, NEW x \in {KeyPush, MouseEvent},
         msgs' = Input(msgs, active_layer, x) \/ msgs' = msgs,
         undefined' \subseteq undefined \cup {"MoveRelative"},
         UNCHANGED <<manager, focus, clock, terminal>>
  PROVE  IInv'
<1>0. /\ Types /\ OneStarts /\ StackSound /\ ActiveSound /\ WindowsSound
      /\ MapSound /\ ChildrenSound /\ ClosesSound /\ ToldSound
  BY DEF IInv
<1>1. UNCHANGED <<layers, layer_stack, latest_id, active_layer, layer_task_map, clock, pc,
                  window, window_isactive, child, windows, commanded>>
  BY DEF manager, focus, terminal
<1>2. x \in Message /\ x.type # "WindowClose" /\ x.type # "WindowActive"
  BY DEF Message, KeyPush, MouseEvent
<1>3. msgs \in [Tasks -> Seq(Message)] /\ MapsToTasks(layer_task_map)
  BY <1>0 DEF Types, MapSound, MapsToTasks
<1>4. Appended(msgs, msgs', layer_task_map, active_layer, x) \/ msgs' = msgs
  BY <1>2, <1>3, InputAppends
<1>5. /\ msgs' \in [Tasks -> Seq(Message)]
      /\ \A u \in Tasks : msgs'[u] = msgs[u] \/ msgs'[u] = Append(msgs[u], x)
  BY <1>3, <1>4 DEF Appended
<1>11. Types'
  BY <1>0, <1>1, <1>5 DEF Types, Places, Activating
<1>12. OneStarts'
  BY <1>0, <1>1 DEF Types, OneStarts, Starting, Activating
<1>13. StackSound'
  BY <1>0, <1>1 DEF Types, StackSound, System
<1>14. ActiveSound'
  BY <1>0, <1>1 DEF Types, ActiveSound, Activating
<1>15. WindowsSound'
  BY <1>0, <1>1 DEF Types, WindowsSound, Living, Activating, System
<1>16. MapSound'
  BY <1>0, <1>1 DEF Types, MapSound, Mapped, Activating, System
<1>17. ChildrenSound'
  BY <1>0, <1>1 DEF Types, ChildrenSound, Activating
<1>18. ClosesSound'
  <2> SUFFICES ASSUME NEW u \in Tasks, pc[u] \notin {"sub", "finished"}
               PROVE  OnlyCloses(msgs'[u], OwnLayers(u)')
    BY <1>1 DEF ClosesSound
  <2>1. OnlyCloses(msgs[u], OwnLayers(u)) /\ msgs[u] \in Seq(Message)
    BY <1>0, <1>3 DEF ClosesSound
  <2>2. OnlyCloses(Append(msgs[u], x), OwnLayers(u))
    BY <2>1, <1>2, AppendCloses
  <2>3. OwnLayers(u)' = OwnLayers(u)
    BY <1>1, OwnKept
  <2> QED BY <2>1, <2>2, <2>3, <1>5
<1>19. ToldSound'
  <2> SUFFICES ASSUME NEW u \in Tasks \ commanded, pc[u] # "finished"
               PROVE  /\ Focused(u) => Says(msgs'[u], window_isactive[u], TRUE)
                      /\ ~Focused(u) => Says(msgs'[u], window_isactive[u], FALSE)
    BY <1>1 DEF ToldSound, Focused
  <2>1. /\ Focused(u) => Says(msgs[u], window_isactive[u], TRUE)
        /\ ~Focused(u) => Says(msgs[u], window_isactive[u], FALSE)
        /\ msgs[u] \in Seq(Message)
    BY <1>0, <1>3 DEF ToldSound
  <2>2. /\ Says(msgs[u], window_isactive[u], TRUE) =>
             Says(Append(msgs[u], x), window_isactive[u], TRUE)
        /\ Says(msgs[u], window_isactive[u], FALSE) =>
             Says(Append(msgs[u], x), window_isactive[u], FALSE)
    BY <2>1, <1>2, AppendSaysSame
  <2> QED BY <2>1, <2>2, <1>5
<1> QED BY <1>11, <1>12, <1>13, <1>14, <1>15, <1>16, <1>17, <1>18, <1>19 DEF IInv

\* A moved mouse, a released button and a key.
LEMMA UserInputKeeps ==
  ASSUME IInv, MoveMouse \/ ReleaseButton \/ PushKey
  PROVE  IInv'
<1>1. UNCHANGED <<manager, focus, clock, terminal>>
  BY DEF MoveMouse, ReleaseButton, PushKey
<1>2. undefined' \subseteq undefined \cup {"MoveRelative"}
  BY DEF MoveMouse, ReleaseButton, PushKey
<1>3. PICK x \in {KeyPush, MouseEvent} : msgs' = Input(msgs, active_layer, x) \/ msgs' = msgs
  BY DEF MoveMouse, ReleaseButton, PushKey
<1> QED BY <1>1, <1>2, <1>3, InputKeeps

\* The desktop, the console and the mouse cursor are three layers of the stack.
LEMMA StackIsLong ==
  ASSUME StackSound
  PROVE  /\ layer_stack \in Seq(Nat) /\ DOMAIN layer_stack = 1 .. Len(layer_stack)
         /\ Len(layer_stack) \in Nat /\ Len(layer_stack) >= 3
         /\ layer_stack[1] = Background /\ active_layer \notin System
              /\ layer_stack[Len(layer_stack) - 1] = active_layer => Len(layer_stack) >= 4
<1>1. layer_stack \in Seq(Nat) /\ DOMAIN layer_stack = 1 .. Len(layer_stack)
  BY DEF StackSound, Ordered
<1>2. Len(layer_stack) \in Nat
  BY <1>1
<1>3. PICK n \in Nat : n = Len(layer_stack)
  BY <1>2
<1>4. PICK a \in 1 .. n : layer_stack[a] = Background
  BY <1>1, <1>3 DEF StackSound, Elements
<1>5. PICK b \in 1 .. n : layer_stack[b] = ConsoleLayer
  BY <1>1, <1>3 DEF StackSound, Elements
<1>6. layer_stack[n] = MouseLayer
  BY <1>3 DEF StackSound
<1>7. a # b /\ a # n /\ b # n
  BY <1>4, <1>5, <1>6 DEF Background, ConsoleLayer, MouseLayer
<1>8. n >= 3
  BY <1>7
<1>9. ASSUME layer_stack[1] = Background, active_layer \notin System,
             layer_stack[n - 1] = active_layer
      PROVE  n >= 4
  <2>1. active_layer # ConsoleLayer /\ ConsoleLayer # Background
    BY <1>9 DEF System, Background, ConsoleLayer
  <2>2. b # 1 /\ b # n - 1
    BY <1>5, <1>9, <2>1
  <2> QED BY <1>7, <2>2
<1> QED BY <1>1, <1>3, <1>8, <1>9

\* The clock's layer comes above the console, and under the window with the focus.
LEMMA StartClockKeeps ==
  ASSUME Patient, IInv, StartClock
  PROVE  IInv'
<1>0. /\ Types /\ OneStarts /\ StackSound /\ ActiveSound /\ WindowsSound
      /\ MapSound /\ ChildrenSound /\ ClosesSound /\ ToldSound
  BY DEF IInv
<1>1. /\ clock = 0 /\ latest_id' = latest_id + 1 /\ clock' = latest_id'
      /\ layers' = layers \cup {clock'} /\ layer_stack' = UpDown(layer_stack, clock', 2)
      /\ UNCHANGED <<active_layer, layer_task_map, pc, window, window_isactive, child, windows,
                     commanded, msgs, undefined>>
  BY DEF StartClock, manager, focus, mouse, terminal, Go, KeepTerminal
<1>3. PICK id \in Nat : id = latest_id + 1
  BY <1>0 DEF Types
<1>4. /\ id # 0 /\ id \notin layers /\ id \notin System
      /\ id \notin {Background, ConsoleLayer, MouseLayer}
      /\ id \notin DOMAIN layer_task_map /\ id # active_layer
      /\ \A u \in Tasks : id # window[u] /\ id \notin windows[u] /\ id \notin OwnLayers(u)
      /\ \A i \in 0 .. latest_id : i # id
  BY <1>0, <1>3, FreshLayer
<1>5. clock' = id /\ latest_id' = id /\ layers' = layers \cup {id}
  BY <1>1, <1>3
<1>6. /\ System = {Background, ConsoleLayer, MouseLayer, 0}
      /\ System' = {Background, ConsoleLayer, MouseLayer, id}
  BY <1>1, <1>5 DEF System
<1>7. /\ layer_stack \in Seq(Nat) /\ DOMAIN layer_stack = 1 .. Len(layer_stack)
      /\ Len(layer_stack) \in Nat /\ Len(layer_stack) >= 3
  BY <1>0, StackIsLong
<1>8. /\ Ordered(layer_stack') /\ Len(layer_stack') = Len(layer_stack) + 1
      /\ \A j \in 1 .. (Len(layer_stack) + 1) :
           layer_stack'[j] = IF j <= 2 THEN layer_stack[j]
                             ELSE IF j = 2 + 1 THEN id ELSE layer_stack[j - 1]
      /\ Elements(layer_stack') = Elements(layer_stack) \cup {id}
  <2>1. 2 \in 0 .. Len(layer_stack)
    BY <1>7
  <2>2. Ordered(layer_stack) /\ id \notin Elements(layer_stack)
    BY <1>0, <1>4 DEF StackSound
  <2>3. layer_stack' = InsertBehind(layer_stack, 2, id)
    BY <2>1, <2>2, <1>1, <1>5, UpDownInserts
  <2> QED BY <2>1, <2>2, <2>3, InsertedAt
<1>11. Types'
  <2>1. id \in 1 .. id /\ 1 .. latest_id \subseteq 1 .. id /\ 0 .. latest_id \subseteq 0 .. id
    BY <1>0, <1>3 DEF Types, MouseLayer
  <2>2. \A i \in Nat : i <= latest_id => i <= id
    BY <1>0, <1>3 DEF Types
  <2>3. latest_id' = id /\ id >= MouseLayer
    BY <1>0, <1>1, <1>3 DEF Types, MouseLayer
  <2>4. layers' \subseteq 1 .. id /\ clock' \in 0 .. id
    BY <1>0, <1>1, <1>5, <2>1 DEF Types
  <2>5. \A u \in Tasks : window[u] <= id /\ windows[u] \subseteq 1 .. id
    BY <1>0, <2>1, <2>2 DEF Types
  <2>6. layer_stack' \in Seq(Nat)
    BY <1>8 DEF Ordered
  <2> QED BY <1>0, <1>1, <2>3, <2>4, <2>5, <2>6 DEF Types
<1>12. OneStarts'
  BY <1>0, <1>1 DEF Types, OneStarts, Starting, Activating
<1>13. StackSound'
  <2>1. /\ layer_stack'[1] = layer_stack[1] /\ layer_stack'[2] = layer_stack[2]
        /\ layer_stack'[Len(layer_stack')] = layer_stack[Len(layer_stack)]
    <3>1. PICK n \in Nat : n = Len(layer_stack)
      BY <1>7
    <3>2. /\ 1 \in 1 .. (n + 1) /\ 2 \in 1 .. (n + 1) /\ n + 1 \in 1 .. (n + 1)
          /\ ~(n + 1 <= 2) /\ n + 1 # 2 + 1 /\ (n + 1) - 1 = n
      BY <3>1, <1>7
    <3> QED BY <3>1, <3>2, <1>8
  <2>2. ASSUME active_layer # 0, \A u \in Tasks : pc[u] \notin {"bottom", "raise"}
        PROVE  layer_stack'[Len(layer_stack') - 1] = active_layer
    <3>1. PICK n \in Nat : n = Len(layer_stack)
      BY <1>7
    <3>2. layer_stack[1] = Background /\ layer_stack[n - 1] = active_layer
      BY <2>2, <3>1, <1>0 DEF StackSound
    <3>3. active_layer \notin System
      BY <2>2, <1>0 DEF ActiveSound, MapSound
    <3>4. n >= 4
      BY <3>1, <3>2, <3>3, <1>0, StackIsLong
    <3>5. /\ n \in 1 .. (n + 1) /\ ~(n <= 2) /\ n # 2 + 1 /\ (n + 1) - 1 = n
      BY <3>4
    <3> QED BY <3>1, <3>2, <3>5, <1>8
  <2>3. Elements(layer_stack') \subseteq layers'
    BY <1>0, <1>5, <1>8 DEF StackSound
  <2>4. Elements(layer_stack') \ System' \subseteq DOMAIN layer_task_map
    <3>1. 0 \notin Elements(layer_stack)
      BY <1>0 DEF StackSound, Types
    <3> QED BY <3>1, <1>0, <1>6, <1>8 DEF StackSound
  <2>5. {Background, ConsoleLayer, MouseLayer} \subseteq Elements(layer_stack')
    BY <1>0, <1>8 DEF StackSound
  <2> QED BY <1>0, <1>1, <1>8, <2>1, <2>2, <2>3, <2>4, <2>5 DEF StackSound
<1>14. ActiveSound'
  BY <1>0, <1>1 DEF Types, ActiveSound, Activating
<1>15. WindowsSound'
  BY <1>0, <1>1, <1>4, <1>5, <1>6 DEF WindowsSound, Living
<1>16. MapSound'
  <2>1. DOMAIN layer_task_map \subseteq layers' \ System'
    BY <1>0, <1>4, <1>5, <1>6 DEF MapSound
  <2>2. \A u \in Tasks : windows[u] \cap layers' = windows[u] \cap layers
    BY <1>4, <1>5
  <2> QED BY <1>0, <1>1, <2>1, <2>2 DEF MapSound, Mapped
<1>17. ChildrenSound'
  BY <1>0, <1>1 DEF Types, ChildrenSound, Activating
<1>18. ClosesSound'
  <2>1. \A u \in Tasks : Away(u) => Away(u)'
    BY <1>1 DEF Away
  <2>2. \A u \in Tasks : OwnLayers(u) \subseteq OwnLayers(u)'
    <3>1. 1 .. latest_id \subseteq 1 .. id /\ id \notin 1 .. latest_id
      BY <1>0, <1>3, <1>4 DEF Types
    <3> QED BY <1>1, <1>5, <1>6, <3>1 DEF OwnLayers
  <2> QED BY <1>0, <1>1, <2>1, <2>2, ClosesKept
<1>19. ToldSound'
  <2>1. \A u \in Tasks \ commanded' :
          pc'[u] # "finished" => (Focused(u)' <=> Focused(u))
    BY <1>1 DEF Focused
  <2>2. \A u \in Tasks : pc[u] = "finished" => pc'[u] = "finished"
    BY <1>1
  <2> QED BY <1>0, <1>1, <2>1, <2>2, ToldKept
<1> QED BY <1>11, <1>12, <1>13, <1>14, <1>15, <1>16, <1>17, <1>18, <1>19 DEF IInv

\* A window that an application opens is new and nobody's, so nobody but the one that
\* had the focus is told.
LEMMA OpenWindowKeeps ==
  ASSUME Patient, IInv, NEW t \in Tasks, OpenWindow(t), Still
  PROVE  IInv'
<1>0. /\ Types /\ OneStarts /\ StackSound /\ ActiveSound /\ WindowsSound
      /\ MapSound /\ ChildrenSound /\ ClosesSound /\ ToldSound
  BY DEF IInv
<1>1. /\ pc[t] \in {"app", "sub"} /\ t \in commanded
      /\ latest_id' = latest_id + 1 /\ layers' = layers \cup {latest_id + 1}
      /\ active_layer' = latest_id + 1
      /\ layer_stack' = Activated(latest_id + 1, layer_stack).stack
      /\ msgs' = Activated(latest_id + 1, layer_stack).msgs
      /\ layer_task_map' = With(layer_task_map, latest_id + 1, t)
      /\ windows' = [windows EXCEPT ![t] = @ \cup {latest_id + 1}]
      /\ undefined' = undefined \cup ActivateFault(latest_id + 1)
      /\ UNCHANGED <<clock, pc, window, window_isactive, child, commanded>>
   BY <1>0 DEF OpenWindow, InApp, ChildrenSound, manager, focus, mouse, terminal, Go,
       KeepTerminal
<1>3. PICK id \in Nat : id = latest_id + 1
  BY <1>0 DEF Types
<1>4. /\ id # 0 /\ id \notin layers /\ id \notin System
      /\ id \notin {Background, ConsoleLayer, MouseLayer}
      /\ id \notin DOMAIN layer_task_map /\ id # active_layer
      /\ \A u \in Tasks : id # window[u] /\ id \notin windows[u] /\ id \notin OwnLayers(u)
      /\ \A i \in 0 .. latest_id : i # id
  BY <1>0, <1>3, FreshLayer
<1>5. /\ latest_id' = id /\ layers' = layers \cup {id} /\ active_layer' = id
      /\ layer_stack' = Activated(id, layer_stack).stack /\ msgs' = Activated(id, layer_stack).msgs
      /\ windows'[t] = windows[t] \cup {id} /\ \A u \in Tasks : u # t => windows'[u] = windows[u]
  BY <1>0, <1>1, <1>3 DEF Types
<1>6. System' = System /\ \A u \in Tasks : pc[u] \notin {"new", "insert"} \cup Activating
  BY <1>1 DEF System, Still, Starting, Activating
<1>7. /\ DOMAIN layer_task_map' = DOMAIN layer_task_map \cup {id} /\ layer_task_map'[id] = t
      /\ \A l \in DOMAIN layer_task_map : l # id => layer_task_map'[l] = layer_task_map[l]
  BY <1>1, <1>3 DEF With
<1>8. /\ Ordered(layer_stack') /\ Elements(layer_stack') = Elements(layer_stack) \cup {id}
      /\ layer_stack'[1] = Background /\ layer_stack'[Len(layer_stack') - 1] = id
      /\ layer_stack'[Len(layer_stack')] = MouseLayer
  BY <1>4, <1>5, ActivatedStack
<1>9. /\ msgs' \in [Tasks -> Seq(Message)]
      /\ \A u \in Tasks : pc[u] \notin {"sub", "finished"} => OnlyCloses(msgs'[u], OwnLayers(u))
      /\ \A u \in Tasks \ commanded : pc[u] # "finished" =>
           Says(msgs'[u], window_isactive[u], FALSE)
  BY <1>4, <1>5, ActivatedMessages
<1>10. undefined' = undefined
  <2>1. active_layer \in layers \cup {0}
    BY <1>0 DEF ActiveSound, MapSound
  <2> QED BY <2>1, <1>1 DEF ActivateFault
<1>11. Types'
  <2>1. id \in 1 .. id /\ 1 .. latest_id \subseteq 1 .. id /\ 0 .. latest_id \subseteq 0 .. id
    BY <1>0, <1>3 DEF Types, MouseLayer
  <2>2. \A i \in Nat : i <= latest_id => i <= id
    BY <1>0, <1>3 DEF Types
  <2>3. latest_id' = id /\ id >= MouseLayer
    BY <1>0, <1>1, <1>3 DEF Types, MouseLayer
  <2>4. layers' \subseteq 1 .. id /\ clock \in 0 .. id
    BY <1>0, <1>5, <2>1 DEF Types
  <2>5. /\ windows' \in [Tasks -> SUBSET Nat]
        /\ \A u \in Tasks : window[u] <= id /\ windows'[u] \subseteq 1 .. id
    BY <1>0, <1>1, <1>3, <1>5, <2>1, <2>2 DEF Types
  <2>6. layer_stack' \in Seq(Nat) /\ active_layer' \in Nat
    BY <1>3, <1>5, <1>8 DEF Ordered
  <2> QED BY <1>0, <1>1, <1>9, <1>10, <2>3, <2>4, <2>5, <2>6 DEF Types
<1>12. OneStarts'
  BY <1>0, <1>1 DEF Types, OneStarts, Starting, Activating
<1>13. StackSound'
  <2>1. \A u \in Tasks : pc[u] # "raise"
    BY <1>6 DEF Activating
  <2>2. /\ Elements(layer_stack') \subseteq layers'
        /\ {Background, ConsoleLayer, MouseLayer} \subseteq Elements(layer_stack')
        /\ Elements(layer_stack') \ System \subseteq DOMAIN layer_task_map'
    BY <1>0, <1>5, <1>7, <1>8 DEF StackSound
  <2> QED BY <1>1, <1>5, <1>6, <1>8, <2>1, <2>2 DEF StackSound
<1>14. ActiveSound'
  BY <1>1, <1>5, <1>6, <1>7 DEF ActiveSound, Activating
<1>15. WindowsSound'
  <2>1. \A u \in Tasks : windows'[u] \cap System = {} /\ (u \notin commanded => windows'[u] = {})
    BY <1>0, <1>1, <1>4, <1>5 DEF WindowsSound
  <2>2. \A u, v \in Tasks : window[v] \notin windows'[u]
    BY <1>0, <1>4, <1>5 DEF WindowsSound
  <2>3. \A u \in Tasks : Living(u) => window[u] \in layers'
    BY <1>0, <1>5 DEF WindowsSound
  <2> QED BY <1>0, <1>1, <1>6, <2>1, <2>2, <2>3 DEF WindowsSound, Living
<1>16. MapSound'
  <2>1. DOMAIN layer_task_map' \subseteq layers' \ System
    BY <1>0, <1>4, <1>5, <1>7 DEF MapSound
  <2>2. ASSUME NEW l \in DOMAIN layer_task_map'
        PROVE  /\ layer_task_map'[l] \in Tasks
               /\ layer_task_map'[l] \notin commanded => window[layer_task_map'[l]] = l
               /\ \A u \in Tasks : window[u] = l =>
                    layer_task_map'[l] = u \/ pc[layer_task_map'[l]] \in {"sub", "finished"}
    <3>1. CASE l = id
      BY <3>1, <1>1, <1>4, <1>7
    <3>2. CASE l # id
      <4>1. l \in DOMAIN layer_task_map /\ layer_task_map'[l] = layer_task_map[l]
        BY <3>2, <1>7
      <4> QED BY <4>1, <1>0 DEF MapSound
    <3> QED BY <3>1, <3>2
  <2>3. \A u \in Tasks : \A l \in windows'[u] \cap layers' :
          l \in DOMAIN layer_task_map' /\ layer_task_map'[l] = u
    <3> SUFFICES ASSUME NEW u \in Tasks, NEW l \in windows'[u] \cap layers'
                 PROVE  l \in DOMAIN layer_task_map' /\ layer_task_map'[l] = u
      OBVIOUS
    <3>1. CASE l = id
      BY <3>1, <1>4, <1>5, <1>7
    <3>2. CASE l # id
      <4>1. l \in windows[u] \cap layers
        BY <3>2, <1>5
      <4> QED BY <4>1, <3>2, <1>0, <1>7 DEF MapSound
    <3> QED BY <3>1, <3>2
  <2>4. \A u \in Tasks :
          Mapped(u) => window[u] \in DOMAIN layer_task_map' /\ layer_task_map'[window[u]] = u
    BY <1>0, <1>4, <1>7 DEF MapSound
  <2> QED BY <1>1, <1>6, <2>1, <2>2, <2>3, <2>4 DEF MapSound, Mapped
<1>17. ChildrenSound'
  BY <1>0, <1>1 DEF Types, ChildrenSound, Activating
<1>18. ClosesSound'
  <2>1. \A u \in Tasks : OwnLayers(u) \subseteq OwnLayers(u)'
    <3>1. 1 .. latest_id \subseteq 1 .. id
      BY <1>0, <1>3 DEF Types
    <3> QED BY <1>1, <1>5, <1>6, <3>1 DEF OwnLayers
  <2> SUFFICES ASSUME NEW u \in Tasks, pc[u] \notin {"sub", "finished"}
               PROVE  OnlyCloses(msgs'[u], OwnLayers(u)')
    BY <1>1 DEF ClosesSound
  <2> QED BY <2>1, <1>9, ClosesMore
<1>19. ToldSound'
  <2>1. \A u \in Tasks : ~Focused(u)'
    BY <1>1, <1>4, <1>5 DEF Focused
  <2> QED BY <2>1, <1>1, <1>9 DEF ToldSound
<1> QED BY <1>11, <1>12, <1>13, <1>14, <1>15, <1>16, <1>17, <1>18, <1>19 DEF IInv

\* CloseLayer takes a layer from the stack, the map and the focus at once, whether its task
\* finishes with it or goes on.
LEMMA CloseKeeps ==
  ASSUME IInv, Still, NEW F \in SUBSET Tasks, NEW id \in (Nat \ {0}) \ System,
         \A u \in Tasks \ F : window[u] # id, CloseLayer(id, F),
         pc' = [u \in Tasks |-> IF u \in F THEN "finished" ELSE pc[u]],
         windows' \in [Tasks -> SUBSET Nat], \A u \in Tasks : windows'[u] \subseteq windows[u],
         UNCHANGED <<clock, window, window_isactive, child, commanded>>
  PROVE  IInv'
<1>0. /\ Types /\ OneStarts /\ StackSound /\ ActiveSound /\ WindowsSound
      /\ MapSound /\ ChildrenSound /\ ClosesSound /\ ToldSound
  BY DEF IInv
<1>1. /\ \A u \in Tasks : pc'[u] = IF u \in F THEN "finished" ELSE pc[u]
      /\ pc' \in [Tasks -> Places]
  BY <1>0 DEF Types, Places
<1>2. \A u \in Tasks : pc[u] \notin {"new", "insert"} \cup Activating
  BY DEF Still, Starting
<1>3. System' = System /\ \A u \in Tasks : OwnLayers(u)' = OwnLayers(u) \/ latest_id' # latest_id
  BY OwnKept DEF System
<1>4. latest_id' = latest_id
  BY DEF CloseLayer, manager
<1>5. /\ layers' \subseteq layers /\ layers \ {id} \subseteq layers'
      /\ DOMAIN layer_task_map' = DOMAIN layer_task_map \ {id}
      /\ \A l \in DOMAIN layer_task_map' : layer_task_map'[l] = layer_task_map[l]
      /\ active_layer' = active_layer \/ active_layer' = 0
      /\ active_layer' # id /\ undefined' = undefined
  <2>1. CASE id \notin layers
    <3>1. UNCHANGED <<layers, layer_task_map, active_layer, undefined>>
      BY <2>1 DEF CloseLayer, manager, focus
    <3>2. id \notin DOMAIN layer_task_map
      BY <2>1, <1>0 DEF MapSound
    <3>3. active_layer # id
      <4>1. CASE active_layer = 0
        BY <4>1
      <4>2. CASE active_layer # 0
        BY <4>2, <3>2, <1>0 DEF ActiveSound
      <4> QED BY <4>1, <4>2
    <3> QED BY <3>1, <3>2, <3>3
  <2>2. CASE id \in layers
    <3>1. /\ active_layer' = Activated(0, layer_stack).active /\ layers' = layers \ {id}
          /\ layer_task_map' = Without(layer_task_map, id)
          /\ undefined' = undefined \cup ActivateFault(0)
      BY <2>2 DEF CloseLayer
    <3>2. active_layer' = 0
      BY <3>1 DEF Activated
    <3>3. ActivateFault(0) = {}
      BY <1>0 DEF ActivateFault, ActiveSound, MapSound
    <3>4. id # 0
      BY <2>2, <1>0 DEF Types
    <3> QED BY <3>1, <3>2, <3>3, <3>4 DEF Without
  <2> QED BY <2>1, <2>2
<1>6. /\ Ordered(layer_stack) /\ layer_stack[1] = Background
      /\ layer_stack[Len(layer_stack)] = MouseLayer
  BY <1>0, <1>2 DEF StackSound, Activating
<1>7. /\ Ordered(layer_stack') /\ Elements(layer_stack') = Elements(layer_stack) \ {id}
      /\ layer_stack'[1] = Background /\ layer_stack'[Len(layer_stack')] = MouseLayer
      /\ active_layer' # 0 => layer_stack'[Len(layer_stack') - 1] = active_layer'
  <2>1. CASE id \notin layers
    <3>1. UNCHANGED <<layer_stack, active_layer>>
      BY <2>1 DEF CloseLayer, manager, focus
    <3>2. id \notin Elements(layer_stack)
      BY <2>1, <1>0 DEF StackSound
    <3> QED BY <3>1, <3>2, <1>0, <1>2, <1>6 DEF StackSound, Activating
  <2>2. CASE id \in layers
    <3>1. layer_stack' = Erase(layer_stack, id) /\ active_layer' = 0
      BY <2>2 DEF CloseLayer, Activated
    <3>2. CASE id \notin Elements(layer_stack)
      BY <3>1, <3>2, <1>6 DEF Erase
    <3>3. CASE id \in Elements(layer_stack)
      <4>1. /\ DOMAIN layer_stack = 1 .. Len(layer_stack)
            /\ Len(layer_stack) \in Nat /\ Len(layer_stack) >= 3
        BY <1>0, StackIsLong
      <4>2. PICK n \in Nat : n = Len(layer_stack) /\ n >= 3
        BY <4>1
      <4>3. PICK k \in 1 .. n : layer_stack[k] = id
        BY <3>3, <4>1, <4>2 DEF Elements
      <4>4. k # 1 /\ k # n
        BY <4>2, <4>3, <1>6 DEF System
      <4>5. /\ Ordered(layer_stack') /\ Len(layer_stack') = n - 1
            /\ \A i \in 1 .. (n - 1) :
                 layer_stack'[i] = IF i < k THEN layer_stack[i] ELSE layer_stack[i + 1]
            /\ Elements(layer_stack') = Elements(layer_stack) \ {id}
        BY <3>1, <4>2, <4>3, <1>6, EraseAt
      <4>6. /\ 1 \in 1 .. (n - 1) /\ 1 < k /\ n - 1 \in 1 .. (n - 1) /\ ~(n - 1 < k)
            /\ (n - 1) + 1 = n
        BY <4>2, <4>4
      <4>7. layer_stack'[1] = layer_stack[1] /\ layer_stack'[n - 1] = layer_stack[n]
        BY <4>5, <4>6
      <4> QED BY <4>2, <4>5, <4>7, <3>1, <1>6
    <3> QED BY <3>2, <3>3
  <2> QED BY <2>1, <2>2
<1>8. /\ msgs' \in [Tasks -> Seq(Message)]
      /\ \A u \in Tasks \ F : pc[u] \notin {"sub", "finished"} =>
           OnlyCloses(msgs'[u], OwnLayers(u))
      /\ \A u \in Tasks \ (F \cup commanded) : pc[u] # "finished" =>
           /\ Focused(u)' => Says(msgs'[u], window_isactive[u], TRUE)
           /\ ~Focused(u)' => Says(msgs'[u], window_isactive[u], FALSE)
  <2>1. CASE id \notin layers
    <3>1. msgs' = Freed(msgs, F) /\ active_layer' = active_layer
      BY <2>1 DEF CloseLayer, focus
    <3>2. msgs \in [Tasks -> Seq(Message)]
      BY <1>0 DEF Types
    <3>3. msgs' \in [Tasks -> Seq(Message)] /\ \A u \in Tasks \ F : msgs'[u] = msgs[u]
      BY <3>1, <3>2 DEF Freed
    <3>4. \A u \in Tasks \ F : Focused(u)' <=> Focused(u)
      BY <3>1, <1>1, <1>2 DEF Focused, Activating
    <3> QED BY <3>3, <3>4, <1>0 DEF ClosesSound, ToldSound
  <2>2. CASE id \in layers
    <3> DEFINE m == Activated(0, layer_stack).msgs
    <3>1. msgs' = Freed(m, F) /\ active_layer' = 0
      BY <2>2 DEF CloseLayer, Activated
    <3>2. \A u \in Tasks : ~Focused(u)' /\ ~(pc[u] = "loop" /\ 0 = window[u])
      <4>1. \A u \in Tasks : pc[u] = "loop" => window[u] # 0
        BY <1>0 DEF WindowsSound, Living, Types
      <4> QED BY <4>1, <3>1, <1>1 DEF Focused
    <3>3. /\ m \in [Tasks -> Seq(Message)]
          /\ \A u \in Tasks : pc[u] \notin {"sub", "finished"} => OnlyCloses(m[u], OwnLayers(u))
          /\ \A u \in Tasks \ commanded :
               pc[u] # "finished" => Says(m[u], window_isactive[u], FALSE)
      BY <3>2, ActivatedMessages
    <3> HIDE DEF m
    <3>4. msgs' \in [Tasks -> Seq(Message)] /\ \A u \in Tasks \ F : msgs'[u] = m[u]
      BY <3>1, <3>3 DEF Freed
    <3> QED BY <3>2, <3>3, <3>4
  <2> QED BY <2>1, <2>2
<1>11. Types'
  <2>1. layers' \subseteq 1 .. latest_id /\ active_layer' \in Nat
    BY <1>0, <1>5 DEF Types
  <2>2. layer_stack' \in Seq(Nat)
    BY <1>7 DEF Ordered
  <2>3. \A u \in Tasks : windows'[u] \subseteq 1 .. latest_id
    BY <1>0 DEF Types
  <2> QED BY <2>1, <2>2, <2>3, <1>0, <1>1, <1>4, <1>5, <1>8 DEF Types
<1>12. OneStarts'
  BY <1>1, <1>2 DEF OneStarts, Starting, Activating
<1>13. StackSound'
  <2>1. \A u \in Tasks : pc'[u] # "raise"
    BY <1>1, <1>2 DEF Activating
  <2>2. /\ Elements(layer_stack') \subseteq layers'
        /\ Elements(layer_stack') \ System \subseteq DOMAIN layer_task_map'
    BY <1>0, <1>5, <1>7 DEF StackSound
  <2>3. {Background, ConsoleLayer, MouseLayer} \subseteq Elements(layer_stack')
    BY <1>0, <1>7 DEF StackSound, System
  <2> QED BY <1>3, <1>7, <2>1, <2>2, <2>3 DEF StackSound
<1>14. ActiveSound'
  BY <1>0, <1>1, <1>2, <1>5 DEF ActiveSound, Activating
<1>15. WindowsSound'
  <2>1. \A u \in Tasks : Living(u)' => window[u] \in layers'
    <3> SUFFICES ASSUME NEW u \in Tasks, Living(u)'
                 PROVE  window[u] \in layers'
      OBVIOUS
    <3>1. u \notin F /\ Living(u)
      BY <1>1 DEF Living, Activating
    <3> QED BY <3>1, <1>0, <1>5 DEF WindowsSound
  <2>2. \A u \in Tasks : pc'[u] \in {"none", "new"} => pc[u] \in {"none", "new"}
    BY <1>1
  <2> QED BY <1>0, <1>3, <2>1, <2>2 DEF WindowsSound, Living
<1>16. MapSound'
  <2>1. DOMAIN layer_task_map' \subseteq layers' \ System
    BY <1>0, <1>5 DEF MapSound
  <2>2. \A l \in DOMAIN layer_task_map' :
          /\ layer_task_map'[l] \in Tasks
          /\ layer_task_map'[l] \notin commanded => window[layer_task_map'[l]] = l
          /\ \A u \in Tasks : window[u] = l =>
               layer_task_map'[l] = u \/ pc'[layer_task_map'[l]] \in {"sub", "finished"}
    BY <1>0, <1>1, <1>5 DEF MapSound
  <2>3. ASSUME NEW u \in Tasks, NEW l \in windows'[u] \cap layers'
        PROVE  l \in DOMAIN layer_task_map' /\ layer_task_map'[l] = u
    <3>1. l \in DOMAIN layer_task_map /\ layer_task_map[l] = u
      BY <1>0, <1>5 DEF MapSound
    <3>2. l # id
      <4>1. CASE id \notin layers
        BY <4>1, <1>5
      <4>2. CASE id \in layers
        <5>1. layers' = layers \ {id}
          BY <4>2 DEF CloseLayer
        <5> QED BY <5>1
      <4> QED BY <4>1, <4>2
    <3> QED BY <3>1, <3>2, <1>5
  <2>4. ASSUME NEW u \in Tasks, Mapped(u)'
        PROVE  window[u] \in DOMAIN layer_task_map' /\ layer_task_map'[window[u]] = u
    <3>1. u \notin F /\ Mapped(u)
      BY <2>4, <1>1 DEF Mapped, Activating
    <3>2. window[u] \in DOMAIN layer_task_map /\ layer_task_map[window[u]] = u
      BY <3>1, <1>0 DEF MapSound
    <3> QED BY <3>1, <3>2, <1>5
  <2>5. \A u \in Tasks : pc'[u] # "insert"
    BY <1>1, <1>2
  <2> QED BY <1>3, <2>1, <2>2, <2>3, <2>4, <2>5 DEF MapSound
<1>17. ChildrenSound'
  <2>1. \A u \in Tasks : pc[u] \in {"sub", "finished"} => pc'[u] \in {"sub", "finished"}
    BY <1>1
  <2>2. \A u \in Tasks : child[u] # NoTask => child[u] \in Tasks
    BY <1>0 DEF Types
  <2> QED BY <2>1, <2>2, <1>0, <1>1 DEF ChildrenSound, Activating
<1>18. ClosesSound'
  <2> SUFFICES ASSUME NEW u \in Tasks, pc'[u] \notin {"sub", "finished"}
               PROVE  OnlyCloses(msgs'[u], OwnLayers(u)')
    BY DEF ClosesSound
  <2>1. u \notin F /\ pc[u] \notin {"sub", "finished"}
    BY <1>1
  <2> QED BY <2>1, <1>3, <1>4, <1>8
<1>19. ToldSound'
  <2> SUFFICES ASSUME NEW u \in Tasks \ commanded, pc'[u] # "finished"
               PROVE  /\ Focused(u)' => Says(msgs'[u], window_isactive[u], TRUE)
                      /\ ~Focused(u)' => Says(msgs'[u], window_isactive[u], FALSE)
    BY DEF ToldSound
  <2>1. u \notin F /\ pc[u] # "finished"
    BY <1>1
  <2> QED BY <2>1, <1>8
<1> QED BY <1>11, <1>12, <1>13, <1>14, <1>15, <1>16, <1>17, <1>18, <1>19 DEF IInv

\* An application closes one of its own windows.
LEMMA CloseWindowKeeps ==
  ASSUME IInv, Still, NEW t \in Tasks, CloseWindow(t)
  PROVE  IInv'
<1>0. Types /\ WindowsSound
  BY DEF IInv
<1>1. PICK id \in windows[t] : CloseLayer(id, {}) /\ windows' = [windows EXCEPT ![t] = @ \ {id}]
  BY DEF CloseWindow
<1>2. UNCHANGED <<clock, pc, window, window_isactive, child, commanded>>
  BY DEF CloseWindow
<1>3. id \in (Nat \ {0}) \ System /\ \A u \in Tasks \ {} : window[u] # id
  BY <1>0 DEF Types, WindowsSound
<1>4. windows' \in [Tasks -> SUBSET Nat] /\ \A u \in Tasks : windows'[u] \subseteq windows[u]
  BY <1>0, <1>1 DEF Types
<1>5. pc' = [u \in Tasks |-> IF u \in {} THEN "finished" ELSE pc[u]]
  BY <1>0, <1>2 DEF Types
<1> QED BY <1>1, <1>2, <1>3, <1>4, <1>5, CloseKeeps

\* A terminal closes the layer it was asked to, which is no other terminal's window.
LEMMA ReceiveCloseKeeps ==
  ASSUME IInv, Still, NEW t \in Tasks, ReceiveClose(t)
  PROVE  IInv'
<1>0. Types /\ ClosesSound
  BY DEF IInv
<1>1. /\ pc[t] = "loop" /\ msgs[t] # << >> /\ Head(msgs[t]).type = "WindowClose"
      /\ CloseLayer(Head(msgs[t]).arg, {t}) /\ pc' = [pc EXCEPT ![t] = "finished"]
      /\ UNCHANGED <<clock, window, window_isactive, child, windows, commanded>>
  BY DEF ReceiveClose, Receiving, Go, KeepTerminal
<1>2. Head(msgs[t]).arg \in OwnLayers(t)
  <2>1. OnlyCloses(msgs[t], OwnLayers(t)) /\ msgs[t] \in Seq(Message)
    BY <1>0, <1>1 DEF ClosesSound, Types
  <2>2. Head(msgs[t]) = msgs[t][1] /\ 1 \in 1 .. Len(msgs[t])
    BY <2>1, <1>1
  <2> QED BY <2>1, <2>2, <1>1 DEF OnlyCloses
<1>3. PICK id \in Nat : id = Head(msgs[t]).arg
  BY <1>2 DEF OwnLayers
<1>4. id \in (Nat \ {0}) \ System /\ \A u \in Tasks \ {t} : window[u] # id
  BY <1>2, <1>3 DEF OwnLayers
<1>5. pc' = [u \in Tasks |-> IF u \in {t} THEN "finished" ELSE pc[u]]
  BY <1>0, <1>1 DEF Types
<1>6. windows' \in [Tasks -> SUBSET Nat] /\ \A u \in Tasks : windows'[u] \subseteq windows[u]
  BY <1>0, <1>1 DEF Types
<1>7. CloseLayer(id, {t}) /\ {t} \in SUBSET Tasks
  BY <1>1, <1>3
<1> QED BY <1>1, <1>4, <1>5, <1>6, <1>7, CloseKeeps

\* A click gives the focus to a window that is there, or takes it away; its message goes to
\* the task that owns the window.
LEMMA PressButtonKeeps ==
  ASSUME IInv, Still, NEW l \in Elements(layer_stack) \ {MouseLayer},
         NEW region \in WindowRegion, PressButton(l, region)
  PROVE  IInv'
<1>0. /\ Types /\ OneStarts /\ StackSound /\ ActiveSound /\ WindowsSound
      /\ MapSound /\ ChildrenSound /\ ClosesSound /\ ToldSound
  BY DEF IInv
<1>1. PICK target \in Nat : target = IF l \in System THEN 0 ELSE l
  <2>1. l \in Nat
    <3>1. l \in Elements(layer_stack)
      OBVIOUS
    <3>2. l \in layers
      BY <3>1, <1>0 DEF StackSound
    <3>3. layers \subseteq Nat
      BY <1>0 DEF Types
    <3> QED BY <3>2, <3>3
  <2>2. (IF l \in System THEN 0 ELSE l) \in Nat
    BY <2>1
  <2> QED BY <2>2
<1> DEFINE a == Activated(target, layer_stack)
<1>2. /\ active_layer' = a.active /\ layer_stack' = a.stack
      /\ undefined' = undefined \cup ActivateFault(target)
      /\ msgs' = IF drag_layer_id' # 0 THEN a.msgs
                 ELSE Input(a.msgs, a.active,
                            IF region = "close" THEN WindowClose(a.active) ELSE MouseEvent)
      /\ UNCHANGED <<layers, latest_id, layer_task_map, clock, pc, window, window_isactive,
                     child, windows, commanded>>
  BY <1>1 DEF PressButton, terminal
<1>3. target # 0 => /\ target \in DOMAIN layer_task_map /\ target \in layers
                    /\ target \notin System /\ target \in Elements(layer_stack)
  BY <1>0, <1>1 DEF StackSound
<1>4. System' = System /\ \A u \in Tasks : OwnLayers(u)' = OwnLayers(u)
  BY <1>2, OwnKept DEF System
<1>5. \A u \in Tasks : pc[u] \notin {"new", "insert"} \cup Activating
  BY DEF Still, Starting
<1>6. active_layer' = target
  <2>1. a.active = target
    BY DEF Activated
  <2> QED BY <2>1, <1>2
<1>7. /\ Ordered(layer_stack') /\ Elements(layer_stack') = Elements(layer_stack)
      /\ layer_stack'[1] = Background /\ layer_stack'[Len(layer_stack')] = MouseLayer
      /\ target # 0 => layer_stack'[Len(layer_stack') - 1] = target
  <2>1. CASE target = 0
    <3>1. layer_stack' = layer_stack
      BY <1>2, <2>1 DEF Activated
    <3> QED BY <2>1, <3>1, <1>0, <1>5 DEF StackSound, Activating
  <2>2. CASE target # 0
    <3>1. /\ Ordered(a.stack) /\ Elements(a.stack) = Elements(layer_stack) \cup {target}
          /\ a.stack[1] = Background /\ a.stack[Len(a.stack) - 1] = target
          /\ a.stack[Len(a.stack)] = MouseLayer
      BY <2>2, <1>3, ActivatedStack
    <3>2. Elements(layer_stack) \cup {target} = Elements(layer_stack)
      BY <2>2, <1>3
    <3> HIDE DEF a
    <3> QED BY <3>1, <3>2, <1>2
  <2> QED BY <2>1, <2>2
<1> DEFINE m == a.msgs
<1>8. /\ m \in [Tasks -> Seq(Message)]
      /\ \A u \in Tasks : pc[u] \notin {"sub", "finished"} => OnlyCloses(m[u], OwnLayers(u))
      /\ \A u \in Tasks \ commanded : pc[u] # "finished" =>
           /\ pc[u] = "loop" /\ target = window[u] => Says(m[u], window_isactive[u], TRUE)
           /\ ~(pc[u] = "loop" /\ target = window[u]) => Says(m[u], window_isactive[u], FALSE)
  BY ActivatedMessages
<1>9. PICK x \in Message :
        /\ msgs' = m \/ Appended(m, msgs', layer_task_map, target, x)
        /\ x.type # "WindowActive" /\ (x.type = "WindowClose" => x.arg = target)
  <2>1. PICK x \in Message :
          /\ x = IF region = "close" THEN WindowClose(target) ELSE MouseEvent
          /\ x.type # "WindowActive" /\ (x.type = "WindowClose" => x.arg = target)
    BY MessageTypes DEF WindowClose, MouseEvent
  <2>2. msgs' = m \/ msgs' = Input(m, target, x)
    BY <1>2, <1>6, <2>1
  <2>3. MapsToTasks(layer_task_map)
    BY <1>0 DEF MapSound, MapsToTasks
  <2> HIDE DEF m
  <2>4. Appended(m, Input(m, target, x), layer_task_map, target, x)
    BY <2>3, <1>8, InputAppends
  <2> QED BY <2>1, <2>2, <2>4
<1> HIDE DEF a, m
<1>10. undefined' = undefined
  BY <1>0, <1>2 DEF ActivateFault, ActiveSound, MapSound
<1>11. Types'
  <2>1. layer_stack' \in Seq(Nat) /\ msgs' \in [Tasks -> Seq(Message)]
    BY <1>7, <1>8, <1>9 DEF Ordered, Appended
  <2> QED BY <2>1, <1>0, <1>2, <1>6, <1>10 DEF Types
<1>12. OneStarts'
  BY <1>0, <1>2 DEF OneStarts, Starting
<1>13. StackSound'
  <2>1. \A u \in Tasks : pc[u] # "raise"
    BY <1>5 DEF Activating
  <2> QED BY <2>1, <1>0, <1>2, <1>4, <1>6, <1>7 DEF StackSound
<1>14. ActiveSound'
  BY <1>2, <1>3, <1>5, <1>6 DEF ActiveSound, Activating
<1>15. WindowsSound'
  BY <1>0, <1>2, <1>4 DEF WindowsSound, Living
<1>16. MapSound'
  BY <1>0, <1>2, <1>4 DEF MapSound, Mapped
<1>17. ChildrenSound'
  BY <1>0, <1>2 DEF ChildrenSound
<1>18. ClosesSound'
  <2> SUFFICES ASSUME NEW u \in Tasks, pc[u] \notin {"sub", "finished"}
               PROVE  OnlyCloses(msgs'[u], OwnLayers(u))
    BY <1>2, <1>4 DEF ClosesSound
  <2>1. m[u] \in Seq(Message) /\ OnlyCloses(m[u], OwnLayers(u))
    BY <1>8
  <2>2. CASE msgs'[u] = m[u]
    BY <2>1, <2>2
  <2>3. CASE msgs'[u] # m[u]
    <3>1. /\ target \in DOMAIN layer_task_map /\ layer_task_map[target] = u
          /\ msgs'[u] = Append(m[u], x)
      BY <2>3, <1>9 DEF Appended
    <3>2. target \in 1 .. latest_id /\ target \notin System
      BY <3>1, <1>0 DEF MapSound, Types
    <3>3. \A v \in Tasks \ {u} : window[v] # target
      BY <3>1, <1>0 DEF MapSound
    <3>4. target \in OwnLayers(u)
      BY <3>2, <3>3 DEF OwnLayers
    <3> QED BY <3>1, <3>4, <2>1, <1>9, AppendCloses
  <2> QED BY <2>2, <2>3
<1>19. ToldSound'
  <2> SUFFICES ASSUME NEW u \in Tasks \ commanded, pc[u] # "finished"
               PROVE  /\ Focused(u)' => Says(msgs'[u], window_isactive[u], TRUE)
                      /\ ~Focused(u)' => Says(msgs'[u], window_isactive[u], FALSE)
    BY <1>2 DEF ToldSound
  <2>1. Focused(u)' <=> (pc[u] = "loop" /\ target = window[u])
    BY <1>2, <1>5, <1>6 DEF Focused, Activating
  <2>2. /\ Focused(u)' => Says(m[u], window_isactive[u], TRUE)
        /\ ~Focused(u)' => Says(m[u], window_isactive[u], FALSE)
        /\ m[u] \in Seq(Message)
    BY <2>1, <1>8
  <2>3. /\ Says(m[u], window_isactive[u], TRUE) => Says(Append(m[u], x), window_isactive[u], TRUE)
        /\ Says(m[u], window_isactive[u], FALSE) => Says(Append(m[u], x), window_isactive[u], FALSE)
    BY <2>2, <1>9, AppendSaysSame
  <2>4. msgs'[u] = m[u] \/ msgs'[u] = Append(m[u], x)
    BY <1>9 DEF Appended
  <2> QED BY <2>2, <2>3, <2>4
<1> QED BY <1>11, <1>12, <1>13, <1>14, <1>15, <1>16, <1>17, <1>18, <1>19 DEF IInv

-----------------------------------------------------------------------------
(* The specification. *)

\* At first there is no window, and nobody has the focus.
LEMMA InitSound ==
  ASSUME Init
  PROVE  IInv
<1>1. layer_stack = <<1, 2, 3>> /\ layers = {1, 2, 3} /\ DOMAIN layer_task_map = {}
  BY DEF Init, Background, ConsoleLayer, MouseLayer
<1>2. /\ layer_stack \in Seq(Nat) /\ Len(layer_stack) = 3 /\ DOMAIN layer_stack = 1 .. 3
      /\ layer_stack[1] = 1 /\ layer_stack[2] = 2 /\ layer_stack[3] = 3
  BY <1>1
<1>3. Elements(layer_stack) = {1, 2, 3}
  <2>1. 1 .. 3 = {1, 2, 3}
    OBVIOUS
  <2> QED BY <2>1, <1>2 DEF Elements
<1>4. Ordered(layer_stack)
  BY <1>2 DEF Ordered
<1>5. Types
  <2>1. << >> \in Seq(Message)
    OBVIOUS
  <2>2. /\ msgs \in [Tasks -> Seq(Message)] /\ windows \in [Tasks -> SUBSET Nat]
        /\ window \in [Tasks -> Nat] /\ window_isactive \in [Tasks -> BOOLEAN]
        /\ child \in [Tasks -> Tasks \cup {NoTask}] /\ pc \in [Tasks -> Places]
    BY <2>1 DEF Init, Places
  <2>3. latest_id = 3 /\ layers \subseteq 1 .. 3
    BY <1>1 DEF Init, MouseLayer
  <2> QED BY <2>2, <2>3, <1>2 DEF Init, Types, MouseLayer
<1>6. OneStarts /\ ActiveSound /\ ChildrenSound
  BY DEF Init, OneStarts, Starting, ActiveSound, ChildrenSound, Activating
<1>7. StackSound
  BY <1>1, <1>2, <1>3, <1>4
     DEF Init, StackSound, System, Background, ConsoleLayer, MouseLayer
<1>8. WindowsSound
  BY DEF Init, WindowsSound, Living, Activating
<1>9. MapSound
  BY <1>1 DEF Init, MapSound, Mapped, Activating
<1>10. ClosesSound
  BY DEF Init, ClosesSound, OnlyCloses
<1>11. ToldSound
  <2>1. Says(<< >>, FALSE, FALSE)
    BY DEF Says
  <2>2. \A t \in Tasks : ~Focused(t) /\ msgs[t] = << >> /\ window_isactive[t] = FALSE
    BY DEF Init, Focused
  <2> QED BY <2>1, <2>2 DEF ToldSound
<1> QED BY <1>5, <1>6, <1>7, <1>8, <1>9, <1>10, <1>11 DEF IInv

\* Every step keeps the invariant.
LEMMA NextKeeps ==
  ASSUME Patient, IInv, [Next]_vars
  PROVE  IInv'
<1>1. ASSUME NEW t \in Tasks, StartTerminal(t)
      PROVE  IInv'
  BY <1>1, NewTerminalKeeps, ConstructKeeps, InsertMapKeeps, DeactivateKeeps, SetActiveKeeps,
     LowerActiveKeeps, RaiseActiveKeeps, TellActiveKeeps DEF StartTerminal
<1>2. Quiet => Still
  BY DEF Quiet, Still
<1>3. ASSUME NEW t \in Tasks, TerminalLoop(t)
      PROVE  IInv'
  <2>1. CASE ReceiveActive(t) \/ Execute(t) \/ AssignMap(t) \/ ReapPipe(t)
    BY <2>1, ReceiveActiveKeeps, ExecuteKeeps, AssignMapKeeps, ReapPipeKeeps
  <2>2. CASE ReceiveMouse(t) \/ ReceiveKey(t)
    BY <2>2, ReceiveOtherKeeps
  <2>3. CASE \E s \in Tasks : ExecutePipe(t, s)
    BY <2>3, ExecutePipeKeeps
  <2>4. CASE ReceiveClose(t)
    <3>1. Quiet
      BY <2>4 DEF ReceiveClose
    <3> QED BY <2>4, <3>1, <1>2, ReceiveCloseKeeps
  <2> QED BY <1>3, <2>1, <2>2, <2>3, <2>4 DEF TerminalLoop
<1>4. ASSUME NEW t \in Tasks, Application(t)
      PROVE  IInv'
  <2>1. CASE OpenWindow(t) \/ CloseWindow(t)
    <3>1. Quiet
      BY <2>1 DEF OpenWindow, CloseWindow
    <3> QED BY <2>1, <3>1, <1>2, OpenWindowKeeps, CloseWindowKeeps
  <2>2. CASE ReadEvent(t)
    BY <2>2, ReceiveOtherKeeps
  <2>3. CASE ExitApp(t)
    <3>1. pc[t] = "sub" \/ pc[t] = "app"
      BY <2>3 DEF ExitApp, InApp
    <3> QED BY <2>3, <3>1, EndSubtaskKeeps, EndApplicationKeeps
  <2> QED BY <1>4, <2>1, <2>2, <2>3 DEF Application
<1>5. CASE StartClock
  BY <1>5, StartClockKeeps
<1>6. CASE User
  <2>1. CASE MoveMouse \/ ReleaseButton \/ PushKey
    BY <2>1, UserInputKeeps
  <2>2. ASSUME Quiet, NEW l \in Elements(layer_stack) \ {MouseLayer},
               NEW region \in WindowRegion, PressButton(l, region)
        PROVE  IInv'
    BY <2>2, <1>2, PressButtonKeeps
  <2> QED BY <1>6, <2>1, <2>2 DEF User
<1>7. CASE UNCHANGED vars
  <2>1. UNCHANGED <<manager, focus, clock, terminal, msgs, undefined>>
    BY <1>7 DEF vars
  <2>2. KeyPush \in {KeyPush, MouseEvent} /\ undefined' \subseteq undefined \cup {"MoveRelative"}
    BY <2>1
  <2> QED BY <2>1, <2>2, InputKeeps
<1> QED BY <1>1, <1>3, <1>4, <1>5, <1>6, <1>7 DEF Next

\* The parts of the invariant that a user sees.
LEMMA SoundFocus ==
  ASSUME IInv
  PROVE  FocusIsSound
<1>0. /\ Types /\ StackSound /\ ActiveSound /\ MapSound /\ ToldSound
  BY DEF IInv
<1>1. StackOrder
  <2> SUFFICES ASSUME Settled
               PROVE  /\ Elements(layer_stack) \subseteq layers
                      /\ \A i, j \in 1 .. Len(layer_stack) :
                           layer_stack[i] = layer_stack[j] => i = j
                      /\ layer_stack[1] = Background
                      /\ layer_stack[Len(layer_stack)] = MouseLayer
                      /\ active_layer # 0 => layer_stack[Len(layer_stack) - 1] = active_layer
    BY DEF StackOrder
  <2>1. \A t \in Tasks : pc[t] \notin {"bottom", "raise"}
    BY DEF Settled, Activating
  <2> QED BY <2>1, <1>0 DEF StackSound, Ordered
<1>2. FocusIsLive
  BY <1>0 DEF FocusIsLive, Types, ActiveSound, MapSound
<1>3. MapIsExact
  BY <1>0 DEF MapIsExact, MapSound, Mapped
<1>4. CursorShowsFocus
  <2> SUFFICES ASSUME Settled, NEW t \in Tasks \ commanded, pc[t] = "loop", msgs[t] = << >>
               PROVE  window_isactive[t] = (active_layer = window[t])
    BY DEF CursorShowsFocus
  <2>1. Focused(t) <=> active_layer = window[t]
    BY DEF Focused, Settled, Activating
  <2>2. /\ Focused(t) => Says(<< >>, window_isactive[t], TRUE)
        /\ ~Focused(t) => Says(<< >>, window_isactive[t], FALSE)
    BY <1>0 DEF ToldSound
  <2>3. /\ Focused(t) => window_isactive[t] = TRUE
        /\ ~Focused(t) => window_isactive[t] = FALSE
    BY <2>2, EmptySays
  <2> QED BY <2>1, <2>3
<1> QED BY <1>1, <1>2, <1>3, <1>4 DEF FocusIsSound

\* While others wait for a terminal to start (PressButton, OpenWindow and the others are
\* Quiet), the stack, the focus, the map and the cursors agree in every reachable state, for
\* any number of tasks and layers and for queues of any length.
THEOREM FocusStaysSound ==
  ASSUME Patient
  PROVE  Spec => []FocusIsSound
<1>1. Init => IInv
  BY InitSound
<1>2. IInv /\ [Next]_vars => IInv'
  BY NextKeeps
<1>3. IInv => FocusIsSound
  BY SoundFocus
<1> QED BY <1>1, <1>2, <1>3, PTL DEF Spec

\* Under the same condition UpDown never inserts a null pointer into the stack.
THEOREM LayersArePlaced ==
  ASSUME Patient
  PROVE  Spec => []PlacesExistingLayers
<1>1. Init => IInv
  BY InitSound
<1>2. IInv /\ [Next]_vars => IInv'
  BY NextKeeps
<1>3. IInv => PlacesExistingLayers
  BY DEF IInv, Types, PlacesExistingLayers
<1> QED BY <1>1, <1>2, <1>3, PTL DEF Spec

=============================================================================
