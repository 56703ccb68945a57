------------------------- MODULE TaskManagerProofs -------------------------
(* Proofs about TaskManager, for every number of tasks and of levels.       *)
EXTENDS TaskManager, SequenceTheorems, WellFoundedInduction, TLAPS

Top(lvl, r) == {t \in r : \A u \in r : lvl[u] <= lvl[t]}

\* What the run queues satisfy when R is the set of the ready tasks.
Core(s, R) ==
  /\ s \in SchedType
  /\ R \subseteq TaskId /\ Idle \in R
  /\ QueuesHold(s, R)
  /\ s.run[s.cur] # << >>
  /\ NothingAbove(s)

-----------------------------------------------------------------------------
(* The elements of a queue after the operations of std::deque.              *)

\* Only the empty queue holds no task.
LEMMA ElemsEmpty ==
  ASSUME NEW S, NEW q \in Seq(S)
  PROVE  q = << >> <=> Elems(q) = {}
<1>1. Elems(<< >>) = {}
  BY DEF Elems
<1>2. q # << >> => q[1] \in Elems(q)
  BY EmptySeq DEF Elems
<1>. QED BY <1>1, <1>2

\* A task joins the end of a queue.
LEMMA ElemsAppend ==
  ASSUME NEW S, NEW q \in Seq(S), NEW x \in S
  PROVE  /\ Append(q, x) \in Seq(S)
         /\ Elems(Append(q, x)) = Elems(q) \cup {x}
         /\ Distinct(q) /\ x \notin Elems(q) => Distinct(Append(q, x))
<1>1. /\ Append(q, x) \in Seq(S) /\ Len(q) \in Nat
      /\ Len(Append(q, x)) = Len(q) + 1
      /\ \A i \in 1..Len(q) : Append(q, x)[i] = q[i]
      /\ Append(q, x)[Len(q) + 1] = x
  BY AppendProperties
<1>2. Elems(Append(q, x)) = Elems(q) \cup {x}
  <2>1. \A i \in 1..(Len(q) + 1) : i \in 1..Len(q) \/ i = Len(q) + 1
    BY <1>1
  <2>2. \A i \in 1..Len(q) : i \in 1..(Len(q) + 1)
    BY <1>1
  <2>. QED BY <1>1, <2>1, <2>2 DEF Elems
<1>3. ASSUME Distinct(q), x \notin Elems(q) PROVE Distinct(Append(q, x))
  BY <1>1, <1>3 DEF Elems, Distinct
<1>. QED BY <1>1, <1>2, <1>3

\* The first task leaves a queue.
LEMMA ElemsTail ==
  ASSUME NEW S, NEW q \in Seq(S), q # << >>, Distinct(q)
  PROVE  /\ Head(q) \in S /\ Tail(q) \in Seq(S)
         /\ Head(q) \in Elems(q)
         /\ Elems(Tail(q)) = Elems(q) \ {Head(q)}
         /\ Distinct(Tail(q))
<1>1. /\ Head(q) \in S /\ Tail(q) \in Seq(S) /\ Len(q) \in Nat \ {0}
      /\ Len(Tail(q)) = Len(q) - 1 /\ Head(q) = q[1]
      /\ \A i \in 1..(Len(q) - 1) : Tail(q)[i] = q[i + 1]
  BY HeadTailProperties, EmptySeq
<1>2. Elems(Tail(q)) \subseteq Elems(q) \ {Head(q)}
  BY <1>1 DEF Elems, Distinct
<1>3. ASSUME NEW i \in 1..Len(q), q[i] # Head(q) PROVE q[i] \in Elems(Tail(q))
  <2>1. i - 1 \in 1..(Len(q) - 1) /\ Tail(q)[i - 1] = q[i]
    BY <1>1, <1>3
  <2>. QED BY <2>1, <1>1 DEF Elems
<1>4. Elems(q) \ {Head(q)} \subseteq Elems(Tail(q))
  BY <1>3 DEF Elems
<1>5. Distinct(Tail(q))
  BY <1>1 DEF Distinct
<1>6. Head(q) \in Elems(q)
  BY <1>1 DEF Elems
<1>. QED BY <1>1, <1>2, <1>4, <1>5, <1>6

\* A task joins the front of a queue.
LEMMA ElemsPushFront ==
  ASSUME NEW S, NEW q \in Seq(S), NEW x \in S
  PROVE  /\ <<x>> \o q \in Seq(S)
         /\ <<x>> \o q # << >>
         /\ Head(<<x>> \o q) = x
         /\ Elems(<<x>> \o q) = Elems(q) \cup {x}
         /\ Distinct(q) /\ x \notin Elems(q) => Distinct(<<x>> \o q)
<1>. DEFINE r == <<x>> \o q
<1>1. /\ r \in Seq(S) /\ Len(q) \in Nat /\ Len(r) = Len(q) + 1 /\ r[1] = x
      /\ \A i \in 1..Len(q) : r[i + 1] = q[i]
  BY ConcatProperties, <<x>> \in Seq(S), Len(<<x>>) = 1
<1>2. r # << >> /\ Head(r) = x
  BY <1>1
<1>3. Elems(r) = Elems(q) \cup {x}
  <2>1. \A i \in 1..(Len(q) + 1) : i = 1 \/ (i - 1 \in 1..Len(q) /\ r[i] = q[i - 1])
    BY <1>1
  <2>2. \A i \in 1..Len(q) : i + 1 \in 1..(Len(q) + 1)
    BY <1>1
  <2>. QED BY <1>1, <2>1, <2>2 DEF Elems
<1>4. ASSUME Distinct(q), x \notin Elems(q) PROVE Distinct(r)
  BY <1>1, <1>4 DEF Elems, Distinct
<1>. QED BY <1>1, <1>2, <1>3, <1>4

\* A task leaves a queue from wherever it is.
LEMMA ElemsErase ==
  ASSUME NEW S, NEW q \in Seq(S), NEW t, Distinct(q)
  PROVE  /\ Erase(q, t) \in Seq(S)
         /\ Elems(Erase(q, t)) = Elems(q) \ {t}
         /\ Distinct(Erase(q, t))
         /\ q # << >> /\ Head(q) # t => Erase(q, t) # << >> /\ Head(Erase(q, t)) = Head(q)
<1>1. CASE ~ \E i \in 1..Len(q) : q[i] = t
  BY <1>1 DEF Erase, Elems
<1>2. CASE \E i \in 1..Len(q) : q[i] = t
  <2>. DEFINE k == CHOOSE i \in 1..Len(q) : q[i] = t
              a == SubSeq(q, 1, k - 1)
              b == SubSeq(q, k + 1, Len(q))
              r == a \o b
  <2>1. k \in 1..Len(q) /\ q[k] = t /\ Len(q) \in Nat
    BY <1>2
  <2>8. Erase(q, t) = r
    BY <1>2, Zenon DEF Erase
  <2>. HIDE DEF k
  <2>2. /\ a \in Seq(S) /\ Len(a) = k - 1
        /\ \A i \in 1..(k - 1) : a[i] = q[i]
    BY <2>1, SubSeqProperties, \A i \in 1..(k - 1) : q[i] \in S
  <2>3. /\ b \in Seq(S) /\ Len(b) = Len(q) - k
        /\ \A i \in 1..(Len(q) - k) : b[i] = q[k + i]
    BY <2>1, SubSeqProperties, \A i \in (k + 1)..Len(q) : q[i] \in S
  <2>. HIDE DEF a, b
  <2>4. /\ r \in Seq(S) /\ Len(r) = Len(q) - 1
        /\ \A i \in 1..(k - 1) : r[i] = q[i]
        /\ \A i \in k..(Len(q) - 1) : r[i] = q[i + 1]
    <3>1. /\ r \in Seq(S) /\ Len(r) = Len(a) + Len(b)
          /\ \A i \in 1..(Len(a) + Len(b)) :
               r[i] = IF i <= Len(a) THEN a[i] ELSE b[i - Len(a)]
      BY <2>2, <2>3, ConcatProperties
    <3>2. Len(r) = Len(q) - 1
      BY <2>1, <2>2, <2>3, <3>1
    <3>3. ASSUME NEW i \in 1..(k - 1) PROVE r[i] = q[i]
      BY <2>1, <2>2, <2>3, <3>1
    <3>4. ASSUME NEW i \in k..(Len(q) - 1) PROVE r[i] = q[i + 1]
      <4>1. i - (k - 1) \in 1..(Len(q) - k) /\ r[i] = b[i - (k - 1)]
        BY <2>1, <2>2, <2>3, <3>1
      <4>2. k + (i - (k - 1)) = i + 1
        BY <2>1
      <4>. QED BY <2>3, <4>1, <4>2
    <3>. QED BY <3>1, <3>2, <3>3, <3>4
  <2>. HIDE DEF r
  <2>5. Elems(r) \subseteq Elems(q) \ {t}
    <3>. SUFFICES ASSUME NEW i \in 1..Len(r) PROVE r[i] \in Elems(q) \ {t}
      BY DEF Elems
    <3>1. CASE i < k
      BY <2>1, <2>4, <3>1 DEF Elems, Distinct
    <3>2. CASE i >= k
      <4>1. i + 1 \in 1..Len(q) /\ i + 1 # k /\ r[i] = q[i + 1]
        BY <2>1, <2>4, <3>2
      <4>. QED BY <2>1, <4>1 DEF Elems, Distinct
    <3>. QED BY <2>1, <2>4, <3>1, <3>2
  <2>6. ASSUME NEW i \in 1..Len(q), q[i] # t PROVE q[i] \in Elems(r)
    <3>1. CASE i < k
      BY <2>1, <2>4, <3>1 DEF Elems
    <3>2. CASE i > k
      <4>1. i - 1 \in k..(Len(q) - 1) /\ i - 1 \in 1..Len(r) /\ r[i - 1] = q[i]
        BY <2>1, <2>4, <3>2
      <4>. QED BY <4>1 DEF Elems
    <3>. QED BY <2>1, <2>6, <3>1, <3>2
  <2>7. Elems(q) \ {t} \subseteq Elems(r)
    BY <2>6 DEF Elems
  <2>9. Distinct(r)
    BY <2>1, <2>4 DEF Distinct
  <2>10. ASSUME Head(q) # t PROVE r # << >> /\ Head(r) = Head(q)
    <3>1. k # 1 /\ k - 1 >= 1 /\ Len(r) >= 1
      BY <2>1, <2>4, <2>10
    <3>. QED BY <2>4, <3>1
  <2>. QED BY <2>4, <2>5, <2>7, <2>8, <2>9, <2>10
<1>. QED BY <1>1, <1>2

\* If any level has a task, one is the highest that does.
LEMMA HighestExists ==
  ASSUME NEW run, \E lv \in Levels : run[lv] # << >>
  PROVE  \E lv \in Levels : IsHighest(run, lv)
<1>. DEFINE D == {d \in Nat : d <= kMaxLevel /\ run[kMaxLevel - d] # << >>}
<1>1. D # {}
  <2>. PICK lv \in Levels : run[lv] # << >>
    OBVIOUS
  <2>1. kMaxLevel - lv \in D
    <3>1. kMaxLevel - (kMaxLevel - lv) = lv
      BY TaskManagerAssumption DEF Levels
    <3>. QED BY <3>1, TaskManagerAssumption DEF Levels
  <2>. QED BY <2>1
<1>2. PICK d \in D : \A e \in D : ~ (<<e, d>> \in OpToRel(<, Nat))
  BY <1>1, WFMin, NatLessThanWellFounded
<1>3. \A e \in D : ~ (e < d)
  BY <1>2 DEF OpToRel
<1>4. IsHighest(run, kMaxLevel - d)
  <2>. SUFFICES ASSUME NEW k \in Levels, k > kMaxLevel - d, run[k] # << >>
                PROVE  FALSE
    BY DEF IsHighest
  <2>1. kMaxLevel - k \in D
    <3>1. kMaxLevel - (kMaxLevel - k) = k
      BY TaskManagerAssumption DEF Levels
    <3>. QED BY <3>1, TaskManagerAssumption DEF Levels
  <2>. QED BY <1>3, <2>1, TaskManagerAssumption DEF Levels
<1>. QED BY <1>4, TaskManagerAssumption DEF Levels

-----------------------------------------------------------------------------
(* The operations of the scheduler preserve Core.                           *)

\* The front of the current queue is ready, and of the highest level unless a new look is due.
LEMMA FrontIsReady ==
  ASSUME NEW s, NEW R, Core(s, R)
  PROVE  /\ CurrentTask(s) \in R
         /\ s.lvl[CurrentTask(s)] = s.cur
         /\ ~s.chg => CurrentTask(s) \in Top(s.lvl, R)
<1>1. s.cur \in Levels /\ s.run[s.cur] \in Seq(TaskId)
  BY DEF Core, SchedType
<1>2. CurrentTask(s) \in Elems(s.run[s.cur])
  BY <1>1, ElemsTail DEF Core, QueuesHold, CurrentTask
<1>3. CurrentTask(s) \in R /\ s.lvl[CurrentTask(s)] = s.cur
  BY <1>1, <1>2 DEF Core, QueuesHold
<1>4. ASSUME ~s.chg, NEW u \in R PROVE s.lvl[u] <= s.cur
  <2>1. s.lvl[u] \in Levels /\ s.run[s.lvl[u]] \in Seq(TaskId)
    BY DEF Core, SchedType
  <2>2. u \in Elems(s.run[s.lvl[u]])
    BY <2>1 DEF Core, QueuesHold
  <2>3. s.run[s.lvl[u]] # << >>
    BY <2>1, <2>2, ElemsEmpty
  <2>4. ~ (s.lvl[u] > s.cur)
    BY <1>4, <2>1, <2>3 DEF Core, NothingAbove
  <2>. QED BY <1>1, <2>1, <2>4, TaskManagerAssumption DEF Levels
<1>. QED BY <1>3, <1>4 DEF Top

\* A rotation keeps the ready tasks, or drops the current one, and leaves the cpu
\* to a ready task of the highest level.
LEMMA RotateCorrect ==
  ASSUME NEW s, NEW R, Core(s, R), NEW sleep \in BOOLEAN,
         sleep => CurrentTask(s) # Idle
  PROVE  LET r  == RotateCurrentRunQueue(s, sleep)
             R2 == IF sleep THEN R \ {CurrentTask(s)} ELSE R
         IN  /\ Core(r, R2)
             /\ r.on = s.on /\ r.lvl = s.lvl
             /\ CurrentTask(r) \in Top(s.lvl, R2)
<1>. DEFINE r   == RotateCurrentRunQueue(s, sleep)
            R2  == IF sleep THEN R \ {CurrentTask(s)} ELSE R
            q   == s.run[s.cur]
            run == [s.run EXCEPT ![s.cur] =
                      IF sleep THEN Tail(q) ELSE Append(Tail(q), Head(q))]
            chg == s.chg \/ run[s.cur] = << >>
<1>1. /\ s.run \in [Levels -> Seq(TaskId)] /\ s.cur \in Levels /\ s.chg \in BOOLEAN
      /\ s.lvl \in [TaskId -> Levels] /\ s.on \in [TaskId -> BOOLEAN]
      /\ q \in Seq(TaskId) /\ q # << >> /\ Distinct(q)
      /\ Elems(q) = {t \in R : s.lvl[t] = s.cur}
  BY DEF Core, SchedType, QueuesHold
<1>2. /\ Head(q) \in TaskId /\ Tail(q) \in Seq(TaskId) /\ Head(q) \in Elems(q)
      /\ Elems(Tail(q)) = Elems(q) \ {Head(q)} /\ Distinct(Tail(q))
  BY <1>1, ElemsTail
<1>3. /\ Append(Tail(q), Head(q)) \in Seq(TaskId)
      /\ Elems(Append(Tail(q), Head(q))) = Elems(q)
      /\ Distinct(Append(Tail(q), Head(q)))
  <2>. HIDE DEF q
  <2>. DEFINE h == Head(q)
              tl == Tail(q)
  <2>1. h \in TaskId /\ tl \in Seq(TaskId) /\ h \notin Elems(tl) /\ Distinct(tl)
        /\ Elems(tl) \cup {h} = Elems(q)
    BY <1>2
  <2>. HIDE DEF h, tl
  <2>2. /\ Append(tl, h) \in Seq(TaskId)
        /\ Elems(Append(tl, h)) = Elems(tl) \cup {h}
        /\ Distinct(tl) /\ h \notin Elems(tl) => Distinct(Append(tl, h))
    BY <2>1, ElemsAppend, Zenon
  <2>3. Elems(Append(tl, h)) = Elems(q) /\ Distinct(Append(tl, h))
    BY <2>1, <2>2, Zenon
  <2>. QED BY <2>2, <2>3, Zenon DEF h, tl
<1>4. CurrentTask(s) = Head(q)
  BY DEF CurrentTask
<1>5. /\ run \in [Levels -> Seq(TaskId)]
      /\ \A lv \in Levels : /\ Elems(run[lv]) = {t \in R2 : s.lvl[t] = lv}
                            /\ Distinct(run[lv])
  <2>1. run \in [Levels -> Seq(TaskId)]
    BY <1>1, <1>2, <1>3
  <2>2. ASSUME NEW lv \in Levels, lv # s.cur
        PROVE  Elems(run[lv]) = {t \in R2 : s.lvl[t] = lv} /\ Distinct(run[lv])
    <3>1. run[lv] = s.run[lv]
      BY <1>1, <2>2
    <3>2. s.lvl[CurrentTask(s)] # lv
      BY <1>1, <1>2, <1>4, <2>2
    <3>. QED BY <3>1, <3>2 DEF Core, QueuesHold
  <2>3. Elems(run[s.cur]) = {t \in R2 : s.lvl[t] = s.cur} /\ Distinct(run[s.cur])
    BY <1>1, <1>2, <1>3, <1>4
  <2>. QED BY <2>1, <2>2, <2>3
<1>6. R2 \subseteq TaskId /\ Idle \in R2
  BY <1>4 DEF Core
<1>7. \E lv \in Levels : run[lv] # << >>
  <2>1. s.lvl[Idle] \in Levels
    BY <1>1, <1>6
  <2>2. Idle \in Elems(run[s.lvl[Idle]])
    BY <1>5, <1>6, <2>1
  <2>. QED BY <1>5, <2>1, <2>2, ElemsEmpty
<1>. DEFINE cur == IF chg /\ \E lv \in Levels : run[lv] # << >>
                   THEN CHOOSE lv \in Levels : IsHighest(run, lv) ELSE s.cur
<1>8. r.run = run /\ r.chg = FALSE /\ r.cur = cur /\ r.lvl = s.lvl /\ r.on = s.on /\ r \in SchedType
  <2>1. r = [s EXCEPT !.run = run, !.chg = FALSE, !.cur = cur]
    BY DEF RotateCurrentRunQueue
  <2>2. s = [run |-> s.run, cur |-> s.cur, chg |-> s.chg, lvl |-> s.lvl, on |-> s.on]
    BY DEF Core, SchedType
  <2>3. r = [run |-> run, cur |-> cur, chg |-> FALSE, lvl |-> s.lvl, on |-> s.on]
    BY <2>1, <2>2
  <2>4. cur \in Levels
    BY <1>1, <1>7, HighestExists
  <2>5. run \in [Levels -> Seq(TaskId)]
    BY <1>5
  <2>. HIDE DEF run, cur, r
  <2>. QED BY <1>1, <2>3, <2>4, <2>5 DEF SchedType
<1>9. IsHighest(run, cur)
  <2>1. CASE chg
    BY <1>7, <2>1, HighestExists
  <2>2. CASE ~chg
    <3>1. ~s.chg /\ run[s.cur] # << >> /\ cur = s.cur
      BY <2>2
    <3>2. ASSUME NEW k \in Levels, k > s.cur PROVE run[k] = << >>
      <4>1. k # s.cur /\ s.run[k] = << >>
        BY <1>1, <3>1, <3>2, TaskManagerAssumption DEF Core, NothingAbove, Levels
      <4>. QED BY <1>1, <4>1
    <3>. QED BY <3>1, <3>2 DEF IsHighest
  <2>. QED BY <2>1, <2>2
<1>10. Core(r, R2)
  <2>1. r.cur \in Levels
    BY <1>8 DEF SchedType
  <2>. HIDE DEF r, R2, run, cur
  <2>. QED BY <1>5, <1>6, <1>8, <1>9, <2>1 DEF Core, QueuesHold, NothingAbove, IsHighest
<1>11. CurrentTask(r) \in Top(r.lvl, R2)
  BY <1>8, <1>10, FrontIsReady
<1>. QED BY <1>8, <1>10, <1>11

OnSet(s) == {t \in TaskId : s.on[t]}

\* Two cases of one queue growing at the back, for WakeupTask and ChangeLevelRunning.
LEMMA HeadOfAppend ==
  ASSUME NEW q \in Seq(TaskId), NEW x \in TaskId
  PROVE  /\ Append(q, x) # << >>
         /\ q # << >> => Head(Append(q, x)) = Head(q)
<1>1. Append(q, x) # << >>
  BY ONLY q \in Seq(TaskId), x \in TaskId, AppendProperties, Zenon
<1>2. Head(Append(q, x)) = IF q = << >> THEN x ELSE Head(q)
  BY ONLY q \in Seq(TaskId), HeadTailAppend, Zenon
<1>. QED BY ONLY <1>1, <1>2

\* Waking a task that is not ready queues it at its level and nothing else.
LEMMA WakeCorrect ==
  ASSUME NEW s, Core(s, OnSet(s)), NEW t \in TaskId, ~s.on[t],
         NEW level \in Levels \cup {KeepLevel}
  PROVE  LET r  == WakeupTask(s, t, level)
             lv == IF level < 0 THEN s.lvl[t] ELSE level
         IN  /\ Core(r, OnSet(r))
             /\ OnSet(r) = OnSet(s) \cup {t}
             /\ lv \in Levels
             /\ r.lvl = [s.lvl EXCEPT ![t] = lv]
             /\ CurrentTask(r) = CurrentTask(s)
<1>. DEFINE r   == WakeupTask(s, t, level)
            lv  == IF level < 0 THEN s.lvl[t] ELSE level
            q   == s.run[lv]
            run == [s.run EXCEPT ![lv] = Append(q, t)]
            lvl == [s.lvl EXCEPT ![t] = lv]
            on  == [s.on EXCEPT ![t] = TRUE]
            R2  == OnSet(s) \cup {t}
<1>1. /\ s.run \in [Levels -> Seq(TaskId)] /\ s.cur \in Levels /\ s.chg \in BOOLEAN
      /\ s.lvl \in [TaskId -> Levels] /\ s.on \in [TaskId -> BOOLEAN]
      /\ s = [run |-> s.run, cur |-> s.cur, chg |-> s.chg, lvl |-> s.lvl, on |-> s.on]
  BY DEF Core, SchedType
<1>2. lv \in Levels /\ q \in Seq(TaskId)
  <2>1. ~ (level < 0) => level \in Levels
    BY DEF KeepLevel, Levels
  <2>2. s.lvl[t] \in Levels
    BY <1>1
  <2>3. lv \in Levels
    BY <2>1, <2>2
  <2>. QED BY <1>1, <2>3
<1>. HIDE DEF lv
<1>3. /\ Append(q, t) \in Seq(TaskId)
      /\ Elems(Append(q, t)) = Elems(q) \cup {t}
      /\ Distinct(q) /\ t \notin Elems(q) => Distinct(Append(q, t))
  BY <1>2, ElemsAppend
<1>4. Append(q, t) # << >> /\ (q # << >> => Head(Append(q, t)) = Head(q))
  BY <1>2, HeadOfAppend
<1>5. Elems(q) = {u \in OnSet(s) : s.lvl[u] = lv} /\ Distinct(q) /\ t \notin OnSet(s)
  BY <1>2 DEF Core, QueuesHold, OnSet
<1>6. r = [run |-> run, cur |-> s.cur, chg |-> s.chg \/ lv > s.cur, lvl |-> lvl, on |-> on]
  BY <1>1 DEF WakeupTask, lv
<1>. HIDE DEF r
<1>7. r \in SchedType /\ run \in [Levels -> Seq(TaskId)]
  BY <1>1, <1>2, <1>3, <1>6 DEF SchedType
<1>8. OnSet(r) = R2
  BY <1>1, <1>6 DEF OnSet
<1>9. ASSUME NEW l \in Levels
      PROVE  Elems(run[l]) = {u \in R2 : lvl[u] = l} /\ Distinct(run[l])
  <2>1. \A u \in OnSet(s) : lvl[u] = s.lvl[u]
    BY <1>1, <1>5 DEF OnSet
  <2>2. CASE l = lv
    BY <1>1, <1>2, <1>3, <1>5, <2>1, <2>2 DEF OnSet
  <2>3. CASE l # lv
    <3>1. run[l] = s.run[l] /\ lvl[t] = lv
      BY <1>1, <1>2, <2>3
    <3>2. Elems(s.run[l]) = {u \in OnSet(s) : s.lvl[u] = l} /\ Distinct(s.run[l])
      BY DEF Core, QueuesHold
    <3>. QED BY <2>1, <2>3, <3>1, <3>2
  <2>. QED BY <2>2, <2>3
<1>10. run[s.cur] # << >> /\ Head(run[s.cur]) = Head(s.run[s.cur])
  BY <1>1, <1>2, <1>4 DEF Core
<1>11. NothingAbove(r)
  <2>. SUFFICES ASSUME ~r.chg, NEW l \in Levels, l > s.cur
                PROVE  run[l] = << >>
    BY <1>6 DEF NothingAbove
  <2>1. ~s.chg /\ l # lv
    BY <1>6
  <2>. QED BY <1>1, <1>2, <2>1 DEF Core, NothingAbove
<1>12. Core(r, OnSet(r))
  <2>1. R2 \subseteq TaskId /\ Idle \in R2
    BY DEF Core, OnSet
  <2>2. QueuesHold(r, R2)
    <3>. HIDE DEF run, lvl, on, R2
    <3>. QED BY <1>6, <1>9 DEF QueuesHold
  <2>3. r.run[r.cur] # << >>
    BY <1>6, <1>10
  <2>. QED BY <1>7, <1>8, <1>11, <2>1, <2>2, <2>3 DEF Core
<1>13. CurrentTask(r) = CurrentTask(s) /\ r.lvl = lvl
  BY <1>6, <1>10 DEF CurrentTask
<1>. QED BY <1>2, <1>8, <1>12, <1>13 DEF r, lv

\* A change of level moves a ready task from one queue to the other.
LEMMA ChangeLevelCorrect ==
  ASSUME NEW s, Core(s, OnSet(s)), NEW t \in TaskId, s.on[t],
         NEW level \in Levels \cup {KeepLevel}
  PROVE  LET r == ChangeLevelRunning(s, t, level)
         IN  /\ Core(r, OnSet(r))
             /\ r.on = s.on
             /\ \E lv \in Levels : r.lvl = [s.lvl EXCEPT ![t] = lv]
             /\ level = KeepLevel => r = s
             /\ CurrentTask(r) = CurrentTask(s)
<1>. DEFINE r == ChangeLevelRunning(s, t, level)
            old == s.lvl[t]
            lvl == [s.lvl EXCEPT ![t] = level]
<1>1. /\ s.run \in [Levels -> Seq(TaskId)] /\ s.cur \in Levels /\ s.chg \in BOOLEAN
      /\ s.lvl \in [TaskId -> Levels] /\ s.on \in [TaskId -> BOOLEAN]
      /\ s = [run |-> s.run, cur |-> s.cur, chg |-> s.chg, lvl |-> s.lvl, on |-> s.on]
      /\ old \in Levels /\ t \in OnSet(s)
  BY DEF Core, SchedType, OnSet
<1>2. \A l \in Levels : /\ Elems(s.run[l]) = {u \in OnSet(s) : s.lvl[u] = l}
                        /\ Distinct(s.run[l]) /\ s.run[l] \in Seq(TaskId)
  BY <1>1 DEF Core, QueuesHold
<1>3. CASE level < 0 \/ level = old
  <2>1. r = s
    BY <1>3 DEF ChangeLevelRunning
  <2>2. s.lvl = [s.lvl EXCEPT ![t] = old]
    BY <1>1
  <2>. QED BY <1>1, <2>1, <2>2
<1>4. ASSUME level >= 0, level # old PROVE level \in Levels /\ level # KeepLevel
  BY <1>4 DEF KeepLevel
<1>0. level \in Int
  BY DEF Levels, KeepLevel
<1>5. ASSUME level >= 0, level # old, t # CurrentTask(s)
      PROVE  /\ Core(r, OnSet(r)) /\ r.on = s.on /\ r.lvl = lvl
             /\ CurrentTask(r) = CurrentTask(s)
  <2>. DEFINE run == [[s.run EXCEPT ![old] = Erase(s.run[old], t)]
                        EXCEPT ![level] = Append(s.run[level], t)]
  <2>0. level \in Levels
    BY <1>4, <1>5
  <2>1. r = [run |-> run, cur |-> s.cur, chg |-> s.chg \/ level > s.cur, lvl |-> lvl, on |-> s.on]
    <3>1. r = [s EXCEPT !.run[old] = Erase(s.run[old], t),
                        !.run[level] = Append(s.run[level], t),
                        !.lvl[t] = level,
                        !.chg = s.chg \/ level > s.cur]
      BY <1>0, <1>5 DEF ChangeLevelRunning
    <3>. HIDE DEF r
    <3>. QED BY <1>1, <3>1
  <2>. HIDE DEF r
  <2>2. /\ run[old] = Erase(s.run[old], t) /\ run[level] = Append(s.run[level], t)
        /\ \A l \in Levels : l # old /\ l # level => run[l] = s.run[l]
    BY <1>1, <1>5, <2>0
  <2>3. /\ run[old] \in Seq(TaskId) /\ Elems(run[old]) = Elems(s.run[old]) \ {t}
        /\ Distinct(run[old])
        /\ s.run[old] # << >> /\ Head(s.run[old]) # t =>
             run[old] # << >> /\ Head(run[old]) = Head(s.run[old])
    <3>. DEFINE e == s.run[old]
    <3>1. e \in Seq(TaskId) /\ Distinct(e)
      BY <1>1, <1>2
    <3>2. run[old] = Erase(e, t)
      BY <2>2
    <3>. HIDE DEF e, run
    <3>3. /\ Erase(e, t) \in Seq(TaskId) /\ Elems(Erase(e, t)) = Elems(e) \ {t}
          /\ Distinct(Erase(e, t))
          /\ e # << >> /\ Head(e) # t => Erase(e, t) # << >> /\ Head(Erase(e, t)) = Head(e)
      BY <3>1, ElemsErase, Zenon
    <3>. QED BY <3>2, <3>3 DEF e
  <2>4. t \notin Elems(s.run[level])
    BY <1>1, <1>2, <1>5, <2>0
  <2>5. /\ run[level] \in Seq(TaskId) /\ Elems(run[level]) = Elems(s.run[level]) \cup {t}
        /\ Distinct(run[level])
        /\ run[level] # << >>
        /\ s.run[level] # << >> => Head(run[level]) = Head(s.run[level])
    <3>. DEFINE a == s.run[level]
    <3>1. a \in Seq(TaskId) /\ Distinct(a) /\ t \notin Elems(a)
      BY <1>2, <2>0, <2>4
    <3>2. run[level] = Append(a, t)
      BY <2>2
    <3>. HIDE DEF a, run
    <3>3. /\ Append(a, t) \in Seq(TaskId) /\ Elems(Append(a, t)) = Elems(a) \cup {t}
          /\ Distinct(Append(a, t))
      BY <3>1, ElemsAppend, ZenonT(60)
    <3>4. Append(a, t) # << >> /\ (a # << >> => Head(Append(a, t)) = Head(a))
      BY <3>1, HeadOfAppend, Zenon
    <3>. QED BY <3>2, <3>3, <3>4 DEF a
  <2>6. run \in [Levels -> Seq(TaskId)]
    BY <1>1, <2>2, <2>3, <2>5
  <2>. HIDE DEF run
  <2>7. ASSUME NEW l \in Levels
        PROVE  Elems(run[l]) = {u \in OnSet(s) : lvl[u] = l} /\ Distinct(run[l])
    <3>1. \A u \in OnSet(s) : lvl[u] = IF u = t THEN level ELSE s.lvl[u]
      BY <1>1 DEF OnSet
    <3>2. CASE l = old
      BY <1>1, <1>2, <1>5, <2>3, <3>1, <3>2
    <3>3. CASE l = level
      BY <1>1, <1>2, <1>5, <2>0, <2>5, <3>1, <3>3
    <3>4. CASE l # old /\ l # level
      BY <1>1, <1>2, <2>2, <3>1, <3>4
    <3>. QED BY <3>2, <3>3, <3>4
  <2>8. run[s.cur] # << >> /\ Head(run[s.cur]) = Head(s.run[s.cur])
    BY <1>1, <1>5, <2>2, <2>3, <2>5 DEF Core, CurrentTask
  <2>9. NothingAbove(r)
    <3>. SUFFICES ASSUME ~r.chg, NEW l \in Levels, l > s.cur PROVE run[l] = << >>
      BY <2>1 DEF NothingAbove
    <3>1. ~s.chg /\ l # level /\ s.run[l] = << >>
      BY <2>1 DEF Core, NothingAbove
    <3>2. l # old
      BY <1>1, <1>2, <3>1, ElemsEmpty
    <3>. QED BY <2>2, <3>1, <3>2
  <2>10. OnSet(r) = OnSet(s) /\ r \in SchedType
    BY <1>1, <2>0, <2>1, <2>6 DEF OnSet, SchedType
  <2>11. Core(r, OnSet(s))
    <3>. HIDE DEF lvl
    <3>. QED BY <2>1, <2>7, <2>8, <2>9, <2>10 DEF Core, QueuesHold
  <2>. QED BY <2>1, <2>8, <2>10, <2>11 DEF CurrentTask
<1>6. ASSUME level >= 0, level # old, t = CurrentTask(s)
      PROVE  /\ Core(r, OnSet(r)) /\ r.on = s.on /\ r.lvl = lvl
             /\ CurrentTask(r) = CurrentTask(s)
  <2>. DEFINE q   == s.run[s.cur]
              run == [[s.run EXCEPT ![s.cur] = Tail(q)] EXCEPT ![level] = <<t>> \o s.run[level]]
  <2>0. level \in Levels /\ old = s.cur /\ level # s.cur
    BY <1>4, <1>6, FrontIsReady
  <2>1. r = [run |-> run, cur |-> level, chg |-> s.chg \/ level < s.cur, lvl |-> lvl, on |-> s.on]
    <3>1. r = [s EXCEPT !.run[s.cur] = Tail(s.run[s.cur]),
                        !.run[level] = <<t>> \o s.run[level],
                        !.lvl[t] = level,
                        !.cur = level,
                        !.chg = s.chg \/ level < s.cur]
      BY <1>0, <1>6 DEF ChangeLevelRunning
    <3>. HIDE DEF r
    <3>. QED BY <1>1, <3>1
  <2>. HIDE DEF r
  <2>2. /\ Tail(q) \in Seq(TaskId) /\ Elems(Tail(q)) = Elems(q) \ {t} /\ Distinct(Tail(q))
    BY <1>1, <1>2, <1>6, ElemsTail DEF Core, CurrentTask
  <2>3. /\ run[s.cur] = Tail(q) /\ run[level] = <<t>> \o s.run[level]
        /\ \A l \in Levels : l # s.cur /\ l # level => run[l] = s.run[l]
    BY <1>1, <2>0
  <2>4. t \notin Elems(s.run[level])
    BY <1>1, <1>2, <1>6, <2>0
  <2>5. /\ run[level] \in Seq(TaskId) /\ Elems(run[level]) = Elems(s.run[level]) \cup {t}
        /\ Distinct(run[level]) /\ run[level] # << >> /\ Head(run[level]) = t
    <3>. DEFINE a == s.run[level]
    <3>1. a \in Seq(TaskId) /\ Distinct(a) /\ t \notin Elems(a)
      BY <1>2, <2>0, <2>4
    <3>2. run[level] = <<t>> \o a
      BY <2>3
    <3>. HIDE DEF a, run
    <3>3. /\ <<t>> \o a \in Seq(TaskId)
          /\ <<t>> \o a # << >>
          /\ Head(<<t>> \o a) = t
          /\ Elems(<<t>> \o a) = Elems(a) \cup {t}
          /\ Distinct(a) /\ t \notin Elems(a) => Distinct(<<t>> \o a)
      BY <3>1, ElemsPushFront
    <3>. QED BY <3>1, <3>2, <3>3 DEF a
  <2>6. run \in [Levels -> Seq(TaskId)]
    BY <1>1, <2>2, <2>3, <2>5
  <2>. HIDE DEF run
  <2>7. ASSUME NEW l \in Levels
        PROVE  Elems(run[l]) = {u \in OnSet(s) : lvl[u] = l} /\ Distinct(run[l])
    <3>1. \A u \in OnSet(s) : lvl[u] = IF u = t THEN level ELSE s.lvl[u]
      BY <1>1 DEF OnSet
    <3>2. CASE l = old
      BY <1>1, <1>2, <1>6, <2>0, <2>2, <2>3, <3>1, <3>2
    <3>3. CASE l = level
      BY <1>1, <1>2, <1>6, <2>0, <2>5, <3>1, <3>3
    <3>4. CASE l # old /\ l # level
      BY <1>1, <1>2, <2>0, <2>3, <3>1, <3>4
    <3>. QED BY <3>2, <3>3, <3>4
  <2>8. NothingAbove(r)
    <3>. SUFFICES ASSUME ~r.chg, NEW l \in Levels, l > level PROVE run[l] = << >>
      BY <2>1 DEF NothingAbove
    <3>1. ~s.chg /\ l > s.cur /\ l # s.cur /\ l # level
      BY <1>1, <2>0, <2>1, TaskManagerAssumption DEF Levels
    <3>. QED BY <2>3, <3>1 DEF Core, NothingAbove
  <2>9. OnSet(r) = OnSet(s) /\ r \in SchedType
    BY <1>1, <2>0, <2>1, <2>6 DEF OnSet, SchedType
  <2>10. Core(r, OnSet(s))
    <3>. HIDE DEF lvl
    <3>. QED BY <2>1, <2>5, <2>7, <2>8, <2>9 DEF Core, QueuesHold
  <2>. QED BY <1>6, <2>1, <2>5, <2>9, <2>10 DEF CurrentTask
<1>7. level >= 0 \/ level < 0
  BY DEF KeepLevel, Levels
<1>. HIDE DEF r
<1>. QED BY <1>3, <1>4, <1>5, <1>6, <1>7 DEF r

\* A wakeup, whatever the task was doing, makes it ready and leaves the cpu alone.
LEMMA WakeupKeepsCore ==
  ASSUME NEW s, Core(s, OnSet(s)), NEW t \in TaskId,
         NEW level \in Levels \cup {KeepLevel}
  PROVE  LET r == WakeupTask(s, t, level)
         IN  /\ Core(r, OnSet(r))
             /\ OnSet(r) = OnSet(s) \cup {t}
             /\ \E lv \in Levels : r.lvl = [s.lvl EXCEPT ![t] = lv]
             /\ level = KeepLevel => r.lvl = s.lvl
             /\ CurrentTask(r) = CurrentTask(s)
<1>1. s.lvl \in [TaskId -> Levels]
  BY DEF Core, SchedType
<1>2. CASE s.on[t]
  <2>1. WakeupTask(s, t, level) = ChangeLevelRunning(s, t, level)
    BY <1>2 DEF WakeupTask
  <2>2. OnSet(s) = OnSet(s) \cup {t}
    BY <1>2 DEF OnSet
  <2>3. OnSet(ChangeLevelRunning(s, t, level)) = OnSet(s)
    BY <1>2, ChangeLevelCorrect, ZenonT(60) DEF OnSet
  <2>. QED BY <1>2, <2>1, <2>2, <2>3, ChangeLevelCorrect
<1>3. CASE ~s.on[t]
  <2>1. KeepLevel < 0 /\ s.lvl = [s.lvl EXCEPT ![t] = s.lvl[t]]
    BY <1>1 DEF KeepLevel
  <2>. DEFINE r  == WakeupTask(s, t, level)
              lv == IF level < 0 THEN s.lvl[t] ELSE level
  <2>2. /\ Core(r, OnSet(r)) /\ OnSet(r) = OnSet(s) \cup {t}
        /\ lv \in Levels /\ r.lvl = [s.lvl EXCEPT ![t] = lv]
        /\ CurrentTask(r) = CurrentTask(s)
    BY <1>3, WakeCorrect
  <2>. HIDE DEF r
  <2>3. level = KeepLevel => lv = s.lvl[t]
    BY <2>1
  <2>4. level = KeepLevel => r.lvl = s.lvl
    BY <2>1, <2>2, <2>3
  <2>. HIDE DEF lv
  <2>. QED BY <2>2, <2>4 DEF r
<1>. QED BY <1>2, <1>3

\* A sleep takes the task out; if it was the current one the cpu goes to a ready
\* task of the highest level, otherwise it stays.
LEMMA SleepKeepsCore ==
  ASSUME NEW s, Core(s, OnSet(s)), NEW t \in TaskId \ {Idle}
  PROVE  LET r == SleepTask(s, t)
         IN  /\ Core(r, OnSet(r))
             /\ OnSet(r) = OnSet(s) \ {t}
             /\ r.lvl = s.lvl
             /\ ~s.on[t] \/ t # CurrentTask(s) => CurrentTask(r) = CurrentTask(s)
             /\ s.on[t] /\ t = CurrentTask(s) =>
                  CurrentTask(r) \in Top(s.lvl, OnSet(s) \ {t})
<1>. DEFINE r   == SleepTask(s, t)
            off == [s EXCEPT !.on[t] = FALSE]
            R   == OnSet(s)
            R2  == R \ {t}
            l   == s.lvl[t]
<1>1. /\ s.run \in [Levels -> Seq(TaskId)] /\ s.cur \in Levels /\ s.chg \in BOOLEAN
      /\ s.lvl \in [TaskId -> Levels] /\ s.on \in [TaskId -> BOOLEAN]
      /\ s = [run |-> s.run, cur |-> s.cur, chg |-> s.chg, lvl |-> s.lvl, on |-> s.on]
      /\ l \in Levels
  BY DEF Core, SchedType
<1>2. \A k \in Levels : /\ Elems(s.run[k]) = {u \in R : s.lvl[u] = k}
                        /\ Distinct(s.run[k]) /\ s.run[k] \in Seq(TaskId)
  BY <1>1 DEF Core, QueuesHold
<1>3. off = [run |-> s.run, cur |-> s.cur, chg |-> s.chg, lvl |-> s.lvl,
             on |-> [s.on EXCEPT ![t] = FALSE]]
  <2>1. s = [run |-> s.run, cur |-> s.cur, chg |-> s.chg, lvl |-> s.lvl, on |-> s.on]
    BY <1>1
  <2>2. off = [s EXCEPT !.on = [s.on EXCEPT ![t] = FALSE]]
    OBVIOUS
  <2>. HIDE DEF off
  <2>. QED BY <2>1, <2>2
<1>4. OnSet(off) = R2 /\ off \in SchedType
  BY <1>1, <1>3 DEF OnSet, SchedType
<1>5. CASE ~s.on[t]
  <2>1. r = s /\ R = R2
    BY <1>5 DEF SleepTask, OnSet
  <2>. QED BY <1>5, <2>1
<1>6. CASE s.on[t] /\ t = CurrentTask(s)
  <2>. HIDE DEF off
  <2>1. Core(off, R) /\ CurrentTask(off) = t
    BY <1>3, <1>4, <1>6 DEF Core, QueuesHold, NothingAbove, CurrentTask
  <2>2. r = RotateCurrentRunQueue(off, TRUE)
    BY <1>6 DEF SleepTask, off
  <2>3. /\ Core(RotateCurrentRunQueue(off, TRUE), R2)
        /\ RotateCurrentRunQueue(off, TRUE).on = off.on
        /\ RotateCurrentRunQueue(off, TRUE).lvl = off.lvl
        /\ CurrentTask(RotateCurrentRunQueue(off, TRUE)) \in Top(off.lvl, R2)
    BY <2>1, RotateCorrect
  <2>4. OnSet(r) = R2
    BY <1>4, <2>2, <2>3 DEF OnSet
  <2>. QED BY <1>3, <1>6, <2>2, <2>3, <2>4
<1>7. CASE s.on[t] /\ t # CurrentTask(s)
  <2>. DEFINE e   == s.run[l]
              run == [s.run EXCEPT ![l] = Erase(e, t)]
  <2>1. r = [run |-> run, cur |-> s.cur, chg |-> s.chg, lvl |-> s.lvl,
             on |-> [s.on EXCEPT ![t] = FALSE]]
    BY <1>3, <1>7 DEF SleepTask
  <2>. HIDE DEF r
  <2>2. /\ Erase(e, t) \in Seq(TaskId) /\ Elems(Erase(e, t)) = Elems(e) \ {t}
        /\ Distinct(Erase(e, t))
        /\ e # << >> /\ Head(e) # t => Erase(e, t) # << >> /\ Head(Erase(e, t)) = Head(e)
    <3>1. e \in Seq(TaskId) /\ Distinct(e)
      BY <1>1, <1>2
    <3>. HIDE DEF e
    <3>. QED BY <3>1, ElemsErase, Zenon
  <2>3. run \in [Levels -> Seq(TaskId)]
    BY <1>1, <2>2
  <2>4. ASSUME NEW k \in Levels
        PROVE  Elems(run[k]) = {u \in R2 : s.lvl[u] = k} /\ Distinct(run[k])
    <3>1. CASE k = l
      <4>1. run[k] = Erase(e, t)
        BY <1>1, <3>1
      <4>. QED BY <1>1, <1>2, <2>2, <3>1, <4>1
    <3>2. CASE k # l
      <4>1. run[k] = s.run[k]
        BY <1>1, <3>2
      <4>. HIDE DEF run
      <4>. QED BY <1>2, <3>2, <4>1
    <3>. QED BY <3>1, <3>2
  <2>5. run[s.cur] # << >> /\ Head(run[s.cur]) = Head(s.run[s.cur])
    BY <1>1, <1>7, <2>2 DEF Core, CurrentTask
  <2>6. NothingAbove(r)
    <3>. SUFFICES ASSUME ~s.chg, NEW k \in Levels, k > s.cur PROVE run[k] = << >>
      BY <2>1 DEF NothingAbove
    <3>1. s.run[k] = << >>
      BY DEF Core, NothingAbove
    <3>2. k # l
      BY <1>2, <1>7, <3>1, ElemsEmpty DEF OnSet
    <3>. QED BY <1>1, <3>1, <3>2
  <2>. HIDE DEF run
  <2>7. OnSet(r) = R2 /\ r \in SchedType
    BY <1>1, <2>1, <2>3 DEF OnSet, SchedType
  <2>8. R2 \subseteq TaskId /\ Idle \in R2
    BY DEF Core
  <2>9. Core(r, R2)
    BY <2>1, <2>4, <2>5, <2>6, <2>7, <2>8 DEF Core, QueuesHold
  <2>10. r.lvl = s.lvl /\ CurrentTask(r) = CurrentTask(s)
    BY <2>1, <2>5 DEF CurrentTask
  <2>. QED BY <1>7, <2>7, <2>9, <2>10 DEF r
<1>. HIDE DEF r
<1>. QED BY <1>5, <1>6, <1>7 DEF r

-----------------------------------------------------------------------------
(* The inductive invariant.  RunQueues and CpuIsCurrentTask are inductive   *)
(* together; that no pointer dangles needs the bookkeeping of WaitFinish.   *)

\* An exit code exists only for a finished task; a task waits only for a task it
\* alone spawned, which is either alive or has left its exit code; a registered
\* waiter waits for the task it is registered with.
Books ==
  /\ {Main, Idle} \subseteq tasks
  /\ \A t \in tasks : t <= latest_id
  /\ \A t \in TaskId : sched.on[t] => t \in tasks
  /\ \A t \in TaskId : finish_tasks[t] # NoCode => t \notin tasks /\ t <= latest_id
  /\ \A t \in TaskId : subtask[t] # NoTask =>
       /\ t \in tasks /\ subtask[t] <= latest_id
       /\ subtask[t] \in tasks <=> finish_tasks[subtask[t]] = NoCode
  /\ \A t, u \in TaskId : subtask[t] = subtask[u] /\ subtask[t] # NoTask => t = u
  /\ \A t \in TaskId : finish_waiter[t] # NoTask =>
       t \in tasks /\ subtask[finish_waiter[t]] = t

\* The types, whatever the messages are (those of one pipe are not those of another program).
TypeOver(M) ==
  /\ tasks \subseteq TaskId
  /\ latest_id \in TaskId
  /\ sched \in SchedType
  /\ cpu \in TaskId
  /\ msgs \in [TaskId -> Seq(M)]
  /\ finish_tasks \in [TaskId -> ExitCodes \cup {NoCode}]
  /\ finish_waiter \in [TaskId -> TaskId \cup {NoTask}]
  /\ pc \in [TaskId -> {"run", "recv", "wait"}]
  /\ subtask \in [TaskId -> TaskId \cup {NoTask}]

Sound(M) ==
  /\ TypeOver(M)
  /\ Core(sched, OnSet(sched))
  /\ cpu = CurrentTask(sched)
  /\ Books

\* The constructor establishes it.
LEMMA InitIsSound == ASSUME NEW M, Init PROVE Sound(M)
<1>1. /\ Main \in TaskId /\ Idle \in TaskId /\ Main # Idle
      /\ kMaxLevel \in Levels /\ 0 \in Levels /\ kDefaultLevel \in Levels /\ kMaxLevel # 0
      /\ NoTask \notin TaskId
  BY TaskManagerAssumption DEF Main, Idle, TaskId, Levels, kDefaultLevel, NoTask
<1>2. /\ sched.run = [lv \in Levels |-> CASE lv = kMaxLevel -> <<Main>>
                                          [] lv = 0         -> <<Idle>>
                                          [] OTHER          -> << >>]
      /\ sched.cur = kMaxLevel /\ sched.chg = FALSE
      /\ sched.lvl = [t \in TaskId |-> CASE t = Main -> kMaxLevel
                                         [] t = Idle -> 0
                                         [] OTHER    -> kDefaultLevel]
      /\ sched.on = [t \in TaskId |-> t \in {Main, Idle}]
  BY DEF Init
<1>3. /\ sched.run[kMaxLevel] = <<Main>> /\ sched.run[0] = <<Idle>>
      /\ \A lv \in Levels : lv # kMaxLevel /\ lv # 0 => sched.run[lv] = << >>
      /\ sched.lvl[Main] = kMaxLevel /\ sched.lvl[Idle] = 0
  BY <1>1, <1>2
<1>4. sched \in SchedType
  <2>1. sched.run \in [Levels -> Seq(TaskId)]
    BY <1>1, <1>2
  <2>2. sched.lvl \in [TaskId -> Levels]
    BY <1>1, <1>2
  <2>3. sched = [run |-> sched.run, cur |-> sched.cur, chg |-> sched.chg,
                 lvl |-> sched.lvl, on |-> sched.on]
    BY DEF Init
  <2>4. sched.on \in [TaskId -> BOOLEAN]
    <3>1. \A t \in TaskId : (t \in {Main, Idle}) \in BOOLEAN
      OBVIOUS
    <3>. HIDE DEF Main, Idle
    <3>2. [t \in TaskId |-> t \in {Main, Idle}] \in [TaskId -> BOOLEAN]
      BY <3>1, Zenon
    <3>3. sched.on = [t \in TaskId |-> t \in {Main, Idle}]
      BY <1>2
    <3>. QED BY <3>2, <3>3, Zenon
  <2>5. sched.cur \in Levels /\ sched.chg \in BOOLEAN
    BY <1>1, <1>2
  <2>. QED BY <2>1, <2>2, <2>3, <2>4, <2>5 DEF SchedType
<1>5. OnSet(sched) = {Main, Idle}
  BY <1>1, <1>2 DEF OnSet
<1>6. /\ Elems(<<Main>>) = {Main} /\ Elems(<<Idle>>) = {Idle} /\ Elems(<< >>) = {}
      /\ Distinct(<<Main>>) /\ Distinct(<<Idle>>) /\ Distinct(<< >>)
  <2>1. << >> \in Seq(TaskId) /\ <<Main>> = Append(<< >>, Main) /\ <<Idle>> = Append(<< >>, Idle)
    OBVIOUS
  <2>2. Elems(<< >>) = {}
    BY <2>1, ElemsEmpty
  <2>3. Distinct(<< >>)
    BY DEF Distinct
  <2>4. ASSUME NEW x \in TaskId
        PROVE  Elems(Append(<< >>, x)) = {x} /\ Distinct(Append(<< >>, x))
    <3>. DEFINE e == << >>
    <3>1. e \in Seq(TaskId) /\ Elems(e) = {} /\ Distinct(e)
      BY <2>1, <2>2, <2>3
    <3>. HIDE DEF e
    <3>2. /\ Elems(Append(e, x)) = Elems(e) \cup {x}
          /\ Distinct(e) /\ x \notin Elems(e) => Distinct(Append(e, x))
      BY <3>1, ElemsAppend
    <3>3. Elems(Append(e, x)) = {x} /\ Distinct(Append(e, x))
      BY <3>1, <3>2
    <3>. QED BY <3>3 DEF e
  <2>. QED BY <1>1, <2>1, <2>2, <2>3, <2>4
<1>7. QueuesHold(sched, {Main, Idle})
  <2>. SUFFICES ASSUME NEW lv \in Levels
                PROVE  /\ Elems(sched.run[lv]) = {t \in {Main, Idle} : sched.lvl[t] = lv}
                       /\ Distinct(sched.run[lv])
    BY DEF QueuesHold
  <2>1. CASE lv = kMaxLevel
    BY <1>1, <1>3, <1>6, <2>1
  <2>2. CASE lv = 0
    BY <1>1, <1>3, <1>6, <2>2
  <2>3. CASE lv # kMaxLevel /\ lv # 0
    BY <1>3, <1>6, <2>3
  <2>. QED BY <2>1, <2>2, <2>3
<1>8. NothingAbove(sched)
  <2>. SUFFICES ASSUME NEW lv \in Levels, lv > kMaxLevel PROVE FALSE
    BY <1>2 DEF NothingAbove
  <2>. QED BY TaskManagerAssumption DEF Levels
<1>9. Core(sched, OnSet(sched)) /\ CurrentTask(sched) = Main
  BY <1>1, <1>2, <1>3, <1>4, <1>5, <1>7, <1>8 DEF Core, CurrentTask
<1>10. TypeOver(M)
  BY <1>1, <1>4 DEF Init, TypeOver, Idle
<1>11. Books
  <2>1. \A t \in TaskId : finish_tasks[t] = NoCode /\ finish_waiter[t] = NoTask /\ subtask[t] = NoTask
    BY DEF Init
  <2>2. tasks = {Main, Idle} /\ latest_id = Idle /\ Main <= Idle /\ Idle <= Idle
    BY DEF Init, Main, Idle
  <2>3. \A t \in TaskId : sched.on[t] => t \in tasks
    BY <1>5, <2>2 DEF OnSet
  <2>. QED BY <2>1, <2>2, <2>3 DEF Books
<1>. QED BY <1>9, <1>10, <1>11 DEF Sound, Init

\* The cpu runs an existing task that is ready.
LEMMA CpuIsReady ==
  ASSUME NEW M, Sound(M)
  PROVE  cpu \in OnSet(sched) /\ cpu \in tasks /\ cpu \in TaskId
<1>1. cpu \in OnSet(sched)
  BY FrontIsReady DEF Sound
<1>. QED BY <1>1 DEF Sound, Books, OnSet

-----------------------------------------------------------------------------
(* Every action keeps the invariant.                                        *)

\* Sending a message, from an interrupt or a task.
LEMMA SendKeeps ==
  ASSUME NEW M, Sound(M), NEW id \in TaskId, NEW m \in M, SendMessage(id, m)
  PROVE  Sound(M)'
<1>1. Core(sched, OnSet(sched)) /\ TypeOver(M) /\ Books /\ cpu = CurrentTask(sched)
  BY DEF Sound
<1>. DEFINE r == WakeupTask(sched, id, KeepLevel)
<1>2. /\ Core(r, OnSet(r)) /\ OnSet(r) = OnSet(sched) \cup {id}
      /\ CurrentTask(r) = CurrentTask(sched)
  BY <1>1, WakeupKeepsCore
<1>. HIDE DEF r
<1>3. sched' = r /\ id \in tasks
  BY DEF SendMessage, Post, r
<1>4. Append(msgs[id], m) \in Seq(M)
  BY <1>1, AppendProperties DEF TypeOver
<1>5. TypeOver(M)'
  BY <1>1, <1>2, <1>3, <1>4 DEF SendMessage, Post, TypeOver, Core
<1>6. Books'
  BY <1>1, <1>2, <1>3 DEF SendMessage, Post, Books, OnSet
<1>. QED BY <1>1, <1>2, <1>3, <1>5, <1>6 DEF SendMessage, Post, Sound, Core, CurrentTask, OnSet

\* The timer's context switch.
LEMMA SwitchKeeps == ASSUME NEW M, Sound(M), SwitchTask PROVE Sound(M)'
<1>1. Core(sched, OnSet(sched)) /\ TypeOver(M) /\ Books
  BY DEF Sound
<1>. DEFINE r == RotateCurrentRunQueue(sched, FALSE)
<1>2. /\ Core(r, OnSet(sched)) /\ r.on = sched.on
      /\ CurrentTask(r) \in OnSet(sched)
  BY <1>1, RotateCorrect DEF Top
<1>. HIDE DEF r
<1>3. sched' = r /\ cpu' = CurrentTask(r)
  BY DEF SwitchTask, r, CurrentTask
<1>4. OnSet(r) = OnSet(sched)
  BY <1>2 DEF OnSet
<1>5. TypeOver(M)'
  BY <1>1, <1>2, <1>3 DEF SwitchTask, TypeOver, Core, OnSet
<1>6. Books'
  BY <1>1, <1>2, <1>3 DEF SwitchTask, Books
<1>. QED BY <1>2, <1>3, <1>4, <1>5, <1>6 DEF Sound, Core, CurrentTask, OnSet

\* A new task: its id is fresh, so nobody waits for it and it left no exit code.
LEMMA SpawnKeeps ==
  ASSUME NEW M, Sound(M), NEW t \in TaskId, NEW join \in BOOLEAN, Spawn(t, join)
  PROVE  Sound(M)'
<1>1. /\ Core(sched, OnSet(sched)) /\ TypeOver(M) /\ Books /\ cpu = CurrentTask(sched)
      /\ t \in tasks
  BY CpuIsReady DEF Sound, Spawn, Running
<1>. DEFINE id == latest_id + 1
            r  == WakeupTask(sched, id, KeepLevel)
<1>2. id \in TaskId /\ latest_id \in Nat
  BY <1>1, TaskManagerAssumption DEF TypeOver, TaskId, Spawn
<1>3. /\ Core(r, OnSet(r)) /\ OnSet(r) = OnSet(sched) \cup {id}
      /\ CurrentTask(r) = CurrentTask(sched)
  BY <1>1, <1>2, WakeupKeepsCore
<1>4. /\ sched' = r /\ tasks' = tasks \cup {id} /\ latest_id' = id
      /\ subtask' = IF join THEN [subtask EXCEPT ![t] = id] ELSE subtask
      /\ UNCHANGED <<cpu, msgs, finish_tasks, finish_waiter, pc>>
      /\ join => subtask[t] = NoTask
  BY DEF Spawn
<1>. HIDE DEF r
<1>5. TypeOver(M)'
  BY <1>1, <1>2, <1>3, <1>4 DEF TypeOver, Core
<1>6. id \notin tasks /\ \A u \in TaskId : u <= latest_id => u <= id
  BY <1>1, <1>2 DEF Books, TaskId
<1>7. \A u \in TaskId : subtask[u] # id /\ (finish_waiter[u] # NoTask => finish_waiter[u] # t \/ ~join)
  BY <1>1, <1>2, <1>4 DEF Books, TypeOver, TaskId, NoTask
<1>8. finish_tasks[id] = NoCode /\ NoTask \notin TaskId
  BY <1>1, <1>2 DEF Books, TaskId, NoTask
<1>9. Books'
  <2>1. /\ ({Main, Idle} \subseteq tasks)'
        /\ (\A u \in tasks : u <= latest_id)'
    BY <1>1, <1>2, <1>4, <1>6 DEF Books, TypeOver
  <2>2. (\A u \in TaskId : sched.on[u] => u \in tasks)'
    BY <1>1, <1>3, <1>4 DEF Books, OnSet
  <2>3. (\A u \in TaskId : finish_tasks[u] # NoCode => u \notin tasks /\ u <= latest_id)'
    BY <1>1, <1>2, <1>4, <1>6, <1>8 DEF Books
  <2>4. ASSUME NEW u \in TaskId, subtask'[u] # NoTask
        PROVE  /\ u \in tasks' /\ subtask'[u] <= latest_id'
               /\ subtask'[u] \in tasks' <=> finish_tasks'[subtask'[u]] = NoCode
    <3>1. CASE u = t /\ join
      <4>1. subtask'[u] = id
        BY <1>1, <1>4, <3>1 DEF TypeOver
      <4>. QED BY <1>1, <1>2, <1>4, <1>8, <3>1, <4>1
    <3>2. CASE ~(u = t /\ join)
      <4>1. subtask'[u] = subtask[u] /\ subtask[u] \in TaskId
        BY <1>1, <1>4, <2>4, <3>2 DEF TypeOver
      <4>. HIDE DEF id
      <4>2. /\ u \in tasks /\ subtask[u] <= latest_id
            /\ subtask[u] \in tasks <=> finish_tasks[subtask[u]] = NoCode
        BY <1>1, <2>4, <4>1 DEF Books
      <4>3. subtask[u] <= id
        BY <1>6, <4>1, <4>2
      <4>. QED BY <1>4, <1>7, <4>1, <4>2, <4>3
    <3>. QED BY <3>1, <3>2
  <2>5. (\A u, v \in TaskId : subtask[u] = subtask[v] /\ subtask[u] # NoTask => u = v)'
    BY <1>1, <1>4, <1>7 DEF Books, TypeOver
  <2>6. (\A u \in TaskId : finish_waiter[u] # NoTask =>
           u \in tasks /\ subtask[finish_waiter[u]] = u)'
    BY <1>1, <1>4, <1>7 DEF Books, TypeOver
  <2>. QED BY <2>1, <2>2, <2>3, <2>4, <2>5, <2>6 DEF Books
<1>. QED BY <1>1, <1>3, <1>4, <1>5, <1>9 DEF Sound, Core, CurrentTask, OnSet

\* Receiving a message, or sleeping for want of one.
LEMMA ReceiveKeeps ==
  ASSUME NEW M, Sound(M), NEW t \in TaskId, ReceiveMessage(t)
  PROVE  Sound(M)'
<1>1. /\ Core(sched, OnSet(sched)) /\ TypeOver(M) /\ Books /\ cpu = CurrentTask(sched)
      /\ cpu = t /\ t # Idle
  BY DEF Sound, ReceiveMessage, Running
<1>2. CASE msgs[t] # << >>
  <2>1. /\ msgs' = [msgs EXCEPT ![t] = Tail(msgs[t])] /\ pc' = [pc EXCEPT ![t] = "run"]
        /\ UNCHANGED <<tasks, latest_id, sched, cpu, finish_tasks, finish_waiter, subtask>>
    BY <1>2 DEF ReceiveMessage
  <2>2. Tail(msgs[t]) \in Seq(M)
    BY <1>1, <1>2, HeadTailProperties DEF TypeOver
  <2>3. TypeOver(M)'
    BY <1>1, <2>1, <2>2 DEF TypeOver
  <2>4. Books'
    BY <1>1, <2>1 DEF Books
  <2>. QED BY <1>1, <2>1, <2>3, <2>4 DEF Sound, Core, CurrentTask, OnSet, QueuesHold, NothingAbove
<1>3. CASE msgs[t] = << >>
  <2>. DEFINE r == SleepTask(sched, t)
  <2>1. /\ Core(r, OnSet(r)) /\ OnSet(r) = OnSet(sched) \ {t}
    BY <1>1, SleepKeepsCore
  <2>. HIDE DEF r
  <2>2. /\ sched' = r /\ cpu' = CurrentTask(r)
        /\ UNCHANGED <<tasks, latest_id, msgs, pc, finish_tasks, finish_waiter, subtask>>
    BY <1>1, <1>3 DEF ReceiveMessage, r, CurrentTask
  <2>3. cpu' \in TaskId
    BY <2>1, <2>2, FrontIsReady DEF OnSet
  <2>4. TypeOver(M)'
    BY <1>1, <2>1, <2>2, <2>3 DEF TypeOver, Core
  <2>5. Books'
    BY <1>1, <2>1, <2>2 DEF Books, OnSet
  <2>. QED BY <2>1, <2>2, <2>4, <2>5 DEF Sound, Core, CurrentTask, OnSet
<1>. QED BY <1>2, <1>3

\* Waiting for the spawned task.
LEMMA WaitKeeps ==
  ASSUME NEW M, Sound(M), NEW t \in TaskId, WaitFinish(t)
  PROVE  Sound(M)'
<1>. DEFINE id == subtask[t]
<1>1. /\ Core(sched, OnSet(sched)) /\ TypeOver(M) /\ Books /\ cpu = CurrentTask(sched)
      /\ cpu = t /\ t # Idle /\ id # NoTask /\ NoTask \notin TaskId /\ id \in TaskId
  BY DEF Sound, WaitFinish, Running, TypeOver, NoTask, TaskId
<1>. HIDE DEF id
<1>2. /\ t \in tasks /\ id <= latest_id
      /\ id \in tasks <=> finish_tasks[id] = NoCode
      /\ \A u \in TaskId : subtask[u] = id => u = t
      /\ \A u \in TaskId : finish_waiter[u] # NoTask => u \in tasks /\ subtask[finish_waiter[u]] = u
  BY <1>1 DEF Books, id
<1>3. CASE finish_tasks[id] # NoCode
  <2>1. /\ finish_tasks' = [finish_tasks EXCEPT ![id] = NoCode]
        /\ subtask' = [subtask EXCEPT ![t] = NoTask]
        /\ pc' = [pc EXCEPT ![t] = "run"]
        /\ UNCHANGED <<tasks, latest_id, msgs, sched, cpu, finish_waiter>>
    BY <1>3 DEF WaitFinish, id
  <2>2. TypeOver(M)'
    BY <1>1, <2>1 DEF TypeOver
  <2>3. \A u \in TaskId : subtask'[u] # NoTask => u # t /\ subtask'[u] = subtask[u] /\ subtask'[u] # id
    BY <1>1, <1>2, <2>1 DEF TypeOver, id
  <2>4. \A u \in TaskId : finish_waiter[u] # NoTask => finish_waiter[u] # t
    BY <1>2, <1>3 DEF id
  <2>5. Books'
    <3>1. (\A u \in TaskId : finish_tasks[u] # NoCode => u \notin tasks /\ u <= latest_id)'
      BY <1>1, <2>1 DEF Books, TypeOver
    <3>2. ASSUME NEW u \in TaskId, subtask'[u] # NoTask
          PROVE  /\ u \in tasks' /\ subtask'[u] <= latest_id'
                 /\ subtask'[u] \in tasks' <=> finish_tasks'[subtask'[u]] = NoCode
      BY <1>1, <2>1, <2>3, <3>2 DEF Books, TypeOver
    <3>3. (\A u, v \in TaskId : subtask[u] = subtask[v] /\ subtask[u] # NoTask => u = v)'
      BY <1>1, <2>3 DEF Books
    <3>4. (\A u \in TaskId : finish_waiter[u] # NoTask =>
             u \in tasks /\ subtask[finish_waiter[u]] = u)'
      BY <1>1, <1>2, <2>1, <2>4 DEF TypeOver
    <3>. QED BY <1>1, <2>1, <3>1, <3>2, <3>3, <3>4 DEF Books
  <2>. QED BY <1>1, <2>1, <2>2, <2>5 DEF Sound, Core, CurrentTask, OnSet, QueuesHold, NothingAbove
<1>4. CASE finish_tasks[id] = NoCode
  <2>. DEFINE r == SleepTask(sched, t)
  <2>1. /\ Core(r, OnSet(r)) /\ OnSet(r) = OnSet(sched) \ {t}
    BY <1>1, SleepKeepsCore
  <2>. HIDE DEF r
  <2>2. /\ sched' = r /\ cpu' = CurrentTask(r)
        /\ finish_waiter' = [finish_waiter EXCEPT ![id] = t]
        /\ pc' = [pc EXCEPT ![t] = "wait"]
        /\ UNCHANGED <<tasks, latest_id, msgs, finish_tasks, subtask>>
    BY <1>1, <1>4 DEF WaitFinish, r, id, CurrentTask
  <2>3. cpu' \in TaskId
    BY <2>1, <2>2, FrontIsReady DEF OnSet
  <2>4. TypeOver(M)'
    BY <1>1, <2>1, <2>2, <2>3 DEF TypeOver, Core
  <2>5. (\A u \in TaskId : finish_waiter[u] # NoTask =>
           u \in tasks /\ subtask[finish_waiter[u]] = u)'
    BY <1>1, <1>2, <1>4, <2>2 DEF TypeOver, id
  <2>6. (\A u \in TaskId : sched.on[u] => u \in tasks)'
    BY <1>1, <2>1, <2>2 DEF Books, OnSet
  <2>7. Books'
    BY <1>1, <2>2, <2>5, <2>6 DEF Books
  <2>. QED BY <2>1, <2>2, <2>4, <2>7 DEF Sound, Core, CurrentTask, OnSet
<1>. QED BY <1>3, <1>4

\* Finish: the task leaves the queues before its Task object is freed, and only its
\* own waiter is woken.
LEMMA FinishKeeps ==
  ASSUME NEW M, Sound(M), NEW t \in TaskId, NEW code \in ExitCodes, Finish(t, code)
  PROVE  /\ Sound(M)'
         /\ OnSet(sched') \in {OnSet(sched) \ {t}} \cup
              {(OnSet(sched) \ {t}) \cup {w} : w \in TaskId}
         /\ finish_waiter[t] # NoTask => finish_waiter[t] \in OnSet(sched')
         /\ sched'.lvl = [sched.lvl EXCEPT ![t] = kDefaultLevel]
         /\ cpu' \in Top(sched.lvl, OnSet(sched) \ {t})
<1>1. /\ Core(sched, OnSet(sched)) /\ TypeOver(M) /\ Books /\ cpu = CurrentTask(sched)
      /\ cpu = t /\ t # Idle /\ t # Main /\ t \in tasks /\ NoTask \notin TaskId
  BY CpuIsReady DEF Sound, Finish, Running, NoTask, TaskId
<1>. DEFINE R == OnSet(sched) \ {t}
            a == RotateCurrentRunQueue(sched, TRUE)
            g == [a EXCEPT !.on[t] = FALSE, !.lvl[t] = kDefaultLevel]
            w == finish_waiter[t]
            r == IF w = NoTask THEN g ELSE WakeupTask(g, w, KeepLevel)
<1>2. /\ Core(a, R) /\ a.on = sched.on /\ a.lvl = sched.lvl
      /\ CurrentTask(a) \in Top(sched.lvl, R)
  BY <1>1, RotateCorrect
<1>3. /\ tasks' = tasks \ {t}
      /\ msgs' = [msgs EXCEPT ![t] = << >>]
      /\ finish_tasks' = [finish_tasks EXCEPT ![t] = code]
      /\ finish_waiter' = [finish_waiter EXCEPT ![t] = NoTask]
      /\ sched' = r /\ cpu' = CurrentTask(r)
      /\ UNCHANGED <<latest_id, pc, subtask>> /\ subtask[t] = NoTask
  <2>. DEFINE id == CurrentTask(sched)
              g1 == [RotateCurrentRunQueue(sched, TRUE) EXCEPT
                       !.on[id] = FALSE, !.lvl[id] = kDefaultLevel]
  <2>1. id = t
    BY <1>1
  <2>2. /\ tasks' = tasks \ {id}
        /\ msgs' = [msgs EXCEPT ![id] = << >>]
        /\ finish_tasks' = [finish_tasks EXCEPT ![id] = code]
        /\ finish_waiter' = [finish_waiter EXCEPT ![id] = NoTask]
        /\ sched' = IF finish_waiter[id] = NoTask THEN g1
                    ELSE WakeupTask(g1, finish_waiter[id], KeepLevel)
        /\ cpu' = CurrentTask(sched')
        /\ UNCHANGED <<latest_id, pc, subtask>> /\ subtask[t] = NoTask
    BY Zenon DEF Finish
  <2>. HIDE DEF id
  <2>3. g1 = g
    BY <2>1, Zenon
  <2>. HIDE DEF g1, g, a
  <2>. QED BY <2>1, <2>2, <2>3
<1>. HIDE DEF a
<1>4. g = [run |-> a.run, cur |-> a.cur, chg |-> a.chg,
           lvl |-> [a.lvl EXCEPT ![t] = kDefaultLevel], on |-> [a.on EXCEPT ![t] = FALSE]]
  <2>1. a = [run |-> a.run, cur |-> a.cur, chg |-> a.chg, lvl |-> a.lvl, on |-> a.on]
    BY <1>2 DEF Core, SchedType
  <2>. DEFINE b == [a EXCEPT !.on[t] = FALSE]
  <2>2. b = [run |-> a.run, cur |-> a.cur, chg |-> a.chg,
             lvl |-> a.lvl, on |-> [a.on EXCEPT ![t] = FALSE]]
    <3>1. b = [a EXCEPT !.on = [a.on EXCEPT ![t] = FALSE]]
      OBVIOUS
    <3>. HIDE DEF b
    <3>. QED BY <2>1, <3>1
  <2>3. g = [b EXCEPT !.lvl[t] = kDefaultLevel]
    BY Zenon
  <2>. HIDE DEF b, g
  <2>4. g = [b EXCEPT !.lvl = [b.lvl EXCEPT ![t] = kDefaultLevel]]
    BY <2>3
  <2>. QED BY <2>2, <2>4
<1>. HIDE DEF g
<1>5. /\ a.run \in [Levels -> Seq(TaskId)] /\ a.cur \in Levels /\ a.chg \in BOOLEAN
      /\ a.lvl \in [TaskId -> Levels] /\ a.on \in [TaskId -> BOOLEAN]
      /\ kDefaultLevel \in Levels
  BY <1>2, TaskManagerAssumption DEF Core, SchedType, Levels, kDefaultLevel
<1>6. g \in SchedType /\ OnSet(g) = R
  BY <1>2, <1>4, <1>5 DEF SchedType, OnSet
<1>7. QueuesHold(g, R)
  <2>1. \A u \in R : g.lvl[u] = a.lvl[u]
    BY <1>4, <1>5 DEF OnSet
  <2>2. g.run = a.run
    BY <1>4
  <2>. QED BY <1>2, <2>1, <2>2 DEF Core, QueuesHold
<1>8. Core(g, OnSet(g)) /\ CurrentTask(g) = CurrentTask(a)
  BY <1>2, <1>4, <1>6, <1>7 DEF Core, NothingAbove, CurrentTask
<1>9. /\ Core(r, OnSet(r))
      /\ OnSet(r) = IF w = NoTask THEN R ELSE R \cup {w}
      /\ r.lvl = g.lvl /\ CurrentTask(r) = CurrentTask(a)
      /\ w = NoTask \/ w \in TaskId
  <2>1. CASE w = NoTask
    BY <1>6, <1>8, <2>1
  <2>2. CASE w # NoTask
    <3>1. w \in TaskId
      BY <1>1, <2>2 DEF TypeOver
    <3>. DEFINE v == WakeupTask(g, w, KeepLevel)
    <3>2. /\ Core(v, OnSet(v)) /\ OnSet(v) = OnSet(g) \cup {w}
          /\ v.lvl = g.lvl /\ CurrentTask(v) = CurrentTask(g)
      BY <1>8, <3>1, WakeupKeepsCore
    <3>. QED BY <1>6, <1>8, <2>2, <3>1, <3>2
  <2>. QED BY <2>1, <2>2
<1>. HIDE DEF r, w
<1>10. cpu' \in Top(sched.lvl, R) /\ cpu' \in TaskId
  BY <1>2, <1>3, <1>9 DEF Top, OnSet
<1>11. TypeOver(M)'
  <2>1. << >> \in Seq(M)
    OBVIOUS
  <2>. QED BY <1>1, <1>3, <1>9, <1>10, <2>1 DEF TypeOver, Core
<1>12. w = NoTask \/ (w \in tasks /\ w # t)
  BY <1>1, <1>3, <1>9 DEF Books, w
<1>13. Books'
  <2>1. /\ ({Main, Idle} \subseteq tasks)' /\ (\A u \in tasks : u <= latest_id)'
    BY <1>1, <1>3 DEF Books
  <2>2. (\A u \in TaskId : sched.on[u] => u \in tasks)'
    BY <1>1, <1>3, <1>9, <1>12 DEF Books, OnSet
  <2>3. (\A u \in TaskId : finish_tasks[u] # NoCode => u \notin tasks /\ u <= latest_id)'
    BY <1>1, <1>3 DEF Books, TypeOver
  <2>4. ASSUME NEW u \in TaskId, subtask'[u] # NoTask
        PROVE  /\ u \in tasks' /\ subtask'[u] <= latest_id'
               /\ subtask'[u] \in tasks' <=> finish_tasks'[subtask'[u]] = NoCode
    <3>1. /\ u # t /\ u \in tasks /\ subtask[u] <= latest_id
          /\ subtask[u] \in tasks <=> finish_tasks[subtask[u]] = NoCode
          /\ subtask[u] \in TaskId /\ code # NoCode
      BY <1>1, <1>3, <2>4, NoCodeAssumption DEF Books, TypeOver
    <3>. QED BY <1>1, <1>3, <3>1 DEF TypeOver
  <2>5. (\A u, v \in TaskId : subtask[u] = subtask[v] /\ subtask[u] # NoTask => u = v)'
    BY <1>1, <1>3 DEF Books
  <2>6. (\A u \in TaskId : finish_waiter[u] # NoTask =>
           u \in tasks /\ subtask[finish_waiter[u]] = u)'
    BY <1>1, <1>3 DEF Books, TypeOver
  <2>. QED BY <2>1, <2>2, <2>3, <2>4, <2>5, <2>6 DEF Books
<1>14. Sound(M)'
  BY <1>3, <1>9, <1>11, <1>13 DEF Sound, Core, CurrentTask, OnSet
<1>15. finish_waiter[t] # NoTask => finish_waiter[t] \in OnSet(sched')
  BY <1>3, <1>9 DEF w
<1>. QED BY <1>2, <1>3, <1>4, <1>9, <1>10, <1>14, <1>15

\* A message is handled.
LEMMA HandlerDoneKeeps ==
  ASSUME NEW M, Sound(M), NEW t \in TaskId, HandlerDone(t)
  PROVE  Sound(M)'
<1>1. UNCHANGED <<tasks, latest_id, sched, cpu, msgs, finish_tasks, finish_waiter, subtask>>
      /\ pc' = [pc EXCEPT ![t] = "recv"]
  BY DEF HandlerDone
<1>2. TypeOver(M)'
  BY <1>1 DEF Sound, TypeOver
<1>. QED BY <1>1, <1>2 DEF Sound, Books, Core, CurrentTask, OnSet, QueuesHold, NothingAbove

\* Nothing happens.
LEMMA StutterKeeps == ASSUME NEW M, Sound(M), UNCHANGED vars PROVE Sound(M)'
BY DEF vars, Sound, TypeOver, Books, Core, CurrentTask, OnSet, QueuesHold, NothingAbove

\* Wakeup(id, level).
LEMMA WakeupByIdKeeps ==
  ASSUME NEW M, Sound(M), NEW id \in tasks, NEW level \in Levels,
         sched' = WakeupTask(sched, id, level),
         UNCHANGED <<tasks, latest_id, cpu, msgs, finish_tasks, finish_waiter, pc, subtask>>
  PROVE  Sound(M)'
<1>1. Core(sched, OnSet(sched)) /\ TypeOver(M) /\ Books /\ cpu = CurrentTask(sched) /\ id \in TaskId
  BY DEF Sound, TypeOver
<1>. DEFINE r == WakeupTask(sched, id, level)
<1>2. /\ Core(r, OnSet(r)) /\ OnSet(r) = OnSet(sched) \cup {id}
      /\ CurrentTask(r) = CurrentTask(sched)
  BY <1>1, WakeupKeepsCore
<1>. HIDE DEF r
<1>3. sched' = r
  BY DEF r
<1>4. TypeOver(M)'
  BY <1>1, <1>2, <1>3 DEF TypeOver, Core
<1>5. Books'
  BY <1>1, <1>2, <1>3 DEF Books, OnSet
<1>. QED BY <1>1, <1>2, <1>3, <1>4, <1>5 DEF Sound, Core, CurrentTask, OnSet

\* Sleep(id) of any task but the idle one.
LEMMA SleepByIdKeeps ==
  ASSUME NEW M, Sound(M), NEW id \in tasks \ {Idle},
         sched' = SleepTask(sched, id),
         cpu' = IF sched.on[id] /\ id = CurrentTask(sched) THEN CurrentTask(sched') ELSE cpu,
         UNCHANGED <<tasks, latest_id, msgs, finish_tasks, finish_waiter, pc, subtask>>
  PROVE  Sound(M)'
<1>1. Core(sched, OnSet(sched)) /\ TypeOver(M) /\ Books /\ cpu = CurrentTask(sched) /\ id \in TaskId
  BY DEF Sound, TypeOver
<1>. DEFINE r == SleepTask(sched, id)
<1>2. /\ Core(r, OnSet(r)) /\ OnSet(r) = OnSet(sched) \ {id}
      /\ ~sched.on[id] \/ id # CurrentTask(sched) => CurrentTask(r) = CurrentTask(sched)
  BY <1>1, SleepKeepsCore
<1>. HIDE DEF r
<1>3. sched' = r /\ cpu' = CurrentTask(r)
  BY <1>1, <1>2 DEF r, CurrentTask
<1>4. cpu' \in TaskId
  BY <1>2, <1>3, FrontIsReady DEF OnSet
<1>5. TypeOver(M)'
  BY <1>1, <1>2, <1>3, <1>4 DEF TypeOver, Core
<1>6. Books'
  BY <1>1, <1>2, <1>3 DEF Books, OnSet
<1>. QED BY <1>2, <1>3, <1>5, <1>6 DEF Sound, Core, CurrentTask, OnSet

\* The invariant of TaskManager's own specifications.
IInv ==
  /\ TypeOK
  /\ Core(sched, OnSet(sched))
  /\ cpu = CurrentTask(sched)
  /\ Books

\* It is the one above, for Messages.
LEMMA IInvIs == (IInv <=> Sound(Messages)) /\ (IInv' <=> Sound(Messages)')
BY DEF IInv, Sound, TypeOK, TypeOver

\* The constructor's state has the invariant.
LEMMA InitIInv == Init => IInv
BY InitIsSound, IInvIs

\* The loaded task is ready.
LEMMA CpuReady == IInv => cpu \in OnSet(sched) /\ cpu \in tasks /\ cpu \in TaskId
BY CpuIsReady, IInvIs

\* Every step of the whole interface keeps the invariant.
LEMMA StepIInv == IInv /\ [ApiNext]_vars => IInv'
<1>. SUFFICES ASSUME IInv, [ApiNext]_vars PROVE IInv'
  OBVIOUS
<1>. USE IInvIs
<1>1. CASE SwitchTask
  BY <1>1, SwitchKeeps
<1>2. CASE InterruptSend
  BY <1>2, SendKeeps DEF InterruptSend
<1>3. ASSUME NEW t \in TaskId, \E join \in BOOLEAN : Spawn(t, join) PROVE IInv'
  BY <1>3, SpawnKeeps
<1>4. ASSUME NEW t \in TaskId, TaskSend(t) PROVE IInv'
  BY <1>4, SendKeeps DEF TaskSend
<1>5. ASSUME NEW t \in TaskId, HandlerDone(t) PROVE IInv'
  BY <1>5, HandlerDoneKeeps
<1>6. ASSUME NEW t \in TaskId, ReceiveMessage(t) PROVE IInv'
  BY <1>6, ReceiveKeeps
<1>7. ASSUME NEW t \in TaskId, WaitFinish(t) PROVE IInv'
  BY <1>7, WaitKeeps
<1>8. ASSUME NEW t \in TaskId, \E code \in ExitCodes : Finish(t, code) PROVE IInv'
  BY <1>8, FinishKeeps
<1>9. ASSUME NEW t \in TaskId, WakeupById(t) PROVE IInv'
  BY <1>9, WakeupByIdKeeps DEF WakeupById
<1>10. ASSUME NEW t \in TaskId, SleepById(t) PROVE IInv'
  BY <1>10, SleepByIdKeeps DEF SleepById
<1>11. CASE UNCHANGED vars
  BY <1>11, StutterKeeps
<1>. QED BY <1>1, <1>2, <1>3, <1>4, <1>5, <1>6, <1>7, <1>8, <1>9, <1>10, <1>11 DEF ApiNext, Next

\* What the invariant gives.
LEMMA IInvImplies == IInv => TypeOK /\ RunQueues /\ CpuIsCurrentTask /\ NoDanglingTask /\ ExitCodeKept
<1>. SUFFICES ASSUME IInv PROVE TypeOK /\ RunQueues /\ CpuIsCurrentTask /\ NoDanglingTask /\ ExitCodeKept
  OBVIOUS
<1>1. TypeOK /\ CpuIsCurrentTask
  BY DEF IInv, CpuIsCurrentTask
<1>2. RunQueues
  BY DEF IInv, Core, RunQueues, Ready, OnSet
<1>3. NoDanglingTask
  <2>1. NoTask \notin TaskId
    BY DEF NoTask, TaskId
  <2>. QED BY <1>1, <2>1 DEF IInv, Books, TypeOK, NoDanglingTask
<1>4. ExitCodeKept
  BY DEF IInv, Books, TypeOK, ExitCodeKept
<1>. QED BY <1>1, <1>2, <1>3, <1>4

-----------------------------------------------------------------------------
(* No wakeup is lost.  Sleep(id) puts any task to sleep, so this is about   *)
(* the kernel's own steps, Next.                                            *)

\* What a wakeup does to the set of awake tasks and to the levels.
LEMMA WakeupEffect ==
  ASSUME IInv, NEW id \in TaskId, NEW level \in Levels \cup {KeepLevel}
  PROVE  /\ OnSet(WakeupTask(sched, id, level)) = OnSet(sched) \cup {id}
         /\ \E lv \in Levels :
              WakeupTask(sched, id, level).lvl = [sched.lvl EXCEPT ![id] = lv]
<1>. DEFINE r == WakeupTask(sched, id, level)
<1>1. Core(sched, OnSet(sched))
  BY DEF IInv
<1>2. /\ Core(r, OnSet(r))
      /\ OnSet(r) = OnSet(sched) \cup {id}
      /\ \E lv \in Levels : r.lvl = [sched.lvl EXCEPT ![id] = lv]
      /\ level = KeepLevel => r.lvl = sched.lvl
      /\ CurrentTask(r) = CurrentTask(sched)
  BY <1>1, WakeupKeepsCore
<1>. QED BY <1>2

\* A message reaches a task that is awake then, and disturbs no other one.
LEMMA SendWakes ==
  ASSUME IInv, NoLostWakeup, NEW id \in TaskId, NEW m \in Messages, SendMessage(id, m)
  PROVE  NoLostWakeup'
<1>1. OnSet(sched') = OnSet(sched) \cup {id}
  BY WakeupEffect DEF SendMessage, Post
<1>2. msgs \in [TaskId -> Seq(Messages)] /\ tasks \subseteq TaskId
  BY DEF IInv, TypeOK
<1>3. /\ msgs' = [msgs EXCEPT ![id] = Append(@, m)]
      /\ UNCHANGED <<tasks, latest_id, cpu, finish_tasks, finish_waiter, pc, subtask>>
  BY DEF SendMessage, Post
<1>4. ASSUME NEW u \in tasks \ {Idle}, ~sched'.on[u]
      PROVE  ~sched.on[u] /\ msgs'[u] = msgs[u]
  BY <1>1, <1>2, <1>3, <1>4 DEF OnSet
<1>. QED BY <1>3, <1>4 DEF NoLostWakeup

\* A spawned task is awake; its parent, which runs, is too.
LEMMA SpawnWakes ==
  ASSUME IInv, NoLostWakeup, NEW t \in TaskId, NEW join \in BOOLEAN, Spawn(t, join)
  PROVE  NoLostWakeup'
<1>. DEFINE id == latest_id + 1
<1>1. /\ id \in TaskId /\ t \in OnSet(sched) /\ tasks \subseteq TaskId
      /\ subtask \in [TaskId -> TaskId \cup {NoTask}]
  <2>1. id \in TaskId
    BY TaskManagerAssumption DEF IInv, TypeOK, TaskId, Spawn
  <2>2. t \in OnSet(sched)
    BY CpuReady DEF Spawn, Running
  <2>3. tasks \subseteq TaskId /\ subtask \in [TaskId -> TaskId \cup {NoTask}]
    BY DEF IInv, TypeOK
  <2>. QED BY <2>1, <2>2, <2>3
<1>2. OnSet(sched') = OnSet(sched) \cup {id}
  <2>1. sched' = WakeupTask(sched, id, KeepLevel)
    BY DEF Spawn
  <2>2. OnSet(WakeupTask(sched, id, KeepLevel)) = OnSet(sched) \cup {id}
    BY <1>1, WakeupEffect
  <2>. QED BY <2>1, <2>2
<1>3. /\ tasks' = tasks \cup {id}
      /\ subtask' = IF join THEN [subtask EXCEPT ![t] = id] ELSE subtask
      /\ UNCHANGED <<cpu, msgs, finish_tasks, finish_waiter, pc>>
  BY DEF Spawn
<1>. HIDE DEF id
<1>4. ASSUME NEW u \in tasks' \ {Idle}, ~sched'.on[u]
      PROVE  u \in tasks /\ ~sched.on[u] /\ subtask'[u] = subtask[u]
  BY <1>1, <1>2, <1>3, <1>4 DEF OnSet
<1>. QED BY <1>3, <1>4 DEF NoLostWakeup

\* A task that finds no message goes to sleep with its queue empty: the look and the
\* sleep are one step.
LEMMA ReceiveWakes ==
  ASSUME IInv, NoLostWakeup, NEW t \in TaskId, ReceiveMessage(t)
  PROVE  NoLostWakeup'
<1>1. /\ t \in OnSet(sched) /\ t # Idle /\ tasks \subseteq TaskId /\ pc[t] = "recv"
      /\ msgs \in [TaskId -> Seq(Messages)] /\ pc \in [TaskId -> {"run", "recv", "wait"}]
  BY CpuReady DEF IInv, TypeOK, ReceiveMessage, Running
<1>2. CASE msgs[t] # << >>
  <2>1. /\ msgs' = [msgs EXCEPT ![t] = Tail(@)] /\ pc' = [pc EXCEPT ![t] = "run"]
        /\ UNCHANGED <<tasks, sched, finish_tasks, finish_waiter, subtask>>
    BY <1>2 DEF ReceiveMessage
  <2>2. ASSUME NEW u \in tasks \ {Idle}, ~sched.on[u]
        PROVE  msgs'[u] = msgs[u] /\ pc'[u] = pc[u]
    BY <1>1, <2>1, <2>2 DEF OnSet
  <2>. QED BY <2>1, <2>2 DEF NoLostWakeup
<1>3. CASE msgs[t] = << >>
  <2>1. OnSet(sched') = OnSet(sched) \ {t}
    BY <1>1, <1>3, SleepKeepsCore DEF IInv, ReceiveMessage
  <2>2. UNCHANGED <<tasks, msgs, pc, finish_tasks, finish_waiter, subtask>>
    BY <1>3 DEF ReceiveMessage
  <2>3. ASSUME NEW u \in tasks \ {Idle}, ~sched'.on[u] PROVE u = t \/ ~sched.on[u]
    BY <1>1, <2>1, <2>3 DEF OnSet
  <2>. QED BY <1>1, <1>3, <2>2, <2>3 DEF NoLostWakeup
<1>. QED BY <1>2, <1>3

\* A task that waits is registered before it sleeps, and nobody else is registered with
\* the task it waits for.
LEMMA WaitWakes ==
  ASSUME IInv, NoLostWakeup, NEW t \in TaskId, WaitFinish(t)
  PROVE  NoLostWakeup'
<1>. DEFINE id == subtask[t]
<1>1. /\ t \in OnSet(sched) /\ t # Idle /\ tasks \subseteq TaskId
      /\ t = CurrentTask(sched) /\ NoTask \notin TaskId /\ id \in TaskId
      /\ pc \in [TaskId -> {"run", "recv", "wait"}]
      /\ subtask \in [TaskId -> TaskId \cup {NoTask}]
      /\ finish_tasks \in [TaskId -> ExitCodes \cup {NoCode}]
      /\ finish_waiter \in [TaskId -> TaskId \cup {NoTask}]
  BY CpuReady DEF IInv, TypeOK, WaitFinish, Running, NoTask, TaskId
<1>2. \A u \in TaskId : subtask[u] = id => u = t
  BY <1>1 DEF IInv, Books
<1>3. CASE finish_tasks[id] # NoCode
  <2>1. /\ finish_tasks' = [finish_tasks EXCEPT ![id] = NoCode]
        /\ subtask' = [subtask EXCEPT ![t] = NoTask]
        /\ pc' = [pc EXCEPT ![t] = "run"]
        /\ UNCHANGED <<tasks, msgs, sched, finish_waiter>>
    BY <1>3 DEF WaitFinish
  <2>2. ASSUME NEW u \in tasks \ {Idle}, ~sched.on[u]
        PROVE  /\ pc'[u] = pc[u] /\ subtask'[u] = subtask[u]
               /\ finish_tasks'[subtask[u]] = finish_tasks[subtask[u]]
    BY <1>1, <1>2, <2>1, <2>2 DEF OnSet
  <2>. QED BY <2>1, <2>2 DEF NoLostWakeup
<1>4. CASE finish_tasks[id] = NoCode
  <2>1. /\ finish_waiter' = [finish_waiter EXCEPT ![id] = t]
        /\ pc' = [pc EXCEPT ![t] = "wait"]
        /\ UNCHANGED <<tasks, msgs, finish_tasks, subtask>>
    BY <1>1, <1>4 DEF WaitFinish
  <2>2. OnSet(sched') = OnSet(sched) \ {t}
    BY <1>1, <1>4, SleepKeepsCore DEF IInv, WaitFinish
  <2>3. ASSUME NEW u \in tasks \ {Idle}, u # t, ~sched'.on[u]
        PROVE  /\ ~sched.on[u] /\ pc'[u] = pc[u]
               /\ finish_waiter'[subtask[u]] = finish_waiter[subtask[u]]
    BY <1>1, <1>2, <2>1, <2>2, <2>3 DEF OnSet
  <2>4. pc'[t] = "wait" /\ finish_waiter'[id] = t
    BY <1>1, <2>1
  <2>. QED BY <1>4, <2>1, <2>3, <2>4 DEF NoLostWakeup
<1>. QED BY <1>3, <1>4

\* Finish wakes the task that waits for the one that ends.
LEMMA FinishWakes ==
  ASSUME IInv, NoLostWakeup, NEW t \in TaskId, NEW code \in ExitCodes, Finish(t, code)
  PROVE  NoLostWakeup'
<1>1. /\ t = CurrentTask(sched) /\ tasks \subseteq TaskId
      /\ msgs \in [TaskId -> Seq(Messages)]
      /\ finish_tasks \in [TaskId -> ExitCodes \cup {NoCode}]
      /\ finish_waiter \in [TaskId -> TaskId \cup {NoTask}]
  BY DEF IInv, TypeOK, Finish, Running
<1>2. /\ tasks' = tasks \ {t}
      /\ msgs' = [msgs EXCEPT ![t] = << >>]
      /\ finish_tasks' = [finish_tasks EXCEPT ![t] = code]
      /\ finish_waiter' = [finish_waiter EXCEPT ![t] = NoTask]
      /\ UNCHANGED <<pc, subtask>>
  BY <1>1 DEF Finish
<1>3. /\ OnSet(sched) \ {t} \subseteq OnSet(sched')
      /\ finish_waiter[t] # NoTask => finish_waiter[t] \in OnSet(sched')
  BY FinishKeeps, IInvIs
<1>4. ASSUME NEW u \in tasks' \ {Idle}, ~sched'.on[u]
      PROVE  /\ u \in tasks /\ ~sched.on[u] /\ msgs'[u] = msgs[u]
             /\ finish_waiter[subtask[u]] = u => subtask[u] # t
  <2>1. u \in TaskId /\ u # t /\ u \in tasks
    BY <1>1, <1>2
  <2>2. u \notin OnSet(sched')
    BY <1>4 DEF OnSet
  <2>3. u # NoTask
    BY <2>1 DEF TaskId, NoTask
  <2>. QED BY <1>1, <1>2, <1>3, <2>1, <2>2, <2>3 DEF OnSet
<1>5. \A i \in TaskId \cup {NoTask} : i # t =>
        finish_waiter'[i] = finish_waiter[i] /\ finish_tasks'[i] = finish_tasks[i]
  BY <1>1, <1>2
<1>6. \A u \in tasks : subtask[u] \in TaskId \cup {NoTask}
  BY <1>1 DEF IInv, TypeOK
<1>. QED BY <1>2, <1>4, <1>5, <1>6 DEF NoLostWakeup

\* No step of the kernel loses a wakeup.
LEMMA StepNoLostWakeup == IInv /\ NoLostWakeup /\ [Next]_vars => NoLostWakeup'
<1>. SUFFICES ASSUME IInv, NoLostWakeup, [Next]_vars PROVE NoLostWakeup'
  OBVIOUS
<1>1. CASE SwitchTask
  <2>1. sched'.on = sched.on
    BY <1>1, RotateCorrect DEF IInv, SwitchTask
  <2>. QED BY <1>1, <2>1 DEF SwitchTask, NoLostWakeup
<1>2. CASE InterruptSend
  BY <1>2, SendWakes DEF InterruptSend
<1>3. ASSUME NEW t \in TaskId, \E join \in BOOLEAN : Spawn(t, join) PROVE NoLostWakeup'
  BY <1>3, SpawnWakes
<1>4. ASSUME NEW t \in TaskId, TaskSend(t) PROVE NoLostWakeup'
  BY <1>4, SendWakes DEF TaskSend
<1>5. ASSUME NEW t \in TaskId, HandlerDone(t) PROVE NoLostWakeup'
  <2>1. t \in OnSet(sched) /\ pc \in [TaskId -> {"run", "recv", "wait"}] /\ tasks \subseteq TaskId
    BY <1>5, CpuReady DEF HandlerDone, Running, IInv, TypeOK
  <2>. QED BY <1>5, <2>1 DEF HandlerDone, NoLostWakeup, OnSet
<1>6. ASSUME NEW t \in TaskId, ReceiveMessage(t) PROVE NoLostWakeup'
  BY <1>6, ReceiveWakes
<1>7. ASSUME NEW t \in TaskId, WaitFinish(t) PROVE NoLostWakeup'
  BY <1>7, WaitWakes
<1>8. ASSUME NEW t \in TaskId, \E code \in ExitCodes : Finish(t, code) PROVE NoLostWakeup'
  BY <1>8, FinishWakes
<1>9. CASE UNCHANGED vars
  BY <1>9 DEF vars, NoLostWakeup
<1>. QED BY <1>1, <1>2, <1>3, <1>4, <1>5, <1>6, <1>7, <1>8, <1>9 DEF Next

-----------------------------------------------------------------------------
(* The task manager implements PriorityScheduler: each step of the former,  *)
(* seen through levels, ready tasks and cpu, is a step of the latter.       *)

Abstract == <<sched.lvl, Ready, cpu>>
Implements == Priority!Next \/ Abstract' = Abstract

\* A wakeup is a Wake, a SetLevel or nothing.
LEMMA WakeImplements ==
  ASSUME IInv, NEW id \in TaskId, NEW level \in Levels \cup {KeepLevel},
         sched' = WakeupTask(sched, id, level), cpu' = cpu
  PROVE  Implements
<1>1. /\ OnSet(sched') = OnSet(sched) \cup {id}
      /\ \E lv \in Levels : sched'.lvl = [sched.lvl EXCEPT ![id] = lv]
  BY WakeupEffect
<1>2. PICK lv \in Levels : sched'.lvl = [sched.lvl EXCEPT ![id] = lv]
  BY <1>1
<1>3. Ready = OnSet(sched) /\ Ready' = OnSet(sched')
  BY DEF Ready, OnSet
<1>4. CASE id \in Ready
  <2>1. Ready' = Ready
    BY <1>1, <1>3, <1>4
  <2>. QED BY <1>2, <1>4, <2>1 DEF Implements, Priority!Next, Priority!SetLevel
<1>5. CASE id \notin Ready
  <2>1. Ready' = Ready \cup {id} /\ id \in TaskId \ Ready
    BY <1>1, <1>3, <1>5
  <2>. QED BY <1>2, <2>1 DEF Implements, Priority!Next, Priority!Wake
<1>. QED BY <1>4, <1>5

\* Going to sleep is a Block of the current task, a Suspend of another, or nothing.
LEMMA SleepImplements ==
  ASSUME IInv, NEW id \in TaskId \ {Idle}, sched' = SleepTask(sched, id),
         cpu' = IF sched.on[id] /\ id = CurrentTask(sched) THEN CurrentTask(sched') ELSE cpu
  PROVE  Implements
<1>1. /\ OnSet(sched') = OnSet(sched) \ {id} /\ sched'.lvl = sched.lvl
      /\ sched.on[id] /\ id = CurrentTask(sched) =>
           CurrentTask(sched') \in Top(sched.lvl, OnSet(sched) \ {id})
  BY SleepKeepsCore DEF IInv
<1>2. /\ Ready = OnSet(sched) /\ Ready' = OnSet(sched') /\ cpu = CurrentTask(sched)
      /\ sched.on[id] <=> id \in Ready
  BY DEF Ready, OnSet, IInv
<1>3. CASE id \notin Ready
  BY <1>1, <1>2, <1>3 DEF Implements, Abstract
<1>4. CASE id \in Ready /\ id # cpu
  BY <1>1, <1>2, <1>4 DEF Implements, Priority!Next, Priority!Suspend
<1>5. CASE id \in Ready /\ id = cpu
  BY <1>1, <1>2, <1>5 DEF Implements, Priority!Next, Priority!Block, Priority!Top, Top
<1>. QED BY <1>3, <1>4, <1>5

\* Every step of the class is one of the scheduler's, or none.
LEMMA StepImplements == IInv /\ [ApiNext]_vars => Implements
<1>. SUFFICES ASSUME IInv, [ApiNext]_vars PROVE Implements
  OBVIOUS
<1>0. Ready = OnSet(sched) /\ Ready' = OnSet(sched') /\ KeepLevel \in Levels \cup {KeepLevel}
  BY DEF Ready, OnSet
<1>1. CASE SwitchTask
  <2>1. /\ sched'.on = sched.on /\ sched'.lvl = sched.lvl
        /\ cpu' \in Top(sched.lvl, OnSet(sched))
    BY <1>1, RotateCorrect DEF IInv, SwitchTask
  <2>2. Ready' = Ready
    BY <2>1 DEF Ready
  <2>. QED BY <1>0, <2>1, <2>2 DEF Implements, Priority!Next, Priority!Preempt, Priority!Top, Top
<1>2. ASSUME NEW id \in TaskId, NEW m \in Messages, SendMessage(id, m) PROVE Implements
  BY <1>2, WakeImplements DEF SendMessage, Post
<1>3. ASSUME NEW t \in TaskId, \E join \in BOOLEAN : Spawn(t, join) PROVE Implements
  <2>1. latest_id + 1 \in TaskId
    BY <1>3, TaskManagerAssumption DEF Spawn, IInv, TypeOK, TaskId
  <2>. QED BY <1>3, <2>1, WakeImplements DEF Spawn
<1>4. ASSUME NEW t \in TaskId, HandlerDone(t) PROVE Implements
  BY <1>4 DEF HandlerDone, Implements, Abstract, Ready
<1>5. ASSUME NEW t \in TaskId, ReceiveMessage(t) PROVE Implements
  <2>1. t = cpu /\ t # Idle /\ cpu = CurrentTask(sched) /\ sched.on[t]
    BY <1>5, CpuReady DEF ReceiveMessage, Running, IInv, OnSet
  <2>2. CASE UNCHANGED <<sched, cpu>>
    BY <2>2 DEF Implements, Abstract, Ready
  <2>3. CASE sched' = SleepTask(sched, t) /\ cpu' = CurrentTask(sched')
    BY <2>1, <2>3, SleepImplements
  <2>. QED BY <1>5, <2>1, <2>2, <2>3 DEF ReceiveMessage
<1>6. ASSUME NEW t \in TaskId, WaitFinish(t) PROVE Implements
  <2>1. t = cpu /\ t # Idle /\ cpu = CurrentTask(sched) /\ sched.on[t]
    BY <1>6, CpuReady DEF WaitFinish, Running, IInv, OnSet
  <2>2. CASE UNCHANGED <<sched, cpu>>
    BY <2>2 DEF Implements, Abstract, Ready
  <2>3. CASE sched' = SleepTask(sched, t) /\ cpu' = CurrentTask(sched')
    BY <2>1, <2>3, SleepImplements
  <2>. QED BY <1>6, <2>1, <2>2, <2>3 DEF WaitFinish
<1>7. ASSUME NEW t \in TaskId, NEW code \in ExitCodes, Finish(t, code) PROVE Implements
  <2>1. t = cpu
    BY <1>7 DEF Finish, Running
  <2>2. /\ OnSet(sched') \in {OnSet(sched) \ {t}} \cup
             {(OnSet(sched) \ {t}) \cup {w} : w \in TaskId}
        /\ sched'.lvl = [sched.lvl EXCEPT ![t] = kDefaultLevel]
        /\ cpu' \in Top(sched.lvl, OnSet(sched) \ {t})
    BY <1>7, FinishKeeps, IInvIs
  <2>3. Ready' = Ready \ {cpu} \/ \E w \in TaskId : Ready' = (Ready \ {cpu}) \cup {w}
    BY <1>0, <2>1, <2>2
  <2>. QED BY <1>0, <2>1, <2>2, <2>3 DEF Implements, Priority!Next, Priority!Exit, Priority!Top, Top
<1>8. ASSUME NEW t \in TaskId, WakeupById(t) PROVE Implements
  BY <1>8, WakeImplements DEF WakeupById, IInv, TypeOK
<1>9. ASSUME NEW t \in TaskId, SleepById(t) PROVE Implements
  BY <1>9, SleepImplements DEF SleepById, IInv, TypeOK
<1>10. CASE UNCHANGED vars
  BY <1>10 DEF vars, Implements, Abstract, Ready
<1>. QED BY <1>1, <1>2, <1>3, <1>4, <1>5, <1>6, <1>7, <1>8, <1>9, <1>10
         DEF ApiNext, Next, InterruptSend, TaskSend

-----------------------------------------------------------------------------
(* The theorems.                                                            *)

\* The invariant holds of the whole interface.
THEOREM IInvHolds == ApiSpec => []IInv
BY InitIInv, StepIInv, PTL DEF ApiSpec

\* The kernel uses a part of the interface.
LEMMA SpecIsApi == Spec => ApiSpec
<1>1. [Next]_vars => [ApiNext]_vars
  BY DEF ApiNext
<1>. QED BY <1>1, PTL DEF Spec, ApiSpec

\* Every member keeps its type.
THEOREM TypeCorrect == ApiSpec => []TypeOK
BY IInvHolds, IInvImplies, PTL

\* For every number of tasks and levels: the run queues hold exactly the running
\* tasks, once each, at their level; the current queue is never empty; and
\* level_changed_ is set whenever a higher queue has a task.
THEOREM RunQueuesCorrect == ApiSpec => []RunQueues
BY IInvHolds, IInvImplies, PTL

\* The context on the cpu is always the one of the task TaskManager calls current.
THEOREM CpuCorrect == ApiSpec => []CpuIsCurrentTask
BY IInvHolds, IInvImplies, PTL

\* No run queue and no entry of finish_waiter_ names a freed Task, in the kernel's
\* use of the task manager.
THEOREM NoDangling == Spec => []NoDanglingTask
BY IInvHolds, IInvImplies, SpecIsApi, PTL

\* For every number of tasks and levels, under the whole interface: the cpu is only ever
\* handed to a ready task of the highest level.
THEOREM StrictPriorityCorrect == ApiSpec => StrictPriority
<1>1. Init => Priority!Init
  <2>. SUFFICES ASSUME Init PROVE Priority!Init
    OBVIOUS
  <2>1. {Main, Idle} \subseteq TaskId
    BY TaskManagerAssumption DEF Main, Idle, TaskId
  <2>2. Ready = {Main, Idle}
    BY <2>1 DEF Init, Ready
  <2>. QED BY <2>2 DEF Init, Priority!Init
<1>2. IInv /\ [ApiNext]_vars => [Priority!Next]_(Priority!vars)
  BY StepImplements DEF Implements, Abstract, Priority!vars
<1>. QED BY <1>1, <1>2, IInvHolds, PTL DEF ApiSpec, StrictPriority, Priority!Spec

\* A task asleep in its message loop has no message, and one asleep in WaitFinish is
\* registered with a task that has not finished.
THEOREM WakeupsKept == Spec => []NoLostWakeup
<1>1. Init => NoLostWakeup
  <2>. SUFFICES ASSUME Init PROVE NoLostWakeup
    OBVIOUS
  <2>1. sched.on = [t \in TaskId |-> t \in {Main, Idle}] /\ tasks = {Main, Idle}
    BY DEF Init
  <2>2. Main \in TaskId
    BY TaskManagerAssumption DEF Main, TaskId
  <2>. QED BY <2>1, <2>2 DEF NoLostWakeup
<1>. QED BY <1>1, StepNoLostWakeup, IInvHolds, SpecIsApi, PTL DEF Spec

\* A parent finds its child alive or its exit code waiting.
THEOREM ExitCodeDelivered == Spec => []ExitCodeKept
BY IInvHolds, IInvImplies, SpecIsApi, PTL

=============================================================================
