---------------------------- MODULE TimersProofs ----------------------------
(* Proofs about Timers, for every period of the task timer, frequency of the *)
(* clock, blinking period and timeouts of the applications' timers: ready    *)
(* tasks of the highest level get the cpu in time, the wall clock and the    *)
(* cursor go on, without drift, and a tick fires every timer that is due.    *)
EXTENDS TaskManagerProofs, Timers, FiniteSetTheorems

-----------------------------------------------------------------------------
(* Numbers, and what is done one after the other.                          *)

Less == {p \in Nat \X Nat : p[1] < p[2]}

\* A nonempty set of natural numbers has a least element.
LEMMA LeastNatural ==
  ASSUME NEW S \in SUBSET Nat, S # {}
  PROVE  \E x \in S : \A y \in S : x <= y
<1>1. OpToRel(<, Nat) = Less
  BY DEF OpToRel, Less
<1>2. IsWellFoundedOn(Less, Nat)
  BY NatLessThanWellFounded, <1>1
<1>3. PICK x \in S : \A y \in S : ~ (<<y, x>> \in Less)
  BY <1>2, WFMin, Zenon
<1>4. \A y \in S : x <= y
  <2> SUFFICES ASSUME NEW y \in S PROVE x <= y
    OBVIOUS
  <2>1. x \in Nat /\ y \in Nat
    OBVIOUS
  <2>2. ~ (<<y, x>> \in Less)
    BY <1>3
  <2> QED BY <2>1, <2>2 DEF Less
<1> QED BY <1>4

\* A set of natural numbers with 0 and the successors of its members has them all.
LEMMA InductionOn ==
  ASSUME NEW S \in SUBSET Nat, 0 \in S, \A n \in S : n + 1 \in S
  PROVE  S = Nat
<1> SUFFICES ASSUME Nat \ S # {} PROVE FALSE
  OBVIOUS
<1> DEFINE U == Nat \ S
<1>1. U \in SUBSET Nat /\ U # {}
  OBVIOUS
<1> HIDE DEF U
<1>2. PICK x \in U : \A y \in U : x <= y
  BY <1>1, LeastNatural
<1>3. x \in Nat /\ x \notin S /\ x # 0
  BY <1>2, <1>1 DEF U
<1>4. x - 1 \in Nat /\ x - 1 \notin U
  BY <1>2, <1>3
<1>5. x - 1 \in S
  BY <1>4 DEF U
<1> QED BY <1>5, <1>3

\* A nonempty set of numbers of 1 .. n has a greatest element, which Max chooses.
LEMMA MaxOf ==
  ASSUME NEW n \in Nat, NEW S \in SUBSET (1 .. n), S # {}
  PROVE  Max(S) \in S /\ \A y \in S : y <= Max(S)
<1> DEFINE D == {n - y : y \in S}
<1>1. D \in SUBSET Nat /\ D # {}
  OBVIOUS
<1>2. \A y \in S : y \in Int /\ n - y \in D
  OBVIOUS
<1>3. \A d \in D : \E y \in S : d = n - y
  OBVIOUS
<1> HIDE DEF D
<1>4. PICK d \in D : \A e \in D : d <= e
  BY <1>1, LeastNatural
<1>5. PICK x \in S : d = n - x
  BY <1>3
<1>6. \A y \in S : x >= y
  <2> SUFFICES ASSUME NEW y \in S PROVE x >= y
    OBVIOUS
  <2>1. d <= n - y /\ x \in Int /\ y \in Int
    BY <1>4, <1>2
  <2> QED BY <2>1, <1>5
<1>7. Max(S) \in S /\ \A y \in S : Max(S) >= y
  BY <1>6 DEF Max
<1>8. \A y \in S : y \in Int
  OBVIOUS
<1> QED BY <1>7, <1>8

\* The greatest of a set of numbers is what Max chooses.
LEMMA MaxIs ==
  ASSUME NEW n \in Nat, NEW S \in SUBSET (1 .. n), NEW x \in S, \A y \in S : y <= x
  PROVE  Max(S) = x
<1>1. Max(S) \in S /\ \A y \in S : y <= Max(S)
  BY MaxOf
<1>2. x \in Int /\ Max(S) \in Int
  <2>1. \A y \in S : y \in Int
    OBVIOUS
  <2> QED BY <2>1, <1>1
<1>3. x <= Max(S) /\ Max(S) <= x
  BY <1>1
<1> QED BY <1>2, <1>3

\* What the task manager is after 0, 1, ... of the timers fired.
InTurn(base, s, n) ==
  \E f : /\ f[0] = base
         /\ \A i \in 1 .. n : f[i] = SendFired(f[i - 1], s[i])
         /\ f[n] = FoldLeft(SendFired, base, s)

\* FoldLeft sends one message after the other.
LEMMA SentOneByOne ==
  ASSUME NEW base, NEW s, NEW n \in Nat, DOMAIN s = 1 .. n
  PROVE  InTurn(base, s, n)
<1> DEFINE op(l, b) == SendFired(b, l)
           Body(g, t) == IF t = {} THEN base ELSE op(s[Max(t)], g[t \ {Max(t)}])
           Exists(m) == \E g : g = [t \in SUBSET (1 .. m) |-> Body(g, t)]
           Good == {m \in Nat : m <= n => Exists(m)}
<1>1. 0 \in Good
  <2>1. \A g : g = [t \in SUBSET (1 .. 0) |-> base] => g = [t \in SUBSET (1 .. 0) |-> Body(g, t)]
    <3>1. \A t \in SUBSET (1 .. 0) : t = {}
      OBVIOUS
    <3> QED BY <3>1
  <2> QED BY <2>1
<1>2. \A m \in Good : m + 1 \in Good
  <2> HIDE DEF Exists
  <2> SUFFICES ASSUME NEW m \in Nat, Exists(m), m + 1 <= n
               PROVE  Exists(m + 1)
    OBVIOUS
  <2> USE DEF Exists
  <2>1. PICK g : g = [t \in SUBSET (1 .. m) |-> Body(g, t)]
    OBVIOUS
  <2> DEFINE h == [t \in SUBSET (1 .. m + 1) |->
                     IF t \in SUBSET (1 .. m) THEN g[t] ELSE op(s[m + 1], g[t \ {m + 1}])]
  <2>2. \A t \in SUBSET (1 .. m + 1) : h[t] = Body(h, t)
    <3> SUFFICES ASSUME NEW t \in SUBSET (1 .. m + 1) PROVE h[t] = Body(h, t)
      OBVIOUS
    <3>1. CASE t \in SUBSET (1 .. m)
      <4>1. h[t] = g[t] /\ g[t] = Body(g, t)
        BY <3>1, <2>1
      <4>2. h[t \ {Max(t)}] = g[t \ {Max(t)}]
        BY <3>1
      <4> QED BY <4>1, <4>2
    <3>2. CASE t \notin SUBSET (1 .. m)
      <4>1. m + 1 \in t /\ t # {} /\ t \ {m + 1} \in SUBSET (1 .. m) /\ m + 1 \in Nat
        BY <3>2
      <4>2. \A y \in t : y <= m + 1
        OBVIOUS
      <4>3. Max(t) = m + 1
        BY <4>1, <4>2, MaxIs
      <4>4. h[t] = op(s[m + 1], g[t \ {m + 1}]) /\ h[t \ {m + 1}] = g[t \ {m + 1}]
        BY <3>2, <4>1
      <4> QED BY <4>1, <4>3, <4>4
    <3> QED BY <3>1, <3>2
  <2>3. h = [t \in SUBSET (1 .. m + 1) |-> Body(h, t)]
    BY <2>2
  <2> QED BY <2>3
<1>3. \E g : g = [t \in SUBSET (1 .. n) |-> Body(g, t)]
  <2>1. Good = Nat
    <3> HIDE DEF Good
    <3>1. Good \in SUBSET Nat
      BY DEF Good
    <3> QED BY <1>1, <1>2, <3>1, InductionOn
  <2> HIDE DEF Exists
  <2>2. Exists(n)
    BY <2>1
  <2> QED BY <2>2 DEF Exists
<1> DEFINE iter == CHOOSE g : g = [t \in SUBSET (1 .. n) |-> Body(g, t)]
<1>4. iter = [t \in SUBSET (1 .. n) |-> Body(iter, t)]
  BY <1>3
<1>5. FoldLeft(SendFired, base, s) = iter[1 .. n]
  BY DEF FoldLeft, MapThenFoldSet
<1> DEFINE f == [i \in 0 .. n |-> iter[1 .. i]]
<1>6. f[0] = base
  <2>1. 1 .. 0 = {} /\ 1 .. 0 \in SUBSET (1 .. n)
    OBVIOUS
  <2>2. iter[1 .. 0] = base
    BY <2>1, <1>4
  <2> QED BY <2>2
<1>7. \A i \in 1 .. n : f[i] = op(s[i], f[i - 1])
  <2> SUFFICES ASSUME NEW i \in 1 .. n PROVE f[i] = op(s[i], f[i - 1])
    OBVIOUS
  <2>1. 1 .. i \in SUBSET (1 .. n) /\ 1 .. i # {} /\ i \in 1 .. i /\ \A y \in 1 .. i : y <= i
    OBVIOUS
  <2>2. Max(1 .. i) = i
    BY <2>1, MaxIs
  <2>3. (1 .. i) \ {i} = 1 .. i - 1
    OBVIOUS
  <2>4. iter[1 .. i] = Body(iter, 1 .. i)
    BY <2>1, <1>4
  <2>5. i - 1 \in 0 .. n /\ i \in 0 .. n
    OBVIOUS
  <2> HIDE DEF iter, op
  <2> QED BY <2>1, <2>2, <2>3, <2>4, <2>5
<1>8. f[n] = FoldLeft(SendFired, base, s)
  <2>1. f[n] = iter[1 .. n]
    OBVIOUS
  <2> QED BY <2>1, <1>5
<1>9. \A i \in 1 .. n : f[i] = SendFired(f[i - 1], s[i])
  BY <1>7
<1> HIDE DEF f
<1> QED BY <1>6, <1>8, <1>9 DEF InTurn

\* An order that the priority queue may give up a set of timers in.
IsOrder(s, n, S) ==
  /\ n \in Nat /\ DOMAIN s = 1 .. n
  /\ \A i \in 1 .. n : s[i] \in S
  /\ \A i, j \in 1 .. n : s[i] = s[j] => i = j
  /\ \A u \in S : \E i \in 1 .. n : s[i] = u
  /\ ToSet(s) = S

\* An order of a finite set names each of its members once.
LEMMA OrderIs ==
  ASSUME NEW S, IsFiniteSet(S), NEW s \in SetToSeqs(S)
  PROVE  \E n \in Nat : IsOrder(s, n, S)
<1>1. PICK n : n = Cardinality(S)
  OBVIOUS
<1>2. n \in Nat
  BY <1>1, FS_CardinalityType
<1>3. s \in [1 .. n -> S] /\ \A i, j \in 1 .. n : i # j => s[i] # s[j]
  BY <1>1 DEF SetToSeqs
<1>4. s \in Injection(1 .. n, S)
  BY <1>3 DEF Injection, IsInjective
<1>5. Cardinality(1 .. n) = n
  BY <1>2, FS_Interval
<1>6. s \in Surjection(1 .. n, S)
  BY <1>1, <1>4, <1>5, FS_Injection
<1>7. \A u \in S : \E i \in 1 .. n : s[i] = u
  BY <1>6 DEF Surjection
<1>8. ToSet(s) = S
  BY <1>3, <1>7 DEF ToSet
<1> QED BY <1>2, <1>3, <1>7, <1>8 DEF IsOrder

-----------------------------------------------------------------------------
(* The run queues of the four tasks. *)

\* No task changes its level: only two tasks ever share one.
LevelsAre(s) ==
  /\ s.lvl[Main] = kMaxLevel /\ s.lvl[Idle] = 0
  /\ s.lvl[Terminal] = kDefaultLevel /\ s.lvl[Wallclock] = kDefaultLevel

\* A task has another one before it.
Second(s, t) == Len(s.run[kDefaultLevel]) >= 2 /\ s.run[kDefaultLevel][2] = t

\* Tasks were woken, and nothing else.
Grown(s, r) ==
  /\ Core(r, OnSet(r)) /\ OnSet(s) \subseteq OnSet(r)
  /\ r.lvl = s.lvl /\ r.cur = s.cur /\ CurrentTask(r) = CurrentTask(s)
  /\ \A t \in TaskId : Second(r, t) => Second(s, t) \/ t \notin OnSet(s)

\* There are four tasks; new ones start below the highest level and above the idle
\* task's.
LEMMA TasksAre ==
  /\ TaskId = {Main, Idle, Terminal, Wallclock} /\ TaskId = {1, 2, 3, 4}
  /\ kMaxLevel \in Nat /\ kMaxLevel > 1 /\ kDefaultLevel \in Levels /\ 0 \in Levels /\ kMaxLevel \in Levels
  /\ \A lv \in Levels : lv \in Nat
BY TimersAssumption, TaskManagerAssumption
DEF TaskId, Main, Idle, Terminal, Wallclock, kDefaultLevel, Levels

\* To wake a task up leaves the queues as they are, but for the task at the end of its
\* own.
LEMMA WakeGrows ==
  ASSUME NEW s, Core(s, OnSet(s)), NEW t \in TaskId
  PROVE  /\ Grown(s, WakeupTask(s, t, KeepLevel))
         /\ OnSet(WakeupTask(s, t, KeepLevel)) = OnSet(s) \cup {t}
<1> DEFINE r == WakeupTask(s, t, KeepLevel)
<1>1. /\ Core(r, OnSet(r)) /\ OnSet(r) = OnSet(s) \cup {t} /\ r.lvl = s.lvl
      /\ CurrentTask(r) = CurrentTask(s)
  BY WakeupKeepsCore
<1>2. CASE s.on[t]
  <2>1. r = s
    BY <1>2 DEF WakeupTask, ChangeLevelRunning, KeepLevel
  <2> HIDE DEF r
  <2>2. OnSet(s) \subseteq OnSet(r) /\ r.cur = s.cur /\ \A u \in TaskId : Second(r, u) => Second(s, u)
    BY <2>1
  <2>3. Grown(s, r)
    BY <1>1, <2>2 DEF Grown
  <2> QED BY <1>1, <2>3 DEF r
<1>3. CASE ~s.on[t]
  <2>1. /\ s.run \in [Levels -> Seq(TaskId)] /\ s.lvl[t] \in Levels /\ DOMAIN s.run = Levels
        /\ s = [run |-> s.run, cur |-> s.cur, chg |-> s.chg, lvl |-> s.lvl, on |-> s.on]
    BY DEF Core, SchedType
  <2>2. PICK lv \in Levels : lv = s.lvl[t]
    BY <2>1
  <2>3. r.cur = s.cur /\ r.run = [s.run EXCEPT ![lv] = Append(s.run[lv], t)]
    BY <1>3, <2>1, <2>2 DEF WakeupTask, KeepLevel
  <2> HIDE DEF r
  <2>4. ASSUME NEW u \in TaskId, Second(r, u) PROVE Second(s, u) \/ u \notin OnSet(s)
    <3>1. PICK q \in Seq(TaskId) : q = s.run[kDefaultLevel]
      BY <2>1, TasksAre
    <3>2. r.run[kDefaultLevel] = q \/ r.run[kDefaultLevel] = Append(q, t)
      BY <2>1, <2>3, <3>1, TasksAre
    <3>3. CASE r.run[kDefaultLevel] = q
      BY <3>1, <3>3, <2>4 DEF Second
    <3>4. CASE r.run[kDefaultLevel] = Append(q, t)
      <4>1. /\ Len(q) \in Nat /\ Len(Append(q, t)) = Len(q) + 1
            /\ \A i \in 1 .. Len(q) : Append(q, t)[i] = q[i] /\ Append(q, t)[Len(q) + 1] = t
        BY <3>1, AppendProperties
      <4>2. CASE Len(q) >= 2
        BY <4>1, <4>2, <3>1, <3>4, <2>4 DEF Second
      <4>3. CASE Len(q) = 1
        <5>1. Append(q, t)[2] = t
          BY <4>1, <4>3
        <5> QED BY <5>1, <3>4, <2>4, <1>3 DEF Second, OnSet
      <4>4. CASE Len(q) = 0
        BY <4>1, <4>4, <3>4, <2>4 DEF Second
      <4>5. Len(q) >= 2 \/ Len(q) = 1 \/ Len(q) = 0
        <5>1. Len(q) \in Nat
          BY <3>1
        <5>2. PICK m \in Nat : m = Len(q)
          BY <5>1
        <5>3. m >= 2 \/ m = 1 \/ m = 0
          OBVIOUS
        <5> QED BY <5>2, <5>3
      <4> QED BY <4>2, <4>3, <4>4, <4>5
    <3> QED BY <3>2, <3>3, <3>4
  <2>5. Grown(s, r)
    BY <1>1, <2>3, <2>4 DEF Grown
  <2> QED BY <1>1, <2>5 DEF r
<1> QED BY <1>2, <1>3

\* Queues that grow twice have grown.
LEMMA GrownTwice ==
  ASSUME NEW s, NEW r, NEW q, Grown(s, r), Grown(r, q)
  PROVE  Grown(s, q)
<1>1. ASSUME NEW t \in TaskId, Second(q, t) PROVE Second(s, t) \/ t \notin OnSet(s)
  BY <1>1 DEF Grown
<1> QED BY <1>1 DEF Grown

\* Queues that stay as they are have grown.
LEMMA NoneGrown ==
  ASSUME NEW s, Core(s, OnSet(s))
  PROVE  Grown(s, s)
BY DEF Grown

\* Who has the highest level and did not get the cpu had it, or was second behind a task that is
\* not idle.
LEMMA TurnsAre ==
  ASSUME NEW s, Core(s, OnSet(s)), LevelsAre(s), NEW r, r = RotateCurrentRunQueue(s, FALSE),
         NEW t \in OnSet(s), ReadyAtTopIn(r, t), CurrentTask(r) # t
  PROVE  t = CurrentTask(s) \/ (s.cur = 0 /\ Second(s, t))
<1>1. Core(r, OnSet(s)) /\ r.on = s.on /\ r.lvl = s.lvl /\ CurrentTask(r) \in Top(s.lvl, OnSet(s))
  BY RotateCorrect
<1>2. PICK c \in OnSet(s) : c = CurrentTask(r) /\ c # t /\ s.lvl[t] <= s.lvl[c] /\ s.lvl[c] = r.cur
                            /\ \A u \in OnSet(s) : s.lvl[u] <= s.lvl[c]
  BY <1>1, FrontIsReady DEF Top
<1>3. /\ s.run \in [Levels -> Seq(TaskId)] /\ r.run \in [Levels -> Seq(TaskId)] /\ s.lvl \in [TaskId -> Levels]
      /\ s.cur \in Levels /\ r.cur \in Levels /\ t \in TaskId /\ c \in TaskId /\ DOMAIN s.run = Levels
      /\ s = [run |-> s.run, cur |-> s.cur, chg |-> s.chg, lvl |-> s.lvl, on |-> s.on]
  BY <1>1 DEF Core, SchedType, OnSet
<1>4. s.lvl[c] = s.lvl[t]
  <2>1. r.run[s.lvl[c]] # << >>
    BY <1>1, <1>2 DEF Core
  <2>2. ~ (s.lvl[c] > s.lvl[t])
    BY <2>1, <1>1, <1>3 DEF ReadyAtTopIn
  <2>3. s.lvl[c] \in Nat /\ s.lvl[t] \in Nat
    BY <1>3, TasksAre
  <2>4. PICK x, y : x = s.lvl[c] /\ y = s.lvl[t]
    OBVIOUS
  <2>5. x \in Nat /\ y \in Nat /\ y <= x /\ ~ (x > y)
    BY <1>2, <2>2, <2>3, <2>4
  <2>6. x = y
    BY <2>5
  <2> QED BY <2>4, <2>6
<1>5. c \in {3, 4} /\ t \in {3, 4} /\ s.lvl[c] = 1 /\ s.lvl[t] = 1
  <2>1. s.lvl[1] = kMaxLevel /\ s.lvl[2] = 0 /\ s.lvl[3] = 1 /\ s.lvl[4] = 1
    BY DEF LevelsAre, Main, Idle, Terminal, Wallclock, kDefaultLevel
  <2>2. c \in {1, 2, 3, 4} /\ t \in {1, 2, 3, 4} /\ c # t
    BY <1>2, <1>3, TasksAre
  <2>3. kMaxLevel # 0 /\ kMaxLevel # 1
    BY TasksAre
  <2> QED BY <2>1, <2>2, <2>3, <1>4
<1>6. PICK d \in OnSet(s) : d = CurrentTask(s) /\ s.lvl[d] = s.cur /\ d = Head(s.run[s.cur])
  BY FrontIsReady DEF CurrentTask
<1>7. \A i \in 1 .. Len(s.run[1]) : s.run[1][i] \in {3, 4}
  <2>1. 1 \in Levels
    BY TasksAre DEF kDefaultLevel
  <2>2. Elems(s.run[1]) = {u \in OnSet(s) : s.lvl[u] = 1}
    BY <2>1 DEF Core, QueuesHold
  <2>3. \A u \in OnSet(s) : s.lvl[u] = 1 => u \in {3, 4}
    <3>1. s.lvl[1] = kMaxLevel /\ s.lvl[2] = 0
      BY DEF LevelsAre, Main, Idle
    <3> QED BY <3>1, TasksAre DEF OnSet
  <2> QED BY <2>2, <2>3 DEF Elems
<1>8. Distinct(s.run[1]) /\ \E i \in 1 .. Len(s.run[1]) : s.run[1][i] = t
  <2>1. 1 \in Levels
    BY TasksAre DEF kDefaultLevel
  <2>2. Elems(s.run[1]) = {u \in OnSet(s) : s.lvl[u] = 1} /\ Distinct(s.run[1])
    BY <2>1 DEF Core, QueuesHold
  <2>3. t \in Elems(s.run[1])
    BY <2>2, <1>5
  <2> QED BY <2>2, <2>3 DEF Elems
<1>9. PICK q \in Seq(TaskId) : q = s.run[1]
  BY <1>3, TasksAre DEF kDefaultLevel
<1>10. CASE s.cur = 1
  <2>1. r.run[1] = Append(Tail(q), Head(q))
    BY <1>3, <1>9, <1>10 DEF RotateCurrentRunQueue
  <2>2. c = Head(r.run[1]) /\ d = Head(q)
    BY <1>2, <1>5, <1>6, <1>9, <1>10 DEF CurrentTask
  <2>3. PICK i \in 1 .. Len(q) : q[i] = t
    BY <1>8, <1>9
  <2>4. Len(q) \in Nat /\ Len(q) >= 1 /\ Head(q) = q[1] /\ q # << >>
    BY <2>3, <1>9
  <2>5. SUFFICES ASSUME i >= 2 PROVE FALSE
    BY <2>2, <2>3, <2>4, <1>6
  <2>6. Tail(q) \in Seq(TaskId) /\ Tail(q) # << >> /\ Head(Tail(q)) = q[2] /\ 2 \in 1 .. Len(q) /\ 1 \in 1 .. Len(q)
    <3>1. Len(q) >= 2
      BY <2>3, <2>4, <2>5
    <3>2. Tail(q) \in Seq(TaskId) /\ Len(Tail(q)) = Len(q) - 1 /\ \A j \in 1 .. Len(Tail(q)) : Tail(q)[j] = q[j + 1]
      BY <2>4, HeadTailProperties
    <3>3. Len(Tail(q)) >= 1 /\ 1 \in 1 .. Len(Tail(q)) /\ 2 \in 1 .. Len(q) /\ 1 \in 1 .. Len(q)
      BY <3>1, <3>2, <2>4
    <3>4. Tail(q)[1] = q[1 + 1] /\ 1 + 1 = 2
      BY <3>2, <3>3
    <3>5. Tail(q) # << >>
      <4>1. Len(<< >>) = 0
        OBVIOUS
      <4>2. PICK m \in Nat : m = Len(q)
        BY <2>4
      <4>3. m >= 2
        BY <3>1, <4>2
      <4>4. m - 1 # 0
        BY <4>3
      <4>5. Len(Tail(q)) = m - 1
        BY <3>2, <4>2
      <4> QED BY <4>1, <4>4, <4>5
    <3>6. Head(Tail(q)) = Tail(q)[1]
      BY <3>2, <3>5
    <3> QED BY <3>2, <3>3, <3>4, <3>5, <3>6
  <2>7. Head(q) \in TaskId
    BY <2>4, HeadTailProperties
  <2>8. Head(Append(Tail(q), Head(q))) = Head(Tail(q))
    BY <2>6, <2>7, HeadOfAppend
  <2>9. q[2] = c /\ q[1] # q[2]
    BY <2>1, <2>2, <2>6, <2>8, <1>8, <1>9 DEF Distinct
  <2>10. q[1] = t /\ q[2] # t
    BY <2>6, <2>9, <1>2, <1>5, <1>7, <1>9
  <2>11. i = 1
    BY <2>3, <2>6, <2>10, <1>8, <1>9 DEF Distinct
  <2> QED BY <2>5, <2>11
<1>11. CASE s.cur = 0
  <2>1. r.run[1] = s.run[1]
    BY <1>3, <1>11 DEF RotateCurrentRunQueue
  <2>2. c = Head(q)
    BY <2>1, <1>2, <1>5, <1>9 DEF CurrentTask
  <2>3. PICK i \in 1 .. Len(q) : q[i] = t
    BY <1>8, <1>9
  <2>4. Len(q) \in Nat /\ Len(q) >= 1 /\ Head(q) = q[1]
    BY <2>3, <1>9
  <2>5. i >= 2 /\ 2 \in 1 .. Len(q) /\ 1 \in 1 .. Len(q)
    BY <2>2, <2>3, <2>4, <1>2
  <2>6. q[2] = t
    <3>1. q[2] # q[1] /\ q[2] \in {3, 4} /\ q[1] = c
      BY <2>2, <2>4, <2>5, <1>7, <1>8, <1>9 DEF Distinct
    <3> QED BY <3>1, <1>2, <1>5
  <2> QED BY <2>5, <2>6, <1>9, <1>11 DEF Second, kDefaultLevel
<1>12. CASE s.cur # 0 /\ s.cur # 1
  <2>1. s.lvl[2] = 0 /\ s.lvl[3] = 1 /\ s.lvl[4] = 1 /\ s.lvl[1] = kMaxLevel /\ d \in TaskId
    BY <1>6 DEF LevelsAre, Main, Idle, Terminal, Wallclock, kDefaultLevel, OnSet
  <2>2. d = 1
    BY <2>1, <1>6, <1>12, TasksAre
  <2>3. kMaxLevel <= 1
    BY <2>1, <2>2, <1>2, <1>5
  <2> QED BY <2>3, TasksAre
<1> QED BY <1>10, <1>11, <1>12

\* After a switch nobody of the default level waits for the idle task.
LEMMA IdleIsLast ==
  ASSUME NEW s, NEW R, Core(s, R), ~s.chg, s.cur = 0, NEW t
  PROVE  ~Second(s, t)
<1>1. kDefaultLevel \in Levels /\ kDefaultLevel > 0
  BY TasksAre DEF kDefaultLevel
<1>2. s.run[kDefaultLevel] = << >>
  BY <1>1 DEF Core, NothingAbove
<1> QED BY <1>2 DEF Second

-----------------------------------------------------------------------------
(* The inductive invariant.                                                 *)

\* The messages of the kernel's tasks, and what their handlers are doing.
KMsg ==
  [type : {"xhci", "key", "finish"}] \cup [type : {"layer"}, src : TaskId]
  \cup [type : {"timer"}, timeout : Nat, value : Int]
Work == KMsg \cup [type : {"start", "none", "draw", "event"}]

\* A timer that a task made for itself.
Own(u, t) ==
  /\ t \in {Terminal, Wallclock} /\ t \in tasks
  /\ u.timeout \in Nat /\ u.value \in {KernelValue, AppValue} /\ u.task = t

TimersType ==
  /\ tick \in Nat /\ phase \in Nat /\ IsFiniteSet(timers)
  /\ handling \in [TaskId -> Work]
  /\ \A u \in timers :
       /\ u.timeout \in Nat /\ u.value \in Int
       /\ u.task \in {Terminal, Wallclock} => Own(u, u.task)
  /\ DOMAIN pending = TaskId
  /\ \A t \in TaskId : pending[t] # NoTimer => Own(pending[t], t)
  /\ \A t \in adding : t \in TaskId /\ pending[t].value = KernelValue
  /\ \A t \in TaskId : handling[t].type = "start" => pc[t] = "run"

\* The task timer is the only one of its kind, and due in its period.
TaskTimers == {u \in timers : u.value = kTaskTimerValue}
Armed == \E u : TaskTimers = {u} /\ u.timeout - tick \in 1 .. kTaskTimerPeriod

\* How long a task has waited when the next switch comes: at most two turns, and one if the
\* idle task has the cpu and another task goes first.
Waits ==
  /\ waited \in [TaskId -> Nat] /\ waited[cpu] = 0
  /\ \A t \in TaskId : t \notin OnSet(sched) => waited[t] = 0
  /\ \A u \in TaskTimers, t \in TaskId :
       /\ waited[t] + (u.timeout - tick) <= kTaskTimerPeriod + kTaskTimerPeriod
       /\ sched.cur = 0 /\ Second(sched, t) => waited[t] + (u.timeout - tick) <= kTaskTimerPeriod

\* The periodic timer of a task is in the queue of timers, or its message in the queue of
\* messages, or the message's handler is about to start it again.
TimersOf(t) == {u \in timers : u.task = t}
Busy(t) == pending[t] # NoTimer \/ (handling[t].type = "timer" /\ pc[t] = "run")
IsOne(S) == \E x : S = {x}

Chain(t) ==
  \/ handling[t].type = "start" /\ TimersOf(t) = {} /\ TimerMessages(t) = {}
  \/ /\ handling[t].type # "start"
     /\ \/ IsOne(TimersOf(t)) /\ TimerMessages(t) = {} /\ ~Busy(t)
        \/ TimersOf(t) = {} /\ IsOne(TimerMessages(t)) /\ ~Busy(t)
        \/ TimersOf(t) = {} /\ TimerMessages(t) = {} /\ Busy(t)

Chains ==
  /\ Chain(Wallclock)
  /\ ~ran_app => Chain(Terminal) /\ ~app /\ pending[Terminal].value # AppValue

\* The wall clock's timeouts.
OnBeat(x) == \E k \in Nat : x = phase + k * kTimerFreq
Beats ==
  /\ \A u \in TimersOf(Wallclock) : OnBeat(u.timeout)
  /\ \A i \in TimerMessages(Wallclock) : OnBeat(msgs[Wallclock][i].timeout)
  /\ handling[Wallclock].type = "timer" => OnBeat(handling[Wallclock].timeout)
  /\ pending[Wallclock] # NoTimer => OnBeat(pending[Wallclock].timeout)

TInv ==
  /\ Sound(KMsg) /\ LevelsAre(sched)
  /\ TimersType /\ Armed /\ Waits /\ Chains /\ Beats

-----------------------------------------------------------------------------
(* What a step of a task does to the run queues.                            *)

\* The step wakes tasks and nothing else: the cpu stays where it is.
Grows == Sound(KMsg)' /\ Grown(sched, sched') /\ cpu' = cpu

PcType == [TaskId -> {"run", "recv", "wait"}]

\* A step that leaves the scheduler alone lets its queues grow.
LEMMA StayGrows == ASSUME Sound(KMsg), UNCHANGED vars PROVE Grows
<1>1. Sound(KMsg)'
  BY StutterKeeps
<1>2. Core(sched, OnSet(sched)) /\ sched' = sched /\ cpu' = cpu
  BY DEF Sound, vars
<1>3. PICK s : s = sched
  OBVIOUS
<1>4. Grown(s, s)
  BY <1>2, <1>3, NoneGrown
<1> QED BY <1>1, <1>2, <1>3, <1>4 DEF Grows

\* So does the end of a handler.
LEMMA DoneGrows == ASSUME Sound(KMsg), NEW t \in TaskId, HandlerDone(t) PROVE Grows
<1>1. Sound(KMsg)'
  BY HandlerDoneKeeps
<1>2. Core(sched, OnSet(sched)) /\ sched' = sched /\ cpu' = cpu
  BY DEF Sound, HandlerDone
<1>3. PICK s : s = sched
  OBVIOUS
<1>4. Grown(s, s)
  BY <1>2, <1>3, NoneGrown
<1> QED BY <1>1, <1>2, <1>3, <1>4 DEF Grows

\* So does a new task.
LEMMA SpawnGrows == ASSUME Sound(KMsg), Spawn(Main, FALSE) PROVE Grows
<1>1. Sound(KMsg)'
  BY SpawnKeeps, TasksAre
<1>2. Core(sched, OnSet(sched)) /\ sched' = WakeupTask(sched, latest_id + 1, KeepLevel) /\ cpu' = cpu
  BY DEF Sound, Spawn
<1>3. latest_id + 1 \in TaskId
  <2>1. latest_id \in 1 .. MaxTasks /\ latest_id < MaxTasks /\ MaxTasks \in Nat
    BY TaskManagerAssumption DEF Sound, TypeOver, Spawn, TaskId
  <2> QED BY <2>1 DEF TaskId
<1>4. Grown(sched, WakeupTask(sched, latest_id + 1, KeepLevel))
  BY <1>2, <1>3, WakeGrows
<1> QED BY <1>1, <1>2, <1>4 DEF Grows

\* A message is sent, and the sender may return to its loop.
LEMMA PostGrows ==
  ASSUME Sound(KMsg), NEW id, NEW m \in KMsg, Post(id, m), pc' \in PcType,
         UNCHANGED <<tasks, latest_id, cpu, finish_tasks, finish_waiter, subtask>>
  PROVE  Grows
<1>1. Core(sched, OnSet(sched)) /\ TypeOver(KMsg) /\ Books /\ cpu = CurrentTask(sched)
  BY DEF Sound
<1>2. id \in tasks /\ id \in TaskId
  BY <1>1 DEF Post, TypeOver
<1>3. PICK r : r = WakeupTask(sched, id, KeepLevel)
  OBVIOUS
<1>4. Core(r, OnSet(r)) /\ OnSet(r) = OnSet(sched) \cup {id} /\ CurrentTask(r) = CurrentTask(sched)
  BY <1>1, <1>2, <1>3, WakeupKeepsCore
<1>5. Grown(sched, r)
  BY <1>1, <1>2, <1>3, WakeGrows
<1>6. sched' = r /\ msgs' = [msgs EXCEPT ![id] = Append(msgs[id], m)]
  BY <1>3 DEF Post
<1>7. Append(msgs[id], m) \in Seq(KMsg)
  BY <1>1, <1>2, AppendProperties DEF TypeOver
<1>8. TypeOver(KMsg)'
  BY <1>1, <1>2, <1>4, <1>6, <1>7 DEF TypeOver, Core, PcType
<1>9. Books'
  BY <1>1, <1>2, <1>4, <1>6 DEF Books, OnSet
<1>10. Sound(KMsg)'
  BY <1>1, <1>4, <1>6, <1>8, <1>9 DEF Sound, Core, CurrentTask, OnSet
<1> QED BY <1>5, <1>6, <1>10 DEF Grows

\* Nobody's wait gets longer by it.
LEMMA WaitsKept ==
  ASSUME TInv, Grows, waited' = waited, tick' = tick, TaskTimers' = TaskTimers
  PROVE  LevelsAre(sched)' /\ Armed' /\ Waits'
<1>1. /\ OnSet(sched) \subseteq OnSet(sched') /\ sched'.lvl = sched.lvl /\ sched'.cur = sched.cur
      /\ \A t \in TaskId : Second(sched', t) => Second(sched, t) \/ t \notin OnSet(sched)
      /\ cpu' = cpu /\ Waits /\ Armed /\ LevelsAre(sched)
  BY DEF Grows, Grown, TInv
<1>2. LevelsAre(sched)'
  BY <1>1 DEF LevelsAre
<1>3. Armed'
  BY <1>1 DEF Armed
<1>4. PICK u : TaskTimers = {u} /\ u.timeout - tick \in 1 .. kTaskTimerPeriod
  BY <1>1 DEF Armed
<1>5. PICK d : d = u.timeout - tick /\ d \in 1 .. kTaskTimerPeriod
  BY <1>4
<1>6. ASSUME NEW t \in TaskId, sched'.cur = 0, Second(sched', t) PROVE waited[t] + d <= kTaskTimerPeriod
  <2>1. CASE Second(sched, t)
    BY <2>1, <1>1, <1>4, <1>5, <1>6 DEF Waits
  <2>2. CASE t \notin OnSet(sched)
    <3>1. waited[t] = 0
      BY <2>2, <1>1 DEF Waits
    <3> QED BY <3>1, <1>5
  <2> QED BY <2>1, <2>2, <1>1, <1>6
<1>7. \A t \in TaskId : waited[t] + d <= kTaskTimerPeriod + kTaskTimerPeriod
  BY <1>1, <1>4, <1>5 DEF Waits
<1>8. \A t \in TaskId : t \notin OnSet(sched') => waited[t] = 0
  BY <1>1 DEF Waits
<1>9. OnSet(sched)' = OnSet(sched')
  BY DEF OnSet
<1>10. (\A v \in TaskTimers, t \in TaskId :
          /\ waited[t] + (v.timeout - tick) <= kTaskTimerPeriod + kTaskTimerPeriod
          /\ sched.cur = 0 /\ Second(sched, t) => waited[t] + (v.timeout - tick) <= kTaskTimerPeriod)'
  <2> SUFFICES ASSUME NEW v \in TaskTimers', NEW t \in TaskId
               PROVE  /\ waited'[t] + (v.timeout - tick') <= kTaskTimerPeriod + kTaskTimerPeriod
                      /\ sched'.cur = 0 /\ Second(sched, t)' => waited'[t] + (v.timeout - tick') <= kTaskTimerPeriod
    OBVIOUS
  <2>1. v = u
    BY <1>4
  <2>2. v.timeout - tick' = d /\ waited'[t] = waited[t]
    BY <2>1, <1>5
  <2>3. Second(sched, t)' <=> Second(sched', t)
    BY DEF Second
  <2> QED BY <2>2, <2>3, <1>6, <1>7
<1>11. waited' \in [TaskId -> Nat] /\ waited'[cpu'] = 0
  BY <1>1 DEF Waits
<1>12. Waits'
  BY <1>8, <1>9, <1>10, <1>11 DEF Waits
<1> QED BY <1>2, <1>3, <1>12

-----------------------------------------------------------------------------
(* What a step does to the timers and to the messages about them.           *)

\* What the inductive invariant says, for the proofs that need one part of it.
LEMMA FactsOf ==
  ASSUME TInv
  PROVE  /\ tasks \subseteq TaskId /\ msgs \in [TaskId -> Seq(KMsg)] /\ pc \in PcType /\ cpu \in TaskId
         /\ handling \in [TaskId -> Work] /\ DOMAIN pending = TaskId
         /\ Sound(KMsg) /\ TimersType /\ Chains /\ Beats /\ Waits /\ Armed /\ LevelsAre(sched)
BY DEF TInv, Sound, TypeOver, TimersType, PcType

\* A message about a timer carries a timeout and a value.
LEMMA WorkIs ==
  ASSUME NEW m \in Work, m.type = "timer"
  PROVE  m.timeout \in Nat /\ m.value \in Int
BY DEF Work, KMsg

\* What is received is worked on; the first work of a task is no message.
LEMMA MessageIs ==
  ASSUME NEW m \in KMsg
  PROVE  m \in Work /\ m.type # "start" /\ m.type # "none"
BY DEF Work, KMsg

\* The messages without a timer, and the works that are none.
LEMMA SignalsAre ==
  /\ [type |-> "xhci"] \in KMsg /\ [type |-> "key"] \in KMsg /\ [type |-> "finish"] \in KMsg
  /\ \A t \in TaskId : Layer(t) \in KMsg /\ Layer(t).type = "layer"
  /\ [type |-> "none"] \in Work /\ [type |-> "draw"] \in Work /\ [type |-> "event"] \in Work
BY DEF KMsg, Work, Layer

\* The types, when only what the tasks are doing changes ...
LEMMA TypesStay ==
  ASSUME TimersType, UNCHANGED <<tick, phase, timers, pending, adding>>, tasks \subseteq tasks',
         handling' \in [TaskId -> Work],
         \A t \in TaskId : handling'[t].type = "start" => pc'[t] = "run"
  PROVE  TimersType'
BY DEF TimersType, Own, Quiet

\* ... when a task computes a timer ...
LEMMA TypesOfPending ==
  ASSUME TimersType, NEW t \in TaskId, NEW u, Own(u, t), pending[t] = NoTimer,
         pending' = [pending EXCEPT ![t] = u],
         UNCHANGED <<tick, timers, adding, tasks, handling, pc>>, phase' \in Nat
  PROVE  TimersType'
<1>1. t \notin adding
  <2>1. NoTimer.value # KernelValue
    BY DEF NoTimer, Timer, KernelValue
  <2> QED BY <2>1 DEF TimersType
<1>2. \A x \in TaskId : pending'[x] = IF x = t THEN u ELSE pending[x]
  BY DEF TimersType
<1>3. DOMAIN pending' = TaskId
  BY DEF TimersType
<1>4. \A x \in TaskId : pending'[x] # NoTimer => Own(pending'[x], x)
  BY <1>2 DEF TimersType
<1>5. \A x \in adding : x \in TaskId /\ pending'[x].value = KernelValue
  BY <1>1, <1>2 DEF TimersType
<1>6. \A x : \A y : Own(x, y)' <=> Own(x, y)
  BY DEF Own
<1> QED BY <1>3, <1>4, <1>5 DEF TimersType, Own

\* ... and when it adds it.
LEMMA TypesOfAdding ==
  ASSUME TimersType, NEW t \in TaskId, pending[t] # NoTimer,
         pending' = [pending EXCEPT ![t] = NoTimer], timers' = timers \cup {pending[t]},
         adding' = adding \ {t}, UNCHANGED <<tick, tasks, phase>>,
         handling' \in [TaskId -> Work],
         \A x \in TaskId : handling'[x].type = "start" => pc'[x] = "run"
  PROVE  TimersType'
<1>1. PICK u : u = pending[t]
  OBVIOUS
<1>2. Own(u, t) /\ u.task = t /\ u.timeout \in Nat /\ u.value \in Int
  BY <1>1 DEF TimersType, Own, KernelValue, AppValue
<1>3. IsFiniteSet(timers \cup {u})
  BY FS_AddElement DEF TimersType
<1>4. \A x \in TaskId : pending'[x] = IF x = t THEN NoTimer ELSE pending[x]
  BY DEF TimersType
<1>5. DOMAIN pending' = TaskId
  BY DEF TimersType
<1>6. \A x \in TaskId : pending'[x] # NoTimer => Own(pending'[x], x)
  BY <1>4 DEF TimersType
<1>7. \A x \in adding' : x \in TaskId /\ pending'[x].value = KernelValue
  BY <1>4 DEF TimersType
<1>8. \A x \in timers' : /\ x.timeout \in Nat /\ x.value \in Int
                         /\ x.task \in {Terminal, Wallclock} => Own(x, x.task)
  BY <1>1, <1>2 DEF TimersType
<1> QED BY <1>1, <1>3, <1>5, <1>6, <1>7, <1>8 DEF TimersType, Own

\* A chain depends on these alone.
SameChain(c) ==
  /\ TimersOf(c)' = TimersOf(c) /\ TimerMessages(c)' = TimerMessages(c)
  /\ Busy(c)' <=> Busy(c)
  /\ (handling'[c].type = "start") <=> (handling[c].type = "start")

\* A chain of which no link changes stays one.
LEMMA SameChainKeeps ==
  ASSUME NEW c, Chain(c), SameChain(c)
  PROVE  Chain(c)'
BY DEF Chain, SameChain

\* The messages about timers are where they were.
MessagesLeft(c) ==
  TimerMessages(c)' = TimerMessages(c) /\ \A i \in TimerMessages(c) : msgs'[c][i] = msgs[c][i]

\* A step that has nothing to do with the timers of a task.
Left(c) ==
  /\ TimersOf(c)' = TimersOf(c) /\ MessagesLeft(c)
  /\ handling'[c] = handling[c] /\ pending'[c] = pending[c] /\ pc'[c] = pc[c]

\* So does the chain of a task whose timers and messages about them are left alone.
LEMMA LeftKeeps ==
  ASSUME NEW c, Left(c)
  PROVE  /\ Chain(c) => Chain(c)'
         /\ c = Wallclock /\ Beats /\ phase' = phase => Beats'
<1>1. SameChain(c)
  BY DEF Left, SameChain, MessagesLeft, Busy
<1>2. Chain(c) => Chain(c)'
  BY <1>1, SameChainKeeps
<1>3. ASSUME c = Wallclock, Beats, phase' = phase PROVE Beats'
  <2>1. \A x : OnBeat(x)' <=> OnBeat(x)
    BY <1>3 DEF OnBeat
  <2> QED BY <2>1, <1>3 DEF Left, MessagesLeft, Beats
<1> QED BY <1>2, <1>3

\* A message that is not about a timer leaves every task's messages about timers alone.
LEMMA PostLeaves ==
  ASSUME msgs \in [TaskId -> Seq(KMsg)], NEW id, NEW m \in KMsg, m.type # "timer",
         Post(id, m), NEW c \in TaskId
  PROVE  MessagesLeft(c)
<1>1. CASE msgs'[c] = msgs[c]
  BY <1>1 DEF MessagesLeft, TimerMessages
<1>2. CASE msgs'[c] = Append(msgs[c], m)
  <2>1. PICK q \in Seq(KMsg) : q = msgs[c]
    OBVIOUS
  <2>2. /\ Len(Append(q, m)) = Len(q) + 1 /\ Append(q, m)[Len(q) + 1] = m
        /\ \A i \in 1 .. Len(q) : Append(q, m)[i] = q[i]
    BY AppendProperties
  <2>3. PICK n \in Nat : n = Len(q)
    OBVIOUS
  <2>4. PICK p : p = Append(q, m)
    OBVIOUS
  <2>5. Len(p) = n + 1 /\ p[n + 1] = m /\ \A i \in 1 .. n : p[i] = q[i]
    BY <2>2, <2>3, <2>4
  <2>6. \A i : i \in 1 .. n + 1 /\ p[i].type = "timer" <=> i \in 1 .. n /\ q[i].type = "timer"
    <3>1. \A i : i \in 1 .. n + 1 <=> i \in 1 .. n \/ i = n + 1
      OBVIOUS
    <3> QED BY <3>1, <2>5
  <2>7. TimerMessages(c) = {i \in 1 .. n : q[i].type = "timer"}
    BY <2>1, <2>3 DEF TimerMessages
  <2>8. TimerMessages(c)' = {i \in 1 .. n + 1 : p[i].type = "timer"}
    BY <1>2, <2>1, <2>4, <2>5 DEF TimerMessages
  <2> QED BY <1>2, <2>1, <2>4, <2>5, <2>6, <2>7, <2>8 DEF MessagesLeft
<1>3. msgs'[c] = msgs[c] \/ msgs'[c] = Append(msgs[c], m)
  BY DEF Post
<1> QED BY <1>1, <1>2, <1>3

-----------------------------------------------------------------------------
(* The actions.                                                             *)

\* What an action that leaves the timers, the ticks and the applications alone has to show.
LEMMA Together ==
  ASSUME TInv, Grows, UNCHANGED <<waited, tick, timers>>, TimersType', Chains', Beats'
  PROVE  TInv'
<1>1. TaskTimers' = TaskTimers
  BY DEF TaskTimers
<1>2. LevelsAre(sched)' /\ Armed' /\ Waits'
  BY <1>1, WaitsKept
<1>3. Sound(KMsg)'
  BY DEF Grows
<1> QED BY <1>2, <1>3 DEF TInv

\* No application has run, if none had.
LEMMA ChainsKept ==
  ASSUME Chains, Chain(Wallclock)', ran_app' = FALSE => ran_app = FALSE,
         ~ran_app /\ ~ran_app' /\ Chain(Terminal) => Chain(Terminal)' /\ ~app' /\ pending'[Terminal].value # AppValue
  PROVE  Chains'
BY DEF Chains

\* A step that leaves both chains alone keeps them, and the wall clock's beat.
LEMMA BothLeft ==
  ASSUME TInv, Left(Wallclock), Left(Terminal), UNCHANGED <<phase, app, ran_app>>
  PROVE  Chains' /\ Beats'
<1>1. Chains /\ Beats
  BY DEF TInv
<1>2. Chain(Wallclock)' /\ Beats'
  BY <1>1, LeftKeeps DEF Chains
<1>3. ~ran_app => Chain(Terminal)' /\ pending'[Terminal] = pending[Terminal]
  BY <1>1, LeftKeeps DEF Chains, Left
<1>4. Chains'
  BY <1>1, <1>2, <1>3 DEF Chains
<1> QED BY <1>2, <1>4

\* A key keeps the invariant.
LEMMA KeyInterrupts == ASSUME TInv, IntHandlerXHCI PROVE TInv'
<1> DEFINE m == [type |-> "xhci"]
<1>1. /\ m \in KMsg /\ m.type # "timer" /\ Main \in TaskId /\ Terminal \in TaskId /\ Wallclock \in TaskId
  BY SignalsAre, TasksAre
<1> HIDE DEF m
<1>2. /\ Post(Main, m) /\ UNCHANGED <<tasks, latest_id, cpu, finish_tasks, finish_waiter, pc, subtask>>
      /\ UNCHANGED <<tick, timers, handling, pending, adding, app, ran_app, app_made, raced, phase, waited>>
  BY DEF IntHandlerXHCI, SendMessage, appvars, m
<1>3. Grows
  BY <1>1, <1>2, PostGrows, FactsOf
<1>4. MessagesLeft(Wallclock) /\ MessagesLeft(Terminal)
  BY <1>1, <1>2, PostLeaves, FactsOf
<1>5. Left(Wallclock) /\ Left(Terminal)
  BY <1>2, <1>4 DEF Left, TimersOf
<1>6. TimersType'
  <2>1. TimersType
    BY FactsOf
  <2> QED BY <1>2, <2>1, TypesStay DEF TimersType
<1>7. Chains' /\ Beats'
  BY <1>2, <1>5, BothLeft
<1> QED BY <1>2, <1>3, <1>6, <1>7, Together

\* A handler returns to its loop, with or without a message.
LEMMA HandlingType ==
  ASSUME TInv, NEW t \in TaskId, NEW x \in Work, x.type # "start",
         handling' = [handling EXCEPT ![t] = x], pc' = pc \/ pc' = [pc EXCEPT ![t] = "recv"]
  PROVE  /\ handling' \in [TaskId -> Work] /\ pc' \in PcType
         /\ \A u \in TaskId : handling'[u].type = "start" => pc'[u] = "run"
<1>1. TimersType /\ handling \in [TaskId -> Work] /\ pc \in PcType
  BY FactsOf
<1> QED BY <1>1 DEF TimersType, PcType

\* The main task's start, which creates the terminal and the wall clock, keeps it.
LEMMA MainBootsKeeps == ASSUME TInv, MainBoots PROVE TInv'
<1>1. /\ UNCHANGED <<tick, timers, pending, adding, app, ran_app, app_made, raced, keys, phase, waited>>
  BY DEF MainBoots, appvars, ghosts
<1>2. Main \in TaskId /\ Terminal \in TaskId /\ Wallclock \in TaskId /\ Main # Terminal /\ Main # Wallclock
  BY TasksAre DEF Main, Terminal, Wallclock
<1>3. CASE Spawn(Main, FALSE) /\ UNCHANGED handling
  <2>1. Grows
    BY <1>3, SpawnGrows, FactsOf
  <2>2. msgs' = msgs /\ pc' = pc /\ tasks \subseteq tasks'
    BY <1>3 DEF Spawn
  <2>3. TimersType'
    <3>1. TimersType
      BY FactsOf
    <3> QED BY <1>1, <1>3, <2>2, <3>1, TypesStay DEF TimersType
  <2>4. Left(Wallclock) /\ Left(Terminal)
    BY <1>1, <1>3, <2>2 DEF Left, TimersOf, MessagesLeft, TimerMessages
  <2>5. Chains' /\ Beats'
    BY <1>1, <2>4, BothLeft
  <2> QED BY <1>1, <2>1, <2>3, <2>5, Together
<1>4. CASE Handled(Main)
  <2>1. HandlerDone(Main)
    BY <1>4 DEF Handled
  <2>2. Grows
    BY <1>2, <2>1, DoneGrows, FactsOf
  <2>3. PICK x : x = [type |-> "none"]
    OBVIOUS
  <2>4. /\ handling' = [handling EXCEPT ![Main] = x] /\ pc' = [pc EXCEPT ![Main] = "recv"]
        /\ msgs' = msgs /\ tasks' = tasks
    BY <1>4, <2>3 DEF Handled, HandlerDone
  <2>5. x \in Work /\ x.type # "start"
    BY <2>3, SignalsAre
  <2>6. /\ handling' \in [TaskId -> Work]
        /\ \A u \in TaskId : handling'[u].type = "start" => pc'[u] = "run"
    BY <1>2, <2>4, <2>5, HandlingType
  <2>7. TimersType'
    BY <1>1, <2>4, <2>6, TypesStay, FactsOf
  <2>8. Left(Wallclock) /\ Left(Terminal)
    <3>1. handling \in [TaskId -> Work] /\ pc \in PcType
      BY FactsOf
    <3> QED BY <1>1, <1>2, <2>4, <3>1 DEF Left, TimersOf, MessagesLeft, TimerMessages, PcType
  <2>9. Chains' /\ Beats'
    BY <1>1, <2>8, BothLeft
  <2> QED BY <1>1, <2>2, <2>7, <2>9, Together
<1> QED BY <1>3, <1>4 DEF MainBoots

\* The main task's handlers end with a message.
LEMMA MainHandlesKeeps == ASSUME TInv, MainHandles PROVE TInv'
<1>1. /\ UNCHANGED <<tick, timers, pending, adding, app, ran_app, app_made, raced, keys, phase, waited>>
  BY DEF MainHandles, appvars, ghosts
<1>2. Main \in TaskId /\ Terminal \in TaskId /\ Wallclock \in TaskId /\ Main # Terminal /\ Main # Wallclock
  BY TasksAre DEF Main, Terminal, Wallclock
<1>3. PICK id, m : m \in KMsg /\ m.type # "timer" /\ PostAndLoop(Main, id, m)
  <2>1. [type |-> "key"].type # "timer" /\ [type |-> "finish"].type # "timer"
    OBVIOUS
  <2>2. \/ PostAndLoop(Main, Terminal, [type |-> "key"])
        \/ PostAndLoop(Main, handling[Main].src, [type |-> "finish"])
    BY DEF MainHandles
  <2> QED BY <2>1, <2>2, SignalsAre
<1>4. PICK x : x = [type |-> "none"]
  OBVIOUS
<1>5. /\ handling' = [handling EXCEPT ![Main] = x] /\ pc' = [pc EXCEPT ![Main] = "recv"]
      /\ Post(id, m) /\ UNCHANGED <<tasks, latest_id, cpu, finish_tasks, finish_waiter, subtask>>
  BY <1>3, <1>4 DEF PostAndLoop
<1>6. x \in Work /\ x.type # "start"
  BY <1>4, SignalsAre
<1>7. /\ handling' \in [TaskId -> Work] /\ pc' \in PcType
      /\ \A u \in TaskId : handling'[u].type = "start" => pc'[u] = "run"
  BY <1>2, <1>5, <1>6, HandlingType
<1>8. Grows
  BY <1>3, <1>5, <1>7, PostGrows, FactsOf
<1>9. TimersType'
  BY <1>1, <1>5, <1>7, TypesStay, FactsOf
<1>10. MessagesLeft(Wallclock) /\ MessagesLeft(Terminal)
  BY <1>2, <1>3, <1>5, PostLeaves, FactsOf
<1>11. Left(Wallclock) /\ Left(Terminal)
  <2>1. handling \in [TaskId -> Work] /\ pc \in PcType
    BY FactsOf
  <2> QED BY <1>1, <1>2, <1>5, <1>10, <2>1 DEF Left, TimersOf, PcType
<1>12. Chains' /\ Beats'
  BY <1>1, <1>11, BothLeft
<1> QED BY <1>1, <1>8, <1>9, <1>12, Together

\* A handler that has nothing to do with a timer goes on or ends.
LEMMA HandlerMoves ==
  ASSUME TInv, NEW t \in TaskId, NEW x \in Work, x.type \notin {"start", "timer"},
         t = Main \/ handling[t].type \notin {"start", "timer"},
         handling' = [handling EXCEPT ![t] = x], pc' = pc \/ pc' = [pc EXCEPT ![t] = "recv"],
         UNCHANGED <<timers, pending, phase>>, MessagesLeft(Wallclock), MessagesLeft(Terminal)
  PROVE  Chain(Wallclock)' /\ Beats' /\ (Chain(Terminal) => Chain(Terminal)')
<1>1. handling \in [TaskId -> Work] /\ pc \in PcType /\ Chains /\ Beats
  BY FactsOf
<1>2. Terminal \in TaskId /\ Wallclock \in TaskId /\ Main # Terminal /\ Main # Wallclock
  BY TasksAre DEF Main, Terminal, Wallclock
<1>3. ASSUME NEW c \in {Terminal, Wallclock} PROVE SameChain(c)
  <2>1. TimersOf(c)' = TimersOf(c) /\ TimerMessages(c)' = TimerMessages(c)
    BY <1>3 DEF TimersOf, MessagesLeft
  <2>2. CASE c = t
    <3>1. handling'[c] = x /\ handling[c].type \notin {"start", "timer"}
      BY <1>1, <1>2, <2>2
    <3>2. (Busy(c)' <=> pending[c] # NoTimer) /\ (Busy(c) <=> pending[c] # NoTimer)
      BY <3>1 DEF Busy
    <3>3. Busy(c)' <=> Busy(c)
      BY <3>2
    <3> QED BY <2>1, <3>1, <3>3 DEF SameChain
  <2>3. CASE c # t
    <3>1. handling'[c] = handling[c] /\ pc'[c] = pc[c]
      BY <1>1, <1>2, <2>3 DEF PcType
    <3> QED BY <2>1, <3>1 DEF SameChain, Busy
  <2> QED BY <2>2, <2>3
<1>4. Chain(Wallclock)' /\ (Chain(Terminal) => Chain(Terminal)')
  BY <1>1, <1>3, SameChainKeeps DEF Chains
<1>5. Beats'
  <2>1. \A b : OnBeat(b)' <=> OnBeat(b)
    BY DEF OnBeat
  <2>2. handling'[Wallclock].type = "timer" => handling'[Wallclock] = handling[Wallclock]
    BY <1>1, <1>2
  <2>3. TimersOf(Wallclock)' = TimersOf(Wallclock)
    BY DEF TimersOf
  <2> QED BY <1>1, <2>1, <2>2, <2>3 DEF Beats, MessagesLeft
<1> QED BY <1>4, <1>5

\* The terminal that draws its cursor keeps it.
LEMMA TerminalDrawsKeeps == ASSUME TInv, TerminalDraws PROVE TInv'
<1>1. /\ UNCHANGED <<tick, timers, pending, adding, app, ran_app, app_made, raced, keys, phase, waited>>
      /\ handling[Terminal].type = "draw" /\ PostAndLoop(Terminal, Main, Layer(Terminal))
  BY DEF TerminalDraws, appvars, ghosts, Handles
<1>2. Main \in TaskId /\ Terminal \in TaskId /\ Wallclock \in TaskId
  BY TasksAre
<1>3. PICK m : m = Layer(Terminal) /\ m \in KMsg /\ m.type # "timer"
  BY <1>2, SignalsAre
<1>4. PICK x : x = [type |-> "none"] /\ x.type = "none"
  <2>1. [type |-> "none"].type = "none"
    OBVIOUS
  <2> QED BY <2>1
<1>5. /\ handling' = [handling EXCEPT ![Terminal] = x] /\ pc' = [pc EXCEPT ![Terminal] = "recv"]
      /\ Post(Main, m) /\ UNCHANGED <<tasks, latest_id, cpu, finish_tasks, finish_waiter, subtask>>
  BY <1>1, <1>3, <1>4 DEF PostAndLoop
<1>6. x \in Work
  BY <1>4, SignalsAre
<1>7. /\ handling' \in [TaskId -> Work] /\ pc' \in PcType
      /\ \A u \in TaskId : handling'[u].type = "start" => pc'[u] = "run"
  BY <1>2, <1>4, <1>5, <1>6, HandlingType
<1>8. Grows
  BY <1>3, <1>5, <1>7, PostGrows, FactsOf
<1>9. TimersType'
  BY <1>1, <1>5, <1>7, TypesStay, FactsOf
<1>10. MessagesLeft(Wallclock) /\ MessagesLeft(Terminal)
  BY <1>2, <1>3, <1>5, PostLeaves, FactsOf
<1>11. Chain(Wallclock)' /\ Beats' /\ (Chain(Terminal) => Chain(Terminal)')
  BY <1>1, <1>2, <1>4, <1>5, <1>6, <1>10, HandlerMoves
<1>12. Chains'
  BY <1>1, <1>11, FactsOf DEF Chains
<1> QED BY <1>1, <1>8, <1>9, <1>11, <1>12, Together

\* The kernel is not involved, or only notes that the handler is done.
LEMMA Quietly ==
  ASSUME TInv, NEW t \in TaskId, UNCHANGED vars \/ HandlerDone(t)
  PROVE  /\ Grows /\ tasks' = tasks /\ MessagesLeft(Wallclock) /\ MessagesLeft(Terminal)
         /\ pc' = pc \/ pc' = [pc EXCEPT ![t] = "recv"]
<1>1. Grows
  BY StayGrows, DoneGrows, FactsOf
<1>2. msgs' = msgs /\ tasks' = tasks /\ (pc' = pc \/ pc' = [pc EXCEPT ![t] = "recv"])
  BY DEF vars, HandlerDone
<1>3. MessagesLeft(Wallclock) /\ MessagesLeft(Terminal)
  BY <1>2 DEF MessagesLeft, TimerMessages
<1> QED BY <1>1, <1>2, <1>3

\* The terminal that gets a key keeps it.
LEMMA TerminalKeyKeeps == ASSUME TInv, TerminalKey PROVE TInv'
<1>1. /\ UNCHANGED <<tick, timers, pending, adding, app_made, raced, keys, phase, waited>>
      /\ handling[Terminal].type = "key" /\ UNCHANGED vars
  BY DEF TerminalKey, ghosts, Handles, KernelUnchanged
<1>2. Terminal \in TaskId
  BY TasksAre
<1>3. PICK x : /\ x \in Work /\ x.type \notin {"start", "timer"} /\ handling' = [handling EXCEPT ![Terminal] = x]
               /\ UNCHANGED <<app, ran_app>> \/ ran_app'
  <2>1. [type |-> "draw"].type = "draw" /\ [type |-> "event"].type = "event"
    OBVIOUS
  <2>2. \/ handling' = [handling EXCEPT ![Terminal] = [type |-> "draw"]] /\ UNCHANGED <<app, ran_app>>
        \/ handling' = [handling EXCEPT ![Terminal] = [type |-> "event"]] /\ ran_app'
    BY DEF TerminalKey
  <2> QED BY <2>1, <2>2, SignalsAre
<1>4. /\ Grows /\ tasks' = tasks /\ MessagesLeft(Wallclock) /\ MessagesLeft(Terminal)
      /\ pc' = pc \/ pc' = [pc EXCEPT ![Terminal] = "recv"]
  BY <1>1, <1>2, Quietly
<1>5. /\ handling' \in [TaskId -> Work]
      /\ \A u \in TaskId : handling'[u].type = "start" => pc'[u] = "run"
  BY <1>2, <1>3, <1>4, HandlingType
<1>6. TimersType'
  BY <1>1, <1>4, <1>5, TypesStay, FactsOf
<1>7. Chain(Wallclock)' /\ Beats' /\ (Chain(Terminal) => Chain(Terminal)')
  BY <1>1, <1>2, <1>3, <1>4, HandlerMoves
<1>8. Chains'
  BY <1>1, <1>3, <1>7, FactsOf DEF Chains
<1> QED BY <1>1, <1>4, <1>6, <1>7, <1>8, Together

\* The system calls of an application.
LEMMA AppStepKeeps ==
  ASSUME TInv, app, ran_app' = ran_app, NEW x \in Work, x.type # "start",
         UNCHANGED <<tick, timers, pending, adding, phase, waited>>,
         UNCHANGED vars \/ HandlerDone(Terminal), handling' = [handling EXCEPT ![Terminal] = x]
  PROVE  TInv'
<1>1. Terminal \in TaskId /\ Wallclock \in TaskId /\ Terminal # Wallclock
  BY TasksAre DEF Terminal, Wallclock
<1>2. /\ Grows /\ tasks' = tasks /\ MessagesLeft(Wallclock)
      /\ pc' = pc \/ pc' = [pc EXCEPT ![Terminal] = "recv"]
  BY <1>1, Quietly
<1>3. /\ handling' \in [TaskId -> Work]
      /\ \A u \in TaskId : handling'[u].type = "start" => pc'[u] = "run"
  BY <1>1, <1>2, HandlingType
<1>4. TimersType'
  BY <1>2, <1>3, TypesStay, FactsOf
<1>5. Left(Wallclock)
  <2>1. handling \in [TaskId -> Work] /\ pc \in PcType
    BY FactsOf
  <2> QED BY <1>1, <1>2, <2>1 DEF Left, TimersOf, PcType
<1>6. Chain(Wallclock)' /\ Beats'
  BY <1>5, LeftKeeps, FactsOf DEF Chains
<1>7. Chains'
  BY <1>6, FactsOf DEF Chains
<1> QED BY <1>2, <1>4, <1>6, <1>7, Together

\* An application that reads an event keeps it.
LEMMA ReadEventKeeps == ASSUME TInv, ReadEvent PROVE TInv'
<1>1. /\ UNCHANGED <<tick, timers, pending, adding, ran_app, phase, waited>> /\ app
  BY DEF ReadEvent, InApp, ghosts, appvars
<1>2. CASE Handled(Terminal)
  <2>1. HandlerDone(Terminal) /\ handling' = [handling EXCEPT ![Terminal] = [type |-> "none"]]
    BY <1>2 DEF Handled
  <2>2. [type |-> "none"].type # "start"
    OBVIOUS
  <2> QED BY <1>1, <2>1, <2>2, SignalsAre, AppStepKeeps
<1>3. CASE handling' = [handling EXCEPT ![Terminal] = [type |-> "event"]] /\ KernelUnchanged
  <2>1. [type |-> "event"].type # "start"
    OBVIOUS
  <2> QED BY <1>1, <1>3, <2>1, SignalsAre, AppStepKeeps DEF KernelUnchanged
<1> QED BY <1>2, <1>3 DEF ReadEvent

\* An application's exit keeps it.
LEMMA AppExitKeeps == ASSUME TInv, AppExit PROVE TInv'
<1>1. /\ UNCHANGED <<tick, timers, pending, adding, ran_app, phase, waited>> /\ app /\ UNCHANGED vars
      /\ handling' = [handling EXCEPT ![Terminal] = [type |-> "draw"]]
  BY DEF AppExit, InApp, ghosts, KernelUnchanged
<1>2. [type |-> "draw"].type # "start"
  OBVIOUS
<1> QED BY <1>1, <1>2, SignalsAre, AppStepKeeps

\* A message that its task ignores keeps it.
LEMMA IgnoreKeeps == ASSUME TInv, NEW t \in TaskId, Ignore(t) PROVE TInv'
<1>1. /\ UNCHANGED <<tick, timers, pending, adding, app, ran_app, phase, waited>>
      /\ t = Main \/ handling[t].type \notin {"start", "timer"}
      /\ HandlerDone(t)
  BY DEF Ignore, ghosts, appvars, Handled
<1>2. PICK x : x = [type |-> "none"] /\ x.type = "none"
  <2>1. [type |-> "none"].type = "none"
    OBVIOUS
  <2> QED BY <2>1
<1>3. x \in Work /\ handling' = [handling EXCEPT ![t] = x]
  BY <1>2, SignalsAre DEF Ignore, Handled
<1>4. /\ Grows /\ tasks' = tasks /\ MessagesLeft(Wallclock) /\ MessagesLeft(Terminal)
      /\ pc' = pc \/ pc' = [pc EXCEPT ![t] = "recv"]
  BY <1>1, Quietly
<1>5. /\ handling' \in [TaskId -> Work]
      /\ \A u \in TaskId : handling'[u].type = "start" => pc'[u] = "run"
  BY <1>2, <1>3, <1>4, HandlingType
<1>6. TimersType'
  BY <1>1, <1>4, <1>5, TypesStay, FactsOf
<1>7. Chain(Wallclock)' /\ Beats' /\ (Chain(Terminal) => Chain(Terminal)')
  BY <1>1, <1>2, <1>3, <1>4, HandlerMoves
<1>8. Chains'
  BY <1>1, <1>7, FactsOf DEF Chains
<1> QED BY <1>1, <1>4, <1>6, <1>7, <1>8, Together

\* A beat follows after each period.
LEMMA NextBeat ==
  ASSUME NEW x, OnBeat(x), phase \in Nat, phase' = phase
  PROVE  OnBeat(x + kTimerFreq)'
<1>1. PICK k \in Nat : x = phase + k * kTimerFreq
  BY DEF OnBeat
<1>2. kTimerFreq \in Nat
  BY TimersAssumption
<1>3. PICK p \in Nat, f \in Nat : p = phase /\ f = kTimerFreq
  BY <1>2
<1>4. p + k * f + f = p + (k + 1) * f
  OBVIOUS
<1>5. x + kTimerFreq = phase' + (k + 1) * kTimerFreq
  BY <1>1, <1>3, <1>4
<1>6. k + 1 \in Nat
  OBVIOUS
<1> QED BY <1>5, <1>6 DEF OnBeat

\* The task that runs is one of the tasks.
LEMMA RunningIs ==
  ASSUME TInv, NEW t, Running(t)
  PROVE  t \in tasks /\ t \in TaskId
BY FactsOf, CpuIsReady DEF Running

\* The timer that a task computes.
LEMMA TimerIs ==
  ASSUME NEW timeout \in Nat, NEW v \in {KernelValue, AppValue}, NEW t \in tasks,
         t \in {Terminal, Wallclock}, NEW i, NEW u, u = Timer(timeout, v, t, i)
  PROVE  Own(u, t) /\ u # NoTimer /\ u.timeout = timeout /\ u.value = v
<1>1. u.timeout = timeout /\ u.value = v /\ u.task = t
  BY DEF Timer
<1>2. NoTimer.value = 0
  BY DEF NoTimer, Timer
<1>3. v # 0
  BY DEF KernelValue, AppValue
<1> QED BY <1>1, <1>2, <1>3 DEF Own

\* The wall clock's handler becomes a timer.
LEMMA WallclockDrawsKeeps == ASSUME TInv, WallclockDraws PROVE TInv'
<1>1. /\ Running(Wallclock) /\ pc[Wallclock] = "run" /\ pending[Wallclock] = NoTimer
      /\ SendMessage(Main, Layer(Wallclock)) /\ handling[Wallclock].type \in {"start", "timer"}
      /\ UNCHANGED <<tick, timers, handling, adding, app, ran_app, app_made, raced, keys, waited>>
  BY DEF WallclockDraws, appvars, Quiet
<1>2. /\ Main \in TaskId /\ Terminal \in TaskId /\ Wallclock \in TaskId /\ Terminal # Wallclock
      /\ Wallclock \in tasks
  BY <1>1, TasksAre, RunningIs DEF Terminal, Wallclock
<1>3. PICK m : m = Layer(Wallclock) /\ m \in KMsg /\ m.type # "timer"
  BY <1>2, SignalsAre
<1>4. /\ Post(Main, m) /\ UNCHANGED <<tasks, latest_id, cpu, finish_tasks, finish_waiter, pc, subtask>>
  BY <1>1, <1>3 DEF SendMessage
<1>5. Grows
  BY <1>3, <1>4, PostGrows, FactsOf
<1>6. MessagesLeft(Wallclock) /\ MessagesLeft(Terminal)
  BY <1>2, <1>3, <1>4, PostLeaves, FactsOf
<1>7. PICK timeout, i : /\ timeout = IF handling[Wallclock].type = "start" THEN tick
                                     ELSE handling[Wallclock].timeout + kTimerFreq
                        /\ pending' = [pending EXCEPT ![Wallclock] = Timer(timeout, KernelValue, Wallclock, i)]
  BY DEF WallclockDraws
<1>8. phase' = IF handling[Wallclock].type = "start" THEN tick ELSE phase
  BY DEF WallclockDraws
<1>9. tick \in Nat /\ phase \in Nat /\ kTimerFreq \in Nat /\ handling[Wallclock] \in Work /\ DOMAIN pending = TaskId
  BY <1>2, FactsOf, TimersAssumption DEF TimersType
<1>10. timeout \in Nat /\ phase' \in Nat
  <2>1. CASE handling[Wallclock].type = "start"
    BY <2>1, <1>7, <1>8, <1>9
  <2>2. CASE handling[Wallclock].type = "timer"
    <3>1. handling[Wallclock].timeout \in Nat
      BY <2>2, <1>9, WorkIs
    <3> QED BY <2>2, <3>1, <1>7, <1>8, <1>9
  <2> QED BY <2>1, <2>2, <1>1
<1>11. PICK u : u = Timer(timeout, KernelValue, Wallclock, i)
  OBVIOUS
<1>12. Own(u, Wallclock) /\ u # NoTimer /\ u.timeout = timeout
  BY <1>2, <1>10, <1>11, TimerIs
<1>13. pending' = [pending EXCEPT ![Wallclock] = u]
  BY <1>7, <1>11
<1>14. TimersType'
  BY <1>1, <1>2, <1>4, <1>10, <1>12, <1>13, TypesOfPending, FactsOf
<1>15. TimersOf(Wallclock)' = TimersOf(Wallclock) /\ TimersOf(Terminal)' = TimersOf(Terminal)
  BY <1>1 DEF TimersOf
<1>16. pending'[Wallclock] = u /\ pending'[Terminal] = pending[Terminal]
  BY <1>2, <1>9, <1>13
<1>17. Left(Terminal)
  BY <1>1, <1>4, <1>6, <1>15, <1>16 DEF Left
<1>18. Chain(Wallclock) /\ Beats
  BY FactsOf DEF Chains
<1>19. Chain(Wallclock)'
  BY <1>1, <1>6, <1>12, <1>15, <1>16, <1>18 DEF Chain, Busy, MessagesLeft
<1>20. Chains'
  BY <1>1, <1>16, <1>17, <1>19, LeftKeeps, FactsOf DEF Chains
<1>21. Beats'
  <2>1. CASE handling[Wallclock].type = "start"
    <3>1. TimersOf(Wallclock)' = {} /\ TimerMessages(Wallclock)' = {}
      BY <2>1, <1>6, <1>15, <1>18 DEF Chain, MessagesLeft
    <3>2. timeout = phase' /\ timeout = phase' + 0 * kTimerFreq
      BY <2>1, <1>7, <1>8, <1>9
    <3>3. OnBeat(timeout)'
      BY <3>2 DEF OnBeat
    <3> QED BY <2>1, <3>1, <3>3, <1>1, <1>12, <1>16 DEF Beats
  <2>2. CASE handling[Wallclock].type = "timer"
    <3>1. phase' = phase
      BY <2>2, <1>8
    <3>2. \A b : OnBeat(b)' <=> OnBeat(b)
      BY <3>1 DEF OnBeat
    <3>3. PICK b : b = handling[Wallclock].timeout
      OBVIOUS
    <3>4. OnBeat(b) /\ timeout = b + kTimerFreq
      BY <2>2, <3>3, <1>7, <1>18 DEF Beats
    <3>5. OnBeat(timeout)'
      BY <3>1, <3>4, <1>9, NextBeat
    <3> QED BY <3>2, <3>5, <1>1, <1>6, <1>12, <1>15, <1>16, <1>18 DEF Beats, MessagesLeft
  <2> QED BY <2>1, <2>2, <1>1
<1> QED BY <1>1, <1>5, <1>14, <1>20, <1>21, Together

\* The terminal's handler becomes a timer.
LEMMA TerminalBlinksKeeps == ASSUME TInv, TerminalBlinks PROVE TInv'
<1>1. /\ Running(Terminal) /\ pc[Terminal] = "run" /\ pending[Terminal] = NoTimer
      /\ UNCHANGED vars /\ handling[Terminal].type \in {"start", "timer"}
      /\ UNCHANGED <<tick, timers, handling, adding, app, ran_app, app_made, raced, keys, phase, waited>>
  BY DEF TerminalBlinks, appvars, Quiet, ghosts, KernelUnchanged
<1>2. Terminal \in TaskId /\ Wallclock \in TaskId /\ Terminal # Wallclock /\ Terminal \in tasks
  BY <1>1, TasksAre, RunningIs DEF Terminal, Wallclock
<1>3. /\ Grows /\ tasks' = tasks /\ pc' = pc /\ MessagesLeft(Wallclock) /\ MessagesLeft(Terminal)
  BY <1>1, <1>2, Quietly DEF vars
<1>4. PICK base, i : /\ base = IF handling[Terminal].type = "start" THEN tick ELSE handling[Terminal].timeout
                     /\ pending' = [pending EXCEPT ![Terminal] = Timer(base + BlinkPeriod, KernelValue, Terminal, i)]
  BY DEF TerminalBlinks
<1>5. tick \in Nat /\ BlinkPeriod \in Nat /\ handling[Terminal] \in Work /\ DOMAIN pending = TaskId
  BY <1>2, FactsOf, TimersAssumption DEF TimersType
<1>6. base \in Nat
  <2>1. CASE handling[Terminal].type = "start"
    BY <2>1, <1>4, <1>5
  <2>2. CASE handling[Terminal].type = "timer"
    BY <2>2, <1>4, <1>5, WorkIs
  <2> QED BY <2>1, <2>2, <1>1
<1>7. PICK timeout \in Nat : timeout = base + BlinkPeriod
  BY <1>5, <1>6
<1>8. PICK u : u = Timer(timeout, KernelValue, Terminal, i)
  OBVIOUS
<1>9. Own(u, Terminal) /\ u # NoTimer /\ u.value = KernelValue
  BY <1>2, <1>7, <1>8, TimerIs
<1>10. pending' = [pending EXCEPT ![Terminal] = u]
  BY <1>4, <1>7, <1>8
<1>11. TimersType'
  <2>1. phase' \in Nat
    BY <1>1, FactsOf DEF TimersType
  <2> QED BY <2>1, <1>1, <1>2, <1>3, <1>9, <1>10, TypesOfPending, FactsOf
<1>12. TimersOf(Wallclock)' = TimersOf(Wallclock) /\ TimersOf(Terminal)' = TimersOf(Terminal)
  BY <1>1 DEF TimersOf
<1>13. pending'[Terminal] = u /\ pending'[Wallclock] = pending[Wallclock]
  BY <1>2, <1>5, <1>10
<1>14. Left(Wallclock)
  BY <1>1, <1>3, <1>12, <1>13 DEF Left
<1>15. Chain(Wallclock)' /\ Beats'
  BY <1>1, <1>14, LeftKeeps, FactsOf DEF Chains
<1>16. Chain(Terminal) => Chain(Terminal)'
  BY <1>1, <1>3, <1>9, <1>12, <1>13 DEF Chain, Busy, MessagesLeft
<1>17. u.value # AppValue
  BY <1>9 DEF KernelValue, AppValue
<1>18. Chains'
  BY <1>1, <1>13, <1>15, <1>16, <1>17, FactsOf DEF Chains
<1> QED BY <1>1, <1>3, <1>11, <1>15, <1>18, Together

\* An application computes a timer ...
LEMMA CreateTimerKeeps == ASSUME TInv, CreateTimer PROVE TInv'
<1>1. /\ Running(Terminal) /\ app /\ pending[Terminal] = NoTimer /\ UNCHANGED vars
      /\ UNCHANGED <<tick, timers, handling, adding, app, ran_app, raced, keys, phase, waited>>
  BY DEF CreateTimer, InApp, Quiet, ghosts, KernelUnchanged
<1>2. Terminal \in TaskId /\ Wallclock \in TaskId /\ Terminal # Wallclock /\ Terminal \in tasks
  BY <1>1, TasksAre, RunningIs DEF Terminal, Wallclock
<1>3. /\ Grows /\ tasks' = tasks /\ pc' = pc /\ MessagesLeft(Wallclock)
  BY <1>1, <1>2, Quietly DEF vars
<1>4. tick \in Nat /\ phase \in Nat /\ DOMAIN pending = TaskId
  BY FactsOf DEF TimersType
<1>5. PICK timeout \in Nat : \E i : pending' = [pending EXCEPT ![Terminal] = Timer(timeout, AppValue, Terminal, i)]
  <2>1. PICK a \in AppTimeouts, relative \in BOOLEAN :
          pending' = [pending EXCEPT ![Terminal] =
                        Timer(a + (IF relative THEN tick ELSE 0), AppValue, Terminal, FreshId)]
    BY DEF CreateTimer
  <2>2. a \in Nat
    BY TimersAssumption
  <2>3. a + (IF relative THEN tick ELSE 0) \in Nat
    BY <1>4, <2>2
  <2> QED BY <2>1, <2>3
<1>6. PICK i : pending' = [pending EXCEPT ![Terminal] = Timer(timeout, AppValue, Terminal, i)]
  BY <1>5
<1>7. PICK u : u = Timer(timeout, AppValue, Terminal, i)
  OBVIOUS
<1>8. Own(u, Terminal)
  BY <1>2, <1>7, TimerIs
<1>9. pending' = [pending EXCEPT ![Terminal] = u]
  BY <1>6, <1>7
<1>10. TimersType'
  BY <1>1, <1>2, <1>3, <1>4, <1>8, <1>9, TypesOfPending, FactsOf
<1>11. Left(Wallclock)
  <2>1. pending'[Wallclock] = pending[Wallclock]
    BY <1>2, <1>4, <1>9
  <2> QED BY <2>1, <1>1, <1>3 DEF Left, TimersOf
<1>12. Chain(Wallclock)' /\ Beats'
  BY <1>1, <1>11, LeftKeeps, FactsOf DEF Chains
<1>13. Chains'
  BY <1>1, <1>12, FactsOf DEF Chains
<1> QED BY <1>1, <1>3, <1>10, <1>12, <1>13, Together

\* A timer that a task adds is its own, and no task timer.
LEMMA AddedIs ==
  ASSUME TInv, NEW t \in TaskId, pending[t] # NoTimer, timers' = timers \cup {pending[t]}
  PROVE  /\ TaskTimers' = TaskTimers /\ pending[t].task = t /\ t \in {Terminal, Wallclock}
         /\ \A c : c # t => TimersOf(c)' = TimersOf(c)
         /\ TimersOf(t)' = TimersOf(t) \cup {pending[t]}
<1>1. PICK u : u = pending[t]
  OBVIOUS
<1>2. Own(u, t)
  BY <1>1, FactsOf DEF TimersType
<1>3. u.value # kTaskTimerValue /\ u.task = t /\ t \in {Terminal, Wallclock}
  BY <1>2 DEF Own, KernelValue, AppValue, kTaskTimerValue
<1>4. timers' = timers \cup {u}
  BY <1>1
<1>5. TaskTimers' = TaskTimers
  BY <1>3, <1>4 DEF TaskTimers
<1>6. \A c : c # t => TimersOf(c)' = TimersOf(c)
  BY <1>3, <1>4 DEF TimersOf
<1>7. TimersOf(t)' = TimersOf(t) \cup {u}
  BY <1>3, <1>4 DEF TimersOf
<1> QED BY <1>1, <1>3, <1>5, <1>6, <1>7

\* Steps between two ticks that do not touch the task timer keep the waits, since the
\* queues only grow.
LEMMA AddedTogether ==
  ASSUME TInv, Grows, UNCHANGED <<waited, tick>>, TaskTimers' = TaskTimers, TimersType', Chains', Beats'
  PROVE  TInv'
<1>1. LevelsAre(sched)' /\ Armed' /\ Waits'
  BY WaitsKept
<1>2. Sound(KMsg)'
  BY DEF Grows
<1> QED BY <1>1, <1>2 DEF TInv

\* ... and adds it.
LEMMA AddTimerKeeps == ASSUME TInv, AddTimer PROVE TInv'
<1>1. /\ pending[Terminal].value = AppValue /\ UNCHANGED vars
      /\ timers' = timers \cup {pending[Terminal]} /\ pending' = [pending EXCEPT ![Terminal] = NoTimer]
      /\ UNCHANGED <<tick, handling, adding, app, ran_app, raced, keys, phase, waited>>
  BY DEF AddTimer, ghosts, appvars, KernelUnchanged
<1>2. Terminal \in TaskId /\ Wallclock \in TaskId /\ Terminal # Wallclock
  BY TasksAre DEF Terminal, Wallclock
<1>3. NoTimer.value = 0
  BY DEF NoTimer, Timer
<1>4. pending[Terminal] # NoTimer /\ pending[Terminal].value # KernelValue
  BY <1>1, <1>3 DEF AppValue, KernelValue
<1>5. adding' = adding \ {Terminal}
  BY <1>1, <1>4, FactsOf DEF TimersType
<1>6. /\ Grows /\ tasks' = tasks /\ pc' = pc /\ MessagesLeft(Wallclock)
  BY <1>1, <1>2, Quietly DEF vars
<1>7. /\ TaskTimers' = TaskTimers /\ TimersOf(Wallclock)' = TimersOf(Wallclock)
  BY <1>1, <1>2, <1>4, AddedIs
<1>8. TimersType'
  <2>1. TimersType
    BY FactsOf
  <2>2. handling' \in [TaskId -> Work] /\ \A x \in TaskId : handling'[x].type = "start" => pc'[x] = "run"
    BY <2>1, <1>1, <1>6 DEF TimersType
  <2> QED BY <2>1, <2>2, <1>1, <1>2, <1>4, <1>5, <1>6, TypesOfAdding
<1>9. Left(Wallclock)
  <2>1. pending'[Wallclock] = pending[Wallclock]
    BY <1>1, <1>2, FactsOf
  <2> QED BY <2>1, <1>1, <1>6, <1>7 DEF Left
<1>10. Chain(Wallclock)' /\ Beats'
  BY <1>1, <1>9, LeftKeeps, FactsOf DEF Chains
<1>11. Chains'
  BY <1>1, <1>10, FactsOf DEF Chains
<1> QED BY <1>1, <1>6, <1>7, <1>8, <1>10, <1>11, AddedTogether

\* The same for the kernel's own timers.
LEMMA AddTimerBeginKeeps == ASSUME TInv, NEW t \in TaskId, AddTimerBegin(t) PROVE TInv'
<1>1. /\ pending[t].value = KernelValue /\ UNCHANGED vars /\ adding' = adding \cup {t}
      /\ UNCHANGED <<tick, timers, handling, pending, app, ran_app, raced, keys, phase, waited>>
  BY DEF AddTimerBegin, ghosts, appvars, KernelUnchanged
<1>2. Terminal \in TaskId /\ Wallclock \in TaskId
  BY TasksAre
<1>3. /\ Grows /\ tasks' = tasks /\ pc' = pc /\ MessagesLeft(Wallclock) /\ MessagesLeft(Terminal)
  BY <1>1, <1>2, Quietly DEF vars
<1>4. TimersType'
  <2>1. TimersType
    BY FactsOf
  <2> QED BY <2>1, <1>1, <1>3 DEF TimersType, Own
<1>5. Left(Wallclock) /\ Left(Terminal)
  BY <1>1, <1>3 DEF Left, TimersOf
<1>6. Chains' /\ Beats'
  BY <1>1, <1>5, BothLeft
<1> QED BY <1>1, <1>3, <1>4, <1>6, Together

\* What the task that adds its timer does then.
LEMMA AddedStep ==
  ASSUME TInv, NEW t \in TaskId, AddTimerEnd(t)
  PROVE  /\ pending[t] # NoTimer /\ pending[t].value = KernelValue
         /\ timers' = timers \cup {pending[t]} /\ pending' = [pending EXCEPT ![t] = NoTimer]
         /\ adding' = adding \ {t} /\ UNCHANGED <<tick, app, ran_app, phase, waited>>
         /\ UNCHANGED vars \/ HandlerDone(t)
         /\ \E x \in Work : x.type \notin {"start", "timer"} /\ handling' = [handling EXCEPT ![t] = x]
<1>1. t \in adding /\ timers' = timers \cup {pending[t]} /\ pending' = [pending EXCEPT ![t] = NoTimer]
      /\ adding' = adding \ {t} /\ UNCHANGED <<tick, app, ran_app, phase, waited>>
  BY DEF AddTimerEnd, appvars, ghosts
<1>2. pending[t].value = KernelValue
  BY <1>1, FactsOf DEF TimersType
<1>3. NoTimer.value # KernelValue
  BY DEF NoTimer, Timer, KernelValue
<1>4. [type |-> "draw"].type = "draw" /\ [type |-> "none"].type = "none"
  OBVIOUS
<1>5. CASE handling' = [handling EXCEPT ![t] = [type |-> "draw"]] /\ KernelUnchanged
  <2>1. UNCHANGED vars
    BY <1>5 DEF KernelUnchanged
  <2>2. \E x \in Work : x.type \notin {"start", "timer"} /\ handling' = [handling EXCEPT ![t] = x]
    BY <1>4, <1>5, SignalsAre
  <2> QED BY <1>1, <1>2, <1>3, <2>1, <2>2
<1>6. CASE Handled(t)
  <2>1. HandlerDone(t) /\ handling' = [handling EXCEPT ![t] = [type |-> "none"]]
    BY <1>6 DEF Handled
  <2>2. \E x \in Work : x.type \notin {"start", "timer"} /\ handling' = [handling EXCEPT ![t] = x]
    BY <1>4, <2>1, SignalsAre
  <2> QED BY <1>1, <1>2, <1>3, <2>1, <2>2
<1> QED BY <1>5, <1>6 DEF AddTimerEnd

\* The end of AddTimer, which closes a chain again, keeps the invariant.
LEMMA AddTimerEndKeeps == ASSUME TInv, NEW t \in TaskId, AddTimerEnd(t) PROVE TInv'
<1>1. /\ pending[t] # NoTimer /\ pending[t].value = KernelValue
      /\ timers' = timers \cup {pending[t]} /\ pending' = [pending EXCEPT ![t] = NoTimer]
      /\ adding' = adding \ {t} /\ UNCHANGED <<tick, app, ran_app, phase, waited>>
      /\ UNCHANGED vars \/ HandlerDone(t)
  BY AddedStep
<1>2. PICK x \in Work : x.type \notin {"start", "timer"} /\ handling' = [handling EXCEPT ![t] = x]
  BY AddedStep
<1>3. Terminal \in TaskId /\ Wallclock \in TaskId /\ Terminal # Wallclock
  BY TasksAre DEF Terminal, Wallclock
<1>4. /\ Grows /\ tasks' = tasks /\ MessagesLeft(Wallclock) /\ MessagesLeft(Terminal)
      /\ pc' = pc \/ pc' = [pc EXCEPT ![t] = "recv"]
  BY <1>1, <1>3, Quietly
<1>5. /\ handling' \in [TaskId -> Work] /\ pc \in PcType /\ handling \in [TaskId -> Work] /\ DOMAIN pending = TaskId
      /\ \A u \in TaskId : handling'[u].type = "start" => pc'[u] = "run"
  BY <1>2, <1>4, HandlingType, FactsOf
<1>6. TimersType'
  BY <1>1, <1>4, <1>5, TypesOfAdding, FactsOf
<1>7. /\ TaskTimers' = TaskTimers /\ t \in {Terminal, Wallclock}
      /\ \A c : c # t => TimersOf(c)' = TimersOf(c)
      /\ TimersOf(t)' = TimersOf(t) \cup {pending[t]}
  BY <1>1, AddedIs
<1>8. ASSUME NEW c \in {Terminal, Wallclock}, c # t PROVE Left(c)
  BY <1>1, <1>2, <1>3, <1>4, <1>5, <1>7, <1>8 DEF Left, PcType
<1>9. MessagesLeft(t) /\ handling'[t] = x /\ pending'[t] = NoTimer
  BY <1>1, <1>2, <1>4, <1>5, <1>7
<1>10. Chain(t) => Chain(t)'
  <2> SUFFICES ASSUME Chain(t) PROVE Chain(t)'
    OBVIOUS
  <2>1. TimersOf(t) = {} /\ TimerMessages(t) = {}
    BY <1>1 DEF Chain, Busy
  <2>2. TimersOf(t)' = {pending[t]} /\ TimerMessages(t)' = {}
    BY <1>7, <1>9, <2>1 DEF MessagesLeft
  <2>3. ~Busy(t)'
    BY <1>2, <1>9 DEF Busy
  <2> QED BY <1>2, <1>9, <2>2, <2>3 DEF Chain, IsOne
<1>11. Chain(Wallclock)' /\ (Chain(Terminal) => Chain(Terminal)')
  BY <1>7, <1>8, <1>10, LeftKeeps, FactsOf DEF Chains
<1>12. Beats'
  <2>1. CASE t # Wallclock
    BY <1>1, <1>8, <2>1, LeftKeeps, FactsOf
  <2>2. CASE t = Wallclock
    <3>1. \A b : OnBeat(b)' <=> OnBeat(b)
      BY <1>1 DEF OnBeat
    <3>2. Beats
      BY FactsOf
    <3>3. \A u \in TimersOf(Wallclock)' : OnBeat(u.timeout)
      BY <1>1, <1>7, <2>2, <3>2 DEF Beats
    <3>4. handling'[Wallclock].type # "timer" /\ pending'[Wallclock] = NoTimer
      BY <1>2, <1>9, <2>2
    <3> QED BY <1>9, <2>2, <3>1, <3>2, <3>3, <3>4 DEF Beats, MessagesLeft
  <2> QED BY <2>1, <2>2
<1>13. Chains'
  <2>1. ~ran_app => pending'[Terminal].value # AppValue
    <3>1. NoTimer.value # AppValue
      BY DEF NoTimer, Timer, AppValue
    <3> QED BY <1>1, <1>3, <1>5, <1>9, <3>1, FactsOf DEF Chains
  <2> QED BY <1>1, <1>11, <2>1, FactsOf DEF Chains
<1> QED BY <1>1, <1>4, <1>6, <1>7, <1>12, <1>13, AddedTogether

\* Nobody waits longer for a task that goes to sleep, and no one waits behind the idle task.
LEMMA ReceiveWaits ==
  ASSUME TInv, NEW t \in TaskId, Receive(t)
  PROVE  Sound(KMsg)' /\ LevelsAre(sched)' /\ Armed' /\ Waits'
<1>1. /\ ReceiveMessage(t) /\ UNCHANGED <<tick, timers>> /\ cpu = t /\ t # Idle
      /\ waited' = [u \in TaskId |-> IF u = cpu' \/ ~ReadyAtTopIn(sched', u) THEN 0 ELSE waited[u]]
  BY DEF Receive, ReceiveMessage, Running
<1>2. Sound(KMsg)'
  BY <1>1, ReceiveKeeps, FactsOf
<1>3. Core(sched, OnSet(sched)) /\ cpu = CurrentTask(sched) /\ cpu \in OnSet(sched)
  BY CpuIsReady, FactsOf DEF Sound
<1>4. /\ sched'.lvl = sched.lvl
      /\ \/ sched' = sched
         \/ \A u : ~ (sched'.cur = 0 /\ Second(sched', u))
  <2>1. CASE msgs[t] # << >>
    BY <1>1, <2>1 DEF ReceiveMessage
  <2>2. CASE msgs[t] = << >>
    <3>1. sched' = SleepTask(sched, t)
      BY <1>1, <2>2 DEF ReceiveMessage
    <3>2. SleepTask(sched, t).lvl = sched.lvl /\ Core(SleepTask(sched, t), OnSet(SleepTask(sched, t)))
      BY <1>1, <1>3, SleepKeepsCore
    <3>3. PICK off : off = [sched EXCEPT !.on[t] = FALSE]
      OBVIOUS
    <3>4. SleepTask(sched, t) = RotateCurrentRunQueue(off, TRUE)
      BY <1>1, <1>3, <3>3 DEF SleepTask, OnSet
    <3>5. ~RotateCurrentRunQueue(off, TRUE).chg
      <4>1. off \in SchedType
        BY <1>3, <3>3 DEF Core, SchedType
      <4> QED BY <4>1 DEF RotateCurrentRunQueue, SchedType
    <3>6. PICK r : r = SleepTask(sched, t)
      OBVIOUS
    <3>7. Core(r, OnSet(r)) /\ ~r.chg
      BY <3>2, <3>4, <3>5, <3>6
    <3>8. \A u : ~ (r.cur = 0 /\ Second(r, u))
      BY <3>7, IdleIsLast
    <3> QED BY <3>1, <3>2, <3>6, <3>8
  <2> QED BY <2>1, <2>2
<1>5. Waits /\ Armed /\ LevelsAre(sched)
  BY FactsOf
<1>6. \A u \in TaskId : waited'[u] \in Nat /\ waited[u] \in Nat /\ waited'[u] <= waited[u]
  BY <1>1, <1>5 DEF Waits
<1>7. PICK v : TaskTimers = {v} /\ v.timeout - tick \in 1 .. kTaskTimerPeriod
  BY <1>5 DEF Armed
<1>8. PICK d : d = v.timeout - tick /\ d \in 1 .. kTaskTimerPeriod
  BY <1>7
<1>9. TaskTimers' = {v} /\ d = v.timeout - tick'
  BY <1>1, <1>7, <1>8 DEF TaskTimers
<1>10. Armed'
  BY <1>1, <1>7, <1>9 DEF Armed
<1>11. LevelsAre(sched)'
  BY <1>4, <1>5 DEF LevelsAre
<1>12. \A u \in TaskId : /\ waited[u] + d <= kTaskTimerPeriod + kTaskTimerPeriod
                         /\ sched.cur = 0 /\ Second(sched, u) => waited[u] + d <= kTaskTimerPeriod
  BY <1>5, <1>7, <1>8 DEF Waits
<1>13. \A u \in TaskId : sched'.cur = 0 /\ Second(sched', u) => waited[u] + d <= kTaskTimerPeriod
  BY <1>4, <1>12
<1>14. kTaskTimerPeriod \in Nat
  BY TimersAssumption
<1>15. \A u \in TaskId : /\ waited'[u] + d <= kTaskTimerPeriod + kTaskTimerPeriod
                         /\ sched'.cur = 0 /\ Second(sched', u) => waited'[u] + d <= kTaskTimerPeriod
  <2> SUFFICES ASSUME NEW u \in TaskId
               PROVE  /\ waited'[u] + d <= kTaskTimerPeriod + kTaskTimerPeriod
                      /\ sched'.cur = 0 /\ Second(sched', u) => waited'[u] + d <= kTaskTimerPeriod
    OBVIOUS
  <2>1. PICK a \in Nat, b \in Nat : a = waited'[u] /\ b = waited[u]
    BY <1>6
  <2>2. a <= b /\ a + d <= b + d
    BY <2>1, <1>6, <1>8
  <2>3. b + d <= kTaskTimerPeriod + kTaskTimerPeriod
    BY <2>1, <1>12
  <2>4. sched'.cur = 0 /\ Second(sched', u) => b + d <= kTaskTimerPeriod
    BY <2>1, <1>13
  <2> QED BY <2>1, <2>2, <2>3, <2>4, <1>8, <1>14
<1>16. waited' \in [TaskId -> Nat] /\ waited'[cpu'] = 0
  <2>1. cpu' \in TaskId
    BY <1>2 DEF Sound, TypeOver
  <2> QED BY <2>1, <1>1, <1>6
<1>17. \A u \in TaskId : u \notin OnSet(sched') => waited'[u] = 0
  BY <1>1 DEF ReadyAtTopIn, OnSet
<1>18. Waits'
  <2>1. OnSet(sched)' = OnSet(sched') /\ \A u : Second(sched, u)' <=> Second(sched', u)
    BY DEF OnSet, Second
  <2> QED BY <2>1, <1>9, <1>15, <1>16, <1>17 DEF Waits
<1> QED BY <1>2, <1>10, <1>11, <1>18

\* A queue of messages without its first.
LEMMA TailMessages ==
  ASSUME NEW q \in Seq(KMsg), q # << >>
  PROVE  /\ Tail(q) \in Seq(KMsg) /\ Head(q) \in KMsg /\ Head(q) = q[1] /\ 1 \in 1 .. Len(q)
         /\ \A i \in Int : i \in 1 .. Len(Tail(q)) <=> i + 1 \in 1 .. Len(q) /\ i + 1 # 1
         /\ \A i \in 1 .. Len(Tail(q)) : Tail(q)[i] = q[i + 1]
<1>1. /\ Tail(q) \in Seq(KMsg) /\ Len(Tail(q)) = Len(q) - 1 /\ Head(q) \in KMsg
      /\ \A i \in 1 .. Len(Tail(q)) : Tail(q)[i] = q[i + 1]
  BY HeadTailProperties
<1>2. PICK n \in Nat : n = Len(q)
  OBVIOUS
<1>3. n # 0 /\ Head(q) = q[1]
  BY <1>2
<1>4. \A i \in Int : i \in 1 .. n - 1 <=> i + 1 \in 1 .. n /\ i + 1 # 1
  BY <1>3
<1> QED BY <1>1, <1>2, <1>3, <1>4

\* The message goes from the queue to the handler.
LEMMA ReceiveChains ==
  ASSUME TInv, NEW t \in TaskId, Receive(t)
  PROVE  TimersType' /\ Chains' /\ Beats'
<1>1. /\ ReceiveMessage(t) /\ UNCHANGED <<tick, timers, pending, adding, app, ran_app, phase>> /\ pc[t] = "recv"
      /\ handling' = IF msgs[t] = << >> THEN handling ELSE [handling EXCEPT ![t] = Head(msgs[t])]
      /\ tasks' = tasks
  BY DEF Receive, ReceiveMessage, appvars
<1>2. Terminal \in TaskId /\ Wallclock \in TaskId /\ Terminal # Wallclock
  BY TasksAre DEF Terminal, Wallclock
<1>3. msgs \in [TaskId -> Seq(KMsg)] /\ handling \in [TaskId -> Work] /\ pc \in PcType
  BY FactsOf
<1>4. CASE msgs[t] = << >>
  <2>1. msgs' = msgs /\ pc' = pc /\ handling' = handling
    BY <1>1, <1>4 DEF ReceiveMessage
  <2>2. TimersType'
    <3>1. TimersType
      BY FactsOf
    <3> QED BY <3>1, <1>1, <2>1, TypesStay DEF TimersType
  <2>3. Left(Wallclock) /\ Left(Terminal)
    BY <1>1, <2>1 DEF Left, TimersOf, MessagesLeft, TimerMessages
  <2> QED BY <1>1, <2>2, <2>3, BothLeft
<1>5. CASE msgs[t] # << >>
  <2>1. PICK q \in Seq(KMsg) : q = msgs[t]
    BY <1>3
  <2>2. PICK h, p : h = Head(q) /\ p = Tail(q)
    OBVIOUS
  <2>3. /\ p \in Seq(KMsg) /\ h \in KMsg /\ h = q[1] /\ 1 \in 1 .. Len(q)
        /\ \A i \in Int : i \in 1 .. Len(p) <=> i + 1 \in 1 .. Len(q) /\ i + 1 # 1
        /\ \A i \in 1 .. Len(p) : p[i] = q[i + 1]
    BY <1>5, <2>1, <2>2, TailMessages
  <2>4. msgs' = [msgs EXCEPT ![t] = p] /\ pc' = [pc EXCEPT ![t] = "run"] /\ handling' = [handling EXCEPT ![t] = h]
    BY <1>1, <1>5, <2>1, <2>2 DEF ReceiveMessage
  <2>5. h \in Work /\ h.type # "start"
    BY <2>3, MessageIs
  <2>6. TimersType'
    <3>1. TimersType
      BY FactsOf
    <3>2. handling' \in [TaskId -> Work] /\ \A u \in TaskId : handling'[u].type = "start" => pc'[u] = "run"
      BY <3>1, <1>3, <2>4, <2>5 DEF TimersType, PcType
    <3> QED BY <3>1, <3>2, <1>1, TypesStay
  <2>7. ASSUME NEW c \in {Terminal, Wallclock}, c # t PROVE Left(c)
    <3>1. msgs'[c] = msgs[c] /\ pc'[c] = pc[c] /\ handling'[c] = handling[c]
      BY <1>2, <1>3, <2>4, <2>7 DEF PcType
    <3> QED BY <3>1, <1>1 DEF Left, TimersOf, MessagesLeft, TimerMessages
  <2>8. handling'[t] = h /\ pc'[t] = "run" /\ msgs'[t] = p /\ pending'[t] = pending[t] /\ TimersOf(t)' = TimersOf(t)
    BY <1>1, <1>3, <2>4 DEF PcType, TimersOf
  <2>9. handling[t].type # "start"
    BY <1>1, FactsOf DEF TimersType
  <2>10. TimerMessages(t) = {i \in 1 .. Len(q) : q[i].type = "timer"} /\ TimerMessages(t)' = {i \in 1 .. Len(p) : p[i].type = "timer"}
    BY <2>1, <2>8 DEF TimerMessages
  <2>11. /\ \A i \in TimerMessages(t)' : i \in Int /\ i + 1 \in TimerMessages(t) /\ i + 1 # 1
         /\ \A i \in TimerMessages(t) : i \in Int /\ (i # 1 => i - 1 \in TimerMessages(t)')
         /\ 1 \in TimerMessages(t) <=> h.type = "timer"
    <3>1. \A i \in TimerMessages(t)' : i \in Int /\ i + 1 \in TimerMessages(t) /\ i + 1 # 1
      BY <2>3, <2>10
    <3>2. ASSUME NEW i \in TimerMessages(t), i # 1 PROVE i - 1 \in TimerMessages(t)'
      <4>1. i \in 1 .. Len(q) /\ q[i].type = "timer" /\ i - 1 \in Int /\ (i - 1) + 1 = i
        BY <2>10
      <4>2. i - 1 \in 1 .. Len(p) /\ p[i - 1] = q[i]
        BY <4>1, <2>3, <3>2
      <4> QED BY <4>1, <4>2, <2>10
    <3>3. 1 \in TimerMessages(t) <=> h.type = "timer"
      BY <2>3, <2>10
    <3>4. \A i \in TimerMessages(t) : i \in Int
      BY <2>10
    <3> QED BY <3>1, <3>2, <3>3, <3>4
  <2>12. Busy(t) <=> pending[t] # NoTimer
    BY <1>1 DEF Busy
  <2>13. Busy(t)' <=> pending[t] # NoTimer \/ h.type = "timer"
    BY <2>8 DEF Busy
  <2>14. Chain(t) => Chain(t)'
    <3> SUFFICES ASSUME Chain(t) PROVE Chain(t)'
      OBVIOUS
    <3>1. CASE TimerMessages(t) = {}
      <4>1. TimerMessages(t)' = {} /\ h.type # "timer"
        BY <3>1, <2>11
      <4>2. ~ IsOne(TimerMessages(t))
        BY <3>1 DEF IsOne
      <4> QED BY <3>1, <4>1, <4>2, <2>5, <2>8, <2>9, <2>12, <2>13 DEF Chain
    <3>2. CASE TimerMessages(t) # {}
      <4>1. TimersOf(t) = {} /\ IsOne(TimerMessages(t)) /\ ~Busy(t)
        BY <3>2, <2>9 DEF Chain
      <4>2. PICK x : TimerMessages(t) = {x}
        BY <4>1 DEF IsOne
      <4>3. CASE x = 1
        <5>1. h.type = "timer" /\ TimerMessages(t)' = {}
          BY <4>2, <4>3, <2>11
        <5> QED BY <5>1, <4>1, <2>5, <2>8, <2>13 DEF Chain
      <4>4. CASE x # 1
        <5>1. h.type # "timer" /\ x \in Int /\ x - 1 \in TimerMessages(t)'
          BY <4>2, <4>4, <2>11
        <5>2. \A i \in TimerMessages(t)' : i \in Int /\ i + 1 = x
          BY <4>2, <2>11
        <5>3. \A i \in TimerMessages(t)' : i = x - 1
          BY <5>1, <5>2
        <5>4. TimerMessages(t)' = {x - 1}
          BY <5>1, <5>3
        <5> QED BY <5>1, <5>4, <4>1, <2>5, <2>8, <2>12, <2>13 DEF Chain, IsOne
      <4> QED BY <4>3, <4>4
    <3> QED BY <3>1, <3>2
  <2>15. ASSUME NEW c \in {Terminal, Wallclock} PROVE Chain(c) => Chain(c)'
    BY <2>7, <2>14, LeftKeeps
  <2>16. Chains'
    BY <1>1, <2>15, FactsOf DEF Chains
  <2>17. Beats'
    <3>1. CASE t # Wallclock
      BY <1>1, <2>7, <3>1, LeftKeeps, FactsOf
    <3>2. CASE t = Wallclock
      <4>1. \A b : OnBeat(b)' <=> OnBeat(b)
        BY <1>1 DEF OnBeat
      <4>2. Beats
        BY FactsOf
      <4>3. \A i \in TimerMessages(t)' : p[i] = q[i + 1] /\ i + 1 \in TimerMessages(t)
        BY <2>3, <2>10, <2>11
      <4>4. \A i \in TimerMessages(t)' : OnBeat(p[i].timeout)
        BY <4>2, <4>3, <2>1, <3>2 DEF Beats
      <4>5. h.type = "timer" => OnBeat(h.timeout)
        BY <4>2, <2>1, <2>3, <2>11, <3>2 DEF Beats
      <4> QED BY <3>2, <4>1, <4>2, <4>4, <4>5, <1>1, <2>8 DEF Beats
    <3> QED BY <3>1, <3>2
  <2> QED BY <2>6, <2>16, <2>17
<1> QED BY <1>4, <1>5

\* ReceiveMessage keeps it, whether it takes a message or puts the task to sleep.
LEMMA ReceiveKeepsInv == ASSUME TInv, NEW t \in TaskId, Receive(t) PROVE TInv'
BY ReceiveWaits, ReceiveChains DEF TInv

-----------------------------------------------------------------------------
(* The tick.                                                                *)

Fired(s, i, c) == \E j \in 1 .. i : s[j].task = c

\* After the first i of the due timers: a task whose only timer was among them has its message.
SentUpTo(s, g, i) ==
  /\ g.msgs \in [TaskId -> Seq(KMsg)]
  /\ Grown(sched, g.sched) /\ OnSet(g.sched) \subseteq tasks
  /\ \A c \in {Terminal, Wallclock} :
       /\ ~Fired(s, i, c) => g.msgs[c] = msgs[c]
       /\ \A x : TimersOf(c) = {x} /\ Fired(s, i, c) => g.msgs[c] = Append(msgs[c], TimerMessage(x))

\* The next due timer is sent: what holds of the first i holds of the first i + 1.
LEMMA SendFiredStep ==
  ASSUME TInv, NEW s, NEW n \in Nat, IsOrder(s, n, Due), NEW i \in Nat, i < n,
         NEW g, SentUpTo(s, g, i)
  PROVE  SentUpTo(s, SendFired(g, s[i + 1]), i + 1)
<1>1. PICK u : u = s[i + 1]
  OBVIOUS
<1>2. i + 1 \in 1 .. n /\ \A j \in 1 .. i + 1 : j \in 1 .. i \/ j = i + 1
  OBVIOUS
<1>3. u \in Due /\ u \in timers /\ \A j \in 1 .. i : s[j] \in timers /\ s[j] # u
  <2>1. \A j \in 1 .. i : j \in 1 .. n /\ j # i + 1
    OBVIOUS
  <2> QED BY <1>1, <1>2, <2>1 DEF IsOrder, Due
<1>4. /\ u.timeout \in Nat /\ u.value \in Int
      /\ u.task \in {Terminal, Wallclock} => Own(u, u.task)
  BY <1>3, FactsOf DEF TimersType
<1>5. \A c : Fired(s, i + 1, c) <=> Fired(s, i, c) \/ u.task = c
  <2>1. \A j \in 1 .. i : j \in 1 .. i + 1
    OBVIOUS
  <2>2. i + 1 \in 1 .. i + 1
    OBVIOUS
  <2> QED BY <1>1, <1>2, <2>1, <2>2 DEF Fired
<1>6. g.msgs \in [TaskId -> Seq(KMsg)] /\ Grown(sched, g.sched) /\ OnSet(g.sched) \subseteq tasks
  BY DEF SentUpTo
<1>7. CASE u.value = kTaskTimerValue \/ u.task \notin tasks
  <2>1. SendFired(g, u) = g
    BY <1>7 DEF SendFired
  <2>2. u.task \notin {Terminal, Wallclock}
    BY <1>4, <1>7 DEF Own, kTaskTimerValue, KernelValue, AppValue
  <2> QED BY <1>1, <1>5, <2>1, <2>2 DEF SentUpTo
<1>8. CASE u.value # kTaskTimerValue /\ u.task \in tasks
  <2>1. PICK t : t = u.task
    OBVIOUS
  <2>2. PICK m : m = TimerMessage(u)
    OBVIOUS
  <2>3. t \in tasks /\ t \in TaskId
    BY <1>8, <2>1, FactsOf
  <2>4. m \in KMsg
    BY <1>4, <2>2 DEF TimerMessage, KMsg
  <2>5. PICK h : h = SendFired(g, u)
    OBVIOUS
  <2>6. h.msgs = [g.msgs EXCEPT ![t] = Append(g.msgs[t], m)] /\ h.sched = WakeupTask(g.sched, t, KeepLevel)
    BY <1>8, <2>1, <2>2, <2>5 DEF SendFired
  <2>7. PICK a : a = g.sched
    OBVIOUS
  <2>8. Core(a, OnSet(a)) /\ Grown(sched, a) /\ OnSet(a) \subseteq tasks
    BY <1>6, <2>7 DEF Grown
  <2>9. Grown(a, WakeupTask(a, t, KeepLevel)) /\ OnSet(WakeupTask(a, t, KeepLevel)) = OnSet(a) \cup {t}
    BY <2>3, <2>8, WakeGrows
  <2>10. PICK b : b = WakeupTask(a, t, KeepLevel)
    OBVIOUS
  <2>11. Grown(sched, b) /\ OnSet(b) \subseteq tasks
    <3>1. PICK z : z = sched
      OBVIOUS
    <3>2. Grown(z, a) /\ Grown(a, b)
      BY <2>8, <2>9, <2>10, <3>1
    <3>3. Grown(z, b)
      BY <3>2, GrownTwice
    <3> QED BY <2>3, <2>8, <2>9, <2>10, <3>1, <3>3
  <2>12. h.msgs \in [TaskId -> Seq(KMsg)]
    <3>1. Append(g.msgs[t], m) \in Seq(KMsg)
      BY <1>6, <2>3, <2>4, AppendProperties
    <3> QED BY <1>6, <2>3, <2>6, <3>1
  <2>13. ASSUME NEW c \in {Terminal, Wallclock}
         PROVE  /\ ~Fired(s, i + 1, c) => h.msgs[c] = msgs[c]
                /\ \A x : TimersOf(c) = {x} /\ Fired(s, i + 1, c) => h.msgs[c] = Append(msgs[c], TimerMessage(x))
    <3>1. c \in TaskId
      BY TasksAre
    <3>2. CASE c # t
      <4>1. h.msgs[c] = g.msgs[c]
        BY <1>6, <2>3, <2>6, <3>1, <3>2
      <4> QED BY <1>5, <2>1, <3>2, <4>1 DEF SentUpTo
    <3>3. CASE c = t
      <4>1. Fired(s, i + 1, c) /\ h.msgs[c] = Append(g.msgs[c], m)
        BY <1>5, <1>6, <2>1, <2>3, <2>6, <3>3
      <4>2. ASSUME NEW x, TimersOf(c) = {x} PROVE h.msgs[c] = Append(msgs[c], TimerMessage(x))
        <5>1. u = x
          BY <1>3, <2>1, <3>3, <4>2 DEF TimersOf
        <5>2. ~Fired(s, i, c)
          BY <1>3, <4>2, <5>1 DEF Fired, TimersOf
        <5>3. g.msgs[c] = msgs[c]
          BY <5>2 DEF SentUpTo
        <5> QED BY <2>2, <4>1, <5>1, <5>3
      <4> QED BY <4>1, <4>2
    <3> QED BY <3>2, <3>3
  <2>14. h.sched = b
    BY <2>6, <2>7, <2>10
  <2> QED BY <1>1, <2>5, <2>11, <2>12, <2>13, <2>14 DEF SentUpTo
<1> QED BY <1>7, <1>8

\* All of them.
SentAll(s, g) ==
  \E n \in Nat : IsOrder(s, n, Due) /\ SentUpTo(s, g, n)

\* What the tick has sent once all due timers are sent, in whichever order.
LEMMA SentIs ==
  ASSUME TInv, NEW s \in SetToSeqs(Due)
  PROVE  SentAll(s, FoldLeft(SendFired, [msgs |-> msgs, sched |-> sched], s))
<1>1. IsFiniteSet(Due)
  <2>1. IsFiniteSet(timers) /\ Due \subseteq timers
    BY FactsOf DEF TimersType, Due
  <2> QED BY <2>1, FS_Subset
<1>2. PICK n \in Nat : IsOrder(s, n, Due)
  BY <1>1, OrderIs
<1>3. PICK base : base = [msgs |-> msgs, sched |-> sched]
  OBVIOUS
<1>4. InTurn(base, s, n)
  BY <1>2, SentOneByOne DEF IsOrder
<1>5. PICK f : /\ f[0] = base
               /\ \A i \in 1 .. n : f[i] = SendFired(f[i - 1], s[i])
               /\ f[n] = FoldLeft(SendFired, base, s)
  BY <1>4 DEF InTurn
<1> DEFINE S == {i \in Nat : i <= n => SentUpTo(s, f[i], i)}
<1>6. 0 \in S
  <2>1. base.msgs = msgs /\ base.sched = sched
    BY <1>3
  <2>2. Core(sched, OnSet(sched)) /\ OnSet(sched) \subseteq tasks /\ msgs \in [TaskId -> Seq(KMsg)]
    BY FactsOf DEF Sound, Books, OnSet
  <2>3. PICK z : z = sched
    OBVIOUS
  <2>4. Grown(z, z)
    BY <2>2, <2>3, NoneGrown
  <2>5. \A c : ~Fired(s, 0, c)
    BY DEF Fired
  <2>6. SentUpTo(s, base, 0)
    BY <2>1, <2>2, <2>3, <2>4, <2>5 DEF SentUpTo
  <2> QED BY <1>5, <2>6
<1>7. \A i \in S : i + 1 \in S
  <2> SUFFICES ASSUME NEW i \in Nat, i <= n => SentUpTo(s, f[i], i), i + 1 <= n
               PROVE  SentUpTo(s, f[i + 1], i + 1)
    OBVIOUS
  <2>1. i < n /\ i <= n /\ i + 1 \in 1 .. n /\ (i + 1) - 1 = i
    OBVIOUS
  <2>2. f[i + 1] = SendFired(f[i], s[i + 1])
    BY <1>5, <2>1
  <2>3. SentUpTo(s, f[i], i)
    BY <2>1
  <2>4. PICK g : g = f[i]
    OBVIOUS
  <2>5. SentUpTo(s, SendFired(g, s[i + 1]), i + 1)
    BY <1>2, <2>1, <2>3, <2>4, SendFiredStep
  <2> QED BY <2>2, <2>4, <2>5
<1>8. S = Nat
  <2>1. S \in SUBSET Nat
    OBVIOUS
  <2> HIDE DEF S
  <2> QED BY <1>6, <1>7, <2>1, InductionOn
<1>9. SentUpTo(s, f[n], n)
  <2>1. n \in S
    BY <1>8
  <2> QED BY <2>1
<1> QED BY <1>2, <1>3, <1>5, <1>9 DEF SentAll

\* What a tick leaves, when h is the state with all messages sent.
Ticked(s, h) ==
  /\ SentAll(s, h)
  /\ tick' = tick + 1 /\ msgs' = h.msgs
  /\ sched' = IF Rearm(Due) # {} THEN RotateCurrentRunQueue(h.sched, FALSE) ELSE h.sched
  /\ cpu' = CurrentTask(sched')
  /\ timers' = (timers \ Due) \cup Rearm(Due)
  /\ waited' = [t \in TaskId |-> IF ReadyAtTopIn(sched', t) /\ cpu' # t THEN waited[t] + 1 ELSE 0]
  /\ UNCHANGED <<tasks, latest_id, finish_tasks, finish_waiter, pc, subtask>>
  /\ UNCHANGED <<handling, pending, adding, app, ran_app, phase>>

\* What a tick does: every due timer is gone and sent, and the task timer armed again.
LEMMA TickIs ==
  ASSUME TInv, LAPICTimerOnInterrupt
  PROVE  \E s, h : Ticked(s, h)
<1>1. PICK s \in PopOrders(Due) :
        LET sent   == FoldLeft(SendFired, [msgs |-> msgs, sched |-> sched], s)
            switch == Rearm(ToSet(s)) # {}
        IN  /\ \A t \in TaskId : Len(sent.msgs[t]) <= MaxMessages
            /\ msgs' = sent.msgs
            /\ sched' = IF switch THEN RotateCurrentRunQueue(sent.sched, FALSE)
                        ELSE sent.sched
            /\ cpu' = CurrentTask(sched')
            /\ timers' = (timers \ ToSet(s)) \cup Rearm(ToSet(s))
  BY DEF LAPICTimerOnInterrupt
<1>2. PICK h : h = FoldLeft(SendFired, [msgs |-> msgs, sched |-> sched], s)
  OBVIOUS
<1>3. s \in SetToSeqs(Due)
  BY DEF PopOrders
<1>4. SentAll(s, h)
  BY <1>2, <1>3, SentIs
<1>5. ToSet(s) = Due
  BY <1>4 DEF SentAll, IsOrder
<1>6. /\ msgs' = h.msgs /\ cpu' = CurrentTask(sched') /\ timers' = (timers \ Due) \cup Rearm(Due)
      /\ sched' = IF Rearm(Due) # {} THEN RotateCurrentRunQueue(h.sched, FALSE) ELSE h.sched
  BY <1>1, <1>2, <1>5
<1>7. Ticked(s, h)
  BY <1>4, <1>6 DEF Ticked, LAPICTimerOnInterrupt, appvars
<1> QED BY <1>7

\* The run queues after a tick.
LEMMA TickQueues ==
  ASSUME TInv, NEW s, NEW h, Ticked(s, h)
  PROVE  Sound(KMsg)' /\ LevelsAre(sched)'
<1>1. /\ h.msgs \in [TaskId -> Seq(KMsg)] /\ Grown(sched, h.sched) /\ OnSet(h.sched) \subseteq tasks
  BY DEF Ticked, SentAll, SentUpTo
<1>2. PICK a : a = h.sched
  OBVIOUS
<1>3. Core(a, OnSet(a)) /\ a.lvl = sched.lvl /\ OnSet(a) \subseteq tasks
  BY <1>1, <1>2 DEF Grown
<1>4. PICK r : r = IF Rearm(Due) # {} THEN RotateCurrentRunQueue(a, FALSE) ELSE a
  OBVIOUS
<1>5. Core(r, OnSet(r)) /\ r.lvl = a.lvl /\ OnSet(r) = OnSet(a)
  <2>1. CASE r = a
    BY <2>1, <1>3
  <2>2. CASE r = RotateCurrentRunQueue(a, FALSE)
    <3>1. Core(RotateCurrentRunQueue(a, FALSE), OnSet(a)) /\ RotateCurrentRunQueue(a, FALSE).on = a.on
          /\ RotateCurrentRunQueue(a, FALSE).lvl = a.lvl
      BY <1>3, RotateCorrect
    <3>2. Core(r, OnSet(a)) /\ r.on = a.on /\ r.lvl = a.lvl
      BY <2>2, <3>1
    <3>3. OnSet(r) = OnSet(a)
      BY <3>2 DEF OnSet
    <3> QED BY <3>2, <3>3
  <2> QED BY <2>1, <2>2, <1>4
<1>6. /\ sched' = r /\ cpu' = CurrentTask(r) /\ msgs' \in [TaskId -> Seq(KMsg)]
      /\ UNCHANGED <<tasks, latest_id, finish_tasks, finish_waiter, pc, subtask>>
  BY <1>1, <1>2, <1>4 DEF Ticked
<1>7. CurrentTask(r) \in TaskId
  <2>1. CurrentTask(r) \in OnSet(r)
    BY <1>5, FrontIsReady
  <2> QED BY <2>1 DEF OnSet
<1>8. TypeOver(KMsg) /\ Books
  BY FactsOf DEF Sound
<1>9. TypeOver(KMsg)'
  BY <1>5, <1>6, <1>7, <1>8 DEF TypeOver, Core
<1>10. \A t \in TaskId : r.on[t] => t \in tasks
  BY <1>3, <1>5 DEF OnSet
<1>11. Books'
  BY <1>6, <1>8, <1>10 DEF Books
<1>12. Sound(KMsg)'
  BY <1>5, <1>6, <1>9, <1>11 DEF Sound, Core, CurrentTask, OnSet
<1>13. LevelsAre(sched)'
  BY <1>3, <1>5, <1>6, FactsOf DEF LevelsAre
<1> QED BY <1>12, <1>13

\* The timers after a tick: the task timer is due again in a period, or a tick nearer.
LEMMA TickTimers ==
  ASSUME TInv, NEW s, NEW h, Ticked(s, h)
  PROVE  /\ \E u, v : /\ TaskTimers = {u} /\ TaskTimers' = {v} /\ u.timeout - tick \in 1 .. kTaskTimerPeriod
                      /\ \/ Rearm(Due) # {} /\ u.timeout - tick = 1 /\ v.timeout - tick' = kTaskTimerPeriod
                         \/ Rearm(Due) = {} /\ v = u /\ u.timeout - tick >= 2
         /\ \A c \in {Terminal, Wallclock} : TimersOf(c)' = TimersOf(c) \ Due
         /\ TimersType'
         /\ \A x \in timers' : x.timeout > tick'
         /\ \A x \in timers \ timers' : x.timeout <= tick'
<1>1. /\ tick' = tick + 1 /\ timers' = (timers \ Due) \cup Rearm(Due) /\ pc' = pc /\ tasks' = tasks
      /\ UNCHANGED <<handling, pending, adding, phase>>
  BY DEF Ticked
<1>2. tick \in Nat /\ kTaskTimerPeriod \in Nat \ {0} /\ \A x \in timers : x.timeout \in Nat
  BY FactsOf, TimersAssumption DEF TimersType
<1>3. PICK u : TaskTimers = {u} /\ u.timeout - tick \in 1 .. kTaskTimerPeriod
  BY FactsOf DEF Armed
<1>4. u \in timers /\ u.value = kTaskTimerValue /\ u.timeout \in Nat
      /\ \A x \in timers : x.value = kTaskTimerValue => x = u
  BY <1>2, <1>3 DEF TaskTimers
<1>5. PICK r : r = Timer(tick + 1 + kTaskTimerPeriod, kTaskTimerValue, 1, u.id)
  OBVIOUS
<1>6. r.timeout = tick + 1 + kTaskTimerPeriod /\ r.value = kTaskTimerValue /\ r.task = 1
  BY <1>5 DEF Timer
<1>7. r.task \notin {Terminal, Wallclock} /\ r.value \in Int /\ r.timeout \in Nat /\ r.timeout > tick + 1
  BY <1>2, <1>6 DEF Terminal, Wallclock, kTaskTimerValue
<1>8. CASE u \in Due
  <2>1. Rearm(Due) = {r}
    BY <1>4, <1>5, <1>8 DEF Rearm, Due
  <2>2. u.timeout - tick = 1
    BY <1>2, <1>3, <1>4, <1>8 DEF Due
  <2>3. r.timeout - tick' = kTaskTimerPeriod
    BY <1>1, <1>2, <1>6
  <2>4. TaskTimers' = {r}
    BY <1>1, <1>4, <1>6, <1>8, <2>1 DEF TaskTimers
  <2>5. \A c \in {Terminal, Wallclock} : TimersOf(c)' = TimersOf(c) \ Due
    BY <1>1, <1>7, <2>1 DEF TimersOf
  <2>6. timers' = (timers \ Due) \cup {r}
    BY <1>1, <2>1
  <2>7. IsFiniteSet(timers')
    <3>1. IsFiniteSet(timers \ Due)
      BY FS_Subset, FactsOf DEF TimersType
    <3> QED BY <2>6, <3>1, FS_AddElement
  <2>8. TimersType'
    <3>1. TimersType
      BY FactsOf
    <3>2. tick' \in Nat
      BY <1>1, <1>2
    <3>3. \A x \in timers' : /\ x.timeout \in Nat /\ x.value \in Int
                             /\ x.task \in {Terminal, Wallclock} => Own(x, x.task)
      BY <1>7, <2>6, <3>1 DEF TimersType
    <3> QED BY <1>1, <2>7, <3>1, <3>2, <3>3 DEF TimersType, Own
  <2>9. \A x \in timers' : x.timeout > tick'
    <3>1. \A x \in timers \ Due : x.timeout > tick + 1
      BY <1>2 DEF Due
    <3> QED BY <1>1, <1>7, <2>6, <3>1
  <2>10. \A x \in timers \ timers' : x.timeout <= tick'
    BY <1>1 DEF Due
  <2> QED BY <1>3, <2>1, <2>2, <2>3, <2>4, <2>5, <2>8, <2>9, <2>10
<1>9. CASE u \notin Due
  <2>1. Rearm(Due) = {}
    BY <1>4, <1>9 DEF Rearm, Due
  <2>2. u.timeout - tick >= 2
    BY <1>2, <1>3, <1>4, <1>9 DEF Due
  <2>3. timers' = timers \ Due
    BY <1>1, <2>1
  <2>4. TaskTimers' = {u}
    BY <1>4, <1>9, <2>3 DEF TaskTimers
  <2>5. \A c \in {Terminal, Wallclock} : TimersOf(c)' = TimersOf(c) \ Due
    BY <2>3 DEF TimersOf
  <2>6. IsFiniteSet(timers')
    BY <2>3, FS_Subset, FactsOf DEF TimersType
  <2>7. TimersType'
    <3>1. TimersType
      BY FactsOf
    <3>2. tick' \in Nat
      BY <1>1, <1>2
    <3>3. \A x \in timers' : /\ x.timeout \in Nat /\ x.value \in Int
                             /\ x.task \in {Terminal, Wallclock} => Own(x, x.task)
      BY <2>3, <3>1 DEF TimersType
    <3> QED BY <1>1, <2>6, <3>1, <3>2, <3>3 DEF TimersType, Own
  <2>8. \A x \in timers' : x.timeout > tick'
    BY <1>1, <1>2, <2>3 DEF Due
  <2>9. \A x \in timers \ timers' : x.timeout <= tick'
    BY <1>1 DEF Due
  <2> QED BY <1>3, <2>1, <2>2, <2>4, <2>5, <2>7, <2>8, <2>9
<1> QED BY <1>8, <1>9

\* A chain goes from the timer to its message.
LEMMA TickChains ==
  ASSUME TInv, NEW s, NEW h, Ticked(s, h), NEW c \in {Terminal, Wallclock}, Chain(c)
  PROVE  Chain(c)' /\ (c = Wallclock => Beats')
<1>1. PICK n \in Nat : IsOrder(s, n, Due) /\ SentUpTo(s, h, n)
  BY DEF Ticked, SentAll
<1>2. TimersOf(c)' = TimersOf(c) \ Due
  BY TickTimers
<1>3. /\ msgs' = h.msgs /\ UNCHANGED <<handling, pending, pc, phase>>
  BY DEF Ticked
<1>4. Fired(s, n, c) <=> \E u \in Due : u.task = c
  BY <1>1 DEF Fired, IsOrder
<1>5. Fired(s, n, c) <=> TimersOf(c) \cap Due # {}
  BY <1>4 DEF TimersOf, Due
<1>6. (Busy(c)' <=> Busy(c)) /\ handling'[c] = handling[c]
  BY <1>3 DEF Busy
<1>7. CASE ~Fired(s, n, c)
  <2>1. msgs'[c] = msgs[c] /\ TimersOf(c)' = TimersOf(c)
    BY <1>1, <1>2, <1>3, <1>5, <1>7 DEF SentUpTo
  <2>2. Left(c)
    BY <1>3, <2>1 DEF Left, MessagesLeft, TimerMessages
  <2> QED BY <1>3, <2>2, LeftKeeps, FactsOf
<1>8. CASE Fired(s, n, c)
  <2>1. IsOne(TimersOf(c)) /\ TimerMessages(c) = {} /\ ~Busy(c) /\ handling[c].type # "start"
    BY <1>5, <1>8 DEF Chain
  <2>2. PICK x : TimersOf(c) = {x}
    BY <2>1 DEF IsOne
  <2>3. x \in Due /\ TimersOf(c)' = {}
    BY <1>2, <1>5, <1>8, <2>2
  <2>4. msgs'[c] = Append(msgs[c], TimerMessage(x))
    BY <1>1, <1>3, <1>8, <2>2 DEF SentUpTo
  <2>5. PICK q \in Seq(KMsg) : q = msgs[c]
    BY FactsOf, TasksAre
  <2>6. PICK m : m = TimerMessage(x)
    OBVIOUS
  <2>7. m.type = "timer" /\ m.timeout = x.timeout /\ m \in KMsg
    <3>1. x.timeout \in Nat /\ x.value \in Int
      BY <2>2, FactsOf DEF TimersOf, TimersType
    <3> QED BY <2>6, <3>1 DEF TimerMessage, KMsg
  <2>8. PICK k \in Nat : k = Len(q)
    OBVIOUS
  <2>9. PICK p : p = Append(q, m)
    OBVIOUS
  <2>10. Len(p) = k + 1 /\ p[k + 1] = m /\ \A i \in 1 .. k : p[i] = q[i]
    BY <2>7, <2>8, <2>9, AppendProperties
  <2>11. \A i \in 1 .. k : q[i].type # "timer"
    BY <2>1, <2>5, <2>8 DEF TimerMessages
  <2>12. \A i : i \in 1 .. k + 1 /\ p[i].type = "timer" <=> i = k + 1
    <3>1. \A i : i \in 1 .. k + 1 <=> i \in 1 .. k \/ i = k + 1
      OBVIOUS
    <3> QED BY <3>1, <2>7, <2>10, <2>11
  <2>13. TimerMessages(c)' = {k + 1} /\ msgs'[c][k + 1] = m
    <3>1. msgs'[c] = p
      BY <2>4, <2>5, <2>6, <2>9
    <3>2. TimerMessages(c)' = {i \in 1 .. k + 1 : p[i].type = "timer"}
      BY <3>1, <2>10 DEF TimerMessages
    <3> QED BY <3>1, <3>2, <2>10, <2>12
  <2>14. Chain(c)'
    BY <1>6, <2>1, <2>3, <2>13 DEF Chain, IsOne
  <2>15. ASSUME c = Wallclock PROVE Beats'
    <3>1. \A b : OnBeat(b)' <=> OnBeat(b)
      BY <1>3 DEF OnBeat
    <3>2. OnBeat(x.timeout) /\ Beats
      BY <2>2, <2>15, FactsOf DEF Beats
    <3> QED BY <1>3, <2>3, <2>7, <2>13, <2>15, <3>1, <3>2 DEF Beats
  <2> QED BY <2>14, <2>15
<1> QED BY <1>7, <1>8

\* A switch comes in time for everybody.
LEMMA TickWaits ==
  ASSUME TInv, NEW s, NEW h, Ticked(s, h)
  PROVE  Armed' /\ Waits'
<1>1. PICK u, v : /\ TaskTimers = {u} /\ TaskTimers' = {v} /\ u.timeout - tick \in 1 .. kTaskTimerPeriod
                  /\ \/ Rearm(Due) # {} /\ u.timeout - tick = 1 /\ v.timeout - tick' = kTaskTimerPeriod
                     \/ Rearm(Due) = {} /\ v = u /\ u.timeout - tick >= 2
  BY TickTimers
<1>2. PICK a : a = h.sched
  OBVIOUS
<1>3. Grown(sched, a)
  BY <1>2 DEF Ticked, SentAll, SentUpTo
<1>4. /\ Core(a, OnSet(a)) /\ OnSet(sched) \subseteq OnSet(a) /\ a.lvl = sched.lvl /\ a.cur = sched.cur
      /\ CurrentTask(a) = CurrentTask(sched)
      /\ \A t \in TaskId : Second(a, t) => Second(sched, t) \/ t \notin OnSet(sched)
  BY <1>3 DEF Grown
<1>5. /\ tick' = tick + 1 /\ cpu' = CurrentTask(sched')
      /\ sched' = IF Rearm(Due) # {} THEN RotateCurrentRunQueue(a, FALSE) ELSE a
      /\ waited' = [t \in TaskId |-> IF ReadyAtTopIn(sched', t) /\ cpu' # t THEN waited[t] + 1 ELSE 0]
  BY <1>2 DEF Ticked
<1>6. Waits /\ LevelsAre(sched) /\ Sound(KMsg) /\ tick \in Nat
  BY FactsOf DEF TimersType
<1>7. waited \in [TaskId -> Nat] /\ waited[cpu] = 0 /\ \A t \in TaskId : t \notin OnSet(sched) => waited[t] = 0
  BY <1>6 DEF Waits
<1>8. PICK P \in Nat \ {0} : P = kTaskTimerPeriod
  BY TimersAssumption
<1>9. PICK d \in 1 .. P : d = u.timeout - tick
  BY <1>1, <1>8
<1>10. \A t \in TaskId : /\ waited[t] + d <= P + P
                         /\ sched.cur = 0 /\ Second(sched, t) => waited[t] + d <= P
  BY <1>1, <1>6, <1>8, <1>9 DEF Waits
<1>11. cpu = CurrentTask(a)
  BY <1>4, <1>6 DEF Sound
<1>12. \A t \in TaskId : waited[t] \in Nat /\ (waited'[t] = waited[t] + 1 \/ waited'[t] = 0)
  BY <1>5, <1>7
<1>13. PICK e \in Nat : /\ e \in 1 .. P /\ e = v.timeout - tick'
                        /\ \A t \in TaskId : /\ waited'[t] + e <= P + P
                                             /\ sched'.cur = 0 /\ Second(sched', t) => waited'[t] + e <= P
  <2>1. CASE Rearm(Due) = {}
    <3>1. v = u /\ d >= 2 /\ sched' = a
      BY <1>1, <1>5, <1>9, <2>1
    <3>2. u.timeout - tick' = d - 1
      <4>1. u.timeout \in Nat
        BY <1>1, FactsOf DEF TaskTimers, TimersType
      <4> QED BY <4>1, <1>5, <1>6, <1>9
    <3>3. d - 1 \in Nat /\ d - 1 \in 1 .. P
      BY <3>1
    <3>4. ASSUME NEW t \in TaskId
          PROVE  /\ waited'[t] + (d - 1) <= P + P
                 /\ sched'.cur = 0 /\ Second(sched', t) => waited'[t] + (d - 1) <= P
      <4>1. PICK w \in Nat : w = waited[t]
        BY <1>12
      <4>2. waited'[t] = w + 1 \/ waited'[t] = 0
        BY <1>12, <4>1
      <4>3. w + d <= P + P /\ (sched.cur = 0 /\ Second(sched, t) => w + d <= P)
        BY <1>10, <4>1
      <4>4. waited'[t] + (d - 1) <= P + P
        BY <4>2, <4>3
      <4>5. ASSUME sched'.cur = 0, Second(sched', t) PROVE waited'[t] + (d - 1) <= P
        <5>1. sched.cur = 0 /\ (Second(sched, t) \/ t \notin OnSet(sched))
          BY <1>4, <3>1, <4>5
        <5>2. w + d <= P \/ w = 0
          BY <5>1, <4>1, <4>3, <1>7
        <5> QED BY <5>2, <4>2
      <4> QED BY <4>4, <4>5
    <3> QED BY <3>1, <3>2, <3>3, <3>4
  <2>2. CASE Rearm(Due) # {}
    <3>1. d = 1 /\ v.timeout - tick' = P
      BY <1>1, <1>8, <1>9, <2>2
    <3>2. PICK r : r = RotateCurrentRunQueue(a, FALSE)
      OBVIOUS
    <3>3. sched' = r /\ cpu' = CurrentTask(r)
      BY <1>5, <2>2, <3>2
    <3>4. Core(r, OnSet(a)) /\ r.on = a.on
      BY <1>4, <3>2, RotateCorrect
    <3>5. ~r.chg
      <4>1. a \in SchedType
        BY <1>4 DEF Core
      <4> QED BY <4>1, <3>2 DEF RotateCurrentRunQueue, SchedType
    <3>6. \A t : ~ (r.cur = 0 /\ Second(r, t))
      BY <3>4, <3>5, IdleIsLast
    <3>7. LevelsAre(a)
      BY <1>4, <1>6 DEF LevelsAre
    <3>8. ASSUME NEW t \in TaskId PROVE waited'[t] + P <= P + P
      <4>1. PICK w \in Nat : w = waited[t]
        BY <1>12
      <4>2. CASE ReadyAtTopIn(r, t) /\ CurrentTask(r) # t
        <5>1. t \in OnSet(a)
          BY <3>4, <4>2 DEF ReadyAtTopIn, OnSet
        <5>2. t = CurrentTask(a) \/ (a.cur = 0 /\ Second(a, t))
          BY <1>4, <3>2, <3>7, <4>2, <5>1, TurnsAre
        <5>3. w = 0 \/ w + 1 <= P
          <6>1. CASE t = CurrentTask(a)
            BY <6>1, <1>7, <1>11, <4>1
          <6>2. CASE a.cur = 0 /\ Second(a, t)
            <7>1. sched.cur = 0 /\ (Second(sched, t) \/ t \notin OnSet(sched))
              BY <1>4, <6>2
            <7> QED BY <7>1, <1>7, <1>10, <3>1, <4>1
          <6> QED BY <5>2, <6>1, <6>2
        <5>4. waited'[t] = w + 1 \/ waited'[t] = 0
          BY <1>12, <4>1
        <5> QED BY <5>3, <5>4
      <4>3. CASE ~ (ReadyAtTopIn(r, t) /\ CurrentTask(r) # t)
        <5>1. waited'[t] = 0
          BY <1>5, <3>3, <4>3
        <5> QED BY <5>1
      <4> QED BY <4>2, <4>3
    <3>9. P \in Nat /\ P \in 1 .. P
      OBVIOUS
    <3> QED BY <3>1, <3>3, <3>6, <3>8, <3>9
  <2> QED BY <2>1, <2>2
<1>14. Armed'
  BY <1>1, <1>8, <1>13 DEF Armed
<1>15. \A t \in TaskId : waited'[t] \in Nat
  <2> SUFFICES ASSUME NEW t \in TaskId PROVE waited'[t] \in Nat
    OBVIOUS
  <2>1. PICK w \in Nat : w = waited[t]
    BY <1>12
  <2> QED BY <2>1, <1>12
<1>16. waited' \in [TaskId -> Nat] /\ waited'[cpu'] = 0
  <2>1. cpu' \in TaskId
    <3>1. Sound(KMsg)'
      BY TickQueues
    <3> QED BY <3>1 DEF Sound, TypeOver
  <2> QED BY <2>1, <1>5, <1>15
<1>17. \A t \in TaskId : t \notin OnSet(sched') => waited'[t] = 0
  BY <1>5 DEF ReadyAtTopIn, OnSet
<1>18. Waits'
  <2>1. OnSet(sched)' = OnSet(sched') /\ \A t : Second(sched, t)' <=> Second(sched', t)
    BY DEF OnSet, Second
  <2> QED BY <2>1, <1>1, <1>8, <1>13, <1>16, <1>17 DEF Waits
<1> QED BY <1>14, <1>18

\* The tick keeps the invariant.
LEMMA TickKeeps == ASSUME TInv, LAPICTimerOnInterrupt PROVE TInv'
<1>1. PICK s, h : Ticked(s, h)
  BY TickIs
<1>2. Sound(KMsg)' /\ LevelsAre(sched)'
  BY <1>1, TickQueues
<1>3. TimersType'
  BY <1>1, TickTimers
<1>4. Armed' /\ Waits'
  BY <1>1, TickWaits
<1>5. Chain(Wallclock)' /\ Beats'
  BY <1>1, TickChains, FactsOf DEF Chains
<1>6. Chain(Terminal) => Chain(Terminal)'
  BY <1>1, TickChains
<1>7. UNCHANGED <<app, ran_app, pending>>
  BY <1>1 DEF Ticked
<1>8. Chains'
  BY <1>5, <1>6, <1>7, FactsOf DEF Chains
<1> QED BY <1>2, <1>3, <1>4, <1>5, <1>8 DEF TInv

-----------------------------------------------------------------------------
(* The theorems.                                                            *)

\* The invariant holds at first.
LEMMA InitTInv == TimersInit => TInv
<1> SUFFICES ASSUME TimersInit PROVE TInv
  OBVIOUS
<1>1. Init /\ tick = 0 /\ pending = [t \in TaskId |-> NoTimer] /\ adding = {} /\ app = FALSE /\ phase = Forever
      /\ handling = [t \in TaskId |-> Start] /\ waited = [t \in TaskId |-> 0]
  BY DEF TimersInit
<1>2. PICK x, u : x = Timer(Forever, 0, 0, 0) /\ u = Timer(kTaskTimerPeriod, kTaskTimerValue, 1, 1) /\ timers = {x, u}
  BY DEF TimersInit
<1>3. /\ x.timeout = Forever /\ x.value = 0 /\ x.task = 0
      /\ u.timeout = kTaskTimerPeriod /\ u.value = kTaskTimerValue /\ u.task = 1
  BY <1>2 DEF Timer
<1>4. Sound(KMsg)
  BY <1>1, InitIsSound
<1>5. LevelsAre(sched)
  <2>1. sched.lvl = [t \in TaskId |-> CASE t = Main -> kMaxLevel [] t = Idle -> 0 [] OTHER -> kDefaultLevel]
    BY <1>1 DEF Init
  <2>2. /\ Main \in TaskId /\ Idle \in TaskId /\ Terminal \in TaskId /\ Wallclock \in TaskId
        /\ Idle # Main /\ Terminal # Main /\ Wallclock # Main /\ Terminal # Idle /\ Wallclock # Idle
    BY TasksAre DEF Main, Idle, Terminal, Wallclock
  <2> QED BY <2>1, <2>2 DEF LevelsAre
<1>6. Start \in Work /\ Start.type = "start" /\ NoTimer.value # AppValue
  BY DEF Start, Work, NoTimer, Timer, AppValue
<1>7. IsFiniteSet(timers)
  <2>1. IsFiniteSet({x})
    BY FS_Singleton
  <2>2. IsFiniteSet({x} \cup {u})
    BY <2>1, FS_AddElement
  <2>3. {x} \cup {u} = timers
    BY <1>2
  <2> QED BY <2>2, <2>3
<1>8. pc = [t \in TaskId |-> "run"] /\ msgs = [t \in TaskId |-> << >>] /\ cpu \in TaskId
  BY <1>1, TasksAre DEF Init
<1>9. TimersType
  <2>1. \A y \in timers : y.timeout \in Nat /\ y.value \in Int /\ y.task \notin {Terminal, Wallclock}
    BY <1>2, <1>3, TimersAssumption DEF Forever, kTaskTimerValue, Terminal, Wallclock
  <2> QED BY <1>1, <1>6, <1>7, <1>8, <2>1 DEF TimersType, Forever
<1>10. TaskTimers = {u}
  BY <1>2, <1>3 DEF TaskTimers, kTaskTimerValue
<1>11. u.timeout - tick = kTaskTimerPeriod /\ kTaskTimerPeriod \in Nat \ {0}
  BY <1>1, <1>3, TimersAssumption
<1>12. Armed
  BY <1>10, <1>11 DEF Armed
<1>13. Waits
  BY <1>1, <1>8, <1>10, <1>11 DEF Waits
<1>14. ASSUME NEW c \in {Terminal, Wallclock} PROVE Chain(c) /\ TimersOf(c) = {} /\ TimerMessages(c) = {}
  <2>1. c \in TaskId
    BY TasksAre
  <2>2. TimersOf(c) = {}
    BY <1>2, <1>3 DEF TimersOf, Terminal, Wallclock
  <2>3. TimerMessages(c) = {}
    BY <1>8, <2>1 DEF TimerMessages
  <2> QED BY <1>1, <1>6, <2>1, <2>2, <2>3 DEF Chain
<1>15. Terminal \in TaskId /\ Wallclock \in TaskId
  BY TasksAre
<1>16. Chains
  BY <1>1, <1>6, <1>14, <1>15 DEF Chains
<1>17. Beats
  BY <1>1, <1>6, <1>14, <1>15 DEF Beats
<1> QED BY <1>4, <1>5, <1>9, <1>12, <1>13, <1>16, <1>17 DEF TInv

\* A step that changes nothing keeps it.
LEMMA StutterTInv == ASSUME TInv, UNCHANGED allvars PROVE TInv'
<1>1. UNCHANGED vars /\ UNCHANGED <<tick, timers, handling, pending, adding, app, ran_app, phase, waited>>
  BY DEF allvars, tvars
<1>2. Grows /\ pc' = pc /\ msgs' = msgs /\ tasks' = tasks
  BY <1>1, StayGrows, FactsOf DEF vars
<1>3. TimersType'
  <2>1. TimersType
    BY FactsOf
  <2> QED BY <2>1, <1>1, <1>2 DEF TimersType, Own
<1>4. Left(Wallclock) /\ Left(Terminal)
  BY <1>1, <1>2 DEF Left, TimersOf, MessagesLeft, TimerMessages
<1>5. Chains' /\ Beats'
  BY <1>1, <1>4, BothLeft
<1> QED BY <1>1, <1>2, <1>3, <1>5, Together

\* Every step keeps it.
LEMMA StepTInv == TInv /\ [TimersNext]_allvars => TInv'
<1> SUFFICES ASSUME TInv, [TimersNext]_allvars PROVE TInv'
  OBVIOUS
<1>1. CASE UNCHANGED allvars
  BY <1>1, StutterTInv
<1>2. CASE ~ (UNCHANGED allvars)
  <2>1. \/ LAPICTimerOnInterrupt \/ IntHandlerXHCI
        \/ MainBoots \/ MainHandles \/ WallclockDraws
        \/ TerminalBlinks \/ TerminalDraws \/ TerminalKey
        \/ CreateTimer \/ AddTimer \/ ReadEvent \/ AppExit
        \/ \E t \in TaskId : Receive(t) \/ AddTimerBegin(t) \/ AddTimerEnd(t) \/ Ignore(t)
    BY <1>2 DEF TimersNext, TimeUp
  <2>2. CASE \E t \in TaskId : Receive(t) \/ AddTimerBegin(t) \/ AddTimerEnd(t) \/ Ignore(t)
    BY <2>2, ReceiveKeepsInv, AddTimerBeginKeeps, AddTimerEndKeeps, IgnoreKeeps
  <2> QED BY <2>1, <2>2, TickKeeps, KeyInterrupts, MainBootsKeeps, MainHandlesKeeps, WallclockDrawsKeeps,
             TerminalBlinksKeeps, TerminalDrawsKeeps, TerminalKeyKeeps, CreateTimerKeeps, AddTimerKeeps,
             ReadEventKeeps, AppExitKeeps
<1> QED BY <1>1, <1>2

\* The invariant holds of the timers, the tasks and the applications together.
THEOREM TInvHolds == TimersSpec => []TInv
BY InitTInv, StepTInv, PTL DEF TimersSpec

\* The waits of the invariant are within two turns of the three tasks that there are.
LEMMA WaitsAreBounded == TInv => SwitchesInTime
<1> SUFFICES ASSUME TInv PROVE SwitchesInTime
  OBVIOUS
<1>1. Waits /\ Armed
  BY FactsOf
<1>2. PICK u : TaskTimers = {u} /\ u.timeout - tick \in 1 .. kTaskTimerPeriod
  BY <1>1 DEF Armed
<1>3. TaskTimerArmed
  BY <1>2 DEF TaskTimerArmed, TaskTimers
<1>4. PICK P \in Nat \ {0} : P = kTaskTimerPeriod
  BY TimersAssumption
<1>5. PICK d \in 1 .. P : d = u.timeout - tick
  BY <1>2, <1>4
<1>6. ASSUME NEW t \in TaskId PROVE waited[t] < kTaskTimerPeriod * (MaxTasks - 2)
  <2>1. PICK w \in Nat : w = waited[t]
    BY <1>1 DEF Waits
  <2>2. w + d <= P + P
    BY <1>1, <1>2, <1>4, <1>5, <2>1 DEF Waits
  <2>3. w < P + P
    BY <2>2
  <2>4. P * (4 - 2) = P + P /\ MaxTasks = 4
    BY TimersAssumption
  <2> QED BY <1>4, <2>1, <2>3, <2>4
<1>7. BoundedWait
  BY <1>6 DEF BoundedWait
<1> QED BY <1>3, <1>7 DEF SwitchesInTime

\* Whole periods leave no remainder.
LEMMA NoRemainder ==
  ASSUME NEW k \in Nat, NEW f \in Nat \ {0}
  PROVE  (k * f) % f = 0
OBVIOUS

\* A chain has exactly one link, so that it goes on.
LEMMA ChainsAreOne == TInv => ChainsKeepOn
<1> SUFFICES ASSUME TInv PROVE ChainsKeepOn
  OBVIOUS
<1>1. ASSUME NEW c \in TaskId, Chain(c), Started(c) PROVE ChainLength(c) = 1
  <2>1. handling[c].type # "start"
    BY <1>1 DEF Started
  <2>2. /\ Cardinality({}) = 0 /\ \A x : Cardinality({x}) = 1
    BY FS_EmptySet, FS_Singleton
  <2>3. PICK b : b = IF pending[c] # NoTimer THEN 1
                     ELSE IF handling[c].type = "timer" /\ pc[c] = "run" THEN 1 ELSE 0
    OBVIOUS
  <2>4. b = IF Busy(c) THEN 1 ELSE 0
    BY <2>3 DEF Busy
  <2>5. ChainLength(c) = Cardinality(TimersOf(c)) + Cardinality(TimerMessages(c)) + b
    BY <2>3 DEF ChainLength, TimersOf
  <2>. DEFINE n == Cardinality(TimersOf(c))
              m == Cardinality(TimerMessages(c))
  <2>. HIDE DEF n, m
  <2>6. CASE IsOne(TimersOf(c)) /\ TimerMessages(c) = {} /\ ~Busy(c)
    <3>1. n = 1 /\ m = 0 /\ b = 0
      BY <2>2, <2>4, <2>6 DEF IsOne, n, m
    <3>2. ChainLength(c) = n + m + b
      BY <2>5 DEF n, m
    <3> QED BY <3>1, <3>2
  <2>7. CASE TimersOf(c) = {} /\ IsOne(TimerMessages(c)) /\ ~Busy(c)
    <3>1. n = 0 /\ m = 1 /\ b = 0
      BY <2>2, <2>4, <2>7 DEF IsOne, n, m
    <3>2. ChainLength(c) = n + m + b
      BY <2>5 DEF n, m
    <3> QED BY <3>1, <3>2
  <2>8. CASE TimersOf(c) = {} /\ TimerMessages(c) = {} /\ Busy(c)
    <3>1. n = 0 /\ m = 0 /\ b = 1
      BY <2>2, <2>4, <2>8 DEF n, m
    <3>2. ChainLength(c) = n + m + b
      BY <2>5 DEF n, m
    <3> QED BY <3>1, <3>2
  <2> QED BY <2>1, <2>6, <2>7, <2>8, <1>1 DEF Chain
<1>2. Terminal \in TaskId /\ Wallclock \in TaskId
  BY TasksAre
<1>3. Chains /\ Beats /\ phase \in Nat
  BY FactsOf DEF TimersType
<1>4. ASSUME NEW u \in timers, u.task = Wallclock PROVE (u.timeout - phase) % kTimerFreq = 0
  <2>1. OnBeat(u.timeout)
    BY <1>3, <1>4 DEF Beats, TimersOf
  <2>2. PICK k \in Nat : u.timeout = phase + k * kTimerFreq
    BY <2>1 DEF OnBeat
  <2>3. PICK f \in Nat \ {0} : f = kTimerFreq
    BY TimersAssumption
  <2>4. PICK n \in Nat : n = k * f
    OBVIOUS
  <2>5. u.timeout - phase = n
    BY <1>3, <2>2, <2>3, <2>4
  <2>6. n % f = 0
    BY <2>4, NoRemainder
  <2> QED BY <2>3, <2>5, <2>6
<1>5. WallclockKeepsTime
  BY <1>1, <1>2, <1>3, <1>4 DEF WallclockKeepsTime, Chains
<1>6. CursorBlinks
  BY <1>1, <1>2, <1>3 DEF CursorBlinks, Chains
<1> QED BY <1>5, <1>6 DEF ChainsKeepOn

\* For every period, frequency and application: as long as no tick has come inside AddTimer, the
\* task timer is armed once and due within its period; and a task that is ready at the highest level
\* gets the cpu within two of them.
THEOREM SwitchesAreInTime == TimersSpec => []SwitchesInTime
BY TInvHolds, WaitsAreBounded, PTL

\* As long as no tick has come inside AddTimer, the wall clock has one timer, message or handler in
\* progress and does not drift, and so has the blinking cursor until an application has run.
THEOREM ChainsGoOn == TimersSpec => []ChainsKeepOn
BY TInvHolds, ChainsAreOne, PTL

\* A tick fires the timers that are due, all of them and no others.
THEOREM TicksFireWhatIsDue == TimersSpec => TickFiresDue
<1> DEFINE Fires == tick' # tick => /\ \A u \in timers' : u.timeout > tick'
                                    /\ \A u \in timers \ timers' : u.timeout <= tick'
<1>1. TInv /\ [TimersNext]_allvars => [Fires]_allvars
  <2> SUFFICES ASSUME TInv, TimersNext, tick' # tick PROVE Fires
    OBVIOUS
  <2>1. LAPICTimerOnInterrupt
    BY DEF TimersNext, TimeUp, allvars, tvars, IntHandlerXHCI, MainBoots, MainHandles, WallclockDraws,
           TerminalBlinks, TerminalDraws, TerminalKey, CreateTimer, AddTimer, ReadEvent, AppExit,
           Receive, AddTimerBegin, AddTimerEnd, Ignore
  <2>2. PICK s, h : Ticked(s, h)
    BY <2>1, TickIs
  <2> QED BY <2>2, TickTimers
<1> HIDE DEF Fires
<1>2. TimersSpec => [][Fires]_allvars
  BY <1>1, TInvHolds, PTL DEF TimersSpec
<1> QED BY <1>2, PTL DEF TickFiresDue, Fires
====
