------------------------------- MODULE Timers -------------------------------
(***************************************************************************)
(* The timers (src/kernel/timer.{hpp,cpp}) on top of the task manager: the *)
(* periodic interrupt, the queue of timers, the task timer that drives the *)
(* context switches, and the tasks that re-arm a timer when it fires: the  *)
(* wall clock (main.cpp) and the terminal's blinking cursor (terminal.cpp),*)
(* with an application that may run inside the terminal's task and makes   *)
(* timers of its own (syscall.cpp).                                        *)
(***************************************************************************)
EXTENDS TaskManager, SequencesExt

CONSTANTS
  MaxTick,         \* bound on tick_
  kTaskTimerPeriod,\* ticks between two context switches (2 in the code)
  kTimerFreq,      \* ticks of a second, the wall clock's period (100 in the code)
  BlinkPeriod,     \* kTimerFreq * 0.5
  AppTimeouts,     \* the timeouts an application asks for
  MaxAppTimers,    \* bound on the timers applications make
  MaxKeys          \* bound on the key presses

ASSUME TimersAssumption ==
  /\ kTaskTimerPeriod \in Nat \ {0} /\ kTimerFreq \in Nat \ {0} /\ BlinkPeriod \in Nat \ {0}
  /\ MaxTick \in Nat /\ AppTimeouts \subseteq Nat
  /\ MaxTasks = 4 /\ kMaxLevel > kDefaultLevel

Terminal == 3     \* the first task the boot flow creates
Wallclock == 4    \* the second

VARIABLES
  tick,      \* tick_
  timers,    \* timers_, a set of [timeout, value, task, id]
  handling,  \* the message each task is working on
  pending,   \* the timer each task is about to add
  adding,    \* the tasks inside a call of AddTimer with interrupts enabled
  raced,     \* a timer interrupt came inside such a call
  app,       \* an application runs in the terminal's task
  ran_app,   \* ... or has run
  app_made,  \* how many timers applications made
  keys,      \* how many keys were pressed
  phase,     \* the tick at which the wall clock started its first timer
  waited     \* ticks since a task is ready at the highest level without the cpu

tvars == <<tick, timers, handling, pending, adding, raced, app, ran_app,
           app_made, keys, phase, waited>>
allvars == <<vars, tvars>>
appvars == <<app, ran_app, app_made>>
ghosts == <<raced, keys, phase, waited>>

\* The values of a timer: kTaskTimerValue, 1 for the kernel's own, < 0 for an
\* application's.
kTaskTimerValue == 99
KernelValue == 1
AppValue == -1
Forever == 999      \* the sentinel's timeout, numeric_limits<unsigned long>::max()

Timer(timeout, value, task, id) ==
  [timeout |-> timeout, value |-> value, task |-> task, id |-> id]

NoTimer == Timer(0, 0, 0, 0)

\* Two timers of the same task may be equal in C++: the id tells them apart.
FreshId ==
  CHOOSE n \in 1..9 : \A u \in timers \cup {pending[t] : t \in TaskId} : u.id # n

Start == [type |-> "start"]
TimerMessage(t) == [type |-> "timer", timeout |-> t.timeout, value |-> t.value]
Layer(src) == [type |-> "layer", src |-> src]

TimersInit ==
  /\ Init
  /\ tick = 0
  /\ timers = {Timer(Forever, 0, 0, 0), Timer(kTaskTimerPeriod, kTaskTimerValue, 1, 1)}
  /\ handling = [t \in TaskId |-> Start]
  /\ pending = [t \in TaskId |-> NoTimer]
  /\ adding = {}
  /\ raced = FALSE
  /\ app = FALSE
  /\ ran_app = FALSE
  /\ app_made = 0
  /\ keys = 0
  /\ phase = Forever
  /\ waited = [t \in TaskId |-> 0]

-----------------------------------------------------------------------------
(* LAPICTimerOnInterrupt                                                   *)

Due == {t \in timers : t.timeout <= tick + 1}

\* Faulty variant: one timer per interrupt.
PopFirstOnly(due) ==
  IF due = {} THEN {<< >>}
  ELSE {<<t>> : t \in {u \in due : \A v \in due : u.timeout <= v.timeout}}

\* The orders in which the priority queue may give up the due timers: timers of
\* one timeout come in any order.
PopOrders(due) ==
  {s \in SetToSeqs(due) : \A i, j \in 1..Len(s) : i < j => s[i].timeout <= s[j].timeout}

\* The task timer sends nothing; SendMessage finds no task for the sentinel.
SendFired(st, t) ==
  IF t.value = kTaskTimerValue \/ t.task \notin tasks THEN st
  ELSE [msgs  |-> [st.msgs EXCEPT ![t.task] = Append(@, TimerMessage(t))],
        sched |-> WakeupTask(st.sched, t.task, KeepLevel)]

\* Faulty variant: the task timer misses a period when another timer was due with it.
RearmLate(due) ==
  {Timer(tick + 1 + (IF Cardinality(due) > 1 THEN 2 * kTaskTimerPeriod ELSE kTaskTimerPeriod),
         kTaskTimerValue, 1, t.id) : t \in {u \in due : u.value = kTaskTimerValue}}

Rearm(due) ==
  {Timer(tick + 1 + kTaskTimerPeriod, kTaskTimerValue, 1, t.id) :
     t \in {u \in due : u.value = kTaskTimerValue}}

ReadyAtTopIn(s, t) == s.on[t] /\ \A lv \in Levels : lv > s.lvl[t] => s.run[lv] = << >>

\* TimerManager::Tick, then SwitchTask if the task timer was due.
LAPICTimerOnInterrupt ==
  /\ tick < MaxTick
  /\ tick' = tick + 1
  /\ \E order \in PopOrders(Due) :
       LET sent   == FoldLeft(SendFired, [msgs |-> msgs, sched |-> sched], order)
           switch == Rearm(ToSet(order)) # {}
       IN  /\ \A t \in TaskId : Len(sent.msgs[t]) <= MaxMessages
           /\ msgs' = sent.msgs
           /\ sched' = IF switch THEN RotateCurrentRunQueue(sent.sched, FALSE)
                       ELSE sent.sched
           /\ cpu' = CurrentTask(sched')
           /\ timers' = (timers \ ToSet(order)) \cup Rearm(ToSet(order))
  /\ waited' = [t \in TaskId |-> IF ReadyAtTopIn(sched', t) /\ cpu' # t
                                 THEN waited[t] + 1 ELSE 0]
  /\ raced' = (adding # {})
  /\ UNCHANGED <<tasks, latest_id, finish_tasks, finish_waiter, pc, subtask>>
  /\ UNCHANGED <<handling, pending, adding, appvars, keys, phase>>

\* IntHandlerXHCI, for a key.
IntHandlerXHCI ==
  /\ keys < MaxKeys
  /\ keys' = keys + 1
  /\ SendMessage(Main, [type |-> "xhci"])
  /\ UNCHANGED <<tick, timers, handling, pending, adding, appvars, raced, phase, waited>>

-----------------------------------------------------------------------------
(* The code of the tasks                                                   *)

Handles(t, type) == Running(t) /\ pc[t] = "run" /\ handling[t].type = type
Quiet(t) == pending[t] = NoTimer

\* The message has been handled: back to the loop's ReceiveMessage.
Handled(t) ==
  /\ HandlerDone(t)
  /\ handling' = [handling EXCEPT ![t] = [type |-> "none"]]

\* The last thing a handler does is to send a message.
PostAndLoop(t, id, m) ==
  /\ Post(id, m)
  /\ pc' = [pc EXCEPT ![t] = "recv"]
  /\ handling' = [handling EXCEPT ![t] = [type |-> "none"]]
  /\ UNCHANGED <<tasks, latest_id, cpu, finish_tasks, finish_waiter, subtask>>

KernelUnchanged == UNCHANGED vars

\* A receiver leaves the highest level when it falls asleep.
Receive(t) ==
  /\ ReceiveMessage(t)
  /\ handling' = IF msgs[t] = << >> THEN handling ELSE [handling EXCEPT ![t] = Head(msgs[t])]
  /\ waited' = [u \in TaskId |-> IF u = cpu' \/ ~ReadyAtTopIn(sched', u) THEN 0 ELSE waited[u]]
  /\ UNCHANGED <<tick, timers, pending, adding, appvars, raced, keys, phase>>

\* KernelMainNewStack creates the terminal and the wall clock, then loops.
MainBoots ==
  /\ Handles(Main, "start")
  /\ IF latest_id < Wallclock
     THEN Spawn(Main, FALSE) /\ UNCHANGED handling
     ELSE Handled(Main)
  /\ UNCHANGED <<tick, timers, pending, adding, appvars, ghosts>>

\* A key goes to the task of the active layer; a layer operation is answered with
\* kLayerFinish; a timer message is ignored.
MainHandles ==
  /\ Running(Main) /\ pc[Main] = "run"
  /\ LET m == handling[Main]
     IN  \/ m.type = "xhci" /\ PostAndLoop(Main, Terminal, [type |-> "key"])
         \/ m.type = "layer" /\ PostAndLoop(Main, m.src, [type |-> "finish"])
  /\ UNCHANGED <<tick, timers, pending, adding, appvars, ghosts>>

\* Faulty variant: the next timeout is counted from now.
WallclockFromNow ==
  /\ Running(Wallclock) /\ pc[Wallclock] = "run" /\ Quiet(Wallclock)
  /\ handling[Wallclock].type \in {"start", "timer"}
  /\ SendMessage(Main, Layer(Wallclock))
  /\ LET m == handling[Wallclock]
         timeout == IF m.type = "start" THEN tick ELSE tick + kTimerFreq
     IN  /\ pending' = [pending EXCEPT ![Wallclock] =
                          Timer(timeout, KernelValue, Wallclock, FreshId)]
         /\ phase' = IF m.type = "start" THEN tick ELSE phase
  /\ UNCHANGED <<tick, timers, handling, adding, appvars, raced, keys, waited>>

\* draw_current_time: a kLayer message to the main task.
WallclockDraws ==
  /\ Running(Wallclock) /\ pc[Wallclock] = "run" /\ Quiet(Wallclock)
  /\ handling[Wallclock].type \in {"start", "timer"}
  /\ SendMessage(Main, Layer(Wallclock))
  /\ LET m == handling[Wallclock]
         timeout == IF m.type = "start" THEN tick ELSE m.timeout + kTimerFreq
     IN  /\ pending' = [pending EXCEPT ![Wallclock] =
                          Timer(timeout, KernelValue, Wallclock, FreshId)]
         /\ phase' = IF m.type = "start" THEN tick ELSE phase
  /\ UNCHANGED <<tick, timers, handling, adding, appvars, raced, keys, waited>>

\* Faulty variant: a key starts a timer too.
TerminalBlinksOnKey ==
  /\ Running(Terminal) /\ pc[Terminal] = "run" /\ ~app /\ Quiet(Terminal)
  /\ handling[Terminal].type \in {"start", "timer", "key"}
  /\ LET m == handling[Terminal]
         base == IF m.type # "timer" THEN tick ELSE m.timeout
     IN  pending' = [pending EXCEPT ![Terminal] =
                       Timer(base + BlinkPeriod, KernelValue, Terminal, FreshId)]
  /\ KernelUnchanged
  /\ UNCHANGED <<tick, timers, handling, adding, appvars, ghosts>>

\* add_blink_timer computes the timer from the current tick, or from the timeout of
\* whatever timer fired.
TerminalBlinks ==
  /\ Running(Terminal) /\ pc[Terminal] = "run" /\ ~app /\ Quiet(Terminal)
  /\ handling[Terminal].type \in {"start", "timer"}
  /\ LET m == handling[Terminal]
         base == IF m.type = "start" THEN tick ELSE m.timeout
     IN  pending' = [pending EXCEPT ![Terminal] =
                       Timer(base + BlinkPeriod, KernelValue, Terminal, FreshId)]
  /\ KernelUnchanged
  /\ UNCHANGED <<tick, timers, handling, adding, appvars, ghosts>>

\* AddTimer as the wall clock and the terminal call it, with interrupts enabled.
AddTimerBegin(t) ==
  /\ Running(t) /\ pc[t] = "run" /\ pending[t].value = KernelValue /\ t \notin adding
  /\ adding' = adding \cup {t}
  /\ KernelUnchanged
  /\ UNCHANGED <<tick, timers, handling, pending, appvars, ghosts>>

AddTimerEnd(t) ==
  /\ Running(t) /\ t \in adding
  /\ adding' = adding \ {t}
  /\ timers' = timers \cup {pending[t]}
  /\ pending' = [pending EXCEPT ![t] = NoTimer]
  /\ IF t = Terminal /\ handling[t].type = "timer"
     THEN handling' = [handling EXCEPT ![t] = [type |-> "draw"]] /\ KernelUnchanged
     ELSE Handled(t)
  /\ UNCHANGED <<tick, appvars, ghosts>>

\* The cursor of the active window, or the line of a key, is drawn by the main task.
TerminalDraws ==
  /\ Handles(Terminal, "draw") /\ ~app
  /\ PostAndLoop(Terminal, Main, Layer(Terminal))
  /\ UNCHANGED <<tick, timers, pending, adding, appvars, ghosts>>

\* What a task receives and does not care about.
Ignore(t) ==
  /\ Running(t) /\ pc[t] = "run" /\ Quiet(t)
  /\ \/ t = Main /\ handling[t].type \in {"timer", "finish"}
     \/ t = Wallclock /\ handling[t].type \in {"finish", "key"}
     \/ t = Terminal /\ ~app /\ handling[t].type \in {"finish", "draw"}
  /\ Handled(t)
  /\ UNCHANGED <<tick, timers, pending, adding, appvars, ghosts>>

\* A key of the terminal's command line is echoed, or it starts an application.
TerminalKey ==
  /\ Handles(Terminal, "key") /\ ~app
  /\ \/ /\ handling' = [handling EXCEPT ![Terminal] = [type |-> "draw"]]
        /\ UNCHANGED <<app, ran_app>>
     \/ /\ app' = TRUE /\ ran_app' = TRUE
        /\ handling' = [handling EXCEPT ![Terminal] = [type |-> "event"]]
  /\ KernelUnchanged
  /\ UNCHANGED <<tick, timers, pending, adding, app_made, ghosts>>

-----------------------------------------------------------------------------
(* The system calls of an application, in the terminal's task              *)

InApp == Running(Terminal) /\ app /\ pc[Terminal] = "run" /\ Quiet(Terminal)

\* CreateTimer reads the tick with interrupts enabled ...
CreateTimer ==
  /\ InApp /\ handling[Terminal].type = "event" /\ app_made < MaxAppTimers
  /\ \E timeout \in AppTimeouts, relative \in BOOLEAN :
       pending' = [pending EXCEPT ![Terminal] =
                     Timer(timeout + (IF relative THEN tick ELSE 0), AppValue, Terminal, FreshId)]
  /\ app_made' = app_made + 1
  /\ KernelUnchanged
  /\ UNCHANGED <<tick, timers, handling, adding, app, ran_app, ghosts>>

\* ... and adds the timer with interrupts disabled.
AddTimer ==
  /\ Running(Terminal) /\ pending[Terminal].value = AppValue
  /\ timers' = timers \cup {pending[Terminal]}
  /\ pending' = [pending EXCEPT ![Terminal] = NoTimer]
  /\ KernelUnchanged
  /\ UNCHANGED <<tick, handling, adding, appvars, ghosts>>

\* ReadEvent asks for the next message; a message that is no event, which a
\* kernel timer's is not, is dropped.
ReadEvent ==
  /\ InApp /\ handling[Terminal].type \in {"event", "finish", "timer", "key"}
  /\ IF \/ handling[Terminal].type \in {"event", "finish"}
        \/ handling[Terminal].type = "timer" /\ handling[Terminal].value >= 0
     THEN Handled(Terminal)
     ELSE /\ handling' = [handling EXCEPT ![Terminal] = [type |-> "event"]]
          /\ KernelUnchanged
  /\ UNCHANGED <<tick, timers, pending, adding, appvars, ghosts>>

\* The application ends and the terminal goes on.
AppExit ==
  /\ InApp /\ handling[Terminal].type = "event"
  /\ app' = FALSE
  /\ handling' = [handling EXCEPT ![Terminal] = [type |-> "draw"]]
  /\ KernelUnchanged
  /\ UNCHANGED <<tick, timers, pending, adding, ran_app, app_made, ghosts>>

\* The bound on time: nothing more is looked at.
TimeUp == tick = MaxTick /\ UNCHANGED allvars

\* A race on timers_ may leave any queue behind: nothing is looked at after one.
TimersNext ==
  \/ ~raced /\ \/ LAPICTimerOnInterrupt \/ IntHandlerXHCI
               \/ MainBoots \/ MainHandles \/ WallclockDraws
               \/ TerminalBlinks \/ TerminalDraws \/ TerminalKey
               \/ CreateTimer \/ AddTimer \/ ReadEvent \/ AppExit
               \/ \E t \in TaskId : Receive(t) \/ AddTimerBegin(t) \/ AddTimerEnd(t) \/ Ignore(t)
  \/ raced /\ UNCHANGED allvars
  \/ TimeUp

TimersSpec == TimersInit /\ [][TimersNext]_allvars

-----------------------------------------------------------------------------
(* Properties, of the executions in which no interrupt came inside AddTimer *)

TimerMessages(t) == {i \in 1..Len(msgs[t]) : msgs[t][i].type = "timer"}

\* The timers, messages and handlers in progress that keep a periodic timer of the
\* task alive.
ChainLength(t) ==
  Cardinality({u \in timers : u.task = t})
  + Cardinality(TimerMessages(t))
  + (IF pending[t] # NoTimer THEN 1
     ELSE IF handling[t].type = "timer" /\ pc[t] = "run" THEN 1 ELSE 0)

Started(t) == t \in tasks /\ handling[t].type # "start"

\* There is exactly one task timer and it is due within its period: the context
\* switches never stop and never come twice as often.
TaskTimerArmed ==
  ~raced => \E u \in timers :
    /\ {w \in timers : w.value = kTaskTimerValue} = {u}
    /\ u.timeout - tick \in 1..kTaskTimerPeriod

\* A tick leaves no due timer behind, and no timer fires before its time.
TickFiresDue ==
  [][tick' # tick =>
       /\ \A u \in timers' : u.timeout > tick'
       /\ \A u \in timers \ timers' : u.timeout <= tick']_allvars

\* The wall clock has exactly one timer, message or handler in progress once it
\* has started, so it neither stops nor runs twice, and it never drifts: every
\* timeout is a whole number of periods after the first.
WallclockKeepsTime ==
  ~raced /\ Started(Wallclock) =>
    /\ ChainLength(Wallclock) = 1
    /\ \A u \in timers : u.task = Wallclock => (u.timeout - phase) % kTimerFreq = 0

\* The cursor of a terminal that never ran an application has exactly one blink
\* timer (an application's ReadEvent drops its messages, and its own timers
\* start another one when they fire late).
CursorBlinks ==
  ~raced /\ Started(Terminal) /\ ~ran_app => ChainLength(Terminal) = 1

\* A task that is ready at the highest ready level gets the cpu within one period
\* for each task that may stand before it.
BoundedWait ==
  \A t \in TaskId : waited[t] < kTaskTimerPeriod * (MaxTasks - 2)

\* The kernel's own timer goes on and is all that the time to wait for the cpu depends on: with
\* it, nobody who is ready at the highest level waits longer than its turn takes.
SwitchesInTime == TaskTimerArmed /\ BoundedWait

\* A chain of timer and message that starts itself again neither breaks nor doubles, in the
\* wall clock and in a terminal, whatever else their tasks receive.
ChainsKeepOn == WallclockKeepsTime /\ CursorBlinks

=============================================================================
