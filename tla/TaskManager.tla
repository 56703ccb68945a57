---------------------------- MODULE TaskManager ----------------------------
(***************************************************************************)
(* The kernel's TaskManager (src/kernel/task.{hpp,cpp}): the run queues    *)
(* of each priority level, the context switches, the message queue of each *)
(* task and the Finish / WaitFinish hand-over of exit codes.               *)
(*                                                                         *)
(* Every operation runs with interrupts disabled (native_irq_disable), or  *)
(* inside an interrupt handler, so it is one action.  Between two actions  *)
(* the timer interrupt or a device interrupt may come.  A context switch   *)
(* is modelled by cpu, the task whose context is loaded: the code of a     *)
(* task takes a step only while cpu names it.                              *)
(***************************************************************************)
EXTENDS Integers, Sequences, FiniteSets

CONSTANTS
  MaxTasks,   \* bound on latest_id_: how many tasks are ever created
  kMaxLevel,  \* the highest priority level (3 in the code)
  Messages,   \* the payloads of a Message
  MaxMessages,\* bound on the length of msgs_
  ExitCodes   \* the exit codes given to Finish

ASSUME TaskManagerAssumption ==
  /\ MaxTasks \in Nat /\ MaxTasks >= 2
  /\ kMaxLevel \in Nat /\ kMaxLevel >= 1
  /\ MaxMessages \in Nat

NoTask == 0
NoCode == "no exit code"
ASSUME NoCodeAssumption == NoCode \notin ExitCodes

TaskId == 1..MaxTasks
Levels == 0..kMaxLevel
kDefaultLevel == 1
Main == 1     \* the boot flow, the first task of the constructor
Idle == 2     \* TaskIdle: while (true) hlt

VARIABLES
  tasks,        \* tasks_: the ids of the Task objects that exist
  latest_id,    \* latest_id_
  sched,        \* run: running_, cur: current_level_, chg: level_changed_,
                \* lvl: Task::level_, on: Task::running_
  cpu,          \* the task whose context is loaded
  msgs,         \* Task::msgs_
  finish_tasks, \* finish_tasks_: exit code by id of a finished task
  finish_waiter,\* finish_waiter_: waiting task by id of a finished task
  pc,           \* what the code of a task is doing
  subtask       \* subtask_id of Terminal::ExecuteLine, the task to wait for

vars == <<tasks, latest_id, sched, cpu, msgs, finish_tasks, finish_waiter,
          pc, subtask>>

-----------------------------------------------------------------------------
(* The run queues.  Each operator maps the scheduler's state to the next.  *)

\* Erase drops every occurrence; a queue holds a task at most once
\* (RunQueues below), so the first is the only one.
Erase(q, t) ==
  IF \E i \in 1..Len(q) : q[i] = t
  THEN LET k == CHOOSE i \in 1..Len(q) : q[i] = t
       IN  SubSeq(q, 1, k - 1) \o SubSeq(q, k + 1, Len(q))
  ELSE q

CurrentTask(s) == Head(s.run[s.cur])

IsHighest(run, lv) ==
  run[lv] # << >> /\ \A k \in Levels : k > lv => run[k] = << >>

\* Faulty variant: without level_changed_ the timer does not rotate the queue.
RotateOnlyOnChange(s, current_sleep) ==
  LET run == [s.run EXCEPT ![s.cur] = Tail(@)]
      chg == s.chg \/ (current_sleep /\ run[s.cur] = << >>)
  IN  [s EXCEPT !.run = IF current_sleep THEN run ELSE @,
                !.chg = FALSE,
                !.cur = IF chg THEN CHOOSE lv \in Levels : IsHighest(run, lv) ELSE @]

RotateCurrentRunQueue(s, current_sleep) ==
  LET q   == s.run[s.cur]
      run == [s.run EXCEPT ![s.cur] =
                IF current_sleep THEN Tail(q) ELSE Append(Tail(q), Head(q))]
      chg == s.chg \/ run[s.cur] = << >>
  IN  [s EXCEPT !.run = run,
                !.chg = FALSE,
                !.cur = IF chg /\ \E lv \in Levels : run[lv] # << >>
                        THEN CHOOSE lv \in Levels : IsHighest(run, lv)
                        ELSE @]

\* Faulty variant: a task that lowers its own level does not ask for a new look at
\* the levels.
ChangeLevelNoFlag(s, t, level) ==
  IF level < 0 \/ level = s.lvl[t] \/ t # CurrentTask(s) THEN s
  ELSE [s EXCEPT !.run[s.cur] = Tail(@), !.run[level] = <<t>> \o @,
                 !.lvl[t] = level,
                 !.cur = level]

\* level < 0 stands for "keep the level", the default argument.
ChangeLevelRunning(s, t, level) ==
  IF level < 0 \/ level = s.lvl[t] THEN s
  ELSE IF t # CurrentTask(s)
  THEN [s EXCEPT !.run[s.lvl[t]] = Erase(s.run[s.lvl[t]], t),
                 !.run[level] = Append(s.run[level], t),
                 !.lvl[t] = level,
                 !.chg = s.chg \/ level > s.cur]
  ELSE [s EXCEPT !.run[s.cur] = Tail(s.run[s.cur]),
                 !.run[level] = <<t>> \o s.run[level],
                 !.lvl[t] = level,
                 !.cur = level,
                 !.chg = s.chg \/ level < s.cur]

\* Faulty variants of WakeupTask: the default level is not resolved; a running task
\* is queued again; a task of a higher level becomes current without a switch.
WakeupRawLevel(s, t, level) ==
  IF s.on[t] THEN s
  ELSE [s EXCEPT !.run[s.lvl[t]] = Append(@, t),
                 !.lvl[t] = level,
                 !.on[t] = TRUE]

WakeupTwice(s, t, level) ==
  [s EXCEPT !.run[s.lvl[t]] = Append(@, t),
            !.on[t] = TRUE,
            !.chg = @ \/ s.lvl[t] > s.cur]

WakeupMovesCurrent(s, t, level) ==
  IF s.on[t] THEN s
  ELSE [s EXCEPT !.run[s.lvl[t]] = Append(@, t),
                 !.on[t] = TRUE,
                 !.cur = IF s.lvl[t] > @ THEN s.lvl[t] ELSE @]

WakeupTask(s, t, level) ==
  IF s.on[t]
  THEN ChangeLevelRunning(s, t, level)
  ELSE LET lv == IF level < 0 THEN s.lvl[t] ELSE level
       IN  [s EXCEPT !.run[lv] = Append(s.run[lv], t),
                     !.lvl[t] = lv,
                     !.on[t] = TRUE,
                     !.chg = s.chg \/ lv > s.cur]

SleepTask(s, t) ==
  LET off == [s EXCEPT !.on[t] = FALSE]
  IN  IF ~s.on[t] THEN s
      ELSE IF t = CurrentTask(s) THEN RotateCurrentRunQueue(off, TRUE)
      ELSE [off EXCEPT !.run[s.lvl[t]] = Erase(s.run[s.lvl[t]], t)]

KeepLevel == -1

-----------------------------------------------------------------------------
(* Init: the constructor.  Its body makes the main task, running at the    *)
(* highest level, and the idle task, running at level 0.                   *)

Init ==
  /\ tasks = {Main, Idle}
  /\ latest_id = Idle
  /\ sched = [run |-> [lv \in Levels |-> CASE lv = kMaxLevel -> <<Main>>
                                           [] lv = 0         -> <<Idle>>
                                           [] OTHER          -> << >>],
              cur |-> kMaxLevel,
              chg |-> FALSE,
              lvl |-> [t \in TaskId |-> CASE t = Main -> kMaxLevel
                                          [] t = Idle -> 0
                                          [] OTHER    -> kDefaultLevel],
              on  |-> [t \in TaskId |-> t \in {Main, Idle}]]
  /\ cpu = Main
  /\ msgs = [t \in TaskId |-> << >>]
  /\ finish_tasks = [t \in TaskId |-> NoCode]
  /\ finish_waiter = [t \in TaskId |-> NoTask]
  /\ pc = [t \in TaskId |-> "run"]
  /\ subtask = [t \in TaskId |-> NoTask]

-----------------------------------------------------------------------------
(* Interrupts.  They come between any two actions.                         *)

\* LAPICTimerOnInterrupt, when the task timer is due: SwitchTask saves the
\* context into the current task and loads the new current task's.
SwitchTask ==
  /\ sched' = RotateCurrentRunQueue(sched, FALSE)
  /\ cpu' = CurrentTask(sched')
  /\ UNCHANGED <<tasks, latest_id, msgs, finish_tasks, finish_waiter, pc, subtask>>

\* Faulty variant: the message is queued and nobody is woken.
SendWithoutWakeup(id, m) ==
  /\ id \in tasks /\ Len(msgs[id]) < MaxMessages
  /\ msgs' = [msgs EXCEPT ![id] = Append(@, m)]
  /\ UNCHANGED <<tasks, latest_id, sched, cpu, finish_tasks, finish_waiter, pc, subtask>>

\* TaskManager::SendMessage(id): kNoSuchTask if the task is gone.
Post(id, m) ==
  /\ id \in tasks
  /\ Len(msgs[id]) < MaxMessages
  /\ msgs' = [msgs EXCEPT ![id] = Append(@, m)]
  /\ sched' = WakeupTask(sched, id, KeepLevel)

SendMessage(id, m) ==
  /\ Post(id, m)
  /\ UNCHANGED <<tasks, latest_id, cpu, finish_tasks, finish_waiter, pc, subtask>>

\* IntHandlerXHCI sends to the main task, TimerManager::Tick to the timer's task.
InterruptSend == \E id \in TaskId \ {Idle}, m \in Messages : SendMessage(id, m)

-----------------------------------------------------------------------------
(* The code of the task on the cpu.  TaskIdle does nothing.                *)

Running(t) == cpu = t /\ t # Idle

\* NewTask().InitContext(..).Wakeup() at the end of KernelMainNewStack, for F2
\* and for noterm; a pipeline also keeps the id, to wait for it.
Spawn(t, join) ==
  LET id == latest_id + 1 IN
  /\ Running(t) /\ pc[t] = "run" /\ latest_id < MaxTasks
  /\ join => t # Main /\ subtask[t] = NoTask
  /\ latest_id' = id
  /\ tasks' = tasks \cup {id}
  /\ sched' = WakeupTask(sched, id, KeepLevel)
  /\ subtask' = IF join THEN [subtask EXCEPT ![t] = id] ELSE subtask
  /\ UNCHANGED <<cpu, msgs, finish_tasks, finish_waiter, pc>>

TaskSend(t) ==
  /\ Running(t) /\ pc[t] = "run"
  /\ \E id \in TaskId \ {Idle}, m \in Messages : SendMessage(id, m)

\* The handler of a message returns to the message loop.
HandlerDone(t) ==
  /\ Running(t) /\ pc[t] = "run"
  /\ pc' = [pc EXCEPT ![t] = "recv"]
  /\ UNCHANGED <<tasks, latest_id, sched, cpu, msgs, finish_tasks, finish_waiter, subtask>>

\* cli; msg = ReceiveMessage(); if (!msg) { Sleep(); continue; }
ReceiveMessage(t) ==
  /\ Running(t) /\ pc[t] = "recv"
  /\ \/ /\ msgs[t] # << >>
        /\ msgs' = [msgs EXCEPT ![t] = Tail(@)]
        /\ pc' = [pc EXCEPT ![t] = "run"]
        /\ UNCHANGED <<sched, cpu>>
     \/ /\ msgs[t] = << >>
        /\ sched' = SleepTask(sched, t)
        /\ cpu' = IF t = CurrentTask(sched) THEN CurrentTask(sched') ELSE cpu
        /\ UNCHANGED <<msgs, pc>>
  /\ UNCHANGED <<tasks, latest_id, finish_tasks, finish_waiter, subtask>>

\* One round of WaitFinish's loop: take the exit code, or register and sleep.
WaitFinish(t) ==
  LET id == subtask[t] IN
  /\ Running(t) /\ pc[t] \in {"run", "wait"} /\ id # NoTask
  /\ \/ /\ finish_tasks[id] # NoCode
        /\ finish_tasks' = [finish_tasks EXCEPT ![id] = NoCode]
        /\ subtask' = [subtask EXCEPT ![t] = NoTask]
        /\ pc' = [pc EXCEPT ![t] = "run"]
        /\ UNCHANGED <<sched, cpu, finish_waiter>>
     \/ /\ finish_tasks[id] = NoCode
        /\ finish_waiter' = [finish_waiter EXCEPT ![id] = CurrentTask(sched)]
        /\ sched' = SleepTask(sched, CurrentTask(sched))
        /\ cpu' = CurrentTask(sched')
        /\ pc' = [pc EXCEPT ![t] = "wait"]
        /\ UNCHANGED <<finish_tasks, subtask>>
  /\ UNCHANGED <<tasks, latest_id, msgs>>

\* Faulty variants of Finish: the waiter's entry stays behind; the exit code is
\* not published when somebody waits for it.
FinishKeepsWaiter(t, code) ==
  /\ Running(t) /\ t # Main /\ pc[t] = "run" /\ subtask[t] = NoTask
  /\ tasks' = tasks \ {t}
  /\ msgs' = [msgs EXCEPT ![t] = << >>]
  /\ finish_tasks' = [finish_tasks EXCEPT ![t] = code]
  /\ LET gone == SleepTask(sched, t) IN
       sched' = IF finish_waiter[t] = NoTask THEN gone
                ELSE WakeupTask(gone, finish_waiter[t], KeepLevel)
  /\ cpu' = CurrentTask(sched')
  /\ UNCHANGED <<latest_id, finish_waiter, pc, subtask>>

FinishDropsCode(t, code) ==
  /\ Running(t) /\ t # Main /\ pc[t] = "run" /\ subtask[t] = NoTask
  /\ tasks' = tasks \ {t}
  /\ msgs' = [msgs EXCEPT ![t] = << >>]
  /\ LET gone == SleepTask(sched, t) IN
       IF finish_waiter[t] = NoTask
       THEN sched' = gone /\ finish_tasks' = [finish_tasks EXCEPT ![t] = code]
       ELSE /\ sched' = WakeupTask(gone, finish_waiter[t], KeepLevel)
            /\ UNCHANGED finish_tasks
  /\ finish_waiter' = [finish_waiter EXCEPT ![t] = NoTask]
  /\ cpu' = CurrentTask(sched')
  /\ UNCHANGED <<latest_id, pc, subtask>>

\* Finish: leave the run queue, free the Task object, publish the exit code,
\* wake the waiter, and load the context of the current task.
Finish(t, code) ==
  LET id == CurrentTask(sched)
      gone == [RotateCurrentRunQueue(sched, TRUE) EXCEPT
                 !.on[id] = FALSE,
                 !.lvl[id] = kDefaultLevel]
      waiter == finish_waiter[id]
  IN
  /\ Running(t) /\ t # Main /\ pc[t] = "run" /\ subtask[t] = NoTask
  /\ tasks' = tasks \ {id}
  /\ msgs' = [msgs EXCEPT ![id] = << >>]
  /\ finish_tasks' = [finish_tasks EXCEPT ![id] = code]
  /\ finish_waiter' = [finish_waiter EXCEPT ![id] = NoTask]
  /\ sched' = IF waiter = NoTask THEN gone ELSE WakeupTask(gone, waiter, KeepLevel)
  /\ cpu' = CurrentTask(sched')
  /\ UNCHANGED <<latest_id, pc, subtask>>

Next ==
  \/ SwitchTask
  \/ InterruptSend
  \/ \E t \in TaskId :
       \/ \E join \in BOOLEAN : Spawn(t, join)
       \/ TaskSend(t)
       \/ HandlerDone(t)
       \/ ReceiveMessage(t)
       \/ WaitFinish(t)
       \/ \E code \in ExitCodes : Finish(t, code)

Spec == Init /\ [][Next]_vars

\* The periodic timer never stops.
FairSpec == Spec /\ WF_vars(SwitchTask)

-----------------------------------------------------------------------------
(* The rest of the class's interface, which no other file calls today:     *)
(* Wakeup(id, level) and Sleep(id).  Nobody may put the idle task to sleep.*)

WakeupById(t) ==
  /\ Running(t)
  /\ \E id \in tasks, level \in Levels : sched' = WakeupTask(sched, id, level)
  /\ UNCHANGED <<tasks, latest_id, cpu, msgs, finish_tasks, finish_waiter, pc, subtask>>

SleepById(t) ==
  /\ Running(t)
  /\ \E id \in tasks \ {Idle} :
       /\ sched' = SleepTask(sched, id)
       /\ cpu' = IF sched.on[id] /\ id = CurrentTask(sched)
                 THEN CurrentTask(sched') ELSE cpu
  /\ UNCHANGED <<tasks, latest_id, msgs, finish_tasks, finish_waiter, pc, subtask>>

ApiNext == Next \/ \E t \in TaskId : WakeupById(t) \/ SleepById(t)

ApiSpec == Init /\ [][ApiNext]_vars

-----------------------------------------------------------------------------
(* Properties *)

SchedType ==
  [run : [Levels -> Seq(TaskId)], cur : Levels, chg : BOOLEAN,
   lvl : [TaskId -> Levels], on : [TaskId -> BOOLEAN]]

\* Every variable has the type its C++ member has.
TypeOK ==
  /\ tasks \subseteq TaskId
  /\ latest_id \in TaskId
  /\ sched \in SchedType
  /\ cpu \in TaskId
  /\ msgs \in [TaskId -> Seq(Messages)]
  /\ finish_tasks \in [TaskId -> ExitCodes \cup {NoCode}]
  /\ finish_waiter \in [TaskId -> TaskId \cup {NoTask}]
  /\ pc \in [TaskId -> {"run", "recv", "wait"}]
  /\ subtask \in [TaskId -> TaskId \cup {NoTask}]

Elems(q) == {q[i] : i \in 1..Len(q)}
Distinct(q) == \A i, j \in 1..Len(q) : q[i] = q[j] => i = j

\* The queue of each level holds exactly the tasks of R that have this level,
\* once each.
QueuesHold(s, R) ==
  \A lv \in Levels : /\ Elems(s.run[lv]) = {t \in R : s.lvl[t] = lv}
                     /\ Distinct(s.run[lv])

\* While level_changed_ is false no queue above the current level has a task:
\* RotateCurrentRunQueue may stay at the current level.
NothingAbove(s) ==
  ~s.chg => \A lv \in Levels : lv > s.cur => s.run[lv] = << >>

Ready == {t \in TaskId : sched.on[t]}

\* There is always a current task, and the run queues, the levels and the
\* flags of the tasks agree after any sequence of wakeups, sleeps, level
\* changes, context switches and exits.
RunQueues ==
  /\ QueuesHold(sched, Ready)
  /\ sched.run[sched.cur] # << >>
  /\ NothingAbove(sched)

\* The loaded context belongs to the front of the current queue: no operation
\* moves the front without switching, so SwitchTask never saves one task's
\* registers into another Task.
CpuIsCurrentTask == cpu = CurrentTask(sched)

\* A run queue, and finish_waiter_, never hold the pointer of a freed Task.
NoDanglingTask ==
  /\ \A t \in TaskId : sched.on[t] => t \in tasks
  /\ \A t \in TaskId : finish_waiter[t] # NoTask =>
       finish_waiter[t] \in tasks /\ t \in tasks

\* A task that waits for messages is asleep only while its queue is empty, and
\* one that waits in WaitFinish only while it is registered with a live task.
NoLostWakeup ==
  \A t \in tasks \ {Idle} : ~sched.on[t] =>
    \/ pc[t] = "recv" /\ msgs[t] = << >>
    \/ pc[t] = "wait" /\ finish_waiter[subtask[t]] = t /\ finish_tasks[subtask[t]] = NoCode

\* An exit code waits for its parent: it is taken once, by the task that
\* spawned the finished one.
ExitCodeKept ==
  \A t \in tasks : subtask[t] # NoTask =>
    (subtask[t] \in tasks <=> finish_tasks[subtask[t]] = NoCode)

\* Under the periodic timer alone, a task that stays ready at the highest
\* ready level gets the cpu again and again (round robin within the level).
ReadyAtTop(t) ==
  sched.on[t] /\ \A lv \in Levels : lv > sched.lvl[t] => sched.run[lv] = << >>

RoundRobin == \A t \in TaskId : <>[]ReadyAtTop(t) => []<>(cpu = t)

\* The run queues, current_level_ and level_changed_ implement strict priority:
\* the cpu is only ever handed to a ready task of the highest level.
Priority == INSTANCE PriorityScheduler
              WITH level <- sched.lvl, ready <- Ready,
                   TopLevel <- kMaxLevel, DefaultLevel <- kDefaultLevel

StrictPriority == Priority!Spec

=============================================================================
