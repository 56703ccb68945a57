-------------------------------- MODULE Pipe --------------------------------
(***************************************************************************)
(* The terminal's pipeline "command | subcommand" (src/kernel/terminal.cpp)*)
(* on top of the task manager: ExecuteLine starts a second terminal task   *)
(* without a window for the subcommand, runs the command in its own task   *)
(* with a PipeDescriptor as standard output, and waits.  The pipe has no   *)
(* storage shared by the two ends: its data travel in messages to the      *)
(* reading task, whose message queue also gets the keys of the window.     *)
(***************************************************************************)
EXTENDS TaskManager

CONSTANTS
  MaxBytes,   \* bound on the bytes written to a pipe
  MaxWrite,   \* bound on the length of one Write
  MaxRead,    \* bound on the length of one Read
  PipeData,   \* sizeof(msg.arg.pipe.data), 16 in the code
  MaxWrites,  \* bound on the Writes of one command
  MaxKeys,    \* bound on the key presses
  MaxPrints   \* bound on the lines subcommands print

Terminal == 3

ASSUME PipeAssumption ==
  /\ MaxTasks >= Terminal
  /\ {MaxBytes, MaxWrite, MaxRead, MaxWrites, MaxKeys, MaxPrints} \subseteq Nat
  /\ PipeData \in Nat \ {0}

Children == {t \in TaskId : t > Terminal}

VARIABLES
  stage,   \* what each task's code is doing
  inbox,   \* the message a task is working on
  todo,    \* bytes the current Write has still to send
  writes,  \* Writes the current command may still make
  want,    \* the length of the Read in progress
  data,    \* PipeDescriptor::data_ and len_, by reading task
  closed,  \* PipeDescriptor::closed_
  sent,    \* bytes sent into the pipe of a task
  rcvd,    \* bytes its Reads returned
  ended,   \* FinishWrite was called
  eof,     \* a Read returned 0
  freed,   \* a pipe message was put into the queue of a freed Task
  focus,   \* the entry of layer_task_map for the terminal's window
  keys, prints

pipevars == <<data, closed, sent, rcvd, ended, eof, freed>>
progvars == <<stage, inbox, todo, writes, want>>
envvars == <<focus, keys, prints>>
pvars == <<vars, pipevars, progvars, envvars>>

NoMessage == [type |-> "none"]
PipeMessage(bytes) == [type |-> "pipe", data |-> bytes]

PipeInit ==
  /\ Init
  /\ stage = [t \in TaskId |-> "start"]
  /\ inbox = [t \in TaskId |-> NoMessage]
  /\ todo = [t \in TaskId |-> 0]
  /\ writes = [t \in TaskId |-> 0]
  /\ want = [t \in TaskId |-> 0]
  /\ data = [t \in TaskId |-> << >>]
  /\ closed = [t \in TaskId |-> FALSE]
  /\ sent = [t \in TaskId |-> 0]
  /\ rcvd = [t \in TaskId |-> << >>]
  /\ ended = [t \in TaskId |-> FALSE]
  /\ eof = [t \in TaskId |-> FALSE]
  /\ freed = [t \in TaskId |-> FALSE]
  /\ focus = Terminal
  /\ keys = 0 /\ prints = 0

At(t, s) == Running(t) /\ stage[t] = s
Goto(t, s) == stage' = [stage EXCEPT ![t] = s]
Min2(a, b) == IF a < b THEN a ELSE b

\* The message loop of a task, or of Read: ReceiveMessage, or Sleep.
Receive(t) ==
  /\ ReceiveMessage(t)
  /\ inbox' = IF msgs[t] = << >> THEN inbox ELSE [inbox EXCEPT ![t] = Head(msgs[t])]
  /\ UNCHANGED <<stage, todo, writes, want, pipevars, envvars>>

\* A message to a task that may be gone: kNoSuchTask.
TrySend(id, m) == IF id \in tasks THEN SendMessage(id, m) ELSE UNCHANGED vars

-----------------------------------------------------------------------------
(* The main task                                                           *)

\* IntHandlerXHCI, for a key.
KeyInterrupt ==
  /\ keys < MaxKeys /\ keys' = keys + 1
  /\ SendMessage(Main, [type |-> "xhci"])
  /\ UNCHANGED <<pipevars, progvars, focus, prints>>

MainBoots ==
  /\ At(Main, "start") /\ pc[Main] = "run"
  /\ IF latest_id < Terminal THEN Spawn(Main, FALSE) /\ UNCHANGED stage
     ELSE HandlerDone(Main) /\ Goto(Main, "loop")
  /\ UNCHANGED <<pipevars, inbox, todo, writes, want, envvars>>

\* A key goes to the task layer_task_map names; a layer operation is answered to
\* the task of the window.
MainHandles ==
  /\ At(Main, "loop") /\ pc[Main] = "run"
  /\ CASE inbox[Main].type = "xhci"  -> TrySend(focus, [type |-> "key"])
       [] inbox[Main].type = "layer" -> TrySend(Terminal, [type |-> "finish"])
  /\ Goto(Main, "sent")
  /\ UNCHANGED <<pipevars, inbox, todo, writes, want, envvars>>

MainLoops ==
  /\ At(Main, "sent")
  /\ HandlerDone(Main) /\ Goto(Main, "loop")
  /\ UNCHANGED <<pipevars, inbox, todo, writes, want, envvars>>

-----------------------------------------------------------------------------
(* The terminal: ExecuteLine with a '|'                                    *)

\* The message loop: a key may complete a line with a pipe.
TerminalLoop ==
  /\ pc[Terminal] = "run"
  /\ \/ At(Terminal, "start") /\ Goto(Terminal, "loop") /\ HandlerDone(Terminal)
     \/ At(Terminal, "loop") /\ HandlerDone(Terminal) /\ UNCHANGED stage
     \/ /\ At(Terminal, "loop") /\ inbox[Terminal].type = "key"
        /\ Goto(Terminal, "line") /\ UNCHANGED vars
  /\ UNCHANGED <<pipevars, inbox, todo, writes, want, envvars>>

\* NewTask, InitContext, Wakeup: the subtask exists and may run from here on.
StartSubtask ==
  /\ At(Terminal, "line")
  /\ Spawn(Terminal, TRUE)
  /\ writes' = [writes EXCEPT ![Terminal] = MaxWrites]
  /\ Goto(Terminal, "started")
  /\ UNCHANGED <<pipevars, inbox, todo, want, envvars>>

\* (*layer_task_map)[layer_id_] = subtask_id, with interrupts enabled.
MoveFocus ==
  /\ At(Terminal, "started")
  /\ focus' = subtask[Terminal]
  /\ Goto(Terminal, "command")
  /\ UNCHANGED <<vars, pipevars, inbox, todo, writes, want, keys, prints>>

\* The command writes to standard output: PipeDescriptor::Write of any length.
CallWrite ==
  /\ At(Terminal, "command") /\ writes[Terminal] > 0
  /\ \E len \in 0..Min2(MaxWrite, MaxBytes - sent[subtask[Terminal]]) :
       todo' = [todo EXCEPT ![Terminal] = len]
  /\ writes' = [writes EXCEPT ![Terminal] = @ - 1]
  /\ Goto(Terminal, "write")
  /\ UNCHANGED <<vars, pipevars, inbox, want, envvars>>

\* A pipe message goes to the Task the descriptor refers to, freed or not.
SendToSubtask(id, m) ==
  /\ TrySend(id, m)
  /\ freed' = [freed EXCEPT ![id] = @ \/ id \notin tasks]

\* Faulty variant: a Write of no bytes sends a message of no bytes.
WriteAtLeastOne ==
  LET id == subtask[Terminal]
      n  == Min2(todo[Terminal], PipeData)
  IN
  /\ At(Terminal, "write")
  /\ SendToSubtask(id, PipeMessage([i \in 1..n |-> sent[id] + i]))
  /\ sent' = [sent EXCEPT ![id] = @ + n]
  /\ todo' = [todo EXCEPT ![Terminal] = @ - n]
  /\ IF todo[Terminal] > n THEN UNCHANGED stage ELSE Goto(Terminal, "command")
  /\ UNCHANGED <<data, closed, rcvd, ended, eof, inbox, writes, want, envvars>>

\* One round of Write's loop; it ends when every byte is sent.
Write ==
  LET id == subtask[Terminal]
      n  == Min2(todo[Terminal], PipeData)
  IN
  /\ At(Terminal, "write")
  /\ IF todo[Terminal] = 0
     THEN Goto(Terminal, "command") /\ UNCHANGED <<vars, freed, sent, todo>>
     ELSE /\ SendToSubtask(id, PipeMessage([i \in 1..n |-> sent[id] + i]))
          /\ sent' = [sent EXCEPT ![id] = @ + n]
          /\ todo' = [todo EXCEPT ![Terminal] = @ - n]
          /\ UNCHANGED stage
  /\ UNCHANGED <<data, closed, rcvd, ended, eof, inbox, writes, want, envvars>>

\* Faulty variant: the command's end is not announced.
NoFinishWrite ==
  LET id == subtask[Terminal] IN
  /\ At(Terminal, "command")
  /\ ended' = [ended EXCEPT ![id] = TRUE]
  /\ Goto(Terminal, "wait")
  /\ UNCHANGED <<vars, freed, data, closed, sent, rcvd, eof, inbox, todo, writes, want, envvars>>

\* The command ends: FinishWrite.
FinishWrite ==
  LET id == subtask[Terminal] IN
  /\ At(Terminal, "command")
  /\ SendToSubtask(id, PipeMessage(<< >>))
  /\ ended' = [ended EXCEPT ![id] = TRUE]
  /\ Goto(Terminal, "wait")
  /\ UNCHANGED <<data, closed, sent, rcvd, eof, inbox, todo, writes, want, envvars>>

\* Faulty variant: the window's keys are not given back.
WaitKeepsFocus ==
  /\ At(Terminal, "wait")
  /\ WaitFinish(Terminal)
  /\ IF finish_tasks[subtask[Terminal]] = NoCode THEN UNCHANGED <<stage, inbox>>
     ELSE Goto(Terminal, "loop") /\ inbox' = [inbox EXCEPT ![Terminal] = NoMessage]
  /\ UNCHANGED <<pipevars, todo, writes, want, envvars>>

\* WaitFinish and what follows it before sti.
WaitSubtask ==
  /\ At(Terminal, "wait")
  /\ WaitFinish(Terminal)
  /\ IF finish_tasks[subtask[Terminal]] = NoCode THEN UNCHANGED <<stage, inbox, focus>>
     ELSE /\ Goto(Terminal, "loop")
          /\ focus' = Terminal
          /\ inbox' = [inbox EXCEPT ![Terminal] = NoMessage]
  /\ UNCHANGED <<pipevars, todo, writes, want, keys, prints>>

-----------------------------------------------------------------------------
(* The subtask: TaskTerminal runs the subcommand and finishes              *)

\* The bytes of the first len of buf are returned, the rest stays in data_.
Deliver(c, buf, len) ==
  LET n == Min2(Len(buf), len) IN
  /\ rcvd' = [rcvd EXCEPT ![c] = @ \o SubSeq(buf, 1, n)]
  /\ data' = [data EXCEPT ![c] = SubSeq(buf, n + 1, Len(buf))]

ReportEof(c) == eof' = [eof EXCEPT ![c] = TRUE]

\* A Read that needs no message, or the start of its loop.
CallRead(c) ==
  /\ At(c, "start") /\ pc[c] = "run"
  /\ \E len \in 1..MaxRead :
       IF data[c] # << >>
       THEN Deliver(c, data[c], len) /\ UNCHANGED <<vars, eof, want, stage>>
       ELSE IF closed[c]
       THEN ReportEof(c) /\ UNCHANGED <<vars, data, rcvd, want, stage>>
       ELSE /\ want' = [want EXCEPT ![c] = len]
            /\ HandlerDone(c) /\ Goto(c, "read")
            /\ UNCHANGED <<data, rcvd, eof>>
  /\ UNCHANGED <<closed, sent, ended, freed, inbox, todo, writes, envvars>>

\* Faulty variant: what the caller has no room for is forgotten.
ReadDropsRest(c) ==
  /\ At(c, "read") /\ pc[c] = "run"
  /\ LET m == inbox[c] IN
     IF m.type # "pipe" THEN HandlerDone(c) /\ UNCHANGED <<data, rcvd, closed, eof, stage>>
     ELSE /\ Goto(c, "start") /\ UNCHANGED vars
          /\ IF m.data = << >>
             THEN closed' = [closed EXCEPT ![c] = TRUE] /\ ReportEof(c)
                  /\ UNCHANGED <<data, rcvd>>
             ELSE /\ rcvd' = [rcvd EXCEPT ![c] = @ \o SubSeq(m.data, 1, Min2(Len(m.data), want[c]))]
                  /\ UNCHANGED <<data, closed, eof>>
  /\ UNCHANGED <<sent, ended, freed, inbox, todo, writes, want, envvars>>

\* The message Read waited for.  What is no pipe message is dropped.
Read(c) ==
  /\ At(c, "read") /\ pc[c] = "run"
  /\ LET m == inbox[c] IN
     IF m.type # "pipe" THEN HandlerDone(c) /\ UNCHANGED <<data, rcvd, closed, eof, stage>>
     ELSE /\ Goto(c, "start") /\ UNCHANGED vars
          /\ IF m.data = << >>
             THEN closed' = [closed EXCEPT ![c] = TRUE] /\ ReportEof(c)
                  /\ UNCHANGED <<data, rcvd>>
             ELSE Deliver(c, m.data, want[c]) /\ UNCHANGED <<closed, eof>>
  /\ UNCHANGED <<sent, ended, freed, inbox, todo, writes, want, envvars>>

\* The subcommand prints into the parent's window: the main task answers to the parent.
PrintLine(c) ==
  /\ At(c, "start") /\ pc[c] = "run" /\ prints < MaxPrints
  /\ prints' = prints + 1
  /\ SendMessage(Main, [type |-> "layer"])
  /\ UNCHANGED <<pipevars, progvars, focus, keys>>

\* The subcommand ends, whether it has read everything or not.
Exit(c) ==
  /\ At(c, "start")
  /\ \E code \in ExitCodes : Finish(c, code)
  /\ UNCHANGED <<pipevars, progvars, envvars>>

TaskStep ==
  \/ MainBoots \/ MainHandles \/ MainLoops
  \/ TerminalLoop \/ StartSubtask \/ MoveFocus \/ CallWrite \/ Write
  \/ FinishWrite \/ WaitSubtask
  \/ \E t \in TaskId : Receive(t)
  \/ \E c \in Children : CallRead(c) \/ Read(c) \/ PrintLine(c) \/ Exit(c)

Timer == SwitchTask /\ UNCHANGED <<pipevars, progvars, envvars>>

PipeNext == Timer \/ KeyInterrupt \/ TaskStep

PipeSpec == PipeInit /\ [][PipeNext]_pvars

\* The timer never stops and the task on the cpu takes its next step.
FairPipeSpec == PipeSpec /\ WF_pvars(Timer) /\ WF_pvars(TaskStep)

-----------------------------------------------------------------------------
(* Properties *)

Stream == INSTANCE ByteStream WITH Pipes <- TaskId

\* Every pipe is a byte stream: chunking, leftovers in data_ and foreign messages in
\* between neither lose, repeat nor reorder a byte, and end of file comes last.
PipeIsStream == Stream!Spec

\* The descriptor refers to the reading Task, which is freed when its command ends:
\* a message is put into a freed Task only if the reader left before end of file.
NoSendAfterEof == \A c \in Children : freed[c] => ~eof[c]

\* At the prompt the keys of the window go to the terminal itself, and while the
\* terminal waits in WaitFinish they never do.
FocusReturns ==
  /\ stage[Terminal] = "loop" => focus = Terminal
  /\ stage[Terminal] = "wait" => focus = subtask[Terminal]

\* Both ends of a pipe end as its writer and its reader expect: nothing is sent to a reader
\* that is gone, and the keyboard comes back.
PipeEndsCleanly == NoSendAfterEof /\ FocusReturns

\* A pipeline ends: whenever the terminal has started one it comes back to the
\* prompt, whatever the reader leaves unread and whatever else wakes the terminal.
PipelineEnds == (stage[Terminal] = "line") ~> (stage[Terminal] = "loop")

=============================================================================
