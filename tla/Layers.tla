------------------------------- MODULE Layers -------------------------------
(***************************************************************************)
(* Windows on the screen: the layers and their stacking order              *)
(* (src/kernel/ui/layer.cpp), which of them has the focus, which task      *)
(* receives its input (layer_task_map), and who changes all that: the main *)
(* task for the mouse and the keyboard, terminals as they start and close, *)
(* and the applications that run in a terminal's task.                     *)
(*                                                                         *)
(* The main task runs at a higher level than all others, so each of its    *)
(* handlers is one action, and so is each section that a terminal or a     *)
(* system call runs with interrupts disabled.                              *)
(***************************************************************************)
EXTENDS Integers, Sequences, FiniteSets

CONSTANTS
  Tasks,      \* tasks that run a terminal
  NoTask,
  MaxLayer,   \* bound on latest_id_
  MaxMsgs,    \* bound on a task's messages when the user acts
  Patient     \* whether all wait, activating no window, while a terminal starts

ASSUME LayersAssumption ==
  /\ NoTask \notin Tasks
  /\ MaxLayer \in Nat /\ MaxLayer > 3 /\ MaxMsgs \in Nat \ {0} /\ Patient \in BOOLEAN

VARIABLES
  layers, layer_stack, latest_id, \* LayerManager
  active_layer,                   \* ActiveLayer
  layer_task_map,
  clock,                          \* the wall clock's layer, 0 before it started
  left_pressed, drag_layer_id,    \* Mouse
  pc,                             \* where each terminal's task is
  window, window_isactive,        \* each terminal's layer (0 for none) and its focus flag
  child,                          \* the subtask at the right of a pipe
  windows,                        \* the layers each task's applications opened
  msgs,                           \* the messages of each task
  undefined,                      \* operations that were given a layer that is not there
  commanded                       \* history: the tasks that have executed a command

manager == <<layers, layer_stack, latest_id>>
focus == <<active_layer, layer_task_map>>
mouse == <<left_pressed, drag_layer_id>>
terminal == <<pc, window, window_isactive, child, windows, commanded>>
vars == <<manager, focus, clock, mouse, terminal, msgs, undefined>>

Background == 1
ConsoleLayer == 2
MouseLayer == 3
System == {Background, ConsoleLayer, MouseLayer, clock}

WindowActive(activate) == [type |-> "WindowActive", arg |-> activate]
WindowClose(id) == [type |-> "WindowClose", arg |-> id]
KeyPush == [type |-> "KeyPush", arg |-> 0]
MouseEvent == [type |-> "Mouse", arg |-> 0]

\* Where TaskTerminal is inside ActiveLayer::Activate.
Activating == {"deactivate", "set", "bottom", "raise", "tell"}
Starting(t) == pc[t] \in {"new", "insert"} \cup Activating
Quiet == Patient => \A t \in Tasks : ~Starting(t)

Elements(s) == {s[i] : i \in DOMAIN s}

\* std::find: where id is first in s.
Position(s, id) ==
  CHOOSE i \in DOMAIN s : s[i] = id /\ \A j \in DOMAIN s : s[j] = id => i <= j

Erase(s, id) ==
  IF id \in Elements(s)
  THEN [i \in 1 .. (Len(s) - 1) |-> IF i < Position(s, id) THEN s[i] ELSE s[i + 1]]
  ELSE s

Least(a, b) == IF a < b THEN a ELSE b
InsertBehind(s, i, id) == SubSeq(s, 1, i) \o <<id>> \o SubSeq(s, i + 1, Len(s))

\* LayerManager::UpDown for a height that is not negative.
UpDown(stack, id, new_height) ==
  IF id \in Elements(stack)
  THEN InsertBehind(Erase(stack, id), Least(new_height, Len(stack) - 1), id)
  ELSE InsertBehind(stack, Least(new_height, Len(stack)), id)

GetHeight(stack, id) ==
  IF id \in Elements(stack) THEN Position(stack, id) - 1 ELSE -1

\* Faulty variant: Activate does not put the layer on the stack first.
NotLowered(stack, id) == stack

\* The stack after the two calls of UpDown in Activate.
Lower(stack, id) == UpDown(stack, id, 0)
Raise(stack, id) == UpDown(stack, id, GetHeight(stack, MouseLayer) - 1)

\* Faulty variant: only the window that gains the focus is told.
SendGained(m, map, id, activate) ==
  IF activate /\ id \in DOMAIN map /\ pc[map[id]] # "finished"
  THEN [m EXCEPT ![map[id]] = Append(@, WindowActive(activate))]
  ELSE m

\* Messages m after SendWindowActiveMessage.
SendActive(m, map, id, activate) ==
  IF id \in DOMAIN map /\ pc[map[id]] # "finished"
  THEN [m EXCEPT ![map[id]] = Append(@, WindowActive(activate))]
  ELSE m

\* Faulty variant: CloseLayer leaves the layer in the map.
StillWith(map, id) == map

Without(map, id) == [l \in DOMAIN map \ {id} |-> map[l]]
With(map, id, t) == [l \in DOMAIN map \cup {id} |-> IF l = id THEN t ELSE map[l]]

\* Faulty variant: Activate(0) does nothing.
ActivatedUnlessNone(id, stack) ==
  IF id \in {0, active_layer} THEN [active |-> active_layer, stack |-> stack, msgs |-> msgs]
  ELSE [active |-> id, stack |-> Raise(Lower(stack, id), id),
        msgs |-> SendActive(IF active_layer = 0 THEN msgs
                            ELSE SendActive(msgs, layer_task_map, active_layer, FALSE),
                            layer_task_map, id, TRUE)]

\* What Activate(id), not interrupted, makes of <<active_layer, layer_stack, msgs>>.
Activated(id, stack) ==
  IF active_layer = id THEN [active |-> id, stack |-> stack, msgs |-> msgs]
  ELSE LET told == IF active_layer > 0
                   THEN SendActive(msgs, layer_task_map, active_layer, FALSE) ELSE msgs
       IN IF id = 0 THEN [active |-> 0, stack |-> stack, msgs |-> told]
          ELSE [active |-> id, stack |-> Raise(Lower(stack, id), id),
                msgs |-> SendActive(told, layer_task_map, id, TRUE)]

\* Activate looks up the layer that is active and dereferences what it finds.
ActivateFault(id) ==
  IF active_layer \notin {0, id} /\ active_layer \notin layers THEN {"Activate"} ELSE {}

Init ==
  /\ layers = {Background, ConsoleLayer, MouseLayer}
  /\ layer_stack = <<Background, ConsoleLayer, MouseLayer>>
  /\ latest_id = MouseLayer
  /\ active_layer = 0 /\ layer_task_map = << >>
  /\ clock = 0
  /\ left_pressed = FALSE /\ drag_layer_id = 0
  /\ pc = [t \in Tasks |-> "none"]
  /\ window = [t \in Tasks |-> 0] /\ window_isactive = [t \in Tasks |-> FALSE]
  /\ child = [t \in Tasks |-> NoTask] /\ windows = [t \in Tasks |-> {}]
  /\ msgs = [t \in Tasks |-> << >>]
  /\ undefined = {} /\ commanded = {}

-----------------------------------------------------------------------------
(* A terminal starts. Its constructor prints a prompt, which enables       *)
(* interrupts: all that follows in TaskTerminal is open to interleaving.   *)

Go(t, place) == pc' = [pc EXCEPT ![t] = place]
KeepTerminal == UNCHANGED <<window, window_isactive, child, windows, commanded>>

\* The main task handles F2, or starts the first terminal.
NewTerminal(t) ==
  /\ pc[t] = "none" /\ Quiet
  /\ Go(t, "new") /\ KeepTerminal
  /\ UNCHANGED <<manager, focus, clock, mouse, msgs, undefined>>

\* Terminal::Terminal, up to the sti at the end of Print.
Construct(t) ==
  /\ pc[t] = "new" /\ latest_id < MaxLayer
  /\ latest_id' = latest_id + 1
  /\ layers' = layers \cup {latest_id'}
  /\ window' = [window EXCEPT ![t] = latest_id']
  /\ Go(t, "insert")
  /\ UNCHANGED <<layer_stack, focus, clock, mouse, window_isactive, child, windows,
                 commanded, msgs, undefined>>

InsertMap(t) ==
  /\ pc[t] = "insert"
  /\ layer_task_map' = With(layer_task_map, window[t], t)
  /\ Go(t, "deactivate") /\ KeepTerminal
  /\ UNCHANGED <<manager, active_layer, clock, mouse, msgs, undefined>>

\* ActiveLayer::Activate, open to interleaving.
Deactivate(t) ==
  /\ pc[t] = "deactivate"
  /\ IF active_layer = window[t]
     THEN Go(t, "loop") /\ UNCHANGED <<msgs, undefined>>
     ELSE /\ msgs' = SendActive(msgs, layer_task_map, active_layer, FALSE)
          /\ undefined' = undefined \cup ActivateFault(window[t])
          /\ Go(t, "set")
  /\ KeepTerminal /\ UNCHANGED <<manager, focus, clock, mouse>>

SetActive(t) ==
  /\ pc[t] = "set"
  /\ active_layer' = window[t]
  /\ Go(t, "bottom") /\ KeepTerminal
  /\ UNCHANGED <<manager, layer_task_map, clock, mouse, msgs, undefined>>

\* The two calls of UpDown read active_layer_ again. Given a layer that is not there,
\* UpDown inserts a null pointer, 0 here, into the stack.
MoveActive(t, from, to, stack) ==
  /\ pc[t] = from
  /\ layer_stack' = stack
  /\ undefined' = undefined \cup (IF active_layer \in layers THEN {} ELSE {"UpDown"})
  /\ Go(t, to) /\ KeepTerminal
  /\ UNCHANGED <<layers, latest_id, focus, clock, mouse, msgs>>

LowerActive(t) == MoveActive(t, "bottom", "raise", Lower(layer_stack, active_layer))
RaiseActive(t) == MoveActive(t, "raise", "tell", Raise(layer_stack, active_layer))

TellActive(t) ==
  /\ pc[t] = "tell"
  /\ msgs' = SendActive(msgs, layer_task_map, active_layer, TRUE)
  /\ Go(t, "loop") /\ KeepTerminal
  /\ UNCHANGED <<manager, focus, clock, mouse, undefined>>

StartTerminal(t) ==
  \/ NewTerminal(t) \/ Construct(t) \/ InsertMap(t)
  \/ Deactivate(t) \/ SetActive(t) \/ LowerActive(t) \/ RaiseActive(t) \/ TellActive(t)

-----------------------------------------------------------------------------
(* A terminal's message loop.                                              *)

\* The queues of the tasks that finish are freed after CloseLayer.
Freed(m, finishing) == [t \in Tasks |-> IF t \in finishing THEN << >> ELSE m[t]]

CloseLayer(id, finishing) ==
  IF id \notin layers
  THEN /\ msgs' = Freed(msgs, finishing)
       /\ UNCHANGED <<manager, focus, undefined>>
  ELSE LET a == Activated(0, layer_stack) IN
       /\ active_layer' = a.active
       /\ layer_stack' = Erase(a.stack, id)
       /\ layers' = layers \ {id}
       /\ layer_task_map' = Without(layer_task_map, id)
       /\ msgs' = Freed(a.msgs, finishing)
       /\ undefined' = undefined \cup ActivateFault(0)
       /\ UNCHANGED latest_id

Receiving(t, type) == pc[t] = "loop" /\ msgs[t] # << >> /\ Head(msgs[t]).type = type
Received(t) == msgs' = [msgs EXCEPT ![t] = Tail(@)]

ReceiveActive(t) ==
  /\ Receiving(t, "WindowActive")
  /\ window_isactive' = [window_isactive EXCEPT ![t] = Head(msgs[t]).arg]
  /\ Received(t)
  /\ UNCHANGED <<manager, focus, clock, mouse, pc, window, child, windows,
                 commanded, undefined>>

ReceiveMouse(t) ==
  /\ Receiving(t, "Mouse")
  /\ Received(t)
  /\ UNCHANGED <<manager, focus, clock, mouse, terminal, undefined>>

\* A key that edits the line, or a command that the terminal executes itself.
ReceiveKey(t) ==
  /\ Receiving(t, "KeyPush")
  /\ Received(t)
  /\ UNCHANGED <<manager, focus, clock, mouse, terminal, undefined>>

\* The key that ends a line: an application ...
Execute(t) ==
  /\ Receiving(t, "KeyPush")
  /\ Received(t)
  /\ Go(t, "app") /\ commanded' = commanded \cup {t}
  /\ UNCHANGED <<manager, focus, clock, mouse, window, window_isactive, child,
                 windows, undefined>>

\* ... or two of them joined by a pipe: a subtask without a window is to run the second
\* one, and may start before this task records it in the map.
ExecutePipe(t, s) ==
  /\ Receiving(t, "KeyPush") /\ pc[s] = "none"
  /\ Received(t)
  /\ pc' = [pc EXCEPT ![t] = "assign", ![s] = "sub"]
  /\ child' = [child EXCEPT ![t] = s]
  /\ commanded' = commanded \cup {t, s}
  /\ UNCHANGED <<manager, focus, clock, mouse, window, window_isactive, windows,
                 undefined>>

AssignMap(t) ==
  /\ pc[t] = "assign"
  /\ layer_task_map' = With(layer_task_map, window[t], child[t])
  /\ Go(t, "app") /\ KeepTerminal
  /\ UNCHANGED <<manager, active_layer, clock, mouse, msgs, undefined>>

\* WaitFinish has returned and the map is restored.
ReapPipe(t) ==
  /\ pc[t] = "wait" /\ pc[child[t]] = "finished"
  /\ layer_task_map' = With(layer_task_map, window[t], t)
  /\ child' = [child EXCEPT ![t] = NoTask]
  /\ Go(t, "loop")
  /\ UNCHANGED <<manager, active_layer, clock, mouse, window, window_isactive, windows,
                 commanded, msgs, undefined>>

ReceiveClose(t) ==
  /\ Receiving(t, "WindowClose") /\ Quiet
  /\ CloseLayer(Head(msgs[t]).arg, {t})
  /\ Go(t, "finished") /\ KeepTerminal
  /\ UNCHANGED <<clock, mouse>>

TerminalLoop(t) ==
  \/ ReceiveActive(t) \/ ReceiveMouse(t) \/ ReceiveKey(t) \/ Execute(t)
  \/ \E s \in Tasks : ExecutePipe(t, s)
  \/ AssignMap(t) \/ ReapPipe(t) \/ ReceiveClose(t)

-----------------------------------------------------------------------------
(* The application that runs in a terminal's task, or in a subtask's.      *)

InApp(t) == pc[t] \in {"app", "sub"}

\* The activation comes before the map, so nobody is told of it.
OpenWindow(t) ==
  /\ InApp(t) /\ Quiet /\ latest_id < MaxLayer
  /\ LET id == latest_id + 1
         a == Activated(id, layer_stack)
     IN /\ latest_id' = id /\ layers' = layers \cup {id}
        /\ active_layer' = id /\ layer_stack' = a.stack /\ msgs' = a.msgs
        /\ layer_task_map' = With(layer_task_map, id, t)
        /\ windows' = [windows EXCEPT ![t] = @ \cup {id}]
        /\ undefined' = undefined \cup ActivateFault(id)
  /\ UNCHANGED <<clock, mouse, pc, window, window_isactive, child, commanded>>

CloseWindow(t) ==
  /\ InApp(t) /\ Quiet
  /\ \E id \in windows[t] :
       /\ CloseLayer(id, {})
       /\ windows' = [windows EXCEPT ![t] = @ \ {id}]
  /\ UNCHANGED <<clock, mouse, pc, window, window_isactive, child, commanded>>

\* An application skips the messages that are not for it, WindowActive among them.
ReadEvent(t) ==
  /\ InApp(t) /\ msgs[t] # << >>
  /\ Received(t)
  /\ UNCHANGED <<manager, focus, clock, mouse, terminal, undefined>>

\* An application ends; its windows stay. A subtask ends with it.
ExitApp(t) ==
  /\ InApp(t)
  /\ IF pc[t] = "sub"
     THEN /\ Go(t, "finished")
          /\ msgs' = [msgs EXCEPT ![t] = << >>]
     ELSE /\ Go(t, IF child[t] = NoTask THEN "loop" ELSE "wait")
          /\ UNCHANGED msgs
  /\ KeepTerminal /\ UNCHANGED <<manager, focus, clock, mouse, undefined>>

Application(t) == OpenWindow(t) \/ CloseWindow(t) \/ ReadEvent(t) \/ ExitApp(t)

\* Faulty variant: NewLayer does not count.
StartClockUncounted ==
  /\ clock = 0 /\ latest_id < MaxLayer
  /\ clock' = latest_id + 1
  /\ layers' = layers \cup {clock'}
  /\ layer_stack' = UpDown(layer_stack, clock', 2)
  /\ UNCHANGED <<latest_id, focus, mouse, terminal, msgs, undefined>>

\* TaskWallclock's first section.
StartClock ==
  /\ clock = 0 /\ latest_id < MaxLayer
  /\ latest_id' = latest_id + 1 /\ clock' = latest_id'
  /\ layers' = layers \cup {clock'}
  /\ layer_stack' = UpDown(layer_stack, clock', 2)
  /\ UNCHANGED <<focus, mouse, terminal, msgs, undefined>>

-----------------------------------------------------------------------------
(* The main task: the mouse, the keyboard, and messages about layers.      *)

Below == \A t \in Tasks : Len(msgs[t]) < MaxMsgs

\* Messages m after one more for the task of the active layer.
Input(m, active, msg) ==
  IF active \in DOMAIN layer_task_map /\ pc[layer_task_map[active]] # "finished"
  THEN [m EXCEPT ![layer_task_map[active]] = Append(@, msg)]
  ELSE m

\* GetWindowRegion: the places of a window that a press tells apart.
WindowRegion == {"title", "close", "inside"}

\* The left button goes down over layer l; everything but the windows that can be
\* dragged takes the focus away.
PressButton(l, region) ==
  /\ ~left_pressed /\ left_pressed' = TRUE
  /\ LET target == IF l \in System THEN 0 ELSE l
         a == Activated(target, layer_stack)
     IN /\ active_layer' = a.active /\ layer_stack' = a.stack
        /\ undefined' = undefined \cup ActivateFault(target)
        /\ drag_layer_id' = IF target # 0 /\ region = "title" THEN target ELSE 0
        /\ msgs' = IF drag_layer_id' # 0 THEN a.msgs
                   ELSE Input(a.msgs, a.active,
                              IF region = "close" THEN WindowClose(a.active) ELSE MouseEvent)
  /\ UNCHANGED <<layers, latest_id, layer_task_map, clock, terminal>>

MoveMouse ==
  /\ IF left_pressed /\ drag_layer_id # 0
     THEN /\ undefined' = undefined \cup
               (IF drag_layer_id \in layers THEN {} ELSE {"MoveRelative"})
          /\ UNCHANGED msgs
     ELSE /\ msgs' = Input(msgs, active_layer, MouseEvent)
          /\ UNCHANGED undefined
  /\ UNCHANGED <<manager, focus, clock, mouse, terminal>>

ReleaseButton ==
  /\ left_pressed /\ left_pressed' = FALSE
  /\ drag_layer_id' = 0
  /\ msgs' = Input(msgs, active_layer, MouseEvent)
  /\ UNCHANGED <<manager, focus, clock, terminal, undefined>>

PushKey ==
  /\ msgs' = Input(msgs, active_layer, KeyPush)
  /\ UNCHANGED <<manager, focus, clock, mouse, terminal, undefined>>

User ==
  /\ Below
  /\ \/ /\ Quiet
        /\ \E l \in Elements(layer_stack) \ {MouseLayer}, region \in WindowRegion :
             PressButton(l, region)
     \/ MoveMouse \/ ReleaseButton \/ PushKey

\* The kernel does not go on after it has used a null pointer.
Next ==
  /\ undefined = {}
  /\ \/ \E t \in Tasks : StartTerminal(t) \/ TerminalLoop(t) \/ Application(t)
     \/ StartClock \/ User

Spec == Init /\ [][Next]_vars

-----------------------------------------------------------------------------
\* Every variable keeps its type.
TypeOK ==
  /\ latest_id \in MouseLayer .. MaxLayer /\ layers \subseteq 1 .. latest_id
  /\ Elements(layer_stack) \subseteq 0 .. latest_id
  /\ {active_layer, drag_layer_id, clock} \subseteq 0 .. latest_id
  /\ DOMAIN layer_task_map \subseteq 1 .. latest_id
  /\ \A l \in DOMAIN layer_task_map : layer_task_map[l] \in Tasks
  /\ pc \in [Tasks -> {"none", "new", "insert", "loop", "assign", "app", "wait", "sub",
                       "finished"} \cup Activating]
  /\ window \in [Tasks -> 0 .. latest_id] /\ window_isactive \in [Tasks -> BOOLEAN]
  /\ child \in [Tasks -> Tasks \cup {NoTask}]
  /\ left_pressed \in BOOLEAN
  /\ undefined \subseteq {"Activate", "UpDown", "MoveRelative"}

Settled == \A t \in Tasks : pc[t] \notin Activating

\* UpDown, Hide and Activate keep the stack in order: each layer on it exists and is on it
\* once, the desktop is at the bottom, the mouse cursor on top, and the window with the
\* focus right under the cursor.
StackOrder ==
  Settled =>
    LET top == Len(layer_stack) IN
    /\ Elements(layer_stack) \subseteq layers
    /\ \A i, j \in 1 .. top : layer_stack[i] = layer_stack[j] => i = j
    /\ layer_stack[1] = Background /\ layer_stack[top] = MouseLayer
    /\ active_layer # 0 => layer_stack[top - 1] = active_layer

\* The window with the focus exists, so that Activate can take the focus away from it, and
\* its input has a task to go to.
FocusIsLive ==
  /\ "Activate" \notin undefined
  /\ active_layer # 0 => active_layer \in layers \cap DOMAIN layer_task_map

\* Input reaches the right task: the map names only windows that exist, an application's
\* window is mapped to the task that opened it, and a terminal that is back in its
\* message loop has its own window, even after a pipe lent the window to a subtask.
MapIsExact ==
  /\ DOMAIN layer_task_map \subseteq layers \ System
  /\ \A t \in Tasks :
       /\ \A l \in windows[t] \cap layers : l \in DOMAIN layer_task_map /\ layer_task_map[l] = t
       /\ pc[t] = "loop" => window[t] \in DOMAIN layer_task_map /\ layer_task_map[window[t]] = t

\* A terminal that has read all its messages knows whether it has the focus, however
\* activations and deactivations were interleaved. (Applications take such messages from
\* the terminal they run in, so this is about terminals that have executed nothing.)
CursorShowsFocus ==
  Settled =>
    \A t \in Tasks \ commanded :
      pc[t] = "loop" /\ msgs[t] = << >> => window_isactive[t] = (active_layer = window[t])

\* What the user sees and what gets the input agree: stack, focus, map and cursor, which are
\* kept in three places and changed one after the other.
FocusIsSound == StackOrder /\ FocusIsLive /\ MapIsExact /\ CursorShowsFocus

\* UpDown places layers that exist (layer.hpp: it moves the given layer in the stack).
PlacesExistingLayers == "UpDown" \notin undefined

\* MoveRelative moves a layer that exists (layer.hpp: it updates the layer's position).
MovesExistingLayers == "MoveRelative" \notin undefined
=============================================================================
