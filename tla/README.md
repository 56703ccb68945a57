# Verification of RagingOS

RagingOS is a small x86-64 operating system: a UEFI loader (`src/RagingosLoaderPkg`),
a kernel (`src/kernel`) and user programs (`src/apps`).  This directory holds TLA+
models of the loader, the kernel and the user programs that keep a state, TLC configurations that check them on small
instances, and TLAPS proofs of the properties that matter most.  Paths below are
relative to the repository; the kernel's files are named without `src/kernel/`.

## 1. The system

The kernel runs on one processor.  There is no lock: a piece of code is atomic
exactly when interrupts are disabled (`cli` ... `sti`) or when it runs inside an
interrupt handler.  A context switch happens in two places only: in the timer
interrupt (`LAPICTimerOnInterrupt` -> `TaskManager::SwitchTask`) and when a task
gives up the cpu (`Sleep`, `WaitFinish`, `Finish`).

| component | state | operations | talks to |
|---|---|---|---|
| task manager (`task.*`) | run queues per level, current level, `level_changed_`, tasks, message queues, exit codes and waiters | NewTask, Wakeup, Sleep, SendMessage, ReceiveMessage, SwitchTask, WaitFinish, Finish | everybody |
| timers (`timer.*`) | tick counter, priority queue of timers | AddTimer, Tick | task manager (messages, context switch), LAPIC |
| interrupts (`interrupt.*`) | IDT | IntHandlerXHCI, IntHandlerLAPICTimer, fault handlers | xHCI, timers, paging |
| terminal (`terminal.*`) | line buffer, cursor, history, windows, files of the running command | InputKey, ExecuteLine, ExecuteFile, Print, TaskTerminal | everything above the drivers |
| pipe (`PipeDescriptor`) | 16-byte buffer, closed flag, messages of the reading task | Write, FinishWrite, Read | task manager |
| system calls (`syscall.cpp`) | file table of a task | Open/Read/DemandPages/MapFile/ReadEvent/CreateTimer/Win* | FAT, paging, timers, layers |
| paging (`paging.*`) | page maps, CR3, demand and file mappings of a task | SetupPageMaps, CleanPageMaps, CopyPageMaps, HandlePageFault | memory manager, FAT |
| memory manager (`memory_manager.*`) | bitmap of frames | Allocate, Free, MarkAllocated, SetMemoryRange | paging, task stacks |
| FAT file system (`fat.*`) | FAT, directory entries, file positions | CreateFile, Read, Write, ExtendCluster, AllocateClusterChain, FindFile, NextCluster | RAM disk |
| xHCI host controller (`drivers/usb/xhci`) | per-port configuration phase, addressing port, device slots, rings | ConfigurePort, ResetPort, EnableSlot, AddressDevice, ProcessEvent | main task |
| USB devices and class drivers (`drivers/usb`) | initialization phase, endpoint configurations, event waiters | ControlIn/Out, OnControlCompleted, HID OnDataReceived | xHCI |
| loader (`RagingosLoaderPkg/main.c`) | memory map, kernel and volume images | LoadKernel, CopyLoadSegments, GetMemoryMap, ExitBootServices | firmware, kernel entry |
| PCI, ACPI (`pci.*`, `acpi.*`) | table of devices, MSI registers, PM timer | ScanAllBus, ConfigureMSI, WaitMilliseconds | xHCI, timers |
| console and log (`console.*`) | rows, buffer, screen or window | PutString, Newline, SetWindow | everybody |
| programs (`apps/*`) | text, caret and file (tedit); rows (tview); ball and blocks (blocks); break (sbrk) | their main loops | system calls |
| layers and windows (`ui/*`) | stack of layers, positions, active layer, dragging | NewLayer, RemoveLayer, UpDown, Hide, Move, FindLayerByPosition, Activate | mouse, terminal, system calls |
| mouse and keyboard | position, previous buttons, dragged layer | OnInterrupt | layers, task manager |
| main task (`main.cpp`) | - | message loop | all |

Hard behaviours: everything that runs with interrupts enabled may be preempted by
the timer between two instructions, by a task that calls the same component;
messages overtake each other at the receivers that drop what they do not expect;
tasks end while others still hold a reference to them; the xHCI controller answers
commands later and in another order than the ports change; page frames are shared
between page maps after a copy; and the FAT is changed by several tasks.

## 2. Plan

Order: the core first (tasks), then what is built on it, then what comes before it (the
start of the machine) and what the user sees (screen, terminal, programs).

| step | module | abstract specification | state |
|---|---|---|---|
| 1 | `TaskManager`: run queues, levels, switches, messages, exit codes | `PriorityScheduler` | done; proofs in `TaskManagerProofs` |
| 2 | `Timers` (extends `TaskManager`): the tick, the timers, who re-arms them | - | done; proofs in `TimersProofs` |
| 3 | `Pipe` (extends `TaskManager`): the terminal's pipeline | `ByteStream` | done; proofs in `PipeProofs` |
| 4 | `MemoryManager`: the memory map, the bitmap, preemptible Allocate | first fit (an operator) | done; proofs in `StorageProofs` |
| 5 | `Paging`: address spaces, copy on write, loaded images | - | done; proofs in `PagingProofs` |
| 6 | `Fat`: clusters, chains, directory, descriptors; `FatNames`: paths and 8+3 names | `FileStore` | done, operations atomic; `Fat`'s proofs in `StorageProofs` |
| 7 | `PortConfig`: the USB port state machine, initialization and polling of its devices | - | done; proofs in `PortConfigProofs` |
| 8 | `Rings`: xHCI command and event rings | `Fifo` | done; proofs in `StartupProofs` |
| 9 | `Layers`: stacking order, focus, who gets the input; `Screen`: what is drawn | the composition of the layers (an operator) | done; proofs in `LayersProofs` and `StartupProofs` |
| 10 | `Loader`, `Pci`, `Acpi`, `HostController`: the start of the machine and of the controller | - | done; `Acpi`'s proofs in `StartupProofs` |
| 11 | `UsbDevice`: requests, transfers, waiters, class drivers of one device | - | done |
| 12 | `Console`, `Terminal`: what is printed, typed and executed | a line's commands, one after the other (an operator) | done; `Console`'s proofs in `StartupProofs` |
| 13 | `Tedit`, `Tview`, `Blocks`, `Drawing`: the programs with a state of their own | - | done |
| 14 | `AppMemory`: sbrk, demanded pages and mapped files | - | done; proofs in `StorageProofs` |
| 15 | FAT operations in small steps, two tasks | atomic operations of `Fat` | open |

## 3. Modules

### TaskManager (task.cpp)

`sched` is the part of the class that the scheduler functions change: `run` is
`running_`, `cur` is `current_level_`, `chg` is `level_changed_`, `lvl` and `on` are
`Task::level_` and `Task::running_`.  The private functions (`RotateCurrentRunQueue`,
`ChangeLevelRunning`, `Wakeup`, `Sleep`) are operators from one such record to the next,
and the actions are the public operations as a task or an interrupt handler calls them.
`cpu` is the task whose context is loaded: `SwitchTask`, `Sleep`, `WaitFinish` and
`Finish` change it the way `RestoreContext` and `SwitchContext` do.  `pc` tells a task
that handles a message from one that sleeps in its message loop or in `WaitFinish`.
Operations are atomic because their callers disable interrupts.  Two callers do not,
`NewTask().Wakeup()` at main.cpp:157 and terminal.cpp:471: a tick inside them, which would
find the run queues half changed, is not modelled.

`Spec` is what the kernel does with the class, `ApiSpec` adds `Wakeup(id, level)` and
`Sleep(id)`, which nothing calls today.  `FairSpec` adds weak fairness of `SwitchTask`: the
LAPIC timer is periodic and no code masks interrupts for ever.

`PriorityScheduler` says what all this is for: the cpu is handed only to a ready task of
the highest level, without queues or flags.  `StrictPriority` is that refinement.

### Timers (timer.cpp, main.cpp, terminal.cpp, syscall.cpp)

Extends `TaskManager` with `tick_`, the queue of timers as a set (timers that are equal in
C++ get an id), the task timer, the wall clock task, the terminal's blinking cursor and an
application that makes timers of its own in the terminal's task.  `adding` are the tasks
inside an `AddTimer` that is called with interrupts enabled; when a tick comes there,
`raced` is set and the properties claim nothing any more, for `std::priority_queue` is then
changed by two callers (a hazard).  After `MaxTick` ticks time stops (`TimeUp`).
`TimersAssumption`: there are the four tasks of the start, and the level of new tasks is not
the highest (it is 1, of 3 in the code).  With three tasks that wake each other on the level of
all, `BoundedWait` would be false.

### Pipe (terminal.cpp)

Extends `TaskManager` with `ExecuteLine` for "command | subcommand": the subtask, the
messages that carry the data, `data_`, `len_` and `closed_` of the descriptor, the
redirection of the keys (`focus` stands for the window's entry in `layer_task_map`) and
WaitFinish.  Commands write and read any number of bytes within the bounds, and end when
they like.  A byte is its number, so `ByteStream` can say that the reader gets 1, 2, 3, ...
`freed` records that a message was put into a `Task` that Finish has deleted; what such a
write does to the heap is not modelled.  `PipeAssumption`: there is a terminal, and a
message carries at least one byte (16 in the code).

### MemoryManager (memory_manager.cpp, segment.cpp)

The walk over the memory map, one entry a step, the allocations at boot, and then
`Allocate` and `Free` of several tasks, one access to the bitmap a step (`SetBit` is one
instruction).  An entry has a type, and what only the boot services used is free
(`IsAvailable`).  `memory` and `described` record what the entries said.  The walk over an
entry that crosses `kFrameCount` sets `range_end_` past the array; what is behind the array
is not modelled.

### Paging (paging.cpp, terminal.cpp, interrupt.cpp)

An address space is a root with one table of the pages an application can have: the load
segments' (`Image`), the stack's and one that `DemandPages` or `MapFile` adds. `LoadApp`,
`CopyPageMaps`, `CleanPageMaps` and `ExecuteFile` go page by page, each allocation may
fail, and tasks interleave in between; a page fault is one step. A page is written to by
the application (through the page map) or by a system call (past it, since CR0.WP is
clear); the latter sets `clobbered`.  The four levels of the real page map are abstracted
to root and table, and the race in `Allocate` is left to `MemoryManager`. Any other
exception ends the application or, in a system call, the machine (`Fault`).

### PortConfig (xhci.cpp, port.cpp, device.cpp, hid.cpp)

The driver's state per port and `addressing_port`, driven by events that the main task
handles one by one. The controller is external: it answers commands and transfers in any
order, late, and with a failure when `MayFail`; devices come and go within `MaxPlugs` and
`MaxUnplugs`.  The initialization phases of `usb::Device` are steps of one control transfer
each; then the class driver of a keyboard or a mouse asks for the boot protocol and reads
report after report, each read started by the handling of the one before.  `FairSpec` is
fair to the main task (it has the highest level) and to the controller, which answers every
command and control transfer, be it with a failure; a read may wait for ever for a report.
`failed` records a failure, and `AllPolled` asks nothing more then, nor after an unplugging: the driver reads no
completion codes and gives up the ports that wait.

### Rings (ring.cpp)

The driver's ring, filled word by word (`PushStep` is one store; x86 does not reorder
stores), the link TRB, the cycle bits of both sides, and the event ring with the dequeue
pointer that the driver writes back. The controller is external. `RingAssumption` bounds
the outstanding commands by `buf_size - 2`: `Push` never looks whether the ring is full,
and with `buf_size - 1` TRBs outstanding it may overwrite a link that has not been followed
(TLC shows that the ring then stops).  The driver has one command outstanding per port at
most, in rings of 32.  `FairSpec`: a Push goes on, the controller runs, and the main task
gets the interrupt.

### Fat (fat.cpp, file.cpp, syscall.cpp)

The table, the entries of the root directory, the bytes of each cluster and the descriptors
with their positions as the code keeps them (`rd_cluster_`, `rd_off_`, ...). Each operation
is one action.  `MaxLen <= BytesPerCluster` because all callers write at most 1024 bytes,
a cluster (`FatAssumption`); a longer write would lose data at the boundary (hazard
fat.cpp:346). It also says that a cluster's number is not the mark of the end of a chain
(numbers have 28 bits) and that no file has the name "", by which `FirstNamed` finds a free
entry. `Mixed` lets a file be read while another descriptor writes it.  `FileStore`
is the abstract file system: names, sequences of bytes, offsets.

### Loader (RagingosLoaderPkg/main.c)

The loader's calls in their order, each of which may fail: the memory map, the kernel read
into a buffer, the range of its segments, their copy, the volume, the map again and
`ExitBootServices`. The firmware is external and allocates by itself, which changes the
map's key. A cell of memory stands for bytes that are used together; a page has `PageCells`
of them.

### Pci (pci.cpp, xhci.cpp) and Acpi (acpi.cpp, timer.cpp)

`Pci` has the recursive scan as a fold over devices and functions, the table of devices
that may fill up, the choice of the xHCI controller and the writes to its configuration
space. A capability's registers are a sequence, and the layouts of `MSICapability` with 32
and 64 bit addresses differ in where the data is.  `Acpi` searches the FADT and has the wait
that polls a counter which the program reads every `1..MaxGap` ticks; the counter wraps.
Then the LAPIC timer's count becomes the tick's length. `AcpiAssumption`: the two widths of the
timer differ (24 and 32 bits), 100 ms (357954 of its ticks) and the reads are far below the
smaller one, and the local APIC's 32 bits last for 100 ms, as they do below 42 GHz.

### HostController (xhci.cpp, usb/memory.cpp, devmgr.cpp)

`Controller::Initialize` and `Run`, with the waiting loops as steps of their own: the BIOS
gives up the controller, it halts, ends its reset, becomes ready and runs when it likes.
`misused` records a write that the controller may lose. All that it is given comes from
`AllocMem`'s pool, with the real sizes and alignments.

### UsbDevice (usb/device.cpp, usb/xhci/device.cpp, classdriver/*)

One device: the control transfers of its initialization, written into the ring as set-up,
data and status TRBs, `setup_stage_map_` and `event_waiters_`, and after it the class
driver of a keyboard, a mouse or a serial line. The controller completes the transfers of
several endpoints in any order and with failures, and the events wait for the main task.
A transfer that fails halts its endpoint; the handler returns before it comes to the class
driver, so that a bulk transfer's buffer stays allocated and whoever awaits the answer polls
for ever.

The terminals' commands `usbtest` and `comproc` run with interrupts enabled, and so do
`SendSerial` and `ReceiveSerial`; neither the rings nor `receive_buf_` are protected.
`callers` says how far each terminal is: a buffer is allocated (`SendSerial`), `Push` begins
(`BeginPush`), stores the TRB (`StoreTRB`) and advances (`AdvanceRing`), for the one ring
and then for the other; then bytes are asked for (`ReceiveSerial`), read (`ReadFront`) and
removed (`PopFront`) one by one. `raced` is set when two calls are in one ring's `Push`, when
two take bytes, or when the main task appends between front and pop_front.  `DriversKeepUp`
claims nothing of the serial line then, for the code does lose TRBs, buffers and bytes; it says
that every other way to preempt two terminals and the main task is right, and that a buffer has
one owner also when transfers fail.  With `PastRaces` TLC follows what comes after a race too.
`setbaud` is one step and comes one at a time.

### Layers (layer.cpp, mouse.cpp, syscall.cpp, terminal.cpp, main.cpp)

The layers, their stack, the active layer, `layer_task_map`, the mouse's button and dragged
layer, and the tasks that change them.  The main task's handlers are atomic because no
task with a window has its level; sections under cli are atomic. `TaskTerminal`'s start is
not, although it is written between cli and sti: the constructor of `Terminal` prints a
prompt, and `Print` ends with sti.  `ActiveLayer::Activate` is therefore five steps there
and one everywhere else.  `Patient` is the assumption under which the passing run holds:
while a terminal starts nobody activates or closes a window.  The pointer
is over any layer, in any region of the window; positions and drawing are in `Screen`.
`undefined` records operations that were given a layer that is not there; after those that
use a null pointer the model stops, which is why its runs do not check for deadlock.

### Screen (ui/layer.cpp, ui/window.cpp, frame_buffer.cpp, syscall.cpp)

The pixels of every window, the places of the layers, the back buffer and the screen.  Each
drawing operation recomposes just the part that the code draws (`DrawFrom`: from the layer
that changed upwards). `dirty` are the pixels a program changed and did not have drawn yet.
A click is looked up as `FindLayerByPosition` does.  `ActivateLayer` and `ActivateNone` are
`ActiveLayer::Activate`: nothing for the layer that is active; otherwise the title of the
last one is drawn inactive, and the new one's active, directly under the mouse, whether its
window was just opened or lay lower (layer.cpp:250 puts it at the bottom before line 251 asks
for the mouse's height).  A title is one place of the window, whose color says which of the
two it is.  `ScreenAssumption` says that no window
draws in the mouse's transparent color, since only the mouse's window has one
(`SetTransparentColor` is called in mouse.cpp:177 alone); the main window is never closed.
The cursor's shape is cut down to one
pixel of each kind (`mouse_cursor_shape`), the desktop to its background.

### Console (ui/console.cpp, logger.cpp)

The rows on the screen and the buffer that redraws them, of which only the screen's form is
kept up to date; `SetWindow` may come at any point of the log.

### Terminal (terminal.cpp)

Keys, by number and shift, through the two tables of keyboard.cpp cut down to the keys the
lines need; history, the window's cells with escape sequences, scrolling and wide characters, and
`ExecuteLine`, which cuts its line in place and calls itself for a pipe's right side. The
volume is a function from names to contents, an application is what it prints and its exit
code; both sides of a pipe run one after the other (their interleaving is in `Pipe`).
`Asked` says the same from the line's parts instead of its text.

### Tedit, Tview, Blocks, Drawing (apps/*, mouse.cpp, syscall.cpp)

`Tedit`: an action for each key, for the dialog's buttons and for saving, which may fail;
the lines, the table of cells and characters (`char_idx`), the caret, scrolling, `edited`.
Files are bytes; those that are not UTF-8 are kept as the code's INVALID_BYTE.  `Tview`:
the part of a line that is copied into a row. `Blocks`: a frame of the game and the keys
between frames. `Drawing`: the messages of `SendMouseMessage`, the loop of paint and the
line of `WinDrawLine`, whose slope is a double: where the exact value is an integer, the
computed one may lie on either side.

### FatNames (fat.cpp, syscall.cpp, terminal.cpp)

A path is what is between its slashes, a name a sequence of characters, a short name has
`BaseLen` and `ExtLen` of them. `FindFile`'s walk with its special cases (an empty element
goes back to the root, a file on the way ends it), `CreateFile`, `SetFileName`, and the
three callers that create or look up.

### AppMemory (newlib_support.c, syscall.cpp, terminal.cpp)

The three ranges of an application's address space that grow at run time. `dpage_end` and
`program_break` are sbrk's own variables, `dpaging_end` and `file_map_end` the kernel's.
malloc may also give memory back, and does not use what it gave back.

### MCStartup, MCPrograms and MCLayers

These three compose components that share no state. A behaviour belongs to one part (`part`),
so that the states of a run are the sum of the parts' states and not their product;
nothing is lost, as no part reads another's variables. Which part is in which of them
only keeps the runs short: `MCStartup` has the start of the machine and the smaller parts,
`MCPrograms` the files, the terminal and the editor, `MCLayers` the layers, a USB device
and the drawing program.

## 4. What is checked

| run | question | bounds, and why they are enough |
|---|---|---|
| `kernel_tasks` | queues, context, dangling pointers, lost wakeups, exit codes in the kernel's use, and round robin within a level | main, idle and three more tasks: a parent, its subtask and a bystander, so that three can share the default level; two messages |
| `task_api` | `StrictPriority` with all levels and Sleep by id | four tasks on three levels: two can share a level while another is above or below |
| `timers` | the task timer is always armed and a ready task of the top level gets the cpu in time (`SwitchesInTime`); the clock keeps its period and the cursor goes on blinking while no application has run (`ChainsKeepOn`); every due timer fires (`TickFiresDue`) | periods of 2 ticks (task timer and clock) and 1 (cursor), 4 ticks: two periods of the clock and of the task timer, in which all three timers are due in the same tick; an application timer of 1 or 3 ticks, one key |
| `pipe` | the pipe is a byte stream; no write to a freed task after end of file and the keys come back (`PipeEndsCleanly`); a pipeline ends | messages of 2 bytes, 3 bytes, writes of up to 3 and reads of up to 2: full and partial messages, a message read in two parts; two pipelines |
| `frames` | only memory is handed out, and frames have one owner while two Allocates do not overlap (`FramesSound`); the search finds the first fit | all memory maps of up to 4 entries in any order over 8 frames, of which the bitmap has 7; two tasks with blocks of 1 or 2 frames |
| `paging` | no shared write, isolation, no loss of frames (`AppsAreApart`) | two terminals, one program with a page of its own, a stack page and a page of either lazy kind; 9 frames: the loaded image takes 3 and a run up to 5 more, so that memory runs out in the second run, but not always; two runs, one after the other from the cache or both at once |
| `ports` | one port is addressed at a time, slots and ports match (`AnswersFindPorts`), phases in order, every supported device gets configured and its reports are read for ever, one read at a time | three ports, one of them unsupported: one is addressed while two wait; every request may fail; one device is plugged in late, one is unplugged |
| `layers` | focus, stack, map and cursor (`FocusIsSound`); a USB device and the drawing program, see the next table | two tasks, six layers: two terminals, or a terminal and two application windows with the clock or a third |
| `startup` | see the next table | see there |
| `programs` | see the next table | see there |
| `frames_race` | finding 1 below | 7 frames, maps of up to 3 entries, two tasks with single frames |
| `layers_race` | finding 2 below | as `layers`, with `Patient = FALSE` |

The parts of `startup`, `programs` and `layers`:

| part | question | bounds, and why they are enough |
|---|---|---|
| `startup`: Loader | `MachineIsHandedOver`: the images are whole and the kernel's memory map is in force and spares them | 6 pages of 2 cells; kernels with 1 or 2 segments with .bss, in either order; volumes of 1 and 3 cells, one shorter than its page; the firmware allocates twice, which is once before and once after the failed `ExitBootServices` |
| Pci | `DevicesAreFound`: each function behind bridges once, Intel's controller first, MSI to the boot processor | three buses, one behind another; 2 devices of 3 functions with gaps in every combination; a table of 5, which overflows |
| Acpi | `TickIsRight`: the wait is as long as asked for, at any start, in either width | counters of 4 and 5 bits, a wait of 6, gaps of up to 3: the end lies before the wrap, after it, or so close that it may be missed |
| HostController | `ControllerIsPrepared` | the real pool of 128 KiB and sizes; pools that start at 4 places of a page; 0, 3 or 29 scratchpads, 29 just fit in; a BIOS that owns the controller, and none |
| Screen | `ScreenIsComposition`: the screen and the clicks agree with the stack | a screen of 2 x 2, the desktop, the mouse, the console's window and two draggable ones of 1 x 2 at places where they overlap each other and the screen's edge, all opened, activated, moved and closed in any order; one of them is drawn in (`DrawnIn`), so that `dirty` places lie above and below others |
| Console | `ShowsTheLog` | 2 rows of 3 columns, 5 messages: it scrolls before and after the change, and rows are cut |
| Rings | `RingsAreFifo`, `AllCompleted`: both rings are FIFOs and nothing gets stuck | rings of 4 and 3 entries, ten commands: more than three laps |
| FatNames | `NamesAreKept`: a name that fits is found again, by itself and as `ls` shows it | short names of 2+1 characters: names that fit, are cut in either half, have two dots; a directory, files as directories, double slashes; 4 entries a directory |
| Tview | `ViewShowsLines` | 5 columns, 4 rows, tabs of 3; every file of up to 6 bytes of letters, tabs and newlines, and files with characters of two and three bytes, some of them cut |
| Blocks | `BallIsBounced` | two blocks of 4 x 4, gaps of 6, a bar of 6: the ball meets every wall, corner and block |
| AppMemory | `HeapIsSound` | pages of 4096, increments of half a page, a page and one and a half: a demand that fits, a rest, a growth into it |
| `programs`: Fat | `FilesSound` (chains, sizes, names); `StoresFiles`: `Fat` implements `FileStore` | four clusters of two bytes, two files of up to 3 bytes, two descriptors: directory and files grow among one another, the volume fills up |
| Tedit | `ViewSound`, `NothingUnsaved` | a window of 4 x 2 with tabs of 3 columns, up to 3 lines of 2 characters: characters that start on odd and even columns, wide ones and tabs at and over the right edge, scrolling to both ends, a byte of no character, the empty line after the last |
| Terminal | `LineIsShown`, `DoesAsAsked` | 9 columns, 2 rows, lines of 7 characters, a history of 2, 10 lines, two of them in a row: the commands echo (of `$?` too), clear, cat and ls, the applications, redirections and pipes; the other built-in commands are not among them (see section 7) |
| `layers`: UsbDevice | `DriversKeepUp`: keys held; serial bytes in order and once, and one owner of each buffer, while no two calls overlap in a ring or in taking bytes | a composite keyboard, a mouse with two pipes, a disk, a hub and a serial line that two terminals use, twice (`MaxUsbCommands`), preempted anywhere; any transfer may fail; rings of 4 TRBs and maps of 2 entries, which wrap and fill up; 3 reports, 3 serial bytes in packets of up to 2. `PastRaces = FALSE`; with TRUE TLC finds no error in 870 786 states of the device |
| Drawing | `StrokesAreConnected` | a canvas of 6 x 4; three reports of the mouse, two of which may wait unread while a stroke is drawn; moves that are flat, steep and diagonal, to every side, across the window's edge and back |

Several properties are conjunctions of parts that belong together: a run states the
conjunction, and each part by itself is broken by one of the "Faulty variant" operators
or is what the rest relies on.

CHECK_DEADLOCK is FALSE where the system may really stop in the model: when boot fails or
all calls have been made (`frames`), when no run is left (`paging`), when all devices
are configured and nothing is plugged (`ports`), after the use of a null pointer (`layers`),
and in `startup`, `programs` and `layers`, whose parts end: the loader halts or starts the kernel,
all commands are completed, an editor or a viewer is left, no report is left to come.

Fairness: the LAPIC timer's interrupt (`TaskManager`, `Timers`, `Pipe`) is periodic and no
code masks it for ever; the main task handles its messages, as it has the highest level
(`PortConfig`, `Rings`); the controller answers each command and control transfer, be it
with a failure. Nothing is assumed of users, of devices that report, of the firmware or of
applications, and no liveness is claimed of them.

Every property has a faulty variant of an operation ("Faulty variant" in the modules) that
violates it: what the property says does depend on the code.

## 5. Findings

1. `Allocate` searches and marks with interrupts enabled; two tasks can get the same frame
   (`frames_race`).
2. A click while a terminal starts puts a null pointer into the stack of layers
   (`layers_race`).

Five more configurations, which are not among the runs of `PROJECT.json`, each show a
property violated; the passing runs leave these cases out by a constant or state their
properties around them.

| configuration | module | property | what TLC shows |
|---|---|---|---|
| `frames_limit` | `MCMemoryManager` | `RangeFitsBitmap` | a memory map entry that crosses the end of the bitmap moves `range_end_` beyond it (memory_manager.cpp:116) |
| `paging_image` | `MCPaging` | `ImageIsReadOnly` | a system call that writes into a page of the load segments changes the image that all later runs start from (paging.cpp:46, CR0.WP is clear) |
| `ports_wait` | `PortConfig` | `WaitersAreServed` | a port that waits for its turn is forgotten when the one before it was unplugged (xhci.cpp:288) |
| `files_mixed` | `Fat` | `ReadsClusters` | a reader that reached the end of a file at the end of a cluster reads outside the volume when the file grows (fat.cpp:318) |
| `layers_drag` | `MCLayers` | `MovesExistingLayers` | a window closed by its application while it is dragged (mouse.cpp:157) |

What the models of the screen, the programs and the files leave out of their properties,
because the code does not provide it:

- names that do not fit 8.3 are cut when they are made and not found again; after a double
  slash a path is searched from the root, but made in the directory (fat.cpp:116);
- a text that is emptied is not written, although the editor takes it as saved, and of one with
  bytes that are not UTF-8 only a part is written (`NothingUnsaved` speaks of non-empty, valid
  texts);
- a PM timer's end just before a wrap may be missed by the polling, and the tick then comes
  out a lap too long (acpi.cpp:81);
- scratchpads are not checked for the end of the pool (xhci.cpp:426);
- `ls> f` and `a| b` have an empty right side, `a > f | b` a file named "f | b"; the text of
  an error at a redirection leaves `last_exit_code_` as it was (terminal.cpp:441).

Further hazards that no property is about, for later work:

- `NewTask` and `Wakeup` are called with interrupts enabled (terminal.cpp:471, main.cpp:157),
  `Draw` walks the stack of layers with interrupts enabled (layer.cpp:92), and `KillApp`
  enables them on the stack of the fault handler (interrupt.cpp:79).
- Whatever reads a task's messages drops the types it does not expect: keys typed during a
  pipe's Read, a close button pressed while a command runs, an application's ReadEvent
  (syscall.cpp:253) the terminal's activations; and a second click on a close button reaches
  the terminal after the application has ended, and finishes the terminal.
- A request to draw waits in the main task's queue while its layer is closed, or comes before
  the layer is on the stack; `Draw` then copies an uninitialised area (layer.cpp:99).
- Nothing answers to a full volume (fat.cpp:199) or to two names that `SetFileName` makes
  equal (fat.cpp:232); `app_loads` is never invalidated (terminal.cpp:223).
- The middle command of a pipe of three has no window, so that terminal.cpp:473 uses a
  `layer_id_` that was never set.
- `CloseWindow` returns value and error exchanged (syscall.cpp:201); a program's output moves
  the cursor but not `linebuf_index_` (terminal.cpp:348).

## 6. What is proved

`TaskManagerProofs` proves, for every `MaxTasks`, `kMaxLevel`, message and exit-code set:

- `TypeCorrect`: `ApiSpec => []TypeOK`;
- `RunQueuesCorrect`: the run queues hold exactly the running tasks, once each, at their
  level, the current queue is never empty, and `level_changed_` is set whenever a queue above
  the current one has a task;
- `CpuCorrect`: the loaded context is that of the front of the current queue;
- `StrictPriorityCorrect`: `ApiSpec` implements `PriorityScheduler`; a wakeup is its `Wake` or
  `SetLevel`, a sleep its `Block` or `Suspend`, the timer's switch its `Preempt`, and
  `Finish` an `Exit`;
- `NoDangling`, `ExitCodeDelivered` and `WakeupsKept` (`NoLostWakeup`): of `Spec`, the
  kernel's use of the class.

None of these is inductive alone.  The invariant `IInv` adds that finished and
not yet created tasks do not run, that the idle task is always ready (so that a queue is
never empty when a task leaves), that a waiter is asleep only while registered, and that
a task waits only for a subtask of its own.  The proof has a lemma per private function
(what it does to queues, levels and flags), then one step per action.  The only
assumptions are those of the module: at least two tasks, at least one level above 0, and
an exit code is not the value that stands for none.

`NoLostWakeup` is not part of `IInv`, since `Sleep(id)` may put any task to sleep and
`ApiSpec` breaks it; it is inductive relative to `IInv` under the steps of `Spec`.

`StorageProofs` proves `FramesAreSound` and `SearchIsFirstFit` for every size of the
bitmap, every memory map and any number of tasks and block sizes.  They assume `EntriesFit`,
that no entry of the memory map crosses the end of the bitmap (128 GiB): the walk puts
`range_end_` behind the array otherwise, which `frames_limit` shows.  The invariant follows
the frames through the steps of a call: what a search has seen is not reserved (`CallOK`),
and, while no two Allocates overlap, a frame whose bit is set is reserved, in one block or
already marked by one call, and what a search found is still free (`Accounts`).  A Free in
between only clears bits, which is why the two properties end at different overlaps:
`FramesSound` survives a Free, first fit (`AloneSkipsNone`) does not.

`StorageProofs` also proves `HeapSound` (`MemSpec => []HeapIsSound`, of `AppMemory`,
which shares no state with `MemoryManager`) for every start of the two ranges, every set of increments, demands and file sizes.  The property is not inductive:
that a growth of the heap without a new demand is sound needs that nothing was demanded
between the break and the end of sbrk's last demand (`DemandedApart`), that the break is
never above that end (`Ends`), and that the parts lie below the break (`HeapBelow`).
The assumption is that of the module: both ranges start at pages, the lower one not above the
other, and increments and demands are positive.

`StorageProofs` also proves `FilesStaySound` (`FatSpec => []FilesSound`) for every size of the
volume, of the clusters and of the directory's part in each, any names and any number of
descriptors.  `Chain` follows a recursive function as far as the table is long; `ChainIs` says
once, by induction, that it returns the one sequence of distinct clusters that are linked
(`IsChain`), and from there on chains are sequences.  What an operation does to the
table is one of two things: a free cluster is linked behind the last one of a chain
(`ChainExtended`) or becomes a chain (`ChainStarted`); either leaves the other chains as they are
and the table `Tidy`.  `SizeFits` is not inductive, since a write sets the size to its own offset
plus its length: `FatInv` adds that a descriptor which has written is at its offset in the
file's chain (`Positioned`), which stays so when others make the chain longer
(`PositionKept`), and that an empty file's size is 0.  `Write` is a loop of its own: the
invariant `Writing` is kept by each byte (`ByteKeeps`) and thus by all (`BytesKeep`).  It has the
writer come to the end of a cluster at most once, which `MaxLen <= BytesPerCluster` makes true:
then `ExtendCluster` is asked for one cluster, whereas a longer write would go on in the last
of several (fat.cpp:349).

`StartupProofs` holds the proofs about parts that `MCStartup` runs together (the rings, the
calibration, the screen and the console), which share no state.  `RingsImplementFifos` is for
every size of the rings: every step of the driver or the controller is a step of one of two
FIFOs, or none.  The invariant describes a
ring by where its producer is: cells before `write_index` are of this lap and have its cycle
bit, cells behind it are of the lap before and have the other (`BufHolds`); the consumer is
in this lap and not ahead, or in the lap before and strictly behind the cell that is being
written (`ControllerIsAt`).  That the driver, which never looks whether the ring is full,
does not get ahead of the controller needs the bound of `RingAssumption` and the event
ring's side: an event not yet handled is about a TRB that is not yet counted as completed
(`EventsOfTRBs`).

`PagingProofs` proves `AppsStayApart` for any number of terminals, files, pages and frames.
A frame is in one place: a root, a table or a page of one page map in use; only a page of an
image is in several, all of them read-only and of the same file (`FramesApart`,
`ImagesApart`).  `NoSharedWrites` alone is not inductive, since a page fault copies a page
because it is read-only; so the invariant says of each place in `ExecuteFile` what the page
map has there (`PageMap`), what a read-only page holds (`ImagesKept`), and which roots still
refer to a frame when one is freed (`SharingOf`).  Most of the proof is one lemma, that a
step below a task's own root changes nothing for the others.

`PortConfigProofs` proves `AnswersFindTheirPorts` and `PhasesInOrder` for any number of ports
and slots.  The answers to Enable Slot do not say which port they are about.  They find it
because at most one such command or answer is on its way (`OneOnItsWay`), it is for the port
that `addressing_port` names, and the phase of that port says which of the two it is
(`AskedForTurn`, `AnsweredInTurn`), whatever is plugged, unplugged or fails meanwhile.

`PipeProofs` proves `PipeIsByteStream` (`PipeSpec` implements `ByteStream`) and
`PipesEndCleanly` for every size of messages, Writes and Reads, any number of tasks and any
number of pipelines.  The task manager's invariant is stated for any set of messages
(`Sound` in `TaskManagerProofs`), so that its lemmas serve here as well.  What `Pipe` adds is
where the bytes are: those returned, those left in `data_`, the message in the reader's hand
and the messages in its queue are one stretch of numbers, cut by messages of other kinds
(`Brings`: before message i of the queue the reader will have `upto[i]` bytes); a message of
no bytes comes only from `FinishWrite` and stands behind all others.  The rest is about who
may send: the keys go to the subtask only between `MoveFocus` and `WaitSubtask`, and the
command writes only to a subtask whose pipe has not ended (`TerminalIsSound`).

`LayersProofs` proves `FocusStaysSound` (`Spec => []FocusIsSound`) and `LayersArePlaced` for any
number of tasks, layers and messages (`MaxLayer` and `MaxMsgs` only bound the guards).  Both
assume `Patient`: without it the first is false, as `layers_race` shows.  The property
speaks of moments when nothing is being moved; the invariant `IInv` has to follow every step
in between.  Its parts, and why each is needed:

- `OneStarts`: one terminal at a time is between creating its window and telling it, so that
  the steps of `Activate` are not mixed with those of another;
- `StackSound`: a layer is in the stack once, the desktop is lowest and the mouse highest,
  except between the two `UpDown`s of `Activate`, where the new active layer is at the very
  bottom; and only layers that are mapped to a task are moved;
- `ActiveSound`, `WindowsSound`, `MapSound`: which step of `Activate` has already set
  `active_layer`, whose window a layer is, and to whom `layer_task_map` sends its keys.  A
  terminal's entry is its own except while an application runs in its pipe, when it is the
  subtask's, and a window of an application is its terminal's;
- `ChildrenSound`: who waits for whom, so that the entry comes back;
- `ClosesSound`: a queued `WindowClose` never names the window of another task, nor the
  desktop, the console or the mouse, so that handling it late closes nothing else;
- `ToldSound`: what a terminal believes of its focus once it has read all its messages
  (`Says`) is what holds now.  This is the part that makes `CursorShowsFocus` inductive:
  messages that wait in the queue are already counted.

The assumptions of these proofs are those of the modules (`RingAssumption`,
`AcpiAssumption`, `ScreenAssumption`, `ConsoleAssumption`, `PagingAssumption`, `PortAssumption`,
`PipeAssumption`, `LayersAssumption`, `TimersAssumption`, `FatAssumption`), which TLC evaluates in every run, and
`EntriesFit` and `Patient`, which the theorems that need them state.

Three more theorems of `StartupProofs` are about what a fold computes.  The
library's induction theorems take an operator as a parameter, which the provers cannot instantiate; but that the numbers
are well-founded has none, so that a set of numbers with 0 and with its members' successors
is all of `Nat` (`InductionOn`), and from that what `FoldLeft` computes is had one element
after the other (`Iterates`).

- `TickStaysRight` (`TickIsRight`): the wait of 100 ms is one lap of the counter at most, its
  end is in the lap `pm_end` was computed for, and the second loop is never a lap behind
  (`InOverflow`, `InUntil`); a wait that is as long as asked gives a tick that is as long, since
  multiplication and `\div` are monotone.
- `ScreenShowsTheLayers` (`ScreenIsComposition`): for any size of the screen, any number of
  windows and any places, partly or wholly outside the screen too.  The invariant
  (`ScreenInv`) says of each place that is not `dirty` that both buffers have there what is
  `Seen`, the pixel of the highest layer that shows there; of the stack, that a layer is in it
  once, between the desktop and the mouse (`Scene`).  The operations draw only from some layer
  upwards and only in some rectangle, so there are two lemmas about what drawing does: what was
  right stays right (`DrawKeeps`), and a place in the rectangle where a drawn layer
  shows gets right (`DrawMakes`).  What is left out of a drawing is justified by
  `SeenWithout`: a layer that does not show at a place is not missed there, wherever it is
  in the stack, which is why moving, activating and closing a window may redraw its own
  rectangles alone.  That an active title is drawn over an inactive one needs that the active
  layer is in the stack, where its deactivation finds it.  A scroll moves its rows one after the other in place and is an
  induction on the rows.
- `ConsoleShowsTheLog` (`ShowsTheLog`): for any size of the console and messages of any text.
  The invariant (`Sound`) says which line logged is in which row, that `buffer_` equals the
  rows although it is written one character at a time and scrolled on its own, and that
  the cursor is at the end of the last line as far as it fits; each character of a message
  keeps it.

`TimersProofs` proves, of the timers on top of the task manager, for every period of the task
timer, frequency of the clock and blinking period, and whatever timers an application makes:

- `SwitchesAreInTime` (`SwitchesInTime`).  That a task has waited less than two periods is not
  inductive: what it waits depends on where it stands when the next switch comes.  `Waits`
  says that what it has waited and the ticks up to the task timer's next timeout are together
  two periods at most, and one if the idle task has the cpu and the task is second in the
  queue, for then the next switch brings it the cpu.  The task timer is armed (`Armed`).
  What a step between two ticks does to the queues is put in one word, `Grown`: the
  task that is second in the queue was second before or has just been woken (`WakeGrows`, `DoneGrows`,
  `SpawnGrows`); a task that goes to sleep is the one with the cpu (`ReceiveKeepsInv`).
- `ChainsGoOn` (`ChainsKeepOn`).  A periodic timer is in the queue of timers, or its message
  is in the task's queue, or the handler is about to arm it again, and exactly one of these
  (`Chain`); wherever it is, the wall clock's timeout is the first one and a number of whole
  periods (`Beats`).
- `TicksFireWhatIsDue` (`TickFiresDue`).  The tick takes timers of one timeout in any order and
  sends one message after the other, so `SentUpTo` says what has been sent after the first i of
  them, and `SentIs` concludes by induction on i.

`TInv` is the task manager's invariant `Sound` with these parts.

Model-checked only:

- what holds under fairness (`RoundRobin`, `PipelineEnds`, `AllPolled`, `AllCompleted`): liveness and ENABLED are beyond the proof system;
- `Pci`, whose scan of bridges is a recursive operator, of which nothing can be proved;
- `StoresFiles`, that `Fat` implements `FileStore`: beyond `FatInv` it
  needs which bytes the clusters hold, where each reader is and what the loop of `ReadFrom`
  returns; and the properties of `FatNames`, `Terminal`, `Tedit`, `Tview`, `HostController`, `Loader` and
  `UsbDevice`, which compare with what recursive definitions and several folds compute
  over names, blocks, segments, lines or characters: each would need its own
  induction;
- `Blocks` and `Drawing`: that the ball is bounced in time depends on how the constants of the
  game (sizes, speed, places of the blocks) relate, and a line without gaps is a path, of any
  length, between its ends.

## 7. What is not modelled

- What two terminals do to a serial line once they were in one ring's `Push`, or took bytes,
  at the same time: `UsbDevice` has the interleavings of the steps named in section 3, but not
  of the words of a TRB nor of the instructions of a deque, and its property claims nothing
  then.  `new` is atomic.
- In `Screen`, that `TaskTerminal` moves its layer before that is in the stack
  (terminal.cpp:994), and that `CloseLayer` reads the position before it disables interrupts.
- Of the built-in commands lspci, lsusb, memstat and date, which only print something, as an
  application may, and reboot and poweroff.  noterm, which starts a terminal without a window,
  is `TaskManager`'s NewTask; usbtest, comproc and setbaud are in `UsbDevice`.
- Races of code that runs with interrupts enabled on the task manager, the timers, the map
  of windows and the file system: these operations are single steps.  The places are listed
  under "hazards" in `PROJECT.json`.
- Stacks, and registers other than "whose context is loaded"; segments and descriptors.
- Glyphs, frames, the text of titles and pixel formats: the screen's pixels are told apart only by who
  drew them, and a title's by whether it is active.  Time stamps of files.
- The applications cube, mandel, gview and more, which compute from their input without a
  state worth a property; the image decoder they use is third-party code.
- The loader's text output, the build and the host tools.
