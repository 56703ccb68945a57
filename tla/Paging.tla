------------------------------- MODULE Paging -------------------------------
(***************************************************************************)
(* The address spaces of applications (src/kernel/paging.cpp, LoadApp and  *)
(* ExecuteFile in src/kernel/terminal.cpp): an application is loaded once, *)
(* read-only, and every run of it copies the page maps and then each page  *)
(* it writes to.  Terminals run in their own tasks and are preempted       *)
(* anywhere; a page fault is handled with interrupts disabled.             *)
(*                                                                         *)
(* A page map of 4 levels is abstracted to a root with one table of all    *)
(* the pages of an application.  A frame is taken in one step: the race    *)
(* inside Allocate is MemoryManager's.                                     *)
(***************************************************************************)
EXTENDS Integers, FiniteSets, FiniteSetsExt

CONSTANTS
  Tasks,     \* terminals
  Programs,  \* ELF files
  Others,    \* files that are no ELF executables
  Image,     \* pages of the load segments
  MaxFrames, \* frames the memory manager has
  MaxRuns,   \* bound on the ExecuteFile calls
  Written,   \* bound on the pages applications and system calls write to
  LazyBytes  \* bound on what applications add: "zero" pages, pages of a "file"

Stack == "stack"  \* the pages of the arguments and of the stack
Lazy == "lazy"    \* a page DemandPages or MapFile adds
Page == Image \cup {Stack, Lazy}
Frame == 1..MaxFrames
Kernel == 0         \* the page map of the kernel itself, pml4_table
None == -1
Files == Programs \cup Others

ASSUME PagingAssumption ==
  /\ MaxFrames \in Nat /\ MaxRuns \in Nat
  /\ Image \cap {Stack, Lazy} = {}
  /\ Programs \cap Others = {}

VARIABLES
  allocated, \* frames in use
  table,     \* the table a root points to, or None
  entry,     \* entry[r][p]: the page p below the root r
  content,   \* what a page frame holds
  app_loads, \* the root of the loaded image of a file, or None
  cr3,       \* the root of a task
  pc, file, src, todo, \* a task's place in ExecuteFile and its local variables
  lazy,      \* what Lazy holds at first, or "none": DPagingEnd and FileMaps of a task
  view,      \* what a task has last written to a page, or has found there
  runs,
  wasted,    \* a LoadApp or ExecuteFile failed, or loaded a file already loaded
  clobbered  \* files whose image the kernel has written to

locals == <<pc, file, src, todo>>
vars == <<allocated, table, entry, content, app_loads, cr3, locals, lazy, view, runs,
          wasted, clobbered>>

Absent == [frame |-> None, writable |-> FALSE]
Initial(p) == IF p \in Image THEN "image" ELSE "zero"

Init ==
  /\ allocated = {}
  /\ table = [f \in Frame |-> None]
  /\ entry = [f \in Frame |-> [p \in Page |-> Absent]]
  /\ content = [f \in Frame |-> "zero"]
  /\ app_loads = [a \in Files |-> None]
  /\ cr3 = [t \in Tasks |-> Kernel]
  /\ pc = [t \in Tasks |-> "prompt"]
  /\ file \in [Tasks -> {CHOOSE a \in Files : TRUE}]
  /\ src = [t \in Tasks |-> None]
  /\ todo = [t \in Tasks |-> {}]
  /\ lazy = [t \in Tasks |-> "none"]
  /\ view = [t \in Tasks |-> [p \in Page |-> Initial(p)]]
  /\ runs = 0 /\ wasted = FALSE /\ clobbered = {}

At(t, s) == pc[t] = s
Goto(t, s) == pc' = [pc EXCEPT ![t] = s]
Halted == \E t \in Tasks : pc[t] = "halt"

Full == allocated = Frame
NewFrame == Min(Frame \ allocated)
Present(r, p) == entry[r][p] # Absent

\* The call failed: ExecuteFile returns at once and keeps cr3 as it is.
Fail(t) ==
  /\ Goto(t, "prompt")
  /\ wasted' = TRUE
  /\ UNCHANGED <<allocated, table, entry, content>>

-----------------------------------------------------------------------------
(* LoadApp                                                                 *)

\* The user types a command.
ExecuteFile(t, a) ==
  /\ At(t, "prompt") /\ runs < MaxRuns /\ runs' = runs + 1
  /\ file' = [file EXCEPT ![t] = a]
  /\ Goto(t, "pml4")
  /\ UNCHANGED <<allocated, table, entry, content, app_loads, cr3, src, todo, lazy, view,
                 wasted, clobbered>>

\* A new root with the kernel's half of the current one.
SetupPML4(t, next) ==
  /\ IF Full THEN Fail(t) /\ UNCHANGED cr3
     ELSE /\ allocated' = allocated \cup {NewFrame}
          /\ table' = [table EXCEPT ![NewFrame] = None]
          /\ entry' = [entry EXCEPT ![NewFrame] = [p \in Page |-> Absent]]
          /\ cr3' = [cr3 EXCEPT ![t] = NewFrame]
          /\ Goto(t, next)
          /\ UNCHANGED <<content, wasted>>

FirstPML4(t) ==
  /\ At(t, "pml4") /\ SetupPML4(t, "find")
  /\ UNCHANGED <<app_loads, file, src, todo, lazy, view, runs, clobbered>>

\* LoadELF's look at the header.
IsExecutable(a) == a \in Programs

\* Look the file up in app_loads, or read it and check its header.
FindLoaded(t) ==
  LET master == app_loads[file[t]] IN
  /\ At(t, "find")
  /\ IF master # None
     THEN /\ src' = [src EXCEPT ![t] = master]
          /\ Goto(t, "copy") /\ UNCHANGED <<todo, wasted>>
     ELSE IF IsExecutable(file[t])
     THEN Goto(t, "load") /\ todo' = [todo EXCEPT ![t] = Image] /\ UNCHANGED <<src, wasted>>
     ELSE Goto(t, "prompt") /\ wasted' = TRUE /\ UNCHANGED <<src, todo>>
  /\ UNCHANGED <<allocated, table, entry, content, app_loads, cr3, file, lazy, view, runs,
                 clobbered>>

\* SetupPageMap for one page below r: first the table, then the page's own frame.
SetupPage(r, p, writable, bytes) ==
  IF table[r] = None
  THEN /\ table' = [table EXCEPT ![r] = NewFrame]
       /\ UNCHANGED <<entry, content>>
  ELSE /\ entry' = [entry EXCEPT ![r][p] = [frame |-> NewFrame, writable |-> writable]]
       /\ content' = [content EXCEPT ![NewFrame] = bytes]
       /\ UNCHANGED table

\* CopyLoadSegments, one frame at a time.
CopyLoadSegments(t) ==
  /\ At(t, "load") /\ todo[t] # {}
  /\ IF Full THEN Fail(t) /\ UNCHANGED todo
     ELSE LET p == CHOOSE q \in todo[t] : TRUE IN
          /\ allocated' = allocated \cup {NewFrame}
          /\ SetupPage(cr3[t], p, FALSE, "image")
          /\ todo' = [todo EXCEPT ![t] = IF table[cr3[t]] = None THEN @ ELSE @ \ {p}]
          /\ UNCHANGED <<pc, wasted>>
  /\ UNCHANGED <<app_loads, cr3, file, src, lazy, view, runs, clobbered>>

\* app_loads->insert keeps what another terminal has put there meanwhile.
InsertLoaded(t) ==
  /\ At(t, "load") /\ todo[t] = {}
  /\ IF app_loads[file[t]] = None
     THEN app_loads' = [app_loads EXCEPT ![file[t]] = cr3[t]] /\ UNCHANGED wasted
     ELSE wasted' = TRUE /\ UNCHANGED app_loads
  /\ src' = [src EXCEPT ![t] = cr3[t]]
  /\ Goto(t, "pml4again")
  /\ UNCHANGED <<allocated, table, entry, content, cr3, file, todo, lazy, view, runs, clobbered>>

SecondPML4(t) ==
  /\ At(t, "pml4again") /\ SetupPML4(t, "copy")
  /\ UNCHANGED <<app_loads, file, src, todo, lazy, view, runs, clobbered>>

\* Faulty variant: the copy may write to the frames it shares.
SharedWritable(r) ==
  [p \in Page |-> [entry[r][p] EXCEPT !.writable = entry[r][p] # Absent]]

\* The entries below the root, none of them writable.
ReadOnly(r) == [p \in Page |-> [entry[r][p] EXCEPT !.writable = FALSE]]

\* CopyPageMaps: a table of one's own with the pages of the image.
CopyPageMaps(t) ==
  /\ At(t, "copy")
  /\ IF Full THEN Fail(t) /\ UNCHANGED todo
     ELSE /\ allocated' = allocated \cup {NewFrame}
          /\ table' = [table EXCEPT ![cr3[t]] = NewFrame]
          /\ entry' = [entry EXCEPT ![cr3[t]] = ReadOnly(src[t])]
          /\ todo' = [todo EXCEPT ![t] = {Stack}]
          /\ Goto(t, "setup")
          /\ UNCHANGED <<content, wasted>>
  /\ UNCHANGED <<app_loads, cr3, file, src, lazy, view, runs, clobbered>>

-----------------------------------------------------------------------------
(* ExecuteFile                                                             *)

\* The frames of the arguments and the stack.
SetupStack(t) ==
  /\ At(t, "setup") /\ todo[t] # {}
  /\ IF Full THEN Fail(t) /\ UNCHANGED todo
     ELSE /\ allocated' = allocated \cup {NewFrame}
          /\ SetupPage(cr3[t], Stack, TRUE, "zero")
          /\ todo' = [todo EXCEPT ![t] = {}]
          /\ UNCHANGED <<pc, wasted>>
  /\ UNCHANGED <<app_loads, cr3, file, src, lazy, view, runs, clobbered>>

\* MakeArgVector finds no room for the arguments.
BadArguments(t) ==
  /\ At(t, "setup") /\ todo[t] = {}
  /\ Fail(t)
  /\ UNCHANGED <<app_loads, cr3, file, src, todo, lazy, view, runs, clobbered>>

CallApp(t) ==
  /\ At(t, "setup") /\ todo[t] = {}
  /\ Goto(t, "app")
  /\ lazy' = [lazy EXCEPT ![t] = "none"]
  /\ view' = [view EXCEPT ![t] = [p \in Page |-> Initial(p)]]
  /\ UNCHANGED <<allocated, table, entry, content, app_loads, cr3, file, src, todo, runs,
                 wasted, clobbered>>

\* The system calls DemandPages (the page is cleared) and MapFile (it is read).
Extend(t) ==
  /\ At(t, "app") /\ lazy[t] = "none"
  /\ \E bytes \in LazyBytes :
       /\ lazy' = [lazy EXCEPT ![t] = bytes]
       /\ view' = [view EXCEPT ![t][Lazy] = bytes]
  /\ UNCHANGED <<allocated, table, entry, content, app_loads, cr3, locals, runs, wasted,
                 clobbered>>

\* The application writes to a page its page map lets it write to.
UserWrite(t, p) ==
  LET e == entry[cr3[t]][p] IN
  /\ At(t, "app") /\ p \in Written /\ e.writable
  /\ content' = [content EXCEPT ![e.frame] = t]
  /\ view' = [view EXCEPT ![t][p] = t]
  /\ UNCHANGED <<allocated, table, entry, app_loads, cr3, locals, lazy, runs, wasted, clobbered>>

\* A system call writes into a buffer of the application (ReadFile): CR0.WP is clear,
\* and a page map's writable bit does not stop the kernel.
KernelWrite(t, p) ==
  LET e == entry[cr3[t]][p] IN
  /\ At(t, "app") /\ p \in Written /\ e # Absent
  /\ content' = [content EXCEPT ![e.frame] = t]
  /\ view' = [view EXCEPT ![t][p] = t]
  /\ clobbered' = IF e.writable THEN clobbered ELSE clobbered \cup {file[t]}
  /\ UNCHANGED <<allocated, table, entry, app_loads, cr3, locals, lazy, runs, wasted>>

\* KillApp: ExitApp, but only for the application's own fault; a fault of the kernel
\* stops the machine.
KillApp(t, user) == Goto(t, IF user THEN "clean" ELSE "halt")

\* Faulty variant: the new page is not copied.
EmptyPage(r, p) ==
  /\ allocated' = allocated \cup {NewFrame}
  /\ entry' = [entry EXCEPT ![r][p] = [frame |-> NewFrame, writable |-> TRUE]]
  /\ UNCHANGED content

\* CopyOnePage: a page of one's own with what the shared one holds.
CopyOnePage(r, p) ==
  /\ allocated' = allocated \cup {NewFrame}
  /\ content' = [content EXCEPT ![NewFrame] = content[entry[r][p].frame]]
  /\ entry' = [entry EXCEPT ![r][p] = [frame |-> NewFrame, writable |-> TRUE]]

\* A page that DPagingEnd or a mapping (FindFileMapping) covers: SetupPageMaps for a demanded
\* one, PreparePageCache for one of a file.
PreparePage(r, p, bytes) ==
  /\ allocated' = allocated \cup {NewFrame}
  /\ entry' = [entry EXCEPT ![r][p] = [frame |-> NewFrame, writable |-> TRUE]]
  /\ content' = [content EXCEPT ![NewFrame] = bytes]

\* HandlePageFault: the application writes to a page it shares, or it or a system
\* call touches a page that is not there yet.
PageFault(t, p, user) ==
  LET r == cr3[t] IN
  /\ At(t, "app")
  /\ IF Present(r, p)
     THEN /\ user /\ ~entry[r][p].writable
          /\ IF Full THEN KillApp(t, user) /\ UNCHANGED <<allocated, entry, content>>
             ELSE CopyOnePage(r, p) /\ UNCHANGED pc
     ELSE IF p = Lazy /\ lazy[t] # "none" /\ ~Full
     THEN PreparePage(r, p, lazy[t]) /\ UNCHANGED pc
     ELSE KillApp(t, user) /\ UNCHANGED <<allocated, entry, content>>
  /\ UNCHANGED <<table, app_loads, cr3, file, src, todo, lazy, view, runs, wasted, clobbered>>

\* Any other exception (a division by zero, an invalid opcode, general protection).
Fault(t) ==
  /\ At(t, "app")
  /\ \E user \in BOOLEAN : KillApp(t, user)
  /\ UNCHANGED <<allocated, table, entry, content, app_loads, cr3, file, src, todo, lazy, view,
                 runs, wasted, clobbered>>

\* The application ends.
ExitApp(t) ==
  /\ At(t, "app") /\ Goto(t, "clean")
  /\ UNCHANGED <<allocated, table, entry, content, app_loads, cr3, file, src, todo, lazy, view,
                 runs, wasted, clobbered>>

\* NewPageMap clears a frame, so what a free frame holds does not matter.
Cleared(f) == content' = [content EXCEPT ![f] = "zero"]

\* CleanPageMap: every writable page is the task's own, then the table itself.
CleanPageMaps(t) ==
  LET r == cr3[t] IN
  /\ At(t, "clean")
  /\ IF \E p \in Page : Present(r, p)
     THEN LET p == CHOOSE q \in Page : Present(r, q)
              e == entry[r][p]
          IN
          /\ allocated' = IF e.writable THEN allocated \ {e.frame} ELSE allocated
          /\ entry' = [entry EXCEPT ![r][p] = Absent]
          /\ IF e.writable THEN Cleared(e.frame) ELSE UNCHANGED content
          /\ UNCHANGED <<table, pc>>
     ELSE /\ allocated' = allocated \ {table[r]}
          /\ table' = [table EXCEPT ![r] = None]
          /\ Goto(t, "free") /\ UNCHANGED <<entry, content>>
  /\ UNCHANGED <<app_loads, cr3, file, src, todo, lazy, view, runs, wasted, clobbered>>

\* Faulty variant: the root stays allocated.
KeepPML4(t) ==
  /\ At(t, "free")
  /\ cr3' = [cr3 EXCEPT ![t] = Kernel]
  /\ Goto(t, "prompt")
  /\ UNCHANGED <<allocated, table, entry, content, app_loads, file, src, todo, lazy, view, runs,
                 wasted, clobbered>>

FreePML4(t) ==
  /\ At(t, "free")
  /\ allocated' = allocated \ {cr3[t]}
  /\ cr3' = [cr3 EXCEPT ![t] = Kernel]
  /\ Goto(t, "prompt")
  /\ UNCHANGED <<table, entry, content, app_loads, file, src, todo, lazy, view, runs,
                 wasted, clobbered>>

Step(t) ==
  \/ \E a \in Files : ExecuteFile(t, a)
  \/ FirstPML4(t) \/ FindLoaded(t) \/ CopyLoadSegments(t) \/ InsertLoaded(t) \/ SecondPML4(t)
  \/ CopyPageMaps(t) \/ SetupStack(t) \/ BadArguments(t) \/ CallApp(t) \/ Extend(t) \/ Fault(t) \/ ExitApp(t)
  \/ CleanPageMaps(t) \/ FreePML4(t)
  \/ \E p \in Page : \/ UserWrite(t, p) \/ KernelWrite(t, p)
                     \/ \E user \in BOOLEAN : PageFault(t, p, user)

Next == ~Halted /\ \E t \in Tasks : Step(t)

Spec == Init /\ [][Next]_vars

-----------------------------------------------------------------------------
(* Properties *)

Live == ({cr3[t] : t \in Tasks} \cup {app_loads[a] : a \in Files}
          \cup {src[t] : t \in {u \in Tasks : pc[u] \in {"pml4again", "copy"}}}) \ {Kernel, None}
Own(r) == ({r, table[r]} \cup {entry[r][p].frame : p \in {q \in Page : entry[r][q].writable}}) \ {None}
Reachable(r) == Own(r) \cup ({entry[r][p].frame : p \in Page} \ {None})

\* No page map in use leads to a frame that was freed, and what a page map may write
\* to belongs to it alone: the pages that are freed with it are no one else's.
NoSharedWrites ==
  \A r \in Live :
    /\ Reachable(r) \subseteq allocated
    /\ \A s \in Live \ {r} : Own(r) \cap Reachable(s) = {}

\* An application finds in its memory what it wrote there or what its file holds, and
\* never what another run of the same file wrote, unless a system call wrote into
\* the shared image.
Isolated ==
  \A t \in Tasks : pc[t] = "app" /\ file[t] \notin clobbered =>
    \A p \in Page : Present(cr3[t], p) => content[entry[cr3[t]][p].frame] = view[t][p]

\* No frame is lost, as long as every application could be loaded and none was loaded
\* twice at the same time: all that is allocated is reachable.
NoFrameLost == ~wasted => allocated = UNION {Reachable(r) : r \in Live}

\* Applications that share the image's pages until they write are as apart as if each had
\* its own, and give back what they took.
AppsAreApart == NoSharedWrites /\ Isolated /\ NoFrameLost

\* terminal.cpp:108 calls the page maps of the load segments read-only: the image kept
\* in app_loads always holds what is in the file.
ImageIsReadOnly ==
  \A a \in Files : app_loads[a] # None =>
    \A p \in Image : content[entry[app_loads[a]][p].frame] = "image"

=============================================================================
