---------------------------- MODULE MemoryManager ----------------------------
(***************************************************************************)
(* The physical frames (src/kernel/memory_manager.cpp): the walk over the  *)
(* firmware's memory map, the allocations the kernel makes while it boots, *)
(* and Allocate and Free as the tasks call them, with interrupts enabled.  *)
(* A task may be preempted between two accesses to the bitmap; one access  *)
(* is one instruction and hence one step.                                  *)
(***************************************************************************)
EXTENDS Integers, Sequences, FiniteSets, FiniteSetsExt

CONSTANTS
  kFrameCount,    \* bits of the bitmap
  Descriptors,    \* the memory map's entries: [start, pages, type]
  MaxDescriptors, \* bound on the length of the memory map
  BootBlocks,     \* sizes allocated at boot: the heap, the stacks of the TSS
  Tasks,          \* tasks that set up and clean page maps
  Sizes,          \* sizes they ask for
  MaxBlocks       \* bound on the blocks of a task

\* The firmware's types of memory; what only the boot services used is free by now.
MemoryType ==
  {"kEfiReservedMemoryType", "kEfiLoaderCode", "kEfiLoaderData", "kEfiBootServicesCode",
   "kEfiBootServicesData", "kEfiRuntimeServicesCode", "kEfiRuntimeServicesData",
   "kEfiConventionalMemory", "kEfiUnusableMemory", "kEfiACPIReclaimMemory", "kEfiACPIMemoryNVS",
   "kEfiMemoryMappedIO", "kEfiMemoryMappedIOPortSpace", "kEfiPalCode", "kEfiPersistentMemory",
   "kEfiUnacceptedMemoryType"}
IsAvailable(type) == type \in {"kEfiBootServicesCode", "kEfiBootServicesData", "kEfiConventionalMemory"}

Boot == "boot"
Callers == Tasks \cup {Boot}
Frame == 0..kFrameCount - 1

ASSUME MemoryAssumption ==
  /\ kFrameCount \in Nat \ {0}
  /\ Boot \notin Tasks
  /\ Sizes \subseteq Nat \ {0}
  /\ BootBlocks \in Seq(Nat \ {0})
  /\ MaxBlocks \in Nat /\ MaxDescriptors \in Nat
  /\ Descriptors \subseteq [start : Nat, pages : Nat, type : MemoryType]

VARIABLES
  alloc_map, range_begin, range_end, available_end,
  memory,    \* frames of the available entries seen so far
  described, \* frames of all entries seen so far
  entries,   \* entries still to come, at most
  reserved,  \* the frames in use when the walk ended
  phase,     \* what boot has reached
  call,      \* Allocate or Free in progress, by caller
  blocks,    \* the blocks of a caller
  overlapped \* with what an Allocate was in progress at the same time: "free" is a Free
             \* (or its end), "allocate" another Allocate, then or earlier

bootvars == <<range_begin, range_end, available_end, memory, described, entries, reserved>>
vars == <<alloc_map, bootvars, phase, call, blocks, overlapped>>

Idle == [op |-> "none"]
Frames(b) == b.start..b.start + b.n - 1
OwnedBy(t) == UNION {Frames(b) : b \in blocks[t]}

Init ==
  /\ alloc_map = [f \in Frame |-> FALSE]
  /\ range_begin = 0 /\ range_end = kFrameCount
  /\ available_end = 0
  /\ memory = {} /\ described = {}
  /\ entries \in 1..MaxDescriptors
  /\ reserved = {}
  /\ phase = 0
  /\ call = [t \in Callers |-> Idle]
  /\ blocks = [t \in Callers |-> {}]
  /\ overlapped = "none"

GetBit(f) == alloc_map[f]
SetBit(f, allocated) == alloc_map' = [alloc_map EXCEPT ![f] = allocated]
MarkAllocated(fs) == alloc_map' = [f \in Frame |-> alloc_map[f] \/ f \in fs]

-----------------------------------------------------------------------------
(* InitializeMemoryManager                                                 *)

\* Faulty variant: the hole before an entry stays free.
SkipHole(d) ==
  LET end == d.start + d.pages IN
  IF d.start >= kFrameCount THEN UNCHANGED <<alloc_map, available_end>>
  ELSE IF IsAvailable(d.type)
  THEN available_end' = end /\ UNCHANGED alloc_map
  ELSE MarkAllocated(d.start..end - 1) /\ UNCHANGED available_end

\* One entry: the hole before it and a region that is not available are in use.
Describe(d) ==
  LET end  == d.start + d.pages
      hole == available_end..d.start - 1
  IN
  IF d.start >= kFrameCount THEN UNCHANGED <<alloc_map, available_end>>
  ELSE IF IsAvailable(d.type)
  THEN available_end' = end /\ MarkAllocated(hole)
  ELSE MarkAllocated(hole \cup d.start..end - 1) /\ UNCHANGED available_end

\* The firmware describes no frame twice; the entries come in any order.
ReadDescriptor(d) ==
  LET fs == d.start..d.start + d.pages - 1 IN
  /\ phase = 0 /\ entries > 0
  /\ fs \cap described = {}
  /\ described' = described \cup fs
  /\ memory' = IF IsAvailable(d.type) THEN memory \cup fs ELSE memory
  /\ entries' = entries - 1
  /\ Describe(d)
  /\ UNCHANGED <<range_begin, range_end, reserved, phase, call, blocks, overlapped>>

SetMemoryRange ==
  /\ phase = 0 /\ entries = 0
  /\ range_begin' = 1 /\ range_end' = available_end
  /\ reserved' = {f \in Frame : alloc_map[f]}
  /\ phase' = 1
  /\ UNCHANGED <<alloc_map, available_end, memory, described, entries, call, blocks, overlapped>>

-----------------------------------------------------------------------------
(* Allocate and Free                                                       *)

Allocating(t) == call[t].op \in {"scan", "mark"}

Allocate(t, n) ==
  /\ call[t] = Idle
  /\ call' = [call EXCEPT ![t] = [op |-> "scan", start |-> range_begin, i |-> 0, n |-> n]]
  /\ overlapped' = IF \E u \in Callers : Allocating(u) THEN "allocate"
                   ELSE IF overlapped = "none" /\ \E u \in Callers : call[u].op = "free"
                   THEN "free" ELSE overlapped
  /\ UNCHANGED <<alloc_map, bootvars, blocks>>

\* The heap, then the stacks for the interrupts; without them the kernel exits.
BootAllocate ==
  /\ phase \in 1..Len(BootBlocks)
  /\ Allocate(Boot, BootBlocks[phase])
  /\ phase' = phase + 1

BootDone ==
  /\ phase = Len(BootBlocks) + 1 /\ call[Boot] = Idle
  /\ phase' = Len(BootBlocks) + 2
  /\ UNCHANGED <<alloc_map, bootvars, call, blocks, overlapped>>

Booted == phase = Len(BootBlocks) + 2

TaskAllocate(t, n) ==
  /\ Booted /\ Cardinality(blocks[t]) < MaxBlocks
  /\ Allocate(t, n)
  /\ UNCHANGED phase

\* Faulty variant: the search goes on behind the first frame it looked at.
NextStart(c) == [c EXCEPT !.start = @ + 1, !.i = 1]

\* The search goes on behind the frame in use.
SearchOn(c) == [c EXCEPT !.start = @ + c.i + 1, !.i = 0]

\* Faulty variant: only the first frame is looked at.
ScanFirst(t) ==
  LET c == call[t]
      f == c.start + c.i
  IN
  /\ c.op = "scan"
  /\ IF f >= range_end
     THEN call' = [call EXCEPT ![t] = Idle]
     ELSE IF GetBit(f)
     THEN call' = [call EXCEPT ![t] = SearchOn(c)]
     ELSE call' = [call EXCEPT ![t] = [c EXCEPT !.op = "mark", !.i = 0]]
  /\ phase' = IF t = Boot /\ f >= range_end THEN -1 ELSE phase
  /\ UNCHANGED <<alloc_map, bootvars, blocks, overlapped>>

\* One round of the inner loop of Allocate.
Scan(t) ==
  LET c == call[t]
      f == c.start + c.i
  IN
  /\ c.op = "scan"
  /\ IF f >= range_end
     THEN call' = [call EXCEPT ![t] = Idle]
     ELSE IF GetBit(f)
     THEN call' = [call EXCEPT ![t] = SearchOn(c)]
     ELSE IF c.i + 1 < c.n
     THEN call' = [call EXCEPT ![t].i = @ + 1]
     ELSE call' = [call EXCEPT ![t] = [c EXCEPT !.op = "mark", !.i = 0]]
  /\ phase' = IF t = Boot /\ f >= range_end THEN -1 ELSE phase
  /\ UNCHANGED <<alloc_map, bootvars, blocks, overlapped>>

\* Faulty variant: the last frame of a block is not marked.
MarkAllButLast(t) ==
  LET c == call[t] IN
  /\ c.op = "mark"
  /\ IF c.i + 1 < c.n
     THEN /\ call' = [call EXCEPT ![t].i = @ + 1]
          /\ SetBit(c.start + c.i, TRUE)
          /\ UNCHANGED blocks
     ELSE /\ call' = [call EXCEPT ![t] = Idle]
          /\ blocks' = [blocks EXCEPT ![t] = @ \cup {[start |-> c.start, n |-> c.n]}]
          /\ UNCHANGED alloc_map
  /\ UNCHANGED <<bootvars, phase, overlapped>>

\* One round of the loop of MarkAllocated; after the last one Allocate returns.
Mark(t) ==
  LET c == call[t] IN
  /\ c.op = "mark"
  /\ SetBit(c.start + c.i, TRUE)
  /\ IF c.i + 1 < c.n
     THEN call' = [call EXCEPT ![t].i = @ + 1] /\ UNCHANGED blocks
     ELSE /\ call' = [call EXCEPT ![t] = Idle]
          /\ blocks' = [blocks EXCEPT ![t] = @ \cup {[start |-> c.start, n |-> c.n]}]
  /\ UNCHANGED <<bootvars, phase, overlapped>>

\* The owner gives a block up.
Free(t, b) ==
  /\ call[t] = Idle /\ t # Boot /\ b \in blocks[t]
  /\ blocks' = [blocks EXCEPT ![t] = @ \ {b}]
  /\ call' = [call EXCEPT ![t] = [op |-> "free", start |-> b.start, i |-> 0, n |-> b.n]]
  /\ overlapped' = IF overlapped = "none" /\ \E u \in Callers : Allocating(u) THEN "free" ELSE overlapped
  /\ UNCHANGED <<alloc_map, bootvars, phase>>

\* One round of the loop of Free.
Clear(t) ==
  LET c == call[t] IN
  /\ c.op = "free"
  /\ SetBit(c.start + c.i, FALSE)
  /\ call' = [call EXCEPT ![t] = IF c.i + 1 < c.n THEN [c EXCEPT !.i = @ + 1] ELSE Idle]
  /\ UNCHANGED <<bootvars, phase, blocks, overlapped>>

Next ==
  \/ \E d \in Descriptors : ReadDescriptor(d)
  \/ SetMemoryRange \/ BootAllocate \/ BootDone
  \/ \E t \in Tasks, n \in Sizes : TaskAllocate(t, n)
  \/ \E t \in Callers : Scan(t) \/ Mark(t) \/ Clear(t)
  \/ \E t \in Tasks : \E b \in blocks[t] : Free(t, b)

Spec == Init /\ [][Next]_vars

-----------------------------------------------------------------------------
(* Properties *)

TypeOK ==
  /\ alloc_map \in [Frame -> BOOLEAN]
  /\ phase \in -1..Len(BootBlocks) + 2
  /\ \A t \in Callers :
       /\ call[t].op \in {"none", "scan", "mark", "free"}
       /\ Allocating(t) => call[t].i < call[t].n
       /\ call[t].op = "mark" => call[t].start + call[t].n <= range_end
       /\ \A b \in blocks[t] : b.start \in Frame /\ b.start + b.n <= range_end

\* What Allocate promises: the lowest n free frames in a row, or no block.
FirstFit(n) ==
  LET fits == {s \in range_begin..range_end - n : \A f \in s..s + n - 1 : ~alloc_map[f]}
  IN  IF fits = {} THEN {} ELSE {[start |-> Min(fits), n |-> n]}

\* When no other task comes in between, the search that skips behind every frame in
\* use misses no block, takes the first, and reports failure only when there is none.
FindsFirstFit ==
  [][\A t \in Callers :
       overlapped = "none" /\ call[t].op = "scan" /\ call[t]'.op # "scan" =>
         FirstFit(call[t].n) =
           IF call[t]'.op = "mark" THEN {[start |-> call[t]'.start, n |-> call[t]'.n]} ELSE {}]_vars

\* Nobody ever gets a frame that is not memory: a hole of the memory map, a region
\* the firmware keeps, or frame 0, in whatever order the entries come.
OnlyMemory ==
  \A t \in Callers : \A b \in blocks[t] : Frames(b) \subseteq memory \ {0}

\* As long as no two Allocates were in progress at once, no frame has two owners,
\* and the bitmap is right about every frame once the calls have returned: Free
\* may come at any point of another task's Allocate.
FramesAccounted ==
  overlapped # "allocate" =>
    /\ \A t, u \in Callers : \A b \in blocks[t], c \in blocks[u] :
         Frames(b) \cap Frames(c) # {} => t = u /\ b = c
    /\ phase > 0 /\ (\A t \in Callers : call[t] = Idle) =>
         {f \in Frame : alloc_map[f]} = reserved \cup UNION {OwnedBy(t) : t \in Callers}

\* The bitmap and the owners agree, and both with the memory map.
FramesSound == OnlyMemory /\ FramesAccounted

\* memory_manager.hpp:53 says of a bit that 0 means the frame is free and 1 that it
\* is in use: a frame somebody owns has its bit set.
ZeroMeansFree == \A t \in Callers : \A f \in OwnedBy(t) : alloc_map[f]

\* memory_manager.hpp:59 names the memory the class can handle at most: frames are
\* never handed out beyond it.
RangeFitsBitmap == phase > 0 => range_end <= kFrameCount

=============================================================================
