----------------------------- MODULE StorageProofs -----------------------------
(***************************************************************************)
(* Storage. Memory: FramesSound and FindsFirstFit for every size of the    *)
(* bitmap, every memory map whose entries end where the bitmap does or     *)
(* before, and any number of tasks; and HeapIsSound, of the addresses an   *)
(* application gets, for every layout, increment, demand and mapping.      *)
(* Files: FilesSound for every size of the volume and its clusters, any    *)
(* names and any number of descriptors.                                    *)
(***************************************************************************)
EXTENDS MemoryManager, AppMemory, Fat, FiniteSetTheorems, SequenceTheorems, WellFoundedInduction, TLAPS

\* No entry crosses the end of the bitmap (128 GiB in the code). With one that does, the
\* range ends behind the bitmap, which frames_limit.cfg shows.
EntriesFit == \A d \in Descriptors : d.start < kFrameCount => d.start + d.pages <= kFrameCount

Calls == {Idle} \cup [op : {"scan", "mark", "free"}, start : Nat, i : Nat, n : Nat]
BlockSet == [start : Nat, n : Nat]

\* The walk over the memory map: what is free below the end seen so far is memory, and so
\* is what is in no use below the end of the range once the walk is over.
WalkOK ==
  /\ alloc_map \in [Frame -> BOOLEAN]
  /\ range_begin \in Nat /\ range_end \in Nat /\ available_end \in Nat /\ available_end <= kFrameCount
  /\ phase \in -1..Len(BootBlocks) + 2
  /\ overlapped \in {"none", "free", "allocate"}
  /\ phase = 0 =>
       /\ \A f \in Frame : f < available_end /\ ~alloc_map[f] => f \in memory
       /\ \A t \in Callers : call[t] = Idle /\ blocks[t] = {}
  /\ phase # 0 =>
       /\ range_begin = 1 /\ range_end <= kFrameCount /\ reserved \subseteq Frame
       /\ \A f \in Frame : f < range_end /\ f \notin reserved => f \in memory

\* Frames that no call may touch stay in use.
ReservedStay == phase # 0 => \A f \in reserved : alloc_map[f]

\* A search has seen only frames it may take; what is marked, given back or owned was found by one.
CallOK(c) ==
  /\ c.i < c.n /\ 1 <= c.start
  /\ c.op = "scan" =>
       /\ c.i > 0 => c.start + c.i <= range_end
       /\ \A f \in Frame : c.start <= f /\ f < c.start + c.i => f \notin reserved
  /\ c.op # "scan" =>
       /\ c.start + c.n <= range_end
       /\ \A f \in Frame : c.start <= f /\ f < c.start + c.n => f \notin reserved
CallsOK ==
  /\ call \in [Callers -> Calls]
  /\ \A t \in Callers : call[t] # Idle => CallOK(call[t])

BlocksOK ==
  /\ blocks \in [Callers -> SUBSET BlockSet]
  /\ \A t \in Callers : \A b \in blocks[t] :
       /\ 0 < b.n /\ 1 <= b.start /\ b.start + b.n <= range_end
       /\ \A f \in Frame : b.start <= f /\ f < b.start + b.n => f \notin reserved

\* Frames that a call has in use: those marked so far, those not yet given back.
Busy(c, f) ==
  \/ c.op = "mark" /\ c.start <= f /\ f < c.start + c.i
  \/ c.op = "free" /\ c.start + c.i <= f /\ f < c.start + c.n
\* Frames that a call found free and goes on from: it has looked at them, or will mark them.
Found(c, f) ==
  \/ c.op = "scan" /\ c.start <= f /\ f < c.start + c.i
  \/ c.op = "mark" /\ c.start + c.i <= f /\ f < c.start + c.n
InBlock(b, f) == b.start <= f /\ f < b.start + b.n

\* Without two Allocates at once, every frame in use is used by one: the kernel or the
\* firmware, a block or a call; and what a search found free still is.
OneAllocates == \A t, u \in Callers : Allocating(t) /\ Allocating(u) => t = u
BlocksApart ==
  \A t, u \in Callers : \A b \in blocks[t], c \in blocks[u] : \A f \in Frame :
    InBlock(b, f) /\ InBlock(c, f) => t = u /\ b = c
BusyApart ==
  \A t, u \in Callers : \A f \in Frame : Busy(call[u], f) =>
    /\ \A b \in blocks[t] : ~InBlock(b, f)
    /\ Busy(call[t], f) => t = u
UsedIsMarked ==
  \A t \in Callers : \A f \in Frame :
    Busy(call[t], f) \/ (\E b \in blocks[t] : InBlock(b, f)) => alloc_map[f]
MarkedIsUsed ==
  phase # 0 => \A f \in Frame : alloc_map[f] =>
    f \in reserved \/ \E t \in Callers : Busy(call[t], f) \/ \E b \in blocks[t] : InBlock(b, f)
FoundIsFree == \A t \in Callers : \A f \in Frame : Found(call[t], f) => ~alloc_map[f]
Accounts ==
  overlapped # "allocate" =>
    OneAllocates /\ BlocksApart /\ BusyApart /\ UsedIsMarked /\ MarkedIsUsed /\ FoundIsFree

\* Alone, a search has skipped no block: every one that starts before the search has a frame in use.
SkipsNone(c) ==
  /\ range_begin <= c.start
  /\ c.op = "scan" =>
       \A s \in range_begin..range_end - c.n : s < c.start => \E f \in s..s + c.n - 1 : alloc_map[f]
AloneSkipsNone ==
  overlapped = "none" => \A t \in Callers : Allocating(t) =>
    /\ \A u \in Callers : u # t => call[u] = Idle
    /\ SkipsNone(call[t])

Safe == WalkOK /\ ReservedStay /\ CallsOK /\ BlocksOK
IInv == Safe /\ Accounts /\ AloneSkipsNone

-----------------------------------------------------------------------------
\* A call is idle exactly when it has no operation.
LEMMA CallKinds ==
  ASSUME CallsOK, NEW t \in Callers
  PROVE  \/ call[t] = Idle /\ call[t].op = "none"
         \/ /\ call[t] # Idle
            /\ call[t] = [op |-> call[t].op, start |-> call[t].start, i |-> call[t].i, n |-> call[t].n]
            /\ call[t].op \in {"scan", "mark", "free"}
            /\ call[t].start \in Nat /\ call[t].i \in Nat /\ call[t].n \in Nat
<1>1. call[t] \in Calls
  BY DEF CallsOK
<1>2. CASE call[t] = Idle
  BY <1>2 DEF Idle
<1>3. CASE call[t] \in [op : {"scan", "mark", "free"}, start : Nat, i : Nat, n : Nat]
  BY <1>3 DEF Idle
<1> QED
  BY <1>1, <1>2, <1>3 DEF Calls

\* The first state has the invariant.
LEMMA InitIsSound == Init => IInv
<1> SUFFICES ASSUME Init PROVE IInv
  OBVIOUS
<1> USE DEF Init
<1>1. Len(BootBlocks) \in Nat
  BY MemoryAssumption
<1>2. \A t \in Callers : call[t] = Idle /\ blocks[t] = {} /\ call[t].op = "none"
  BY DEF Idle
<1>3. WalkOK
  BY <1>1, <1>2, MemoryAssumption DEF WalkOK, Frame
<1>4. ReservedStay /\ CallsOK /\ BlocksOK
  BY <1>2 DEF ReservedStay, CallsOK, BlocksOK, Calls
<1>5. Accounts
  BY <1>2 DEF Accounts, OneAllocates, BlocksApart, BusyApart, UsedIsMarked, MarkedIsUsed,
              FoundIsFree, Busy, Found, Allocating
<1>6. AloneSkipsNone
  BY <1>2 DEF AloneSkipsNone, Allocating
<1> QED
  BY <1>3, <1>4, <1>5, <1>6 DEF IInv, Safe

\* Blocks lie in the range, and what the range holds besides the reserved frames is memory.
LEMMA SafeIsOnlyMemory == Safe => OnlyMemory
<1> SUFFICES ASSUME Safe, NEW t \in Callers, NEW b \in blocks[t], NEW f \in Frames(b)
             PROVE  f \in memory \ {0}
  BY DEF OnlyMemory
<1>1. b.start \in Nat /\ b.n \in Nat
  BY DEF Safe, BlocksOK, BlockSet
<1>2. b.start <= f /\ f < b.start + b.n /\ f \in Nat
  BY <1>1 DEF Frames
<1>3. phase # 0
  BY DEF Safe, WalkOK
<1>4. 1 <= f /\ f < range_end /\ range_end <= kFrameCount /\ range_end \in Nat
  BY <1>1, <1>2, <1>3 DEF Safe, WalkOK, BlocksOK
<1>5. f \in Frame
  BY <1>2, <1>4, MemoryAssumption DEF Frame
<1>6. f \notin reserved
  BY <1>2, <1>5 DEF Safe, BlocksOK
<1> QED
  BY <1>3, <1>4, <1>5, <1>6 DEF Safe, WalkOK

\* The invariant implies the property.
LEMMA InvariantIsSound == IInv => FramesSound
<1> SUFFICES ASSUME IInv PROVE FramesSound
  OBVIOUS
<1>1. OnlyMemory
  BY SafeIsOnlyMemory DEF IInv
<1>2. \A t \in Callers : \A b \in blocks[t] : \A f : f \in Frames(b) <=> f \in Frame /\ InBlock(b, f)
  <2> TAKE t \in Callers
  <2> TAKE b \in blocks[t]
  <2> TAKE f
  <2>1. phase # 0
    BY DEF IInv, Safe, WalkOK
  <2>2. b.start \in Nat /\ b.n \in Nat /\ b.start + b.n <= kFrameCount
    BY <2>1, MemoryAssumption DEF IInv, Safe, WalkOK, BlocksOK, BlockSet
  <2> QED
    BY <2>2, MemoryAssumption DEF Frames, InBlock, Frame
<1>3. ASSUME overlapped # "allocate"
      PROVE  \A t, u \in Callers : \A b \in blocks[t], c \in blocks[u] :
               Frames(b) \cap Frames(c) # {} => t = u /\ b = c
  <2> SUFFICES ASSUME NEW t \in Callers, NEW u \in Callers, NEW b \in blocks[t], NEW c \in blocks[u],
                      NEW f \in Frames(b) \cap Frames(c)
               PROVE  t = u /\ b = c
    OBVIOUS
  <2> QED
    BY <1>2, <1>3 DEF IInv, Accounts, BlocksApart
<1>4. ASSUME overlapped # "allocate", phase > 0, \A t \in Callers : call[t] = Idle
      PROVE  {f \in Frame : alloc_map[f]} = reserved \cup UNION {OwnedBy(t) : t \in Callers}
  <2>1. phase # 0
    BY <1>4
  <2>2. \A t \in Callers : \A f : ~Busy(call[t], f)
    BY <1>4 DEF Busy, Idle
  <2>3. \A f \in Frame : alloc_map[f] =>
          f \in reserved \/ \E t \in Callers : \E b \in blocks[t] : f \in Frames(b)
    BY <1>2, <1>4, <2>1, <2>2 DEF IInv, Accounts, MarkedIsUsed
  <2>4. \A f : f \in reserved => f \in Frame /\ alloc_map[f]
    BY <2>1 DEF IInv, Safe, WalkOK, ReservedStay
  <2>5. \A t \in Callers : \A b \in blocks[t] : \A f \in Frames(b) : f \in Frame /\ alloc_map[f]
    BY <1>2, <1>4 DEF IInv, Accounts, UsedIsMarked
  <2> QED
    BY <2>3, <2>4, <2>5 DEF OwnedBy
<1> QED
  BY <1>1, <1>3, <1>4 DEF FramesSound, FramesAccounted

-----------------------------------------------------------------------------
(* Boot *)

\* While the memory map is read there are no calls and no blocks.
LEMMA NothingIsUsedYet ==
  ASSUME \A t \in Callers : call'[t] = Idle /\ blocks'[t] = {},
         call' \in [Callers -> Calls], blocks' \in [Callers -> SUBSET BlockSet]
  PROVE  /\ CallsOK' /\ BlocksOK' /\ AloneSkipsNone'
         /\ (phase # 0 => \A f \in Frame : alloc_map[f] => f \in reserved)' => Accounts'
<1>1. \A t \in Callers : call'[t].op = "none" /\ ~Allocating(t)' /\ \A f : ~Busy(call'[t], f) /\ ~Found(call'[t], f)
  BY DEF Idle, Allocating, Busy, Found
<1>2. CallsOK' /\ BlocksOK' /\ AloneSkipsNone'
  BY <1>1 DEF CallsOK, BlocksOK, AloneSkipsNone
<1>3. OneAllocates' /\ BlocksApart' /\ BusyApart' /\ UsedIsMarked' /\ FoundIsFree'
  BY <1>1 DEF OneAllocates, BlocksApart, BusyApart, UsedIsMarked, FoundIsFree
<1>4. (phase # 0 => \A f \in Frame : alloc_map[f] => f \in reserved)' => MarkedIsUsed'
  BY DEF MarkedIsUsed
<1> QED
  BY <1>2, <1>3, <1>4 DEF Accounts

\* Whatever the order of the entries: a hole below the end is marked when the end moves past it.
LEMMA ReadDescriptorIsSound ==
  ASSUME EntriesFit, IInv, NEW d \in Descriptors, ReadDescriptor(d)
  PROVE  IInv'
<1> USE MemoryAssumption
<1> DEFINE end == d.start + d.pages
           fs == d.start..d.start + d.pages - 1
<1>1. d.start \in Nat /\ d.pages \in Nat
  OBVIOUS
<1>2. /\ phase = 0 /\ phase' = 0 /\ call' = call /\ blocks' = blocks
      /\ range_begin' = range_begin /\ range_end' = range_end /\ overlapped' = overlapped
      /\ memory' = IF IsAvailable(d.type) THEN memory \cup fs ELSE memory
      /\ Describe(d)
  BY Zenon DEF ReadDescriptor
<1>3. \A t \in Callers : call[t] = Idle /\ blocks[t] = {}
  BY <1>2 DEF IInv, Safe, WalkOK
<1>4. CallsOK' /\ BlocksOK' /\ AloneSkipsNone' /\ Accounts'
  BY <1>2, <1>3, NothingIsUsedYet DEF IInv, Safe, CallsOK, BlocksOK
<1>5. ReservedStay'
  BY <1>2 DEF ReservedStay
<1>6. /\ alloc_map' \in [Frame -> BOOLEAN] /\ available_end' \in Nat /\ available_end' <= kFrameCount
      /\ \A f \in Frame : f < available_end' /\ ~alloc_map'[f] => f \in memory'
  <2>1. /\ alloc_map \in [Frame -> BOOLEAN] /\ available_end \in Nat /\ available_end <= kFrameCount
        /\ \A f \in Frame : f < available_end /\ ~alloc_map[f] => f \in memory
    BY <1>2 DEF IInv, Safe, WalkOK
  <2>2. CASE d.start >= kFrameCount
    BY <2>1, <2>2, <1>2 DEF Describe
  <2>3. CASE d.start < kFrameCount /\ IsAvailable(d.type)
    <3>1. end \in Nat /\ end <= kFrameCount
      BY <2>3, <1>1 DEF EntriesFit
    <3>2. /\ available_end' = end
          /\ alloc_map' = [f \in Frame |-> alloc_map[f] \/ f \in available_end..d.start - 1]
      BY <2>3, <1>1, <1>2 DEF Describe, MarkAllocated
    <3>3. memory' = memory \cup fs
      BY <2>3, <1>2
    <3>4. ASSUME NEW f \in Frame, f < end, ~alloc_map'[f]
          PROVE  f \in memory'
      <4>1. f \in Nat /\ ~alloc_map[f] /\ ~(available_end <= f /\ f < d.start)
        <5>1. ~alloc_map[f] /\ ~(f \in available_end..d.start - 1)
          BY <3>2, <3>4
        <5>2. f \in Nat
          BY DEF Frame
        <5> QED
          BY <5>1, <5>2, <3>4, <2>1, <1>1
      <4>2. CASE f < available_end
        BY <4>1, <4>2, <3>3, <2>1
      <4>3. CASE ~(f < available_end)
        <5>1. f \in fs
          BY <4>1, <4>3, <3>4, <2>1, <1>1
        <5> QED
          BY <5>1, <3>3
      <4> QED
        BY <4>2, <4>3
    <3> QED
      BY <3>1, <3>2, <3>4
  <2>4. CASE d.start < kFrameCount /\ ~IsAvailable(d.type)
    <3>1. /\ available_end' = available_end /\ memory' = memory
          /\ alloc_map' = [f \in Frame |-> alloc_map[f] \/ f \in available_end..d.start - 1 \cup fs]
      BY <2>4, <1>1, <1>2 DEF Describe, MarkAllocated
    <3> QED
      BY <3>1, <2>1
  <2> QED
    BY <2>2, <2>3, <2>4, <1>1
<1>7. WalkOK'
  BY <1>2, <1>3, <1>6 DEF IInv, Safe, WalkOK
<1> QED
  BY <1>4, <1>5, <1>7 DEF IInv, Safe

\* The walk ends: what is in use now stays in use.
LEMMA SetMemoryRangeIsSound == IInv /\ SetMemoryRange => IInv'
<1> SUFFICES ASSUME IInv, SetMemoryRange PROVE IInv'
  OBVIOUS
<1> USE MemoryAssumption
<1>1. /\ phase = 0 /\ phase' = 1 /\ call' = call /\ blocks' = blocks /\ alloc_map' = alloc_map
      /\ range_begin' = 1 /\ range_end' = available_end /\ overlapped' = overlapped
      /\ memory' = memory /\ available_end' = available_end
      /\ reserved' = {f \in Frame : alloc_map[f]}
  BY DEF SetMemoryRange
<1>2. \A t \in Callers : call[t] = Idle /\ blocks[t] = {}
  BY <1>1 DEF IInv, Safe, WalkOK
<1>3. CallsOK' /\ BlocksOK' /\ AloneSkipsNone' /\ Accounts'
  BY <1>1, <1>2, NothingIsUsedYet DEF IInv, Safe, CallsOK, BlocksOK
<1>4. ReservedStay'
  BY <1>1 DEF ReservedStay
<1>5. WalkOK'
  BY <1>1, <1>2 DEF IInv, Safe, WalkOK, Frame
<1> QED
  BY <1>3, <1>4, <1>5 DEF IInv, Safe

-----------------------------------------------------------------------------
(* The calls *)

Running(p) == p \in -1..Len(BootBlocks) + 2 /\ p # 0

\* A call that starts or goes on without touching the bitmap.
LEMMA CallMoves ==
  ASSUME IInv, phase # 0, Running(phase'), UNCHANGED <<alloc_map, bootvars, blocks>>,
         NEW t \in Callers, NEW c \in Calls, call' = [call EXCEPT ![t] = c],
         c.op \in {"none", "scan", "mark"}, c # Idle => CallOK(c),
         \A f \in Frame : ~Busy(call[t], f) /\ ~Busy(c, f),
         overlapped' \in {"none", "free", "allocate"},
         overlapped' # "allocate" =>
           /\ overlapped # "allocate"
           /\ c # Idle => \A u \in Callers : u # t => ~Allocating(u)
           /\ \A f \in Frame : Found(c, f) => ~alloc_map[f],
         overlapped' = "none" =>
           /\ overlapped = "none"
           /\ c # Idle => SkipsNone(c) /\ \A u \in Callers : u # t => call[u] = Idle
  PROVE  IInv'
<1> USE DEF bootvars, Running
<1>1. call'[t] = c /\ \A u \in Callers : u # t => call'[u] = call[u]
  BY DEF IInv, Safe, CallsOK
<1>2. c = Idle => c.op = "none"
  BY DEF Idle
<1>3. WalkOK'
  BY DEF IInv, Safe, WalkOK
<1>4. ReservedStay' /\ BlocksOK'
  BY DEF IInv, Safe, ReservedStay, BlocksOK
<1>5. CallsOK'
  <2>1. call' \in [Callers -> Calls]
    BY DEF IInv, Safe, CallsOK
  <2>2. ASSUME NEW u \in Callers, call'[u] # Idle PROVE CallOK(call[u])'
    <3>1. CASE u = t
      BY <3>1, <2>2, <1>1 DEF CallOK
    <3>2. CASE u # t
      BY <3>2, <2>2, <1>1 DEF IInv, Safe, CallsOK, CallOK
    <3> QED
      BY <3>1, <3>2
  <2> QED
    BY <2>1, <2>2 DEF CallsOK
<1>6. ASSUME overlapped' # "allocate" PROVE Accounts'
  <2>1. OneAllocates /\ BlocksApart /\ BusyApart /\ UsedIsMarked /\ MarkedIsUsed /\ FoundIsFree
    BY <1>6 DEF IInv, Accounts
  <2>2. \A u \in Callers : \A f \in Frame : Busy(call'[u], f) <=> Busy(call[u], f)
    BY <1>1
  <2>3. OneAllocates'
    BY <1>1, <1>2, <1>6, <2>1 DEF OneAllocates, Allocating
  <2>4. BlocksApart' /\ BusyApart'
    BY <2>1, <2>2 DEF BlocksApart, BusyApart
  <2>5. UsedIsMarked' /\ MarkedIsUsed'
    BY <2>1, <2>2 DEF UsedIsMarked, MarkedIsUsed
  <2>6. FoundIsFree'
    BY <1>1, <1>6, <2>1 DEF FoundIsFree
  <2> QED
    BY <2>3, <2>4, <2>5, <2>6 DEF Accounts
<1>7. ASSUME overlapped' = "none" PROVE AloneSkipsNone'
  <2> SUFFICES ASSUME NEW u \in Callers, Allocating(u)'
               PROVE  /\ \A v \in Callers : v # u => call'[v] = Idle
                      /\ SkipsNone(call[u])'
    BY DEF AloneSkipsNone
  <2>1. CASE u = t
    <3>1. c # Idle
      BY <2>1, <1>1, <1>2 DEF Allocating
    <3> QED
      BY <3>1, <2>1, <1>1, <1>7 DEF SkipsNone
  <2>2. CASE u # t
    <3>1. Allocating(u)
      BY <2>2, <1>1 DEF Allocating
    <3>2. c = Idle
      BY <3>1, <2>2, <1>7 DEF Allocating, Idle
    <3>3. call[u] = call'[u] /\ SkipsNone(call[u]) /\ \A v \in Callers : v # u => call[v] = Idle
      BY <3>1, <2>2, <1>1, <1>7 DEF IInv, AloneSkipsNone
    <3> QED
      BY <3>2, <3>3, <1>1 DEF SkipsNone
  <2> QED
    BY <2>1, <2>2
<1> QED
  BY <1>3, <1>4, <1>5, <1>6, <1>7 DEF IInv, Safe, Accounts, AloneSkipsNone

\* A search starts at the beginning of the range.
LEMMA AllocateIsSound ==
  ASSUME IInv, phase # 0, Running(phase'), NEW t \in Callers, NEW n \in Nat \ {0}, Allocate(t, n)
  PROVE  IInv'
<1> DEFINE c == [op |-> "scan", start |-> range_begin, i |-> 0, n |-> n]
<1>1. range_begin = 1 /\ range_begin \in Nat /\ overlapped \in {"none", "free", "allocate"}
  BY DEF IInv, Safe, WalkOK
<1>2. c \in Calls /\ CallOK(c)
  BY <1>1 DEF Calls, CallOK, Frame
<1>3. /\ UNCHANGED <<alloc_map, bootvars, blocks>>
      /\ call' = [call EXCEPT ![t] = c] /\ call[t] = Idle
      /\ overlapped' = IF \E u \in Callers : Allocating(u) THEN "allocate"
                       ELSE IF overlapped = "none" /\ \E u \in Callers : call[u].op = "free"
                       THEN "free" ELSE overlapped
  BY DEF Allocate
<1>4. \A f \in Frame : ~Busy(call[t], f) /\ ~Busy(c, f) /\ ~Found(c, f)
  BY <1>1, <1>3, MemoryAssumption DEF Busy, Found, Idle, Frame
<1>5. overlapped' # "allocate" => overlapped # "allocate" /\ \A u \in Callers : ~Allocating(u)
  BY <1>1, <1>3
<1>6. overlapped' = "none" => overlapped = "none" /\ \A u \in Callers : call[u] = Idle
  <2> SUFFICES ASSUME overlapped' = "none", NEW u \in Callers
               PROVE  overlapped = "none" /\ call[u] = Idle
    BY <1>3
  <2>1. overlapped = "none" /\ ~Allocating(u) /\ call[u].op # "free"
    BY <1>1, <1>3
  <2> QED
    BY <2>1, CallKinds DEF IInv, Safe, Allocating
<1>7. SkipsNone(c)
  BY <1>1 DEF SkipsNone
<1>8. overlapped' \in {"none", "free", "allocate"}
  BY <1>1, <1>3
<1>9. c.op = "scan"
  OBVIOUS
<1> HIDE DEF c
<1> QED
  BY <1>2, <1>3, <1>4, <1>5, <1>6, <1>7, <1>8, <1>9, CallMoves

\* BootAllocate keeps the invariant.
LEMMA BootAllocateIsSound == IInv /\ BootAllocate => IInv'
<1> SUFFICES ASSUME IInv, BootAllocate PROVE IInv'
  OBVIOUS
<1>1. Len(BootBlocks) \in Nat /\ \A k \in 1..Len(BootBlocks) : BootBlocks[k] \in Nat \ {0}
  BY MemoryAssumption
<1>2. phase \in 1..Len(BootBlocks) /\ phase' = phase + 1 /\ Allocate(Boot, BootBlocks[phase])
  BY DEF BootAllocate
<1>3. Boot \in Callers /\ BootBlocks[phase] \in Nat \ {0} /\ phase # 0 /\ Running(phase')
  BY <1>1, <1>2 DEF Callers, Running
<1> QED
  BY <1>2, <1>3, AllocateIsSound

\* TaskAllocate keeps the invariant.
LEMMA TaskAllocateIsSound ==
  ASSUME IInv, NEW t \in Tasks, NEW n \in Sizes, TaskAllocate(t, n)
  PROVE  IInv'
<1>1. Len(BootBlocks) \in Nat /\ n \in Nat \ {0}
  BY MemoryAssumption
<1>2. phase = Len(BootBlocks) + 2 /\ phase' = phase /\ Allocate(t, n)
  BY DEF TaskAllocate, Booted
<1>3. t \in Callers /\ phase # 0 /\ Running(phase')
  BY <1>1, <1>2 DEF Callers, Running
<1> QED
  BY <1>1, <1>2, <1>3, AllocateIsSound

\* Only what boot has reached changes.
LEMMA BootDoneIsSound == IInv /\ BootDone => IInv'
<1> SUFFICES ASSUME IInv, BootDone PROVE IInv'
  OBVIOUS
<1>1. Len(BootBlocks) \in Nat
  BY MemoryAssumption
<1>2. /\ phase # 0 /\ phase' # 0 /\ phase' \in -1..Len(BootBlocks) + 2
      /\ UNCHANGED <<alloc_map, bootvars, call, blocks, overlapped>>
  BY <1>1 DEF BootDone
<1>3. WalkOK' /\ ReservedStay'
  BY <1>2 DEF IInv, Safe, WalkOK, ReservedStay, bootvars
<1>4. CallsOK' /\ BlocksOK'
  BY <1>2 DEF IInv, Safe, CallsOK, BlocksOK, CallOK, bootvars
<1>5. Accounts' /\ AloneSkipsNone'
  BY <1>2 DEF IInv, Accounts, OneAllocates, BlocksApart, BusyApart, UsedIsMarked, MarkedIsUsed,
              FoundIsFree, Allocating, AloneSkipsNone, SkipsNone, bootvars
<1> QED
  BY <1>3, <1>4, <1>5 DEF IInv, Safe

\* What a search in progress knows.
LEMMA ScanFacts ==
  ASSUME IInv, NEW t \in Callers, call[t].op = "scan"
  PROVE  /\ call[t].start \in Nat /\ call[t].i \in Nat /\ call[t].n \in Nat
         /\ call[t].i < call[t].n /\ 1 <= call[t].start
         /\ call[t] # Idle /\ CallOK(call[t])
         /\ phase # 0 /\ range_end \in Nat /\ range_end <= kFrameCount /\ range_begin = 1
         /\ \A f : ~Busy(call[t], f)
         /\ overlapped # "allocate" =>
              /\ \A u \in Callers : u # t => ~Allocating(u)
              /\ \A f \in Frame : Found(call[t], f) => ~alloc_map[f]
         /\ overlapped = "none" =>
              SkipsNone(call[t]) /\ \A u \in Callers : u # t => call[u] = Idle
<1>1. call[t] # Idle
  BY DEF Idle
<1>2. call[t].start \in Nat /\ call[t].i \in Nat /\ call[t].n \in Nat
  BY <1>1, CallKinds DEF IInv, Safe
<1>3. CallOK(call[t])
  BY <1>1 DEF IInv, Safe, CallsOK
<1>4. call[t].i < call[t].n /\ 1 <= call[t].start
  BY <1>3 DEF CallOK
<1>5. phase # 0 /\ range_end \in Nat /\ range_end <= kFrameCount /\ range_begin = 1
  BY <1>1 DEF IInv, Safe, WalkOK
<1>6. \A f : ~Busy(call[t], f)
  BY DEF Busy
<1>7. Allocating(t)
  BY DEF Allocating
<1>8. overlapped # "allocate" =>
              /\ \A u \in Callers : u # t => ~Allocating(u)
              /\ \A f \in Frame : Found(call[t], f) => ~alloc_map[f]
  BY <1>7 DEF IInv, Accounts, OneAllocates, FoundIsFree
<1>9. overlapped = "none" =>
              SkipsNone(call[t]) /\ \A u \in Callers : u # t => call[u] = Idle
  BY <1>7 DEF IInv, AloneSkipsNone
<1> QED
  BY <1>1, <1>2, <1>3, <1>4, <1>5, <1>6, <1>8, <1>9

\* The two ways a search changes more than one field of its call.
LEMMA SearchGoesOn ==
  ASSUME NEW r, NEW a, NEW s, NEW k, NEW m, r = [op |-> a, start |-> s, i |-> k, n |-> m]
  PROVE  SearchOn(r) = [op |-> a, start |-> s + k + 1, i |-> 0, n |-> m]
<1> DEFINE q == [op |-> a, start |-> s + k + 1, i |-> k, n |-> m]
<1>1. SearchOn(r) = [[r EXCEPT !.start = @ + r.i + 1] EXCEPT !.i = 0]
  BY DEF SearchOn
<1>2. [r EXCEPT !.start = @ + r.i + 1] = q
  OBVIOUS
<1>3. [q EXCEPT !.i = 0] = [op |-> a, start |-> s + k + 1, i |-> 0, n |-> m]
  OBVIOUS
<1> QED
  BY <1>1, <1>2, <1>3

\* The record of a call whose search has ended: marking begins at the first frame.
LEMMA SearchIsOver ==
  ASSUME NEW r, NEW a, NEW s, NEW k, NEW m, r = [op |-> a, start |-> s, i |-> k, n |-> m]
  PROVE  [r EXCEPT !.op = "mark", !.i = 0] = [op |-> "mark", start |-> s, i |-> 0, n |-> m]
<1> DEFINE q == [op |-> "mark", start |-> s, i |-> k, n |-> m]
<1>1. [r EXCEPT !.op = "mark", !.i = 0] = [[r EXCEPT !.op = "mark"] EXCEPT !.i = 0]
  OBVIOUS
<1>2. [r EXCEPT !.op = "mark"] = q
  OBVIOUS
<1>3. [q EXCEPT !.i = 0] = [op |-> "mark", start |-> s, i |-> 0, n |-> m]
  OBVIOUS
<1> QED
  BY <1>1, <1>2, <1>3

\* One round of the search: it gives up at the end of the range, goes on behind a frame in
\* use, looks at the next frame or has found enough of them.
LEMMA ScanIsSound ==
  ASSUME IInv, NEW t \in Callers, Scan(t)
  PROVE  IInv'
<1> DEFINE s == call[t].start
           k == call[t].i
           m == call[t].n
           f == s + k
<1>1. call[t].op = "scan"
  BY DEF Scan
<1>2. /\ s \in Nat /\ k \in Nat /\ m \in Nat /\ k < m /\ 1 <= s
      /\ call[t] # Idle /\ CallOK(call[t])
      /\ phase # 0 /\ range_end \in Nat /\ range_end <= kFrameCount /\ range_begin = 1
      /\ \A g : ~Busy(call[t], g)
      /\ overlapped # "allocate" =>
           /\ \A u \in Callers : u # t => ~Allocating(u)
           /\ \A g \in Frame : Found(call[t], g) => ~alloc_map[g]
      /\ overlapped = "none" =>
           SkipsNone(call[t]) /\ \A u \in Callers : u # t => call[u] = Idle
  BY <1>1, ScanFacts
<1>3. UNCHANGED <<alloc_map, bootvars, blocks>> /\ overlapped' = overlapped
  BY DEF Scan
<1>4. Running(phase')
  BY <1>2, MemoryAssumption DEF Scan, Running, IInv, Safe, WalkOK
<1>5. overlapped \in {"none", "free", "allocate"}
  BY DEF IInv, Safe, WalkOK
<1>6. call[t] = [op |-> "scan", start |-> s, i |-> k, n |-> m]
  BY <1>1, <1>2, CallKinds DEF IInv, Safe
<1>7. ASSUME NEW c \in Calls, call' = [call EXCEPT ![t] = c], c.op \in {"none", "scan", "mark"},
             c # Idle => CallOK(c), \A g \in Frame : ~Busy(c, g),
             overlapped # "allocate" => \A g \in Frame : Found(c, g) => ~alloc_map[g],
             overlapped = "none" /\ c # Idle => SkipsNone(c)
      PROVE  IInv'
  <2>1. overlapped' \in {"none", "free", "allocate"}
    BY <1>3, <1>5
  <2>2. overlapped' # "allocate" =>
           /\ overlapped # "allocate"
           /\ c # Idle => \A u \in Callers : u # t => ~Allocating(u)
           /\ \A g \in Frame : Found(c, g) => ~alloc_map[g]
    BY <1>2, <1>3, <1>7
  <2>3. overlapped' = "none" =>
           /\ overlapped = "none"
           /\ c # Idle => SkipsNone(c) /\ \A u \in Callers : u # t => call[u] = Idle
    BY <1>2, <1>3, <1>7
  <2>4. \A g \in Frame : ~Busy(call[t], g) /\ ~Busy(c, g)
    BY <1>2, <1>7
  <2> QED
    BY <2>1, <2>2, <2>3, <2>4, <1>2, <1>3, <1>4, <1>7, CallMoves
<1>8. f < range_end => f \in Frame
  BY <1>2, MemoryAssumption DEF Frame
<1>9. ReservedStay
  BY DEF IInv, Safe
<1>10. CASE f >= range_end
  <2>1. call' = [call EXCEPT ![t] = Idle]
    BY <1>10 DEF Scan
  <2>2. Idle \in Calls /\ Idle.op = "none" /\ \A g : ~Busy(Idle, g) /\ ~Found(Idle, g)
    BY DEF Calls, Idle, Busy, Found
  <2> QED
    BY <2>1, <2>2, <1>7
<1>11. CASE f < range_end /\ alloc_map[f]
  <2> DEFINE c == [op |-> "scan", start |-> s + k + 1, i |-> 0, n |-> m]
  <2>1. call' = [call EXCEPT ![t] = c]
    <3>1. call' = [call EXCEPT ![t] = SearchOn(call[t])]
      BY <1>2, <1>11 DEF Scan, GetBit
    <3>2. SearchOn(call[t]) = c
      BY <1>6, SearchGoesOn
    <3> QED
      BY <3>1, <3>2
  <2>2. c \in Calls /\ CallOK(c) /\ c.op = "scan"
    BY <1>2 DEF Calls, CallOK, Frame
  <2>3. \A g \in Frame : ~Busy(c, g) /\ ~Found(c, g)
    BY <1>2, MemoryAssumption DEF Busy, Found, Frame
  <2>4. overlapped = "none" => SkipsNone(c)
    <3> SUFFICES ASSUME overlapped = "none", NEW z \in range_begin..range_end - m, z < s + k + 1
                 PROVE  \E g \in z..z + m - 1 : alloc_map[g]
      BY <1>2 DEF SkipsNone
    <3>1. CASE z < s
      BY <3>1, <1>1, <1>2 DEF SkipsNone
    <3>2. CASE ~(z < s)
      <4>1. s + k \in z..z + m - 1
        BY <3>2, <1>2
      <4> QED
        BY <4>1, <1>11
    <3> QED
      BY <3>1, <3>2
  <2> HIDE DEF c
  <2> QED
    BY <2>1, <2>2, <2>3, <2>4, <1>7
<1>12. ASSUME f < range_end, ~alloc_map[f]
       PROVE  /\ f \notin reserved
              /\ \A g \in Frame : s <= g /\ g < s + k + 1 => g \notin reserved
              /\ overlapped # "allocate" => \A g \in Frame : s <= g /\ g < s + k + 1 => ~alloc_map[g]
  <2>1. f \notin reserved
    BY <1>2, <1>9, <1>12 DEF ReservedStay
  <2>2. \A g \in Frame : s <= g /\ g < s + k => g \notin reserved
    BY <1>1, <1>2 DEF CallOK
  <2>3. overlapped # "allocate" => \A g \in Frame : s <= g /\ g < s + k => ~alloc_map[g]
    BY <1>1, <1>2 DEF Found
  <2>4. \A g \in Frame : g < s + k + 1 => g < s + k \/ g = f
    BY <1>2 DEF Frame
  <2> QED
    BY <2>1, <2>2, <2>3, <2>4, <1>12
<1>13. CASE f < range_end /\ ~alloc_map[f] /\ k + 1 < m
  <2> DEFINE c == [op |-> "scan", start |-> s, i |-> k + 1, n |-> m]
  <2>1. call' = [call EXCEPT ![t] = c]
    <3>1. call' = [call EXCEPT ![t].i = @ + 1]
      BY <1>2, <1>13 DEF Scan, GetBit
    <3>2. [call[t] EXCEPT !.i = @ + 1] = c
      BY <1>6
    <3>3. call' = [call EXCEPT ![t] = [call[t] EXCEPT !.i = @ + 1]]
      BY <3>1
    <3> QED
      BY <3>2, <3>3
  <2>2. c \in Calls /\ CallOK(c) /\ c.op = "scan"
    <3>1. \A g \in Frame : s <= g /\ g < s + (k + 1) => g \notin reserved
      BY <1>2, <1>12, <1>13 DEF Frame
    <3> QED
      BY <3>1, <1>2, <1>13 DEF Calls, CallOK
  <2>3. \A g \in Frame : ~Busy(c, g)
    BY DEF Busy
  <2>4. overlapped # "allocate" => \A g \in Frame : Found(c, g) => ~alloc_map[g]
    BY <1>2, <1>12, <1>13 DEF Found, Frame
  <2>5. overlapped = "none" => SkipsNone(c)
    BY <1>1, <1>2 DEF SkipsNone
  <2> HIDE DEF c
  <2> QED
    BY <2>1, <2>2, <2>3, <2>4, <2>5, <1>7
<1>14. CASE f < range_end /\ ~alloc_map[f] /\ ~(k + 1 < m)
  <2> DEFINE c == [op |-> "mark", start |-> s, i |-> 0, n |-> m]
  <2>1. call' = [call EXCEPT ![t] = c]
    <3>1. call' = [call EXCEPT ![t] = [call[t] EXCEPT !.op = "mark", !.i = 0]]
      BY <1>2, <1>14 DEF Scan, GetBit
    <3>2. [call[t] EXCEPT !.op = "mark", !.i = 0] = c
      BY <1>6, SearchIsOver
    <3> QED
      BY <3>1, <3>2
  <2>2. m = k + 1
    BY <1>2, <1>14
  <2>3. c \in Calls /\ CallOK(c) /\ c.op = "mark"
    <3>1. \A g \in Frame : s <= g /\ g < s + m => g \notin reserved
      BY <1>2, <1>12, <1>14, <2>2 DEF Frame
    <3> QED
      BY <3>1, <1>2, <1>14, <2>2 DEF Calls, CallOK
  <2>4. \A g \in Frame : ~Busy(c, g)
    BY <1>2, MemoryAssumption DEF Busy, Frame
  <2>5. overlapped # "allocate" => \A g \in Frame : Found(c, g) => ~alloc_map[g]
    BY <1>2, <1>12, <1>14, <2>2 DEF Found, Frame
  <2>6. overlapped = "none" => SkipsNone(c)
    BY <1>2 DEF SkipsNone
  <2> HIDE DEF c
  <2> QED
    BY <2>1, <2>3, <2>4, <2>5, <2>6, <1>7
<1> QED
  BY <1>2, <1>10, <1>11, <1>13, <1>14

-----------------------------------------------------------------------------
(* The loops over a block *)

\* Where a loop of MarkAllocated or Free is: at a frame of the bitmap that is not reserved.
LEMMA LoopFacts ==
  ASSUME Safe, NEW t \in Callers, call[t].op \in {"mark", "free"}
  PROVE  /\ call[t].start \in Nat /\ call[t].i \in Nat /\ call[t].n \in Nat
         /\ call[t].i < call[t].n /\ 1 <= call[t].start /\ call[t] # Idle /\ CallOK(call[t])
         /\ call[t] = [op |-> call[t].op, start |-> call[t].start, i |-> call[t].i, n |-> call[t].n]
         /\ call[t].start + call[t].i \in Frame /\ call[t].start + call[t].i \notin reserved
         /\ call[t].start + call[t].n <= range_end
         /\ phase # 0
<1>1. call[t] # Idle
  BY DEF Idle
<1>2. /\ call[t].start \in Nat /\ call[t].i \in Nat /\ call[t].n \in Nat
      /\ call[t] = [op |-> call[t].op, start |-> call[t].start, i |-> call[t].i, n |-> call[t].n]
  BY <1>1, CallKinds DEF Safe
<1>3. CallOK(call[t])
  BY <1>1 DEF Safe, CallsOK
<1>4. call[t].i < call[t].n /\ 1 <= call[t].start /\ call[t].start + call[t].n <= range_end
  BY <1>3 DEF CallOK
<1>5. phase # 0 /\ range_end \in Nat /\ range_end <= kFrameCount
  BY <1>1 DEF Safe, WalkOK
<1>6. call[t].start + call[t].i \in Frame
  BY <1>2, <1>4, <1>5, MemoryAssumption DEF Frame
<1>7. call[t].start + call[t].i \notin reserved
  BY <1>2, <1>3, <1>4, <1>6 DEF CallOK
<1> QED
  BY <1>1, <1>2, <1>3, <1>4, <1>5, <1>6, <1>7

\* A loop goes on with the next frame.
LEMMA LoopGoesOn ==
  ASSUME NEW r, NEW a, NEW s, NEW k, NEW m, r = [op |-> a, start |-> s, i |-> k, n |-> m]
  PROVE  [r EXCEPT !.i = @ + 1] = [op |-> a, start |-> s, i |-> k + 1, n |-> m]
OBVIOUS

\* One bit changes, of a frame that is not reserved.
LEMMA OneBitChanges ==
  ASSUME Safe, NEW f \in Frame, f \notin reserved, NEW v \in BOOLEAN, phase # 0,
         SetBit(f, v), UNCHANGED <<bootvars, phase, overlapped>>
  PROVE  /\ WalkOK' /\ ReservedStay'
         /\ alloc_map'[f] = v /\ \A g \in Frame : g # f => alloc_map'[g] = alloc_map[g]
<1>1. /\ alloc_map \in [Frame -> BOOLEAN] /\ alloc_map' = [alloc_map EXCEPT ![f] = v]
  BY DEF Safe, WalkOK, SetBit
<1>2. /\ alloc_map' \in [Frame -> BOOLEAN]
      /\ alloc_map'[f] = v /\ \A g \in Frame : g # f => alloc_map'[g] = alloc_map[g]
  BY <1>1
<1>3. WalkOK'
  BY <1>2 DEF Safe, WalkOK, bootvars
<1>4. ReservedStay'
  BY <1>2 DEF Safe, WalkOK, ReservedStay, bootvars
<1> QED
  BY <1>2, <1>3, <1>4

\* Nothing else was found by a search when one is marking, and what it marks next is in no use.
LEMMA MarkFacts ==
  ASSUME IInv, overlapped # "allocate", NEW t \in Callers, call[t].op = "mark"
  PROVE  /\ \A u \in Callers : u # t => ~Allocating(u)
         /\ ~alloc_map[call[t].start + call[t].i]
         /\ \A u \in Callers : /\ ~Busy(call[u], call[t].start + call[t].i)
                               /\ \A b \in blocks[u] : ~InBlock(b, call[t].start + call[t].i)
<1> DEFINE f == call[t].start + call[t].i
<1>1. f \in Frame /\ call[t].i < call[t].n /\ call[t].start \in Nat /\ call[t].i \in Nat /\ call[t].n \in Nat
  BY LoopFacts DEF IInv
<1>2. Found(call[t], f)
  BY <1>1 DEF Found
<1>3. ~alloc_map[f]
  BY <1>1, <1>2 DEF IInv, Accounts, FoundIsFree
<1>4. \A u \in Callers : ~Busy(call[u], f) /\ \A b \in blocks[u] : ~InBlock(b, f)
  BY <1>1, <1>3 DEF IInv, Accounts, UsedIsMarked
<1>5. \A u \in Callers : u # t => ~Allocating(u)
  BY DEF IInv, Accounts, OneAllocates, Allocating
<1> QED
  BY <1>3, <1>4, <1>5

\* The next frame of the block is marked; after the last one the caller owns the block.
LEMMA MarkIsSound ==
  ASSUME IInv, NEW t \in Callers, Mark(t)
  PROVE  IInv'
<1> DEFINE s == call[t].start
           k == call[t].i
           m == call[t].n
           f == s + k
           more == [op |-> "mark", start |-> s, i |-> k + 1, n |-> m]
           block == [start |-> s, n |-> m]
<1>1. call[t].op = "mark"
  BY DEF Mark
<1>2. /\ s \in Nat /\ k \in Nat /\ m \in Nat /\ k < m /\ 1 <= s /\ call[t] # Idle /\ CallOK(call[t])
      /\ call[t] = [op |-> "mark", start |-> s, i |-> k, n |-> m]
      /\ f \in Frame /\ f \notin reserved /\ s + m <= range_end /\ phase # 0
  BY <1>1, LoopFacts DEF IInv
<1>3. UNCHANGED <<bootvars, phase, overlapped>> /\ SetBit(f, TRUE)
  BY DEF Mark
<1>4. /\ WalkOK' /\ ReservedStay'
      /\ alloc_map'[f] /\ \A g \in Frame : g # f => alloc_map'[g] = alloc_map[g]
  BY <1>2, <1>3, OneBitChanges DEF IInv
<1>5. \A g \in Frame : alloc_map'[g] <=> alloc_map[g] \/ g = f
  BY <1>4
<1>6. overlapped # "allocate" =>
        /\ \A u \in Callers : u # t => ~Allocating(u)
        /\ ~alloc_map[f]
        /\ \A u \in Callers : ~Busy(call[u], f) /\ \A b \in blocks[u] : ~InBlock(b, f)
  BY <1>1, MarkFacts
<1>7. \A g \in Frame : g \in Nat
  BY DEF Frame
<1>8. Allocating(t)
  BY <1>1 DEF Allocating
<1>9. overlapped = "none" => SkipsNone(call[t]) /\ \A u \in Callers : u # t => call[u] = Idle
  BY <1>8 DEF IInv, AloneSkipsNone
<1>10. call \in [Callers -> Calls] /\ blocks \in [Callers -> SUBSET BlockSet]
  BY DEF IInv, Safe, CallsOK, BlocksOK
<1>11. CASE k + 1 < m
  <2>1. call' = [call EXCEPT ![t] = more] /\ blocks' = blocks
    <3>1. call' = [call EXCEPT ![t] = [call[t] EXCEPT !.i = @ + 1]] /\ blocks' = blocks
      BY <1>11 DEF Mark
    <3>2. [call[t] EXCEPT !.i = @ + 1] = more
      BY <1>2, LoopGoesOn
    <3> QED
      BY <3>1, <3>2
  <2>2. call'[t] = more /\ \A u \in Callers : u # t => call'[u] = call[u]
    BY <2>1, <1>10
  <2>3. more \in Calls /\ more.op = "mark"
    BY <1>2 DEF Calls
  <2>4. CallsOK' /\ BlocksOK'
    <3>1. call' \in [Callers -> Calls]
      BY <2>1, <2>3, <1>10
    <3>2. CallOK(more)
      BY <1>2, <1>11 DEF CallOK
    <3>3. \A u \in Callers : call'[u] # Idle => CallOK(call'[u])
      BY <2>2, <3>2 DEF IInv, Safe, CallsOK
    <3> QED
      BY <2>1, <3>1, <3>3, <1>3 DEF CallsOK, CallOK, IInv, Safe, BlocksOK, bootvars
  <2>5. ASSUME overlapped # "allocate" PROVE Accounts'
    <3>1. OneAllocates /\ BlocksApart /\ BusyApart /\ UsedIsMarked /\ MarkedIsUsed /\ FoundIsFree
      BY <2>5 DEF IInv, Accounts
    <3>2. \A g \in Frame : Busy(more, g) <=> Busy(call[t], g) \/ g = f
      BY <1>1, <1>2, <1>7 DEF Busy
    <3>3. \A g \in Frame : Found(more, g) => Found(call[t], g) /\ g # f
      BY <1>1, <1>2, <1>7 DEF Found
    <3>4. \A u \in Callers : \A g \in Frame :
            Busy(call'[u], g) <=> Busy(call[u], g) \/ (u = t /\ g = f)
      BY <2>2, <3>2
    <3>5. OneAllocates'
      BY <2>2, <2>5, <1>6 DEF OneAllocates, Allocating
    <3>6. BlocksApart'
      BY <2>1, <3>1 DEF BlocksApart
    <3>7. BusyApart'
      BY <2>1, <2>5, <3>1, <3>4, <1>6 DEF BusyApart
    <3>8. UsedIsMarked'
      BY <2>1, <3>1, <3>4, <1>5 DEF UsedIsMarked
    <3>9. MarkedIsUsed'
      BY <2>1, <3>1, <3>4, <1>2, <1>3, <1>5 DEF MarkedIsUsed, bootvars
    <3>10. \A u \in Callers : u # t => \A g \in Frame : ~Found(call'[u], g)
      BY <2>2, <2>5, <1>6 DEF Found, Allocating
    <3>11. FoundIsFree'
      BY <2>2, <3>1, <3>3, <3>10, <1>5 DEF FoundIsFree
    <3> QED
      BY <3>5, <3>6, <3>7, <3>8, <3>9, <3>11 DEF Accounts
  <2>6. ASSUME overlapped = "none" PROVE AloneSkipsNone'
    <3>1. SkipsNone(call[t])'
      BY <2>2, <2>6, <1>3, <1>9 DEF SkipsNone, bootvars
    <3>2. \A u \in Callers : u # t => call'[u] = Idle /\ ~Allocating(u)'
      BY <2>2, <2>6, <1>9 DEF Allocating, Idle
    <3> QED
      BY <2>2, <3>1, <3>2 DEF AloneSkipsNone
  <2> QED
    BY <2>4, <2>5, <2>6, <1>3, <1>4 DEF IInv, Safe, Accounts, AloneSkipsNone
<1>12. CASE ~(k + 1 < m)
  <2>1. /\ call' = [call EXCEPT ![t] = Idle]
        /\ blocks' = [blocks EXCEPT ![t] = @ \cup {block}]
    BY <1>12 DEF Mark
  <2>2. /\ call'[t] = Idle /\ \A u \in Callers : u # t => call'[u] = call[u]
        /\ blocks'[t] = blocks[t] \cup {block} /\ \A u \in Callers : u # t => blocks'[u] = blocks[u]
    BY <2>1, <1>10
  <2>3. m = k + 1 /\ block \in BlockSet /\ Idle \in Calls
    BY <1>2, <1>12 DEF BlockSet, Calls
  <2>4. CallsOK'
    <3>1. call' \in [Callers -> Calls]
      BY <2>1, <2>3, <1>10
    <3>2. \A u \in Callers : call'[u] # Idle => CallOK(call'[u])
      BY <2>2 DEF IInv, Safe, CallsOK
    <3> QED
      BY <3>1, <3>2, <1>3 DEF CallsOK, CallOK, bootvars
  <2>5. BlocksOK'
    <3>1. blocks' \in [Callers -> SUBSET BlockSet]
      BY <2>1, <2>3, <1>10
    <3>2. /\ 0 < block.n /\ 1 <= block.start /\ block.start + block.n <= range_end
          /\ \A g \in Frame : block.start <= g /\ g < block.start + block.n => g \notin reserved
      BY <1>1, <1>2 DEF CallOK
    <3>3. \A u \in Callers : \A b \in blocks'[u] : b = block \/ b \in blocks[u]
      BY <2>2
    <3> HIDE DEF block
    <3> QED
      BY <3>1, <3>2, <3>3, <1>3 DEF IInv, Safe, BlocksOK, bootvars
  <2>6. ASSUME overlapped # "allocate" PROVE Accounts'
    <3>1. OneAllocates /\ BlocksApart /\ BusyApart /\ UsedIsMarked /\ MarkedIsUsed /\ FoundIsFree
      BY <2>6 DEF IInv, Accounts
    <3>2. \A g \in Frame : InBlock(block, g) <=> Busy(call[t], g) \/ g = f
      BY <1>1, <1>2, <1>7, <2>3 DEF Busy, InBlock
    <3>3. \A g \in Frame : ~Busy(call'[t], g) /\ ~Found(call'[t], g)
      BY <2>2 DEF Busy, Found, Idle
    <3> HIDE DEF block, f
    <3>4. OneAllocates'
      BY <2>2, <2>6, <1>6 DEF OneAllocates, Allocating, Idle
    <3>5. \A u \in Callers : \A b \in blocks[u] : \A g \in Frame : ~(InBlock(b, g) /\ InBlock(block, g))
      BY <2>6, <3>1, <3>2, <1>6 DEF BusyApart
    <3>6. BlocksApart'
      <4> SUFFICES ASSUME NEW u \in Callers, NEW v \in Callers, NEW b \in blocks'[u], NEW c \in blocks'[v],
                          NEW g \in Frame, InBlock(b, g), InBlock(c, g)
                   PROVE  u = v /\ b = c
        BY DEF BlocksApart
      <4>1. CASE b \in blocks[u] /\ c \in blocks[v]
        BY <4>1, <3>1 DEF BlocksApart
      <4>2. (b \notin blocks[u] => u = t /\ b = block) /\ (c \notin blocks[v] => v = t /\ c = block)
        BY <2>2
      <4> QED
        BY <4>1, <4>2, <3>5
    <3>7. BusyApart'
      <4> SUFFICES ASSUME NEW u \in Callers, NEW v \in Callers, NEW g \in Frame, Busy(call'[u], g)
                   PROVE  (\A b \in blocks'[v] : ~InBlock(b, g)) /\ (Busy(call'[v], g) => v = u)
        BY DEF BusyApart
      <4>1. u # t /\ Busy(call[u], g)
        BY <2>2, <3>3
      <4>2. ~InBlock(block, g)
        BY <2>6, <3>1, <3>2, <4>1, <1>6 DEF BusyApart
      <4>3. \A b \in blocks[v] : ~InBlock(b, g)
        BY <3>1, <4>1 DEF BusyApart
      <4>4. Busy(call'[v], g) => v = u
        BY <2>2, <3>1, <3>3, <4>1 DEF BusyApart
      <4>5. \A b \in blocks'[v] : b = block \/ b \in blocks[v]
        BY <2>2
      <4> QED
        BY <4>2, <4>3, <4>4, <4>5
    <3>8. \A g \in Frame :
            (\E u \in Callers : Busy(call'[u], g) \/ \E b \in blocks'[u] : InBlock(b, g)) <=>
            (g = f \/ \E u \in Callers : Busy(call[u], g) \/ \E b \in blocks[u] : InBlock(b, g))
      <4> TAKE g \in Frame
      <4>1. ASSUME NEW u \in Callers, Busy(call'[u], g) \/ \E b \in blocks'[u] : InBlock(b, g)
            PROVE  g = f \/ \E v \in Callers : Busy(call[v], g) \/ \E b \in blocks[v] : InBlock(b, g)
        BY <4>1, <2>2, <3>2, <3>3
      <4>2. ASSUME NEW u \in Callers, Busy(call[u], g) \/ \E b \in blocks[u] : InBlock(b, g)
            PROVE  \E v \in Callers : Busy(call'[v], g) \/ \E b \in blocks'[v] : InBlock(b, g)
        BY <4>2, <2>2, <3>2
      <4>3. g = f => \E v \in Callers : \E b \in blocks'[v] : InBlock(b, g)
        BY <2>2, <3>2
      <4> QED
        BY <4>1, <4>2, <4>3
    <3>9. UsedIsMarked' /\ MarkedIsUsed'
      BY <3>1, <3>8, <1>2, <1>3, <1>5 DEF UsedIsMarked, MarkedIsUsed, bootvars
    <3>10. \A u \in Callers : \A g \in Frame : ~Found(call'[u], g)
      BY <2>2, <2>6, <3>3, <1>6 DEF Found, Allocating
    <3>11. FoundIsFree'
      BY <3>10 DEF FoundIsFree
    <3> QED
      BY <3>4, <3>6, <3>7, <3>9, <3>11 DEF Accounts
  <2>7. ASSUME overlapped = "none" PROVE AloneSkipsNone'
    <3>1. \A u \in Callers : ~Allocating(u)'
      BY <2>2, <2>7, <1>9 DEF Allocating, Idle
    <3> QED
      BY <3>1 DEF AloneSkipsNone
  <2> QED
    BY <2>4, <2>5, <2>6, <2>7, <1>3, <1>4 DEF IInv, Safe, Accounts, AloneSkipsNone
<1> QED
  BY <1>11, <1>12

\* A block that is given up stays in use until its frames are cleared.
LEMMA FreeIsSound ==
  ASSUME IInv, NEW t \in Tasks, NEW b \in blocks[t], Free(t, b)
  PROVE  IInv'
<1> DEFINE given == [op |-> "free", start |-> b.start, i |-> 0, n |-> b.n]
<1>1. /\ call[t] = Idle
      /\ blocks' = [blocks EXCEPT ![t] = @ \ {b}]
      /\ call' = [call EXCEPT ![t] = given]
      /\ UNCHANGED <<alloc_map, bootvars, phase>>
      /\ overlapped' = IF overlapped = "none" /\ \E u \in Callers : Allocating(u) THEN "free" ELSE overlapped
  BY DEF Free
<1>2. t \in Callers
  BY DEF Callers
<1>3. /\ call \in [Callers -> Calls] /\ blocks \in [Callers -> SUBSET BlockSet]
      /\ b.start \in Nat /\ b.n \in Nat /\ 0 < b.n /\ 1 <= b.start /\ b.start + b.n <= range_end
      /\ \A g \in Frame : InBlock(b, g) => g \notin reserved
  BY <1>2 DEF IInv, Safe, CallsOK, BlocksOK, BlockSet, InBlock
<1>4. phase # 0 /\ overlapped \in {"none", "free", "allocate"}
  BY <1>2 DEF IInv, Safe, WalkOK
<1>5. /\ call'[t] = given /\ \A u \in Callers : u # t => call'[u] = call[u]
      /\ blocks'[t] = blocks[t] \ {b} /\ \A u \in Callers : u # t => blocks'[u] = blocks[u]
  BY <1>1, <1>2, <1>3
<1>6. given \in Calls /\ CallOK(given)
  BY <1>3 DEF Calls, CallOK, InBlock
<1>7. \A g \in Frame : (Busy(given, g) <=> InBlock(b, g)) /\ ~Found(given, g)
  BY <1>3, MemoryAssumption DEF Busy, Found, InBlock, Frame
<1>8. \A g : ~Busy(call[t], g) /\ ~Found(call[t], g)
  BY <1>1 DEF Busy, Found, Idle
<1>9. ~Allocating(t) /\ ~Allocating(t)'
  BY <1>1, <1>5 DEF Allocating, Idle
<1> HIDE DEF given
<1>10. WalkOK' /\ ReservedStay'
  BY <1>1, <1>4 DEF IInv, Safe, WalkOK, ReservedStay, bootvars
<1>11. CallsOK'
  <2>1. call' \in [Callers -> Calls]
    BY <1>1, <1>3, <1>6
  <2>2. \A u \in Callers : call'[u] # Idle => CallOK(call'[u])
    BY <1>5, <1>6 DEF IInv, Safe, CallsOK
  <2> QED
    BY <2>1, <2>2, <1>1 DEF CallsOK, CallOK, bootvars
<1>12. \A u \in Callers : blocks'[u] \subseteq blocks[u]
  BY <1>5
<1>13. BlocksOK'
  <2>1. blocks' \in [Callers -> SUBSET BlockSet]
    BY <1>1, <1>3
  <2> QED
    BY <2>1, <1>1, <1>12 DEF IInv, Safe, BlocksOK, bootvars
<1>14. ASSUME overlapped' # "allocate" PROVE Accounts'
  <2>1. OneAllocates /\ BlocksApart /\ BusyApart /\ UsedIsMarked /\ MarkedIsUsed /\ FoundIsFree
    BY <1>1, <1>14 DEF IInv, Accounts
  <2>2. OneAllocates'
    BY <1>5, <1>9, <2>1 DEF OneAllocates, Allocating
  <2>3. BlocksApart'
    BY <1>12, <2>1 DEF BlocksApart
  <2>4. BusyApart'
    <3> SUFFICES ASSUME NEW u \in Callers, NEW v \in Callers, NEW g \in Frame, Busy(call'[u], g)
                 PROVE  (\A c \in blocks'[v] : ~InBlock(c, g)) /\ (Busy(call'[v], g) => v = u)
      BY DEF BusyApart
    <3>1. CASE u = t
      <4>1. InBlock(b, g)
        BY <3>1, <1>5, <1>7
      <4>2. \A c \in blocks'[v] : ~InBlock(c, g)
        BY <4>1, <1>2, <1>5, <2>1 DEF BlocksApart
      <4>3. v # t => ~Busy(call'[v], g)
        BY <4>1, <1>2, <1>5, <2>1 DEF BusyApart
      <4> QED
        BY <3>1, <4>2, <4>3
    <3>2. CASE u # t
      <4>1. Busy(call[u], g)
        BY <3>2, <1>5
      <4>2. \A c \in blocks'[v] : ~InBlock(c, g)
        BY <4>1, <1>12, <2>1 DEF BusyApart
      <4>3. ~Busy(call'[t], g)
        BY <4>1, <1>2, <1>5, <1>7, <2>1 DEF BusyApart
      <4>4. v # t => (Busy(call'[v], g) => v = u)
        BY <4>1, <1>5, <2>1 DEF BusyApart
      <4> QED
        BY <4>2, <4>3, <4>4
    <3> QED
      BY <3>1, <3>2
  <2>5. \A g \in Frame :
          (\E u \in Callers : Busy(call'[u], g) \/ \E c \in blocks'[u] : InBlock(c, g)) <=>
          (\E u \in Callers : Busy(call[u], g) \/ \E c \in blocks[u] : InBlock(c, g))
    <3> TAKE g \in Frame
    <3>1. ASSUME NEW u \in Callers, Busy(call'[u], g) \/ \E c \in blocks'[u] : InBlock(c, g)
          PROVE  \E v \in Callers : Busy(call[v], g) \/ \E c \in blocks[v] : InBlock(c, g)
      BY <3>1, <1>2, <1>5, <1>7, <1>12
    <3>2. ASSUME NEW u \in Callers, Busy(call[u], g) \/ \E c \in blocks[u] : InBlock(c, g)
          PROVE  \E v \in Callers : Busy(call'[v], g) \/ \E c \in blocks'[v] : InBlock(c, g)
      BY <3>2, <1>2, <1>5, <1>7, <1>8
    <3> QED
      BY <3>1, <3>2
  <2>6. UsedIsMarked' /\ MarkedIsUsed'
    BY <1>1, <2>1, <2>5 DEF UsedIsMarked, MarkedIsUsed, bootvars
  <2>7. FoundIsFree'
    BY <1>1, <1>5, <1>7, <2>1 DEF FoundIsFree
  <2> QED
    BY <2>2, <2>3, <2>4, <2>6, <2>7 DEF Accounts
<1>15. ASSUME overlapped' = "none" PROVE AloneSkipsNone'
  <2>1. \A u \in Callers : ~Allocating(u)
    BY <1>1, <1>15
  <2>2. \A u \in Callers : ~Allocating(u)'
    BY <1>5, <1>9, <2>1 DEF Allocating
  <2> QED
    BY <2>2 DEF AloneSkipsNone
<1> QED
  BY <1>10, <1>11, <1>13, <1>14, <1>15 DEF IInv, Safe, Accounts, AloneSkipsNone

\* The next frame of a block that was given up is free.
LEMMA ClearIsSound ==
  ASSUME IInv, NEW t \in Callers, Clear(t)
  PROVE  IInv'
<1> DEFINE s == call[t].start
           k == call[t].i
           m == call[t].n
           f == s + k
           more == [op |-> "free", start |-> s, i |-> k + 1, n |-> m]
           next == IF k + 1 < m THEN more ELSE Idle
<1>1. call[t].op = "free"
  BY DEF Clear
<1>2. /\ s \in Nat /\ k \in Nat /\ m \in Nat /\ k < m /\ 1 <= s /\ call[t] # Idle /\ CallOK(call[t])
      /\ call[t] = [op |-> "free", start |-> s, i |-> k, n |-> m]
      /\ f \in Frame /\ f \notin reserved /\ s + m <= range_end /\ phase # 0
  BY <1>1, LoopFacts DEF IInv
<1>3. UNCHANGED <<bootvars, phase, blocks, overlapped>> /\ SetBit(f, FALSE)
  BY DEF Clear
<1>4. /\ WalkOK' /\ ReservedStay'
      /\ ~alloc_map'[f] /\ \A g \in Frame : g # f => alloc_map'[g] = alloc_map[g]
  BY <1>2, <1>3, OneBitChanges DEF IInv
<1>5. \A g \in Frame : alloc_map'[g] <=> alloc_map[g] /\ g # f
  BY <1>4
<1>6. \A g \in Frame : g \in Nat
  BY DEF Frame
<1>7. call \in [Callers -> Calls] /\ BlocksOK
  BY DEF IInv, Safe, CallsOK
<1>8. call' = [call EXCEPT ![t] = next]
  <2>1. call' = [call EXCEPT ![t] = IF k + 1 < m THEN [call[t] EXCEPT !.i = @ + 1] ELSE Idle]
    BY DEF Clear
  <2>2. [call[t] EXCEPT !.i = @ + 1] = more
    BY <1>2, LoopGoesOn
  <2> QED
    BY <2>1, <2>2
<1>9. call'[t] = next /\ \A u \in Callers : u # t => call'[u] = call[u]
  BY <1>7, <1>8
<1>10. next \in Calls /\ (next # Idle => CallOK(next)) /\ next.op \in {"none", "free"}
  <2>1. more \in Calls /\ Idle \in Calls
    BY <1>2 DEF Calls
  <2>2. k + 1 < m => CallOK(more)
    BY <1>2 DEF CallOK
  <2>3. more.op = "free" /\ Idle.op = "none"
    BY DEF Idle
  <2> QED
    BY <2>1, <2>2, <2>3
<1>11. \A g \in Frame : (Busy(next, g) <=> Busy(call[t], g) /\ g # f) /\ ~Found(next, g)
  <2>1. \A g \in Frame : (Busy(more, g) <=> Busy(call[t], g) /\ g # f) /\ ~Found(more, g)
    BY <1>1, <1>2, <1>6 DEF Busy, Found
  <2>2. ~(k + 1 < m) => \A g \in Frame : Busy(call[t], g) => g = f
    BY <1>1, <1>2, <1>6 DEF Busy
  <2>3. \A g \in Frame : ~Busy(Idle, g) /\ ~Found(Idle, g)
    BY DEF Busy, Found, Idle
  <2> QED
    BY <2>1, <2>2, <2>3
<1>12. Busy(call[t], f)
  BY <1>1, <1>2 DEF Busy
<1>13. ~Allocating(t) /\ ~Allocating(t)'
  BY <1>1, <1>9, <1>10 DEF Allocating
<1> HIDE DEF next, f
<1>14. CallsOK'
  <2>1. call' \in [Callers -> Calls]
    BY <1>7, <1>8, <1>10
  <2>2. \A u \in Callers : call'[u] # Idle => CallOK(call'[u])
    BY <1>9, <1>10 DEF IInv, Safe, CallsOK
  <2> QED
    BY <2>1, <2>2, <1>3 DEF CallsOK, CallOK, bootvars
<1>15. BlocksOK'
  BY <1>3, <1>7 DEF BlocksOK, bootvars
<1>16. ASSUME overlapped # "allocate" PROVE Accounts'
  <2>1. OneAllocates /\ BlocksApart /\ BusyApart /\ UsedIsMarked /\ MarkedIsUsed /\ FoundIsFree
    BY <1>16 DEF IInv, Accounts
  <2>2. \A u \in Callers : u # t => ~Busy(call[u], f)
    BY <1>2, <1>12, <2>1 DEF BusyApart
  <2>3. \A u \in Callers : \A g \in Frame : Busy(call'[u], g) <=> Busy(call[u], g) /\ g # f
    BY <1>9, <1>11, <2>2
  <2>4. \A u \in Callers : \A b \in blocks[u] : ~InBlock(b, f)
    BY <1>2, <1>12, <2>1 DEF BusyApart
  <2>5. OneAllocates'
    BY <1>9, <1>13, <2>1 DEF OneAllocates, Allocating
  <2>6. BlocksApart' /\ BusyApart'
    BY <1>3, <2>1, <2>3 DEF BlocksApart, BusyApart
  <2>7. UsedIsMarked'
    BY <1>3, <1>5, <2>1, <2>3, <2>4 DEF UsedIsMarked
  <2>8. MarkedIsUsed'
    BY <1>2, <1>3, <1>5, <2>1, <2>3 DEF MarkedIsUsed, bootvars
  <2>9. FoundIsFree'
    BY <1>5, <1>9, <1>11, <2>1 DEF FoundIsFree
  <2> QED
    BY <2>5, <2>6, <2>7, <2>8, <2>9 DEF Accounts
<1>17. ASSUME overlapped = "none" PROVE AloneSkipsNone'
  <2>1. \A u \in Callers : ~Allocating(u)
    BY <1>2, <1>13, <1>17 DEF IInv, AloneSkipsNone
  <2>2. \A u \in Callers : ~Allocating(u)'
    BY <1>9, <1>13, <2>1 DEF Allocating
  <2> QED
    BY <2>2 DEF AloneSkipsNone
<1> QED
  BY <1>3, <1>4, <1>14, <1>15, <1>16, <1>17 DEF IInv, Safe, Accounts, AloneSkipsNone

\* A step that changes nothing keeps it.
LEMMA StutterIsSound == IInv /\ UNCHANGED vars => IInv'
BY DEF vars, bootvars, IInv, Safe, WalkOK, ReservedStay, CallsOK, CallOK, BlocksOK, Accounts, OneAllocates,
       BlocksApart, BusyApart, UsedIsMarked, MarkedIsUsed, FoundIsFree, AloneSkipsNone, SkipsNone, Allocating

\* Every step keeps the invariant.
LEMMA NextIsSound ==
  ASSUME EntriesFit, IInv, [Next]_vars
  PROVE  IInv'
<1>1. ASSUME NEW d \in Descriptors, ReadDescriptor(d) PROVE IInv'
  BY <1>1, ReadDescriptorIsSound
<1>2. CASE SetMemoryRange
  BY <1>2, SetMemoryRangeIsSound
<1>3. CASE BootAllocate
  BY <1>3, BootAllocateIsSound
<1>4. CASE BootDone
  BY <1>4, BootDoneIsSound
<1>5. ASSUME NEW t \in Tasks, NEW n \in Sizes, TaskAllocate(t, n) PROVE IInv'
  BY <1>5, TaskAllocateIsSound
<1>6. ASSUME NEW t \in Callers, Scan(t) PROVE IInv'
  BY <1>6, ScanIsSound
<1>7. ASSUME NEW t \in Callers, Mark(t) PROVE IInv'
  BY <1>7, MarkIsSound
<1>8. ASSUME NEW t \in Callers, Clear(t) PROVE IInv'
  BY <1>8, ClearIsSound
<1>9. ASSUME NEW t \in Tasks, NEW b \in blocks[t], Free(t, b) PROVE IInv'
  BY <1>9, FreeIsSound
<1>10. CASE UNCHANGED vars
  BY <1>10, StutterIsSound
<1> QED
  BY <1>1, <1>2, <1>3, <1>4, <1>5, <1>6, <1>7, <1>8, <1>9, <1>10 DEF Next

\* The bitmap, the owners and the memory map agree whatever the memory map and the interleaving
\* of the tasks (memory_manager.cpp:51, Allocate, and memory_manager.cpp:78, Free).
THEOREM FramesAreSound ==
  ASSUME EntriesFit
  PROVE  Spec => []FramesSound
<1>1. Init => IInv
  BY InitIsSound
<1>2. IInv /\ [Next]_vars => IInv'
  BY NextIsSound
<1>3. IInv => FramesSound
  BY InvariantIsSound
<1> QED
  BY <1>1, <1>2, <1>3, PTL DEF Spec

\* Only a search itself ends it.
LEMMA OnlyScanEndsSearch ==
  ASSUME IInv, Next, NEW t \in Callers, call[t].op = "scan", ~Scan(t)
  PROVE  call'[t] = call[t]
<1>1. call \in [Callers -> Calls] /\ call[t] # Idle /\ Boot \in Callers
  BY DEF IInv, Safe, CallsOK, Idle, Callers
<1>2. ASSUME NEW u \in Callers, NEW n, Allocate(u, n) PROVE call'[t] = call[t]
  BY <1>1, <1>2 DEF Allocate
<1>3. CASE (\E d \in Descriptors : ReadDescriptor(d)) \/ SetMemoryRange \/ BootDone
  BY <1>3 DEF ReadDescriptor, SetMemoryRange, BootDone
<1>4. CASE BootAllocate
  BY <1>1, <1>2, <1>4 DEF BootAllocate
<1>5. ASSUME NEW u \in Tasks, NEW n \in Sizes, TaskAllocate(u, n) PROVE call'[t] = call[t]
  BY <1>2, <1>5 DEF TaskAllocate, Callers
<1>6. ASSUME NEW u \in Callers, Scan(u) \/ Mark(u) \/ Clear(u) PROVE call'[t] = call[t]
  <2>1. u # t
    BY <1>6 DEF Mark, Clear
  <2>2. CASE Scan(u)
    BY <2>1, <2>2, <1>1 DEF Scan
  <2>3. CASE Mark(u)
    BY <2>1, <2>3, <1>1 DEF Mark
  <2>4. CASE Clear(u)
    BY <2>1, <2>4, <1>1 DEF Clear
  <2> QED
    BY <1>6, <2>2, <2>3, <2>4
<1>7. ASSUME NEW u \in Tasks, NEW b \in blocks[u], Free(u, b) PROVE call'[t] = call[t]
  BY <1>1, <1>7 DEF Free
<1> QED
  BY <1>3, <1>4, <1>5, <1>6, <1>7 DEF Next

\* The least number of a set that holds it.
LEMMA LeastOf ==
  ASSUME NEW S, S \subseteq Int, NEW x \in S, \A y \in S : x <= y
  PROVE  Min(S) = x
<1> DEFINE P(z) == \A y \in S : z <= y
<1>1. \E z \in S : P(z)
  OBVIOUS
<1>2. Min(S) \in S /\ P(Min(S))
  <2>1. Min(S) = CHOOSE z \in S : P(z)
    BY DEF Min
  <2> HIDE DEF P
  <2> QED
    BY <1>1, <2>1
<1>3. Min(S) \in Int /\ x \in Int /\ Min(S) <= x /\ x <= Min(S)
  BY <1>2
<1> QED
  BY <1>3

\* The search finds the first fit, and finds none only when there is none.
LEMMA ScanFindsFirstFit ==
  ASSUME IInv, NEW t \in Callers, Scan(t), overlapped = "none", call'[t].op # "scan"
  PROVE  FirstFit(call[t].n) =
           IF call'[t].op = "mark" THEN {[start |-> call'[t].start, n |-> call'[t].n]} ELSE {}
<1> DEFINE s == call[t].start
           k == call[t].i
           m == call[t].n
           f == s + k
           fits == {z \in range_begin..range_end - m : \A g \in z..z + m - 1 : ~alloc_map[g]}
<1>1. call[t].op = "scan"
  BY DEF Scan
<1>2. /\ s \in Nat /\ k \in Nat /\ m \in Nat /\ k < m /\ 1 <= s
      /\ range_end \in Nat /\ range_begin = 1 /\ range_end <= kFrameCount
      /\ SkipsNone(call[t])
      /\ \A g \in Frame : Found(call[t], g) => ~alloc_map[g]
  BY <1>1, ScanFacts
<1>3. call \in [Callers -> Calls]
  BY DEF IInv, Safe, CallsOK
<1>4. call[t] = [op |-> "scan", start |-> s, i |-> k, n |-> m]
  BY <1>1, <1>2, CallKinds DEF IInv, Safe, Idle
<1>5. \A z \in fits : s <= z
  <2> SUFFICES ASSUME NEW z \in range_begin..range_end - m, \A g \in z..z + m - 1 : ~alloc_map[g], z < s
               PROVE  FALSE
    BY <1>2
  <2> QED
    BY <1>1, <1>2 DEF SkipsNone
<1>6. FirstFit(m) = IF fits = {} THEN {} ELSE {[start |-> Min(fits), n |-> m]}
  BY DEF FirstFit
<1>7. CASE f >= range_end
  <2>1. call'[t] = Idle
    BY <1>3, <1>7 DEF Scan
  <2>2. fits = {}
    BY <1>2, <1>5, <1>7
  <2> QED
    BY <2>1, <2>2, <1>6 DEF Idle
<1>8. CASE f < range_end /\ alloc_map[f]
  <2>1. call'[t] = SearchOn(call[t])
    BY <1>2, <1>3, <1>8 DEF Scan, GetBit
  <2>2. call'[t].op = "scan"
    BY <2>1, <1>4, SearchGoesOn
  <2> QED
    BY <2>2
<1>9. CASE f < range_end /\ ~alloc_map[f] /\ k + 1 < m
  <2>1. call'[t] = [call[t] EXCEPT !.i = @ + 1]
    BY <1>2, <1>3, <1>9 DEF Scan, GetBit
  <2>2. call'[t].op = "scan"
    BY <2>1, <1>4
  <2> QED
    BY <2>2
<1>10. CASE f < range_end /\ ~alloc_map[f] /\ ~(k + 1 < m)
  <2>1. call'[t] = [call[t] EXCEPT !.op = "mark", !.i = 0]
    BY <1>2, <1>3, <1>10 DEF Scan, GetBit
  <2>2. call'[t] = [op |-> "mark", start |-> s, i |-> 0, n |-> m]
    BY <2>1, <1>4, SearchIsOver
  <2>3. m = k + 1
    BY <1>2, <1>10
  <2>4. \A g \in s..s + m - 1 : ~alloc_map[g]
    <3> TAKE g \in s..s + m - 1
    <3>1. CASE g = f
      BY <3>1, <1>10
    <3>2. CASE g # f
      <4>1. g \in Int /\ s <= g /\ g < s + k
        BY <3>2, <2>3, <1>2
      <4>2. g \in Frame /\ Found(call[t], g)
        BY <4>1, <1>1, <1>2, <1>10, MemoryAssumption DEF Frame, Found
      <4> QED
        BY <4>2, <1>2
    <3> QED
      BY <3>1, <3>2
  <2>5. s \in fits
    BY <2>3, <2>4, <1>2, <1>10
  <2>6. fits \subseteq Int
    BY <1>2
  <2>7. Min(fits) = s
    BY <2>5, <2>6, <1>5, LeastOf
  <2> HIDE DEF fits
  <2> QED
    BY <2>2, <2>5, <2>7, <1>6
<1> QED
  BY <1>2, <1>7, <1>8, <1>9, <1>10

\* The search that skips behind every frame in use is a first fit, for every bitmap and every
\* size, as long as no other task comes in between (memory_manager.cpp:58, Allocate).
THEOREM SearchIsFirstFit ==
  ASSUME EntriesFit
  PROVE  Spec => FindsFirstFit
<1> DEFINE FoundFirst(t) ==
      overlapped = "none" /\ call[t].op = "scan" /\ call[t]'.op # "scan" =>
         FirstFit(call[t].n) =
           IF call[t]'.op = "mark" THEN {[start |-> call[t]'.start, n |-> call[t]'.n]} ELSE {}
<1>1. Init => IInv
  BY InitIsSound
<1>2. IInv /\ [Next]_vars => IInv'
  BY NextIsSound
<1>3. IInv /\ [Next]_vars => [\A t \in Callers : FoundFirst(t)]_vars
  <2> SUFFICES ASSUME IInv, Next, NEW t \in Callers, overlapped = "none",
                      call[t].op = "scan", call'[t].op # "scan"
               PROVE  FirstFit(call[t].n) =
                        IF call'[t].op = "mark" THEN {[start |-> call'[t].start, n |-> call'[t].n]} ELSE {}
    OBVIOUS
  <2>1. Scan(t)
    BY OnlyScanEndsSearch
  <2> QED
    BY <2>1, ScanFindsFirstFit
<1> QED
  BY <1>1, <1>2, <1>3, PTL DEF Spec, FindsFirstFit

-----------------------------------------------------------------------------
(* AppMemory: the addresses of an application's heap, demands and mappings. *)

Parts == [from : Nat, to : Nat]

\* The parts end where the break or the demanded range ends, whatever was asked for in between.
Ends ==
  /\ dpaging_end \in Nat /\ file_map_end \in Nat /\ dpage_end \in Nat /\ program_break \in Nat
  /\ DPagingBegin <= dpaging_end /\ dpaging_end <= file_map_end
  /\ program_break <= dpage_end /\ dpage_end <= dpaging_end
  /\ dpage_end # 0 => DPagingBegin <= program_break

\* The heap is below the break.
HeapBelow ==
  /\ heap \subseteq Parts
  /\ \A p \in heap : DPagingBegin <= p.from /\ p.from < p.to /\ p.to <= program_break
HeapApart == \A p, q \in heap : p # q => Apart(p, q)

\* Nothing was demanded between the break and the end of sbrk's last demand: the heap may grow there.
DemandedApart ==
  /\ demanded \subseteq Parts
  /\ \A q \in demanded : /\ q.from < q.to /\ q.to <= dpaging_end
                         /\ q.to <= program_break \/ dpage_end <= q.from
                         /\ \A p \in heap : Apart(p, q)

MappedAbove == mapped \subseteq Parts /\ \A q \in mapped : file_map_end <= q.from

HeapInv == Ends /\ HeapBelow /\ HeapApart /\ DemandedApart /\ MappedAbove

\* A demand of whole pages holds what sbrk was asked for.
LEMMA PagesHold ==
  ASSUME NEW incr \in Nat
  PROVE  /\ NumPages(incr) \in Nat
         /\ incr <= PageSize * NumPages(incr)
BY DEF NumPages, PageSize

\* The inductive invariant gives the property: mappings are above the demanded range.
LEMMA HeapInvIsSound == HeapInv => HeapIsSound
<1> SUFFICES ASSUME HeapInv PROVE HeapIsSound
  OBVIOUS
<1> USE DEF HeapInv, Ends
<1>1. \A p \in heap : DPagingBegin <= p.from /\ p.to <= dpaging_end
  BY AppMemoryAssumption DEF HeapBelow, Parts
<1>2. \A p, q \in heap : p # q => Apart(p, q)
  BY DEF HeapApart
<1>3. \A p \in heap, q \in demanded : Apart(p, q)
  BY DEF DemandedApart
<1>4. \A p \in heap, q \in mapped : Apart(p, q)
  BY <1>1, AppMemoryAssumption DEF HeapBelow, MappedAbove, Parts, Apart
<1> QED
  BY <1>1, <1>2, <1>3, <1>4 DEF HeapIsSound

\* The first state has the invariant.
LEMMA HeapInitIsSound == MemInit => HeapInv
BY AppMemoryAssumption
   DEF MemInit, HeapInv, Ends, HeapBelow, HeapApart, DemandedApart, MappedAbove

\* A part that starts at the old break or at a new demand.
LEMMA SbrkIsSound ==
  ASSUME HeapInv, NEW incr \in Increments, Sbrk(incr)
  PROVE  HeapInv'
<1> USE AppMemoryAssumption DEF Ends
<1>1. incr \in Nat /\ incr > 0
  OBVIOUS
<1>2. NumPages(incr) \in Nat /\ PageSize * NumPages(incr) \in Nat /\ incr <= PageSize * NumPages(incr)
  BY <1>1, PagesHold DEF PageSize
<1> DEFINE pages == PageSize * NumPages(incr)
<1>3. CASE Exceeds(incr)
  <2> DEFINE new == [from |-> dpaging_end, to |-> dpaging_end + incr]
  <2>1. /\ dpaging_end' = dpaging_end + pages /\ dpaging_end' <= file_map_end
        /\ dpage_end' = dpaging_end' /\ program_break' = dpaging_end + incr
        /\ heap' = heap \cup {new}
        /\ file_map_end' = file_map_end /\ demanded' = demanded /\ mapped' = mapped
    BY <1>3 DEF Sbrk, DemandPages, Part
  <2>2. pages \in Nat /\ incr <= pages
    BY <1>2
  <2> HIDE DEF pages
  <2>3. Ends'
    BY <2>1, <2>2, <1>1 DEF HeapInv
  <2>4. \A p \in heap : p.from \in Nat /\ p.to \in Nat /\ p.to <= dpaging_end
    BY DEF HeapInv, HeapBelow, Parts
  <2>5. HeapBelow'
    BY <2>1, <2>4, <1>1 DEF HeapInv, HeapBelow, Parts
  <2>6. HeapApart'
    BY <2>1, <2>4 DEF HeapInv, HeapApart, Apart
  <2>7. \A q \in demanded : q.from \in Nat /\ q.to \in Nat /\ q.from < q.to /\ q.to <= dpaging_end
    BY DEF HeapInv, DemandedApart, Parts
  <2>8. DemandedApart'
    BY <2>1, <2>2, <2>7, <1>1 DEF HeapInv, DemandedApart, Apart
  <2>9. MappedAbove'
    BY <2>1 DEF HeapInv, MappedAbove
  <2> QED
    BY <2>3, <2>5, <2>6, <2>8, <2>9 DEF HeapInv
<1>4. CASE ~Exceeds(incr)
  <2> DEFINE new == [from |-> program_break, to |-> program_break + incr]
  <2>1. /\ program_break' = program_break + incr
        /\ heap' = heap \cup {new}
        /\ UNCHANGED <<dpaging_end, dpage_end, file_map_end, demanded, mapped>>
    BY <1>4 DEF Sbrk, Part
  <2>2. program_break + incr <= dpage_end /\ dpage_end # 0
    BY <1>4, <1>1 DEF HeapInv, Exceeds
  <2>3. Ends'
    BY <2>1, <2>2, <1>1 DEF HeapInv
  <2>4. DPagingBegin <= program_break
    BY <2>2 DEF HeapInv
  <2>5. HeapBelow'
    BY <2>1, <2>4, <1>1 DEF HeapInv, HeapBelow, Parts
  <2>6. HeapApart'
    BY <2>1 DEF HeapInv, HeapBelow, HeapApart, Apart, Parts
  <2>7. DemandedApart'
    BY <2>1, <2>2, <1>1 DEF HeapInv, DemandedApart, Apart, Parts
  <2>8. MappedAbove'
    BY <2>1 DEF HeapInv, MappedAbove
  <2> QED
    BY <2>3, <2>5, <2>6, <2>7, <2>8 DEF HeapInv
<1> QED
  BY <1>3, <1>4

\* What malloc gives back is above every other part.
LEMMA TrimIsSound ==
  ASSUME HeapInv, NEW n \in Increments, NEW part \in heap, GiveBack(part, n)
  PROVE  HeapInv'
<1> USE AppMemoryAssumption DEF Ends
<1> DEFINE rest == [from |-> part.from, to |-> part.to - n]
<1>1. n \in Nat /\ n > 0 /\ n <= part.to - part.from
  BY DEF GiveBack
<1>2. /\ part.from \in Nat /\ part.to \in Nat /\ part.from < part.to
      /\ part.to = program_break /\ DPagingBegin <= part.from
  BY DEF GiveBack, HeapInv, HeapBelow, Parts
<1>3. /\ program_break' = program_break - n
      /\ UNCHANGED <<dpaging_end, dpage_end, file_map_end, demanded, mapped>>
      /\ \A p \in heap' : (p = rest /\ rest.from < rest.to) \/ (p \in heap /\ p # part)
  BY <1>1, <1>2 DEF GiveBack, Part
<1>4. \A p \in heap : p # part => p.from \in Nat /\ p.to \in Nat /\ p.to <= part.from
  BY <1>2 DEF HeapInv, HeapBelow, HeapApart, Apart, Parts
<1>5. rest \in Parts /\ rest.from = part.from /\ rest.to = program_break'
  BY <1>1, <1>2, <1>3 DEF Parts
<1>6. Ends'
  BY <1>1, <1>2, <1>3 DEF HeapInv
<1>7. HeapBelow'
  <2>1. \A p \in heap' : /\ p \in Parts /\ DPagingBegin <= p.from
                         /\ p.from < p.to /\ p.to <= program_break'
    <3> TAKE p \in heap'
    <3>1. CASE p = rest /\ rest.from < rest.to
      BY <3>1, <1>2, <1>5
    <3>2. CASE p \in heap /\ p # part
      BY <3>2, <1>1, <1>2, <1>3, <1>4 DEF HeapInv, HeapBelow
    <3> QED
      BY <1>3, <3>1, <3>2
  <2> QED
    BY <2>1 DEF HeapBelow
<1>8. HeapApart'
  <2> SUFFICES ASSUME NEW p \in heap', NEW q \in heap', p # q
               PROVE  Apart(p, q)
    BY DEF HeapApart
  <2>1. CASE p = rest
    BY <2>1, <1>3, <1>4, <1>5 DEF Apart
  <2>2. CASE q = rest
    BY <2>2, <1>3, <1>4, <1>5 DEF Apart
  <2>3. CASE p # rest /\ q # rest
    BY <2>3, <1>3 DEF HeapInv, HeapApart
  <2> QED
    BY <2>1, <2>2, <2>3
<1>9. DemandedApart'
  <2>1. demanded' \subseteq Parts
    BY <1>3 DEF HeapInv, DemandedApart
  <2> SUFFICES ASSUME NEW q \in demanded
               PROVE  /\ q.from < q.to /\ q.to <= dpaging_end'
                      /\ q.to <= program_break' \/ dpage_end' <= q.from
                      /\ \A p \in heap' : Apart(p, q)
    BY <1>3, <2>1 DEF DemandedApart
  <2>2. q.from \in Nat /\ q.to \in Nat /\ q.from < q.to /\ q.to <= dpaging_end
    BY DEF HeapInv, DemandedApart, Parts
  <2>3. q.to <= part.from \/ part.to <= q.from
    BY DEF HeapInv, DemandedApart, Apart
  <2>4. q.to <= program_break \/ dpage_end <= q.from
    BY DEF HeapInv, DemandedApart
  <2>5. q.to <= part.from \/ dpage_end <= q.from
    BY <2>2, <2>3, <2>4, <1>2
  <2>6. q.to <= program_break' \/ dpage_end' <= q.from
    BY <2>2, <2>5, <1>1, <1>2, <1>3
  <2>7. \A p \in heap' : Apart(p, q)
    <3> TAKE p \in heap'
    <3>1. CASE p = rest
      BY <3>1, <2>2, <2>3, <1>1, <1>2 DEF Apart
    <3>2. CASE p \in heap
      BY <3>2 DEF HeapInv, DemandedApart
    <3> QED
      BY <1>3, <3>1, <3>2
  <2> QED
    BY <2>2, <2>6, <2>7, <1>3
<1>10. MappedAbove'
  BY <1>3 DEF HeapInv, MappedAbove
<1> QED
  BY <1>6, <1>7, <1>8, <1>9, <1>10 DEF HeapInv

\* The first question makes the break known.
LEMMA AskBreakIsSound == HeapInv /\ AskBreak => HeapInv'
<1> SUFFICES ASSUME HeapInv, AskBreak PROVE HeapInv'
  OBVIOUS
<1> USE AppMemoryAssumption DEF Ends
<1>1. CASE Exceeds(0)
  <2>1. NumPages(0) = 0
    BY DEF NumPages, PageSize
  <2>2. dpage_end = 0 /\ program_break = 0
    BY <1>1 DEF HeapInv, Exceeds
  <2>3. heap = {}
    BY <2>2 DEF HeapInv, HeapBelow, Parts
  <2>4. /\ dpaging_end' = dpaging_end /\ dpage_end' = dpaging_end
        /\ program_break' = dpaging_end
        /\ UNCHANGED <<file_map_end, heap, demanded, mapped>>
    BY <1>1, <2>1 DEF AskBreak, DemandPages, HeapInv, PageSize
  <2> QED
    BY <2>3, <2>4 DEF HeapInv, HeapBelow, HeapApart, DemandedApart, MappedAbove
<1>2. CASE ~Exceeds(0)
  <2>1. UNCHANGED memVars
    BY <1>2 DEF AskBreak, memVars
  <2> QED
    BY <2>1 DEF memVars, HeapInv, HeapBelow, HeapApart, DemandedApart, MappedAbove, Apart
<1> QED
  BY <1>1, <1>2

\* The application's own demand is above all of sbrk's.
LEMMA DemandIsSound ==
  ASSUME HeapInv, NEW n \in Demands, DemandOwn(n)
  PROVE  HeapInv'
<1> USE AppMemoryAssumption DEF Ends
<1> DEFINE pages == PageSize * n
           new == [from |-> dpaging_end, to |-> dpaging_end + pages]
<1>1. pages \in Nat /\ pages > 0
  BY DEF PageSize
<1>2. /\ dpaging_end' = dpaging_end + pages /\ dpaging_end' <= file_map_end
      /\ demanded' = demanded \cup {new}
      /\ UNCHANGED <<file_map_end, dpage_end, program_break, heap, mapped>>
  BY DEF DemandOwn, DemandPages, Part
<1> HIDE DEF pages
<1>3. Ends' /\ HeapBelow' /\ HeapApart' /\ MappedAbove'
  BY <1>1, <1>2 DEF HeapInv, HeapBelow, HeapApart, MappedAbove
<1>4. DemandedApart'
  <2>1. new \in Parts /\ new.from = dpaging_end /\ new.to = dpaging_end'
    BY <1>1, <1>2 DEF HeapInv, Parts
  <2>2. \A p \in heap : Apart(p, new)
    BY <2>1 DEF HeapInv, HeapBelow, Parts, Apart
  <2>3. \A q \in demanded : q.from \in Nat /\ q.to \in Nat
    BY DEF HeapInv, DemandedApart, Parts
  <2>4. \A q \in demanded : /\ q.from < q.to /\ q.to <= dpaging_end'
                            /\ q.to <= program_break' \/ dpage_end' <= q.from
                            /\ \A p \in heap' : Apart(p, q)
    BY <2>3, <1>1, <1>2 DEF HeapInv, DemandedApart
  <2>5. /\ new.from < new.to /\ new.to <= dpaging_end' /\ dpage_end' <= new.from
        /\ \A p \in heap' : Apart(p, new)
    BY <2>1, <2>2, <1>1, <1>2 DEF HeapInv
  <2> HIDE DEF new
  <2> QED
    BY <2>1, <2>4, <2>5, <1>2 DEF HeapInv, DemandedApart
<1> QED
  BY <1>3, <1>4 DEF HeapInv

\* A mapping stays above the demanded range.
LEMMA MapFileIsSound ==
  ASSUME HeapInv, NEW size \in FileSizes, MapFile(size)
  PROVE  HeapInv'
<1> USE AppMemoryAssumption DEF Ends
<1> DEFINE begin == ((file_map_end - size) \div PageSize) * PageSize
<1>1. begin \in Int /\ begin <= file_map_end - size /\ dpaging_end <= begin
  BY DEF MapFile, HeapInv, PageSize
<1>2. /\ file_map_end' = begin /\ mapped' = mapped \cup {[from |-> begin, to |-> file_map_end]}
      /\ UNCHANGED <<dpaging_end, dpage_end, program_break, heap, demanded>>
  BY DEF MapFile, Part
<1> HIDE DEF begin
<1>3. Ends' /\ HeapBelow' /\ HeapApart' /\ DemandedApart'
  BY <1>1, <1>2 DEF HeapInv, HeapBelow, HeapApart, DemandedApart
<1>4. MappedAbove'
  BY <1>1, <1>2 DEF HeapInv, MappedAbove, Parts
<1> QED
  BY <1>3, <1>4 DEF HeapInv

\* The heap is sound for every layout and every order of demands: what sbrk returns is memory of
\* its own (newlib_support.c:71, which keeps the end of its last demand only).
THEOREM HeapSound == MemSpec => []HeapIsSound
<1>1. MemInit => HeapInv
  BY HeapInitIsSound
<1>2. HeapInv /\ [MemNext]_memVars => HeapInv'
  <2> SUFFICES ASSUME HeapInv, [MemNext]_memVars PROVE HeapInv'
    OBVIOUS
  <2>1. CASE AskBreak
    BY <2>1, AskBreakIsSound
  <2>2. ASSUME NEW incr \in Increments, Sbrk(incr) PROVE HeapInv'
    BY <2>2, SbrkIsSound
  <2>3. ASSUME NEW n \in Increments, NEW part \in heap, GiveBack(part, n) PROVE HeapInv'
    BY <2>3, TrimIsSound
  <2>4. ASSUME NEW n \in Demands, DemandOwn(n) PROVE HeapInv'
    BY <2>4, DemandIsSound
  <2>5. ASSUME NEW size \in FileSizes, MapFile(size) PROVE HeapInv'
    BY <2>5, MapFileIsSound
  <2>6. CASE UNCHANGED memVars
    BY <2>6 DEF memVars, HeapInv, Ends, HeapBelow, HeapApart, DemandedApart, MappedAbove, Apart
  <2> QED
    BY <2>1, <2>2, <2>3, <2>4, <2>5, <2>6 DEF MemNext
<1>3. HeapInv => HeapIsSound
  BY HeapInvIsSound
<1> QED
  BY <1>1, <1>2, <1>3, PTL DEF MemSpec

-----------------------------------------------------------------------------
(* Files. Numbers first.                                                    *)

\* The order that the library's theorem about natural numbers is stated with.
Less == {p \in Nat \X Nat : p[1] < p[2]}

\* A nonempty set of natural numbers has a least element.
LEMMA LeastNatural ==
  ASSUME NEW S \in SUBSET Nat, S # {}
  PROVE  \E x \in S : \A y \in S : x <= y
<1>1. OpToRel(<, Nat) = Less
  BY DEF OpToRel, Less
<1>2. IsWellFoundedOn(Less, Nat)
  BY NatLessThanWellFounded, <1>1
<1>3. PICK x \in S : \A y \in S : ~ (<<y, x>> \in Less)
  BY <1>2, WFMin, Zenon
<1>4. \A y \in S : x <= y
  <2> SUFFICES ASSUME NEW y \in S PROVE x <= y
    OBVIOUS
  <2>1. x \in Nat /\ y \in Nat
    OBVIOUS
  <2>2. ~ (<<y, x>> \in Less)
    BY <1>3
  <2> QED BY <2>1, <2>2 DEF Less
<1> QED BY <1>4

\* Induction, with a set for the predicate.
LEMMA InductionOn ==
  ASSUME NEW S \in SUBSET Nat, 0 \in S, \A n \in S : n + 1 \in S
  PROVE  S = Nat
<1> SUFFICES ASSUME Nat \ S # {} PROVE FALSE
  OBVIOUS
<1> DEFINE U == Nat \ S
<1>1. U \in SUBSET Nat /\ U # {}
  OBVIOUS
<1> HIDE DEF U
<1>2. PICK x \in U : \A y \in U : x <= y
  BY <1>1, LeastNatural
<1>3. x \in Nat /\ x \notin S /\ x # 0
  BY <1>2, <1>1 DEF U
<1>4. x - 1 \in Nat /\ x - 1 \notin U
  BY <1>2, <1>3
<1>5. x - 1 \in S
  BY <1>4 DEF U
<1> QED BY <1>5, <1>3

-----------------------------------------------------------------------------
(* Chains.                                                                  *)

\* s is the chain of clusters that starts at c.
IsChain(f, c, s) ==
  /\ s \in Seq(Cluster) /\ Len(s) > 0 /\ s[1] = c
  /\ \A i, j \in 1 .. Len(s) : s[i] = s[j] => i = j
  /\ \A i \in 1 .. Len(s) - 1 : f[s[i]] = s[i + 1]
  /\ f[s[Len(s)]] = kEndOfClusterchain

\* Numbers of clusters are neither that of a free cluster nor that of the end of a chain.
LEMMA ClustersAre ==
  /\ \A c \in Cluster : c \in Nat /\ c # 0 /\ c # kEndOfClusterchain
  /\ RootCluster \in Cluster /\ kEndOfClusterchain \in Nat \ {0}
  /\ IsFiniteSet(Cluster) /\ Cardinality(Cluster) = NumClusters /\ NumClusters \in Nat \ {0}
<1>1. NumClusters \in Nat \ {0} /\ FirstCluster = 2 /\ kEndOfClusterchain \in Nat \ {0} /\ RootCluster = 2
      /\ FirstCluster + NumClusters <= kEndOfClusterchain
  <2>1. kEndOfClusterchain \in Nat \ {0}
    BY SMT DEF kEndOfClusterchain
  <2>2. FirstCluster = 2 /\ RootCluster = 2
    BY DEF FirstCluster, RootCluster
  <2>3. NumClusters \in Nat \ {0} /\ FirstCluster + NumClusters <= kEndOfClusterchain
    BY FatAssumption
  <2> QED BY <2>1, <2>2, <2>3
<1>2. Cluster = 2 .. NumClusters + 1
  BY <1>1 DEF Cluster
<1>3. IsFiniteSet(Cluster) /\ Cardinality(Cluster) = NumClusters
  BY <1>1, <1>2, FS_Interval
<1> QED BY <1>1, <1>2, <1>3

\* A chain is not longer than the table.
LEMMA ChainIsShort ==
  ASSUME NEW s \in Seq(Cluster), \A i, j \in 1 .. Len(s) : s[i] = s[j] => i = j
  PROVE  Len(s) <= NumClusters
<1>1. Len(s) \in Nat /\ IsFiniteSet(1 .. Len(s)) /\ Cardinality(1 .. Len(s)) = Len(s)
  BY FS_Interval
<1> DEFINE g == [i \in 1 .. Len(s) |-> s[i]]
<1>2. g \in Injection(1 .. Len(s), Cluster)
  BY DEF Injection, IsInjective
<1>3. Cardinality(1 .. Len(s)) <= Cardinality(Cluster)
  BY <1>1, <1>2, ClustersAre, FS_Injection
<1> QED BY <1>1, <1>3, ClustersAre

\* The links are followed one after the other, as far as there are any.
LEMMA ChainIs ==
  ASSUME NEW f \in [Cluster -> Nat], NEW c, NEW s, IsChain(f, c, s)
  PROVE  Chain(f, c) = s
<1> DEFINE next == [x \in Cluster \cup {0, kEndOfClusterchain} |->
                      IF x \in Cluster THEN f[x] ELSE kEndOfClusterchain]
           N == NumClusters
           at == CHOOSE at : at = [n \in 1 .. N |-> IF n = 1 THEN c ELSE next[at[n - 1]]]
           g == [n \in 1 .. N |-> IF n <= Len(s) THEN s[n] ELSE kEndOfClusterchain]
<1>1. s \in Seq(Cluster) /\ Len(s) \in 1 .. N /\ N \in Nat \ {0}
  BY ChainIsShort, ClustersAre DEF IsChain
<1>2. g = [n \in 1 .. N |-> IF n = 1 THEN c ELSE next[g[n - 1]]]
  <2> SUFFICES ASSUME NEW n \in 1 .. N PROVE g[n] = IF n = 1 THEN c ELSE next[g[n - 1]]
    OBVIOUS
  <2>1. CASE n = 1
    BY <2>1, <1>1 DEF IsChain
  <2>2. CASE n # 1 /\ n <= Len(s)
    <3>1. n - 1 \in 1 .. Len(s) - 1 /\ n - 1 \in 1 .. N /\ n - 1 <= Len(s) /\ s[n - 1] \in Cluster
      BY <2>2, <1>1
    <3>2. f[s[n - 1]] = s[(n - 1) + 1] /\ (n - 1) + 1 = n
      BY <3>1 DEF IsChain
    <3>3. g[n - 1] = s[n - 1] /\ g[n] = s[n] /\ next[s[n - 1]] = f[s[n - 1]]
      BY <2>2, <3>1
    <3> QED BY <2>2, <3>2, <3>3
  <2>3. CASE n = Len(s) + 1
    <3>1. n - 1 = Len(s) /\ n - 1 \in 1 .. N /\ n # 1 /\ s[Len(s)] \in Cluster
      BY <2>3, <1>1
    <3>2. g[n - 1] = s[Len(s)] /\ g[n] = kEndOfClusterchain /\ next[s[Len(s)]] = f[s[Len(s)]]
      BY <2>3, <3>1, <1>1
    <3> QED BY <3>1, <3>2 DEF IsChain
  <2>4. CASE n > Len(s) + 1
    <3>1. n - 1 \in 1 .. N /\ n - 1 > Len(s) /\ n # 1
      BY <2>4, <1>1
    <3>2. g[n - 1] = kEndOfClusterchain /\ g[n] = kEndOfClusterchain
          /\ next[kEndOfClusterchain] = kEndOfClusterchain
      BY <2>4, <3>1, <1>1, ClustersAre
    <3> QED BY <3>1, <3>2
  <2> QED BY <1>1, <2>1, <2>2, <2>3, <2>4
<1> HIDE DEF g, next
<1>3. at = [n \in 1 .. N |-> IF n = 1 THEN c ELSE next[at[n - 1]]]
  BY <1>2
<1> HIDE DEF at
<1>4. \A n \in 1 .. N : at[n] = g[n]
  <2> DEFINE Bad == {n \in 1 .. N : at[n] # g[n]}
  <2> SUFFICES ASSUME Bad # {} PROVE FALSE
    OBVIOUS
  <2>1. Bad \in SUBSET Nat
    BY <1>1
  <2> HIDE DEF Bad
  <2>2. PICK m \in Bad : \A y \in Bad : m <= y
    BY <2>1, LeastNatural
  <2>3. m \in 1 .. N /\ at[m] # g[m] /\ (m # 1 => m - 1 \in 1 .. N)
    BY <1>1, <2>2 DEF Bad
  <2>4. m # 1 => m - 1 \notin Bad
    BY <2>2, <2>3
  <2>5. m # 1 => at[m - 1] = g[m - 1]
    BY <2>3, <2>4 DEF Bad
  <2>6. at[m] = IF m = 1 THEN c ELSE next[at[m - 1]]
    BY <2>3, <1>3
  <2>7. g[m] = IF m = 1 THEN c ELSE next[g[m - 1]]
    BY <2>3, <1>2
  <2> QED BY <2>3, <2>5, <2>6, <2>7
<1> DEFINE all == [n \in 1 .. N |-> at[n]]
           clusters == {n \in 1 .. N : all[n] \in Cluster}
<1>5. clusters = 1 .. Len(s)
  <2>1. \A n \in 1 .. N : all[n] = IF n <= Len(s) THEN s[n] ELSE kEndOfClusterchain
    BY <1>4 DEF g
  <2>2. \A n \in 1 .. N : n <= Len(s) => s[n] \in Cluster
    BY <1>1
  <2>3. kEndOfClusterchain \notin Cluster
    BY ClustersAre
  <2> HIDE DEF all
  <2>4. \A n \in 1 .. N : n \in clusters <=> n <= Len(s)
    BY <2>1, <2>2, <2>3
  <2>5. clusters \subseteq 1 .. N /\ 1 .. Len(s) \subseteq 1 .. N
    BY <1>1
  <2> HIDE DEF clusters
  <2>6. \A n : n \in clusters <=> n \in 1 .. Len(s)
    <3>1. \A n \in clusters : n \in 1 .. Len(s)
      BY <1>1, <2>4, <2>5
    <3>2. \A n \in 1 .. Len(s) : n \in 1 .. N /\ n <= Len(s)
      BY <1>1
    <3> QED BY <2>4, <3>1, <3>2
  <2> QED BY <2>6
<1>6. Cardinality(clusters) = Len(s)
  <2>1. Cardinality(1 .. Len(s)) = Len(s)
    <3>1. 1 \in Int /\ Len(s) \in Int /\ ~(1 > Len(s)) /\ Len(s) - 1 + 1 = Len(s)
      BY <1>1
    <3> HIDE DEF N, all, clusters
    <3> QED BY <3>1, FS_Interval
  <2> HIDE DEF clusters
  <2> QED BY <1>5, <2>1
<1>7. Chain(f, c) = SubSeq(all, 1, Cardinality(clusters))
  <2> DEFINE Short(z) == SubSeq(z, 1, Cardinality({n \in 1 .. N : z[n] \in Cluster}))
  <2>1. Chain(f, c) = CHOOSE y \in {Short(z) : z \in {all}} : TRUE
    BY DEF Chain, Let, at, next
  <2>2. Short(all) = SubSeq(all, 1, Cardinality(clusters))
    OBVIOUS
  <2> HIDE DEF Short, all, clusters
  <2>3. {Short(z) : z \in {all}} = {Short(all)}
    OBVIOUS
  <2> QED BY <2>1, <2>2, <2>3
<1>8. SubSeq(all, 1, Len(s)) = s
  <2>1. all \in [1 .. N -> Nat]
    BY <1>1, <1>4, ClustersAre DEF g
  <2>2. all \in Seq(Nat) /\ Len(all) = N
    BY <1>1, <2>1
  <2>3. \A n \in 1 .. Len(s) : all[n] = s[n]
    BY <1>1, <1>4 DEF g
  <2> HIDE DEF all
  <2>4. SubSeq(all, 1, Len(s)) \in Seq(Nat) /\ Len(SubSeq(all, 1, Len(s))) = Len(s)
        /\ \A n \in 1 .. Len(s) : SubSeq(all, 1, Len(s))[n] = s[n]
    <3>1. 1 \in Int /\ Len(s) \in Int /\ 1 <= Len(s) /\ Len(s) - 1 + 1 = Len(s)
      BY <1>1
    <3>2. \A n \in 1 .. Len(s) : all[n] \in Nat /\ 1 + n - 1 = n
      BY <1>1, <2>3, ClustersAre
    <3>3. /\ SubSeq(all, 1, Len(s)) \in Seq(Nat) /\ Len(SubSeq(all, 1, Len(s))) = Len(s) - 1 + 1
          /\ \A n \in 1 .. Len(s) - 1 + 1 : SubSeq(all, 1, Len(s))[n] = all[1 + n - 1]
      BY <3>1, <3>2, SubSeqProperties
    <3> QED BY <2>3, <3>1, <3>2, <3>3
  <2>5. s \in Seq(Nat)
    BY <1>1, ClustersAre
  <2> QED BY <2>4, <2>5, SeqEqual
<1> QED BY <1>6, <1>7, <1>8

\* The length of whatever follows a number is a number.
LEMMA ChainLength ==
  ASSUME NEW f, NEW c
  PROVE  Len(Chain(f, c)) \in Nat
<1> DEFINE N == NumClusters
           next == [x \in Cluster \cup {0, kEndOfClusterchain} |->
                      IF x \in Cluster THEN f[x] ELSE kEndOfClusterchain]
           at == CHOOSE at : at = [n \in 1 .. N |-> IF n = 1 THEN c ELSE next[at[n - 1]]]
           all == [n \in 1 .. N |-> at[n]]
           clusters == {n \in 1 .. N : all[n] \in Cluster}
           Short(z) == SubSeq(z, 1, Cardinality({n \in 1 .. N : z[n] \in Cluster}))
<1>1. Chain(f, c) = CHOOSE y \in {Short(z) : z \in {all}} : TRUE
  BY DEF Chain, Let
<1>2. Short(all) = SubSeq(all, 1, Cardinality(clusters))
  OBVIOUS
<1>3. clusters \in SUBSET (1 .. N)
  OBVIOUS
<1> HIDE DEF Short, all, clusters
<1>4. {Short(z) : z \in {all}} = {Short(all)}
  OBVIOUS
<1>5. Chain(f, c) = SubSeq(all, 1, Cardinality(clusters))
  BY <1>1, <1>2, <1>4
<1>6. Cardinality(clusters) \in Nat
  <2>1. 1 \in Int /\ N \in Int
    BY ClustersAre
  <2> HIDE DEF N
  <2>2. IsFiniteSet(1 .. N)
    BY <2>1, FS_Interval
  <2>3. IsFiniteSet(clusters)
    BY <2>2, <1>3, FS_Subset
  <2> QED BY <2>3, FS_CardinalityType
<1> DEFINE m == Cardinality(clusters)
           S == {all[i] : i \in 1 .. m}
<1> HIDE DEF m
<1>7. 1 \in Int /\ m \in Int /\ \A i \in 1 .. m : all[i] \in S
  BY <1>6 DEF m
<1> HIDE DEF S
<1>8. Len(SubSeq(all, 1, m)) = IF 1 <= m THEN m - 1 + 1 ELSE 0
  BY <1>7, SubSeqProperties
<1> QED BY <1>5, <1>6, <1>8 DEF m

\* What is left when something is divided.
LEMMA DivMod ==
  ASSUME NEW a \in Nat, NEW n \in Nat \ {0}
  PROVE  a \div n \in Nat /\ a % n \in 0 .. n - 1 /\ a = n * (a \div n) + (a % n)
OBVIOUS

\* A product with a factor that is not 0 is as large as the other factor makes it.
LEMMA Multiples ==
  ASSUME NEW q \in Nat, NEW k \in Nat, NEW n \in Nat \ {0}, q < k
  PROVE  n * q + n <= n * k
<1>1. k - q \in Nat /\ k - q >= 1 /\ k = q + 1 + (k - q - 1) /\ k - q - 1 \in Nat
  OBVIOUS
<1>2. n * k = n * q + n + n * (k - q - 1)
  BY <1>1
<1>3. n * (k - q - 1) \in Nat
  BY <1>1
<1> QED BY <1>2, <1>3

\* Quotient and remainder are what they are multiplied and added to.
LEMMA DivOf ==
  ASSUME NEW q \in Nat, NEW n \in Nat \ {0}, NEW r \in 0 .. n - 1
  PROVE  (n * q + r) \div n = q /\ (n * q + r) % n = r
<1> DEFINE a == n * q + r
<1>1. a \in Nat /\ n * q \in Nat
  OBVIOUS
<1>2. a = n * q + r
  OBVIOUS
<1> HIDE DEF a
<1>3. a \div n \in Nat /\ a % n \in 0 .. n - 1 /\ a = n * (a \div n) + (a % n)
  BY <1>1, DivMod
<1>4. ~ (a \div n < q)
  <2> SUFFICES ASSUME a \div n < q PROVE FALSE
    OBVIOUS
  <2>1. n * (a \div n) + n <= n * q
    BY <1>3, Multiples
  <2>2. n * (a \div n) \in Nat
    BY <1>3
  <2> QED BY <1>1, <1>2, <1>3, <2>1, <2>2
<1>5. ~ (q < a \div n)
  <2> SUFFICES ASSUME q < a \div n PROVE FALSE
    OBVIOUS
  <2>1. n * q + n <= n * (a \div n)
    BY <1>3, Multiples
  <2>2. n * (a \div n) \in Nat
    BY <1>3
  <2> QED BY <1>1, <1>2, <1>3, <2>1, <2>2
<1>6. a \div n = q
  <2> DEFINE d == a \div n
  <2>1. d \in Nat /\ ~ (d < q) /\ ~ (q < d)
    BY <1>3, <1>4, <1>5
  <2> HIDE DEF d
  <2>2. d = q
    BY <2>1
  <2> QED BY <2>2 DEF d
<1> QED BY <1>1, <1>2, <1>3, <1>6 DEF a

\* The places of a chain are those of its clusters.
LEMMA PlacesAre ==
  ASSUME NEW s \in Seq(Cluster), NEW n \in Nat \ {0}
  PROVE  /\ Places(s, n) = [i \in 1 .. Len(s) * n |-> <<s[(i - 1) \div n + 1], (i - 1) % n>>]
         /\ ToSet(Places(s, n)) = ToSet(s) \X (0 .. n - 1)
<1> DEFINE At(z) == [i \in 1 .. Len(z) * n |-> <<z[(i - 1) \div n + 1], (i - 1) % n>>]
           ps == At(s)
<1>1. Places(s, n) = CHOOSE y \in {At(z) : z \in {s}} : TRUE
  BY DEF Places, Let
<1>2. Places(s, n) = ps
  <2> HIDE DEF At
  <2>1. {At(z) : z \in {s}} = {At(s)}
    OBVIOUS
  <2> QED BY <1>1, <2>1
<1>3. DOMAIN ps = 1 .. Len(s) * n /\ \A i \in 1 .. Len(s) * n : ps[i] = <<s[(i - 1) \div n + 1], (i - 1) % n>>
  OBVIOUS
<1>4. Len(s) \in Nat /\ DOMAIN s = 1 .. Len(s)
  OBVIOUS
<1> HIDE DEF ps
<1>5. ASSUME NEW p \in ToSet(ps) PROVE p \in ToSet(s) \X (0 .. n - 1)
  <2>1. PICK i \in 1 .. Len(s) * n : p = ps[i]
    BY <1>3 DEF ToSet
  <2> DEFINE q == (i - 1) \div n
             r == (i - 1) % n
  <2>2. i - 1 \in Nat
    BY <1>4
  <2>3. q \in Nat /\ r \in 0 .. n - 1 /\ i - 1 = n * q + r
    BY <2>2, DivMod
  <2>4. p = <<s[q + 1], r>>
    BY <2>1, <1>3
  <2> HIDE DEF q, r
  <2>5. ~ (q >= Len(s))
    <3> SUFFICES ASSUME q >= Len(s) PROVE FALSE
      OBVIOUS
    <3>1. n * q >= n * Len(s)
      <4>1. CASE q = Len(s)
        BY <4>1, <1>4, <2>3
      <4>2. CASE q > Len(s)
        <5>1. n * Len(s) + n <= n * q
          BY <4>2, <1>4, <2>3, Multiples
        <5> QED BY <5>1, <1>4, <2>3
      <4>3. q \in Nat /\ Len(s) \in Nat
        BY <1>4, <2>3
      <4>4. q = Len(s) \/ q > Len(s)
        BY <4>3
      <4> QED BY <4>1, <4>2, <4>4
    <3>2. i <= n * Len(s) /\ n * q \in Nat /\ n * Len(s) \in Nat /\ i \in Nat
      BY <1>4, <2>3
    <3> QED BY <3>1, <3>2, <2>3
  <2>6. q + 1 \in DOMAIN s
    BY <2>3, <2>5, <1>4
  <2> QED BY <2>3, <2>4, <2>6 DEF ToSet
<1>6. ASSUME NEW p \in ToSet(s) \X (0 .. n - 1) PROVE p \in ToSet(ps)
  <2>1. PICK c \in ToSet(s), r \in 0 .. n - 1 : p = <<c, r>>
    OBVIOUS
  <2>2. PICK k \in 1 .. Len(s) : c = s[k]
    BY <1>4 DEF ToSet
  <2> DEFINE q == k - 1
             i == n * q + r + 1
  <2>3. q \in Nat /\ q < Len(s) /\ q + 1 = k
    BY <1>4
  <2>4. (n * q + r) \div n = q /\ (n * q + r) % n = r
    BY <2>3, DivOf
  <2>5. n * q + n <= n * Len(s)
    BY <2>3, <1>4, Multiples
  <2>6. n * q \in Nat /\ n * Len(s) \in Nat /\ n * Len(s) = Len(s) * n
    BY <2>3, <1>4
  <2>7. i \in 1 .. Len(s) * n /\ i - 1 = n * q + r
    BY <2>5, <2>6
  <2>8. ps[i] = <<s[q + 1], r>>
    <3> HIDE DEF i, q
    <3> QED BY <1>3, <2>4, <2>7
  <2> HIDE DEF i, q
  <2> QED BY <1>3, <2>1, <2>2, <2>3, <2>7, <2>8 DEF ToSet
<1> QED BY <1>2, <1>3, <1>5, <1>6 DEF ps

-----------------------------------------------------------------------------
(* What is done to the table.                                               *)

\* The chains that start at S end, have no cluster in common, and have every cluster in use.
Tidy(f, S) ==
  /\ f \in [Cluster -> Nat] /\ S \subseteq Cluster
  /\ \A c \in S : IsChain(f, c, Chain(f, c))
  /\ \A c, d \in S : \A x \in ToSet(Chain(f, c)) : x \in ToSet(Chain(f, d)) => c = d
  /\ \A x \in Cluster : f[x] # 0 <=> \E c \in S : x \in ToSet(Chain(f, c))

\* The clusters of a chain.
LEMMA ClustersOf ==
  ASSUME NEW f, NEW c, NEW s, IsChain(f, c, s)
  PROVE  /\ ToSet(s) \subseteq Cluster /\ Len(s) \in Nat \ {0} /\ s[1] = c /\ c \in ToSet(s)
         /\ s[Len(s)] \in ToSet(s) /\ Last(s) = s[Len(s)]
         /\ \A x : x \in ToSet(s) <=> \E i \in 1 .. Len(s) : s[i] = x
<1>1. s \in Seq(Cluster) /\ Len(s) \in Nat \ {0} /\ s[1] = c
  BY DEF IsChain
<1>2. 1 \in 1 .. Len(s) /\ Len(s) \in 1 .. Len(s) /\ DOMAIN s = 1 .. Len(s)
  BY <1>1
<1>3. \A x : x \in ToSet(s) <=> \E i \in 1 .. Len(s) : s[i] = x
  BY <1>2 DEF ToSet
<1> QED BY <1>1, <1>2, <1>3 DEF Last

\* A chain of which no link changes stays one.
LEMMA LinksKept ==
  ASSUME NEW f, NEW g, NEW c, NEW s, IsChain(f, c, s), \A x \in ToSet(s) : g[x] = f[x]
  PROVE  IsChain(g, c, s)
<1>1. \A i \in 1 .. Len(s) : g[s[i]] = f[s[i]]
  BY ClustersOf
<1>2. Len(s) \in Nat \ {0}
  BY ClustersOf
<1>3. Len(s) \in 1 .. Len(s) /\ \A i \in 1 .. Len(s) - 1 : i \in 1 .. Len(s)
  BY <1>2
<1> QED BY <1>1, <1>3 DEF IsChain

\* A table with new behind last.
Linked(f, g, last, new) == g = [f EXCEPT ![last] = new, ![new] = kEndOfClusterchain]

\* One more cluster at the end of the chain of c.
Added(g, c, s, new) == IsChain(g, c, Append(s, new)) /\ ToSet(Append(s, new)) = ToSet(s) \cup {new}

\* Linking a free cluster behind the last one of a chain makes the chain longer by it.
LEMMA LinkAdded ==
  ASSUME NEW f \in [Cluster -> Nat], NEW c, NEW s, IsChain(f, c, s), NEW new \in Cluster, new \notin ToSet(s),
         NEW g, Linked(f, g, s[Len(s)], new)
  PROVE  Added(g, c, s, new)
<1> DEFINE t == Append(s, new)
<1>1. s \in Seq(Cluster) /\ Len(s) \in Nat \ {0}
  BY ClustersOf DEF IsChain
<1>2. t \in Seq(Cluster) /\ Len(t) = Len(s) + 1 /\ t[Len(s) + 1] = new /\ \A i \in 1 .. Len(s) : t[i] = s[i]
  BY <1>1
<1> HIDE DEF t
<1>3. \A i \in 1 .. Len(s) : s[i] \in Cluster /\ s[i] # new /\ s[i] \in ToSet(s)
  BY ClustersOf
<1>4. \A i, j \in 1 .. Len(s) : s[i] = s[j] => i = j
  BY DEF IsChain
<1>5. Len(s) \in 1 .. Len(s)
  BY <1>1
<1>6. g[new] = kEndOfClusterchain /\ g[s[Len(s)]] = new
      /\ \A x \in Cluster : x # new /\ x # s[Len(s)] => g[x] = f[x]
  BY <1>3, <1>5 DEF Linked
<1>7. \A i, j \in 1 .. Len(t) : t[i] = t[j] => i = j
  <2> SUFFICES ASSUME NEW i \in 1 .. Len(t), NEW j \in 1 .. Len(t), t[i] = t[j] PROVE i = j
    OBVIOUS
  <2>1. (i \in 1 .. Len(s) \/ i = Len(s) + 1) /\ (j \in 1 .. Len(s) \/ j = Len(s) + 1)
    BY <1>1, <1>2
  <2> QED BY <2>1, <1>2, <1>3, <1>4
<1>8. \A i \in 1 .. Len(t) - 1 : g[t[i]] = t[i + 1]
  <2> SUFFICES ASSUME NEW i \in 1 .. Len(t) - 1 PROVE g[t[i]] = t[i + 1]
    OBVIOUS
  <2>1. i \in 1 .. Len(s) /\ Len(s) \in Nat
    BY <1>1, <1>2
  <2>2. CASE i = Len(s)
    BY <2>1, <2>2, <1>2, <1>6
  <2>3. CASE i # Len(s)
    <3>1. i \in 1 .. Len(s) - 1 /\ i + 1 \in 1 .. Len(s)
      BY <2>1, <2>3
    <3>2. f[s[i]] = s[i + 1]
      BY <3>1 DEF IsChain
    <3>3. s[i] # s[Len(s)]
      BY <2>1, <2>3, <1>4, <1>5
    <3> QED BY <2>1, <3>1, <3>2, <3>3, <1>2, <1>3, <1>6
  <2> QED BY <2>2, <2>3
<1>9. t[1] = c /\ Len(t) > 0 /\ g[t[Len(t)]] = kEndOfClusterchain
  <2>1. 1 \in 1 .. Len(s) /\ s[1] = c
    BY <1>1 DEF IsChain
  <2> QED BY <2>1, <1>1, <1>2, <1>6
<1>10. IsChain(g, c, t)
  BY <1>2, <1>7, <1>8, <1>9 DEF IsChain
<1>11. ToSet(t) = ToSet(s) \cup {new}
  <2>1. \A x : x \in ToSet(t) <=> \E i \in 1 .. Len(t) : t[i] = x
    BY <1>10, ClustersOf
  <2>2. \A x : x \in ToSet(s) <=> \E i \in 1 .. Len(s) : s[i] = x
    BY ClustersOf
  <2>3. \A i \in 1 .. Len(t) : i \in 1 .. Len(s) \/ i = Len(s) + 1
    BY <1>1, <1>2
  <2>4. Len(s) + 1 \in 1 .. Len(t) /\ \A i \in 1 .. Len(s) : i \in 1 .. Len(t)
    BY <1>1, <1>2
  <2>5. \A x : x \in ToSet(t) <=> x \in ToSet(s) \cup {new}
    BY <2>1, <2>2, <2>3, <2>4, <1>2
  <2> QED BY <2>5
<1> QED BY <1>10, <1>11 DEF Added, t

\* What a table is after the chain of c, one of S, has got a new last cluster.
Extended(f, g, S, c, new) ==
  /\ Tidy(g, S)
  /\ Chain(g, c) = Append(Chain(f, c), new)
  /\ \A d \in S : d # c => Chain(g, d) = Chain(f, d)

\* The free cluster is in no other chain, so that only one chain grows.
LEMMA ChainExtended ==
  ASSUME NEW f, NEW S, Tidy(f, S), NEW c \in S, NEW new \in Cluster, f[new] = 0,
         NEW g, Linked(f, g, Last(Chain(f, c)), new)
  PROVE  Extended(f, g, S, c, new)
<1> DEFINE s == Chain(f, c)
<1>1. f \in [Cluster -> Nat] /\ S \subseteq Cluster /\ \A d \in S : IsChain(f, d, Chain(f, d))
  BY DEF Tidy
<1>2. IsChain(f, c, s) /\ Last(s) = s[Len(s)] /\ s[Len(s)] \in ToSet(s) /\ ToSet(s) \subseteq Cluster
  BY <1>1, ClustersOf
<1>3. \A d \in S : new \notin ToSet(Chain(f, d))
  BY DEF Tidy
<1>4. g \in [Cluster -> Nat]
      /\ \A x \in Cluster : g[x] = IF x = new THEN kEndOfClusterchain ELSE IF x = Last(s) THEN new ELSE f[x]
  BY <1>1, ClustersAre DEF Linked
<1>5. IsChain(g, c, Append(s, new)) /\ ToSet(Append(s, new)) = ToSet(s) \cup {new}
  <2>1. Linked(f, g, s[Len(s)], new) /\ new \notin ToSet(s)
    BY <1>2, <1>3
  <2> HIDE DEF s
  <2>2. Added(g, c, s, new)
    BY <1>1, <1>2, <2>1, LinkAdded
  <2> QED BY <2>2 DEF Added
<1>6. Chain(g, c) = Append(s, new)
  BY <1>4, <1>5, ChainIs
<1>7. \A d \in S : d # c => IsChain(g, d, Chain(f, d)) /\ Chain(g, d) = Chain(f, d)
  <2> SUFFICES ASSUME NEW d \in S, d # c PROVE IsChain(g, d, Chain(f, d)) /\ Chain(g, d) = Chain(f, d)
    OBVIOUS
  <2>1. \A x \in ToSet(Chain(f, d)) : x # new /\ x # Last(s) /\ x \in Cluster
    <3>1. ToSet(Chain(f, d)) \subseteq Cluster
      BY <1>1, ClustersOf
    <3> QED BY <3>1, <1>2, <1>3 DEF Tidy
  <2>2. \A x \in ToSet(Chain(f, d)) : g[x] = f[x]
    BY <2>1, <1>4
  <2>3. IsChain(g, d, Chain(f, d))
    BY <2>2, <1>1, LinksKept
  <2> QED BY <2>3, <1>4, ChainIs
<1> HIDE DEF s
<1>8. \A d \in S : IsChain(g, d, Chain(g, d))
  BY <1>5, <1>6, <1>7
<1>9. \A d, e \in S : \A x \in ToSet(Chain(g, d)) : x \in ToSet(Chain(g, e)) => d = e
  <2>1. \A d \in S : \A x \in ToSet(Chain(g, d)) : x \in ToSet(Chain(f, d)) \/ (x = new /\ d = c)
    BY <1>5, <1>6, <1>7 DEF s
  <2> QED BY <2>1, <1>3 DEF Tidy
<1>10. \A x \in Cluster : g[x] # 0 <=> \E d \in S : x \in ToSet(Chain(g, d))
  <2>1. \A x \in Cluster : (\E d \in S : x \in ToSet(Chain(g, d))) <=> x = new \/ \E d \in S : x \in ToSet(Chain(f, d))
    BY <1>5, <1>6, <1>7 DEF s
  <2>2. \A x \in Cluster : g[x] # 0 <=> x = new \/ f[x] # 0
    <3>1. new # 0 /\ kEndOfClusterchain # 0
      BY ClustersAre
    <3>2. f[Last(s)] # 0
      BY <1>2 DEF Tidy, s
    <3>3. \A x \in Cluster : g[x] = IF x = new THEN kEndOfClusterchain ELSE IF x = Last(s) THEN new ELSE f[x]
      BY <1>4
    <3> QED BY <3>1, <3>2, <3>3
  <2> QED BY <2>1, <2>2 DEF Tidy
<1> QED BY <1>1, <1>4, <1>6, <1>7, <1>8, <1>9, <1>10 DEF Extended, Tidy, s

\* What a table is after a new chain of one cluster has started.
Started(f, g, S, new) ==
  /\ Tidy(g, S \cup {new}) /\ new \notin S
  /\ Chain(g, new) = <<new>>
  /\ \A d \in S : Chain(g, d) = Chain(f, d)

\* A free cluster that is marked as the end of a chain is a new chain; the others stay.
LEMMA ChainStarted ==
  ASSUME NEW f, NEW S, Tidy(f, S), NEW new \in Cluster, f[new] = 0,
         NEW g, g = [f EXCEPT ![new] = kEndOfClusterchain]
  PROVE  Started(f, g, S, new)
<1>1. f \in [Cluster -> Nat] /\ S \subseteq Cluster /\ \A d \in S : IsChain(f, d, Chain(f, d))
  BY DEF Tidy
<1>2. \A d \in S : new \notin ToSet(Chain(f, d))
  BY DEF Tidy
<1>3. new \notin S
  BY <1>1, <1>2, ClustersOf
<1>4. g \in [Cluster -> Nat] /\ g[new] = kEndOfClusterchain
  BY <1>1, ClustersAre
<1>5. IsChain(g, new, <<new>>) /\ ToSet(<<new>>) = {new}
  BY <1>4 DEF IsChain, ToSet
<1>6. Chain(g, new) = <<new>>
  BY <1>4, <1>5, ChainIs
<1>7. \A d \in S : IsChain(g, d, Chain(f, d)) /\ Chain(g, d) = Chain(f, d)
  <2> SUFFICES ASSUME NEW d \in S PROVE IsChain(g, d, Chain(f, d)) /\ Chain(g, d) = Chain(f, d)
    OBVIOUS
  <2>1. \A x \in ToSet(Chain(f, d)) : x # new /\ x \in Cluster
    <3>1. ToSet(Chain(f, d)) \subseteq Cluster
      BY <1>1, ClustersOf
    <3> QED BY <3>1, <1>2
  <2>2. \A x \in ToSet(Chain(f, d)) : g[x] = f[x]
    BY <2>1, <1>1
  <2>3. IsChain(g, d, Chain(f, d))
    BY <2>2, <1>1, LinksKept
  <2> QED BY <2>3, <1>4, ChainIs
<1>8. \A d, e \in S \cup {new} : \A x \in ToSet(Chain(g, d)) : x \in ToSet(Chain(g, e)) => d = e
  <2>1. \A d \in S : \A x \in ToSet(Chain(g, d)) : x \in ToSet(Chain(f, d)) /\ x # new
    BY <1>2, <1>7
  <2>2. \A x \in ToSet(Chain(g, new)) : x = new
    BY <1>5, <1>6
  <2>3. \A d, e \in S : \A x \in ToSet(Chain(f, d)) : x \in ToSet(Chain(f, e)) => d = e
    BY DEF Tidy
  <2> QED BY <2>1, <2>2, <2>3
<1>9. \A x \in Cluster : g[x] # 0 <=> \E d \in S \cup {new} : x \in ToSet(Chain(g, d))
  <2>1. \A x \in Cluster : (\E d \in S \cup {new} : x \in ToSet(Chain(g, d)))
                             <=> x = new \/ \E d \in S : x \in ToSet(Chain(f, d))
    BY <1>5, <1>6, <1>7
  <2>2. \A x \in Cluster : g[x] # 0 <=> x = new \/ f[x] # 0
    BY <1>1, ClustersAre
  <2> QED BY <2>1, <2>2 DEF Tidy
<1> QED BY <1>1, <1>3, <1>4, <1>5, <1>6, <1>7, <1>8, <1>9 DEF Started, Tidy

\* Free clusters are counted.
FreeSet(f) == {c \in Cluster : f[c] = 0}

\* If the number of free clusters is not 0, there is one.
LEMMA FreeAreCounted ==
  ASSUME NEW f
  PROVE  /\ IsFiniteSet(FreeSet(f)) /\ NumFree(f) = Cardinality(FreeSet(f)) /\ NumFree(f) \in Nat
         /\ NumFree(f) > 0 => FreeSet(f) # {}
<1>1. FreeSet(f) \in SUBSET Cluster /\ NumFree(f) = Cardinality(FreeSet(f))
  BY DEF FreeSet, NumFree
<1>2. IsFiniteSet(FreeSet(f))
  BY <1>1, ClustersAre, FS_Subset
<1>3. Cardinality(FreeSet(f)) \in Nat
  BY <1>2, FS_CardinalityType
<1>4. FreeSet(f) = {} => Cardinality(FreeSet(f)) = 0
  BY FS_EmptySet
<1> QED BY <1>1, <1>2, <1>3, <1>4

\* A cluster that is used is one less.
LEMMA OneIsUsed ==
  ASSUME NEW f, NEW g, NEW new \in FreeSet(f), \A x \in Cluster : g[x] # 0 <=> x = new \/ f[x] # 0
  PROVE  NumFree(g) = NumFree(f) - 1
<1>1. FreeSet(g) = FreeSet(f) \ {new}
  BY DEF FreeSet
<1>2. Cardinality(FreeSet(f) \ {new}) = Cardinality(FreeSet(f)) - 1
  BY FreeAreCounted, FS_RemoveElement
<1> QED BY <1>1, <1>2, FreeAreCounted

\* The first free cluster.
LEMMA FreeIs ==
  ASSUME NEW f, NumFree(f) > 0
  PROVE  /\ FreeClusters(f, 1) = <<FreeClusters(f, 1)[1]>>
         /\ FreeClusters(f, 1)[1] \in Cluster /\ f[FreeClusters(f, 1)[1]] = 0
<1> DEFINE free == {c \in Cluster : f[c] = 0}
           Below(c) == {x \in free : x < c}
           all == FreeClusters(f, 1)
<1>1. all = [i \in 1 .. 1 |-> CHOOSE c \in free : Cardinality(Below(c)) = i - 1]
  BY DEF FreeClusters
<1>2. free # {} /\ free \in SUBSET Nat
  BY FreeAreCounted, ClustersAre DEF FreeSet
<1>3. PICK m \in free : \A y \in free : m <= y
  <2> HIDE DEF free
  <2> QED BY <1>2, LeastNatural
<1>4. Below(m) = {}
  <2>1. \A y \in free : ~ (y < m)
    BY <1>2, <1>3
  <2> QED BY <2>1
<1>5. Cardinality(Below(m)) = 1 - 1
  <2>1. Cardinality({}) = 0
    BY FS_EmptySet
  <2> HIDE DEF Below
  <2> QED BY <1>4, <2>1
<1> HIDE DEF Below, free
<1>6. all[1] \in free
  BY <1>1, <1>3, <1>5
<1>7. all = <<all[1]>>
  BY <1>1
<1> QED BY <1>6, <1>7 DEF free

\* Two sequences of one.
LEMMA TwoOf ==
  ASSUME NEW S, NEW a \in S, NEW b \in S
  PROVE  <<a>> \o <<b>> = <<a, b>>
<1>1. <<a>> \in Seq(S) /\ <<b>> \in Seq(S) /\ <<a, b>> \in Seq(S) /\ Len(<<a>>) = 1 /\ Len(<<b>>) = 1
      /\ Len(<<a, b>>) = 2
  OBVIOUS
<1>2. <<a>> \o <<b>> \in Seq(S) /\ Len(<<a>> \o <<b>>) = 2
      /\ (<<a>> \o <<b>>)[1] = a /\ (<<a>> \o <<b>>)[2] = b
  BY <1>1, ConcatProperties
<1>3. \A i \in 1 .. 2 : (<<a>> \o <<b>>)[i] = <<a, b>>[i]
  BY <1>2
<1> QED BY <1>1, <1>2, <1>3, SeqEqual

\* ExtendCluster, for one cluster.
LEMMA ExtendIs ==
  ASSUME NEW f \in [Cluster -> Nat], NumFree(f) > 0, NEW eoc, NEW last \in Cluster, Last(Chain(f, eoc)) = last
  PROVE  /\ Linked(f, ExtendCluster(f, eoc, 1).fat, last, ExtendCluster(f, eoc, 1).last)
         /\ ExtendCluster(f, eoc, 1).last \in Cluster /\ f[ExtendCluster(f, eoc, 1).last] = 0
<1> DEFINE new == FreeClusters(f, 1)[1]
           links == <<Last(Chain(f, eoc))>> \o FreeClusters(f, 1)
           next == [c \in Cluster |->
                      IF c = Last(links) THEN kEndOfClusterchain
                      ELSE IF \E i \in 1 .. 1 : links[i] = c
                      THEN links[(CHOOSE i \in 1 .. 1 : links[i] = c) + 1]
                      ELSE f[c]]
<1>1. FreeClusters(f, 1) = <<new>> /\ new \in Cluster /\ f[new] = 0
  BY FreeIs
<1> HIDE DEF new
<1>2. links = <<last, new>>
  <2>1. <<last>> \o <<new>> = <<last, new>>
    BY <1>1, TwoOf
  <2>2. links = <<last>> \o <<new>>
    BY <1>1, Zenon
  <2> QED BY <2>1, <2>2
<1>3. Last(links) = new /\ links[1] = last /\ links[2] = new
  <2>1. Len(<<last, new>>) = 2 /\ <<last, new>>[1] = last /\ <<last, new>>[2] = new
    OBVIOUS
  <2> HIDE DEF links
  <2> QED BY <1>2, <2>1 DEF Last
<1>4. ExtendCluster(f, eoc, 1) = [fat |-> next, last |-> Last(links)]
  BY DEF ExtendCluster
<1> HIDE DEF links
<1>5. \A c \in Cluster : next[c] = IF c = new THEN kEndOfClusterchain ELSE IF c = last THEN new ELSE f[c]
  <2> SUFFICES ASSUME NEW c \in Cluster
               PROVE  next[c] = IF c = new THEN kEndOfClusterchain ELSE IF c = last THEN new ELSE f[c]
    OBVIOUS
  <2>1. (\E i \in 1 .. 1 : links[i] = c) <=> c = last
    BY <1>3
  <2>2. c = last => (CHOOSE i \in 1 .. 1 : links[i] = c) = 1
    BY <1>3
  <2> QED BY <1>3, <2>1, <2>2
<1>6. next = [f EXCEPT ![last] = new, ![new] = kEndOfClusterchain]
  <2> DEFINE h == [f EXCEPT ![last] = new, ![new] = kEndOfClusterchain]
  <2>1. \A c \in Cluster : h[c] = IF c = new THEN kEndOfClusterchain ELSE IF c = last THEN new ELSE f[c]
    OBVIOUS
  <2>2. DOMAIN h = Cluster /\ DOMAIN next = Cluster /\ h = [c \in Cluster |-> h[c]] /\ next = [c \in Cluster |-> next[c]]
    OBVIOUS
  <2> HIDE DEF h, next
  <2>3. \A c \in Cluster : h[c] = next[c]
    BY <1>5, <2>1
  <2>4. h = next
    BY <2>2, <2>3
  <2> QED BY <2>4 DEF h
<1> HIDE DEF next
<1>7. ExtendCluster(f, eoc, 1).fat = next /\ ExtendCluster(f, eoc, 1).last = new
  BY <1>3, <1>4
<1> QED BY <1>1, <1>6, <1>7 DEF Linked

\* A write of at most a cluster's bytes needs a cluster, or none.
LEMMA NumClusterIs ==
  ASSUME NEW n \in 0 .. BytesPerCluster
  PROVE  NumCluster(n) = IF n = 0 THEN 0 ELSE 1
<1>1. BytesPerCluster \in Nat \ {0}
  BY FatAssumption
<1>2. CASE n = 0
  <2>1. (BytesPerCluster * 0 + (BytesPerCluster - 1)) \div BytesPerCluster = 0
    BY <1>1, DivOf
  <2>2. BytesPerCluster * 0 + (BytesPerCluster - 1) = n + BytesPerCluster - 1
    BY <1>1, <1>2
  <2> QED BY <1>2, <2>1, <2>2 DEF NumCluster
<1>3. CASE n # 0
  <2>1. n - 1 \in 0 .. BytesPerCluster - 1
    BY <1>1, <1>3
  <2>2. (BytesPerCluster * 1 + (n - 1)) \div BytesPerCluster = 1
    BY <1>1, <2>1, DivOf
  <2>3. BytesPerCluster * 1 + (n - 1) = n + BytesPerCluster - 1
    BY <1>1
  <2> QED BY <1>3, <2>2, <2>3 DEF NumCluster
<1> QED BY <1>2, <1>3

\* What AllocateClusterChain returns: a table in which a free cluster is a chain.
Taken(f, x) == x.first \in Cluster /\ f[x.first] = 0 /\ x.fat = [f EXCEPT ![x.first] = kEndOfClusterchain]

\* AllocateClusterChain, for at most one cluster: there is one anyway.
LEMMA AllocateIs ==
  ASSUME NEW f, NumFree(f) > 0, NEW n \in {0, 1}
  PROVE  Taken(f, AllocateClusterChain(f, n))
<1> DEFINE first == FreeClusters(f, 1)[1]
<1>1. first \in Cluster /\ f[first] = 0
  BY FreeIs
<1>2. AllocateClusterChain(f, n) = [fat |-> [f EXCEPT ![first] = kEndOfClusterchain], first |-> first]
  BY DEF AllocateClusterChain
<1> HIDE DEF first
<1> QED BY <1>1, <1>2 DEF Taken

-----------------------------------------------------------------------------
(* The inductive invariant.                                                 *)

\* An entry of the directory; a file without clusters starts at 0.
EntryType == [name : Names \cup {""}, first : Cluster \cup {0}, size : Nat]
InCluster == 0 .. EntriesPerCluster - 1

\* The writer's cluster and the offset in it are those of its offset in the file, whose chain is s.
IsAt(s, off, cluster, cluster_off) ==
  \E k \in 1 .. Len(s) :
    /\ cluster = s[k] /\ cluster_off \in 0 .. BytesPerCluster
    /\ off = (k - 1) * BytesPerCluster + cluster_off

\* A descriptor has not written yet, or is somewhere in its file.
Positioned(f, d, e) ==
  \/ d.wr_cluster = 0 /\ d.wr_off = 0 /\ d.wr_cluster_off = 0
  \/ e.first # 0 /\ IsAt(Chain(f, e.first), d.wr_off, d.wr_cluster, d.wr_cluster_off)

\* The fields of a file descriptor.
Fields == {"entry", "mode", "rd_off", "rd_cluster", "rd_cluster_off", "wr_off", "wr_cluster", "wr_cluster_off"}

\* A descriptor is of a file that is there.
DescriptorSound(d) ==
  DOMAIN d = Fields /\ d.entry \in Files /\ Positioned(fat, d, Entry(d.entry))

\* A file that has clusters has its own, and enough of them.
EntriesSound ==
  /\ \A p, q \in Files : Entry(p).first # 0 /\ Entry(p).first = Entry(q).first => p = q
  /\ \A p \in Files :
       /\ Entry(p).first # RootCluster
       /\ Entry(p).first = 0 => Entry(p).size = 0
       /\ Entry(p).first # 0 => Entry(p).size <= Len(Chain(fat, Entry(p).first)) * BytesPerCluster

\* The table is tidy, and the entries and the descriptors fit it.
FatInv ==
  /\ dir \in [Cluster -> [InCluster -> EntryType]] /\ DOMAIN fds = Fds
  /\ Tidy(fat, Starts)
  /\ EntriesSound /\ OneEntryPerName
  /\ \A fd \in Fds : fds[fd] # NoFile => DescriptorSound(fds[fd])

\* The directory's places, and the files' among them.
LEMMA FilesAre ==
  ASSUME FatInv
  PROVE  /\ RootCluster \in Starts /\ IsChain(fat, RootCluster, Chain(fat, RootCluster))
         /\ ToSet(Entries) = ToSet(Chain(fat, RootCluster)) \X InCluster
         /\ ToSet(Chain(fat, RootCluster)) \subseteq Cluster
         /\ \A p : p \in Files <=> p \in ToSet(Entries) /\ Entry(p).name # ""
<1>1. RootCluster \in Starts /\ IsChain(fat, RootCluster, Chain(fat, RootCluster))
  BY DEF FatInv, Tidy, Starts
<1>2. Chain(fat, RootCluster) \in Seq(Cluster) /\ EntriesPerCluster \in Nat \ {0}
  BY <1>1, FatAssumption DEF IsChain
<1>3. ToSet(Entries) = ToSet(Chain(fat, RootCluster)) \X InCluster
  BY <1>2, PlacesAre DEF Entries, InCluster
<1>4. ToSet(Chain(fat, RootCluster)) \subseteq Cluster
  BY <1>1, ClustersOf
<1> QED BY <1>1, <1>3, <1>4 DEF Files

\* Entries are where the directory has entries.
LEMMA PlacesIn ==
  ASSUME FatInv
  PROVE  /\ ToSet(Entries) \subseteq Cluster \X InCluster /\ Files \subseteq Cluster \X InCluster
         /\ \A p \in Cluster \X InCluster : Entry(p) \in EntryType
<1> DEFINE S == ToSet(Chain(fat, RootCluster))
<1>1. ToSet(Entries) = S \X InCluster /\ S \subseteq Cluster
  BY FilesAre
<1>2. dir \in [Cluster -> [InCluster -> EntryType]]
  BY DEF FatInv
<1> HIDE DEF S
<1>3. ToSet(Entries) \subseteq Cluster \X InCluster
  BY <1>1
<1>4. Files \subseteq Cluster \X InCluster
  BY <1>3 DEF Files
<1>5. \A p \in Cluster \X InCluster : Entry(p) \in EntryType
  BY <1>2 DEF Entry
<1> QED BY <1>3, <1>4, <1>5

\* An entry is found if there is one.
LEMMA FindFileIs ==
  ASSUME FatInv, NEW n
  PROVE  /\ \A p \in FindFile(n) : p \in ToSet(Entries) /\ Entry(p).name = n
         /\ FindFile(n) = {} => \A p \in ToSet(Entries) : Entry(p).name # n
<1> DEFINE Named(ps) == {ps[i] : i \in {j \in DOMAIN ps : /\ Entry(ps[j]).name = n
                                                         /\ \A k \in 1 .. j - 1 : Entry(ps[k]).name # n}}
<1>1. FindFile(n) = CHOOSE y \in {Named(ps) : ps \in {Entries}} : TRUE
  BY DEF FindFile, FirstNamed, Let
<1>2. FindFile(n) = Named(Entries)
  <2> HIDE DEF Named
  <2>1. {Named(ps) : ps \in {Entries}} = {Named(Entries)}
    OBVIOUS
  <2> QED BY <1>1, <2>1
<1>3. PICK m : m \in Nat /\ DOMAIN Entries = 1 .. m
  <2>1. Chain(fat, RootCluster) \in Seq(Cluster) /\ EntriesPerCluster \in Nat \ {0}
    BY FilesAre, FatAssumption DEF IsChain
  <2>2. DOMAIN Entries = 1 .. Len(Chain(fat, RootCluster)) * EntriesPerCluster
    BY <2>1, PlacesAre DEF Entries
  <2>3. Len(Chain(fat, RootCluster)) * EntriesPerCluster \in Nat
    BY <2>1
  <2> QED BY <2>2, <2>3
<1>4. \A p : p \in ToSet(Entries) <=> \E i \in DOMAIN Entries : p = Entries[i]
  BY DEF ToSet
<1>5. ASSUME NEW p \in FindFile(n) PROVE p \in ToSet(Entries) /\ Entry(p).name = n
  BY <1>2, <1>4
<1>6. ASSUME FindFile(n) = {}, NEW p \in ToSet(Entries), Entry(p).name = n PROVE FALSE
  <2> DEFINE Where == {i \in 1 .. m : Entry(Entries[i]).name = n}
  <2>1. Where # {} /\ Where \in SUBSET Nat
    BY <1>3, <1>4, <1>6
  <2> HIDE DEF Where
  <2>2. PICK j \in Where : \A i \in Where : j <= i
    BY <2>1, LeastNatural
  <2>3. j \in 1 .. m /\ Entry(Entries[j]).name = n
    BY <2>2 DEF Where
  <2>4. \A k \in 1 .. j - 1 : Entry(Entries[k]).name # n
    <3> SUFFICES ASSUME NEW k \in 1 .. j - 1, Entry(Entries[k]).name = n PROVE FALSE
      OBVIOUS
    <3>1. k \in 1 .. m /\ k < j /\ k \in Int /\ j \in Int
      BY <1>3, <2>3
    <3>2. k \in Where
      BY <3>1 DEF Where
    <3> QED BY <2>2, <3>1, <3>2
  <2>5. Entries[j] \in Named(Entries)
    BY <1>3, <2>3, <2>4
  <2> QED BY <1>2, <1>6, <2>5
<1> QED BY <1>5, <1>6

\* What is said of a table and its chains is what the property says of the volume.
LEMMA VolumeIsSound ==
  ASSUME FatInv
  PROVE  FilesSound
<1>1. Tidy(fat, Starts) /\ EntriesSound /\ OneEntryPerName
  BY DEF FatInv
<1>2. \A c \in Starts : IsChain(fat, c, Chain(fat, c))
  BY <1>1 DEF Tidy
<1>3. \A c \in Starts : fat[Last(Chain(fat, c))] = kEndOfClusterchain
  <2> SUFFICES ASSUME NEW c \in Starts PROVE fat[Last(Chain(fat, c))] = kEndOfClusterchain
    OBVIOUS
  <2>1. IsChain(fat, c, Chain(fat, c)) /\ Last(Chain(fat, c)) = Chain(fat, c)[Len(Chain(fat, c))]
    BY <1>2 DEF Last
  <2> QED BY <2>1 DEF IsChain
<1>4. \A c, d \in Starts : c # d => ChainSet(c) \cap ChainSet(d) = {}
  BY <1>1 DEF Tidy, ChainSet
<1>5. {c \in Cluster : fat[c] # 0} = UNION {ChainSet(c) : c \in Starts}
  <2>1. \A c \in Starts : ChainSet(c) \subseteq Cluster
    BY <1>2, ClustersOf DEF ChainSet
  <2> QED BY <1>1, <2>1 DEF Tidy, ChainSet
<1>6. SizeFits
  <2> SUFFICES ASSUME NEW p \in Files
               PROVE  Entry(p).size <= Len(Chain(fat, Entry(p).first)) * BytesPerCluster
    BY DEF SizeFits
  <2>1. CASE Entry(p).first = 0
    <3> DEFINE k == Len(Chain(fat, Entry(p).first))
    <3>1. k \in Nat /\ BytesPerCluster \in Nat
      BY ChainLength, FatAssumption
    <3> HIDE DEF k
    <3>2. k * BytesPerCluster \in Nat
      BY <3>1
    <3>3. Entry(p).size = 0
      BY <2>1, <1>1 DEF EntriesSound
    <3>4. 0 <= k * BytesPerCluster
      BY <3>2
    <3> QED BY <3>3, <3>4 DEF k
  <2> QED BY <2>1, <1>1 DEF EntriesSound
<1>7. ChainsAreSound
  BY <1>1, <1>3, <1>4, <1>5 DEF ChainsAreSound, EntriesSound
<1> QED BY <1>1, <1>6, <1>7 DEF FilesSound

\* The volume as it was made.
LEMMA FatStarts == FatInit => FatInv
<1> SUFFICES ASSUME FatInit PROVE FatInv
  OBVIOUS
<1>1. fat \in [Cluster -> Nat] /\ fat[RootCluster] = kEndOfClusterchain
      /\ \A c \in Cluster : fat[c] # 0 <=> c = RootCluster
  BY ClustersAre DEF FatInit
<1>2. IsChain(fat, RootCluster, <<RootCluster>>) /\ ToSet(<<RootCluster>>) = {RootCluster}
  BY <1>1, ClustersAre DEF IsChain, ToSet
<1>3. Chain(fat, RootCluster) = <<RootCluster>>
  BY <1>1, <1>2, ChainIs
<1>4. dir \in [Cluster -> [InCluster -> EntryType]]
      /\ \A c \in Cluster : \A i \in InCluster : dir[c][i].name = ""
  BY DEF FatInit, InCluster, EntryType, NoEntry
<1>5. Files = {}
  <2>1. <<RootCluster>> \in Seq(Cluster) /\ EntriesPerCluster \in Nat \ {0}
    <3>1. <<RootCluster>> \in Seq(Cluster)
      BY <1>2 DEF IsChain
    <3> QED BY <3>1, FatAssumption
  <2>2. ToSet(Entries) = {RootCluster} \X InCluster
    BY <1>2, <1>3, <2>1, PlacesAre DEF Entries, InCluster
  <2>3. \A p \in ToSet(Entries) : Entry(p).name = ""
    BY <2>2, <1>4, ClustersAre DEF Entry
  <2> QED BY <2>3 DEF Files
<1>6. Starts = {RootCluster}
  BY <1>5 DEF Starts
<1>7. Tidy(fat, Starts)
  BY <1>1, <1>2, <1>3, <1>6, ClustersAre DEF Tidy
<1>8. EntriesSound /\ OneEntryPerName
  BY <1>5 DEF EntriesSound, OneEntryPerName
<1>9. DOMAIN fds = Fds /\ \A fd \in Fds : fds[fd] = NoFile
  BY DEF FatInit
<1> QED BY <1>4, <1>7, <1>8, <1>9 DEF FatInv

-----------------------------------------------------------------------------
(* The steps that do not write.                                             *)

\* Without a change of the table or of the directory the volume is the same.
LEMMA SameVolume ==
  ASSUME UNCHANGED <<fat, dir>>
  PROVE  /\ Files' = Files /\ Starts' = Starts /\ Entries' = Entries
         /\ \A p : Entry(p)' = Entry(p)
<1>1. Entries' = Entries
  BY DEF Entries
<1>2. \A p : Entry(p)' = Entry(p)
  BY DEF Entry
<1>3. Files' = Files
  BY <1>1, <1>2 DEF Files, Entry
<1> QED BY <1>1, <1>2, <1>3 DEF Starts, Entry

\* Then only the descriptors have to be looked at.
LEMMA DescriptorsKeep ==
  ASSUME FatInv, UNCHANGED <<fat, dir>>, DOMAIN fds' = Fds,
         \A fd \in Fds : fds'[fd] # NoFile => DescriptorSound(fds'[fd])
  PROVE  FatInv'
<1>1. /\ Files' = Files /\ Starts' = Starts /\ fat' = fat /\ dir' = dir
      /\ \A p : Entry(p)' = Entry(p)
  BY SameVolume
<1>2. EntriesSound' /\ OneEntryPerName'
  BY <1>1 DEF FatInv, EntriesSound, OneEntryPerName, Entry
<1>3. \A fd \in Fds : fds'[fd] # NoFile => DescriptorSound(fds[fd])'
  BY <1>1 DEF DescriptorSound, Positioned, Entry
<1>4. dir' \in [Cluster -> [InCluster -> EntryType]] /\ Tidy(fat', Starts')
  BY <1>1 DEF FatInv
<1> QED BY <1>2, <1>3, <1>4 DEF FatInv

\* A descriptor that has just been opened.
LEMMA OpenedIs ==
  ASSUME FatInv, NEW fd \in Fds, NEW p, NEW mode, Opened(fd, p, mode)
  PROVE  /\ DOMAIN fds' = Fds /\ \A other \in Fds : other # fd => fds'[other] = fds[other]
         /\ DOMAIN fds'[fd] = Fields /\ fds'[fd].entry = p
         /\ fds'[fd].wr_off = 0 /\ fds'[fd].wr_cluster = 0 /\ fds'[fd].wr_cluster_off = 0
BY DEF Opened, FatInv, Fields

\* OpenFile makes a descriptor that has not moved.
LEMMA OpenFileKeeps ==
  ASSUME FatInv, NEW fd \in Fds, NEW n \in Names, NEW mode \in {"r", "w"}, OpenFile(fd, n, mode)
  PROVE  FatInv'
<1>1. UNCHANGED <<fat, dir>>
  BY DEF OpenFile
<1>2. PICK p \in FindFile(n) : Opened(fd, p, mode)
  BY DEF OpenFile
<1>3. p \in Files
  <2>1. p \in ToSet(Entries) /\ Entry(p).name = n
    BY FindFileIs
  <2>2. n # ""
    BY FatAssumption
  <2> QED BY <2>1, <2>2, FilesAre
<1>4. /\ DOMAIN fds' = Fds /\ \A other \in Fds : other # fd => fds'[other] = fds[other]
      /\ DOMAIN fds'[fd] = Fields /\ fds'[fd].entry = p
      /\ fds'[fd].wr_off = 0 /\ fds'[fd].wr_cluster = 0 /\ fds'[fd].wr_cluster_off = 0
  BY <1>2, OpenedIs
<1>5. DescriptorSound(fds'[fd])
  BY <1>3, <1>4 DEF DescriptorSound, Positioned
<1>6. \A other \in Fds : fds'[other] # NoFile => DescriptorSound(fds'[other])
  BY <1>4, <1>5 DEF FatInv
<1> QED BY <1>1, <1>4, <1>6, DescriptorsKeep

\* A descriptor that is gone says nothing of the volume.
LEMMA CloseKeeps ==
  ASSUME FatInv, NEW fd \in Fds, Close(fd)
  PROVE  FatInv'
<1>1. UNCHANGED <<fat, dir>> /\ fds' = [fds EXCEPT ![fd] = NoFile]
  BY DEF Close
<1>2. DOMAIN fds' = Fds /\ fds'[fd] = NoFile /\ \A other \in Fds : other # fd => fds'[other] = fds[other]
  BY <1>1 DEF FatInv
<1>3. \A other \in Fds : fds'[other] # NoFile => DescriptorSound(fds'[other])
  BY <1>2 DEF FatInv
<1> QED BY <1>1, <1>2, <1>3, DescriptorsKeep

\* A read moves only the reader.
LEMMA ReadKeeps ==
  ASSUME FatInv, NEW fd \in Fds, NEW len, Read(fd, len)
  PROVE  FatInv'
<1>1. UNCHANGED <<fat, dir>> /\ fds[fd] # NoFile
  BY DEF Read
<1>2. PICK a, b, c : fds' = [fds EXCEPT ![fd].rd_off = a, ![fd].rd_cluster = b, ![fd].rd_cluster_off = c]
  BY DEF Read
<1>3. DescriptorSound(fds[fd]) /\ DOMAIN fds = Fds
  BY <1>1 DEF FatInv
<1>4. /\ DOMAIN fds' = Fds /\ \A other \in Fds : other # fd => fds'[other] = fds[other]
      /\ fds'[fd] = [fds[fd] EXCEPT !.rd_off = a, !.rd_cluster = b, !.rd_cluster_off = c]
  BY <1>2, <1>3
<1>5. DOMAIN fds[fd] = Fields
  BY <1>3 DEF DescriptorSound
<1>6. /\ DOMAIN fds'[fd] = Fields /\ fds'[fd].entry = fds[fd].entry
      /\ fds'[fd].wr_off = fds[fd].wr_off /\ fds'[fd].wr_cluster = fds[fd].wr_cluster
      /\ fds'[fd].wr_cluster_off = fds[fd].wr_cluster_off
  BY <1>4, <1>5 DEF Fields
<1>7. DescriptorSound(fds'[fd])
  BY <1>3, <1>6 DEF DescriptorSound, Positioned
<1>8. \A other \in Fds : fds'[other] # NoFile => DescriptorSound(fds'[other])
  BY <1>4, <1>7 DEF FatInv
<1> QED BY <1>1, <1>4, <1>8, DescriptorsKeep

\* Load changes nothing of the volume.
LEMMA LoadKeeps ==
  ASSUME FatInv, NEW fd \in Fds, NEW len, NEW offset, Load(fd, len, offset)
  PROVE  FatInv'
<1>1. UNCHANGED <<fat, dir, fds>>
  BY DEF Load
<1>2. DOMAIN fds' = Fds /\ \A other \in Fds : fds'[other] # NoFile => DescriptorSound(fds'[other])
  BY <1>1 DEF FatInv
<1> QED BY <1>1, <1>2, DescriptorsKeep

-----------------------------------------------------------------------------
(* Creating a file.                                                         *)

\* One entry of the directory is written.
LEMMA EntryIsSet ==
  ASSUME NEW p \in Cluster \X InCluster, NEW e \in EntryType,
         dir \in [Cluster -> [InCluster -> EntryType]], SetEntry(p, e)
  PROVE  /\ dir' \in [Cluster -> [InCluster -> EntryType]]
         /\ \A q \in Cluster \X InCluster : Entry(q)' = IF q = p THEN e ELSE Entry(q)
<1>1. dir' = [dir EXCEPT ![p[1]][p[2]] = e] /\ p[1] \in Cluster /\ p[2] \in InCluster
  BY DEF SetEntry
<1>2. dir' = [dir EXCEPT ![p[1]] = [dir[p[1]] EXCEPT ![p[2]] = e]]
  BY <1>1
<1>3. [dir[p[1]] EXCEPT ![p[2]] = e] \in [InCluster -> EntryType]
  BY <1>1
<1>4. dir' \in [Cluster -> [InCluster -> EntryType]]
  BY <1>1, <1>2, <1>3
<1>5. \A c \in Cluster : \A i \in InCluster :
        dir'[c][i] = IF c = p[1] /\ i = p[2] THEN e ELSE dir[c][i]
  BY <1>1, <1>2
<1>6. ASSUME NEW q \in Cluster \X InCluster PROVE Entry(q)' = IF q = p THEN e ELSE Entry(q)
  <2>1. q = <<q[1], q[2]>> /\ p = <<p[1], p[2]>> /\ q[1] \in Cluster /\ q[2] \in InCluster
    OBVIOUS
  <2>2. q = p <=> q[1] = p[1] /\ q[2] = p[2]
    BY <2>1
  <2> QED BY <2>1, <2>2, <1>5 DEF Entry
<1> QED BY <1>4, <1>6

\* What a chain is to the same chain later: clusters only come behind the others.
Longer(s, t) ==
  /\ Len(s) \in Nat /\ Len(t) \in Nat /\ Len(s) <= Len(t)
  /\ \A i \in 1 .. Len(s) : t[i] = s[i]

\* A descriptor stays where it is in its file.
LEMMA PositionKept ==
  ASSUME NEW f, NEW g, NEW d, NEW e, NEW h, Positioned(f, d, e),
         e.first # 0 => h.first = e.first /\ Longer(Chain(f, e.first), Chain(g, e.first))
  PROVE  Positioned(g, d, h)
<1>1. CASE d.wr_cluster = 0 /\ d.wr_off = 0 /\ d.wr_cluster_off = 0
  BY <1>1 DEF Positioned
<1>2. CASE e.first # 0 /\ IsAt(Chain(f, e.first), d.wr_off, d.wr_cluster, d.wr_cluster_off)
  <2> DEFINE s == Chain(f, e.first)
             t == Chain(g, e.first)
  <2>1. PICK k \in 1 .. Len(s) : /\ d.wr_cluster = s[k] /\ d.wr_cluster_off \in 0 .. BytesPerCluster
                                /\ d.wr_off = (k - 1) * BytesPerCluster + d.wr_cluster_off
    BY <1>2 DEF IsAt
  <2>2. Longer(s, t) /\ h.first = e.first /\ h.first # 0
    BY <1>2
  <2> HIDE DEF s, t
  <2>3. k \in 1 .. Len(t) /\ t[k] = s[k]
    BY <2>1, <2>2 DEF Longer
  <2>4. IsAt(t, d.wr_off, d.wr_cluster, d.wr_cluster_off)
    BY <2>1, <2>3 DEF IsAt
  <2> QED BY <2>2, <2>4 DEF Positioned, t
<1> QED BY <1>1, <1>2 DEF Positioned

\* More clusters hold more bytes.
LEMMA Scaled ==
  ASSUME NEW a \in Nat, NEW b \in Nat, a <= b, NEW n \in Nat \ {0}
  PROVE  a * n \in Nat /\ a * n <= b * n
<1>1. CASE a = b
  BY <1>1
<1>2. CASE a < b
  <2>1. n * a + n <= n * b
    BY <1>2, Multiples
  <2>2. n * a \in Nat /\ n * b \in Nat /\ n * a = a * n /\ n * b = b * n
    OBVIOUS
  <2> QED BY <2>1, <2>2
<1> QED BY <1>1, <1>2

\* Only the entry at p is written, and e is what is there then.
EntrySet(p, e) ==
  /\ dir' \in [Cluster -> [InCluster -> EntryType]] /\ e \in EntryType
  /\ Files' = Files \cup {p} /\ Entry(p)' = e
  /\ \A q \in Files : q # p => Entry(q)' = Entry(q)

\* e fits in a volume whose table becomes g: the name and the clusters are the file's own.
Fits(p, e, g) ==
  /\ \A q \in Files : q # p => Entry(q).name # e.name
  /\ \A q \in Files : q # p /\ e.first # 0 => Entry(q).first # e.first
  /\ p \in Files /\ Entry(p).first # 0 => e.first = Entry(p).first
  /\ e.first # RootCluster
  /\ e.first = 0 => e.size = 0
  /\ e.first # 0 => e.size <= Len(Chain(g, e.first)) * BytesPerCluster

\* Then the table and the descriptors have to be looked at: all but the one that did it stay where they are.
LEMMA VolumeKeeps ==
  ASSUME FatInv, NEW p, NEW e, EntrySet(p, e), Fits(p, e, fat'), Tidy(fat', Starts'),
         \A c \in Starts : Longer(Chain(fat, c), Chain(fat', c)),
         NEW fd \in Fds, DOMAIN fds' = Fds, \A other \in Fds : other # fd => fds'[other] = fds[other],
         fds'[fd].entry = p, DOMAIN fds'[fd] = Fields, Positioned(fat', fds'[fd], e)
  PROVE  FatInv'
<1>1. /\ dir' \in [Cluster -> [InCluster -> EntryType]] /\ Files' = Files \cup {p} /\ Entry(p)' = e
      /\ \A q \in Files : q # p => Entry(q)' = Entry(q)
  BY DEF EntrySet
<1>2. EntriesSound /\ OneEntryPerName /\ Tidy(fat, Starts)
      /\ \A other \in Fds : fds[other] # NoFile => DescriptorSound(fds[other])
  BY DEF FatInv
<1>3. \A q \in Files : Entry(q).first # 0 => Longer(Chain(fat, Entry(q).first), Chain(fat', Entry(q).first))
  BY DEF Starts
<1>4. OneEntryPerName'
  <2>1. \A q, r \in Files' : Entry(q)'.name = Entry(r)'.name => q = r
    BY <1>1, <1>2 DEF Fits, OneEntryPerName
  <2> QED BY <2>1 DEF OneEntryPerName, Entry
<1>5. EntriesSound'
  <2>1. \A q, r \in Files' : Entry(q)'.first # 0 /\ Entry(q)'.first = Entry(r)'.first => q = r
    BY <1>1, <1>2 DEF Fits, EntriesSound
  <2>2. \A q \in Files' : /\ Entry(q)'.first # RootCluster
                          /\ Entry(q)'.first = 0 => Entry(q)'.size = 0
    BY <1>1, <1>2 DEF Fits, EntriesSound
  <2>3. \A q \in Files : q # p /\ Entry(q).first # 0 =>
          Entry(q).size <= Len(Chain(fat', Entry(q).first)) * BytesPerCluster
    <3> SUFFICES ASSUME NEW q \in Files, q # p, Entry(q).first # 0
                 PROVE  Entry(q).size <= Len(Chain(fat', Entry(q).first)) * BytesPerCluster
      OBVIOUS
    <3>1. PICK a, b : a = Len(Chain(fat, Entry(q).first)) /\ b = Len(Chain(fat', Entry(q).first))
      OBVIOUS
    <3>2. a \in Nat /\ b \in Nat /\ a <= b
      BY <1>3, <3>1 DEF Longer
    <3>3. BytesPerCluster \in Nat \ {0}
      BY FatAssumption
    <3>4. a * BytesPerCluster \in Nat /\ a * BytesPerCluster <= b * BytesPerCluster
      BY <3>2, <3>3, Scaled
    <3>5. b * BytesPerCluster \in Nat
      BY <3>2, <3>3
    <3>6. Entry(q).size \in Nat
      <4>1. Entry(q) \in EntryType
        BY PlacesIn
      <4> QED BY <4>1 DEF EntryType
    <3>7. Entry(q).size <= a * BytesPerCluster
      BY <1>2, <3>1 DEF EntriesSound
    <3>8. PICK x, y, z : x = a * BytesPerCluster /\ y = b * BytesPerCluster /\ z = Entry(q).size
      OBVIOUS
    <3>9. z <= y
      <4>1. z \in Nat /\ x \in Nat /\ y \in Nat /\ z <= x /\ x <= y
        BY <3>4, <3>5, <3>6, <3>7, <3>8
      <4> QED BY <4>1
    <3> QED BY <3>1, <3>8, <3>9
  <2>4. \A q \in Files' : Entry(q)'.first # 0 =>
          Entry(q)'.size <= Len(Chain(fat', Entry(q)'.first)) * BytesPerCluster
    BY <1>1, <2>3 DEF Fits
  <2> QED BY <2>1, <2>2, <2>4 DEF EntriesSound, Entry
<1>6. \A other \in Fds : fds'[other] # NoFile =>
        /\ DOMAIN fds'[other] = Fields /\ fds'[other].entry \in Files'
        /\ \A q : q = fds'[other].entry => Positioned(fat', fds'[other], Entry(q)')
  <2> SUFFICES ASSUME NEW other \in Fds, fds'[other] # NoFile
               PROVE  /\ DOMAIN fds'[other] = Fields /\ fds'[other].entry \in Files'
                      /\ \A q : q = fds'[other].entry => Positioned(fat', fds'[other], Entry(q)')
    OBVIOUS
  <2>1. CASE other = fd
    <3>1. Entry(p)' = e /\ p \in Files'
      BY <1>1
    <3> QED BY <2>1, <3>1
  <2>2. CASE other # fd
    <3>1. PICK d : d = fds[other]
      OBVIOUS
    <3>2. d = fds'[other] /\ DescriptorSound(d)
      BY <1>2, <2>2, <3>1
    <3>3. PICK q : q = d.entry
      OBVIOUS
    <3>4. q \in Files /\ DOMAIN d = Fields /\ Positioned(fat, d, Entry(q))
      BY <3>2, <3>3 DEF DescriptorSound
    <3>5. Entry(q).first # 0 => Entry(q)'.first = Entry(q).first
                                /\ Longer(Chain(fat, Entry(q).first), Chain(fat', Entry(q).first))
      BY <1>1, <1>3, <3>4 DEF Fits
    <3>6. PICK h : h = Entry(q)'
      OBVIOUS
    <3>7. PICK g : g = fat'
      OBVIOUS
    <3>8. PICK x : x = Entry(q)
      OBVIOUS
    <3>9. PICK f : f = fat
      OBVIOUS
    <3>10. Positioned(f, d, x)
      BY <3>4, <3>8, <3>9
    <3>11. x.first # 0 => h.first = x.first /\ Longer(Chain(f, x.first), Chain(g, x.first))
      BY <3>5, <3>6, <3>7, <3>8, <3>9
    <3>12. Positioned(g, d, h)
      BY <3>10, <3>11, PositionKept
    <3> QED BY <1>1, <3>2, <3>3, <3>4, <3>6, <3>7, <3>12
  <2> QED BY <2>1, <2>2
<1>7. \A other \in Fds : fds'[other] # NoFile => DescriptorSound(fds[other])'
  BY <1>6 DEF DescriptorSound, Entry
<1> QED BY <1>1, <1>4, <1>5, <1>7 DEF FatInv

\* What a chain is after it has grown by a cluster.
LEMMA LongerIs ==
  ASSUME NEW s \in Seq(Cluster), NEW new \in Cluster
  PROVE  /\ Longer(s, s) /\ Longer(s, Append(s, new))
         /\ Len(Append(s, new)) = Len(s) + 1 /\ Append(s, new)[Len(s) + 1] = new
BY DEF Longer

\* The entry of a file that has just been created.
New(n) == [name |-> n, first |-> 0, size |-> 0]

\* The new entry takes the place of a free one.
LEMMA EntryTaken ==
  ASSUME FatInv, NEW fd \in Fds, NEW n \in Names, FindFile(n) = {},
         NEW p \in FindFile(""), SetEntry(p, New(n)), Opened(fd, p, "w"), UNCHANGED fat
  PROVE  FatInv'
<1>1. p \in ToSet(Entries) /\ Entry(p).name = ""
  BY FindFileIs
<1>2. ToSet(Entries) \subseteq Cluster \X InCluster /\ Files \subseteq Cluster \X InCluster
  BY PlacesIn
<1>3. New(n) \in EntryType /\ New(n).name = n /\ n # "" /\ New(n).first = 0 /\ New(n).size = 0
  <2>1. n # ""
    BY FatAssumption
  <2> QED BY <2>1 DEF New, EntryType
<1>4. PICK e : e = New(n)
  OBVIOUS
<1>5. dir \in [Cluster -> [InCluster -> EntryType]] /\ SetEntry(p, e) /\ e \in EntryType /\ p \in Cluster \X InCluster
  BY <1>1, <1>2, <1>3, <1>4 DEF FatInv
<1>6. /\ dir' \in [Cluster -> [InCluster -> EntryType]]
      /\ \A q \in Cluster \X InCluster : Entry(q)' = IF q = p THEN e ELSE Entry(q)
  BY <1>5, EntryIsSet
<1>7. Entries' = Entries
  BY DEF Entries
<1>8. Files' = Files \cup {p}
  <2>1. Files' = {q \in ToSet(Entries) : Entry(q)'.name # ""}
    BY <1>7 DEF Files, Entry
  <2>2. \A q \in ToSet(Entries) : Entry(q)'.name # "" <=> q = p \/ Entry(q).name # ""
    BY <1>2, <1>3, <1>4, <1>6
  <2>3. Files = {q \in ToSet(Entries) : Entry(q).name # ""}
    BY DEF Files
  <2> QED BY <2>1, <2>2, <2>3, <1>1
<1>9. EntrySet(p, e)
  BY <1>2, <1>5, <1>6, <1>8 DEF EntrySet
<1>10. p \notin Files
  BY <1>1, FilesAre
<1>11. Fits(p, e, fat')
  <2>1. \A q \in Files : Entry(q).name # n
    BY FindFileIs, FilesAre
  <2>2. RootCluster # 0
    BY ClustersAre
  <2> QED BY <2>1, <2>2, <1>3, <1>4, <1>10 DEF Fits
<1>12. Starts' = Starts
  <2>1. Starts' = {RootCluster} \cup ({Entry(q)'.first : q \in Files'} \ {0})
    BY DEF Starts, Entry
  <2>2. {Entry(q)'.first : q \in Files'} = {Entry(q).first : q \in Files} \cup {0}
    BY <1>3, <1>4, <1>9, <1>10 DEF EntrySet
  <2> QED BY <2>1, <2>2 DEF Starts
<1>13. Tidy(fat', Starts')
  BY <1>12 DEF FatInv
<1>14. \A c \in Starts : Longer(Chain(fat, c), Chain(fat', c))
  <2> SUFFICES ASSUME NEW c \in Starts PROVE Longer(Chain(fat, c), Chain(fat', c))
    OBVIOUS
  <2>1. PICK s : s = Chain(fat, c)
    OBVIOUS
  <2>2. s \in Seq(Cluster)
    BY <2>1 DEF FatInv, Tidy, IsChain
  <2>3. Longer(s, s)
    BY <2>2, LongerIs, ClustersAre
  <2>4. Chain(fat', c) = s
    BY <2>1
  <2> QED BY <2>1, <2>3, <2>4
<1>15. /\ DOMAIN fds' = Fds /\ \A other \in Fds : other # fd => fds'[other] = fds[other]
       /\ DOMAIN fds'[fd] = Fields /\ fds'[fd].entry = p
       /\ fds'[fd].wr_off = 0 /\ fds'[fd].wr_cluster = 0 /\ fds'[fd].wr_cluster_off = 0
  BY OpenedIs
<1>16. Positioned(fat', fds'[fd], e)
  BY <1>15 DEF Positioned
<1> QED BY <1>9, <1>11, <1>13, <1>14, <1>15, <1>16, VolumeKeeps

\* The new cluster's places come behind those there were.
Behind(s, new, n) == ToSet(Places(Append(s, new), n)) = (ToSet(s) \X (0 .. n - 1)) \cup ({new} \X (0 .. n - 1))

\* The places of the longer chain.
LEMMA PlacesAdded ==
  ASSUME NEW f \in [Cluster -> Nat], NEW c, NEW s, IsChain(f, c, s), NEW new \in Cluster, new \notin ToSet(s),
         NEW g, Linked(f, g, s[Len(s)], new), NEW n \in Nat \ {0}
  PROVE  Behind(s, new, n)
<1>1. IsChain(g, c, Append(s, new)) /\ ToSet(Append(s, new)) = ToSet(s) \cup {new}
  <2>1. Added(g, c, s, new)
    BY LinkAdded
  <2> QED BY <2>1 DEF Added
<1>2. Append(s, new) \in Seq(Cluster)
  BY <1>1 DEF IsChain
<1>3. ToSet(Places(Append(s, new), n)) = ToSet(Append(s, new)) \X (0 .. n - 1)
  BY <1>2, PlacesAre
<1>4. PICK A, I, t : A = ToSet(s) /\ I = 0 .. n - 1 /\ t = ToSet(Append(s, new))
  OBVIOUS
<1>5. (A \cup {new}) \X I = (A \X I) \cup ({new} \X I)
  OBVIOUS
<1> QED BY <1>1, <1>3, <1>4, <1>5 DEF Behind

\* The table with the new cluster, whose first entry is the new one.
NewCluster(g, new, n) ==
  /\ Linked(fat, g, Last(Chain(fat, RootCluster)), new) /\ fat' = g
  /\ dir' = [dir EXCEPT ![new] = [i \in InCluster |-> IF i = 0 THEN New(n) ELSE NoEntry]]

\* The directory gets a new cluster.
LEMMA DirectoryGrows ==
  ASSUME FatInv, NEW fd \in Fds, NEW n \in Names, FindFile(n) = {},
         NEW g, NEW new \in Cluster, fat[new] = 0, NewCluster(g, new, n), Opened(fd, <<new, 0>>, "w")
  PROVE  FatInv'
<1>1. RootCluster \in Starts /\ IsChain(fat, RootCluster, Chain(fat, RootCluster)) /\ Tidy(fat, Starts)
      /\ fat \in [Cluster -> Nat] /\ dir \in [Cluster -> [InCluster -> EntryType]]
  BY FilesAre DEF FatInv, Tidy
<1>2. Linked(fat, g, Last(Chain(fat, RootCluster)), new) /\ fat' = g
  BY DEF NewCluster
<1>3. PICK f, S, s : f = fat /\ S = Starts /\ s = Chain(fat, RootCluster)
  OBVIOUS
<1>4. Extended(f, g, S, RootCluster, new)
  BY <1>1, <1>2, <1>3, ChainExtended
<1>5. Tidy(g, S) /\ Chain(g, RootCluster) = Append(s, new)
      /\ \A c \in Starts : c # RootCluster => Chain(g, c) = Chain(fat, c)
  BY <1>3, <1>4 DEF Extended
<1>6. \A c \in Starts : Longer(Chain(fat, c), Chain(g, c))
  <2> SUFFICES ASSUME NEW c \in Starts PROVE Longer(Chain(fat, c), Chain(g, c))
    OBVIOUS
  <2>1. PICK t : t = Chain(fat, c)
    OBVIOUS
  <2>2. t \in Seq(Cluster)
    BY <1>1, <2>1 DEF Tidy, IsChain
  <2>3. Longer(t, t) /\ Longer(t, Append(t, new))
    BY <2>2, LongerIs
  <2>4. Chain(g, c) = t \/ Chain(g, c) = Append(t, new)
    BY <2>1, <1>3, <1>5
  <2> QED BY <2>1, <2>3, <2>4
<1>7. new \notin ToSet(s) /\ ToSet(Entries) = ToSet(s) \X InCluster
  <2>1. new \notin ToSet(s)
    BY <1>1, <1>3 DEF Tidy
  <2>2. ToSet(Entries) = ToSet(s) \X InCluster
    BY <1>3, FilesAre
  <2> QED BY <2>1, <2>2
<1>8. ToSet(Entries') = ToSet(Entries) \cup ({new} \X InCluster)
  <2>1. IsChain(f, RootCluster, s) /\ new \notin ToSet(s) /\ f \in [Cluster -> Nat]
    BY <1>1, <1>7, <1>3
  <2>2. Linked(f, g, s[Len(s)], new)
    <3>1. Last(s) = s[Len(s)]
      BY DEF Last
    <3> QED BY <3>1, <1>2, <1>3
  <2>3. EntriesPerCluster \in Nat \ {0}
    BY FatAssumption
  <2>6. PICK m, I : m = EntriesPerCluster /\ I = 0 .. m - 1
    OBVIOUS
  <2>7. m \in Nat \ {0} /\ I = InCluster
    BY <2>3, <2>6 DEF InCluster
  <2>8. Behind(s, new, m)
    BY <2>1, <2>2, <2>7, PlacesAdded
  <2>4. ToSet(Places(Append(s, new), EntriesPerCluster)) = (ToSet(s) \X InCluster) \cup ({new} \X InCluster)
    BY <2>6, <2>7, <2>8 DEF Behind
  <2>5. Entries' = Places(Append(s, new), EntriesPerCluster)
    BY <1>2, <1>5 DEF Entries
  <2> QED BY <2>4, <2>5, <1>7
<1>9. \A q \in ToSet(Entries) : q[1] # new /\ q \in Cluster \X InCluster
  <2>1. PICK A : A = ToSet(s)
    OBVIOUS
  <2>2. \A q \in A \X InCluster : q[1] \in A
    OBVIOUS
  <2>3. ToSet(Entries) \subseteq Cluster \X InCluster
    BY PlacesIn
  <2> QED BY <2>1, <2>2, <2>3, <1>7
<1>10. New(n) \in EntryType /\ NoEntry \in EntryType /\ New(n).name = n /\ n # "" /\ New(n).first = 0 /\ New(n).size = 0
       /\ NoEntry.name = ""
  <2>1. n # ""
    BY FatAssumption
  <2> QED BY <2>1 DEF New, NoEntry, EntryType
<1>11. PICK e, p, none : e = New(n) /\ p = <<new, 0>> /\ none = NoEntry
  OBVIOUS
<1>12. 0 \in InCluster /\ p \in Cluster \X InCluster
  <2>1. EntriesPerCluster \in Nat \ {0}
    BY FatAssumption
  <2>2. 0 \in InCluster
    BY <2>1 DEF InCluster
  <2> QED BY <2>2, <1>11
<1>13. dir' \in [Cluster -> [InCluster -> EntryType]]
       /\ (\A q \in Cluster \X InCluster : q[1] # new => Entry(q)' = Entry(q))
       /\ \A q \in {new} \X InCluster : Entry(q)' = IF q = p THEN e ELSE none
  <2>1. dir' = [dir EXCEPT ![new] = [i \in InCluster |-> IF i = 0 THEN e ELSE none]]
    BY <1>11 DEF NewCluster
  <2>2. e \in EntryType /\ none \in EntryType
    BY <1>10, <1>11
  <2>7. [i \in InCluster |-> IF i = 0 THEN e ELSE none] \in [InCluster -> EntryType]
    BY <2>2
  <2>3. dir' \in [Cluster -> [InCluster -> EntryType]]
    BY <2>1, <2>7, <1>1
  <2>4. \A c \in Cluster : c # new => dir'[c] = dir[c]
    BY <2>1, <1>1
  <2>5. dir'[new] = [i \in InCluster |-> IF i = 0 THEN e ELSE none]
    BY <2>1, <1>1
  <2>6. \A q \in {new} \X InCluster : dir'[q[1]][q[2]] = IF q = p THEN e ELSE none
    <3> SUFFICES ASSUME NEW q \in {new} \X InCluster PROVE dir'[q[1]][q[2]] = IF q = p THEN e ELSE none
      OBVIOUS
    <3>1. q[1] = new /\ q[2] \in InCluster /\ q = <<q[1], q[2]>>
      OBVIOUS
    <3>2. q = p <=> q[2] = 0
      BY <3>1, <1>11
    <3>3. dir'[q[1]][q[2]] = IF q[2] = 0 THEN e ELSE none
      BY <3>1, <2>5
    <3> QED BY <3>2, <3>3
  <2> QED BY <2>3, <2>4, <2>6 DEF Entry
<1>14. Files' = Files \cup {p}
  <2>1. Files' = {q \in ToSet(Entries') : Entry(q)'.name # ""}
    BY DEF Files, Entry
  <2>2. \A q \in ToSet(Entries) : Entry(q)' = Entry(q)
    BY <1>9, <1>13
  <2>3. \A q \in {new} \X InCluster : Entry(q)'.name # "" <=> q = p
    BY <1>10, <1>11, <1>13
  <2>4. p \in {new} \X InCluster
    BY <1>11, <1>12
  <2>5. Files = {q \in ToSet(Entries) : Entry(q).name # ""}
    BY DEF Files
  <2> QED BY <2>1, <2>2, <2>3, <2>4, <2>5, <1>8
<1>15. EntrySet(p, e)
  <2>1. \A q \in Files : Entry(q)' = Entry(q)
    BY <1>9, <1>13, FilesAre
  <2>2. Entry(p)' = e /\ e \in EntryType
    BY <1>10, <1>11, <1>12, <1>13
  <2> QED BY <2>1, <2>2, <1>13, <1>14 DEF EntrySet
<1>16. p \notin Files
  <2>1. p[1] = new
    BY <1>11
  <2>2. \A q \in Files : q \in ToSet(Entries)
    BY FilesAre
  <2> QED BY <2>1, <2>2, <1>9
<1>17. Fits(p, e, fat')
  <2>1. \A q \in Files : Entry(q).name # n
    BY FindFileIs, FilesAre
  <2>2. RootCluster # 0
    BY ClustersAre
  <2> QED BY <2>1, <2>2, <1>10, <1>11, <1>16 DEF Fits
<1>18. Starts' = Starts
  <2>1. Starts' = {RootCluster} \cup ({Entry(q)'.first : q \in Files'} \ {0})
    BY DEF Starts, Entry
  <2>2. {Entry(q)'.first : q \in Files'} = {Entry(q).first : q \in Files} \cup {0}
    BY <1>10, <1>11, <1>15, <1>16 DEF EntrySet
  <2> QED BY <2>1, <2>2 DEF Starts
<1>19. Tidy(fat', Starts') /\ \A c \in Starts : Longer(Chain(fat, c), Chain(fat', c))
  BY <1>2, <1>3, <1>5, <1>6, <1>18
<1>20. /\ DOMAIN fds' = Fds /\ \A other \in Fds : other # fd => fds'[other] = fds[other]
       /\ DOMAIN fds'[fd] = Fields /\ fds'[fd].entry = p
       /\ fds'[fd].wr_off = 0 /\ fds'[fd].wr_cluster = 0 /\ fds'[fd].wr_cluster_off = 0
  BY <1>11, OpenedIs
<1>21. Positioned(fat', fds'[fd], e)
  BY <1>20 DEF Positioned
<1> QED BY <1>15, <1>17, <1>19, <1>20, <1>21, VolumeKeeps

\* Either way, the name is new and the file has no cluster yet.
LEMMA CreateFileKeeps ==
  ASSUME FatInv, NEW fd \in Fds, NEW n \in Names, CreateFile(fd, n)
  PROVE  FatInv'
<1>1. FindFile(n) = {}
  BY DEF CreateFile
<1>2. CASE \E p \in FindFile("") : SetEntry(p, New(n)) /\ Opened(fd, p, "w") /\ UNCHANGED fat
  BY <1>1, <1>2, EntryTaken
<1>3. CASE /\ NumFree(fat) > 0
           /\ LET x == ExtendCluster(fat, RootCluster, 1) IN
              /\ fat' = x.fat
              /\ dir' = [dir EXCEPT ![x.last] =
                           [i \in 0 .. EntriesPerCluster - 1 |-> IF i = 0 THEN New(n) ELSE NoEntry]]
              /\ Opened(fd, <<x.last, 0>>, "w")
  <2>1. PICK f, last : f = fat /\ last = Last(Chain(fat, RootCluster))
    OBVIOUS
  <2>2. fat \in [Cluster -> Nat]
    BY DEF FatInv, Tidy
  <2>3. IsChain(fat, RootCluster, Chain(fat, RootCluster))
    BY FilesAre
  <2>4. last \in Cluster
    BY <2>1, <2>3, ClustersOf
  <2>5. PICK g, new : g = ExtendCluster(fat, RootCluster, 1).fat /\ new = ExtendCluster(fat, RootCluster, 1).last
    OBVIOUS
  <2>6. Linked(f, g, last, new) /\ new \in Cluster /\ f[new] = 0
    BY <1>3, <2>1, <2>2, <2>4, <2>5, ExtendIs
  <2>7. NewCluster(g, new, n) /\ Opened(fd, <<new, 0>>, "w")
    BY <1>3, <2>1, <2>5, <2>6 DEF NewCluster, InCluster
  <2> QED BY <1>1, <2>1, <2>6, <2>7, DirectoryGrows
<1> QED BY <1>2, <1>3 DEF CreateFile, New

-----------------------------------------------------------------------------
(* Writing.                                                                 *)

\* A chain that grows twice has grown.
LEMMA LongerStill ==
  ASSUME NEW s, NEW t, NEW u, Longer(s, t), Longer(t, u)
  PROVE  Longer(s, u)
<1>1. Len(s) \in Nat /\ Len(t) \in Nat /\ Len(u) \in Nat /\ Len(s) <= Len(t) /\ Len(t) <= Len(u)
  BY DEF Longer
<1>2. \A i \in 1 .. Len(s) : i \in 1 .. Len(t)
  BY <1>1
<1>3. \A i \in 1 .. Len(s) : u[i] = s[i]
  BY <1>2 DEF Longer
<1> QED BY <1>1, <1>3 DEF Longer

\* The chains of f, before the first byte, are still there; the writer is i bytes behind off, where it
\* was, in the chain of c; and there is a cluster left unless it has come to the end of one already,
\* which it does at most once.
Writing(f, T, c, off, o, len, w, i) ==
  /\ Tidy(w.fat, T)
  /\ \A x \in T : Longer(Chain(f, x), Chain(w.fat, x)) /\ (x # c => Chain(w.fat, x) = Chain(f, x))
  /\ IsAt(Chain(w.fat, c), off + i, w.cluster, w.off)
  /\ w.left = len - i
  /\ \/ w.off = o + i /\ (len > 0 => NumFree(w.fat) > 0)
     \/ w.off = o + i - BytesPerCluster

\* Where the next byte goes.
Goes(v, f, cluster, off, left) == v.fat = f /\ v.cluster = cluster /\ v.off = off /\ v.left = left

\* The three ways of WriteByte.
LEMMA WriteByteIs ==
  ASSUME NEW w, NEW byte, NEW next, next = w.fat[w.cluster], NEW v, v = WriteByte(w, byte)
  PROVE  /\ w.off # BytesPerCluster => Goes(v, w.fat, w.cluster, w.off + 1, w.left - 1)
         /\ w.off = BytesPerCluster /\ next # kEndOfClusterchain => Goes(v, w.fat, next, 1, w.left - 1)
         /\ w.off = BytesPerCluster /\ next = kEndOfClusterchain =>
              Goes(v, ExtendCluster(w.fat, w.cluster, NumCluster(w.left)).fat,
                   ExtendCluster(w.fat, w.cluster, NumCluster(w.left)).last, 1, w.left - 1)
BY DEF WriteByte, Goes

\* The writer goes on in its cluster.
LEMMA AtNextByte ==
  ASSUME NEW s, NEW off \in Nat, NEW cluster, NEW at, IsAt(s, off, cluster, at), at # BytesPerCluster
  PROVE  IsAt(s, off + 1, cluster, at + 1)
<1>1. PICK k \in 1 .. Len(s) : /\ cluster = s[k] /\ at \in 0 .. BytesPerCluster
                              /\ off = (k - 1) * BytesPerCluster + at
  BY DEF IsAt
<1>2. BytesPerCluster \in Nat \ {0}
  BY FatAssumption
<1>3. PICK m : m = (k - 1) * BytesPerCluster
  OBVIOUS
<1>4. m = off - at /\ m \in Int
  BY <1>1, <1>2, <1>3
<1>5. at + 1 \in 0 .. BytesPerCluster /\ off + 1 = m + (at + 1)
  BY <1>1, <1>2, <1>4
<1> QED BY <1>1, <1>3, <1>5 DEF IsAt

\* Or in the next one.
LEMMA AtNextCluster ==
  ASSUME NEW s, Len(s) \in Nat, NEW t, Len(t) \in Nat, NEW off \in Nat, NEW k \in 1 .. Len(s),
         off = (k - 1) * BytesPerCluster + BytesPerCluster, k + 1 \in 1 .. Len(t)
  PROVE  IsAt(t, off + 1, t[k + 1], 1)
<1>1. BytesPerCluster \in Nat \ {0}
  BY FatAssumption
<1>2. BytesPerCluster \in Nat \ {0} /\ k \in Nat /\ 1 \in 0 .. BytesPerCluster
  BY <1>1
<1>3. (k - 1) * BytesPerCluster + BytesPerCluster = ((k + 1) - 1) * BytesPerCluster
  BY <1>2
<1>4. off + 1 = ((k + 1) - 1) * BytesPerCluster + 1
  BY <1>3
<1> QED BY <1>2, <1>4 DEF IsAt

\* The last cluster of a chain is a chain.
LEMMA OneIsChain ==
  ASSUME NEW g, NEW c \in Cluster, g[c] = kEndOfClusterchain
  PROVE  IsChain(g, c, <<c>>)
<1>1. <<c>> \in Seq(Cluster) /\ Len(<<c>>) = 1 /\ <<c>>[1] = c
  OBVIOUS
<1> QED BY <1>1 DEF IsChain

\* A byte: in the writer's cluster, in the next one of the chain, or in one that the chain gets.
LEMMA ByteKeeps ==
  ASSUME NEW f, NEW T, NEW c \in T, NEW off \in Nat, NEW o \in 0 .. BytesPerCluster,
         NEW len \in 0 .. BytesPerCluster, NEW w, NEW i \in 0 .. len - 1, Writing(f, T, c, off, o, len, w, i),
         NEW byte, NEW v, v = WriteByte(w, byte)
  PROVE  Writing(f, T, c, off, o, len, v, i + 1)
<1>1. BytesPerCluster \in Nat \ {0}
  BY FatAssumption
<1>2. PICK g, s, at, cluster, next : g = w.fat /\ s = Chain(g, c) /\ at = w.off /\ cluster = w.cluster /\ next = g[cluster]
  OBVIOUS
<1>3. Tidy(g, T) /\ (\A x \in T : Longer(Chain(f, x), Chain(g, x)) /\ (x # c => Chain(g, x) = Chain(f, x)))
      /\ IsAt(s, off + i, cluster, at)
      /\ w.left = len - i
  BY <1>2 DEF Writing
<1>4. IsChain(g, c, s) /\ s \in Seq(Cluster) /\ Len(s) \in Nat \ {0} /\ g \in [Cluster -> Nat] /\ T \subseteq Cluster
  <2>1. IsChain(g, c, s) /\ g \in [Cluster -> Nat] /\ T \subseteq Cluster
    BY <1>2, <1>3 DEF Tidy
  <2> QED BY <2>1, ClustersOf DEF IsChain
<1>5. PICK k \in 1 .. Len(s) : cluster = s[k] /\ at \in 0 .. BytesPerCluster /\ off + i = (k - 1) * BytesPerCluster + at
  BY <1>3 DEF IsAt
<1>6. len - (i + 1) = w.left - 1 /\ len > 0 /\ off + i \in Nat /\ (off + i) + 1 = off + (i + 1)
      /\ o + (i + 1) = (o + i) + 1
  BY <1>3
<1>7. \/ at = o + i /\ NumFree(g) > 0
      \/ at = o + i - BytesPerCluster
  BY <1>2, <1>6 DEF Writing
<1>8. CASE at # BytesPerCluster
  <2>1. Goes(v, g, cluster, at + 1, w.left - 1)
    BY <1>2, <1>8, WriteByteIs
  <2>2. IsAt(s, (off + i) + 1, cluster, at + 1)
    BY <1>3, <1>6, <1>8, AtNextByte
  <2>3. \/ at + 1 = o + (i + 1) /\ NumFree(g) > 0
        \/ at + 1 = o + (i + 1) - BytesPerCluster
    BY <1>1, <1>7
  <2> QED BY <1>2, <1>3, <1>6, <2>1, <2>2, <2>3 DEF Writing, Goes
<1>9. CASE at = BytesPerCluster
  <2>1. at = o + i /\ NumFree(g) > 0 /\ 1 = o + (i + 1) - BytesPerCluster
    BY <1>1, <1>7, <1>9
  <2>2. off + i = (k - 1) * BytesPerCluster + BytesPerCluster
    BY <1>5, <1>9
  <2>3. k # Len(s) => k \in 1 .. Len(s) - 1 /\ k + 1 \in 1 .. Len(s)
    BY <1>4
  <2>4. CASE next # kEndOfClusterchain
    <3>1. k # Len(s)
      BY <1>2, <1>4, <1>5, <2>4 DEF IsChain
    <3>2. next = s[k + 1]
      BY <1>2, <1>4, <1>5, <2>3, <3>1 DEF IsChain
    <3>3. Goes(v, g, next, 1, w.left - 1)
      BY <1>2, <1>9, <2>4, WriteByteIs
    <3>4. IsAt(s, (off + i) + 1, s[k + 1], 1)
      BY <1>4, <1>6, <2>2, <2>3, <3>1, AtNextCluster
    <3> QED BY <1>2, <1>3, <1>6, <2>1, <3>2, <3>3, <3>4 DEF Writing, Goes
  <2>5. CASE next = kEndOfClusterchain
    <3>1. k = Len(s)
      <4> SUFFICES ASSUME k # Len(s) PROVE FALSE
        OBVIOUS
      <4>1. s[k + 1] \in Cluster
        BY <1>4, <2>3
      <4>2. g[s[k]] = s[k + 1]
        BY <1>4, <2>3 DEF IsChain
      <4>3. next = s[k + 1]
        BY <1>2, <1>5, <4>2
      <4> QED BY <4>1, <4>3, <2>5, ClustersAre
    <3>2. cluster \in Cluster
      BY <1>4, <1>5
    <3>3. Chain(g, cluster) = <<cluster>> /\ Last(Chain(g, cluster)) = cluster
      <4>1. IsChain(g, cluster, <<cluster>>)
        BY <1>2, <2>5, <3>2, OneIsChain
      <4>2. Chain(g, cluster) = <<cluster>>
        BY <1>4, <4>1, ChainIs
      <4> QED BY <4>2 DEF Last
    <3>4. NumCluster(w.left) = 1
      <4>1. w.left \in 0 .. BytesPerCluster /\ w.left # 0
        BY <1>1, <1>3
      <4> QED BY <4>1, NumClusterIs
    <3>5. PICK h, new : h = ExtendCluster(g, cluster, 1).fat /\ new = ExtendCluster(g, cluster, 1).last
      OBVIOUS
    <3>6. Goes(v, h, new, 1, w.left - 1)
      BY <1>2, <1>9, <2>5, <3>4, <3>5, WriteByteIs
    <3>7. Linked(g, h, cluster, new) /\ new \in Cluster /\ g[new] = 0
      BY <1>4, <2>1, <3>2, <3>3, <3>5, ExtendIs
    <3>8. Last(Chain(g, c)) = cluster
      BY <1>2, <1>5, <3>1 DEF Last
    <3>9. Extended(g, h, T, c, new)
      BY <1>3, <3>7, <3>8, ChainExtended
    <3>10. Tidy(h, T) /\ Chain(h, c) = Append(s, new) /\ \A d \in T : d # c => Chain(h, d) = Chain(g, d)
      BY <1>2, <3>9 DEF Extended
    <3>11. \A x \in T : Longer(Chain(f, x), Chain(h, x)) /\ (x # c => Chain(h, x) = Chain(f, x))
      <4> SUFFICES ASSUME NEW x \in T PROVE Longer(Chain(f, x), Chain(h, x)) /\ (x # c => Chain(h, x) = Chain(f, x))
        OBVIOUS
      <4>1. PICK r, t, u : r = Chain(f, x) /\ t = Chain(g, x) /\ u = Chain(h, x)
        OBVIOUS
      <4>2. t \in Seq(Cluster) /\ Longer(r, t)
        BY <1>3, <4>1 DEF Tidy, IsChain
      <4>3. Longer(t, t) /\ Longer(t, Append(t, new))
        BY <3>7, <4>2, LongerIs
      <4>4. u = t \/ u = Append(t, new)
        BY <1>2, <3>10, <4>1
      <4>5. Longer(t, u)
        BY <4>3, <4>4
      <4>6. Longer(r, u)
        BY <4>2, <4>5, LongerStill
      <4>7. x # c => u = r
        BY <1>3, <3>10, <4>1
      <4> QED BY <4>1, <4>6, <4>7
    <3>12. IsAt(Append(s, new), (off + i) + 1, new, 1)
      <4>1. PICK t : t = Append(s, new)
        OBVIOUS
      <4>2. Len(t) = Len(s) + 1 /\ t[Len(s) + 1] = new
        BY <1>4, <3>7, <4>1, LongerIs
      <4>3. k + 1 \in 1 .. Len(t) /\ Len(t) \in Nat /\ t[k + 1] = new
        BY <1>4, <3>1, <4>2
      <4>4. IsAt(t, (off + i) + 1, t[k + 1], 1)
        BY <1>4, <1>6, <2>2, <4>3, AtNextCluster
      <4> QED BY <4>1, <4>3, <4>4
    <3> QED BY <1>6, <2>1, <3>6, <3>10, <3>11, <3>12 DEF Writing, Goes
  <2> QED BY <2>4, <2>5
<1> QED BY <1>8, <1>9

\* The bytes, one after the other.
IsBytes(w, fd, off, start, n) ==
  w = [i \in 0 .. n |-> IF i = 0 THEN start ELSE WriteByte(w[i - 1], Byte(fd, off + i))]

\* The loop of Write: what it leaves after each byte.
Bytes(fd, off, start, n) ==
  CHOOSE w : w = [i \in 0 .. n |-> IF i = 0 THEN start ELSE WriteByte(w[i - 1], Byte(fd, off + i))]

\* There is such a loop: the recursion of Write defines a function.
LEMMA BytesAre ==
  ASSUME NEW fd, NEW off, NEW start, NEW n \in Nat
  PROVE  IsBytes(Bytes(fd, off, start, n), fd, off, start, n)
<1> DEFINE Exists(m) == \E w : IsBytes(w, fd, off, start, m)
<1>1. Exists(0)
  <2> DEFINE w == [i \in 0 .. 0 |-> start]
  <2>1. w = [i \in 0 .. 0 |-> IF i = 0 THEN start ELSE WriteByte(w[i - 1], Byte(fd, off + i))]
    OBVIOUS
  <2> QED BY <2>1 DEF IsBytes
<1>2. ASSUME NEW m \in Nat, Exists(m) PROVE Exists(m + 1)
  <2>1. PICK w : IsBytes(w, fd, off, start, m)
    BY <1>2
  <2>2. \A i \in 0 .. m : w[i] = IF i = 0 THEN start ELSE WriteByte(w[i - 1], Byte(fd, off + i))
    BY <2>1 DEF IsBytes
  <2> DEFINE v == [i \in 0 .. m + 1 |-> IF i = m + 1 THEN WriteByte(w[m], Byte(fd, off + i)) ELSE w[i]]
             u == [i \in 0 .. m + 1 |-> IF i = 0 THEN start ELSE WriteByte(v[i - 1], Byte(fd, off + i))]
  <2>3. ASSUME NEW i \in 0 .. m + 1 PROVE v[i] = u[i]
    <3>1. CASE i = 0
      <4>1. v[i] = w[0] /\ w[0] = start /\ u[i] = start
        BY <3>1, <2>2
      <4> QED BY <4>1
    <3>2. CASE i # 0
      <4>1. i - 1 \in 0 .. m /\ i - 1 \in 0 .. m + 1 /\ i - 1 # m + 1
        BY <3>2
      <4>2. v[i - 1] = w[i - 1]
        BY <4>1
      <4>3. u[i] = WriteByte(w[i - 1], Byte(fd, off + i))
        BY <3>2, <4>2
      <4>4. CASE i = m + 1
        <5>1. i - 1 = m /\ v[i] = WriteByte(w[m], Byte(fd, off + i))
          BY <4>4
        <5> QED BY <5>1, <4>3
      <4>5. CASE i # m + 1
        <5>1. i \in 0 .. m /\ v[i] = w[i]
          BY <4>5
        <5> QED BY <5>1, <3>2, <4>3, <2>2
      <4> QED BY <4>4, <4>5
    <3> QED BY <3>1, <3>2
  <2>4. v = u
    <3>1. DOMAIN v = 0 .. m + 1 /\ DOMAIN u = 0 .. m + 1 /\ v = [i \in 0 .. m + 1 |-> v[i]] /\ u = [i \in 0 .. m + 1 |-> u[i]]
      OBVIOUS
    <3> HIDE DEF v, u
    <3> QED BY <3>1, <2>3
  <2>5. IsBytes(v, fd, off, start, m + 1)
    <3>1. v = [i \in 0 .. m + 1 |-> IF i = 0 THEN start ELSE WriteByte(v[i - 1], Byte(fd, off + i))]
      BY <2>4
    <3> HIDE DEF v, u
    <3> QED BY <3>1 DEF IsBytes
  <2> HIDE DEF v
  <2> QED BY <2>5
<1> HIDE DEF Exists
<1>3. Exists(n)
  <2> DEFINE S == {m \in Nat : Exists(m)}
  <2>1. S \in SUBSET Nat /\ 0 \in S /\ \A m \in S : m + 1 \in S
    BY <1>1, <1>2
  <2> HIDE DEF S
  <2>2. S = Nat
    BY <2>1, InductionOn
  <2>3. n \in S
    BY <2>2
  <2> QED BY <2>3 DEF S
<1> QED BY <1>3 DEF Exists, IsBytes, Bytes

\* So all of them keep what one keeps.
LEMMA BytesKeep ==
  ASSUME NEW f, NEW T, NEW c \in T, NEW off \in Nat, NEW o \in 0 .. BytesPerCluster,
         NEW len \in 0 .. BytesPerCluster, NEW start, Writing(f, T, c, off, o, len, start, 0), NEW fd,
         NEW w, IsBytes(w, fd, off, start, len)
  PROVE  Writing(f, T, c, off, o, len, w[len], len)
<1>1. \A i \in 0 .. len : w[i] = IF i = 0 THEN start ELSE WriteByte(w[i - 1], Byte(fd, off + i))
  BY DEF IsBytes
<1>2. len \in Nat
  <2>1. BytesPerCluster \in Nat \ {0}
    BY FatAssumption
  <2> QED BY <2>1
<1> DEFINE S == {m \in Nat : m <= len => Writing(f, T, c, off, o, len, w[m], m)}
<1>3. 0 \in S
  <2>1. w[0] = start
    BY <1>1, <1>2
  <2> QED BY <2>1
<1>4. ASSUME NEW m \in S PROVE m + 1 \in S
  <2> SUFFICES ASSUME m + 1 <= len PROVE Writing(f, T, c, off, o, len, w[m + 1], m + 1)
    OBVIOUS
  <2>1. m \in Nat /\ m \in 0 .. len - 1 /\ m + 1 \in 0 .. len /\ m + 1 # 0 /\ (m + 1) - 1 = m /\ m <= len
    BY <1>2
  <2>2. Writing(f, T, c, off, o, len, w[m], m)
    BY <2>1
  <2>3. w[m + 1] = WriteByte(w[m], Byte(fd, off + (m + 1)))
    BY <1>1, <2>1
  <2>4. PICK u, byte, v : u = w[m] /\ byte = Byte(fd, off + (m + 1)) /\ v = w[m + 1]
    OBVIOUS
  <2>5. v = WriteByte(u, byte) /\ Writing(f, T, c, off, o, len, u, m)
    BY <2>2, <2>3, <2>4
  <2>6. Writing(f, T, c, off, o, len, v, m + 1)
    BY <2>1, <2>5, ByteKeeps
  <2> QED BY <2>4, <2>6
<1>5. S \in SUBSET Nat
  OBVIOUS
<1> HIDE DEF S
<1>6. S = Nat
  BY <1>3, <1>4, <1>5, InductionOn
<1>7. len \in S
  BY <1>2, <1>6
<1> QED BY <1>2, <1>7 DEF S

\* Where a write starts: s is the table then and the cluster of the first byte, and c is where the file's
\* chain starts, which is new if the file had none.
Begun(p, d, len, s, c) ==
  /\ c = (IF Entry(p).first # 0 THEN Entry(p).first ELSE s.first)
  /\ c \in Cluster /\ c # RootCluster
  /\ Entry(p).first = 0 => c \notin Starts /\ d.wr_cluster = 0
  /\ Tidy(s.fat, Starts \cup {c})
  /\ \A x \in Starts : Longer(Chain(fat, x), Chain(s.fat, x)) /\ (x # c => Chain(s.fat, x) = Chain(fat, x))
  /\ IsAt(Chain(s.fat, c), d.wr_off, s.first, d.wr_cluster_off)
  /\ len > 0 => NumFree(s.fat) > 0

\* A chain starts with itself.
LEMMA ChainStays ==
  ASSUME NEW f, NEW S, Tidy(f, S), NEW x \in S
  PROVE  Longer(Chain(f, x), Chain(f, x))
<1>1. PICK s : s = Chain(f, x)
  OBVIOUS
<1>2. s \in Seq(Cluster)
  BY <1>1 DEF Tidy, IsChain
<1>3. Longer(s, s)
  BY <1>2, LongerIs, ClustersAre
<1> QED BY <1>1, <1>3

\* A descriptor that has not moved is at the start of the chain.
LEMMA AtStart ==
  ASSUME NEW s, Len(s) \in Nat \ {0}
  PROVE  IsAt(s, 0, s[1], 0)
<1>1. BytesPerCluster \in Nat \ {0}
  BY FatAssumption
<1>2. 1 \in 1 .. Len(s) /\ 0 \in 0 .. BytesPerCluster /\ 0 = (1 - 1) * BytesPerCluster + 0
  BY <1>1
<1> QED BY <1>2 DEF IsAt

\* FirstToWrite finds where the descriptor is, or the file its first cluster.
LEMMA WriteBegins ==
  ASSUME FatInv, NEW p \in Files, NEW d, d.entry = p, Positioned(fat, d, Entry(p)),
         NEW len \in 0 .. BytesPerCluster, NumFree(fat) >= NumCluster(len) + 1,
         NEW s, s = FirstToWrite(d, len), NEW c, c = IF Entry(p).first # 0 THEN Entry(p).first ELSE s.first
  PROVE  Begun(p, d, len, s, c)
<1>1. Tidy(fat, Starts) /\ EntriesSound /\ RootCluster \in Starts
  BY DEF FatInv, Starts
<1>2. BytesPerCluster \in Nat \ {0} /\ NumCluster(len) \in {0, 1} /\ (len > 0 => NumCluster(len) = 1)
  <2>1. BytesPerCluster \in Nat \ {0}
    BY FatAssumption
  <2> QED BY <2>1, NumClusterIs
<1>3. NumFree(fat) \in Nat /\ NumFree(fat) > 0 /\ (len > 0 => NumFree(fat) > 1)
  <2>1. NumFree(fat) \in Nat
    BY FreeAreCounted
  <2> QED BY <2>1, <1>2
<1>4. PICK f, S, first : f = fat /\ S = Starts /\ first = Entry(p).first
  OBVIOUS
<1>5. first \in Cluster \cup {0} /\ 0 \notin Cluster
  BY <1>4, PlacesIn, ClustersAre DEF EntryType
<1>6. CASE first # 0
  <2>1. c = first /\ c \in Starts /\ c # RootCluster
    BY <1>1, <1>4, <1>6 DEF Starts, EntriesSound
  <2>2. s.fat = fat /\ s.first = IF d.wr_cluster # 0 THEN d.wr_cluster ELSE first
    BY <1>4, <1>6 DEF FirstToWrite
  <2>3. IsChain(fat, c, Chain(fat, c))
    BY <1>1, <2>1 DEF Tidy
  <2>4. PICK t : t = Chain(fat, c)
    OBVIOUS
  <2>5. t \in Seq(Cluster) /\ Len(t) \in Nat \ {0} /\ t[1] = c
    BY <2>3, <2>4 DEF IsChain
  <2>6. IsAt(t, d.wr_off, s.first, d.wr_cluster_off)
    <3>1. CASE d.wr_cluster = 0 /\ d.wr_off = 0 /\ d.wr_cluster_off = 0
      <4>1. IsAt(t, 0, t[1], 0)
        BY <2>5, AtStart
      <4> QED BY <4>1, <3>1, <2>1, <2>2, <2>5
    <3>2. CASE IsAt(t, d.wr_off, d.wr_cluster, d.wr_cluster_off)
      <4>1. d.wr_cluster \in Cluster
        BY <2>5, <3>2 DEF IsAt
      <4> QED BY <4>1, <3>2, <2>2, <1>5
    <3> QED BY <3>1, <3>2, <1>4, <2>1, <2>4 DEF Positioned
  <2>7. Starts \cup {c} = Starts
    BY <2>1
  <2>8. \A x \in Starts : Longer(Chain(fat, x), Chain(fat, x))
    BY <1>1, ChainStays
  <2>9. c \in Cluster
    BY <1>5, <1>6, <2>1
  <2> QED BY <1>1, <1>3, <1>4, <1>6, <2>1, <2>2, <2>4, <2>6, <2>7, <2>8, <2>9 DEF Begun
<1>7. CASE first = 0
  <2>1. d.wr_cluster = 0 /\ d.wr_off = 0 /\ d.wr_cluster_off = 0
    BY <1>4, <1>7 DEF Positioned
  <2>2. s = AllocateClusterChain(f, NumCluster(len)) /\ c = s.first
    BY <1>4, <1>7, <2>1 DEF FirstToWrite
  <2>3. PICK g, n : g = s.fat /\ n = NumCluster(len)
    OBVIOUS
  <2>4. c \in Cluster /\ f[c] = 0 /\ g = [f EXCEPT ![c] = kEndOfClusterchain]
    <3>1. NumFree(f) > 0 /\ n \in {0, 1}
      BY <1>2, <1>3, <1>4, <2>3
    <3>2. PICK x : x = AllocateClusterChain(f, n)
      OBVIOUS
    <3>3. Taken(f, x)
      BY <3>1, <3>2, AllocateIs
    <3>4. x = s
      BY <2>2, <2>3, <3>2
    <3> QED BY <2>2, <2>3, <3>3, <3>4 DEF Taken
  <2>5. Started(f, g, S, c)
    BY <1>1, <1>4, <2>4, ChainStarted
  <2>6. Tidy(g, S \cup {c}) /\ c \notin S /\ Chain(g, c) = <<c>> /\ \A x \in S : Chain(g, x) = Chain(f, x)
    BY <2>5 DEF Started
  <2>7. \A x \in Starts : Longer(Chain(fat, x), Chain(g, x)) /\ Chain(g, x) = Chain(fat, x)
    BY <1>1, <1>4, <2>6, ChainStays
  <2>8. IsAt(Chain(g, c), d.wr_off, s.first, d.wr_cluster_off)
    <3>1. PICK t : t = <<c>>
      OBVIOUS
    <3>2. Len(t) \in Nat \ {0} /\ t[1] = c
      BY <3>1
    <3>3. IsAt(t, 0, t[1], 0)
      BY <3>2, AtStart
    <3> QED BY <2>1, <2>2, <2>6, <3>1, <3>2, <3>3
  <2>9. len > 0 => NumFree(g) > 0
    <3>1. \A x \in Cluster : g[x] # 0 <=> x = c \/ f[x] # 0
      <4>1. f \in [Cluster -> Nat]
        BY <1>1, <1>4 DEF Tidy
      <4>2. \A x \in Cluster : g[x] = IF x = c THEN kEndOfClusterchain ELSE f[x]
        BY <2>4, <4>1
      <4> QED BY <4>2, ClustersAre
    <3>2. c \in FreeSet(f)
      BY <2>4 DEF FreeSet
    <3>3. NumFree(g) = NumFree(f) - 1
      BY <3>1, <3>2, OneIsUsed
    <3> QED BY <3>3, <1>3, <1>4
  <2>10. c # RootCluster
    BY <1>1, <1>4, <2>6
  <2> QED BY <1>4, <1>7, <2>1, <2>2, <2>3, <2>4, <2>6, <2>7, <2>8, <2>9, <2>10 DEF Begun
<1> QED BY <1>6, <1>7

\* How far a writer is in its file.
LEMMA AtIs ==
  ASSUME NEW s, Len(s) \in Nat, NEW off, NEW cluster, NEW at, IsAt(s, off, cluster, at)
  PROVE  /\ off \in Nat /\ at \in 0 .. BytesPerCluster
         /\ off <= Len(s) * BytesPerCluster
<1>1. PICK k \in 1 .. Len(s) : at \in 0 .. BytesPerCluster /\ off = (k - 1) * BytesPerCluster + at
  BY DEF IsAt
<1>2. BytesPerCluster \in Nat \ {0}
  BY FatAssumption
<1>3. k \in Nat /\ k - 1 \in Nat /\ k <= Len(s)
  BY <1>1
<1>4. (k - 1) * BytesPerCluster \in Nat /\ (k - 1) * BytesPerCluster + BytesPerCluster = k * BytesPerCluster
  BY <1>2, <1>3
<1>5. k * BytesPerCluster \in Nat /\ k * BytesPerCluster <= Len(s) * BytesPerCluster
  BY <1>2, <1>3, Scaled
<1>6. Len(s) * BytesPerCluster \in Nat
  BY <1>2
<1>7. PICK x, y, z : x = (k - 1) * BytesPerCluster /\ y = k * BytesPerCluster /\ z = Len(s) * BytesPerCluster
  OBVIOUS
<1>8. off = x + at /\ x \in Nat /\ x + BytesPerCluster = y /\ y <= z /\ y \in Nat /\ z \in Nat
  BY <1>1, <1>4, <1>5, <1>6, <1>7
<1>9. off \in Nat /\ off <= z
  BY <1>1, <1>2, <1>8
<1> QED BY <1>1, <1>7, <1>9

\* The entry of the file that is written.
LEMMA WrittenIs ==
  ASSUME FatInv, NEW p \in Files, NEW d, NEW len \in Nat, d.wr_off \in Nat, NEW s, NEW c, Begun(p, d, len, s, c),
         NEW e, e = Written(d, Entry(p), s.first, len)
  PROVE  e \in EntryType /\ e.name = Entry(p).name /\ e.first = c /\ e.size = d.wr_off + len
<1>1. PICK old : old = Entry(p)
  OBVIOUS
<1>2. old \in EntryType
  BY <1>1, PlacesIn
<1>3. e = [old EXCEPT !.first = IF d.wr_cluster = 0 /\ @ = 0 THEN s.first ELSE @, !.size = d.wr_off + len]
  BY <1>1 DEF Written
<1>4. /\ e.name = old.name /\ e.size = d.wr_off + len
      /\ e.first = (IF d.wr_cluster = 0 /\ old.first = 0 THEN s.first ELSE old.first)
      /\ e = [name |-> e.name, first |-> e.first, size |-> e.size]
  BY <1>2, <1>3 DEF EntryType
<1>5. e.first = c /\ c \in Cluster
  BY <1>1, <1>4 DEF Begun
<1>6. e \in EntryType
  <2>1. PICK x, y, z : x = e.name /\ y = e.first /\ z = e.size
    OBVIOUS
  <2>2. x \in Names \cup {""}
    BY <2>1, <1>2, <1>4 DEF EntryType
  <2>3. y \in Cluster \cup {0} /\ z \in Nat
    BY <2>1, <1>4, <1>5
  <2>4. e = [name |-> x, first |-> y, size |-> z]
    BY <2>1, <1>4
  <2>5. [name |-> x, first |-> y, size |-> z] \in EntryType
    BY <2>2, <2>3 DEF EntryType
  <2> QED BY <2>4, <2>5
<1> QED BY <1>1, <1>4, <1>5, <1>6

\* What Write does, in constants: v is what the loop leaves, and e the entry then.
Wrote(fd, p, d, len, v, e) ==
  /\ fat' = v.fat /\ SetEntry(p, e)
  /\ fds' = [fds EXCEPT ![fd] = [d EXCEPT !.wr_off = d.wr_off + len, !.wr_cluster = v.cluster,
                                          !.wr_cluster_off = v.off]]

\* What the loop of Write starts with.
Begin(d, s, len) ==
  [fat |-> s.fat, bytes |-> bytes, cluster |-> s.first, off |-> d.wr_cluster_off, left |-> len]

\* The step is what the loop leaves, the entry and the descriptor.
LEMMA WriteIs ==
  ASSUME FatInv, NEW fd \in Fds, NEW len, Write(fd, len),
         NEW d, d = fds[fd], NEW p, p = d.entry, NEW s, s = FirstToWrite(d, len),
         NEW v, v = Bytes(fd, d.wr_off, Begin(d, s, len), len)[len],
         NEW e, e = Written(d, Entry(p), s.first, len)
  PROVE  Wrote(fd, p, d, len, v, e)
<1>1. /\ fat' = Bytes(fd, fds[fd].wr_off, Begin(fds[fd], FirstToWrite(fds[fd], len), len), len)[len].fat
      /\ SetEntry(fds[fd].entry, Written(fds[fd], Entry(fds[fd].entry), FirstToWrite(fds[fd], len).first, len))
      /\ fds' = [fds EXCEPT
           ![fd].wr_off = @ + len,
           ![fd].wr_cluster = Bytes(fd, fds[fd].wr_off, Begin(fds[fd], FirstToWrite(fds[fd], len), len), len)[len].cluster,
           ![fd].wr_cluster_off = Bytes(fd, fds[fd].wr_off, Begin(fds[fd], FirstToWrite(fds[fd], len), len), len)[len].off]
  BY DEF Write, Bytes, Begin
<1>2. fat' = v.fat
  BY <1>1
<1>3. SetEntry(p, e)
  BY <1>1
<1>4. fds' = [fds EXCEPT ![fd].wr_off = @ + len, ![fd].wr_cluster = v.cluster, ![fd].wr_cluster_off = v.off]
  BY <1>1
<1>5. fds' = [fds EXCEPT ![fd] = [d EXCEPT !.wr_off = d.wr_off + len, !.wr_cluster = v.cluster, !.wr_cluster_off = v.off]]
  BY <1>4
<1> QED BY <1>2, <1>3, <1>5 DEF Wrote

\* A write, whose bytes fit in the rest of a cluster and one more.
LEMMA WriteKeeps ==
  ASSUME FatInv, NEW fd \in Fds, NEW len \in 0 .. MaxLen, Write(fd, len)
  PROVE  FatInv'
<1>1. len \in 0 .. BytesPerCluster /\ len \in Nat /\ BytesPerCluster \in Nat \ {0}
  <2>1. MaxLen \in Nat /\ BytesPerCluster \in Nat \ {0} /\ MaxLen <= BytesPerCluster
    BY FatAssumption
  <2> QED BY <2>1
<1>2. PICK d, p, s, v, e, c :
        /\ d = fds[fd] /\ p = d.entry /\ s = FirstToWrite(d, len)
        /\ v = Bytes(fd, d.wr_off, Begin(d, s, len), len)[len]
        /\ e = Written(d, Entry(p), s.first, len)
        /\ c = IF Entry(p).first # 0 THEN Entry(p).first ELSE s.first
  OBVIOUS
<1>3. fds[fd] # NoFile /\ NumFree(fat) >= NumCluster(len) + 1
  BY DEF Write
<1>4. DOMAIN d = Fields /\ p \in Files /\ Positioned(fat, d, Entry(p)) /\ DOMAIN fds = Fds
  BY <1>2, <1>3 DEF FatInv, DescriptorSound
<1>5. Wrote(fd, p, d, len, v, e)
  BY <1>2, WriteIs
<1>6. Begun(p, d, len, s, c)
  BY <1>1, <1>2, <1>3, <1>4, WriteBegins
<1>7. PICK T : T = Starts \cup {c}
  OBVIOUS
<1>8. /\ c \in T /\ c \in Cluster /\ c # RootCluster /\ (Entry(p).first = 0 => c \notin Starts)
      /\ Tidy(s.fat, T)
      /\ \A x \in Starts : Longer(Chain(fat, x), Chain(s.fat, x)) /\ (x # c => Chain(s.fat, x) = Chain(fat, x))
      /\ IsAt(Chain(s.fat, c), d.wr_off, s.first, d.wr_cluster_off) /\ (len > 0 => NumFree(s.fat) > 0)
  BY <1>6, <1>7 DEF Begun
<1>9. d.wr_off \in Nat /\ d.wr_cluster_off \in 0 .. BytesPerCluster
  <2>1. Len(Chain(s.fat, c)) \in Nat
    BY ChainLength
  <2> QED BY <2>1, <1>8, AtIs
<1>10. PICK f, off, o : f = s.fat /\ off = d.wr_off /\ o = d.wr_cluster_off
  OBVIOUS
<1>11. Writing(f, T, c, off, o, len, v, len)
  <2>1. PICK start, w : start = Begin(d, s, len) /\ w = Bytes(fd, off, start, len)
    OBVIOUS
  <2>2. IsBytes(w, fd, off, start, len)
    BY <1>1, <2>1, BytesAre
  <2>3. start.fat = f /\ start.cluster = s.first /\ start.off = o /\ start.left = len
    BY <1>10, <2>1 DEF Begin
  <2>4. \A x \in T : Longer(Chain(f, x), Chain(f, x))
    BY <1>8, <1>10, ChainStays
  <2>5. off + 0 = off /\ len - 0 = len /\ o + 0 = o
    BY <1>1, <1>9, <1>10
  <2>6. Writing(f, T, c, off, o, len, start, 0)
    BY <1>8, <1>10, <2>3, <2>4, <2>5 DEF Writing
  <2>7. Writing(f, T, c, off, o, len, w[len], len)
    BY <1>1, <1>8, <1>9, <1>10, <2>2, <2>6, BytesKeep
  <2> QED BY <1>2, <1>10, <2>1, <2>7
<1>12. PICK g : g = v.fat
  OBVIOUS
<1>13. /\ Tidy(g, T) /\ IsAt(Chain(g, c), off + len, v.cluster, v.off)
       /\ \A x \in T : Longer(Chain(f, x), Chain(g, x)) /\ (x # c => Chain(g, x) = Chain(f, x))
  BY <1>11, <1>12 DEF Writing
<1>14. /\ fat' = g /\ SetEntry(p, e)
       /\ fds' = [fds EXCEPT ![fd] = [d EXCEPT !.wr_off = off + len, !.wr_cluster = v.cluster, !.wr_cluster_off = v.off]]
  BY <1>5, <1>10, <1>12 DEF Wrote
<1>15. \A x \in Starts : Longer(Chain(fat, x), Chain(g, x)) /\ (x # c => Chain(g, x) = Chain(fat, x))
  <2> SUFFICES ASSUME NEW x \in Starts PROVE Longer(Chain(fat, x), Chain(g, x)) /\ (x # c => Chain(g, x) = Chain(fat, x))
    OBVIOUS
  <2>1. PICK r, t, u : r = Chain(fat, x) /\ t = Chain(f, x) /\ u = Chain(g, x)
    OBVIOUS
  <2>2. Longer(r, t) /\ (x # c => t = r)
    BY <1>8, <1>10, <2>1
  <2>3. Longer(t, u) /\ (x # c => u = t)
    BY <1>7, <1>13, <2>1
  <2>4. Longer(r, u)
    BY <2>2, <2>3, LongerStill
  <2> QED BY <2>1, <2>2, <2>3, <2>4
<1>16. e \in EntryType /\ e.name = Entry(p).name /\ e.first = c /\ e.size = off + len
  BY <1>1, <1>2, <1>4, <1>6, <1>9, <1>10, WrittenIs
<1>17. /\ ToSet(Entries) \subseteq Cluster \X InCluster /\ Files \subseteq Cluster \X InCluster
       /\ dir \in [Cluster -> [InCluster -> EntryType]]
  BY PlacesIn DEF FatInv
<1>18. /\ dir' \in [Cluster -> [InCluster -> EntryType]]
       /\ \A q \in Cluster \X InCluster : Entry(q)' = IF q = p THEN e ELSE Entry(q)
  <2>1. p \in Cluster \X InCluster
    BY <1>4, <1>17
  <2> QED BY <2>1, <1>14, <1>16, <1>17, EntryIsSet
<1>19. Entries' = Entries
  <2>1. Chain(g, RootCluster) = Chain(fat, RootCluster)
    BY <1>8, <1>15 DEF Starts
  <2> QED BY <2>1, <1>14 DEF Entries
<1>20. Files' = Files
  <2>1. Files' = {q \in ToSet(Entries) : Entry(q)'.name # ""}
    BY <1>19 DEF Files, Entry
  <2>2. \A q \in ToSet(Entries) : Entry(q)'.name = Entry(q).name
    BY <1>16, <1>17, <1>18
  <2> QED BY <2>1, <2>2 DEF Files
<1>21. EntrySet(p, e)
  <2>1. \A q \in Files : q # p => Entry(q)' = Entry(q)
    BY <1>17, <1>18
  <2>2. Entry(p)' = e
    BY <1>4, <1>17, <1>18
  <2>3. Files' = Files \cup {p}
    BY <1>4, <1>20
  <2> QED BY <2>1, <2>2, <2>3, <1>16, <1>18 DEF EntrySet
<1>22. e.size <= Len(Chain(g, c)) * BytesPerCluster
  <2>1. PICK t : t = Chain(g, c)
    OBVIOUS
  <2>2. Len(t) \in Nat /\ IsAt(t, off + len, v.cluster, v.off)
    BY <1>13, <2>1, ChainLength
  <2>3. off + len <= Len(t) * BytesPerCluster
    BY <2>2, AtIs
  <2> QED BY <1>16, <2>1, <2>3
<1>23. Fits(p, e, fat')
  <2>1. \A q \in Files : q # p => Entry(q).name # e.name
    BY <1>4, <1>16 DEF FatInv, OneEntryPerName
  <2>2. \A q \in Files : q # p => Entry(q).first # c
    <3> SUFFICES ASSUME NEW q \in Files, q # p, Entry(q).first = c PROVE FALSE
      OBVIOUS
    <3>1. c # 0
      BY <1>8, ClustersAre
    <3>2. c \in Starts
      BY <3>1 DEF Starts
    <3>3. Entry(p).first = c
      BY <1>2, <1>8, <3>2
    <3> QED BY <1>4, <3>1, <3>3 DEF FatInv, EntriesSound
  <2>3. Entry(p).first # 0 => c = Entry(p).first
    BY <1>2
  <2>4. c # 0
    BY <1>8, ClustersAre
  <2> QED BY <2>1, <2>2, <2>3, <2>4, <1>8, <1>14, <1>16, <1>22 DEF Fits
<1>24. Starts' = T
  <2>1. Starts' = {RootCluster} \cup ({Entry(q)'.first : q \in Files} \ {0})
    BY <1>20 DEF Starts, Entry
  <2>2. {Entry(q)'.first : q \in Files} = {Entry(q).first : q \in Files \ {p}} \cup {c}
    BY <1>4, <1>16, <1>21 DEF EntrySet
  <2>3. {Entry(q).first : q \in Files} = {Entry(q).first : q \in Files \ {p}} \cup {Entry(p).first}
    BY <1>4
  <2>4. c # 0 /\ (Entry(p).first = 0 \/ Entry(p).first = c)
    BY <1>2, <1>8, ClustersAre
  <2> QED BY <2>1, <2>2, <2>3, <2>4, <1>7 DEF Starts
<1>25. Tidy(fat', Starts') /\ \A x \in Starts : Longer(Chain(fat, x), Chain(fat', x))
  BY <1>13, <1>14, <1>15, <1>24
<1>26. PICK d2 : d2 = [d EXCEPT !.wr_off = off + len, !.wr_cluster = v.cluster, !.wr_cluster_off = v.off]
  OBVIOUS
<1>27. DOMAIN d2 = Fields /\ d2.entry = p /\ d2.wr_off = off + len /\ d2.wr_cluster = v.cluster /\ d2.wr_cluster_off = v.off
  BY <1>2, <1>4, <1>26 DEF Fields
<1>28. DOMAIN fds' = Fds /\ fds'[fd] = d2 /\ \A other \in Fds : other # fd => fds'[other] = fds[other]
  BY <1>4, <1>14, <1>26
<1>29. Positioned(fat', d2, e)
  <2>1. c # 0
    BY <1>8, ClustersAre
  <2> QED BY <2>1, <1>13, <1>14, <1>16, <1>27 DEF Positioned
<1> QED BY <1>21, <1>23, <1>25, <1>27, <1>28, <1>29, VolumeKeeps

-----------------------------------------------------------------------------

\* Every step of every call keeps the invariant.
LEMMA FatSteps == FatInv /\ [FatNext]_fatVars => FatInv'
<1> SUFFICES ASSUME FatInv, [FatNext]_fatVars PROVE FatInv'
  OBVIOUS
<1>1. CASE UNCHANGED fatVars
  <2>1. UNCHANGED <<fat, dir>> /\ fds' = fds
    BY <1>1 DEF fatVars
  <2>2. DOMAIN fds' = Fds /\ \A fd \in Fds : fds'[fd] # NoFile => DescriptorSound(fds'[fd])
    BY <2>1 DEF FatInv
  <2> QED BY <2>1, <2>2, DescriptorsKeep
<1>2. CASE FatNext
  <2>1. PICK fd \in Fds :
          \/ \E n \in Names : CreateFile(fd, n) \/ \E mode \in {"r", "w"} : OpenFile(fd, n, mode)
          \/ Close(fd)
          \/ \E len \in 0..MaxLen : Read(fd, len) \/ Write(fd, len)
          \/ \E len \in 0..MaxLen, offset \in 0..MaxSize : Load(fd, len, offset)
    BY <1>2 DEF FatNext
  <2>2. CASE \E n \in Names : CreateFile(fd, n)
    BY <2>2, CreateFileKeeps
  <2>3. CASE \E n \in Names : \E mode \in {"r", "w"} : OpenFile(fd, n, mode)
    BY <2>3, OpenFileKeeps
  <2>4. CASE Close(fd)
    BY <2>4, CloseKeeps
  <2>5. CASE \E len \in 0..MaxLen : Read(fd, len)
    BY <2>5, ReadKeeps
  <2>6. CASE \E len \in 0..MaxLen : Write(fd, len)
    BY <2>6, WriteKeeps
  <2>7. CASE \E len \in 0..MaxLen, offset \in 0..MaxSize : Load(fd, len, offset)
    BY <2>7, LoadKeeps
  <2> QED BY <2>1, <2>2, <2>3, <2>4, <2>5, <2>6, <2>7
<1> QED BY <1>1, <1>2

\* The volume is sound after every step: chains end, share no cluster and lose none, a file has as
\* many clusters as its size needs, and a name is that of one file.
THEOREM FilesStaySound == FatSpec => []FilesSound
<1>1. FatInit => FatInv
  BY FatStarts
<1>2. FatInv /\ [FatNext]_fatVars => FatInv'
  BY FatSteps
<1>3. FatInv => FilesSound
  BY VolumeIsSound
<1> QED BY <1>1, <1>2, <1>3, PTL DEF FatSpec

===============================================================================
