------------------------------ MODULE AppMemory ------------------------------
(***************************************************************************)
(* The addresses an application gets at run time: the heap that newlib's   *)
(* malloc grows with sbrk (src/apps/newlib_support.c), the pages it        *)
(* demands itself and the files it maps (src/kernel/syscall.cpp). The heap *)
(* and the application's own demands share one range of addresses, which   *)
(* grows upwards; mappings are taken downwards from the stack.             *)
(***************************************************************************)
EXTENDS Integers

CONSTANTS
  DPagingBegin, \* the page after the image
  StackFrame,   \* the page the stack starts at, and where the mappings end
  Increments,   \* what malloc asks sbrk for
  Demands,      \* pages an application demands
  FileSizes

PageSize == 4096

ASSUME AppMemoryAssumption ==
  /\ DPagingBegin \in Nat \ {0} /\ DPagingBegin % PageSize = 0
  /\ StackFrame \in Nat /\ StackFrame % PageSize = 0 /\ DPagingBegin <= StackFrame
  /\ Increments \subseteq Nat \ {0} /\ Demands \subseteq Nat \ {0} /\ FileSizes \subseteq Nat

VARIABLES
  dpaging_end, file_map_end, \* the task's, in the kernel
  dpage_end, program_break,  \* sbrk's static variables
  heap,   \* the parts sbrk returned and malloc holds, [from, to)
  demanded, \* the parts the application demanded itself
  mapped    \* the parts files are mapped to

memVars == <<dpaging_end, file_map_end, dpage_end, program_break, heap, demanded, mapped>>

Part(from, to) == [from |-> from, to |-> to]

MemInit ==
  /\ dpaging_end = DPagingBegin /\ file_map_end = StackFrame
  /\ dpage_end = 0 /\ program_break = 0
  /\ heap = {} /\ demanded = {} /\ mapped = {}

-----------------------------------------------------------------------------

\* The system call only moves the end: a frame comes with the page fault. The code compares the
\* end with nothing; that a program leaves room below its mapped files is a bound of this model.
DemandPages(num_pages) ==
  /\ dpaging_end + PageSize * num_pages <= file_map_end
  /\ dpaging_end' = dpaging_end + PageSize * num_pages

NumPages(incr) == (incr + PageSize - 1) \div PageSize

\* Faulty variant: a demand is only made when nothing is left at all.
ExceedsLate(incr) == dpage_end = 0 \/ dpage_end <= program_break

Exceeds(incr) == dpage_end = 0 \/ dpage_end < program_break + incr

\* What is left of the last demand is given up when it is too small.
Sbrk(incr) ==
  /\ IF Exceeds(incr)
     THEN /\ DemandPages(NumPages(incr))
          /\ dpage_end' = dpaging_end + PageSize * NumPages(incr)
          /\ program_break' = dpaging_end + incr
          /\ heap' = heap \cup {Part(dpaging_end, dpaging_end + incr)}
     ELSE /\ program_break' = program_break + incr
          /\ heap' = heap \cup {Part(program_break, program_break + incr)}
          /\ UNCHANGED <<dpaging_end, dpage_end>>
  /\ UNCHANGED <<file_map_end, demanded, mapped>>

\* malloc asks for the break before it gives memory back, and gives back from the part that ends
\* there.
GiveBack(part, n) ==
  /\ part.to = program_break /\ n <= part.to - part.from
  /\ program_break' = program_break - n
  /\ heap' = (heap \ {part}) \cup
               (IF n = part.to - part.from THEN {} ELSE {Part(part.from, part.to - n)})
  /\ UNCHANGED <<dpaging_end, dpage_end, file_map_end, demanded, mapped>>

\* sbrk(0) as malloc's first question.
AskBreak ==
  /\ IF Exceeds(0)
     THEN DemandPages(NumPages(0)) /\ dpage_end' = dpaging_end /\ program_break' = dpaging_end
     ELSE UNCHANGED <<dpaging_end, dpage_end, program_break>>
  /\ UNCHANGED <<file_map_end, heap, demanded, mapped>>

DemandOwn(num_pages) ==
  /\ DemandPages(num_pages)
  /\ demanded' = demanded \cup {Part(dpaging_end, dpaging_end + PageSize * num_pages)}
  /\ UNCHANGED <<file_map_end, dpage_end, program_break, heap, mapped>>

\* vaddr_begin: the mapping's start is rounded down, its end is where the one before starts.
MapFile(size) ==
  LET vaddr_begin == ((file_map_end - size) \div PageSize) * PageSize IN
  /\ dpaging_end <= vaddr_begin
  /\ file_map_end' = vaddr_begin
  /\ mapped' = mapped \cup {Part(vaddr_begin, file_map_end)}
  /\ UNCHANGED <<dpaging_end, dpage_end, program_break, heap, demanded>>

MemNext ==
  \/ AskBreak
  \/ \E incr \in Increments : Sbrk(incr) \/ \E part \in heap : GiveBack(part, incr)
  \/ \E n \in Demands : DemandOwn(n)
  \/ \E size \in FileSizes : MapFile(size)

MemSpec == MemInit /\ [][MemNext]_memVars

-----------------------------------------------------------------------------
(* Properties *)

Apart(p, q) == p.to <= q.from \/ q.to <= p.from

\* However malloc and the application ask in turn, the parts malloc holds are apart from each
\* other, from the pages the application demanded and from the mapped files, and every byte of
\* them is one whose page fault HandlePageFault resolves as demanded (sbrk's break, which the
\* kernel does not know).
HeapIsSound ==
  /\ \A p \in heap : DPagingBegin <= p.from /\ p.to <= dpaging_end
  /\ \A p, q \in heap : p # q => Apart(p, q)
  /\ \A p \in heap, q \in demanded : Apart(p, q)
  /\ \A p \in heap, q \in mapped : Apart(p, q)

=============================================================================
