--------------------------- MODULE MCMemoryManager ---------------------------
(* The instances of MemoryManager that TLC checks.                          *)
EXTENDS MemoryManager

CONSTANTS Top  \* frames the memory map may describe

Types == {"kEfiConventionalMemory", "kEfiBootServicesData", "kEfiLoaderData"}
Entries == [start : 0..Top - 1, pages : 1..3, type : Types]

\* Entries that do not cross the end of the bitmap, and all of them.
MCDescriptors == {d \in Entries : d.start < kFrameCount => d.start + d.pages <= kFrameCount}
AnyDescriptors == Entries

\* The smallest heap that needs a search, then the two stacks.
MCBootBlocks == <<2, 1, 1>>
=============================================================================
