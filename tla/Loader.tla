------------------------------- MODULE Loader -------------------------------
(***************************************************************************)
(* The UEFI loader (RagingosLoaderPkg/main.c): it copies the kernel to its *)
(* addresses, reads the volume, and takes the machine over from firmware   *)
(* that goes on allocating memory until ExitBootServices succeeds. A cell  *)
(* of memory stands for the bytes that are always used together; any call  *)
(* of the firmware may fail, and then the loader halts.                    *)
(***************************************************************************)
EXTENDS Integers, Sequences, FiniteSets, FiniteSetsExt, SequencesExt

CONSTANTS
  PageCells,         \* cells of a page of 4 KiB
  MemoryPages,
  FirmwarePages,     \* pages that are never free
  Kernels,           \* [phdrs, cells, entry]: files \kernel.elf
  Volumes,           \* volumes: the cells of \fat_disk or of the boot device
  MaxVolumeCells,    \* 32 MiB
  MaxFirmwareEvents  \* bound on what the firmware does by itself

ASSUME LoaderAssumption ==
  /\ PageCells \in Nat \ {0} /\ MemoryPages \in Nat
  /\ \A k \in Kernels : k.cells # <<>> /\ Head(k.cells) = k.entry

VARIABLES
  boot_pc,    \* the next statement of UefiMain
  mem_type,   \* the firmware's type of each page
  mem_key,    \* its key, which changes with every allocation
  ram,        \* what each cell of memory holds
  memmap,     \* the loader's copy of the map and its key
  kernel,     \* the file \kernel.elf
  kernel_buffer, kernel_range, \* kernel_first_addr and kernel_last_addr
  volume, volume_image,
  tries,      \* calls of ExitBootServices
  firmware_events,
  entry_addr

loaderVars == <<boot_pc, mem_type, mem_key, ram, memmap, kernel, kernel_buffer, kernel_range,
                volume, volume_image, tries, firmware_events, entry_addr>>

PageOf(a) == a \div PageCells
Cells(first, n) == first .. first + n - 1
PagesOf(cells) == {PageOf(a) : a \in cells}
AllPages == 0 .. MemoryPages - 1
EmptyMap == [map |-> <<>>, key |-> -1]

LoaderInit ==
  /\ boot_pc = "GetMemoryMap"
  /\ mem_type = [p \in AllPages |-> IF p \in FirmwarePages THEN "runtime" ELSE "conventional"]
  /\ mem_key = 0
  /\ ram = [a \in 0 .. MemoryPages * PageCells - 1 |-> "junk"]
  /\ memmap = EmptyMap /\ tries = 0 /\ firmware_events = 0 /\ entry_addr = "none"
  /\ kernel = <<>> /\ kernel_buffer = -1 /\ kernel_range = <<0, 0>>
  /\ volume = <<>> /\ volume_image = -1

-----------------------------------------------------------------------------
(* Boot services *)

Retype(pages, type) ==
  /\ mem_type' = [p \in AllPages |-> IF p \in pages THEN type ELSE mem_type[p]]
  /\ mem_key' = mem_key + 1

AreFree(pages) == pages \subseteq AllPages /\ \A p \in pages : mem_type[p] = "conventional"

\* AllocatePool: whole pages of type EfiLoaderData, wherever the firmware likes.
Pools(n) == {a \in {p * PageCells : p \in AllPages} : AreFree(PagesOf(Cells(a, n)))}

Filled(mem, first, cells) ==
  [a \in DOMAIN mem |-> IF a \in Cells(first, Len(cells)) THEN cells[a - first + 1] ELSE mem[a]]

GetMemoryMap == memmap' = [map |-> mem_type, key |-> mem_key]

\* A call that may fail: the loader prints and stops in Halt.
Halts == boot_pc' = "halted" /\ UNCHANGED <<mem_type, mem_key, ram, memmap, kernel, kernel_buffer,
           kernel_range, volume, volume_image, tries, firmware_events, entry_addr>>

\* A timer event of the firmware allocates or frees a page while the loader runs.
FirmwareEvent ==
  /\ boot_pc \notin {"EnterKernel", "kernel", "halted"} /\ firmware_events < MaxFirmwareEvents
  /\ \E p \in AllPages \ FirmwarePages :
       \/ mem_type[p] = "conventional" /\ Retype({p}, "runtime")
       \/ mem_type[p] = "runtime" /\ Retype({p}, "conventional")
  /\ firmware_events' = firmware_events + 1
  /\ UNCHANGED <<boot_pc, ram, memmap, kernel, kernel_buffer, kernel_range, volume, volume_image,
                 tries, entry_addr>>

-----------------------------------------------------------------------------
(* UefiMain *)

SaveFirstMap ==
  /\ boot_pc = "GetMemoryMap"
  /\ GetMemoryMap /\ boot_pc' = "OpenKernel"
  /\ UNCHANGED <<mem_type, mem_key, ram, kernel, kernel_buffer, kernel_range, volume, volume_image,
                 tries, firmware_events, entry_addr>>

\* \memmap is written, the screen found and cleared, and \kernel.elf read into a pool.
ReadKernel ==
  /\ boot_pc = "OpenKernel"
  /\ \E k \in Kernels : \E buffer \in Pools(Len(k.cells)) :
       /\ kernel' = k /\ kernel_buffer' = buffer
       /\ Retype(PagesOf(Cells(buffer, Len(k.cells))), "loader")
       /\ ram' = Filled(ram, buffer, k.cells)
  /\ boot_pc' = "AllocatePages"
  /\ UNCHANGED <<memmap, kernel_range, volume, volume_image, tries, firmware_events, entry_addr>>

Loads == {i \in DOMAIN kernel.phdrs : kernel.phdrs[i].p_type = "PT_LOAD"}

\* Faulty variant: what a segment has in the file, not in memory.
CalcFileRange ==
  << Min({kernel.phdrs[i].p_vaddr : i \in Loads}),
     Max({kernel.phdrs[i].p_vaddr + kernel.phdrs[i].p_filesz : i \in Loads}) >>

CalcLoadAddressRange ==
  << Min({kernel.phdrs[i].p_vaddr : i \in Loads}),
     Max({kernel.phdrs[i].p_vaddr + kernel.phdrs[i].p_memsz : i \in Loads}) >>

\* The pages at the kernel's own address, num_pages of them; whoever has them already, loses the boot.
AllocatePages ==
  /\ boot_pc = "AllocatePages"
  /\ LET range == CalcLoadAddressRange
         num_pages == (range[2] - range[1] + PageCells - 1) \div PageCells
         pages == Cells(PageOf(range[1]), num_pages)
     IN  /\ kernel_range' = range
         /\ IF AreFree(pages) THEN Retype(pages, "loader") /\ boot_pc' = "CopyLoadSegments"
                              ELSE UNCHANGED <<mem_type, mem_key>> /\ boot_pc' = "halted"
  /\ UNCHANGED <<ram, memmap, kernel, kernel_buffer, volume, volume_image, tries, firmware_events, entry_addr>>

\* One segment: its bytes of the file, then zeros up to p_memsz.
CopySegment(mem, phdr) ==
  LET file == [i \in 1 .. phdr.p_filesz |-> mem[kernel_buffer + phdr.p_offset + i - 1]]
      zeros == [i \in 1 .. phdr.p_memsz - phdr.p_filesz |-> "zero"]
  IN  Filled(mem, phdr.p_vaddr, file \o zeros)

\* The segments in the order of the table, then FreePool(kernel_buffer).
CopyLoadSegments ==
  /\ boot_pc = "CopyLoadSegments"
  /\ ram' = FoldLeft(CopySegment, ram, SelectSeq(kernel.phdrs, LAMBDA phdr : phdr.p_type = "PT_LOAD"))
  /\ Retype(PagesOf(Cells(kernel_buffer, Len(kernel.cells))), "conventional")
  /\ boot_pc' = "ReadVolume"
  /\ UNCHANGED <<memmap, kernel, kernel_buffer, kernel_range, volume, volume_image, tries, firmware_events, entry_addr>>

\* \fat_disk whole, or else the first blocks of the boot device, at most 32 MiB.
ReadVolume ==
  /\ boot_pc = "ReadVolume"
  /\ \E v \in Volumes, is_file \in BOOLEAN :
       LET read == IF is_file THEN v ELSE SubSeq(v, 1, Min({Len(v), MaxVolumeCells}))
       IN  \E buffer \in Pools(Len(read)) :
             /\ volume' = read /\ volume_image' = buffer
             /\ Retype(PagesOf(Cells(buffer, Len(read))), "loader")
             /\ ram' = Filled(ram, buffer, read)
  /\ boot_pc' = "ExitBootServices"
  /\ UNCHANGED <<memmap, kernel, kernel_buffer, kernel_range, tries, firmware_events, entry_addr>>

\* The firmware lets the loader go only with the key of the present map. The first key is always
\* stale; then the map is read again and the call repeated once.
ExitBootServices ==
  /\ boot_pc = "ExitBootServices"
  /\ \/ memmap.key = mem_key /\ boot_pc' = "EnterKernel" /\ UNCHANGED memmap
     \/ memmap.key # mem_key /\ tries = 0 /\ boot_pc' = "GetMapAgain" /\ UNCHANGED memmap
     \/ memmap.key # mem_key /\ tries = 1 /\ boot_pc' = "halted" /\ UNCHANGED memmap
  /\ tries' = tries + 1
  /\ UNCHANGED <<mem_type, mem_key, ram, kernel, kernel_buffer, kernel_range, volume, volume_image,
                 firmware_events, entry_addr>>

GetMapAgain ==
  /\ boot_pc = "GetMapAgain"
  /\ GetMemoryMap /\ boot_pc' = "ExitBootServices"
  /\ UNCHANGED <<mem_type, mem_key, ram, kernel, kernel_buffer, kernel_range, volume, volume_image,
                 tries, firmware_events, entry_addr>>

\* e_entry is read from the image in memory, not from the file.
EnterKernel ==
  /\ boot_pc = "EnterKernel"
  /\ entry_addr' = ram[kernel_range[1]] /\ boot_pc' = "kernel"
  /\ UNCHANGED <<mem_type, mem_key, ram, memmap, kernel, kernel_buffer, kernel_range, volume, volume_image,
                 tries, firmware_events>>

\* Every other call of the firmware may fail as well.
Fails == boot_pc \in {"GetMemoryMap", "OpenKernel", "CopyLoadSegments", "ReadVolume", "GetMapAgain"} /\ Halts

LoaderNext ==
  \/ SaveFirstMap \/ ReadKernel \/ AllocatePages \/ CopyLoadSegments \/ ReadVolume
  \/ ExitBootServices \/ GetMapAgain \/ EnterKernel \/ Fails \/ FirmwareEvent

-----------------------------------------------------------------------------
(* What the kernel gets *)

\* The cell of the image at an address, as the program headers describe it.
ImageCell(a) ==
  LET i == CHOOSE i \in Loads : a \in Cells(kernel.phdrs[i].p_vaddr, kernel.phdrs[i].p_memsz)
      off == a - kernel.phdrs[i].p_vaddr
  IN  IF off < kernel.phdrs[i].p_filesz THEN kernel.cells[kernel.phdrs[i].p_offset + off + 1] ELSE "zero"
ImageCells == UNION {Cells(kernel.phdrs[i].p_vaddr, kernel.phdrs[i].p_memsz) : i \in Loads}
VolumeCells == Cells(volume_image, Len(volume))

\* When the kernel starts, the memory map it is given (KernelMainNewStack hands it to
\* InitializeMemoryManager) is the one in force, and keeps the memory manager away from the image and the
\* volume, although both were allocated after the loader first asked for the map and the firmware
\* allocates meanwhile; image, zeroed .bss, entry point and volume are whole.
MachineIsHandedOver ==
  boot_pc = "kernel" =>
    /\ memmap.map = mem_type
    /\ \A a \in ImageCells \cup VolumeCells : memmap.map[PageOf(a)] = "loader"
    /\ \A a \in ImageCells : ram[a] = ImageCell(a)
    /\ \A a \in VolumeCells : ram[a] = volume[a - volume_image + 1]
    /\ entry_addr = kernel.entry
=============================================================================
