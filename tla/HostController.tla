---------------------------- MODULE HostController ----------------------------
(***************************************************************************)
(* The start of the xHCI controller (xhci.cpp: Controller::Initialize and  *)
(* Run) and the memory the USB drivers give it (usb/memory.cpp). The       *)
(* controller and the BIOS go on by themselves: they halt, reset, become   *)
(* ready and give up the ownership when they like, and a register that is  *)
(* written during a reset does not keep its value.                         *)
(***************************************************************************)
EXTENDS Integers, Sequences, FiniteSets

CONSTANTS
  PoolStarts,       \* addresses of memory_pool
  kMemoryPoolSize,
  SlotsEnabled,     \* Controller::kDeviceSize
  Scratchpads,      \* what HCSPARAMS2 asks for: [low |-> , high |-> ], two fields of five bits
  ExtendedLists,    \* the controller's extended capabilities: sequences of capability ids
  ResetTicks        \* int(0.01 * kTimerFreq)

BuffersOf(scratchpads) == scratchpads.low + 32 * scratchpads.high

ASSUME HostControllerAssumption ==
  /\ \A start \in PoolStarts : start % 64 = 0
  /\ SlotsEnabled \in 1 .. 255 /\ ResetTicks \in Nat
  \* The results of the allocations for scratchpads are not looked at.
  /\ \A s \in Scratchpads : (BuffersOf(s) + 3) * 4096 <= kMemoryPoolSize

VARIABLES
  hc_step,      \* where the driver is
  usb_memory,   \* [start |-> memory_pool, ptr |-> alloc_ptr, blocks |-> history: what was allocated]
  legacy,       \* the USBLEGSUP register: [bios |-> BOOLEAN, os |-> BOOLEAN]
  machine,      \* [list |-> its extended capabilities, scratchpads |-> what HCSPARAMS2 says]
  cmd, sts,     \* USBCMD and USBSTS
  regs,         \* the other registers the driver writes
  waited_ticks, \* timer ticks since the reset, up to ResetTicks + 1
  misused       \* history: the driver did what the controller does not allow

hcVars == <<hc_step, usb_memory, legacy, machine, cmd, sts, regs, waited_ticks, misused>>

NullPtr == 0
AfterReset == [CONFIG |-> 0, DCBAAP |-> NullPtr, CRCR |-> NullPtr, ERSTSZ |-> 0, ERDP |-> NullPtr,
               ERSTBA |-> NullPtr, IMAN |-> FALSE, context0 |-> NullPtr, scratchpads |-> {}]

\* Firmware may have used the controller, and left it running or halted.
HcInit ==
  /\ hc_step = "allocate"
  /\ usb_memory = [start |-> NullPtr, ptr |-> NullPtr, blocks |-> {}]
  /\ legacy = [bios |-> TRUE, os |-> FALSE] /\ machine = [list |-> << >>, scratchpads |-> [low |-> 0, high |-> 0]]
  /\ cmd = [run_stop |-> TRUE, reset |-> FALSE, interrupter_enable |-> TRUE]
  /\ sts = [halted |-> FALSE, not_ready |-> FALSE]
  /\ regs = AfterReset /\ waited_ticks = 0 /\ misused = FALSE

-----------------------------------------------------------------------------
(* AllocMem *)

CeilTo(value, alignment) == ((value + alignment - 1) \div alignment) * alignment

\* Faulty variant: a block may cross a boundary.
PlaceAligned(ptr, size, alignment, boundary) == IF alignment > 0 THEN CeilTo(ptr, alignment) ELSE ptr

\* Where a block of this size goes.
Place(ptr, size, alignment, boundary) ==
  LET aligned == IF alignment > 0 THEN CeilTo(ptr, alignment) ELSE ptr
  IN  IF boundary > 0 /\ CeilTo(aligned, boundary) < aligned + size THEN CeilTo(aligned, boundary) ELSE aligned

\* The memory afterwards: the block is [name, at, size, boundary], its address NullPtr when the pool is used up.
AllocMem(mem, name, size, alignment, boundary) ==
  LET at == Place(mem.ptr, size, alignment, boundary)
      block(p) == [name |-> name, at |-> p, size |-> size, alignment |-> alignment, boundary |-> boundary]
  IN  IF mem.start + kMemoryPoolSize < at + size
      THEN [mem EXCEPT !.ptr = at, !.blocks = @ \cup {block(NullPtr)}]
      ELSE [mem EXCEPT !.ptr = at + size, !.blocks = @ \cup {block(at)}]

AddressOf(mem, name) == (CHOOSE b \in mem.blocks : b.name = name).at

\* DeviceManager::Initialize, for a machine that has just been started.
AllocateDevices ==
  /\ hc_step = "allocate"
  /\ \E start \in PoolStarts, list \in ExtendedLists, s \in Scratchpads, used \in BOOLEAN, os \in BOOLEAN :
       LET devices == AllocMem([start |-> start, ptr |-> start, blocks |-> {}], <<"devices">>, 8 * (SlotsEnabled + 1), 0, 0)
       IN  /\ usb_memory' = AllocMem(devices, <<"contexts">>, 8 * (SlotsEnabled + 1), 64, 4096)
           /\ machine' = [list |-> list, scratchpads |-> s]
           /\ cmd' = [cmd EXCEPT !.run_stop = used] /\ sts' = [sts EXCEPT !.halted = ~used]
           /\ legacy' = [bios |-> ~os, os |-> os]
  /\ hc_step' = IF \E b \in usb_memory'.blocks : b.at = NullPtr THEN "exit" ELSE "own"
  /\ UNCHANGED <<regs, waited_ticks, misused>>

-----------------------------------------------------------------------------
(* Ownership and reset *)

\* An extended capability with id 1 is USBLEGSUP.
HasLegacySupport == \E i \in DOMAIN machine.list : machine.list[i] = 1

\* Faulty variant: the driver does not wait for the BIOS.
RequestOnly ==
  /\ hc_step = "own"
  /\ legacy' = IF HasLegacySupport THEN [legacy EXCEPT !.os = TRUE] ELSE legacy
  /\ hc_step' = "stop"
  /\ UNCHANGED <<usb_memory, machine, cmd, sts, regs, waited_ticks, misused>>

RequestHCOwnership ==
  /\ hc_step = "own"
  /\ IF HasLegacySupport /\ ~legacy.os
     THEN legacy' = [legacy EXCEPT !.os = TRUE] /\ hc_step' = "wait_owner"
     ELSE UNCHANGED legacy /\ hc_step' = "stop"
  /\ UNCHANGED <<usb_memory, machine, cmd, sts, regs, waited_ticks, misused>>

WaitOwner ==
  /\ hc_step = "wait_owner"
  /\ ~legacy.bios /\ legacy.os
  /\ hc_step' = "stop"
  /\ UNCHANGED <<usb_memory, legacy, machine, cmd, sts, regs, waited_ticks, misused>>

\* The registers may not be written while the BIOS has the controller, nor before it is ready.
MayWrite == (HasLegacySupport => ~legacy.bios) /\ ~sts.not_ready /\ ~cmd.reset

\* One write: the driver's next step, and whether it was allowed.
Writes(next) == hc_step' = next /\ misused' = (misused \/ ~MayWrite)

StopController ==
  /\ hc_step = "stop"
  /\ Writes("wait_halted")
  /\ cmd' = [cmd EXCEPT !.interrupter_enable = FALSE, !.run_stop = IF sts.halted THEN @ ELSE FALSE]
  /\ UNCHANGED <<usb_memory, legacy, machine, sts, regs, waited_ticks>>

\* Faulty variant: the reset does not wait for the controller to halt.
ResetAtOnce ==
  /\ hc_step = "wait_halted"
  /\ hc_step' = "wait_tick" /\ misused' = (misused \/ ~MayWrite \/ ~sts.halted)
  /\ cmd' = [cmd EXCEPT !.reset = TRUE] /\ waited_ticks' = 0
  /\ UNCHANGED <<usb_memory, legacy, machine, sts, regs>>

\* Host controller must be halted before resetting it (xhci.cpp:378).
ResetController ==
  /\ hc_step = "wait_halted" /\ sts.halted
  /\ hc_step' = "wait_tick" /\ misused' = (misused \/ ~MayWrite \/ ~sts.halted)
  /\ cmd' = [cmd EXCEPT !.reset = TRUE] /\ waited_ticks' = 0
  /\ UNCHANGED <<usb_memory, legacy, machine, sts, regs>>

\* The wait is over when more than ResetTicks ticks have passed; until then no register is read.
WaitTick ==
  /\ hc_step = "wait_tick" /\ waited_ticks > ResetTicks
  /\ hc_step' = "wait_reset"
  /\ UNCHANGED <<usb_memory, legacy, machine, cmd, sts, regs, waited_ticks, misused>>

\* Faulty variant: a controller that has reset itself counts as ready.
WaitResetOnly ==
  /\ hc_step = "wait_reset" /\ ~cmd.reset
  /\ hc_step' = "configure"
  /\ UNCHANGED <<usb_memory, legacy, machine, cmd, sts, regs, waited_ticks, misused>>

\* Both loops: HCRST, then CNR.
WaitReset ==
  /\ hc_step = "wait_reset" /\ ~cmd.reset /\ ~sts.not_ready
  /\ hc_step' = "configure"
  /\ UNCHANGED <<usb_memory, legacy, machine, cmd, sts, regs, waited_ticks, misused>>

-----------------------------------------------------------------------------
(* The registers *)

\* What remains of a register write.
WriteTo(fields) ==
  regs' = IF MayWrite THEN [r \in DOMAIN regs |-> IF r \in DOMAIN fields THEN fields[r] ELSE regs[r]] ELSE regs

SetMaxSlots ==
  /\ hc_step = "configure"
  /\ Writes("scratchpads")
  /\ WriteTo([CONFIG |-> SlotsEnabled])
  /\ UNCHANGED <<usb_memory, legacy, machine, cmd, sts, waited_ticks>>

max_scratchpad_buffers == BuffersOf(machine.scratchpads)

RECURSIVE AllocBuffers(_, _)
AllocBuffers(mem, n) ==
  IF n = 0 THEN mem
  ELSE AllocMem(AllocBuffers(mem, n - 1), <<"scratchpad", n>>, 4096, 4096, 4096)

\* Their array is the 0th device context.
SetDeviceContexts ==
  /\ hc_step = "scratchpads"
  /\ Writes("rings")
  /\ LET array == AllocMem(usb_memory, <<"scratchpads">>, 8 * max_scratchpad_buffers, 64, 4096)
         mem == IF max_scratchpad_buffers > 0 THEN AllocBuffers(array, max_scratchpad_buffers) ELSE usb_memory
     IN  /\ usb_memory' = mem
         /\ WriteTo([DCBAAP |-> AddressOf(mem, <<"contexts">>),
                     context0 |-> IF max_scratchpad_buffers > 0 THEN AddressOf(mem, <<"scratchpads">>) ELSE NullPtr,
                     scratchpads |-> {b.at : b \in {c \in mem.blocks : c.boundary = 4096 /\ c.size = 4096}}])
  /\ UNCHANGED <<legacy, machine, cmd, sts, waited_ticks>>

\* Ring::Initialize(32) and RegisterCommandRing, EventRing::Initialize(32): TRBs of 16 bytes.
InitializeRings ==
  /\ hc_step = "rings"
  /\ LET cr == AllocMem(usb_memory, <<"cr">>, 32 * 16, 64, 65536)
         er == AllocMem(cr, <<"er">>, 32 * 16, 64, 65536)
         erst == AllocMem(er, <<"erst">>, 16, 64, 65536)
     IN  /\ usb_memory' = erst
         /\ IF \E name \in {<<"cr">>, <<"er">>, <<"erst">>} : AddressOf(erst, name) = NullPtr
            THEN hc_step' = "exit" /\ UNCHANGED <<regs, misused>>
            ELSE /\ Writes("interrupts")
                 /\ WriteTo([CRCR |-> AddressOf(erst, <<"cr">>), ERSTSZ |-> 1, ERDP |-> AddressOf(erst, <<"er">>),
                             ERSTBA |-> AddressOf(erst, <<"erst">>)])
  /\ UNCHANGED <<legacy, machine, cmd, sts, waited_ticks>>

EnableInterrupts ==
  /\ hc_step = "interrupts"
  /\ Writes("run")
  /\ WriteTo([IMAN |-> TRUE])
  /\ cmd' = [cmd EXCEPT !.interrupter_enable = TRUE]
  /\ UNCHANGED <<usb_memory, legacy, machine, sts, waited_ticks>>

Run ==
  /\ hc_step = "run"
  /\ Writes("wait_running")
  /\ cmd' = [cmd EXCEPT !.run_stop = TRUE]
  /\ UNCHANGED <<usb_memory, legacy, machine, sts, regs, waited_ticks>>

WaitRunning ==
  /\ hc_step = "wait_running" /\ ~sts.halted
  /\ hc_step' = "running"
  /\ UNCHANGED <<usb_memory, legacy, machine, cmd, sts, regs, waited_ticks, misused>>

-----------------------------------------------------------------------------
(* The controller, the BIOS and the timer *)

BiosReleases ==
  /\ legacy.bios /\ legacy.os
  /\ legacy' = [legacy EXCEPT !.bios = FALSE]
  /\ UNCHANGED <<hc_step, usb_memory, machine, cmd, sts, regs, waited_ticks, misused>>

FollowRunStop ==
  /\ ~cmd.reset /\ sts.halted = cmd.run_stop
  /\ sts' = [sts EXCEPT !.halted = ~cmd.run_stop]
  /\ UNCHANGED <<hc_step, usb_memory, legacy, machine, cmd, regs, waited_ticks, misused>>

\* The reset clears its own bit, and the controller becomes ready a while later.
EndReset ==
  /\ cmd.reset
  /\ cmd' = [run_stop |-> FALSE, reset |-> FALSE, interrupter_enable |-> FALSE]
  /\ sts' = [halted |-> TRUE, not_ready |-> TRUE] /\ regs' = AfterReset
  /\ UNCHANGED <<hc_step, usb_memory, legacy, machine, waited_ticks, misused>>

BecomeReady ==
  /\ sts.not_ready
  /\ sts' = [sts EXCEPT !.not_ready = FALSE]
  /\ UNCHANGED <<hc_step, usb_memory, legacy, machine, cmd, regs, waited_ticks, misused>>

TickWhileWaiting ==
  /\ hc_step = "wait_tick" /\ waited_ticks <= ResetTicks
  /\ waited_ticks' = waited_ticks + 1
  /\ UNCHANGED <<hc_step, usb_memory, legacy, machine, cmd, sts, regs, misused>>

HcNext ==
  \/ AllocateDevices \/ RequestHCOwnership \/ WaitOwner \/ StopController \/ ResetController \/ WaitTick
  \/ WaitReset \/ SetMaxSlots \/ SetDeviceContexts \/ InitializeRings \/ EnableInterrupts \/ Run \/ WaitRunning
  \/ BiosReleases \/ FollowRunStop \/ EndReset \/ BecomeReady \/ TickWhileWaiting

-----------------------------------------------------------------------------
(* Properties *)

Overlap(a, b) == a.at < b.at + b.size /\ b.at < a.at + a.size

\* Every block is inside the pool, aligned, across no boundary it could avoid, and no other's
\* (usb/memory.hpp:16).
BlocksAreSound(mem) ==
  LET given == {b \in mem.blocks : b.at # NullPtr}
  IN  /\ \A b \in given :
           /\ mem.start <= b.at /\ b.at + b.size <= mem.start + kMemoryPoolSize
           /\ b.alignment > 0 => b.at % b.alignment = 0
           /\ b.boundary > 0 /\ b.size <= b.boundary => b.at \div b.boundary = (b.at + b.size - 1) \div b.boundary
      /\ \A a \in given, b \in given : a # b => ~Overlap(a, b)

\* The controller is reset only when halted, nothing is written to it while the BIOS has it, during the
\* reset or before it is ready, and when it runs it has all the driver prepared: rings, contexts and as
\* many scratchpads as it wants, all in memory that is its alone (xhci.cpp:377, 462).
ControllerIsPrepared ==
  /\ ~misused
  /\ BlocksAreSound(usb_memory)
  /\ hc_step = "running" =>
       /\ cmd.run_stop /\ cmd.interrupter_enable /\ regs.IMAN /\ regs.CONFIG = SlotsEnabled
       /\ NullPtr \notin {regs.DCBAAP, regs.CRCR, regs.ERDP, regs.ERSTBA} \cup regs.scratchpads
       /\ regs.ERSTSZ = 1
       /\ Cardinality(regs.scratchpads) = max_scratchpad_buffers
       /\ max_scratchpad_buffers > 0 => regs.context0 # NullPtr
=============================================================================
