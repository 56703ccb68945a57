--------------------------------- MODULE Acpi ---------------------------------
(***************************************************************************)
(* The search for the ACPI power management timer (drivers/acpi.cpp), the  *)
(* wait that polls it, and the calibration of the local APIC's timer with  *)
(* such a wait (timer.cpp). The PM timer is a free running counter of 24   *)
(* or 32 bits that the program sees only now and then.                     *)
(***************************************************************************)
EXTENDS Integers, Sequences, FiniteSetsExt

CONSTANTS
  Firmwares,     \* ACPI tables: [rsdp, xsdt]
  PMTimerBits,   \* [short |-> , long |-> ]: the width of the two kinds of timer (24 and 32)
  MaxGap,        \* most PM timer ticks between two reads of the counter
  WaitTicks,     \* kPMTimerFreq * msec / 1000, for the 100 ms of the calibration
  LapicRate,     \* local APIC timer counts per PM timer tick
  kCountMax,     \* where the local APIC's counter starts
  kTimerFreq     \* timer interrupts per second

ASSUME AcpiAssumption ==
  /\ MaxGap \in Nat \ {0} /\ WaitTicks \in Nat \ {0} /\ LapicRate \in Nat \ {0}
  /\ kCountMax \in Nat \ {0} /\ kTimerFreq \in Nat \ {0}
  /\ WaitTicks + 3 * MaxGap < 2^PMTimerBits.short
  /\ 2^PMTimerBits.short \in Nat /\ 2^PMTimerBits.long \in Nat
  /\ 2 * 2^PMTimerBits.short <= 2^PMTimerBits.long
  /\ LapicRate * WaitTicks <= kCountMax \* the counter does not run out in 100 ms
  /\ \A f \in Firmwares : f.xsdt.entries \in Seq([signature : STRING, sum : Nat, pm_timer_32 : BOOLEAN])

VARIABLES
  acpi_stage,    \* "off", "found", "overflow" and "until" (the loops), "ticking", or "exit"
  tables, fadt,  \* the firmware's tables; the place of the FADT in the XSDT, or NoFadt
  pm_counter,
  pm_start, pm_end, \* WaitMilliseconds: start and end
  waited,        \* history: the PM timer ticks since the first read
  initial_count  \* of the local APIC timer

acpiVars == <<acpi_stage, tables, fadt, pm_counter, pm_start, pm_end, waited, initial_count>>

NoFadt == 0

AcpiInit ==
  /\ acpi_stage = "off" /\ tables = << >> /\ fadt = NoFadt
  /\ pm_counter = 0 /\ pm_start = 0 /\ pm_end = 0 /\ waited = 0 /\ initial_count = 0

-----------------------------------------------------------------------------
(* The tables: sums are what SumBytes returns *)

RsdpIsValid(rsdp) == rsdp.signature = "RSD PTR " /\ rsdp.revision = 2 /\ rsdp.sum20 = 0 /\ rsdp.sum36 = 0

HeaderIsValid(header, expected_signature) == header.signature = expected_signature /\ header.sum = 0

\* Faulty variant: the sum of a table is not checked.
FindUnsummed(entries) ==
  LET named == {i \in DOMAIN entries : entries[i].signature = "FACP"}
  IN  IF named = {} THEN NoFadt ELSE Min(named)

\* The first entry of the XSDT that is a FADT.
FindFadt(entries) ==
  LET valid == {i \in DOMAIN entries : HeaderIsValid(entries[i], "FACP")}
  IN  IF valid = {} THEN NoFadt ELSE Min(valid)

InitializeAcpi ==
  /\ acpi_stage = "off"
  /\ tables' \in Firmwares
  /\ fadt' = FindFadt(tables'.xsdt.entries)
  /\ acpi_stage' = IF /\ RsdpIsValid(tables'.rsdp) /\ HeaderIsValid(tables'.xsdt, "XSDT")
                      /\ fadt' # NoFadt THEN "found" ELSE "exit"
  /\ UNCHANGED <<pm_counter, pm_start, pm_end, waited, initial_count>>

-----------------------------------------------------------------------------
(* WaitMilliseconds *)

pm_timer_32 == tables.xsdt.entries[fadt].pm_timer_32

\* Values of the counter.
Modulus == 2^(IF pm_timer_32 THEN PMTimerBits.long ELSE PMTimerBits.short)

\* The sum wraps at 32 bits, and for a short counter at its width.
EndOf(start) ==
  LET end == (start + WaitTicks) % 2^PMTimerBits.long
  IN  IF pm_timer_32 THEN end ELSE end % 2^PMTimerBits.short

\* Faulty variant: an end behind the counter's wrap is not waited for.
StartWaitOnce ==
  /\ acpi_stage = "found"
  /\ pm_start' \in 0 .. Modulus - 1
  /\ pm_counter' = pm_start' /\ waited' = 0
  /\ pm_end' = EndOf(pm_start')
  /\ acpi_stage' = "until"
  /\ UNCHANGED <<tables, fadt, initial_count>>

StartWait ==
  /\ acpi_stage = "found"
  /\ pm_start' \in 0 .. Modulus - 1
  /\ pm_counter' = pm_start' /\ waited' = 0
  /\ pm_end' = EndOf(pm_start')
  /\ acpi_stage' = IF pm_end' < pm_start' THEN "overflow" ELSE "until"
  /\ UNCHANGED <<tables, fadt, initial_count>>

\* The counter when it is read again.
ReadCounter ==
  \E gap \in 1 .. MaxGap :
    /\ waited + gap <= 2 * Modulus \* bound on the time that passes
    /\ pm_counter' = (pm_counter + gap) % Modulus /\ waited' = waited + gap

WaitOverflow ==
  /\ acpi_stage = "overflow"
  /\ ReadCounter
  /\ acpi_stage' = IF pm_counter' >= pm_start THEN "overflow" ELSE "until"
  /\ UNCHANGED <<tables, fadt, pm_start, pm_end, initial_count>>

-----------------------------------------------------------------------------
(* InitializeLAPICTimer *)

\* The one-shot timer stops at 0. It was started some time before the first read of the PM timer, and is
\* read some time after the last.
LAPICTimerElapsed(ticks) == Min({kCountMax, LapicRate * ticks})

\* 100 ms, times 10
FreqFrom(elapsed) == elapsed * 10

WaitUntil ==
  /\ acpi_stage = "until"
  /\ ReadCounter
  /\ IF pm_counter' < pm_end
     THEN UNCHANGED <<acpi_stage, initial_count>>
     ELSE /\ acpi_stage' = "ticking"
          /\ \E lag \in 0 .. MaxGap :
               initial_count' = FreqFrom(LAPICTimerElapsed(waited' + lag)) \div kTimerFreq
  /\ UNCHANGED <<tables, fadt, pm_start, pm_end>>

AcpiNext == InitializeAcpi \/ StartWait \/ WaitOverflow \/ WaitUntil

-----------------------------------------------------------------------------
(* Properties *)

\* A tick's length in counts, if the wait is this many PM timer ticks long.
TickAfter(ticks) == (LapicRate * ticks * 10) \div kTimerFreq

\* The polling may miss an end that comes less than a gap before the counter wraps, and waits for the next
\* lap's: then the tick comes out much too long.
EndMayBeMissed == pm_end >= Modulus - MaxGap + 1

\* A wait is as long as asked wherever the counter starts and whatever its width, and longer only by the
\* last read of each loop unless its end may be missed, so that the tick of the whole system is right
\* (acpi.cpp:71, timer.cpp:15). The FADT it relies on is one whose sum is right.
TickIsRight ==
  acpi_stage = "ticking" =>
    /\ waited >= WaitTicks /\ initial_count >= TickAfter(WaitTicks)
    /\ ~EndMayBeMissed => initial_count <= TickAfter(WaitTicks + 3 * MaxGap)
    /\ tables.xsdt.entries[fadt].sum = 0
=============================================================================
