------------------------------ MODULE MCStartup ------------------------------
(* The machine's start, the devices and the parts with few states, for TLC: *)
(* the parts share no state, so that a behaviour is one of one part, and    *)
(* one run looks at them all.                                               *)
EXTENDS Rings, Loader, Pci, Acpi, HostController, Screen, Console, FatNames,
        Tview, Blocks, AppMemory

VARIABLE part \* the one the behaviour is of

allVars == <<part, vars, loaderVars, pciVars, acpiVars, hcVars, screenVars, consoleVars, nameVars,
               tviewVars, blocksVars, memVars>>

StartupInit ==
  /\ part = "none"
  /\ Init /\ LoaderInit /\ PciInit /\ AcpiInit /\ HcInit /\ ScreenInit /\ ConsoleInit
  /\ NamesInit /\ TviewInit /\ BlocksInit /\ MemInit

Of(name) == part \in {"none", name} /\ part' = name

StartupNext ==
  \/ /\ Of("rings") /\ Next
     /\ UNCHANGED <<loaderVars, pciVars, acpiVars, hcVars, screenVars,
                    consoleVars, nameVars, tviewVars, blocksVars, memVars>>
  \/ /\ Of("loader") /\ LoaderNext
     /\ UNCHANGED <<vars, pciVars, acpiVars, hcVars, screenVars,
                    consoleVars, nameVars, tviewVars, blocksVars, memVars>>
  \/ /\ Of("pci") /\ PciNext
     /\ UNCHANGED <<vars, loaderVars, acpiVars, hcVars, screenVars,
                    consoleVars, nameVars, tviewVars, blocksVars, memVars>>
  \/ /\ Of("acpi") /\ AcpiNext
     /\ UNCHANGED <<vars, loaderVars, pciVars, hcVars, screenVars,
                    consoleVars, nameVars, tviewVars, blocksVars, memVars>>
  \/ /\ Of("controller") /\ HcNext
     /\ UNCHANGED <<vars, loaderVars, pciVars, acpiVars, screenVars,
                    consoleVars, nameVars, tviewVars, blocksVars, memVars>>
  \/ /\ Of("screen") /\ ScreenNext
     /\ UNCHANGED <<vars, loaderVars, pciVars, acpiVars, hcVars, consoleVars, nameVars, tviewVars, blocksVars, memVars>>
  \/ /\ Of("console") /\ ConsoleNext
     /\ UNCHANGED <<vars, loaderVars, pciVars, acpiVars, hcVars, screenVars, nameVars, tviewVars, blocksVars, memVars>>
  \/ /\ Of("names") /\ NamesNext
     /\ UNCHANGED <<vars, loaderVars, pciVars, acpiVars, hcVars, screenVars, consoleVars, tviewVars, blocksVars, memVars>>
  \/ /\ Of("tview") /\ TviewNext
     /\ UNCHANGED <<vars, loaderVars, pciVars, acpiVars, hcVars, screenVars, consoleVars, nameVars, blocksVars, memVars>>
  \/ /\ Of("blocks") /\ BlocksNext
     /\ UNCHANGED <<vars, loaderVars, pciVars, acpiVars, hcVars, screenVars, consoleVars, nameVars, tviewVars, memVars>>
  \/ /\ Of("memory") /\ MemNext
     /\ UNCHANGED <<vars, loaderVars, pciVars, acpiVars, hcVars, screenVars, consoleVars, nameVars, tviewVars, blocksVars>>

\* With the fairness of Rings, whose steps are disabled while no push began.
StartupSpec == StartupInit /\ [][StartupNext]_allVars /\ Fairness

-----------------------------------------------------------------------------
(* Loader: two kernels with segments in either order, and two volumes. *)

Segment(type, offset, vaddr, filesz, memsz) ==
  [p_type |-> type, p_offset |-> offset, p_vaddr |-> vaddr, p_filesz |-> filesz, p_memsz |-> memsz]

MCKernels ==
  {[phdrs |-> <<Segment("PT_NOTE", 1, 0, 1, 1), Segment("PT_LOAD", 0, 4, 2, 2),
                Segment("PT_LOAD", 2, 6, 1, 3)>>,
    cells |-> <<"e", "t", "d">>, entry |-> "e"],
   [phdrs |-> <<Segment("PT_LOAD", 1, 5, 1, 2), Segment("PT_LOAD", 0, 4, 1, 1)>>,
    cells |-> <<"e", "d">>, entry |-> "e"]}
MCVolumes == {<<"v">>, <<"v", "w", "x">>}
MCFirmwarePages == {0}

-----------------------------------------------------------------------------
(* Pci: bridges, functions in gaps, and more functions than the table holds. *)

MSIHeader(n, is64) == [msi_enable |-> FALSE, multi_msg_capable |-> n, multi_msg_enable |-> 0,
                       addr_64_capable |-> is64]
Capability(id, n, is64) ==
  [id |-> id, regs |-> <<MSIHeader(n, is64), "kept", "kept", "kept", "kept", "kept">>]
Function(class, vendor, multi, secondary, caps) ==
  [class |-> class, vendor |-> vendor, multi |-> multi, secondary |-> secondary, caps |-> caps,
   bar |-> [lo |-> "lo", hi |-> "hi", is64 |-> multi],
   routing |-> [USB3PRM |-> "ss", USB3_PSSEN |-> 0, XUSB2PRM |-> "hs", XUSB2PR |-> 0]]

CapLists == {<<>>, <<Capability("PM", 0, FALSE), Capability("MSI", 3, TRUE)>>,
             <<Capability("MSI", 0, FALSE), Capability("MSIX", 0, FALSE)>>}
Addresses == {<<0, 0, 1>>, <<0, 1, 0>>, <<0, 1, 2>>, <<1, 0, 0>>, <<1, 1, 0>>, <<2, 0, 0>>, <<2, 0, 1>>}
AnyMachine ==
  {[a \in {<<0, 0, 0>>} \cup s |->
      CASE a = <<0, 0, 0>> -> Function("host", "Intel", h, 0, <<>>)
        [] a = <<0, 1, 0>> -> Function(c, "Intel", TRUE, 2, <<>>)
        [] a = <<1, 0, 0>> -> Function(d, "other", FALSE, 2, caps)
        [] a = <<2, 0, 0>> -> Function("xhci", "other", TRUE, 0, caps)
        [] a = <<2, 0, 1>> -> Function("xhci", v, TRUE, 0, caps)
        [] OTHER -> Function("other", "other", FALSE, 0, <<>>)] :
     s \in SUBSET Addresses, h \in BOOLEAN, c \in {"bridge", "ehci"}, d \in {"xhci", "bridge"},
     caps \in CapLists, v \in {"Intel", "other"}}
\* A bus is behind one bridge.
MCMachines == {m \in AnyMachine :
  \A a, b \in DOMAIN m : a # b /\ m[a].class = "bridge" => m[b].class # "bridge"}

-----------------------------------------------------------------------------
(* Acpi: tables that are damaged, or of one kind of timer or the other. *)

SystemTable(signature, sum, long) == [signature |-> signature, sum |-> sum, pm_timer_32 |-> long]
Pointer(signature, revision, sum20, sum36) ==
  [signature |-> signature, revision |-> revision, sum20 |-> sum20, sum36 |-> sum36]
MCFirmwares ==
  {[rsdp |-> Pointer("RSD PTR ", 2, 0, 0), xsdt |-> [signature |-> "XSDT", sum |-> 0, entries |-> e]] :
     e \in {<<SystemTable("APIC", 0, TRUE), SystemTable("FACP", 0, TRUE)>>,
            <<SystemTable("FACP", 3, TRUE), SystemTable("FACP", 0, FALSE)>>,
            <<SystemTable("FACP", 5, FALSE)>>}}
  \cup {[rsdp |-> r,
         xsdt |-> [signature |-> "XSDT", sum |-> 1, entries |-> <<SystemTable("FACP", 0, TRUE)>>]] :
          r \in {Pointer("RSD PTR ", 2, 0, 0), Pointer("RSD PTR ", 0, 0, 7), Pointer("?", 2, 0, 0)}}
MCTimerBits == [short |-> 4, long |-> 5]

-----------------------------------------------------------------------------
(* HostController: a pool that starts anywhere in a page, and the number of *)
(* scratchpads that just fits.                                              *)

MCPoolStarts == {1048576 + 64 * i : i \in {0, 1, 61, 63}}
MCScratchpads == {[low |-> n, high |-> 0] : n \in {0, 3, 29}}
MCExtendedLists == {<<>>, <<2, 1>>, <<2, 3>>}

-----------------------------------------------------------------------------
(* Screen and Console: windows that overlap each other and the screen's edge. *)

MCWindows == {"main", "app", "term"}
MCWindowSize == <<1, 2>>
MCPositions == [l \in MCWindows \cup {Mouse} |->
  CASE l = "app" -> {<<1, -1>>, <<0, 0>>} [] l = "term" -> {<<1, 0>>, <<0, 1>>}
    [] l = Mouse -> {<<0, 0>>, <<1, 0>>} [] OTHER -> {}]
MCColors == {"ink"}

MCLogTexts == {<<"a", "N">>, <<"b", "b", "b">>, <<"N", "c", "N", "a">>}

-----------------------------------------------------------------------------
(* FatNames: short names of 2+1 characters, so that "a.b" fits, "aaa" and   *)
(* "a.bb" do not, and "aaaaa" is longer than any short name.                *)

Elements ==
  {<<>>, <<"a">>, <<"A", ".", "b">>, <<"a", ".", "b", "b">>, <<"a", "a", "a">>,
   <<"a", "a", "a", "a", "a">>, <<"a", ".", "b", ".", "b">>}
MCPaths ==
  {<<e>> : e \in Elements} \cup {<<<<"d">>, e>> : e \in {<<"a">>, <<"a", "a", "a">>, <<"b">>, <<>>}}
  \cup {<<<<>>, <<"a">>>>, <<<<"d">>, <<>>, <<"a">>>>, <<<<"f">>, <<"a">>>>, <<<<"b">>, <<"a">>>>,
        <<<<"d">>, <<"b">>, <<"a">>>>}
MCUpper(c) == CASE c = "a" -> "A" [] c = "b" -> "B" [] c = "d" -> "D" [] c = "f" -> "F" [] OTHER -> c
MCVolume ==
  [root |-> <<DirEntry(<<"D">>, <<>>, "dir"), DirEntry(<<"F">>, <<>>, "file")>>,
   dir |-> <<DirEntry(<<"B">>, <<>>, "file"), DirEntry(<<"C">>, <<>>, "file"),
             DirEntry(<<"C">>, <<"B">>, "file")>>]
MCAppsDir == <<"d">>

-----------------------------------------------------------------------------
(* Tview: every file of up to 6 bytes of three classes, and some with       *)
(* characters of two and three bytes.                                       *)

MCViewFiles ==
  UNION {[1..n -> {"a", "t", "n"}] : n \in 0..6}
  \cup {f \o g : f \in UNION {[1..n -> {"a", "t"}] : n \in 0..2},
                 g \in {<<"3", "c", "c", "a", "n", "a">>, <<"2", "c", "3", "c", "c", "a">>,
                        <<"a", "3", "c">>, <<"2", "c", "n", "c", "a", "n", "n", "a">>}}

=============================================================================
