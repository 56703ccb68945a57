------------------------------ MODULE MCLayers ------------------------------
(* The desktop for TLC: the layers, whose terminals' tasks are               *)
(* interchangeable, a device that the input comes from, and a window that is *)
(* drawn in with the mouse. The parts share no state, so that a behaviour is *)
(* one of one part.                                                          *)
EXTENDS Layers, UsbDevice, Drawing, TLC

VARIABLE part \* the one the behaviour is of

desktopVars == <<part, vars, usbVars, drawVars>>

DesktopInit == part = "none" /\ Init /\ UsbInit /\ DrawInit

Of(name) == part \in {"none", name} /\ part' = name

DesktopNext ==
  \/ Of("layers") /\ Next /\ UNCHANGED <<usbVars, drawVars>>
  \/ Of("device") /\ UsbNext /\ UNCHANGED <<vars, drawVars>>
  \/ Of("drawing") /\ DrawNext /\ UNCHANGED <<vars, usbVars>>

DesktopSpec == DesktopInit /\ [][DesktopNext]_desktopVars

Symmetry == Permutations(Tasks)

-----------------------------------------------------------------------------
(* UsbDevice: a composite keyboard, a mouse with two pipes, a disk, a hub   *)
(* and a serial line.                                                       *)

Configuration == [type |-> "configuration", value |-> 1]
Interface(n, class, sub, protocol, endpoints) ==
  [type |-> "interface", number |-> n, class |-> class, sub_class |-> sub, protocol |-> protocol,
   num_endpoints |-> endpoints]
Endpoint(n, in, transfer) == [type |-> "endpoint", number |-> n, dir_in |-> in, transfer |-> transfer]
MCKinds ==
  {[class |-> 0, conf |->
      <<Configuration, Interface(0, 3, 0, 0, 1), Endpoint(1, TRUE, "interrupt"),
        Interface(1, 3, 1, 1, 1), [type |-> "hid"], Endpoint(2, TRUE, "interrupt")>>],
   [class |-> 0, conf |->
      <<Configuration, Interface(0, 3, 1, 2, 2), [type |-> "hid"], Endpoint(1, FALSE, "interrupt"),
        Endpoint(1, TRUE, "interrupt")>>],
   [class |-> 0, conf |-> <<Configuration, Interface(0, 8, 6, 80, 1), Endpoint(1, TRUE, "bulk")>>],
   [class |-> 9, conf |-> <<Configuration>>],
   [class |-> 2, conf |->
      <<Configuration, Interface(0, 2, 2, 1, 1), [type |-> "header"], [type |-> "union"],
        Endpoint(3, TRUE, "interrupt"), Interface(1, 10, 0, 0, 2), Endpoint(1, TRUE, "bulk"),
        Endpoint(1, FALSE, "bulk")>>]}
MCKeySlots == {<<0, 0>>, <<1, 0>>, <<1, 2>>, <<2, 1>>}
MCSenders == {"t", "u"}

-----------------------------------------------------------------------------
(* Drawing: strokes to every side, across the window's edge and back. *)

MCScreen == At2(8, 6)
MCMoves == {<<0, 0>>, <<3, 1>>, <<-3, -1>>, <<2, -2>>, <<-1, 3>>, <<-2, 2>>, <<5, 1>>}
=============================================================================
