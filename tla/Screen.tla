------------------------------- MODULE Screen -------------------------------
(***************************************************************************)
(* What the layers put on the screen: LayerManager's drawing operations    *)
(* (src/kernel/ui/layer.cpp), Window::DrawTo and the rectangles and copies *)
(* of the frame buffers.  A layer's window is an array of pixels at a      *)
(* position; layers are drawn from the bottom of the stack into a back     *)
(* buffer, and a part of it is then copied to the screen.                  *)
(***************************************************************************)
EXTENDS Integers, Sequences, SequencesExt, FiniteSets

CONSTANTS ScreenWidth, ScreenHeight,
          Windows,        \* the layers but the desktop and the mouse
          MainWindow,     \* the console's: only it is not draggable
          WindowSize,     \* the width and height of each
          Positions,      \* where each draggable layer, and the mouse, may be
          DrawnIn,        \* the windows that something is drawn in, a bound for TLC
          Colors          \* what is drawn there

VARIABLES pixels,         \* a layer's window: the shadow buffer
          layer_pos, layer_stack, active_layer, back_buffer, frame_buffer,
          dirty           \* the places of the screen where something changed
                          \* that nothing has drawn yet

screenVars == <<pixels, layer_pos, layer_stack, active_layer, back_buffer, frame_buffer, dirty>>

Desktop == "desktop"
Mouse == "mouse"
NoLayer == "none"         \* ID 0
Clear == "clear"          \* the mouse window's transparent color
TitleColor(active) == IF active THEN "blue" ELSE "gray"

Draggable == Windows \ {MainWindow}

(* No window draws in the transparent color of the mouse's, whose window   *)
(* is the only one that has such a color.                                  *)
ASSUME ScreenAssumption ==
  /\ ScreenWidth \in Nat /\ ScreenHeight \in Nat /\ WindowSize \in Nat \X Nat
  /\ MainWindow \in Windows /\ DrawnIn \subseteq Windows /\ {Desktop, Mouse, NoLayer, Clear} \intersect Windows = {}
  /\ Clear \notin Colors
  /\ \A l \in Draggable \union {Mouse} : Positions[l] \subseteq Int \X Int

Rectangle(pos, size) == [x |-> pos[1], y |-> pos[2], w |-> size[1], h |-> size[2]]
Whole == Rectangle(<<0, 0>>, <<ScreenWidth, ScreenHeight>>)
Points(r) == (r.x .. r.x + r.w - 1) \X (r.y .. r.y + r.h - 1)
Shift(p, by) == <<p[1] + by[1], p[2] + by[2]>>
Minus(p, q) == <<p[1] - q[1], p[2] - q[2]>>

SizeOf(l) == IF l = Desktop THEN <<ScreenWidth, ScreenHeight>>
             ELSE IF l = Mouse THEN <<2, 1>> ELSE WindowSize
AreaOf(l) == Rectangle(layer_pos[l], SizeOf(l))

(* operator& of two rectangles.                                            *)
Larger(a, b) == IF a < b THEN b ELSE a
Smaller(a, b) == IF a < b THEN a ELSE b
Intersection(a, b) ==
  LET aEnd == <<a.x + a.w, a.y + a.h>>
      bEnd == <<b.x + b.w, b.y + b.h>>
      x == Larger(a.x, b.x)
      y == Larger(a.y, b.y)
  IN  IF aEnd[1] < b.x \/ aEnd[2] < b.y \/ bEnd[1] < a.x \/ bEnd[2] < a.y
        THEN Rectangle(<<0, 0>>, <<0, 0>>)
        ELSE Rectangle(<<x, y>>, <<Smaller(aEnd[1], bEnd[1]) - x, Smaller(aEnd[2], bEnd[2]) - y>>)

(* FrameBuffer::Copy of a part of src to a screen-sized buffer.            *)
Copy(dst, pos, src, srcSize, part) ==
  LET offset == Minus(pos, <<part.x, part.y>>)
      area == Intersection(Intersection(Whole, Rectangle(offset, srcSize)),
                           Rectangle(pos, <<part.w, part.h>>))
  IN  [p \in Points(Whole) |-> IF p \in Points(area) THEN src[Minus(p, offset)] ELSE dst[p]]

(* Window::DrawTo: a window with a transparent color is drawn whole,       *)
(* whatever the area.                                                      *)
DrawTo(buffer, l, image, pos, area) ==
  IF l = Mouse
    THEN [p \in Points(Whole) |->
            LET q == Minus(p, pos)
            IN  IF q \in Points(Rectangle(<<0, 0>>, SizeOf(l))) /\ image[q] # Clear THEN image[q] ELSE buffer[p]]
    ELSE LET part == Intersection(area, Rectangle(pos, SizeOf(l)))
         IN  Copy(buffer, <<part.x, part.y>>, image, SizeOf(l), [part EXCEPT !.x = @ - pos[1], !.y = @ - pos[2]])

(* A picture pic = [back, front] of a stack, of images and positions.      *)
DrawLayers(pic, layers, images, pos, area) ==
  LET back == FoldLeft(LAMBDA b, l : DrawTo(b, l, images[l], pos[l], area), pic.back, layers)
  IN  [back |-> back, front |-> Copy(pic.front, <<area.x, area.y>>, back, <<ScreenWidth, ScreenHeight>>, area)]

Picture0 == [back |-> back_buffer, front |-> frame_buffer]
SetPicture(pic) == back_buffer' = pic.back /\ frame_buffer' = pic.front
From(stack, l) == SelectInSeq(stack, LAMBDA m : m = l)

(* LayerManager::Draw(area), and Draw(id) and Draw(id, area): only the     *)
(* layer and those above it.                                               *)
DrawArea(pic, stack, images, pos, area) == DrawLayers(pic, stack, images, pos, area)
\* Faulty variant: the layers above are not drawn again.
DrawOnly(pic, stack, images, pos, l, area) == DrawLayers(pic, <<l>>, images, pos, area)

DrawFrom(pic, stack, images, pos, l, area) ==
  DrawLayers(pic, SubSeq(stack, From(stack, l), Len(stack)), images, pos, area)

Blanked(l, c) == [p \in Points(Rectangle(<<0, 0>>, SizeOf(l))) |-> c]
DrawDesktop == Blanked(Desktop, Desktop)

(* The cursor's shape: its first row, the point and what shows the screen. *)
mouse_cursor_shape == << <<"@", " ">> >>
MouseImage ==
  [p \in Points(Rectangle(<<0, 0>>, SizeOf(Mouse))) |->
     IF mouse_cursor_shape[p[2] + 1][p[1] + 1] = "@" THEN Mouse ELSE Clear]

ScreenInit ==
  /\ pixels = [l \in Windows \union {Desktop, Mouse} |-> IF l = Mouse THEN MouseImage ELSE IF l = Desktop THEN DrawDesktop ELSE Blanked(l, l)]
  /\ layer_pos = [l \in DOMAIN pixels |-> <<0, 0>>]
  /\ layer_stack = <<Desktop, MainWindow, Mouse>> /\ active_layer = NoLayer
  /\ back_buffer = DrawArea([back |-> Blanked(Desktop, Clear), front |-> Blanked(Desktop, Clear)],
                            layer_stack, pixels, layer_pos, Whole).back
  /\ frame_buffer = back_buffer
  /\ dirty = {}
----------------------------------------------------------------------------
InStack(l) == l \in Range(layer_stack)
StackWithout(l) == RemoveFirst(layer_stack, l)

(* Window::Write of each pixel of a rectangle.                             *)
WriteWindow(l, part, c) ==
  [pixels EXCEPT ![l] = [p \in DOMAIN @ |-> IF p \in part THEN c ELSE @[p]]]

(* A drawing system call: it writes to the window and, unless its flags    *)
(* say LAYER_NO_REDRAW, draws the layer. The kernel's own tasks write to   *)
(* their windows as the first kind does, and ask for DrawArea later.       *)
DoWinFunc == \E l \in DrawnIn, c \in Colors : \E part \in {DOMAIN pixels[l]} \union {{p} : p \in DOMAIN pixels[l]} :
  /\ InStack(l)
  /\ pixels' = WriteWindow(l, part, c)
  /\ \/ /\ dirty' = dirty \union ({Shift(p, layer_pos[l]) : p \in part} \intersect Points(Whole))
        /\ UNCHANGED <<back_buffer, frame_buffer>>
     \/ /\ SetPicture(DrawFrom(Picture0, layer_stack, pixels', layer_pos, l, AreaOf(l)))
        /\ dirty' = dirty \ Points(AreaOf(l))
  /\ UNCHANGED <<layer_pos, layer_stack, active_layer>>

(* Window::Move: rows are copied one after the other, from the end that    *)
(* the move goes towards.                                                  *)
MoveRows(image, from, to, n) ==
  LET order == IF to < from THEN [i \in 1 .. n |-> i - 1] ELSE [i \in 1 .. n |-> n - i]
      CopyRow(im, i) == [p \in DOMAIN im |-> IF p[2] = to + i THEN im[<<p[1], from + i>>] ELSE im[p]]
  IN  FoldLeft(CopyRow, image, order)

ScrollWindow == \E l \in DrawnIn : \E from, to \in 0 .. 1 :
  /\ InStack(l) /\ from # to
  /\ pixels' = [pixels EXCEPT ![l] = MoveRows(@, from, to, SizeOf(l)[2] - 1)]
  /\ dirty' = dirty \union (Points(AreaOf(l)) \intersect Points(Whole))
  /\ UNCHANGED <<layer_pos, layer_stack, active_layer, back_buffer, frame_buffer>>

(* DrawArea of a window that its owner asks for: the area is the window's. *)
DrawWindow == \E l \in Windows, part \in {<<0, 1, 1, 1>>, <<0, 0, -1, -1>>} :
  LET all == part[3] < 0 /\ part[4] < 0
      asked == Rectangle(Shift(<<part[1], part[2]>>, layer_pos[l]), <<part[3], part[4]>>)
      area == IF all THEN AreaOf(l) ELSE Intersection(AreaOf(l), asked)
  IN  /\ InStack(l)
      /\ SetPicture(DrawFrom(Picture0, layer_stack, pixels, layer_pos, l, area))
      /\ dirty' = dirty \ Points(area)
      /\ UNCHANGED <<pixels, layer_pos, layer_stack, active_layer>>

(* Move and MoveRelative: the old area, then the layer at its new place.   *)
MoveLayer == \E l \in Draggable \union {Mouse} : \E to \in Positions[l] :
  LET pos == [layer_pos EXCEPT ![l] = to]
      left == DrawArea(Picture0, layer_stack, pixels, pos, AreaOf(l))
      now == Rectangle(to, SizeOf(l))
  IN  /\ InStack(l)
      /\ layer_pos' = pos
      /\ SetPicture(DrawFrom(left, layer_stack, pixels, pos, l, now))
      /\ dirty' = (dirty \ Points(AreaOf(l))) \ (IF l = Mouse THEN {} ELSE Points(now))
      /\ UNCHANGED <<pixels, layer_stack, active_layer>>

(* ToplevelWindow::Activate and Deactivate draw the title, which a new     *)
(* window has as that of an inactive one.                                  *)
Title == {<<0, 0>>}
Titled(image, active) == [p \in DOMAIN image |-> IF p \in Title THEN TitleColor(active) ELSE image[p]]
NewImage(l) == Titled(Blanked(l, l), FALSE)

(* What Activate begins with: the title of the layer that was active is    *)
(* drawn as an inactive one, and the layer is drawn.                       *)
Deactivated(images) ==
  IF active_layer = NoLayer THEN images ELSE [images EXCEPT ![active_layer] = Titled(@, FALSE)]
DrawnInactive(images, pos) ==
  IF active_layer = NoLayer THEN Picture0
  ELSE DrawFrom(Picture0, layer_stack, Deactivated(images), pos, active_layer, AreaOf(active_layer))
StillDirty == dirty \ (IF active_layer = NoLayer THEN {} ELSE Points(AreaOf(active_layer)))

(* ActiveLayer::Activate(id) of a layer with an image at a place: unless   *)
(* it is active, it goes to the height below the mouse's, whether it was   *)
(* in the stack or not, and is drawn.                                      *)
ActivateLayer(l, image, place) ==
  LET images == [pixels EXCEPT ![l] = image]
      pos == [layer_pos EXCEPT ![l] = place]
      now == [Deactivated(images) EXCEPT ![l] = Titled(@, TRUE)]
      stack == InsertAt(StackWithout(l), From(StackWithout(l), Mouse), l)
      area == Rectangle(place, SizeOf(l))
  IN  /\ active_layer # l /\ active_layer' = l
      /\ pixels' = now /\ layer_pos' = pos /\ layer_stack' = stack
      /\ SetPicture(DrawFrom(DrawnInactive(images, pos), stack, now, pos, l, area))
      /\ dirty' = StillDirty \ Points(area)

(* Activate(0)                                                             *)
ActivateNone ==
  /\ active_layer' = NoLayer
  /\ pixels' = Deactivated(pixels)
  /\ SetPicture(DrawnInactive(pixels, layer_pos))
  /\ dirty' = StillDirty
  /\ UNCHANGED <<layer_pos, layer_stack>>

OpenWindow == \E l \in Draggable : \E place \in Positions[l] :
  ~InStack(l) /\ ActivateLayer(l, NewImage(l), place)

(* The uppermost window at a place, whether its pixel there is transparent *)
(* or not; the desktop is everywhere.                                      *)
FindLayerByPosition(p, exclude) ==
  layer_stack[SelectLastInSeq(layer_stack, LAMBDA l : l # exclude /\ p \in Points(AreaOf(l)))]

(* A press of the mouse's button activates the window it is over, or none. *)
PressButton ==
  LET p == layer_pos[Mouse]
      l == FindLayerByPosition(p, Mouse)
  IN  /\ p \in Points(Whole)
      /\ \/ l \in Draggable /\ ActivateLayer(l, pixels[l], layer_pos[l])
         \/ l \notin Draggable /\ ActivateNone

(* CloseLayer: no layer is active and the layer is gone before its area is *)
(* drawn.                                                                  *)
RemoveLayer == \E l \in Draggable :
  /\ InStack(l)
  /\ active_layer' = NoLayer
  /\ layer_stack' = StackWithout(l)
  /\ SetPicture(DrawArea(DrawnInactive(pixels, layer_pos), StackWithout(l), Deactivated(pixels), layer_pos, AreaOf(l)))
  /\ pixels' = [Deactivated(pixels) EXCEPT ![l] = Blanked(l, l)]
  /\ dirty' = StillDirty \ Points(AreaOf(l))
  /\ UNCHANGED layer_pos

ScreenNext ==
  \/ DoWinFunc \/ ScrollWindow \/ DrawWindow \/ MoveLayer
  \/ OpenWindow \/ PressButton \/ RemoveLayer
----------------------------------------------------------------------------
(* The color of a place: that of the topmost layer that covers it.         *)
Covers(l, p) ==
  /\ p \in Points(AreaOf(l))
  /\ pixels[l][Minus(p, layer_pos[l])] # Clear
Composed(p) ==
  LET top == SelectLastInSeq(layer_stack, LAMBDA l : Covers(l, p))
  IN  pixels[layer_stack[top]][Minus(p, layer_pos[layer_stack[top]])]

(* The screen shows the layers as they lie on each other, wherever nothing *)
(* was written since the place was last drawn: although an operation draws *)
(* a part of the screen, and of the stack only the layers above the one    *)
(* that changed, on what earlier operations left in the back buffer. A     *)
(* click goes to the window that is seen there (Mouse::OnInterrupt).       *)
ScreenIsComposition ==
  \A p \in Points(Whole) \ dirty :
    LET clicked == FindLayerByPosition(p, Mouse) IN
    /\ frame_buffer[p] = Composed(p)
    /\ frame_buffer[p] \in {Mouse, pixels[clicked][Minus(p, layer_pos[clicked])]}
=============================================================================
