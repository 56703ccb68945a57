------------------------------- MODULE Drawing -------------------------------
(***************************************************************************)
(* Drawing with the mouse: the events the mouse sends to the window it is  *)
(* over (src/kernel/mouse.cpp), the paint program that reads them          *)
(* (src/apps/paint/paint.cpp) and the line that the system call WinDrawLine*)
(* draws (src/kernel/syscall.cpp). The slope of a line is a double: where  *)
(* the exact value is a whole number, the computed one may be just on      *)
(* either side of it, which is a choice here.                              *)
(***************************************************************************)
EXTENDS Integers, Sequences, FiniteSets

CONSTANTS
  PaintWidth, PaintHeight, \* kWidth and kHeight, the paintable part of the window
  FrameLeft, FrameTop,     \* 4 and 24, where that part starts
  MouseScreen,             \* the size of the screen; the window is at its upper left
  Displacements,           \* what the mouse reports, <<dx, dy>>
  MaxEvents                \* bound on the events that are not read

VARIABLES
  press,      \* paint: the left button is down
  pointer,    \* the mouse's position
  button,     \* previous_buttons_, its left button
  events,     \* the events that the program has not read yet
  line        \* what paint drew at its last event, and the ends

drawVars == <<press, pointer, button, events, line>>

At2(x, y) == [x |-> x, y |-> y]
Drawn(down, pixels, from, to) == [down |-> down, pixels |-> pixels, from |-> from, to |-> to]

DrawInit ==
  /\ press = FALSE /\ button = FALSE /\ pointer = At2(FrameLeft, FrameTop)
  /\ events = << >> /\ line = Drawn(FALSE, {}, pointer, pointer)

-----------------------------------------------------------------------------
(* The mouse *)

AtMost(x, max) == IF x > max THEN max ELSE x
AtLeast(x, min) == IF x < min THEN min ELSE x

\* OnInterrupt and SendMouseMessage: the event has the position that is cut at the right and at
\* the bottom of the screen only, and the way the mouse went. A press over the window's title bar
\* drags the window, which Layers models.
MouseReport(d, pressed) ==
  LET newpos == At2(AtMost(pointer.x + d[1], MouseScreen.x - 1),
                    AtMost(pointer.y + d[2], MouseScreen.y - 1))
      pos    == At2(AtLeast(newpos.x, 0), AtLeast(newpos.y, 0))
      diff   == At2(pos.x - pointer.x, pos.y - pointer.y)
      move   == [kind |-> "MouseMove", at |-> newpos, diff |-> diff, press |-> pressed]
      click  == [kind |-> "MouseButton", at |-> newpos, diff |-> At2(0, 0), press |-> pressed]
  IN  /\ Len(events) + 2 <= MaxEvents
      /\ pressed /\ ~button => pos.y >= FrameTop
      /\ pointer' = pos /\ button' = pressed
      /\ events' = events \o (IF diff # At2(0, 0) THEN <<move>> ELSE << >>)
                          \o (IF pressed # button THEN <<click>> ELSE << >>)
      /\ UNCHANGED <<press, line>>

-----------------------------------------------------------------------------
(* WinDrawLine *)

Sign(x) == IF x > 0 THEN 1 ELSE IF x < 0 THEN -1 ELSE 0
Abs(x) == IF x < 0 THEN -x ELSE x

\* floor and ceil of n / d.
FloorDiv(n, d) == IF d > 0 THEN n \div d ELSE (-n) \div (-d)
CeilDiv(n, d) == -FloorDiv(-n, d)

\* What roundish(m * k + start) may be: m = n / d is exact if it is a multiple of a power of two.
Rounded(n, d, k, start, up) ==
  LET exact == start + (IF up THEN CeilDiv(n * k, d) ELSE FloorDiv(n * k, d))
      whole == (n * k) % Abs(d) = 0 /\ k > 0 /\ (8 * n) % Abs(d) # 0
  IN  {exact} \cup IF whole THEN {IF up THEN exact + 1 ELSE exact - 1} ELSE {}

\* The lines from (u0, v0) to (u1, v1) along u, the longer way du, dv included: the v of each u.
AlongAxis(u0, v0, u1, v1, du, dv) ==
  {f \in [u0 .. u1 -> (IF v0 < v1 THEN v0 ELSE v1) - 1 .. (IF v0 < v1 THEN v1 ELSE v0) + 1] :
     \A u \in u0 .. u1 : f[u] \in Rounded(dv, du, u - u0, v0, v1 < v0)}

\* Faulty variant: the ends are not exchanged for a line to the left or upwards.
Unordered(p, q, backwards) == <<p, q>>

Ordered(p, q, backwards) == IF backwards THEN <<q, p>> ELSE <<p, q>>

\* The pixel sets that may be drawn. The extents count both ends.
DrawLine(p, q) ==
  LET dx == q.x - p.x + Sign(q.x - p.x)
      dy == q.y - p.y + Sign(q.y - p.y)
  IN  IF dx = 0 /\ dy = 0 THEN {{p}}
      ELSE IF Abs(dx) >= Abs(dy)
      THEN LET e == Ordered(p, q, dx < 0) IN
           {{At2(u, f[u]) : u \in e[1].x .. e[2].x} :
              f \in AlongAxis(e[1].x, e[1].y, e[2].x, e[2].y, dx, dy)}
      ELSE LET e == Ordered(p, q, dy < 0) IN
           {{At2(f[u], u) : u \in e[1].y .. e[2].y} :
              f \in AlongAxis(e[1].y, e[1].x, e[2].y, e[2].x, dy, dx)}

-----------------------------------------------------------------------------
(* paint *)

IsInside(p) == /\ FrameLeft <= p.x /\ p.x < FrameLeft + PaintWidth
               /\ FrameTop <= p.y /\ p.y < FrameTop + PaintHeight

\* ReadEvent and the program's answer to it.
Stroke ==
  /\ events # << >> /\ Head(events).kind = "MouseMove"
  /\ events' = Tail(events)
  /\ LET e    == Head(events)
         prev == At2(e.at.x - e.diff.x, e.at.y - e.diff.y)
         down == press /\ IsInside(prev) /\ IsInside(e.at)
     IN  line' \in {Drawn(down, s, prev, e.at) : s \in IF down THEN DrawLine(prev, e.at) ELSE {{}}}
  /\ UNCHANGED <<press, pointer, button>>

\* A press also paints one pixel, wherever in the window it is, and so does a release.
ButtonEvent ==
  /\ events # << >> /\ Head(events).kind = "MouseButton"
  /\ events' = Tail(events)
  /\ press' = Head(events).press
  /\ line' = Drawn(TRUE, {Head(events).at}, Head(events).at, Head(events).at)
  /\ UNCHANGED <<pointer, button>>

DrawNext ==
  \/ \E d \in Displacements, pressed \in BOOLEAN : MouseReport(d, pressed)
  \/ Stroke \/ ButtonEvent

-----------------------------------------------------------------------------
(* Properties *)

Near(p, q) == Abs(p.x - q.x) <= 1 /\ Abs(p.y - q.y) <= 1

\* The pixels that are connected to p within s.
Reached(s, p) ==
  LET grow[n \in 0 .. Cardinality(s)] ==
        IF n = 0 THEN {p} \cap s ELSE {q \in s : \E r \in grow[n - 1] : Near(q, r)}
  IN  grow[Cardinality(s)]

Between(x, a, b) == (a <= x /\ x <= b) \/ (b <= x /\ x <= a)

Connected(l) ==
  /\ l.from \in l.pixels /\ l.to \in l.pixels
  /\ Reached(l.pixels, l.from) = l.pixels
  /\ \A p \in l.pixels : Between(p.x, l.from.x, l.to.x) /\ Between(p.y, l.from.y, l.to.y)

\* Each line is a connected path from where the mouse was to where it is, within the rectangle
\* between them, whichever way it goes and however the slope is rounded (WinDrawLine), and starts
\* where the program last saw the mouse, so that a stroke has no gaps.
StrokesAreConnected ==
  [][line' # line /\ line'.down =>
       /\ Connected(line')
       /\ line'.from # line'.to => line'.from = line.to]_drawVars

=============================================================================
