------------------------------- MODULE Blocks -------------------------------
(***************************************************************************)
(* The block game (src/apps/blocks/blocks.cpp): a frame of its main loop   *)
(* and the keys between two frames. Lengths are parameters; the speeds are *)
(* what the code's rounding makes of them, 2 pixels a frame.               *)
(* ball_dir is 45, 135, -135 or -45 degrees (modulo 360), or nothing:      *)
(* it is kept as the signs <<cos, sin>>, <<0, 0>> for none.                *)
(***************************************************************************)
EXTENDS Integers

CONSTANTS
  kNumBlocksX, kNumBlocksY, kBlockWidth, kBlockHeight,
  kBarWidth, kBarHeight, kBallRadius, kGapWidth, kGapHeight, kGapBar, kBarFloat,
  BallGap   \* what the ball starts above the bar, and to the left of the middle

Step == 2 \* pixels a frame of the bar and, on each axis, of the ball

kCanvasWidth == kNumBlocksX * kBlockWidth + 2 * kGapWidth
kCanvasHeight == kGapHeight + kNumBlocksY * kBlockHeight + kGapBar + kBarHeight + kBarFloat
kBarY == kCanvasHeight - kBarFloat - kBarHeight
kBallX == kCanvasWidth \div 2 - kBallRadius - BallGap
kBallY == kBarY - kBallRadius - BallGap

VARIABLES
  blocks,    \* the blocks left
  bar_x, move_dir,
  ball,      \* its place; y is -1 after it fell
  ball_dir,
  ball_d     \* ball_dx, ball_dy: the last movement

blocksVars == <<blocks, bar_x, move_dir, ball, ball_dir, ball_d>>

BlocksInit ==
  /\ blocks = (0 .. kNumBlocksX - 1) \X (0 .. kNumBlocksY - 1)
  /\ bar_x = kCanvasWidth \div 2 - kBarWidth \div 2 /\ move_dir = 0
  /\ ball = [x |-> kBallX, y |-> kBallY]
  /\ ball_dir = <<0, 0>> /\ ball_d = [x |-> 0, y |-> 0]

Moving == ball_dir # <<0, 0>>

-----------------------------------------------------------------------------
(* Keys *)

\* A key that is pressed or released also stops the bar at an end of its way.
Steered(dir) ==
  IF (bar_x = 0 /\ dir < 0) \/ (bar_x + kBarWidth = kCanvasWidth - 1 /\ dir > 0) THEN 0 ELSE dir

Arrow(dir) == move_dir' = Steered(dir) /\ UNCHANGED <<blocks, bar_x, ball, ball_dir, ball_d>>
Release == move_dir' = 0 /\ UNCHANGED <<blocks, bar_x, ball, ball_dir, ball_d>>

\* The space bar puts the ball back, and then starts it; during the game it is any other key.
SpaceBar ==
  /\ ball' = IF ~Moving /\ ball.y < 0 THEN [x |-> kBallX, y |-> kBallY] ELSE ball
  /\ ball_dir' = IF ~Moving /\ ball.y >= 0 THEN <<1, 1>> ELSE ball_dir
  /\ move_dir' = Steered(move_dir)
  /\ UNCHANGED <<blocks, bar_x, ball_d>>

-----------------------------------------------------------------------------
(* A frame *)

LimitRange(x, min, max) == IF x < min THEN min ELSE IF x > max THEN max ELSE x

MirrorX(dir) == <<-dir[1], dir[2]>>
MirrorY(dir) == <<dir[1], -dir[2]>>

\* Where the last movement would take the ball.
Ahead == [x |-> ball.x + ball_d.x, y |-> ball.y + ball_d.y]

HitsWall(p) ==
  \/ (ball_d.x < 0 /\ p.x < kBallRadius)
  \/ (ball_d.x > 0 /\ kCanvasWidth - kBallRadius <= p.x)

HitsCeiling(p) == ball_d.y < 0 /\ p.y < kBallRadius
HitsBar(p, bar) == bar <= p.x /\ p.x < bar + kBarWidth /\ ball_d.y > 0 /\ kBarY - kBallRadius <= p.y
Falls(p) == ball_d.y > 0 /\ kCanvasHeight - kBallRadius <= p.y

AmongBlocks(p) ==
  /\ kGapWidth <= p.x /\ p.x < kCanvasWidth - kGapWidth
  /\ kGapHeight <= p.y /\ p.y < kGapHeight + kNumBlocksY * kBlockHeight

BlockAt(p) == <<(p.x - kGapWidth) \div kBlockWidth, (p.y - kGapHeight) \div kBlockHeight>>

\* Faulty variant: an edge counts as crossed one step further on.
CrossesLate(from, to, low, high) == (from < low /\ low < to - Step) \/ (high < from /\ to + Step < high)

\* From outside [low, high] on an axis to the other side of the nearer edge.
Crosses(from, to, low, high) == (from < low /\ low <= to) \/ (high < from /\ to <= high)

\* The direction after the ball hit block b on its way to p.
OffBlock(b, p, dir) ==
  LET left == kGapWidth + b[1] * kBlockWidth
      top  == kGapHeight + b[2] * kBlockHeight
      dir1 == IF Crosses(ball.x, p.x, left, left + kBlockWidth) THEN MirrorX(dir) ELSE dir
  IN  IF Crosses(ball.y, p.y, top, top + kBlockHeight) THEN MirrorY(dir1) ELSE dir1

MoveBall(dir) ==
  /\ ball_dir' = dir
  /\ ball_d' = [x |-> Step * dir[1], y |-> Step * dir[2]]
  /\ ball' = [x |-> ball.x + ball_d'.x, y |-> ball.y + ball_d'.y]

Frame ==
  /\ bar_x' = LimitRange(bar_x + move_dir * Step, 0, kCanvasWidth - kBarWidth - 1)
  /\ UNCHANGED move_dir
  /\ LET p     == Ahead
         walls == IF HitsWall(p) THEN MirrorX(ball_dir) ELSE ball_dir
         dir   == IF HitsCeiling(p) \/ HitsBar(p, bar_x') THEN MirrorY(walls) ELSE walls
         b     == BlockAt(p)
     IN
     \/ ~Moving /\ UNCHANGED <<blocks, ball, ball_dir, ball_d>>
     \/ /\ Moving /\ ~HitsCeiling(p) /\ ~HitsBar(p, bar_x') /\ Falls(p)
        /\ ball_dir' = <<0, 0>> /\ ball' = [ball EXCEPT !.y = -1]
        /\ UNCHANGED <<blocks, ball_d>>
     \/ /\ Moving /\ (HitsCeiling(p) \/ HitsBar(p, bar_x') \/ ~Falls(p))
        /\ IF AmongBlocks(p) /\ b \in blocks
           THEN blocks' = blocks \ {b} /\ MoveBall(OffBlock(b, p, dir))
           ELSE UNCHANGED blocks /\ MoveBall(dir)

BlocksNext == \/ \E dir \in {-1, 1} : Arrow(dir)
              \/ Release \/ SpaceBar \/ Frame

-----------------------------------------------------------------------------
(* Properties *)

\* The ball in play stays within the walls and the canvas, whatever is in its way, and the frame that
\* removes a block turns the ball: it never goes on through the block (main's frame, which tests the place ahead
\* and then moves another way).
BallIsBounced ==
  [][/\ Moving' =>
          /\ kBallRadius <= ball'.x /\ ball'.x < kCanvasWidth - kBallRadius
          /\ kBallRadius <= ball'.y /\ ball'.y < kCanvasHeight - kBallRadius
     /\ blocks' # blocks => ball_dir' # ball_dir]_blocksVars

=============================================================================
