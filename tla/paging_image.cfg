SPECIFICATION Spec
CONSTANTS
  Tasks = {t1, t2}
  Programs = {elf}
  Others = {text}
  Image = {p1}
  MaxFrames = 9
  MaxRuns = 3
  Written = {p1}
  LazyBytes <- NoKinds
INVARIANT ImageIsReadOnly
CHECK_DEADLOCK FALSE
SYMMETRY Symmetry
