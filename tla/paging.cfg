SPECIFICATION Spec
CONSTANTS
  Tasks = {t1, t2}
  Programs = {elf}
  Others = {text}
  Image = {p1}
  MaxFrames = 9
  MaxRuns = 2
  Written = {p1}
  LazyBytes <- TwoKinds
INVARIANTS AppsAreApart
CHECK_DEADLOCK FALSE
SYMMETRY Symmetry
