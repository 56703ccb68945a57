-------------------------------- MODULE Tview --------------------------------
(***************************************************************************)
(* The text viewer (src/apps/tview/tview.cpp): the lines of a mapped file, *)
(* the part of a line that fits into a row of the window, and the keys     *)
(* that move the first line shown. A byte is told by its class:            *)
(*   "a" ASCII, "t" tab, "n" line feed, "2" and "3" the first byte of a    *)
(*   character of two or three bytes, "c" a later byte of one.             *)
(***************************************************************************)
EXTENDS Integers, Sequences, SequencesExt, FiniteSetsExt

CONSTANTS
  ViewWidth, ViewHeight, ViewTab, \* -w, -h, -t, in columns and lines
  ViewBuffer,  \* the bytes of the row's buffer
  ViewFiles    \* the files' bytes

VARIABLES
  tv_lines,      \* FindLines of the file
  start_line,
  tv_rows,       \* the bytes of the rows of the window
  tv_phase       \* "shell", "reading" or "failed"

tviewVars == <<tv_lines, start_line, tv_rows, tv_phase>>

TviewInit ==
  /\ tv_lines = << >> /\ start_line = 0
  /\ tv_rows = << >> /\ tv_phase = "shell"

-----------------------------------------------------------------------------
(* The text *)

\* The bytes between line feeds; the last ones are a line only if there are any.
FindLines(file) ==
  LET lf    == {i \in 1 .. Len(file) : file[i] = "n"} \cup {0}
      ends  == lf \cup {Len(file) + 1}
      after == SetToSortSeq({i \in lf : i < Len(file)}, <)
  IN  [k \in DOMAIN after |-> SubSeq(file, after[k] + 1, Min({e \in ends : e > after[k]}) - 1)]

CountUTF8Size(b) == CASE b \in {"a", "t", "n"} -> 1 [] b = "2" -> 2 [] b = "3" -> 3 [] b = "c" -> 0

Spaces(n) == [i \in 1..n |-> "s"]

TabSpaces(x) == ViewTab - (x % ViewTab)

\* Faulty variant: the column that a character reaches is not compared with the row's end.
FitsAny(x) == TRUE

FitsRow(x) == x < ViewWidth

\* The loop of CopyUTF8String from byte i of a line, at column x, with dst copied so far. Only a
\* tab is not limited by the row. A byte that starts no character is never passed: the column runs
\* on to the row's end.
RECURSIVE CopyFrom(_, _, _, _)
CopyFrom(line, i, x, dst) ==
  LET byte  == line[i]
      next  == x + (IF byte \in {"a", "n"} THEN 1 ELSE 2)
      c     == CountUTF8Size(byte)
  IN  IF i > Len(line) THEN dst
      ELSE IF byte = "t"
      THEN IF Len(dst) + TabSpaces(x) >= ViewBuffer THEN dst
           ELSE CopyFrom(line, i + 1, x + TabSpaces(x), dst \o Spaces(TabSpaces(x)))
      ELSE IF ~FitsRow(next) \/ i + c > Len(line) + 1 \/ Len(dst) + c >= ViewBuffer THEN dst
      ELSE CopyFrom(line, i + c, next, dst \o SubSeq(line, i, i + c - 1))

CopyUTF8String(line) == CopyFrom(line, 1, 0, << >>)

\* A row without a line is left white.
RowsFrom(start, lines) ==
  [i \in 1 .. ViewHeight |->
     IF start + i <= Len(lines) THEN CopyUTF8String(lines[start + i]) ELSE << >>]

-----------------------------------------------------------------------------
(* The program *)

\* A file that is not found ends the program before its window opens.
NotFound == tv_phase = "shell" /\ tv_phase' = "failed" /\ UNCHANGED <<tv_lines, start_line, tv_rows>>

OpenText ==
  /\ tv_phase # "reading"
  /\ tv_lines' \in {FindLines(file) : file \in ViewFiles}
  /\ start_line' = 0
  /\ tv_rows' = RowsFrom(0, tv_lines') /\ tv_phase' = "reading"

MovedTo(diff, n) == Max({Min({start_line + diff, n - ViewHeight}), 0})

\* UpdateStartLine for a key that moves: nothing is drawn anew at either end of the text, nor
\* for a text that is shorter than the window.
MoveLines(diff) ==
  /\ tv_phase = "reading"
  /\ LET n == Len(tv_lines) IN
     /\ n >= ViewHeight
     /\ ~(diff < 0 /\ start_line = 0) /\ ~(diff > 0 /\ start_line = n - ViewHeight)
     /\ start_line' = MovedTo(diff, n)
     /\ tv_rows' = RowsFrom(start_line', tv_lines)
     /\ UNCHANGED <<tv_lines, tv_phase>>

\* The window and the mapping go with the task.
QuitView ==
  /\ tv_phase = "reading"
  /\ tv_lines' = << >> /\ start_line' = 0 /\ tv_rows' = << >> /\ tv_phase' = "shell"

\* PageUp, PageDown, DownArrow and UpArrow.
TviewNext ==
  \/ NotFound \/ OpenText \/ QuitView
  \/ \E diff \in {-(ViewHeight \div 2), ViewHeight \div 2, 1, -1} : MoveLines(diff)

-----------------------------------------------------------------------------
(* Properties *)

\* The text of a row as columns: what starts at a column, a character by its bytes. A tab goes to the next
\* multiple of ViewTab.
Characters(line) == {i \in DOMAIN line : line[i] # "c"}
LengthOf(line, i) ==
  CHOOSE k \in 1 .. Len(line) :
    /\ \A j \in 1 .. k - 1 : line[i + j] = "c"
    /\ i + k > Len(line) \/ line[i + k] # "c"

RECURSIVE ColumnAt(_, _)
ColumnAt(line, i) ==
  IF i = 1 THEN 0
  ELSE LET before == Max({j \in Characters(line) : j < i})
           x == ColumnAt(line, before)
       IN  CASE line[before] = "t" -> (x \div ViewTab + 1) * ViewTab
             [] line[before] = "a" -> x + 1
             [] OTHER -> x + 2

\* The first byte that is not shown: the first character that would touch the last column or that lacks bytes, in a
\* line of whole characters.
FirstHidden(line) ==
  Min({i \in Characters(line) : line[i] # "t" /\ ColumnAt(line, i) + (IF line[i] = "a" THEN 1 ELSE 2) >= ViewWidth}
      \cup {i \in Characters(line) : line[i] # "t" /\ LengthOf(line, i) < CountUTF8Size(line[i])}
      \cup {Len(line) + 1})

\* The visible bytes of a row or line with the column each starts at.
InRow(line) ==
  {<<ColumnAt(line, i), SubSeq(line, i, i + LengthOf(line, i) - 1)>> :
     i \in {j \in Characters(line) : j < FirstHidden(line) /\ line[j] # "t"}}

RECURSIVE Painted(_, _, _)
Painted(row, i, x) ==
  IF i > Len(row) THEN {}
  ELSE IF row[i] = "s" THEN Painted(row, i + 1, x + 1)
  ELSE LET c == CountUTF8Size(row[i]) IN
       {<<x, SubSeq(row, i, i + c - 1)>>} \cup Painted(row, i + c, x + IF c = 1 THEN 1 ELSE 2)

\* Whatever the keys, the window stays within the text, and each row shows its line from the left, character by
\* character at the column the tabs give it, up to the window's edge (UpdateStartLine, CopyUTF8String).
ViewShowsLines ==
  tv_phase = "reading" =>
    /\ 0 <= start_line /\ start_line <= Max({0, Len(tv_lines) - ViewHeight})
    /\ \A i \in 1 .. ViewHeight :
         IF start_line + i > Len(tv_lines) THEN tv_rows[i] = << >>
         ELSE LET line == tv_lines[start_line + i] IN
              line = << >> \/ line[1] = "c" \/ Painted(tv_rows[i], 1, 0) = InRow(line)

=============================================================================
