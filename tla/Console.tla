------------------------------ MODULE Console ------------------------------
(***************************************************************************)
(* The log console (src/kernel/ui/console.cpp, logger.cpp): rows of text   *)
(* first drawn on the screen itself, later in a window.  On the screen a   *)
(* full console is drawn again from buffer_; in a window the rows that are *)
(* drawn are moved, and buffer_ is no longer kept.                         *)
(***************************************************************************)
EXTENDS Integers, Sequences, SequencesExt

CONSTANTS conRows, conColumns,   \* Console::kRows, kColumns
          LogTexts,              \* what is logged: sequences, "N" a newline
          MaxLogged              \* bound on the number of messages

ASSUME ConsoleAssumption ==
  conRows \in Nat \ {0} /\ conColumns \in Nat \ {0} /\ LogTexts \subseteq Seq(STRING)

VARIABLES con_rows,   \* what is drawn
          con_buffer, \* buffer_
          con_row, con_column, \* cursor_row_, cursor_column_
          in_window,  \* window_ is set
          logged,     \* the lines put, for the property
          log_count

consoleVars == <<con_rows, con_buffer, con_row, con_column, in_window, logged, log_count>>

ConRow == 0 .. conRows - 1
EmptyRows == [r \in ConRow |-> <<>>]

ConsoleInit ==
  /\ con_rows = EmptyRows /\ con_buffer = EmptyRows
  /\ con_row = 0 /\ con_column = 0
  /\ in_window = FALSE /\ logged = << <<>> >> /\ log_count = 0

Con == [rows |-> con_rows, buffer |-> con_buffer, row |-> con_row, column |-> con_column]
SetCon(c) == con_rows' = c.rows /\ con_buffer' = c.buffer /\ con_row' = c.row /\ con_column' = c.column

Moved(rows) == [r \in ConRow |-> IF r < conRows - 1 THEN rows[r + 1] ELSE <<>>]

\* Faulty variant: on the screen only what is drawn moves.
ConNewlineDrawn(c) ==
  IF c.row < conRows - 1 THEN [c EXCEPT !.column = 0, !.row = @ + 1]
  ELSE [c EXCEPT !.column = 0, !.rows = Moved(@)]

ConNewline(c) ==
  LET start == [c EXCEPT !.column = 0]
  IN  IF c.row < conRows - 1 THEN [start EXCEPT !.row = @ + 1]
      ELSE IF in_window THEN [start EXCEPT !.rows = Moved(@)]
      ELSE [start EXCEPT !.buffer = Moved(@), !.rows = Moved(c.buffer)]

(* A character beyond the last column is dropped.                          *)
ConPut(c, ch) ==
  IF ch = "N" THEN ConNewline(c)
  ELSE IF c.column < conColumns - 1
    THEN LET at(row) == SubSeq(row, 1, c.column) \o <<ch>> \o SubSeq(row, c.column + 2, Len(row))
         IN  [c EXCEPT !.rows[c.row] = at(@), !.buffer[c.row] = at(@), !.column = @ + 1]
    ELSE c

Record(ls, ch) == IF ch = "N" THEN Append(ls, <<>>) ELSE Front(ls) \o <<Append(Last(ls), ch)>>

LogString == \E s \in LogTexts :       \* Log, Console::PutString
  /\ log_count < MaxLogged
  /\ SetCon(FoldLeft(ConPut, Con, s))
  /\ logged' = FoldLeft(Record, logged, s)
  /\ log_count' = log_count + 1
  /\ UNCHANGED in_window

SetWindow ==                            \* SetWindow, Refresh
  /\ ~in_window
  /\ in_window' = TRUE
  /\ con_rows' = con_buffer
  /\ UNCHANGED <<con_buffer, con_row, con_column, logged, log_count>>

ConsoleNext == LogString \/ SetWindow
----------------------------------------------------------------------------
(* The console shows the last lines logged, each as far as it fits, and    *)
(* the change from the screen to a window loses none of them.              *)
ShowsTheLog ==
  LET n == Len(logged)
      first == IF n > conRows THEN n - conRows ELSE 0
      Fit(l) == SubSeq(l, 1, IF Len(l) < conColumns - 1 THEN Len(l) ELSE conColumns - 1)
  IN  \A r \in ConRow : con_rows[r] = IF first + r + 1 <= n THEN Fit(logged[first + r + 1]) ELSE <<>>
=============================================================================
