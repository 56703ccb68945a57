------------------------------- MODULE Tedit -------------------------------
(***************************************************************************)
(* The text editor apps/tedit/tedit.cpp: the lines of text, the part of    *)
(* the window that shows them, the table char_idx that maps a cell of the  *)
(* window to a character, the caret, the confirmation dialog and the file. *)
(*                                                                         *)
(* A character is the sequence of its bytes, and a byte is one of its      *)
(* classes: "a" an ASCII character, "t" a tab, "n" a newline, "2" and "3"  *)
(* the first byte of a character of two or three bytes, "c" a byte that    *)
(* continues one.  A byte that belongs to no character is loaded as        *)
(* <<"!", b>>, the flag INVALID_BYTE.                                      *)
(***************************************************************************)
EXTENDS Integers, Sequences, SequencesExt, FiniteSets

CONSTANTS Width, Height, TabSize,  \* main's width, height, tab_size
          Texts,                   \* what may be in the file: byte sequences
          Typed,                   \* the characters the user types
          MaxLines, MaxChars       \* bounds on the text

VARIABLES data,        \* the lines
          char_idx,    \* for each row and column the character's index or -1
          shown,      \* the glyphs on the window's cells
          carets,      \* the cells <<row, column>> where a caret is drawn
          scroll_y, cursor_x, cursor_y, cursor_on, edited, dialog_shown,
          exit_flag, discarded,
          file         \* [named, bytes]: the file on the volume

view == <<char_idx, shown, carets>>
flags == <<cursor_on, edited, dialog_shown, exit_flag, discarded, file>>
place == <<scroll_y, cursor_x, cursor_y>>
teditVars == <<data, view, flags, place>>

Rows == 0 .. Height - 1
Columns == 0 .. Width - 1
----------------------------------------------------------------------------
(* Files.                                                                  *)

Length(b) == CASE b = "2" -> 2 [] b = "3" -> 3 [] OTHER -> 1
Invalid(b) == <<"!", b>>
IsInvalid(c) == c[1] = "!"
InvalidBytes(bs) == [i \in DOMAIN bs |-> Invalid(bs[i])]

(* The bytes after a first byte are taken whatever they are, the newline   *)
(* among them, and become bytes of their own if one does not continue it.  *)
LoadFile(bytes) ==
  LET n == Len(bytes)
      Take(i) == SubSeq(bytes, i, IF i + Length(bytes[i]) > n THEN n ELSE i + Length(bytes[i]) - 1)
      Chars(bs) == IF Len(bs) = Length(bs[1]) /\ bs[1] # "c" /\ \A k \in 2 .. Len(bs) : bs[k] = "c"
                     THEN <<bs>> ELSE InvalidBytes(bs)
      Split[i \in 1 .. n + 1] ==
        IF i = n + 1 THEN << <<>> >>
        ELSE IF bytes[i] = "n" THEN << <<>> >> \o Split[i + 1]
        ELSE LET rest == Split[i + Len(Take(i))]
             IN  <<Chars(Take(i)) \o rest[1]>> \o Tail(rest)
  IN  Split[1]

ByteOf(c) == IF IsInvalid(c) THEN Tail(c) ELSE c
TextOf(ls) == FlattenSeq([i \in DOMAIN ls |->
                (IF i > 1 THEN <<"n">> ELSE <<>>) \o FlattenSeq([k \in DOMAIN ls[i] |-> ByteOf(ls[i][k])])])
Invalids(ls) == {<<i, k>> \in (DOMAIN ls) \X (1 .. MaxChars) : k \in DOMAIN ls[i] /\ IsInvalid(ls[i][k])}

(* What SaveFile hands to fputc and fwrite before the first character that *)
(* EncodeCharToUTF8 refuses.                                               *)
Encoded(ls) ==
  IF Invalids(ls) = {} THEN TextOf(ls)
  ELSE LET at == CHOOSE p \in Invalids(ls) :
                   \A q \in Invalids(ls) : p[1] < q[1] \/ (p[1] = q[1] /\ p[2] <= q[2])
       IN  TextOf(SubSeq(ls, 1, at[1] - 1) \o <<SubSeq(ls[at[1]], 1, at[2] - 1)>>)

(* The library gathers the output and writes it in one call, at the latest *)
(* when the file is closed; opening for writing does not cut the file, only*)
(* a write sets its size.  Without a name, or when the file cannot be      *)
(* opened, nothing is written.                                             *)
TextWritten == IF Encoded(data) = <<>> THEN file ELSE [file EXCEPT !.bytes = Encoded(data)]
SaveFile(ok) ==
  IF ok THEN {f \in {TextWritten} : file.named /\ Invalids(data) = {}}
  ELSE {file} \union {f \in {TextWritten} : file.named /\ Invalids(data) # {}}
----------------------------------------------------------------------------
(* Lines on cells.                                                         *)

CharWidth(c) == IF IsInvalid(c) \/ Len(c) > 1 THEN 2 ELSE 1       \* DrawOneChar

(* The column at which each character of a line starts, and the line's end.*)
RowStarts(line) ==
  LET S[i \in 0 .. Len(line)] ==
        IF i = 0 THEN 0
        ELSE LET stop == S[i - 1] + CharWidth(line[i])
             IN  IF line[i] = <<"t">> THEN ((stop + TabSize - 1) \div TabSize) * TabSize ELSE stop
  IN  S

CharIdx(line) ==
  LET S == RowStarts(line)
  IN  [x \in Columns |-> IF x >= S[Len(line)] THEN -1
                         ELSE CHOOSE i \in 0 .. Len(line) - 1 : S[i] <= x /\ x < S[i + 1]]

Blank == [glyph |-> <<>>, part |-> 0]
Garbage == [glyph |-> <<"?">>, part |-> 0]
Glyph(c, part) == IF part < CharWidth(c) THEN [glyph |-> c, part |-> part] ELSE Blank

(* A character that does not fit is not drawn; "[EOF]" follows the text.   *)
Picture(line, isLast) ==
  LET S == RowStarts(line)
      ci == CharIdx(line)
  IN  [x \in Columns |->
         IF ci[x] >= 0
           THEN LET c == line[ci[x] + 1]
                IN  IF S[ci[x]] + CharWidth(c) <= Width THEN Glyph(c, x - S[ci[x]]) ELSE Blank
           ELSE IF isLast /\ x - S[Len(line)] < 5
                  THEN [glyph |-> <<"EOF">>, part |-> x - S[Len(line)]] ELSE Blank]

(* GetCharRange: where the character at a column starts and its width.     *)
CharRange(ci, x) ==
  IF x \in Columns /\ ci[x] >= 0
    THEN LET same == {k \in Columns : ci[k] = ci[x]}
         IN  [start |-> CHOOSE s \in same : \A k \in same : s <= k, width |-> Cardinality(same)]
    ELSE [start |-> Cardinality({k \in Columns : ci[k] >= 0}), width |-> 0]

(* get_char_range_2: rows of the window answer from the table, with the    *)
(* text as it was when they were drawn; other lines are laid out again.    *)
RangeAt(ls, y, x) ==
  IF y - scroll_y \in Rows THEN CharRange(char_idx[y - scroll_y], x)
  ELSE CharRange(CharIdx(ls[y + 1]), x)

(* The index in the line where a character typed at the cursor goes.       *)
CharsBefore == IF cursor_x = 0 THEN 0 ELSE char_idx[cursor_y - scroll_y][cursor_x - 1] + 1
----------------------------------------------------------------------------
(* Drawing, on a record v = [char_idx, shown, carets].                    *)

View == [char_idx |-> char_idx, shown |-> shown, carets |-> carets]
SetView(v) == char_idx' = v.char_idx /\ shown' = v.shown /\ carets' = v.carets

ShowCaret(v, x, row) == [v EXCEPT !.carets = @ \union {<<row, x>>}]

(* draw_cursor(false): the cells of the character under the caret are      *)
(* cleared and drawn again from ls, the text after the edit.  A character  *)
(* that is no longer there is read from memory that is not the text's.     *)
EraseCaret(v, ls) ==
  LET row == cursor_y - scroll_y
      r == CharRange(v.char_idx[row], cursor_x)
      cleared == IF r.width = 0 THEN {cursor_x} ELSE cursor_x .. cursor_x + r.width - 1
      i == v.char_idx[row][cursor_x] + 1
      there == cursor_y + 1 \in DOMAIN ls /\ i \in DOMAIN ls[cursor_y + 1]
      Redrawn(x) ==
        IF ~there THEN Garbage
        ELSE LET c == ls[cursor_y + 1][i]
             IN  IF cursor_x + CharWidth(c) <= Width THEN Glyph(c, x - cursor_x) ELSE Blank
  IN  [v EXCEPT !.carets = {p \in @ : p[1] # row \/ p[2] \notin cleared},
                !.shown[row] = [x \in Columns |->
                   IF r.width > 0 /\ x \in cleared THEN Redrawn(x) ELSE @[x]]]

(* draw_lines(from, to): rows past the end of the text are only cleared.   *)
(* A row's rectangle ends before the caret that stands after its last cell.*)
DrawLines(v, ls, top, from, to, x, y) ==
  LET drawn == IF from < 0 THEN {} ELSE {r \in Rows : r >= from /\ (to < 0 \/ r <= to)}
      some == {r \in drawn : top + r < Len(ls)}
      w == [char_idx |-> [r \in Rows |-> IF r \in some THEN CharIdx(ls[top + r + 1]) ELSE v.char_idx[r]],
            shown |-> [r \in Rows |->
              IF r \in some THEN Picture(ls[top + r + 1], top + r + 1 = Len(ls))
              ELSE IF r \in drawn THEN [c \in Columns |-> Blank] ELSE v.shown[r]],
            carets |-> {p \in v.carets : p[1] \notin drawn \/ p[2] >= Width}]
  IN  IF cursor_on THEN ShowCaret(w, x, y - top) ELSE w

Redraw == SetView(DrawLines(View, data, scroll_y, 0, -1, cursor_x, cursor_y))
----------------------------------------------------------------------------
(* main before its loop; a text is loaded by the first step.               *)

EmptyView == [char_idx |-> [r \in Rows |-> [x \in Columns |-> 0]],
              shown |-> [r \in Rows |-> [x \in Columns |-> Blank]], carets |-> {}]

TeditInit ==
  /\ data = <<>> /\ char_idx = EmptyView.char_idx /\ shown = EmptyView.shown /\ carets = {}
  /\ scroll_y = 0 /\ cursor_x = 0 /\ cursor_y = 0
  /\ cursor_on = FALSE /\ edited = FALSE /\ dialog_shown = FALSE
  /\ exit_flag = FALSE /\ discarded = FALSE
  /\ file = [named |-> FALSE, bytes |-> <<>>]

Open == \E f \in [named : BOOLEAN, bytes : Texts] :
  /\ data = <<>>
  /\ ~f.named => f.bytes = <<>>
  /\ file' = f
  /\ data' = LoadFile(f.bytes)
  /\ SetView(DrawLines(View, LoadFile(f.bytes), 0, 0, -1, 0, 0))
  /\ UNCHANGED <<place, cursor_on, edited, dialog_shown, exit_flag, discarded>>

Running == data # <<>> /\ ~exit_flag
----------------------------------------------------------------------------
(* Events other than keys in the text.                                     *)

Quit ==
  /\ Running
  /\ dialog_shown' = (~dialog_shown /\ edited)
  /\ exit_flag' = (~dialog_shown /\ ~edited)
  /\ IF dialog_shown THEN Redraw ELSE UNCHANGED view  \* the dialog's own pixels are not modelled
  /\ UNCHANGED <<data, place, cursor_on, edited, discarded, file>>

DialogSave == \E ok \in BOOLEAN :
  /\ Running /\ dialog_shown
  /\ file' \in SaveFile(ok)
  /\ exit_flag' = ok
  /\ dialog_shown' = ok
  /\ IF ok THEN UNCHANGED view ELSE Redraw
  /\ UNCHANGED <<data, place, cursor_on, edited, discarded>>

DialogDiscard ==
  /\ Running /\ dialog_shown
  /\ exit_flag' = TRUE /\ discarded' = TRUE
  /\ UNCHANGED <<data, view, place, cursor_on, edited, dialog_shown, file>>

DialogCancel ==
  /\ Running /\ dialog_shown
  /\ dialog_shown' = FALSE
  /\ Redraw
  /\ UNCHANGED <<data, place, cursor_on, edited, exit_flag, discarded, file>>

Click == \E sx \in Columns, sy \in Rows :
  /\ Running /\ ~dialog_shown
  /\ LET y == IF sy + scroll_y >= Len(data) THEN Len(data) - 1 ELSE sy + scroll_y
         x == RangeAt(data, y, sx).start
     IN  /\ cursor_x' = x /\ cursor_y' = y
         /\ IF cursor_on THEN SetView(ShowCaret(EraseCaret(View, data), x, y - scroll_y))
            ELSE UNCHANGED view
  /\ UNCHANGED <<data, scroll_y, flags>>

Blink ==
  /\ Running /\ ~dialog_shown
  /\ cursor_on' = ~cursor_on
  /\ SetView(IF cursor_on THEN EraseCaret(View, data) ELSE ShowCaret(View, cursor_x, cursor_y - scroll_y))
  /\ UNCHANGED <<data, place, edited, dialog_shown, exit_flag, discarded, file>>
----------------------------------------------------------------------------
(* A key in the text gives an edit e: the new text, the new position, the  *)
(* rows to draw again and whether the text changed.  Every key then ends   *)
(* the same way: scroll to the cursor, erase the old caret, draw.          *)

Stay == [text |-> data, x |-> cursor_x, y |-> cursor_y, top |-> scroll_y,
         from |-> -1, to |-> -1, edited |-> edited]
Row == cursor_y - scroll_y
Line == data[cursor_y + 1]

Joined(y) ==      \* lines y and y + 1 (from 0) become one
  SubSeq(data, 1, y) \o <<data[y + 1] \o data[y + 2]>> \o SubSeq(data, y + 3, Len(data))
Changed(line, x) ==
  [Stay EXCEPT !.text = [data EXCEPT ![cursor_y + 1] = line], !.x = x,
               !.from = Row, !.to = Row, !.edited = TRUE]

\* Faulty variant: the row below the window still counts as one of it.
ScrollLate(top, y) == IF y < top THEN y ELSE IF y > top + Height THEN y - Height + 1 ELSE top

ScrollTo(top, y) == IF y < top THEN y ELSE IF y >= top + Height THEN y - Height + 1 ELSE top

Finish(e) ==
  LET top == ScrollTo(e.top, e.y)
      erased == IF cursor_on THEN EraseCaret(View, e.text) ELSE View
      whole == top # scroll_y
  IN  /\ data' = e.text /\ edited' = e.edited
      /\ cursor_x' = e.x /\ cursor_y' = e.y /\ scroll_y' = top
      /\ SetView(DrawLines(erased, e.text, top, IF whole THEN 0 ELSE e.from,
                           IF whole THEN -1 ELSE e.to, e.x, e.y))

Backspace ==
  IF cursor_x > 0
    THEN LET r == RangeAt(data, cursor_y, cursor_x - 1)
         IN  Changed(RemoveAt(Line, char_idx[Row][cursor_x - 1] + 1), r.start)
    ELSE IF cursor_y = 0 THEN Stay
    ELSE [Stay EXCEPT !.text = Joined(cursor_y - 1), !.y = cursor_y - 1,
                      !.x = RangeAt(data, cursor_y - 1, Width).start,
                      !.from = Row - 1, !.edited = TRUE]

Enter ==
  LET halves == <<SubSeq(Line, 1, CharsBefore), SubSeq(Line, CharsBefore + 1, Len(Line))>>
  IN  [Stay EXCEPT !.text = SubSeq(data, 1, cursor_y) \o halves \o SubSeq(data, cursor_y + 2, Len(data)),
                   !.y = cursor_y + 1, !.x = 0, !.from = Row, !.edited = TRUE]

Insert(c) ==
  LET line == InsertAt(Line, CharsBefore + 1, c)
      r == CharRange(CharIdx(line), cursor_x)
  IN  Changed(line, IF cursor_x + r.width <= Width THEN cursor_x + r.width ELSE cursor_x)

Delete ==
  LET r == RangeAt(data, cursor_y, cursor_x)
      next == IF r.start = 0 THEN char_idx[Row][0] ELSE char_idx[Row][r.start - 1] + 1
  IN  IF r.width = 0 /\ (r.start = 0 \/ next = Len(Line))
        THEN IF cursor_y + 1 < Len(data)
               THEN [Stay EXCEPT !.text = Joined(cursor_y), !.from = Row, !.edited = TRUE]
               ELSE Stay
        ELSE Changed(RemoveAt(Line, next + 1), cursor_x)

(* Moving: to the character of a line that covers a column.                *)
GoTo(y, x) == [Stay EXCEPT !.y = y, !.x = RangeAt(data, y, x).start]

Left == IF cursor_x > 0 THEN GoTo(cursor_y, cursor_x - 1)
        ELSE IF cursor_y > 0 THEN GoTo(cursor_y - 1, Width) ELSE GoTo(0, 0)
Right == LET r == RangeAt(data, cursor_y, cursor_x)
         IN  IF r.width > 0 THEN [Stay EXCEPT !.x = cursor_x + r.width]
             ELSE IF cursor_y + 1 < Len(data) THEN [Stay EXCEPT !.y = cursor_y + 1, !.x = 0] ELSE Stay
Up == IF cursor_y > 0 THEN GoTo(cursor_y - 1, cursor_x) ELSE Stay
Down == IF cursor_y + 1 < Len(data) THEN GoTo(cursor_y + 1, cursor_x) ELSE Stay
Home(ctrl) == [Stay EXCEPT !.x = 0, !.y = IF ctrl THEN 0 ELSE cursor_y]
End(ctrl) == GoTo(IF ctrl THEN Len(data) - 1 ELSE cursor_y, Width)
Within(y) == IF y < 0 THEN 0 ELSE IF y >= Len(data) THEN Len(data) - 1 ELSE y
Page(by) == [GoTo(Within(cursor_y + by), cursor_x) EXCEPT !.top = Within(scroll_y + by)]

CharsIn(ls) == FoldLeft(LAMBDA n, line : n + Len(line), 0, ls)

Edits == {Backspace, Delete} \union {Insert(c) : c \in Typed}
           \union (IF Len(data) < MaxLines THEN {Enter} ELSE {})
Moves == {Left, Right, Up, Down, Home(TRUE), Home(FALSE), End(TRUE), End(FALSE),
          Page(Height \div 2), Page(-(Height \div 2))}

Key ==
  /\ Running /\ ~dialog_shown
  /\ \E e \in Edits \union Moves : CharsIn(e.text) <= MaxChars /\ Finish(e)
  /\ UNCHANGED <<cursor_on, dialog_shown, exit_flag, discarded, file>>

\* Faulty variant: the text counts as saved when saving failed.
SaveForgets == \E ok \in BOOLEAN :
  /\ Running /\ ~dialog_shown
  /\ file' \in SaveFile(ok)
  /\ Finish([Stay EXCEPT !.edited = FALSE])
  /\ UNCHANGED <<cursor_on, dialog_shown, exit_flag, discarded>>

Save == \E ok \in BOOLEAN :       \* Ctrl-S
  /\ Running /\ ~dialog_shown
  /\ file' \in SaveFile(ok)
  /\ Finish([Stay EXCEPT !.edited = edited /\ ~ok])
  /\ UNCHANGED <<cursor_on, dialog_shown, exit_flag, discarded>>
----------------------------------------------------------------------------
TeditNext == Open \/ Quit \/ DialogSave \/ DialogDiscard \/ DialogCancel \/ Click \/ Blink \/ Key \/ Save

(* While no dialog covers them, the rows of the window show exactly the    *)
(* lines from scroll_y on, char_idx says of every cell which character it  *)
(* shows, and one caret stands at the cursor, or none while it is dark:    *)
(* although a row is drawn again only when its handler asks for it and the *)
(* caret is erased with the text already changed.                          *)
ViewMatchesText ==
  Running /\ ~dialog_shown =>
    /\ \A r \in Rows :
         IF scroll_y + r < Len(data)
           THEN LET line == data[scroll_y + r + 1]
                IN  /\ char_idx[r] = CharIdx(line)
                    /\ shown[r] = Picture(line, scroll_y + r + 1 = Len(data))
           ELSE \A x \in Columns : shown[r][x] = Blank
    /\ carets = IF cursor_on THEN {<<cursor_y - scroll_y, cursor_x>>} ELSE {}

(* The cursor stands in the window, in a line, where a character starts or *)
(* after the last one that shows: every index the next key computes from   *)
(* the table is one of the line.                                           *)
CursorOnText ==
  Running =>
    /\ cursor_y \in 0 .. Len(data) - 1 /\ cursor_y - scroll_y \in Rows
    /\ LET ci == CharIdx(data[cursor_y + 1])
       IN  CharRange(ci, cursor_x).start = cursor_x

(* What the user sees is the text, and what a key changes is where the     *)
(* user sees the caret.                                                    *)
ViewSound == ViewMatchesText /\ CursorOnText

(* Without edited, a file that SaveFile can write whole, with some byte    *)
(* and none that is not UTF-8, holds the text                              *)
(* ("保存していない変更があるか"), and an editor left without Discard       *)
(* leaves the text in the file: whichever of Quit, Save and the dialog     *)
(* failed before.                                                          *)
NothingUnsaved ==
  /\ file.named /\ TextOf(data) # <<>> /\ Invalids(data) = {}
  /\ ~edited \/ (exit_flag /\ ~discarded)
  => file.bytes = TextOf(data)
=============================================================================
