------------------------------ MODULE Terminal ------------------------------
(***************************************************************************)
(* A terminal (src/kernel/terminal.cpp): the characters on its window, the *)
(* line being typed, its history, and ExecuteLine with its redirection,    *)
(* pipeline and built-in commands.  What the two terminals of a pipeline   *)
(* do to each other while they run is the subject of module Pipe; here the *)
(* second one runs when the first is done.                                 *)
(*                                                                         *)
(* Characters: "N" newline, "E" escape, "w" one of double width, "!" a     *)
(* byte that is not UTF-8, "0" the character that ends a string.  A line's *)
(* commands are one letter each: "e" echo, "c" cat, "l" ls, "k" clear,     *)
(* anything else is looked for on the volume.                              *)
(***************************************************************************)
EXTENDS Integers, Sequences, SequencesExt, FiniteSetsExt

CONSTANTS kColumns, kRows, kLineMax, \* the size of a terminal and of a line
          kHistory,                  \* lines kept (8 in the code)
          kArgs,                     \* argv_len
          Lines,                     \* lines typed: [text, commands, to]
          Inputs,                    \* what the user types to cat
          Results,                   \* [out, code]: what an application does
          Root, Apps,                \* names of files in the root and in apps
          Directories,               \* those of the root that are directories
          MaxLinesRun                \* bound on the lines executed

VARIABLES term,     \* [cells, x, y, esc, n, color]: window and cursor_
          linebuf, cmd_history, cmd_history_index, last_exit_code,
          volume,   \* the files of the root that lines write: name to contents
          lines_run

terminalVars == <<term, linebuf, cmd_history, cmd_history_index, last_exit_code, volume, lines_run>>

Cols == 0 .. kColumns - 1
Space == [char |-> " ", color |-> "white"]
BlankRow == [x \in Cols |-> Space]
----------------------------------------------------------------------------
(* Printing.                                                               *)

Digits == [d \in {"0", "3", "4", "9"} |-> CASE d = "0" -> 0 [] d = "3" -> 3 [] d = "4" -> 4 [] OTHER -> 9]
Hankaku(c) == c # "w"
Color(n, old) == IF n = 0 THEN "white" ELSE IF n \in 30 .. 37 \union 90 .. 97 THEN n ELSE old

Scroll1(t) ==
  [t EXCEPT !.cells = [r \in DOMAIN @ |-> IF r < kRows - 1 THEN @[r + 1] ELSE BlankRow]]
\* Faulty variant: the row that scrolled in is written from the old column.
NewlineKeepsColumn(t) ==
  IF t.y < kRows - 1 THEN [t EXCEPT !.x = 0, !.y = @ + 1] ELSE Scroll1(t)

Newline(t) ==
  IF t.y < kRows - 1 THEN [t EXCEPT !.x = 0, !.y = @ + 1] ELSE [Scroll1(t) EXCEPT !.x = 0]

(* WriteUnicode at the cursor: a cell outside the row is another row's or  *)
(* nobody's memory, shown here as a column that does not exist.            *)
WriteChar(t, c, color) ==
  LET wide == IF Hankaku(c) THEN 0 ELSE 1
      row == [x \in Cols |-> IF x = t.x THEN [char |-> c, color |-> color]
                             ELSE IF x = t.x + wide THEN [char |-> "", color |-> color]
                             ELSE t.cells[t.y][x]]
  IN  [t EXCEPT !.cells[t.y] = row, !.x = @ + 1 + wide]

(* A character that breaks an escape sequence is printed.                  *)
PutChar(t, c) ==
  LET plain == [t EXCEPT !.esc = "init"]
      ch == IF c = "!" THEN "?" ELSE c
  IN  CASE t.esc = "init" /\ c = "E" -> [t EXCEPT !.esc = "esc"]
        [] t.esc = "esc" /\ c = "[" -> [t EXCEPT !.esc = "csi"]
        [] t.esc = "csi" /\ c \in DOMAIN Digits -> [t EXCEPT !.esc = "num", !.n = Digits[c]]
        [] t.esc = "num" /\ c \in DOMAIN Digits -> [t EXCEPT !.n = @ * 10 + Digits[c]]
        [] t.esc = "num" /\ c = "m" -> [plain EXCEPT !.color = Color(t.n, @)]
        [] OTHER ->
             IF c = "N" THEN Newline(plain)
             ELSE IF IF Hankaku(c) THEN t.x = kColumns ELSE t.x >= kColumns - 1
               THEN WriteChar(Newline(plain), ch, t.color)
               ELSE WriteChar(plain, ch, t.color)

PutString(t, s) == FoldLeft(PutChar, t, s)
----------------------------------------------------------------------------
(* Strings that are cut by writing zeros into them.                        *)

First(b, c) == Min({k \in DOMAIN b : b[k] = c} \union {Len(b) + 1})
CString(b, i) == SubSeq(b, i, First([k \in DOMAIN b |-> IF k < i THEN "" ELSE b[k]], "0") - 1)
Skip(b, i) == Min({k \in i .. Len(b) : b[k] # " "} \union {Len(b) + 1})
Cut(b, i) == IF i \in DOMAIN b THEN [b EXCEPT ![i] = "0"] ELSE b
\* Faulty variant: blanks before the end stay.
TrimNothing(b, end) == b

Trim(b, end) ==       \* trim_space
  [k \in DOMAIN b |-> IF k < end /\ \A j \in k .. end - 1 : b[j] = " " THEN "0" ELSE b[k]]

(* ExecuteLine's parse.  The places of the first blank, '>' and '|' are    *)
(* found before anything is cut; the file's name is read before the line   *)
(* is cut at the '|'.                                                      *)
Parse(line) ==
  LET blank == First(line, " ")
      redir == First(line, ">")
      bar == First(line, "|")
      has(i) == i <= Len(line)
      b1 == Cut(Trim(line, Len(line) + 1), blank)
      arg == Skip(b1, blank + 1)
      b2 == IF has(redir) THEN Trim(Cut(b1, redir), redir) ELSE b1
      b3 == IF has(bar) THEN Trim(Cut(b2, bar), bar) ELSE b2
  IN  [command |-> CString(b3, 1),
       arg |-> IF has(blank) THEN CString(b3, arg) ELSE <<>>,
       redirected |-> has(redir), dest |-> CString(b2, Skip(b2, redir + 1)),
       piped |-> has(bar), sub |-> CString(b3, Skip(b3, bar + 1))]

(* MakeArgVector: the command and the words of its argument, or an error.  *)
Words(s) == {k \in DOMAIN s : s[k] # " " /\ (k = 1 \/ s[k - 1] = " ")}
TooManyArgs(arg) == 1 + Cardinality(Words(arg)) > kArgs
----------------------------------------------------------------------------
(* Commands, in an environment env = [volume, code, input, keys, result]:  *)
(* what cat reads, whether it comes from the keyboard, and what an         *)
(* application would do.  Each gives [out, err, code].                     *)

Message == <<"-", "N">>       \* any error message
Does(out, err, code) == [out |-> out, err |-> err, code |-> code]

(* FindCommand: a directory of the root hides an application.              *)
FindCommand(c) == (c \in Root \/ c \in Apps) /\ c \notin Directories

ListAll(toTerminal) ==
  LET name(f) == IF toTerminal /\ f \in Directories
                   THEN <<"E", "[", "9", "4", "m">> \o f \o <<"E", "[", "0", "m">> ELSE f
      names == SetToSortSeq(Root, LAMBDA f, g : f \in Directories \/ f = g)
  IN  IF toTerminal THEN FlattenSeq([i \in DOMAIN names |-> name(names[i]) \o <<" ">>]) \o <<"N">>
      ELSE FlattenSeq([i \in DOMAIN names |-> name(names[i]) \o <<"N">>])

Echo(arg, env) ==
  IF arg = <<>> \/ arg[1] # "$" THEN arg \o <<"N">>
  ELSE IF Tail(arg) = <<"?">> THEN <<env.code, "N">> ELSE <<"N">>

Command(command, arg, env, toTerminal) ==
  CASE command = <<>> -> Does(<<>>, <<>>, "0")
    [] command = <<"e">> -> Does(Echo(arg, env), <<>>, "0")
    [] command = <<"k">> -> Does(<<>>, <<>>, "0")
    [] command = <<"l">> ->
         IF arg = <<>> \/ arg \in Directories THEN Does(ListAll(toTerminal), <<>>, "0")
         ELSE IF arg \in Root \union DOMAIN env.volume THEN Does(arg \o <<"N">>, <<>>, "0")
         ELSE Does(<<>>, Message, "1")
    [] command = <<"c">> ->
         IF arg = <<>> THEN Does(env.input, <<>>, "0")
         ELSE IF arg \in DOMAIN env.volume THEN Does(env.volume[arg], <<>>, "0")
         ELSE IF arg \in Root THEN Does(<<>>, <<>>, "0")
         ELSE Does(<<>>, Message, "1")
    [] OTHER ->
         IF ~FindCommand(command) THEN Does(<<>>, Message, "1")
         ELSE IF TooManyArgs(arg) THEN Does(<<>>, Message, "0")  \* exit_code = -0
         ELSE Does(env.result.out, <<>>, env.result.code)

(* Output to a file is written from its start, and ends it; a command that *)
(* writes nothing leaves the file, empty if it was created for it.         *)
StoredIn(vol, name, out) ==
  [f \in (DOMAIN vol) \union {name} |->
     IF f = name THEN IF out = <<>> /\ f \in DOMAIN vol THEN vol[f] ELSE out ELSE vol[f]]

(* The keys typed to cat are echoed before each line that it copies, and   *)
(* the control key that ends them is shown.                                *)
Echoed(p, env) ==
  IF p.command = <<"c">> /\ p.arg = <<>> /\ env.keys THEN <<env.input, <<"^", "D">> >> ELSE << <<>>, <<>> >>

(* What InputKey lets a terminal without a window take of its command line.*)
Typable(line) == SubSeq(line, 1, Min({Len(line), kColumns - 1, kLineMax - 1}))

(* ExecuteLine: what is printed on the terminal, the volume and exit code. *)
RECURSIVE Execute(_, _, _)
Execute(line, env, dest) ==
  LET p == Parse(line)
      to == IF p.redirected THEN <<p.dest>> ELSE dest    \* <<>> is the terminal
      vol == IF p.redirected THEN StoredIn(env.volume, p.dest, <<>>) ELSE env.volume
      main == Command(p.command, p.arg, [env EXCEPT !.volume = vol], to = <<>> /\ ~p.piped)
      echoed == Echoed(p, env)
      after == [env EXCEPT !.volume = vol, !.input = main.out, !.keys = FALSE, !.code = "0"]
  IN  IF p.redirected /\ p.dest \in Directories
        THEN [printed |-> Message, volume |-> env.volume, code |-> env.code]
      ELSE IF p.piped
        THEN LET sub == IF p.sub = <<>> THEN [printed |-> <<>>, volume |-> vol, code |-> "0"]
                        ELSE Execute(Typable(p.sub), after, to)
             IN  [sub EXCEPT !.printed = echoed[1] \o echoed[2] \o main.err \o @]
      ELSE [printed |-> echoed[1] \o main.err \o (IF to = <<>> THEN main.out ELSE <<>>) \o echoed[2],
            volume |-> IF to = <<>> THEN vol ELSE StoredIn(vol, to[1], main.out),
            code |-> main.code]

Environment(input, result) ==
  [volume |-> volume, code |-> last_exit_code, input |-> input, keys |-> TRUE, result |-> result]
----------------------------------------------------------------------------
(* Keys.                                                                   *)

NewTerm == [cells |-> [r \in 0 .. kRows - 1 |-> BlankRow], x |-> 0, y |-> 0,
            esc |-> "init", n |-> 0, color |-> "white"]

TerminalInit ==
  /\ term = PutChar(NewTerm, ">")
  /\ linebuf = <<>> /\ last_exit_code = "0"
  /\ cmd_history = [i \in 1 .. kHistory |-> <<>>] /\ cmd_history_index = -1
  /\ volume = <<>> /\ lines_run = 0

(* Clear leaves the cursor's column, which Enter has just set to 0.        *)
Cleared(t) == [t EXCEPT !.cells = NewTerm.cells, !.y = 0]

EnterLine == \E input \in Inputs, result \in Results :
  /\ lines_run < MaxLinesRun
  /\ LET e == Execute(linebuf, Environment(input, result), <<>>)
         t == Newline(term)
         shown == IF Parse(linebuf).command = <<"k">> THEN Cleared(t) ELSE t
     IN  /\ term' = PutChar(PutString(shown, e.printed), ">")
         /\ volume' = e.volume /\ last_exit_code' = e.code
  /\ cmd_history' = IF linebuf = <<>> THEN cmd_history ELSE <<linebuf>> \o Front(cmd_history)
  /\ cmd_history_index' = -1 /\ linebuf' = <<>>
  /\ lines_run' = lines_run + 1

Erase(t) == [t EXCEPT !.x = @ - 1, !.cells[t.y][t.x - 1] = Space]

EraseKey ==
  /\ term.x > 1
  /\ term' = Erase(term)
  /\ linebuf' = IF linebuf = <<>> THEN linebuf ELSE Front(linebuf)
  /\ UNCHANGED <<cmd_history, cmd_history_index, last_exit_code, volume, lines_run>>

(* What a key gives (InitializeKeyboard): the keys that the lines need, by *)
(* number, without and with shift.                                         *)
keycode_map         == <<"a", "c", "d", "e", "f", "k", "l", "p", " ", "4", ".", "/", "\\">>
keycode_map_shifted == <<"A", "C", "D", "E", "F", "K", "L", "P", " ", "$", ">", "?", "|">>
Ascii(keycode, shift) == IF shift THEN keycode_map_shifted[keycode] ELSE keycode_map[keycode]

(* Bound: what is typed begins one of the lines.                          *)
Beginnings == UNION {{SubSeq(l.text, 1, n) : n \in DOMAIN l.text} : l \in Lines}

TypeKey == \E keycode \in DOMAIN keycode_map, shift \in BOOLEAN :
  LET c == Ascii(keycode, shift) IN
  /\ Append(linebuf, c) \in Beginnings
  /\ term.x < kColumns - 1 /\ Len(linebuf) < kLineMax - 1
  /\ linebuf' = Append(linebuf, c)
  /\ term' = WriteChar(term, c, "white")
  /\ UNCHANGED <<cmd_history, cmd_history_index, last_exit_code, volume, lines_run>>

(* HistoryUpDown: the line is shown again from column 1 of the cursor's    *)
(* row, wherever it was typed.                                             *)
HistoryKey == \E direction \in {1, -1} :
  LET i == IF direction = -1 /\ cmd_history_index >= 0 THEN cmd_history_index - 1
           ELSE IF direction = 1 /\ cmd_history_index + 1 < kHistory THEN cmd_history_index + 1
           ELSE cmd_history_index
      line == IF i >= 0 THEN cmd_history[i + 1] ELSE <<>>
      cleared == [term EXCEPT !.x = 1, !.cells[term.y] = [x \in Cols |-> IF x = 0 THEN @[0] ELSE Space]]
  IN  /\ cmd_history_index' = i /\ linebuf' = line
      /\ term' = FoldLeft(LAMBDA t, c : WriteChar(t, c, "white"), cleared, line)
      /\ UNCHANGED <<cmd_history, last_exit_code, volume, lines_run>>

TerminalNext == EnterLine \/ EraseKey \/ TypeKey \/ HistoryKey
----------------------------------------------------------------------------
(* The line that Enter executes is the one the user sees before the        *)
(* cursor, wherever output that did not end in a newline left the prompt,  *)
(* and the cursor stays where a character can be drawn or printing goes to *)
(* the next row: InputKey, HistoryUpDown and Print move it by different    *)
(* rules.                                                                  *)
LineIsShown ==
  /\ term.x \in 0 .. kColumns /\ term.y \in 0 .. kRows - 1
  /\ Len(linebuf) < term.x /\ Len(linebuf) < kLineMax
  /\ \A i \in 1 .. Len(linebuf) :
       term.cells[term.y][term.x - Len(linebuf) + i - 1].char = linebuf[i]

(* What the lines of Lines ask for, from their parts instead of their      *)
(* text: each command reads what the one before it wrote, the last one     *)
(* writes to the file or the terminal and gives the exit code, and error   *)
(* messages go to the terminal.                                            *)
Asked(l, env) ==
  LET n == Len(l.commands)
      vol == IF l.to = <<>> THEN env.volume ELSE StoredIn(env.volume, l.to, <<>>)
      Ran[i \in 1 .. n] ==
        Command(l.commands[i].command, l.commands[i].arg,
          [env EXCEPT !.volume = vol, !.input = IF i = 1 THEN @ ELSE Ran[i - 1].out,
                      !.code = IF i = 1 THEN @ ELSE "0"],
          i = n /\ l.to = <<>>)
      keys == Echoed(l.commands[1], env)
      errs == FlattenSeq([i \in 1 .. n |-> Ran[i].err])
      out == IF l.to = <<>> THEN Ran[n].out ELSE <<>>
  IN  [printed |-> IF n = 1 THEN keys[1] \o errs \o out \o keys[2] ELSE keys[1] \o keys[2] \o errs \o out,
       volume |-> IF l.to = <<>> THEN vol ELSE StoredIn(vol, l.to, Ran[n].out),
       code |-> Ran[n].code]

(* ExecuteLine, which finds its way by cutting one buffer in place, does   *)
(* what the lines ask for, whatever the lines before it left behind.       *)
DoesAsAsked ==
  lines_run > 0 /\ linebuf = <<>> => \A l \in Lines, input \in Inputs, result \in Results :
    l.commands # <<>> =>
      LET env == Environment(input, result)
      IN  Execute(l.text, env, <<>>) = Asked(l, env)
=============================================================================
