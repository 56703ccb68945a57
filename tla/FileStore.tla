------------------------------ MODULE FileStore ------------------------------
(***************************************************************************)
(* What a file system promises to the applications: a file is a sequence   *)
(* of bytes, a descriptor reads and writes it at offsets of its own.       *)
(* As in src/kernel/fat.cpp, a file ends where the last write ended: a     *)
(* descriptor that starts over cuts the file short, and a write beyond     *)
(* the end by a descriptor that is further on brings the bytes before it   *)
(* back.                                                                   *)
(***************************************************************************)
EXTENDS Integers, Sequences

CONSTANTS
  Names,   \* file names
  Fds,     \* file descriptors
  MaxLen,  \* the longest read or write
  MaxSize, \* bound on the size of a file
  Byte(_, _), \* the byte a descriptor writes at an offset
  NoFile   \* a name without a file, a descriptor that is closed

VARIABLES
  files,   \* what was written to a file, and its size
  open,    \* the file and the offsets of a descriptor
  out      \* what a read returned, until the next step

vars == <<files, open, out>>

Init ==
  /\ files = [n \in Names |-> NoFile]
  /\ open = [fd \in Fds |-> NoFile]
  /\ out = << >>

Open(fd, n) ==
  /\ open[fd] = NoFile
  /\ open' = [open EXCEPT ![fd] = [name |-> n, rd |-> 0, wr |-> 0]]
  /\ out' = << >>
  /\ files' = IF files[n] = NoFile
              THEN [files EXCEPT ![n] = [bytes |-> << >>, size |-> 0]] ELSE files

Close(fd) ==
  /\ open[fd] # NoFile
  /\ open' = [open EXCEPT ![fd] = NoFile]
  /\ out' = << >> /\ UNCHANGED files

\* The bytes of a file from offset to offset + len, as far as it goes.
Part(file, offset, len) ==
  SubSeq(file.bytes, offset + 1, IF offset + len < file.size THEN offset + len ELSE file.size)

Read(fd, len) ==
  /\ open[fd] # NoFile
  /\ open' = [open EXCEPT ![fd].rd = @ + Len(out')]
  /\ \E f \in {files[open[fd].name]} : out' = Part(f, open[fd].rd, len)
  /\ UNCHANGED files

Load(fd, len, offset) ==
  /\ open[fd] # NoFile
  /\ UNCHANGED open
  /\ \E f \in {files[open[fd].name]} : offset <= f.size /\ out' = Part(f, offset, len)
  /\ UNCHANGED files

\* A file after len bytes were written at wr.
Overwritten(f, fd, wr, len) ==
  [bytes |-> [i \in 1..(IF wr + len > Len(f.bytes) THEN wr + len ELSE Len(f.bytes)) |->
                IF i > wr /\ i <= wr + len THEN Byte(fd, i) ELSE f.bytes[i]],
   size  |-> wr + len]

Write(fd, len) ==
  /\ open[fd] # NoFile
  /\ open' = [open EXCEPT ![fd].wr = @ + len]
  /\ out' = << >>
  /\ \E f \in {files[open[fd].name]} :
       files' = [files EXCEPT ![open[fd].name] = Overwritten(f, fd, open[fd].wr, len)]

Next ==
  \E fd \in Fds :
    \/ \E n \in Names : Open(fd, n)
    \/ Close(fd)
    \/ \E len \in 0..MaxLen : Read(fd, len) \/ Write(fd, len)
    \/ \E len \in 0..MaxLen, offset \in 0..MaxSize : Load(fd, len, offset)

Spec == Init /\ [][Next]_vars

=============================================================================
