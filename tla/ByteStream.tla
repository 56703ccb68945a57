----------------------------- MODULE ByteStream -----------------------------
(***************************************************************************)
(* What each pipe promises to its two ends: the reader gets the bytes in   *)
(* the order they were written, each once, and end of file only after the  *)
(* last one.  The bytes of a pipe are numbered as they are written.        *)
(***************************************************************************)
EXTENDS Naturals, Sequences

CONSTANT Pipes

VARIABLES sent,   \* how many bytes were written
          rcvd,   \* the bytes that were read
          ended,  \* the writer has finished
          eof     \* the reader was told so

vars == <<sent, rcvd, ended, eof>>

Init ==
  /\ sent = [p \in Pipes |-> 0]
  /\ rcvd = [p \in Pipes |-> << >>]
  /\ ended = [p \in Pipes |-> FALSE]
  /\ eof = [p \in Pipes |-> FALSE]

Write(p) ==
  /\ ~ended[p]
  /\ sent' = [sent EXCEPT ![p] = sent'[p]] /\ sent'[p] > sent[p]
  /\ UNCHANGED <<rcvd, ended, eof>>

Finish(p) ==
  /\ ended' = [ended EXCEPT ![p] = TRUE]
  /\ UNCHANGED <<sent, rcvd, eof>>

Read(p) ==
  /\ \E n \in (Len(rcvd[p]) + 1)..sent[p] : rcvd' = [rcvd EXCEPT ![p] = [i \in 1..n |-> i]]
  /\ UNCHANGED <<sent, ended, eof>>

EndOfFile(p) ==
  /\ ended[p] /\ Len(rcvd[p]) = sent[p]
  /\ eof' = [eof EXCEPT ![p] = TRUE]
  /\ UNCHANGED <<sent, rcvd, ended>>

Next == \E p \in Pipes : Write(p) \/ Finish(p) \/ Read(p) \/ EndOfFile(p)

Spec == Init /\ [][Next]_vars
=============================================================================
