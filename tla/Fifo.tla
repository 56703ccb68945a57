-------------------------------- MODULE Fifo ---------------------------------
(* What a ring promises: what is put in comes out once, in order and whole.  *)
EXTENDS Naturals, Sequences

VARIABLES put, \* how many items were put in; they are numbered from 1
          got  \* the numbers of those that were taken out

Init == put = 0 /\ got = << >>
Put == put' = put + 1 /\ UNCHANGED got
Get == Len(got) < put /\ got' = Append(got, Len(got) + 1) /\ UNCHANGED put
Spec == Init /\ [][Put \/ Get]_<<put, got>>

=============================================================================
