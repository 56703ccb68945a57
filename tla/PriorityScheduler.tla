------------------------- MODULE PriorityScheduler -------------------------
(***************************************************************************)
(* What the TaskManager promises about the cpu, without queues or flags:   *)
(* a set of ready tasks with levels, and a cpu that is handed over only to *)
(* one of the ready tasks of the highest level.  A task that becomes ready *)
(* does not take the cpu at once: it gets it at the next hand-over.        *)
(***************************************************************************)
EXTENDS Integers

CONSTANTS TaskId, Levels, Main, Idle, TopLevel, DefaultLevel

VARIABLES level, ready, cpu

vars == <<level, ready, cpu>>

Top(lvl, r) == {t \in r : \A u \in r : lvl[u] <= lvl[t]}

Init ==
  /\ ready = {Main, Idle}
  /\ level = [t \in TaskId |-> CASE t = Main -> TopLevel
                                 [] t = Idle -> 0
                                 [] OTHER    -> DefaultLevel]
  /\ cpu = Main

\* The periodic hand-over.
Preempt ==
  /\ cpu' \in Top(level, ready)
  /\ UNCHANGED <<level, ready>>

\* The task on the cpu stops being ready.
Block ==
  /\ ready' = ready \ {cpu}
  /\ cpu' \in Top(level, ready')
  /\ UNCHANGED level

\* The task on the cpu ends, which may make one other task ready; the cpu goes
\* to a task that was ready before.
Exit ==
  LET left == ready \ {cpu} IN
  /\ cpu' \in Top(level, left)
  /\ ready' = left \/ \E w \in TaskId : ready' = left \cup {w}
  /\ level' = [level EXCEPT ![cpu] = DefaultLevel]

Wake ==
  /\ \E t \in TaskId \ ready, l \in Levels :
       /\ ready' = ready \cup {t}
       /\ level' = [level EXCEPT ![t] = l]
  /\ UNCHANGED cpu

SetLevel ==
  /\ \E t \in ready, l \in Levels : level' = [level EXCEPT ![t] = l]
  /\ UNCHANGED <<ready, cpu>>

Suspend ==
  /\ \E t \in ready \ {cpu, Idle} : ready' = ready \ {t}
  /\ UNCHANGED <<level, cpu>>

Next == Preempt \/ Block \/ Exit \/ Wake \/ SetLevel \/ Suspend

Spec == Init /\ [][Next]_vars
=============================================================================
