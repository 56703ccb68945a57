--------------------------- MODULE MCTaskManager ---------------------------
(* TLC instance of TaskManager: main, idle and two or three more tasks.    *)
EXTENDS TaskManager

\* Erase is std::remove on the queues that occur: checked against SelectSeq on
\* every sequence of distinct tasks.
ASSUME EraseIsRemove ==
  \A n \in 0..4 : \A q \in [1..n -> 1..4] :
    Distinct(q) => \A t \in 1..4 : Erase(q, t) = SelectSeq(q, LAMBDA x : x # t)
=============================================================================
