------------------------------ MODULE MCTaskTx ------------------------------
(* TaskTx on small trees: the shapes, bounds and symmetries the runs use. *)
EXTENDS TaskTx, TLC

CONSTANT MaxLoad    \* how much there is on a board at most

\* Task 1 is a feature at the top, 2 hangs under it, and so do 3 and 4; in the
\* tower 3 hangs under 2 instead.
Siblings == [t \in Task |-> IF t = 1 THEN NoTask ELSE 1]
Tower    == [t \in Task |-> IF t = 1 THEN NoTask ELSE IF t = 3 THEN 2 ELSE 1]
Flat     == [t \in Task |-> NoTask]

\* What is committed on a board: edges, questions and tasks out of todo.
Load == Cardinality(deps) + Cardinality(asking)
        + Cardinality({t \in Live : row[t].state # "todo" \/ row[t].assignee # Nobody})

Small == Load <= MaxLoad

Clients == Permutations(Proc) \cup Permutations(User)
=============================================================================
