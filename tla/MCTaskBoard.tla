---------------------------- MODULE MCTaskBoard ----------------------------
(* TaskBoard on small boards. *)
EXTENDS TaskBoardDocs, TLC

CONSTANTS
  MaxLoad,      \* how much there is on a board at most
  MaxFound      \* how many features the reconciler lists at most

\* What is on a board: edges, questions, conversations, what the reconciler
\* listed and tasks somebody moved or was given.
Load ==
  Cardinality(deps) + Cardinality(asking) + Cardinality(found)
  + Cardinality({t \in Live : row[t].session # NoSession})
  + Cardinality({t \in Live : row[t].state # "todo" \/ row[t].assignee # Nobody})

Small == Load <= MaxLoad /\ Cardinality(found) <= MaxFound

Ids == Permutations(Task) \cup Permutations(User) \cup Permutations(Session)
=============================================================================
