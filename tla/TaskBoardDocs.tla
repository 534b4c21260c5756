---------------------------- MODULE TaskBoardDocs ----------------------------
(***************************************************************************)
(* What comments and docs of the repository say of the task board and the  *)
(* code does not keep.  Each statement is checked by a run of its own,     *)
(* which shows how the board gets there.                                   *)
(***************************************************************************)
EXTENDS TaskBoard

\* repo.go: "the two cross-terminal transitions we never allow".  The roll-up
\* closes a cancelled parent as done.
NoCrossTerminalMove ==
  [][\A t \in Live \cap Live' :
       /\ row[t].state = "wont_do" => row'[t].state # "done"
       /\ row[t].state = "done" => row'[t].state # "wont_do"]_vars

\* tasks.sql on CountNonDoneChildren: "a feature whose remaining children were
\* all cancelled deliberately should roll up to done".  The reconciler's scan
\* counts a cancelled child as open and leaves such a feature stuck.
CancelledChildrenRollUp ==
  \A f \in Task : (Finished(f) /\ row[f].type = "feature") ~> ~ Finished(f)
=============================================================================
