------------------------------ MODULE SessionLog ------------------------------
(***************************************************************************)
(* What the editing sessions of an architecture graph promise: the graph   *)
(* changes only inside a session, which has one author; a closed session   *)
(* is recorded once, with its author, how many writes it had and the graph *)
(* as its last write left it; what is recorded never changes.  Nothing     *)
(* here knows of locks, clocks, transactions or the ticker.                *)
(***************************************************************************)
EXTENDS Naturals, Sequences

CONSTANTS Author, NoSession

VARIABLES
  graph,
  open,      \* NoSession, or the open one's [author, writes]
  closed     \* the sessions that are over: [author, writes, graph]

logVars == <<graph, open, closed>>

Record == [author |-> open.author, writes |-> open.writes, graph |-> graph]

LogInit == open = NoSession /\ closed = <<>>

\* A write of the session's author.
Continue ==
  /\ open # NoSession
  /\ open' = [open EXCEPT !.writes = @ + 1]
  /\ UNCHANGED closed

\* The first write of a new session; one of somebody else is closed first.
Start(a) ==
  /\ IF open = NoSession THEN UNCHANGED closed
     ELSE open.author # a /\ closed' = Append(closed, Record)
  /\ open' = [author |-> a, writes |-> 1]

Close ==
  /\ open # NoSession
  /\ closed' = Append(closed, Record)
  /\ open' = NoSession
  /\ UNCHANGED graph

LogNext == Continue \/ (\E a \in Author : Start(a)) \/ Close

LogSpec == LogInit /\ [][LogNext]_logVars
=============================================================================
