----------------------------- MODULE TaskTxBoard -----------------------------
(***************************************************************************)
(* What the transactions of TaskTx amount to, seen from outside: operations *)
(* of TaskBoard.  Two histories are kept beside TaskTx and change nothing  *)
(* in it: the board, with the columns TaskTx leaves out, as the committed  *)
(* statements have written it, and for each call under way the work that   *)
(* was opened since it began.                                              *)
(*                                                                         *)
(* At READ COMMITTED a call may look at a task, see it closed, and commit  *)
(* after another client has reopened it: only the rows a transaction locks *)
(* stay as it read them.  Such a call is overtaken.  Any other one commits *)
(* exactly one operation of TaskBoard (CommitsAreBoardSteps).              *)
(***************************************************************************)
EXTENDS TaskTx

VARIABLES
  board,    \* the committed rows of the tasks table, all columns
  late      \* per connection: the open tasks that were not open, or not
            \* waited for, when its call began

trackedVars == <<vars, board, late>>

Board == INSTANCE TaskBoard
           WITH row <- board, found <- {}, Session <- {}, NoSession <- NoTask

-----------------------------------------------------------------------------
\* A row as tasks.create inserts it.
Inserted(t) ==
  [type |-> IF t \in Feature THEN "feature" ELSE "task", state |-> "todo",
   parent |-> Parent[t], assignee |-> Nobody, session |-> NoTask,
   started |-> FALSE, ended |-> FALSE]

\* Row x after the statements of p that write it.
Written(p, x) ==
  CASE tx[p].op = "create"                         -> Inserted(x)
    [] tx[p].op \in {"claim", "next"}              -> Board!ClaimTask(board[x], tx[p].u)
    [] tx[p].op \in {"set", "close"} /\ x = tx[p].t -> Board!Moved(board[x], tx[p].s, tx[p].u)
    [] OTHER                                       -> Board!SetTaskDone(board[x])

Commits(p) ==
  /\ Commit(p)
  /\ board' = [x \in DOMAIN View(p) |->
                 IF x \in DOMAIN tx[p].draft THEN Written(p, x) ELSE board[x]]

\* What a step adds to the work that others have to take into account: tasks
\* that come open or are new, and tasks that somebody now waits for.
Open(x) == x \in Live /\ row[x].state \notin Closed

Opened == {x \in Task : Open(x)' /\ ~ Open(x)} \cup {e[2] : e \in deps' \ deps}

TrackedInit ==
  /\ Init
  /\ board = [t \in Present |-> Inserted(t)]
  /\ late = [p \in Proc |-> {}]

TrackedNext ==
  /\ \/ \E p \in Proc : Commits(p)
     \/ /\ \/ \E p \in Proc : SomeCall(p) \/ Work(p) \/ BreakDeadlock(p) \/ Cancel(p)
           \/ \E e \in deps : RemoveDependency(e)
        /\ UNCHANGED board
  /\ late' = [p \in Proc |-> IF tx'[p] = Idle THEN {} ELSE {x \in late[p] \cup Opened : Open(x)'}]

TrackedSpec == TrackedInit /\ [][TrackedNext]_trackedVars

-----------------------------------------------------------------------------
(* Properties. *)

\* The calls that may go ahead only over closed preconditions.
AsksPreconditions(p) ==
  \/ tx[p].op \in {"claim", "next"}
  \/ tx[p].op \in {"set", "close"} /\ tx[p].s = "done" /\ tx[p].t \notin Feature

\* The features that p claims or rolls up, which have to have no open child.
NeedsClosedChildren(p) ==
  RolledUp(p) \cup (IF tx[p].op \in {"claim", "next"} THEN {tx[p].t} \cap Feature ELSE {})

\* The open tasks that would have kept p from what it is about to commit, had
\* it seen them open.
InTheWay(p) ==
  (IF AsksPreconditions(p) THEN Unresolved(tx[p].t) ELSE {})
  \cup UNION {OpenChildren(View(p), q) : q \in NeedsClosedChildren(p)}

\* p has missed work that was opened, or made a precondition, while its call
\* was under way.  What is older was there to be seen.
Overtaken(p) == InTheWay(p) # {} /\ InTheWay(p) \subseteq late[p]

\* The operation of TaskBoard that the call of p stands for.
BoardStep(p) ==
  LET t == tx[p].t
      s == tx[p].s
      u == tx[p].u IN
  CASE tx[p].op \in {"set", "close"} -> Board!SetState(t, s, u)
    [] tx[p].op = "claim"  -> Board!Claim(t, u)
    [] tx[p].op = "next"   -> Board!ClaimNext(t, u)
    [] tx[p].op = "create" -> Board!Create(t, Inserted(t).type, Parent[t], Nobody, FALSE)
    [] tx[p].op = "dep"    -> Board!AddDependency(t, tx[p].at)
    [] tx[p].op = "ask"    -> Board!Ask(t)
    [] tx[p].op = "visit"  -> /\ board' = Board!Shut(board, Board!RollUp(board, t))
                              /\ asking' = asking \ Board!RollUp(board, t)
                              /\ UNCHANGED deps

\* Seen from outside, a transaction of many statements is one atomic operation
\* of TaskBoard: the same guards, the same rows, the same roll-up and the same
\* withdrawn questions, unless it was overtaken.  Nothing that was open when
\* the call came in is ever passed over.
CommitsAreBoardSteps ==
  [][\A p \in Proc : Commits(p) => Overtaken(p) \/ BoardStep(p)]_trackedVars
=============================================================================
