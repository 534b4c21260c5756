--------------------------- MODULE TaskBoardProofs ---------------------------
(***************************************************************************)
(* What TaskBoard promises for any set of tasks, users and conversations.  *)
(* BoardInv is the inductive invariant: it gathers, row by row, what the   *)
(* single properties say, with the closure of edges and questions over the *)
(* live rows.  DepsAcyclic needs nothing but the shape of the edges and is *)
(* inductive beside it.                                                    *)
(***************************************************************************)
EXTENDS TaskBoard, TLAPS

\* What holds of every row: its type, its holder and its clocks.
RowInv(r) ==
  /\ r \in Row
  /\ r.session # NoSession => r.state = "doing" /\ r.assignee # Nobody
  /\ r.state = "todo" => ~ r.started /\ ~ r.ended
  /\ r.state = "doing" => r.started
  /\ r.state = "done" => r.started /\ r.ended
  /\ r.state = "wont_do" => r.ended

BoardInv ==
  /\ Live \subseteq Task
  /\ row = [x \in Live |-> row[x]]
  /\ \A x \in Live : RowInv(row[x])
  /\ deps \subseteq Live \X Live
  /\ asking \subseteq Live
  /\ \A x \in asking : row[x].state \notin Closed
  /\ found \subseteq Task

-----------------------------------------------------------------------------
(* The row updates keep RowInv. *)

\* Moving a row, by any user to any state, keeps it well formed and puts it
\* in that state.
LEMMA MovedOK ==
  ASSUME NEW r, RowInv(r), NEW s \in State, NEW u \in User
  PROVE  RowInv(Moved(r, s, u)) /\ Moved(r, s, u).state = s
<1>. USE NullAssumption DEF RowInv, Row, State, AssignTaskIfUnassigned
<1>1. CASE s = "todo"
  BY <1>1 DEF Moved, SetTaskTodo
<1>2. CASE s = "doing"
  BY <1>2 DEF Moved, SetTaskDoing
<1>3. CASE s = "done"
  BY <1>3 DEF Moved, SetTaskDone
<1>4. CASE s = "wont_do"
  BY <1>4 DEF Moved, SetTaskWontDo
<1>. QED BY <1>1, <1>2, <1>3, <1>4

\* So does the roll-up's update, and it leaves the row done.
LEMMA SetTaskDoneOK ==
  ASSUME NEW r, RowInv(r)
  PROVE  RowInv(SetTaskDone(r)) /\ SetTaskDone(r).state = "done"
BY DEF RowInv, Row, State, SetTaskDone

\* A claim of a row that is in todo or was cancelled.
LEMMA ClaimTaskOK ==
  ASSUME NEW r, RowInv(r), NEW u \in User
  PROVE  RowInv(ClaimTask(r, u)) /\ ClaimTask(r, u).state = "doing"
BY NullAssumption DEF RowInv, Row, State, ClaimTask

\* The roll-up closes rows of the table only.
LEMMA RollUpInTable ==
  ASSUME NEW table, NEW p
  PROVE  RollUp(table, p) \subseteq DOMAIN table
BY DEF RollUp

\* Shutting rows of a well formed table leaves it well formed: the shut ones
\* are done, the others as they were.
LEMMA ShutOK ==
  ASSUME NEW table, NEW S, \A x \in DOMAIN table : RowInv(table[x])
  PROVE  /\ DOMAIN Shut(table, S) = DOMAIN table
         /\ Shut(table, S) = [x \in DOMAIN table |-> Shut(table, S)[x]]
         /\ \A x \in DOMAIN table : RowInv(Shut(table, S)[x])
         /\ \A x \in DOMAIN table : x \notin S => Shut(table, S)[x] = table[x]
BY SetTaskDoneOK DEF Shut

-----------------------------------------------------------------------------
(* BoardInv is inductive. *)

LEMMA InitBoardInv == Init => BoardInv
BY DEF Init, BoardInv, Live

\* A step that rewrites one live row with a well formed one, and neither
\* closes a task with open questions nor touches the rest.
LEMMA OneRow ==
  ASSUME BoardInv, NEW t \in Live, NEW r, RowInv(r),
         row' = [row EXCEPT ![t] = r],
         r.state \in Closed => row[t].state \in Closed,
         UNCHANGED <<deps, asking, found>>
  PROVE  BoardInv'
BY DEF BoardInv, Live

LEMMA NextBoardInv == BoardInv /\ [Next]_vars => BoardInv'
<1>. SUFFICES ASSUME BoardInv, [Next]_vars PROVE BoardInv'
  OBVIOUS
<1>. USE NullAssumption
<1>1. ASSUME NEW t \in Task, NEW ty \in Type, NEW p \in Task \cup {NoTask},
             NEW a \in User \cup {Nobody}, NEW claim \in BOOLEAN,
             Create(t, ty, p, a, claim)
      PROVE  BoardInv'
  <2>. DEFINE new == [type |-> ty, state |-> "todo", parent |-> p, assignee |-> a,
                      session |-> NoSession, started |-> FALSE, ended |-> FALSE]
              r   == IF claim THEN SetTaskDoing(new) ELSE new
  <2>1. RowInv(r)
    BY DEF RowInv, Row, State, Type, SetTaskDoing
  <2>2. t \notin Live /\ row' = [x \in Live \cup {t} |-> IF x # t THEN row[x] ELSE r]
        /\ UNCHANGED <<deps, asking, found>>
    BY <1>1 DEF Create
  <2>3. Live' = Live \cup {t} /\ \A x \in Live : row'[x] = row[x]
    BY <2>2 DEF Live
  <2>4. row'[t] = r
    BY <2>2
  <2>. HIDE DEF r
  <2>. QED BY <2>1, <2>2, <2>3, <2>4 DEF BoardInv
<1>2. ASSUME NEW t \in Task, NEW u \in User, ClaimNext(t, u) \/ Claim(t, u)
      PROVE  BoardInv'
  <2>1. t \in Live /\ row' = [row EXCEPT ![t] = ClaimTask(row[t], u)]
        /\ UNCHANGED <<deps, asking, found>>
    BY <1>2 DEF ClaimNext, ClaimNextEligible, Claim
  <2>2. RowInv(ClaimTask(row[t], u)) /\ ClaimTask(row[t], u).state = "doing"
    BY <2>1, ClaimTaskOK DEF BoardInv
  <2>. QED BY <2>1, <2>2, OneRow DEF Closed
<1>3. ASSUME NEW t \in Task, NEW s \in State, NEW u \in User, SetState(t, s, u)
      PROVE  BoardInv'
  <2>. DEFINE moved == [row EXCEPT ![t] = Moved(row[t], s, u)]
              shut  == IF s \in Closed THEN RollUp(moved, row[t].parent) ELSE {}
              gone  == shut \cup (IF s \in Closed THEN {t} ELSE {})
  <2>1. t \in Live /\ row' = Shut(moved, shut) /\ asking' = asking \ gone
        /\ UNCHANGED <<deps, found>>
    BY <1>3 DEF SetState
  <2>2. RowInv(Moved(row[t], s, u)) /\ Moved(row[t], s, u).state = s
    BY <2>1, MovedOK DEF BoardInv
  <2>3. DOMAIN moved = Live /\ \A x \in DOMAIN moved : RowInv(moved[x])
    BY <2>1, <2>2 DEF BoardInv, Live
  <2>4. /\ Live' = Live
        /\ row' = [x \in Live |-> row'[x]]
        /\ \A x \in Live : RowInv(row'[x])
        /\ \A x \in Live : x \notin shut => row'[x] = moved[x]
    <3>. HIDE DEF moved, shut
    <3>. QED BY <2>1, <2>3, ShutOK DEF Live
  <2>5. ASSUME NEW x \in asking' PROVE row'[x].state \notin Closed
    <3>1. x \in asking /\ x \in Live /\ x \notin shut /\ (x = t => s \notin Closed)
      BY <2>1, <2>5 DEF BoardInv
    <3>2. row'[x] = moved[x]
      BY <3>1, <2>4
    <3>3. CASE x = t
      BY <3>1, <3>2, <3>3, <2>2 DEF Live
    <3>4. CASE x # t
      BY <3>1, <3>2, <3>4 DEF BoardInv, Live
    <3>. QED BY <3>3, <3>4
  <2>. QED BY <2>1, <2>4, <2>5 DEF BoardInv
<1>4. ASSUME NEW t \in Task, NEW ty \in Type, NEW a \in User \cup {Nobody}, Update(t, ty, a)
      PROVE  BoardInv'
  <2>. DEFINE r == [row[t] EXCEPT !.type = ty, !.assignee = a,
                       !.session = IF a = row[t].assignee THEN @ ELSE NoSession]
  <2>1. t \in Live /\ row' = [row EXCEPT ![t] = r] /\ UNCHANGED <<deps, asking, found>>
    BY <1>4 DEF Update, Live, BoardInv, RowInv, Row
  <2>2. RowInv(r) /\ r.state = row[t].state
    BY <2>1 DEF BoardInv, RowInv, Row
  <2>. HIDE DEF r
  <2>. QED BY <2>1, <2>2, OneRow
<1>5. ASSUME NEW t \in Task, Delete(t)
      PROVE  BoardInv'
  BY <1>5 DEF Delete, BoardInv, Live
<1>6. ASSUME NEW t \in Task, NEW d \in Task, AddDependency(t, d)
      PROVE  BoardInv'
  BY <1>6 DEF AddDependency, BoardInv, Live
<1>7. ASSUME NEW e \in deps, RemoveDependency(e)
      PROVE  BoardInv'
  BY <1>7 DEF RemoveDependency, BoardInv, Live
<1>8. ASSUME NEW t \in Task, NEW s \in Session, NEW u \in User, SetActiveSession(t, s, u)
      PROVE  BoardInv'
  <2>. DEFINE r == [row[t] EXCEPT !.session = s]
  <2>1. t \in Live /\ row[t].state = "doing" /\ row[t].assignee = u
        /\ row' = [row EXCEPT ![t] = r] /\ UNCHANGED <<deps, asking, found>>
    BY <1>8 DEF SetActiveSession, Live, BoardInv
  <2>2. RowInv(r) /\ r.state = row[t].state
    BY <2>1 DEF BoardInv, RowInv, Row
  <2>. HIDE DEF r
  <2>. QED BY <2>1, <2>2, OneRow
<1>9. ASSUME NEW t \in Task, Ask(t) \/ SettleQuestions(t)
      PROVE  BoardInv'
  BY <1>9 DEF Ask, SettleQuestions, BoardInv, Live
<1>10. ASSUME NEW f \in Task, ReconcileClose(f)
       PROVE  BoardInv'
  <2>1. row' = Shut(row, RollUp(row, f)) /\ asking' = asking \ RollUp(row, f)
        /\ found' = found \ {f} /\ UNCHANGED deps
    BY <1>10 DEF ReconcileClose
  <2>2. /\ Live' = Live
        /\ row' = [x \in Live |-> row'[x]]
        /\ \A x \in Live : RowInv(row'[x])
        /\ \A x \in Live : x \notin RollUp(row, f) => row'[x] = row[x]
    BY <2>1, ShutOK DEF Live, BoardInv
  <2>. QED BY <2>1, <2>2 DEF BoardInv
<1>11. CASE ReconcileScan \/ Restart \/ \E f \in Task : ReconcileFails(f)
  BY <1>11 DEF ReconcileScan, Restart, ReconcileFails, BoardInv, Live
<1>12. CASE UNCHANGED vars
  BY <1>12 DEF vars, BoardInv, Live
<1>. QED BY <1>1, <1>2, <1>3, <1>4, <1>5, <1>6, <1>7, <1>8, <1>9, <1>10, <1>11, <1>12
         DEF Next, CreateSome, MoveSome, UpdateSome, HoldSome

\* BoardInv holds of every reachable board.
THEOREM BoardInvariant == Spec => []BoardInv
<1>. QED BY InitBoardInv, NextBoardInv, PTL DEF Spec

\* Rows, edges, questions and the reconciler's list keep their types, and no
\* edge or question outlives its task.
THEOREM TypeCorrect == Spec => []TypeOK
<1>1. BoardInv => TypeOK
  BY DEF BoardInv, RowInv, TypeOK, Live
<1>. QED BY <1>1, BoardInvariant, PTL

\* A conversation holds a task only while it is in doing and assigned.
THEOREM SessionsHeld == Spec => []SessionHeldByOwner
<1>1. BoardInv => SessionHeldByOwner
  BY DEF BoardInv, RowInv, SessionHeldByOwner
<1>. QED BY <1>1, BoardInvariant, PTL

\* No closed task has an open question, whoever closed it.
THEOREM ClosedTasksAskNothing == Spec => []ClosedAsksNothing
<1>1. BoardInv => ClosedAsksNothing
  BY DEF BoardInv, ClosedAsksNothing
<1>. QED BY <1>1, BoardInvariant, PTL

\* actual_start and actual_end agree with the state.
THEOREM ClocksAgree == Spec => []ClocksMatchState
<1>1. BoardInv => ClocksMatchState
  <2>. SUFFICES ASSUME BoardInv, NEW t \in Live
                PROVE  CASE row[t].state = "todo"    -> ~ row[t].started /\ ~ row[t].ended
                         [] row[t].state = "doing"   -> row[t].started
                         [] row[t].state = "done"    -> row[t].started /\ row[t].ended
                         [] row[t].state = "wont_do" -> row[t].ended
    BY DEF ClocksMatchState
  <2>1. RowInv(row[t]) /\ row[t].state \in State
    BY DEF BoardInv, RowInv, Row
  <2>. QED BY <2>1 DEF RowInv, State
<1>. QED BY <1>1, BoardInvariant, PTL

-----------------------------------------------------------------------------
(* The dependency graph. *)

\* Adding an edge <<t, d>> keeps the graph acyclic when d does not lead to t.
\* The check leaves a set C with d in it and t outside that no edge leaves:
\* a cycle through C uses old edges only, and so does one that avoids C.
LEMMA NewEdgeKeepsAcyclic ==
  ASSUME NEW t \in Task, NEW d \in Task, ~ WouldCreateCycle(t, d), DepsAcyclic,
         deps' = deps \cup {<<t, d>>}
  PROVE  DepsAcyclic'
<1>1. PICK C \in SUBSET Task : /\ d \in C /\ t \notin C
                               /\ \A e \in deps : e[1] \in C => e[2] \in C
  BY DEF WouldCreateCycle, ReachableFrom
<1>2. SUFFICES ASSUME NEW S \in SUBSET Task, S # {},
                      \A x \in S : \E y \in S : <<x, y>> \in deps'
               PROVE  FALSE
  BY DEF DepsAcyclic
<1>3. ASSUME S \cap C # {} PROVE FALSE
  <2>1. ASSUME NEW x \in S \cap C PROVE \E y \in S \cap C : <<x, y>> \in deps
    <3>1. PICK y \in S : <<x, y>> \in deps'
      BY <1>2
    <3>2. <<x, y>> \in deps
      BY <3>1, <1>1
    <3>3. <<x, y>>[1] = x /\ <<x, y>>[2] = y
      OBVIOUS
    <3>. QED BY <3>2, <3>3, <1>1
  <2>. QED BY <1>3, <2>1 DEF DepsAcyclic
<1>4. ASSUME S \cap C = {} PROVE FALSE
  <2>1. ASSUME NEW x \in S PROVE \E y \in S : <<x, y>> \in deps
    BY <1>1, <1>2, <1>4
  <2>. QED BY <1>2, <2>1 DEF DepsAcyclic
<1>. QED BY <1>3, <1>4

\* The depends_on graph of the project never gets a cycle.
THEOREM DependenciesAcyclic == Spec => []DepsAcyclic
<1>1. Init => DepsAcyclic
  BY DEF Init, DepsAcyclic
<1>2. DepsAcyclic /\ [Next]_vars => DepsAcyclic'
  <2>. SUFFICES ASSUME DepsAcyclic, [Next]_vars PROVE DepsAcyclic'
    OBVIOUS
  <2>1. CASE \E t, d \in Task : AddDependency(t, d)
    BY <2>1, NewEdgeKeepsAcyclic DEF AddDependency
  <2>2. CASE deps' \subseteq deps
    BY <2>2 DEF DepsAcyclic
  <2>3. (\E t, d \in Task : AddDependency(t, d)) \/ deps' \subseteq deps
    BY DEF Next, vars, CreateSome, Create, ClaimNext, Claim, MoveSome, SetState,
           UpdateSome, Update, Delete, RemoveDependency, HoldSome, SetActiveSession,
           Ask, SettleQuestions, ReconcileScan, ReconcileClose, ReconcileFails, Restart
  <2>. QED BY <2>1, <2>2, <2>3
<1>. QED BY <1>1, <1>2, PTL DEF Spec

-----------------------------------------------------------------------------
(* The roll-up, as a least fixpoint: no lemma below unfolds the walk.      *)

\* A larger S lets more rows roll up.
LEMMA RollsUpMonotone ==
  ASSUME NEW table, NEW q, NEW S, NEW T, S \subseteq T, RollsUp(table, q, S)
  PROVE  RollsUp(table, q, T)
BY DEF RollsUp

\* The walk goes on as long as it may: the start and every parent of a closed
\* row that can roll up are closed too.
LEMMA RollUpGoesOn ==
  ASSUME NEW table, NEW p
  PROVE  /\ RollsUp(table, p, RollUp(table, p)) => p \in RollUp(table, p)
         /\ \A c \in RollUp(table, p) :
              RollsUp(table, table[c].parent, RollUp(table, p))
                => table[c].parent \in RollUp(table, p)
<1>. DEFINE L == RollUp(table, p)
            IsClosed(S) == /\ RollsUp(table, p, S) => p \in S
                           /\ \A c \in S : RollsUp(table, table[c].parent, S)
                                             => table[c].parent \in S
<1>1. L = {a \in DOMAIN table : \A S \in SUBSET DOMAIN table : IsClosed(S) => a \in S}
  BY DEF RollUp
<1>2. ASSUME NEW S \in SUBSET DOMAIN table, IsClosed(S) PROVE L \subseteq S
  BY <1>1, <1>2
<1>3. ASSUME RollsUp(table, p, L) PROVE p \in L
  <2>1. p \in DOMAIN table
    BY <1>3 DEF RollsUp
  <2>2. ASSUME NEW S \in SUBSET DOMAIN table, IsClosed(S) PROVE p \in S
    <3>1. L \subseteq S
      BY <1>2, <2>2
    <3>. HIDE DEF L
    <3>2. RollsUp(table, p, S)
      BY <1>3, <3>1, RollsUpMonotone
    <3>. QED BY <2>2, <3>2
  <2>. QED BY <1>1, <2>1, <2>2
<1>4. ASSUME NEW c \in L, RollsUp(table, table[c].parent, L) PROVE table[c].parent \in L
  <2>1. table[c].parent \in DOMAIN table
    BY <1>4 DEF RollsUp
  <2>2. ASSUME NEW S \in SUBSET DOMAIN table, IsClosed(S) PROVE table[c].parent \in S
    <3>1. L \subseteq S
      BY <1>2, <2>2
    <3>. HIDE DEF L
    <3>2. RollsUp(table, table[c].parent, S)
      BY <1>4, <3>1, RollsUpMonotone
    <3>. QED BY <1>4, <2>2, <3>1, <3>2
  <2>. QED BY <1>1, <2>1, <2>2
<1>. QED BY <1>3, <1>4

\* Every row it closes may be closed: no child stays open.
LEMMA RollUpSupported ==
  ASSUME NEW table, NEW p, NEW a \in RollUp(table, p)
  PROVE  RollsUp(table, a, RollUp(table, p))
<1>. DEFINE L == RollUp(table, p)
            S == L \ {a}
<1>1. SUFFICES ASSUME ~ RollsUp(table, a, L) PROVE FALSE
  OBVIOUS
<1>2. S \in SUBSET DOMAIN table /\ S \subseteq L
  BY RollUpInTable
<1>3. ASSUME RollsUp(table, p, S) PROVE p \in S
  <2>. HIDE DEF S, L
  <2>1. RollsUp(table, p, L)
    BY <1>2, <1>3, RollsUpMonotone
  <2>. QED BY <1>1, <2>1, RollUpGoesOn DEF L, S
<1>4. ASSUME NEW c \in S, RollsUp(table, table[c].parent, S) PROVE table[c].parent \in S
  <2>. HIDE DEF S, L
  <2>1. RollsUp(table, table[c].parent, L) /\ c \in L
    BY <1>2, <1>4, RollsUpMonotone
  <2>. QED BY <1>1, <2>1, RollUpGoesOn DEF L, S
<1>5. a \in S
  <2>. HIDE DEF S, L
  <2>. QED BY <1>2, <1>3, <1>4 DEF RollUp
<1>. QED BY <1>5

\* It closes the start and parents of rows, never a childless row on the way,
\* and nothing in a set D that has no start and takes its children along.
LEMMA RollUpStaysAbove ==
  ASSUME NEW table, NEW p, NEW D, p \notin D,
         \A c \in DOMAIN table : table[c].parent \in D => c \in D
  PROVE  RollUp(table, p) \cap D = {}
<1>. DEFINE S == DOMAIN table \ D
<1>1. RollsUp(table, p, S) => p \in S
  BY DEF RollsUp
<1>2. \A c \in S : RollsUp(table, table[c].parent, S) => table[c].parent \in S
  BY DEF RollsUp
<1>3. RollUp(table, p) \subseteq S
  <2>. HIDE DEF S
  <2>1. S \in SUBSET DOMAIN table
    BY DEF S
  <2>. QED BY <1>1, <1>2, <2>1 DEF RollUp
<1>. QED BY <1>3

\* What shutting a roll-up does to a table: (a) parents stay, shut rows are
\* done and the others as before; (b) a shut row has no open child left; (c) a
\* row that the walk reaches and that has no open child left is shut.
LEMMA ShutRollUp ==
  ASSUME NEW table, NEW p, \A x \in DOMAIN table : RowInv(table[x]),
         NEW L, L = RollUp(table, p),
         NEW T, T = Shut(table, L)
  PROVE  /\ DOMAIN T = DOMAIN table
         /\ \A x \in DOMAIN table : T[x].parent = table[x].parent
         /\ \A x \in L : x \in DOMAIN table /\ T[x].state = "done"
         /\ \A x \in DOMAIN table : x \notin L => T[x] = table[x]
         /\ \A x \in L, c \in DOMAIN table : table[c].parent = x => T[c].state \in Closed
         /\ \A q \in DOMAIN table :
              (/\ table[q].state # "done"
               /\ \A c \in DOMAIN table : table[c].parent = q => T[c].state \in Closed
               /\ q = p \/ \E c \in L : table[c].parent = q)
              => q \in L
<1>1. DOMAIN T = DOMAIN table /\ L \subseteq DOMAIN table
  BY ShutOK, RollUpInTable
<1>2. \A x \in DOMAIN table : x \notin L => T[x] = table[x]
  BY ShutOK
<1>3. \A x \in L : T[x] = SetTaskDone(table[x])
  BY <1>1 DEF Shut
<1>4. \A x \in L : T[x].state = "done" /\ T[x].parent = table[x].parent
  BY <1>1, <1>3 DEF SetTaskDone, RowInv, Row
<1>5. ASSUME NEW x \in L, NEW c \in DOMAIN table, table[c].parent = x
      PROVE  T[c].state \in Closed
  <2>1. RollsUp(table, x, L)
    BY RollUpSupported
  <2>. QED BY <1>2, <1>4, <1>5, <2>1 DEF RollsUp, Closed
<1>6. ASSUME NEW q \in DOMAIN table,
             table[q].state # "done",
             \A c \in DOMAIN table : table[c].parent = q => T[c].state \in Closed,
             q = p \/ \E c \in L : table[c].parent = q
      PROVE  q \in L
  <2>1. RollsUp(table, q, L)
    BY <1>2, <1>6 DEF RollsUp
  <2>. QED BY <1>6, <2>1, RollUpGoesOn
<1>. QED BY <1>1, <1>2, <1>4, <1>5, <1>6

-----------------------------------------------------------------------------
(* The task tree. *)

\* Parents exist and no set of tasks has all its parents inside.
Forest ==
  /\ \A x \in Live : row[x].parent \in Live \cup {NoTask}
  /\ \A S \in SUBSET Live : S # {} => \E x \in S : row[x].parent \notin S

\* A step that closes nothing: every row it leaves keeps its parent, and one
\* that is closed after the step had that state before.
Quiet == \A x \in Live \cap Live' :
           /\ row'[x].parent = row[x].parent
           /\ row'[x].state \in Closed => row'[x].state = row[x].state

\* Only set_state, close and the reconciler's visits close tasks.
LEMMA ClosingSteps ==
  ASSUME BoardInv, [Next]_vars
  PROVE  \/ Quiet
         \/ \E t \in Task, s \in Closed, u \in User : SetState(t, s, u)
         \/ \E f \in Task : ReconcileClose(f)
<1>1. CASE \E t \in Task, s \in State \ Closed, u \in User : SetState(t, s, u)
  <2>1. PICK t \in Task, s \in State \ Closed, u \in User : SetState(t, s, u)
    BY <1>1
  <2>2. t \in Live /\ row' = Shut([row EXCEPT ![t] = Moved(row[t], s, u)], {})
    BY <2>1 DEF SetState
  <2>3. /\ Moved(row[t], s, u).state = s
        /\ Moved(row[t], s, u).parent = row[t].parent
    BY <2>2 DEF State, Closed, Moved, SetTaskTodo, SetTaskDoing, AssignTaskIfUnassigned,
                BoardInv, RowInv, Row
  <2>4. Live' = Live /\ \A x \in Live : row'[x] = IF x = t THEN Moved(row[t], s, u) ELSE row[x]
    BY <2>2 DEF Shut, Live
  <2>. QED BY <2>3, <2>4 DEF Quiet
<1>2. CASE \E t \in Task, ty \in Type, p \in Task \cup {NoTask}, a \in User \cup {Nobody},
              claim \in BOOLEAN : Create(t, ty, p, a, claim)
  <2>1. \A x \in Live : row'[x] = row[x]
    BY <1>2 DEF Create, Live
  <2>. QED BY <2>1 DEF Quiet
<1>3. CASE \E t \in Task, u \in User : ClaimNext(t, u) \/ Claim(t, u)
  <2>1. PICK t \in Task, u \in User : t \in Live /\ row' = [row EXCEPT ![t] = ClaimTask(row[t], u)]
    BY <1>3 DEF ClaimNext, ClaimNextEligible, Claim
  <2>2. ClaimTask(row[t], u).state = "doing" /\ ClaimTask(row[t], u).parent = row[t].parent
    BY <2>1 DEF BoardInv, RowInv, Row, ClaimTask
  <2>. QED BY <2>1, <2>2 DEF Quiet, Live, Closed
<1>4. CASE \E t \in Task, ty \in Type, a \in User \cup {Nobody} : Update(t, ty, a)
  BY <1>4 DEF Update, Quiet, Live, BoardInv, RowInv, Row
<1>5. CASE \E t \in Task, s \in Session, u \in User : SetActiveSession(t, s, u)
  BY <1>5 DEF SetActiveSession, Quiet, Live, BoardInv, RowInv, Row
<1>6. CASE \E t \in Task : Delete(t)
  BY <1>6 DEF Delete, Quiet, Live
<1>7. CASE UNCHANGED row
  BY <1>7 DEF Quiet, Live
<1>8. UNCHANGED row \/ ~ \/ \E t, d \in Task : AddDependency(t, d)
                         \/ \E e \in deps : RemoveDependency(e)
                         \/ \E t \in Task : Ask(t) \/ SettleQuestions(t)
                         \/ ReconcileScan \/ Restart
                         \/ \E f \in Task : ReconcileFails(f)
                         \/ UNCHANGED vars
  BY DEF AddDependency, RemoveDependency, Ask, SettleQuestions, ReconcileScan, Restart,
         ReconcileFails, vars
<1>9. \A t \in Task, s \in State, u \in User : SetState(t, s, u) => s \in Closed \/ s \in State \ Closed
  OBVIOUS
<1>. QED BY <1>1, <1>2, <1>3, <1>4, <1>5, <1>6, <1>7, <1>8, <1>9
         DEF Next, CreateSome, MoveSome, UpdateSome, HoldSome

\* set_state to a closed state, taken apart: the moved table, the shut rows.
LEMMA SetStateTable ==
  ASSUME BoardInv, NEW t \in Task, NEW s \in Closed, NEW u \in User, SetState(t, s, u),
         NEW table, table = [row EXCEPT ![t] = Moved(row[t], s, u)]
  PROVE  /\ t \in Live /\ DOMAIN table = Live
         /\ row' = Shut(table, RollUp(table, row[t].parent))
         /\ \A x \in Live : RowInv(table[x]) /\ table[x].parent = row[x].parent
         /\ \A x \in Live : x # t => table[x] = row[x]
         /\ table[t].state = s
<1>1. t \in Live /\ row' = Shut(table, RollUp(table, row[t].parent)) /\ s \in State
  BY DEF SetState, Closed, State
<1>2. RowInv(Moved(row[t], s, u)) /\ Moved(row[t], s, u).state = s
  BY <1>1, MovedOK DEF BoardInv
<1>3. Moved(row[t], s, u).parent = row[t].parent
  BY <1>1 DEF Closed, Moved, SetTaskDone, SetTaskWontDo, AssignTaskIfUnassigned,
              BoardInv, RowInv, Row
<1>. QED BY <1>1, <1>2, <1>3 DEF BoardInv, Live

\* The tree stays a forest: rows get their parent at creation, from the rows
\* that exist, and keep it.
LEMMA ForestStep == BoardInv /\ Forest /\ [Next]_vars => Forest'
<1>. SUFFICES ASSUME BoardInv, Forest, [Next]_vars PROVE Forest'
  OBVIOUS
<1>1. ASSUME NEW t \in Task, NEW s \in Closed, NEW u \in User, SetState(t, s, u)
      PROVE  Live' = Live /\ \A x \in Live : row'[x].parent = row[x].parent
  <2>. DEFINE table == [row EXCEPT ![t] = Moved(row[t], s, u)]
              L     == RollUp(table, row[t].parent)
  <2>1. /\ DOMAIN table = Live /\ row' = Shut(table, L)
        /\ \A x \in Live : RowInv(table[x]) /\ table[x].parent = row[x].parent
    BY <1>1, SetStateTable
  <2>. HIDE DEF table, L
  <2>2. DOMAIN row' = DOMAIN table /\ \A x \in DOMAIN table : row'[x].parent = table[x].parent
    BY <2>1, ShutRollUp DEF L
  <2>. QED BY <2>1, <2>2 DEF Live
<1>2. ASSUME NEW f \in Task, ReconcileClose(f)
      PROVE  Live' = Live /\ \A x \in Live : row'[x].parent = row[x].parent
  <2>1. row' = Shut(row, RollUp(row, f)) /\ \A x \in DOMAIN row : RowInv(row[x])
    BY <1>2 DEF ReconcileClose, BoardInv, Live
  <2>2. DOMAIN row' = DOMAIN row /\ \A x \in DOMAIN row : row'[x].parent = row[x].parent
    BY <2>1, ShutRollUp
  <2>. QED BY <2>2 DEF Live
<1>3. ASSUME Live' = Live, \A x \in Live : row'[x].parent = row[x].parent PROVE Forest'
  BY <1>3 DEF Forest
<1>4. ASSUME Quiet, NEW t \in Task, NEW p \in Task \cup {NoTask},
             t \notin Live, p \in Live \cup {NoTask},
             Live' = Live \cup {t}, row'[t].parent = p
      PROVE  Forest'
  <2>1. p # t /\ t # NoTask /\ \A x \in Live : row'[x].parent = row[x].parent /\ row[x].parent # t
    BY <1>4, NullAssumption DEF Forest, Quiet
  <2>2. ASSUME NEW S \in SUBSET Live', S # {} PROVE \E x \in S : row'[x].parent \notin S
    <3>1. CASE S \subseteq {t}
      BY <1>4, <2>1, <2>2, <3>1
    <3>2. CASE S \ {t} # {}
      <4>1. PICK x \in S \ {t} : row[x].parent \notin S \ {t}
        BY <1>4, <3>2 DEF Forest
      <4>. QED BY <1>4, <2>1, <4>1
    <3>. QED BY <3>1, <3>2
  <2>3. \A x \in Live' : row'[x].parent \in Live' \cup {NoTask}
    BY <1>4, <2>1 DEF Forest
  <2>. QED BY <2>2, <2>3 DEF Forest
<1>5. ASSUME Quiet, NEW t \in Task, Delete(t) PROVE Forest'
  <2>1. Live' = Live \ Subtree(t) /\ \A x \in Live' : row'[x].parent = row[x].parent
    BY <1>5 DEF Delete, Live, Quiet
  <2>2. ASSUME NEW x \in Live, row[x].parent \in Subtree(t) PROVE x \in Subtree(t)
    BY <2>2 DEF Subtree
  <2>3. \A x \in Live' : row'[x].parent \in Live' \cup {NoTask}
    BY <2>1, <2>2 DEF Forest
  <2>. QED BY <2>1, <2>3 DEF Forest
<1>6. ASSUME Quiet PROVE Forest'
  <2>1. CASE Live' = Live
    BY <1>6, <1>3, <2>1 DEF Quiet
  <2>2. CASE \E t \in Task : Delete(t)
    BY <1>6, <1>5, <2>2
  <2>3. CASE \E t \in Task, ty \in Type, p \in Task \cup {NoTask}, a \in User \cup {Nobody},
                claim \in BOOLEAN : Create(t, ty, p, a, claim)
    <3>1. PICK t \in Task, ty \in Type, p \in Task \cup {NoTask}, a \in User \cup {Nobody},
               claim \in BOOLEAN : Create(t, ty, p, a, claim)
      BY <2>3
    <3>2. t \notin Live /\ p \in Live \cup {NoTask} /\ Live' = Live \cup {t}
      BY <3>1 DEF Create, Live
    <3>3. row'[t].parent = p
      BY <3>1 DEF Create, SetTaskDoing
    <3>. QED BY <1>4, <1>6, <3>2, <3>3
  <2>4. Live' = Live \/ (\E t \in Task : Delete(t)) \/ CreateSome
    BY DEF Next, vars, Live, ClaimNext, Claim, MoveSome, SetState, Shut,
           UpdateSome, Update, AddDependency, RemoveDependency, HoldSome, SetActiveSession,
           Ask, SettleQuestions, ReconcileScan, ReconcileClose, ReconcileFails, Restart
  <2>. QED BY <2>1, <2>2, <2>3, <2>4 DEF CreateSome
<1>. QED BY <1>1, <1>2, <1>3, <1>6, ClosingSteps

\* The task tree of every reachable board is a forest.
THEOREM TasksFormForest == Spec => []Forest
<1>1. Init => Forest
  BY DEF Init, Forest, Live
<1>. QED BY <1>1, ForestStep, BoardInvariant, PTL DEF Spec

-----------------------------------------------------------------------------
(* The action properties. *)

\* Only a visit takes one feature off the list and touches rows.
LEMMA VisitingSteps ==
  ASSUME BoardInv, [Next]_vars, NEW f \in Task, Visited(f), row' # row
  PROVE  ReconcileClose(f)
<1>1. f \in found /\ f \notin found' /\ UNCHANGED vars => FALSE
  BY DEF vars
<1>. QED
  BY <1>1 DEF Next, vars, Visited, CreateSome, Create, ClaimNext, Claim, MoveSome, SetState,
     UpdateSome, Update, Delete, AddDependency, RemoveDependency, HoldSome,
     SetActiveSession, Ask, SettleQuestions, ReconcileScan, ReconcileClose,
     ReconcileFails, Restart

\* The walk closes the row it starts from and rows above it, and nothing when
\* the row it starts from is done.
LEMMA RollUpGoesUp ==
  ASSUME NEW f, NEW a \in RollUp(row, f)
  PROVE  f \in Subtree(a) /\ row[f].state # "done"
<1>1. row[f].state # "done" /\ f \in Live
  <2>1. SUFFICES ASSUME ~ RollsUp(row, f, {}) PROVE FALSE
    BY DEF RollsUp, Live
  <2>2. {} \in SUBSET DOMAIN row
    OBVIOUS
  <2>. QED BY <2>1, <2>2 DEF RollUp
<1>2. f \in Subtree(a)
  <2>1. SUFFICES ASSUME NEW S \in SUBSET Live, a \in S,
                        \A c \in Live : row[c].parent \in S => c \in S
                 PROVE  f \in S
    BY <1>1 DEF Subtree
  <2>2. f \notin S => RollUp(row, f) \cap S = {}
    BY <2>1, RollUpStaysAbove DEF Live
  <2>. QED BY <2>1, <2>2
<1>. QED BY <1>1, <1>2

\* However old the list is, a visit finishes the visited feature and rows
\* above it only, and none of them over an open child.
THEOREM VisitsLookAfresh == Spec => VisitsFinishNothingOpen
<1>1. ASSUME BoardInv, [Next]_vars, NEW f \in Task, Visited(f),
             NEW a \in Live, row'[a] # row[a]
      PROVE  /\ f \in Subtree(a)
             /\ row[f].state # "done"
             /\ row'[a].state = "done"
             /\ OpenChildren(a)' = {}
  <2>. DEFINE L == RollUp(row, f)
  <2>1. row' = Shut(row, L)
    BY <1>1, VisitingSteps DEF ReconcileClose
  <2>2. \A x \in DOMAIN row : RowInv(row[x])
    BY <1>1 DEF BoardInv, Live
  <2>. HIDE DEF L
  <2>3. /\ Live' = Live
        /\ \A x \in Live : row'[x].parent = row[x].parent
        /\ \A x \in L : row'[x].state = "done"
        /\ \A x \in Live : x \notin L => row'[x] = row[x]
        /\ \A x \in L, c \in Live : row[c].parent = x => row'[c].state \in Closed
    BY <2>1, <2>2, ShutRollUp DEF L, Live
  <2>4. a \in L
    BY <1>1, <2>3
  <2>5. OpenChildren(a)' = {}
    BY <2>3, <2>4 DEF OpenChildren, Children
  <2>6. f \in Subtree(a) /\ row[f].state # "done"
    BY <2>4, RollUpGoesUp DEF L
  <2>. QED BY <2>3, <2>4, <2>5, <2>6
<1>2. BoardInv /\ [Next]_vars
        => [\A f \in Task : Visited(f) =>
              \A a \in Live : row'[a] # row[a] =>
                /\ f \in Subtree(a)
                /\ row[f].state # "done"
                /\ row'[a].state = "done"
                /\ OpenChildren(a)' = {}]_vars
  BY <1>1
<1>. QED BY <1>2, BoardInvariant, PTL DEF Spec, VisitsFinishNothingOpen

\* Whenever a task becomes done in the step that closes one of its children,
\* none of its children is open afterwards.
THEOREM RollUpWaitsForAll == Spec => RollUpNeverOverOpenWork
<1>1. ASSUME BoardInv, Forest, [Next]_vars, NEW p \in Task,
             Became(p, {"done"}), NEW c \in Children(p), Became(c, Closed)
      PROVE  OpenChildren(p)' = {}
  <2>1. ~ Quiet /\ p \in Live /\ c \in Live /\ row[c].parent = p /\ row'[p].state = "done"
        /\ row[p].state # "done" /\ row'[c] # row[c]
    BY <1>1 DEF Became, Quiet, Closed, Children
  <2>2. ASSUME NEW table, NEW q, DOMAIN table = Live,
               \A x \in Live : RowInv(table[x]) /\ table[x].parent = row[x].parent,
               row' = Shut(table, RollUp(table, q)), p \in RollUp(table, q)
        PROVE  OpenChildren(p)' = {}
    <3>. DEFINE L == RollUp(table, q)
    <3>. HIDE DEF L
    <3>1. /\ Live' = Live
          /\ \A x \in Live : row'[x].parent = row[x].parent
          /\ \A x \in Live : row[x].parent = p => row'[x].state \in Closed
      BY <2>2, ShutRollUp DEF L, Live
    <3>. QED BY <3>1 DEF OpenChildren, Children
  <2>3. ASSUME NEW t \in Task, NEW s \in Closed, NEW u \in User, SetState(t, s, u)
        PROVE  OpenChildren(p)' = {}
    <3>. DEFINE table == [row EXCEPT ![t] = Moved(row[t], s, u)]
                L     == RollUp(table, row[t].parent)
    <3>1. /\ t \in Live /\ DOMAIN table = Live /\ row' = Shut(table, L)
          /\ \A y \in Live : RowInv(table[y]) /\ table[y].parent = row[y].parent
          /\ \A y \in Live : y # t => table[y] = row[y]
      BY <2>3, <1>1, SetStateTable
    <3>. HIDE DEF table
    <3>2. CASE p \in L
      BY <2>2, <3>1, <3>2
    <3>3. CASE p \notin L
      \* The user moved p itself: the walk starts above p and cannot have
      \* closed the child.
      <4>1. \A x \in Live : x \notin L => row'[x] = table[x]
        <5>. HIDE DEF L
        <5>. QED BY <3>1, ShutOK
      <4>2. p = t /\ c # t
        <5>1. p = t
          BY <2>1, <3>1, <3>3, <4>1
        <5>2. \E x \in {p} : row[x].parent \notin {p}
          BY <1>1, <2>1 DEF Forest
        <5>. QED BY <2>1, <5>1, <5>2
      <4>3. c \in L
        BY <2>1, <3>1, <4>1, <4>2
      <4>. DEFINE D == Subtree(t)
      <4>4. c \in D /\ \A x \in Live : row[x].parent \in D => x \in D
        BY <2>1, <4>2 DEF Subtree
      <4>5. row[t].parent \notin D
        <5>1. SUFFICES ASSUME row[t].parent \in D PROVE FALSE
          OBVIOUS
        <5>2. D \subseteq Live /\ t \in D
          BY <3>1 DEF Subtree
        <5>3. ASSUME NEW x \in D PROVE row[x].parent \in D
          <6>1. SUFFICES ASSUME row[x].parent \notin D PROVE FALSE
            OBVIOUS
          <6>2. x # t
            BY <5>1, <6>1
          <6>3. ASSUME NEW y \in Live, row[y].parent \in D \ {x} PROVE y \in D \ {x}
            BY <4>4, <6>1, <6>3
          <6>4. t \in D \ {x} /\ D \ {x} \in SUBSET Live
            BY <5>2, <6>2
          <6>5. x \in D \ {x}
            BY <6>3, <6>4 DEF Subtree
          <6>. QED BY <6>5
        <5>. QED BY <5>2, <5>3, <1>1 DEF Forest
      <4>6. L \cap D = {}
        <5>. HIDE DEF D
        <5>. QED BY <3>1, <4>4, <4>5, RollUpStaysAbove
      <4>. QED BY <4>3, <4>4, <4>6
    <3>. QED BY <3>2, <3>3
  <2>4. ASSUME NEW f \in Task, ReconcileClose(f)
        PROVE  OpenChildren(p)' = {}
    <3>1. row' = Shut(row, RollUp(row, f)) /\ \A x \in Live : RowInv(row[x])
      BY <1>1, <2>4 DEF ReconcileClose, BoardInv
    <3>2. p \in RollUp(row, f)
      BY <2>1, <3>1, ShutOK DEF Live
    <3>. QED BY <2>2, <3>1, <3>2 DEF Live
  <2>. QED BY <1>1, <2>1, <2>3, <2>4, ClosingSteps
<1>2. BoardInv /\ Forest /\ [Next]_vars
        => [\A p \in Task :
              (Became(p, {"done"}) /\ \E c \in Children(p) : Became(c, Closed))
                => OpenChildren(p)' = {}]_vars
  BY <1>1
<1>. QED BY <1>2, BoardInvariant, TasksFormForest, PTL DEF Spec, RollUpNeverOverOpenWork

\* No step that closes the last open child of an open parent leaves the parent
\* open: the walk reaches it and finds nothing that holds it.
THEOREM NoParentStranded == Spec => CloseNeverStrandsParent
<1>1. ASSUME BoardInv, [Next]_vars, NEW p \in Task,
             p \in Live, ~ Finished(p), Finished(p)'
      PROVE  Children(p)' # Children(p) \/ row[p].state = "done"
  <2>1. SUFFICES ASSUME Children(p)' = Children(p), row[p].state # "done" PROVE FALSE
    OBVIOUS
  <2>2. PICK c \in Children(p) : row[c].state \notin Closed
    BY <1>1, <2>1 DEF Finished, OpenChildren
  <2>3. /\ p \in Live' /\ row'[p].state # "done"
        /\ \A x \in Children(p) : x \in Live /\ row[x].parent = p /\ row'[x].state \in Closed
    BY <1>1, <2>1 DEF Finished, OpenChildren, Children
  <2>4. ~ Quiet
    BY <2>1, <2>2, <2>3 DEF Quiet, Children
  <2>5. \A x \in Live : row[x].parent = p => x \in Children(p)
    BY DEF Children
  <2>6. ASSUME NEW table, NEW q, DOMAIN table = Live,
               \A x \in Live : RowInv(table[x]) /\ table[x].parent = row[x].parent,
               row' = Shut(table, RollUp(table, q)),
               q = p \/ table[c] = row[c]
        PROVE  FALSE
    <3>. DEFINE L == RollUp(table, q)
    <3>. HIDE DEF L
    <3>1. /\ \A x \in L : row'[x].state = "done"
          /\ \A x \in Live : x \notin L => row'[x] = table[x]
          /\ \A x \in Live :
               (/\ table[x].state # "done"
                /\ \A y \in Live : table[y].parent = x => row'[y].state \in Closed
                /\ x = q \/ \E y \in L : table[y].parent = x)
               => x \in L
      BY <2>6, ShutRollUp DEF L
    <3>2. p \notin L /\ table[p].state # "done"
      BY <1>1, <2>3, <3>1
    <3>3. p = q \/ c \in L
      BY <2>2, <2>3, <2>6, <3>1
    <3>4. \A y \in Live : table[y].parent = p => row'[y].state \in Closed
      BY <2>3, <2>5, <2>6
    <3>. QED BY <1>1, <2>3, <2>6, <3>1, <3>2, <3>3, <3>4
  <2>7. ASSUME NEW t \in Task, NEW s \in Closed, NEW u \in User, SetState(t, s, u)
        PROVE  FALSE
    <3>. DEFINE table == [row EXCEPT ![t] = Moved(row[t], s, u)]
    <3>1. /\ t \in Live /\ DOMAIN table = Live
          /\ row' = Shut(table, RollUp(table, row[t].parent))
          /\ \A y \in Live : RowInv(table[y]) /\ table[y].parent = row[y].parent
          /\ \A y \in Live : y # t => table[y] = row[y]
      BY <2>7, <1>1, SetStateTable
    <3>. HIDE DEF table
    <3>2. row[t].parent = p \/ table[c] = row[c]
      BY <2>3, <3>1
    <3>. QED BY <2>6, <3>1, <3>2
  <2>8. ASSUME NEW f \in Task, ReconcileClose(f) PROVE FALSE
    BY <1>1, <2>6, <2>8 DEF ReconcileClose, BoardInv, Live
  <2>. QED BY <1>1, <2>4, <2>7, <2>8, ClosingSteps
<1>2. BoardInv /\ [Next]_vars
        => [\A p \in Task :
              (p \in Live /\ ~ Finished(p) /\ Finished(p)')
                => (Children(p)' # Children(p) \/ row[p].state = "done")]_vars
  BY <1>1
<1>. QED BY <1>2, BoardInvariant, PTL DEF Spec, CloseNeverStrandsParent
=============================================================================
