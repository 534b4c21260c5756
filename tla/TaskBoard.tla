------------------------------ MODULE TaskBoard ------------------------------
(***************************************************************************)
(* The task board of one project (internal/tasks): the lifecycle of a      *)
(* task, who holds it, the feature roll-up, the dependency graph and the   *)
(* questions that closing a task withdraws.                                *)
(*                                                                         *)
(* One action is one committed database transaction.  Every operation of   *)
(* the package locks the task row it moves before it reads it, so this is  *)
(* the granularity at which callers see the board.  TaskTx opens the       *)
(* transactions up and interleaves their statements; TaskTxBoard says what *)
(* is left of it: a commit is one action here unless other work was        *)
(* reopened between its look at that work and its commit.                  *)
(*                                                                         *)
(* Titles, comments, commits, steps, roles and the priority order are left *)
(* out: no operation below branches on them except claim_next, whose       *)
(* filters and ordering are abstracted to "any eligible row may come       *)
(* first".  Time stamps are kept as set / not set.                         *)
(***************************************************************************)
EXTENDS Integers, FiniteSets

CONSTANTS
  Task,       \* the ids a task row can have
  User,       \* members of the project
  Session,    \* agent conversations
  Nobody,     \* NULL in assignee_user_id
  NoTask,     \* NULL in parent_task_id
  NoSession   \* NULL in active_session_id

ASSUME NullAssumption ==
  /\ Nobody \notin User
  /\ NoTask \notin Task
  /\ NoSession \notin Session

State  == {"todo", "doing", "done", "wont_do"}
Closed == {"done", "wont_do"}
Type   == {"task", "feature"}     \* bug, chore and spike behave like task

VARIABLES
  row,      \* the tasks table: a function on the ids that exist
  deps,     \* task_dependencies, as pairs <<task, depends_on>>
  asking,   \* the tasks that have a question in state open
  found     \* features the reconciler's last scan listed and it has not visited

vars == <<row, deps, asking, found>>

Row == [type     : Type,
        state    : State,
        parent   : Task \cup {NoTask},
        assignee : User \cup {Nobody},
        session  : Session \cup {NoSession},
        started  : BOOLEAN,     \* actual_start IS NOT NULL
        ended    : BOOLEAN]     \* actual_end IS NOT NULL

Live == DOMAIN row

-----------------------------------------------------------------------------
(* What the queries read. *)

Children(t)     == {c \in Live : row[c].parent = t}
OpenChildren(t) == {c \in Children(t) : row[c].state \notin Closed}
Unresolved(t)   == {d \in Live : <<t, d>> \in deps /\ row[d].state \notin Closed}

\* The tasks a depends_on chain leads to from d, d included: the least set
\* that holds d and is closed under the edges.
ReachableFrom(d) ==
  {x \in Task : \A S \in SUBSET Task :
     (d \in S /\ \A e \in deps : e[1] \in S => e[2] \in S) => x \in S}

WouldCreatePair(t, d) == <<d, t>> \in deps    \* mutant: sees cycles of two only

WouldCreateCycle(t, d) == t \in ReachableFrom(d)

\* What deleting t takes with it: t and everything below it.
Subtree(t) ==
  {x \in Live : \A S \in SUBSET Live :
     (t \in S /\ \A c \in Live : row[c].parent \in S => c \in S) => x \in S}

-----------------------------------------------------------------------------
(* What the updates write into one row. *)

ResetState(r)    == [r EXCEPT !.state = "todo", !.session = NoSession]  \* mutant: keeps the clocks
Release(r)       == [r EXCEPT !.state = "todo", !.started = FALSE, !.ended = FALSE]
                    \* mutant: keeps the conversation

SetTaskTodo(r)   == [r EXCEPT !.state = "todo", !.session = NoSession,
                              !.started = FALSE, !.ended = FALSE]
SetTaskDoing(r)  == [r EXCEPT !.state = "doing", !.started = TRUE, !.ended = FALSE]
SetTaskDone(r)   == [r EXCEPT !.state = "done", !.session = NoSession,
                              !.started = TRUE, !.ended = TRUE]
SetTaskWontDo(r) == [r EXCEPT !.state = "wont_do", !.session = NoSession, !.ended = TRUE]
ClaimTask(r, u)  == [r EXCEPT !.assignee = u, !.state = "doing", !.started = TRUE]

AssignTaskIfUnassigned(r, u) == IF r.assignee = Nobody THEN [r EXCEPT !.assignee = u] ELSE r

\* A row after actor u moves it to s.
Moved(r, s, u) ==
  CASE s = "todo"    -> SetTaskTodo(r)
    [] s = "doing"   -> AssignTaskIfUnassigned(SetTaskDoing(r), u)
    [] s = "done"    -> AssignTaskIfUnassigned(SetTaskDone(r), u)
    [] s = "wont_do" -> AssignTaskIfUnassigned(SetTaskWontDo(r), u)

RollsUpUnchecked(table, q, S) ==   \* mutant: does not count the open children
  q \in DOMAIN table /\ table[q].state # "done"

RollsUpDoneOnly(table, q, S) ==    \* mutant: a cancelled child counts as open
  /\ q \in DOMAIN table
  /\ table[q].state # "done"
  /\ \A c \in DOMAIN table :
       table[c].parent = q => table[c].state = "done" \/ c \in S

\* The roll-up does not stop at q: q exists, is not done yet, and no child
\* outside S holds it open.
RollsUp(table, q, S) ==
  /\ q \in DOMAIN table
  /\ table[q].state # "done"
  /\ \A c \in DOMAIN table :
       table[c].parent = q => table[c].state \in Closed \/ c \in S

\* The rows rollUpParentDoneTx closes when its walk starts at p: the least
\* set with p and, above each member, the parent that rolls up in turn.
RollUp(table, p) ==
  {a \in DOMAIN table : \A S \in SUBSET DOMAIN table :
     (/\ RollsUp(table, p, S) => p \in S
      /\ \A c \in S : RollsUp(table, table[c].parent, S) => table[c].parent \in S)
     => a \in S}

\* The table once the rows in S are done.
Shut(table, S) == [q \in DOMAIN table |-> IF q \in S THEN SetTaskDone(table[q]) ELSE table[q]]

-----------------------------------------------------------------------------
Init ==
  /\ row = [t \in {} |-> NoTask]
  /\ deps = {}
  /\ asking = {}
  /\ found = {}

(* tasks.create: a new row under p, assigned to a.  With claim the creator *)
(* is the assignee and the row is in doing before anyone can see it.       *)
Create(t, ty, p, a, claim) ==
  /\ t \in Task \ (Live \cup found)
  /\ p \in Live \cup {NoTask}
  /\ claim => a \in User
  /\ LET new == [type |-> ty, state |-> "todo", parent |-> p, assignee |-> a,
                 session |-> NoSession, started |-> FALSE, ended |-> FALSE]
     IN  row' = [x \in Live \cup {t} |->
                   IF x # t THEN row[x] ELSE IF claim THEN SetTaskDoing(new) ELSE new]
  /\ UNCHANGED <<deps, asking, found>>

\* The row filter tasks.next previews with ...
NextEligible(t) ==
  /\ t \in Live
  /\ row[t].state = "todo"
  /\ row[t].type = "feature" => OpenChildren(t) = {}
  /\ \A d \in Live : <<t, d>> \in deps => row[d].state = "done"

\* ... and the one tasks.claim_next takes a task with.
ClaimNextEligible(t) ==
  /\ t \in Live
  /\ row[t].state = "todo"
  /\ row[t].type = "feature" => OpenChildren(t) = {}
  /\ Unresolved(t) = {}

ClaimNext(t, u) ==
  /\ ClaimNextEligible(t)
  /\ row' = [row EXCEPT ![t] = ClaimTask(@, u)]
  /\ UNCHANGED <<deps, asking, found>>

(* tasks.claim by id.  A done task and one in doing are answered without a *)
(* write; the two other states fall through to the checks.                 *)
Claim(t, u) ==
  /\ t \in Live
  /\ row[t].state \notin {"done", "doing"}
  /\ row[t].assignee \in {Nobody, u}
  /\ row[t].type = "feature" => OpenChildren(t) = {}
  /\ Unresolved(t) = {}
  /\ row' = [row EXCEPT ![t] = ClaimTask(@, u)]
  /\ UNCHANGED <<deps, asking, found>>

\* What setStateTx refuses: a shipped task turned into a cancelled one or the
\* other way round, and work done over open preconditions.
MayMove(t, s) ==
  /\ ~ (row[t].state = "done" /\ s = "wont_do")
  /\ ~ (row[t].state = "wont_do" /\ s = "done")
  /\ (s = "done" /\ row[t].type # "feature") => Unresolved(t) = {}

(* tasks.set_state and tasks.close by user u: the transition, the owner it *)
(* may give the task, the questions closing withdraws and the roll-up of   *)
(* the ancestors, in one transaction.                                      *)
SetState(t, s, u) ==
  /\ t \in Live
  /\ MayMove(t, s)
  /\ LET moved == [row EXCEPT ![t] = Moved(@, s, u)]
         shut  == IF s \in Closed THEN RollUp(moved, row[t].parent) ELSE {}
     IN  /\ row' = Shut(moved, shut)
         /\ asking' = asking \ (shut \cup (IF s \in Closed THEN {t} ELSE {}))
  /\ UNCHANGED <<deps, found>>

(* tasks.update: the type and the assignee (Nobody for unset_assignee).    *)
(* Handing the task to someone else ends the conversation that held it.    *)
Update(t, ty, a) ==
  /\ t \in Live
  /\ row' = [row EXCEPT ![t].type = ty,
                         ![t].assignee = a,
                         ![t].session = IF a = row[t].assignee THEN @ ELSE NoSession]
  /\ UNCHANGED <<deps, asking, found>>

DeleteLeavesEdges(t) ==   \* mutant: edges to a deleted task stay
  /\ t \in Live
  /\ LET gone == Subtree(t)
     IN  /\ row' = [x \in Live \ gone |-> row[x]]
         /\ deps' = {e \in deps : e[1] \notin gone}
         /\ asking' = asking \ gone
  /\ UNCHANGED found

(* tasks.delete: the foreign keys take the subtree, its edges and its      *)
(* questions along.                                                        *)
Delete(t) ==
  /\ t \in Live
  /\ LET gone == Subtree(t)
     IN  /\ row' = [x \in Live \ gone |-> row[x]]
         /\ deps' = {e \in deps : e[1] \notin gone /\ e[2] \notin gone}
         /\ asking' = asking \ gone
  /\ UNCHANGED found

AddDependency(t, d) ==
  /\ t \in Live /\ d \in Live
  /\ t # d
  /\ ~ WouldCreateCycle(t, d)
  /\ deps' = deps \cup {<<t, d>>}
  /\ UNCHANGED <<row, asking, found>>

RemoveDependency(e) ==
  /\ e \in deps
  /\ deps' = deps \ {e}
  /\ UNCHANGED <<row, asking, found>>

(* Only the assignee of a task in doing can put its conversation on it.    *)
SetActiveSession(t, s, u) ==
  /\ t \in Live
  /\ row[t].state = "doing" /\ row[t].assignee = u
  /\ row' = [row EXCEPT ![t].session = s]
  /\ UNCHANGED <<deps, asking, found>>

Ask(t) ==
  /\ t \in Live
  /\ row[t].state \notin Closed
  /\ asking' = asking \cup {t}
  /\ UNCHANGED <<row, deps, found>>

\* The last open question of t is answered, recorded or withdrawn.
SettleQuestions(t) ==
  /\ t \in asking
  /\ asking' = asking \ {t}
  /\ UNCHANGED <<row, deps, found>>

(* The reconciler: one query lists the stuck features, then each is closed *)
(* in a transaction of its own that looks at the rows afresh.              *)
Stuck(f) ==
  /\ f \in Live
  /\ row[f].type = "feature"
  /\ row[f].state # "done"
  /\ Children(f) # {}
  /\ \A c \in Children(f) : row[c].state = "done"

ScanTodoOnly ==   \* mutant: a feature in doing or cancelled is not listed
  /\ found = {}
  /\ found' = {f \in Live : Stuck(f) /\ row[f].state = "todo"}
  /\ UNCHANGED <<row, deps, asking>>

ReconcileScan ==
  /\ found = {}
  /\ found' = {f \in Live : Stuck(f)}
  /\ UNCHANGED <<row, deps, asking>>

CloseWithoutSweep(f) ==   \* mutant: the roll-up withdraws no question
  /\ f \in found
  /\ found' = found \ {f}
  /\ row' = Shut(row, RollUp(row, f))
  /\ UNCHANGED <<deps, asking>>

CloseAsListed(f) ==   \* mutant: trusts the list and looks at no child
  /\ f \in found
  /\ found' = found \ {f}
  /\ row' = Shut(row, {f})
  /\ asking' = asking \ {f}
  /\ UNCHANGED deps

ReconcileClose(f) ==
  /\ f \in found
  /\ found' = found \ {f}
  /\ row' = Shut(row, RollUp(row, f))
  /\ asking' = asking \ RollUp(row, f)
  /\ UNCHANGED deps

\* The closing transaction fails: it is logged and the feature waits for the
\* next scan.
ReconcileFails(f) ==
  /\ f \in found
  /\ found' = found \ {f}
  /\ UNCHANGED <<row, deps, asking>>

\* The process restarts; its list was in memory.
Restart ==
  /\ found # {}
  /\ found' = {}
  /\ UNCHANGED <<row, deps, asking>>

CreateSome == \E t \in Task, ty \in Type, p \in Task \cup {NoTask},
                 a \in User \cup {Nobody}, claim \in BOOLEAN : Create(t, ty, p, a, claim)
MoveSome   == \E t \in Task, s \in State, u \in User : SetState(t, s, u)
UpdateSome == \E t \in Task, ty \in Type, a \in User \cup {Nobody} : Update(t, ty, a)
HoldSome   == \E t \in Task, s \in Session, u \in User : SetActiveSession(t, s, u)

Next ==
  \/ CreateSome
  \/ \E t \in Task, u \in User : ClaimNext(t, u)
  \/ \E t \in Task, u \in User : Claim(t, u)
  \/ MoveSome
  \/ UpdateSome
  \/ \E t \in Task : Delete(t)
  \/ \E t, d \in Task : AddDependency(t, d)
  \/ \E e \in deps : RemoveDependency(e)
  \/ HoldSome
  \/ \E t \in Task : Ask(t)
  \/ \E t \in Task : SettleQuestions(t)
  \/ ReconcileScan
  \/ \E f \in Task : ReconcileClose(f)
  \/ \E f \in Task : ReconcileFails(f)
  \/ Restart

Spec == Init /\ [][Next]_vars

(* main.go runs the reconciler for as long as the process lives: it scans  *)
(* again and again and visits every feature a scan listed.  A visit that   *)
(* comes round again and again does not fail for ever, and the process     *)
(* does not restart before it every time.  Users and agents owe nothing.   *)
Fairness ==
  /\ WF_vars(ReconcileScan)
  /\ \A f \in Task : SF_vars(ReconcileClose(f))

FairSpec == Spec /\ Fairness

-----------------------------------------------------------------------------
(* Properties. *)

\* Every row is well formed, and no edge or open question outlives its task
\* (the cascades of Delete).
TypeOK ==
  /\ Live \subseteq Task
  /\ row \in [Live -> Row]
  /\ deps \subseteq Live \X Live
  /\ asking \subseteq Live
  /\ found \subseteq Task

\* A conversation is shown on a task only while the task is in doing and
\* somebody is assigned: closing, reopening and handing over all end it.
SessionHeldByOwner ==
  \A t \in Live : row[t].session # NoSession =>
    row[t].state = "doing" /\ row[t].assignee # Nobody

\* A closed task waits for nobody: its open questions went with the close,
\* also when the roll-up or the reconciler closed it.
ClosedAsksNothing == \A t \in asking : row[t].state \notin Closed

\* No set of tasks in which each one waits for another one of the set, which
\* is what a cycle of depends_on edges would be.
DepsAcyclic ==
  \A S \in SUBSET Task : S # {} =>
    \E t \in S : \A d \in S : <<t, d>> \notin deps

\* The time stamps tell the state's story: a todo has no start and no end,
\* work in doing has started, what is done has both, what was cancelled ended.
ClocksMatchState ==
  \A t \in Live :
    CASE row[t].state = "todo"    -> ~ row[t].started /\ ~ row[t].ended
      [] row[t].state = "doing"   -> row[t].started
      [] row[t].state = "done"    -> row[t].started /\ row[t].ended
      [] row[t].state = "wont_do" -> row[t].ended

Became(t, S) == t \in Live /\ t \in Live' /\ row[t].state \notin S /\ row'[t].state \in S

Visited(t) == t \in found /\ t \notin found'

\* A visit of the reconciler works on an id that was listed a while ago: its
\* children may have been reopened, moved away or deleted since, and others
\* added.  Whatever happened, the visit writes nothing but done, to the listed
\* feature when that is not done already and from there to its ancestors, and
\* leaves none of them over an open child.  (A feature without children left
\* is closed too, and so is one that was cancelled.)
VisitsFinishNothingOpen ==
  [][\A f \in Task : Visited(f) =>
       \A a \in Live : row'[a] # row[a] =>
         /\ f \in Subtree(a)
         /\ row[f].state # "done"
         /\ row'[a].state = "done"
         /\ OpenChildren(a)' = {}]_vars

\* A task that becomes done along with one of its children has no open child
\* left: the roll-up never closes a parent over unfinished work.
RollUpNeverOverOpenWork ==
  [][\A p \in Task :
       (Became(p, {"done"}) /\ \E c \in Children(p) : Became(c, Closed))
         => OpenChildren(p)' = {}]_vars

Finished(p) == p \in Live /\ row[p].state # "done" /\ Children(p) # {} /\ OpenChildren(p) = {}

\* Closing the last open child never leaves the parent behind, at any height:
\* a parent is open over closed children only after its set of children
\* changed or the parent itself was done and somebody reopened it.
CloseNeverStrandsParent ==
  [][\A p \in Task :
       (p \in Live /\ ~ Finished(p) /\ Finished(p)')
         => (Children(p)' # Children(p) \/ row[p].state = "done")]_vars

\* The reconciler does its work: a feature whose children are all done does
\* not stay open.
StuckFeaturesClose == \A f \in Task : Stuck(f) ~> ~ Stuck(f)
=============================================================================
