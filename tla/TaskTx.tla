-------------------------------- MODULE TaskTx --------------------------------
(***************************************************************************)
(* The transactions behind TaskBoard, statement by statement.  The board   *)
(* lives in PostgreSQL at READ COMMITTED: every statement reads what is    *)
(* committed when it starts, with the transaction's own writes on top, and *)
(* a row lock is kept to the end of the transaction.  A client's call is a *)
(* process that runs one of set_state / close, claim, claim_next, create,  *)
(* add_dependency, questions.ask or a visit of the reconciler; calls of    *)
(* different clients interleave between statements, wait for each other's  *)
(* locks, deadlock, and are rolled back.                                   *)
(*                                                                         *)
(* The shape of the tree and the task types are parameters here, and       *)
(* deleting, updating and handing over tasks are left to TaskBoard.        *)
(***************************************************************************)
EXTENDS Integers, FiniteSets

CONSTANTS
  Task,       \* task ids: numbers, for LockTwoTaskRows orders its locks by id
  User,
  Proc,       \* connections that run a call
  Parent,     \* [Task -> Task \cup {NoTask}]
  Feature,    \* the tasks of type feature
  Present,    \* the tasks that exist at the start
  Ops,        \* the calls clients make in this instance
  Moves,      \* the states they move tasks to
  Nobody,
  NoTask

ASSUME IdsAssumption ==
  /\ Task \subseteq Nat
  /\ NoTask \notin Task
  /\ Nobody \notin User
  /\ Parent \in [Task -> Task \cup {NoTask}]
  /\ Feature \subseteq Task
  /\ Present \subseteq Task
  /\ Moves \subseteq {"todo", "doing", "done", "wont_do"}
  /\ \A t \in Present : Parent[t] \in Present \cup {NoTask}

\* Parents form a forest, as they do on every board (TasksFormForest).
ASSUME ForestAssumption ==
  \A S \in SUBSET Task : S # {} => \E t \in S : Parent[t] \notin S

State  == {"todo", "doing", "done", "wont_do"}
Closed == {"done", "wont_do"}
Row    == [state : State, assignee : User \cup {Nobody}]

VARIABLES
  row,      \* the committed tasks table
  deps,     \* committed edges <<task, depends_on>>
  asking,   \* tasks with a committed open question
  tx,       \* what each connection is doing
  upd,      \* who holds a row FOR UPDATE
  shr       \* who holds a row FOR KEY SHARE (a foreign key points at it)

vars == <<row, deps, asking, tx, upd, shr>>

Nothing == [x \in {} |-> NoTask]

(* A connection: the statement it runs next (pc), the call and its         *)
(* arguments, the row of the parent chain it stands at, the candidates     *)
(* claim_next saw, the preconditions a close saw, the rows written and not *)
(* yet committed.                                                          *)
Idle == [pc |-> "idle", op |-> "none", t |-> NoTask, s |-> "todo", u |-> Nobody,
         at |-> NoTask, cand |-> {}, seen |-> {}, draft |-> Nothing]

Live == DOMAIN row

\* What a statement of p reads.
View(p) == [x \in Live \cup DOMAIN tx[p].draft |->
              IF x \in DOMAIN tx[p].draft THEN tx[p].draft[x] ELSE row[x]]

OpenChildren(table, t) == {c \in DOMAIN table : Parent[c] = t /\ table[c].state \notin Closed}
Preconditions(t)       == {d \in Live : <<t, d>> \in deps}
Unresolved(t)          == {d \in Preconditions(t) : row[d].state \notin Closed}

ReachableFrom(d) ==
  {x \in Task : \A S \in SUBSET Task :
     (d \in S /\ \A e \in deps : e[1] \in S => e[2] \in S) => x \in S}

-----------------------------------------------------------------------------
(* Locks. *)

FreeFor(p, t)      == upd[t] \cup shr[t] \subseteq {p}     \* FOR UPDATE is granted
ShareableFor(p, t) == upd[t] \subseteq {p}                 \* FOR KEY SHARE is granted

HoldsGraph(p) == tx[p].op = "dep" /\ tx[p].pc \in {"low", "high", "check", "commit"}

Low(p)  == IF tx[p].t < tx[p].at THEN tx[p].t ELSE tx[p].at
High(p) == IF tx[p].t < tx[p].at THEN tx[p].at ELSE tx[p].t

\* The connections p's next statement waits for.
WaitsFor(p) ==
  LET holders(t) == (upd[t] \cup shr[t]) \ {p} IN
  CASE tx[p].pc = "lock"    -> holders(tx[p].t)
    [] tx[p].pc = "climb"   -> holders(tx[p].at)
    [] tx[p].pc = "low"     -> holders(Low(p))
    [] tx[p].pc = "high"    -> holders(High(p))
    [] tx[p].pc = "comment" -> upd[tx[p].t] \ {p}
    [] tx[p].pc = "insert" /\ Parent[tx[p].t] # NoTask -> upd[Parent[tx[p].t]] \ {p}
    [] tx[p].pc = "graph"   -> {q \in Proc : HoldsGraph(q)}
    [] OTHER -> {}

\* p waits, through others, for itself.
Deadlocked(p) ==
  \A S \in SUBSET Proc :
    (WaitsFor(p) \subseteq S /\ \A q \in S : WaitsFor(q) \subseteq S) => p \in S

Release(p) ==
  /\ upd' = [t \in Task |-> upd[t] \ {p}]
  /\ shr' = [t \in Task |-> shr[t] \ {p}]

TakeUpdate(p, t) == upd' = [upd EXCEPT ![t] = {p}] /\ UNCHANGED shr
TakeShare(p, t)  == shr' = [shr EXCEPT ![t] = @ \cup {p}] /\ UNCHANGED upd

\* The transaction ends without a trace.
Rollback(p) ==
  /\ tx' = [tx EXCEPT ![p] = Idle]
  /\ Release(p)
  /\ UNCHANGED <<row, deps, asking>>

\* p goes on to its next statement with nothing committed.
Goto(p, r) == tx' = [tx EXCEPT ![p] = r] /\ UNCHANGED <<row, deps, asking>>

Write(draft, t, r) == [x \in DOMAIN draft \cup {t} |-> IF x = t THEN r ELSE draft[x]]

-----------------------------------------------------------------------------
Init ==
  /\ row = [t \in Present |-> [state |-> "todo", assignee |-> Nobody]]
  /\ deps = {}
  /\ asking = {}
  /\ tx = [p \in Proc |-> Idle]
  /\ upd = [t \in Task |-> {}]
  /\ shr = [t \in Task |-> {}]

(* A client calls. *)
Call(p, op, pc, t, s, u, at) ==
  /\ op \in Ops
  /\ tx[p] = Idle
  /\ Goto(p, [Idle EXCEPT !.op = op, !.pc = pc, !.t = t, !.s = s, !.u = u, !.at = at])
  /\ UNCHANGED <<upd, shr>>

CallSetState(p, t, s, u) == t \in Live /\ Call(p, "set", "lock", t, s, u, NoTask)
CallClose(p, t, s, u)    == t \in Live /\ Call(p, "close", "comment", t, s, u, NoTask)
CallClaim(p, t, u)       == t \in Live /\ Call(p, "claim", "lock", t, "doing", u, NoTask)
CallClaimNext(p, u)      == Call(p, "next", "select", NoTask, "doing", u, NoTask)
CallAsk(p, t)            == t \in Live /\ Call(p, "ask", "lock", t, "todo", Nobody, NoTask)
CallAddDep(p, t, d)      == t # d /\ {t, d} \subseteq Live /\ Call(p, "dep", "graph", t, "todo", Nobody, d)

CallCreate(p, t) ==
  /\ t \notin Live /\ \A q \in Proc : tx[q].t # t
  /\ Parent[t] \in Live \cup {NoTask}
  /\ Call(p, "create", "insert", t, "todo", Nobody, NoTask)

\* The reconciler visits a feature that its scan listed.
Visit(p, f) ==
  /\ f \in Live \cap Feature
  /\ row[f].state # "done"
  /\ \E c \in Live : Parent[c] = f
  /\ \A c \in Live : Parent[c] = f => row[c].state = "done"
  /\ Call(p, "visit", "climb", f, "done", Nobody, f)

-----------------------------------------------------------------------------
(* The statements. *)

\* tasks.close writes its comment first; the foreign key shares the task row.
InsertComment(p) ==
  /\ tx[p].pc = "comment"
  /\ ShareableFor(p, tx[p].t)
  /\ TakeShare(p, tx[p].t)
  /\ Goto(p, [tx[p] EXCEPT !.pc = "lock"])

LockTaskUnlocked(p) ==   \* mutant: the task is read without FOR UPDATE
  /\ tx[p].pc = "lock"
  /\ Goto(p, [tx[p] EXCEPT !.pc = "act"])
  /\ UNCHANGED <<upd, shr>>

LockTask(p) ==
  /\ tx[p].pc = "lock"
  /\ FreeFor(p, tx[p].t)
  /\ TakeUpdate(p, tx[p].t)
  /\ Goto(p, [tx[p] EXCEPT !.pc = "act"])

\* Where a closed row sends the transaction: up its parent chain.
Upward(t) == IF Parent[t] = NoTask THEN "commit" ELSE "climb"

MovedTo(r, s, u) ==
  [state |-> s, assignee |-> IF s # "todo" /\ r.assignee = Nobody THEN u ELSE r.assignee]

RefusesTurnsOnly(t, s) ==   \* mutant: the preconditions are not asked
  \/ row[t].state = "done" /\ s = "wont_do"
  \/ row[t].state = "wont_do" /\ s = "done"

SetStateRefuses(t, s) ==
  \/ row[t].state = "done" /\ s = "wont_do"
  \/ row[t].state = "wont_do" /\ s = "done"
  \/ s = "done" /\ t \notin Feature /\ Unresolved(t) # {}

\* setStateTx on the locked row.
MoveTask(p) ==
  LET t == tx[p].t
      s == tx[p].s IN
  /\ tx[p].pc = "act" /\ tx[p].op \in {"set", "close"}
  /\ IF SetStateRefuses(t, s)
     THEN Rollback(p)
     ELSE /\ Goto(p, [tx[p] EXCEPT !.pc = IF s \in Closed THEN Upward(t) ELSE "commit",
                                   !.at = IF s \in Closed THEN Parent[t] ELSE NoTask,
                                   !.seen = Preconditions(t),
                                   !.draft = Write(@, t, MovedTo(row[t], s, tx[p].u))])
          /\ UNCHANGED <<upd, shr>>

\* rollUpParentDoneTx: lock the parent, then count its open children in a
\* statement of its own.
LockParentUnlocked(p) ==     \* mutant: reads the parent without FOR UPDATE
  /\ tx[p].pc = "climb"
  /\ Goto(p, [tx[p] EXCEPT !.pc = IF View(p)[tx[p].at].state = "done" THEN "commit" ELSE "count"])
  /\ UNCHANGED <<upd, shr>>

LockParent(p) ==
  /\ tx[p].pc = "climb"
  /\ FreeFor(p, tx[p].at)
  /\ TakeUpdate(p, tx[p].at)
  /\ Goto(p, [tx[p] EXCEPT !.pc = IF View(p)[tx[p].at].state = "done" THEN "commit" ELSE "count"])

CountChildren(p) ==
  LET q == tx[p].at IN
  /\ tx[p].pc = "count"
  /\ Goto(p, IF OpenChildren(View(p), q) # {}
             THEN [tx[p] EXCEPT !.pc = "commit"]
             ELSE [tx[p] EXCEPT !.pc = Upward(q), !.at = Parent[q],
                                !.draft = Write(@, q, [View(p)[q] EXCEPT !.state = "done"])])
  /\ UNCHANGED <<upd, shr>>

\* Claim looks at the locked row; done and doing end the call without a write.
ClaimTask(p) ==
  LET t == tx[p].t
      u == tx[p].u IN
  /\ tx[p].pc = "act" /\ tx[p].op = "claim"
  /\ IF \/ row[t].state \in {"done", "doing"}
        \/ row[t].assignee \notin {Nobody, u}
        \/ t \in Feature /\ OpenChildren(row, t) # {}
        \/ Unresolved(t) # {}
     THEN Rollback(p)
     ELSE /\ Goto(p, [tx[p] EXCEPT !.pc = "commit",
                                   !.draft = Write(@, t, [state |-> "doing", assignee |-> u])])
          /\ UNCHANGED <<upd, shr>>

\* claim_next is one statement.  It takes its snapshot ...
SelectCandidates(p) ==
  /\ tx[p].pc = "select"
  /\ Goto(p, [tx[p] EXCEPT !.pc = "pick",
                           !.cand = {t \in Live : /\ row[t].state = "todo"
                                                  /\ t \in Feature => OpenChildren(row, t) = {}
                                                  /\ Unresolved(t) = {}}])
  /\ UNCHANGED <<upd, shr>>

\* ... and takes a candidate nobody holds; a row that changed since the
\* snapshot has its state looked at again.
PickableUnchecked(p) ==   \* mutant: the row is taken as the snapshot saw it
  {t \in tx[p].cand : FreeFor(p, t)}

Pickable(p) == {t \in tx[p].cand : FreeFor(p, t) /\ row[t].state = "todo"}

PickCandidate(p) ==
  /\ tx[p].pc = "pick"
  /\ IF Pickable(p) = {}
     THEN Rollback(p)
     ELSE \E t \in Pickable(p) :
            /\ TakeUpdate(p, t)
            /\ Goto(p, [tx[p] EXCEPT !.pc = "commit", !.t = t, !.cand = {},
                                     !.draft = Write(@, t, [state |-> "doing", assignee |-> tx[p].u])])

\* questions.ask, with the task row locked.
AskUnchecked(p) ==   \* mutant: the state is not looked at under the lock
  /\ tx[p].pc = "act" /\ tx[p].op = "ask"
  /\ Goto(p, [tx[p] EXCEPT !.pc = "commit"]) /\ UNCHANGED <<upd, shr>>

AskQuestion(p) ==
  /\ tx[p].pc = "act" /\ tx[p].op = "ask"
  /\ IF row[tx[p].t].state \in Closed
     THEN Rollback(p)
     ELSE Goto(p, [tx[p] EXCEPT !.pc = "commit"]) /\ UNCHANGED <<upd, shr>>

InsertUnshared(p) ==   \* mutant: the parent is not a foreign key
  /\ tx[p].pc = "insert"
  /\ Goto(p, [tx[p] EXCEPT !.pc = "commit",
                           !.draft = Write(@, tx[p].t, [state |-> "todo", assignee |-> Nobody])])
  /\ UNCHANGED <<upd, shr>>

\* The foreign key of a new row shares its parent's row.
InsertTask(p) ==
  LET t == tx[p].t IN
  /\ tx[p].pc = "insert"
  /\ IF Parent[t] = NoTask
     THEN UNCHANGED <<upd, shr>>
     ELSE ShareableFor(p, Parent[t]) /\ TakeShare(p, Parent[t])
  /\ Goto(p, [tx[p] EXCEPT !.pc = "commit",
                           !.draft = Write(@, t, [state |-> "todo", assignee |-> Nobody])])

\* add_dependency: the project's advisory lock, both rows in id order, the
\* cycle check.
LockNoGraph(p) ==    \* mutant: without the project's lock
  /\ tx[p].pc = "graph"
  /\ Goto(p, [tx[p] EXCEPT !.pc = "low"])
  /\ UNCHANGED <<upd, shr>>

LockGraph(p) ==
  /\ tx[p].pc = "graph"
  /\ \A q \in Proc : ~ HoldsGraph(q)
  /\ Goto(p, [tx[p] EXCEPT !.pc = "low"])
  /\ UNCHANGED <<upd, shr>>

SkipLowRow(p) ==     \* mutant: the endpoints are not locked
  /\ tx[p].pc = "low"
  /\ Goto(p, [tx[p] EXCEPT !.pc = "check"])
  /\ UNCHANGED <<upd, shr>>

LockLowRow(p) ==
  /\ tx[p].pc = "low"
  /\ FreeFor(p, Low(p))
  /\ TakeUpdate(p, Low(p))
  /\ Goto(p, [tx[p] EXCEPT !.pc = "high"])

LockHighRow(p) ==
  /\ tx[p].pc = "high"
  /\ FreeFor(p, High(p))
  /\ TakeUpdate(p, High(p))
  /\ Goto(p, [tx[p] EXCEPT !.pc = "check"])

CheckCycle(p) ==
  /\ tx[p].pc = "check"
  /\ IF tx[p].t \in ReachableFrom(tx[p].at)
     THEN Rollback(p)
     ELSE Goto(p, [tx[p] EXCEPT !.pc = "commit"]) /\ UNCHANGED <<upd, shr>>

\* The writes become visible at once: the drafted rows, the edge or question,
\* and the questions that the closed rows withdrew.
Commit(p) ==
  LET shut == {x \in DOMAIN tx[p].draft : tx[p].draft[x].state \in Closed} IN
  /\ tx[p].pc = "commit"
  /\ row' = View(p)
  /\ deps' = IF tx[p].op = "dep" THEN deps \cup {<<tx[p].t, tx[p].at>>} ELSE deps
  /\ asking' = (asking \ shut) \cup (IF tx[p].op = "ask" THEN {tx[p].t} ELSE {})
  /\ tx' = [tx EXCEPT ![p] = Idle]
  /\ Release(p)

-----------------------------------------------------------------------------
\* remove_dependency is one statement and takes no task lock.
RemoveDependency(e) ==
  /\ "undep" \in Ops
  /\ e \in deps
  /\ deps' = deps \ {e}
  /\ UNCHANGED <<row, asking, tx, upd, shr>>

NeverDetected(p) == FALSE /\ UNCHANGED vars   \* mutant: no deadlock detector

\* The database breaks a deadlock by failing one of its transactions.
BreakDeadlock(p) == Deadlocked(p) /\ Rollback(p)

\* The request goes away, or a statement fails.
Cancel(p) == tx[p] # Idle /\ Rollback(p)

Work(p) ==
  \/ InsertComment(p) \/ LockTask(p) \/ MoveTask(p)
  \/ LockParent(p) \/ CountChildren(p)
  \/ ClaimTask(p) \/ SelectCandidates(p) \/ PickCandidate(p)
  \/ AskQuestion(p) \/ InsertTask(p)
  \/ LockGraph(p) \/ LockLowRow(p) \/ LockHighRow(p) \/ CheckCycle(p)

Statement(p) == Work(p) \/ Commit(p)

SomeCall(p) ==
  \/ \E t \in Task, s \in Moves, u \in User : CallSetState(p, t, s, u)
  \/ \E t \in Task, s \in Moves \cap Closed, u \in User : CallClose(p, t, s, u)
  \/ \E t \in Task, u \in User : CallClaim(p, t, u)
  \/ \E u \in User : CallClaimNext(p, u)
  \/ \E t \in Task : CallAsk(p, t)
  \/ \E t, d \in Task : CallAddDep(p, t, d)
  \/ \E t \in Task : CallCreate(p, t)
  \/ \E f \in Task : Visit(p, f)

Next ==
  \/ \E p \in Proc : SomeCall(p)
  \/ \E p \in Proc : Statement(p)
  \/ \E p \in Proc : BreakDeadlock(p)
  \/ \E p \in Proc : Cancel(p)
  \/ \E e \in deps : RemoveDependency(e)

Spec == Init /\ [][Next]_vars

(* Statements run, locks are granted in the order they were asked for, so  *)
(* a waiting statement is not overtaken for ever, and the database looks   *)
(* for deadlocks.  Nobody has to call or to cancel.                        *)
Fairness == \A p \in Proc : SF_vars(Statement(p)) /\ WF_vars(BreakDeadlock(p))

FairSpec == Spec /\ Fairness

-----------------------------------------------------------------------------
(* Properties. *)

\* Rows, edges, locks and drafts are well formed; a row has one FOR UPDATE
\* holder and then no other FOR KEY SHARE holder; a drafted row is locked or
\* not there yet.
TypeOK ==
  /\ Live \subseteq Task /\ row \in [Live -> Row]
  /\ deps \subseteq Live \X Live /\ asking \subseteq Live
  /\ \A t \in Task : upd[t] # {} => Cardinality(upd[t]) = 1 /\ shr[t] \subseteq upd[t]
  /\ \A p \in Proc, t \in Task :
       t \in DOMAIN tx[p].draft => tx[p].draft[t] \in Row /\ (t \in Live => upd[t] = {p})

Finished(p) == /\ p \in Live /\ row[p].state # "done"
               /\ \E c \in Live : Parent[c] = p
               /\ OpenChildren(row, p) = {}

\* Two siblings that close at the same time never both miss their parent: an
\* open parent whose last open child closes closes in that very commit.
SiblingsNeverMissParent ==
  [][\A p \in Task :
       (p \in Live /\ ~ Finished(p) /\ Finished(p)') => row[p].state = "done"]_vars

\* No question slips in after the sweep of a close, or of a roll-up.
ClosedAsksNothing == \A t \in asking : row[t].state \notin Closed

\* The states a claim of the kind op finds its task in.
ClaimableFrom(op) == IF op = "next" THEN {"todo"} ELSE {"todo", "wont_do"}

\* A claim takes a task nobody works on.  What is in doing with an owner keeps
\* that owner; and the task a claim looked at before it waited, or saw in its
\* snapshot, is in the commit's state still waiting in todo, or cancelled when
\* it was named by its id: work that somebody else closed or began meanwhile
\* is not taken up again.
ClaimsNeverSteal ==
  [][/\ \A t \in Live :
          (row[t].state = "doing" /\ row'[t].state = "doing" /\ row[t].assignee # Nobody)
            => row'[t].assignee = row[t].assignee
     /\ \A p \in Proc :
          (tx[p].op \in {"claim", "next"} /\ tx[p].pc = "commit" /\ tx'[p] = Idle)
            => row[tx[p].t].state \in ClaimableFrom(tx[p].op)]_vars

\* Between a close's precondition check and its commit no precondition is
\* added that the check has not seen.
CloseSawEveryPrecondition ==
  \A p \in Proc :
    (tx[p].op \in {"set", "close"} /\ tx[p].pc \notin {"comment", "lock", "act"} /\ tx[p].s = "done")
      => Preconditions(tx[p].t) \subseteq tx[p].seen

\* Edges added at the same time never close a cycle that neither check saw.
DepsAcyclic ==
  \A S \in SUBSET Task : S # {} =>
    \E t \in S : \A d \in S : <<t, d>> \notin deps

\* The rows a transaction has rolled up and not committed yet.
RolledUp(p) ==
  {q \in DOMAIN tx[p].draft :
     tx[p].op = "visit" \/ (tx[p].op \in {"set", "close"} /\ q # tx[p].t)}

\* Between the count that finds a parent finished and the commit that closes
\* it, the parent gets no child that the count has not seen.
NoChildSlipsUnderRollUp ==
  [][\A p \in Proc : \A q \in RolledUp(p) :
       {c \in Live' : Parent[c] = q} \subseteq Live]_vars

\* Every call returns, with its effect or with an error.
EveryCallReturns == \A p \in Proc : tx[p] # Idle ~> tx[p] = Idle
=============================================================================
