# nottario in TLA+

nottario is a project tracker that people use in the browser and agents use
over MCP. One Go process serves both; all durable state is in PostgreSQL. These
modules model the parts where several actors work on the same rows at the same
time. They are translated from the Go code and the SQL queries it runs; where
the code leans on PostgreSQL (row locks, READ COMMITTED, foreign keys, deadlock
detection) the database is modelled from how the code uses it.

## The system

| Component | State | Operations | What is hard |
|---|---|---|---|
| Task board (`internal/tasks`) | `tasks`, `task_dependencies` | create, claim, claim_next, set_state, close, update, delete, add/remove dependency, roll-up of parents | transactions of many clients over one tree; lock orders; claims from a snapshot |
| Reconciler (`tasks/reconciler.go`) | a list in memory | scan, close one feature | works on a list read earlier; must get to every stuck feature |
| Questions (`internal/questions`) | `task_questions` | ask, answer, record, set_outcome, take, withdraw | races with closing the task; delivery to exactly one caller |
| Steps (`tasks/steps.go`) | `task_steps` | add, update, remove, move, start | start is several transactions |
| Cycles (`internal/cycles`) | `cycles`, `tasks.cycle_id` | end_cycle, create | two bulk updates, each with its own snapshot and a row trigger inside; create resolves the cycle before its transaction |
| Documents (`internal/docs`) | `documents`, `document_versions` | write, append, move, delete | optimistic versions; delete reads without a lock |
| Architecture (`internal/arch`) | nodes, edges, `arch_locks`, revisions | edit under a session, checkpoint, flush when idle | lock expiry against extension, take-over and the ticker |
| Realtime (`internal/realtime`, `web/static/realtime-core.js`) | subscribers, channels, browser connections | subscribe, publish, listen, stream; switch streams | full buffers, reconnects, make-before-break |
| Notifications (`internal/notifications`) | `notifications` | emit after a commit | failures are only logged |
| Agent sessions (`internal/agents`, `mcp/sessions.go`) | `agent_sessions`, `tasks.active_session_id` | touch, stamp on a task | recorded after the claim it belongs to |
| Identity, usage, backup, self-update | tables, files, a poller's state | single statements, background loops | little concurrency |
| MCP server, web API | none of their own | parse, check access, call the above | release is two transactions |

The packages call each other directly: the MCP and web layers call `tasks`,
`questions`, `docs` and `arch`; `questions.Ask` locks a task row; closing a task
withdraws its questions; triggers announce row changes with `pg_notify`, which
the hub turns into server-sent events.

What makes each one correct, in a sentence: the board keeps parents, children,
owners, clocks and preconditions in agreement whatever order calls commit in; a
claim has one winner; the dependency graph stays acyclic; a closed task asks
nothing; a document's versions have no gap and no lost update; an architecture
session has one author and every edit ends up in one revision; a subscriber
either gets an event or knows that it missed some.

## The modules

The modules form three groups. The board and its transactions stand alone;
`Context` is what agents read (documents and the architecture graph);
`Service` is the task side as the MCP tools and web handlers offer it.

| Module | What it is |
|---|---|
| `TaskBoard` | The board, one action per committed transaction, with the reconciler. |
| `TaskBoardDocs` | What comments in the code say of the board and the code does not do. |
| `MCTaskBoard` | Bounds and symmetry for TLC. |
| `TaskBoardProofs` | Theorems about `TaskBoard`. |
| `TaskTx` | The transactions of the board, statement by statement, with locks, deadlocks and rollbacks. |
| `MCTaskTx` | Tree shapes, bounds and symmetry for TLC. |
| `TaskTxBoard` | The commits of `TaskTx` as operations of `TaskBoard`. |
| `MCTaskTxBoard` | `TaskTxBoard` on the trees of `MCTaskTx`. |
| `TaskTxProofs` | Theorems about `TaskTx` and `TaskTxBoard`. |
| `Access` | Callers (cookie or project token) and the checks every handler makes first. |
| `DocLinks` | The link table that documents and the graph both write. |
| `Docs` | Documents and their versions: calls in steps, tools, handlers, signed URLs. |
| `DocumentLog` | What documents promise: a log of versions per document. |
| `DocsProofs` | Theorems about `Docs`. |
| `Arch` | The architecture graph: edits, edit sessions, checkpoints, the flush ticker. |
| `SessionLog` | What edit sessions promise: one author each, recorded once. |
| `ArchProofs` | Theorems about `Arch`. |
| `Context` | `Docs` and `Arch` side by side over their links. |
| `MCContext` | The parts TLC looks at, bounds and symmetry. |
| `ContextProofs` | Theorems about the composition. |
| `Steps` | Checklists over `TaskBoard`: every edit is lock-and-read, then write-and-commit. |
| `Questions` | Questions, answers, their delivery and the bell, over `Steps`. |
| `Mailbox` | What questions promise: a letter's reply reaches its sender once. |
| `Cycles` | Cycles, their end and the cascade trigger, over `Steps`. |
| `Service` | Tools and handlers over `Questions` and `Cycles`: requests of several transactions. |
| `MCService` | The parts TLC looks at, with the graph next to them, and bounds. |
| `ServiceProofs` | Theorems about `Service`: the board and the checklists. |
| `CyclesProofs` | Theorems about the cycles of `Service`. |
| `QuestionsProofs` | Theorems about its questions and its readers. |

### TaskBoard

`row` is the `tasks` table: type, state, parent, assignee, the conversation that
holds the task, and whether `actual_start` and `actual_end` are set. `deps` is
`task_dependencies`; `asking` holds the tasks with a question in state open;
`found` is what the reconciler's last query returned and it has not visited.
Types other than feature behave alike in the code and are one value here.

Each action is one call: `Create`, `ClaimNext`, `Claim`, `SetState` (also
`close`, which adds a comment and commits), `Update`, `Delete`,
`AddDependency`, `RemoveDependency`, `SetActiveSession`, `Ask`,
`SettleQuestions`. The operators below them have the names of the SQL queries.
`RollUp` says which ancestors the loop of `rollUpParentDoneTx` closes as a least
set; `SetState` closes them, and withdraws their questions, in the same step.
The reconciler is `ReconcileScan`, then one `ReconcileClose` per feature it
listed, which may fail (`ReconcileFails`) or be lost with the process
(`Restart`).

`claim_next` filters by role, assignee and cycle and orders by priority. The
model takes any eligible row, which is every choice some filter could make.

### TaskTx

Each connection (`Proc`) is idle or in a call, and runs the call's statements
one at a time: `tx[p]` has the next statement, the arguments, what was read and
will be relied on, and `draft`, the rows written and not committed. `upd` and
`shr` are the row locks. A statement reads committed rows and its own drafts
(`View`). What is modelled of PostgreSQL: `FOR UPDATE` excludes everyone, the
`FOR KEY SHARE` of a foreign key check excludes only `FOR UPDATE`, the
advisory lock is exclusive, locks go with the transaction, `SKIP LOCKED` passes
over held rows and looks again at a row that changed after the snapshot, and a
transaction in a cycle of waiters fails. Updates of non-key columns are treated
as `FOR UPDATE`; every row the code updates here it has already locked so, but
for the one `claim_next` picks.

### TaskTxBoard

How far is the board that callers see the atomic one of `TaskBoard`? Not quite:
preconditions and children are read without a lock on their rows, so one of
them can be reopened between the look and the commit, and no order of whole
calls explains the outcome (a task done over an open precondition, a feature
rolled up over a child that is open again). `TaskTxBoard` says how far. It keeps
two histories beside `TaskTx`, which change nothing in it: `board`, the table
with all columns of `TaskBoard` as the committed statements have written it,
and `late`, for each call the tasks that became open, or became somebody's
precondition, since it began. `InTheWay` is the open work that would have kept
a call from what it is about to commit; a call is `Overtaken` when there is any
and all of it came late. Then `CommitsAreBoardSteps`: every commit that is not
overtaken is exactly the operation of `TaskBoard` it stands for (`BoardStep`),
with the guards of that operation, the columns it writes, the least set of
ancestors it rolls up and the questions it withdraws, read in the state in which
it commits. What was open when the call came in is never passed over.

The comment at `repo.go:747` ("the precondition check below sees a stable view")
is true of the edges, which the row lock keeps (`CloseSawEveryPrecondition`),
and not of the states of the tasks they lead to.

### Docs

`doc` is `documents` (place, path, text, version, the deleted mark), `version`
is `document_versions`, `call` what each request is doing. A call begins in a
handler, which checks its caller and says where it points (`MayWrite`,
`resolveDocScope`); it then finds its row (`FindForWrite` ... with a row lock
but for delete) and in a later step writes, commits and returns, or fails. A
move to a new path of the graph's project has two steps more: the UPDATE that
repoints the links and the DELETE of what is left at the old path, each on what
is committed at its own moment (`renamed` and `dropped` hold the rows they took
until the commit). A request of the graph that wants one of these rows waits
(`LinksWait` of `Context`); one that adds another link to the old path does not. What PostgreSQL adds is modelled from how
the code leans on it: row locks last to the commit, the version key refuses a
number that is taken, and the key on (scope, project, path) does not bind rows
whose project is NULL. A signed URL is what was signed; verifying it is asking
whether it was handed out and has not expired.

### Arch

`node`, `edge`, `kind`, `link` are the graph; `lock` is the row of
`arch_locks`, `revision` the history. `withSession` begins every edit and sees
the lock row or none; `acquireOrExtendLock` gets it, or goes on to
`InsertLockRow`; both run the edit's own checks (`Accepted`); `WriteGraph`
writes and commits. `last_write_at` is stamped by that commit. `flushOnce` and
`flushOne` are the ticker, `Checkpoint` the tool. A snapshot is nodes and edges
(kinds and links, which it also holds, are left out). Seeding the kinds, a
count and an insert outside any session, is one step.

### Steps, Questions, Cycles, Service

`request[p]` is the one thing these modules share: which call a request is in,
what it has read, what comes next. `Steps` has the calls that lock a task's row
(`withTaskLocked`) and, in a second action, write and commit; `Becomes(p, ...)`
goes from one to the next. A call that locks waits for the row, so does
whatever would change or delete it (`BoardWaits`, `QuestionsWait`). A board
operation carries its cascades with it (`StepsFollow`, `QuestionsFollow`,
`CyclesFollow`: foreign keys, the sweep of a close, triggers). `Service` adds
who may call, and the requests that are more than one transaction: claim then
record the conversation (`FinishMark`), set_state todo then unassign
(`FinishRelease`), create after reading the active cycle (`FinishCreate`),
start_step's move to doing and then its start (`MoveToDoing`, `LockToStart`,
`FinishStartStep`), withdraw and then clear the bell (`ClearAsked`), ask and
then ring (`OnQuestionAsked`), take and then respond (`Respond`). Between any
two of them the request may stop (`Fail`). `asking` of `TaskBoard` is kept as
the set of tasks with an open question, which `TaskReadersAgree` checks against
the question table.

Ids of tasks, steps and questions are never reused while a request still holds
them, since the database's ids are never reused at all (`InUse`, `Referred`).
Ending a cycle is three steps. `BeginEndCycle` takes the cycle's row and the
snapshot of the first UPDATE, which lists the subtrees of open features;
`MovePartialFeatureSubtrees` gets the rows that are left of them and moves them
whatever has become of them since; `FinishEndCycle` is the second UPDATE, which
looks afresh, and the commit. What the first one moved is held meanwhile
(`RowHeld`) against everything but a foreign key (`KeyHeld`). An UPDATE visits
rows in any order and the trigger copies the parent's cycle as it is at that
moment, so `Restamps` is the set of outcomes. A create under way holds the cycle
it read (the active one, or its parent's) and waits for an end of that cycle at
the foreign key (`InsertTask`).

### The abstract specifications

`Docs` implements `DocumentLog` (`ImplementsLog`), `Arch` implements
`SessionLog` (`ImplementsSessionLog`), `Questions` implements `Mailbox`
(`ImplementsMailbox`), and `Service` implements `TaskBoard` under the identity
mapping (`ImplementsBoard`): that is why the first two can be read without
locks, the third without transactions and the fourth without tools.

## The runs

`expect pass`:

| Run | Instance | Shows |
|---|---|---|
| `board_safety` | 3 tasks, any forest, 1 user, 1 session; at most 3 of {edges, open questions, held tasks, moved or assigned tasks, listed features} at once, 1 listed feature | the invariants and action properties of `TaskBoard`; about 179,600 states |
| `board_live` | all boards of 2 tasks (nothing is cut off: the bound is never reached) | `StuckFeaturesClose` under the reconciler's fairness |
| `tx_tree` | 2 clients, a two-level tree of 3 tasks and a fourth that is created; set_state, create, reconciler | `SiblingsNeverMissParent`, `NoChildSlipsUnderRollUp` |
| `tx_hold` | 2 clients, 2 users, a feature and its child, at most 2 of {edges, open questions, moved or assigned tasks}; claims, set_state, ask, dependencies, reconciler; the histories of `TaskTxBoard` | `ClaimsNeverSteal`, `ClosedAsksNothing`, `CommitsAreBoardSteps`; about 1,010,000 states |
| `tx_graph` | 2 clients, 4 tasks, at most 3 edges and moved tasks; dependencies and closes | `DepsAcyclic`, `CloseSawEveryPrecondition` |
| `tx_returns` | 2 clients, a feature and its child; closes with comments, dependencies, claims, questions | `EveryCallReturns`, which needs the deadlock detector |
| `context` | 2 requests, 2 members (one the administrator), tokens of the project and the browser, 2 paths, 2 documents, 2 nodes, 1 kind, 2 tasks of which one is the project's; at most 3 versions, 3 writes and 2 sessions of the graph, 1 URL, 1 tick | everything stated of `Docs` and `Arch`, and both refinements; about 309,000 states |
| `service` | 2 requests, ann (administrator, in the browser and as an agent) and eve (in the browser), a conversation each, up to 3 tasks, 3 steps, 2 questions, 2 answers, 2 cycles, the graph with at most 2 writes | everything stated of `Steps`, `Questions`, `Cycles` and `Service`, the two refinements, and that an abandoned graph session ends; about 155,000 states |

Three tasks are the least on which a roll-up climbs twice, a parent has an open
and a closed child, and a cycle of dependencies is longer than a pair; four are
the least for two edges whose endpoints share no row to close a cycle together,
and for a second-level parent with a sibling. A state past a bound is still
checked; only its successors are not explored. Two connections are enough for
every race listed: each is between a reader and one writer. States that only
differ by the names of tasks, users or connections are explored once
(`SYMMETRY`), in runs without liveness.

In `tx_hold` the two tasks are each other's parent, child or precondition, so a
call is overtaken by a reopened child, by a reopened precondition and by a new
edge; with `Overtaken` replaced by FALSE `CommitsAreBoardSteps` fails at once.
That a roll-up of more than one level, and a create, are operations of the board
too is left to the theorem, which knows no bounds.

Clients may stop calling for ever, so no run checks for deadlock; that calls
return is what `EveryCallReturns` says.

#### Parts

`context` and `service` run several parts of the API, one per behaviour:
`focus` is chosen in the initial state and never changes, so that the state
spaces add up instead of multiplying. Everything stated is checked in every
part, and the proofs, which know no parts, cover what happens when all of them
run at once.

| Part | Who does what | Distinct states |
|---|---|---|
| `docs` | both requests: every tool and handler of the documents, by every caller, project and global; cancelled calls; at most 2 versions | 116,700 |
| `agent` | one agent on longer histories: write, append, delete, move; 3 versions | 19,200 |
| `urls` | one agent signs, uploads, downloads and moves while the clock ticks | 2,000 |
| `links` | one agent writes and moves documents that the other request links to a node | 120,900 |
| `tree` | two authors edit nodes and kinds; checkpoints, the idle threshold, the ticker, aborts | 39,500 |
| `edges` | one author: nodes, edges, links to documents and tasks, checkpoints | 10,500 |
| `steps` | an agent and a member add, move and remove steps of one checklist | 100 |
| `starts` | start_step, ticking and unticking while the task moves, closes or is deleted; failures | 24,000 |
| `answers` | a person answers and edits while the conversation records, takes and the task closes; failures | 7,300 |
| `bells` | asking, withdrawing, answering and reading the bell, on a task and on a step that is removed | 13,600 |
| `board` | claims, releases, creations with a claim, dependencies, questions, deletion, the reconciler; at most 3 of the things counted by `Load` | 29,000 |
| `cycles` | the end of a cycle, statement by statement, among creations, closes, reopenings, a deletion and a feature turned into a task; then another one | 80,000 |
| `graph` | two authors write, commit, fail and go away; the ticker | 700 |

A version bound of 3 gives a document that is created, replaced and restored,
or deleted and written again, while a second request still knows the first
version. Two sessions give one that another author's first edit flushes, and
one that the ticker does. Two cycles are enough because ending a cycle looks
only at the active one. Two requests of more than one call are the least that
interleave; a third one could add to a race only if no two of its members
conflicted, which no lock here allows, and the proofs hold for any number.
`steps` is small because most requests wait: one row lock serialises a
checklist, which is what `StepsInOrder` needs.

`expect violation`, each a statement of the repository the code does not keep:

| Run | Statement | What happens |
|---|---|---|
| `docs_terminal` | `tasks/repo.go:760` "the two cross-terminal transitions we never allow" | a parent is cancelled, its last open child is closed, and the roll-up turns the parent from wont_do into done |
| `docs_cancelled` | `tasks.sql:329` "a feature whose remaining children were all cancelled deliberately should roll up to done" | a feature set back to todo over a cancelled child is never listed by the reconciler, whose query counts only done children, and stays open |
| `doc_one_per_path` | `docs/repo.go:64` "creates a new document or updates an existing one keyed by (scope, project_id, path)" | two first writes of a global path both insert: NULL project ids never collide in the unique key |
| `doc_single_use` | `docs/upload.go:70` "the signed permission to write one document once" | a URL for a new document writes a second time once the document it created was moved away |

Other statements that the model contradicts, seen while it was written and not
run: `claims.go:108` ("Eligibility rules match ClaimNext": `Claim` also takes a
cancelled task); `tasks.sql:201` ("same eligibility filter as NextEligibleTask":
the preview counts a cancelled precondition as open); `tasks.sql:360` ("no task
can sit in doing with nobody on it": `tasks.update` with unset_assignee does
it); `repo.go:771` (a parent that is no feature is rolled up without a look at
its preconditions, and so is one that the reconciler's visit reaches);
`reconciler.go:12` (a listed feature whose children are gone
by the visit is closed with no child at all); `move.go:44` ("nothing that
referred to the document is left dangling": a link to the old path that another
request adds between the UPDATE and the DELETE is deleted with the rest, and one
that it adds after the DELETE stays, and dangles).

Of the modules around the board:

* `mcp/tools_tasks.go:584`: a release is set_state todo and then, in a second
  transaction, unset_assignee. A claim that commits in between loses its owner
  (and stays in doing with nobody on it).
* `steps.sql:72` ("One active step per session per task") and "A done step
  cannot be started": `UpdateStep` takes no lock on the task and
  `StartTaskStep` does not look at `done`, so a step ticked after start_step
  looked is done and started; unticked later, it is a second active step of its
  session.
* `start_step` reopens a task that was closed after its unlocked read.
* Two answers at the same time on one task each see the other question open,
  so neither clears the bell; an answer given before the bell row is written
  leaves a bell that nothing clears; the sweep of a close clears none.
* `end_cycle.go:39` ("carries its whole subtree (closed children included)",
  "every other open task moves"): the row trigger copies the cycle of a parent
  that may not have been visited yet, and an open child of a closed parent, or
  of one that is no feature, takes its parent's cycle. "Closed work (done or
  wont_do) stays in the closed cycle" (`:47`) is not so either: the first update
  moves what its snapshot listed, closed since or not; and a closed feature that
  is reopened before the second update moves, while its open child may be
  visited first and stays, against `:118`. `OpenWorkMovesOn` states what is left
  of the promise.
* `tasks/repo.go:112`: create reads the active cycle before its transaction, so
  an open top-level task can land in a cycle that has just ended, which the
  default lists do not show; and so can a child, whose trigger reads its
  parent's cycle before the foreign key waits for the end of that cycle.

### Fairness

`TaskBoard.Fairness`: `main.go` runs the reconciler for as long as the process
lives, on a ticker, so a scan is taken (weak fairness); a visit that becomes due
again and again does not fail, and is not pre-empted by a restart, every time
(strong fairness on `ReconcileClose`). Users and agents owe nothing.
`TaskTx.Fairness`: statements run and PostgreSQL grants locks in the order they
were asked for, so no statement is overtaken for ever (strong fairness, since a
lock may be free and taken again); the deadlock detector runs (weak fairness).
No call has to be made and none has to be cancelled.
`Arch.ArchFairness`: the clock goes on (weak fairness on `Age`), the ticker's
goroutine runs for as long as the process does (weak fairness on `flushOnce`),
and a flush that is taken up again and again does not fail every time (strong
fairness on `flushOne`). `AbandonedSessionEnds` needs no more: that requests
end is its premise, since an author may hold the lock row for as long as the
request lives.

## The theorems

Every theorem holds for any number of users, tasks, documents, nodes, requests
and so on. Assumed are only the `ASSUME`s of the modules: NULL values are not
ids (`NullAssumption` ...), ids of `TaskTx` are numbers as in the database and
its parents form a forest (`ForestAssumption`; `TasksFormForest` proves it of
every reachable board, and `TaskTx` takes the tree as given),
memberships are of users and projects, the number of steps a task may have is
positive, the default kinds are kinds. TLC evaluates each of them in a run.

`TaskBoardProofs` proves of `TaskBoard`, for every set of tasks, users and
sessions:

* `TypeCorrect`, `SessionsHeld`, `ClosedTasksAskNothing`, `ClocksAgree`: the
  invariants of `board_safety`, from one inductive invariant `BoardInv`. The
  properties are not inductive one by one: that questions leave with a roll-up
  needs the table to be well formed, and what a row may hold in one state
  depends on all its columns, so `BoardInv` states it row by row.
* `DependenciesAcyclic`: a new edge is refused when its end reaches its start.
  Were there a set in which every task waits for another one of it, the new edge
  would be in it and the rest would lead back along it.
* `TasksFormForest`: no set of tasks in which each has its parent; a new task
  has no child yet and parents never change.
* `VisitsLookAfresh`, `RollUpWaitsForAll`, `NoParentStranded`: the action
  properties. A visit acts on a list of any age, so the first one rests on
  nothing that was true at the scan. `RollUp` is a least set, so each row in it is there because
  it had no child outside the set that held it open; that the walk is a
  chain, and ends, comes from the forest.

`TaskTxProofs` proves every safety property of `TaskTx`, for any number of
clients, tasks and users:

* `LocksKeepTheirPromise` is the inductive invariant `IInv`. For each client it
  says which rows the client holds at which statement, and that what it read
  under those locks is still so: its open question's task is open, the
  preconditions its close saw are all there are, its new edge closes no cycle,
  the row it creates is nobody else's and it shares the parent. A property of a
  commit is true because of what was read some statements before, so without
  these facts none of the properties is inductive. Each statement of the client
  has one lemma; a step of another client is dealt with once (`OthersKeep`): it
  writes only rows that the other client holds.
* `TypeCorrect` (no run checks its `TypeOK`, the other properties of the runs
  rest on it), `ClosedTasksAskNothing`, `ClosesSeeTheirPreconditions`,
  `DependenciesAcyclic`, `ClaimsKeepOwners` and `RollUpsMissNoChild` follow. That
  a claim finds its task still in todo (or cancelled) when it commits needs the
  row lock it took in the statement that looked.
* `WalksHoldTheirParents` adds the roll-up: every parent a walk has passed is
  held, and is done in what the client will commit or has an open child there.
  The open child stays open because whoever closes it holds the parent too, so
  the invariant of one client is needed for that of the other. `SiblingsClose`
  is the consequence: whichever of two siblings commits last has counted after
  the other one committed.
* `BoardIsRecorded` is the invariant of the histories, `TrackedInv`: the board
  has the rows of `TaskTx` (`BoardAgrees`), and for each call (`Tracked`) what
  it has drafted is what its operation would write now (`PlanInv`), the rows it
  has rolled up are one chain of parents from its start to where it stands
  (`ClimbInv`), and what speaks against the commit came late (`LateInv`).
  `TaskBoard` closes the least set of
  ancestors and `TaskTx` walks: `RollUpIsWalk` shows by the forest that the
  chain, once it has stopped, is that set. `LateInv` is about the open tasks
  among what was looked at, so that a commit by another client, which may open
  one of them, adds it to `late` in the same step.
* `CommitsImplementBoard` follows: what is in the way came late
  (`LateWorkOvertakes`), and without it there is one lemma per operation
  (`ClaimCommits`, `CloseCommits`, `VisitCommits`, ...).

`DocsProofs` proves every property of `Docs`:

* `DocsInvariant` is the inductive invariant `DocsInv`. Of the tables: versions
  are numbered from 1 without a gap, up to the one the row shows, with the same
  text (`Numbered`). Of each call past its look (`Holds`): the number it read is
  not larger than the row's, and if the next number is free then what it read is
  still what the row holds. The second half is the heart of optimistic
  concurrency: a delete holds no lock, and all it can rely on when it commits is
  that the version key did not refuse it. A call that does hold the lock knows
  that nobody moved the row on, hence `LocksSuffice`.
* `OneDocument`, `WritesStayHome`, `DocsWellFormed`, `ReadingIsConsistent`,
  `NoUpdateIsLost` follow, and `DocumentsImplementLog`:
  each commit is `Extend` of one document, everything else a stutter.

`ArchProofs` proves every safety property of `Arch`:

* `ArchInvariant` is `ArchInv`: the graph is sound, at most one request is past
  its check (`OneWriter`), and what it was checked for is still so when it
  writes (`WriterStillRight`). A write is checked in one statement and made in
  another, so that the graph stays a forest is not inductive without the second,
  which is not without the first.
* `GraphIsSound`, `NodesAreReached`, `AuthorsOwn`, `SessionsEnd`,
  `HistoryIsLive` follow, and `SessionsImplementLog`: a step of the session log
  for each commit, checkpoint and flush.

`ContextProofs` composes them. Each side's step is dealt with in its own
module; what is new is that the other side changes links under it. A move of a
document renames targets and drops the rest (`Relink`), which leaves links on
nodes that exist. A move under way knows something of the links: the rows its
UPDATE and its DELETE took are still there and none of the nodes it repoints
links the new path yet (`MovesHold`), since a write of the graph that would
touch them waits and no two moves have a path in common (`KeysClaimed`).
`ContextInvariant` is both invariants and this; `BothKeepTheirRules` has the
links that follow a move from it.

`ServiceProofs`:

* `ServiceInvariant` is `ServiceInv`: the board's invariant, checklists numbered
  from 0 (`StepsOK`), and for each request in a transaction what it read, which
  is still so because it has the row (`Fits`) and nobody else has (`OneHolder`).
* `BoardImplemented` and `ServiceIsABoard`: each step of a tool, a handler or
  the reconciler is one operation of `TaskBoard` or leaves it alone. The steps
  of a request rest on what its earlier ones read: that a question lands only on
  an open task is true because asking holds the row in between.
* `BoardPromisesHold`: hence all that `TaskBoardProofs` proves is true of the
  service, with no further proof.
* `ChecklistsInOrder`, `StepsStartInDoing`: no edit of a checklist loses or
  repeats a position, and start_step starts a step only in doing although its
  first look is without a lock.

`CyclesProofs` first takes the steps of the service apart by what they do around
the board (`AllKinds`): a board operation with its cascades, a checklist edit
that keeps to itself, the removal of a step, a create, the end of a cycle, or a
call about questions.

* `CyclesInvariant` is `CyclesInv`: every task is in a cycle that exists, and a
  create under way holds one that exists. It may not be the active one any
  more, since it was read before the transaction; it still exists, as cycles
  are never removed. At most one request is ending a cycle (`OneEnding`), and
  what its first update moved goes on fitting the board while others commit
  (`MovedFits`): rows that were moved are held, and parents never change.
* `CyclesEndClean`: what the first update visits it moves, unless the trigger
  still finds the parent in the old cycle; then the task is still there, and if
  it is open its parent is in the new one when the second update visits it
  (`TwoUpdates`). That nothing moves ahead of its parent needs no snapshot: the
  trigger only hands down what the parent has.

`QuestionsProofs`:

* `QuestionsInvariant` is `QuestionsInv`. Of the tables: what is delivered is
  answered, nothing is given to a conversation before that, and the board's
  `asking` is the tasks with an open question. Of the requests: those that
  answer, take or hand over concern different questions (`Apart`), and what each
  read of them is still so (`Holds`), because whoever else would change them
  waits for their rows. A response still on its way is the only one with its
  answers; that it is given once is not inductive without this.
* `QuestionsAreMail`: hence each commit is a step of `Mailbox`. A board
  operation either closes tasks and drops their open questions, or deletes tasks
  and removes theirs, never both (`Shrinks`), so it is one step as well.
* `OpenQuestionsKeepRinging`: the bells an answer is to clear are read when its
  row is locked, and no other question among them is open (`Mute`). That stays
  so, because an id that is still listed is not given to a new question.
* `TablesWellFormed` and `ReadersAgree` put the three invariants and the task
  forest together.

Left to TLC: liveness (`StuckFeaturesClose`, `EveryCallReturns`,
`AbandonedSessionEnds`), and what a recursive query computes (the model states
reachability, subtrees and the roll-up as least sets rather than by recursion,
which is what makes them provable).

## Not modelled

* Realtime (`internal/realtime`, the browser's multiplexer): events only tell
  clients to read again; nothing durable depends on one. Its hazards (a full
  buffer, a reconnecting listener, a stream announced before it subscribes) are
  listed in PROJECT.json without a property.
* Notifications other than those of questions, and preferences.
* Text and its time stamps: an edit of a task's text is accepted on the
  `updated_at` its editor saw; comments, commits, related tasks, roles and
  priorities.
* Identity: users, memberships and tokens are given and do not change;
  administration is single statements. The session table of agents is an
  upsert; conversations are given.
* `flushOne`'s wait for a held lock row (it takes the row up when it is free),
  and ages past the threshold.
* Search ranks, patterns and ranges of readers; names, labels, positions and
  kinds of edges; rendering, parsing, login, the live page, backup, usage
  counters, the self-update poller, Markdown, the documentation site. They keep
  no state that another part relies on.
