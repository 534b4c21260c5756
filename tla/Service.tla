-------------------------------- MODULE Service --------------------------------
(***************************************************************************)
(* The task side of the product as its clients see it: the MCP tools       *)
(* (internal/mcp) and the web handlers (internal/web) of one project over  *)
(* the board, the checklists, the questions and the cycles, next to the    *)
(* reconciler of the same process.                                         *)
(*                                                                         *)
(* A handler checks its caller and makes one or more calls, each a         *)
(* transaction of its own; request[p] says which come next.  It may fail   *)
(* or be cancelled between any two of them (GiveUp).  What a call does to  *)
(* the board is an action of TaskBoard; its cascades reach the steps, the  *)
(* questions and the cycles in the same transaction.                       *)
(***************************************************************************)
EXTENDS Questions, Cycles

CONSTANTS
  Admin, Project, Member, Web, NoProject,   \* see Access
  Home,                                     \* the project of the board
  HomeOwner                                 \* its members with the owner role

ASSUME ServiceAssumption ==
  /\ Home \in Project
  /\ HomeOwner \subseteq {u \in User : <<u, Home>> \in Member}

INSTANCE Access

serviceVars == <<vars, stepVars, questionVars, cycleVars>>

Allowed(c) == c \in Caller /\ requireProjectAccess(c, Home)
Agents     == {c \in Agent : Allowed(c)}                     \* callers of the MCP tools
Callers    == {c \in Caller : Allowed(c)}                    \* callers of the web API
RequireProjectOwner(c) == c.user \in Admin \cup HomeOwner

\* A user a task of the project may be assigned to.
Assignable == {u \in User : u \in Admin \/ <<u, Home>> \in Member}

\* What a board operation does elsewhere, and what it waits for.
Cascades == BoardWaits /\ StepsFollow /\ QuestionsWait /\ QuestionsFollow /\ CyclesFollow

OneCall      == Cascades /\ UNCHANGED request
StepsOnly    == UNCHANGED <<questionVars, cycleVars>>
QuestionOnly == UNCHANGED cycleVars

-----------------------------------------------------------------------------
(* Holding a task: what follows a claim. *)

markActiveSession(p, t, ses, u) ==
  Becomes(p, IF ses = NoSession THEN Idle
             ELSE [pc |-> "marking", task |-> t, session |-> ses, user |-> u])

\* The conversation goes on the task if it is still the claimer's.
FinishMark(p) ==
  /\ request[p].pc = "marking"
  /\ LET r == request[p] IN SetActiveSession(r.task, r.session, r.user)
  /\ Cascades /\ Becomes(p, Idle)

ClaimNextTool(p, c, t, ses) ==
  /\ c \in Agents /\ request[p] = Idle
  /\ ClaimNext(t, c.user)
  /\ Cascades /\ markActiveSession(p, t, ses, c.user)

\* The claim of a task the caller already works on writes nothing.
ClaimTool(p, c, t, ses) ==
  /\ c \in Agents /\ request[p] = Idle
  /\ \/ Claim(t, c.user)
     \/ t \in Live /\ row[t].state = "doing" /\ row[t].assignee = c.user /\ UNCHANGED vars
  /\ Cascades /\ markActiveSession(p, t, ses, c.user)

CreateTool(p, c, ty, parent, a, claim, ses) ==
  /\ c \in Agents
  /\ a \in Assignable \cup {Nobody}
  /\ BeginCreate(p, ty, parent, IF claim THEN c.user ELSE a, claim, IF claim THEN ses ELSE NoSession)
  /\ UNCHANGED questionVars

CreateTaskHandler(p, c, ty, parent, a) ==
  /\ c \in Callers
  /\ a \in Assignable \cup {Nobody}
  /\ BeginCreate(p, ty, parent, a, FALSE, NoSession)
  /\ UNCHANGED questionVars

FinishCreate(p, t) ==
  /\ InsertTask(p, t)
  /\ BoardWaits /\ ~ KeyHeld(request[p].parent)     \* the foreign key waits for the parent's row
  /\ markActiveSession(p, t, request[p].session, request[p].user)
  /\ UNCHANGED <<step, questionVars>>

-----------------------------------------------------------------------------
(* Moving and editing a task. *)

UpdateTool(c, t, ty, a) ==
  /\ c \in Agents /\ a \in Assignable \cup {Nobody} \cup {row[x].assignee : x \in Live \cap {t}}
  /\ Update(t, ty, a) /\ OneCall

UpdateTaskHandler(c, t, ty, a) ==
  /\ c \in Callers /\ a \in Assignable \cup {Nobody} \cup {row[x].assignee : x \in Live \cap {t}}
  /\ Update(t, ty, a) /\ OneCall

\* With release, going back to todo is followed by a second call that takes
\* the assignee off, if there is one.
SetStateTool(p, c, t, s, release) ==
  /\ c \in Agents /\ request[p] = Idle
  /\ release => s = "todo"
  /\ SetState(t, s, c.user)
  /\ Cascades
  /\ Becomes(p, IF release /\ row[t].assignee # Nobody THEN [pc |-> "releasing", task |-> t] ELSE Idle)

FinishRelease(p) ==
  /\ request[p].pc = "releasing"
  /\ LET t == request[p].task IN t \in Live /\ Update(t, row[t].type, Nobody)
  /\ Cascades /\ Becomes(p, Idle)

CloseTool(c, t, s) == c \in Agents /\ s \in Closed /\ SetState(t, s, c.user) /\ OneCall

SetTaskStateHandler(c, t, s) == c \in Callers /\ SetState(t, s, c.user) /\ OneCall

DeleteTaskHandler(c, t) == c \in Callers /\ Delete(t) /\ OneCall

AddDependencyTool(c, t, d)       == c \in Agents /\ AddDependency(t, d) /\ OneCall
RemoveDependencyTool(c, t, d)    == c \in Agents /\ RemoveDependency(<<t, d>>) /\ OneCall
AddDependencyHandler(c, t, d)    == c \in Callers /\ AddDependency(t, d) /\ OneCall
RemoveDependencyHandler(c, t, d) == c \in Callers /\ RemoveDependency(<<t, d>>) /\ OneCall

-----------------------------------------------------------------------------
(* Steps. *)

resolveStepTask(c, t)   == c \in Agents /\ t \in Live
resolveStepTarget(c, t) == c \in Callers /\ t \in Live

AddStepsTool(p, c, t, k)      == resolveStepTask(c, t) /\ AddSteps(p, t, k) /\ StepsOnly
UpdateStepTool(c, t, s, done) == resolveStepTask(c, t) /\ UpdateStep(t, s, done) /\ StepsOnly
RemoveStepTool(p, c, t, s)    == resolveStepTask(c, t) /\ RemoveStep(p, t, s) /\ StepsOnly
MoveStepTool(p, c, t, s, i)   == resolveStepTask(c, t) /\ MoveStep(p, t, s, i) /\ StepsOnly

\* Recording the conversation may fail; the step is started all the same.
StartStepTool(p, c, t, s, ses) ==
  /\ resolveStepTask(c, t)
  /\ ses # NoSession => Owner[ses] = c.user
  /\ StartStep(p, t, s, ses, c.user) /\ StepsOnly

AddStepsHandler(p, c, t, k)      == resolveStepTarget(c, t) /\ AddSteps(p, t, k) /\ StepsOnly
UpdateStepHandler(c, t, s, done) == resolveStepTarget(c, t) /\ UpdateStep(t, s, done) /\ StepsOnly
RemoveStepHandler(p, c, t, s)    == resolveStepTarget(c, t) /\ RemoveStep(p, t, s) /\ StepsOnly
MoveStepHandler(p, c, t, s, i)   == resolveStepTarget(c, t) /\ MoveStep(p, t, s, i) /\ StepsOnly

\* The last transaction of each; new: the ids of the steps that are added.
StepCommits(p, new) ==
  \/ FinishAddSteps(p, new) /\ StepsOnly
  \/ FinishMoveStep(p) /\ StepsOnly
  \/ FinishRemoveStep(p) /\ QuestionsWait /\ QuestionsFollow /\ UNCHANGED cycleVars
  \/ MoveToDoing(p) /\ Cascades
  \/ LockToStart(p) /\ StepsOnly
  \/ FinishStartStep(p) /\ StepsOnly

-----------------------------------------------------------------------------
(* Questions. *)

\* A conversation belongs to the user whose token registered it.
Of(c, ses) == c \in Agents /\ ses \in Session /\ Owner[ses] = c.user

AskTool(p, c, t, s, ses)             == Of(c, ses) /\ AskOn(p, t, s, ses) /\ QuestionOnly
TakeTool(p, c, ses)                  == Of(c, ses) /\ Take(p, ses) /\ QuestionOnly
RecordAnswerTool(p, c, q, x, ses, o) == Of(c, ses) /\ RecordAnswer(p, q, x, ses, o) /\ QuestionOnly
SetOutcomeTool(c, q, ses)            == Of(c, ses) /\ SetOutcome(q, ses) /\ QuestionOnly

WithdrawTool(p, c, q) ==
  /\ c \in Agents /\ q \in DOMAIN question /\ Recipient(q) = c.user
  /\ Withdraw(p, q) /\ QuestionOnly

AnswerQuestionHandler(p, c, q, x) ==
  /\ c \in Callers /\ c.via = Web
  /\ q \in DOMAIN question /\ Recipient(q) = c.user
  /\ Answer(p, q, x) /\ QuestionOnly

\* new: the id of the question that is filed.
QuestionCommits(p, new) ==
  /\ \/ FileQuestion(p, new)
     \/ OnQuestionAsked(p)
     \/ CommitAnswer(p) \/ CommitRecord(p)
     \/ CommitTake(p) \/ Respond(p)
     \/ ClearAsked(p)
  /\ QuestionOnly

MarkReadHandler(c, S) == c \in Callers /\ ReadBell(c.user, S) /\ QuestionOnly

MarkAllReadHandler(c) ==
  /\ c \in Callers
  /\ ReadBell(c.user, {q \in DOMAIN bell : bell[q] = "unread" /\ Recipient(q) = c.user})
  /\ QuestionOnly

-----------------------------------------------------------------------------
(* Cycles, and the reconciler. *)

EndCycleTool(p, c) ==
  c \in Agents /\ RequireProjectOwner(c) /\ BeginEndCycle(p) /\ UNCHANGED questionVars

EndCycleHandler(p, c) ==
  c \in Callers /\ RequireProjectOwner(c) /\ BeginEndCycle(p) /\ UNCHANGED questionVars

CycleCommits(p) == (MovePartialFeatureSubtrees(p) \/ FinishEndCycle(p)) /\ UNCHANGED questionVars

Reconciler ==
  /\ ReconcileScan \/ Restart \/ \E f \in Task : ReconcileClose(f) \/ ReconcileFails(f)
  /\ OneCall

Fail(p) == GiveUp(p) /\ UNCHANGED <<questionVars, cycleVars>>

-----------------------------------------------------------------------------
(* What the readers show. *)

\* under: {NoTask} lists the top level, {p} the children of p.
ListTasks(states, cycles, under) ==
  {t \in Live : row[t].state \in states /\ cycle[t] \in cycles /\ row[t].parent \in under}

EveryLevel == Task \cup {NoTask}

\* tasks.list: open tasks of the active cycle unless asked otherwise.
ListTasksTool(closed, all) ==
  ListTasks(IF closed THEN State ELSE State \ Closed,
            IF all THEN ListCycles ELSE {GetActiveCycle}, {NoTask})

\* The web list keeps the closed ones.
ListTasksHandler(all) == ListTasks(State, IF all THEN ListCycles ELSE {GetActiveCycle}, EveryLevel)

ListChildSummaries(t)     == Children(t)
ListDependsOnSummaries(t) == {d \in Task : <<t, d>> \in deps}
ListDependentSummaries(t) == {d \in Task : <<d, t>> \in deps}
TaskStepProgress(t)       == [done  |-> CountTaskSteps(t) - Cardinality(PendingSteps(t)),
                              total |-> CountTaskSteps(t)]

\* tasks.get and the task page.
GetTask(t) ==
  [children  |-> ListChildSummaries(t),
   dependsOn |-> ListDependsOnSummaries(t),
   blocks    |-> ListDependentSummaries(t),
   steps     |-> PendingSteps(t),
   progress  |-> TaskStepProgress(t),
   questions |-> ListPendingTaskQuestions(t)]

NextTool == {t \in Live : NextEligible(t)}

\* Open tasks that a done task depends on.
ListDoneDependentsInconsistencies ==
  {t \in Live : row[t].state \notin Closed
                 /\ \E d \in ListDependentSummaries(t) : row[d].state = "done"}

-----------------------------------------------------------------------------
Conversation == Session \cup {NoSession}

TaskCalls == \E p \in Proc, c \in Caller, t \in Task :
  \/ \E ses \in Conversation : ClaimNextTool(p, c, t, ses) \/ ClaimTool(p, c, t, ses)
  \/ \E s \in State :
       \/ \E release \in BOOLEAN : SetStateTool(p, c, t, s, release)
       \/ CloseTool(c, t, s) \/ SetTaskStateHandler(c, t, s)
  \/ \E ty \in Type, a \in User \cup {Nobody} : UpdateTool(c, t, ty, a) \/ UpdateTaskHandler(c, t, ty, a)
  \/ DeleteTaskHandler(c, t)
  \/ FinishMark(p) \/ FinishRelease(p)

CreateCalls == \E p \in Proc, c \in Caller, ty \in Type, up \in Task \cup {NoTask}, a \in User \cup {Nobody} :
  \/ \E claim \in BOOLEAN, ses \in Conversation : CreateTool(p, c, ty, up, a, claim, ses)
  \/ CreateTaskHandler(p, c, ty, up, a)
  \/ \E t \in Task : FinishCreate(p, t)

DependencyCalls == \E c \in Caller, t, d \in Task :
  \/ AddDependencyTool(c, t, d) \/ RemoveDependencyTool(c, t, d)
  \/ AddDependencyHandler(c, t, d) \/ RemoveDependencyHandler(c, t, d)

StepCalls == \E p \in Proc, c \in Caller, t \in Task :
  \/ \E k \in 1..MaxStepsPerTask : AddStepsTool(p, c, t, k) \/ AddStepsHandler(p, c, t, k)
  \/ \E s \in Step :
       \/ \E done \in BOOLEAN : UpdateStepTool(c, t, s, done) \/ UpdateStepHandler(c, t, s, done)
       \/ RemoveStepTool(p, c, t, s) \/ RemoveStepHandler(p, c, t, s)
       \/ \E i \in 0..MaxStepsPerTask : MoveStepTool(p, c, t, s, i) \/ MoveStepHandler(p, c, t, s, i)
       \/ \E ses \in Conversation : StartStepTool(p, c, t, s, ses)
  \/ \E new \in Seq(Step) : StepCommits(p, new)

QuestionCalls == \E p \in Proc, c \in Caller, q \in Question :
  \/ \E ses \in Session :
       \/ \E t \in Task, s \in Step \cup {NoStep} : AskTool(p, c, t, s, ses)
       \/ TakeTool(p, c, ses)
       \/ \E x \in Text, o \in BOOLEAN : RecordAnswerTool(p, c, q, x, ses, o)
       \/ SetOutcomeTool(c, q, ses)
  \/ WithdrawTool(p, c, q)
  \/ \E x \in Text : AnswerQuestionHandler(p, c, q, x)
  \/ QuestionCommits(p, q)
  \/ \E S \in SUBSET Question : MarkReadHandler(c, S)
  \/ MarkAllReadHandler(c)

CycleCalls == \E p \in Proc :
  (\E c \in Caller : EndCycleTool(p, c) \/ EndCycleHandler(p, c)) \/ CycleCommits(p)

ServiceNext ==
  \/ TaskCalls \/ CreateCalls \/ DependencyCalls \/ StepCalls \/ QuestionCalls \/ CycleCalls
  \/ Reconciler
  \/ \E p \in Proc : Fail(p)

ServiceInit == Init /\ StepsInit /\ QuestionsInit /\ CyclesInit

ServiceSpec == ServiceInit /\ [][ServiceNext]_serviceVars

\* Every table is well formed and holds nothing of a deleted task, and a
\* request that is under way holds rows that exist.
ServiceTypeOK ==
  /\ TypeOK
  /\ step \in [DOMAIN step -> StepRow] /\ DOMAIN step \subseteq Step
  /\ question \in [DOMAIN question -> QuestionRow] /\ DOMAIN question \subseteq Question
  /\ \A s \in DOMAIN step : step[s].task \in Live
  /\ \A q \in DOMAIN question : question[q].task \in Live /\ question[q].step \in DOMAIN step \cup {NoStep}
  /\ DOMAIN bell \subseteq DOMAIN question /\ DOMAIN handed = DOMAIN question
  /\ active \in Nat \ {0} /\ cycle \in [Live -> 1..active]
  /\ \A p \in Proc :
       /\ request[p].pc \in Locking => request[p].task \in Live
       /\ request[p].pc \in Answering => request[p].rows \subseteq DOMAIN question
       /\ request[p].pc = "ending" => DOMAIN request[p].moved \subseteq Live

\* Whatever the tools and handlers do, in however many transactions, is what
\* the task board does: above all, no question lands on a closed task and no
\* start_step, claim or release moves a task in a way the board does not know.
ImplementsBoard == [][vars' # vars => Next]_serviceVars

\* The lists, the task page and the queue agree: going down from the top-level
\* lists meets every task once; a dependency shows at both its ends, and both
\* exist; a task shows open questions exactly when the board says it asks; no
\* open question hides on a closed task; a full progress bar has no step left;
\* what tasks.next previews can be claimed.
TaskReadersAgree ==
  /\ \A S \in SUBSET Live :
       (/\ ListTasksTool(TRUE, TRUE) \subseteq S
        /\ \A t \in S : GetTask(t).children \subseteq S) => S = Live
  /\ \A t \in Live :
       LET shown == GetTask(t)
       IN  /\ \A d \in shown.dependsOn : d \in Live /\ t \in GetTask(d).blocks
           /\ t \in asking <=> \E q \in shown.questions : question[q].state = "open"
           /\ shown.progress.done = shown.progress.total <=> shown.steps = {}
           /\ t \in NextTool => ClaimNextEligible(t)
  /\ \A q \in Open(question) : row[question[q].task].state \notin Closed
  /\ ListTasksTool(FALSE, FALSE) \subseteq ListTasksHandler(FALSE)
=============================================================================
