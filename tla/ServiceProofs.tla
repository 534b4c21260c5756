---------------------------- MODULE ServiceProofs ----------------------------
(***************************************************************************)
(* What Service promises for any set of tasks, steps, questions, callers   *)
(* and requests.                                                           *)
(*                                                                         *)
(* A request of several transactions keeps what it read in its record.     *)
(* The argument is that what it keeps still holds when it is used, for as  *)
(* long as it holds the lock it read it under (Fits): the requests that    *)
(* hold a task's row hold different ones (OneHolder), a board operation    *)
(* waits for them, and the rest leaves alone what they read.  The end of a *)
(* cycle holds the rows it has moved in the same way (MoversOK).           *)
(***************************************************************************)
EXTENDS Service, TaskBoardProofs, FiniteSetTheorems

(* What a request's record looks like. *)

AddRequest     == [pc : {"adding"}, task : Task, k : 1..MaxStepsPerTask, n : Nat]
RemoveRequest  == [pc : {"removing"}, task : Task, step : Step, at : Nat]
MoveRequest    == [pc : {"moving"}, task : Task, step : Step, from : Nat, to : Nat]
StartRequest   == [pc : {"to doing", "to start", "starting"}, task : Task, step : Step,
                   session : Session \cup {NoSession}, user : User]
AskRequest     == [pc : {"asking"}, task : Task, step : Step \cup {NoStep}, session : Session]
MarkRequest    == [pc : {"marking"}, task : Task, session : Session, user : User]
ReleaseRequest == [pc : {"releasing"}, task : Task]
TaskRequest == MarkRequest \cup ReleaseRequest
StepRequest == AddRequest \cup RemoveRequest \cup MoveRequest \cup StartRequest \cup AskRequest

CreateRequest(r) ==
  /\ r = [pc |-> "creating", type |-> r.type, parent |-> r.parent, user |-> r.user,
          claim |-> r.claim, session |-> r.session, cycle |-> r.cycle]
  /\ r.type \in Type /\ r.parent \in Task \cup {NoTask}
  /\ r.user \in User \cup {Nobody} /\ r.claim \in BOOLEAN /\ r.session \in Session \cup {NoSession}
  /\ r.claim => r.user \in User
  /\ r.session # NoSession => r.claim

\* What the one that ends a cycle holds is told in CyclesProofs.
CycleRequest(r) ==
  \/ r = [pc |-> "closing", subtrees |-> r.subtrees]
  \/ r = [pc |-> "ending", moved |-> r.moved]

\* Those about questions hold none of a task's rows.
QuestionRequest(r) ==
  \/ r = [pc |-> "ringing", question |-> r.question]
  \/ /\ r.pc \in {"answering", "recording"}
     /\ r = [pc |-> r.pc, text |-> r.text, outcome |-> r.outcome, rows |-> r.rows, bells |-> r.bells]
  \/ r = [pc |-> "taking", rows |-> r.rows]
  \/ r = [pc |-> "handing", answers |-> r.answers]
  \/ r = [pc |-> "clearing", task |-> r.task, user |-> r.user]

AnyRequest(r) ==
  \/ r = Idle \/ r \in TaskRequest \/ r \in StepRequest
  \/ CreateRequest(r) \/ CycleRequest(r) \/ QuestionRequest(r)

\* The steps of t in a table.
ListOf(table, t) == {s \in DOMAIN table : table[s].task = t}

\* What a request that holds a task's row knows of that task.
Fits(r, rows, steps) ==
  r.pc \in Locking =>
    /\ r.task \in DOMAIN rows
    /\ r.pc = "asking" =>
         /\ rows[r.task].state \notin Closed
         /\ r.step # NoStep => r.step \in ListOf(steps, r.task)
    /\ r.pc = "starting" => rows[r.task].state = "doing" /\ r.step \in ListOf(steps, r.task)
    /\ r.pc = "adding" =>
         r.n = Cardinality(ListOf(steps, r.task)) /\ r.n + r.k <= MaxStepsPerTask
    /\ r.pc = "removing" => r.step \in ListOf(steps, r.task) /\ r.at = steps[r.step].position
    /\ r.pc = "moving" =>
         /\ r.step \in ListOf(steps, r.task) /\ r.from = steps[r.step].position
         /\ r.to < Cardinality(ListOf(steps, r.task))

OneHolder ==
  \A p, q \in Proc :
    (request[p].pc \in Locking /\ request[q].pc \in Locking /\ request[p].task = request[q].task)
      => p = q

RequestsOK ==
  /\ DOMAIN request = Proc
  /\ \A p \in Proc : AnyRequest(request[p]) /\ Fits(request[p], row, step)
  /\ OneHolder

\* The positions of t's steps are 0..n-1, each taken once.
Numbered(table, t, n) ==
  /\ \A s \in ListOf(table, t) : table[s].position \in 0..(n - 1)
  /\ \A i \in 0..(n - 1) : \E s \in ListOf(table, t) : table[s].position = i
  /\ \A s, u \in ListOf(table, t) : table[s].position = table[u].position => s = u

StepTable ==
  /\ IsFiniteSet(DOMAIN step) /\ DOMAIN step \subseteq Step
  /\ step = [s \in DOMAIN step |-> step[s]]
  /\ \A s \in DOMAIN step : step[s] \in StepRow /\ step[s].task \in Live

StepsOK ==
  /\ StepTable
  /\ \A t \in Task : \E n \in 0..MaxStepsPerTask : Numbered(step, t, n)

\* What the end of a cycle has moved and not committed is on the board, and
\* nobody else holds it.
MoversOK ==
  \A p \in Proc : request[p].pc = "ending" =>
    /\ DOMAIN request[p].moved \subseteq Live
    /\ \A q \in Proc : request[q].pc \in Locking => request[q].task \notin DOMAIN request[p].moved

ServiceInv == BoardInv /\ StepsOK /\ RequestsOK /\ MoversOK

-----------------------------------------------------------------------------
(* The steps of the service, taken apart by what they do to the board, the *)
(* steps and the requests.                                                 *)

\* A request moves on to one that holds no row, or none does.
Holding == Locking \cup {"ending"}

NextRequest ==
  UNCHANGED request \/ \E p \in Proc : \E r : AnyRequest(r) /\ r.pc \notin Holding /\ Becomes(p, r)

BoardCall == [Next]_vars /\ Cascades /\ NextRequest

\* Everything about questions and cycles, and what only reads.
OtherCall ==
  /\ UNCHANGED vars \/ (\E t \in asking : SettleQuestions(t)) \/ (\E p \in Proc, q \in Question : FileQuestion(p, q))
  /\ UNCHANGED step
  /\ NextRequest

\* A request reads what it is to write and holds its task's row from then on.
LockCall(p, r) ==
  /\ UNCHANGED <<vars, step>>
  /\ Becomes(p, r)
  /\ AnyRequest(r) /\ r.pc \in Locking /\ Fits(r, row, step)
  /\ ~ RowHeld(r.task)

StepCommit ==
  \/ \E p \in Proc : \/ \E new \in Seq(Step) : FinishAddSteps(p, new)
                     \/ FinishRemoveStep(p) \/ FinishMoveStep(p) \/ FinishStartStep(p)
  \/ \E t \in Task, s \in Step, done \in BOOLEAN : UpdateStep(t, s, done)

ServiceStep ==
  \/ BoardCall
  \/ OtherCall
  \/ \E p \in Proc, t \in Task : FinishCreate(p, t)
  \/ \E p \in Proc : \E r : LockCall(p, r)
  \/ \E p \in Proc : MovePartialFeatureSubtrees(p)
  \/ StepCommit

\* The pc tells what the record looks like.
LEMMA PcTells ==
  ASSUME NEW r, AnyRequest(r)
  PROVE  /\ r.pc = "idle" => r = Idle
         /\ r.pc = "marking" => r \in MarkRequest
         /\ r.pc = "releasing" => r \in ReleaseRequest
         /\ r.pc = "creating" => CreateRequest(r)
         /\ r.pc = "adding" => r \in AddRequest
         /\ r.pc = "removing" => r \in RemoveRequest
         /\ r.pc = "moving" => r \in MoveRequest
         /\ r.pc \in {"to doing", "to start", "starting"} => r \in StartRequest
         /\ r.pc = "asking" => r \in AskRequest
         /\ r.pc \in Answering \cup {"ringing", "handing", "clearing"} => QuestionRequest(r)
<1>1. CASE r = Idle
  BY <1>1 DEF Idle, Answering
<1>2. CASE r \in TaskRequest
  <2>1. r \in MarkRequest => r.pc = "marking"
    BY DEF MarkRequest
  <2>2. r \in ReleaseRequest => r.pc = "releasing"
    BY DEF ReleaseRequest
  <2>. QED BY <1>2, <2>1, <2>2 DEF TaskRequest, Answering
<1>3. CASE r \in StepRequest
  <2>1. r \in AddRequest => r.pc = "adding"
    BY DEF AddRequest
  <2>2. r \in RemoveRequest => r.pc = "removing"
    BY DEF RemoveRequest
  <2>3. r \in MoveRequest => r.pc = "moving"
    BY DEF MoveRequest
  <2>4. r \in StartRequest => r.pc \in {"to doing", "to start", "starting"}
    BY DEF StartRequest
  <2>5. r \in AskRequest => r.pc = "asking"
    BY DEF AskRequest
  <2>. QED BY <1>3, <2>1, <2>2, <2>3, <2>4, <2>5 DEF StepRequest, Answering
<1>4. CASE QuestionRequest(r)
  <2>1. r.pc \in Answering \cup {"ringing", "handing", "clearing"}
    BY <1>4 DEF QuestionRequest, Answering
  <2>. QED BY <1>4, <2>1 DEF Answering
<1>5. CASE CreateRequest(r)
  <2>1. r.pc = "creating"
    BY <1>5 DEF CreateRequest
  <2>. QED BY <1>5, <2>1 DEF Answering
<1>6. CASE CycleRequest(r)
  <2>1. r.pc \in {"closing", "ending"}
    BY <1>6 DEF CycleRequest
  <2>. QED BY <2>1 DEF Answering
<1>. QED BY <1>1, <1>2, <1>3, <1>4, <1>5, <1>6 DEF AnyRequest

LEMMA CallerIsUser == ASSUME NEW c \in Caller PROVE c.user \in User
BY DEF Caller

LEMMA AssignableUsers == Assignable \subseteq User
BY DEF Assignable

\* A request that goes on without a row.
LEMMA GoesOn ==
  ASSUME NEW p \in Proc, NEW r, AnyRequest(r), r.pc \notin Holding, Becomes(p, r)
  PROVE  NextRequest
BY DEF NextRequest

LEMMA IdleIs == AnyRequest(Idle) /\ Idle.pc \notin Holding /\ Idle.pc \notin Locking
BY DEF AnyRequest, Idle, Locking, Holding

LEMMA MarkFollows ==
  ASSUME NEW p \in Proc, NEW t \in Task, NEW ses \in Session \cup {NoSession},
         NEW u \in User \cup {Nobody}, ses # NoSession => u \in User,
         markActiveSession(p, t, ses, u)
  PROVE  NextRequest
<1>1. CASE ses = NoSession
  BY <1>1, IdleIs, GoesOn DEF markActiveSession
<1>2. CASE ses # NoSession
  <2>. DEFINE r == [pc |-> "marking", task |-> t, session |-> ses, user |-> u]
  <2>1. r \in MarkRequest /\ r.pc \notin Holding
    BY <1>2 DEF MarkRequest, Locking, Holding
  <2>2. Becomes(p, r)
    BY <1>2 DEF markActiveSession
  <2>. HIDE DEF r
  <2>. QED BY <2>1, <2>2, GoesOn DEF AnyRequest, TaskRequest
<1>. QED BY <1>1, <1>2

LEMMA TaskCallSteps == ASSUME ServiceInv, TaskCalls PROVE ServiceStep
<1>0. Live \subseteq Task /\ (\A t \in Live : row[t].type \in Type)
  BY DEF ServiceInv, BoardInv, RowInv, Row
<1>1. ASSUME NEW p \in Proc, NEW c \in Caller, NEW t \in Task, NEW ses \in Conversation,
             ClaimNextTool(p, c, t, ses) \/ ClaimTool(p, c, t, ses)
      PROVE  BoardCall
  <2>1. [Next]_vars
    BY <1>1, CallerIsUser DEF ClaimNextTool, ClaimTool, Next
  <2>2. Cascades /\ markActiveSession(p, t, ses, c.user)
    BY <1>1 DEF ClaimNextTool, ClaimTool
  <2>3. NextRequest
    BY <2>2, MarkFollows, CallerIsUser DEF Conversation
  <2>. QED BY <2>1, <2>2, <2>3 DEF BoardCall
<1>2. ASSUME NEW p \in Proc, NEW c \in Caller, NEW t \in Task, NEW s \in State,
             NEW release \in BOOLEAN, SetStateTool(p, c, t, s, release)
      PROVE  BoardCall
  <2>1. [Next]_vars
    BY <1>2, CallerIsUser DEF SetStateTool, Next, MoveSome
  <2>. DEFINE r == [pc |-> "releasing", task |-> t]
  <2>2. Cascades /\ (Becomes(p, r) \/ Becomes(p, Idle))
    BY <1>2 DEF SetStateTool
  <2>3. AnyRequest(r) /\ r.pc \notin Holding
    BY DEF AnyRequest, TaskRequest, ReleaseRequest, Locking, Holding
  <2>. HIDE DEF r
  <2>4. NextRequest
    BY <2>2, <2>3, IdleIs, GoesOn
  <2>. QED BY <2>1, <2>2, <2>4 DEF BoardCall
<1>3. ASSUME NEW c \in Caller, NEW t \in Task, NEW s \in State,
             CloseTool(c, t, s) \/ SetTaskStateHandler(c, t, s)
      PROVE  BoardCall
  BY <1>3, CallerIsUser DEF CloseTool, SetTaskStateHandler, OneCall, BoardCall, NextRequest, Next, MoveSome
<1>4. ASSUME NEW c \in Caller, NEW t \in Task, NEW ty \in Type, NEW a \in User \cup {Nobody},
             UpdateTool(c, t, ty, a) \/ UpdateTaskHandler(c, t, ty, a)
      PROVE  BoardCall
  BY <1>4 DEF UpdateTool, UpdateTaskHandler, OneCall, BoardCall, NextRequest, Next, UpdateSome
<1>5. ASSUME NEW c \in Caller, NEW t \in Task, DeleteTaskHandler(c, t)
      PROVE  BoardCall
  BY <1>5 DEF DeleteTaskHandler, OneCall, BoardCall, NextRequest, Next
<1>6. ASSUME NEW p \in Proc, FinishMark(p) PROVE BoardCall
  <2>1. request[p] \in MarkRequest
    BY <1>6, PcTells DEF FinishMark, ServiceInv, RequestsOK
  <2>2. [Next]_vars
    BY <1>6, <2>1 DEF FinishMark, MarkRequest, Next, HoldSome
  <2>. QED BY <1>6, <2>2, IdleIs, GoesOn DEF FinishMark, BoardCall
<1>7. ASSUME NEW p \in Proc, FinishRelease(p) PROVE BoardCall
  <2>1. [Next]_vars
    BY <1>0, <1>7 DEF FinishRelease, Next, UpdateSome
  <2>. QED BY <1>7, <2>1, IdleIs, GoesOn DEF FinishRelease, BoardCall
<1>. QED BY <1>1, <1>2, <1>3, <1>4, <1>5, <1>6, <1>7 DEF TaskCalls, ServiceStep

LEMMA BeginCreateSteps ==
  ASSUME NEW p \in Proc, NEW ty \in Type, NEW up \in Task \cup {NoTask}, NEW a \in User \cup {Nobody},
         NEW claim \in BOOLEAN, NEW ses \in Session \cup {NoSession},
         claim => a \in User, ses # NoSession => claim,
         BeginCreate(p, ty, up, a, claim, ses)
  PROVE  OtherCall
<1>. DEFINE r == [pc |-> "creating", type |-> ty, parent |-> up, user |-> a,
                  claim |-> claim, session |-> ses,
                  cycle |-> IF up = NoTask THEN GetActiveCycle ELSE cycle[up]]
<1>1. CreateRequest(r) /\ r.pc \notin Holding
  BY DEF CreateRequest, Locking, Holding
<1>2. Becomes(p, r) /\ UNCHANGED <<vars, step>>
  BY DEF BeginCreate
<1>. HIDE DEF r
<1>. QED BY <1>1, <1>2, GoesOn DEF AnyRequest, OtherCall

LEMMA CreateCallSteps == ASSUME CreateCalls PROVE ServiceStep
<1>1. ASSUME NEW p \in Proc, NEW c \in Caller, NEW ty \in Type, NEW up \in Task \cup {NoTask},
             NEW a \in User \cup {Nobody}, NEW claim \in BOOLEAN, NEW ses \in Conversation,
             CreateTool(p, c, ty, up, a, claim, ses)
      PROVE  OtherCall
  <2>. DEFINE who == IF claim THEN c.user ELSE a
              conversation == IF claim THEN ses ELSE NoSession
  <2>1. who \in User \cup {Nobody} /\ (claim => who \in User)
    BY CallerIsUser
  <2>2. conversation \in Session \cup {NoSession} /\ (conversation # NoSession => claim)
    BY DEF Conversation
  <2>3. BeginCreate(p, ty, up, who, claim, conversation)
    BY <1>1 DEF CreateTool
  <2>. HIDE DEF who, conversation
  <2>. QED BY <2>1, <2>2, <2>3, BeginCreateSteps
<1>2. ASSUME NEW p \in Proc, NEW c \in Caller, NEW ty \in Type, NEW up \in Task \cup {NoTask},
             NEW a \in User \cup {Nobody}, CreateTaskHandler(p, c, ty, up, a)
      PROVE  OtherCall
  <2>1. BeginCreate(p, ty, up, a, FALSE, NoSession)
    BY <1>2 DEF CreateTaskHandler
  <2>. QED BY <2>1, BeginCreateSteps
<1>. QED BY <1>1, <1>2 DEF CreateCalls, ServiceStep

LEMMA DependencyCallSteps == ASSUME DependencyCalls PROVE ServiceStep
<1>1. ASSUME NEW c \in Caller, NEW t \in Task, NEW d \in Task,
             \/ AddDependencyTool(c, t, d) \/ RemoveDependencyTool(c, t, d)
             \/ AddDependencyHandler(c, t, d) \/ RemoveDependencyHandler(c, t, d)
      PROVE  BoardCall
  <2>1. (AddDependency(t, d) \/ RemoveDependency(<<t, d>>)) /\ Cascades /\ UNCHANGED request
    BY <1>1 DEF AddDependencyTool, RemoveDependencyTool, AddDependencyHandler,
                RemoveDependencyHandler, OneCall
  <2>2. RemoveDependency(<<t, d>>) => \E e \in deps : RemoveDependency(e)
    BY DEF RemoveDependency
  <2>. QED BY <2>1, <2>2 DEF BoardCall, NextRequest, Next
<1>. QED BY <1>1 DEF DependencyCalls, ServiceStep

LEMMA ReconcilerSteps == ASSUME Reconciler PROVE ServiceStep
BY DEF Reconciler, OneCall, ServiceStep, BoardCall, NextRequest, Next

LEMMA FailSteps == ASSUME NEW p \in Proc, Fail(p) PROVE ServiceStep
<1>1. Becomes(p, Idle) /\ UNCHANGED <<vars, step>>
  BY DEF Fail, GiveUp
<1>. QED BY <1>1, IdleIs, GoesOn DEF OtherCall, ServiceStep

LEMMA CycleCallSteps == ASSUME CycleCalls PROVE ServiceStep
<1>1. ASSUME NEW p \in Proc, NEW r, Becomes(p, r), UNCHANGED <<vars, step>>,
             AnyRequest(r), r.pc \notin Holding
      PROVE  ServiceStep
  BY <1>1, GoesOn DEF OtherCall, ServiceStep
<1>2. ASSUME NEW p \in Proc, BeginEndCycle(p) PROVE ServiceStep
  <2>. DEFINE r == [pc |-> "closing", subtrees |-> PartialFeatureSubtrees(GetActiveCycle)]
  <2>1. Becomes(p, r) /\ UNCHANGED <<vars, step>>
    BY <1>2 DEF BeginEndCycle
  <2>2. AnyRequest(r) /\ r.pc \notin Holding
    BY DEF AnyRequest, CycleRequest, Locking, Holding
  <2>. HIDE DEF r
  <2>. QED BY <1>1, <2>1, <2>2
<1>3. ASSUME NEW p \in Proc, MovePartialFeatureSubtrees(p) PROVE ServiceStep
  BY <1>3 DEF ServiceStep
<1>4. ASSUME NEW p \in Proc, FinishEndCycle(p) PROVE ServiceStep
  BY <1>1, <1>4, IdleIs DEF FinishEndCycle
<1>. QED BY <1>2, <1>3, <1>4 DEF CycleCalls, EndCycleTool, EndCycleHandler, CycleCommits

LEMMA ListIsFinite ==
  ASSUME StepsOK, NEW t
  PROVE  /\ IsFiniteSet(ListTaskSteps(t)) /\ CountTaskSteps(t) \in Nat
         /\ ListTaskSteps(t) = ListOf(step, t) /\ CountTaskSteps(t) = Cardinality(ListOf(step, t))
         /\ \A s \in ListTaskSteps(t) : CountTaskSteps(t) > 0 /\ step[s].position \in Nat
<1>1. ListTaskSteps(t) \subseteq DOMAIN step /\ ListTaskSteps(t) = ListOf(step, t)
  BY DEF ListTaskSteps, ListOf
<1>2. IsFiniteSet(ListTaskSteps(t))
  BY <1>1, FS_Subset DEF StepsOK, StepTable
<1>3. Cardinality(ListTaskSteps(t)) \in Nat
  BY <1>2, FS_CardinalityType
<1>4. ASSUME NEW s \in ListTaskSteps(t)
      PROVE  Cardinality(ListTaskSteps(t)) # 0 /\ step[s].position \in Nat
  BY <1>1, <1>2, <1>4, FS_EmptySet DEF StepsOK, StepTable, StepRow
<1>. QED BY <1>1, <1>2, <1>3, <1>4 DEF CountTaskSteps

LEMMA LocksSteps ==
  ASSUME NEW p \in Proc, NEW r, withTaskLocked(p, r), r \in StepRequest, r.pc \in Locking,
         Fits(r, row, step)
  PROVE  LockCall(p, r)
BY DEF withTaskLocked, LockTask, LockCall, AnyRequest

LEMMA StepEditSteps ==
  ASSUME ServiceInv, NEW p \in Proc, NEW t \in Task
  PROVE  /\ \A k \in 1..MaxStepsPerTask : AddSteps(p, t, k) => \E r : LockCall(p, r)
         /\ \A s \in Step :
              /\ RemoveStep(p, t, s) => \E r : LockCall(p, r)
              /\ \A i \in 0..MaxStepsPerTask : MoveStep(p, t, s, i) => \E r : LockCall(p, r)
<1>0. StepsOK /\ MaxStepsPerTask \in Nat
  BY StepsAssumption DEF ServiceInv
<1>1. ASSUME NEW k \in 1..MaxStepsPerTask, AddSteps(p, t, k) PROVE \E r : LockCall(p, r)
  <2>. DEFINE r == [pc |-> "adding", task |-> t, k |-> k, n |-> CountTaskSteps(t)]
  <2>1. withTaskLocked(p, r) /\ CountTaskSteps(t) + k <= MaxStepsPerTask
    BY <1>1 DEF AddSteps
  <2>2. t \in Live
    BY <2>1 DEF withTaskLocked
  <2>3. r \in StepRequest /\ r.pc \in Locking
    BY <1>0, ListIsFinite DEF StepRequest, AddRequest, Locking
  <2>4. Fits(r, row, step)
    BY <1>0, <2>1, <2>2, ListIsFinite DEF Fits, Live
  <2>. HIDE DEF r
  <2>. QED BY <2>1, <2>3, <2>4, LocksSteps
<1>2. ASSUME NEW s \in Step, RemoveStep(p, t, s) PROVE \E r : LockCall(p, r)
  <2>. DEFINE r == [pc |-> "removing", task |-> t, step |-> s, at |-> step[s].position]
  <2>1. withTaskLocked(p, r) /\ s \in ListTaskSteps(t)
    BY <1>2 DEF RemoveStep, GetTaskStep
  <2>2. t \in Live
    BY <2>1 DEF withTaskLocked
  <2>3. r \in StepRequest /\ r.pc \in Locking
    BY <1>0, <2>1, ListIsFinite DEF StepRequest, RemoveRequest, Locking
  <2>4. Fits(r, row, step)
    BY <1>0, <2>1, <2>2, ListIsFinite DEF Fits, Live
  <2>. HIDE DEF r
  <2>. QED BY <2>1, <2>3, <2>4, LocksSteps
<1>3. ASSUME NEW s \in Step, NEW i \in 0..MaxStepsPerTask, MoveStep(p, t, s, i)
      PROVE  \E r : LockCall(p, r)
  <2>. DEFINE r == [pc |-> "moving", task |-> t, step |-> s, from |-> step[s].position,
                    to |-> Clamped(t, i)]
  <2>1. withTaskLocked(p, r) /\ s \in ListTaskSteps(t)
    BY <1>3 DEF MoveStep, GetTaskStep
  <2>2. t \in Live
    BY <2>1 DEF withTaskLocked
  <2>3. CountTaskSteps(t) \in Nat /\ CountTaskSteps(t) > 0 /\ step[s].position \in Nat
    BY <1>0, <2>1, ListIsFinite
  <2>4. Clamped(t, i) \in Nat /\ Clamped(t, i) < CountTaskSteps(t)
    BY <1>0, <2>3 DEF Clamped
  <2>5. r \in StepRequest /\ r.pc \in Locking
    BY <2>3, <2>4 DEF StepRequest, MoveRequest, Locking
  <2>6. Fits(r, row, step)
    BY <1>0, <2>1, <2>2, <2>4, ListIsFinite DEF Fits, Live
  <2>. HIDE DEF r
  <2>. QED BY <2>1, <2>5, <2>6, LocksSteps
<1>. QED BY <1>1, <1>2, <1>3

\* start_step: begun, moved to doing, locked.
LEMMA StartSteps ==
  ASSUME ServiceInv, NEW p \in Proc
  PROVE  /\ \A t \in Task, s \in Step, ses \in Session \cup {NoSession}, u \in User :
              StartStep(p, t, s, ses, u) => OtherCall
         /\ MoveToDoing(p) /\ Cascades => BoardCall
         /\ LockToStart(p) => \E r : LockCall(p, r)
<1>1. ASSUME NEW t \in Task, NEW s \in Step, NEW ses \in Session \cup {NoSession},
             NEW u \in User, StartStep(p, t, s, ses, u)
      PROVE  OtherCall
  <2>. DEFINE r == [pc |-> IF row[t].state = "todo" THEN "to doing" ELSE "to start",
                    task |-> t, step |-> s, session |-> ses, user |-> u]
  <2>1. r \in StartRequest /\ r.pc \notin Holding
    BY DEF StartRequest, Locking, Holding
  <2>2. Becomes(p, r) /\ UNCHANGED <<vars, step>>
    BY <1>1 DEF StartStep
  <2>. HIDE DEF r
  <2>. QED BY <2>1, <2>2, GoesOn DEF AnyRequest, StepRequest, OtherCall
<1>2. ASSUME MoveToDoing(p), Cascades PROVE BoardCall
  <2>1. request[p] \in StartRequest
    BY <1>2, PcTells DEF MoveToDoing, ServiceInv, RequestsOK
  <2>. DEFINE r == [request[p] EXCEPT !.pc = "to start"]
  <2>2. r \in StartRequest /\ r.pc \notin Holding
    BY <2>1 DEF StartRequest, Locking, Holding
  <2>3. Becomes(p, r) /\ SetState(request[p].task, "doing", request[p].user)
    BY <1>2 DEF MoveToDoing
  <2>. HIDE DEF r
  <2>4. NextRequest
    BY <2>2, <2>3, GoesOn DEF AnyRequest, StepRequest
  <2>5. [Next]_vars
    BY <2>1, <2>3 DEF StartRequest, Next, MoveSome, State
  <2>. QED BY <1>2, <2>4, <2>5 DEF BoardCall
<1>3. ASSUME LockToStart(p) PROVE \E r : LockCall(p, r)
  <2>1. request[p] \in StartRequest
    BY <1>3, PcTells DEF LockToStart, ServiceInv, RequestsOK
  <2>. DEFINE r == [request[p] EXCEPT !.pc = "starting"]
  <2>2. /\ r \in StartRequest /\ r.pc = "starting"
        /\ r.task = request[p].task /\ r.step = request[p].step
    BY <2>1 DEF StartRequest
  <2>3. /\ Becomes(p, r) /\ UNCHANGED <<vars, step>> /\ request[p].task \in Live
        /\ ~ RowHeld(request[p].task)
        /\ row[request[p].task].state = "doing" /\ request[p].step \in ListTaskSteps(request[p].task)
    BY <1>3 DEF LockToStart, LockTask, GetTaskStep
  <2>. HIDE DEF r
  <2>4. Fits(r, row, step)
    BY <2>2, <2>3 DEF Fits, ListTaskSteps, ListOf, Live
  <2>. QED BY <2>2, <2>3, <2>4 DEF LockCall, AnyRequest, StepRequest, Locking
<1>. QED BY <1>1, <1>2, <1>3

LEMMA StepCallSteps == ASSUME ServiceInv, StepCalls PROVE ServiceStep
<1>1. ASSUME NEW p \in Proc, NEW c \in Caller, NEW t \in Task, NEW k \in 1..MaxStepsPerTask,
             AddStepsTool(p, c, t, k) \/ AddStepsHandler(p, c, t, k)
      PROVE  ServiceStep
  BY <1>1, StepEditSteps DEF AddStepsTool, AddStepsHandler, ServiceStep
<1>2. ASSUME NEW p \in Proc, NEW c \in Caller, NEW t \in Task, NEW s \in Step,
             RemoveStepTool(p, c, t, s) \/ RemoveStepHandler(p, c, t, s)
      PROVE  ServiceStep
  BY <1>2, StepEditSteps DEF RemoveStepTool, RemoveStepHandler, ServiceStep
<1>3. ASSUME NEW p \in Proc, NEW c \in Caller, NEW t \in Task, NEW s \in Step,
             NEW i \in 0..MaxStepsPerTask, MoveStepTool(p, c, t, s, i) \/ MoveStepHandler(p, c, t, s, i)
      PROVE  ServiceStep
  BY <1>3, StepEditSteps DEF MoveStepTool, MoveStepHandler, ServiceStep
<1>4. ASSUME NEW c \in Caller, NEW t \in Task, NEW s \in Step, NEW done \in BOOLEAN,
             UpdateStepTool(c, t, s, done) \/ UpdateStepHandler(c, t, s, done)
      PROVE  ServiceStep
  BY <1>4 DEF UpdateStepTool, UpdateStepHandler, ServiceStep, StepCommit
<1>5. ASSUME NEW p \in Proc, NEW c \in Caller, NEW t \in Task, NEW s \in Step,
             NEW ses \in Conversation, StartStepTool(p, c, t, s, ses)
      PROVE  ServiceStep
  <2>1. StartStep(p, t, s, ses, c.user)
    BY <1>5 DEF StartStepTool
  <2>. QED BY <2>1, StartSteps, CallerIsUser DEF Conversation, ServiceStep
<1>6. ASSUME NEW p \in Proc, NEW new \in Seq(Step), StepCommits(p, new) PROVE ServiceStep
  BY <1>6, StartSteps DEF StepCommits, ServiceStep, StepCommit
<1>. QED BY <1>1, <1>2, <1>3, <1>4, <1>5, <1>6 DEF StepCalls

LEMMA SettleSteps ==
  ASSUME NEW t, NEW table, Settle(t, table), UNCHANGED <<row, deps, found>>
  PROVE  UNCHANGED vars \/ \E x \in asking : SettleQuestions(x)
BY DEF Settle, SettleQuestions, vars

\* A commit about questions: the request goes on, and its task may stop asking.
LEMMA QuestionSettles ==
  ASSUME NEW p \in Proc, NEW r, QuestionRequest(r) \/ r = Idle, Becomes(p, r), UNCHANGED step,
         UNCHANGED vars \/ \E x \in asking : SettleQuestions(x)
  PROVE  OtherCall
<1>1. AnyRequest(r)
  BY DEF AnyRequest
<1>2. r.pc \notin Holding
  BY DEF QuestionRequest, Idle, Locking, Holding
<1>. QED BY <1>1, <1>2, GoesOn DEF OtherCall

LEMMA AskSteps ==
  ASSUME NEW p \in Proc, NEW t \in Task, NEW s \in Step \cup {NoStep}, NEW ses \in Session,
         AskOn(p, t, s, ses)
  PROVE  \E r : LockCall(p, r)
<1>. DEFINE r == [pc |-> "asking", task |-> t, step |-> s, session |-> ses]
<1>1. /\ withTaskLocked(p, r) /\ t \in Live /\ row[t].state \notin Closed
      /\ s = NoStep \/ s \in ListTaskSteps(t)
  BY DEF AskOn, GetTaskStep
<1>2. r \in StepRequest /\ r.pc \in Locking
  BY DEF StepRequest, AskRequest, Locking
<1>3. Fits(r, row, step)
  BY <1>1 DEF Fits, ListTaskSteps, ListOf, Live
<1>. HIDE DEF r
<1>. QED BY <1>1, <1>2, <1>3, LocksSteps

LEMMA AnswerSteps ==
  ASSUME NEW p \in Proc, NEW q, NEW x, NEW o,
         NEW pc \in {"answering", "recording"}, LockToAnswer(p, q, pc, x, o)
  PROVE  OtherCall
<1>. DEFINE r == [pc |-> pc, text |-> x, outcome |-> o, rows |-> {q},
                  bells |-> MarkQuestionNotificationsRead(question[q].task, Recipient(q), {q})]
<1>1. QuestionRequest(r)
  BY DEF QuestionRequest
<1>2. Becomes(p, r) /\ UNCHANGED <<vars, step>>
  BY DEF LockToAnswer
<1>. HIDE DEF r
<1>. QED BY <1>1, <1>2, QuestionSettles

LEMMA TakeSteps ==
  ASSUME NEW p \in Proc, NEW ses, Take(p, ses) \/ CommitTake(p) \/ Respond(p) \/ OnQuestionAsked(p)
                                  \/ ClearAsked(p)
  PROVE  OtherCall
<1>1. CASE Take(p, ses)
  BY <1>1, QuestionSettles DEF Take, QuestionRequest
<1>2. CASE CommitTake(p)
  <2>. DEFINE S == request[p].rows \cap DOMAIN question
              r == [pc |-> "handing", answers |-> [q \in S |-> question[q].text]]
  <2>1. QuestionRequest(r)
    BY DEF QuestionRequest
  <2>2. Becomes(p, r) /\ UNCHANGED <<vars, step>>
    BY <1>2 DEF CommitTake
  <2>. HIDE DEF r
  <2>. QED BY <2>1, <2>2, QuestionSettles
<1>3. CASE Respond(p) \/ OnQuestionAsked(p) \/ ClearAsked(p)
  <2>1. Becomes(p, Idle) /\ UNCHANGED <<vars, step>>
    BY <1>3 DEF Respond, OnQuestionAsked, ClearAsked
  <2>. QED BY <2>1, QuestionSettles
<1>. QED BY <1>1, <1>2, <1>3

LEMMA CommitsSettle ==
  ASSUME NEW p \in Proc, CommitAnswer(p) \/ CommitRecord(p)
  PROVE  OtherCall
<1>1. Becomes(p, Idle) /\ UNCHANGED <<row, deps, found, step>> /\ \E t : Settle(t, question')
  BY DEF CommitAnswer, CommitRecord
<1>. QED BY <1>1, SettleSteps, QuestionSettles

LEMMA WithdrawSteps ==
  ASSUME NEW p \in Proc, NEW q, Withdraw(p, q)
  PROVE  OtherCall
<1>. DEFINE r == [pc |-> "clearing", task |-> question[q].task, user |-> Recipient(q)]
<1>1. QuestionRequest(r)
  BY DEF QuestionRequest
<1>2. Becomes(p, r) /\ UNCHANGED <<row, deps, found, step>> /\ Settle(question[q].task, question')
  BY DEF Withdraw
<1>. HIDE DEF r
<1>. QED BY <1>1, <1>2, SettleSteps, QuestionSettles

LEMMA FileSteps ==
  ASSUME NEW p \in Proc, NEW q \in Question, FileQuestion(p, q)
  PROVE  OtherCall
<1>. DEFINE r == [pc |-> "ringing", question |-> q]
<1>1. QuestionRequest(r) /\ r.pc \notin Holding
  BY DEF QuestionRequest, Locking, Holding
<1>2. Becomes(p, r) /\ UNCHANGED step
  BY DEF FileQuestion
<1>. HIDE DEF r
<1>. QED BY <1>1, <1>2, GoesOn DEF AnyRequest, OtherCall

LEMMA QuestionCallSteps == ASSUME QuestionCalls PROVE ServiceStep
<1>1. ASSUME NEW p \in Proc, NEW c \in Caller, NEW t \in Task, NEW s \in Step \cup {NoStep},
             NEW ses \in Session, AskTool(p, c, t, s, ses)
      PROVE  ServiceStep
  BY <1>1, AskSteps DEF AskTool, ServiceStep
<1>2. ASSUME NEW p \in Proc, NEW c \in Caller, NEW q \in Question, NEW x \in Text,
             \/ \E ses \in Session, o \in BOOLEAN : RecordAnswerTool(p, c, q, x, ses, o)
             \/ AnswerQuestionHandler(p, c, q, x)
      PROVE  ServiceStep
  BY <1>2, AnswerSteps DEF RecordAnswerTool, AnswerQuestionHandler, RecordAnswer, Answer, ServiceStep
<1>3. ASSUME NEW p \in Proc, NEW c \in Caller, NEW ses \in Session, TakeTool(p, c, ses)
      PROVE  ServiceStep
  BY <1>3, TakeSteps DEF TakeTool, ServiceStep
<1>4. ASSUME NEW p \in Proc, NEW c \in Caller, NEW q \in Question, WithdrawTool(p, c, q)
      PROVE  ServiceStep
  BY <1>4, WithdrawSteps DEF WithdrawTool, ServiceStep
<1>5. ASSUME NEW p \in Proc, NEW q \in Question, QuestionCommits(p, q) PROVE ServiceStep
  BY <1>5, FileSteps, TakeSteps, CommitsSettle DEF QuestionCommits, ServiceStep
<1>6. ASSUME UNCHANGED <<vars, stepVars>> PROVE ServiceStep
  BY <1>6 DEF stepVars, NextRequest, OtherCall, ServiceStep
<1>7. ASSUME NEW c \in Caller, NEW q \in Question, NEW ses \in Session, SetOutcomeTool(c, q, ses)
      PROVE  ServiceStep
  BY <1>6, <1>7 DEF SetOutcomeTool, SetOutcome
<1>8. ASSUME NEW c \in Caller, (\E S \in SUBSET Question : MarkReadHandler(c, S)) \/ MarkAllReadHandler(c)
      PROVE  ServiceStep
  BY <1>6, <1>8 DEF MarkReadHandler, MarkAllReadHandler, ReadBell
<1>. SUFFICES ASSUME NEW p \in Proc, NEW c \in Caller, NEW q \in Question,
                     \/ \E ses \in Session :
                          \/ \E t \in Task, s \in Step \cup {NoStep} : AskTool(p, c, t, s, ses)
                          \/ TakeTool(p, c, ses)
                          \/ \E x \in Text, o \in BOOLEAN : RecordAnswerTool(p, c, q, x, ses, o)
                          \/ SetOutcomeTool(c, q, ses)
                     \/ WithdrawTool(p, c, q)
                     \/ \E x \in Text : AnswerQuestionHandler(p, c, q, x)
                     \/ QuestionCommits(p, q)
                     \/ \E S \in SUBSET Question : MarkReadHandler(c, S)
                     \/ MarkAllReadHandler(c)
              PROVE  ServiceStep
  BY DEF QuestionCalls
<1>. QED BY <1>1, <1>2, <1>3, <1>4, <1>5, <1>7, <1>8

LEMMA AllSteps == ASSUME ServiceInv, [ServiceNext]_serviceVars PROVE ServiceStep
<1>1. CASE UNCHANGED serviceVars
  BY <1>1 DEF serviceVars, stepVars, NextRequest, OtherCall, ServiceStep
<1>2. CASE ServiceNext
  BY <1>2, TaskCallSteps, CreateCallSteps, DependencyCallSteps, StepCallSteps, QuestionCallSteps,
     CycleCallSteps, ReconcilerSteps, FailSteps DEF ServiceNext
<1>. QED BY <1>1, <1>2

-----------------------------------------------------------------------------
(* The board. *)

LEMMA BoardSteps == ASSUME ServiceInv, ServiceStep PROVE [Next]_vars
<1>1. CASE OtherCall
  <2>1. ASSUME NEW t \in asking, SettleQuestions(t) PROVE Next
    <3>1. t \in Task
      BY DEF ServiceInv, BoardInv
    <3>. QED BY <2>1, <3>1 DEF Next
  <2>2. ASSUME NEW p \in Proc, NEW q \in Question, FileQuestion(p, q) PROVE Next
    <3>1. request[p] \in AskRequest /\ Fits(request[p], row, step)
      BY <2>2, PcTells DEF FileQuestion, ServiceInv, RequestsOK
    <3>2. request[p].task \in Task /\ request[p].task \in Live /\ row[request[p].task].state \notin Closed
      BY <3>1 DEF AskRequest, Fits, Locking, Live
    <3>3. Ask(request[p].task)
      BY <2>2, <3>2 DEF FileQuestion, Ask
    <3>. QED BY <3>2, <3>3 DEF Next
  <2>. QED BY <1>1, <2>1, <2>2 DEF OtherCall
<1>2. ASSUME NEW p \in Proc, NEW t \in Task, FinishCreate(p, t) PROVE Next
  <2>1. CreateRequest(request[p])
    BY <1>2, PcTells DEF FinishCreate, InsertTask, ServiceInv, RequestsOK
  <2>2. Create(t, request[p].type, request[p].parent, request[p].user, request[p].claim)
    BY <1>2 DEF FinishCreate, InsertTask
  <2>3. /\ request[p].type \in Type /\ request[p].parent \in Task \cup {NoTask}
        /\ request[p].user \in User \cup {Nobody} /\ request[p].claim \in BOOLEAN
    BY <2>1 DEF CreateRequest
  <2>4. CreateSome
    BY <2>2, <2>3 DEF CreateSome
  <2>. QED BY <2>4 DEF Next
<1>3. ASSUME NEW p \in Proc, FinishStartStep(p) PROVE [Next]_vars
  <2>1. request[p] \in StartRequest
    BY <1>3, PcTells DEF FinishStartStep, ServiceInv, RequestsOK
  <2>2. Stamp(request[p])
    BY <1>3 DEF FinishStartStep
  <2>. QED BY <2>1, <2>2 DEF Stamp, StartRequest, Next, HoldSome
<1>. QED BY <1>1, <1>2, <1>3 DEF ServiceStep, BoardCall, LockCall, StepCommit,
            FinishAddSteps, FinishRemoveStep, FinishMoveStep, UpdateStep, MovePartialFeatureSubtrees

-----------------------------------------------------------------------------
(* What a request that holds a row knows stays true. *)

SameList(t) ==
  /\ ListOf(step', t) = ListOf(step, t)
  /\ \A s \in ListOf(step, t) : step'[s].position = step[s].position

\* It is enough that its task stays in its state and keeps its list.
LEMMA FitsPersists ==
  ASSUME NEW r, Fits(r, row, step),
         r.pc \in Locking => /\ r.task \in Live' /\ row'[r.task].state = row[r.task].state
                             /\ SameList(r.task)
  PROVE  Fits(r, row', step')
BY DEF Fits, SameList, Live

LEMMA ShiftKeepsOthers ==
  ASSUME NEW table, NEW t, NEW delta, NEW lo, NEW hi
  PROVE  LET after == ShiftTaskSteps(table, t, delta, lo, hi)
         IN  /\ DOMAIN after = DOMAIN table
             /\ after = [s \in DOMAIN table |-> after[s]]
             /\ \A s \in DOMAIN table :
                  /\ table[s].task # t => after[s] = table[s]
                  /\ table[s].position \notin lo..hi => after[s] = table[s]
                  /\ table[s] \in StepRow =>
                       /\ after[s].task = table[s].task
                       /\ after[s].done = table[s].done
                       /\ after[s].started = table[s].started
                       /\ after[s].session = table[s].session
                       /\ table[s].task = t /\ table[s].position \in lo..hi =>
                            after[s].position = table[s].position + delta
                       /\ table[s].position + delta \in Nat => after[s] \in StepRow
BY DEF ShiftTaskSteps, StepRow

LEMMA StillNumbered ==
  ASSUME NEW t, NEW n, SameList(t), Numbered(step, t, n)
  PROVE  Numbered(step', t, n)
BY DEF SameList, Numbered

\* A numbered list has as many steps as numbers.
LEMMA NumberedCount ==
  ASSUME StepsOK, NEW t, NEW n \in Nat, Numbered(step, t, n)
  PROVE  Cardinality(ListOf(step, t)) = n
<1>. DEFINE L == ListOf(step, t)
            f == [s \in L |-> step[s].position]
<1>1. IsFiniteSet(L)
  BY ListIsFinite
<1>2. f \in [L -> 0..(n - 1)]
  BY DEF Numbered
<1>3. IsInjective(f)
  BY DEF Numbered, IsInjective
<1>4. \A i \in 0..(n - 1) : \E s \in L : f[s] = i
  BY DEF Numbered
<1>. HIDE DEF f
<1>5. f \in Bijection(L, 0..(n - 1))
  BY <1>2, <1>3, <1>4 DEF Bijection, Injection, Surjection
<1>6. ExistsBijection(L, 0..(n - 1))
  BY <1>5 DEF ExistsBijection
<1>7. Cardinality(0..(n - 1)) = Cardinality(L)
  BY <1>1, <1>6, FS_Bijection
<1>8. Cardinality(0..(n - 1)) = n
  BY FS_Interval
<1>. QED BY <1>7, <1>8

\* Marks that come and go touch no list.
LEMMA Marks ==
  ASSUME StepTable, Live' = Live, DOMAIN step' = DOMAIN step,
         step' = [s \in DOMAIN step |-> step'[s]],
         \A s \in DOMAIN step : /\ step'[s] \in StepRow /\ step'[s].task = step[s].task
                                /\ step'[s].position = step[s].position
  PROVE  StepTable' /\ \A t : SameList(t)
BY DEF StepTable, SameList, ListOf

LEMMA UpdateEffect ==
  ASSUME StepTable, NEW t, NEW s, NEW done \in BOOLEAN, UpdateStep(t, s, done)
  PROVE  StepTable' /\ \A u : SameList(u)
<1>1. step' = UpdateTaskStep(s, done) /\ UNCHANGED row
  BY DEF UpdateStep, vars
<1>2. /\ DOMAIN step' = DOMAIN step /\ step' = [x \in DOMAIN step |-> step'[x]]
      /\ \A x \in DOMAIN step : /\ step'[x] \in StepRow /\ step'[x].task = step[x].task
                                /\ step'[x].position = step[x].position
  BY <1>1 DEF UpdateTaskStep, StepTable, StepRow
<1>3. Live' = Live
  BY <1>1 DEF Live
<1>. QED BY <1>2, <1>3, Marks

\* Setting the conversation of a task leaves its state.
LEMMA StampKeeps ==
  ASSUME BoardInv, NEW r, Stamp(r)
  PROVE  Live' = Live /\ \A t \in Live : row'[t].state = row[t].state
<1>1. CASE UNCHANGED vars
  BY <1>1 DEF vars, Live
<1>2. CASE SetActiveSession(r.task, r.session, r.user)
  <2>1. \A t \in Live : row[t] \in Row
    BY DEF BoardInv, RowInv
  <2>2. row' = [row EXCEPT ![r.task].session = r.session]
    BY <1>2 DEF SetActiveSession
  <2>. QED BY <2>1, <2>2 DEF Live, Row
<1>. QED BY <1>1, <1>2 DEF Stamp

LEMMA StartEffect ==
  ASSUME ServiceInv, NEW p \in Proc, FinishStartStep(p)
  PROVE  StepTable' /\ \A u : SameList(u)
<1>. DEFINE r == request[p]
            stopped == StopSessionSteps(r.task, r.session)
<1>1. r \in StartRequest
  BY PcTells DEF FinishStartStep, ServiceInv, RequestsOK
<1>2. step' = StartTaskStep(stopped, r.step, r.session) /\ Stamp(r) /\ r.step \in DOMAIN step
  BY DEF FinishStartStep, CommitSteps
<1>3. /\ r.session \in Session \cup {NoSession} /\ StepTable
  BY <1>1 DEF StartRequest, ServiceInv, StepsOK
<1>4. /\ DOMAIN stopped = DOMAIN step
      /\ \A x \in DOMAIN step : /\ stopped[x] \in StepRow /\ stopped[x].task = step[x].task
                                /\ stopped[x].position = step[x].position
  BY <1>3 DEF StopSessionSteps, StepTable, StepRow
<1>. HIDE DEF stopped, r
<1>5. /\ DOMAIN step' = DOMAIN step /\ step' = [x \in DOMAIN step |-> step'[x]]
      /\ \A x \in DOMAIN step : /\ step'[x] \in StepRow /\ step'[x].task = step[x].task
                                /\ step'[x].position = step[x].position
  <2>. DEFINE s == r.step
              begun == [stopped EXCEPT ![s].started = TRUE]
  <2>1. /\ DOMAIN begun = DOMAIN step
        /\ \A x \in DOMAIN step : /\ begun[x] \in StepRow /\ begun[x].task = step[x].task
                                  /\ begun[x].position = step[x].position
    BY <1>2, <1>4 DEF StepRow
  <2>2. step' = [begun EXCEPT ![s].session = r.session]
    BY <1>2 DEF StartTaskStep
  <2>. HIDE DEF begun
  <2>3. DOMAIN step' = DOMAIN step /\ step' = [x \in DOMAIN step |-> step'[x]]
    BY <2>1, <2>2
  <2>4. \A x \in DOMAIN step : x # s => step'[x] = begun[x]
    BY <2>1, <2>2
  <2>5. s \in DOMAIN step /\ step'[s] = [begun[s] EXCEPT !.session = r.session]
    BY <1>2, <2>1, <2>2
  <2>6. /\ step'[s] \in StepRow /\ step'[s].task = begun[s].task
        /\ step'[s].position = begun[s].position
    BY <1>3, <2>1, <2>5 DEF StepRow
  <2>. QED BY <2>1, <2>3, <2>4, <2>6
<1>6. Live' = Live
  BY <1>2, StampKeeps DEF ServiceInv
<1>. QED BY <1>3, <1>5, <1>6, Marks

\* The list of a task whose row is held is numbered up to what its holder
\* counted.
LEMMA ListIs ==
  ASSUME StepsOK, NEW t \in Task
  PROVE  LET n == Cardinality(ListOf(step, t))
         IN  n \in 0..MaxStepsPerTask /\ Numbered(step, t, n)
<1>1. PICK n \in 0..MaxStepsPerTask : Numbered(step, t, n)
  BY DEF StepsOK
<1>2. n \in Nat
  BY StepsAssumption
<1>. QED BY <1>1, <1>2, NumberedCount

LEMMA AddEffect ==
  ASSUME ServiceInv, NEW p \in Proc, NEW new \in Seq(Step), FinishAddSteps(p, new)
  PROVE  /\ StepTable' /\ \A u : u # request[p].task => SameList(u)
         /\ \E n \in 0..MaxStepsPerTask : Numbered(step', request[p].task, n)
<1>. DEFINE r == request[p]
            t == r.task
            n == r.n
            k == r.k
<1>1. r \in AddRequest /\ Fits(r, row, step) /\ r.pc = "adding"
  BY PcTells DEF FinishAddSteps, ServiceInv, RequestsOK
<1>2. /\ t \in Task /\ t \in Live /\ k \in 1..MaxStepsPerTask /\ n = Cardinality(ListOf(step, t))
      /\ n + k <= MaxStepsPerTask
  BY <1>1 DEF AddRequest, Fits, Locking, Live
<1>3. n \in Nat /\ k \in Nat /\ MaxStepsPerTask \in Nat /\ Numbered(step, t, n) /\ n + k \in 0..MaxStepsPerTask
  BY <1>2, ListIs, StepsAssumption DEF ServiceInv
<1>4. /\ Len(new) = k /\ IsInjective(new)
      /\ \A s \in ToSet(new) : s \notin DOMAIN step
      /\ step' = InsertTaskStep(t, new, n) /\ UNCHANGED row
  BY DEF FinishAddSteps, CommitSteps, vars
<1>. HIDE DEF r, t, n, k
<1>5. DOMAIN new = 1..k /\ ToSet(new) = {new[i] : i \in 1..k} /\ \A i \in 1..k : new[i] \in Step
  BY <1>4 DEF ToSet
<1>6. \A i \in 1..k : (CHOOSE j \in 1..Len(new) : new[j] = new[i]) = i
  <2>1. SUFFICES ASSUME NEW i \in 1..k PROVE (CHOOSE j \in 1..Len(new) : new[j] = new[i]) = i
    OBVIOUS
  <2>2. \A j \in 1..k : new[j] = new[i] => j = i
    BY <1>4, <1>5 DEF IsInjective
  <2>. QED BY <1>4, <2>2
<1>. DEFINE Fresh(i) == [task |-> t, position |-> n + i - 1, done |-> FALSE, started |-> FALSE,
                         session |-> NoSession]
<1>7. /\ DOMAIN step' = DOMAIN step \cup ToSet(new)
      /\ step' = [s \in DOMAIN step' |-> step'[s]]
      /\ \A s \in DOMAIN step : step'[s] = step[s]
  BY <1>4 DEF InsertTaskStep
<1>8. \A i \in 1..k : step'[new[i]] = Fresh(i)
  <2>1. SUFFICES ASSUME NEW i \in 1..k PROVE step'[new[i]] = Fresh(i)
    OBVIOUS
  <2>2. new[i] \in ToSet(new) /\ new[i] \notin DOMAIN step
    BY <1>4, <1>5
  <2>3. step'[new[i]] = [task |-> t, position |-> n + (CHOOSE j \in 1..Len(new) : new[j] = new[i]) - 1,
                         done |-> FALSE, started |-> FALSE, session |-> NoSession]
    BY <1>4, <2>2 DEF InsertTaskStep
  <2>. QED BY <1>6, <2>3
<1>9. /\ \A i \in 1..k : Fresh(i).task = t /\ Fresh(i).position = n + i - 1
      /\ \A i \in 1..k : Fresh(i) \in StepRow
  BY <1>2, <1>3 DEF StepRow
<1>. HIDE DEF Fresh
<1>10. IsFiniteSet(DOMAIN step')
  <2>1. new \in [1..k -> ToSet(new)]
    BY <1>5
  <2>2. new \in Surjection(1..k, ToSet(new))
    BY <1>5, <2>1 DEF Surjection
  <2>3. IsFiniteSet(1..k)
    BY <1>3, FS_Interval
  <2>4. IsFiniteSet(ToSet(new))
    BY <2>2, <2>3, FS_Surjection
  <2>5. IsFiniteSet(DOMAIN step)
    BY DEF ServiceInv, StepsOK, StepTable
  <2>6. IsFiniteSet(DOMAIN step \cup ToSet(new))
    BY <2>4, <2>5, FS_Union
  <2>. QED BY <1>7, <2>6
<1>11. Live' = Live
  BY <1>4 DEF Live
<1>12. StepTable'
  <2>1. StepTable
    BY DEF ServiceInv, StepsOK
  <2>2. DOMAIN step' \subseteq Step
    BY <1>5, <1>7, <2>1 DEF StepTable
  <2>3. \A i \in 1..k : step'[new[i]] \in StepRow /\ step'[new[i]].task = t
    BY <1>8, <1>9
  <2>4. \A s \in DOMAIN step' : step'[s] \in StepRow /\ step'[s].task \in Live
    BY <1>2, <1>5, <1>7, <2>1, <2>3 DEF StepTable
  <2>. QED BY <1>7, <1>10, <1>11, <2>2, <2>4 DEF StepTable
<1>13. \A u : u # t => SameList(u)
  BY <1>5, <1>7, <1>8, <1>9 DEF SameList, ListOf
<1>14. PICK m \in 0..MaxStepsPerTask : m = n + k
  BY <1>3
<1>15. Numbered(step', t, m)
  <2>1. ListOf(step', t) = ListOf(step, t) \cup {new[i] : i \in 1..k}
    BY <1>5, <1>7, <1>8, <1>9 DEF ListOf
  <2>2. \A s \in ListOf(step, t) : step'[s].position = step[s].position
    BY <1>7 DEF ListOf
  <2>3. \A i \in 1..k : step'[new[i]].position = n + i - 1
    BY <1>8, <1>9
  <2>4. \A s \in ListOf(step', t) : step'[s].position \in 0..(m - 1)
    <3>1. \A s \in ListOf(step, t) : step[s].position \in 0..(n - 1)
      BY <1>3 DEF Numbered
    <3>2. 0..(n - 1) \subseteq 0..(m - 1) /\ \A i \in 1..k : n + i - 1 \in 0..(m - 1)
      BY <1>3, <1>14
    <3>. QED BY <2>1, <2>2, <2>3, <3>1, <3>2
  <2>5. ASSUME NEW i \in 0..(m - 1) PROVE \E s \in ListOf(step', t) : step'[s].position = i
    <3>1. CASE i < n
      <4>1. i \in 0..(n - 1)
        BY <1>3, <3>1
      <4>. QED BY <1>3, <2>1, <2>2, <4>1 DEF Numbered
    <3>2. CASE i >= n
      <4>1. i - n + 1 \in 1..k /\ n + (i - n + 1) - 1 = i
        BY <1>3, <1>14, <3>2
      <4>. QED BY <2>1, <2>3, <4>1
    <3>. QED BY <1>3, <1>14, <3>1, <3>2
  <2>6. ASSUME NEW s \in ListOf(step', t), NEW u \in ListOf(step', t),
               step'[s].position = step'[u].position
        PROVE  s = u
    BY <1>3, <2>1, <2>2, <2>3, <2>6 DEF Numbered
  <2>. QED BY <2>4, <2>5, <2>6 DEF Numbered
<1>. QED BY <1>12, <1>13, <1>15 DEF r, t

LEMMA RemoveEffect ==
  ASSUME ServiceInv, NEW p \in Proc, FinishRemoveStep(p)
  PROVE  /\ StepTable' /\ \A u : u # request[p].task => SameList(u)
         /\ \E n \in 0..MaxStepsPerTask : Numbered(step', request[p].task, n)
<1>. DEFINE r == request[p]
            t == r.task
            s == r.step
            at == r.at
            kept == DeleteTaskStep(s)
            n == Cardinality(ListOf(step, t))
<1>1. r \in RemoveRequest /\ Fits(r, row, step) /\ r.pc = "removing"
  BY PcTells DEF FinishRemoveStep, ServiceInv, RequestsOK
<1>2. t \in Task /\ s \in ListOf(step, t) /\ at = step[s].position
  BY <1>1 DEF RemoveRequest, Fits, Locking
<1>3. n \in 0..MaxStepsPerTask /\ Numbered(step, t, n)
  BY <1>2, ListIs DEF ServiceInv
<1>4. step' = ShiftTaskSteps(kept, t, -1, at + 1, MaxStepsPerTask) /\ UNCHANGED row
  BY DEF FinishRemoveStep, CommitSteps, vars
<1>5. MaxStepsPerTask \in Nat /\ StepTable
  BY StepsAssumption DEF ServiceInv, StepsOK
<1>. HIDE DEF r, t, s, at, n
<1>6. DOMAIN kept = DOMAIN step \ {s} /\ \A x \in DOMAIN step \ {s} : kept[x] = step[x]
  BY DEF DeleteTaskStep
<1>. HIDE DEF kept
<1>7. /\ DOMAIN step' = DOMAIN step \ {s} /\ step' = [x \in DOMAIN step' |-> step'[x]]
      /\ \A x \in DOMAIN step' : kept[x].task # t => step'[x] = kept[x]
      /\ \A x \in DOMAIN step' : kept[x].position \notin (at + 1)..MaxStepsPerTask => step'[x] = kept[x]
      /\ \A x \in DOMAIN step' : kept[x] \in StepRow =>
           /\ step'[x].task = kept[x].task
           /\ kept[x].task = t /\ kept[x].position \in (at + 1)..MaxStepsPerTask =>
                step'[x].position = kept[x].position + -1
           /\ kept[x].position + -1 \in Nat => step'[x] \in StepRow
  BY <1>4, <1>6, ShiftKeepsOthers
<1>8. at \in Nat /\ at \in 0..(n - 1) /\ n \in Nat /\ n >= 1
  BY <1>2, <1>3, <1>5 DEF Numbered
<1>9. \A x \in DOMAIN step' :
        /\ x \in DOMAIN step /\ step[x] \in StepRow /\ step'[x] \in StepRow
        /\ step'[x].task = step[x].task
        /\ step[x].task # t => step'[x] = step[x]
        /\ step[x].task = t =>
             step'[x].position = IF step[x].position <= at THEN step[x].position ELSE step[x].position - 1
  <2>1. SUFFICES ASSUME NEW x \in DOMAIN step'
                 PROVE  /\ x \in DOMAIN step /\ step[x] \in StepRow /\ step'[x] \in StepRow
                        /\ step'[x].task = step[x].task
                        /\ step[x].task # t => step'[x] = step[x]
                        /\ step[x].task = t =>
                             step'[x].position = IF step[x].position <= at THEN step[x].position
                                                 ELSE step[x].position - 1
    OBVIOUS
  <2>2. x \in DOMAIN step /\ kept[x] = step[x] /\ step[x] \in StepRow
    BY <1>5, <1>6, <1>7 DEF StepTable
  <2>3. step[x].position \in Nat
    BY <2>2 DEF StepRow
  <2>4. step[x].task = t => step[x].position \in 0..(n - 1)
    BY <1>3, <2>2 DEF Numbered, ListOf
  <2>5. CASE step[x].task # t
    BY <1>7, <2>2, <2>5
  <2>6. CASE step[x].task = t /\ step[x].position <= at
    <3>1. step[x].position \notin (at + 1)..MaxStepsPerTask
      BY <1>8, <2>3, <2>6
    <3>. QED BY <1>7, <2>2, <2>6, <3>1
  <2>7. CASE step[x].task = t /\ step[x].position > at
    <3>1. step[x].position \in (at + 1)..MaxStepsPerTask /\ step[x].position + -1 \in Nat
      BY <1>3, <1>5, <1>8, <2>3, <2>4, <2>7
    <3>2. step'[x].position = step[x].position + -1 /\ step'[x] \in StepRow /\ step'[x].task = step[x].task
      BY <1>7, <2>2, <2>7, <3>1
    <3>. QED BY <1>8, <2>2, <2>3, <2>7, <3>2
  <2>. QED BY <1>8, <2>3, <2>5, <2>6, <2>7
<1>10. Live' = Live
  BY <1>4 DEF Live
<1>11. StepTable'
  <2>1. IsFiniteSet(DOMAIN step')
    BY <1>5, <1>7, FS_RemoveElement DEF StepTable
  <2>. QED BY <1>5, <1>7, <1>9, <1>10, <2>1 DEF StepTable
<1>12. ListOf(step', t) = ListOf(step, t) \ {s}
  BY <1>7, <1>9 DEF ListOf
<1>13. \A u : u # t => SameList(u)
  BY <1>2, <1>7, <1>9 DEF SameList, ListOf
<1>14. PICK m \in 0..MaxStepsPerTask : m = n - 1
  BY <1>3, <1>5, <1>8
<1>15. \A x \in ListOf(step', t) :
         /\ step[x].position \in 0..(n - 1) /\ step[x].position # at
         /\ step'[x].position = IF step[x].position <= at THEN step[x].position ELSE step[x].position - 1
  <2>1. \A x \in ListOf(step', t) : x \in ListOf(step, t) /\ x # s /\ x \in DOMAIN step' /\ step[x].task = t
    BY <1>12, <1>9 DEF ListOf
  <2>2. \A x \in ListOf(step', t) : step[x].position # at
    BY <1>2, <1>3, <2>1 DEF Numbered
  <2>. QED BY <1>3, <1>9, <2>1, <2>2 DEF Numbered
<1>16. Numbered(step', t, m)
  <2>1. \A x \in ListOf(step', t) : step'[x].position \in 0..(m - 1)
    BY <1>8, <1>14, <1>15
  <2>2. ASSUME NEW i \in 0..(m - 1) PROVE \E x \in ListOf(step', t) : step'[x].position = i
    <3>1. CASE i < at
      <4>1. PICK x \in ListOf(step, t) : step[x].position = i
        BY <1>3, <1>8, <1>14, <3>1 DEF Numbered
      <4>. QED BY <1>2, <1>8, <1>12, <1>15, <3>1, <4>1
    <3>2. CASE i >= at
      <4>1. i + 1 \in 0..(n - 1)
        BY <1>8, <1>14
      <4>2. PICK x \in ListOf(step, t) : step[x].position = i + 1
        BY <1>3, <4>1 DEF Numbered
      <4>3. x # s
        BY <1>2, <1>8, <3>2, <4>2
      <4>4. step'[x].position = (i + 1) - 1
        BY <1>8, <1>12, <1>15, <3>2, <4>2, <4>3
      <4>. QED BY <1>12, <4>2, <4>3, <4>4
    <3>. QED BY <1>8, <3>1, <3>2
  <2>3. ASSUME NEW x \in ListOf(step', t), NEW y \in ListOf(step', t),
               step'[x].position = step'[y].position
        PROVE  x = y
    <3>1. step[x].position = step[y].position
      BY <1>8, <1>15, <2>3
    <3>. QED BY <1>3, <1>12, <3>1 DEF Numbered
  <2>. QED BY <2>1, <2>2, <2>3 DEF Numbered
<1>. QED BY <1>11, <1>13, <1>16 DEF r, t

\* Where a step goes when the one at from moves to to.
NewPosition(i, from, to) ==
  IF i = from THEN to
  ELSE IF to < from /\ i \in to..(from - 1) THEN i + 1
  ELSE IF to >= from /\ i \in (from + 1)..to THEN i - 1
  ELSE i

Permutes(n, from, to) ==
  /\ \A i \in 0..(n - 1) : NewPosition(i, from, to) \in 0..(n - 1)
  /\ \A i, j \in 0..(n - 1) : NewPosition(i, from, to) = NewPosition(j, from, to) => i = j
  /\ \A j \in 0..(n - 1) : \E i \in 0..(n - 1) : NewPosition(i, from, to) = j

\* It is a permutation of the positions.
LEMMA NewPositionsPermute ==
  ASSUME NEW n \in Nat, NEW from \in 0..(n - 1), NEW to \in 0..(n - 1)
  PROVE  Permutes(n, from, to)
<1>1. \A i \in 0..(n - 1) : NewPosition(i, from, to) \in 0..(n - 1)
  BY DEF NewPosition
<1>2. \A i, j \in 0..(n - 1) : NewPosition(i, from, to) = NewPosition(j, from, to) => i = j
  BY DEF NewPosition
<1>3. ASSUME NEW j \in 0..(n - 1) PROVE \E i \in 0..(n - 1) : NewPosition(i, from, to) = j
  <2>. DEFINE i == IF j = to THEN from
                   ELSE IF to < from /\ j \in (to + 1)..from THEN j - 1
                   ELSE IF to >= from /\ j \in from..(to - 1) THEN j + 1
                   ELSE j
  <2>1. i \in 0..(n - 1)
    OBVIOUS
  <2>2. NewPosition(i, from, to) = j
    BY DEF NewPosition
  <2>. QED BY <2>1, <2>2
<1>. QED BY <1>1, <1>2, <1>3 DEF Permutes

LEMMA MoveEffect ==
  ASSUME ServiceInv, NEW p \in Proc, FinishMoveStep(p)
  PROVE  /\ StepTable' /\ \A u : u # request[p].task => SameList(u)
         /\ \E n \in 0..MaxStepsPerTask : Numbered(step', request[p].task, n)
<1>. DEFINE r == request[p]
            t == r.task
            s == r.step
            from == r.from
            to == r.to
            room == MakeRoom(t, from, to)
            n == Cardinality(ListOf(step, t))
<1>1. r \in MoveRequest /\ Fits(r, row, step) /\ r.pc = "moving"
  BY PcTells DEF FinishMoveStep, ServiceInv, RequestsOK
<1>2. t \in Task /\ s \in ListOf(step, t) /\ from = step[s].position /\ to \in Nat /\ to < n
  BY <1>1 DEF MoveRequest, Fits, Locking
<1>3. n \in 0..MaxStepsPerTask /\ Numbered(step, t, n)
  BY <1>2, ListIs DEF ServiceInv
<1>4. step' = SetTaskStepPosition(room, s, to) /\ UNCHANGED row
  BY DEF FinishMoveStep, CommitSteps, vars
<1>5. MaxStepsPerTask \in Nat /\ StepTable
  BY StepsAssumption DEF ServiceInv, StepsOK
<1>. HIDE DEF r, t, s, from, to, n
<1>6. n \in Nat /\ from \in 0..(n - 1) /\ to \in 0..(n - 1)
  BY <1>2, <1>3, <1>5 DEF Numbered
<1>7. /\ DOMAIN room = DOMAIN step
      /\ \A x \in DOMAIN step :
           /\ room[x] \in StepRow /\ room[x].task = step[x].task
           /\ step[x].task # t => room[x] = step[x]
           /\ step[x].task = t /\ step[x].position # from =>
                room[x].position = NewPosition(step[x].position, from, to)
  <2>1. \A x \in DOMAIN step : step[x] \in StepRow /\ step[x].position \in Nat
    BY <1>5 DEF StepTable, StepRow
  <2>2. CASE to < from
    <3>1. room = ShiftTaskSteps(step, t, 1, to, from - 1)
      BY <2>2 DEF MakeRoom
    <3>. HIDE DEF room
    <3>2. /\ DOMAIN room = DOMAIN step
          /\ \A x \in DOMAIN step :
               /\ step[x].task # t => room[x] = step[x]
               /\ step[x].position \notin to..(from - 1) => room[x] = step[x]
               /\ room[x].task = step[x].task
               /\ step[x].task = t /\ step[x].position \in to..(from - 1) =>
                    room[x].position = step[x].position + 1
               /\ step[x].position + 1 \in Nat => room[x] \in StepRow
      BY <2>1, <3>1, ShiftKeepsOthers
    <3>. QED BY <1>6, <2>1, <2>2, <3>2 DEF NewPosition
  <2>3. CASE to >= from
    <3>1. room = ShiftTaskSteps(step, t, -1, from + 1, to)
      BY <1>6, <2>3 DEF MakeRoom
    <3>. HIDE DEF room
    <3>2. /\ DOMAIN room = DOMAIN step
          /\ \A x \in DOMAIN step :
               /\ step[x].task # t => room[x] = step[x]
               /\ step[x].position \notin (from + 1)..to => room[x] = step[x]
               /\ room[x].task = step[x].task
               /\ step[x].task = t /\ step[x].position \in (from + 1)..to =>
                    room[x].position = step[x].position + -1
               /\ step[x].position + -1 \in Nat => room[x] \in StepRow
      BY <2>1, <3>1, ShiftKeepsOthers
    <3>3. \A x \in DOMAIN step : room[x] \in StepRow
      BY <1>6, <2>1, <3>2
    <3>. QED BY <1>6, <2>1, <2>3, <3>2, <3>3 DEF NewPosition
  <2>. QED BY <1>6, <2>2, <2>3
<1>. HIDE DEF room
<1>8. /\ DOMAIN step' = DOMAIN step /\ step' = [x \in DOMAIN step |-> step'[x]]
      /\ s \in DOMAIN step /\ step[s].task = t
      /\ \A x \in DOMAIN step : x # s => step'[x] = room[x]
      /\ step'[s] = [room[s] EXCEPT !.position = to]
  BY <1>2, <1>4, <1>7 DEF SetTaskStepPosition, ListOf
<1>9. step'[s] \in StepRow /\ step'[s].task = t /\ step'[s].position = to
  BY <1>2, <1>7, <1>8 DEF StepRow
<1>10. Live' = Live
  BY <1>4 DEF Live
<1>11. StepTable'
  BY <1>5, <1>7, <1>8, <1>9, <1>10 DEF StepTable
<1>12. \A u : ListOf(step', u) = ListOf(step, u)
  <2>1. \A x \in DOMAIN step : step'[x].task = step[x].task
    BY <1>7, <1>8, <1>9
  <2>. QED BY <1>8, <2>1 DEF ListOf
<1>13. \A u : u # t => SameList(u)
  <2>1. \A u : u # t => \A x \in ListOf(step, u) : x # s /\ step'[x] = step[x]
    BY <1>7, <1>8 DEF ListOf
  <2>. QED BY <1>12, <2>1 DEF SameList
<1>14. \A x \in ListOf(step, t) :
         /\ step[x].position \in 0..(n - 1)
         /\ step'[x].position = NewPosition(step[x].position, from, to)
  <2>1. SUFFICES ASSUME NEW x \in ListOf(step, t)
                 PROVE  /\ step[x].position \in 0..(n - 1)
                        /\ step'[x].position = NewPosition(step[x].position, from, to)
    OBVIOUS
  <2>2. step[x].position \in 0..(n - 1) /\ (step[x].position = from => x = s)
    BY <1>2, <1>3 DEF Numbered
  <2>3. CASE x = s
    BY <1>2, <1>9, <2>2, <2>3 DEF NewPosition
  <2>4. CASE x # s
    BY <1>7, <1>8, <2>2, <2>4 DEF ListOf
  <2>. QED BY <2>3, <2>4
<1>15. Numbered(step', t, n)
  <2>0. /\ \A i \in 0..(n - 1) : NewPosition(i, from, to) \in 0..(n - 1)
        /\ \A i, j \in 0..(n - 1) : NewPosition(i, from, to) = NewPosition(j, from, to) => i = j
        /\ \A j \in 0..(n - 1) : \E i \in 0..(n - 1) : NewPosition(i, from, to) = j
    <3>1. Permutes(n, from, to)
      BY <1>6, NewPositionsPermute
    <3>. QED BY <3>1 DEF Permutes
  <2>1. \A x \in ListOf(step', t) : step'[x].position \in 0..(n - 1)
    BY <1>12, <1>14, <2>0
  <2>2. ASSUME NEW j \in 0..(n - 1) PROVE \E x \in ListOf(step', t) : step'[x].position = j
    <3>1. PICK i \in 0..(n - 1) : NewPosition(i, from, to) = j
      BY <2>0
    <3>2. PICK x \in ListOf(step, t) : step[x].position = i
      BY <1>3 DEF Numbered
    <3>. QED BY <1>12, <1>14, <3>1, <3>2
  <2>3. ASSUME NEW x \in ListOf(step', t), NEW y \in ListOf(step', t),
               step'[x].position = step'[y].position
        PROVE  x = y
    <3>1. step[x].position = step[y].position
      BY <1>12, <1>14, <2>0, <2>3
    <3>. QED BY <1>3, <1>12, <3>1 DEF Numbered
  <2>. QED BY <2>1, <2>2, <2>3 DEF Numbered
<1>. QED BY <1>3, <1>11, <1>13, <1>15 DEF r, t

LEMMA CommitEffect ==
  ASSUME ServiceInv, StepCommit
  PROVE  /\ StepTable' /\ Live' = Live /\ \A t \in Live : row'[t].state = row[t].state
         /\ \A t \in Task : \E n \in 0..MaxStepsPerTask : Numbered(step', t, n)
         /\ \/ UNCHANGED request /\ \A t : SameList(t)
            \/ \E p \in Proc : /\ request[p].pc \in Locking
                               /\ Becomes(p, Idle)
                               /\ \A t : t # request[p].task => SameList(t)
<1>0. StepTable /\ BoardInv /\ \A t \in Task : \E n \in 0..MaxStepsPerTask : Numbered(step, t, n)
  BY DEF ServiceInv, StepsOK
<1>1. ASSUME NEW p \in Proc,
             \/ \E new \in Seq(Step) : FinishAddSteps(p, new)
             \/ FinishRemoveStep(p) \/ FinishMoveStep(p)
      PROVE  /\ StepTable' /\ \A t : t # request[p].task => SameList(t)
             /\ \A t \in Task : \E n \in 0..MaxStepsPerTask : Numbered(step', t, n)
             /\ UNCHANGED row /\ request[p].pc \in Locking /\ Becomes(p, Idle)
  <2>1. /\ StepTable' /\ \A t : t # request[p].task => SameList(t)
        /\ \E n \in 0..MaxStepsPerTask : Numbered(step', request[p].task, n)
    BY <1>1, AddEffect, RemoveEffect, MoveEffect
  <2>2. UNCHANGED row /\ request[p].pc \in Locking /\ Becomes(p, Idle)
    BY <1>1 DEF FinishAddSteps, FinishRemoveStep, FinishMoveStep, CommitSteps, Locking, vars
  <2>. QED BY <1>0, <2>1, <2>2, StillNumbered
<1>2. ASSUME NEW p \in Proc, FinishStartStep(p)
      PROVE  /\ StepTable' /\ \A t : SameList(t)
             /\ Live' = Live /\ \A t \in Live : row'[t].state = row[t].state
             /\ request[p].pc \in Locking /\ Becomes(p, Idle)
  <2>1. Stamp(request[p]) /\ request[p].pc \in Locking /\ Becomes(p, Idle)
    BY <1>2 DEF FinishStartStep, CommitSteps, Locking
  <2>. QED BY <1>0, <1>2, <2>1, StartEffect, StampKeeps
<1>3. ASSUME NEW t \in Task, NEW s \in Step, NEW done \in BOOLEAN, UpdateStep(t, s, done)
      PROVE  StepTable' /\ (\A u : SameList(u)) /\ UNCHANGED <<row, request>>
  BY <1>0, <1>3, UpdateEffect DEF UpdateStep, vars
<1>4. (\A t : SameList(t)) => \A t \in Task : \E n \in 0..MaxStepsPerTask : Numbered(step', t, n)
  BY <1>0, StillNumbered
<1>5. UNCHANGED row => Live' = Live /\ \A t \in Live : row'[t].state = row[t].state
  BY DEF Live
<1>6. CASE \E p \in Proc : \/ \E new \in Seq(Step) : FinishAddSteps(p, new)
                           \/ FinishRemoveStep(p) \/ FinishMoveStep(p)
  BY <1>1, <1>5, <1>6
<1>7. CASE \E p \in Proc : FinishStartStep(p)
  BY <1>2, <1>4, <1>7
<1>8. CASE \E t \in Task, s \in Step, done \in BOOLEAN : UpdateStep(t, s, done)
  BY <1>3, <1>4, <1>5, <1>8
<1>. QED BY <1>6, <1>7, <1>8 DEF StepCommit

\* While a request holds a row, nobody else moves the task or edits its list.
LEMMA HolderKept ==
  ASSUME ServiceInv, ServiceStep, NEW q \in Proc, request[q].pc \in Locking,
         request'[q] = request[q]
  PROVE  /\ request[q].task \in Live' /\ row'[request[q].task].state = row[request[q].task].state
         /\ SameList(request[q].task)
<1>. DEFINE t == request[q].task
<1>1. t \in Live
  BY DEF ServiceInv, RequestsOK, Fits, Live
<1>2. UNCHANGED step => SameList(t)
  BY DEF SameList
<1>3. CASE BoardCall
  <2>1. t \in Live' /\ row'[t] = row[t]
    BY <1>1, <1>3 DEF BoardCall, Cascades, BoardWaits, RowHeld, KeyHeld
  <2>2. step' = [s \in {x \in DOMAIN step : step[x].task \in Live'} |-> step[s]]
    BY <1>3 DEF BoardCall, Cascades, StepsFollow
  <2>3. SameList(t)
    BY <2>1, <2>2 DEF SameList, ListOf
  <2>. QED BY <2>1, <2>3
<1>4. CASE OtherCall
  BY <1>1, <1>2, <1>4 DEF OtherCall, SettleQuestions, FileQuestion, vars, Live
<1>5. CASE \E p \in Proc, x \in Task : FinishCreate(p, x)
  <2>1. t \in Live' /\ row'[t] = row[t]
    BY <1>1, <1>5 DEF FinishCreate, BoardWaits, RowHeld, KeyHeld
  <2>. QED BY <1>2, <1>5, <2>1 DEF FinishCreate
<1>6. CASE \E p \in Proc : \E r : LockCall(p, r)
  BY <1>1, <1>2, <1>6 DEF LockCall, vars, Live
<1>7. CASE StepCommit
  <2>1. Live' = Live /\ \A x \in Live : row'[x].state = row[x].state
    BY <1>7, CommitEffect
  <2>2. SameList(t)
    <3>1. CASE \A x : SameList(x)
      BY <3>1
    <3>2. ASSUME NEW p \in Proc, request[p].pc \in Locking, Becomes(p, Idle),
                 \A x : x # request[p].task => SameList(x)
          PROVE  SameList(t)
      <4>1. p # q
        BY <3>2, IdleIs DEF Becomes, ServiceInv, RequestsOK
      <4>2. t # request[p].task
        BY <3>2, <4>1 DEF ServiceInv, RequestsOK, OneHolder
      <4>. QED BY <3>2, <4>2
    <3>. QED BY <1>7, <3>1, <3>2, CommitEffect
  <2>. QED BY <1>1, <2>1, <2>2
<1>8. CASE \E p \in Proc : MovePartialFeatureSubtrees(p)
  BY <1>1, <1>2, <1>8 DEF MovePartialFeatureSubtrees, vars, Live
<1>. QED BY <1>3, <1>4, <1>5, <1>6, <1>7, <1>8 DEF ServiceStep

LEMMA CreateGoesOn ==
  ASSUME ServiceInv, NEW p \in Proc, NEW t \in Task, FinishCreate(p, t)
  PROVE  NextRequest
<1>1. CreateRequest(request[p])
  BY PcTells DEF FinishCreate, InsertTask, ServiceInv, RequestsOK
<1>2. /\ request[p].session \in Session \cup {NoSession} /\ request[p].user \in User \cup {Nobody}
      /\ request[p].session # NoSession => request[p].user \in User
  BY <1>1 DEF CreateRequest
<1>3. markActiveSession(p, t, request[p].session, request[p].user)
  BY DEF FinishCreate
<1>. QED BY <1>2, <1>3, MarkFollows

LEMMA RequestsStep == ASSUME ServiceInv, ServiceStep PROVE RequestsOK'
<1>0. RequestsOK
  BY DEF ServiceInv
<1>1. ASSUME NEW q \in Proc, request'[q] = request[q] PROVE Fits(request'[q], row', step')
  <2>1. Fits(request[q], row, step)
    BY <1>0 DEF RequestsOK
  <2>. QED BY <1>1, <2>1, HolderKept, FitsPersists
<1>2. ASSUME NEW p \in Proc, NEW r, AnyRequest(r), Becomes(p, r), Fits(r, row', step'),
             r.pc \in Locking => ~ RowHeld(r.task)
      PROVE  RequestsOK'
  <2>1. DOMAIN request' = Proc /\ request'[p] = r /\ \A q \in Proc : q # p => request'[q] = request[q]
    BY <1>0, <1>2 DEF Becomes, RequestsOK
  <2>2. \A q \in Proc : AnyRequest(request'[q]) /\ Fits(request'[q], row', step')
    BY <1>0, <1>1, <1>2, <2>1 DEF RequestsOK
  <2>3. ASSUME NEW q \in Proc, q # p, request[q].pc \in Locking, r.pc \in Locking,
               request[q].task = r.task
        PROVE  FALSE
    BY <1>2, <2>3 DEF RowHeld, KeyHeld
  <2>4. OneHolder'
    BY <1>0, <2>1, <2>3 DEF OneHolder, RequestsOK
  <2>. QED BY <2>1, <2>2, <2>4 DEF RequestsOK
<1>3. ASSUME UNCHANGED request PROVE RequestsOK'
  BY <1>0, <1>1, <1>3 DEF RequestsOK, OneHolder
<1>4. ASSUME NextRequest PROVE RequestsOK'
  <2>1. ASSUME NEW p \in Proc, NEW r, AnyRequest(r), r.pc \notin Holding, Becomes(p, r)
        PROVE  RequestsOK'
    <3>1. Fits(r, row', step') /\ r.pc \notin Locking
      BY <2>1 DEF Fits, Holding
    <3>. QED BY <1>2, <2>1, <3>1
  <2>. QED BY <1>3, <1>4, <2>1 DEF NextRequest
<1>5. ASSUME NEW p \in Proc, NEW t \in Task, FinishCreate(p, t) PROVE NextRequest
  BY <1>5, CreateGoesOn
<1>6. ASSUME NEW p \in Proc, NEW r, LockCall(p, r) PROVE RequestsOK'
  <2>1. Fits(r, row', step')
    BY <1>6 DEF LockCall, vars
  <2>. QED BY <1>2, <1>6, <2>1 DEF LockCall
<1>7. ASSUME StepCommit PROVE NextRequest
  BY <1>7, CommitEffect, IdleIs, GoesOn DEF NextRequest
<1>8. ASSUME NEW p \in Proc, MovePartialFeatureSubtrees(p) PROVE RequestsOK'
  <2>1. PICK moved : Becomes(p, [pc |-> "ending", moved |-> moved])
    BY <1>8 DEF MovePartialFeatureSubtrees
  <2>. DEFINE r == [pc |-> "ending", moved |-> moved]
  <2>2. AnyRequest(r) /\ r.pc \notin Locking
    BY DEF AnyRequest, CycleRequest, Locking
  <2>3. Becomes(p, r)
    BY <2>1
  <2>. HIDE DEF r
  <2>4. Fits(r, row', step')
    BY <2>2 DEF Fits
  <2>. QED BY <1>2, <2>2, <2>3, <2>4
<1>. QED BY <1>4, <1>5, <1>6, <1>7, <1>8 DEF ServiceStep, BoardCall, OtherCall

LEMMA StepsStep == ASSUME ServiceInv, ServiceStep PROVE StepsOK'
<1>0. StepTable /\ \A t \in Task : \E n \in 0..MaxStepsPerTask : Numbered(step, t, n)
  BY DEF ServiceInv, StepsOK
<1>1. CASE BoardCall
  <2>1. step' = [s \in {x \in DOMAIN step : step[x].task \in Live'} |-> step[s]]
    BY <1>1 DEF BoardCall, Cascades, StepsFollow
  <2>2. IsFiniteSet(DOMAIN step')
    BY <1>0, <2>1, FS_Subset DEF StepTable
  <2>3. StepTable'
    BY <1>0, <2>1, <2>2 DEF StepTable
  <2>4. ASSUME NEW t \in Task PROVE \E n \in 0..MaxStepsPerTask : Numbered(step', t, n)
    <3>1. CASE t \in Live'
      <4>1. SameList(t)
        BY <2>1, <3>1 DEF SameList, ListOf
      <4>. QED BY <1>0, <4>1, StillNumbered
    <3>2. CASE t \notin Live'
      <4>1. ListOf(step', t) = {}
        BY <2>1, <3>2 DEF ListOf
      <4>2. 0..(0 - 1) = {} /\ 0 \in 0..MaxStepsPerTask
        BY StepsAssumption
      <4>3. Numbered(step', t, 0)
        BY <4>1, <4>2 DEF Numbered
      <4>. QED BY <4>2, <4>3
    <3>. QED BY <3>1, <3>2
  <2>. QED BY <2>3, <2>4 DEF StepsOK
<1>2. ASSUME UNCHANGED step, Live \subseteq Live' PROVE StepsOK'
  BY <1>0, <1>2 DEF StepsOK, StepTable
<1>3. CASE OtherCall
  BY <1>2, <1>3 DEF OtherCall, SettleQuestions, FileQuestion, vars, Live
<1>4. ASSUME NEW p \in Proc, NEW t \in Task, FinishCreate(p, t) PROVE StepsOK'
  <2>1. Live \subseteq Live' /\ UNCHANGED step
    BY <1>4 DEF FinishCreate, InsertTask, Create, Live
  <2>. QED BY <1>2, <2>1
<1>5. CASE \E p \in Proc : \E r : LockCall(p, r)
  BY <1>2, <1>5 DEF LockCall, vars, Live
<1>6. CASE StepCommit
  BY <1>6, CommitEffect DEF StepsOK
<1>7. CASE \E p \in Proc : MovePartialFeatureSubtrees(p)
  BY <1>2, <1>7 DEF MovePartialFeatureSubtrees, vars, Live
<1>. QED BY <1>1, <1>3, <1>4, <1>5, <1>6, <1>7 DEF ServiceStep

\* What the end of a cycle has moved stays as it is until the commit.
LEMMA MovedKept ==
  ASSUME ServiceInv, ServiceStep, NEW q \in Proc, request[q].pc = "ending",
         NEW t \in DOMAIN request[q].moved
  PROVE  t \in Live' /\ row'[t] = row[t]
<1>1. t \in Live /\ RowHeld(t)
  BY DEF ServiceInv, MoversOK, RowHeld
<1>2. BoardWaits => t \in Live' /\ row'[t] = row[t]
  BY <1>1 DEF BoardWaits
<1>3. UNCHANGED row => t \in Live' /\ row'[t] = row[t]
  BY <1>1 DEF Live
<1>4. CASE BoardCall \/ \E p \in Proc, x \in Task : FinishCreate(p, x)
  BY <1>2, <1>4 DEF BoardCall, Cascades, FinishCreate
<1>5. CASE OtherCall \/ (\E p \in Proc : \E r : LockCall(p, r)) \/ \E p \in Proc : MovePartialFeatureSubtrees(p)
  BY <1>3, <1>5 DEF OtherCall, SettleQuestions, FileQuestion, LockCall, MovePartialFeatureSubtrees, vars
<1>6. ASSUME NEW p \in Proc, FinishStartStep(p) PROVE t \in Live' /\ row'[t] = row[t]
  <2>1. request[p].pc = "starting" /\ Stamp(request[p])
    BY <1>6 DEF FinishStartStep
  <2>2. t # request[p].task
    BY <2>1 DEF ServiceInv, MoversOK, Locking
  <2>. QED BY <1>1, <1>3, <2>1, <2>2 DEF Stamp, SetActiveSession, vars, Live
<1>7. CASE StepCommit
  BY <1>3, <1>6, <1>7 DEF StepCommit, FinishAddSteps, FinishRemoveStep, FinishMoveStep, UpdateStep, vars
<1>. QED BY <1>4, <1>5, <1>7 DEF ServiceStep

LEMMA MoversStep == ASSUME ServiceInv, ServiceStep PROVE MoversOK'
<1>0. DOMAIN request = Proc /\ MoversOK
  BY DEF ServiceInv, RequestsOK
<1>1. ASSUME NEW p \in Proc, request'[p] = request[p], request[p].pc = "ending"
      PROVE  DOMAIN request[p].moved \subseteq Live'
  BY <1>1, MovedKept
<1>2. CASE NextRequest
  <2>1. \A p \in Proc : request'[p].pc \in Holding => request'[p] = request[p]
    BY <1>0, <1>2 DEF NextRequest, Becomes
  <2>. QED BY <1>0, <1>1, <2>1 DEF MoversOK, Holding
<1>3. ASSUME NEW z \in Proc, NEW r, LockCall(z, r) PROVE MoversOK'
  <2>1. /\ request'[z] = r /\ r.pc \in Locking /\ r.pc # "ending"
        /\ \A p \in Proc : p # z => request'[p] = request[p]
    BY <1>0, <1>3 DEF LockCall, Becomes, Locking
  <2>2. \A p \in Proc : request[p].pc = "ending" => r.task \notin DOMAIN request[p].moved
    BY <1>3 DEF LockCall, RowHeld
  <2>. QED BY <1>0, <1>1, <2>1, <2>2 DEF MoversOK
<1>4. ASSUME NEW z \in Proc, MovePartialFeatureSubtrees(z) PROVE MoversOK'
  <2>1. PICK moved \in Restamps(request[z].subtrees \cap Live, cycle, InsertCycle) :
          Becomes(z, [pc |-> "ending", moved |-> moved])
    BY <1>4 DEF MovePartialFeatureSubtrees
  <2>2. DOMAIN moved \subseteq Live /\ \A x \in DOMAIN moved : ~ KeyHeld(x)
    BY <1>4, <2>1 DEF MovePartialFeatureSubtrees, Restamps
  <2>3. /\ request'[z] = [pc |-> "ending", moved |-> moved]
        /\ \A p \in Proc : p # z => request'[p] = request[p]
    BY <1>0, <2>1 DEF Becomes
  <2>4. request'[z].pc = "ending" /\ request'[z].moved = moved /\ "ending" \notin Locking
    BY <2>3 DEF Locking
  <2>5. Live' = Live
    BY <1>4 DEF MovePartialFeatureSubtrees, vars, Live
  <2>6. \A q \in Proc : request'[q].pc \in Locking => request'[q].task \notin DOMAIN moved
    BY <2>2, <2>3, <2>4 DEF KeyHeld
  <2>. QED BY <1>0, <2>2, <2>3, <2>4, <2>5, <2>6 DEF MoversOK
<1>5. ASSUME NEW p \in Proc, NEW t \in Task, FinishCreate(p, t) PROVE NextRequest
  BY <1>5, CreateGoesOn
<1>6. ASSUME StepCommit PROVE NextRequest
  BY <1>6, CommitEffect, IdleIs, GoesOn DEF NextRequest
<1>. QED BY <1>2, <1>3, <1>4, <1>5, <1>6 DEF ServiceStep, BoardCall, OtherCall

LEMMA ServiceInvInit == ServiceInit => ServiceInv
<1>. SUFFICES ASSUME ServiceInit PROVE ServiceInv
  OBVIOUS
<1>1. BoardInv
  BY InitBoardInv DEF ServiceInit
<1>2. DOMAIN step = {} /\ step = [s \in DOMAIN step |-> step[s]]
  BY DEF ServiceInit, StepsInit
<1>3. StepTable
  BY <1>2, FS_EmptySet DEF StepTable
<1>4. \A t \in Task : Numbered(step, t, 0)
  <2>1. \A t : ListOf(step, t) = {}
    BY <1>2 DEF ListOf
  <2>2. 0..(0 - 1) = {}
    OBVIOUS
  <2>. QED BY <2>1, <2>2 DEF Numbered
<1>5. StepsOK
  BY <1>3, <1>4, StepsAssumption DEF StepsOK
<1>6. DOMAIN request = Proc /\ \A p \in Proc : request[p] = Idle
  BY DEF ServiceInit, StepsInit
<1>7. RequestsOK
  BY <1>6, IdleIs DEF RequestsOK, OneHolder, Fits
<1>8. MoversOK
  BY <1>6 DEF MoversOK, Idle
<1>. QED BY <1>1, <1>5, <1>7, <1>8 DEF ServiceInv

LEMMA ServiceInvStep == ServiceInv /\ [ServiceNext]_serviceVars => ServiceInv'
<1>. SUFFICES ASSUME ServiceInv, [ServiceNext]_serviceVars PROVE ServiceInv'
  OBVIOUS
<1>1. ServiceStep
  BY AllSteps
<1>2. BoardInv'
  BY <1>1, BoardSteps, NextBoardInv DEF ServiceInv
<1>. QED BY <1>1, <1>2, RequestsStep, StepsStep, MoversStep DEF ServiceInv

\* The board, the checklists and what every request under way knows of them
\* are as they should be.
THEOREM ServiceInvariant == ServiceSpec => []ServiceInv
<1>. QED BY ServiceInvInit, ServiceInvStep, PTL DEF ServiceSpec

\* Whatever tools and handlers do, in however many transactions, the board does.
THEOREM BoardImplemented == ServiceSpec => ImplementsBoard
<1>1. ServiceInv /\ [ServiceNext]_serviceVars => (vars' # vars => Next)
  BY AllSteps, BoardSteps
<1>. QED BY <1>1, ServiceInvariant, PTL DEF ServiceSpec, ImplementsBoard

\* So the service is a task board, and everything proved of one holds of it.
THEOREM ServiceIsABoard == ServiceSpec => Spec
<1>1. ServiceInit => Init
  BY DEF ServiceInit
<1>2. ServiceInv /\ [ServiceNext]_serviceVars => [Next]_vars
  BY AllSteps, BoardSteps
<1>. QED BY <1>1, <1>2, ServiceInvariant, PTL DEF ServiceSpec, Spec

THEOREM BoardPromisesHold ==
  ServiceSpec => /\ [](SessionHeldByOwner /\ ClosedAsksNothing /\ ClocksMatchState /\ DepsAcyclic)
                 /\ VisitsFinishNothingOpen /\ RollUpNeverOverOpenWork /\ CloseNeverStrandsParent
<1>. QED BY ServiceIsABoard, SessionsHeld, ClosedTasksAskNothing, ClocksAgree, DependenciesAcyclic,
            VisitsLookAfresh, RollUpWaitsForAll, NoParentStranded, PTL

\* The positions of every checklist are 0, 1, 2 ... without gap or repetition.
THEOREM ChecklistsInOrder == ServiceSpec => []StepsInOrder
<1>1. ServiceInv => StepsInOrder
  <2>1. SUFFICES ASSUME ServiceInv, NEW t \in Live
                 PROVE  {step[s].position : s \in ListTaskSteps(t)} = 0..(CountTaskSteps(t) - 1)
    BY DEF StepsInOrder
  <2>2. t \in Task /\ StepsOK
    BY <2>1 DEF ServiceInv, BoardInv
  <2>. DEFINE n == Cardinality(ListOf(step, t))
  <2>3. Numbered(step, t, n)
    BY <2>2, ListIs
  <2>4. ListTaskSteps(t) = ListOf(step, t) /\ CountTaskSteps(t) = n
    BY <2>2, ListIsFinite
  <2>. HIDE DEF n
  <2>. QED BY <2>3, <2>4 DEF Numbered
<1>. QED BY <1>1, ServiceInvariant, PTL

\* A mark appears where start_step puts it, and nowhere else.
LEMMA OnlyStartsStart ==
  ASSUME ServiceInv, ServiceStep, NEW s, Starts(s)
  PROVE  \E p \in Proc : FinishStartStep(p) /\ s = request[p].step
<1>0. /\ s \in DOMAIN step /\ s \in DOMAIN step' /\ step'[s].started /\ ~ step[s].started
      /\ StepTable
  BY DEF Starts, ServiceInv, StepsOK
<1>1. step'[s] # step[s]
  BY <1>0
<1>2. ~ BoardCall
  BY <1>0, <1>1 DEF BoardCall, Cascades, StepsFollow
<1>3. StepCommit
  BY <1>1, <1>2 DEF ServiceStep, OtherCall, FinishCreate, LockCall, MovePartialFeatureSubtrees
<1>4. ASSUME NEW p \in Proc, NEW new \in Seq(Step), FinishAddSteps(p, new) PROVE FALSE
  BY <1>0, <1>1, <1>4 DEF FinishAddSteps, CommitSteps, InsertTaskStep
<1>5. ASSUME NEW p \in Proc, FinishRemoveStep(p) PROVE FALSE
  <2>. DEFINE r == request[p]
              kept == DeleteTaskStep(r.step)
  <2>1. step' = ShiftTaskSteps(kept, r.task, -1, r.at + 1, MaxStepsPerTask)
    BY <1>5 DEF FinishRemoveStep, CommitSteps
  <2>. HIDE DEF kept
  <2>2. DOMAIN step' = DOMAIN kept
    BY <2>1, ShiftKeepsOthers
  <2>3. s \in DOMAIN kept /\ kept[s] = step[s]
    BY <1>0, <2>2 DEF kept, DeleteTaskStep
  <2>4. kept[s] \in StepRow
    BY <1>0, <2>3 DEF StepTable
  <2>5. step'[s].started = kept[s].started
    BY <2>1, <2>3, <2>4, ShiftKeepsOthers
  <2>. QED BY <1>0, <2>3, <2>5
<1>6. ASSUME NEW p \in Proc, FinishMoveStep(p) PROVE FALSE
  <2>. DEFINE r == request[p]
              room == MakeRoom(r.task, r.from, r.to)
  <2>1. step' = SetTaskStepPosition(room, r.step, r.to)
    BY <1>6 DEF FinishMoveStep, CommitSteps
  <2>2. step[s] \in StepRow
    BY <1>0 DEF StepTable
  <2>3. s \in DOMAIN room /\ room[s].started = step[s].started
    BY <1>0, <2>2, ShiftKeepsOthers DEF MakeRoom
  <2>. HIDE DEF room
  <2>4. step'[s].started = room[s].started
    BY <2>1, <2>3 DEF SetTaskStepPosition
  <2>. QED BY <1>0, <2>3, <2>4
<1>7. ASSUME NEW t \in Task, NEW x \in Step, NEW done \in BOOLEAN, UpdateStep(t, x, done) PROVE FALSE
  <2>1. step' = UpdateTaskStep(x, done)
    BY <1>7 DEF UpdateStep
  <2>2. step[s] \in StepRow
    BY <1>0 DEF StepTable
  <2>. QED BY <1>0, <2>1, <2>2 DEF UpdateTaskStep, StepRow
<1>8. ASSUME NEW p \in Proc, FinishStartStep(p) PROVE s = request[p].step
  <2>. DEFINE r == request[p]
              stopped == StopSessionSteps(r.task, r.session)
  <2>1. step' = StartTaskStep(stopped, r.step, r.session)
    BY <1>8 DEF FinishStartStep, CommitSteps
  <2>2. step[s] \in StepRow
    BY <1>0 DEF StepTable
  <2>3. s \in DOMAIN stopped /\ (stopped[s].started => step[s].started)
    BY <1>0, <2>2 DEF StopSessionSteps, StepRow
  <2>. HIDE DEF stopped
  <2>4. s # r.step => step'[s] = stopped[s]
    BY <2>1, <2>3 DEF StartTaskStep
  <2>. QED BY <1>0, <2>3, <2>4
<1>. QED BY <1>3, <1>4, <1>5, <1>6, <1>7, <1>8 DEF StepCommit

\* A step starts only on a task in doing.
THEOREM StepsStartInDoing == ServiceSpec => StartsOnlyInDoing
<1>1. ServiceInv /\ [ServiceNext]_serviceVars =>
        \A s \in Step : Starts(s) => row[step[s].task].state = "doing"
  <2>1. SUFFICES ASSUME ServiceInv, [ServiceNext]_serviceVars, NEW s \in Step, Starts(s)
                 PROVE  row[step[s].task].state = "doing"
    OBVIOUS
  <2>2. PICK p \in Proc : FinishStartStep(p) /\ s = request[p].step
    BY <2>1, AllSteps, OnlyStartsStart
  <2>3. request[p].pc = "starting" /\ Fits(request[p], row, step)
    BY <2>1, <2>2 DEF FinishStartStep, ServiceInv, RequestsOK
  <2>4. row[request[p].task].state = "doing" /\ s \in ListOf(step, request[p].task)
    BY <2>2, <2>3 DEF Fits, Locking
  <2>. QED BY <2>4 DEF ListOf
<1>. QED BY <1>1, ServiceInvariant, PTL DEF ServiceSpec, StartsOnlyInDoing
===============================================================================
