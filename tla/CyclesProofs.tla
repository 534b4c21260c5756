----------------------------- MODULE CyclesProofs -----------------------------
(***************************************************************************)
(* What Service promises of cycles, for any board and any number of        *)
(* requests: every task has a cycle there is, and the end of a cycle       *)
(* leaves no open top-level work behind in whatever order the database     *)
(* visits the rows.                                                        *)
(***************************************************************************)
EXTENDS ServiceProofs

(* The steps of the service, taken apart by what they do to the tables     *)
(* around the board.                                                       *)

\* A request about the answer to a question.
Mailing == Answering \cup {"handing"}

\* One that has read cycles and holds on to them.
CycleWork == {"creating", "closing", "ending"}

\* One that is not about an answer goes on to something that is not either;
\* a create starts with the active cycle, or with the one of its parent.
PlainRequest ==
  \/ UNCHANGED request
  \/ \E p \in Proc : \E r :
       /\ Becomes(p, r)
       /\ request[p].pc \notin Mailing /\ r.pc \notin Mailing
       /\ r.pc \in CycleWork =>
            r.pc = "creating" /\ (r.cycle = active \/ \E t \in Live : r.cycle = cycle[t])

\* The board loses tasks with their questions, or questions only.
Shrinks ==
  \/ Live' = Live /\ asking' \subseteq asking
  \/ Live' \subseteq Live /\ asking' = asking \cap Live'

Ripple == Cascades /\ Shrinks /\ PlainRequest

\* Calls around the board that keep to one side.
Aside ==
  /\ UNCHANGED <<questionVars, cycleVars>> /\ PlainRequest
  /\ Live' = Live /\ UNCHANGED asking /\ DOMAIN step \subseteq DOMAIN step'

Removal ==
  /\ QuestionsWait /\ QuestionsFollow
  /\ UNCHANGED cycleVars /\ UNCHANGED vars /\ PlainRequest

Kinds ==
  \/ Ripple \/ Aside \/ Removal
  \/ \E p \in Proc, t \in Task : FinishCreate(p, t)
  \/ \E p \in Proc : (BeginEndCycle(p) \/ CycleCommits(p)) /\ UNCHANGED questionVars
  \/ QuestionCalls
  \/ \E p \in Proc : Fail(p)

LEMMA Plain ==
  ASSUME NEW p \in Proc, NEW r, Becomes(p, r), request[p].pc \notin Mailing, r.pc \notin Mailing,
         r.pc \notin CycleWork
  PROVE  PlainRequest
BY DEF PlainRequest

LEMMA IdlePlain == Idle.pc \notin Mailing /\ Idle.pc \notin CycleWork
BY DEF Idle, Mailing, Answering, CycleWork

LEMMA Ends ==
  ASSUME NEW p \in Proc, Becomes(p, Idle), request[p].pc \notin Mailing
  PROVE  PlainRequest
BY IdlePlain, Plain

-----------------------------------------------------------------------------
(* The board. *)

LEMMA MovesShrink ==
  ASSUME NEW t, NEW s, NEW u, SetState(t, s, u)
  PROVE  Shrinks
<1>. DEFINE moved == [row EXCEPT ![t] = Moved(@, s, u)]
            shut  == IF s \in Closed THEN RollUp(moved, row[t].parent) ELSE {}
<1>1. /\ row' = Shut(moved, shut)
      /\ asking' = asking \ (shut \cup (IF s \in Closed THEN {t} ELSE {}))
  BY DEF SetState
<1>2. DOMAIN moved = DOMAIN row
  OBVIOUS
<1>. HIDE DEF moved, shut
<1>3. DOMAIN row' = DOMAIN row
  BY <1>1, <1>2 DEF Shut
<1>. QED BY <1>1, <1>3 DEF Shrinks, Live

LEMMA BoardShrinks ==
  ASSUME NEW t, NEW u, asking \subseteq Live
  PROVE  /\ ClaimNext(t, u) \/ Claim(t, u) => Shrinks
         /\ \A ty : Update(t, ty, u) => Shrinks
         /\ \A s : SetActiveSession(t, s, u) => Shrinks
         /\ Delete(t) => Shrinks
         /\ AddDependency(t, u) \/ RemoveDependency(<<t, u>>) => Shrinks
         /\ ReconcileScan \/ Restart \/ ReconcileClose(t) \/ ReconcileFails(t) => Shrinks
<1>1. ClaimNext(t, u) \/ Claim(t, u) => Shrinks
  BY DEF ClaimNext, Claim, Shrinks, Live
<1>2. ASSUME NEW ty, Update(t, ty, u) PROVE Shrinks
  BY <1>2 DEF Update, Shrinks, Live
<1>3. ASSUME NEW s, SetActiveSession(t, s, u) PROVE Shrinks
  BY <1>3 DEF SetActiveSession, Shrinks, Live
<1>4. ASSUME Delete(t) PROVE Shrinks
  <2>1. Live' = Live \ Subtree(t) /\ asking' = asking \ Subtree(t)
    BY <1>4 DEF Delete, Live
  <2>. QED BY <2>1 DEF Shrinks
<1>5. AddDependency(t, u) \/ RemoveDependency(<<t, u>>) => Shrinks
  BY DEF AddDependency, RemoveDependency, Shrinks, Live
<1>6. ReconcileScan \/ Restart \/ ReconcileFails(t) => Shrinks
  BY DEF ReconcileScan, Restart, ReconcileFails, Shrinks, Live
<1>7. ReconcileClose(t) => Shrinks
  BY DEF ReconcileClose, Shut, Shrinks, Live
<1>. QED BY <1>1, <1>2, <1>3, <1>4, <1>5, <1>6, <1>7

LEMMA IdleOrMark ==
  ASSUME NEW p \in Proc, NEW t, NEW ses, NEW u, request[p].pc \notin Mailing,
         markActiveSession(p, t, ses, u)
  PROVE  PlainRequest
<1>. DEFINE r == [pc |-> "marking", task |-> t, session |-> ses, user |-> u]
<1>1. r.pc \notin Mailing /\ r.pc \notin CycleWork
  BY DEF Mailing, Answering, CycleWork
<1>2. Becomes(p, r) \/ Becomes(p, Idle)
  BY DEF markActiveSession
<1>. HIDE DEF r
<1>. QED BY <1>1, <1>2, Plain, Ends

LEMMA TaskCallKinds == ASSUME ServiceInv, TaskCalls PROVE Ripple
<1>0. asking \subseteq Live
  BY DEF ServiceInv, BoardInv
<1>1. ASSUME NEW p \in Proc, NEW c \in Caller, NEW t \in Task, NEW ses \in Conversation,
             ClaimNextTool(p, c, t, ses) \/ ClaimTool(p, c, t, ses)
      PROVE  Ripple
  <2>1. Cascades /\ markActiveSession(p, t, ses, c.user) /\ request[p] = Idle
        /\ (ClaimNext(t, c.user) \/ Claim(t, c.user) \/ UNCHANGED vars)
    BY <1>1 DEF ClaimNextTool, ClaimTool
  <2>2. Shrinks
    BY <1>0, <2>1, BoardShrinks DEF Shrinks, vars, Live
  <2>. QED BY <2>1, <2>2, IdlePlain, IdleOrMark DEF Ripple
<1>2. ASSUME NEW p \in Proc, NEW c \in Caller, NEW t \in Task, NEW s \in State,
             NEW release \in BOOLEAN, SetStateTool(p, c, t, s, release)
      PROVE  Ripple
  <2>. DEFINE r == [pc |-> "releasing", task |-> t]
  <2>1. /\ Cascades /\ SetState(t, s, c.user) /\ request[p] = Idle
        /\ Becomes(p, r) \/ Becomes(p, Idle)
    BY <1>2 DEF SetStateTool
  <2>2. r.pc \notin Mailing /\ r.pc \notin CycleWork
    BY DEF Mailing, Answering, CycleWork
  <2>. HIDE DEF r
  <2>. QED BY <2>1, <2>2, MovesShrink, IdlePlain, Plain, Ends DEF Ripple
<1>3. ASSUME NEW c \in Caller, NEW t \in Task, NEW s \in State,
             CloseTool(c, t, s) \/ SetTaskStateHandler(c, t, s)
      PROVE  Ripple
  BY <1>3, MovesShrink DEF CloseTool, SetTaskStateHandler, OneCall, PlainRequest, Ripple
<1>4. ASSUME NEW c \in Caller, NEW t \in Task, NEW ty \in Type, NEW a \in User \cup {Nobody},
             UpdateTool(c, t, ty, a) \/ UpdateTaskHandler(c, t, ty, a)
      PROVE  Ripple
  BY <1>0, <1>4, BoardShrinks DEF UpdateTool, UpdateTaskHandler, OneCall, PlainRequest, Ripple
<1>5. ASSUME NEW c \in Caller, NEW t \in Task, DeleteTaskHandler(c, t)
      PROVE  Ripple
  BY <1>0, <1>5, BoardShrinks DEF DeleteTaskHandler, OneCall, PlainRequest, Ripple
<1>6. ASSUME NEW p \in Proc, FinishMark(p) PROVE Ripple
  <2>1. request[p].pc \notin Mailing
    BY <1>6 DEF FinishMark, Mailing, Answering
  <2>. QED BY <1>0, <1>6, <2>1, BoardShrinks, Ends DEF FinishMark, Ripple
<1>7. ASSUME NEW p \in Proc, FinishRelease(p) PROVE Ripple
  <2>1. request[p].pc \notin Mailing
    BY <1>7 DEF FinishRelease, Mailing, Answering
  <2>. QED BY <1>0, <1>7, <2>1, BoardShrinks, Ends DEF FinishRelease, Ripple
<1>. QED BY <1>1, <1>2, <1>3, <1>4, <1>5, <1>6, <1>7 DEF TaskCalls

LEMMA CreateCallKinds == ASSUME CreateCalls PROVE Kinds
<1>1. ASSUME NEW p \in Proc, NEW ty, NEW up, NEW a, NEW claim, NEW ses,
             BeginCreate(p, ty, up, a, claim, ses), UNCHANGED questionVars
      PROVE  Aside
  <2>. DEFINE r == [pc |-> "creating", type |-> ty, parent |-> up, user |-> a,
                    claim |-> claim, session |-> ses,
                    cycle |-> IF up = NoTask THEN GetActiveCycle ELSE cycle[up]]
  <2>1. Becomes(p, r) /\ request[p] = Idle /\ UNCHANGED <<vars, step, cycleVars>> /\ up \in Live \cup {NoTask}
    BY <1>1 DEF BeginCreate
  <2>2. /\ r.pc = "creating" /\ r.pc \notin Mailing
        /\ r.cycle = active \/ \E t \in Live : r.cycle = cycle[t]
    BY <2>1 DEF Mailing, Answering, GetActiveCycle
  <2>. HIDE DEF r
  <2>3. PlainRequest
    BY <2>1, <2>2, IdlePlain DEF PlainRequest
  <2>. QED BY <1>1, <2>1, <2>3 DEF Aside, vars, Live
<1>2. PICK p \in Proc, c \in Caller, ty \in Type, up \in Task \cup {NoTask}, a \in User \cup {Nobody} :
          \/ \E claim \in BOOLEAN, ses \in Conversation : CreateTool(p, c, ty, up, a, claim, ses)
          \/ CreateTaskHandler(p, c, ty, up, a)
          \/ \E t \in Task : FinishCreate(p, t)
  BY DEF CreateCalls
<1>3. CASE \E claim \in BOOLEAN, ses \in Conversation : CreateTool(p, c, ty, up, a, claim, ses)
  BY <1>1, <1>3 DEF CreateTool, Kinds
<1>4. CASE CreateTaskHandler(p, c, ty, up, a)
  BY <1>1, <1>4 DEF CreateTaskHandler, Kinds
<1>5. CASE \E t \in Task : FinishCreate(p, t)
  BY <1>5 DEF Kinds
<1>. QED BY <1>2, <1>3, <1>4, <1>5

LEMMA DependencyCallKinds == ASSUME ServiceInv, DependencyCalls \/ Reconciler PROVE Ripple
<1>0. asking \subseteq Live
  BY DEF ServiceInv, BoardInv
<1>1. ASSUME NEW c \in Caller, NEW t \in Task, NEW d \in Task,
             \/ AddDependencyTool(c, t, d) \/ RemoveDependencyTool(c, t, d)
             \/ AddDependencyHandler(c, t, d) \/ RemoveDependencyHandler(c, t, d)
      PROVE  Ripple
  <2>1. (AddDependency(t, d) \/ RemoveDependency(<<t, d>>)) /\ Cascades /\ UNCHANGED request
    BY <1>1 DEF AddDependencyTool, RemoveDependencyTool, AddDependencyHandler,
                RemoveDependencyHandler, OneCall
  <2>. QED BY <1>0, <2>1, BoardShrinks DEF PlainRequest, Ripple
<1>2. ASSUME Reconciler PROVE Ripple
  BY <1>0, <1>2, BoardShrinks DEF Reconciler, OneCall, PlainRequest, Ripple
<1>. QED BY <1>1, <1>2 DEF DependencyCalls

-----------------------------------------------------------------------------
(* The checklists. *)

LEMMA LockAside ==
  ASSUME NEW p \in Proc, NEW r, withTaskLocked(p, r), UNCHANGED <<questionVars, cycleVars>>,
         r.pc \notin Mailing, r.pc \notin CycleWork
  PROVE  Aside
<1>1. Becomes(p, r) /\ request[p] = Idle /\ UNCHANGED <<vars, step>>
  BY DEF withTaskLocked
<1>. QED BY <1>1, IdlePlain, Plain DEF Aside, vars, Live

LEMMA TablesGrow ==
  ASSUME StepTable
  PROVE  /\ \A t, new, n : DOMAIN step \subseteq DOMAIN InsertTaskStep(t, new, n)
         /\ \A t, delta, lo, hi : DOMAIN ShiftTaskSteps(step, t, delta, lo, hi) = DOMAIN step
         /\ \A t, from, to : DOMAIN MakeRoom(t, from, to) = DOMAIN step
         /\ \A table, s, i : DOMAIN SetTaskStepPosition(table, s, i) = DOMAIN table
         /\ \A s, ses : DOMAIN StartTaskStep(StopSessionSteps(step[s].task, ses), s, ses) = DOMAIN step
         /\ \A t, s, ses : DOMAIN StartTaskStep(StopSessionSteps(t, ses), s, ses) = DOMAIN step
         /\ \A s, done : DOMAIN UpdateTaskStep(s, done) = DOMAIN step
BY DEF InsertTaskStep, ShiftTaskSteps, MakeRoom, SetTaskStepPosition, StartTaskStep, StopSessionSteps,
       UpdateTaskStep

LEMMA EditsAside ==
  ASSUME ServiceInv, NEW p \in Proc, UNCHANGED <<questionVars, cycleVars>>
  PROVE  /\ \A new : FinishAddSteps(p, new) => Aside
         /\ FinishMoveStep(p) => Aside
         /\ FinishStartStep(p) => Aside
         /\ \A t, s, done : UpdateStep(t, s, done) => Aside
         /\ LockToStart(p) => Aside
         /\ \A t, s, ses, u : StartStep(p, t, s, ses, u) => Aside
<1>0. StepTable
  BY DEF ServiceInv, StepsOK
<1>1. ASSUME NEW new, FinishAddSteps(p, new) PROVE Aside
  <2>1. /\ Becomes(p, Idle) /\ UNCHANGED vars /\ request[p].pc \notin Mailing
        /\ \E t, n : step' = InsertTaskStep(t, new, n)
    BY <1>1 DEF FinishAddSteps, CommitSteps, Mailing, Answering
  <2>. QED BY <1>0, <2>1, TablesGrow, Ends DEF Aside, vars, Live
<1>2. ASSUME FinishMoveStep(p) PROVE Aside
  <2>1. /\ Becomes(p, Idle) /\ UNCHANGED vars /\ request[p].pc \notin Mailing
        /\ \E t, from, to, s, i : step' = SetTaskStepPosition(MakeRoom(t, from, to), s, i)
    BY <1>2 DEF FinishMoveStep, CommitSteps, Mailing, Answering
  <2>. QED BY <1>0, <2>1, TablesGrow, Ends DEF Aside, vars, Live
<1>3. ASSUME FinishStartStep(p) PROVE Aside
  <2>1. /\ Becomes(p, Idle) /\ request[p].pc \notin Mailing
        /\ \E t, s, ses : step' = StartTaskStep(StopSessionSteps(t, ses), s, ses)
    BY <1>3 DEF FinishStartStep, CommitSteps, Mailing, Answering
  <2>2. Live' = Live /\ UNCHANGED asking
    BY <1>3 DEF FinishStartStep, Stamp, SetActiveSession, vars, Live
  <2>. QED BY <1>0, <2>1, <2>2, TablesGrow, Ends DEF Aside
<1>4. ASSUME NEW t, NEW s, NEW done, UpdateStep(t, s, done) PROVE Aside
  <2>1. UNCHANGED <<vars, request>> /\ step' = UpdateTaskStep(s, done)
    BY <1>4 DEF UpdateStep
  <2>. QED BY <1>0, <2>1, TablesGrow DEF PlainRequest, Aside, vars, Live
<1>5. ASSUME LockToStart(p) PROVE Aside
  <2>. DEFINE r == [request[p] EXCEPT !.pc = "starting"]
  <2>1. request[p] \in StartRequest
    BY <1>5, PcTells DEF LockToStart, ServiceInv, RequestsOK
  <2>2. r.pc = "starting" /\ request[p].pc = "to start"
    BY <1>5, <2>1 DEF StartRequest, LockToStart
  <2>3. Becomes(p, r) /\ UNCHANGED <<vars, step>>
    BY <1>5 DEF LockToStart
  <2>. HIDE DEF r
  <2>4. r.pc \notin Mailing /\ request[p].pc \notin Mailing /\ r.pc \notin CycleWork
    BY <2>2 DEF Mailing, Answering, CycleWork
  <2>. QED BY <2>3, <2>4, Plain DEF Aside, vars, Live
<1>6. ASSUME NEW t, NEW s, NEW ses, NEW u, StartStep(p, t, s, ses, u) PROVE Aside
  <2>. DEFINE r == [pc |-> IF row[t].state = "todo" THEN "to doing" ELSE "to start",
                    task |-> t, step |-> s, session |-> ses, user |-> u]
  <2>1. r.pc \notin Mailing /\ r.pc \notin CycleWork
    BY DEF Mailing, Answering, CycleWork
  <2>2. Becomes(p, r) /\ UNCHANGED <<vars, step>> /\ request[p] = Idle
    BY <1>6 DEF StartStep
  <2>. HIDE DEF r
  <2>. QED BY <2>1, <2>2, IdlePlain, Plain DEF Aside, vars, Live
<1>. QED BY <1>1, <1>2, <1>3, <1>4, <1>5, <1>6

LEMMA MoveToDoingKind ==
  ASSUME ServiceInv, NEW p \in Proc, MoveToDoing(p), Cascades
  PROVE  Ripple
<1>. DEFINE r == [request[p] EXCEPT !.pc = "to start"]
<1>1. request[p] \in StartRequest
  BY PcTells DEF MoveToDoing, ServiceInv, RequestsOK
<1>2. r.pc = "to start" /\ request[p].pc = "to doing"
  BY <1>1 DEF StartRequest, MoveToDoing
<1>3. Becomes(p, r) /\ SetState(request[p].task, "doing", request[p].user)
  BY DEF MoveToDoing
<1>. HIDE DEF r
<1>4. r.pc \notin Mailing /\ request[p].pc \notin Mailing /\ r.pc \notin CycleWork
  BY <1>2 DEF Mailing, Answering, CycleWork
<1>. QED BY <1>3, <1>4, Plain, MovesShrink DEF Ripple

LEMMA LocksAside ==
  ASSUME NEW p \in Proc, NEW t, UNCHANGED <<questionVars, cycleVars>>
  PROVE  /\ \A k : AddSteps(p, t, k) => Aside
         /\ \A s : RemoveStep(p, t, s) => Aside
         /\ \A s, i : MoveStep(p, t, s, i) => Aside
<1>1. \A k : [pc |-> "adding", task |-> t, k |-> k, n |-> CountTaskSteps(t)].pc \notin Mailing \cup CycleWork
  BY DEF Mailing, Answering, CycleWork
<1>2. \A s : [pc |-> "removing", task |-> t, step |-> s, at |-> step[s].position].pc \notin Mailing \cup CycleWork
  BY DEF Mailing, Answering, CycleWork
<1>3. \A s, i : [pc |-> "moving", task |-> t, step |-> s,
                 from |-> step[s].position, to |-> Clamped(t, i)].pc \notin Mailing \cup CycleWork
  BY DEF Mailing, Answering, CycleWork
<1>4. ASSUME NEW k, AddSteps(p, t, k) PROVE Aside
  BY <1>1, <1>4, LockAside DEF AddSteps
<1>5. ASSUME NEW s, RemoveStep(p, t, s) PROVE Aside
  BY <1>2, <1>5, LockAside DEF RemoveStep
<1>6. ASSUME NEW s, NEW i, MoveStep(p, t, s, i) PROVE Aside
  BY <1>3, <1>6, LockAside DEF MoveStep
<1>. QED BY <1>4, <1>5, <1>6

LEMMA StepCallKinds == ASSUME ServiceInv, StepCalls PROVE Aside \/ Removal \/ Ripple
<1>1. ASSUME NEW p \in Proc, NEW c \in Caller, NEW t \in Task, NEW k \in 1..MaxStepsPerTask,
             AddStepsTool(p, c, t, k) \/ AddStepsHandler(p, c, t, k)
      PROVE  Aside
  BY <1>1, LocksAside DEF AddStepsTool, AddStepsHandler, StepsOnly
<1>2. ASSUME NEW p \in Proc, NEW c \in Caller, NEW t \in Task, NEW s \in Step,
             RemoveStepTool(p, c, t, s) \/ RemoveStepHandler(p, c, t, s)
      PROVE  Aside
  BY <1>2, LocksAside DEF RemoveStepTool, RemoveStepHandler, StepsOnly
<1>3. ASSUME NEW p \in Proc, NEW c \in Caller, NEW t \in Task, NEW s \in Step,
             NEW i \in 0..MaxStepsPerTask, MoveStepTool(p, c, t, s, i) \/ MoveStepHandler(p, c, t, s, i)
      PROVE  Aside
  BY <1>3, LocksAside DEF MoveStepTool, MoveStepHandler, StepsOnly
<1>4. ASSUME NEW p \in Proc, NEW c \in Caller, NEW t \in Task, NEW s \in Step, NEW done \in BOOLEAN,
             UpdateStepTool(c, t, s, done) \/ UpdateStepHandler(c, t, s, done)
      PROVE  Aside
  BY <1>4, EditsAside DEF UpdateStepTool, UpdateStepHandler, StepsOnly
<1>5. ASSUME NEW p \in Proc, NEW c \in Caller, NEW t \in Task, NEW s \in Step,
             NEW ses \in Conversation, StartStepTool(p, c, t, s, ses)
      PROVE  Aside
  BY <1>5, EditsAside DEF StartStepTool, StepsOnly
<1>6. ASSUME NEW p \in Proc, NEW new \in Seq(Step), StepCommits(p, new)
      PROVE  Aside \/ Removal \/ Ripple
  <2>1. CASE FinishRemoveStep(p) /\ QuestionsWait /\ QuestionsFollow /\ UNCHANGED cycleVars
    <3>1. Becomes(p, Idle) /\ UNCHANGED vars /\ request[p].pc \notin Mailing
      BY <2>1 DEF FinishRemoveStep, CommitSteps, Mailing, Answering
    <3>. QED BY <2>1, <3>1, Ends DEF Removal
  <2>. QED BY <1>6, <2>1, EditsAside, MoveToDoingKind DEF StepCommits, StepsOnly
<1>. QED BY <1>1, <1>2, <1>3, <1>4, <1>5, <1>6 DEF StepCalls

LEMMA AllKinds == ASSUME ServiceInv, [ServiceNext]_serviceVars PROVE Kinds \/ UNCHANGED serviceVars
<1>1. CycleCalls => \E p \in Proc : (BeginEndCycle(p) \/ CycleCommits(p)) /\ UNCHANGED questionVars
  BY DEF CycleCalls, EndCycleTool, EndCycleHandler, CycleCommits
<1>. QED BY <1>1, TaskCallKinds, CreateCallKinds, DependencyCallKinds, StepCallKinds DEF ServiceNext, Kinds
-----------------------------------------------------------------------------
(* Every task is in a cycle there is.                                      *)

\* What the first update of a request that ends cycle a moved: top-level work,
\* and below it what the trigger let through.
MovedFits(m, rows, cycles, a) ==
  \A x \in DOMAIN m :
    LET up == rows[x].parent
    IN  /\ m[x] \in 1..(a + 1)
        /\ up = NoTask => m[x] = a + 1
        /\ up # NoTask /\ m[x] = a + 1 => up \in DOMAIN m /\ m[up] = a + 1
        /\ up \in DOMAIN m /\ rows[up].parent = NoTask /\ cycles[up] = a => m[x] \in {a, a + 1}

OneEnding ==
  \A p, q \in Proc : request[p].pc \in {"closing", "ending"} /\ request[q].pc \in {"closing", "ending"}
                     => p = q

CyclesInv ==
  /\ active \in Nat \ {0}
  /\ cycle \in [Live -> 1..active]
  /\ \A p \in Proc : request[p].pc = "creating" => request[p].cycle \in 1..active
  /\ \A p \in Proc : request[p].pc = "ending" => MovedFits(request[p].moved, row, cycle, active)
  /\ OneEnding

\* No create and no end of a cycle goes on, and those under way keep what they read.
KeepCreates == \A p \in Proc : request'[p].pc \in CycleWork => request'[p] = request[p]

LEMMA BecomesKeeps ==
  ASSUME ServiceInv, NEW p \in Proc, NEW r, Becomes(p, r), r.pc \notin CycleWork
  PROVE  KeepCreates
BY DEF ServiceInv, RequestsOK, Becomes, KeepCreates

LEMMA PlainCreates ==
  ASSUME ServiceInv, CyclesInv, PlainRequest
  PROVE  /\ \A p \in Proc : request'[p].pc \in {"closing", "ending"} => request'[p] = request[p]
         /\ \A p \in Proc : request'[p].pc = "creating" =>
              request'[p] = request[p] \/ request'[p].cycle \in 1..active
<1>1. active \in 1..active /\ \A t \in Live : cycle[t] \in 1..active
  BY DEF CyclesInv
<1>2. CASE UNCHANGED request
  BY <1>2
<1>3. CASE \E z \in Proc : \E r :
             /\ Becomes(z, r)
             /\ r.pc \in CycleWork =>
                  r.pc = "creating" /\ (r.cycle = active \/ \E t \in Live : r.cycle = cycle[t])
  <2>1. PICK z \in Proc : \E r :
             /\ Becomes(z, r)
             /\ r.pc \in CycleWork =>
                  r.pc = "creating" /\ (r.cycle = active \/ \E t \in Live : r.cycle = cycle[t])
    BY <1>3
  <2>2. PICK r : /\ Becomes(z, r)
                 /\ r.pc \in CycleWork =>
                      r.pc = "creating" /\ (r.cycle = active \/ \E t \in Live : r.cycle = cycle[t])
    BY <2>1
  <2>3. request'[z] = r /\ \A p \in Proc : p # z => request'[p] = request[p]
    BY <2>2 DEF ServiceInv, RequestsOK, Becomes
  <2>4. r.pc \notin {"closing", "ending"} /\ (r.pc = "creating" => r.cycle \in 1..active)
    BY <1>1, <2>2 DEF CycleWork
  <2>. QED BY <2>3, <2>4
<1>. QED BY <1>2, <1>3 DEF PlainRequest

\* What one moved goes on to fit as long as its rows stay.
LEMMA MovedStays ==
  ASSUME NEW m, NEW rows, NEW after, NEW cycles, NEW later, NEW a, MovedFits(m, rows, cycles, a),
         \A x \in DOMAIN m : after[x] = rows[x] /\ later[x] = cycles[x]
  PROVE  MovedFits(m, after, later, a)
BY DEF MovedFits

LEMMA QuestionsKeep ==
  ASSUME ServiceInv, QuestionCalls \/ \E p \in Proc : Fail(p)
  PROVE  UNCHANGED cycleVars /\ UNCHANGED row /\ KeepCreates
<1>0. Idle.pc \notin CycleWork
  BY DEF Idle, CycleWork
<1>1. ASSUME NEW p \in Proc, Fail(p) PROVE UNCHANGED cycleVars /\ UNCHANGED row /\ KeepCreates
  BY <1>0, <1>1, BecomesKeeps DEF Fail, GiveUp, vars
<1>2. ASSUME QuestionCalls PROVE UNCHANGED cycleVars
  BY <1>2 DEF QuestionCalls, AskTool, TakeTool, RecordAnswerTool, SetOutcomeTool, WithdrawTool,
              AnswerQuestionHandler, QuestionCommits, MarkReadHandler, MarkAllReadHandler, QuestionOnly
<1>3. ASSUME NEW p \in Proc, NEW t, NEW s, NEW ses, AskOn(p, t, s, ses)
      PROVE  UNCHANGED row /\ KeepCreates
  <2>. DEFINE r == [pc |-> "asking", task |-> t, step |-> s, session |-> ses]
  <2>1. Becomes(p, r) /\ UNCHANGED vars /\ r.pc = "asking"
    BY <1>3 DEF AskOn, withTaskLocked
  <2>. HIDE DEF r
  <2>. QED BY <2>1, BecomesKeeps DEF vars, CycleWork
<1>4. ASSUME NEW p \in Proc, NEW q, NEW x, NEW o, NEW pc \in {"answering", "recording"},
             LockToAnswer(p, q, pc, x, o)
      PROVE  UNCHANGED row /\ KeepCreates
  <2>. DEFINE r == [pc |-> pc, text |-> x, outcome |-> o, rows |-> {q},
                    bells |-> MarkQuestionNotificationsRead(question[q].task, Recipient(q), {q})]
  <2>1. Becomes(p, r) /\ UNCHANGED vars /\ r.pc \in {"answering", "recording"}
    BY <1>4 DEF LockToAnswer
  <2>. HIDE DEF r
  <2>. QED BY <2>1, BecomesKeeps DEF vars, CycleWork
<1>5. ASSUME NEW p \in Proc, NEW ses, Take(p, ses) PROVE UNCHANGED row /\ KeepCreates
  <2>. DEFINE r == [pc |-> "taking", rows |-> Takeable(ses)]
  <2>1. Becomes(p, r) /\ UNCHANGED vars /\ r.pc = "taking"
    BY <1>5 DEF Take
  <2>. HIDE DEF r
  <2>. QED BY <2>1, BecomesKeeps DEF vars, CycleWork
<1>6. ASSUME NEW p \in Proc, NEW q, Withdraw(p, q) PROVE UNCHANGED row /\ KeepCreates
  <2>. DEFINE r == [pc |-> "clearing", task |-> question[q].task, user |-> Recipient(q)]
  <2>1. Becomes(p, r) /\ UNCHANGED row /\ r.pc = "clearing"
    BY <1>6 DEF Withdraw
  <2>. HIDE DEF r
  <2>. QED BY <2>1, BecomesKeeps DEF CycleWork
<1>7. ASSUME NEW p \in Proc, NEW q, QuestionCommits(p, q) PROVE UNCHANGED row /\ KeepCreates
  <2>1. CASE FileQuestion(p, q)
    <3>. DEFINE r == [pc |-> "ringing", question |-> q]
    <3>1. Becomes(p, r) /\ UNCHANGED row /\ r.pc = "ringing"
      BY <2>1 DEF FileQuestion
    <3>. HIDE DEF r
    <3>. QED BY <3>1, BecomesKeeps DEF CycleWork
  <2>2. CASE CommitTake(p)
    <3>. DEFINE r == [pc |-> "handing", answers |-> [x \in request[p].rows \cap DOMAIN question |->
                                                      question[x].text]]
    <3>1. Becomes(p, r) /\ UNCHANGED vars /\ r.pc = "handing"
      BY <2>2 DEF CommitTake
    <3>. HIDE DEF r
    <3>. QED BY <3>1, BecomesKeeps DEF vars, CycleWork
  <2>3. CASE \/ OnQuestionAsked(p) \/ CommitAnswer(p) \/ CommitRecord(p) \/ Respond(p) \/ ClearAsked(p)
    <3>1. Becomes(p, Idle) /\ UNCHANGED row
      BY <2>3 DEF OnQuestionAsked, CommitAnswer, CommitRecord, Respond, ClearAsked, vars
    <3>. QED BY <1>0, <3>1, BecomesKeeps DEF CycleWork
  <2>. QED BY <1>7, <2>1, <2>2, <2>3 DEF QuestionCommits
<1>8. ASSUME UNCHANGED <<vars, stepVars>> PROVE UNCHANGED row /\ KeepCreates
  BY <1>8 DEF vars, stepVars, KeepCreates
<1>9. ASSUME QuestionCalls PROVE UNCHANGED row /\ KeepCreates
  <2>. SUFFICES ASSUME NEW p \in Proc, NEW c \in Caller, NEW q \in Question,
                       \/ \E ses \in Session :
                            \/ \E t \in Task, s \in Step \cup {NoStep} : AskTool(p, c, t, s, ses)
                            \/ TakeTool(p, c, ses)
                            \/ \E x \in Text, o \in BOOLEAN : RecordAnswerTool(p, c, q, x, ses, o)
                            \/ SetOutcomeTool(c, q, ses)
                       \/ WithdrawTool(p, c, q)
                       \/ \E x \in Text : AnswerQuestionHandler(p, c, q, x)
                       \/ QuestionCommits(p, q)
                       \/ \E S \in SUBSET Question : MarkReadHandler(c, S)
                       \/ MarkAllReadHandler(c)
                PROVE  UNCHANGED row /\ KeepCreates
    BY <1>9 DEF QuestionCalls
  <2>1. ASSUME NEW ses, NEW t, NEW s, AskTool(p, c, t, s, ses) PROVE UNCHANGED row /\ KeepCreates
    BY <1>3, <2>1 DEF AskTool
  <2>2. ASSUME NEW ses, TakeTool(p, c, ses) PROVE UNCHANGED row /\ KeepCreates
    BY <1>5, <2>2 DEF TakeTool
  <2>3. ASSUME NEW ses, NEW x, NEW o, RecordAnswerTool(p, c, q, x, ses, o) \/ AnswerQuestionHandler(p, c, q, x)
        PROVE  UNCHANGED row /\ KeepCreates
    BY <1>4, <2>3 DEF RecordAnswerTool, AnswerQuestionHandler, RecordAnswer, Answer
  <2>4. ASSUME \/ \E ses : SetOutcomeTool(c, q, ses)
               \/ \E S : MarkReadHandler(c, S)
               \/ MarkAllReadHandler(c)
        PROVE  UNCHANGED row /\ KeepCreates
    BY <1>8, <2>4 DEF SetOutcomeTool, SetOutcome, MarkReadHandler, MarkAllReadHandler, ReadBell
  <2>5. CASE WithdrawTool(p, c, q)
    BY <1>6, <2>5 DEF WithdrawTool
  <2>. QED BY <1>7, <2>1, <2>2, <2>3, <2>4, <2>5
<1>. QED BY <1>1, <1>2, <1>9

LEMMA RestampsIn ==
  ASSUME NEW S, NEW table, NEW next \in Nat, NEW low \in 1..next, table \in [Live -> 1..low], S \subseteq Live,
         NEW after \in Restamps(S, table, next)
  PROVE  Restamped(table, after) \in [Live -> 1..next]
BY DEF Restamps, Restamped

\* The first update leaves what MovedFits says.
LEMMA FirstFits ==
  ASSUME CyclesInv, Forest, NoTask \notin Live,
         NEW S \in SUBSET Live, NEW m \in Restamps(S, cycle, active + 1)
  PROVE  DOMAIN m = S /\ MovedFits(m, row, cycle, active)
<1>1. /\ DOMAIN m = S /\ active \in Nat /\ \A x \in S : m[x] \in 1..(active + 1)
      /\ \A x \in S :
           IF row[x].parent = NoTask THEN m[x] = active + 1
           ELSE m[x] \in {cycle[row[x].parent],
                          IF row[x].parent \in S THEN m[row[x].parent] ELSE cycle[row[x].parent]}
  BY DEF Restamps, CyclesInv
<1>2. \A x \in S : row[x].parent \in Live \cup {NoTask}
  BY DEF Forest
<1>3. \A x \in Live : cycle[x] \in 1..active /\ cycle[x] # active + 1
  BY DEF CyclesInv
<1>4. \A x \in S : row[x].parent \in S /\ row[row[x].parent].parent = NoTask
                     => row[x].parent # NoTask /\ m[row[x].parent] = active + 1
  BY <1>1
<1>. QED BY <1>1, <1>2, <1>3, <1>4 DEF MovedFits

\* A request that goes on ending the cycle goes on fitting.
LEMMA MoverFits ==
  ASSUME ServiceInv, CyclesInv, [ServiceNext]_serviceVars, active' = active,
         \A t \in Live \cap Live' : cycle'[t] = cycle[t],
         NEW p \in Proc, request[p].pc = "ending", request'[p] = request[p]
  PROVE  MovedFits(request'[p].moved, row', cycle', active')
<1>1. \A t \in DOMAIN request[p].moved : t \in Live /\ t \in Live' /\ row'[t] = row[t]
  BY AllSteps, MovedKept DEF ServiceInv, MoversOK
<1>2. MovedFits(request[p].moved, row, cycle, active)
  BY DEF CyclesInv
<1>. QED BY <1>1, <1>2, MovedStays

\* A step that ends no cycle and takes no end further.
LEMMA CyclesKept ==
  ASSUME ServiceInv, CyclesInv, [ServiceNext]_serviceVars, active' = active,
         cycle' \in [Live' -> 1..active],
         \A t \in Live \cap Live' : cycle'[t] = cycle[t],
         \A p \in Proc : request'[p].pc \in {"closing", "ending"} => request'[p] = request[p],
         \A p \in Proc : request'[p].pc = "creating" =>
           request'[p] = request[p] \/ request'[p].cycle \in 1..active
  PROVE  CyclesInv'
<1>1. \A p \in Proc : request'[p].pc = "ending" => MovedFits(request'[p].moved, row', cycle', active')
  BY MoverFits
<1>2. OneEnding'
  BY DEF CyclesInv, OneEnding
<1>3. \A p \in Proc : request'[p].pc = "creating" => request'[p].cycle \in 1..active
  BY DEF CyclesInv
<1>. QED BY <1>1, <1>2, <1>3 DEF CyclesInv

LEMMA BeginsFit ==
  ASSUME ServiceInv, CyclesInv, [ServiceNext]_serviceVars, NEW p \in Proc, BeginEndCycle(p)
  PROVE  CyclesInv'
<1>. DEFINE r == [pc |-> "closing", subtrees |-> PartialFeatureSubtrees(GetActiveCycle)]
<1>1. Becomes(p, r) /\ UNCHANGED <<row, cycleVars>> /\ ~ EndingCycle
  BY DEF BeginEndCycle, vars
<1>2. r.pc = "closing"
  OBVIOUS
<1>. HIDE DEF r
<1>3. request'[p] = r /\ \A q \in Proc : q # p => request'[q] = request[q]
  BY <1>1 DEF ServiceInv, RequestsOK, Becomes
<1>4. OneEnding'
  BY <1>1, <1>2, <1>3 DEF OneEnding, EndingCycle
<1>5. UNCHANGED <<active, cycle>> /\ Live' = Live
  BY <1>1 DEF cycleVars, Live
<1>6. \A q \in Proc : request'[q].pc \in {"creating", "ending"} => request'[q] = request[q]
  BY <1>2, <1>3
<1>7. \A q \in Proc : request'[q].pc = "ending" => MovedFits(request'[q].moved, row', cycle', active')
  BY <1>5, <1>6, MoverFits
<1>. QED BY <1>4, <1>5, <1>6, <1>7 DEF CyclesInv

LEMMA FirstMovesFit ==
  ASSUME ServiceInv, CyclesInv, Forest, NEW p \in Proc, MovePartialFeatureSubtrees(p)
  PROVE  CyclesInv'
<1>1. PICK m \in Restamps(request[p].subtrees \cap Live, cycle, active + 1) :
        Becomes(p, [pc |-> "ending", moved |-> m])
  BY DEF MovePartialFeatureSubtrees, InsertCycle
<1>2. UNCHANGED <<row, active, cycle>> /\ Live' = Live /\ request[p].pc = "closing"
  BY DEF MovePartialFeatureSubtrees, cycleVars, vars, Live
<1>3. request'[p] = [pc |-> "ending", moved |-> m] /\ \A q \in Proc : q # p => request'[q] = request[q]
  BY <1>1 DEF ServiceInv, RequestsOK, Becomes
<1>4. request'[p].pc = "ending" /\ request'[p].moved = m
  BY <1>3
<1>5. MovedFits(m, row, cycle, active)
  <2>1. NoTask \notin Live
    BY NullAssumption DEF ServiceInv, BoardInv
  <2>. QED BY <1>1, <2>1, FirstFits
<1>6. OneEnding'
  BY <1>2, <1>3, <1>4 DEF CyclesInv, OneEnding
<1>7. \A q \in Proc : request[q].pc = "ending" => FALSE
  BY <1>2 DEF CyclesInv, OneEnding
<1>8. \A q \in Proc : request'[q].pc = "ending" => MovedFits(request'[q].moved, row', cycle', active')
  BY <1>2, <1>3, <1>4, <1>5, <1>7
<1>9. \A q \in Proc : request'[q].pc = "creating" => request'[q].cycle \in 1..active
  BY <1>3, <1>4 DEF CyclesInv
<1>. QED BY <1>2, <1>6, <1>8, <1>9 DEF CyclesInv

\* What the commit leaves: the second update over the first.
LEMMA EndCycleTable ==
  ASSUME ServiceInv, CyclesInv, NEW p \in Proc, FinishEndCycle(p)
  PROVE  LET m == request[p].moved
             mid == Restamped(cycle, m)
         IN  /\ request[p].pc = "ending" /\ DOMAIN m \subseteq Live
             /\ MovedFits(m, row, cycle, active)
             /\ mid \in [Live -> 1..(active + 1)]
             /\ \E second \in Restamps(OpenIn(mid, active), mid, active + 1) : cycle' = Restamped(mid, second)
<1>. DEFINE m == request[p].moved
            mid == Restamped(cycle, m)
<1>1. request[p].pc = "ending" /\ DOMAIN m \subseteq Live /\ MovedFits(m, row, cycle, active)
  BY DEF FinishEndCycle, ServiceInv, MoversOK, CyclesInv
<1>2. cycle' \in MoveStandaloneNonDone(mid, active, active + 1)
  BY DEF FinishEndCycle, InsertCycle
<1>3. \E second \in Restamps(OpenIn(mid, active), mid, active + 1) : cycle' = Restamped(mid, second)
  BY <1>2 DEF MoveStandaloneNonDone
<1>. HIDE DEF m
<1>4. mid \in [Live -> 1..(active + 1)]
  <2>1. DOMAIN cycle = Live /\ \A x \in Live : cycle[x] \in 1..(active + 1)
    BY DEF CyclesInv
  <2>2. \A x \in DOMAIN m : m[x] \in 1..(active + 1)
    BY <1>1 DEF MovedFits
  <2>3. mid = [x \in Live |-> IF x \in DOMAIN m THEN m[x] ELSE cycle[x]]
    BY <2>1 DEF Restamped
  <2>. HIDE DEF mid
  <2>. QED BY <2>1, <2>2, <2>3
<1>. QED BY <1>1, <1>3, <1>4 DEF m

LEMMA EndsFit ==
  ASSUME ServiceInv, CyclesInv, NEW p \in Proc, FinishEndCycle(p)
  PROVE  CyclesInv'
<1>1. active' = active + 1 /\ UNCHANGED row /\ Becomes(p, Idle) /\ Live' = Live
  BY DEF FinishEndCycle, InsertCycle, vars, Live
<1>2. PICK mid \in [Live -> 1..(active + 1)] :
        \E second \in Restamps(OpenIn(mid, active), mid, active + 1) : cycle' = Restamped(mid, second)
  BY EndCycleTable
<1>3. active \in Nat /\ active + 1 \in Nat \ {0} /\ active + 1 \in 1..(active + 1) /\ 1..active \subseteq 1..(active + 1)
      /\ OpenIn(mid, active) \subseteq Live
  BY DEF CyclesInv, OpenIn
<1>4. cycle' \in [Live -> 1..(active + 1)]
  BY <1>2, <1>3, RestampsIn
<1>5. request'[p].pc = "idle" /\ \A q \in Proc : q # p => request'[q] = request[q]
  BY <1>1 DEF ServiceInv, RequestsOK, Becomes, Idle
<1>6. request[p].pc = "ending"
  BY DEF FinishEndCycle
<1>7. \A q \in Proc : request'[q].pc \notin {"closing", "ending"}
  BY <1>5, <1>6 DEF CyclesInv, OneEnding
<1>8. \A q \in Proc : request'[q].pc = "creating" => request'[q].cycle \in 1..(active + 1)
  BY <1>3, <1>5 DEF CyclesInv
<1>. QED BY <1>1, <1>3, <1>4, <1>7, <1>8 DEF CyclesInv, OneEnding

LEMMA CyclesInvStep ==
  ASSUME ServiceInv, Forest, CyclesInv, [ServiceNext]_serviceVars
  PROVE  CyclesInv'
<1>0. active \in Nat \ {0} /\ cycle \in [Live -> 1..active]
  BY DEF CyclesInv
<1>1. CASE UNCHANGED serviceVars
  BY <1>0, <1>1, CyclesKept DEF serviceVars, vars, stepVars, cycleVars, Live
<1>2. CASE QuestionCalls \/ \E p \in Proc : Fail(p)
  <2>1. UNCHANGED <<active, cycle>> /\ Live' = Live /\ KeepCreates
    BY <1>2, QuestionsKeep DEF cycleVars, Live
  <2>. QED BY <1>0, <2>1, CyclesKept DEF KeepCreates, CycleWork
<1>3. CASE Aside \/ Removal
  <2>1. PlainRequest /\ UNCHANGED <<active, cycle>> /\ Live' = Live
    BY <1>3 DEF Aside, Removal, vars, Live, cycleVars
  <2>. QED BY <1>0, <2>1, PlainCreates, CyclesKept
<1>4. CASE Ripple
  <2>1. PlainRequest /\ Live' \subseteq Live /\ active' = active /\ cycle' = [t \in Live' |-> cycle[t]]
    BY <1>4 DEF Ripple, Cascades, CyclesFollow, Shrinks
  <2>2. cycle' \in [Live' -> 1..active] /\ \A t \in Live \cap Live' : cycle'[t] = cycle[t]
    BY <1>0, <2>1
  <2>. QED BY <2>1, <2>2, PlainCreates, CyclesKept
<1>5. ASSUME NEW p \in Proc, NEW t \in Task, FinishCreate(p, t) PROVE CyclesInv'
  <2>1. /\ request[p].pc = "creating"
        /\ active' = active
        /\ Create(t, request[p].type, request[p].parent, request[p].user, request[p].claim)
        /\ cycle' = [x \in Live' |-> IF x = t THEN request[p].cycle ELSE cycle[x]]
    BY <1>5 DEF FinishCreate, InsertTask
  <2>2. Live' = Live \cup {t} /\ t \notin Live
    BY <2>1 DEF Create, Live
  <2>3. cycle' \in [Live' -> 1..active] /\ \A x \in Live \cap Live' : cycle'[x] = cycle[x]
    BY <2>1, <2>2 DEF CyclesInv
  <2>4. \E r : Becomes(p, r) /\ r.pc \notin CycleWork
    <3>1. markActiveSession(p, t, request[p].session, request[p].user)
      BY <1>5 DEF FinishCreate
    <3>2. CASE request[p].session = NoSession
      BY <3>1, <3>2, IdlePlain DEF markActiveSession
    <3>3. CASE request[p].session # NoSession
      BY <3>1, <3>3 DEF markActiveSession, CycleWork
    <3>. QED BY <3>2, <3>3
  <2>5. KeepCreates
    BY <2>4, BecomesKeeps
  <2>. QED BY <2>1, <2>3, <2>5, CyclesKept DEF KeepCreates, CycleWork
<1>6. ASSUME NEW p \in Proc, BeginEndCycle(p) \/ CycleCommits(p) PROVE CyclesInv'
  BY <1>6, BeginsFit, FirstMovesFit, EndsFit DEF CycleCommits
<1>. QED BY <1>1, <1>2, <1>3, <1>4, <1>5, <1>6, AllKinds DEF Kinds

\* Where a cycle is kept, every task is in one there is, each request that
\* creates a task holds one there is, and one request at most is ending one.
THEOREM CyclesInvariant == ServiceSpec => [](ServiceInv /\ CyclesInv)
<1>1. ServiceInit => CyclesInv
  <2>. SUFFICES ASSUME ServiceInit PROVE CyclesInv
    OBVIOUS
  <2>1. active = 1 /\ Live = {} /\ cycle = [t \in {} |-> 0]
    BY DEF ServiceInit, CyclesInit, Init, Live
  <2>2. \A p \in Proc : request[p].pc \notin CycleWork
    BY DEF ServiceInit, StepsInit, Idle, CycleWork
  <2>. QED BY <2>1, <2>2 DEF CyclesInv, OneEnding, CycleWork
<1>2. ServiceInv /\ Forest /\ CyclesInv /\ [ServiceNext]_serviceVars => CyclesInv'
  BY CyclesInvStep
<1>. QED BY <1>1, <1>2, ServiceInvariant, ServiceIsABoard, TasksFormForest, PTL DEF ServiceSpec

-----------------------------------------------------------------------------
(* The end of a cycle. *)

\* The two updates, by where a task is: what the first one visits it moves
\* unless the trigger still finds the parent in the old cycle, and then the
\* second one does.
LEMMA TwoUpdates ==
  ASSUME CyclesInv, Forest, NoTask \notin Live, NEW m, DOMAIN m \subseteq Live,
         MovedFits(m, row, cycle, active),
         NEW second \in Restamps(OpenIn(Restamped(cycle, m), active), Restamped(cycle, m), active + 1),
         NEW after, after = Restamped(Restamped(cycle, m), second),
         NEW t \in Live, cycle[t] = active
  PROVE  /\ (row[t].parent = NoTask /\ row[t].state \notin Closed) => after[t] = active + 1
         /\ (/\ row[t].parent \in DOMAIN m /\ row[row[t].parent].parent = NoTask
             /\ cycle[row[t].parent] = active /\ row[t].state \notin Closed) => after[t] = active + 1
         /\ (after[t] = active + 1 /\ row[t].parent # NoTask) => after[row[t].parent] = active + 1
<1>. DEFINE mid  == Restamped(cycle, m)
            rest == OpenIn(mid, active)
            up   == row[t].parent
<1>0. DOMAIN cycle = Live /\ active \in Nat /\ active # active + 1 /\ \A x \in Live : cycle[x] # active + 1
  BY DEF CyclesInv
<1>1. DOMAIN mid = Live
  BY <1>0 DEF Restamped
<1>2. \A x \in DOMAIN m :
        /\ row[x].parent = NoTask => m[x] = active + 1
        /\ row[x].parent # NoTask /\ m[x] = active + 1
             => row[x].parent \in DOMAIN m /\ m[row[x].parent] = active + 1
        /\ row[x].parent \in DOMAIN m /\ row[row[x].parent].parent = NoTask /\ cycle[row[x].parent] = active
             => m[x] \in {active, active + 1}
  BY DEF MovedFits
<1>3. \A x \in Live : mid[x] = IF x \in DOMAIN m THEN m[x] ELSE cycle[x]
  BY <1>0 DEF Restamped
<1>4. rest = {x \in Live : mid[x] = active /\ row[x].state \notin Closed}
  BY <1>1 DEF OpenIn
<1>. HIDE DEF mid
<1>5. DOMAIN second = rest /\ \A x \in rest :
        IF row[x].parent = NoTask THEN second[x] = active + 1
        ELSE second[x] \in {mid[row[x].parent],
                            IF row[x].parent \in rest THEN second[row[x].parent] ELSE mid[row[x].parent]}
  BY DEF Restamps, mid
<1>6. after = Restamped(mid, second)
  BY DEF mid
<1>7. \A x \in Live : after[x] = IF x \in rest THEN second[x] ELSE mid[x]
  BY <1>1, <1>5, <1>6 DEF Restamped
<1>. HIDE DEF rest
<1>8. up \in Live \cup {NoTask}
  BY DEF Forest
<1>9. ASSUME up = NoTask, row[t].state \notin Closed PROVE after[t] = active + 1
  <2>1. CASE t \in DOMAIN m
    BY <1>0, <1>2, <1>3, <1>4, <1>7, <1>9, <2>1
  <2>2. CASE t \notin DOMAIN m
    BY <1>3, <1>4, <1>5, <1>7, <1>9, <2>2
  <2>. QED BY <2>1, <2>2
<1>10. ASSUME up \in DOMAIN m, row[up].parent = NoTask, cycle[up] = active, row[t].state \notin Closed
       PROVE  after[t] = active + 1
  <2>1. up # NoTask /\ up \in Live /\ m[up] = active + 1
    BY <1>2, <1>10
  <2>2. mid[up] = active + 1 /\ up \notin rest
    BY <1>0, <1>3, <1>4, <1>10, <2>1
  <2>3. mid[t] \in {active, active + 1}
    BY <1>2, <1>3, <1>10
  <2>4. CASE mid[t] = active
    <3>1. t \in rest
      BY <1>4, <1>10, <2>4
    <3>2. second[t] = mid[up]
      BY <1>5, <2>1, <2>2, <3>1
    <3>. QED BY <1>7, <2>2, <3>1, <3>2
  <2>5. CASE mid[t] = active + 1
    BY <1>0, <1>4, <1>7, <2>5
  <2>. QED BY <2>3, <2>4, <2>5
<1>11. ASSUME after[t] = active + 1, up # NoTask PROVE after[up] = active + 1
  <2>1. up \in Live
    BY <1>8, <1>11
  <2>2. mid[up] = active + 1 => after[up] = active + 1
    BY <1>0, <1>4, <1>7, <2>1
  <2>3. CASE t \in rest
    <3>1. second[t] = active + 1
      BY <1>7, <1>11, <2>3
    <3>2. \/ mid[up] = active + 1
          \/ up \in rest /\ second[up] = active + 1
      BY <1>5, <1>11, <2>3, <3>1
    <3>. QED BY <1>7, <2>1, <2>2, <3>2
  <2>4. CASE t \notin rest
    <3>1. mid[t] = active + 1
      BY <1>7, <1>11, <2>4
    <3>2. t \in DOMAIN m /\ m[t] = active + 1
      BY <1>0, <1>3, <3>1
    <3>3. up \in DOMAIN m /\ m[up] = active + 1
      BY <1>2, <1>11, <3>2
    <3>. QED BY <1>3, <2>1, <2>2, <3>3
  <2>. QED BY <2>3, <2>4
<1>. QED BY <1>9, <1>10, <1>11

\* The closing moves of a task.
MovesOn(t) ==
  /\ (row[t].parent = NoTask /\ row[t].state \notin Closed) => cycle'[t] = active'
  /\ (/\ row[t].parent \in MovedFirst /\ row[row[t].parent].parent = NoTask
      /\ cycle[row[t].parent] = active /\ row[t].state \notin Closed) => cycle'[t] = active'
  /\ (cycle'[t] = active' /\ row[t].parent # NoTask) => cycle'[row[t].parent] = active'

LEMMA EndCycleMoves ==
  ASSUME ServiceInv, Forest, CyclesInv, NEW p \in Proc, FinishEndCycle(p), NEW t \in Live, cycle[t] = active
  PROVE  MovesOn(t)
<1>. DEFINE m == request[p].moved
<1>1. active' = active + 1 /\ NoTask \notin Live
  BY NullAssumption DEF FinishEndCycle, InsertCycle, ServiceInv, BoardInv
<1>2. /\ request[p].pc = "ending" /\ DOMAIN m \subseteq Live /\ MovedFits(m, row, cycle, active)
      /\ \E second \in Restamps(OpenIn(Restamped(cycle, m), active), Restamped(cycle, m), active + 1) :
           cycle' = Restamped(Restamped(cycle, m), second)
  BY EndCycleTable
<1>3. MovedFirst = DOMAIN m
  BY <1>2 DEF MovedFirst, CyclesInv, OneEnding
<1>. HIDE DEF m
<1>4. /\ (row[t].parent = NoTask /\ row[t].state \notin Closed) => cycle'[t] = active + 1
      /\ (/\ row[t].parent \in DOMAIN m /\ row[row[t].parent].parent = NoTask
          /\ cycle[row[t].parent] = active /\ row[t].state \notin Closed) => cycle'[t] = active + 1
      /\ (cycle'[t] = active + 1 /\ row[t].parent # NoTask) => cycle'[row[t].parent] = active + 1
  BY <1>1, <1>2, TwoUpdates
<1>. QED BY <1>1, <1>3, <1>4 DEF MovesOn

\* Only the end of a cycle changes which one is active.
LEMMA ActiveSteps ==
  ASSUME ServiceInv, [ServiceNext]_serviceVars, active' # active
  PROVE  \E p \in Proc : FinishEndCycle(p)
BY AllKinds, QuestionsKeep DEF Kinds, Ripple, Cascades, CyclesFollow, Aside, Removal, CycleCommits,
   BeginEndCycle, MovePartialFeatureSubtrees, FinishCreate, InsertTask, serviceVars, cycleVars

\* However other requests commit between its two updates, the end of a cycle
\* leaves behind no top-level work that is open then, nor an open child of a
\* top-level feature that its first update moved, and nothing moves ahead of
\* its parent.
THEOREM CyclesEndClean == ServiceSpec => OpenWorkMovesOn
<1>1. ASSUME ServiceInv, Forest, CyclesInv, [ServiceNext]_serviceVars, active' # active
      PROVE  \A t \in Live : cycle[t] = active => MovesOn(t)
  BY <1>1, ActiveSteps, EndCycleMoves
<1>2. ServiceInv /\ Forest /\ CyclesInv /\ [ServiceNext]_serviceVars
        => [active' # active => \A t \in Live : cycle[t] = active => MovesOn(t)]_<<vars, cycleVars>>
  BY <1>1
<1>. QED BY <1>2, CyclesInvariant, ServiceIsABoard, TasksFormForest, PTL
         DEF ServiceSpec, OpenWorkMovesOn, MovesOn
===============================================================================
