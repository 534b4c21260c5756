------------------------------- MODULE MCService -------------------------------
(***************************************************************************)
(* The task side of the product on small boards, next to the architecture  *)
(* graph it shares a process with.  Each behaviour looks at one part, its  *)
(* focus; every bound is named here.                                       *)
(***************************************************************************)
EXTENDS Service

CONSTANTS
  ann, eve,        \* the owner and a member of the project
  s1, s2,          \* a conversation of each
  t1, t2, t3,
  Focus,
  MaxLoad,         \* how much there is on the board at most
  MaxCycles,
  MaxWrites,       \* writes to the graph
  Path, Node, Kind, DefaultKinds, HomeTask, NoNode, NoLock, IdleThreshold    \* see Arch

VARIABLES focus, node, edge, kind, lock, revision, work, ticker, link

A == INSTANCE Arch

graph == <<node, edge, kind, lock, revision, work, ticker, link>>

MCMember == {<<eve, Home>>}
MCOwner  == (s1 :> ann) @@ (s2 :> eve)

agent  == [user |-> ann, via |-> Home]     \* ann's agent
member == [user |-> eve, via |-> Web]      \* eve in the browser
owner  == [user |-> ann, via |-> Web]

New(ty, p) == [type |-> ty, state |-> "todo", parent |-> p, assignee |-> Nobody,
               session |-> NoSession, started |-> FALSE, ended |-> FALSE]

\* The boards the parts start from.
Board ==
  CASE focus \in {"steps", "starts", "answers", "bells"} -> t1 :> New("task", NoTask)
    [] focus = "board"  -> (t1 :> New("feature", NoTask)) @@ (t2 :> New("task", t1))
    [] focus = "cycles" -> (t1 :> New("feature", NoTask)) @@ (t2 :> New("feature", t1))
    [] focus = "graph"  -> [t \in {} |-> t1]

ListedStep == [task |-> t1, position |-> 0, done |-> FALSE, started |-> FALSE, session |-> NoSession]

MCInit ==
  /\ focus \in Focus
  /\ row = Board /\ cycle = [t \in DOMAIN Board |-> 1]
  /\ deps = {} /\ asking = {} /\ found = {} /\ active = 1
  /\ step = IF focus = "bells" THEN (CHOOSE s \in Step : TRUE) :> ListedStep ELSE [s \in {} |-> NoStep]
  /\ request = [p \in Proc |-> Idle]
  /\ QuestionsInit
  /\ A!ArchInit

\* Ids are handed out in order.
Free(S)     == {x \in S : ~ InUse(x) /\ ~ Referred(x)}
NextSteps(p) ==
  LET free == SetToSeq(Free(Step \ DOMAIN step))
  IN  IF request[p].pc = "adding" /\ request[p].k <= Len(free) THEN SubSeq(free, 1, request[p].k) ELSE << >>
NextQuestion == CHOOSE q \in Question : Free(Question \ DOMAIN question) # {} => q \in Free(Question \ DOMAIN question)

\* Requests are interchangeable: the next one to start.
NextIdle == {p \in Proc : request[p] = Idle /\ p = CHOOSE q \in Proc : request[q] = Idle}

MayAsk       == DOMAIN question # Question

Failures == \E p \in Proc : Fail(p)

\* Two clients edit one checklist.
StepEdits ==
  \/ \E p \in NextIdle :
       \/ \E k \in 1..2 : AddStepsTool(p, agent, t1, k) \/ AddStepsHandler(p, member, t1, k)
       \/ \E s \in Step, i \in 0..2 : MoveStepTool(p, agent, t1, s, i) \/ MoveStepHandler(p, member, t1, s, i)
       \/ \E s \in Step : RemoveStepTool(p, agent, t1, s) \/ RemoveStepHandler(p, member, t1, s)
  \/ \E p \in Proc : StepCommits(p, NextSteps(p))

\* Steps are started and ticked while the task moves.
StepStarts ==
  \/ \E p \in NextIdle :
       \/ CountTaskSteps(t1) = 0 /\ AddStepsTool(p, agent, t1, 2)
       \/ \E s \in DOMAIN step, ses \in {s1, NoSession} : StartStepTool(p, agent, t1, s, ses)
  \/ \E p \in Proc : StepCommits(p, NextSteps(p))
  \/ \E s \in Step : UpdateStepTool(agent, t1, s, FALSE) \/ UpdateStepHandler(member, t1, s, TRUE)
  \/ \E s \in {"todo", "done"} : SetTaskStateHandler(member, t1, s)
  \/ DeleteTaskHandler(member, t1)
  \/ Failures

\* One person answers and edits; the conversation records and takes.
Answers ==
  \/ \E p \in NextIdle :
       \/ MayAsk /\ AskTool(p, agent, t1, NoStep, s1)
       \/ \E q \in Question, x \in Text : AnswerQuestionHandler(p, owner, q, x)
       \/ \E q \in Question, o \in BOOLEAN :
            RecordAnswerTool(p, agent, q, CHOOSE x \in Text : TRUE, s1, o)
       \/ TakeTool(p, agent, s1)
  \/ \E p \in Proc : request[p].pc # "ringing" /\ QuestionCommits(p, NextQuestion)
  \/ \E q \in Question : SetOutcomeTool(agent, q, s1)
  \/ \E s \in {"done", "todo"} : SetTaskStateHandler(owner, t1, s)
  \/ DeleteTaskHandler(owner, t1)
  \/ Failures

\* The bell of one person asked about a task and about its step.
Bells ==
  \/ \E p \in NextIdle :
       \/ MayAsk /\ \E s \in DOMAIN step \cup {NoStep} : AskTool(p, agent, t1, s, s1)
       \/ \E q \in Question : WithdrawTool(p, agent, q)
       \/ \E q \in Question : AnswerQuestionHandler(p, owner, q, CHOOSE x \in Text : TRUE)
       \/ \E s \in Step : RemoveStepTool(p, agent, t1, s)
  \/ \E p \in Proc : QuestionCommits(p, NextQuestion) \/ StepCommits(p, << >>)
  \/ \E S \in SUBSET Question : MarkReadHandler(owner, S)
  \/ MarkAllReadHandler(owner)
  \/ Failures

\* What is on the board, and what is under way.
Load ==
  2 * Cardinality(deps) + Cardinality(DOMAIN question) + Cardinality(found)
  + Cardinality({t \in Live : row[t].session # NoSession})
  + Cardinality({t \in Live : row[t].state # "todo" \/ row[t].assignee # Nobody})
  + Cardinality({p \in Proc : request[p] # Idle})

\* A request of more than one call among everything else that moves tasks.
Boards ==
  /\ \/ (\A q \in Proc : request[q] = Idle) /\ \E p \in NextIdle, t \in Task :
          \/ \E ses \in {s1, NoSession} : ClaimNextTool(p, agent, t, ses) \/ ClaimTool(p, agent, t, ses)
          \/ \E s \in State, release \in BOOLEAN : SetStateTool(p, agent, t, s, release)
          \/ CreateTool(p, agent, "task", t1, Nobody, TRUE, s1)
          \/ CreateTaskHandler(p, member, "task", t1, eve)
          \/ MayAsk /\ AskTool(p, agent, t, NoStep, s1)
          \/ \E d \in Task : AddDependencyHandler(member, t, d) \/ RemoveDependencyHandler(member, t, d)
     \/ \E p \in Proc :
          \/ FinishMark(p) \/ FinishRelease(p) \/ \E t \in Task : FinishCreate(p, t)
          \/ request[p].pc # "ringing" /\ QuestionCommits(p, NextQuestion)
     \/ \E t \in {x \in Live : row[x].state = "doing"} :
          UpdateTool(agent, t, row[t].type, eve) \/ UpdateTaskHandler(member, t, row[t].type, Nobody)
     \/ \E t, d \in Task : AddDependencyTool(agent, t, d) \/ RemoveDependencyTool(agent, t, d)
     \/ \E t \in Task : DeleteTaskHandler(member, t)
     \/ Reconciler
     \/ Failures
  /\ Load' <= MaxLoad

\* Cycles end while work is created, closed, reopened and deleted.
CycleEnds ==
  \/ \E p \in NextIdle :
       \/ \E up \in {t2, NoTask} : CreateTool(p, agent, "task", up, Nobody, FALSE, NoSession)
       \/ active < MaxCycles /\ (EndCycleTool(p, agent) \/ EndCycleHandler(p, owner))
  \/ \E p \in Proc : CycleCommits(p) \/ Fail(p)
  \/ \E p \in Proc, t \in Task : FinishCreate(p, t)
  \/ \E t \in Task :
       \/ \E s \in Closed : CloseTool(agent, t, s)
       \/ SetTaskStateHandler(owner, t, "todo")
       \/ t \in {t2} \cap Live /\ UpdateTool(agent, t, "task", row[t].assignee)
  \/ DeleteTaskHandler(owner, t2)

RECURSIVE Committed(_)
Committed(i) == IF i = 0 THEN 0 ELSE Committed(i - 1) + revision[i].writes
Written      == Committed(Len(revision)) + (IF lock = NoLock THEN 0 ELSE lock.writes)

\* Two authors edit the graph, commit or fail, and go away.
GraphCalls ==
  \/ \E p \in Proc :
       \/ /\ Cardinality({q \in Proc : work[q].pc # "resting"}) + Written < MaxWrites
          /\ \E n \in Node, c \in Caller : A!UpsertNodeTool(p, c, n, NoNode, CHOOSE k \in Kind : TRUE)
       \/ A!ArchStep(p)
  \/ A!ArchBackground

TaskSide ==
  /\ \/ focus = "steps" /\ StepEdits
     \/ focus = "starts" /\ StepStarts
     \/ focus = "answers" /\ Answers
     \/ focus = "bells" /\ Bells
     \/ focus = "board" /\ Boards
     \/ focus = "cycles" /\ CycleEnds
  /\ UNCHANGED <<focus, graph>>

GraphSide ==
  /\ focus = "graph" /\ GraphCalls
  /\ UNCHANGED <<focus, serviceVars>>

MCNext == TaskSide \/ GraphSide

MCSpec == MCInit /\ [][MCNext]_<<serviceVars, graph, focus>> /\ A!ArchFairness

AbandonedSessionEnds == A!AbandonedSessionEnds
=============================================================================
