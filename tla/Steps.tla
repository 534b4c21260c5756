--------------------------------- MODULE Steps ---------------------------------
(***************************************************************************)
(* The checklist of a task (internal/tasks/steps.go) over the task board,  *)
(* and the requests that work on both.                                     *)
(*                                                                         *)
(* A step edit is a transaction that begins by locking the task's row      *)
(* (withTaskLocked): one action takes the lock and reads, a second one     *)
(* writes and commits.  In between every other request is free to act, and *)
(* what needs the locked row waits.  Ticking a step takes no task lock.    *)
(* The texts of steps and who ticked them are left out.                    *)
(***************************************************************************)
EXTENDS TaskBoard, Sequences, SequencesExt

CONSTANTS
  Step,             \* the ids a step can have
  NoStep,           \* NULL in step_id
  Proc,             \* requests under way
  MaxStepsPerTask

ASSUME StepsAssumption ==
  /\ NoStep \notin Step
  /\ MaxStepsPerTask \in Nat \ {0}

VARIABLES
  step,      \* task_steps: a function on the ids that exist
  request    \* what each request is doing; its other fields depend on pc

stepVars == <<step, request>>

StepRow == [task     : Task,
            position : Nat,
            done     : BOOLEAN,
            started  : BOOLEAN,                       \* started_at IS NOT NULL
            session  : Session \cup {NoSession}]      \* started_session_id

Idle == [pc |-> "idle"]

\* Between begin and commit these hold the row of .task.
Locking == {"adding", "removing", "moving", "starting", "asking"}

KeyHeld(t) == \E p \in Proc : request[p].pc \in Locking /\ request[p].task = t

\* An UPDATE that is still to be committed holds what it wrote (see Cycles),
\* but not against a foreign key.
RowHeld(t) ==
  \/ KeyHeld(t)
  \/ \E p \in Proc : request[p].pc = "ending" /\ t \in DOMAIN request[p].moved

Becomes(p, r) == request' = [request EXCEPT ![p] = r]

\* An id that a request still holds is not given out again: ids are unique
\* for ever.
InUse(x) == \E p \in Proc :
  \/ \E f \in DOMAIN request[p] \cap {"task", "step", "parent"} : request[p][f] = x
  \/ request[p].pc = "closing" /\ x \in request[p].subtrees

-----------------------------------------------------------------------------
(* Queries. *)

ListTaskSteps(t)  == {s \in DOMAIN step : step[s].task = t}
CountTaskSteps(t) == Cardinality(ListTaskSteps(t))
GetTaskStep(t, s) == s \in ListTaskSteps(t)
PendingSteps(t)   == {s \in ListTaskSteps(t) : ~ step[s].done}

InsertTaskStep(t, new, n) ==
  [s \in DOMAIN step \cup ToSet(new) |->
     IF s \in DOMAIN step THEN step[s]
     ELSE [task |-> t, position |-> n + (CHOOSE i \in 1..Len(new) : new[i] = s) - 1,
           done |-> FALSE, started |-> FALSE, session |-> NoSession]]

DeleteTaskStep(s) == [x \in DOMAIN step \ {s} |-> step[x]]

ShiftTaskSteps(table, t, delta, lo, hi) ==
  [s \in DOMAIN table |->
     IF table[s].task = t /\ table[s].position \in lo..hi
     THEN [table[s] EXCEPT !.position = @ + delta] ELSE table[s]]

SetTaskStepPosition(table, s, position) == [table EXCEPT ![s].position = position]

\* Ticking ends the in-progress mark; unticking leaves what it finds.
UpdateTaskStep(s, done) ==
  [step EXCEPT ![s] = IF done THEN [@ EXCEPT !.done = TRUE, !.started = FALSE, !.session = NoSession]
                      ELSE [@ EXCEPT !.done = FALSE]]

StopSessionSteps(t, ses) ==
  [s \in DOMAIN step |->
     IF step[s].task = t /\ ses # NoSession /\ step[s].session = ses /\ ~ step[s].done
     THEN [step[s] EXCEPT !.started = FALSE, !.session = NoSession] ELSE step[s]]

StartTaskStep(table, s, ses) == [table EXCEPT ![s].started = TRUE, ![s].session = ses]

-----------------------------------------------------------------------------
(* Transactions. *)

LockNothing(p, t) == TRUE       \* mutant: the row is read, not locked

LockTask(p, t) == ~ RowHeld(t)

\* Begins a transaction that holds the row of r.task.
withTaskLocked(p, r) ==
  /\ request[p] = Idle
  /\ r.task \in Live
  /\ LockTask(p, r.task)
  /\ Becomes(p, r)
  /\ UNCHANGED <<vars, step>>

\* It writes table over task_steps and commits.
CommitSteps(p, table) ==
  /\ step' = table
  /\ Becomes(p, Idle)

AddSteps(p, t, k) ==
  /\ CountTaskSteps(t) + k <= MaxStepsPerTask
  /\ withTaskLocked(p, [pc |-> "adding", task |-> t, k |-> k, n |-> CountTaskSteps(t)])

FinishAddSteps(p, new) ==
  /\ request[p].pc = "adding"
  /\ Len(new) = request[p].k /\ IsInjective(new)
  /\ \A s \in ToSet(new) : s \notin DOMAIN step /\ ~ InUse(s)
  /\ CommitSteps(p, InsertTaskStep(request[p].task, new, request[p].n))
  /\ UNCHANGED vars

RemoveStep(p, t, s) ==
  /\ GetTaskStep(t, s)
  /\ withTaskLocked(p, [pc |-> "removing", task |-> t, step |-> s, at |-> step[s].position])

FinishRemoveStep(p) ==
  /\ request[p].pc = "removing"
  /\ LET r == request[p]
     IN  CommitSteps(p, ShiftTaskSteps(DeleteTaskStep(r.step), r.task, -1, r.at + 1, MaxStepsPerTask))
  /\ UNCHANGED vars

\* The position asked for, clamped to the list.
Clamped(t, position) ==
  IF position < CountTaskSteps(t) THEN position ELSE CountTaskSteps(t) - 1

MoveStep(p, t, s, position) ==
  /\ GetTaskStep(t, s)
  /\ withTaskLocked(p, [pc |-> "moving", task |-> t, step |-> s,
                        from |-> step[s].position, to |-> Clamped(t, position)])

\* The steps between the old and the new position make room.
MakeRoom(t, from, to) ==
  IF to < from THEN ShiftTaskSteps(step, t, 1, to, from - 1)
  ELSE ShiftTaskSteps(step, t, -1, from + 1, to)

FinishMoveStep(p) ==
  /\ request[p].pc = "moving" /\ request[p].step \in DOMAIN step
  /\ LET r == request[p]
     IN  CommitSteps(p, SetTaskStepPosition(MakeRoom(r.task, r.from, r.to), r.step, r.to))
  /\ UNCHANGED vars

UpdateStep(t, s, done) ==
  /\ GetTaskStep(t, s)
  /\ step' = UpdateTaskStep(s, done)
  /\ UNCHANGED <<vars, request>>

-----------------------------------------------------------------------------
(* start_step: the task is read without a lock; one in todo moves to doing *)
(* in a transaction of its own; then the row is locked, and looked at      *)
(* again, to start the step for session ses (NoSession when it could not   *)
(* be recorded).                                                           *)

StartStep(p, t, s, ses, u) ==
  /\ request[p] = Idle
  /\ t \in Live /\ row[t].state \notin Closed
  /\ Becomes(p, [pc |-> IF row[t].state = "todo" THEN "to doing" ELSE "to start",
                 task |-> t, step |-> s, session |-> ses, user |-> u])
  /\ UNCHANGED <<vars, step>>

MoveToDoing(p) ==
  /\ request[p].pc = "to doing"
  /\ SetState(request[p].task, "doing", request[p].user)
  /\ Becomes(p, [request[p] EXCEPT !.pc = "to start"])

StartUnchecked(p) ==            \* mutant: the state read before the lock is trusted
  /\ request[p].pc = "to start"
  /\ LET r == request[p]
     IN  /\ r.task \in Live /\ LockTask(p, r.task)
         /\ GetTaskStep(r.task, r.step) /\ ~ step[r.step].done
  /\ Becomes(p, [request[p] EXCEPT !.pc = "starting"])
  /\ UNCHANGED <<vars, step>>

LockToStart(p) ==
  /\ request[p].pc = "to start"
  /\ LET r == request[p]
     IN  /\ r.task \in Live /\ LockTask(p, r.task)
         /\ row[r.task].state = "doing"
         /\ GetTaskStep(r.task, r.step) /\ ~ step[r.step].done
  /\ Becomes(p, [request[p] EXCEPT !.pc = "starting"])
  /\ UNCHANGED <<vars, step>>

\* The conversation goes on the task too when the task is the caller's.
Stamp(r) ==
  \/ r.session # NoSession /\ SetActiveSession(r.task, r.session, r.user)
  \/ /\ r.session # NoSession => row[r.task].assignee # r.user \/ row[r.task].state # "doing"
     /\ UNCHANGED vars

FinishStartStep(p) ==
  /\ request[p].pc = "starting" /\ request[p].step \in DOMAIN step
  /\ LET r == request[p]
     IN  /\ CommitSteps(p, StartTaskStep(StopSessionSteps(r.task, r.session), r.step, r.session))
         /\ Stamp(r)

\* An error, a cancelled request or a crash: the transaction is rolled back
\* and the steps still to come are not taken.
GiveUp(p) ==
  /\ request[p] # Idle
  /\ Becomes(p, Idle)
  /\ UNCHANGED <<vars, step>>

NobodyWaits == TRUE            \* mutant

\* A board operation waits for the rows other requests hold ...
BoardWaits ==
  \A t \in Live : RowHeld(t) =>
    t \in Live' /\ row'[t] = row[t] /\ (t \in asking' <=> t \in asking)

\* ... and its cascades take the steps along.
StepsFollow == step' = [s \in {x \in DOMAIN step : step[x].task \in Live'} |-> step[s]]

-----------------------------------------------------------------------------
StepsInit ==
  /\ step = [s \in {} |-> NoStep]
  /\ request = [p \in Proc |-> Idle]

\* The positions of a task's steps are 0, 1, 2 ... without gap or repetition,
\* so a client that shows them by position shows each one once.
StepsInOrder ==
  \A t \in Live : {step[s].position : s \in ListTaskSteps(t)} = 0..(CountTaskSteps(t) - 1)

Starts(s) ==
  /\ s \in DOMAIN step /\ s \in DOMAIN step'
  /\ step'[s].started /\ ~ step[s].started

\* A step starts only on a task in doing, whatever happened to the task
\* between start_step's reads and its last transaction.
StartsOnlyInDoing ==
  [][\A s \in Step : Starts(s) => row[step[s].task].state = "doing"]_<<vars, stepVars>>
=============================================================================
