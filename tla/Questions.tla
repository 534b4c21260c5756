------------------------------- MODULE Questions -------------------------------
(***************************************************************************)
(* Questions an agent asks the person it works for (internal/questions),   *)
(* and the bell entry that tells that person (internal/notifications).     *)
(*                                                                         *)
(* An answer and a take are transactions that lock the question rows they  *)
(* are about: one action locks and reads, a second one writes and commits. *)
(* The person asked is the user of the conversation that asks.  Options,   *)
(* reasons and the channel of an answer are left out; text stands for the  *)
(* whole answer.                                                           *)
(***************************************************************************)
EXTENDS Steps

CONSTANTS
  Question,   \* the ids a question can have
  Text,       \* answers
  NoText,
  Owner       \* the user of each conversation

ASSUME QuestionsAssumption ==
  /\ Owner \in [Session -> User]
  /\ NoText \notin Text

VARIABLES
  question,   \* task_questions: a function on the ids that exist
  bell,       \* the question_asked notifications, by question
  handed      \* the answers its conversation was given, by question, in order

questionVars == <<question, bell, handed>>

QuestionRow == [task      : Task,
                step      : Step \cup {NoStep},
                session   : Session,
                state     : {"open", "answered", "withdrawn"},
                text      : Text \cup {NoText},
                delivered : BOOLEAN,      \* delivered_at IS NOT NULL
                outcome   : BOOLEAN]

Recipient(q) == Owner[question[q].session]

\* Between begin and commit these hold the question rows in .rows.
Answering == {"answering", "recording", "taking"}

NothingHeld(q) == TRUE     \* mutant: the rows are read, not locked

RowFree(q) == \A p \in Proc : request[p].pc \in Answering => q \notin request[p].rows

\* A request still holds the id of q.
Referred(q) ==
  \E p \in Proc : LET r == request[p] IN
    \/ r.pc \in Answering /\ q \in r.rows
    \/ r.pc \in {"answering", "recording"} /\ q \in r.bells
    \/ r.pc = "ringing" /\ q = r.question
    \/ r.pc = "handing" /\ q \in DOMAIN r.answers

-----------------------------------------------------------------------------
(* Queries. *)

Open(table) == {q \in DOMAIN table : table[q].state = "open"}

CountOpenTaskQuestions(t)       == {q \in Open(question) : question[q].task = t}
CountOpenTaskQuestionsFor(t, u) == {q \in CountOpenTaskQuestions(t) : Recipient(q) = u}
CountOpenQuestionsForSession(s) == {q \in Open(question) : question[q].session = s}

\* What tasks.get shows: open, or answered and not taken.
ListPendingTaskQuestions(t) ==
  {q \in DOMAIN question : question[q].task = t /\ ~ question[q].delivered
                            /\ question[q].state # "withdrawn"}

ListTaskQuestions(states, u) ==
  {q \in DOMAIN question : question[q].state \in states /\ Recipient(q) = u}

InsertTaskQuestion(q, t, s, ses) ==
  [x \in DOMAIN question \cup {q} |->
     IF x # q THEN question[x]
     ELSE [task |-> t, step |-> s, session |-> ses, state |-> "open", text |-> NoText,
           delivered |-> FALSE, outcome |-> FALSE]]

AnswerTaskQuestion(q, x) == [question EXCEPT ![q].state = "answered", ![q].text = x]

RecordTaskAnswer(q, x) ==
  [question EXCEPT ![q].state = "answered", ![q].text = x, ![q].delivered = TRUE]

SetTaskQuestionOutcome(table, q) == [table EXCEPT ![q].outcome = TRUE]

\* The answers a take locks: it skips the rows somebody else holds.
TakeableAgain(ses) ==     \* mutant: an answer that was delivered is taken again
  {q \in DOMAIN question : question[q].session = ses /\ question[q].state = "answered" /\ RowFree(q)}

Takeable(ses) ==
  {q \in DOMAIN question : /\ question[q].session = ses /\ question[q].state = "answered"
                           /\ ~ question[q].delivered /\ RowFree(q)}

TakeTaskAnswers(S) ==
  [q \in DOMAIN question |-> IF q \in S THEN [question[q] EXCEPT !.delivered = TRUE] ELSE question[q]]

WithdrawTaskQuestion(q) == [question EXCEPT ![q].state = "withdrawn"]

InsertNotification(q) == [x \in DOMAIN bell \cup {q} |-> IF x = q THEN "unread" ELSE bell[x]]

UnreadBells(t, u) ==
  {q \in DOMAIN bell : bell[q] = "unread" /\ question[q].task = t /\ Recipient(q) = u}

MarkAllOfTask(t, u, done) == UnreadBells(t, u)    \* mutant: other open questions are not looked at

\* The bell entries to clear once the questions in done are closed: none
\* while the task has another open question of that user.
MarkQuestionNotificationsRead(t, u, done) ==
  IF CountOpenTaskQuestionsFor(t, u) \ done = {} THEN UnreadBells(t, u) ELSE {}

Cleared(S) == [q \in DOMAIN bell |-> IF q \in S /\ bell[q] = "unread" THEN "cleared" ELSE bell[q]]
MarkRead(S) == [q \in DOMAIN bell |-> IF q \in S /\ bell[q] = "unread" THEN "read" ELSE bell[q]]

-----------------------------------------------------------------------------
(* Asking. *)

\* The row lock keeps a close, which sweeps the open questions, from coming
\* in between.
AskOn(p, t, s, ses) ==
  /\ t \in Live /\ row[t].state \notin Closed
  /\ s = NoStep \/ GetTaskStep(t, s)
  /\ withTaskLocked(p, [pc |-> "asking", task |-> t, step |-> s, session |-> ses])
  /\ UNCHANGED questionVars

FileQuestion(p, q) ==
  /\ request[p].pc = "asking" /\ q \notin DOMAIN question /\ ~ Referred(q)
  /\ LET r == request[p]
     IN  /\ question' = InsertTaskQuestion(q, r.task, r.step, r.session)
         /\ asking' = asking \cup {r.task}
  /\ handed' = [x \in DOMAIN question \cup {q} |-> IF x = q THEN << >> ELSE handed[x]]
  /\ Becomes(p, [pc |-> "ringing", question |-> q])
  /\ UNCHANGED <<row, deps, found, step, bell>>

\* After the commit; the user's preferences or an error may keep it silent.
OnQuestionAsked(p) ==
  /\ request[p].pc = "ringing" /\ request[p].question \in DOMAIN question
  /\ bell' = InsertNotification(request[p].question)
  /\ Becomes(p, Idle)
  /\ UNCHANGED <<vars, step, question, handed>>

(* Answering. *)

\* The question's row is locked, the answer written and the bell cleared, all
\* of it still to be committed.
LockToAnswer(p, q, pc, x, outcome) ==
  /\ request[p] = Idle
  /\ RowFree(q)
  /\ Becomes(p, [pc |-> pc, text |-> x, outcome |-> outcome, rows |-> {q},
                 bells |-> MarkQuestionNotificationsRead(question[q].task, Recipient(q), {q})])
  /\ UNCHANGED <<vars, step, questionVars>>

\* By the person asked, once or again until the answer was taken.
Answer(p, q, x) ==
  /\ q \in DOMAIN question
  /\ question[q].state # "withdrawn" /\ ~ question[q].delivered
  /\ LockToAnswer(p, q, "answering", x, FALSE)

\* A task whose last open question is settled stops asking.
Settle(t, table) ==
  asking' = IF \E q \in Open(table) : table[q].task = t THEN asking ELSE asking \ {t}

CommitAnswer(p) ==
  /\ request[p].pc = "answering"
  /\ \E q \in request[p].rows \cap DOMAIN question :
       /\ question' = AnswerTaskQuestion(q, request[p].text)
       /\ Settle(question[q].task, question')
  /\ bell' = Cleared(request[p].bells)
  /\ Becomes(p, Idle)
  /\ UNCHANGED <<row, deps, found, step, handed>>

\* By the conversation that asked, which already has the answer.
RecordAnswer(p, q, x, ses, outcome) ==
  /\ q \in DOMAIN question
  /\ question[q].session = ses /\ question[q].state = "open"
  /\ LockToAnswer(p, q, "recording", x, outcome)

CommitRecord(p) ==
  /\ request[p].pc = "recording"
  /\ \E q \in request[p].rows \cap DOMAIN question :
       LET recorded == RecordTaskAnswer(q, request[p].text)
       IN  /\ question' = IF request[p].outcome THEN SetTaskQuestionOutcome(recorded, q) ELSE recorded
           /\ handed' = [handed EXCEPT ![q] = Append(@, request[p].text)]
           /\ Settle(question[q].task, question')
  /\ bell' = Cleared(request[p].bells)
  /\ Becomes(p, Idle)
  /\ UNCHANGED <<row, deps, found, step>>

SetOutcome(q, ses) ==
  /\ q \in DOMAIN question /\ RowFree(q)
  /\ question[q].session = ses
  /\ question[q].state = "answered" /\ question[q].delivered
  /\ question' = SetTaskQuestionOutcome(question, q)
  /\ UNCHANGED <<vars, stepVars, bell, handed>>

(* Taking. *)

Take(p, ses) ==
  /\ request[p] = Idle
  /\ Takeable(ses) # {}
  /\ Becomes(p, [pc |-> "taking", rows |-> Takeable(ses)])
  /\ UNCHANGED <<vars, step, questionVars>>

CommitTake(p) ==
  /\ request[p].pc = "taking"
  /\ LET S == request[p].rows \cap DOMAIN question
     IN  /\ question' = TakeTaskAnswers(S)
         /\ Becomes(p, [pc |-> "handing", answers |-> [q \in S |-> question[q].text]])
  /\ UNCHANGED <<vars, step, bell, handed>>

\* The response reaches the agent.  If it is lost, so are the answers.
Respond(p) ==
  /\ request[p].pc = "handing"
  /\ LET got == request[p].answers
     IN  handed' = [q \in DOMAIN handed |->
                      IF q \in DOMAIN got THEN Append(handed[q], got[q]) ELSE handed[q]]
  /\ Becomes(p, Idle)
  /\ UNCHANGED <<vars, step, question, bell>>

(* Withdrawing: two statements, each committed on its own. *)

Withdraw(p, q) ==
  /\ request[p] = Idle
  /\ q \in Open(question) /\ RowFree(q)
  /\ question' = WithdrawTaskQuestion(q)
  /\ Settle(question[q].task, question')
  /\ Becomes(p, [pc |-> "clearing", task |-> question[q].task, user |-> Recipient(q)])
  /\ UNCHANGED <<row, deps, found, step, bell, handed>>

ClearAsked(p) ==
  /\ request[p].pc = "clearing"
  /\ bell' = Cleared(MarkQuestionNotificationsRead(request[p].task, request[p].user, {}))
  /\ Becomes(p, Idle)
  /\ UNCHANGED <<vars, step, question, handed>>

\* The person reads some entries of the bell, or all of them.
ReadBell(u, S) ==
  /\ S # {} /\ S \subseteq {q \in DOMAIN bell : bell[q] = "unread" /\ Recipient(q) = u}
  /\ bell' = MarkRead(S)
  /\ UNCHANGED <<vars, stepVars, question, handed>>

\* A board operation waits for the questions it would change or delete ...
QuestionsWait ==
  \A q \in DOMAIN question : ~ RowFree(q) =>
    /\ question[q].task \in Live'
    /\ question[q].state = "open" => question[q].task \in asking'

\* ... closing a task withdraws the open ones, and the foreign keys follow
\* what it deletes.
KeepOpen(r) == r           \* mutant: the close leaves the questions open

WithdrawOpenTaskQuestions(r) ==
  IF r.state = "open" /\ r.task \notin asking' THEN [r EXCEPT !.state = "withdrawn"] ELSE r

KeepStep(r) == r           \* mutant: no foreign key on the step

ForgetStep(r) == IF r.step \in DOMAIN step' THEN r ELSE [r EXCEPT !.step = NoStep]

QuestionsFollow ==
  LET kept == {q \in DOMAIN question : question[q].task \in Live'}
  IN  /\ question' = [q \in kept |-> ForgetStep(WithdrawOpenTaskQuestions(question[q]))]
      /\ bell' = [q \in kept \cap DOMAIN bell |-> bell[q]]
      /\ handed' = [q \in kept |-> handed[q]]

-----------------------------------------------------------------------------
QuestionsInit ==
  /\ question = [q \in {} |-> NoText]
  /\ bell = [q \in {} |-> NoText]
  /\ handed = [q \in {} |-> NoText]

\* A question as a letter of the abstract mailbox.
Stage(q) ==
  CASE question[q].state = "open"      -> "filed"
    [] question[q].state = "withdrawn" -> "dropped"
    [] question[q].state = "answered"  -> IF question[q].delivered THEN "handed" ELSE "replied"

letters == [q \in DOMAIN question |->
              [from |-> question[q].session, stage |-> Stage(q),
               text |-> question[q].text, got |-> handed[q]]]

Box == INSTANCE Mailbox WITH Letter <- Question, Party <- Session, Words <- Text,
                             Blank <- NoText, box <- letters

\* Questions are such a mailbox: an answer reaches the conversation that
\* asked, once, and is not edited after it was taken, however answers, takes,
\* withdrawals and closing tasks interleave.
ImplementsMailbox == Box!MailboxSpec

\* No answer to one question silences the bell of another: the entry of a
\* question still open stays until its reader reads it.
OpenQuestionsRing == \A q \in DOMAIN bell : question[q].state = "open" => bell[q] # "cleared"
=============================================================================
