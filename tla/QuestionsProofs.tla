---------------------------- MODULE QuestionsProofs ----------------------------
(***************************************************************************)
(* What Service promises of questions, for any board and any number of     *)
(* requests: they are the mailbox of Mailbox, the bell of an open question *)
(* keeps ringing, every table is well formed, and the readers of a task    *)
(* agree.                                                                  *)
(*                                                                         *)
(* The argument: a request that answers or takes holds rows no other does, *)
(* and what it read of them is still so when it commits (Holds); what a    *)
(* take committed is in one response only.                                 *)
(***************************************************************************)
EXTENDS CyclesProofs

(* The steps of the service, by what they do to the questions. *)

\* A request that is not about an answer goes on to something that is not either.
OffMail ==
  \/ UNCHANGED request
  \/ \E p \in Proc : \E r : Becomes(p, r) /\ request[p].pc \notin Mailing /\ r.pc \notin Mailing

\* Nothing.
Calm ==
  /\ UNCHANGED <<questionVars, asking>> /\ OffMail
  /\ Live \subseteq Live' /\ DOMAIN step \subseteq DOMAIN step'

\* A board operation or the removal of a step, with its cascade.
Follow == QuestionsWait /\ QuestionsFollow /\ Shrinks /\ OffMail

\* A call of the questions' own.
QuestionStep ==
  \/ \E p \in Proc :
       \/ \E q \in Question : FileQuestion(p, q) \/ Withdraw(p, q)
       \/ \E q \in Question, x \in Text :
            Answer(p, q, x) \/ \E ses \in Session, o \in BOOLEAN : RecordAnswer(p, q, x, ses, o)
       \/ \E ses \in Session : Take(p, ses)
       \/ OnQuestionAsked(p) \/ CommitAnswer(p) \/ CommitRecord(p) \/ CommitTake(p) \/ Respond(p)
       \/ ClearAsked(p)
       \/ GiveUp(p) /\ UNCHANGED questionVars
  \/ \E q \in Question, ses \in Session : SetOutcome(q, ses)
  \/ \E u, S : ReadBell(u, S)

LEMMA PlainOffMail == PlainRequest => OffMail
BY DEF PlainRequest, OffMail

LEMMA QuestionCallIs == ASSUME QuestionCalls PROVE Calm \/ QuestionStep
<1>1. ASSUME NEW p \in Proc, NEW t, NEW s, NEW ses, AskOn(p, t, s, ses) PROVE Calm
  <2>. DEFINE r == [pc |-> "asking", task |-> t, step |-> s, session |-> ses]
  <2>1. Becomes(p, r) /\ UNCHANGED <<vars, step, questionVars>> /\ request[p] = Idle
    BY <1>1 DEF AskOn, withTaskLocked
  <2>2. r.pc \notin Mailing
    BY DEF Mailing, Answering
  <2>. HIDE DEF r
  <2>. QED BY <2>1, <2>2, IdlePlain DEF Calm, OffMail, vars, Live
<1>. SUFFICES ASSUME NEW p \in Proc, NEW c \in Caller, NEW q \in Question,
                     \/ \E ses \in Session :
                          \/ \E t \in Task, s \in Step \cup {NoStep} : AskTool(p, c, t, s, ses)
                          \/ TakeTool(p, c, ses)
                          \/ \E x \in Text, o \in BOOLEAN : RecordAnswerTool(p, c, q, x, ses, o)
                          \/ SetOutcomeTool(c, q, ses)
                     \/ WithdrawTool(p, c, q)
                     \/ \E x \in Text : AnswerQuestionHandler(p, c, q, x)
                     \/ QuestionCommits(p, q)
                     \/ \E S \in SUBSET Question : MarkReadHandler(c, S)
                     \/ MarkAllReadHandler(c)
              PROVE  Calm \/ QuestionStep
  BY DEF QuestionCalls
<1>2. ASSUME NEW ses \in Session, NEW t, NEW s, AskTool(p, c, t, s, ses) PROVE Calm
  BY <1>1, <1>2 DEF AskTool
<1>3. ASSUME NEW ses \in Session, TakeTool(p, c, ses) PROVE QuestionStep
  BY <1>3 DEF TakeTool, QuestionStep
<1>4. ASSUME NEW ses \in Session, NEW x \in Text, NEW o \in BOOLEAN, RecordAnswerTool(p, c, q, x, ses, o)
      PROVE  QuestionStep
  BY <1>4 DEF RecordAnswerTool, QuestionStep
<1>5. ASSUME NEW ses \in Session, SetOutcomeTool(c, q, ses) PROVE QuestionStep
  BY <1>5 DEF SetOutcomeTool, QuestionStep
<1>6. ASSUME WithdrawTool(p, c, q) PROVE QuestionStep
  BY <1>6 DEF WithdrawTool, QuestionStep
<1>7. ASSUME NEW x \in Text, AnswerQuestionHandler(p, c, q, x) PROVE QuestionStep
  BY <1>7 DEF AnswerQuestionHandler, QuestionStep
<1>8. ASSUME QuestionCommits(p, q) PROVE QuestionStep
  BY <1>8 DEF QuestionCommits, QuestionStep
<1>9. ASSUME (\E S : MarkReadHandler(c, S)) \/ MarkAllReadHandler(c) PROVE QuestionStep
  <2>1. \E u, S : ReadBell(u, S)
    BY <1>9 DEF MarkReadHandler, MarkAllReadHandler
  <2>. QED BY <2>1 DEF QuestionStep
<1>. QED BY <1>2, <1>3, <1>4, <1>5, <1>6, <1>7, <1>8, <1>9

LEMMA CreateCalm == ASSUME NEW p \in Proc, NEW t \in Task, FinishCreate(p, t) PROVE Calm
<1>1. /\ request[p].pc = "creating" /\ UNCHANGED <<step, questionVars>>
      /\ Create(t, request[p].type, request[p].parent, request[p].user, request[p].claim)
      /\ markActiveSession(p, t, request[p].session, request[p].user)
  BY DEF FinishCreate, InsertTask
<1>2. PlainRequest
  <2>1. "creating" \notin Mailing
    BY DEF Mailing, Answering
  <2>. QED BY <1>1, <2>1, IdleOrMark
<1>3. Live \subseteq Live' /\ UNCHANGED asking
  BY <1>1 DEF Create, Live
<1>. QED BY <1>1, <1>2, <1>3, PlainOffMail DEF Calm

\* The end of a cycle, statement by statement.
LEMMA CycleCalm ==
  ASSUME NEW p \in Proc, BeginEndCycle(p) \/ CycleCommits(p), UNCHANGED questionVars
  PROVE  Calm
<1>1. UNCHANGED <<vars, step>>
  BY DEF BeginEndCycle, CycleCommits, MovePartialFeatureSubtrees, FinishEndCycle
<1>2. request[p].pc \notin Mailing
  <2>1. request[p].pc \in CycleWork \cup {"idle"}
    BY DEF BeginEndCycle, CycleCommits, MovePartialFeatureSubtrees, FinishEndCycle, CycleWork, Idle
  <2>. QED BY <2>1 DEF CycleWork, Mailing, Answering
<1>3. \E r : Becomes(p, r) /\ r.pc \notin Mailing
  <2>1. \A x : [pc |-> "closing", subtrees |-> x].pc \notin Mailing /\ [pc |-> "ending", moved |-> x].pc \notin Mailing
    BY DEF Mailing, Answering
  <2>. QED BY <2>1, IdlePlain DEF BeginEndCycle, CycleCommits, MovePartialFeatureSubtrees, FinishEndCycle
<1>4. OffMail
  BY <1>2, <1>3 DEF OffMail
<1>. QED BY <1>1, <1>4 DEF Calm, vars, Live

LEMMA AllQuestionSteps ==
  ASSUME ServiceInv, [ServiceNext]_serviceVars
  PROVE  Calm \/ Follow \/ QuestionStep
<1>1. CASE UNCHANGED serviceVars
  BY <1>1 DEF serviceVars, vars, stepVars, Calm, OffMail, Live
<1>2. Ripple \/ Removal => Follow
  BY PlainOffMail DEF Ripple, Cascades, Removal, Shrinks, Follow, vars, Live
<1>3. Aside => Calm
  BY PlainOffMail DEF Aside, Calm
<1>4. (\E p \in Proc : (BeginEndCycle(p) \/ CycleCommits(p)) /\ UNCHANGED questionVars) => Calm
  BY CycleCalm
<1>5. (\E p \in Proc : Fail(p)) => QuestionStep
  BY DEF Fail, QuestionStep
<1>. QED BY <1>1, <1>2, <1>3, <1>4, <1>5, AllKinds, CreateCalm, QuestionCallIs DEF Kinds

-----------------------------------------------------------------------------
(* The invariant. *)

\* A question and what its conversation was given: what is delivered is
\* answered, and nothing is given before that.
Sound(r, got) == (r.delivered => r.state = "answered") /\ (got # << >> => r.delivered)

QuestionTable ==
  /\ DOMAIN question \subseteq Question /\ question = [q \in DOMAIN question |-> question[q]]
  /\ handed = [q \in DOMAIN question |-> handed[q]]
  /\ DOMAIN bell \subseteq DOMAIN question
  /\ \A q \in DOMAIN question :
       /\ question[q] \in QuestionRow
       /\ question[q].task \in Live /\ question[q].step \in DOMAIN step \cup {NoStep}
       /\ Sound(question[q], handed[q])

\* The board knows which tasks ask.
AsksWhenOpen == \A t : t \in asking <=> \E q \in Open(question) : question[q].task = t

\* The questions a request is about to change, or to hand to their conversation.
Concern(r) ==
  IF r.pc \in Answering THEN r.rows ELSE IF r.pc = "handing" THEN DOMAIN r.answers ELSE {}

\* What a request read of them is still so.
Holds(r, table, got) ==
  /\ r.pc \in {"answering", "recording"} =>
       /\ r.text \in Text
       /\ \E q \in DOMAIN table : r.rows = {q} /\ table[q].state # "withdrawn" /\ ~ table[q].delivered
  /\ r.pc = "recording" => \A q \in r.rows : table[q].state = "open"
  /\ r.pc = "taking" =>
       /\ r.rows \subseteq DOMAIN table
       /\ \A q \in r.rows : table[q].state = "answered" /\ ~ table[q].delivered
       /\ \A q, m \in r.rows : table[q].session = table[m].session
  /\ r.pc = "handing" =>
       \A q \in DOMAIN r.answers \cap DOMAIN table :
         table[q].delivered /\ got[q] = << >> /\ r.answers[q] = table[q].text

\* It clears the bell of no open question but its own.
Mute(r, table) ==
  r.pc \in {"answering", "recording"} =>
    \A q \in r.bells \cap DOMAIN table : table[q].state = "open" => q \in r.rows

Apart == \A p, o \in Proc : p # o => Concern(request[p]) \cap Concern(request[o]) = {}

QuestionsInv ==
  /\ QuestionTable /\ AsksWhenOpen /\ Apart /\ OpenQuestionsRing
  /\ \A p \in Proc : Holds(request[p], question, handed) /\ Mute(request[p], question)

LEMMA PlainHolds ==
  ASSUME NEW r, r.pc \notin Mailing, NEW table, NEW got
  PROVE  Concern(r) = {} /\ Holds(r, table, got) /\ Mute(r, table)
BY DEF Mailing, Answering, Concern, Holds, Mute

LEMMA ConcernHeld ==
  ASSUME QuestionsInv, NEW p \in Proc, NEW q \in Concern(request[p]) \cap DOMAIN question
  PROVE  \/ ~ RowFree(q) /\ ~ question[q].delivered
         \/ request[p].pc = "handing" /\ question[q].delivered
<1>1. Holds(request[p], question, handed)
  BY DEF QuestionsInv
<1>2. CASE request[p].pc \in Answering
  <2>1. q \in request[p].rows /\ ~ RowFree(q)
    BY <1>2 DEF Concern, RowFree
  <2>2. CASE request[p].pc \in {"answering", "recording"}
    BY <1>1, <2>1, <2>2 DEF Holds
  <2>3. CASE request[p].pc = "taking"
    BY <1>1, <2>1, <2>3 DEF Holds
  <2>. QED BY <1>2, <2>2, <2>3 DEF Answering
<1>3. CASE request[p].pc = "handing"
  BY <1>1, <1>3 DEF Concern, Holds, Answering
<1>. QED BY <1>2, <1>3 DEF Concern

\* The rows a request may lock are nobody's concern.
LEMMA FreeRows ==
  ASSUME QuestionsInv, NEW p \in Proc, NEW q \in DOMAIN question, RowFree(q), ~ question[q].delivered
  PROVE  q \notin Concern(request[p])
BY ConcernHeld

SameRow(q) ==
  /\ question'[q].task = question[q].task /\ question'[q].session = question[q].session
  /\ question'[q].state = question[q].state /\ question'[q].text = question[q].text
  /\ question'[q].delivered = question[q].delivered

\* A step changes the questions of T only, closes those, and may file others.
Touches(T) ==
  /\ T \subseteq DOMAIN question /\ DOMAIN question \subseteq DOMAIN question'
  /\ \A q \in DOMAIN question \ T : SameRow(q) /\ handed'[q] = handed[q]
  /\ \A q \in DOMAIN question' \ DOMAIN question : ~ Referred(q)
  /\ \A q \in T : question'[q].state # "open"

LEMMA OthersKeep ==
  ASSUME QuestionsInv, NEW T, Touches(T), NEW o \in Proc, Concern(request[o]) \cap T = {}
  PROVE  Holds(request[o], question', handed') /\ Mute(request[o], question')
<1>. DEFINE r == request[o]
<1>1. Holds(r, question, handed) /\ Mute(r, question)
  BY DEF QuestionsInv
<1>2. \A q \in DOMAIN question' \ DOMAIN question :
        /\ r.pc = "handing" => q \notin DOMAIN r.answers
        /\ r.pc \in {"answering", "recording"} => q \notin r.bells
  BY DEF Touches, Referred
<1>3. \A q \in DOMAIN question : q \in DOMAIN question' /\ (q \in Concern(r) => SameRow(q) /\ handed'[q] = handed[q])
  BY DEF Touches
<1>. HIDE DEF r
<1>. SUFFICES Holds(r, question', handed') /\ Mute(r, question')
  BY DEF r
<1>4. CASE r.pc \in {"answering", "recording"}
  <2>1. Concern(r) = r.rows
    BY <1>4 DEF Concern, Answering
  <2>2. Holds(r, question', handed')
    BY <1>1, <1>3, <1>4, <2>1 DEF Holds, SameRow
  <2>3. Mute(r, question')
    <3>1. SUFFICES ASSUME NEW q \in r.bells \cap DOMAIN question', question'[q].state = "open"
                   PROVE  q \in r.rows
      BY DEF Mute
    <3>2. q \in DOMAIN question
      BY <1>2, <1>4, <3>1
    <3>3. question[q].state = "open"
      BY <3>1, <3>2 DEF Touches, SameRow
    <3>. QED BY <1>1, <1>4, <3>1, <3>2, <3>3 DEF Mute
  <2>. QED BY <2>2, <2>3
<1>5. CASE r.pc = "taking"
  <2>1. Concern(r) = r.rows /\ r.rows \subseteq DOMAIN question
    BY <1>1, <1>5 DEF Concern, Answering, Holds
  <2>2. r.rows \subseteq DOMAIN question' /\ \A q \in r.rows : SameRow(q)
    BY <1>3, <2>1
  <2>. QED BY <1>1, <1>5, <2>1, <2>2 DEF Holds, Mute, SameRow
<1>6. CASE r.pc = "handing"
  <2>1. Concern(r) = DOMAIN r.answers
    BY <1>6 DEF Concern, Answering
  <2>2. \A q \in DOMAIN r.answers \cap DOMAIN question' :
          q \in DOMAIN question /\ SameRow(q) /\ handed'[q] = handed[q]
    BY <1>2, <1>3, <1>6, <2>1
  <2>. QED BY <1>1, <1>6, <2>2 DEF Holds, Mute, SameRow
<1>7. CASE r.pc \notin Mailing
  BY <1>7, PlainHolds
<1>. QED BY <1>4, <1>5, <1>6, <1>7 DEF Mailing, Answering

\* What a call of request p leaves, when it goes on as r.
LEMMA GoOn ==
  ASSUME ServiceInv, QuestionsInv, NEW p \in Proc, NEW r, Becomes(p, r), NEW T, Touches(T),
         T \subseteq Concern(request[p]) \/ \A q \in T : RowFree(q) /\ ~ question[q].delivered,
         \/ Concern(r) \subseteq Concern(request[p])
         \/ \A q \in Concern(r) : q \in DOMAIN question /\ RowFree(q) /\ ~ question[q].delivered,
         Holds(r, question', handed'), Mute(r, question')
  PROVE  /\ Apart'
         /\ \A o \in Proc : Holds(request'[o], question', handed') /\ Mute(request'[o], question')
<1>1. DOMAIN request = Proc
  BY DEF ServiceInv, RequestsOK
<1>2. request'[p] = r /\ \A o \in Proc \ {p} : request'[o] = request[o]
  BY <1>1 DEF Becomes
<1>3. \A o \in Proc \ {p} : Concern(request[o]) \cap Concern(request[p]) = {}
  BY DEF QuestionsInv, Apart
<1>4. T \subseteq DOMAIN question
  BY DEF Touches
<1>5. \A o \in Proc \ {p} : Concern(request[o]) \cap T = {}
  BY <1>3, <1>4, FreeRows
<1>6. \A o \in Proc \ {p} : Concern(request[o]) \cap Concern(r) = {}
  BY <1>3, FreeRows
<1>7. Apart'
  <2>1. SUFFICES ASSUME NEW a \in Proc, NEW o \in Proc, a # o
                 PROVE  Concern(request'[a]) \cap Concern(request'[o]) = {}
    BY DEF Apart, Concern
  <2>2. CASE a # p /\ o # p
    BY <1>2, <2>1, <2>2 DEF QuestionsInv, Apart
  <2>3. CASE a = p
    BY <1>2, <1>6, <2>1, <2>3
  <2>4. CASE o = p
    BY <1>2, <1>6, <2>1, <2>4
  <2>. QED BY <2>2, <2>3, <2>4
<1>8. \A o \in Proc \ {p} : Holds(request'[o], question', handed') /\ Mute(request'[o], question')
  BY <1>2, <1>5, OthersKeep
<1>. QED BY <1>2, <1>7, <1>8
-----------------------------------------------------------------------------
(* The calls that change no question. *)

Fine == QuestionsInv' /\ [Box!MailboxNext]_letters

LEMMA Still ==
  ASSUME QuestionsInv, UNCHANGED <<vars, step, question, handed>>, DOMAIN bell' \subseteq DOMAIN question
  PROVE  QuestionTable' /\ AsksWhenOpen' /\ Touches({}) /\ letters' = letters
<1>1. QuestionTable'
  BY DEF QuestionsInv, QuestionTable, vars, Live
<1>2. AsksWhenOpen'
  BY DEF QuestionsInv, AsksWhenOpen, vars, Open
<1>3. Touches({})
  BY DEF Touches, SameRow
<1>4. letters' = letters
  BY DEF letters, Stage
<1>. QED BY <1>1, <1>2, <1>3, <1>4

LEMMA StillFine ==
  ASSUME ServiceInv, QuestionsInv, UNCHANGED <<vars, step, question, handed>>,
         DOMAIN bell' \subseteq DOMAIN question, OpenQuestionsRing',
         NEW p \in Proc, NEW r, Becomes(p, r),
         \/ Concern(r) = {}
         \/ \A q \in Concern(r) : q \in DOMAIN question /\ RowFree(q) /\ ~ question[q].delivered,
         Holds(r, question, handed), Mute(r, question)
  PROVE  Fine
<1>1. QuestionTable' /\ AsksWhenOpen' /\ Touches({}) /\ letters' = letters
  BY Still
<1>2. Apart' /\ \A o \in Proc : Holds(request'[o], question', handed') /\ Mute(request'[o], question')
  BY <1>1, GoOn
<1>. QED BY <1>1, <1>2 DEF Fine, QuestionsInv

LEMMA IdleFine ==
  ASSUME ServiceInv, QuestionsInv, UNCHANGED <<vars, step, question, handed>>,
         DOMAIN bell' \subseteq DOMAIN question, OpenQuestionsRing', NEW p \in Proc, Becomes(p, Idle)
  PROVE  Fine
BY IdlePlain, PlainHolds, StillFine

LEMMA AskedFine ==
  ASSUME ServiceInv, QuestionsInv, NEW p \in Proc, OnQuestionAsked(p)
  PROVE  Fine
<1>1. OpenQuestionsRing' /\ DOMAIN bell' \subseteq DOMAIN question
  BY DEF OnQuestionAsked, InsertNotification, QuestionsInv, QuestionTable, OpenQuestionsRing
<1>. QED BY <1>1, IdleFine DEF OnQuestionAsked

\* The bell of an open question is cleared with no other than its own answer.
LEMMA ClearsOwn ==
  ASSUME QuestionsInv, NEW t, NEW u, NEW done,
         NEW b \in MarkQuestionNotificationsRead(t, u, done), b \in Open(question)
  PROVE  b \in done
BY DEF MarkQuestionNotificationsRead, UnreadBells, CountOpenTaskQuestionsFor, CountOpenTaskQuestions

LEMMA ClearFine ==
  ASSUME ServiceInv, QuestionsInv, NEW p \in Proc, ClearAsked(p)
  PROVE  Fine
<1>. DEFINE S == MarkQuestionNotificationsRead(request[p].task, request[p].user, {})
<1>1. bell' = Cleared(S) /\ Becomes(p, Idle) /\ UNCHANGED <<vars, step, question, handed>>
  BY DEF ClearAsked
<1>2. \A q \in DOMAIN question : question[q].state = "open" => q \notin S
  BY ClearsOwn DEF Open
<1>. HIDE DEF S
<1>3. OpenQuestionsRing' /\ DOMAIN bell' \subseteq DOMAIN question
  BY <1>1, <1>2 DEF Cleared, QuestionsInv, QuestionTable, OpenQuestionsRing
<1>. QED BY <1>1, <1>3, IdleFine

LEMMA GiveUpFine ==
  ASSUME ServiceInv, QuestionsInv, NEW p \in Proc, GiveUp(p), UNCHANGED questionVars
  PROVE  Fine
<1>1. OpenQuestionsRing' /\ DOMAIN bell' \subseteq DOMAIN question
  BY DEF questionVars, QuestionsInv, QuestionTable, OpenQuestionsRing
<1>. QED BY <1>1, IdleFine DEF GiveUp, questionVars

LEMMA LockFine ==
  ASSUME ServiceInv, QuestionsInv, NEW p \in Proc, NEW q \in DOMAIN question, NEW x \in Text, NEW o,
         NEW pc \in {"answering", "recording"}, LockToAnswer(p, q, pc, x, o),
         question[q].state # "withdrawn", ~ question[q].delivered,
         pc = "recording" => question[q].state = "open"
  PROVE  Fine
<1>. DEFINE r == [pc |-> pc, text |-> x, outcome |-> o, rows |-> {q},
                  bells |-> MarkQuestionNotificationsRead(question[q].task, Recipient(q), {q})]
<1>1. Becomes(p, r) /\ RowFree(q) /\ UNCHANGED <<vars, step, questionVars>>
  BY DEF LockToAnswer
<1>2. Concern(r) = {q}
  BY DEF Concern, Answering
<1>3. Holds(r, question, handed)
  BY DEF Holds
<1>4. Mute(r, question)
  BY ClearsOwn DEF Mute, Open
<1>. HIDE DEF r
<1>5. OpenQuestionsRing' /\ DOMAIN bell' \subseteq DOMAIN question
  BY <1>1 DEF questionVars, QuestionsInv, QuestionTable, OpenQuestionsRing
<1>. QED BY <1>1, <1>2, <1>3, <1>4, <1>5, StillFine DEF questionVars

LEMMA AnswerFine ==
  ASSUME ServiceInv, QuestionsInv, NEW p \in Proc, NEW q, NEW x \in Text,
         Answer(p, q, x) \/ \E ses, o : RecordAnswer(p, q, x, ses, o)
  PROVE  Fine
<1>1. CASE Answer(p, q, x)
  BY <1>1, LockFine DEF Answer
<1>2. ASSUME NEW ses, NEW o, RecordAnswer(p, q, x, ses, o) PROVE Fine
  <2>1. ~ question[q].delivered /\ q \in DOMAIN question /\ question[q].state = "open"
    BY <1>2 DEF RecordAnswer, QuestionsInv, QuestionTable, Sound
  <2>. QED BY <1>2, <2>1, LockFine DEF RecordAnswer
<1>. QED BY <1>1, <1>2

LEMMA TakeFine ==
  ASSUME ServiceInv, QuestionsInv, NEW p \in Proc, NEW ses, Take(p, ses)
  PROVE  Fine
<1>. DEFINE r == [pc |-> "taking", rows |-> Takeable(ses)]
<1>1. Becomes(p, r) /\ UNCHANGED <<vars, step, questionVars>>
  BY DEF Take
<1>2. Concern(r) = Takeable(ses)
  BY DEF Concern, Answering
<1>3. Holds(r, question, handed)
  BY DEF Holds, Takeable
<1>4. Mute(r, question)
  BY DEF Mute
<1>. HIDE DEF r
<1>5. OpenQuestionsRing' /\ DOMAIN bell' \subseteq DOMAIN question
  BY <1>1 DEF questionVars, QuestionsInv, QuestionTable, OpenQuestionsRing
<1>6. \A q \in Concern(r) : q \in DOMAIN question /\ RowFree(q) /\ ~ question[q].delivered
  BY <1>2 DEF Takeable
<1>. QED BY <1>1, <1>3, <1>4, <1>5, <1>6, StillFine DEF questionVars
-----------------------------------------------------------------------------
(* The calls that change one question. *)

\* q becomes r, of the same task and conversation, and g what was given of it.
Edits(q, r, g) ==
  /\ q \in DOMAIN question /\ r \in QuestionRow
  /\ r.task = question[q].task /\ r.step = question[q].step /\ r.session = question[q].session
  /\ Sound(r, g)
  /\ question' = [question EXCEPT ![q] = r]
  /\ handed' = [handed EXCEPT ![q] = g]
  /\ UNCHANGED <<row, step>>
  /\ DOMAIN bell' \subseteq DOMAIN question

LEMMA EditTable ==
  ASSUME QuestionsInv, NEW q, NEW r, NEW g, Edits(q, r, g)
  PROVE  /\ QuestionTable'
         /\ r.state # "open" => Touches({q})
         /\ DOMAIN question' = DOMAIN question /\ question'[q] = r
         /\ \A x \in DOMAIN question \ {q} : question'[x] = question[x]
<1>1. DOMAIN question' = DOMAIN question /\ DOMAIN handed' = DOMAIN question /\ DOMAIN handed = DOMAIN question
  BY DEF Edits, QuestionsInv, QuestionTable
<1>2. /\ \A x \in DOMAIN question \ {q} : question'[x] = question[x] /\ handed'[x] = handed[x]
      /\ question'[q] = r /\ handed'[q] = g
  BY <1>1 DEF Edits
<1>3. QuestionTable'
  <2>1. Live' = Live /\ DOMAIN step' = DOMAIN step
    BY DEF Edits, Live
  <2>2. question' = [x \in DOMAIN question' |-> question'[x]] /\ handed' = [x \in DOMAIN question' |-> handed'[x]]
    BY <1>1 DEF Edits, QuestionsInv, QuestionTable
  <2>3. \A x \in DOMAIN question' :
           /\ question'[x] \in QuestionRow
           /\ question'[x].task \in Live /\ question'[x].step \in DOMAIN step \cup {NoStep}
           /\ Sound(question'[x], handed'[x])
    BY <1>1, <1>2 DEF Edits, QuestionsInv, QuestionTable
  <2>. QED BY <1>1, <2>1, <2>2, <2>3 DEF Edits, QuestionsInv, QuestionTable, Sound, QuestionRow
<1>4. r.state # "open" => Touches({q})
  BY <1>1, <1>2 DEF Edits, Touches, SameRow
<1>. QED BY <1>1, <1>2, <1>3, <1>4

LEMMA EditLetters ==
  ASSUME QuestionsInv, NEW q, NEW r, NEW g, Edits(q, r, g)
  PROVE  /\ q \in DOMAIN letters /\ letters[q].stage = Stage(q) /\ letters[q].got = handed[q]
         /\ letters' = [letters EXCEPT ![q] = [from |-> letters[q].from, stage |-> Stage(q)',
                                                text |-> r.text, got |-> g]]
<1>1. DOMAIN question' = DOMAIN question /\ DOMAIN handed = DOMAIN question
  BY EditTable DEF QuestionsInv, QuestionTable
<1>2. /\ \A x \in DOMAIN question \ {q} : question'[x] = question[x] /\ handed'[x] = handed[x]
      /\ question'[q] = r /\ handed'[q] = g /\ q \in DOMAIN question /\ r.session = question[q].session
  BY <1>1, EditTable DEF Edits
<1>3. \A x \in DOMAIN question \ {q} : Stage(x)' = Stage(x)
  BY <1>2 DEF Stage
<1>4. letters' = [x \in DOMAIN question |->
                    [from |-> question'[x].session, stage |-> Stage(x)',
                     text |-> question'[x].text, got |-> handed'[x]]]
  BY <1>1 DEF letters
<1>5. /\ q \in DOMAIN letters /\ DOMAIN letters = DOMAIN question
      /\ \A x \in DOMAIN question :
           letters[x] = [from |-> question[x].session, stage |-> Stage(x),
                         text |-> question[x].text, got |-> handed[x]]
  BY <1>2 DEF letters
<1>. DEFINE new == [from |-> letters[q].from, stage |-> Stage(q)', text |-> r.text, got |-> g]
<1>6. letters[q].stage = Stage(q) /\ letters[q].got = handed[q] /\ letters[q].from = question[q].session
  BY <1>2, <1>5
<1>7. \A x \in DOMAIN question : letters'[x] = IF x = q THEN new ELSE letters[x]
  BY <1>2, <1>3, <1>4, <1>5, <1>6
<1>. HIDE DEF new
<1>8. letters' = [x \in DOMAIN question |-> letters'[x]] /\ letters = [x \in DOMAIN question |-> letters[x]]
  BY <1>4 DEF letters
<1>9. letters' = [letters EXCEPT ![q] = new]
  BY <1>2, <1>5, <1>7, <1>8
<1>. QED BY <1>5, <1>6, <1>9 DEF new

\* The question is not open any more, and the board hears of it.
LEMMA SettleAsks ==
  ASSUME QuestionsInv, NEW q, NEW r, NEW g, Edits(q, r, g), r.state # "open",
         Settle(question[q].task, question')
  PROVE  AsksWhenOpen'
<1>1. /\ DOMAIN question' = DOMAIN question /\ question'[q] = r
      /\ \A x \in DOMAIN question \ {q} : question'[x] = question[x]
  BY EditTable
<1>2. Open(question') = Open(question) \ {q} /\ \A x \in Open(question') : question'[x] = question[x]
  BY <1>1 DEF Open
<1>. QED BY <1>2 DEF Settle, AsksWhenOpen, QuestionsInv

LEMMA EditFine ==
  ASSUME ServiceInv, QuestionsInv, NEW q, NEW r, NEW g, Edits(q, r, g), r.state # "open",
         Settle(question[q].task, question'), OpenQuestionsRing',
         NEW p \in Proc, NEW s, Becomes(p, s), s.pc \notin Mailing,
         \/ request[p].pc \in Answering /\ q \in request[p].rows
         \/ RowFree(q) /\ ~ question[q].delivered
  PROVE  QuestionsInv'
<1>1. QuestionTable' /\ Touches({q})
  BY EditTable
<1>2. Concern(s) = {} /\ Holds(s, question', handed') /\ Mute(s, question')
  BY PlainHolds
<1>3. {q} \subseteq Concern(request[p]) \/ \A x \in {q} : RowFree(x) /\ ~ question[x].delivered
  BY DEF Concern
<1>4. Apart' /\ \A o \in Proc : Holds(request'[o], question', handed') /\ Mute(request'[o], question')
  BY <1>1, <1>2, <1>3, GoOn
<1>. QED BY <1>1, <1>4, SettleAsks DEF QuestionsInv
\* A commit clears the bells its request listed; of those only its own
\* question may still be open before it.
LEMMA CommitRings ==
  ASSUME QuestionsInv, NEW q, NEW r, NEW g, Edits(q, r, g), r.state # "open",
         NEW p \in Proc, request[p].pc \in {"answering", "recording"}, request[p].rows = {q},
         bell' = Cleared(request[p].bells)
  PROVE  OpenQuestionsRing'
<1>1. /\ DOMAIN question' = DOMAIN question /\ question'[q] = r
      /\ \A x \in DOMAIN question \ {q} : question'[x] = question[x]
  BY EditTable
<1>2. \A x \in request[p].bells \cap DOMAIN question : question[x].state = "open" => x = q
  BY DEF QuestionsInv, Mute
<1>3. DOMAIN bell' = DOMAIN bell /\ DOMAIN bell \subseteq DOMAIN question
  BY DEF Cleared, QuestionsInv, QuestionTable
<1>4. SUFFICES ASSUME NEW x \in DOMAIN bell, question'[x].state = "open" PROVE bell'[x] # "cleared"
  BY <1>3 DEF OpenQuestionsRing
<1>5. x # q /\ question[x].state = "open" /\ x \notin request[p].bells
  BY <1>1, <1>2, <1>3, <1>4
<1>6. bell'[x] = bell[x] /\ bell[x] # "cleared"
  BY <1>4, <1>5 DEF Cleared, QuestionsInv, OpenQuestionsRing
<1>. QED BY <1>6

LEMMA CommitAnswerFine ==
  ASSUME ServiceInv, QuestionsInv, NEW p \in Proc, CommitAnswer(p)
  PROVE  Fine
<1>1. PICK q \in request[p].rows \cap DOMAIN question :
        question' = AnswerTaskQuestion(q, request[p].text) /\ Settle(question[q].task, question')
  BY DEF CommitAnswer
<1>2. /\ request[p].pc = "answering" /\ bell' = Cleared(request[p].bells) /\ Becomes(p, Idle)
      /\ UNCHANGED <<row, step, handed>>
  BY DEF CommitAnswer
<1>3. /\ request[p].rows = {q} /\ request[p].text \in Text
      /\ question[q].state # "withdrawn" /\ ~ question[q].delivered
  BY <1>1, <1>2 DEF QuestionsInv, Holds
<1>. DEFINE x == request[p].text
            r == [question[q] EXCEPT !.state = "answered", !.text = x]
<1>4. question[q] \in QuestionRow /\ Sound(question[q], handed[q])
  BY DEF QuestionsInv, QuestionTable
<1>5. /\ r \in QuestionRow /\ r.state = "answered" /\ r.text = x
      /\ r.delivered = FALSE /\ r.task = question[q].task
      /\ r.step = question[q].step /\ r.session = question[q].session
  BY <1>3, <1>4 DEF QuestionRow
<1>6. question' = [question EXCEPT ![q] = r] /\ handed' = [handed EXCEPT ![q] = handed[q]]
  BY <1>1, <1>2, <1>4 DEF AnswerTaskQuestion, QuestionRow, QuestionsInv, QuestionTable
<1>. HIDE DEF r
<1>7. Edits(q, r, handed[q])
  BY <1>2, <1>3, <1>4, <1>5, <1>6 DEF Edits, Sound, Cleared, QuestionsInv, QuestionTable
<1>8. OpenQuestionsRing'
  BY <1>2, <1>3, <1>5, <1>7, CommitRings
<1>9. QuestionsInv'
  BY <1>1, <1>2, <1>5, <1>7, <1>8, IdlePlain, EditFine DEF Answering
<1>10. Stage(q) \in {"filed", "replied"} /\ Stage(q)' = "replied"
  <2>1. question'[q] = r
    BY <1>7, EditTable
  <2>. QED BY <1>3, <1>4, <1>5, <2>1 DEF Stage, QuestionRow
<1>11. /\ q \in DOMAIN letters /\ letters[q].stage = Stage(q)
       /\ letters' = [letters EXCEPT ![q] = [from |-> letters[q].from, stage |-> "replied",
                                              text |-> x, got |-> letters[q].got]]
  BY <1>5, <1>7, <1>10, EditLetters
<1>12. letters[q] = [from |-> letters[q].from, stage |-> letters[q].stage,
                     text |-> letters[q].text, got |-> letters[q].got]
  BY DEF letters
<1>13. letters' = [letters EXCEPT ![q].stage = "replied", ![q].text = x]
  BY <1>11, <1>12
<1>14. Box!Reply(q, x)
  BY <1>10, <1>11, <1>13 DEF Box!Reply, Box!Staged
<1>15. q \in Question
  BY DEF QuestionsInv, QuestionTable
<1>. QED BY <1>3, <1>9, <1>14, <1>15 DEF Fine, Box!MailboxNext

LEMMA CommitRecordFine ==
  ASSUME ServiceInv, QuestionsInv, NEW p \in Proc, CommitRecord(p)
  PROVE  Fine
<1>1. PICK q \in request[p].rows \cap DOMAIN question :
        LET recorded == RecordTaskAnswer(q, request[p].text)
        IN  /\ question' = IF request[p].outcome THEN SetTaskQuestionOutcome(recorded, q) ELSE recorded
            /\ handed' = [handed EXCEPT ![q] = Append(@, request[p].text)]
            /\ Settle(question[q].task, question')
  BY DEF CommitRecord
<1>2. /\ request[p].pc = "recording" /\ bell' = Cleared(request[p].bells) /\ Becomes(p, Idle)
      /\ UNCHANGED <<row, step>>
  BY DEF CommitRecord
<1>3. /\ request[p].rows = {q} /\ request[p].text \in Text
      /\ question[q].state = "open" /\ ~ question[q].delivered
  BY <1>1, <1>2 DEF QuestionsInv, Holds
<1>. DEFINE x == request[p].text
            r == [question[q] EXCEPT !.state = "answered", !.text = x, !.delivered = TRUE,
                                     !.outcome = IF request[p].outcome THEN TRUE ELSE @]
<1>4. question[q] \in QuestionRow /\ Sound(question[q], handed[q])
  BY DEF QuestionsInv, QuestionTable
<1>5. handed[q] = << >> /\ handed' = [handed EXCEPT ![q] = <<x>>]
  <2>1. handed[q] = << >>
    BY <1>3, <1>4 DEF Sound
  <2>2. Append(<< >>, x) = <<x>>
    OBVIOUS
  <2>. QED BY <1>1, <2>1, <2>2
<1>6. /\ r \in QuestionRow /\ r.state = "answered" /\ r.text = x
      /\ r.delivered = TRUE /\ r.task = question[q].task
      /\ r.step = question[q].step /\ r.session = question[q].session
  BY <1>3, <1>4 DEF QuestionRow
<1>7. question' = [question EXCEPT ![q] = r]
  <2>1. CASE request[p].outcome
    BY <1>1, <1>4, <2>1 DEF RecordTaskAnswer, SetTaskQuestionOutcome, QuestionRow, QuestionsInv, QuestionTable
  <2>2. CASE ~ request[p].outcome
    BY <1>1, <1>4, <2>2 DEF RecordTaskAnswer, QuestionRow, QuestionsInv, QuestionTable
  <2>. QED BY <2>1, <2>2
<1>. HIDE DEF r
<1>8. Edits(q, r, <<x>>)
  BY <1>2, <1>3, <1>4, <1>5, <1>6, <1>7 DEF Edits, Sound, Cleared, QuestionsInv, QuestionTable
<1>9. OpenQuestionsRing'
  BY <1>2, <1>3, <1>6, <1>8, CommitRings
<1>10. QuestionsInv'
  BY <1>1, <1>2, <1>6, <1>8, <1>9, IdlePlain, EditFine DEF Answering
<1>11. Stage(q) = "filed" /\ Stage(q)' = "handed"
  <2>1. question'[q] = r
    BY <1>8, EditTable
  <2>. QED BY <1>3, <1>6, <2>1 DEF Stage
<1>12. /\ q \in DOMAIN letters /\ letters[q].stage = Stage(q)
       /\ letters' = [letters EXCEPT ![q] = [from |-> letters[q].from, stage |-> "handed",
                                              text |-> x, got |-> <<x>>]]
  BY <1>6, <1>8, <1>11, EditLetters
<1>13. letters[q] = [from |-> letters[q].from, stage |-> letters[q].stage,
                     text |-> letters[q].text, got |-> letters[q].got]
  BY DEF letters
<1>14. letters' = [letters EXCEPT ![q].stage = "handed", ![q].text = x, ![q].got = <<x>>]
  BY <1>12, <1>13
<1>15. Box!Record(q, x)
  BY <1>11, <1>12, <1>14 DEF Box!Record, Box!Staged
<1>16. q \in Question
  BY DEF QuestionsInv, QuestionTable
<1>. QED BY <1>3, <1>10, <1>15, <1>16 DEF Fine, Box!MailboxNext

LEMMA WithdrawFine ==
  ASSUME ServiceInv, QuestionsInv, NEW p \in Proc, NEW q, Withdraw(p, q)
  PROVE  Fine
<1>. DEFINE r == [question[q] EXCEPT !.state = "withdrawn"]
            s == [pc |-> "clearing", task |-> question[q].task, user |-> Recipient(q)]
<1>1. /\ q \in DOMAIN question /\ question[q].state = "open" /\ RowFree(q)
      /\ question' = [question EXCEPT ![q].state = "withdrawn"]
      /\ Settle(question[q].task, question')
      /\ Becomes(p, s) /\ UNCHANGED <<row, step, bell, handed>>
  BY DEF Withdraw, Open, WithdrawTaskQuestion
<1>2. s.pc \notin Mailing
  BY DEF Mailing, Answering
<1>. HIDE DEF s
<1>3. question[q] \in QuestionRow /\ Sound(question[q], handed[q])
  BY <1>1 DEF QuestionsInv, QuestionTable
<1>4. /\ r \in QuestionRow /\ r.state = "withdrawn" /\ r.text = question[q].text
      /\ r.delivered = FALSE /\ r.task = question[q].task /\ ~ question[q].delivered
      /\ r.step = question[q].step /\ r.session = question[q].session
  BY <1>1, <1>3 DEF QuestionRow, Sound
<1>5. question' = [question EXCEPT ![q] = r] /\ handed' = [handed EXCEPT ![q] = handed[q]]
  BY <1>1, <1>3 DEF QuestionRow, QuestionsInv, QuestionTable
<1>. HIDE DEF r
<1>6. Edits(q, r, handed[q])
  BY <1>1, <1>3, <1>4, <1>5 DEF Edits, Sound, QuestionsInv, QuestionTable
<1>7. OpenQuestionsRing'
  BY <1>1, <1>4, <1>6, EditTable DEF OpenQuestionsRing, QuestionsInv, QuestionTable
<1>8. QuestionsInv'
  BY <1>1, <1>2, <1>4, <1>6, <1>7, EditFine
<1>9. Stage(q) = "filed" /\ Stage(q)' = "dropped"
  <2>1. question'[q] = r
    BY <1>6, EditTable
  <2>. QED BY <1>1, <1>4, <2>1 DEF Stage
<1>10. /\ q \in DOMAIN letters /\ letters[q].stage = Stage(q)
       /\ letters' = [letters EXCEPT ![q] = [from |-> letters[q].from, stage |-> "dropped",
                                              text |-> question[q].text, got |-> letters[q].got]]
  BY <1>4, <1>6, <1>9, EditLetters
<1>11. /\ letters = [l \in DOMAIN letters |-> letters[l]]
       /\ letters[q] = [from |-> letters[q].from, stage |-> letters[q].stage,
                        text |-> question[q].text, got |-> letters[q].got]
  BY <1>1 DEF letters
<1>12. letters' = [l \in DOMAIN letters |->
                     IF l \in {q} THEN [letters[l] EXCEPT !.stage = "dropped"] ELSE letters[l]]
  <2>1. [letters[q] EXCEPT !.stage = "dropped"] =
          [from |-> letters[q].from, stage |-> "dropped", text |-> question[q].text, got |-> letters[q].got]
    BY <1>11
  <2>2. letters' = [l \in DOMAIN letters |->
                      IF l = q THEN [letters[q] EXCEPT !.stage = "dropped"] ELSE letters[l]]
    BY <1>10, <1>11, <2>1
  <2>. QED BY <2>2
<1>13. Box!Drop({q})
  BY <1>9, <1>10, <1>12 DEF Box!Drop, Box!Staged
<1>. QED BY <1>8, <1>10, <1>13 DEF Fine, Box!MailboxNext
-----------------------------------------------------------------------------
(* The calls that go on in no request, or change several questions.        *)

LEMMA AloneFine ==
  ASSUME QuestionsInv, UNCHANGED request, Touches({}), QuestionTable', AsksWhenOpen', OpenQuestionsRing'
  PROVE  QuestionsInv'
<1>1. Apart'
  BY DEF QuestionsInv, Apart, Concern
<1>2. \A o \in Proc : Holds(request'[o], question', handed') /\ Mute(request'[o], question')
  BY OthersKeep
<1>. QED BY <1>1, <1>2 DEF QuestionsInv

LEMMA OutcomeFine ==
  ASSUME QuestionsInv, NEW q, NEW ses, SetOutcome(q, ses)
  PROVE  Fine
<1>1. /\ q \in DOMAIN question /\ question' = [question EXCEPT ![q].outcome = TRUE]
      /\ UNCHANGED <<row, deps, asking, found, step, request, bell, handed>>
      /\ question[q] \in QuestionRow /\ Sound(question[q], handed[q])
      /\ question[q].state = "answered" /\ question[q].delivered
  BY DEF SetOutcome, SetTaskQuestionOutcome, vars, stepVars, QuestionsInv, QuestionTable
<1>. DEFINE r == [question[q] EXCEPT !.outcome = TRUE]
<1>2. /\ r \in QuestionRow /\ r.state = question[q].state /\ r.text = question[q].text
      /\ r.delivered = question[q].delivered /\ r.task = question[q].task
      /\ r.step = question[q].step /\ r.session = question[q].session
  BY <1>1 DEF QuestionRow
<1>3. question' = [question EXCEPT ![q] = r] /\ handed' = [handed EXCEPT ![q] = handed[q]]
  BY <1>1 DEF QuestionRow, QuestionsInv, QuestionTable
<1>. HIDE DEF r
<1>4. Edits(q, r, handed[q])
  BY <1>1, <1>2, <1>3 DEF Edits, Sound, QuestionsInv, QuestionTable
<1>5. /\ DOMAIN question' = DOMAIN question /\ question'[q] = r /\ QuestionTable'
      /\ \A x \in DOMAIN question \ {q} : question'[x] = question[x]
  BY <1>4, EditTable
<1>6. Touches({})
  BY <1>1, <1>2, <1>5 DEF Touches, SameRow
<1>7. Open(question') = Open(question) /\ \A x \in DOMAIN question : question'[x].task = question[x].task
  BY <1>2, <1>5 DEF Open
<1>8. AsksWhenOpen' /\ OpenQuestionsRing'
  BY <1>1, <1>7 DEF QuestionsInv, QuestionTable, AsksWhenOpen, OpenQuestionsRing, Open
<1>9. QuestionsInv'
  BY <1>1, <1>5, <1>6, <1>8, AloneFine
<1>10. \A x \in DOMAIN question : Stage(x)' = Stage(x) /\ question'[x].session = question[x].session
                                   /\ question'[x].text = question[x].text
  BY <1>2, <1>5 DEF Stage
<1>11. letters' = letters
  BY <1>1, <1>5, <1>10 DEF letters
<1>. QED BY <1>9, <1>11 DEF Fine

LEMMA ReadFine ==
  ASSUME QuestionsInv, NEW u, NEW S, ReadBell(u, S)
  PROVE  Fine
<1>1. UNCHANGED <<vars, step, request, question, handed>> /\ bell' = MarkRead(S)
  BY DEF ReadBell, stepVars
<1>2. OpenQuestionsRing' /\ DOMAIN bell' \subseteq DOMAIN question
  BY <1>1 DEF MarkRead, QuestionsInv, QuestionTable, OpenQuestionsRing
<1>3. QuestionTable' /\ AsksWhenOpen' /\ Touches({}) /\ letters' = letters
  BY <1>1, <1>2, Still
<1>. QED BY <1>1, <1>2, <1>3, AloneFine DEF Fine

LEMMA FileFine ==
  ASSUME ServiceInv, QuestionsInv, NEW p \in Proc, NEW q \in Question, FileQuestion(p, q)
  PROVE  Fine
<1>. DEFINE t == request[p].task
            ses == request[p].session
            new == [task |-> t, step |-> request[p].step, session |-> ses, state |-> "open",
                    text |-> NoText, delivered |-> FALSE, outcome |-> FALSE]
            r == [pc |-> "ringing", question |-> q]
<1>1. /\ request[p].pc = "asking" /\ q \notin DOMAIN question /\ ~ Referred(q)
      /\ question' = [x \in DOMAIN question \cup {q} |-> IF x # q THEN question[x] ELSE new]
      /\ asking' = asking \cup {t}
      /\ handed' = [x \in DOMAIN question \cup {q} |-> IF x = q THEN << >> ELSE handed[x]]
      /\ Becomes(p, r) /\ UNCHANGED <<row, deps, found, step, bell>>
  BY DEF FileQuestion, InsertTaskQuestion
<1>2. request[p] \in AskRequest /\ Fits(request[p], row, step)
  BY <1>1, PcTells DEF ServiceInv, RequestsOK
<1>3. /\ t \in Task /\ t \in Live /\ ses \in Session
      /\ request[p].step \in Step \cup {NoStep} /\ request[p].step \in DOMAIN step \cup {NoStep}
  BY <1>1, <1>2 DEF AskRequest, Fits, Locking, ListOf, Live
<1>4. new \in QuestionRow /\ new.task = t /\ new.step = request[p].step /\ new.state = "open"
      /\ new.delivered = FALSE /\ new.session = ses /\ new.text = NoText
  BY <1>3 DEF QuestionRow
<1>5. r.pc \notin Mailing
  BY DEF Mailing, Answering
<1>. HIDE DEF new, r
<1>6. /\ DOMAIN question' = DOMAIN question \cup {q} /\ question'[q] = new /\ handed'[q] = << >>
      /\ \A x \in DOMAIN question : question'[x] = question[x] /\ handed'[x] = handed[x]
  BY <1>1
<1>7. QuestionTable'
  <2>1. \A x \in DOMAIN question' :
           /\ question'[x] \in QuestionRow
           /\ question'[x].task \in Live /\ question'[x].step \in DOMAIN step \cup {NoStep}
           /\ Sound(question'[x], handed'[x])
    BY <1>3, <1>4, <1>6 DEF QuestionsInv, QuestionTable, Sound
  <2>2. DOMAIN question' \subseteq Question /\ DOMAIN bell' \subseteq DOMAIN question'
    BY <1>1, <1>6 DEF QuestionsInv, QuestionTable
  <2>3. /\ question' = [x \in DOMAIN question' |-> question'[x]]
        /\ handed' = [x \in DOMAIN question' |-> handed'[x]]
    BY <1>1, <1>6
  <2>. QED BY <1>1, <2>1, <2>2, <2>3 DEF QuestionTable, Sound, QuestionRow, Live
<1>8. AsksWhenOpen'
  <2>1. Open(question') = Open(question) \cup {q}
    BY <1>4, <1>6 DEF Open
  <2>2. \A x \in Open(question) : question'[x] = question[x]
    BY <1>6 DEF Open
  <2>3. \A y : y \in asking <=> \E x \in Open(question) : question[x].task = y
    BY DEF AsksWhenOpen, QuestionsInv
  <2>4. question'[q].task = t
    BY <1>4, <1>6
  <2>. HIDE DEF t
  <2>5. ASSUME NEW y PROVE y \in asking' <=> \E x \in Open(question') : question'[x].task = y
    BY <1>1, <2>1, <2>2, <2>3, <2>4
  <2>. QED BY <2>5 DEF AsksWhenOpen
<1>9. OpenQuestionsRing'
  BY <1>1, <1>6 DEF OpenQuestionsRing, QuestionsInv, QuestionTable
<1>10. Touches({})
  BY <1>1, <1>6 DEF Touches, SameRow
<1>11. Apart' /\ \A o \in Proc : Holds(request'[o], question', handed') /\ Mute(request'[o], question')
  <2>1. Concern(r) = {} /\ Holds(r, question', handed') /\ Mute(r, question')
    BY <1>5, PlainHolds
  <2>. QED BY <1>1, <1>10, <2>1, GoOn
<1>12. Box!File(q, ses)
  <2>1. DOMAIN letters = DOMAIN question
    BY DEF letters
  <2>2. \A x \in DOMAIN question : Stage(x)' = Stage(x)
    BY <1>6 DEF Stage
  <2>3. Stage(q)' = "filed"
    BY <1>4, <1>6 DEF Stage
  <2>4. letters' = [x \in DOMAIN question \cup {q} |->
                      [from |-> question'[x].session, stage |-> Stage(x)',
                       text |-> question'[x].text, got |-> handed'[x]]]
    BY <1>6 DEF letters
  <2>5. [from |-> question'[q].session, stage |-> Stage(q)', text |-> question'[q].text, got |-> handed'[q]]
          = Box!Fresh(ses)
    BY <1>4, <1>6, <2>3 DEF Box!Fresh
  <2>6. \A x \in DOMAIN question :
          letters[x] = [from |-> question'[x].session, stage |-> Stage(x)',
                        text |-> question'[x].text, got |-> handed'[x]]
    BY <1>6, <2>2 DEF letters
  <2>7. letters' = [x \in DOMAIN question \cup {q} |-> IF x = q THEN Box!Fresh(ses) ELSE letters[x]]
    BY <2>4, <2>5, <2>6
  <2>. QED BY <1>1, <2>1, <2>7 DEF Box!File
<1>. QED BY <1>3, <1>7, <1>8, <1>9, <1>11, <1>12 DEF Fine, QuestionsInv, Box!MailboxNext
LEMMA CommitTakeFine ==
  ASSUME ServiceInv, QuestionsInv, NEW p \in Proc, CommitTake(p)
  PROVE  Fine
<1>. DEFINE S == request[p].rows \cap DOMAIN question
            r == [pc |-> "handing", answers |-> [q \in S |-> question[q].text]]
<1>1. /\ request[p].pc = "taking" /\ question' = TakeTaskAnswers(S) /\ Becomes(p, r)
      /\ UNCHANGED <<vars, step, bell, handed>>
  BY DEF CommitTake
<1>2. /\ S \subseteq DOMAIN question /\ S \subseteq request[p].rows
      /\ \A q \in S : question[q].state = "answered" /\ ~ question[q].delivered
      /\ \A q, m \in S : question[q].session = question[m].session
  BY <1>1 DEF QuestionsInv, Holds
<1>3. /\ r.pc = "handing" /\ DOMAIN r.answers = S
      /\ \A q \in S : r.answers[q] = question[q].text
  OBVIOUS
<1>. HIDE DEF S, r
<1>4. \A q \in DOMAIN question : question[q] \in QuestionRow /\ Sound(question[q], handed[q])
  BY DEF QuestionsInv, QuestionTable
<1>5. /\ DOMAIN question' = DOMAIN question
      /\ \A q \in DOMAIN question \ S : question'[q] = question[q]
      /\ \A q \in S : question'[q] = [question[q] EXCEPT !.delivered = TRUE]
  BY <1>1, <1>2 DEF TakeTaskAnswers
<1>6. \A q \in S :
        /\ question'[q] \in QuestionRow /\ question'[q].delivered /\ question'[q].state = "answered"
        /\ question'[q].task = question[q].task /\ question'[q].step = question[q].step
        /\ question'[q].session = question[q].session /\ question'[q].text = question[q].text
        /\ handed[q] = << >>
  <2>1. SUFFICES ASSUME NEW q \in S
                 PROVE  /\ question'[q] \in QuestionRow /\ question'[q].delivered
                        /\ question'[q].state = "answered" /\ question'[q].task = question[q].task
                        /\ question'[q].step = question[q].step
                        /\ question'[q].session = question[q].session
                        /\ question'[q].text = question[q].text /\ handed[q] = << >>
    OBVIOUS
  <2>2. /\ question[q] \in QuestionRow /\ Sound(question[q], handed[q])
        /\ question[q].state = "answered" /\ ~ question[q].delivered
        /\ question'[q] = [question[q] EXCEPT !.delivered = TRUE]
    BY <1>2, <1>4, <1>5, <2>1
  <2>3. handed[q] = << >>
    BY <2>2 DEF Sound
  <2>. QED BY <2>2, <2>3 DEF QuestionRow
<1>7. QuestionTable'
  <2>1. \A q \in DOMAIN question' :
           /\ question'[q] \in QuestionRow
           /\ question'[q].task \in Live /\ question'[q].step \in DOMAIN step \cup {NoStep}
           /\ Sound(question'[q], handed'[q])
    BY <1>1, <1>5, <1>6 DEF QuestionsInv, QuestionTable, Sound
  <2>2. question' = [q \in DOMAIN question' |-> question'[q]]
    BY <1>1 DEF TakeTaskAnswers
  <2>. QED BY <1>1, <1>5, <2>1, <2>2 DEF QuestionsInv, QuestionTable, Sound, QuestionRow, vars, Live
<1>8. Open(question') = Open(question) /\ \A q \in DOMAIN question : question'[q].task = question[q].task
  BY <1>2, <1>5, <1>6 DEF Open
<1>9. AsksWhenOpen' /\ OpenQuestionsRing'
  <2>1. \A t : t \in asking' <=> \E q \in Open(question') : question'[q].task = t
    <3>1. \A t : t \in asking <=> \E q \in Open(question) : question[q].task = t
      BY DEF QuestionsInv, AsksWhenOpen
    <3>2. asking' = asking /\ \A q \in Open(question) : question'[q].task = question[q].task
      BY <1>1, <1>8 DEF vars, Open
    <3>. QED BY <1>8, <3>1, <3>2
  <2>2. \A q \in DOMAIN question : question'[q].state = "open" => question[q].state = "open"
    BY <1>5, <1>8 DEF Open
  <2>3. OpenQuestionsRing'
    BY <1>1, <2>2 DEF QuestionsInv, QuestionTable, OpenQuestionsRing
  <2>. QED BY <2>1, <2>3 DEF AsksWhenOpen
<1>10. Touches(S)
  BY <1>1, <1>2, <1>5, <1>6 DEF Touches, SameRow
<1>11. Concern(r) = S /\ S \subseteq Concern(request[p])
  BY <1>1, <1>2, <1>3 DEF Concern, Answering
<1>12. Holds(r, question', handed') /\ Mute(r, question')
  BY <1>1, <1>3, <1>6 DEF Holds, Mute
<1>13. Apart' /\ \A o \in Proc : Holds(request'[o], question', handed') /\ Mute(request'[o], question')
  BY <1>1, <1>10, <1>11, <1>12, GoOn
<1>14. Box!HandOver(S)
  <2>1. /\ DOMAIN letters = DOMAIN question
        /\ \A q \in DOMAIN question : letters[q] = [from |-> question[q].session, stage |-> Stage(q),
                                                     text |-> question[q].text, got |-> handed[q]]
    BY DEF letters
  <2>2. \A q \in S : Stage(q) = "replied" /\ Stage(q)' = "handed"
    BY <1>2, <1>6 DEF Stage
  <2>3. \A q \in DOMAIN question \ S : Stage(q)' = Stage(q)
    BY <1>5 DEF Stage
  <2>4. letters' = [q \in DOMAIN question |->
                      [from |-> question'[q].session, stage |-> Stage(q)',
                       text |-> question'[q].text, got |-> handed[q]]]
    BY <1>1, <1>5 DEF letters
  <2>5. \A q \in S : [letters[q] EXCEPT !.stage = "handed"] =
                        [from |-> question'[q].session, stage |-> Stage(q)',
                         text |-> question'[q].text, got |-> handed[q]]
    <3>1. SUFFICES ASSUME NEW q \in S
                   PROVE  [letters[q] EXCEPT !.stage = "handed"] =
                            [from |-> question'[q].session, stage |-> Stage(q)',
                             text |-> question'[q].text, got |-> handed[q]]
      OBVIOUS
    <3>2. letters[q] = [from |-> question[q].session, stage |-> Stage(q),
                        text |-> question[q].text, got |-> handed[q]]
      BY <1>2, <2>1
    <3>. QED BY <1>6, <2>2, <3>2
  <2>6. \A q \in DOMAIN question \ S :
          letters[q] = [from |-> question'[q].session, stage |-> Stage(q)',
                        text |-> question'[q].text, got |-> handed[q]]
    BY <1>5, <2>1, <2>3
  <2>7. letters' = [q \in DOMAIN letters |->
                      IF q \in S THEN [letters[q] EXCEPT !.stage = "handed"] ELSE letters[q]]
    BY <2>1, <2>4, <2>5, <2>6
  <2>8. S \subseteq Box!Staged({"replied"})
    BY <1>2, <2>1, <2>2 DEF Box!Staged
  <2>9. \A l, m \in S : letters[l].from = letters[m].from
    BY <1>2, <2>1
  <2>. QED BY <2>7, <2>8, <2>9 DEF Box!HandOver
<1>15. S \in SUBSET DOMAIN letters
  BY <1>2 DEF letters
<1>. QED BY <1>7, <1>9, <1>13, <1>14, <1>15 DEF Fine, QuestionsInv, Box!MailboxNext

LEMMA RespondFine ==
  ASSUME ServiceInv, QuestionsInv, NEW p \in Proc, Respond(p)
  PROVE  Fine
<1>. DEFINE got == request[p].answers
            S   == DOMAIN got \cap DOMAIN question
<1>1. /\ request[p].pc = "handing" /\ Becomes(p, Idle)
      /\ handed' = [q \in DOMAIN handed |-> IF q \in DOMAIN got THEN Append(handed[q], got[q]) ELSE handed[q]]
      /\ UNCHANGED <<vars, step, question, bell>>
  BY DEF Respond
<1>2. /\ \A q \in S : question[q].delivered /\ handed[q] = << >> /\ got[q] = question[q].text
      /\ \A q \in DOMAIN question : Sound(question[q], handed[q])
      /\ DOMAIN handed = DOMAIN question
  BY <1>1 DEF QuestionsInv, QuestionTable, Holds
<1>3. S \subseteq Concern(request[p]) /\ S \subseteq DOMAIN question
  BY <1>1 DEF Concern, Answering
<1>4. /\ DOMAIN handed' = DOMAIN question
      /\ \A q \in DOMAIN question \ S : handed'[q] = handed[q]
      /\ \A q \in S : handed'[q] = <<question[q].text>>
  <2>1. \A x : Append(<< >>, x) = <<x>>
    OBVIOUS
  <2>2. \A q \in S : handed'[q] = Append(<< >>, question[q].text)
    BY <1>1, <1>2
  <2>. QED BY <1>1, <1>2, <2>1, <2>2
<1>. HIDE DEF S, got
<1>5. QuestionTable'
  <2>1. \A q \in DOMAIN question : Sound(question[q], handed'[q])
    BY <1>2, <1>3, <1>4 DEF Sound
  <2>. QED BY <1>1, <1>4, <2>1 DEF QuestionsInv, QuestionTable, vars, Live
<1>6. AsksWhenOpen' /\ OpenQuestionsRing'
  BY <1>1 DEF QuestionsInv, AsksWhenOpen, OpenQuestionsRing, Open, vars
<1>7. Touches(S)
  <2>1. \A q \in S : question'[q].state # "open"
    BY <1>1, <1>2, <1>3 DEF Sound
  <2>. QED BY <1>1, <1>3, <1>4, <2>1 DEF Touches, SameRow
<1>8. Apart' /\ \A o \in Proc : Holds(request'[o], question', handed') /\ Mute(request'[o], question')
  <2>1. Concern(Idle) = {} /\ Holds(Idle, question', handed') /\ Mute(Idle, question')
    BY IdlePlain, PlainHolds
  <2>. QED BY <1>1, <1>3, <1>7, <2>1, GoOn
<1>9. Box!Receive(S)
  <2>1. /\ DOMAIN letters = DOMAIN question
        /\ \A q \in DOMAIN question : letters[q] = [from |-> question[q].session, stage |-> Stage(q),
                                                     text |-> question[q].text, got |-> handed[q]]
    BY DEF letters
  <2>2. \A q \in S : Stage(q) = "handed"
    BY <1>2, <1>3 DEF Stage, Sound
  <2>3. \A q \in DOMAIN question : Stage(q)' = Stage(q)
    BY <1>1 DEF Stage
  <2>4. letters' = [q \in DOMAIN question |->
                      [from |-> question[q].session, stage |-> Stage(q),
                       text |-> question[q].text, got |-> handed'[q]]]
    BY <1>1, <2>3 DEF letters
  <2>5. \A q \in S : [letters[q] EXCEPT !.got = <<letters[q].text>>] =
                        [from |-> question[q].session, stage |-> Stage(q),
                         text |-> question[q].text, got |-> handed'[q]]
    <3>1. SUFFICES ASSUME NEW q \in S
                   PROVE  [letters[q] EXCEPT !.got = <<letters[q].text>>] =
                            [from |-> question[q].session, stage |-> Stage(q),
                             text |-> question[q].text, got |-> handed'[q]]
      OBVIOUS
    <3>2. letters[q] = [from |-> question[q].session, stage |-> Stage(q),
                        text |-> question[q].text, got |-> handed[q]]
      BY <1>3, <2>1
    <3>. QED BY <1>4, <3>2
  <2>6. \A q \in DOMAIN question \ S :
          letters[q] = [from |-> question[q].session, stage |-> Stage(q),
                        text |-> question[q].text, got |-> handed'[q]]
    BY <1>4, <2>1
  <2>7. letters' = [q \in DOMAIN letters |->
                      IF q \in S THEN [letters[q] EXCEPT !.got = <<letters[q].text>>] ELSE letters[q]]
    BY <2>1, <2>4, <2>5, <2>6
  <2>8. S \subseteq Box!Staged({"handed"})
    BY <1>3, <2>1, <2>2 DEF Box!Staged
  <2>9. \A l \in S : letters[l].got = << >>
    BY <1>2, <1>3, <2>1
  <2>. QED BY <2>7, <2>8, <2>9 DEF Box!Receive
<1>10. S \in SUBSET DOMAIN letters
  BY <1>3 DEF letters
<1>. QED BY <1>5, <1>6, <1>8, <1>9, <1>10 DEF Fine, QuestionsInv, Box!MailboxNext

LEMMA QuestionStepFine == ASSUME ServiceInv, QuestionsInv, QuestionStep PROVE Fine
BY FileFine, WithdrawFine, AnswerFine, TakeFine, AskedFine, CommitAnswerFine, CommitRecordFine,
   CommitTakeFine, RespondFine, ClearFine, GiveUpFine, OutcomeFine, ReadFine DEF QuestionStep
-----------------------------------------------------------------------------
(* The steps of the rest of the service. *)

LEMMA PlainGoOn ==
  ASSUME ServiceInv, QuestionsInv, OffMail,
         \A o \in Proc : Holds(request[o], question', handed') /\ Mute(request[o], question')
  PROVE  /\ Apart'
         /\ \A o \in Proc : Holds(request'[o], question', handed') /\ Mute(request'[o], question')
<1>1. \A o \in Proc : request'[o] = request[o] \/ request'[o].pc \notin Mailing
  BY DEF OffMail, Becomes, ServiceInv, RequestsOK
<1>2. \A o \in Proc : Concern(request'[o]) \subseteq Concern(request[o])
  BY <1>1, PlainHolds
<1>3. Apart'
  BY <1>2 DEF Apart, QuestionsInv, Concern
<1>. QED BY <1>1, <1>3, PlainHolds

LEMMA CalmFine == ASSUME ServiceInv, QuestionsInv, Calm PROVE Fine
<1>1. UNCHANGED <<question, bell, handed, asking>> /\ OffMail
      /\ Live \subseteq Live' /\ DOMAIN step \subseteq DOMAIN step'
  BY DEF Calm, questionVars
<1>2. QuestionTable' /\ AsksWhenOpen' /\ OpenQuestionsRing'
  BY <1>1 DEF QuestionsInv, QuestionTable, AsksWhenOpen, OpenQuestionsRing, Open
<1>3. \A o \in Proc : Holds(request[o], question', handed') /\ Mute(request[o], question')
  BY <1>1 DEF QuestionsInv
<1>4. letters' = letters
  BY <1>1 DEF letters, Stage
<1>. QED BY <1>1, <1>2, <1>3, <1>4, PlainGoOn DEF QuestionsInv, Fine

Kept == {q \in DOMAIN question : question[q].task \in Live'}

\* A question after the cascade: its text and delivery stay; an open one on a
\* task that does not ask any more is withdrawn; a step that is gone is
\* forgotten.
LEMMA Followed ==
  ASSUME QuestionsInv, Follow
  PROVE  /\ DOMAIN question' = Kept /\ question' = [q \in Kept |-> question'[q]]
         /\ \A q \in Kept :
              /\ question'[q] \in QuestionRow
              /\ question'[q].task = question[q].task /\ question'[q].session = question[q].session
              /\ question'[q].text = question[q].text /\ question'[q].delivered = question[q].delivered
              /\ question'[q].state = IF question[q].state = "open" /\ question[q].task \notin asking'
                                      THEN "withdrawn" ELSE question[q].state
              /\ question'[q].step \in DOMAIN step' \cup {NoStep}
<1>1. question' = [q \in Kept |-> ForgetStep(WithdrawOpenTaskQuestions(question[q]))]
  BY DEF Follow, QuestionsFollow, Kept
<1>2. ASSUME NEW q \in Kept
      PROVE  /\ question'[q] \in QuestionRow
             /\ question'[q].task = question[q].task /\ question'[q].session = question[q].session
             /\ question'[q].text = question[q].text /\ question'[q].delivered = question[q].delivered
             /\ question'[q].state = IF question[q].state = "open" /\ question[q].task \notin asking'
                                     THEN "withdrawn" ELSE question[q].state
             /\ question'[q].step \in DOMAIN step' \cup {NoStep}
  <2>1. question[q] \in QuestionRow
    BY DEF Kept, QuestionsInv, QuestionTable
  <2>. DEFINE r == WithdrawOpenTaskQuestions(question[q])
  <2>2. /\ r \in QuestionRow /\ r.task = question[q].task /\ r.session = question[q].session
        /\ r.text = question[q].text /\ r.delivered = question[q].delivered
        /\ r.state = IF question[q].state = "open" /\ question[q].task \notin asking'
                     THEN "withdrawn" ELSE question[q].state
    BY <2>1 DEF WithdrawOpenTaskQuestions, QuestionRow
  <2>3. question'[q] = ForgetStep(r)
    BY <1>1
  <2>. HIDE DEF r
  <2>. QED BY <2>2, <2>3 DEF ForgetStep, QuestionRow
<1>. QED BY <1>1, <1>2

LEMMA FollowHolds ==
  ASSUME QuestionsInv, Follow, NEW o \in Proc
  PROVE  Holds(request[o], question', handed') /\ Mute(request[o], question')
<1>. DEFINE r == request[o]
<1>1. Holds(r, question, handed) /\ Mute(r, question)
  BY DEF QuestionsInv
<1>2. /\ DOMAIN question' = Kept /\ Kept \subseteq DOMAIN question
      /\ \A q \in Kept : handed'[q] = handed[q]
  BY Followed DEF Kept, Follow, QuestionsFollow
<1>3. \A q \in Kept : question'[q].state = "open" => question[q].state = "open"
  BY Followed
<1>4. \A q \in DOMAIN question : r.pc \in Answering /\ q \in r.rows =>
        q \in Kept /\ question'[q].state = question[q].state
  <2>1. SUFFICES ASSUME NEW q \in DOMAIN question, r.pc \in Answering, q \in r.rows
                 PROVE  q \in Kept /\ question'[q].state = question[q].state
    OBVIOUS
  <2>2. ~ RowFree(q)
    BY <2>1 DEF RowFree
  <2>3. question[q].task \in Live' /\ (question[q].state = "open" => question[q].task \in asking')
    BY <2>2 DEF Follow, QuestionsWait
  <2>. QED BY <2>3, Followed DEF Kept
<1>5. \A q \in Kept : /\ question'[q].session = question[q].session /\ question'[q].text = question[q].text
                      /\ question'[q].delivered = question[q].delivered
                      /\ question[q].state # "open" => question'[q].state = question[q].state
  BY Followed
<1>. HIDE DEF r
<1>. SUFFICES Holds(r, question', handed') /\ Mute(r, question')
  BY DEF r
<1>6. CASE r.pc \in {"answering", "recording"}
  <2>1. PICK q \in DOMAIN question : r.rows = {q} /\ question[q].state # "withdrawn" /\ ~ question[q].delivered
    BY <1>1, <1>6 DEF Holds
  <2>2. q \in Kept /\ question'[q].state = question[q].state /\ question'[q].delivered = question[q].delivered
    BY <1>4, <1>5, <1>6, <2>1 DEF Answering
  <2>3. Holds(r, question', handed')
    BY <1>1, <1>2, <1>6, <2>1, <2>2 DEF Holds
  <2>4. Mute(r, question')
    BY <1>1, <1>2, <1>3, <1>6 DEF Mute
  <2>. QED BY <2>3, <2>4
<1>7. CASE r.pc = "taking"
  <2>1. r.rows \subseteq DOMAIN question
    BY <1>1, <1>7 DEF Holds
  <2>2. \A q \in r.rows : /\ q \in Kept /\ question'[q].state = question[q].state
                          /\ question'[q].delivered = question[q].delivered
                          /\ question'[q].session = question[q].session
    BY <1>4, <1>5, <1>7, <2>1 DEF Answering
  <2>. QED BY <1>1, <1>2, <1>7, <2>2 DEF Holds, Mute
<1>8. CASE r.pc = "handing"
  BY <1>1, <1>2, <1>5, <1>8 DEF Holds, Mute
<1>9. CASE r.pc \notin Mailing
  BY <1>9, PlainHolds
<1>. QED BY <1>6, <1>7, <1>8, <1>9 DEF Mailing, Answering

LEMMA FollowAsks ==
  ASSUME ServiceInv, QuestionsInv, Follow
  PROVE  asking' \subseteq asking \cap Live' /\ AsksWhenOpen'
<1>1. asking' \subseteq asking \cap Live'
  BY DEF Follow, Shrinks, ServiceInv, BoardInv
<1>2. \A t : t \in asking <=> \E q \in Open(question) : question[q].task = t
  BY DEF QuestionsInv, AsksWhenOpen
<1>3. ASSUME NEW t, t \in asking' PROVE \E q \in Open(question') : question'[q].task = t
  <2>1. PICK q \in Open(question) : question[q].task = t
    BY <1>1, <1>2, <1>3
  <2>2. q \in Kept /\ question[q].state = "open"
    BY <1>1, <1>3, <2>1 DEF Kept, Open
  <2>. QED BY <1>3, <2>1, <2>2, Followed DEF Open
<1>4. ASSUME NEW q \in Open(question') PROVE question'[q].task \in asking'
  BY Followed DEF Open
<1>. QED BY <1>1, <1>3, <1>4 DEF AsksWhenOpen
LEMMA FollowLetters ==
  ASSUME ServiceInv, QuestionsInv, Follow
  PROVE  Box!MailboxNext
<1>1. /\ DOMAIN letters = DOMAIN question
      /\ \A q \in DOMAIN question : letters[q] = [from |-> question[q].session, stage |-> Stage(q),
                                                   text |-> question[q].text, got |-> handed[q]]
  BY DEF letters
<1>2. letters' = [q \in Kept |-> [from |-> question'[q].session, stage |-> Stage(q)',
                                   text |-> question'[q].text, got |-> handed'[q]]]
  BY Followed DEF letters
<1>3. \A q \in Kept : /\ question'[q].session = question[q].session /\ question'[q].text = question[q].text
                      /\ handed'[q] = handed[q]
  BY Followed DEF Follow, QuestionsFollow, Kept
<1>4. Kept \subseteq DOMAIN question
  BY DEF Kept
<1>5. \A q \in DOMAIN question :
        /\ question[q].task \in Live
        /\ question[q].state = "open" => question[q].task \in asking
  BY DEF QuestionsInv, QuestionTable, AsksWhenOpen, Open
<1>. DEFINE shut == {q \in DOMAIN question : question[q].state = "open" /\ question[q].task \notin asking'}
<1>6. \A q \in Kept \ shut : Stage(q)' = Stage(q)
  BY <1>4, Followed DEF Stage
<1>7. \A q \in Kept \cap shut : Stage(q) = "filed" /\ Stage(q)' = "dropped"
  BY Followed DEF Stage
<1>. HIDE DEF shut
<1>8. CASE Live' = Live
  <2>1. Kept = DOMAIN question
    BY <1>5, <1>8 DEF Kept
  <2>2. \A q \in DOMAIN question \cap shut :
          [letters[q] EXCEPT !.stage = "dropped"] =
            [from |-> question'[q].session, stage |-> Stage(q)', text |-> question'[q].text, got |-> handed'[q]]
    <3>1. SUFFICES ASSUME NEW q \in DOMAIN question, q \in shut
                   PROVE  [letters[q] EXCEPT !.stage = "dropped"] =
                            [from |-> question'[q].session, stage |-> Stage(q)',
                             text |-> question'[q].text, got |-> handed'[q]]
      OBVIOUS
    <3>2. letters[q] = [from |-> question[q].session, stage |-> Stage(q),
                        text |-> question[q].text, got |-> handed[q]]
      BY <1>1
    <3>. QED BY <1>3, <1>7, <2>1, <3>1, <3>2
  <2>3. \A q \in DOMAIN question \ shut :
          letters[q] = [from |-> question'[q].session, stage |-> Stage(q)',
                        text |-> question'[q].text, got |-> handed'[q]]
    BY <1>1, <1>3, <1>6, <2>1
  <2>4. letters' = [q \in DOMAIN letters |->
                      IF q \in shut THEN [letters[q] EXCEPT !.stage = "dropped"] ELSE letters[q]]
    BY <1>1, <1>2, <2>1, <2>2, <2>3
  <2>5. shut \subseteq Box!Staged({"filed"})
    BY <1>1, <1>7, <2>1 DEF Box!Staged, shut
  <2>6. shut \in SUBSET DOMAIN letters
    BY <1>1 DEF shut
  <2>. QED BY <2>4, <2>5, <2>6 DEF Box!Drop, Box!MailboxNext
<1>9. CASE asking' = asking \cap Live'
  <2>1. Kept \cap shut = {}
    BY <1>5, <1>9 DEF Kept, shut
  <2>2. \A q \in Kept : letters[q] = [from |-> question'[q].session, stage |-> Stage(q)',
                                       text |-> question'[q].text, got |-> handed'[q]]
    BY <1>1, <1>3, <1>4, <1>6, <2>1
  <2>3. letters' = [q \in Kept |-> letters[q]]
    BY <1>2, <2>2
  <2>. DEFINE gone == DOMAIN letters \ Kept
  <2>4. Kept = DOMAIN letters \ gone /\ gone \in SUBSET DOMAIN letters
    BY <1>1, <1>4
  <2>5. Box!Remove(gone)
    BY <2>3, <2>4 DEF Box!Remove
  <2>. HIDE DEF gone
  <2>. QED BY <2>4, <2>5 DEF Box!MailboxNext
<1>. QED BY <1>8, <1>9 DEF Follow, Shrinks

LEMMA FollowFine == ASSUME ServiceInv, QuestionsInv, Follow PROVE Fine
<1>1. /\ handed' = [q \in Kept |-> handed[q]] /\ bell' = [q \in Kept \cap DOMAIN bell |-> bell[q]]
      /\ Kept \subseteq DOMAIN question /\ OffMail
  BY DEF Follow, QuestionsFollow, Kept
<1>2. QuestionTable'
  <2>1. \A q \in DOMAIN question' :
           /\ question'[q] \in QuestionRow
           /\ question'[q].task \in Live' /\ question'[q].step \in DOMAIN step' \cup {NoStep}
           /\ Sound(question'[q], handed'[q])
    <3>1. SUFFICES ASSUME NEW q \in Kept
                   PROVE  /\ question'[q] \in QuestionRow
                          /\ question'[q].task \in Live' /\ question'[q].step \in DOMAIN step' \cup {NoStep}
                          /\ Sound(question'[q], handed'[q])
      BY Followed
    <3>2. Sound(question[q], handed[q]) /\ handed'[q] = handed[q]
      BY <1>1 DEF QuestionsInv, QuestionTable
    <3>3. question[q].task \in Live'
      BY DEF Kept
    <3>. QED BY <3>2, <3>3, Followed DEF Sound
  <2>2. /\ DOMAIN question' = Kept /\ question' = [q \in DOMAIN question' |-> question'[q]]
        /\ handed' = [q \in DOMAIN question' |-> handed'[q]]
    BY <1>1, Followed
  <2>3. DOMAIN question' \subseteq Question /\ DOMAIN bell' \subseteq DOMAIN question'
    BY <1>1, <2>2 DEF QuestionsInv, QuestionTable
  <2>. QED BY <2>1, <2>2, <2>3 DEF QuestionTable, Sound, QuestionRow, Live
<1>3. OpenQuestionsRing'
  <2>1. \A q \in Kept : question'[q].state = "open" => question[q].state = "open"
    BY Followed
  <2>. QED BY <1>1, <2>1 DEF QuestionsInv, OpenQuestionsRing
<1>4. Apart' /\ \A o \in Proc : Holds(request'[o], question', handed') /\ Mute(request'[o], question')
  BY <1>1, FollowHolds, PlainGoOn
<1>. QED BY <1>2, <1>3, <1>4, FollowAsks, FollowLetters DEF QuestionsInv, Fine

LEMMA QuestionsInvInit == ServiceInit => QuestionsInv /\ Box!MailboxInit
<1>. SUFFICES ASSUME ServiceInit PROVE QuestionsInv /\ Box!MailboxInit
  OBVIOUS
<1>1. /\ question = [q \in {} |-> NoText] /\ bell = [q \in {} |-> NoText] /\ handed = [q \in {} |-> NoText]
      /\ asking = {} /\ \A p \in Proc : request[p] = Idle
  BY DEF ServiceInit, QuestionsInit, StepsInit, Init
<1>2. DOMAIN question = {} /\ DOMAIN handed = {} /\ DOMAIN bell = {}
  BY <1>1
<1>3. QuestionTable /\ AsksWhenOpen /\ OpenQuestionsRing
  BY <1>1, <1>2 DEF QuestionTable, AsksWhenOpen, OpenQuestionsRing, Open
<1>4. Apart /\ \A p \in Proc : Holds(request[p], question, handed) /\ Mute(request[p], question)
  BY <1>1, IdlePlain, PlainHolds DEF Apart
<1>5. Box!MailboxInit
  BY <1>2 DEF Box!MailboxInit, letters
<1>. QED BY <1>3, <1>4, <1>5 DEF QuestionsInv

LEMMA QuestionsStep ==
  ASSUME ServiceInv, QuestionsInv, [ServiceNext]_serviceVars PROVE QuestionsInv' /\ [Box!MailboxNext]_letters
BY AllQuestionSteps, CalmFine, FollowFine, QuestionStepFine DEF Fine

-----------------------------------------------------------------------------
\* What a request read of the questions it is to change is so until it commits.
THEOREM QuestionsInvariant == ServiceSpec => [](ServiceInv /\ QuestionsInv)
<1>1. ServiceInit => ServiceInv /\ QuestionsInv
  BY ServiceInvInit, QuestionsInvInit
<1>2. ServiceInv /\ QuestionsInv /\ [ServiceNext]_serviceVars => (ServiceInv /\ QuestionsInv)'
  BY ServiceInvStep, QuestionsStep
<1>. QED BY <1>1, <1>2, PTL DEF ServiceSpec

\* No answer to one question silences the bell of another.
THEOREM OpenQuestionsKeepRinging == ServiceSpec => []OpenQuestionsRing
<1>1. QuestionsInv => OpenQuestionsRing
  BY DEF QuestionsInv
<1>. QED BY <1>1, QuestionsInvariant, PTL

\* Questions are a mailbox: an answer reaches the conversation that asked, at
\* most once, and is not edited after it was taken.
THEOREM QuestionsAreMail == ServiceSpec => ImplementsMailbox
<1>1. ServiceInit => Box!MailboxInit
  BY QuestionsInvInit
<1>2. ServiceInv /\ QuestionsInv /\ [ServiceNext]_serviceVars => [Box!MailboxNext]_letters
  BY QuestionsStep
<1>. QED BY <1>1, <1>2, QuestionsInvariant, PTL DEF ServiceSpec, ImplementsMailbox, Box!MailboxSpec

\* Every table is well formed and holds nothing of a deleted task, and a
\* request under way holds rows that exist.
THEOREM TablesWellFormed == ServiceSpec => []ServiceTypeOK
<1>1. ServiceInv /\ CyclesInv /\ QuestionsInv => ServiceTypeOK
  <2>. SUFFICES ASSUME ServiceInv, CyclesInv, QuestionsInv PROVE ServiceTypeOK
    OBVIOUS
  <2>1. TypeOK
    BY DEF ServiceInv, BoardInv, RowInv, TypeOK
  <2>2. /\ step \in [DOMAIN step -> StepRow] /\ DOMAIN step \subseteq Step
        /\ \A s \in DOMAIN step : step[s].task \in Live
    BY DEF ServiceInv, StepsOK, StepTable
  <2>3. /\ question \in [DOMAIN question -> QuestionRow] /\ DOMAIN question \subseteq Question
        /\ \A q \in DOMAIN question : question[q].task \in Live /\ question[q].step \in DOMAIN step \cup {NoStep}
        /\ DOMAIN bell \subseteq DOMAIN question /\ DOMAIN handed = DOMAIN question
    BY DEF QuestionsInv, QuestionTable
  <2>4. active \in Nat \ {0} /\ cycle \in [Live -> 1..active]
    BY DEF CyclesInv
  <2>5. ASSUME NEW p \in Proc
        PROVE  /\ request[p].pc \in Locking => request[p].task \in Live
               /\ request[p].pc \in Answering => request[p].rows \subseteq DOMAIN question
               /\ request[p].pc = "ending" => DOMAIN request[p].moved \subseteq Live
    <3>1. Fits(request[p], row, step) /\ Holds(request[p], question, handed)
      BY DEF ServiceInv, RequestsOK, QuestionsInv
    <3>2. request[p].pc = "ending" => DOMAIN request[p].moved \subseteq Live
      BY DEF ServiceInv, MoversOK
    <3>. QED BY <3>1, <3>2 DEF Fits, Holds, Answering, Live
  <2>. QED BY <2>1, <2>2, <2>3, <2>4, <2>5 DEF ServiceTypeOK
<1>. QED BY <1>1, CyclesInvariant, QuestionsInvariant, PTL
-----------------------------------------------------------------------------
(* The readers. *)

LEMMA ProgressTells ==
  ASSUME StepsOK, NEW t
  PROVE  TaskStepProgress(t).done = TaskStepProgress(t).total <=> PendingSteps(t) = {}
<1>1. /\ IsFiniteSet(PendingSteps(t)) /\ Cardinality(PendingSteps(t)) \in Nat
      /\ CountTaskSteps(t) \in Nat
  <2>1. IsFiniteSet(DOMAIN step)
    BY DEF StepsOK, StepTable
  <2>2. ListTaskSteps(t) \subseteq DOMAIN step /\ PendingSteps(t) \subseteq DOMAIN step
    BY DEF ListTaskSteps, PendingSteps
  <2>. QED BY <2>1, <2>2, FS_Subset, FS_CardinalityType DEF CountTaskSteps
<1>2. Cardinality(PendingSteps(t)) = 0 <=> PendingSteps(t) = {}
  BY <1>1, FS_EmptySet
<1>. QED BY <1>1, <1>2 DEF TaskStepProgress

\* The lists, the task page and the queue agree, whatever the tools do.
THEOREM ReadersAgree == ServiceSpec => []TaskReadersAgree
<1>1. ServiceInv /\ CyclesInv /\ QuestionsInv /\ Forest => TaskReadersAgree
  <2>. SUFFICES ASSUME ServiceInv, CyclesInv, QuestionsInv, Forest PROVE TaskReadersAgree
    OBVIOUS
  <2>1. BoardInv /\ StepsOK /\ \A t \in Live : row[t] \in Row /\ t \in Task
    BY DEF ServiceInv, BoardInv, RowInv
  <2>2. ListTasksTool(TRUE, TRUE) = {t \in Live : row[t].parent = NoTask}
    BY <2>1 DEF ListTasksTool, ListTasks, ListCycles, CyclesInv, Row
  <2>3. ASSUME NEW S \in SUBSET Live, ListTasksTool(TRUE, TRUE) \subseteq S,
               \A t \in S : GetTask(t).children \subseteq S
        PROVE  S = Live
    <3>1. \A t \in S : Children(t) \subseteq S
      BY <2>3 DEF GetTask, ListChildSummaries
    <3>. DEFINE rest == Live \ S
    <3>2. SUFFICES ASSUME rest # {} PROVE FALSE
      OBVIOUS
    <3>3. PICK x \in rest : row[x].parent \notin rest
      BY <3>2 DEF Forest
    <3>4. row[x].parent \in S
      <4>1. row[x].parent # NoTask
        BY <2>2, <2>3, <3>3
      <4>. QED BY <3>3, <4>1 DEF Forest
    <3>5. x \in Children(row[x].parent)
      BY <3>3 DEF Children
    <3>. QED BY <3>1, <3>3, <3>4, <3>5
  <2>4. ASSUME NEW t \in Live
        PROVE  /\ \A d \in GetTask(t).dependsOn : d \in Live /\ t \in GetTask(d).blocks
               /\ t \in asking <=> \E q \in GetTask(t).questions : question[q].state = "open"
               /\ GetTask(t).progress.done = GetTask(t).progress.total <=> GetTask(t).steps = {}
               /\ t \in NextTool => ClaimNextEligible(t)
    <3>1. \A x : /\ GetTask(x).dependsOn = ListDependsOnSummaries(x)
                 /\ GetTask(x).blocks = ListDependentSummaries(x)
                 /\ GetTask(x).questions = ListPendingTaskQuestions(x)
                 /\ GetTask(x).progress = TaskStepProgress(x)
                 /\ GetTask(x).steps = PendingSteps(x)
      BY DEF GetTask
    <3>2. \A d \in ListDependsOnSummaries(t) : d \in Live /\ t \in ListDependentSummaries(d)
      BY <2>1 DEF BoardInv, ListDependsOnSummaries, ListDependentSummaries
    <3>3. t \in asking <=> \E q \in ListPendingTaskQuestions(t) : question[q].state = "open"
      <4>1. \A q \in Open(question) : question[q].state = "open" /\ ~ question[q].delivered
        BY DEF QuestionsInv, QuestionTable, Sound, Open
      <4>2. t \in asking <=> \E q \in Open(question) : question[q].task = t
        BY DEF QuestionsInv, AsksWhenOpen
      <4>. QED BY <4>1, <4>2 DEF ListPendingTaskQuestions, Open
    <3>4. t \in NextTool => ClaimNextEligible(t)
      BY DEF NextTool, NextEligible, ClaimNextEligible, Unresolved, Closed
    <3>. QED BY <2>1, <3>1, <3>2, <3>3, <3>4, ProgressTells
  <2>5. \A q \in Open(question) : row[question[q].task].state \notin Closed
    BY <2>1 DEF QuestionsInv, AsksWhenOpen, BoardInv
  <2>6. ListTasksTool(FALSE, FALSE) \subseteq ListTasksHandler(FALSE)
    BY <2>1 DEF ListTasksTool, ListTasksHandler, ListTasks, EveryLevel, Row
  <2>. QED BY <2>3, <2>4, <2>5, <2>6 DEF TaskReadersAgree
<1>. QED BY <1>1, CyclesInvariant, QuestionsInvariant, ServiceIsABoard, TasksFormForest, PTL
===============================================================================
