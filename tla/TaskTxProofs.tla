---------------------------- MODULE TaskTxProofs ----------------------------
(***************************************************************************)
(* What the row locks buy, for any number of clients, tasks and users.     *)
(*                                                                         *)
(* TxInv(p) says what p's locks let it rely on: a row it has drafted, read *)
(* under FOR UPDATE or rolled up is held, and what it decided from that    *)
(* row is still true.  A step of another client q cannot disturb it, since *)
(* q writes only rows q holds (LEMMA OthersKeep); the rest is one lemma    *)
(* per statement of p itself.                                              *)
(*                                                                         *)
(* Tracked(p) says what the commit of p will amount to on the board; from  *)
(* it follows that a commit is one operation of TaskBoard unless work      *)
(* opened during the call has overtaken it.                                *)
(***************************************************************************)
EXTENDS TaskTxBoard, FiniteSetTheorems, TLAPS

PC == {"idle", "comment", "lock", "act", "climb", "count", "select", "pick",
       "insert", "graph", "low", "high", "check", "commit"}
OP == {"none", "set", "close", "claim", "next", "ask", "dep", "create", "visit"}

Draft == UNION {[S -> Row] : S \in SUBSET Task}

Tx == [pc : PC, op : OP, t : Task \cup {NoTask}, s : State, u : User \cup {Nobody},
       at : Task \cup {NoTask}, cand : SUBSET Task, seen : SUBSET Task, draft : Draft]

Held(p, x) == upd[x] = {p}

\* The tables and the locks.
BoardInv ==
  /\ Live \subseteq Task /\ row \in [Live -> Row]
  /\ \A x \in Live : Parent[x] \in Live \cup {NoTask}
  /\ deps \subseteq Live \X Live
  /\ asking \subseteq Live
  /\ \A x \in asking : row[x].state \notin Closed
  /\ tx \in [Proc -> Tx]
  /\ upd \in [Task -> SUBSET Proc] /\ shr \in [Task -> SUBSET Proc]
  /\ \A x \in Task, p \in Proc : p \in upd[x] => upd[x] = {p} /\ shr[x] \subseteq {p}

Drafted(p)  == DOMAIN tx[p].draft
TakesTask   == {"set", "close", "claim", "ask"}
Moving      == {"set", "close"}
Writing     == {"climb", "count", "commit"}

\* Where each statement may be, and which rows it holds.
PlaceInv(p) ==
  /\ tx[p].op \in TakesTask => tx[p].t \in Live
  /\ (tx[p].op \in TakesTask /\ tx[p].pc \notin {"comment", "lock"}) => Held(p, tx[p].t)
  /\ tx[p].pc \in {"comment", "lock", "act"} => tx[p].op \in TakesTask
  /\ tx[p].pc \in {"climb", "count"} => tx[p].op \in Moving \cup {"visit"} /\ tx[p].at \in Live
  /\ tx[p].pc = "count" => Held(p, tx[p].at)
  /\ tx[p].pc \in {"select", "pick"} => tx[p].op = "next"
  /\ tx[p].pc = "insert" => tx[p].op = "create"
  /\ tx[p].pc \in {"graph", "low", "high", "check"} => tx[p].op = "dep"
  /\ tx[p].pc = "idle" => tx[p] = Idle
  /\ tx[p].cand \subseteq Live

\* What is drafted and not committed.
DraftInv(p) ==
  /\ tx[p].pc \notin Writing => Drafted(p) = {}
  /\ \A x \in Drafted(p) \cap Live : Held(p, x)
  /\ tx[p].op # "create" => Drafted(p) \subseteq Live
  /\ \A x \in Drafted(p) : tx[p].draft[x].state \in Closed => tx[p].op \in Moving \cup {"visit"}
  /\ \A x \in Drafted(p) \cap Live :
       (row[x].state = "doing" /\ tx[p].draft[x].state = "doing" /\ row[x].assignee # Nobody)
         => tx[p].draft[x].assignee = row[x].assignee

\* A row being created has one creator and a parent that exists.
CreateInv(p) ==
  tx[p].op = "create" =>
    /\ tx[p].t \in Task \ Live
    /\ Drafted(p) \subseteq {tx[p].t}
    /\ Parent[tx[p].t] \in Live \cup {NoTask}
    /\ \A x \in Drafted(p) : tx[p].draft[x].state = "todo"
    /\ (tx[p].pc = "commit" /\ Parent[tx[p].t] # NoTask) => p \in shr[Parent[tx[p].t]]
    /\ \A q \in Proc : q # p => tx[q].t # tx[p].t

\* What was read under a lock still holds.
ReadInv(p) ==
  /\ (tx[p].op = "ask" /\ tx[p].pc = "commit") => row[tx[p].t].state \notin Closed
  /\ (tx[p].op \in Moving /\ tx[p].pc \in Writing) => Preconditions(tx[p].t) \subseteq tx[p].seen

\* The new edge of p, and who may draw one.
GraphInv(p) ==
  /\ tx[p].op = "dep" => tx[p].t \in Live /\ tx[p].at \in Live /\ tx[p].t # tx[p].at
  /\ (tx[p].op = "dep" /\ tx[p].pc = "high") => Held(p, Low(p))
  /\ (tx[p].op = "dep" /\ tx[p].pc \in {"check", "commit"}) =>
       Held(p, tx[p].t) /\ Held(p, tx[p].at)
  /\ (tx[p].op = "dep" /\ tx[p].pc = "commit") => tx[p].t \notin ReachableFrom(tx[p].at)
  /\ \A q \in Proc : HoldsGraph(p) /\ HoldsGraph(q) => p = q

TxInv(p) == PlaceInv(p) /\ DraftInv(p) /\ CreateInv(p) /\ ReadInv(p) /\ GraphInv(p)

IInv == BoardInv /\ \A p \in Proc : TxInv(p)

-----------------------------------------------------------------------------
(* Kinds of steps. *)

\* q may have taken locks that were free for it.
LocksTaken(q) ==
  /\ upd' \in [Task -> SUBSET Proc] /\ shr' \in [Task -> SUBSET Proc]
  /\ \A x \in Task : upd'[x] = upd[x] \/ (upd[x] \subseteq {q} /\ upd'[x] = {q})
  /\ \A x \in Task : shr[x] \subseteq shr'[x]
  /\ \A x \in Task, p \in Proc : p \in upd'[x] => upd'[x] = {p} /\ shr'[x] \subseteq {p}

\* A step of q that commits nothing: q's record changes, and its locks.  A task id q turns to is live, or it is new
\* and nobody else has it; q gets the graph only when nobody has it.
QuietStep(q) ==
  /\ tx' = [tx EXCEPT ![q] = tx'[q]] /\ tx'[q] \in Tx
  /\ UNCHANGED <<row, deps, asking>>
  /\ LocksTaken(q)
  /\ tx'[q].t \in Live \cup {tx[q].t, NoTask} \/ \A p \in Proc : tx[p].t # tx'[q].t
  /\ HoldsGraph(q)' => HoldsGraph(q) \/ \A p \in Proc : ~ HoldsGraph(p)

\* Drafting one more row.
LEMMA WriteOK ==
  ASSUME NEW d \in Draft, NEW t \in Task, NEW r \in Row
  PROVE  /\ Write(d, t, r) \in Draft
         /\ DOMAIN Write(d, t, r) = DOMAIN d \cup {t}
         /\ Write(d, t, r)[t] = r
         /\ \A x \in DOMAIN d : x # t => Write(d, t, r)[x] = d[x]
<1>1. PICK S \in SUBSET Task : d \in [S -> Row]
  BY DEF Draft
<1>2. Write(d, t, r) \in [S \cup {t} -> Row]
  BY <1>1 DEF Write
<1>. QED BY <1>1, <1>2 DEF Write, Draft

\* The first and the last record of every call.
LEMMA IdleOK == Idle \in Tx /\ DOMAIN Idle.draft = {} /\ Idle.pc = "idle" /\ Idle.op = "none"
                /\ Idle.t = NoTask /\ Idle.cand = {}
<1>1. Nothing \in [{} -> Row] /\ {} \in SUBSET Task
  BY DEF Nothing
<1>2. Nothing \in Draft
  BY <1>1 DEF Draft
<1>. QED BY <1>2 DEF Idle, Tx, PC, OP, State, Nothing

\* What q reads of a row: its draft of it or the committed row.
LEMMA ViewOK ==
  ASSUME BoardInv, NEW q \in Proc
  PROVE  /\ DOMAIN View(q) = Live \cup Drafted(q)
         /\ \A x \in Drafted(q) : View(q)[x] = tx[q].draft[x] /\ View(q)[x] \in Row
         /\ \A x \in Live \ Drafted(q) : View(q)[x] = row[x] /\ View(q)[x] \in Row
         /\ Drafted(q) \subseteq Task
<1>1. tx[q].draft \in Draft
  BY DEF BoardInv, Tx
<1>2. PICK S \in SUBSET Task : tx[q].draft \in [S -> Row]
  BY <1>1 DEF Draft
<1>. QED BY <1>2 DEF View, Drafted, BoardInv, Live

\* A rolled back q holds nothing and drafts nothing.
LEMMA RollbackOwn ==
  ASSUME IInv, NEW q \in Proc, Rollback(q)
  PROVE  TxInv(q)' /\ tx'[q] = Idle
<1>1. tx'[q] = Idle
  BY DEF IInv, BoardInv, Rollback
<1>2. PlaceInv(q)' /\ DraftInv(q)' /\ CreateInv(q)' /\ ReadInv(q)'
  BY <1>1, IdleOK DEF PlaceInv, DraftInv, CreateInv, ReadInv, Drafted, TakesTask, Moving, Writing
<1>3. ~ HoldsGraph(q)'
  BY <1>1, IdleOK DEF HoldsGraph
<1>4. GraphInv(q)'
  BY <1>1, <1>3, IdleOK DEF GraphInv
<1>. QED BY <1>1, <1>2, <1>4 DEF TxInv

-----------------------------------------------------------------------------
(* The steps of q, one by one: each keeps TxInv(q). *)

\* The record a call starts with.
Started(q, op, pc, t, at) ==
  /\ tx'[q] \in Tx /\ tx' = [tx EXCEPT ![q] = tx'[q]]
  /\ tx'[q].op = op /\ tx'[q].pc = pc /\ tx'[q].t = t /\ tx'[q].at = at
  /\ tx'[q].cand = {} /\ DOMAIN tx'[q].draft = {}
  /\ UNCHANGED <<row, deps, asking, upd, shr>>

LEMMA CallFacts ==
  ASSUME BoardInv, NEW q \in Proc, NEW op \in OP, NEW pc \in PC, NEW t \in Task \cup {NoTask},
         NEW s \in State, NEW u \in User \cup {Nobody}, NEW at \in Task \cup {NoTask},
         Call(q, op, pc, t, s, u, at)
  PROVE  Started(q, op, pc, t, at)
<1>. DEFINE r == [Idle EXCEPT !.op = op, !.pc = pc, !.t = t, !.s = s, !.u = u, !.at = at]
<1>1. /\ r \in Tx /\ r.op = op /\ r.pc = pc /\ r.t = t /\ r.at = at
      /\ r.cand = {} /\ DOMAIN r.draft = {}
  BY IdleOK DEF Tx
<1>2. tx' = [tx EXCEPT ![q] = r] /\ UNCHANGED <<row, deps, asking, upd, shr>>
  BY DEF Call, Goto
<1>. HIDE DEF r
<1>3. tx'[q] = r
  BY <1>2 DEF BoardInv
<1>. QED BY <1>1, <1>2, <1>3 DEF Started

\* A record that holds nothing and relies on nothing but its arguments.
LEMMA FreshOwn ==
  ASSUME BoardInv, NEW q \in Proc,
         tx'[q] \in Tx, tx' = [tx EXCEPT ![q] = tx'[q]],
         UNCHANGED <<row, deps, asking, upd, shr>>,
         tx'[q].cand = {}, DOMAIN tx'[q].draft = {},
         \/ tx'[q].op \in TakesTask /\ tx'[q].pc \in {"comment", "lock"} /\ tx'[q].t \in Live
         \/ tx'[q].op = "next" /\ tx'[q].pc = "select" /\ tx'[q].t = NoTask
         \/ /\ tx'[q].op = "dep" /\ tx'[q].pc = "graph"
            /\ tx'[q].t \in Live /\ tx'[q].at \in Live /\ tx'[q].t # tx'[q].at
         \/ /\ tx'[q].op = "create" /\ tx'[q].pc = "insert" /\ tx'[q].t \in Task \ Live
            /\ Parent[tx'[q].t] \in Live \cup {NoTask} /\ \A p \in Proc : tx[p].t # tx'[q].t
         \/ /\ tx'[q].op = "visit" /\ tx'[q].pc = "climb"
            /\ tx'[q].t \in Live /\ tx'[q].at = tx'[q].t
  PROVE  QuietStep(q) /\ TxInv(q)'
<1>. USE DEF TakesTask
<1>0. Live' = Live /\ \A p \in Proc : p # q => tx'[p] = tx[p]
  BY DEF Live, BoardInv
<1>1. ~ HoldsGraph(q)'
  BY DEF HoldsGraph
<1>2. QuietStep(q)
  BY <1>1 DEF QuietStep, LocksTaken, BoardInv
<1>3. PlaceInv(q)'
  BY <1>0 DEF PlaceInv, Moving
<1>4. DraftInv(q)' /\ ReadInv(q)'
  BY DEF DraftInv, ReadInv, Drafted, Moving, Writing
<1>5. CreateInv(q)'
  BY <1>0 DEF CreateInv, Drafted
<1>6. GraphInv(q)'
  BY <1>0, <1>1 DEF GraphInv
<1>. QED BY <1>2, <1>3, <1>4, <1>5, <1>6 DEF TxInv

\* A call begins.
LEMMA CallOwn ==
  ASSUME IInv, NEW q \in Proc, SomeCall(q)
  PROVE  QuietStep(q) /\ TxInv(q)'
<1>. USE IdsAssumption
<1>0. BoardInv /\ Live \subseteq Task /\ NoTask \in Task \cup {NoTask} /\ Nobody \in User \cup {Nobody}
  BY DEF IInv, BoardInv
<1>1. ASSUME NEW op \in TakesTask, NEW pc \in {"comment", "lock"}, NEW t \in Live,
             NEW s \in State, NEW u \in User \cup {Nobody}, Call(q, op, pc, t, s, u, NoTask)
      PROVE  QuietStep(q) /\ TxInv(q)'
  <2>1. op \in OP /\ pc \in PC /\ t \in Task \cup {NoTask}
    BY <1>0 DEF TakesTask, OP, PC
  <2>2. Started(q, op, pc, t, NoTask)
    BY <1>0, <1>1, <2>1, CallFacts
  <2>. QED BY <1>0, <2>2, FreshOwn DEF Started
<1>2. ASSUME NEW u \in User, CallClaimNext(q, u)
      PROVE  QuietStep(q) /\ TxInv(q)'
  <2>0. "next" \in OP /\ "select" \in PC /\ "doing" \in State /\ u \in User \cup {Nobody}
        /\ Call(q, "next", "select", NoTask, "doing", u, NoTask)
    BY <1>2 DEF OP, PC, State, CallClaimNext
  <2>1. Started(q, "next", "select", NoTask, NoTask)
    BY <1>0, <2>0, CallFacts
  <2>. QED BY <1>0, <2>1, FreshOwn DEF Started
<1>3. ASSUME NEW t \in Task, NEW d \in Task, CallAddDep(q, t, d)
      PROVE  QuietStep(q) /\ TxInv(q)'
  <2>0. "dep" \in OP /\ "graph" \in PC /\ "todo" \in State
        /\ t \in Task \cup {NoTask} /\ d \in Task \cup {NoTask}
        /\ Call(q, "dep", "graph", t, "todo", Nobody, d)
    BY <1>3 DEF OP, PC, State, CallAddDep
  <2>1. Started(q, "dep", "graph", t, d)
    BY <1>0, <2>0, CallFacts
  <2>2. t # d /\ t \in Live /\ d \in Live
    BY <1>3 DEF CallAddDep
  <2>. QED BY <1>0, <2>1, <2>2, FreshOwn DEF Started
<1>4. ASSUME NEW t \in Task, CallCreate(q, t)
      PROVE  QuietStep(q) /\ TxInv(q)'
  <2>0. "create" \in OP /\ "insert" \in PC /\ "todo" \in State /\ t \in Task \cup {NoTask}
        /\ Call(q, "create", "insert", t, "todo", Nobody, NoTask)
    BY <1>4 DEF OP, PC, State, CallCreate
  <2>1. Started(q, "create", "insert", t, NoTask)
    BY <1>0, <2>0, CallFacts
  <2>2. t \in Task \ Live /\ Parent[t] \in Live \cup {NoTask} /\ \A p \in Proc : tx[p].t # t
    BY <1>4 DEF CallCreate
  <2>. QED BY <1>0, <2>1, <2>2, FreshOwn DEF Started
<1>5. ASSUME NEW f \in Task, Visit(q, f)
      PROVE  QuietStep(q) /\ TxInv(q)'
  <2>0. "visit" \in OP /\ "climb" \in PC /\ "done" \in State /\ f \in Task \cup {NoTask}
        /\ Call(q, "visit", "climb", f, "done", Nobody, f)
    BY <1>5 DEF OP, PC, State, Visit
  <2>1. Started(q, "visit", "climb", f, f)
    BY <1>0, <2>0, CallFacts
  <2>2. f \in Live
    BY <1>5 DEF Visit
  <2>. QED BY <1>0, <2>1, <2>2, FreshOwn DEF Started
<1>. QED BY <1>1, <1>2, <1>3, <1>4, <1>5
         DEF SomeCall, CallSetState, CallClose, CallClaim, CallClaimNext, CallAsk, TakesTask, State

-----------------------------------------------------------------------------
(* Statements that draft nothing. *)

\* q goes on, its arguments and its draft as they were.
Advance(q) ==
  /\ tx' = [tx EXCEPT ![q] = tx'[q]] /\ tx'[q] \in Tx
  /\ UNCHANGED <<row, deps, asking>>
  /\ LocksTaken(q)
  /\ tx'[q].op = tx[q].op /\ tx'[q].t = tx[q].t /\ tx'[q].s = tx[q].s
  /\ tx'[q].at = tx[q].at /\ tx'[q].seen = tx[q].seen /\ tx'[q].draft = tx[q].draft
  /\ tx'[q].cand \subseteq Live

\* The record of a step that only moves pc.
LEMMA PcStep ==
  ASSUME BoardInv, NEW q \in Proc, NEW pc \in PC, Goto(q, [tx[q] EXCEPT !.pc = pc])
  PROVE  /\ tx'[q] \in Tx /\ tx' = [tx EXCEPT ![q] = tx'[q]] /\ UNCHANGED <<row, deps, asking>>
         /\ tx'[q].op = tx[q].op /\ tx'[q].t = tx[q].t /\ tx'[q].s = tx[q].s
         /\ tx'[q].at = tx[q].at /\ tx'[q].seen = tx[q].seen /\ tx'[q].draft = tx[q].draft
         /\ tx'[q].cand = tx[q].cand /\ tx'[q].pc = pc
<1>. DEFINE r == [tx[q] EXCEPT !.pc = pc]
<1>1. tx[q] \in Tx
  BY DEF BoardInv
<1>2. /\ r \in Tx /\ r.op = tx[q].op /\ r.t = tx[q].t /\ r.s = tx[q].s /\ r.at = tx[q].at
      /\ r.seen = tx[q].seen /\ r.draft = tx[q].draft /\ r.cand = tx[q].cand /\ r.pc = pc
  BY <1>1 DEF Tx
<1>3. tx' = [tx EXCEPT ![q] = r] /\ UNCHANGED <<row, deps, asking>>
  BY DEF Goto
<1>. HIDE DEF r
<1>4. tx'[q] = r
  BY <1>3 DEF BoardInv
<1>. QED BY <1>2, <1>3, <1>4

\* Taking a lock that is free for q.
LEMMA LockStep ==
  ASSUME BoardInv, NEW q \in Proc, NEW x \in Task
  PROVE  /\ TakeUpdate(q, x) /\ FreeFor(q, x) => LocksTaken(q) /\ upd'[x] = {q}
         /\ TakeShare(q, x) /\ ShareableFor(q, x) => LocksTaken(q) /\ UNCHANGED upd /\ q \in shr'[x]
         /\ UNCHANGED <<upd, shr>> => LocksTaken(q)
<1>. USE DEF LocksTaken, BoardInv
<1>1. ASSUME TakeUpdate(q, x), FreeFor(q, x)
      PROVE  LocksTaken(q) /\ upd'[x] = {q}
  <2>1. /\ upd' = [upd EXCEPT ![x] = {q}] /\ shr' = shr
        /\ upd[x] \subseteq {q} /\ shr[x] \subseteq {q}
    BY <1>1 DEF TakeUpdate, FreeFor
  <2>2. upd' \in [Task -> SUBSET Proc] /\ shr' \in [Task -> SUBSET Proc]
        /\ upd'[x] = {q} /\ \A y \in Task : y # x => upd'[y] = upd[y]
    BY <2>1
  <2>. QED BY <2>1, <2>2
<1>2. ASSUME TakeShare(q, x), ShareableFor(q, x)
      PROVE  LocksTaken(q) /\ UNCHANGED upd /\ q \in shr'[x]
  <2>1. shr' = [shr EXCEPT ![x] = @ \cup {q}] /\ upd' = upd /\ upd[x] \subseteq {q}
    BY <1>2 DEF TakeShare, ShareableFor
  <2>2. /\ upd' \in [Task -> SUBSET Proc] /\ shr' \in [Task -> SUBSET Proc]
        /\ shr'[x] = shr[x] \cup {q} /\ \A y \in Task : y # x => shr'[y] = shr[y]
    BY <2>1
  <2>. QED BY <2>1, <2>2
<1>3. UNCHANGED <<upd, shr>> => LocksTaken(q)
  OBVIOUS
<1>. QED BY <1>1, <1>2, <1>3

\* What such a step leaves as it was.
LEMMA AdvanceKeeps ==
  ASSUME IInv, NEW q \in Proc, Advance(q),
         HoldsGraph(q)' => HoldsGraph(q) \/ \A p \in Proc : ~ HoldsGraph(p)
  PROVE  /\ QuietStep(q) /\ Live' = Live
         /\ \A x \in Task : Held(q, x) => Held(q, x)'
         /\ \A p \in Proc : p # q => tx'[p] = tx[p]
         /\ Drafted(q)' = Drafted(q) /\ View(q)' = View(q)
         /\ tx[q].op # "create" => CreateInv(q)'
         /\ \A p \in Proc : HoldsGraph(q)' /\ HoldsGraph(p)' => p = q
         /\ (tx'[q].pc \in Writing \/ Drafted(q) = {}) => DraftInv(q)'
<1>1. Live' = Live /\ \A p \in Proc : p # q => tx'[p] = tx[p]
  BY DEF Live, Advance, IInv, BoardInv
<1>2. \A x \in Task : Held(q, x) => Held(q, x)'
  BY DEF Advance, LocksTaken, Held
<1>3. Drafted(q)' = Drafted(q) /\ View(q)' = View(q)
  BY <1>1 DEF Advance, Drafted, View
<1>4. QuietStep(q)
  BY DEF Advance, QuietStep
<1>5. tx[q].op # "create" => CreateInv(q)'
  BY DEF CreateInv, Advance
<1>6. \A p \in Proc : p # q => (HoldsGraph(p)' <=> HoldsGraph(p))
  BY <1>1 DEF HoldsGraph
<1>7. \A p \in Proc : HoldsGraph(q)' /\ HoldsGraph(p)' => p = q
  BY <1>6 DEF IInv, TxInv, GraphInv
<1>8. Drafted(q) \subseteq Task
  BY ViewOK DEF IInv
<1>9. ASSUME tx'[q].pc \in Writing \/ Drafted(q) = {}
      PROVE  DraftInv(q)'
  <2>. USE DEF IInv, TxInv, DraftInv
  <2>1. (tx[q].pc \notin Writing => Drafted(q) = {})'
    BY <1>3, <1>9 DEF Writing
  <2>2. (\A x \in Drafted(q) \cap Live : Held(q, x))'
    BY <1>1, <1>2, <1>3, <1>8
  <2>3. (tx[q].op # "create" => Drafted(q) \subseteq Live)'
    BY <1>1, <1>3 DEF Advance
  <2>4. (\A x \in Drafted(q) : tx[q].draft[x].state \in Closed => tx[q].op \in Moving \cup {"visit"})'
    BY <1>3 DEF Advance
  <2>5. (\A x \in Drafted(q) \cap Live :
          (row[x].state = "doing" /\ tx[q].draft[x].state = "doing" /\ row[x].assignee # Nobody)
            => tx[q].draft[x].assignee = row[x].assignee)'
    BY <1>1, <1>3 DEF Advance
  <2>. QED BY <2>1, <2>2, <2>3, <2>4, <2>5
<1>. QED BY <1>1, <1>2, <1>3, <1>4, <1>5, <1>7, <1>9

LEMMA GoOn ==
  ASSUME IInv, NEW q \in Proc, NEW pc \in PC, Goto(q, [tx[q] EXCEPT !.pc = pc]), LocksTaken(q)
  PROVE  Advance(q) /\ tx'[q].pc = pc
<1>1. BoardInv /\ tx[q].cand \subseteq Live
  BY DEF IInv, TxInv, PlaceInv
<1>2. /\ tx'[q] \in Tx /\ tx' = [tx EXCEPT ![q] = tx'[q]] /\ UNCHANGED <<row, deps, asking>>
      /\ tx'[q].op = tx[q].op /\ tx'[q].t = tx[q].t /\ tx'[q].s = tx[q].s
      /\ tx'[q].at = tx[q].at /\ tx'[q].seen = tx[q].seen /\ tx'[q].draft = tx[q].draft
      /\ tx'[q].cand = tx[q].cand /\ tx'[q].pc = pc
  BY <1>1, PcStep
<1>. QED BY <1>1, <1>2 DEF Advance

\* The comment of a close; the lock on the task of a call.
LEMMA LockTaskOwn ==
  ASSUME IInv, NEW q \in Proc, InsertComment(q) \/ LockTask(q)
  PROVE  QuietStep(q) /\ TxInv(q)'
<1>0. /\ BoardInv /\ PlaceInv(q) /\ DraftInv(q) /\ tx[q].t \in Live /\ tx[q].t \in Task
      /\ tx[q].op \in TakesTask /\ tx[q].pc \in {"comment", "lock"}
  BY DEF IInv, BoardInv, TxInv, PlaceInv, InsertComment, LockTask, TakesTask
<1>1. PICK pc \in {"lock", "act"} :
        /\ Goto(q, [tx[q] EXCEPT !.pc = pc]) /\ LocksTaken(q)
        /\ pc = "act" => Held(q, tx[q].t)'
  <2>1. CASE InsertComment(q)
    BY <1>0, <2>1, LockStep DEF InsertComment
  <2>2. CASE LockTask(q)
    <3>1. LocksTaken(q) /\ upd'[tx[q].t] = {q} /\ Goto(q, [tx[q] EXCEPT !.pc = "act"])
      BY <1>0, <2>2, LockStep DEF LockTask
    <3>2. tx'[q].t = tx[q].t
      BY <1>0, <3>1, PcStep DEF PC
    <3>. QED BY <3>1, <3>2 DEF Held
  <2>. QED BY <2>1, <2>2
<1>2. Advance(q) /\ tx'[q].pc = pc
  BY <1>1, GoOn DEF PC
<1>3. HoldsGraph(q)' => HoldsGraph(q) \/ \A p \in Proc : ~ HoldsGraph(p)
  BY <1>2 DEF HoldsGraph
<1>4. tx'[q].op = tx[q].op /\ tx'[q].t = tx[q].t /\ tx'[q].draft = tx[q].draft /\ tx'[q].cand \subseteq Live
  BY <1>2 DEF Advance
<1>5. Drafted(q) = {}
  BY <1>0 DEF DraftInv, Writing
<1>6. /\ QuietStep(q) /\ Live' = Live /\ CreateInv(q)' /\ DraftInv(q)'
      /\ \A p \in Proc : HoldsGraph(q)' /\ HoldsGraph(p)' => p = q
  BY <1>0, <1>2, <1>3, <1>5, AdvanceKeeps DEF TakesTask
<1>7. PlaceInv(q)'
  BY <1>0, <1>1, <1>2, <1>4, <1>6 DEF PlaceInv, TakesTask
<1>8. ReadInv(q)' /\ GraphInv(q)'
  BY <1>0, <1>2, <1>4, <1>6 DEF ReadInv, GraphInv, TakesTask, Writing
<1>. QED BY <1>6, <1>7, <1>8 DEF TxInv

\* rollUpParentDoneTx locks the parent.
LEMMA LockParentOwn ==
  ASSUME IInv, NEW q \in Proc, LockParent(q)
  PROVE  QuietStep(q) /\ TxInv(q)'
<1>0. /\ BoardInv /\ PlaceInv(q) /\ DraftInv(q) /\ ReadInv(q) /\ tx[q].at \in Live /\ tx[q].at \in Task
      /\ tx[q].op \in Moving \cup {"visit"} /\ tx[q].pc = "climb"
  BY DEF IInv, BoardInv, TxInv, PlaceInv, LockParent
<1>1. PICK pc \in {"count", "commit"} : Goto(q, [tx[q] EXCEPT !.pc = pc])
  BY DEF LockParent
<1>2. LocksTaken(q) /\ upd'[tx[q].at] = {q}
  BY <1>0, LockStep DEF LockParent
<1>3. Advance(q) /\ tx'[q].pc = pc
  BY <1>1, <1>2, GoOn DEF PC
<1>4. /\ tx'[q].op = tx[q].op /\ tx'[q].t = tx[q].t /\ tx'[q].at = tx[q].at
      /\ tx'[q].seen = tx[q].seen /\ tx'[q].cand \subseteq Live /\ deps' = deps
  BY <1>3 DEF Advance
<1>5. /\ QuietStep(q) /\ Live' = Live /\ CreateInv(q)' /\ DraftInv(q)'
      /\ \A x \in Task : Held(q, x) => Held(q, x)'
      /\ \A p \in Proc : HoldsGraph(q)' /\ HoldsGraph(p)' => p = q
  <2>1. HoldsGraph(q)' => HoldsGraph(q) \/ \A p \in Proc : ~ HoldsGraph(p)
    BY <1>0, <1>4 DEF HoldsGraph, Moving
  <2>2. tx[q].op # "create" /\ tx'[q].pc \in Writing
    BY <1>0, <1>3 DEF Moving, Writing
  <2>. QED BY <1>3, <2>1, <2>2, AdvanceKeeps
<1>6. PlaceInv(q)'
  <2>1. Held(q, tx[q].at)'
    BY <1>2, <1>4 DEF Held
  <2>2. tx[q].op \in TakesTask => tx[q].t \in Live /\ tx[q].t \in Task /\ Held(q, tx[q].t)
    BY <1>0 DEF PlaceInv, BoardInv
  <2>3. (tx[q].op \in TakesTask => Held(q, tx[q].t))'
    BY <1>4, <1>5, <2>2 DEF Held
  <2>. QED BY <1>0, <1>3, <1>4, <1>5, <2>1, <2>2, <2>3 DEF PlaceInv, Moving
<1>7. ReadInv(q)'
  BY <1>0, <1>4, <1>5 DEF ReadInv, Moving, Writing, Preconditions
<1>8. GraphInv(q)'
  BY <1>0, <1>4, <1>5 DEF GraphInv, Moving
<1>. QED BY <1>5, <1>6, <1>7, <1>8 DEF TxInv

\* The snapshot of claim_next.
LEMMA SelectCandidatesOwn ==
  ASSUME IInv, NEW q \in Proc, SelectCandidates(q)
  PROVE  QuietStep(q) /\ TxInv(q)'
<1>0. /\ BoardInv /\ DraftInv(q) /\ tx[q] \in Tx /\ tx[q].op = "next" /\ tx[q].pc = "select"
  BY DEF IInv, BoardInv, TxInv, PlaceInv, SelectCandidates
<1>1. PICK C \in SUBSET Live :
        /\ tx' = [tx EXCEPT ![q] = [tx[q] EXCEPT !.pc = "pick", !.cand = C]]
        /\ UNCHANGED <<row, deps, asking, upd, shr>>
  <2>. DEFINE C == {t \in Live : /\ row[t].state = "todo"
                                 /\ t \in Feature => OpenChildren(row, t) = {}
                                 /\ Unresolved(t) = {}}
  <2>1. C \in SUBSET Live
    OBVIOUS
  <2>2. /\ tx' = [tx EXCEPT ![q] = [tx[q] EXCEPT !.pc = "pick", !.cand = C]]
        /\ UNCHANGED <<row, deps, asking, upd, shr>>
    BY DEF SelectCandidates, Goto
  <2>. QED BY <2>1, <2>2
<1>2. Live \subseteq Task /\ Live' = Live
  BY <1>0, <1>1 DEF BoardInv, Live
<1>3. /\ tx'[q] \in Tx /\ tx' = [tx EXCEPT ![q] = tx'[q]]
      /\ tx'[q].op = "next" /\ tx'[q].pc = "pick" /\ tx'[q].cand = C
      /\ tx'[q].t = tx[q].t /\ tx'[q].s = tx[q].s /\ tx'[q].at = tx[q].at
      /\ tx'[q].seen = tx[q].seen /\ tx'[q].draft = tx[q].draft
  <2>. DEFINE r == [tx[q] EXCEPT !.pc = "pick", !.cand = C]
  <2>1. /\ r \in Tx /\ r.op = "next" /\ r.pc = "pick" /\ r.cand = C
        /\ r.t = tx[q].t /\ r.s = tx[q].s /\ r.at = tx[q].at
        /\ r.seen = tx[q].seen /\ r.draft = tx[q].draft
    BY <1>0, <1>1, <1>2 DEF Tx, PC
  <2>2. tx' = [tx EXCEPT ![q] = r]
    BY <1>1
  <2>. HIDE DEF r
  <2>3. tx'[q] = r
    BY <1>0, <2>2 DEF BoardInv
  <2>. QED BY <2>1, <2>2, <2>3
<1>4. LocksTaken(q)
  BY <1>1, <1>0 DEF LocksTaken, BoardInv
<1>5. Advance(q) /\ Drafted(q) = {}
  BY <1>0, <1>1, <1>3, <1>4 DEF Advance, DraftInv, Writing
<1>6. /\ QuietStep(q) /\ CreateInv(q)' /\ DraftInv(q)'
      /\ \A p \in Proc : HoldsGraph(q)' /\ HoldsGraph(p)' => p = q
  <2>1. (HoldsGraph(q)' => HoldsGraph(q) \/ \A p \in Proc : ~ HoldsGraph(p))
    BY <1>3 DEF HoldsGraph
  <2>2. tx[q].op # "create"
    BY <1>0
  <2>. QED BY <1>5, <2>1, <2>2, AdvanceKeeps
<1>7. PlaceInv(q)' /\ ReadInv(q)' /\ GraphInv(q)'
  BY <1>1, <1>2, <1>3, <1>6 DEF PlaceInv, ReadInv, GraphInv, TakesTask, Moving, Writing
<1>. QED BY <1>6, <1>7 DEF TxInv

\* questions.ask looks at the row it holds.
LEMMA AskQuestionOwn ==
  ASSUME IInv, NEW q \in Proc, AskQuestion(q)
  PROVE  (QuietStep(q) /\ TxInv(q)') \/ Rollback(q)
<1>. SUFFICES ASSUME ~ Rollback(q) PROVE QuietStep(q) /\ TxInv(q)'
  OBVIOUS
<1>0. /\ BoardInv /\ DraftInv(q) /\ PlaceInv(q)
      /\ tx[q].op = "ask" /\ tx[q].pc = "act" /\ tx[q].t \in Live /\ tx[q].t \in Task
      /\ Held(q, tx[q].t) /\ row[tx[q].t].state \notin Closed
      /\ Goto(q, [tx[q] EXCEPT !.pc = "commit"]) /\ UNCHANGED <<upd, shr>>
  BY DEF IInv, BoardInv, TxInv, PlaceInv, AskQuestion, TakesTask
<1>1. LocksTaken(q)
  BY <1>0, LockStep
<1>2. Advance(q) /\ tx'[q].pc = "commit"
  BY <1>0, <1>1, GoOn DEF PC
<1>3. /\ tx'[q].op = "ask" /\ tx'[q].t = tx[q].t /\ row' = row /\ tx'[q].cand \subseteq Live
  BY <1>0, <1>2 DEF Advance
<1>4. /\ QuietStep(q) /\ CreateInv(q)' /\ DraftInv(q)' /\ Live' = Live
      /\ \A x \in Task : Held(q, x) => Held(q, x)'
      /\ \A p \in Proc : HoldsGraph(q)' /\ HoldsGraph(p)' => p = q
  <2>1. HoldsGraph(q)' => HoldsGraph(q) \/ \A p \in Proc : ~ HoldsGraph(p)
    BY <1>3 DEF HoldsGraph
  <2>2. tx[q].op # "create" /\ tx'[q].pc \in Writing
    BY <1>0, <1>2 DEF Writing
  <2>. QED BY <1>2, <2>1, <2>2, AdvanceKeeps
<1>5. Held(q, tx[q].t)'
  BY <1>0, <1>3 DEF Held
<1>6. PlaceInv(q)'
  BY <1>0, <1>2, <1>3, <1>4, <1>5 DEF PlaceInv, Moving
<1>7. ReadInv(q)' /\ GraphInv(q)'
  BY <1>0, <1>3, <1>4 DEF ReadInv, GraphInv, Moving
<1>. QED BY <1>4, <1>6, <1>7 DEF TxInv

\* The steps of add_dependency before its commit.
LEMMA AddDepOwn ==
  ASSUME IInv, NEW q \in Proc,
         LockGraph(q) \/ LockLowRow(q) \/ LockHighRow(q) \/ CheckCycle(q)
  PROVE  (QuietStep(q) /\ TxInv(q)') \/ Rollback(q)
<1>. SUFFICES ASSUME ~ Rollback(q) PROVE QuietStep(q) /\ TxInv(q)'
  OBVIOUS
<1>0. /\ BoardInv /\ DraftInv(q) /\ GraphInv(q) /\ Live \subseteq Task
      /\ tx[q].op = "dep" /\ tx[q].pc \in {"graph", "low", "high", "check"}
      /\ tx[q].t \in Live /\ tx[q].at \in Live /\ tx[q].t # tx[q].at
  BY DEF IInv, BoardInv, TxInv, PlaceInv, GraphInv, LockGraph, LockLowRow, LockHighRow, CheckCycle
<1>1. Low(q) \in {tx[q].t, tx[q].at} /\ High(q) \in {tx[q].t, tx[q].at}
      /\ {Low(q), High(q)} = {tx[q].t, tx[q].at}
  BY <1>0, IdsAssumption DEF Low, High
<1>2. PICK pc \in {"low", "high", "check", "commit"} :
        /\ Goto(q, [tx[q] EXCEPT !.pc = pc]) /\ LocksTaken(q)
        /\ pc = "high" => Held(q, Low(q))'
        /\ pc \in {"check", "commit"} => Held(q, Low(q))' /\ Held(q, High(q))'
        /\ pc = "commit" => tx[q].t \notin ReachableFrom(tx[q].at)
        /\ HoldsGraph(q) \/ \A p \in Proc : ~ HoldsGraph(p)
  <2>1. CASE LockGraph(q)
    BY <1>0, <2>1, LockStep DEF LockGraph
  <2>2. CASE LockLowRow(q)
    <3>1. LocksTaken(q) /\ upd'[Low(q)] = {q} /\ Goto(q, [tx[q] EXCEPT !.pc = "high"])
      BY <1>0, <1>1, <2>2, LockStep DEF LockLowRow
    <3>2. tx'[q].t = tx[q].t /\ tx'[q].at = tx[q].at
      BY <1>0, <3>1, PcStep DEF PC
    <3>3. Low(q)' = Low(q)
      BY <3>2 DEF Low
    <3>4. HoldsGraph(q)
      BY <1>0, <2>2 DEF LockLowRow, HoldsGraph
    <3>. QED BY <3>1, <3>3, <3>4 DEF Held
  <2>3. CASE LockHighRow(q)
    <3>1. LocksTaken(q) /\ upd'[High(q)] = {q} /\ Goto(q, [tx[q] EXCEPT !.pc = "check"])
      BY <1>0, <1>1, <2>3, LockStep DEF LockHighRow
    <3>2. tx'[q].t = tx[q].t /\ tx'[q].at = tx[q].at
      BY <1>0, <3>1, PcStep DEF PC
    <3>3. Low(q)' = Low(q) /\ High(q)' = High(q)
      BY <3>2 DEF Low, High
    <3>4. HoldsGraph(q) /\ Held(q, Low(q))
      BY <1>0, <2>3 DEF LockHighRow, HoldsGraph, GraphInv
    <3>5. upd'[Low(q)] = {q}
      BY <3>1, <3>4, <1>0, <1>1 DEF LocksTaken, Held
    <3>. QED BY <3>1, <3>3, <3>4, <3>5 DEF Held
  <2>4. CASE CheckCycle(q)
    <3>1. /\ Goto(q, [tx[q] EXCEPT !.pc = "commit"]) /\ UNCHANGED <<upd, shr>>
          /\ tx[q].t \notin ReachableFrom(tx[q].at) /\ tx[q].pc = "check"
      BY <2>4 DEF CheckCycle
    <3>2. tx'[q].t = tx[q].t /\ tx'[q].at = tx[q].at
      BY <1>0, <3>1, PcStep DEF PC
    <3>3. Low(q)' = Low(q) /\ High(q)' = High(q)
      BY <3>2 DEF Low, High
    <3>4. HoldsGraph(q) /\ Held(q, Low(q)) /\ Held(q, High(q))
      BY <1>0, <1>1, <3>1 DEF HoldsGraph, GraphInv
    <3>5. Held(q, Low(q))' /\ Held(q, High(q))'
      BY <3>1, <3>3, <3>4 DEF Held
    <3>6. LocksTaken(q)
      BY <1>0, <3>1, LockStep
    <3>. QED BY <3>1, <3>4, <3>5, <3>6
  <2>. QED BY <2>1, <2>2, <2>3, <2>4
<1>3. Advance(q) /\ tx'[q].pc = pc
  BY <1>2, GoOn DEF PC
<1>4. /\ tx'[q].op = "dep" /\ tx'[q].t = tx[q].t /\ tx'[q].at = tx[q].at /\ deps' = deps
      /\ tx'[q].cand \subseteq Live
  BY <1>0, <1>3 DEF Advance
<1>5. /\ QuietStep(q) /\ CreateInv(q)' /\ DraftInv(q)' /\ Live' = Live
      /\ \A p \in Proc : HoldsGraph(q)' /\ HoldsGraph(p)' => p = q
  <2>1. tx[q].op # "create" /\ Drafted(q) = {}
    BY <1>0 DEF DraftInv, Writing
  <2>. QED BY <1>2, <1>3, <2>1, AdvanceKeeps
<1>6. PlaceInv(q)' /\ ReadInv(q)'
  BY <1>0, <1>3, <1>4, <1>5 DEF PlaceInv, ReadInv, TakesTask, Moving
<1>7. GraphInv(q)'
  <2>1. (tx[q].t \in Live /\ tx[q].at \in Live /\ tx[q].t # tx[q].at)'
    BY <1>0, <1>4, <1>5
  <2>2. (tx[q].pc = "high" => Held(q, Low(q)))'
    BY <1>2, <1>3
  <2>3. (tx[q].pc \in {"check", "commit"} => Held(q, tx[q].t) /\ Held(q, tx[q].at))'
    <3>1. {Low(q)', High(q)'} = {tx'[q].t, tx'[q].at}
      BY <1>0, <1>4, IdsAssumption DEF Low, High
    <3>. QED BY <1>2, <1>3, <3>1 DEF Held
  <2>4. (tx[q].pc = "commit" => tx[q].t \notin ReachableFrom(tx[q].at))'
    <3>1. ReachableFrom(tx[q].at)' = ReachableFrom(tx[q].at)
      BY <1>4 DEF ReachableFrom
    <3>. QED BY <1>2, <1>3, <1>4, <3>1
  <2>. QED BY <1>5, <2>1, <2>2, <2>3, <2>4 DEF GraphInv
<1>. QED BY <1>5, <1>6, <1>7 DEF TxInv

-----------------------------------------------------------------------------
(* Statements that draft a row. *)

\* q drafts r for the row x, which it holds or just took, and goes on with a
\* call that is not create or add_dependency.
DraftStep(q, x, r) ==
  /\ tx' = [tx EXCEPT ![q] = tx'[q]] /\ tx'[q] \in Tx
  /\ UNCHANGED <<row, deps, asking>>
  /\ LocksTaken(q) /\ upd'[x] = {q}
  /\ tx[q].op = tx'[q].op /\ tx[q].op \in {"set", "close", "claim", "next", "visit"}
  /\ tx'[q].pc \in Writing /\ tx'[q].pc # "count"
  /\ tx'[q].pc = "climb" => tx[q].op \in Moving \cup {"visit"} /\ tx'[q].at \in Live
  /\ tx'[q].draft = Write(tx[q].draft, x, r)
  /\ tx'[q].cand \subseteq Live /\ tx'[q].t \in Live \cup {tx[q].t}
  /\ tx[q].op \in TakesTask => tx'[q].t = tx[q].t /\ Held(q, tx[q].t)
  /\ r.state \in Closed => tx[q].op \in Moving \cup {"visit"}
  /\ (row[x].state = "doing" /\ r.state = "doing" /\ row[x].assignee # Nobody)
       => r.assignee = row[x].assignee
  /\ tx[q].op \in Moving => Preconditions(tx[q].t) \subseteq tx'[q].seen

LEMMA DraftOwn ==
  ASSUME IInv, NEW q \in Proc, NEW x \in Live, NEW r \in Row, DraftStep(q, x, r)
  PROVE  QuietStep(q) /\ TxInv(q)'
<1>. USE DEF DraftStep
<1>0. BoardInv /\ PlaceInv(q) /\ DraftInv(q) /\ Live \subseteq Task /\ x \in Task /\ Live' = Live
      /\ row' = row /\ deps' = deps
  BY DEF IInv, TxInv, BoardInv, Live
<1>1. ~ HoldsGraph(q)'
  BY DEF HoldsGraph
<1>2. QuietStep(q)
  BY <1>1 DEF QuietStep
<1>3. \A y \in Task : Held(q, y) => Held(q, y)'
  BY DEF LocksTaken, Held
<1>4. /\ Drafted(q)' = Drafted(q) \cup {x} /\ tx'[q].draft[x] = r
      /\ \A y \in Drafted(q) : y # x => tx'[q].draft[y] = tx[q].draft[y]
  <2>2. /\ DOMAIN Write(tx[q].draft, x, r) = DOMAIN tx[q].draft \cup {x}
        /\ Write(tx[q].draft, x, r)[x] = r
        /\ \A y \in DOMAIN tx[q].draft : y # x => Write(tx[q].draft, x, r)[y] = tx[q].draft[y]
    BY DEF Write
  <2>. QED BY <2>2 DEF Drafted
<1>5. PlaceInv(q)'
  <2>1. tx[q].op \in TakesTask => tx[q].t \in Live /\ tx[q].t \in Task /\ Held(q, tx[q].t)
    BY <1>0 DEF PlaceInv
  <2>2. tx[q].op \in TakesTask => Held(q, tx[q].t)'
    BY <1>3, <2>1 DEF Held
  <2>. QED BY <1>0, <2>1, <2>2 DEF PlaceInv, Writing, Moving
<1>6. DraftInv(q)'
  <2>. USE DEF DraftInv
  <2>1. (tx[q].pc \notin Writing => Drafted(q) = {})'
    BY DEF Writing
  <2>2. (\A y \in Drafted(q) \cap Live : Held(q, y))'
    <3>1. Held(q, x)'
      BY DEF Held
    <3>. QED BY <1>0, <1>3, <1>4, <3>1
  <2>3. (tx[q].op # "create" => Drafted(q) \subseteq Live)'
    BY <1>0, <1>4
  <2>4. (\A y \in Drafted(q) : tx[q].draft[y].state \in Closed => tx[q].op \in Moving \cup {"visit"})'
    BY <1>0, <1>4 DEF Moving, Closed
  <2>5. (\A y \in Drafted(q) \cap Live :
          (row[y].state = "doing" /\ tx[q].draft[y].state = "doing" /\ row[y].assignee # Nobody)
            => tx[q].draft[y].assignee = row[y].assignee)'
    BY <1>0, <1>4
  <2>. QED BY <2>1, <2>2, <2>3, <2>4, <2>5
<1>7. CreateInv(q)' /\ GraphInv(q)'
  BY <1>1 DEF CreateInv, GraphInv
<1>8. ReadInv(q)'
  <2>1. tx[q].op \in Moving => tx[q].op \in TakesTask
    BY DEF Moving, TakesTask
  <2>2. tx[q].op \in Moving => Preconditions(tx[q].t)' \subseteq tx'[q].seen
    BY <1>0, <2>1 DEF Preconditions
  <2>. QED BY <2>2 DEF ReadInv, Moving
<1>. QED BY <1>2, <1>5, <1>6, <1>7, <1>8 DEF TxInv

\* setStateTx.
LEMMA MoveTaskOwn ==
  ASSUME IInv, NEW q \in Proc, MoveTask(q)
  PROVE  (QuietStep(q) /\ TxInv(q)') \/ Rollback(q)
<1>. DEFINE t == tx[q].t
            s == tx[q].s
            r == MovedTo(row[t], s, tx[q].u)
            S == Preconditions(t)
            pc == IF s \in Closed THEN Upward(t) ELSE "commit"
            at == IF s \in Closed THEN Parent[t] ELSE NoTask
            d == Write(tx[q].draft, t, r)
<1>. SUFFICES ASSUME ~ Rollback(q) PROVE QuietStep(q) /\ TxInv(q)'
  OBVIOUS
<1>0. /\ BoardInv /\ DraftInv(q) /\ PlaceInv(q) /\ tx[q] \in Tx /\ tx[q].op \in Moving
      /\ tx[q].pc = "act" /\ t \in Live /\ t \in Task /\ Held(q, t)
      /\ row[t] \in Row /\ Parent[t] \in Live \cup {NoTask} /\ Live \subseteq Task
  BY DEF IInv, BoardInv, TxInv, PlaceInv, MoveTask, TakesTask, Moving
<1>1. /\ Goto(q, [tx[q] EXCEPT !.pc = pc, !.at = at, !.seen = S, !.draft = d])
      /\ UNCHANGED <<upd, shr>>
  BY DEF MoveTask
<1>2. r \in Row
  BY <1>0 DEF MovedTo, Row, Tx
<1>3. S \in SUBSET Task /\ d \in Draft /\ pc \in {"climb", "commit"} /\ at \in Task \cup {NoTask}
      /\ (pc = "climb" => at \in Live)
  <2>1. S \in SUBSET Task
    BY <1>0 DEF Preconditions
  <2>2. d \in Draft
    <3>1. tx[q].draft \in Draft
      BY <1>0 DEF Tx
    <3>. QED BY <1>0, <1>2, <3>1, WriteOK
  <2>3. pc \in {"climb", "commit"} /\ at \in Task \cup {NoTask} /\ (pc = "climb" => at \in Live)
    BY <1>0 DEF Upward
  <2>. QED BY <2>1, <2>2, <2>3
<1>4. /\ (r.state \in Closed => tx[q].op \in Moving)
      /\ (row[t].state = "doing" /\ r.state = "doing" /\ row[t].assignee # Nobody)
           => r.assignee = row[t].assignee
  BY <1>0 DEF MovedTo
<1>. DEFINE z == [tx[q] EXCEPT !.pc = pc, !.at = at, !.seen = S, !.draft = d]
<1>5. tx' = [tx EXCEPT ![q] = z] /\ UNCHANGED <<row, deps, asking>>
  BY <1>1 DEF Goto
<1>. HIDE DEF r, S, pc, at, d
<1>6. /\ z \in Tx /\ z.op = tx[q].op /\ z.t = t /\ z.pc = pc /\ z.at = at
      /\ z.seen = S /\ z.draft = d /\ z.cand = tx[q].cand
  BY <1>0, <1>3 DEF Tx, PC
<1>. HIDE DEF z
<1>7. tx'[q] = z
  BY <1>0, <1>5 DEF BoardInv
<1>8. LocksTaken(q) /\ upd'[t] = {q}
  BY <1>0, <1>1, LockStep DEF Held
<1>9. DraftStep(q, t, r)
  <2>1. tx[q].cand \subseteq Live
    BY <1>0 DEF PlaceInv
  <2>2. z.draft = Write(tx[q].draft, t, r) /\ Preconditions(t) = S
    BY <1>6 DEF d, S
  <2>. QED BY <1>0, <1>3, <1>4, <1>5, <1>6, <1>7, <1>8, <2>1, <2>2
           DEF DraftStep, Moving, TakesTask, Writing
<1>. QED BY <1>0, <1>2, <1>9, DraftOwn

\* The roll-up counts the children of the parent it holds, and closes it.
LEMMA CountChildrenOwn ==
  ASSUME IInv, NEW q \in Proc, CountChildren(q)
  PROVE  QuietStep(q) /\ TxInv(q)'
<1>. DEFINE a == tx[q].at
            r == [View(q)[a] EXCEPT !.state = "done"]
            d == Write(tx[q].draft, a, r)
<1>0. /\ BoardInv /\ DraftInv(q) /\ PlaceInv(q) /\ ReadInv(q) /\ tx[q] \in Tx
      /\ tx[q].op \in Moving \cup {"visit"}
      /\ tx[q].pc = "count" /\ a \in Live /\ a \in Task /\ Held(q, a)
      /\ Parent[a] \in Live \cup {NoTask} /\ Live \subseteq Task /\ UNCHANGED <<upd, shr>>
      /\ tx[q].cand \subseteq Live
  BY DEF IInv, BoardInv, TxInv, PlaceInv, CountChildren
<1>1. LocksTaken(q) /\ upd'[a] = {q}
  BY <1>0, LockStep DEF Held
<1>2. tx[q].op \in TakesTask => tx[q].t \in Live /\ tx[q].t \in Task /\ Held(q, tx[q].t)
  BY <1>0 DEF PlaceInv
<1>3. CASE OpenChildren(View(q), a) # {}
  <2>1. Goto(q, [tx[q] EXCEPT !.pc = "commit"])
    BY <1>3 DEF CountChildren
  <2>2. Advance(q) /\ tx'[q].pc = "commit"
    BY <1>1, <2>1, GoOn DEF PC
  <2>3. /\ tx'[q].op = tx[q].op /\ tx'[q].t = tx[q].t /\ tx'[q].at = tx[q].at
        /\ tx'[q].seen = tx[q].seen /\ tx'[q].cand \subseteq Live /\ deps' = deps
    BY <2>2 DEF Advance
  <2>4. /\ QuietStep(q) /\ Live' = Live /\ CreateInv(q)' /\ DraftInv(q)'
        /\ \A x \in Task : Held(q, x) => Held(q, x)'
        /\ \A p \in Proc : HoldsGraph(q)' /\ HoldsGraph(p)' => p = q
    <3>1. HoldsGraph(q)' => HoldsGraph(q) \/ \A p \in Proc : ~ HoldsGraph(p)
      BY <1>0, <2>3 DEF HoldsGraph, Moving
    <3>2. tx[q].op # "create" /\ tx'[q].pc \in Writing
      BY <1>0, <2>2 DEF Moving, Writing
    <3>. QED BY <2>2, <3>1, <3>2, AdvanceKeeps
  <2>5. PlaceInv(q)'
    <3>1. (tx[q].op \in TakesTask => Held(q, tx[q].t))'
      BY <1>2, <2>3, <2>4 DEF Held
    <3>. QED BY <1>0, <1>2, <2>2, <2>3, <2>4, <3>1 DEF PlaceInv, Moving
  <2>6. ReadInv(q)'
    BY <1>0, <2>3, <2>4 DEF ReadInv, Moving, Writing, Preconditions
  <2>7. GraphInv(q)'
    BY <1>0, <2>3, <2>4 DEF GraphInv, Moving
  <2>. QED BY <2>4, <2>5, <2>6, <2>7 DEF TxInv
<1>4. CASE OpenChildren(View(q), a) = {}
  <2>. DEFINE z == [tx[q] EXCEPT !.pc = Upward(a), !.at = Parent[a], !.draft = d]
  <2>1. tx' = [tx EXCEPT ![q] = z] /\ UNCHANGED <<row, deps, asking>>
    BY <1>4 DEF CountChildren, Goto
  <2>2. View(q)[a] \in Row
    BY <1>0, ViewOK
  <2>3. r \in Row /\ r.state = "done"
    BY <2>2 DEF Row, State
  <2>4. d \in Draft
    <3>1. tx[q].draft \in Draft
      BY <1>0 DEF Tx
    <3>. QED BY <1>0, <2>3, <3>1, WriteOK
  <2>5. Upward(a) \in {"climb", "commit"} /\ (Upward(a) = "climb" => Parent[a] \in Live)
        /\ Parent[a] \in Task \cup {NoTask}
    BY <1>0 DEF Upward
  <2>6. d = Write(tx[q].draft, a, r)
    OBVIOUS
  <2>. HIDE DEF d, r
  <2>7. /\ z \in Tx /\ z.op = tx[q].op /\ z.t = tx[q].t /\ z.pc = Upward(a) /\ z.at = Parent[a]
        /\ z.seen = tx[q].seen /\ z.draft = d /\ z.cand = tx[q].cand
    BY <1>0, <2>4, <2>5 DEF Tx, PC
  <2>. HIDE DEF z
  <2>8. tx'[q] = z
    BY <1>0, <2>1 DEF BoardInv
  <2>9. tx[q].op \in Moving => Preconditions(tx[q].t) \subseteq tx[q].seen
    BY <1>0 DEF ReadInv, Writing
  <2>10. DraftStep(q, a, r)
    BY <1>0, <1>1, <1>2, <2>1, <2>3, <2>5, <2>6, <2>7, <2>8, <2>9
       DEF DraftStep, Moving, Writing
  <2>. QED BY <1>0, <2>3, <2>10, DraftOwn
<1>. QED BY <1>3, <1>4

\* tasks.claim writes its row.
LEMMA ClaimTaskOwn ==
  ASSUME IInv, NEW q \in Proc, ClaimTask(q)
  PROVE  (QuietStep(q) /\ TxInv(q)') \/ Rollback(q)
<1>. DEFINE t == tx[q].t
            r == [state |-> "doing", assignee |-> tx[q].u]
            d == Write(tx[q].draft, t, r)
            z == [tx[q] EXCEPT !.pc = "commit", !.draft = d]
<1>. SUFFICES ASSUME ~ Rollback(q) PROVE QuietStep(q) /\ TxInv(q)'
  OBVIOUS
<1>0. /\ BoardInv /\ PlaceInv(q) /\ tx[q] \in Tx /\ tx[q].op = "claim"
      /\ tx[q].pc = "act" /\ t \in Live /\ t \in Task /\ Held(q, t)
      /\ tx[q].cand \subseteq Live /\ row[t].state # "doing" /\ UNCHANGED <<upd, shr>>
  BY DEF IInv, BoardInv, TxInv, PlaceInv, ClaimTask, TakesTask
<1>1. tx' = [tx EXCEPT ![q] = z] /\ UNCHANGED <<row, deps, asking>>
  BY DEF ClaimTask, Goto
<1>2. r \in Row /\ r.state = "doing"
  BY <1>0 DEF Row, State, Tx
<1>3. d \in Draft
  <2>1. tx[q].draft \in Draft
    BY <1>0 DEF Tx
  <2>. QED BY <1>0, <1>2, <2>1, WriteOK
<1>4. d = Write(tx[q].draft, t, r)
  OBVIOUS
<1>5. LocksTaken(q) /\ upd'[t] = {q}
  BY <1>0, LockStep DEF Held
<1>. HIDE DEF r, d
<1>6. /\ z \in Tx /\ z.op = "claim" /\ z.t = t /\ z.pc = "commit"
      /\ z.draft = d /\ z.cand = tx[q].cand
  BY <1>0, <1>3 DEF Tx, PC
<1>. HIDE DEF z
<1>7. tx'[q] = z
  BY <1>0, <1>1 DEF BoardInv
<1>8. DraftStep(q, t, r)
  BY <1>0, <1>1, <1>2, <1>4, <1>5, <1>6, <1>7 DEF DraftStep, Moving, Writing, Closed
<1>. QED BY <1>0, <1>2, <1>8, DraftOwn

\* tasks.claim_next takes and writes one of its candidates.
LEMMA PickCandidateOwn ==
  ASSUME IInv, NEW q \in Proc, PickCandidate(q)
  PROVE  (QuietStep(q) /\ TxInv(q)') \/ Rollback(q)
<1>. SUFFICES ASSUME ~ Rollback(q) PROVE QuietStep(q) /\ TxInv(q)'
  OBVIOUS
<1>1. PICK t \in Pickable(q) :
        /\ TakeUpdate(q, t)
        /\ Goto(q, [tx[q] EXCEPT !.pc = "commit", !.t = t, !.cand = {},
                    !.draft = Write(@, t, [state |-> "doing", assignee |-> tx[q].u])])
  BY DEF PickCandidate
<1>. DEFINE r == [state |-> "doing", assignee |-> tx[q].u]
            d == Write(tx[q].draft, t, r)
            z == [tx[q] EXCEPT !.pc = "commit", !.t = t, !.cand = {}, !.draft = d]
<1>0. /\ BoardInv /\ PlaceInv(q) /\ tx[q] \in Tx /\ tx[q].op = "next"
      /\ t \in Live /\ t \in Task /\ FreeFor(q, t) /\ row[t].state = "todo"
  BY <1>1 DEF IInv, BoardInv, TxInv, PlaceInv, PickCandidate, Pickable
<1>2. tx' = [tx EXCEPT ![q] = z] /\ UNCHANGED <<row, deps, asking>>
  BY <1>1 DEF Goto
<1>3. r \in Row /\ r.state = "doing"
  BY <1>0 DEF Row, State, Tx
<1>4. d \in Draft
  <2>1. tx[q].draft \in Draft
    BY <1>0 DEF Tx
  <2>. QED BY <1>0, <1>3, <2>1, WriteOK
<1>5. d = Write(tx[q].draft, t, r)
  OBVIOUS
<1>6. LocksTaken(q) /\ upd'[t] = {q}
  BY <1>0, <1>1, LockStep
<1>. HIDE DEF r, d
<1>7. /\ z \in Tx /\ z.op = "next" /\ z.t = t /\ z.pc = "commit"
      /\ z.draft = d /\ z.cand = {}
  BY <1>0, <1>4 DEF Tx, PC
<1>. HIDE DEF z
<1>8. tx'[q] = z
  BY <1>0, <1>2 DEF BoardInv
<1>9. DraftStep(q, t, r)
  BY <1>0, <1>2, <1>3, <1>5, <1>6, <1>7, <1>8 DEF DraftStep, Moving, Writing, Closed, TakesTask
<1>. QED BY <1>0, <1>3, <1>9, DraftOwn

\* tasks.create writes its row, and shares the parent it points at.
LEMMA InsertTaskOwn ==
  ASSUME IInv, NEW q \in Proc, InsertTask(q)
  PROVE  QuietStep(q) /\ TxInv(q)'
<1>. DEFINE t == tx[q].t
            r == [state |-> "todo", assignee |-> Nobody]
            d == Write(tx[q].draft, t, r)
            z == [tx[q] EXCEPT !.pc = "commit", !.draft = d]
<1>0. /\ BoardInv /\ PlaceInv(q) /\ DraftInv(q) /\ CreateInv(q) /\ tx[q] \in Tx
      /\ tx[q].op = "create" /\ tx[q].pc = "insert" /\ t \in Task \ Live
      /\ tx[q].cand \subseteq Live /\ Parent[t] \in Live \cup {NoTask} /\ Live \subseteq Task
  BY DEF IInv, BoardInv, TxInv, PlaceInv, CreateInv, InsertTask
<1>1. tx' = [tx EXCEPT ![q] = z] /\ UNCHANGED <<row, deps, asking>>
  BY DEF InsertTask, Goto
<1>2. r \in Row /\ r.state = "todo"
  BY DEF Row, State
<1>2a. d = Write(tx[q].draft, t, r)
  OBVIOUS
<1>. HIDE DEF r, d
<1>3. d \in Draft /\ DOMAIN d = {t} /\ d[t] = r
  <2>1. tx[q].draft \in Draft /\ DOMAIN tx[q].draft = {}
    BY <1>0 DEF Tx, DraftInv, Drafted, Writing
  <2>2. /\ Write(tx[q].draft, t, r) \in Draft
        /\ DOMAIN Write(tx[q].draft, t, r) = DOMAIN tx[q].draft \cup {t}
        /\ Write(tx[q].draft, t, r)[t] = r
    <3>1. tx[q].draft \in Draft /\ t \in Task /\ r \in Row
      BY <1>0, <1>2, <2>1
    <3>. HIDE DEF t
    <3>. QED BY <3>1, WriteOK
  <2>. QED BY <1>2a, <2>1, <2>2
<1>4. LocksTaken(q) /\ (Parent[t] # NoTask => q \in shr'[Parent[t]])
  <2>1. CASE Parent[t] = NoTask
    <3>1. UNCHANGED <<upd, shr>>
      BY <2>1 DEF InsertTask
    <3>. QED BY <1>0, <2>1, <3>1, LockStep
  <2>2. CASE Parent[t] # NoTask
    <3>1. Parent[t] \in Task /\ ShareableFor(q, Parent[t]) /\ TakeShare(q, Parent[t])
      BY <1>0, <2>2 DEF InsertTask
    <3>. QED BY <1>0, <3>1, LockStep
  <2>. QED BY <2>1, <2>2
<1>5. z \in Tx /\ z.op = "create" /\ z.t = t /\ z.pc = "commit" /\ z.draft = d /\ z.cand = tx[q].cand
  BY <1>0, <1>3 DEF Tx, PC
<1>. HIDE DEF z
<1>6. tx'[q] = z /\ \A p \in Proc : p # q => tx'[p] = tx[p]
  BY <1>0, <1>1 DEF BoardInv
<1>7. Live' = Live /\ Drafted(q)' = {t} /\ tx'[q].draft[t].state = "todo" /\ tx'[q].t = t
  BY <1>1, <1>2, <1>3, <1>5, <1>6 DEF Live, Drafted
<1>8. ~ HoldsGraph(q)'
  BY <1>5, <1>6 DEF HoldsGraph
<1>9. QuietStep(q)
  <2>1. tx' = [tx EXCEPT ![q] = tx'[q]] /\ tx'[q] \in Tx
    BY <1>1, <1>5, <1>6
  <2>. QED BY <1>1, <1>4, <1>7, <1>8, <2>1 DEF QuietStep
<1>10. PlaceInv(q)'
  BY <1>0, <1>5, <1>6, <1>7 DEF PlaceInv, TakesTask, Moving
<1>11. DraftInv(q)'
  BY <1>0, <1>5, <1>6, <1>7 DEF DraftInv, Writing, Closed
<1>12. CreateInv(q)'
  <2>1. \A p \in Proc : p # q => tx'[p].t # tx'[q].t
    BY <1>0, <1>6, <1>7 DEF CreateInv
  <2>2. tx'[q].t \in Task \ Live' /\ Parent[tx'[q].t] \in Live' \cup {NoTask}
    BY <1>0, <1>7
  <2>3. Parent[tx'[q].t] # NoTask => q \in shr'[Parent[tx'[q].t]]
    BY <1>4, <1>7
  <2>. QED BY <1>7, <2>1, <2>2, <2>3 DEF CreateInv
<1>13. ReadInv(q)' /\ GraphInv(q)'
  BY <1>5, <1>6, <1>8 DEF ReadInv, GraphInv, Moving
<1>. QED BY <1>9, <1>10, <1>11, <1>12, <1>13 DEF TxInv

-----------------------------------------------------------------------------
(* The whole statement, and what it means for the others. *)

\* Every step of q is quiet, a rollback or a commit.
LEMMA StepKinds ==
  ASSUME IInv, NEW q \in Proc, SomeCall(q) \/ Statement(q) \/ BreakDeadlock(q) \/ Cancel(q)
  PROVE  (QuietStep(q) /\ TxInv(q)') \/ Rollback(q) \/ Commit(q)
BY CallOwn, LockTaskOwn, MoveTaskOwn, LockParentOwn, CountChildrenOwn, ClaimTaskOwn,
   SelectCandidatesOwn, PickCandidateOwn, AskQuestionOwn, InsertTaskOwn, AddDepOwn
   DEF Statement, Work, BreakDeadlock, Cancel

\* What p relies on survives a step of someone else that leaves p its locks and
\* its rows, its new id, its preconditions and its turn at the graph.
LEMMA OthersKeep ==
  ASSUME BoardInv, NEW p \in Proc, TxInv(p), tx'[p] = tx[p], Live \subseteq Live',
         \A x \in Task : Held(p, x) => Held(p, x)',
         \A x \in Live : Held(p, x) => row'[x] = row[x],
         tx[p].op = "create" =>
           /\ tx[p].t \notin Live'
           /\ \A r \in Proc : r # p => tx'[r].t # tx[p].t
           /\ \A x \in Task : p \in shr[x] => p \in shr'[x],
         (tx[p].op \in Moving /\ Held(p, tx[p].t)) =>
           Preconditions(tx[p].t)' \subseteq Preconditions(tx[p].t),
         HoldsGraph(p) => /\ ReachableFrom(tx[p].at)' \subseteq ReachableFrom(tx[p].at)
                          /\ \A r \in Proc : HoldsGraph(r)' => p = r
  PROVE  TxInv(p)'
<1>0. Live \subseteq Task /\ Drafted(p)' = Drafted(p)
  BY DEF BoardInv, Drafted
<1>1. PlaceInv(p)'
  <2>1. tx[p].op \in TakesTask => tx[p].t \in Live /\ tx[p].t \in Task
    BY <1>0 DEF TxInv, PlaceInv
  <2>2. tx[p].pc = "count" => tx[p].at \in Task
    BY <1>0 DEF TxInv, PlaceInv
  <2>3. (tx[p].op \in TakesTask /\ tx[p].pc \notin {"comment", "lock"}) => Held(p, tx[p].t)'
    BY <2>1 DEF TxInv, PlaceInv, Held
  <2>4. tx[p].pc = "count" => Held(p, tx[p].at)'
    BY <2>2 DEF TxInv, PlaceInv, Held
  <2>5. (tx[p].pc = "idle" => tx[p] = Idle)'
    BY DEF TxInv, PlaceInv
  <2>. QED BY <2>1, <2>3, <2>4, <2>5 DEF TxInv, PlaceInv
<1>2. DraftInv(p)'
  <2>1. Drafted(p) \cap Live' \subseteq Live
    BY DEF TxInv, DraftInv, CreateInv
  <2>2. \A x \in Drafted(p) \cap Live' : x \in Live /\ Held(p, x) /\ Held(p, x)' /\ row'[x] = row[x]
    BY <1>0, <2>1 DEF TxInv, DraftInv
  <2>3. (\A x \in Drafted(p) \cap Live : Held(p, x))'
    BY <1>0, <2>2
  <2>4. (\A x \in Drafted(p) \cap Live :
          (row[x].state = "doing" /\ tx[p].draft[x].state = "doing" /\ row[x].assignee # Nobody)
            => tx[p].draft[x].assignee = row[x].assignee)'
    BY <1>0, <2>2 DEF TxInv, DraftInv
  <2>5. (tx[p].pc \notin Writing => Drafted(p) = {})'
    BY <1>0 DEF TxInv, DraftInv
  <2>6. (tx[p].op # "create" => Drafted(p) \subseteq Live)'
    BY <1>0 DEF TxInv, DraftInv
  <2>7. (\A x \in Drafted(p) : tx[p].draft[x].state \in Closed => tx[p].op \in Moving \cup {"visit"})'
    BY <1>0 DEF TxInv, DraftInv
  <2>. QED BY <2>3, <2>4, <2>5, <2>6, <2>7 DEF DraftInv
<1>3. CreateInv(p)'
  <2>. SUFFICES ASSUME tx[p].op = "create" PROVE CreateInv(p)'
    BY DEF CreateInv
  <2>1. /\ tx[p].t \in Task \ Live /\ Parent[tx[p].t] \in Live \cup {NoTask}
        /\ Drafted(p) \subseteq {tx[p].t}
        /\ \A x \in Drafted(p) : tx[p].draft[x].state = "todo"
    BY DEF TxInv, CreateInv
  <2>2. (tx[p].pc = "commit" /\ Parent[tx[p].t] # NoTask) => p \in shr'[Parent[tx[p].t]]
    BY <1>0, <2>1 DEF TxInv, CreateInv
  <2>. QED BY <1>0, <2>1, <2>2 DEF CreateInv
<1>4. ReadInv(p)'
  <2>1. (tx[p].op = "ask" /\ tx[p].pc = "commit") =>
          tx[p].t \in Live /\ Held(p, tx[p].t) /\ row[tx[p].t].state \notin Closed
    BY DEF TxInv, PlaceInv, ReadInv, TakesTask
  <2>2. (tx[p].op \in Moving /\ tx[p].pc \in Writing) =>
          Held(p, tx[p].t) /\ Preconditions(tx[p].t) \subseteq tx[p].seen
    BY DEF TxInv, PlaceInv, ReadInv, TakesTask, Moving, Writing
  <2>3. (tx[p].op \in Moving /\ tx[p].pc \in Writing) =>
          Preconditions(tx[p].t)' \subseteq tx[p].seen
    BY <2>2
  <2>. QED BY <2>1, <2>3 DEF ReadInv
<1>5. GraphInv(p)'
  <2>1. tx[p].op = "dep" => tx[p].t \in Live /\ tx[p].at \in Live /\ tx[p].t # tx[p].at
    BY DEF TxInv, GraphInv
  <2>2. (tx[p].op = "dep" /\ tx[p].pc = "high") => Held(p, Low(p))'
    <3>1. Low(p)' = Low(p)
      BY DEF Low
    <3>2. (tx[p].op = "dep" /\ tx[p].pc = "high") => Low(p) \in Task /\ Held(p, Low(p))
      BY <1>0, <2>1 DEF TxInv, GraphInv, Low
    <3>. QED BY <3>1, <3>2 DEF Held
  <2>3. (tx[p].op = "dep" /\ tx[p].pc \in {"check", "commit"}) =>
          Held(p, tx[p].t)' /\ Held(p, tx[p].at)'
    BY <1>0, <2>1 DEF TxInv, GraphInv, Held
  <2>4. (tx[p].op = "dep" /\ tx[p].pc = "commit") => tx[p].t \notin ReachableFrom(tx[p].at)'
    BY DEF TxInv, GraphInv, HoldsGraph
  <2>5. HoldsGraph(p)' = HoldsGraph(p)
    BY DEF HoldsGraph
  <2>6. \A r \in Proc : (HoldsGraph(p) /\ HoldsGraph(r) => p = r)'
    BY <2>5
  <2>. QED BY <2>1, <2>2, <2>3, <2>4, <2>6 DEF GraphInv
<1>. QED BY <1>1, <1>2, <1>3, <1>4, <1>5 DEF TxInv

\* A quiet step of q.
LEMMA QuietKeeps ==
  ASSUME IInv, NEW q \in Proc, QuietStep(q)
  PROVE  BoardInv' /\ \A p \in Proc : p # q => TxInv(p)'
<1>1. /\ Live' = Live /\ row' = row /\ deps' = deps /\ asking' = asking
      /\ \A p \in Proc : p # q => tx'[p] = tx[p]
      /\ Live \subseteq Task /\ BoardInv
  BY DEF QuietStep, IInv, BoardInv, Live
<1>2. BoardInv'
  <2>1. tx' \in [Proc -> Tx]
    BY <1>1 DEF QuietStep, BoardInv
  <2>. QED BY <1>1, <2>1 DEF QuietStep, LocksTaken, BoardInv
<1>3. ASSUME NEW p \in Proc, p # q
      PROVE  TxInv(p)'
  <2>1. tx'[p] = tx[p] /\ TxInv(p) /\ BoardInv /\ Live \subseteq Live'
    BY <1>1, <1>3 DEF IInv
  <2>2. \A x \in Task : Held(p, x) => Held(p, x)'
    BY <1>3 DEF QuietStep, LocksTaken, Held
  <2>3. \A x \in Live : Held(p, x) => row'[x] = row[x]
    BY <1>1
  <2>4. tx[p].op = "create" =>
           /\ tx[p].t \notin Live'
           /\ \A r \in Proc : r # p => tx'[r].t # tx[p].t
           /\ \A x \in Task : p \in shr[x] => p \in shr'[x]
    <3>. SUFFICES ASSUME tx[p].op = "create"
                  PROVE  /\ tx[p].t \notin Live'
                         /\ \A r \in Proc : r # p => tx'[r].t # tx[p].t
                         /\ \A x \in Task : p \in shr[x] => p \in shr'[x]
      OBVIOUS
    <3>1. tx[p].t \in Task \ Live /\ \A r \in Proc : r # p => tx[r].t # tx[p].t
      BY <2>1 DEF TxInv, CreateInv
    <3>2. tx'[q].t # tx[p].t
      BY <1>3, <3>1, IdsAssumption DEF QuietStep
    <3>. QED BY <1>1, <3>1, <3>2 DEF QuietStep, LocksTaken
  <2>5. Preconditions(tx[p].t)' \subseteq Preconditions(tx[p].t)
    BY <1>1, <2>1 DEF Preconditions
  <2>6. ReachableFrom(tx[p].at)' \subseteq ReachableFrom(tx[p].at)
    BY <1>1, <2>1 DEF ReachableFrom
  <2>7. HoldsGraph(p) => \A r \in Proc : HoldsGraph(r)' => p = r
    <3>1. \A r \in Proc : r # q => HoldsGraph(r)' = HoldsGraph(r)
      BY <1>1 DEF HoldsGraph
    <3>2. HoldsGraph(p) => \A r \in Proc : HoldsGraph(r) => p = r
      BY <2>1 DEF TxInv, GraphInv
    <3>. QED BY <1>3, <3>1, <3>2 DEF QuietStep
  <2>. QED BY <2>1, <2>2, <2>3, <2>4, <2>5, <2>6, <2>7, OthersKeep
<1>. QED BY <1>2, <1>3

\* A rollback of q: its locks are gone.
LEMMA RollbackKeeps ==
  ASSUME IInv, NEW q \in Proc, Rollback(q)
  PROVE  IInv'
<1>1. /\ Live' = Live /\ row' = row /\ deps' = deps /\ asking' = asking
      /\ \A p \in Proc : p # q => tx'[p] = tx[p]
      /\ Live \subseteq Task /\ BoardInv /\ tx'[q] = Idle /\ TxInv(q)'
      /\ tx' = [tx EXCEPT ![q] = Idle]
  BY RollbackOwn DEF Rollback, IInv, BoardInv, Live
<1>2. /\ upd' \in [Task -> SUBSET Proc] /\ shr' \in [Task -> SUBSET Proc]
      /\ \A x \in Task : upd'[x] = upd[x] \ {q} /\ shr'[x] = shr[x] \ {q}
  BY <1>1 DEF Rollback, Release, BoardInv
<1>3. BoardInv'
  <2>1. tx' \in [Proc -> Tx]
    BY <1>1, IdleOK DEF BoardInv
  <2>2. \A x \in Task, p \in Proc : p \in upd'[x] => upd'[x] = {p} /\ shr'[x] \subseteq {p}
    BY <1>1, <1>2 DEF BoardInv
  <2>. QED BY <1>1, <1>2, <2>1, <2>2 DEF BoardInv
<1>4. ASSUME NEW p \in Proc, p # q
      PROVE  TxInv(p)'
  <2>1. tx'[p] = tx[p] /\ TxInv(p) /\ BoardInv /\ Live \subseteq Live'
    BY <1>1, <1>4 DEF IInv
  <2>2. \A x \in Task : Held(p, x) => Held(p, x)'
    BY <1>2, <1>4 DEF Held
  <2>3. \A x \in Live : Held(p, x) => row'[x] = row[x]
    BY <1>1
  <2>4. tx[p].op = "create" =>
           /\ tx[p].t \notin Live'
           /\ \A r \in Proc : r # p => tx'[r].t # tx[p].t
           /\ \A x \in Task : p \in shr[x] => p \in shr'[x]
    BY <1>1, <1>2, <1>4, <2>1, IdleOK, IdsAssumption DEF TxInv, CreateInv
  <2>5. Preconditions(tx[p].t)' \subseteq Preconditions(tx[p].t)
    BY <1>1, <2>1 DEF Preconditions
  <2>6. ReachableFrom(tx[p].at)' \subseteq ReachableFrom(tx[p].at)
    BY <1>1, <2>1 DEF ReachableFrom
  <2>7. HoldsGraph(p) => \A r \in Proc : HoldsGraph(r)' => p = r
    BY <1>1, <2>1, IdleOK DEF TxInv, GraphInv, HoldsGraph
  <2>. QED BY <2>1, <2>2, <2>3, <2>4, <2>5, <2>6, <2>7, OthersKeep
<1>. QED BY <1>1, <1>3, <1>4 DEF IInv

\* A commit of q: it writes rows that it holds, or the one it creates.
LEMMA CommitKeeps ==
  ASSUME IInv, NEW q \in Proc, Commit(q)
  PROVE  IInv'
<1>. DEFINE shut == {x \in DOMAIN tx[q].draft : tx[q].draft[x].state \in Closed}
<1>1. /\ BoardInv /\ TxInv(q) /\ tx[q].pc = "commit" /\ tx[q] \in Tx
      /\ tx' = [tx EXCEPT ![q] = Idle] /\ tx'[q] = Idle
      /\ row' = View(q) /\ Live \subseteq Task
      /\ \A p \in Proc : p # q => tx'[p] = tx[p]
      /\ deps' = IF tx[q].op = "dep" THEN deps \cup {<<tx[q].t, tx[q].at>>} ELSE deps
      /\ asking' = (asking \ shut) \cup (IF tx[q].op = "ask" THEN {tx[q].t} ELSE {})
  BY DEF Commit, IInv, BoardInv
<1>2. /\ upd' \in [Task -> SUBSET Proc] /\ shr' \in [Task -> SUBSET Proc]
      /\ \A x \in Task : upd'[x] = upd[x] \ {q} /\ shr'[x] = shr[x] \ {q}
  BY <1>1 DEF Commit, Release, BoardInv
<1>3. /\ Live' = Live \cup Drafted(q) /\ Drafted(q) \subseteq Task
      /\ \A x \in Drafted(q) : row'[x] = tx[q].draft[x] /\ row'[x] \in Row
      /\ \A x \in Live \ Drafted(q) : row'[x] = row[x] /\ row'[x] \in Row
      /\ row' = [x \in Live' |-> row'[x]]
  <2>1. /\ DOMAIN View(q) = Live \cup Drafted(q)
        /\ \A x \in Drafted(q) : View(q)[x] = tx[q].draft[x] /\ View(q)[x] \in Row
        /\ \A x \in Live \ Drafted(q) : View(q)[x] = row[x] /\ View(q)[x] \in Row
        /\ Drafted(q) \subseteq Task
    BY <1>1, ViewOK
  <2>2. View(q) = [x \in DOMAIN View(q) |-> View(q)[x]]
    BY DEF View
  <2>3. Live' = DOMAIN row'
    BY DEF Live
  <2>. QED BY <1>1, <2>1, <2>2, <2>3
<1>4. \A x \in Drafted(q) \ Live :
        tx[q].op = "create" /\ x = tx[q].t /\ Parent[x] \in Live \cup {NoTask}
  BY <1>1 DEF TxInv, DraftInv, CreateInv
<1>5. \A x \in Drafted(q) \cap Live : Held(q, x)
  BY <1>1 DEF TxInv, DraftInv
<1>6. tx[q].op = "dep" =>
        /\ tx[q].t \in Live /\ tx[q].at \in Live /\ Held(q, tx[q].t) /\ HoldsGraph(q)
  BY <1>1 DEF TxInv, GraphInv, HoldsGraph
<1>7. BoardInv'
  <2>1. tx' \in [Proc -> Tx]
    BY <1>1, IdleOK DEF BoardInv
  <2>2. \A x \in Task, p \in Proc : p \in upd'[x] => upd'[x] = {p} /\ shr'[x] \subseteq {p}
    BY <1>1, <1>2 DEF BoardInv
  <2>3. Live' \subseteq Task /\ row' \in [Live' -> Row]
    BY <1>1, <1>3
  <2>4. \A x \in Live' : Parent[x] \in Live' \cup {NoTask}
    BY <1>1, <1>3, <1>4 DEF BoardInv
  <2>5. deps' \subseteq Live' \X Live'
    BY <1>1, <1>3, <1>6 DEF BoardInv
  <2>6. \A x \in asking' : x \in Live' /\ row'[x].state \notin Closed
    <3>1. ASSUME NEW x \in asking \ shut PROVE x \in Live' /\ row'[x].state \notin Closed
      BY <1>1, <1>3, <3>1 DEF BoardInv, Drafted
    <3>2. tx[q].op = "ask" => tx[q].t \in Live' /\ row'[tx[q].t].state \notin Closed
      <4>1. tx[q].op = "ask" => tx[q].t \in Live /\ row[tx[q].t].state \notin Closed
        BY <1>1 DEF TxInv, PlaceInv, ReadInv, TakesTask
      <4>2. tx[q].op = "ask" => \A x \in Drafted(q) : tx[q].draft[x].state \notin Closed
        BY <1>1 DEF TxInv, DraftInv, Moving
      <4>. QED BY <1>3, <4>1, <4>2
    <3>. QED BY <1>1, <3>1, <3>2
  <2>. QED BY <1>2, <2>1, <2>2, <2>3, <2>4, <2>5, <2>6 DEF BoardInv
<1>8. TxInv(q)'
  <2>1. PlaceInv(q)' /\ DraftInv(q)' /\ CreateInv(q)' /\ ReadInv(q)'
    BY <1>1, IdleOK DEF PlaceInv, DraftInv, CreateInv, ReadInv, Drafted, TakesTask, Moving, Writing
  <2>2. GraphInv(q)'
    BY <1>1, IdleOK DEF GraphInv, HoldsGraph
  <2>. QED BY <2>1, <2>2 DEF TxInv
<1>9. ASSUME NEW p \in Proc, p # q
      PROVE  TxInv(p)'
  <2>1. tx'[p] = tx[p] /\ TxInv(p) /\ BoardInv /\ Live \subseteq Live'
    BY <1>1, <1>3, <1>9 DEF IInv
  <2>2. \A x \in Task : Held(p, x) => Held(p, x)'
    BY <1>2, <1>9 DEF Held
  <2>3. \A x \in Live : Held(p, x) => row'[x] = row[x]
    <3>1. \A x \in Live : Held(p, x) => x \notin Drafted(q)
      BY <1>5, <1>9 DEF Held
    <3>. QED BY <1>3, <3>1
  <2>4. tx[p].op = "create" =>
           /\ tx[p].t \notin Live'
           /\ \A r \in Proc : r # p => tx'[r].t # tx[p].t
           /\ \A x \in Task : p \in shr[x] => p \in shr'[x]
    <3>. SUFFICES ASSUME tx[p].op = "create"
                  PROVE  /\ tx[p].t \notin Live'
                         /\ \A r \in Proc : r # p => tx'[r].t # tx[p].t
                         /\ \A x \in Task : p \in shr[x] => p \in shr'[x]
      OBVIOUS
    <3>1. tx[p].t \in Task \ Live /\ \A r \in Proc : r # p => tx[r].t # tx[p].t
      BY <2>1 DEF TxInv, CreateInv
    <3>2. tx[p].t \notin Drafted(q)
      BY <1>4, <1>9, <3>1
    <3>3. \A r \in Proc : r # p => tx'[r].t # tx[p].t
      BY <1>1, <3>1, IdleOK, IdsAssumption
    <3>. QED BY <1>2, <1>3, <1>9, <3>1, <3>2, <3>3
  <2>5. (tx[p].op \in Moving /\ Held(p, tx[p].t)) =>
           Preconditions(tx[p].t)' \subseteq Preconditions(tx[p].t)
    <3>. SUFFICES ASSUME tx[p].op \in Moving, Held(p, tx[p].t),
                         NEW d \in Live', <<tx[p].t, d>> \in deps'
                  PROVE  d \in Live /\ <<tx[p].t, d>> \in deps
      BY <2>1 DEF Preconditions
    <3>1. <<tx[p].t, d>> \in deps
      <4>1. tx[q].op = "dep" => tx[q].t # tx[p].t
        BY <1>6, <1>9 DEF Held
      <4>. QED BY <1>1, <4>1
    <3>. QED BY <1>1, <3>1 DEF BoardInv
  <2>6. HoldsGraph(p) => deps' = deps
    BY <1>1, <1>6, <1>9, <2>1 DEF TxInv, GraphInv
  <2>7. HoldsGraph(p) => ReachableFrom(tx[p].at)' \subseteq ReachableFrom(tx[p].at)
    BY <2>1, <2>6 DEF ReachableFrom
  <2>8. HoldsGraph(p) => \A r \in Proc : HoldsGraph(r)' => p = r
    BY <1>1, <2>1, IdleOK DEF TxInv, GraphInv, HoldsGraph
  <2>. QED BY <2>1, <2>2, <2>3, <2>4, <2>5, <2>7, <2>8, OthersKeep
<1>. QED BY <1>7, <1>8, <1>9 DEF IInv

\* remove_dependency.
LEMMA RemoveKeeps ==
  ASSUME IInv, NEW e \in deps, RemoveDependency(e)
  PROVE  IInv'
<1>1. /\ deps' = deps \ {e} /\ row' = row /\ asking' = asking /\ tx' = tx /\ upd' = upd /\ shr' = shr
      /\ Live' = Live /\ BoardInv
  BY DEF RemoveDependency, Live, IInv
<1>2. BoardInv'
  BY <1>1 DEF BoardInv
<1>3. ASSUME NEW p \in Proc
      PROVE  TxInv(p)'
  <2>1. tx'[p] = tx[p] /\ TxInv(p) /\ BoardInv /\ Live \subseteq Live'
    BY <1>1, <1>3 DEF IInv
  <2>2. \A x \in Task : Held(p, x) => Held(p, x)'
    BY <1>1 DEF Held
  <2>3. \A x \in Live : Held(p, x) => row'[x] = row[x]
    BY <1>1
  <2>4. tx[p].op = "create" =>
           /\ tx[p].t \notin Live'
           /\ \A r \in Proc : r # p => tx'[r].t # tx[p].t
           /\ \A x \in Task : p \in shr[x] => p \in shr'[x]
    BY <1>1, <2>1 DEF TxInv, CreateInv
  <2>5. Preconditions(tx[p].t)' \subseteq Preconditions(tx[p].t)
    BY <1>1, <2>1 DEF Preconditions
  <2>6. ReachableFrom(tx[p].at)' \subseteq ReachableFrom(tx[p].at)
    <3>1. tx'[p].at = tx[p].at
      BY <2>1
    <3>. QED BY <1>1, <3>1 DEF ReachableFrom
  <2>7. HoldsGraph(p) => \A r \in Proc : HoldsGraph(r)' => p = r
    BY <1>1, <2>1 DEF TxInv, GraphInv, HoldsGraph
  <2>. QED BY <2>1, <2>2, <2>3, <2>4, <2>5, <2>6, <2>7, OthersKeep
<1>. QED BY <1>2, <1>3 DEF IInv

-----------------------------------------------------------------------------
(* The theorems. *)

LEMMA InitIInv == Init => IInv
<1>. SUFFICES ASSUME Init PROVE IInv
  OBVIOUS
<1>. USE IdsAssumption DEF Init
<1>1. Live = Present /\ \A p \in Proc : tx[p] = Idle
  BY DEF Live
<1>2. BoardInv
  <2>1. row \in [Live -> Row]
    BY <1>1 DEF Row, State
  <2>2. tx \in [Proc -> Tx]
    BY IdleOK
  <2>. QED BY <1>1, <2>1, <2>2 DEF BoardInv
<1>3. ASSUME NEW p \in Proc PROVE TxInv(p)
  <2>1. PlaceInv(p) /\ DraftInv(p) /\ CreateInv(p) /\ ReadInv(p)
    BY <1>1, IdleOK DEF PlaceInv, DraftInv, CreateInv, ReadInv, Drafted, TakesTask, Moving, Writing
  <2>2. GraphInv(p)
    BY <1>1, IdleOK DEF GraphInv, HoldsGraph
  <2>. QED BY <2>1, <2>2 DEF TxInv
<1>. QED BY <1>2, <1>3 DEF IInv

\* What a step of the whole system is.
LEMMA NextKinds ==
  ASSUME IInv, Next
  PROVE  \/ \E q \in Proc : QuietStep(q) /\ TxInv(q)'
         \/ \E q \in Proc : Rollback(q)
         \/ \E q \in Proc : Commit(q)
         \/ \E e \in deps : RemoveDependency(e)
BY StepKinds DEF Next

LEMMA StutterKeeps ==
  ASSUME IInv, UNCHANGED vars
  PROVE  IInv'
<1>1. /\ deps' = deps /\ row' = row /\ asking' = asking /\ tx' = tx /\ upd' = upd /\ shr' = shr
      /\ Live' = Live
  BY DEF vars, Live
<1>2. BoardInv'
  BY <1>1 DEF IInv, BoardInv
<1>3. ASSUME NEW p \in Proc PROVE TxInv(p)'
  <2>1. tx'[p] = tx[p] /\ TxInv(p) /\ BoardInv /\ Live \subseteq Live'
    BY <1>1, <1>3 DEF IInv
  <2>2. /\ \A x \in Task : Held(p, x) => Held(p, x)'
        /\ \A x \in Live : Held(p, x) => row'[x] = row[x]
    BY <1>1 DEF Held
  <2>4. tx[p].op = "create" =>
           /\ tx[p].t \notin Live'
           /\ \A r \in Proc : r # p => tx'[r].t # tx[p].t
           /\ \A x \in Task : p \in shr[x] => p \in shr'[x]
    BY <1>1, <2>1 DEF TxInv, CreateInv
  <2>5. Preconditions(tx[p].t)' \subseteq Preconditions(tx[p].t)
    BY <1>1 DEF Preconditions
  <2>6. ReachableFrom(tx[p].at)' \subseteq ReachableFrom(tx[p].at)
    BY <1>1 DEF ReachableFrom
  <2>7. HoldsGraph(p) => \A r \in Proc : HoldsGraph(r)' => p = r
    BY <1>1, <2>1 DEF TxInv, GraphInv, HoldsGraph
  <2>. QED BY <2>1, <2>2, <2>4, <2>5, <2>6, <2>7, OthersKeep
<1>. QED BY <1>2, <1>3 DEF IInv

LEMMA NextIInv == IInv /\ [Next]_vars => IInv'
<1>. SUFFICES ASSUME IInv, [Next]_vars PROVE IInv'
  OBVIOUS
<1>1. ASSUME NEW q \in Proc, QuietStep(q), TxInv(q)' PROVE IInv'
  BY <1>1, QuietKeeps DEF IInv
<1>. QED BY <1>1, NextKinds, RollbackKeeps, CommitKeeps, RemoveKeeps, StutterKeeps

\* What the locks promise each transaction holds in every reachable state.
THEOREM LocksKeepTheirPromise == Spec => []IInv
<1>. QED BY InitIInv, NextIInv, PTL DEF Spec

\* Rows, edges, locks and drafts are well formed.
THEOREM TypeCorrect == Spec => []TypeOK
<1>1. IInv => TypeOK
  <2>. SUFFICES ASSUME IInv PROVE TypeOK
    OBVIOUS
  <2>0. BoardInv /\ Live \subseteq Task
    BY DEF IInv, BoardInv
  <2>1. ASSUME NEW t \in Task, upd[t] # {}
        PROVE  Cardinality(upd[t]) = 1 /\ shr[t] \subseteq upd[t]
    <3>1. PICK p \in Proc : p \in upd[t]
      BY <2>0, <2>1 DEF BoardInv
    <3>2. upd[t] = {p} /\ shr[t] \subseteq {p}
      BY <2>0, <3>1 DEF BoardInv
    <3>. QED BY <3>2, FS_Singleton
  <2>2. ASSUME NEW p \in Proc, NEW t \in Task, t \in DOMAIN tx[p].draft
        PROVE  tx[p].draft[t] \in Row /\ (t \in Live => upd[t] = {p})
    <3>1. tx[p].draft[t] \in Row
      BY <2>0, <2>2, ViewOK DEF Drafted
    <3>. QED BY <2>2, <3>1 DEF IInv, TxInv, DraftInv, Drafted, Held
  <2>. QED BY <2>0, <2>1, <2>2 DEF TypeOK, BoardInv
<1>. QED BY <1>1, LocksKeepTheirPromise, PTL

\* No question slips in after the sweep of a close, or of a roll-up.
THEOREM ClosedTasksAskNothing == Spec => []ClosedAsksNothing
<1>1. IInv => ClosedAsksNothing
  BY DEF IInv, BoardInv, ClosedAsksNothing
<1>. QED BY <1>1, LocksKeepTheirPromise, PTL

\* No precondition is added between a close's check and its commit.
THEOREM ClosesSeeTheirPreconditions == Spec => []CloseSawEveryPrecondition
<1>1. IInv => CloseSawEveryPrecondition
  <2>. SUFFICES ASSUME IInv, NEW p \in Proc, tx[p].op \in {"set", "close"},
                       tx[p].pc \notin {"comment", "lock", "act"}
                PROVE  Preconditions(tx[p].t) \subseteq tx[p].seen
    BY DEF CloseSawEveryPrecondition
  <2>1. PlaceInv(p) /\ ReadInv(p) /\ tx[p] \in Tx
    BY DEF IInv, TxInv, BoardInv
  <2>2. tx[p].pc \in Writing
    BY <2>1, IdleOK DEF PlaceInv, Writing, Tx, PC
  <2>. QED BY <2>1, <2>2 DEF ReadInv, Moving
<1>. QED BY <1>1, LocksKeepTheirPromise, PTL

\* An edge that closes no cycle.
LEMMA NewEdgeKeepsAcyclic ==
  ASSUME NEW t \in Task, NEW d \in Task, t \notin ReachableFrom(d), DepsAcyclic,
         deps' = deps \cup {<<t, d>>}
  PROVE  DepsAcyclic'
<1>1. PICK C \in SUBSET Task : /\ d \in C /\ t \notin C
                               /\ \A e \in deps : e[1] \in C => e[2] \in C
  BY DEF ReachableFrom
<1>. SUFFICES ASSUME NEW S \in SUBSET Task, S # {}
              PROVE  \E x \in S : \A y \in S : <<x, y>> \notin deps'
  BY DEF DepsAcyclic
<1>2. CASE S \cap C = {}
  <2>1. PICK x \in S : \A y \in S : <<x, y>> \notin deps
    BY DEF DepsAcyclic
  <2>. QED BY <1>1, <1>2, <2>1
<1>3. CASE S \cap C # {}
  <2>1. PICK x \in S \cap C : \A y \in S \cap C : <<x, y>> \notin deps
    BY <1>3 DEF DepsAcyclic
  <2>2. ASSUME NEW y \in S, <<x, y>> \in deps PROVE FALSE
    BY <1>1, <2>1, <2>2
  <2>. QED BY <1>1, <2>1, <2>2
<1>. QED BY <1>2, <1>3

\* Edges added at the same time never close a cycle that neither check saw:
\* the project's lock makes the second check wait for the first commit.
THEOREM DependenciesAcyclic == Spec => []DepsAcyclic
<1>1. Init => DepsAcyclic
  BY DEF Init, DepsAcyclic
<1>2. IInv /\ DepsAcyclic /\ [Next]_vars => DepsAcyclic'
  <2>. SUFFICES ASSUME IInv, DepsAcyclic, [Next]_vars PROVE DepsAcyclic'
    OBVIOUS
  <2>1. CASE deps' \subseteq deps
    BY <2>1 DEF DepsAcyclic
  <2>2. CASE \E q \in Proc : Commit(q) /\ tx[q].op = "dep"
    <3>1. PICK q \in Proc : Commit(q) /\ tx[q].op = "dep"
      BY <2>2
    <3>2. /\ tx[q].t \in Task /\ tx[q].at \in Task /\ tx[q].t \notin ReachableFrom(tx[q].at)
          /\ deps' = deps \cup {<<tx[q].t, tx[q].at>>}
      BY <3>1 DEF IInv, BoardInv, TxInv, GraphInv, Commit
    <3>. QED BY <3>2, NewEdgeKeepsAcyclic
  <2>3. Next => deps' \subseteq deps \/ \E q \in Proc : Commit(q) /\ tx[q].op = "dep"
    BY NextKinds DEF QuietStep, Rollback, Commit, RemoveDependency
  <2>. QED BY <2>1, <2>2, <2>3 DEF vars
<1>. QED BY <1>1, <1>2, LocksKeepTheirPromise, PTL DEF Spec

\* A claim that is about to commit holds its task, and the state it read under
\* the lock is still there.
ClaimInv(p) ==
  (tx[p].op \in {"claim", "next"} /\ tx[p].pc = "commit") =>
    /\ tx[p].t \in Live /\ Held(p, tx[p].t)
    /\ row[tx[p].t].state \in ClaimableFrom(tx[p].op)

\* A record of q that is no claim about to commit.
LEMMA NoClaim ==
  ASSUME NEW q \in Proc, tx'[q].op \notin {"claim", "next"} \/ tx'[q].pc # "commit"
  PROVE  ClaimInv(q)'
BY DEF ClaimInv

\* claim looks at the row it has locked ...
LEMMA ClaimTaskTakes ==
  ASSUME IInv, NEW q \in Proc, ClaimTask(q), ~ Rollback(q)
  PROVE  ClaimInv(q)'
<1>. DEFINE d == Write(tx[q].draft, tx[q].t, [state |-> "doing", assignee |-> tx[q].u])
            z == [tx[q] EXCEPT !.pc = "commit", !.draft = d]
<1>1. tx' = [tx EXCEPT ![q] = z] /\ UNCHANGED <<row, upd>>
      /\ row[tx[q].t].state \notin {"done", "doing"} /\ tx[q].op = "claim" /\ tx[q].pc = "act"
  BY DEF ClaimTask, Goto
<1>2. /\ tx[q] \in Tx /\ tx \in [Proc -> Tx] /\ row \in [Live -> Row]
      /\ tx[q].t \in Live /\ Held(q, tx[q].t)
  BY <1>1 DEF IInv, BoardInv, TxInv, PlaceInv, TakesTask
<1>. HIDE DEF d
<1>3. z.op = "claim" /\ z.t = tx[q].t
  BY <1>1, <1>2 DEF Tx
<1>. HIDE DEF z
<1>4. tx'[q] = z
  BY <1>1, <1>2
<1>5. row[tx[q].t].state \in {"todo", "wont_do"}
  BY <1>1, <1>2 DEF Row, State
<1>6. Live' = Live /\ Held(q, tx[q].t)'
  BY <1>1, <1>2, <1>3, <1>4 DEF Live, Held
<1>. QED BY <1>1, <1>2, <1>3, <1>4, <1>5, <1>6 DEF ClaimInv, ClaimableFrom, Held

\* ... and claim_next at the state of the row it gets.
LEMMA PickTakes ==
  ASSUME IInv, NEW q \in Proc, PickCandidate(q), ~ Rollback(q)
  PROVE  ClaimInv(q)'
<1>1. PICK t \in Pickable(q) :
        /\ TakeUpdate(q, t)
        /\ Goto(q, [tx[q] EXCEPT !.pc = "commit", !.t = t, !.cand = {},
                    !.draft = Write(@, t, [state |-> "doing", assignee |-> tx[q].u])])
  BY DEF PickCandidate
<1>. DEFINE d == Write(tx[q].draft, t, [state |-> "doing", assignee |-> tx[q].u])
            z == [tx[q] EXCEPT !.pc = "commit", !.t = t, !.cand = {}, !.draft = d]
<1>2. tx' = [tx EXCEPT ![q] = z] /\ UNCHANGED row /\ upd' = [upd EXCEPT ![t] = {q}]
  BY <1>1 DEF Goto, TakeUpdate
<1>3. /\ tx[q] \in Tx /\ tx \in [Proc -> Tx] /\ upd \in [Task -> SUBSET Proc]
      /\ tx[q].op = "next" /\ t \in Live /\ t \in Task /\ row[t].state = "todo"
  BY <1>1 DEF IInv, BoardInv, TxInv, PlaceInv, PickCandidate, Pickable
<1>. HIDE DEF d
<1>4. z.op = "next" /\ z.t = t
  BY <1>3 DEF Tx
<1>. HIDE DEF z
<1>5. tx'[q] = z /\ upd'[t] = {q}
  BY <1>2, <1>3
<1>. QED BY <1>2, <1>3, <1>4, <1>5 DEF ClaimInv, ClaimableFrom, Held, Live

\* The other statements of q make no claim ready to commit.
LEMMA ClaimOwn ==
  ASSUME IInv, IInv', NEW q \in Proc,
         SomeCall(q) \/ Statement(q) \/ BreakDeadlock(q) \/ Cancel(q)
  PROVE  ClaimInv(q)'
<1>0. tx[q] \in Tx /\ tx \in [Proc -> Tx] /\ PlaceInv(q) /\ PlaceInv(q)'
  BY DEF IInv, BoardInv, TxInv
<1>1. CASE SomeCall(q) \/ Rollback(q) \/ Commit(q)
  <2>1. CASE SomeCall(q)
    <3>1. PICK op, pc, t, s, u, at :
            /\ Call(q, op, pc, t, s, u, at)
            /\ pc \in {"comment", "lock", "select", "graph", "insert", "climb"}
      BY <2>1 DEF SomeCall, CallSetState, CallClose, CallClaim, CallClaimNext, CallAsk,
                  CallAddDep, CallCreate, Visit
    <3>2. tx'[q].pc = pc
      BY <1>0, <3>1 DEF Call, Goto, Idle
    <3>. QED BY <3>1, <3>2, NoClaim
  <2>2. CASE Rollback(q) \/ Commit(q)
    <3>1. tx'[q] = Idle
      BY <1>0, <2>2 DEF Rollback, Commit
    <3>. QED BY <3>1, IdleOK, NoClaim
  <2>. QED BY <1>1, <2>1, <2>2
<1>2. CASE InsertComment(q) \/ LockTask(q) \/ SelectCandidates(q) \/ LockGraph(q)
           \/ LockLowRow(q) \/ LockHighRow(q)
  <2>1. tx'[q].pc \in {"lock", "act", "pick", "low", "high", "check"}
    BY <1>0, <1>2 DEF InsertComment, LockTask, SelectCandidates, LockGraph, LockLowRow,
                      LockHighRow, Goto, Tx
  <2>. QED BY <2>1, NoClaim
<1>3. CASE MoveTask(q) \/ LockParent(q) \/ CountChildren(q) \/ AskQuestion(q)
           \/ InsertTask(q) \/ CheckCycle(q)
  <2>. SUFFICES ASSUME ~ Rollback(q) PROVE ClaimInv(q)'
    BY <1>1
  <2>1. tx[q].op \notin {"claim", "next"}
    BY <1>0, <1>3 DEF MoveTask, LockParent, CountChildren, AskQuestion, InsertTask, CheckCycle,
                      PlaceInv, Moving
  <2>2. tx'[q].op = tx[q].op
    <3>1. CASE MoveTask(q)
      <4>. DEFINE t == tx[q].t
                  s == tx[q].s
                  pc == IF s \in Closed THEN Upward(t) ELSE "commit"
                  at == IF s \in Closed THEN Parent[t] ELSE NoTask
                  S == Preconditions(t)
                  d == Write(tx[q].draft, t, MovedTo(row[t], s, tx[q].u))
                  z == [tx[q] EXCEPT !.pc = pc, !.at = at, !.seen = S, !.draft = d]
      <4>1. tx' = [tx EXCEPT ![q] = z]
        BY <3>1 DEF MoveTask, Goto
      <4>. HIDE DEF pc, at, S, d
      <4>. QED BY <1>0, <4>1 DEF Tx
    <3>2. CASE LockParent(q)
      <4>. DEFINE pc == IF View(q)[tx[q].at].state = "done" THEN "commit" ELSE "count"
      <4>1. tx' = [tx EXCEPT ![q] = [tx[q] EXCEPT !.pc = pc]]
        BY <3>2 DEF LockParent, Goto
      <4>. HIDE DEF pc
      <4>. QED BY <1>0, <4>1 DEF Tx
    <3>3. CASE CountChildren(q)
      <4>. DEFINE a == tx[q].at
                  d == Write(tx[q].draft, a, [View(q)[a] EXCEPT !.state = "done"])
                  pc == Upward(a)
                  z == IF OpenChildren(View(q), a) # {}
                       THEN [tx[q] EXCEPT !.pc = "commit"]
                       ELSE [tx[q] EXCEPT !.pc = pc, !.at = Parent[a], !.draft = d]
      <4>1. tx' = [tx EXCEPT ![q] = z]
        BY <3>3 DEF CountChildren, Goto
      <4>. HIDE DEF d, pc
      <4>2. z.op = tx[q].op
        BY <1>0 DEF Tx
      <4>. HIDE DEF z
      <4>. QED BY <1>0, <4>1, <4>2
    <3>4. CASE AskQuestion(q) \/ CheckCycle(q)
      BY <1>0, <3>4 DEF AskQuestion, CheckCycle, Goto, Tx
    <3>5. CASE InsertTask(q)
      BY <1>0, <3>5 DEF InsertTask, Goto, Tx
    <3>. QED BY <1>3, <3>1, <3>2, <3>3, <3>4, <3>5
  <2>. QED BY <2>1, <2>2, NoClaim
<1>. QED BY <1>1, <1>2, <1>3, ClaimTaskTakes, PickTakes
         DEF Statement, Work, BreakDeadlock, Cancel

ClaimsInv == \A p \in Proc : ClaimInv(p)

LEMMA NextClaimsInv == IInv /\ IInv' /\ ClaimsInv /\ [Next]_vars => ClaimsInv'
<1>. SUFFICES ASSUME IInv, IInv', ClaimsInv, [Next]_vars, NEW p \in Proc PROVE ClaimInv(p)'
  BY DEF ClaimsInv
<1>0. ClaimInv(p) /\ BoardInv /\ Live \subseteq Task
  BY DEF ClaimsInv, IInv, BoardInv
<1>1. ASSUME tx'[p] = tx[p], Live \subseteq Live',
             \A x \in Task : Held(p, x) => Held(p, x)',
             \A x \in Live : Held(p, x) => row'[x] = row[x]
      PROVE  ClaimInv(p)'
  BY <1>0, <1>1 DEF ClaimInv
<1>2. ASSUME NEW q \in Proc, q # p, QuietStep(q) \/ Rollback(q) \/ Commit(q)
      PROVE  ClaimInv(p)'
  <2>1. tx'[p] = tx[p] /\ \A x \in Task : Held(p, x) => Held(p, x)'
    BY <1>0, <1>2 DEF BoardInv, QuietStep, LocksTaken, Rollback, Commit, Release, Held
  <2>2. CASE QuietStep(q) \/ Rollback(q)
    <3>1. row' = row /\ Live' = Live
      BY <2>2 DEF QuietStep, Rollback, Live
    <3>. QED BY <1>1, <2>1, <3>1
  <2>3. CASE Commit(q)
    <3>1. row' = View(q) /\ TxInv(q)
      BY <2>3 DEF Commit, IInv
    <3>2. /\ DOMAIN View(q) = Live \cup Drafted(q)
          /\ \A x \in Live \ Drafted(q) : View(q)[x] = row[x]
      BY <1>0, ViewOK
    <3>3. Live \subseteq Live'
      BY <3>1, <3>2 DEF Live
    <3>4. \A x \in Live : Held(p, x) => row'[x] = row[x]
      BY <1>2, <3>1, <3>2 DEF TxInv, DraftInv, Held
    <3>. QED BY <1>1, <2>1, <3>3, <3>4
  <2>. QED BY <1>2, <2>2, <2>3
<1>3. ASSUME NEW q \in Proc, SomeCall(q) \/ Statement(q) \/ BreakDeadlock(q) \/ Cancel(q)
      PROVE  ClaimInv(p)'
  <2>1. CASE p = q
    BY <1>3, <2>1, ClaimOwn
  <2>2. CASE p # q
    BY <1>2, <1>3, <2>2, StepKinds
  <2>. QED BY <2>1, <2>2
<1>4. CASE UNCHANGED vars \/ \E e \in deps : RemoveDependency(e)
  <2>1. tx' = tx /\ row' = row /\ upd' = upd /\ Live' = Live
    BY <1>4 DEF vars, RemoveDependency, Live
  <2>2. \A x \in Task : Held(p, x) => Held(p, x)'
    BY <2>1 DEF Held
  <2>. QED BY <1>1, <2>1, <2>2
<1>. QED BY <1>3, <1>4 DEF Next

\* A claim never takes over work in doing that has an owner, and it commits
\* over the state that it read.
THEOREM ClaimsKeepOwners == Spec => ClaimsNeverSteal
<1>0. Init => ClaimsInv
  <2>. SUFFICES ASSUME Init, NEW p \in Proc PROVE ClaimInv(p)
    BY DEF ClaimsInv
  <2>. QED BY IdleOK DEF Init, ClaimInv
<1>1. IInv /\ [Next]_vars =>
        [\A t \in Live :
           (row[t].state = "doing" /\ row'[t].state = "doing" /\ row[t].assignee # Nobody)
             => row'[t].assignee = row[t].assignee]_vars
  <2>. SUFFICES ASSUME IInv, Next, NEW t \in Live, row[t].state = "doing",
                       row'[t].state = "doing", row[t].assignee # Nobody
                PROVE  row'[t].assignee = row[t].assignee
    OBVIOUS
  <2>1. CASE \E q \in Proc : Commit(q)
    <3>1. PICK q \in Proc : Commit(q)
      BY <2>1
    <3>2. row' = View(q) /\ BoardInv /\ DraftInv(q)
      BY <3>1 DEF Commit, IInv, TxInv
    <3>. QED BY <3>2, ViewOK DEF DraftInv
  <2>. QED BY <2>1, NextKinds DEF QuietStep, Rollback, RemoveDependency
<1>2. IInv /\ ClaimsInv /\ [Next]_vars =>
        [/\ \A t \in Live :
              (row[t].state = "doing" /\ row'[t].state = "doing" /\ row[t].assignee # Nobody)
                => row'[t].assignee = row[t].assignee
         /\ \A p \in Proc :
              (tx[p].op \in {"claim", "next"} /\ tx[p].pc = "commit" /\ tx'[p] = Idle)
                => row[tx[p].t].state \in ClaimableFrom(tx[p].op)]_vars
  BY <1>1 DEF ClaimsInv, ClaimInv
<1>. QED BY <1>0, <1>2, NextClaimsInv, LocksKeepTheirPromise, PTL DEF Spec, ClaimsNeverSteal

\* No child appears under a parent that a transaction has rolled up and not
\* committed: the child's foreign key waits for the parent's row.
THEOREM RollUpsMissNoChild == Spec => NoChildSlipsUnderRollUp
<1>1. IInv /\ [Next]_vars =>
        [\A p \in Proc : \A q \in RolledUp(p) :
           {c \in Live' : Parent[c] = q} \subseteq Live]_vars
  <2>. SUFFICES ASSUME IInv, Next, NEW p \in Proc, NEW a \in RolledUp(p),
                       NEW c \in Live', Parent[c] = a
                PROVE  c \in Live
    OBVIOUS
  <2>0. IInv /\ BoardInv /\ TxInv(p)
    BY DEF IInv
  <2>1. a \in Live /\ Held(p, a) /\ a \in Task /\ a # NoTask
    <3>1. a \in Drafted(p) /\ tx[p].op # "create"
      BY DEF RolledUp, Drafted
    <3>2. a \in Live /\ Held(p, a)
      BY <2>0, <3>1 DEF TxInv, DraftInv
    <3>. QED BY <2>0, <3>2, IdsAssumption DEF BoardInv
  <2>2. CASE \E q \in Proc : Commit(q)
    <3>1. PICK q \in Proc : Commit(q)
      BY <2>2
    <3>2. row' = View(q) /\ TxInv(q) /\ tx[q].pc = "commit"
      BY <3>1 DEF Commit, IInv
    <3>3. c \in Live \cup Drafted(q)
      BY <2>0, <3>2, ViewOK DEF Live
    <3>4. SUFFICES ASSUME c \notin Live PROVE FALSE
      OBVIOUS
    <3>5. tx[q].op = "create" /\ c = tx[q].t
      BY <3>2, <3>3, <3>4 DEF TxInv, DraftInv, CreateInv
    <3>6. q \in shr[a]
      BY <2>1, <3>2, <3>5 DEF TxInv, CreateInv
    <3>7. q = p
      BY <2>0, <2>1, <3>6 DEF BoardInv, Held
    <3>. QED BY <3>5, <3>7 DEF RolledUp
  <2>. QED BY <2>2, NextKinds DEF QuietStep, Rollback, RemoveDependency, Live
<1>. QED BY <1>1, LocksKeepTheirPromise, PTL DEF Spec, NoChildSlipsUnderRollUp

-----------------------------------------------------------------------------
(* The roll-up.                                                            *)

\* The parent of a row that p closes: done in p's view, or held open by a child.
ParentDone(p, c) == Held(p, Parent[c]) /\ View(p)[Parent[c]].state = "done"
ParentOpen(p, c) == Held(p, Parent[c]) /\ OpenChildren(View(p), Parent[c]) # {}

\* While p climbs, the parent of every row it closes is done or is the one it
\* stands at; when the walk is over, every such parent is done or has an open
\* child, and p holds it.  ParentOpen survives the commits of others because
\* a client that closes the last open child holds the parent too.
ChainInv(p) ==
  \A c \in Drafted(p) :
    (tx[p].draft[c].state \in Closed /\ Parent[c] # NoTask) =>
      /\ tx[p].pc \in {"climb", "count"} => Parent[c] = tx[p].at \/ ParentDone(p, c)
      /\ tx[p].pc = "commit" => ParentDone(p, c) \/ ParentOpen(p, c)

\* Only a call that moves a task, or a visit, closes rows.
LEMMA ClosingRows ==
  ASSUME IInv, NEW p \in Proc, NEW c \in Drafted(p), tx[p].draft[c].state \in Closed
  PROVE  /\ tx[p].pc \in Writing /\ tx[p].op \in Moving \cup {"visit"}
         /\ c \in Live /\ c \in Task /\ Parent[c] \in Live \cup {NoTask}
         /\ Live \subseteq Task /\ BoardInv
<1>1. BoardInv /\ TxInv(p)
  BY DEF IInv
<1>2. tx[p].pc \in Writing /\ tx[p].op \in Moving \cup {"visit"}
  BY <1>1 DEF TxInv, DraftInv
<1>3. c \in Live
  BY <1>1, <1>2 DEF TxInv, DraftInv, Moving
<1>. QED BY <1>1, <1>2, <1>3 DEF BoardInv

\* A step of q leaves the walk of p alone.
LEMMA ChainFrame ==
  ASSUME IInv, IInv', NEW p \in Proc, ChainInv(p), tx'[p] = tx[p], Live \subseteq Live',
         \A x \in Task : Held(p, x) => Held(p, x)',
         \A x \in Live : Held(p, x) => row'[x] = row[x],
         \A x \in Live : (Parent[x] \in Task /\ Held(p, Parent[x]) /\ row[x].state \notin Closed)
                            => row'[x].state \notin Closed
  PROVE  ChainInv(p)'
<1>0. Drafted(p)' = Drafted(p) /\ BoardInv /\ BoardInv'
  BY DEF Drafted, IInv
<1>. SUFFICES ASSUME NEW c \in Drafted(p), tx[p].draft[c].state \in Closed, Parent[c] # NoTask
              PROVE  /\ ParentDone(p, c) => ParentDone(p, c)'
                     /\ ParentOpen(p, c) => ParentOpen(p, c)'
  BY <1>0 DEF ChainInv
<1>. DEFINE a == Parent[c]
<1>1. a \in Live /\ a \in Task /\ a \in Live'
  BY ClosingRows
<1>2. /\ DOMAIN View(p) = Live \cup Drafted(p)
      /\ \A x \in Drafted(p) : View(p)[x] = tx[p].draft[x]
      /\ \A x \in Live \ Drafted(p) : View(p)[x] = row[x]
  BY <1>0, ViewOK
<1>3. /\ DOMAIN View(p)' = Live' \cup Drafted(p)
      /\ \A x \in Drafted(p) : View(p)'[x] = tx[p].draft[x]
      /\ \A x \in Live' \ Drafted(p) : View(p)'[x] = row'[x]
  BY <1>0 DEF View, Drafted, Live
<1>4. ASSUME Held(p, a) PROVE Held(p, a)' /\ View(p)'[a] = View(p)[a]
  BY <1>1, <1>2, <1>3, <1>4
<1>5. ASSUME Held(p, a), NEW x \in OpenChildren(View(p), a)
      PROVE  x \in OpenChildren(View(p)', a)
  <2>1. x \in Live \cup Drafted(p) /\ Parent[x] = a /\ View(p)[x].state \notin Closed
    BY <1>2 DEF OpenChildren
  <2>2. View(p)'[x].state \notin Closed
    <3>1. CASE x \in Drafted(p)
      BY <1>2, <1>3, <2>1, <3>1
    <3>2. CASE x \in Live \ Drafted(p)
      BY <1>1, <1>2, <1>3, <1>5, <2>1, <3>2
    <3>. QED BY <2>1, <3>1, <3>2
  <2>. QED BY <1>3, <2>1, <2>2 DEF OpenChildren
<1>6. OpenChildren(View(p), a)' = OpenChildren(View(p)', a)
  BY DEF OpenChildren
<1>7. ParentDone(p, c) => ParentDone(p, c)'
  BY <1>4 DEF ParentDone
<1>8. ParentOpen(p, c) => ParentOpen(p, c)'
  BY <1>4, <1>5, <1>6 DEF ParentOpen
<1>. QED BY <1>7, <1>8

\* A commit of q leaves the rows that p holds alone, and closes no child under
\* a parent that p holds.
LEMMA CommitTouches ==
  ASSUME IInv, NEW q \in Proc, Commit(q), ChainInv(q), NEW p \in Proc, p # q
  PROVE  /\ Live \subseteq Live' /\ \A x \in Live : Held(p, x) => row'[x] = row[x]
         /\ \A x \in Live : (Parent[x] \in Task /\ Held(p, Parent[x]) /\ row[x].state \notin Closed)
                               => row'[x].state \notin Closed
<1>0. BoardInv /\ Live \subseteq Task
  BY DEF IInv, BoardInv
<1>1. /\ row' = View(q) /\ tx[q].pc = "commit" /\ TxInv(q)
      /\ DOMAIN View(q) = Live \cup Drafted(q)
      /\ \A x \in Drafted(q) : View(q)[x] = tx[q].draft[x]
      /\ \A x \in Live \ Drafted(q) : View(q)[x] = row[x]
  BY <1>0, ViewOK DEF Commit, IInv
<1>2. Live \subseteq Live'
  BY <1>1 DEF Live
<1>3. \A x \in Live : Held(p, x) => row'[x] = row[x]
  BY <1>1 DEF TxInv, DraftInv, Held
<1>4. ASSUME NEW x \in Live, Parent[x] \in Task, Held(p, Parent[x]), row[x].state \notin Closed
      PROVE  row'[x].state \notin Closed
  <2>1. SUFFICES ASSUME x \in Drafted(q), tx[q].draft[x].state \in Closed PROVE FALSE
    BY <1>1, <1>4
  <2>2. Held(q, Parent[x])
    BY <1>1, <1>4, <2>1, IdsAssumption DEF ChainInv, ParentDone, ParentOpen
  <2>. QED BY <1>4, <2>2 DEF Held
<1>. QED BY <1>2, <1>3, <1>4

\* A step of q and the walk of another client p.
LEMMA ChainOthers ==
  ASSUME IInv, IInv', NEW q \in Proc, QuietStep(q) \/ Rollback(q) \/ Commit(q),
         ChainInv(q), NEW p \in Proc, p # q, ChainInv(p)
  PROVE  ChainInv(p)'
<1>0. BoardInv /\ Live \subseteq Task /\ tx'[p] = tx[p]
  BY DEF IInv, BoardInv, QuietStep, Rollback, Commit
<1>1. \A x \in Task : Held(p, x) => Held(p, x)'
  BY <1>0 DEF QuietStep, LocksTaken, Rollback, Commit, Release, Held, BoardInv
<1>2. CASE QuietStep(q) \/ Rollback(q)
  <2>1. row' = row /\ Live' = Live
    BY <1>2 DEF QuietStep, Rollback, Live
  <2>. QED BY <1>0, <1>1, <2>1, ChainFrame
<1>3. CASE Commit(q)
  BY <1>0, <1>1, <1>3, CommitTouches, ChainFrame
<1>. QED BY <1>2, <1>3

\* A record of q that closes no row has no walk to account for.
LEMMA NothingClosed ==
  ASSUME IInv', NEW q \in Proc,
         \/ tx'[q].pc \notin Writing
         \/ tx'[q].op \notin Moving \cup {"visit"}
         \/ DOMAIN tx'[q].draft = {}
  PROVE  ChainInv(q)'
BY DEF IInv, TxInv, DraftInv, ChainInv, Drafted

\* setStateTx closes its task and turns to the parent.
LEMMA MoveTaskChain ==
  ASSUME IInv, IInv', NEW q \in Proc, MoveTask(q), ~ Rollback(q)
  PROVE  ChainInv(q)'
<1>. DEFINE t == tx[q].t
            s == tx[q].s
            r == MovedTo(row[t], s, tx[q].u)
            S == Preconditions(t)
            pc == IF s \in Closed THEN Upward(t) ELSE "commit"
            at == IF s \in Closed THEN Parent[t] ELSE NoTask
            d == Write(tx[q].draft, t, r)
            z == [tx[q] EXCEPT !.pc = pc, !.at = at, !.seen = S, !.draft = d]
<1>0. /\ BoardInv /\ tx[q] \in Tx /\ DOMAIN tx[q].draft = {} /\ tx[q].pc = "act"
  BY DEF IInv, BoardInv, TxInv, DraftInv, Drafted, MoveTask, Writing
<1>1. tx' = [tx EXCEPT ![q] = z]
  BY DEF MoveTask, Goto
<1>2. DOMAIN d = {t} /\ d[t].state = s
  BY <1>0 DEF Write, MovedTo
<1>3. s \in Closed /\ Parent[t] # NoTask => pc = "climb" /\ at = Parent[t]
  BY DEF Upward
<1>. HIDE DEF r, S, pc, at, d
<1>4. z.pc = pc /\ z.at = at /\ z.draft = d
  BY <1>0 DEF Tx
<1>. HIDE DEF z
<1>5. tx'[q] = z
  BY <1>0, <1>1 DEF BoardInv
<1>. QED BY <1>2, <1>3, <1>4, <1>5 DEF ChainInv, Drafted

\* The parent is locked: it is done, and the walk is over, or it is counted.
LEMMA LockParentChain ==
  ASSUME IInv, IInv', NEW q \in Proc, LockParent(q), ChainInv(q)
  PROVE  ChainInv(q)'
<1>. DEFINE a == tx[q].at
            pc == IF View(q)[a].state = "done" THEN "commit" ELSE "count"
<1>0. /\ BoardInv /\ tx[q].pc = "climb" /\ a \in Live /\ a \in Task
      /\ tx[q].op \in Moving \cup {"visit"}
  BY DEF IInv, BoardInv, TxInv, PlaceInv, LockParent
<1>1. Goto(q, [tx[q] EXCEPT !.pc = pc])
  BY DEF LockParent
<1>2. LocksTaken(q) /\ upd'[a] = {q}
  BY <1>0, LockStep DEF LockParent
<1>3. pc \in PC
  BY DEF PC
<1>4. pc = "commit" => View(q)[a].state = "done"
  OBVIOUS
<1>5. pc \in {"commit", "count"}
  OBVIOUS
<1>. HIDE DEF pc
<1>6. Advance(q) /\ tx'[q].pc = pc
  BY <1>1, <1>2, <1>3, GoOn
<1>7. tx'[q].at = a /\ tx'[q].draft = tx[q].draft /\ tx'[q].op = tx[q].op
  BY <1>6 DEF Advance
<1>8. /\ \A x \in Task : Held(q, x) => Held(q, x)'
      /\ Drafted(q)' = Drafted(q) /\ View(q)' = View(q)
  <2>1. HoldsGraph(q)' => HoldsGraph(q) \/ \A p \in Proc : ~ HoldsGraph(p)
    BY <1>0, <1>7 DEF HoldsGraph, Moving
  <2>. QED BY <1>6, <2>1, AdvanceKeeps
<1>9. ASSUME NEW c \in Drafted(q), tx[q].draft[c].state \in Closed, Parent[c] # NoTask
      PROVE  IF Parent[c] = a THEN pc = "commit" => ParentDone(q, c)' ELSE ParentDone(q, c)'
  <2>1. Parent[c] \in Task
    BY <1>9, ClosingRows
  <2>2. CASE Parent[c] = a
    <3>1. Held(q, Parent[c])'
      BY <1>2, <2>2 DEF Held
    <3>. QED BY <1>4, <1>8, <2>2, <3>1 DEF ParentDone
  <2>3. CASE Parent[c] # a
    <3>1. ParentDone(q, c)
      BY <1>0, <1>9, <2>3 DEF ChainInv
    <3>2. Held(q, Parent[c])'
      BY <1>8, <2>1, <3>1 DEF ParentDone, Held
    <3>. QED BY <1>8, <2>3, <3>1, <3>2 DEF ParentDone
  <2>. QED BY <2>2, <2>3
<1>. QED BY <1>5, <1>6, <1>7, <1>8, <1>9 DEF ChainInv

\* The children are counted: the parent stays open for one of them, or is
\* closed and the walk goes on from there.
LEMMA CountChildrenChain ==
  ASSUME IInv, IInv', NEW q \in Proc, CountChildren(q), ChainInv(q)
  PROVE  ChainInv(q)'
<1>. DEFINE a == tx[q].at
            r == [View(q)[a] EXCEPT !.state = "done"]
            d == Write(tx[q].draft, a, r)
<1>0. /\ BoardInv /\ tx[q].pc = "count" /\ a \in Live /\ a \in Task /\ Held(q, a)
      /\ tx[q].op \in Moving \cup {"visit"} /\ UNCHANGED <<upd, shr>> /\ tx[q] \in Tx
      /\ UNCHANGED row
  BY DEF IInv, BoardInv, TxInv, PlaceInv, CountChildren, Goto
<1>1. CASE OpenChildren(View(q), a) # {}
  <2>1. tx' = [tx EXCEPT ![q] = [tx[q] EXCEPT !.pc = "commit"]]
    BY <1>1 DEF CountChildren, Goto
  <2>2. tx'[q].pc = "commit" /\ tx'[q].draft = tx[q].draft
    BY <1>0, <2>1, PcStep DEF Tx, BoardInv
  <2>3. Drafted(q)' = Drafted(q) /\ View(q)' = View(q)
    BY <1>0, <2>2 DEF Drafted, View, Live
  <2>4. ASSUME NEW c \in Drafted(q), tx[q].draft[c].state \in Closed, Parent[c] # NoTask
        PROVE  ParentDone(q, c)' \/ ParentOpen(q, c)'
    <3>1. CASE Parent[c] = a
      <4>1. Held(q, Parent[c])'
        BY <1>0, <3>1 DEF Held
      <4>2. OpenChildren(View(q), Parent[c])' # {}
        BY <1>1, <2>3, <3>1 DEF OpenChildren
      <4>. QED BY <4>1, <4>2 DEF ParentOpen
    <3>2. CASE Parent[c] # a
      <4>1. ParentDone(q, c)
        BY <1>0, <2>4, <3>2 DEF ChainInv
      <4>. QED BY <1>0, <2>3, <4>1 DEF ParentDone, Held
    <3>. QED BY <3>1, <3>2
  <2>. QED BY <2>2, <2>3, <2>4 DEF ChainInv
<1>2. CASE OpenChildren(View(q), a) = {}
  <2>. DEFINE z == [tx[q] EXCEPT !.pc = Upward(a), !.at = Parent[a], !.draft = d]
  <2>1. tx' = [tx EXCEPT ![q] = z]
    BY <1>2 DEF CountChildren, Goto
  <2>2. View(q)[a] \in Row /\ DOMAIN View(q) = Live \cup Drafted(q)
    BY <1>0, ViewOK
  <2>3. r.state = "done"
    BY <2>2 DEF Row
  <2>4. DOMAIN d = Drafted(q) \cup {a} /\ d[a] = r /\ \A x \in Drafted(q) : x # a => d[x] = tx[q].draft[x]
    BY DEF Write, Drafted
  <2>. HIDE DEF d, r
  <2>5. z.pc = Upward(a) /\ z.at = Parent[a] /\ z.draft = d
    BY <1>0 DEF Tx
  <2>. HIDE DEF z
  <2>6. tx'[q] = z
    BY <1>0, <2>1 DEF BoardInv
  <2>7. Drafted(q)' = Drafted(q) \cup {a} /\ tx'[q].draft = d
    BY <2>4, <2>5, <2>6 DEF Drafted
  <2>8. /\ View(q)'[a].state = "done"
        /\ \A x \in DOMAIN View(q) : x # a => View(q)'[x] = View(q)[x]
    BY <1>0, <2>3, <2>4, <2>7 DEF View, Drafted, Live
  <2>9. ASSUME NEW c \in Drafted(q), tx[q].draft[c].state \in Closed, Parent[c] # NoTask
        PROVE  ParentDone(q, c)'
    <3>1. CASE Parent[c] = a
      <4>1. Held(q, Parent[c])'
        BY <1>0, <3>1 DEF Held
      <4>. QED BY <2>8, <3>1, <4>1 DEF ParentDone
    <3>2. CASE Parent[c] # a
      <4>1. ParentDone(q, c) /\ Parent[c] \in DOMAIN View(q)
        BY <1>0, <2>2, <2>9, <3>2, ClosingRows DEF ChainInv
      <4>. QED BY <1>0, <2>8, <3>2, <4>1 DEF ParentDone, Held
    <3>. QED BY <3>1, <3>2
  <2>10. Parent[a] # NoTask => tx'[q].pc = "climb" /\ tx'[q].at = Parent[a]
    BY <2>5, <2>6 DEF Upward
  <2>11. ASSUME NEW c \in Drafted(q)', tx'[q].draft[c].state \in Closed, Parent[c] # NoTask
         PROVE  ParentDone(q, c)' \/ (c = a /\ tx'[q].pc = "climb" /\ tx'[q].at = Parent[c])
    BY <2>4, <2>7, <2>9, <2>10, <2>11
  <2>. QED BY <2>11 DEF ChainInv
<1>. QED BY <1>1, <1>2

\* Every step of q keeps its own walk.
LEMMA ChainOwn ==
  ASSUME IInv, IInv', NEW q \in Proc, ChainInv(q),
         SomeCall(q) \/ Statement(q) \/ BreakDeadlock(q) \/ Cancel(q)
  PROVE  ChainInv(q)'
<1>0. tx[q] \in Tx /\ tx \in [Proc -> Tx] /\ PlaceInv(q)
  BY DEF IInv, BoardInv, TxInv
<1>1. CASE SomeCall(q)
  <2>1. PICK op, pc, t, s, u, at : Call(q, op, pc, t, s, u, at)
    BY <1>1 DEF SomeCall, CallSetState, CallClose, CallClaim, CallClaimNext, CallAsk,
                CallAddDep, CallCreate, Visit
  <2>2. tx'[q].draft = Idle.draft
    BY <1>0, <2>1 DEF Call, Goto, Idle
  <2>. QED BY <2>2, IdleOK, NothingClosed
<1>2. CASE Rollback(q) \/ Commit(q)
  <2>1. tx'[q] = Idle
    BY <1>0, <1>2 DEF Rollback, Commit
  <2>. QED BY <2>1, IdleOK, NothingClosed
<1>3. CASE InsertComment(q) \/ LockTask(q) \/ SelectCandidates(q) \/ LockGraph(q)
           \/ LockLowRow(q) \/ LockHighRow(q)
  <2>1. tx'[q].pc \in {"lock", "act", "pick", "low", "high", "check"}
    BY <1>0, <1>3 DEF InsertComment, LockTask, SelectCandidates, LockGraph, LockLowRow,
                      LockHighRow, Goto, Tx
  <2>. QED BY <2>1, NothingClosed DEF Writing
<1>4. CASE ClaimTask(q) \/ PickCandidate(q) \/ AskQuestion(q) \/ InsertTask(q) \/ CheckCycle(q)
  <2>. SUFFICES ASSUME ~ Rollback(q) PROVE ChainInv(q)'
    BY <1>2
  <2>1. tx[q].op \in {"claim", "next", "ask", "create", "dep"}
    BY <1>0, <1>4 DEF ClaimTask, PickCandidate, AskQuestion, InsertTask, CheckCycle, PlaceInv
  <2>2. tx'[q].op = tx[q].op
    <3>1. CASE ClaimTask(q)
      BY <1>0, <3>1 DEF ClaimTask, Goto, Tx
    <3>2. CASE PickCandidate(q)
      <4>1. PICK t : Goto(q, [tx[q] EXCEPT !.pc = "commit", !.t = t, !.cand = {},
                              !.draft = Write(@, t, [state |-> "doing", assignee |-> tx[q].u])])
        BY <3>2 DEF PickCandidate
      <4>. DEFINE d == Write(tx[q].draft, t, [state |-> "doing", assignee |-> tx[q].u])
                  z == [tx[q] EXCEPT !.pc = "commit", !.t = t, !.cand = {}, !.draft = d]
      <4>2. tx' = [tx EXCEPT ![q] = z]
        BY <4>1 DEF Goto
      <4>. HIDE DEF d
      <4>. QED BY <1>0, <4>2 DEF Tx
    <3>3. CASE AskQuestion(q) \/ CheckCycle(q)
      BY <1>0, <3>3 DEF AskQuestion, CheckCycle, Goto, Tx
    <3>4. CASE InsertTask(q)
      BY <1>0, <3>4 DEF InsertTask, Goto, Tx
    <3>. QED BY <1>4, <3>1, <3>2, <3>3, <3>4
  <2>. QED BY <2>1, <2>2, NothingClosed DEF Moving
<1>. QED BY <1>1, <1>2, <1>3, <1>4, MoveTaskChain, LockParentChain, CountChildrenChain
         DEF Statement, Work, BreakDeadlock, Cancel

WalkInv == \A p \in Proc : ChainInv(p)

LEMMA NextWalkInv == IInv /\ IInv' /\ WalkInv /\ [Next]_vars => WalkInv'
<1>. SUFFICES ASSUME IInv, IInv', WalkInv, [Next]_vars, NEW p \in Proc PROVE ChainInv(p)'
  BY DEF WalkInv
<1>0. ChainInv(p) /\ BoardInv /\ Live \subseteq Task
  BY DEF WalkInv, IInv, BoardInv
<1>1. ASSUME NEW q \in Proc, SomeCall(q) \/ Statement(q) \/ BreakDeadlock(q) \/ Cancel(q)
      PROVE  ChainInv(p)'
  <2>1. CASE p = q
    BY <1>0, <1>1, <2>1, ChainOwn
  <2>2. CASE p # q
    BY <1>1, <2>2, StepKinds, ChainOthers DEF WalkInv
  <2>. QED BY <2>1, <2>2
<1>2. CASE UNCHANGED vars \/ \E e \in deps : RemoveDependency(e)
  <2>1. tx' = tx /\ row' = row /\ upd' = upd /\ Live' = Live
    BY <1>2 DEF vars, RemoveDependency, Live
  <2>2. \A x \in Task : Held(p, x) => Held(p, x)'
    BY <2>1 DEF Held
  <2>. QED BY <1>0, <2>1, <2>2, ChainFrame
<1>. QED BY <1>1, <1>2 DEF Next

\* While a transaction climbs it holds every parent it has passed, and each of
\* them is done in what it will commit or has an open child there.
THEOREM WalksHoldTheirParents == Spec => []WalkInv
<1>1. Init => WalkInv
  <2>. SUFFICES ASSUME Init, NEW p \in Proc PROVE ChainInv(p)
    BY DEF WalkInv
  <2>. QED BY IdleOK DEF Init, ChainInv, Drafted
<1>. QED BY <1>1, NextWalkInv, LocksKeepTheirPromise, PTL DEF Spec

\* Two siblings that close at the same time never both miss their parent: the
\* one that commits last holds the parent, and counted after the other.
THEOREM SiblingsClose == Spec => SiblingsNeverMissParent
<1>1. IInv /\ IInv' /\ WalkInv /\ [Next]_vars =>
        [\A p \in Task :
           (p \in Live /\ ~ Finished(p) /\ Finished(p)') => row[p].state = "done"]_vars
  <2>. SUFFICES ASSUME IInv, IInv', WalkInv, Next, NEW a \in Task, a \in Live,
                       ~ Finished(a), Finished(a)', row[a].state # "done"
                PROVE  FALSE
    OBVIOUS
  <2>0. IInv /\ BoardInv /\ Live \subseteq Task
    BY DEF IInv, BoardInv
  <2>1. /\ row'[a].state # "done" /\ OpenChildren(row, a)' = {}
        /\ \E c \in Live' : Parent[c] = a
    BY DEF Finished
  <2>2. \/ \E c \in Live : Parent[c] = a /\ row[c].state \notin Closed
        \/ \A c \in Live : Parent[c] # a
    BY DEF Finished, OpenChildren, Live
  <2>3. CASE row' = row
    BY <2>3 DEF Finished, OpenChildren, Live
  <2>4. ASSUME NEW q \in Proc, Commit(q) PROVE FALSE
    <3>1. /\ row' = View(q) /\ tx[q].pc = "commit" /\ TxInv(q) /\ ChainInv(q)
          /\ DOMAIN View(q) = Live \cup Drafted(q)
          /\ \A x \in Drafted(q) : View(q)[x] = tx[q].draft[x]
          /\ \A x \in Live \ Drafted(q) : View(q)[x] = row[x]
      BY <2>0, <2>4, ViewOK DEF Commit, IInv, WalkInv
    <3>2. \A c \in Live' : Parent[c] = a => row'[c].state \in Closed
      BY <2>1 DEF OpenChildren, Live
    <3>3. \A c \in Live' : Parent[c] = a => c \in Live
      <4>1. \A c \in Live' \ Live : c \in Drafted(q) /\ tx[q].draft[c].state = "todo"
        BY <3>1 DEF TxInv, DraftInv, CreateInv, Live
      <4>. QED BY <3>1, <3>2, <4>1 DEF Closed
    <3>4. PICK c \in Live : Parent[c] = a /\ row[c].state \notin Closed
      BY <2>1, <2>2, <3>3
    <3>5. c \in Drafted(q) /\ tx[q].draft[c].state \in Closed
      BY <3>1, <3>2, <3>4 DEF Live
    <3>6. ParentDone(q, c) \/ ParentOpen(q, c)
      BY <2>0, <3>1, <3>4, <3>5, IdsAssumption DEF ChainInv
    <3>7. OpenChildren(View(q), a) = {}
      BY <2>1, <3>1 DEF OpenChildren
    <3>. QED BY <2>1, <3>1, <3>4, <3>6, <3>7 DEF ParentDone, ParentOpen
  <2>. QED BY <2>3, <2>4, NextKinds DEF QuietStep, Rollback, RemoveDependency
<1>. QED BY <1>1, LocksKeepTheirPromise, WalksHoldTheirParents, PTL DEF Spec, SiblingsNeverMissParent

-----------------------------------------------------------------------------
(* Commits as operations of TaskBoard.                                     *)
(*                                                                         *)
(* TaskTxBoard keeps what the statements wrote and what was opened during  *)
(* each call.  The invariant TrackedInv says what each transaction is      *)
(* about to commit (PlanInv), that the rows it has rolled up are the chain *)
(* from its start to where it stands (ClimbInv), and that whatever speaks  *)
(* against it was opened since it began (LateInv).                         *)

LEMMA TrackedIsTx == TrackedSpec => Spec
<1>1. TrackedInit => Init
  BY DEF TrackedInit
<1>2. [TrackedNext]_trackedVars => [Next]_vars
  BY DEF TrackedNext, trackedVars, Next, Statement, Commits
<1>. QED BY <1>1, <1>2, PTL DEF TrackedSpec, Spec

-----------------------------------------------------------------------------
(* Chains of parents. *)

\* W is what a walk that began at start has closed when it stands at at: one
\* row after the other, each the parent of the one before.
Climbs(W, start, at) ==
  /\ W \subseteq Task
  /\ W = {} => at = start
  /\ W # {} => start \in W /\ \E x \in W : Parent[x] = at
  /\ \A x \in W : Parent[x] \in W \cup {at} /\ Parent[x] # start
  /\ \A x, y \in W : Parent[x] = Parent[y] => x = y
  /\ \A Z \in SUBSET Task :
       (start \in Z /\ \A x \in Z : (x \in W /\ Parent[x] \in W) => Parent[x] \in Z)
         => W \subseteq Z

\* The row a walk stands at is not one that it has passed, and neither is the
\* next one: parents form a forest.
LEMMA StandsAbove ==
  ASSUME NEW W, NEW start, NEW at \in Task, Climbs(W, start, at)
  PROVE  /\ Parent[at] \notin W \cup {at} /\ at \notin W /\ start \in W \cup {at}
         /\ Parent[at] # start
<1>. DEFINE S == W \cup {at}
<1>1. S \in SUBSET Task /\ S # {}
  BY DEF Climbs
<1>2. \A x \in W : Parent[x] \in S
  BY DEF Climbs
<1>3. Parent[at] \notin S
  <2>. HIDE DEF S
  <2>1. PICK x \in S : Parent[x] \notin S
    BY <1>1, ForestAssumption
  <2>. QED BY <1>2, <2>1 DEF S
<1>4. start \in S
  BY DEF Climbs
<1>5. at \notin W
  BY <1>2, <1>3
<1>. QED BY <1>3, <1>4, <1>5

\* The walk closes the row it stands at and goes on.
LEMMA ClimbOn ==
  ASSUME NEW W, NEW start, NEW at \in Task, Climbs(W, start, at)
  PROVE  Climbs(W \cup {at}, start, Parent[at])
<1>. DEFINE V == W \cup {at}
<1>0. /\ Parent[at] \notin V /\ at \notin W /\ start \in V /\ Parent[at] # start
  BY StandsAbove
<1>1. /\ W \subseteq Task /\ \A x \in W : Parent[x] \in V /\ Parent[x] # start
      /\ \A x, y \in W : Parent[x] = Parent[y] => x = y
  BY DEF Climbs
<1>2. V \subseteq Task /\ V # {} /\ \E x \in V : Parent[x] = Parent[at]
  BY <1>1
<1>3. \A x \in V : Parent[x] \in V \cup {Parent[at]} /\ Parent[x] # start
  BY <1>0, <1>1
<1>4. \A x, y \in V : Parent[x] = Parent[y] => x = y
  BY <1>0, <1>1
<1>5. ASSUME NEW Z \in SUBSET Task, start \in Z,
             \A x \in Z : (x \in V /\ Parent[x] \in V) => Parent[x] \in Z
      PROVE  V \subseteq Z
  <2>1. W \subseteq Z
    BY <1>5 DEF Climbs
  <2>2. CASE W = {}
    BY <1>5, <2>2 DEF Climbs
  <2>3. CASE W # {}
    <3>1. PICK x \in W : Parent[x] = at
      BY <2>3 DEF Climbs
    <3>. QED BY <1>5, <2>1, <3>1
  <2>. QED BY <2>1, <2>2, <2>3
<1>. HIDE DEF V
<1>6. Climbs(V, start, Parent[at])
  BY <1>0, <1>2, <1>3, <1>4, <1>5 DEF Climbs
<1>. QED BY <1>6 DEF V

\* TaskBoard's roll-up of a table is the set W that a walk has closed, if no
\* row of W is done or has an open child outside W, and the walk stopped where
\* it had to.
LEMMA RollUpIsWalk ==
  ASSUME NEW table, NEW W, NEW start, NEW at, Climbs(W, start, at),
         W \subseteq DOMAIN table, DOMAIN table \subseteq Task,
         \A x \in DOMAIN table : table[x].parent = Parent[x],
         \A x \in W : table[x].state # "done",
         \A x \in DOMAIN table : Parent[x] \in W => table[x].state \in Board!Closed \/ x \in W,
         start \notin W => ~ Board!RollsUp(table, start, W),
         \A x \in W : Parent[x] \notin W => ~ Board!RollsUp(table, Parent[x], W)
  PROVE  Board!RollUp(table, start) = W
<1>. DEFINE Complete(S) == /\ Board!RollsUp(table, start, S) => start \in S
                           /\ \A c \in S : Board!RollsUp(table, table[c].parent, S)
                                             => table[c].parent \in S
<1>1. Board!RollUp(table, start) =
        {a \in DOMAIN table : \A S \in SUBSET DOMAIN table : Complete(S) => a \in S}
  BY DEF Board!RollUp
<1>2. W \in SUBSET DOMAIN table /\ Complete(W)
  OBVIOUS
<1>3. ASSUME NEW Z \in SUBSET DOMAIN table, Complete(Z), W # {} PROVE W \subseteq Z
  <2>0. Z \in SUBSET Task /\ start \in W /\ start \in DOMAIN table
    BY <1>3 DEF Climbs
  <2>1. start \in Z
    <3>1. \A c \in DOMAIN table : table[c].parent = start => table[c].state \in Board!Closed
      BY <2>0 DEF Climbs
    <3>2. Board!RollsUp(table, start, Z)
      BY <2>0, <3>1 DEF Board!RollsUp
    <3>. QED BY <1>3, <3>2
  <2>2. ASSUME NEW x \in Z, x \in W, Parent[x] \in W PROVE Parent[x] \in Z
    <3>1. \A c \in DOMAIN table :
            table[c].parent = Parent[x] => table[c].state \in Board!Closed \/ c \in Z
      BY <2>2 DEF Climbs
    <3>2. Board!RollsUp(table, Parent[x], Z)
      BY <2>2, <3>1 DEF Board!RollsUp
    <3>3. table[x].parent = Parent[x]
      OBVIOUS
    <3>. QED BY <1>3, <3>2, <3>3
  <2>. QED BY <2>0, <2>1, <2>2 DEF Climbs
<1>. HIDE DEF Complete
<1>. QED BY <1>1, <1>2, <1>3

-----------------------------------------------------------------------------
(* The invariant. *)

\* The recorded board shows the committed rows: what the statements wrote into
\* state and assignee is what TaskBoard's operations make of the same columns.
BoardAgrees ==
  /\ board = [x \in Live |-> board[x]]
  /\ \A x \in Live :
       /\ board[x] \in Board!Row
       /\ board[x].parent = Parent[x]
       /\ board[x].type = "feature" <=> x \in Feature
       /\ board[x].state = row[x].state
       /\ board[x].assignee = row[x].assignee

\* The two moves that set_state refuses.
MayTurn(from, to) == ~ (from = "done" /\ to = "wont_do") /\ ~ (from = "wont_do" /\ to = "done")

\* The row of a claim.
TakenBy(p) ==
  /\ Drafted(p) = {tx[p].t}
  /\ tx[p].draft[tx[p].t] = [state |-> "doing", assignee |-> tx[p].u]

\* What p is about to commit, row by row.
PlanInv(p) ==
  /\ (tx[p].op \in Moving /\ tx[p].pc \in Writing) =>
       /\ tx[p].t \in Drafted(p)
       /\ tx[p].draft[tx[p].t] = MovedTo(row[tx[p].t], tx[p].s, tx[p].u)
       /\ MayTurn(row[tx[p].t].state, tx[p].s)
       /\ tx[p].s \notin Closed => tx[p].pc = "commit" /\ Drafted(p) = {tx[p].t}
  /\ tx[p].pc \in Writing => tx[p].op # "none"
  /\ \A x \in RolledUp(p) :
       tx[p].draft[x] = [row[x] EXCEPT !.state = "done"] /\ row[x].state # "done"
  /\ tx[p].pc = "count" => row[tx[p].at].state # "done"
  /\ (tx[p].op = "claim" /\ tx[p].pc = "commit") =>
       /\ TakenBy(p)
       /\ row[tx[p].t].state \notin {"done", "doing"}
       /\ row[tx[p].t].assignee \in {Nobody, tx[p].u}
  /\ (tx[p].op = "next" /\ tx[p].pc = "commit") =>
       /\ TakenBy(p)
       /\ tx[p].t \in Live /\ Held(p, tx[p].t)
       /\ row[tx[p].t].state = "todo"
  /\ (tx[p].op = "create" /\ tx[p].pc = "commit") =>
       /\ Drafted(p) = {tx[p].t}
       /\ tx[p].draft[tx[p].t] = [state |-> "todo", assignee |-> Nobody]
  /\ tx[p].op \in {"dep", "ask"} => Drafted(p) = {}
  /\ tx[p].op = "visit" => tx[p].t \in Live

Start(p) == IF tx[p].op = "visit" THEN tx[p].t ELSE Parent[tx[p].t]

\* The walk of p, and why a visit that has closed nothing ended.
ClimbInv(p) ==
  /\ (tx[p].pc \in Writing /\ (tx[p].op = "visit" \/ (tx[p].op \in Moving /\ tx[p].s \in Closed)))
       => Climbs(RolledUp(p), Start(p), tx[p].at)
  /\ (tx[p].op = "visit" /\ tx[p].pc = "commit" /\ Drafted(p) = {})
       => /\ Held(p, tx[p].t)
          /\ row[tx[p].t].state = "done" \/ OpenChildren(row, tx[p].t) # {}

\* What task x waits for, and its open children, have been opened since the
\* call of p began.
WaitsLate(p, x) ==
  \A d \in Live : (<<x, d>> \in deps /\ row[d].state \notin Closed) => d \in late[p]
ChildrenLate(p, x) ==
  \A c \in Live : (Parent[c] = x /\ row[c].state \notin Closed) => c \in late[p] \cup Drafted(p)

LateInv(p) ==
  /\ (AsksPreconditions(p) /\ tx[p].pc \in Writing) => WaitsLate(p, tx[p].t)
  /\ tx[p].pc \in Writing => \A x \in NeedsClosedChildren(p) : ChildrenLate(p, x)
  /\ \A x \in tx[p].cand : WaitsLate(p, x) /\ (x \in Feature => ChildrenLate(p, x))

Tracked(p) == PlanInv(p) /\ ClimbInv(p) /\ LateInv(p)

TrackedInv == BoardAgrees /\ \A p \in Proc : Tracked(p)

-----------------------------------------------------------------------------
(* Steps. *)

LateStep ==
  late' = [p \in Proc |-> IF tx'[p] = Idle THEN {} ELSE {x \in late[p] \cup Opened : Open(x)'}]

\* A task that is found open after a step was open before it, and had to be
\* taken into account, or it is late for every call under way.
LEMMA LateStays ==
  ASSUME IInv, IInv', LateStep, NEW p \in Proc, tx'[p] # Idle, Drafted(p) \subseteq Drafted(p)',
         NEW x
  PROVE  /\ WaitsLate(p, x) =>
              \A d \in Live' : (<<x, d>> \in deps' /\ row'[d].state \notin Closed) => d \in late'[p]
         /\ ChildrenLate(p, x) =>
              \A c \in Live' : (Parent[c] = x /\ row'[c].state \notin Closed)
                                 => c \in late'[p] \cup Drafted(p)'
<1>0. Live \subseteq Task /\ Live' \subseteq Task
  BY DEF IInv, BoardInv
<1>1. late'[p] = {y \in late[p] \cup Opened : Open(y)'}
  BY DEF LateStep
<1>2. \A y \in Live' : row'[y].state \notin Closed => Open(y)'
  BY DEF Open
<1>3. ASSUME WaitsLate(p, x), NEW d \in Live', <<x, d>> \in deps', row'[d].state \notin Closed
      PROVE  d \in late'[p]
  <2>1. CASE <<x, d>> \in deps /\ Open(d)
    BY <1>1, <1>2, <1>3, <2>1 DEF WaitsLate, Open
  <2>2. CASE <<x, d>> \notin deps
    <3>1. <<x, d>>[2] = d
      OBVIOUS
    <3>2. d \in Opened
      BY <1>3, <2>2, <3>1 DEF Opened
    <3>. QED BY <1>1, <1>2, <1>3, <3>2
  <2>3. CASE ~ Open(d)
    <3>1. d \in Opened
      BY <1>0, <1>2, <1>3, <2>3 DEF Opened
    <3>. QED BY <1>1, <1>2, <1>3, <3>1
  <2>. QED BY <2>1, <2>2, <2>3
<1>4. ASSUME ChildrenLate(p, x), NEW c \in Live', Parent[c] = x, row'[c].state \notin Closed
      PROVE  c \in late'[p] \cup Drafted(p)'
  <2>1. CASE Open(c)
    BY <1>1, <1>2, <1>4, <2>1 DEF ChildrenLate, Open
  <2>2. CASE ~ Open(c)
    <3>1. c \in Opened
      BY <1>0, <1>2, <1>4, <2>2 DEF Opened
    <3>. QED BY <1>1, <1>2, <1>4, <3>1
  <2>. QED BY <2>1, <2>2
<1>. QED BY <1>3, <1>4

\* Only a call that writes rows has anything to account for.
LEMMA NothingPlanned ==
  ASSUME IInv, IInv', LateStep, NEW q \in Proc, LateInv(q),
         tx'[q].pc \notin Writing \/ (tx'[q].op \in {"dep", "ask"} /\ Drafted(q)' = {}),
         \A x \in tx'[q].cand : /\ tx'[q] # Idle /\ Drafted(q) = {}
                               /\ WaitsLate(q, x) /\ (x \in Feature => ChildrenLate(q, x))
  PROVE  Tracked(q)'
<1>1. Drafted(q)' = {} /\ tx'[q].op # "visit" /\ tx'[q].pc # "count"
  <2>1. Drafted(q)' = {} /\ PlaceInv(q)' /\ tx'[q] \in Tx
    BY DEF IInv, BoardInv, TxInv, DraftInv
  <2>2. tx'[q].pc \in PC
    BY <2>1 DEF Tx
  <2>3. tx'[q].op # "visit"
    BY <2>1, <2>2, IdleOK DEF PlaceInv, TakesTask, Writing, PC
  <2>4. tx'[q].pc # "count"
    BY <2>1 DEF PlaceInv, Writing, Moving
  <2>. QED BY <2>1, <2>3, <2>4
<1>2. PlanInv(q)'
  <2>1. RolledUp(q)' = {}
    BY <1>1 DEF RolledUp, Drafted
  <2>. QED BY <1>1, <2>1 DEF PlanInv, Writing, Moving
<1>3. ClimbInv(q)'
  BY <1>1 DEF ClimbInv, Writing, Moving
<1>4. LateInv(q)'
  <2>0. /\ (AsksPreconditions(q)' => tx'[q].pc \notin Writing)
        /\ (tx'[q].pc \in Writing => NeedsClosedChildren(q)' = {})
    BY <1>1 DEF AsksPreconditions, NeedsClosedChildren, RolledUp, Drafted
  <2>1. ASSUME NEW x \in tx'[q].cand
        PROVE  WaitsLate(q, x)' /\ (x \in Feature => ChildrenLate(q, x)')
    BY <1>1, <2>1, LateStays DEF WaitsLate, ChildrenLate
  <2>. QED BY <2>0, <2>1 DEF LateInv
<1>. QED BY <1>2, <1>3, <1>4 DEF Tracked

\* A rollback, and the statements that write no row.
LEMMA QuietTracked ==
  ASSUME IInv, IInv', LateStep, NEW q \in Proc, Tracked(q),
         \/ Rollback(q) \/ Commit(q) \/ InsertComment(q) \/ LockTask(q) \/ AskQuestion(q)
         \/ LockGraph(q) \/ LockLowRow(q) \/ LockHighRow(q) \/ CheckCycle(q)
  PROVE  Tracked(q)'
<1>0. BoardInv /\ PlaceInv(q) /\ DraftInv(q) /\ LateInv(q)
  BY DEF IInv, TxInv, Tracked
<1>1. CASE Rollback(q) \/ Commit(q)
  <2>1. tx'[q] = Idle
    BY <1>0, <1>1 DEF Rollback, Commit, BoardInv
  <2>. QED BY <1>0, <2>1, IdleOK, NothingPlanned DEF Writing
<1>2. CASE ~ Rollback(q) /\ ~ Commit(q)
  <2>1. PICK pc \in {"lock", "act", "low", "high", "check", "commit"} :
          /\ Goto(q, [tx[q] EXCEPT !.pc = pc])
          /\ pc = "commit" => tx[q].op \in {"dep", "ask"}
    BY <1>0, <1>2 DEF InsertComment, LockTask, AskQuestion, LockGraph, LockLowRow, LockHighRow,
                      CheckCycle, PlaceInv
  <2>2. tx[q].pc \notin Writing
    BY <1>2 DEF InsertComment, LockTask, AskQuestion, LockGraph, LockLowRow, LockHighRow,
                CheckCycle, Writing
  <2>3. Drafted(q) = {}
    BY <1>0, <2>2 DEF DraftInv
  <2>4. /\ tx'[q].op = tx[q].op /\ tx'[q].draft = tx[q].draft
        /\ tx'[q].cand = tx[q].cand /\ tx'[q].pc = pc
    BY <1>0, <2>1, PcStep DEF PC
  <2>5. tx'[q] # Idle /\ Drafted(q)' = {}
    BY <2>3, <2>4, IdleOK DEF Drafted
  <2>6. tx'[q].pc \notin Writing \/ (tx'[q].op \in {"dep", "ask"} /\ Drafted(q)' = {})
    BY <2>1, <2>4, <2>5 DEF Writing
  <2>. QED BY <1>0, <2>3, <2>4, <2>5, <2>6, NothingPlanned DEF LateInv
<1>. QED BY <1>1, <1>2

\* A call begins.
LEMMA CallTracked ==
  ASSUME IInv, IInv', LateStep, NEW q \in Proc, Tracked(q), SomeCall(q)
  PROVE  Tracked(q)'
<1>0. BoardInv /\ Live \subseteq Task /\ LateInv(q)
  BY DEF IInv, BoardInv, Tracked
<1>1. CASE \E f \in Task : Visit(q, f)
  <2>1. PICK f \in Task : Visit(q, f)
    BY <1>1
  <2>2. Started(q, "visit", "climb", f, f) /\ f \in Live
    BY <1>0, <2>1, CallFacts, IdsAssumption DEF Visit, OP, PC, State
  <2>3. RolledUp(q)' = {} /\ Drafted(q)' = {} /\ Live' = Live
    BY <2>2 DEF Started, RolledUp, Drafted, Live
  <2>4. PlanInv(q)'
    BY <2>2, <2>3 DEF PlanInv, Started, Moving
  <2>5. ClimbInv(q)'
    <3>1. Climbs({}, f, f)
      BY DEF Climbs
    <3>2. Start(q)' = f /\ tx'[q].at = f /\ tx'[q].pc = "climb"
      BY <2>2 DEF Start, Started
    <3>. QED BY <2>3, <3>1, <3>2 DEF ClimbInv
  <2>6. LateInv(q)'
    BY <2>2, <2>3 DEF LateInv, Started, AsksPreconditions, NeedsClosedChildren
  <2>. QED BY <2>4, <2>5, <2>6 DEF Tracked
<1>2. CASE ~ \E f \in Task : Visit(q, f)
  <2>1. PICK op, pc, t, s, u, at : /\ Call(q, op, pc, t, s, u, at)
                                   /\ pc \in {"comment", "lock", "select", "insert", "graph"}
    BY <1>2 DEF SomeCall, CallSetState, CallClose, CallClaim, CallClaimNext, CallAsk,
                CallAddDep, CallCreate
  <2>. DEFINE z == [Idle EXCEPT !.op = op, !.pc = pc, !.t = t, !.s = s, !.u = u, !.at = at]
  <2>2. z.pc = pc /\ z.cand = {}
    BY DEF Idle
  <2>3. tx' = [tx EXCEPT ![q] = z]
    BY <2>1 DEF Call, Goto
  <2>. HIDE DEF z
  <2>4. tx'[q] = z
    BY <1>0, <2>3 DEF BoardInv
  <2>. QED BY <1>0, <2>1, <2>2, <2>4, NothingPlanned DEF Writing
<1>. QED BY <1>1, <1>2

\* claim_next takes its snapshot: what it lists waits for nothing.
LEMMA SelectTracked ==
  ASSUME IInv, IInv', LateStep, NEW q \in Proc, Tracked(q), SelectCandidates(q)
  PROVE  Tracked(q)'
<1>. DEFINE C == {t \in Live : /\ row[t].state = "todo"
                               /\ t \in Feature => OpenChildren(row, t) = {}
                               /\ Unresolved(t) = {}}
            z == [tx[q] EXCEPT !.pc = "pick", !.cand = C]
<1>0. BoardInv /\ DraftInv(q) /\ LateInv(q) /\ tx[q] \in Tx /\ tx[q].pc = "select"
  BY DEF IInv, BoardInv, TxInv, Tracked, SelectCandidates
<1>1. tx' = [tx EXCEPT ![q] = z]
  BY DEF SelectCandidates, Goto
<1>2. \A x \in C : WaitsLate(q, x) /\ (x \in Feature => ChildrenLate(q, x))
  BY DEF WaitsLate, ChildrenLate, Unresolved, Preconditions, OpenChildren, Live
<1>. HIDE DEF C
<1>3. z.pc = "pick" /\ z.cand = C
  BY <1>0 DEF Tx
<1>. HIDE DEF z
<1>4. tx'[q] = z
  BY <1>0, <1>1 DEF BoardInv
<1>5. Drafted(q) = {} /\ tx'[q] # Idle /\ tx'[q].pc \notin Writing
  BY <1>0, <1>3, <1>4, IdleOK DEF DraftInv, Writing
<1>. QED BY <1>0, <1>2, <1>3, <1>4, <1>5, NothingPlanned

\* What waits for late work only still does after a step of q.
LEMMA LateGoesOn ==
  ASSUME IInv, IInv', LateStep, NEW q \in Proc, tx'[q] # Idle, Drafted(q) \subseteq Drafted(q)',
         NEW S, \A x \in S : WaitsLate(q, x) /\ (x \in Feature => ChildrenLate(q, x)),
         NEW V, \A x \in V : ChildrenLate(q, x)
  PROVE  /\ \A x \in S : WaitsLate(q, x)' /\ (x \in Feature => ChildrenLate(q, x)')
         /\ \A x \in V : ChildrenLate(q, x)'
<1>1. ASSUME NEW x \in S PROVE WaitsLate(q, x)' /\ (x \in Feature => ChildrenLate(q, x)')
  BY <1>1, LateStays DEF WaitsLate, ChildrenLate
<1>2. ASSUME NEW x \in V PROVE ChildrenLate(q, x)'
  BY <1>2, LateStays DEF ChildrenLate
<1>. QED BY <1>1, <1>2

\* The call moves its task: nothing is rolled up yet.
LEMMA MoveTracked ==
  ASSUME IInv, IInv', LateStep, NEW q \in Proc, Tracked(q), MoveTask(q), ~ Rollback(q)
  PROVE  Tracked(q)'
<1>. DEFINE t == tx[q].t
            s == tx[q].s
            r == MovedTo(row[t], s, tx[q].u)
            S == Preconditions(t)
            pc == IF s \in Closed THEN Upward(t) ELSE "commit"
            at == IF s \in Closed THEN Parent[t] ELSE NoTask
            d == Write(tx[q].draft, t, r)
            z == [tx[q] EXCEPT !.pc = pc, !.at = at, !.seen = S, !.draft = d]
<1>0. /\ BoardInv /\ tx[q] \in Tx /\ DOMAIN tx[q].draft = {} /\ tx[q].pc = "act"
      /\ tx[q].op \in Moving /\ LateInv(q) /\ PlaceInv(q)
  BY DEF IInv, BoardInv, TxInv, DraftInv, Drafted, MoveTask, Writing, Moving, Tracked
<1>1. /\ tx' = [tx EXCEPT ![q] = z] /\ UNCHANGED <<row, deps>>
      /\ ~ SetStateRefuses(t, s)
  BY DEF MoveTask, Goto
<1>2. DOMAIN d = {t} /\ d[t] = r
  BY <1>0 DEF Write
<1>3. /\ pc \in {"climb", "commit"} /\ (s \notin Closed => pc = "commit")
      /\ s \in Closed => at = Parent[t]
  BY DEF Upward
<1>4. MayTurn(row[t].state, s) /\ (s = "done" /\ t \notin Feature => Unresolved(t) = {})
  BY <1>1 DEF SetStateRefuses, MayTurn
<1>. HIDE DEF r, S, pc, at, d
<1>5. /\ z.pc = pc /\ z.at = at /\ z.draft = d /\ z.op = tx[q].op /\ z.t = t /\ z.s = s
      /\ z.u = tx[q].u /\ z.cand = tx[q].cand
  BY <1>0 DEF Tx
<1>. HIDE DEF z
<1>6. tx'[q] = z
  BY <1>0, <1>1 DEF BoardInv
<1>7. /\ Drafted(q) = {} /\ Drafted(q)' = {t} /\ RolledUp(q)' = {} /\ NeedsClosedChildren(q)' = {}
      /\ tx'[q] # Idle
  BY <1>0, <1>2, <1>5, <1>6, IdleOK DEF Drafted, RolledUp, NeedsClosedChildren, Moving
<1>8. PlanInv(q)'
  <2>1. tx'[q].draft[t] = MovedTo(row'[t], s, tx'[q].u)
    BY <1>1, <1>2, <1>5, <1>6 DEF r
  <2>. QED BY <1>0, <1>1, <1>3, <1>4, <1>5, <1>6, <1>7, <2>1 DEF PlanInv, Moving
<1>9. ClimbInv(q)'
  <2>1. Climbs({}, Parent[t], Parent[t])
    BY DEF Climbs
  <2>2. Start(q)' = Parent[t] /\ tx'[q].op # "visit"
    BY <1>0, <1>5, <1>6 DEF Start, Moving
  <2>. QED BY <1>0, <1>3, <1>5, <1>6, <1>7, <2>1, <2>2 DEF ClimbInv
<1>10. LateInv(q)'
  <2>1. \A x \in tx[q].cand : WaitsLate(q, x)' /\ (x \in Feature => ChildrenLate(q, x)')
    BY <1>0, <1>7, LateGoesOn DEF LateInv
  <2>2. ASSUME Unresolved(t) = {} PROVE WaitsLate(q, t)'
    <3>1. WaitsLate(q, t)
      BY <2>2 DEF WaitsLate, Unresolved, Preconditions
    <3>2. tx'[q].t = t
      BY <1>5, <1>6
    <3>. QED BY <1>7, <3>1, <3>2, LateStays DEF WaitsLate
  <2>3. AsksPreconditions(q)' => Unresolved(t) = {}
    BY <1>0, <1>4, <1>5, <1>6 DEF AsksPreconditions, Moving
  <2>. QED BY <1>5, <1>6, <1>7, <2>1, <2>2, <2>3 DEF LateInv
<1>. QED BY <1>8, <1>9, <1>10 DEF Tracked

\* What a claim leaves to account for when it has written its row.
LEMMA TakenTracked ==
  ASSUME IInv, IInv', LateStep, NEW q \in Proc, Tracked(q), NEW t \in Live,
         tx[q].op \in {"claim", "next"}, tx'[q].op = tx[q].op,
         tx'[q].t = t, tx'[q].pc = "commit", Drafted(q) = {}, Drafted(q)' = {t},
         tx'[q].draft[t] = [state |-> "doing", assignee |-> tx'[q].u],
         tx'[q].cand \subseteq tx[q].cand, UNCHANGED row, upd'[t] = {q},
         WaitsLate(q, t), t \in Feature => ChildrenLate(q, t),
         tx[q].op = "claim" => /\ row[t].state \notin {"done", "doing"}
                               /\ row[t].assignee \in {Nobody, tx'[q].u},
         tx[q].op = "next" => row[t].state = "todo"
  PROVE  Tracked(q)'
<1>1. RolledUp(q)' = {} /\ tx'[q] # Idle /\ NeedsClosedChildren(q)' = {t} \cap Feature
  BY IdleOK DEF RolledUp, NeedsClosedChildren
<1>2. PlanInv(q)'
  <2>1. TakenBy(q)'
    BY DEF TakenBy
  <2>2. tx'[q].t \in Live' /\ Held(q, tx[q].t)'
    BY DEF Live, Held
  <2>. QED BY <1>1, <2>1, <2>2 DEF PlanInv, Moving
<1>3. ClimbInv(q)'
  BY DEF ClimbInv, Moving
<1>4. LateInv(q)'
  <2>1. \A x \in tx'[q].cand : WaitsLate(q, x)' /\ (x \in Feature => ChildrenLate(q, x)')
    <3>1. LateInv(q)
      BY DEF Tracked
    <3>. QED BY <1>1, <3>1, LateGoesOn DEF LateInv
  <2>2. WaitsLate(q, tx[q].t)'
    BY <1>1, LateStays DEF WaitsLate
  <2>3. t \in Feature => ChildrenLate(q, t)'
    BY <1>1, LateStays DEF ChildrenLate
  <2>. QED BY <1>1, <2>1, <2>2, <2>3 DEF LateInv
<1>. QED BY <1>2, <1>3, <1>4 DEF Tracked

LEMMA ClaimTracked ==
  ASSUME IInv, IInv', LateStep, NEW q \in Proc, Tracked(q), ClaimTask(q), ~ Rollback(q)
  PROVE  Tracked(q)'
<1>. DEFINE t == tx[q].t
            r == [state |-> "doing", assignee |-> tx[q].u]
            d == Write(tx[q].draft, t, r)
            z == [tx[q] EXCEPT !.pc = "commit", !.draft = d]
<1>0. /\ BoardInv /\ PlaceInv(q) /\ tx[q] \in Tx /\ tx[q].op = "claim" /\ tx[q].pc = "act"
      /\ DOMAIN tx[q].draft = {} /\ t \in Live /\ Held(q, t)
  BY DEF IInv, BoardInv, TxInv, PlaceInv, DraftInv, Drafted, ClaimTask, TakesTask, Writing
<1>1. /\ tx' = [tx EXCEPT ![q] = z] /\ UNCHANGED <<row, upd>>
      /\ row[t].state \notin {"done", "doing"} /\ row[t].assignee \in {Nobody, tx[q].u}
      /\ (t \in Feature => OpenChildren(row, t) = {}) /\ Unresolved(t) = {}
  BY DEF ClaimTask, Goto
<1>2. DOMAIN d = {t} /\ d[t] = r
  BY <1>0 DEF Write
<1>. HIDE DEF d
<1>3. /\ z.pc = "commit" /\ z.draft = d /\ z.op = "claim" /\ z.t = t /\ z.u = tx[q].u
      /\ z.cand = tx[q].cand
  BY <1>0 DEF Tx
<1>. HIDE DEF z
<1>4. tx'[q] = z
  BY <1>0, <1>1 DEF BoardInv
<1>5. WaitsLate(q, t) /\ (t \in Feature => ChildrenLate(q, t))
  BY <1>1 DEF WaitsLate, ChildrenLate, Unresolved, Preconditions, OpenChildren, Live
<1>6. Drafted(q) = {} /\ Drafted(q)' = {t} /\ upd'[t] = {q}
  BY <1>0, <1>1, <1>2, <1>3, <1>4 DEF Drafted, Held
<1>. HIDE DEF t
<1>. QED BY <1>0, <1>1, <1>2, <1>3, <1>4, <1>5, <1>6, TakenTracked

LEMMA PickTracked ==
  ASSUME IInv, IInv', LateStep, NEW q \in Proc, Tracked(q), PickCandidate(q), ~ Rollback(q)
  PROVE  Tracked(q)'
<1>1. PICK t \in Pickable(q) :
        /\ TakeUpdate(q, t)
        /\ Goto(q, [tx[q] EXCEPT !.pc = "commit", !.t = t, !.cand = {},
                    !.draft = Write(@, t, [state |-> "doing", assignee |-> tx[q].u])])
  BY DEF PickCandidate
<1>. DEFINE r == [state |-> "doing", assignee |-> tx[q].u]
            d == Write(tx[q].draft, t, r)
            z == [tx[q] EXCEPT !.pc = "commit", !.t = t, !.cand = {}, !.draft = d]
<1>0. /\ BoardInv /\ tx[q] \in Tx /\ tx[q].op = "next" /\ DOMAIN tx[q].draft = {}
      /\ t \in Live /\ t \in Task /\ t \in tx[q].cand /\ row[t].state = "todo" /\ LateInv(q)
  BY <1>1 DEF IInv, BoardInv, TxInv, PlaceInv, DraftInv, Drafted, PickCandidate, Pickable,
              Writing, Tracked
<1>2. tx' = [tx EXCEPT ![q] = z] /\ UNCHANGED row
  BY <1>1 DEF Goto
<1>3. DOMAIN d = {t} /\ d[t] = r
  BY <1>0 DEF Write
<1>. HIDE DEF d
<1>4. /\ z.pc = "commit" /\ z.draft = d /\ z.op = "next" /\ z.t = t /\ z.u = tx[q].u
      /\ z.cand = {}
  BY <1>0 DEF Tx
<1>. HIDE DEF z
<1>5. tx'[q] = z
  BY <1>0, <1>2 DEF BoardInv
<1>6. Drafted(q) = {} /\ Drafted(q)' = {t} /\ upd'[t] = {q}
  BY <1>0, <1>1, <1>3, <1>4, <1>5 DEF Drafted, TakeUpdate, BoardInv
<1>7. WaitsLate(q, t) /\ (t \in Feature => ChildrenLate(q, t))
  BY <1>0 DEF LateInv
<1>. QED BY <1>0, <1>2, <1>3, <1>4, <1>5, <1>6, <1>7, TakenTracked

\* A new task asks for nothing.
LEMMA InsertTracked ==
  ASSUME IInv, IInv', LateStep, NEW q \in Proc, Tracked(q), InsertTask(q)
  PROVE  Tracked(q)'
<1>. DEFINE t == tx[q].t
            r == [state |-> "todo", assignee |-> Nobody]
            d == Write(tx[q].draft, t, r)
            z == [tx[q] EXCEPT !.pc = "commit", !.draft = d]
<1>0. /\ BoardInv /\ PlaceInv(q) /\ tx[q] \in Tx /\ tx[q].op = "create" /\ DOMAIN tx[q].draft = {}
      /\ LateInv(q)
  BY DEF IInv, BoardInv, TxInv, PlaceInv, DraftInv, Drafted, InsertTask, Writing, Tracked
<1>1. tx' = [tx EXCEPT ![q] = z]
  BY DEF InsertTask, Goto
<1>2. DOMAIN d = {t} /\ d[t] = r
  BY <1>0 DEF Write
<1>. HIDE DEF d
<1>3. z.pc = "commit" /\ z.draft = d /\ z.op = "create" /\ z.t = t /\ z.cand = tx[q].cand
  BY <1>0 DEF Tx
<1>. HIDE DEF z
<1>4. tx'[q] = z
  BY <1>0, <1>1 DEF BoardInv
<1>5. /\ Drafted(q) = {} /\ Drafted(q)' = {t} /\ RolledUp(q)' = {} /\ NeedsClosedChildren(q)' = {}
      /\ tx'[q] # Idle
  BY <1>0, <1>2, <1>3, <1>4, IdleOK DEF Drafted, RolledUp, NeedsClosedChildren
<1>6. PlanInv(q)' /\ ClimbInv(q)'
  BY <1>2, <1>3, <1>4, <1>5 DEF PlanInv, ClimbInv, Moving
<1>7. LateInv(q)'
  <2>1. \A x \in tx[q].cand : WaitsLate(q, x)' /\ (x \in Feature => ChildrenLate(q, x)')
    BY <1>0, <1>5, LateGoesOn DEF LateInv
  <2>. QED BY <1>3, <1>4, <1>5, <2>1 DEF LateInv, AsksPreconditions
<1>. QED BY <1>6, <1>7 DEF Tracked

\* Where a walk stands: at a row that it has not drafted.
LEMMA Standing ==
  ASSUME IInv, NEW q \in Proc, Tracked(q), tx[q].pc \in {"climb", "count"}
  PROVE  /\ tx[q].op \in Moving \cup {"visit"}
         /\ tx[q].op \in Moving => tx[q].s \in Closed /\ tx[q].t \in Drafted(q) /\ tx[q].at # tx[q].t
         /\ tx[q].at \in Live /\ tx[q].at \in Task
         /\ Climbs(RolledUp(q), Start(q), tx[q].at)
         /\ Drafted(q) = RolledUp(q) \cup (IF tx[q].op = "visit" THEN {} ELSE {tx[q].t})
         /\ tx[q].at \notin Drafted(q) /\ View(q)[tx[q].at] = row[tx[q].at]
         /\ Drafted(q) = {} => tx[q].op = "visit" /\ tx[q].at = tx[q].t
<1>1. /\ BoardInv /\ tx[q].op \in Moving \cup {"visit"} /\ tx[q].at \in Live /\ tx[q].at \in Task
  BY DEF IInv, BoardInv, TxInv, PlaceInv
<1>2. tx[q].op \in Moving => tx[q].s \in Closed /\ tx[q].t \in Drafted(q)
  BY DEF Tracked, PlanInv, Writing
<1>3. Climbs(RolledUp(q), Start(q), tx[q].at)
  BY <1>1, <1>2 DEF Tracked, ClimbInv, Writing
<1>4. Drafted(q) = RolledUp(q) \cup (IF tx[q].op = "visit" THEN {} ELSE {tx[q].t})
  BY <1>1, <1>2 DEF RolledUp, Drafted, Moving
<1>5. tx[q].at \notin RolledUp(q) /\ Parent[tx[q].at] # Start(q)
  BY <1>1, <1>3, StandsAbove
<1>6. tx[q].op \in Moving => tx[q].at # tx[q].t
  BY <1>5 DEF Start, Moving
<1>7. tx[q].at \notin Drafted(q)
  BY <1>1, <1>4, <1>5, <1>6
<1>8. View(q)[tx[q].at] = row[tx[q].at]
  BY <1>1, <1>7, ViewOK
<1>9. Drafted(q) = {} => tx[q].op = "visit" /\ tx[q].at = tx[q].t
  BY <1>1, <1>2, <1>3, <1>4 DEF Climbs, Start
<1>. QED BY <1>1, <1>2, <1>3, <1>4, <1>6, <1>7, <1>8, <1>9

\* The parent is locked, or an open child of it found: nothing is written.
LEMMA LookTracked ==
  ASSUME IInv, IInv', LateStep, NEW q \in Proc, Tracked(q),
         tx[q].pc \in {"climb", "count"},
         NEW pc \in {"count", "commit"}, tx' = [tx EXCEPT ![q] = [tx[q] EXCEPT !.pc = pc]],
         UNCHANGED row, Held(q, tx[q].at)',
         pc = "count" => row[tx[q].at].state # "done",
         (pc = "commit" /\ Drafted(q) = {}) =>
           row[tx[q].at].state = "done" \/ OpenChildren(row, tx[q].at) # {}
  PROVE  Tracked(q)'
<1>. DEFINE z == [tx[q] EXCEPT !.pc = pc]
<1>0. BoardInv /\ tx[q] \in Tx /\ tx[q].op \in Moving \cup {"visit"} /\ LateInv(q)
  BY Standing DEF IInv, BoardInv, Tracked
<1>1. /\ z.pc = pc /\ z.at = tx[q].at /\ z.draft = tx[q].draft /\ z.op = tx[q].op /\ z.t = tx[q].t
      /\ z.s = tx[q].s /\ z.u = tx[q].u /\ z.cand = tx[q].cand
  BY <1>0 DEF Tx
<1>2. tx' = [tx EXCEPT ![q] = z]
  OBVIOUS
<1>. HIDE DEF z
<1>3. tx'[q] = z
  BY <1>0, <1>2 DEF BoardInv
<1>4. /\ Drafted(q)' = Drafted(q) /\ RolledUp(q)' = RolledUp(q) /\ Start(q)' = Start(q)
      /\ NeedsClosedChildren(q)' = NeedsClosedChildren(q) /\ Live' = Live
      /\ AsksPreconditions(q)' = AsksPreconditions(q) /\ tx'[q] # Idle
  BY <1>0, <1>1, <1>3, IdleOK
     DEF Drafted, RolledUp, Start, NeedsClosedChildren, AsksPreconditions, Live, Moving
<1>5. PlanInv(q)'
  <2>1. /\ tx[q].op \in Moving => /\ tx[q].t \in Drafted(q) /\ tx[q].s \in Closed
                                  /\ tx[q].draft[tx[q].t] = MovedTo(row[tx[q].t], tx[q].s, tx[q].u)
                                  /\ MayTurn(row[tx[q].t].state, tx[q].s)
        /\ \A x \in RolledUp(q) :
             tx[q].draft[x] = [row[x] EXCEPT !.state = "done"] /\ row[x].state # "done"
        /\ tx[q].op = "visit" => tx[q].t \in Live
    BY Standing DEF Tracked, PlanInv, Writing
  <2>. QED BY <1>0, <1>1, <1>3, <1>4, <2>1 DEF PlanInv, Moving
<1>6. ClimbInv(q)'
  <2>1. Climbs(RolledUp(q), Start(q), tx[q].at)
    BY Standing
  <2>2. (pc = "commit" /\ Drafted(q) = {}) =>
          /\ tx[q].at = tx[q].t /\ Held(q, tx[q].t)'
          /\ row'[tx[q].t].state = "done" \/ OpenChildren(row', tx[q].t) # {}
    BY <1>1, <1>3, Standing DEF Held
  <2>3. OpenChildren(row, tx[q].t)' = OpenChildren(row', tx[q].t)
    BY <1>1, <1>3 DEF OpenChildren
  <2>. QED BY <1>0, <1>1, <1>3, <1>4, <2>1, <2>2, <2>3 DEF ClimbInv
<1>7. LateInv(q)'
  <2>1. tx[q].pc \in Writing
    BY DEF Writing
  <2>2. /\ \A x \in tx[q].cand : WaitsLate(q, x)' /\ (x \in Feature => ChildrenLate(q, x)')
        /\ \A x \in NeedsClosedChildren(q) : ChildrenLate(q, x)'
    BY <1>0, <1>4, <2>1, LateGoesOn DEF LateInv
  <2>3. AsksPreconditions(q) => WaitsLate(q, tx[q].t)'
    BY <1>0, <1>1, <1>3, <1>4, <2>1, LateStays DEF LateInv, WaitsLate
  <2>. QED BY <1>1, <1>3, <1>4, <2>2, <2>3 DEF LateInv
<1>. QED BY <1>5, <1>6, <1>7 DEF Tracked

LEMMA LockParentTracked ==
  ASSUME IInv, IInv', LateStep, NEW q \in Proc, Tracked(q), LockParent(q)
  PROVE  Tracked(q)'
<1>. DEFINE a == tx[q].at
            pc == IF View(q)[a].state = "done" THEN "commit" ELSE "count"
<1>0. /\ BoardInv /\ tx[q].pc = "climb" /\ View(q)[a] = row[a] /\ a \in Task /\ tx[q] \in Tx
  BY Standing DEF LockParent, IInv, BoardInv
<1>1. tx' = [tx EXCEPT ![q] = [tx[q] EXCEPT !.pc = pc]] /\ UNCHANGED row
  BY DEF LockParent, Goto
<1>2. upd'[a] = {q}
  BY <1>0, LockStep DEF LockParent
<1>3. pc \in {"count", "commit"} /\ (pc = "count" <=> row[a].state # "done")
  BY <1>0
<1>. HIDE DEF pc
<1>4. tx'[q].at = a
  BY <1>0, <1>1 DEF BoardInv, Tx
<1>5. Held(q, tx[q].at)'
  BY <1>2, <1>4 DEF Held
<1>. QED BY <1>0, <1>1, <1>3, <1>5, LookTracked

LEMMA CountTracked ==
  ASSUME IInv, IInv', LateStep, NEW q \in Proc, Tracked(q), CountChildren(q)
  PROVE  Tracked(q)'
<1>. DEFINE a == tx[q].at
            r == [View(q)[a] EXCEPT !.state = "done"]
            d == Write(tx[q].draft, a, r)
<1>0. /\ BoardInv /\ tx[q].pc = "count" /\ tx[q] \in Tx /\ a \in Live /\ a \in Task /\ Held(q, a)
      /\ UNCHANGED <<row, upd>> /\ row[a].state # "done" /\ View(q)[a] = row[a] /\ a \notin Drafted(q)
      /\ Live' = Live /\ LateInv(q)
  BY Standing DEF CountChildren, IInv, BoardInv, TxInv, PlaceInv, Goto, Tracked, PlanInv, Live
<1>1. CASE OpenChildren(View(q), a) # {}
  <2>1. tx' = [tx EXCEPT ![q] = [tx[q] EXCEPT !.pc = "commit"]]
    BY <1>1 DEF CountChildren, Goto
  <2>2. Drafted(q) = {} => OpenChildren(row, a) # {}
    BY <1>0, <1>1, ViewOK DEF OpenChildren, Live
  <2>3. tx'[q].at = a
    BY <1>0, <2>1 DEF BoardInv, Tx
  <2>4. Held(q, tx[q].at)'
    BY <1>0, <2>3 DEF Held
  <2>. QED BY <1>0, <2>1, <2>2, <2>4, LookTracked
<1>2. CASE OpenChildren(View(q), a) = {}
  <2>. DEFINE z == [tx[q] EXCEPT !.pc = Upward(a), !.at = Parent[a], !.draft = d]
  <2>1. tx' = [tx EXCEPT ![q] = z]
    BY <1>2 DEF CountChildren, Goto
  <2>2. r = [row[a] EXCEPT !.state = "done"]
    BY <1>0
  <2>3. DOMAIN d = Drafted(q) \cup {a} /\ d[a] = r /\ \A x \in Drafted(q) : d[x] = tx[q].draft[x]
    BY <1>0 DEF Write, Drafted
  <2>. HIDE DEF d, r
  <2>4. /\ z.pc = Upward(a) /\ z.at = Parent[a] /\ z.draft = d /\ z.op = tx[q].op /\ z.t = tx[q].t
        /\ z.s = tx[q].s /\ z.u = tx[q].u /\ z.cand = tx[q].cand
    BY <1>0 DEF Tx
  <2>. HIDE DEF z
  <2>5. tx'[q] = z /\ tx'[q].pc \in {"climb", "commit"}
    BY <1>0, <2>1, <2>4 DEF BoardInv, Upward
  <2>6. /\ tx[q].op \in Moving \cup {"visit"}
        /\ tx[q].op \in Moving => tx[q].s \in Closed /\ tx[q].t \in Drafted(q) /\ a # tx[q].t
        /\ Climbs(RolledUp(q), Start(q), a)
        /\ Drafted(q) = RolledUp(q) \cup (IF tx[q].op = "visit" THEN {} ELSE {tx[q].t})
    BY <1>0, Standing
  <2>7. /\ Drafted(q)' = Drafted(q) \cup {a} /\ RolledUp(q)' = RolledUp(q) \cup {a}
        /\ NeedsClosedChildren(q)' = NeedsClosedChildren(q) \cup {a} /\ Start(q)' = Start(q)
        /\ AsksPreconditions(q)' = AsksPreconditions(q) /\ tx'[q] # Idle
    <3>1. Drafted(q)' = Drafted(q) \cup {a}
      BY <2>3, <2>4, <2>5 DEF Drafted
    <3>2. RolledUp(q)' = RolledUp(q) \cup {a}
      BY <2>4, <2>5, <2>6, <3>1 DEF RolledUp, Drafted, Moving
    <3>3. Start(q)' = Start(q) /\ AsksPreconditions(q)' = AsksPreconditions(q) /\ tx'[q] # Idle
      BY <2>4, <2>5, <2>6, IdleOK DEF Start, AsksPreconditions, Moving
    <3>. QED BY <2>4, <2>5, <2>6, <3>1, <3>2, <3>3 DEF NeedsClosedChildren, Moving
  <2>8. PlanInv(q)'
    <3>1. /\ tx[q].op \in Moving => /\ tx[q].draft[tx[q].t] = MovedTo(row[tx[q].t], tx[q].s, tx[q].u)
                                    /\ MayTurn(row[tx[q].t].state, tx[q].s)
          /\ \A x \in RolledUp(q) :
               tx[q].draft[x] = [row[x] EXCEPT !.state = "done"] /\ row[x].state # "done"
          /\ tx[q].op = "visit" => tx[q].t \in Live
      BY <1>0 DEF Tracked, PlanInv, Writing
    <3>2. \A x \in RolledUp(q)' :
            tx'[q].draft[x] = [row'[x] EXCEPT !.state = "done"] /\ row'[x].state # "done"
      <4>1. ASSUME NEW x \in RolledUp(q)
            PROVE  tx'[q].draft[x] = [row'[x] EXCEPT !.state = "done"] /\ row'[x].state # "done"
        <5>1. d[x] = tx[q].draft[x]
          BY <2>3, <4>1 DEF RolledUp, Drafted
        <5>. QED BY <1>0, <2>4, <2>5, <3>1, <5>1
      <4>2. tx'[q].draft[a] = [row'[a] EXCEPT !.state = "done"] /\ row'[a].state # "done"
        BY <1>0, <2>2, <2>3, <2>4, <2>5
      <4>. QED BY <2>7, <4>1, <4>2
    <3>3. tx[q].op \in Moving =>
             /\ tx[q].t \in Drafted(q)'
             /\ tx'[q].draft[tx[q].t] = MovedTo(row'[tx[q].t], tx[q].s, tx[q].u)
             /\ MayTurn(row'[tx[q].t].state, tx[q].s)
      BY <1>0, <2>3, <2>4, <2>5, <2>6, <2>7, <3>1
    <3>. QED BY <1>0, <2>4, <2>5, <2>6, <3>1, <3>2, <3>3 DEF PlanInv, Moving
  <2>9. ClimbInv(q)'
    <3>1. Climbs(RolledUp(q) \cup {a}, Start(q), Parent[a])
      BY <1>0, <2>6, ClimbOn
    <3>. QED BY <2>4, <2>5, <2>7, <3>1 DEF ClimbInv
  <2>10. LateInv(q)'
    <3>1. ChildrenLate(q, a)
      BY <1>0, <1>2, ViewOK DEF ChildrenLate, OpenChildren
    <3>2. \A x \in NeedsClosedChildren(q) \cup {a} : ChildrenLate(q, x)
      BY <1>0, <3>1 DEF LateInv, Writing
    <3>3. /\ \A x \in tx[q].cand : WaitsLate(q, x)' /\ (x \in Feature => ChildrenLate(q, x)')
          /\ \A x \in NeedsClosedChildren(q) \cup {a} : ChildrenLate(q, x)'
      BY <1>0, <2>7, <3>2, LateGoesOn DEF LateInv
    <3>4. AsksPreconditions(q) => WaitsLate(q, tx[q].t)'
      BY <1>0, <2>4, <2>5, <2>7, LateStays DEF LateInv, WaitsLate, Writing
    <3>. QED BY <2>4, <2>5, <2>7, <3>3, <3>4 DEF LateInv
  <2>. QED BY <2>8, <2>9, <2>10 DEF Tracked
<1>. QED BY <1>1, <1>2

\* Every step of q keeps what holds of q.
LEMMA TrackedOwn ==
  ASSUME IInv, IInv', LateStep, NEW q \in Proc, Tracked(q),
         SomeCall(q) \/ Statement(q) \/ BreakDeadlock(q) \/ Cancel(q)
  PROVE  Tracked(q)'
BY CallTracked, QuietTracked, MoveTracked, LockParentTracked, CountTracked, ClaimTracked,
   SelectTracked, PickTracked, InsertTracked DEF Statement, Work, BreakDeadlock, Cancel

\* A step that leaves p its locks and its rows, and closes no child under a
\* parent that p holds, keeps what holds of p.
LEMMA TrackedFrame ==
  ASSUME IInv, IInv', LateStep, NEW p \in Proc, Tracked(p), tx'[p] = tx[p], Live \subseteq Live',
         \A x \in Task : Held(p, x) => Held(p, x)',
         \A x \in Live : Held(p, x) => row'[x] = row[x],
         \A x \in Live : (Parent[x] \in Task /\ Held(p, Parent[x]) /\ row[x].state \notin Closed)
                            => row'[x].state \notin Closed
  PROVE  Tracked(p)'
<1>0. /\ BoardInv /\ PlaceInv(p) /\ DraftInv(p) /\ Live \subseteq Task
      /\ PlanInv(p) /\ ClimbInv(p) /\ LateInv(p)
  BY DEF IInv, BoardInv, TxInv, Tracked
<1>1. /\ Drafted(p)' = Drafted(p) /\ RolledUp(p)' = RolledUp(p) /\ Start(p)' = Start(p)
      /\ NeedsClosedChildren(p)' = NeedsClosedChildren(p)
      /\ AsksPreconditions(p)' = AsksPreconditions(p)
  BY DEF Drafted, RolledUp, Start, NeedsClosedChildren, AsksPreconditions
<1>2. PlanInv(p)'
  <2>1. \A x \in RolledUp(p) : row'[x] = row[x]
    <3>1. RolledUp(p) \subseteq Drafted(p) \cap Live
      BY <1>0 DEF RolledUp, Drafted, DraftInv, Moving
    <3>. QED BY <1>0, <3>1 DEF DraftInv
  <2>2. /\ (tx[p].op \in Moving /\ tx[p].pc \in Writing) => row'[tx[p].t] = row[tx[p].t]
        /\ tx[p].pc = "count" => row'[tx[p].at] = row[tx[p].at]
        /\ (tx[p].op = "claim" /\ tx[p].pc = "commit") => row'[tx[p].t] = row[tx[p].t]
    BY <1>0 DEF PlaceInv, TakesTask, Moving, Writing
  <2>3. (tx[p].op = "next" /\ tx[p].pc = "commit") =>
          /\ row'[tx[p].t] = row[tx[p].t] /\ tx[p].t \in Live' /\ Held(p, tx[p].t)'
    <3>. SUFFICES ASSUME tx[p].op = "next", tx[p].pc = "commit"
                  PROVE  /\ row'[tx[p].t] = row[tx[p].t] /\ tx[p].t \in Live' /\ Held(p, tx[p].t)'
      OBVIOUS
    <3>1. tx[p].t \in Live /\ Held(p, tx[p].t)
      BY <1>0 DEF PlanInv
    <3>. QED BY <1>0, <3>1 DEF Held
  <2>4. TakenBy(p)' = TakenBy(p)
    BY <1>1 DEF TakenBy
  <2>. QED BY <1>0, <1>1, <2>1, <2>2, <2>3, <2>4 DEF PlanInv
<1>3. ClimbInv(p)'
  <2>. SUFFICES ASSUME tx[p].op = "visit", tx[p].pc = "commit", Drafted(p) = {}
                PROVE  /\ Held(p, tx[p].t)'
                       /\ row'[tx[p].t].state = "done" \/ OpenChildren(row, tx[p].t)' # {}
    BY <1>0, <1>1 DEF ClimbInv
  <2>1. /\ tx[p].t \in Live /\ tx[p].t \in Task /\ Held(p, tx[p].t)
        /\ row[tx[p].t].state = "done" \/ OpenChildren(row, tx[p].t) # {}
    BY <1>0 DEF ClimbInv, PlanInv
  <2>2. ASSUME NEW c \in OpenChildren(row, tx[p].t) PROVE c \in OpenChildren(row', tx[p].t)
    BY <1>0, <2>1, <2>2 DEF OpenChildren, Live
  <2>3. OpenChildren(row, tx[p].t)' = OpenChildren(row', tx[p].t)
    BY DEF OpenChildren
  <2>. QED BY <2>1, <2>2, <2>3 DEF Held
<1>4. LateInv(p)'
  <2>1. CASE tx[p] = Idle
    BY <1>1, <2>1, IdleOK DEF LateInv, Writing
  <2>2. CASE tx[p] # Idle
    <3>1. tx[p].pc \in Writing => \A x \in NeedsClosedChildren(p) : ChildrenLate(p, x)'
      BY <1>0, <1>1, <2>2, LateGoesOn DEF LateInv
    <3>2. ASSUME NEW x \in tx[p].cand
          PROVE  WaitsLate(p, x)' /\ (x \in Feature => ChildrenLate(p, x)')
      <4>1. WaitsLate(p, x) /\ (x \in Feature => ChildrenLate(p, x))
        BY <1>0, <3>2 DEF LateInv
      <4>. QED BY <1>1, <2>2, <4>1, LateStays DEF WaitsLate, ChildrenLate
    <3>3. (AsksPreconditions(p) /\ tx[p].pc \in Writing) => WaitsLate(p, tx[p].t)'
      BY <1>0, <1>1, <2>2, LateStays DEF LateInv, WaitsLate
    <3>. QED BY <1>1, <3>1, <3>2, <3>3 DEF LateInv
  <2>. QED BY <2>1, <2>2
<1>. QED BY <1>2, <1>3, <1>4 DEF Tracked

\* A step of q and the call of another client p.
LEMMA TrackedOthers ==
  ASSUME IInv, IInv', LateStep, NEW q \in Proc, QuietStep(q) \/ Rollback(q) \/ Commit(q),
         ChainInv(q), NEW p \in Proc, p # q, Tracked(p)
  PROVE  Tracked(p)'
<1>0. BoardInv /\ Live \subseteq Task /\ tx'[p] = tx[p]
  BY DEF IInv, BoardInv, QuietStep, Rollback, Commit
<1>1. \A x \in Task : Held(p, x) => Held(p, x)'
  BY <1>0 DEF QuietStep, LocksTaken, Rollback, Commit, Release, Held, BoardInv
<1>2. CASE QuietStep(q) \/ Rollback(q)
  <2>1. row' = row /\ Live' = Live
    BY <1>2 DEF QuietStep, Rollback, Live
  <2>. QED BY <1>0, <1>1, <2>1, TrackedFrame
<1>3. CASE Commit(q)
  <2>1. /\ Live \subseteq Live' /\ \A x \in Live : Held(p, x) => row'[x] = row[x]
        /\ \A x \in Live : (Parent[x] \in Task /\ Held(p, Parent[x]) /\ row[x].state \notin Closed)
                              => row'[x].state \notin Closed
    BY <1>0, <1>3, CommitTouches
  <2>. QED BY <1>0, <1>1, <2>1, TrackedFrame
<1>. QED BY <1>2, <1>3

-----------------------------------------------------------------------------
(* The recorded board. *)

\* What TaskBoard's updates make of a row, in the columns TaskTx has.
LEMMA RowUpdates ==
  ASSUME NEW r \in Board!Row, NEW s \in State, NEW u \in User \cup {Nobody}
  PROVE  /\ Board!Moved(r, s, u) \in Board!Row
         /\ Board!Moved(r, s, u).state = s
         /\ Board!Moved(r, s, u).parent = r.parent /\ Board!Moved(r, s, u).type = r.type
         /\ Board!Moved(r, s, u).assignee =
              IF s # "todo" /\ r.assignee = Nobody THEN u ELSE r.assignee
         /\ Board!ClaimTask(r, u) \in Board!Row
         /\ Board!ClaimTask(r, u).state = "doing" /\ Board!ClaimTask(r, u).assignee = u
         /\ Board!ClaimTask(r, u).parent = r.parent /\ Board!ClaimTask(r, u).type = r.type
         /\ Board!SetTaskDone(r) \in Board!Row
         /\ Board!SetTaskDone(r).state = "done" /\ Board!SetTaskDone(r).assignee = r.assignee
         /\ Board!SetTaskDone(r).parent = r.parent /\ Board!SetTaskDone(r).type = r.type
<1>. USE DEF Board!Row, Board!State, Board!Type
<1>1. /\ Board!ClaimTask(r, u) \in Board!Row
      /\ Board!ClaimTask(r, u).state = "doing" /\ Board!ClaimTask(r, u).assignee = u
      /\ Board!ClaimTask(r, u).parent = r.parent /\ Board!ClaimTask(r, u).type = r.type
  BY DEF Board!ClaimTask
<1>2. /\ Board!SetTaskDone(r) \in Board!Row
      /\ Board!SetTaskDone(r).state = "done" /\ Board!SetTaskDone(r).assignee = r.assignee
      /\ Board!SetTaskDone(r).parent = r.parent /\ Board!SetTaskDone(r).type = r.type
  BY DEF Board!SetTaskDone
<1>3. ASSUME NEW y \in Board!Row
      PROVE  /\ Board!AssignTaskIfUnassigned(y, u) \in Board!Row
             /\ Board!AssignTaskIfUnassigned(y, u).state = y.state
             /\ Board!AssignTaskIfUnassigned(y, u).parent = y.parent
             /\ Board!AssignTaskIfUnassigned(y, u).type = y.type
             /\ Board!AssignTaskIfUnassigned(y, u).assignee =
                  IF y.assignee = Nobody THEN u ELSE y.assignee
  BY DEF Board!AssignTaskIfUnassigned
<1>4. /\ Board!SetTaskTodo(r) \in Board!Row /\ Board!SetTaskTodo(r).state = "todo"
      /\ Board!SetTaskTodo(r).parent = r.parent /\ Board!SetTaskTodo(r).type = r.type
      /\ Board!SetTaskTodo(r).assignee = r.assignee
  BY DEF Board!SetTaskTodo
<1>5. /\ Board!SetTaskDoing(r) \in Board!Row /\ Board!SetTaskDoing(r).state = "doing"
      /\ Board!SetTaskDoing(r).parent = r.parent /\ Board!SetTaskDoing(r).type = r.type
      /\ Board!SetTaskDoing(r).assignee = r.assignee
  BY DEF Board!SetTaskDoing
<1>6. /\ Board!SetTaskWontDo(r) \in Board!Row /\ Board!SetTaskWontDo(r).state = "wont_do"
      /\ Board!SetTaskWontDo(r).parent = r.parent /\ Board!SetTaskWontDo(r).type = r.type
      /\ Board!SetTaskWontDo(r).assignee = r.assignee
  BY DEF Board!SetTaskWontDo
<1>7. /\ Board!Moved(r, s, u) \in Board!Row /\ Board!Moved(r, s, u).state = s
      /\ Board!Moved(r, s, u).parent = r.parent /\ Board!Moved(r, s, u).type = r.type
      /\ Board!Moved(r, s, u).assignee =
           IF s # "todo" /\ r.assignee = Nobody THEN u ELSE r.assignee
  <2>1. CASE s = "todo"
    BY <1>4, <2>1 DEF Board!Moved
  <2>2. CASE s = "doing"
    <3>1. Board!Moved(r, s, u) = Board!AssignTaskIfUnassigned(Board!SetTaskDoing(r), u)
      BY <2>2 DEF Board!Moved
    <3>. HIDE DEF Board!Row, Board!State, Board!Type
    <3>. QED BY <1>3, <1>5, <2>2, <3>1
  <2>3. CASE s = "done"
    <3>1. Board!Moved(r, s, u) = Board!AssignTaskIfUnassigned(Board!SetTaskDone(r), u)
      BY <2>3 DEF Board!Moved
    <3>. HIDE DEF Board!Row, Board!State, Board!Type
    <3>. QED BY <1>2, <1>3, <2>3, <3>1
  <2>4. CASE s = "wont_do"
    <3>1. Board!Moved(r, s, u) = Board!AssignTaskIfUnassigned(Board!SetTaskWontDo(r), u)
      BY <2>4 DEF Board!Moved
    <3>. HIDE DEF Board!Row, Board!State, Board!Type
    <3>. QED BY <1>3, <1>6, <2>4, <3>1
  <2>. QED BY <2>1, <2>2, <2>3, <2>4 DEF State
<1>. QED BY <1>1, <1>2, <1>7

\* Which rows a transaction has drafted when it commits.
LEMMA Committing ==
  ASSUME IInv, NEW q \in Proc, Tracked(q), tx[q].pc = "commit"
  PROVE  /\ tx[q].op \in OP \ {"none"}
         /\ tx[q].op \in {"set", "close"} =>
              /\ Drafted(q) = RolledUp(q) \cup {tx[q].t} /\ tx[q].t \notin RolledUp(q)
              /\ tx[q].draft[tx[q].t] = MovedTo(row[tx[q].t], tx[q].s, tx[q].u)
              /\ tx[q].t \in Live
         /\ tx[q].op = "visit" => Drafted(q) = RolledUp(q) /\ tx[q].t \in Live
         /\ tx[q].op \in {"claim", "next"} => TakenBy(q) /\ tx[q].t \in Live
         /\ tx[q].op = "create" =>
              /\ Drafted(q) = {tx[q].t} /\ tx[q].t \in Task \ Live
              /\ tx[q].draft[tx[q].t] = [state |-> "todo", assignee |-> Nobody]
              /\ Parent[tx[q].t] \in Live \cup {NoTask}
         /\ tx[q].op \in {"dep", "ask"} => Drafted(q) = {}
         /\ \A x \in RolledUp(q) : /\ x \in Live /\ tx[q].draft[x] = [row[x] EXCEPT !.state = "done"]
                                   /\ row[x].state # "done"
<1>1. BoardInv /\ PlaceInv(q) /\ DraftInv(q) /\ CreateInv(q) /\ PlanInv(q) /\ tx[q] \in Tx
  BY DEF IInv, BoardInv, TxInv, Tracked
<1>2. RolledUp(q) \subseteq Live
  BY <1>1 DEF RolledUp, Drafted, DraftInv
<1>3. tx[q].op \in {"set", "close"} =>
        /\ Drafted(q) = RolledUp(q) \cup {tx[q].t} /\ tx[q].t \notin RolledUp(q)
        /\ tx[q].t \in Live
  BY <1>1 DEF PlanInv, PlaceInv, RolledUp, Drafted, Moving, Writing, TakesTask
<1>. QED BY <1>1, <1>2, <1>3 DEF PlanInv, Tx, Writing, Moving, RolledUp, Drafted, CreateInv,
                                 PlaceInv, TakesTask

\* A row after its commit, in all columns and in those TaskTx has.
LEMMA WrittenAgrees ==
  ASSUME IInv, BoardAgrees, NEW q \in Proc, Tracked(q), tx[q].pc = "commit", NEW x \in Drafted(q)
  PROVE  /\ Written(q, x) \in Board!Row
         /\ Written(q, x).parent = Parent[x]
         /\ Written(q, x).type = "feature" <=> x \in Feature
         /\ Written(q, x).state = tx[q].draft[x].state
         /\ Written(q, x).assignee = tx[q].draft[x].assignee
<1>0. BoardInv /\ x \in Task /\ tx[q] \in Tx /\ tx[q].s \in State /\ tx[q].u \in User \cup {Nobody}
      /\ tx[q].op \in OP \ {"none", "dep", "ask"}
  BY ViewOK, Committing DEF IInv, BoardInv, Tx
<1>1. CASE tx[q].op = "create"
  <2>1. Parent[x] \in Task \cup {NoTask} /\ x = tx[q].t
    BY <1>0, <1>1, Committing, IdsAssumption DEF BoardInv
  <2>2. Inserted(x) \in Board!Row
    BY <2>1 DEF Inserted, Board!Row, Board!State, Board!Type
  <2>3. tx[q].draft[x] = [state |-> "todo", assignee |-> Nobody]
    BY <1>1, <2>1, Committing
  <2>4. Written(q, x) = Inserted(x)
    BY <1>1 DEF Written
  <2>. QED BY <2>2, <2>3, <2>4 DEF Inserted
<1>2. CASE tx[q].op # "create"
  <2>1. x \in Live
    <3>1. /\ tx[q].op \in {"set", "close"} => Drafted(q) = RolledUp(q) \cup {tx[q].t} /\ tx[q].t \in Live
          /\ tx[q].op = "visit" => Drafted(q) = RolledUp(q)
          /\ tx[q].op \in {"claim", "next"} => Drafted(q) = {tx[q].t} /\ tx[q].t \in Live
          /\ RolledUp(q) \subseteq Live
      BY Committing DEF TakenBy
    <3>. QED BY <1>0, <1>2, <3>1 DEF OP
  <2>2. /\ board[x] \in Board!Row /\ board[x].parent = Parent[x]
        /\ board[x].type = "feature" <=> x \in Feature
        /\ board[x].state = row[x].state /\ board[x].assignee = row[x].assignee
        /\ row[x] \in Row
    BY <1>0, <2>1 DEF BoardAgrees, BoardInv
  <2>3. CASE tx[q].op \in {"claim", "next"}
    <3>1. /\ Written(q, x) = Board!ClaimTask(board[x], tx[q].u)
          /\ tx[q].draft[x] = [state |-> "doing", assignee |-> tx[q].u]
      BY <2>3, Committing DEF Written, TakenBy
    <3>. QED BY <1>0, <2>2, <3>1, RowUpdates
  <2>4. CASE tx[q].op \in {"set", "close"} /\ x = tx[q].t
    <3>1. /\ Written(q, x) = Board!Moved(board[x], tx[q].s, tx[q].u)
          /\ tx[q].draft[x] = MovedTo(row[x], tx[q].s, tx[q].u)
      BY <2>4, Committing DEF Written
    <3>. QED BY <1>0, <2>2, <3>1, RowUpdates DEF MovedTo
  <2>5. CASE x \in RolledUp(q)
    <3>1. /\ Written(q, x) = Board!SetTaskDone(board[x])
          /\ tx[q].draft[x] = [row[x] EXCEPT !.state = "done"]
      BY <2>5, Committing DEF Written, RolledUp
    <3>2. tx[q].draft[x].state = "done" /\ tx[q].draft[x].assignee = row[x].assignee
      BY <2>2, <3>1 DEF Row
    <3>. QED BY <1>0, <2>2, <3>1, <3>2, RowUpdates
  <2>6. /\ tx[q].op \in {"set", "close"} => Drafted(q) = RolledUp(q) \cup {tx[q].t}
        /\ tx[q].op = "visit" => Drafted(q) = RolledUp(q)
    BY Committing
  <2>. QED BY <1>0, <1>2, <2>3, <2>4, <2>5, <2>6 DEF OP
<1>. QED BY <1>1, <1>2

LEMMA CommitAgrees ==
  ASSUME IInv, BoardAgrees, NEW q \in Proc, Tracked(q), Commits(q)
  PROVE  BoardAgrees'
<1>1. /\ tx[q].pc = "commit" /\ row' = View(q) /\ BoardInv
      /\ board' = [x \in DOMAIN View(q) |-> IF x \in Drafted(q) THEN Written(q, x) ELSE board[x]]
  BY DEF Commits, Commit, Drafted, IInv
<1>2. /\ Live' = Live \cup Drafted(q) /\ DOMAIN View(q) = Live'
      /\ \A x \in Drafted(q) : row'[x] = tx[q].draft[x]
      /\ \A x \in Live \ Drafted(q) : row'[x] = row[x]
  BY <1>1, ViewOK DEF Live
<1>3. ASSUME NEW x \in Live'
      PROVE  /\ board'[x] \in Board!Row /\ board'[x].parent = Parent[x]
             /\ board'[x].type = "feature" <=> x \in Feature
             /\ board'[x].state = row'[x].state /\ board'[x].assignee = row'[x].assignee
  <2>1. CASE x \in Drafted(q)
    <3>1. board'[x] = Written(q, x) /\ row'[x] = tx[q].draft[x]
      BY <1>1, <1>2, <2>1
    <3>. QED BY <1>1, <2>1, <3>1, WrittenAgrees
  <2>2. CASE x \notin Drafted(q)
    BY <1>1, <1>2, <1>3, <2>2 DEF BoardAgrees
  <2>. QED BY <2>1, <2>2
<1>4. board' = [x \in Live' |-> board'[x]]
  BY <1>1, <1>2
<1>5. Board!Row' = Board!Row
  BY DEF Board!Row, Board!State, Board!Type
<1>. QED BY <1>3, <1>4, <1>5 DEF BoardAgrees

-----------------------------------------------------------------------------
LEMMA InitTracked == TrackedInit => TrackedInv
<1>. SUFFICES ASSUME TrackedInit PROVE TrackedInv
  OBVIOUS
<1>1. Init /\ Live = Present /\ IInv /\ \A p \in Proc : tx[p] = Idle
  BY InitIInv DEF TrackedInit, Init, Live
<1>2. BoardAgrees
  <2>1. \A x \in Present : Inserted(x) \in Board!Row
    BY IdsAssumption DEF Inserted, Board!Row, Board!State, Board!Type
  <2>2. board = [x \in Live |-> board[x]]
    BY <1>1 DEF TrackedInit
  <2>3. ASSUME NEW x \in Live
        PROVE  /\ board[x] = Inserted(x) /\ x \in Present
               /\ row[x] = [state |-> "todo", assignee |-> Nobody]
    BY <1>1, <2>3 DEF TrackedInit, Init
  <2>. QED BY <2>1, <2>2, <2>3 DEF BoardAgrees, Inserted
<1>3. ASSUME NEW p \in Proc PROVE Tracked(p)
  <2>1. tx[p] = Idle /\ RolledUp(p) = {} /\ NeedsClosedChildren(p) = {}
    BY <1>1, IdleOK DEF RolledUp, NeedsClosedChildren
  <2>. QED BY <2>1, IdleOK DEF Tracked, PlanInv, ClimbInv, LateInv, Writing, Moving
<1>. QED BY <1>2, <1>3 DEF TrackedInv

LEMMA NextTracked ==
  IInv /\ IInv' /\ WalkInv /\ TrackedInv /\ [TrackedNext]_trackedVars => TrackedInv'
<1>. SUFFICES ASSUME IInv, IInv', WalkInv, TrackedInv, [TrackedNext]_trackedVars
              PROVE  TrackedInv'
  OBVIOUS
<1>0. BoardInv /\ Live \subseteq Task
  BY DEF IInv, BoardInv
<1>1. ASSUME row' = row, board' = board PROVE BoardAgrees'
  BY <1>1 DEF TrackedInv, BoardAgrees, Live, Board!Row, Board!State, Board!Type
<1>2. ASSUME LateStep, NEW q \in Proc,
             SomeCall(q) \/ Statement(q) \/ BreakDeadlock(q) \/ Cancel(q), NEW p \in Proc
      PROVE  Tracked(p)'
  <2>1. Tracked(p) /\ Tracked(q) /\ ChainInv(q)
    BY DEF TrackedInv, WalkInv
  <2>2. CASE p = q
    BY <1>2, <2>1, <2>2, TrackedOwn
  <2>3. CASE p # q
    BY <1>2, <2>1, <2>3, StepKinds, TrackedOthers
  <2>. QED BY <2>2, <2>3
<1>3. CASE UNCHANGED trackedVars
  <2>1. UNCHANGED <<row, deps, asking, tx, upd, shr, board, late>>
    BY <1>3 DEF trackedVars, vars
  <2>2. ASSUME NEW p \in Proc PROVE Tracked(p)'
    <3>1. Tracked(p)
      BY DEF TrackedInv
    <3>. QED BY <2>1, <3>1 DEF Tracked, PlanInv, ClimbInv, LateInv, RolledUp, NeedsClosedChildren,
           AsksPreconditions, Start, Drafted, TakenBy, Held, Live, WaitsLate, ChildrenLate, OpenChildren
  <2>. QED BY <1>1, <2>1, <2>2 DEF TrackedInv
<1>4. ASSUME NEW q \in Proc, Commits(q), LateStep PROVE TrackedInv'
  <2>1. BoardAgrees'
    BY <1>4, CommitAgrees DEF TrackedInv
  <2>2. Statement(q)
    BY <1>4 DEF Statement, Commits
  <2>. QED BY <1>2, <1>4, <2>1, <2>2 DEF TrackedInv
<1>5. ASSUME NEW q \in Proc, SomeCall(q) \/ Work(q) \/ BreakDeadlock(q) \/ Cancel(q),
             board' = board, LateStep
      PROVE  TrackedInv'
  <2>1. SomeCall(q) => row' = row
    BY DEF SomeCall, CallSetState, CallClose, CallClaim, CallClaimNext, CallAsk, CallAddDep,
           CallCreate, Visit, Call, Goto
  <2>2. Work(q) => row' = row
    BY DEF Work, InsertComment, LockTask, MoveTask, LockParent, CountChildren, ClaimTask,
           SelectCandidates, PickCandidate, AskQuestion, InsertTask, LockGraph, LockLowRow,
           LockHighRow, CheckCycle, Goto, Rollback
  <2>3. BoardAgrees'
    BY <1>1, <1>5, <2>1, <2>2 DEF BreakDeadlock, Cancel, Rollback
  <2>. QED BY <1>2, <1>5, <2>3 DEF TrackedInv, Statement
<1>6. ASSUME NEW e \in deps, RemoveDependency(e), board' = board, LateStep PROVE TrackedInv'
  <2>1. tx' = tx /\ row' = row /\ upd' = upd /\ Live' = Live
    BY <1>6 DEF RemoveDependency, Live
  <2>2. \A p \in Proc, x \in Task : Held(p, x) => Held(p, x)'
    BY <2>1 DEF Held
  <2>3. ASSUME NEW p \in Proc PROVE Tracked(p)'
    BY <1>0, <1>6, <2>1, <2>2, TrackedFrame DEF TrackedInv
  <2>. QED BY <1>1, <1>6, <2>1, <2>3 DEF TrackedInv
<1>. QED BY <1>3, <1>4, <1>5, <1>6 DEF TrackedNext, LateStep

\* Each transaction's drafts, its walk and its late work are as they should be,
\* and the recorded board shows the committed rows.
THEOREM BoardIsRecorded == TrackedSpec => []TrackedInv
<1>. QED BY TrackedIsTx, LocksKeepTheirPromise, WalksHoldTheirParents, InitTracked, NextTracked,
            PTL DEF TrackedSpec

LEMMA NoOwnParent == \A x \in Task : Parent[x] # x
<1>. SUFFICES ASSUME NEW x \in Task, Parent[x] = x PROVE FALSE
  OBVIOUS
<1>1. {x} \in SUBSET Task /\ {x} # {}
  OBVIOUS
<1>. QED BY <1>1, ForestAssumption

\* What a transaction closes is closed in its view.
LEMMA ClosesAll ==
  ASSUME IInv, NEW q \in Proc, Tracked(q), tx[q].pc = "commit",
         tx[q].op = "visit" \/ (tx[q].op \in {"set", "close"} /\ tx[q].s \in Closed)
  PROVE  /\ \A x \in Drafted(q) : tx[q].draft[x].state \in Closed /\ x \in Live
         /\ \A x \in RolledUp(q) : tx[q].draft[x].state = "done"
<1>1. BoardInv /\ tx[q] \in Tx
  BY DEF IInv, BoardInv
<1>2. ASSUME NEW x \in RolledUp(q) PROVE tx[q].draft[x].state = "done" /\ x \in Live
  <2>1. x \in Live /\ row[x] \in Row /\ tx[q].draft[x] = [row[x] EXCEPT !.state = "done"]
    BY <1>1, Committing DEF BoardInv
  <2>. QED BY <2>1 DEF Row
<1>3. tx[q].op \in {"set", "close"} => tx[q].draft[tx[q].t].state \in Closed /\ tx[q].t \in Live
  <2>. SUFFICES ASSUME tx[q].op \in {"set", "close"}
                PROVE  tx[q].draft[tx[q].t].state \in Closed /\ tx[q].t \in Live
    OBVIOUS
  <2>1. tx[q].s \in Closed /\ tx[q].t \in Live
        /\ tx[q].draft[tx[q].t] = MovedTo(row[tx[q].t], tx[q].s, tx[q].u)
    BY Committing
  <2>. QED BY <2>1 DEF MovedTo
<1>. QED BY <1>2, <1>3, Committing DEF Closed

\* What stands in the way of a commit was opened while the call was under way.
LEMMA LateWorkOvertakes ==
  ASSUME IInv, TrackedInv, NEW p \in Proc, tx[p].pc = "commit"
  PROVE  InTheWay(p) \subseteq late[p]
<1>0. Tracked(p) /\ LateInv(p) /\ PlanInv(p) /\ BoardInv /\ Live \subseteq Task /\ tx[p].pc \in Writing
  BY DEF TrackedInv, Tracked, IInv, BoardInv, Writing
<1>1. AsksPreconditions(p) => Unresolved(tx[p].t) \subseteq late[p]
  BY <1>0 DEF LateInv, WaitsLate, Unresolved, Preconditions
<1>2. ASSUME NEW x \in NeedsClosedChildren(p), NEW c \in OpenChildren(View(p), x)
      PROVE  c \in late[p]
  <2>0. /\ c \in Live \cup Drafted(p) /\ Parent[c] = x /\ View(p)[c].state \notin Closed
        /\ c \in Drafted(p) => View(p)[c] = tx[p].draft[c] /\ c \in Task
        /\ c \in Live \ Drafted(p) => View(p)[c] = row[c]
    BY <1>0, ViewOK DEF OpenChildren
  <2>1. c \notin Drafted(p)
    <3>1. CASE x \in RolledUp(p)
      <4>1. tx[p].op = "visit" \/ (tx[p].op \in {"set", "close"} /\ tx[p].s \in Closed)
        BY <1>0, <3>1 DEF RolledUp, PlanInv, Moving, Drafted
      <4>. QED BY <1>0, <2>0, <4>1, ClosesAll
    <3>2. CASE tx[p].op \in {"claim", "next"} /\ x = tx[p].t
      <4>1. Drafted(p) = {tx[p].t} /\ tx[p].t \in Live
        BY <1>0, <3>2, Committing DEF TakenBy
      <4>. QED BY <1>0, <2>0, <3>2, <4>1, NoOwnParent
    <3>. QED BY <3>1, <3>2 DEF NeedsClosedChildren
  <2>2. ChildrenLate(p, x)
    BY <1>0 DEF LateInv
  <2>. QED BY <2>0, <2>1, <2>2 DEF ChildrenLate
<1>. QED BY <1>1, <1>2 DEF InTheWay

\* The rows a transaction has rolled up when it commits are those TaskBoard's
\* roll-up closes: its walk stopped at a row that is done or has an open child.
LEMMA RollUpMatches ==
  ASSUME IInv, NEW p \in Proc, ChainInv(p), Tracked(p), tx[p].pc = "commit", InTheWay(p) = {},
         tx[p].op = "visit" \/ (tx[p].op \in {"set", "close"} /\ tx[p].s \in Closed),
         NEW table, DOMAIN table = Live, \A x \in Live : table[x].parent = Parent[x],
         \A x \in Live \ RolledUp(p) : table[x].state = View(p)[x].state,
         \A x \in RolledUp(p) : table[x].state = row[x].state
  PROVE  Board!RollUp(table, Start(p)) = RolledUp(p)
<1>. DEFINE W == RolledUp(p)
            start == Start(p)
            at == tx[p].at
<1>0. BoardInv /\ Live \subseteq Task /\ tx[p].pc \in Writing /\ ClimbInv(p)
  BY DEF IInv, BoardInv, Writing, Tracked
<1>1. Climbs(W, start, at)
  BY <1>0 DEF ClimbInv, Moving
<1>2. /\ W \subseteq Live /\ W \subseteq Drafted(p) /\ \A x \in W : table[x].state # "done"
      /\ Drafted(p) \subseteq Live
      /\ \A x \in Drafted(p) : tx[p].draft[x].state \in Closed
      /\ \A x \in Drafted(p) \ W : tx[p].op # "visit" /\ x = tx[p].t
      /\ tx[p].op \in {"set", "close"} => tx[p].t \in Drafted(p)
  BY Committing, ClosesAll DEF RolledUp, Drafted
<1>3. /\ DOMAIN View(p) = Live
      /\ \A x \in Drafted(p) : View(p)[x] = tx[p].draft[x]
      /\ \A x \in Live \ Drafted(p) : View(p)[x] = row[x]
  BY <1>0, <1>2, ViewOK
<1>4. \A x \in DOMAIN table : Parent[x] \in W => table[x].state \in Board!Closed \/ x \in W
  <2>. SUFFICES ASSUME NEW x \in Live, Parent[x] \in W, x \notin W, table[x].state \notin Closed
                PROVE  FALSE
    BY DEF Board!Closed, Closed
  <2>1. x \in OpenChildren(View(p), Parent[x])
    BY <1>3 DEF OpenChildren
  <2>. QED BY <2>1 DEF InTheWay, NeedsClosedChildren
<1>5. ASSUME NEW c \in Drafted(p), Parent[c] \notin W
      PROVE  ~ Board!RollsUp(table, Parent[c], W)
  <2>. SUFFICES ASSUME Parent[c] \in Live, table[Parent[c]].state # "done"
                PROVE  \E x \in Live : Parent[x] = Parent[c] /\ table[x].state \notin Closed /\ x \notin W
    BY DEF Board!RollsUp, Board!Closed, Closed
  <2>1. View(p)[Parent[c]].state # "done" /\ Parent[c] # NoTask
    BY <1>0, <1>5, IdsAssumption
  <2>2. ParentOpen(p, c)
    BY <1>2, <2>1 DEF ChainInv, ParentDone
  <2>3. PICK x \in Live : Parent[x] = Parent[c] /\ View(p)[x].state \notin Closed
    BY <1>3, <2>2 DEF ParentOpen, OpenChildren
  <2>4. x \notin W
    BY <1>2, <1>3, <2>3
  <2>. QED BY <2>3, <2>4
<1>6. start \notin W => ~ Board!RollsUp(table, start, W)
  <2>. SUFFICES ASSUME start \notin W PROVE ~ Board!RollsUp(table, start, W)
    OBVIOUS
  <2>1. W = {}
    BY <1>1 DEF Climbs
  <2>2. CASE tx[p].op \in {"set", "close"}
    BY <1>2, <1>5, <2>2 DEF Start
  <2>3. CASE tx[p].op = "visit"
    <3>1. start = tx[p].t /\ start \in Live /\ Drafted(p) = {}
      BY <2>1, <2>3, Committing DEF Start
    <3>2. row[start].state = "done" \/ OpenChildren(row, start) # {}
      BY <1>0, <2>3, <3>1 DEF ClimbInv
    <3>3. CASE row[start].state = "done"
      BY <1>3, <2>1, <3>1, <3>3 DEF Board!RollsUp
    <3>4. ASSUME NEW x \in OpenChildren(row, start) PROVE ~ Board!RollsUp(table, start, W)
      <4>1. x \in Live /\ Parent[x] = start /\ table[x].state \notin Closed /\ x \notin W
        BY <1>3, <2>1, <3>1, <3>4 DEF OpenChildren, Live
      <4>. QED BY <4>1 DEF Board!RollsUp, Board!Closed, Closed
    <3>. QED BY <3>2, <3>3, <3>4
  <2>. QED BY <2>2, <2>3
<1>7. \A x \in W : Parent[x] \notin W => ~ Board!RollsUp(table, Parent[x], W)
  BY <1>2, <1>5
<1>. HIDE DEF W, start, at
<1>8. W \subseteq DOMAIN table /\ DOMAIN table \subseteq Task
      /\ (\A x \in DOMAIN table : table[x].parent = Parent[x]) /\ \A x \in W : table[x].state # "done"
  BY <1>0, <1>2
<1>9. Board!RollUp(table, start) = W
  BY <1>1, <1>4, <1>6, <1>7, <1>8, RollUpIsWalk
<1>. QED BY <1>9 DEF W, start

-----------------------------------------------------------------------------
(* Each commit is its operation of TaskBoard. *)

\* What a commit of p leaves.
Committed(p) ==
  /\ tx[p].pc = "commit"
  /\ board' = [x \in Live \cup Drafted(p) |-> IF x \in Drafted(p) THEN Written(p, x) ELSE board[x]]
  /\ deps' = IF tx[p].op = "dep" THEN deps \cup {<<tx[p].t, tx[p].at>>} ELSE deps
  /\ asking' = (asking \ {x \in Drafted(p) : tx[p].draft[x].state \in Closed})
                 \cup (IF tx[p].op = "ask" THEN {tx[p].t} ELSE {})
  /\ DOMAIN board = Live /\ board = [x \in Live |-> board[x]]
  /\ \A x \in Live : /\ board[x] \in Board!Row
                     /\ board[x].parent = Parent[x] /\ board[x].state = row[x].state
                     /\ board[x].type = "feature" <=> x \in Feature
                     /\ board[x].assignee = row[x].assignee

LEMMA CommitFacts ==
  ASSUME IInv, BoardAgrees, NEW p \in Proc, Commits(p)
  PROVE  Committed(p)
<1>1. DOMAIN View(p) = Live \cup Drafted(p)
  BY ViewOK DEF IInv
<1>2. DOMAIN board = Live
  BY DEF BoardAgrees
<1>. QED BY <1>1, <1>2 DEF Commits, Commit, Committed, BoardAgrees, Drafted

LEMMA CreateCommits ==
  ASSUME IInv, NEW p \in Proc, Tracked(p), Committed(p), tx[p].op = "create"
  PROVE  Board!Create(tx[p].t, Inserted(tx[p].t).type, Parent[tx[p].t], Nobody, FALSE)
<1>. DEFINE t == tx[p].t
<1>1. /\ Drafted(p) = {t} /\ t \in Task \ Live /\ tx[p].draft[t] = [state |-> "todo", assignee |-> Nobody]
      /\ Parent[t] \in Live \cup {NoTask} /\ Written(p, t) = Inserted(t)
  BY Committing DEF Committed, Written
<1>2. deps' = deps /\ asking' = asking
  BY <1>1 DEF Committed, Closed
<1>3. board' = [x \in Live \cup {t} |-> IF x # t THEN board[x] ELSE Inserted(t)]
  BY <1>1 DEF Committed
<1>4. Inserted(t) = [type |-> Inserted(t).type, state |-> "todo", parent |-> Parent[t],
                     assignee |-> Nobody, session |-> NoTask, started |-> FALSE, ended |-> FALSE]
  BY DEF Inserted
<1>5. DOMAIN board = Live
  BY DEF Committed
<1>. HIDE DEF t
<1>6. Board!Create(t, Inserted(t).type, Parent[t], Nobody, FALSE)
  BY <1>1, <1>2, <1>3, <1>4, <1>5 DEF Board!Create, Board!Live
<1>. QED BY <1>6 DEF t

\* A claim, by id or the next one.
LEMMA ClaimCommits ==
  ASSUME IInv, NEW p \in Proc, Tracked(p), Committed(p), tx[p].op \in {"claim", "next"}, InTheWay(p) = {}
  PROVE  BoardStep(p)
<1>. DEFINE t == tx[p].t
            u == tx[p].u
<1>0. BoardInv /\ PlanInv(p) /\ tx[p].pc = "commit" /\ Live \subseteq Task
  BY DEF IInv, BoardInv, Tracked, Committed
<1>1. /\ Drafted(p) = {t} /\ t \in Live /\ tx[p].draft[t].state = "doing"
      /\ Written(p, t) = Board!ClaimTask(board[t], u)
  <2>1. TakenBy(p) /\ t \in Live
    BY <1>0, Committing
  <2>2. Written(p, t) = Board!ClaimTask(board[t], u)
    BY DEF Written
  <2>. QED BY <2>1, <2>2 DEF TakenBy
<1>2. deps' = deps /\ asking' = asking
  BY <1>1 DEF Committed, Closed
<1>3. board' = [board EXCEPT ![t] = Board!ClaimTask(board[t], u)]
  BY <1>1 DEF Committed
<1>4. Unresolved(t) = {} /\ (t \in Feature => OpenChildren(View(p), t) = {})
  BY DEF InTheWay, AsksPreconditions, NeedsClosedChildren
<1>5. Board!Unresolved(t) = {}
  BY <1>4 DEF Board!Unresolved, Board!Live, Board!Closed, Unresolved, Preconditions, Closed, Committed
<1>6. ASSUME board[t].type = "feature" PROVE Board!OpenChildren(t) = {}
  <2>. SUFFICES ASSUME NEW c \in Live, Parent[c] = t, row[c].state \notin Closed PROVE FALSE
    BY DEF Board!OpenChildren, Board!Children, Board!Live, Board!Closed, Closed, Committed
  <2>1. c # t /\ View(p)[c] = row[c] /\ c \in DOMAIN View(p)
    BY <1>0, <1>1, NoOwnParent, ViewOK
  <2>2. t \in Feature
    BY <1>1, <1>6 DEF Committed
  <2>. QED BY <1>4, <2>1, <2>2 DEF OpenChildren
<1>7. board[t].state = row[t].state /\ board[t].assignee = row[t].assignee /\ DOMAIN board = Live
  BY <1>1 DEF Committed
<1>8. CASE tx[p].op = "claim"
  <2>1. row[t].state \notin {"done", "doing"} /\ row[t].assignee \in {Nobody, u}
    BY <1>0, <1>8 DEF PlanInv
  <2>2. Board!Claim(t, u)
    BY <1>1, <1>2, <1>3, <1>5, <1>6, <1>7, <2>1 DEF Board!Claim, Board!Live
  <2>. QED BY <1>8, <2>2 DEF BoardStep
<1>9. CASE tx[p].op = "next"
  <2>1. row[t].state = "todo"
    BY <1>0, <1>9 DEF PlanInv
  <2>2. Board!ClaimNext(t, u)
    BY <1>1, <1>2, <1>3, <1>5, <1>6, <1>7, <2>1
       DEF Board!ClaimNext, Board!ClaimNextEligible, Board!Live
  <2>. QED BY <1>9, <2>2 DEF BoardStep
<1>. QED BY <1>8, <1>9

\* A new edge, a question.
LEMMA EdgeCommits ==
  ASSUME IInv, NEW p \in Proc, Tracked(p), Committed(p), tx[p].op \in {"dep", "ask"}
  PROVE  BoardStep(p)
<1>0. TxInv(p) /\ tx[p].pc = "commit" /\ Drafted(p) = {}
  BY Committing DEF IInv, Committed
<1>1. board' = board
  BY <1>0 DEF Committed
<1>2. CASE tx[p].op = "dep"
  <2>1. tx[p].t \in Live /\ tx[p].at \in Live /\ tx[p].t # tx[p].at /\ tx[p].t \notin ReachableFrom(tx[p].at)
    BY <1>0, <1>2 DEF TxInv, GraphInv
  <2>2. ~ Board!WouldCreateCycle(tx[p].t, tx[p].at)
    BY <2>1 DEF Board!WouldCreateCycle, Board!ReachableFrom, ReachableFrom
  <2>3. asking' = asking /\ deps' = deps \cup {<<tx[p].t, tx[p].at>>}
    BY <1>0, <1>2 DEF Committed
  <2>4. Board!AddDependency(tx[p].t, tx[p].at)
    BY <1>1, <2>1, <2>2, <2>3 DEF Board!AddDependency, Board!Live, Committed
  <2>. QED BY <1>2, <2>4 DEF BoardStep
<1>3. CASE tx[p].op = "ask"
  <2>1. tx[p].t \in Live /\ row[tx[p].t].state \notin Closed
    BY <1>0, <1>3 DEF TxInv, PlaceInv, ReadInv, TakesTask
  <2>2. asking' = asking \cup {tx[p].t} /\ deps' = deps
    BY <1>0, <1>3 DEF Committed
  <2>3. Board!Ask(tx[p].t)
    BY <1>1, <2>1, <2>2 DEF Board!Ask, Board!Live, Board!Closed, Closed, Committed
  <2>. QED BY <1>3, <2>3 DEF BoardStep
<1>. QED BY <1>2, <1>3

\* A move that closes nothing.
LEMMA ReopenCommits ==
  ASSUME IInv, NEW p \in Proc, Tracked(p), Committed(p), tx[p].op \in {"set", "close"},
         tx[p].s \notin Closed
  PROVE  Board!SetState(tx[p].t, tx[p].s, tx[p].u)
<1>. DEFINE t == tx[p].t
            s == tx[p].s
            u == tx[p].u
            moved == [board EXCEPT ![t] = Board!Moved(board[t], s, u)]
<1>0. PlanInv(p) /\ tx[p].pc = "commit" /\ DOMAIN board = Live
  BY DEF Tracked, Committed
<1>1. /\ Drafted(p) = {t} /\ t \in Live /\ tx[p].draft[t].state = s /\ MayTurn(row[t].state, s)
      /\ Written(p, t) = Board!Moved(board[t], s, u)
  <2>1. t \in Live /\ tx[p].draft[t] = MovedTo(row[t], s, u)
    BY <1>0, Committing
  <2>2. Drafted(p) = {t} /\ MayTurn(row[t].state, s)
    BY <1>0 DEF PlanInv, Moving, Writing
  <2>. QED BY <2>1, <2>2 DEF MovedTo, Written
<1>2. deps' = deps /\ asking' = asking \ {}
  BY <1>1 DEF Committed
<1>3. board' = Board!Shut(moved, {})
  <2>1. board' = moved /\ DOMAIN moved = Live
    BY <1>0, <1>1 DEF Committed
  <2>2. moved = [x \in Live |-> moved[x]]
    BY <1>0
  <2>. HIDE DEF moved
  <2>. QED BY <2>1, <2>2 DEF Board!Shut
<1>4. Board!MayMove(t, s)
  <2>1. board[t].state = row[t].state
    BY <1>1 DEF Committed
  <2>. QED BY <1>1, <2>1 DEF Board!MayMove, MayTurn, Closed
<1>5. s \notin Board!Closed
  BY DEF Board!Closed, Closed
<1>. HIDE DEF t, s, u
<1>6. Board!SetState(t, s, u)
  BY <1>0, <1>1, <1>2, <1>3, <1>4, <1>5 DEF Board!SetState, Board!Live
<1>. QED BY <1>6 DEF t, s, u

\* A close, with its roll-up and the questions it withdraws.
LEMMA CloseCommits ==
  ASSUME IInv, NEW p \in Proc, ChainInv(p), Tracked(p), Committed(p), InTheWay(p) = {},
         tx[p].op \in {"set", "close"}, tx[p].s \in Closed
  PROVE  Board!SetState(tx[p].t, tx[p].s, tx[p].u)
<1>. DEFINE t == tx[p].t
            s == tx[p].s
            u == tx[p].u
            W == RolledUp(p)
            moved == [board EXCEPT ![t] = Board!Moved(board[t], s, u)]
<1>0. /\ BoardInv /\ PlanInv(p) /\ tx[p].pc = "commit" /\ DOMAIN board = Live /\ Live \subseteq Task
  BY DEF IInv, BoardInv, Tracked, Committed
<1>0a. \A x \in Live : /\ board[x] \in Board!Row /\ board[x].parent = Parent[x]
                       /\ board[x].state = row[x].state
                       /\ board[x].type = "feature" <=> x \in Feature
  BY DEF Committed
<1>1. /\ Drafted(p) = W \cup {t} /\ t \notin W /\ t \in Live /\ W \subseteq Live
      /\ tx[p].draft[t] = MovedTo(row[t], s, u)
      /\ \A x \in Drafted(p) : tx[p].draft[x].state \in Closed
      /\ MayTurn(row[t].state, s)
  BY <1>0, Committing, ClosesAll DEF PlanInv, Moving, Writing
<1>2. deps' = deps /\ asking' = asking \ (W \cup {t})
  BY <1>1 DEF Committed
<1>3. /\ Written(p, t) = Board!Moved(board[t], s, u)
      /\ \A x \in W : Written(p, x) = Board!SetTaskDone(board[x])
  BY <1>1 DEF Written
<1>4. /\ DOMAIN moved = Live /\ moved[t] = Board!Moved(board[t], s, u)
      /\ \A x \in Live : x # t => moved[x] = board[x]
  BY <1>0, <1>1
<1>. HIDE DEF moved
<1>5. board' = Board!Shut(moved, W)
  BY <1>1, <1>3, <1>4 DEF Committed, Board!Shut
<1>6. Board!RollUp(moved, Parent[t]) = W
  <2>1. moved[t].state = s /\ moved[t].parent = Parent[t]
    <3>1. tx[p] \in Tx
      BY <1>0 DEF BoardInv
    <3>2. board[t] \in Board!Row /\ s \in State /\ u \in User \cup {Nobody}
      BY <1>0a, <1>1, <3>1 DEF Tx
    <3>. HIDE DEF t, s, u
    <3>3. \A r \in Board!Row, x \in State, y \in User \cup {Nobody} :
            Board!Moved(r, x, y).state = x /\ Board!Moved(r, x, y).parent = r.parent
      BY RowUpdates
    <3>4. Board!Moved(board[t], s, u).state = s
          /\ Board!Moved(board[t], s, u).parent = board[t].parent
      BY <3>2, <3>3
    <3>. QED BY <1>0a, <1>1, <1>4, <3>4
  <2>2. \A x \in Live : moved[x].parent = Parent[x]
    BY <1>0a, <1>4, <2>1
  <2>3. \A x \in Live \ W : moved[x].state = View(p)[x].state
    <3>1. View(p)[t].state = s
      <4>1. View(p)[t] = tx[p].draft[t]
        BY <1>0, <1>1, ViewOK
      <4>2. tx[p].draft[t].state = s
        BY <1>1 DEF MovedTo
      <4>. QED BY <4>1, <4>2
    <3>2. \A x \in Live \ Drafted(p) : View(p)[x] = row[x]
      BY <1>0, ViewOK
    <3>. QED BY <1>0a, <1>1, <1>4, <2>1, <3>1, <3>2
  <2>4. \A x \in W : moved[x].state = row[x].state
    BY <1>0a, <1>1, <1>4
  <2>5. Board!RollUp(moved, Start(p)) = RolledUp(p)
    BY <1>0, <1>4, <2>2, <2>3, <2>4, RollUpMatches
  <2>. QED BY <2>5 DEF Start
<1>7. Board!MayMove(t, s)
  <2>1. board[t].state = row[t].state /\ (board[t].type = "feature" <=> t \in Feature)
    BY <1>0a, <1>1
  <2>2. (s = "done" /\ t \notin Feature) => Board!Unresolved(t) = {}
    <3>. SUFFICES ASSUME s = "done", t \notin Feature PROVE Board!Unresolved(t) = {}
      OBVIOUS
    <3>1. Unresolved(t) = {}
      BY DEF InTheWay, AsksPreconditions
    <3>. QED BY <1>0, <1>0a, <3>1 DEF Unresolved, Preconditions, Board!Unresolved, Board!Live,
                                      Board!Closed, Closed
  <2>. QED BY <1>1, <2>1, <2>2 DEF Board!MayMove, MayTurn
<1>8. s \in Board!Closed /\ board[t].parent = Parent[t]
  BY <1>0a, <1>1 DEF Board!Closed, Closed
<1>9. moved = [board EXCEPT ![t] = Board!Moved(board[t], s, u)]
  BY DEF moved
<1>. HIDE DEF t, s, u, W
<1>10. Board!SetState(t, s, u)
  BY <1>0, <1>1, <1>2, <1>5, <1>6, <1>7, <1>8, <1>9 DEF Board!SetState, Board!Live
<1>. QED BY <1>10 DEF t, s, u

\* A visit of the reconciler.
LEMMA VisitCommits ==
  ASSUME IInv, NEW p \in Proc, ChainInv(p), Tracked(p), Committed(p), InTheWay(p) = {},
         tx[p].op = "visit"
  PROVE  BoardStep(p)
<1>. DEFINE t == tx[p].t
            W == RolledUp(p)
<1>0. /\ BoardInv /\ tx[p].pc = "commit" /\ DOMAIN board = Live
      /\ \A x \in Live : board[x].parent = Parent[x] /\ board[x].state = row[x].state
  BY DEF IInv, Committed
<1>1. /\ Drafted(p) = W /\ W \subseteq Live /\ \A x \in W : tx[p].draft[x].state \in Closed
  BY <1>0, Committing, ClosesAll
<1>2. deps' = deps /\ asking' = asking \ W
  BY <1>1 DEF Committed
<1>3. \A x \in W : Written(p, x) = Board!SetTaskDone(board[x])
  BY DEF Written
<1>4. board' = Board!Shut(board, W)
  <2>1. Live \cup Drafted(p) = Live
    BY <1>1
  <2>2. board' = [x \in Live |-> IF x \in W THEN Board!SetTaskDone(board[x]) ELSE board[x]]
    BY <1>1, <1>3, <2>1 DEF Committed
  <2>. QED BY <1>0, <2>2 DEF Board!Shut
<1>5. Board!RollUp(board, t) = W
  <2>1. \A x \in Live \ W : board[x].state = View(p)[x].state
    <3>1. \A x \in Live \ Drafted(p) : View(p)[x] = row[x]
      BY <1>0, ViewOK
    <3>. QED BY <1>0, <1>1, <3>1
  <2>2. /\ \A x \in Live : board[x].parent = Parent[x]
        /\ \A x \in W : board[x].state = row[x].state
    BY <1>0, <1>1
  <2>3. Board!RollUp(board, Start(p)) = RolledUp(p)
    BY <1>0, <2>1, <2>2, RollUpMatches
  <2>. QED BY <2>3 DEF Start
<1>. HIDE DEF W
<1>. QED BY <1>2, <1>4, <1>5 DEF BoardStep

\* Seen from outside, a transaction of many statements is one atomic operation
\* of TaskBoard, unless work opened under way has overtaken it.
THEOREM CommitsImplementBoard == TrackedSpec => CommitsAreBoardSteps
<1>1. IInv /\ WalkInv /\ TrackedInv =>
        [\A p \in Proc : Commits(p) => Overtaken(p) \/ BoardStep(p)]_trackedVars
  <2>. SUFFICES ASSUME IInv, WalkInv, TrackedInv, NEW p \in Proc, Commits(p), ~ Overtaken(p)
                PROVE  BoardStep(p)
    OBVIOUS
  <2>1. Committed(p) /\ Tracked(p) /\ ChainInv(p) /\ tx[p].pc = "commit"
    BY CommitFacts DEF TrackedInv, WalkInv, Committed
  <2>2. InTheWay(p) = {}
    BY <2>1, LateWorkOvertakes DEF Overtaken
  <2>3. tx[p].op \in OP \ {"none"}
    BY <2>1, Committing
  <2>4. CASE tx[p].op \in {"set", "close"}
    <3>1. Board!SetState(tx[p].t, tx[p].s, tx[p].u)
      BY <2>1, <2>2, <2>4, ReopenCommits, CloseCommits
    <3>. QED BY <2>4, <3>1 DEF BoardStep
  <2>5. CASE tx[p].op = "create"
    <3>1. Board!Create(tx[p].t, Inserted(tx[p].t).type, Parent[tx[p].t], Nobody, FALSE)
      BY <2>1, <2>5, CreateCommits
    <3>. QED BY <2>5, <3>1 DEF BoardStep
  <2>. QED BY <2>1, <2>2, <2>3, <2>4, <2>5, ClaimCommits, EdgeCommits, VisitCommits DEF OP
<1>. QED BY <1>1, TrackedIsTx, LocksKeepTheirPromise, WalksHoldTheirParents, BoardIsRecorded,
            PTL DEF CommitsAreBoardSteps
=============================================================================
