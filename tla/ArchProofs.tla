------------------------------ MODULE ArchProofs ------------------------------
(***************************************************************************)
(* What Arch promises for any set of nodes, callers and requests.          *)
(*                                                                         *)
(* A write is checked in one statement and made in a later one.  The       *)
(* argument is that nothing it was checked against can change in between:  *)
(* at most one request is past its check (OneWriter), everything else that *)
(* moves the graph or the session's row waits for it, and what does not    *)
(* wait, the catalogue's defaults and the clock, only makes the check more *)
(* true (WriterStillRight).  With that, each write keeps the graph sound   *)
(* by what its check looked at.                                            *)
(***************************************************************************)
EXTENDS Arch, TLAPS

Table == UNION {[S -> [parent : Node \cup {NoNode}, kind : Kind]] : S \in SUBSET Node}

Open == [user : User, writes : Nat \ {0}, base : Nat, age : 0..IdleThreshold + 1]

Closed == [user : User, writes : Nat \ {0}, auto : BOOLEAN,
           snapshot : [node : Table, edge : SUBSET (Node \X Node)]]

Op == {"none", "upsert_node", "move_node", "remove_node", "upsert_kind", "delete_kind",
       "upsert_edge", "remove_edge", "link", "unlink", "checkpoint"}

Work == [pc : {"resting", "acquire", "insert", "write"}, op : Op, by : User \cup {NoLock},
         n : Node \cup {NoNode}, to : Node \cup {NoNode} \cup Path \cup Task,
         k : Kind \cup {NoNode}, cascade : BOOLEAN, seen : Nat \cup {NoRow}]

\* What a request holds, by what it is about.
Wanted(w) ==
  /\ w \in Work
  /\ w.pc # "resting" => w.by \in User
  /\ w.op = "upsert_node" => w.n \in Node
  /\ w.op = "upsert_kind" => w.k \in Kind
  /\ w.op = "link" => w.to \in Path \cup Task

Shapes ==
  /\ node \in Table
  /\ edge \subseteq Node \X Node
  /\ kind \subseteq Kind
  /\ link \subseteq Node \X (Path \cup HomeTask)
  /\ lock \in Open \cup {NoLock}
  /\ revision \in Seq(Closed)
  /\ DOMAIN work = Proc
  /\ \A p \in Proc : Wanted(work[p])

OneWriter == \A p, q \in Proc : HoldsRow(p) /\ HoldsRow(q) => p = q

WriterStillRight ==
  \A p \in Proc : HoldsRow(p) =>
    /\ Accepted(work[p])
    /\ lock = NoLock \/ lock.user = work[p].by \/ Expired

ArchInv == Shapes /\ OneWriter /\ WriterStillRight

\* What moving a document does here: links of some nodes name another path.
Relink ==
  /\ UNCHANGED archVars
  /\ \E new \in Path : \A l \in link' : l \in link \/ \E m \in link : l = <<m[1], new>>

ArchStepOrMove == [ArchNext]_<<archVars, link>> \/ Relink

-----------------------------------------------------------------------------
(* The steps of Arch, taken apart. *)

\* A request begins: what it wants is well formed, and nothing else changes
\* but an empty catalogue.
Begins(p) ==
  \E w : /\ Wanted(w) /\ w.pc \in {"acquire", "insert"}
         /\ w.pc = "insert" => w.op # "checkpoint"
         /\ work[p].pc = "resting"
         /\ work' = [work EXCEPT ![p] = w]
         /\ UNCHANGED kind \/ EnsureDefaultKinds
         /\ UNCHANGED <<node, edge, lock, revision, ticker, link>>

LEMMA SessionBegins ==
  ASSUME Shapes, NEW p \in Proc, NEW u \in User, NEW op \in Op \ {"none"},
         NEW n \in Node \cup {NoNode}, NEW to \in Node \cup {NoNode} \cup Path \cup Task,
         NEW k \in Kind \cup {NoNode}, NEW cascade \in BOOLEAN,
         op = "upsert_node" => n \in Node,
         op = "upsert_kind" => k \in Kind,
         op = "link" => to \in Path \cup Task,
         UNCHANGED kind \/ EnsureDefaultKinds,
         withSession(p, u, op, n, to, k, cascade)
  PROVE  Begins(p)
<1>. DEFINE w == [pc |-> IF lock = NoLock /\ op # "checkpoint" THEN "insert" ELSE "acquire",
                  op |-> op, by |-> u, n |-> n, to |-> to, k |-> k, cascade |-> cascade,
                  seen |-> IF lock = NoLock THEN NoRow ELSE lock.base]
<1>1. work[p].pc = "resting" /\ work' = [work EXCEPT ![p] = w]
      /\ UNCHANGED <<node, edge, lock, revision, ticker, link>>
  BY DEF withSession
<1>2. w.seen \in Nat \cup {NoRow}
  BY DEF Shapes, Open
<1>3. w.pc \in {"acquire", "insert"} /\ (w.pc = "insert" => w.op # "checkpoint")
  OBVIOUS
<1>4. Wanted(w)
  BY <1>2, <1>3 DEF Wanted, Work, Op
<1>. HIDE DEF w
<1>. QED BY <1>1, <1>3, <1>4 DEF Begins

LEMMA RemovalBegins ==
  ASSUME Shapes, NEW p \in Proc, NEW u \in User, NEW n \in Node, NEW cascade \in BOOLEAN,
         withSession(p, u, "remove_node", n, NoNode, NoNode, cascade) /\ UNCHANGED kind
  PROVE  Begins(p)
<1>1. "remove_node" \in Op \ {"none"} /\ (UNCHANGED kind \/ EnsureDefaultKinds)
  BY DEF Op
<1>. QED BY <1>1, SessionBegins

LEMMA CallBegins ==
  ASSUME Shapes, NEW p \in Proc, ArchCall(p)
  PROVE  Begins(p)
<1>. PICK c \in Caller : \/ EditNodes(p, c) \/ EditKinds(p, c) \/ EditEdges(p, c) \/ EditLinks(p, c)
                         \/ CheckpointTool(p, c)
  BY DEF ArchCall
<1>1. c.user \in User
  BY DEF Caller
<1>2. Op \ {"none"} = {"upsert_node", "move_node", "remove_node", "upsert_kind", "delete_kind",
                       "upsert_edge", "remove_edge", "link", "unlink", "checkpoint"}
  BY DEF Op
<1>3. ASSUME NEW op \in Op \ {"none"}, NEW n \in Node \cup {NoNode},
             NEW to \in Node \cup {NoNode} \cup Path \cup Task, NEW k \in Kind \cup {NoNode},
             op \notin {"upsert_node", "upsert_kind", "link"},
             withSession(p, c.user, op, n, to, k, FALSE) /\ UNCHANGED kind
      PROVE  Begins(p)
  <2>1. (UNCHANGED kind \/ EnsureDefaultKinds) /\ FALSE \in BOOLEAN
    BY <1>3
  <2>. QED BY <1>1, <1>3, <2>1, SessionBegins
<1>4. CASE EditNodes(p, c)
  <2>1. PICK n \in Node :
          \/ \E to \in Node \cup {NoNode}, k \in Kind :
               EnsureDefaultKinds /\ withSession(p, c.user, "upsert_node", n, to, k, FALSE)
          \/ \E to \in Node \cup {NoNode} :
               withSession(p, c.user, "move_node", n, to, NoNode, FALSE) /\ UNCHANGED kind
          \/ \E cascade \in BOOLEAN :
               withSession(p, c.user, "remove_node", n, NoNode, NoNode, cascade) /\ UNCHANGED kind
    BY <1>4 DEF EditNodes, UpsertNodeTool, UpsertNodeHandler, MoveNodeTool, MoveNodeHandler,
                RemoveNodeTool, RemoveNodeHandler
  <2>2. ASSUME NEW to \in Node \cup {NoNode}, NEW k \in Kind,
               EnsureDefaultKinds /\ withSession(p, c.user, "upsert_node", n, to, k, FALSE)
        PROVE  Begins(p)
    <3>1. (UNCHANGED kind \/ EnsureDefaultKinds) /\ FALSE \in BOOLEAN
      BY <2>2
    <3>. QED BY <1>1, <1>2, <2>2, <3>1, SessionBegins
  <2>3. ASSUME NEW to \in Node \cup {NoNode},
               withSession(p, c.user, "move_node", n, to, NoNode, FALSE) /\ UNCHANGED kind
        PROVE  Begins(p)
    BY <1>2, <1>3, <2>3
  <2>4. ASSUME NEW cascade \in BOOLEAN,
               withSession(p, c.user, "remove_node", n, NoNode, NoNode, cascade) /\ UNCHANGED kind
        PROVE  Begins(p)
    BY <1>1, <2>4, RemovalBegins
  <2>. QED BY <2>1, <2>2, <2>3, <2>4
<1>5. CASE EditKinds(p, c)
  <2>1. PICK k \in Kind :
          \/ withSession(p, c.user, "upsert_kind", NoNode, NoNode, k, FALSE) /\ UNCHANGED kind
          \/ withSession(p, c.user, "delete_kind", NoNode, NoNode, k, FALSE) /\ UNCHANGED kind
    BY <1>5 DEF EditKinds, UpsertKindTool, UpsertKindHandler, RemoveKindTool, DeleteKindHandler
  <2>2. ASSUME withSession(p, c.user, "upsert_kind", NoNode, NoNode, k, FALSE) /\ UNCHANGED kind
        PROVE  Begins(p)
    <3>1. (UNCHANGED kind \/ EnsureDefaultKinds) /\ FALSE \in BOOLEAN
      BY <2>2
    <3>. QED BY <1>1, <1>2, <2>2, <3>1, SessionBegins
  <2>3. ASSUME withSession(p, c.user, "delete_kind", NoNode, NoNode, k, FALSE) /\ UNCHANGED kind
        PROVE  Begins(p)
    BY <1>2, <1>3, <2>3
  <2>. QED BY <2>1, <2>2, <2>3
<1>6. CASE EditEdges(p, c)
  <2>1. PICK n \in Node, m \in Node :
          \/ withSession(p, c.user, "upsert_edge", n, m, NoNode, FALSE) /\ UNCHANGED kind
          \/ withSession(p, c.user, "remove_edge", n, m, NoNode, FALSE) /\ UNCHANGED kind
    BY <1>6 DEF EditEdges, UpsertEdgeTool, UpsertEdgeHandler, RemoveEdgeTool, RemoveEdgeHandler
  <2>. QED BY <1>2, <1>3, <2>1
<1>7. CASE EditLinks(p, c)
  <2>1. PICK n \in Node, to \in Path \cup Task :
          \/ withSession(p, c.user, "link", n, to, NoNode, FALSE) /\ UNCHANGED kind
          \/ withSession(p, c.user, "unlink", n, to, NoNode, FALSE) /\ UNCHANGED kind
    BY <1>7 DEF EditLinks, Target, LinkDocTool, UnlinkDocTool, LinkTaskTool, UnlinkTaskTool,
                LinkNodeHandler, UnlinkNodeHandler
  <2>2. ASSUME withSession(p, c.user, "link", n, to, NoNode, FALSE) /\ UNCHANGED kind
        PROVE  Begins(p)
    <3>1. (UNCHANGED kind \/ EnsureDefaultKinds) /\ FALSE \in BOOLEAN
      BY <2>2
    <3>. QED BY <1>1, <1>2, <2>2, <3>1, SessionBegins
  <2>. QED BY <1>2, <1>3, <2>1, <2>2
<1>8. CASE CheckpointTool(p, c)
  BY <1>2, <1>3, <1>8 DEF CheckpointTool
<1>. QED BY <1>4, <1>5, <1>6, <1>7, <1>8

-----------------------------------------------------------------------------
(* Types. *)

LEMMA RestingWanted == Wanted(Resting)
BY DEF Resting, Wanted, Work, Op

\* Requests stay well formed whether one begins, goes on or ends.
LEMMA WorkShape ==
  ASSUME Shapes, NEW p \in Proc,
         \/ EndTx(p)
         \/ work[p].pc # "resting" /\ \E pc \in {"insert", "write"} : GoesOn(p, pc)
         \/ Begins(p)
         \/ UNCHANGED work
  PROVE  DOMAIN work' = Proc /\ \A q \in Proc : Wanted(work'[q])
<1>1. CASE EndTx(p)
  BY <1>1, RestingWanted DEF EndTx, Shapes
<1>2. ASSUME NEW pc \in {"insert", "write"}, GoesOn(p, pc), work[p].pc # "resting"
      PROVE  DOMAIN work' = Proc /\ \A q \in Proc : Wanted(work'[q])
  <2>. DEFINE w == [work[p] EXCEPT !.pc = pc, !.seen = NoRow]
  <2>1. Wanted(w)
    BY <1>2 DEF Wanted, Work, Shapes
  <2>2. work' = [work EXCEPT ![p] = w]
    BY <1>2 DEF GoesOn
  <2>. HIDE DEF w
  <2>. QED BY <2>1, <2>2 DEF Shapes
<1>3. CASE Begins(p)
  BY <1>3 DEF Begins, Shapes
<1>4. CASE UNCHANGED work
  BY <1>4 DEF Shapes
<1>. QED BY <1>1, <1>2, <1>3, <1>4

LEMMA NodeTable ==
  ASSUME node \in Table
  PROVE  /\ Nodes \subseteq Node
         /\ node = [m \in Nodes |-> node[m]]
         /\ \A m \in Nodes : node[m] \in [parent : Node \cup {NoNode}, kind : Kind]
BY DEF Table, Nodes

LEMMA TableOf ==
  ASSUME NEW S \in SUBSET Node, NEW f,
         f = [m \in S |-> f[m]],
         \A m \in S : f[m] \in [parent : Node \cup {NoNode}, kind : Kind]
  PROVE  f \in Table
<1>1. f \in [S -> [parent : Node \cup {NoNode}, kind : Kind]]
  OBVIOUS
<1>. QED BY <1>1 DEF Table

\* What each statement on arch_nodes leaves is a well formed table.
LEMMA NodeStatements ==
  ASSUME node \in Table
  PROVE  /\ \A n \in Node, to \in Node \cup {NoNode}, k \in Kind :
              /\ InsertArchNode(n, to, k) \in Table
              /\ n \in Nodes => UpdateArchNode(n, to, k) \in Table
              /\ n \in Nodes => MoveArchNode(n, to) \in Table
         /\ \A n : DeleteArchNode(n) \in Table
<1>. USE NodeTable
<1>1. ASSUME NEW n \in Node, NEW to \in Node \cup {NoNode}, NEW k \in Kind
      PROVE  InsertArchNode(n, to, k) \in Table
  <2>1. Nodes \cup {n} \in SUBSET Node
    OBVIOUS
  <2>. QED BY <2>1, TableOf DEF InsertArchNode
<1>2. ASSUME NEW n \in Nodes, NEW to \in Node \cup {NoNode}, NEW k \in Kind
      PROVE  UpdateArchNode(n, to, k) \in Table /\ MoveArchNode(n, to) \in Table
  <2>1. UpdateArchNode(n, to, k) \in Table
    BY TableOf DEF UpdateArchNode, Nodes
  <2>. DEFINE r == [node[n] EXCEPT !.parent = to]
              f == MoveArchNode(n, to)
  <2>2. f = [node EXCEPT ![n] = r]
    BY DEF MoveArchNode
  <2>3. r \in [parent : Node \cup {NoNode}, kind : Kind]
    OBVIOUS
  <2>. HIDE DEF r, f
  <2>4. f = [m \in Nodes |-> f[m]] /\ \A m \in Nodes : f[m] = IF m = n THEN r ELSE node[m]
    BY <2>2 DEF Nodes
  <2>5. \A m \in Nodes : f[m] \in [parent : Node \cup {NoNode}, kind : Kind]
    BY <2>3, <2>4
  <2>6. f \in Table
    BY <2>4, <2>5, TableOf
  <2>. QED BY <2>1, <2>6 DEF f
<1>3. ASSUME NEW n PROVE DeleteArchNode(n) \in Table
  <2>1. Nodes \ Subtree(n) \in SUBSET Node
    OBVIOUS
  <2>. QED BY <2>1, TableOf DEF DeleteArchNode
<1>. QED BY <1>1, <1>2, <1>3

\* A revision made of a session's row is well formed.
LEMMA RevisionShape ==
  ASSUME Shapes, lock # NoLock, NEW auto \in BOOLEAN
  PROVE  /\ InsertArchRevision(lock, auto) \in Seq(Closed)
         /\ Len(InsertArchRevision(lock, auto)) \in Nat
<1>1. [user |-> lock.user, writes |-> lock.writes, auto |-> auto, snapshot |-> BuildArchSnapshot]
        \in Closed
  BY DEF Closed, BuildArchSnapshot, Shapes, Open
<1>. QED BY <1>1 DEF InsertArchRevision, Shapes

\* After a commit there is a session, its author's, and the history is whole.
LEMMA SessionShape ==
  ASSUME Shapes, NEW w, Wanted(w), w.pc = "write", SessionWritten(w)
  PROVE  /\ lock' \in Open /\ lock' # NoLock /\ lock'.user = w.by
         /\ revision' \in Seq(Closed)
<1>1. w.by \in User
  BY DEF Wanted
<1>2. \A r \in Open : r # NoLock
  BY ArchAssumption DEF Open
<1>3. CASE lock # NoLock /\ lock.user = w.by
  <2>1. lock \in Open /\ lock' = ExtendArchLock /\ revision' = revision
    BY <1>3 DEF SessionWritten, Shapes
  <2>2. ExtendArchLock \in Open /\ ExtendArchLock.user = lock.user
    <3>1. lock.writes + 1 \in Nat \ {0} /\ 0 \in 0..IdleThreshold + 1
      BY <2>1, ArchAssumption DEF Open
    <3>. QED BY <2>1, <3>1 DEF ExtendArchLock, Open
  <2>. QED BY <1>2, <1>3, <2>1, <2>2 DEF Shapes
<1>4. CASE ~ (lock # NoLock /\ lock.user = w.by)
  <2>1. /\ revision' = IF lock = NoLock THEN revision ELSE InsertArchRevision(lock, TRUE)
        /\ lock' = InsertArchLock(w.by, Len(revision'))
    BY <1>4 DEF SessionWritten
  <2>2. revision' \in Seq(Closed) /\ Len(revision') \in Nat
    <3>1. CASE lock = NoLock
      BY <2>1, <3>1 DEF Shapes
    <3>2. CASE lock # NoLock
      <4>1. TRUE \in BOOLEAN
        OBVIOUS
      <4>2. /\ InsertArchRevision(lock, TRUE) \in Seq(Closed)
            /\ Len(InsertArchRevision(lock, TRUE)) \in Nat
        BY <3>2, <4>1, RevisionShape
      <4>3. revision' = InsertArchRevision(lock, TRUE)
        BY <2>1, <3>2
      <4>. QED BY <4>2, <4>3
    <3>. QED BY <3>1, <3>2
  <2>3. InsertArchLock(w.by, Len(revision')) \in Open
    BY <1>1, <2>2, ArchAssumption DEF InsertArchLock, Open
  <2>. QED BY <1>2, <2>1, <2>2, <2>3 DEF InsertArchLock
<1>. QED BY <1>3, <1>4

\* What a request was accepted for is what it asked for.
LEMMA AcceptedFor ==
  ASSUME NEW w, Accepted(w)
  PROVE  /\ w.op = "upsert_node" => MayUpsertNode(w)
         /\ w.op = "move_node"   => MayMoveNode(w)
         /\ w.op = "remove_node" => MayRemoveNode(w)
         /\ w.op = "delete_kind" => MayDeleteKind(w)
         /\ w.op = "upsert_edge" => MayUpsertEdge(w)
         /\ w.op = "link"        => MayLink(w)
         /\ w.op # "checkpoint"
BY DEF Accepted, MayUpsertNode, MayMoveNode, MayRemoveNode, MayDeleteKind, MayUpsertEdge,
       MayRemoveEdge, MayLink, MayUnlink

\* A commit is the writer's, and ends its request.
LEMMA WriteCommits ==
  ASSUME NEW p \in Proc, WriteGraph(p)
  PROVE  HoldsRow(p) /\ SessionWritten(work[p]) /\ EndTx(p)
BY DEF WriteGraph, UpsertNode, MoveNode, RemoveNode, UpsertKind, DeleteKind, UpsertEdge,
       RemoveEdge, Link, Unlink, Writes, HoldsRow

\* The tables stay well formed.
LEMMA WriteShape ==
  ASSUME Shapes, NEW p \in Proc, Accepted(work[p]), WriteGraph(p)
  PROVE  /\ node' \in Table
         /\ edge' \subseteq Node \X Node
         /\ kind' \subseteq Kind
         /\ link' \subseteq Node \X (Path \cup HomeTask)
<1>. DEFINE w == work[p]
<1>. USE AcceptedFor, NodeTable
<1>0. /\ node \in Table /\ edge \subseteq Node \X Node /\ kind \subseteq Kind
      /\ link \subseteq Node \X (Path \cup HomeTask) /\ Wanted(w)
  BY DEF Shapes
<1>1. CASE UpsertNode(p)
  <2>1. MayUpsertNode(w) /\ UNCHANGED <<edge, kind, link>>
    BY <1>1 DEF UpsertNode, Writes
  <2>2. w.n \in Node /\ w.to \in Node \cup {NoNode} /\ w.k \in Kind
    BY <1>0, <2>1 DEF MayUpsertNode, Wanted, KnownParent, GetArchNodeIDBySlug, ArchKindExists
  <2>3. node' = IF w.n \in Nodes THEN UpdateArchNode(w.n, w.to, w.k) ELSE InsertArchNode(w.n, w.to, w.k)
    BY <1>1 DEF UpsertNode
  <2>. HIDE DEF w
  <2>4. node' \in Table
    BY <1>0, <2>2, <2>3, NodeStatements
  <2>. QED BY <1>0, <2>1, <2>4
<1>2. CASE MoveNode(p)
  <2>1. MayMoveNode(w) /\ UNCHANGED <<edge, kind, link>> /\ node' = MoveArchNode(w.n, w.to)
    BY <1>2 DEF MoveNode, Writes
  <2>2. w.n \in Nodes /\ w.n \in Node /\ w.to \in Node \cup {NoNode}
    BY <1>0, <2>1 DEF MayMoveNode, KnownParent, GetArchNodeIDBySlug
  <2>. HIDE DEF w
  <2>3. \A k \in Kind : node' \in Table
    BY <1>0, <2>1, <2>2, NodeStatements
  <2>. QED BY <1>0, <2>1, <2>3, ArchAssumption
<1>3. CASE RemoveNode(p)
  <2>1. node' = DeleteArchNode(w.n) /\ edge' \subseteq edge /\ link' \subseteq link /\ kind' = kind
    BY <1>3 DEF RemoveNode
  <2>. HIDE DEF w
  <2>. QED BY <1>0, <2>1, NodeStatements
<1>4. CASE UpsertKind(p)
  BY <1>0, <1>4 DEF UpsertKind, UpsertArchKind, Wanted, Writes
<1>5. CASE DeleteKind(p)
  BY <1>0, <1>5 DEF DeleteKind, DeleteArchKind
<1>6. CASE UpsertEdge(p)
  <2>1. MayUpsertEdge(w) /\ UNCHANGED <<node, kind, link>> /\ edge' = UpsertArchEdge(w.n, w.to)
    BY <1>6 DEF UpsertEdge, Writes
  <2>. QED BY <1>0, <2>1 DEF MayUpsertEdge, UpsertArchEdge, GetArchNodeIDBySlug
<1>7. CASE RemoveEdge(p)
  BY <1>0, <1>7 DEF RemoveEdge, DeleteArchEdge
<1>8. CASE Link(p)
  <2>1. MayLink(w) /\ UNCHANGED <<node, edge, kind>> /\ link' = InsertArchNodeLink(link, w.n, w.to)
        /\ w.op = "link"
    BY <1>8 DEF Link, Writes
  <2>2. w.n \in Node /\ w.to \in Path \cup HomeTask
    BY <1>0, <2>1 DEF MayLink, Wanted, ProjectIDForTask, GetArchNodeIDBySlug
  <2>. QED BY <1>0, <2>1, <2>2 DEF InsertArchNodeLink
<1>9. CASE Unlink(p)
  BY <1>0, <1>9 DEF Unlink, DeleteArchNodeLink
<1>. QED BY <1>1, <1>2, <1>3, <1>4, <1>5, <1>6, <1>7, <1>8, <1>9 DEF WriteGraph

-----------------------------------------------------------------------------
(* The invariant. *)

\* What a request asks for does not change while it waits, and it stays
\* acceptable while the graph stays as it is and no kind goes.
LEMMA StillAccepted ==
  ASSUME NEW p \in Proc, Accepted(work[p]), UNCHANGED <<node, edge>>, kind \subseteq kind',
         work'[p].op = work[p].op, work'[p].n = work[p].n, work'[p].to = work[p].to,
         work'[p].k = work[p].k, work'[p].cascade = work[p].cascade
  PROVE  Accepted(work[p])'
<1>. USE DEF Accepted, ArchKindExists, GetArchNodeIDBySlug, KnownParent, NoCycle,
             ArchNodeCycleCheck, CountNodesByKind, CountArchNodeChildren, Nodes, Subtree
<1>1. CASE MayUpsertNode(work[p])
  BY <1>1 DEF MayUpsertNode
<1>2. CASE MayMoveNode(work[p])
  BY <1>2 DEF MayMoveNode
<1>3. CASE MayRemoveNode(work[p])
  BY <1>3 DEF MayRemoveNode
<1>4. CASE work[p].op = "upsert_kind"
  BY <1>4
<1>5. CASE MayDeleteKind(work[p])
  BY <1>5 DEF MayDeleteKind
<1>6. CASE MayUpsertEdge(work[p])
  BY <1>6 DEF MayUpsertEdge
<1>7. CASE MayRemoveEdge(work[p])
  BY <1>7 DEF MayRemoveEdge
<1>8. CASE MayLink(work[p])
  BY <1>8 DEF MayLink, ProjectIDForTask
<1>9. CASE MayUnlink(work[p])
  BY <1>9 DEF MayUnlink
<1>. QED BY <1>1, <1>2, <1>3, <1>4, <1>5, <1>6, <1>7, <1>8, <1>9

\* A request gets past its check only while no other one is, and only with a
\* row that is its author's, or nobody's any more.
LEMMA Checks ==
  ASSUME NEW p \in Proc, acquireOrExtendLock(p) \/ InsertLockRow(p)
  PROVE  /\ UNCHANGED <<node, edge, kind, lock, revision, ticker, link>>
         /\ work[p].pc \in {"acquire", "insert"}
         /\ \/ EndTx(p)
            \/ GoesOn(p, "insert")
            \/ /\ GoesOn(p, "write") /\ RowIsFree(p) /\ Accepted(work[p])
               /\ lock = NoLock \/ lock.user = work[p].by \/ Expired
BY DEF acquireOrExtendLock, InsertLockRow, Check, graphVars

LEMMA DefaultsAdd ==
  ASSUME kind \subseteq Kind, UNCHANGED kind \/ EnsureDefaultKinds
  PROVE  kind \subseteq kind' /\ kind' \subseteq Kind
BY ArchAssumption DEF EnsureDefaultKinds, InsertDefaultArchKind

\* The row of a session as it gets older.
LEMMA AgeShape ==
  ASSUME lock \in Open, lock' = [lock EXCEPT !.age = Older(lock.age)]
  PROVE  /\ lock' \in Open /\ lock'.user = lock.user /\ lock'.base = lock.base
         /\ lock'.writes = lock.writes
         /\ Expired => Expired'
<1>1. Older(lock.age) \in 0..IdleThreshold + 1 /\ (lock.age >= IdleThreshold => Older(lock.age) >= IdleThreshold)
  BY ArchAssumption DEF Open, Older
<1>2. lock'.age = Older(lock.age) /\ lock' \in Open
  BY <1>1 DEF Open
<1>. QED BY <1>1, <1>2 DEF Expired, Open

LEMMA ArchInvInit == ArchInit => ArchInv
<1>. SUFFICES ASSUME ArchInit PROVE ArchInv
  OBVIOUS
<1>1. node \in Table
  <2>1. {} \in SUBSET Node /\ Nodes = {} /\ node = [m \in {} |-> node[m]]
    BY DEF ArchInit, Nodes
  <2>. QED BY <2>1, TableOf
<1>2. Shapes
  BY <1>1, RestingWanted DEF Shapes, ArchInit
<1>3. \A p \in Proc : ~ HoldsRow(p)
  BY DEF ArchInit, HoldsRow, Resting
<1>. QED BY <1>2, <1>3 DEF ArchInv, OneWriter, WriterStillRight

\* A step that lets no new writer in, and leaves what a writer relies on.
LEMMA WritersStay ==
  ASSUME ArchInv, UNCHANGED <<node, edge>>, kind \subseteq kind',
         \A q \in Proc : HoldsRow(q)' => HoldsRow(q) /\ work'[q] = work[q],
         \A q \in Proc : HoldsRow(q)' =>
           \/ lock' = NoLock \/ lock' = lock
           \/ lock # NoLock /\ lock'.user = lock.user /\ (Expired => Expired')
  PROVE  OneWriter' /\ WriterStillRight'
<1>1. OneWriter'
  BY DEF ArchInv, OneWriter
<1>2. ASSUME NEW q \in Proc, HoldsRow(q)'
      PROVE  Accepted(work[q])' /\ (lock' = NoLock \/ lock'.user = work'[q].by \/ Expired')
  <2>1. HoldsRow(q) /\ work'[q] = work[q] /\ Accepted(work[q])
        /\ (lock = NoLock \/ lock.user = work[q].by \/ Expired)
    BY <1>2 DEF ArchInv, WriterStillRight
  <2>2. Accepted(work[q])'
    BY <2>1, StillAccepted
  <2>3. lock' = lock => (Expired => Expired')
    BY DEF Expired
  <2>. QED BY <1>2, <2>1, <2>2, <2>3
<1>. QED BY <1>1, <1>2 DEF WriterStillRight

\* A request that is under way, goes on or ends says the same about itself.
LEMMA SameRequest ==
  ASSUME Shapes, NEW p \in Proc
  PROVE  /\ EndTx(p) => /\ ~ HoldsRow(p)'
                        /\ \A q \in Proc \ {p} : work'[q] = work[q]
         /\ Begins(p) => /\ ~ HoldsRow(p)'
                         /\ \A q \in Proc \ {p} : work'[q] = work[q]
         /\ \A pc \in {"insert", "write"} : GoesOn(p, pc) =>
              /\ \A q \in Proc \ {p} : work'[q] = work[q]
              /\ work'[p].pc = pc /\ work'[p].op = work[p].op /\ work'[p].by = work[p].by
              /\ work'[p].n = work[p].n /\ work'[p].to = work[p].to /\ work'[p].k = work[p].k
              /\ work'[p].cascade = work[p].cascade
<1>1. EndTx(p) => ~ HoldsRow(p)' /\ \A q \in Proc \ {p} : work'[q] = work[q]
  BY DEF Shapes, EndTx, HoldsRow, Resting
<1>2. Begins(p) => ~ HoldsRow(p)' /\ \A q \in Proc \ {p} : work'[q] = work[q]
  BY DEF Shapes, Begins, HoldsRow
<1>3. ASSUME NEW pc \in {"insert", "write"}, GoesOn(p, pc)
      PROVE  /\ \A q \in Proc \ {p} : work'[q] = work[q]
             /\ work'[p].pc = pc /\ work'[p].op = work[p].op /\ work'[p].by = work[p].by
             /\ work'[p].n = work[p].n /\ work'[p].to = work[p].to /\ work'[p].k = work[p].k
             /\ work'[p].cascade = work[p].cascade
  <2>1. work[p] \in Work
    BY DEF Shapes, Wanted
  <2>. DEFINE w == [work[p] EXCEPT !.pc = pc, !.seen = NoRow]
  <2>2. work' = [work EXCEPT ![p] = w]
    BY <1>3 DEF GoesOn
  <2>3. w.pc = pc /\ w.op = work[p].op /\ w.by = work[p].by /\ w.n = work[p].n
        /\ w.to = work[p].to /\ w.k = work[p].k /\ w.cascade = work[p].cascade
    BY <2>1 DEF Work
  <2>. HIDE DEF w
  <2>. QED BY <2>2, <2>3 DEF Shapes
<1>. QED BY <1>1, <1>2, <1>3

LEMMA ArchInvStep == ArchInv /\ ArchStepOrMove => ArchInv'
<1>. SUFFICES ASSUME ArchInv, ArchStepOrMove PROVE ArchInv'
  OBVIOUS
<1>. USE DEF ArchInv
<1>0. Shapes
  OBVIOUS
<1>1. ASSUME NEW p \in Proc, Begins(p) PROVE ArchInv'
  <2>1. UNCHANGED <<node, edge, lock, revision, link>> /\ (UNCHANGED kind \/ EnsureDefaultKinds)
    BY <1>1 DEF Begins
  <2>2. kind \subseteq kind' /\ kind' \subseteq Kind
    BY <2>1, DefaultsAdd DEF Shapes
  <2>3. Shapes'
    BY <1>0, <1>1, <2>1, <2>2, WorkShape DEF Shapes
  <2>4. OneWriter' /\ WriterStillRight'
    BY <1>0, <1>1, <2>1, <2>2, SameRequest, WritersStay DEF HoldsRow
  <2>. QED BY <2>3, <2>4
<1>2. ASSUME NEW p \in Proc, acquireOrExtendLock(p) \/ InsertLockRow(p) PROVE ArchInv'
  <2>1. UNCHANGED <<node, edge, kind, lock, revision, link>> /\ work[p].pc \in {"acquire", "insert"}
    BY <1>2, Checks
  <2>2. Shapes'
    BY <1>0, <1>2, <2>1, Checks, WorkShape DEF Shapes
  <2>3. CASE EndTx(p) \/ GoesOn(p, "insert")
    <3>1. \A q \in Proc : HoldsRow(q)' => HoldsRow(q) /\ work'[q] = work[q]
      BY <1>0, <2>3, SameRequest DEF HoldsRow
    <3>2. OneWriter' /\ WriterStillRight'
      BY <2>1, <3>1, WritersStay
    <3>. QED BY <2>2, <3>2
  <2>4. CASE GoesOn(p, "write") /\ RowIsFree(p) /\ Accepted(work[p])
             /\ (lock = NoLock \/ lock.user = work[p].by \/ Expired)
    <3>1. /\ \A q \in Proc \ {p} : ~ HoldsRow(q)'
          /\ work'[p].op = work[p].op /\ work'[p].by = work[p].by /\ work'[p].n = work[p].n
          /\ work'[p].to = work[p].to /\ work'[p].k = work[p].k
          /\ work'[p].cascade = work[p].cascade
      BY <1>0, <2>4, SameRequest DEF HoldsRow, RowIsFree
    <3>2. OneWriter'
      BY <3>1 DEF OneWriter
    <3>3. Accepted(work[p])'
      BY <2>1, <2>4, <3>1, StillAccepted
    <3>4. lock' = NoLock \/ lock'.user = work'[p].by \/ Expired'
      BY <2>1, <2>4, <3>1 DEF Expired
    <3>5. WriterStillRight'
      BY <3>1, <3>3, <3>4 DEF WriterStillRight
    <3>. QED BY <2>2, <3>2, <3>5
  <2>. QED BY <1>2, <2>3, <2>4, Checks
<1>3. ASSUME NEW p \in Proc, WriteGraph(p) PROVE ArchInv'
  <2>1. HoldsRow(p) /\ SessionWritten(work[p]) /\ EndTx(p)
    BY <1>3, WriteCommits
  <2>2. Accepted(work[p]) /\ Wanted(work[p]) /\ work[p].pc = "write"
    BY <2>1 DEF WriterStillRight, Shapes, HoldsRow
  <2>3. node' \in Table /\ edge' \subseteq Node \X Node /\ kind' \subseteq Kind
        /\ link' \subseteq Node \X (Path \cup HomeTask)
    BY <1>0, <1>3, <2>2, WriteShape
  <2>4. lock' \in Open /\ revision' \in Seq(Closed)
    BY <1>0, <2>1, <2>2, SessionShape
  <2>5. Shapes'
    BY <1>0, <2>1, <2>3, <2>4, WorkShape DEF Shapes
  <2>6. \A q \in Proc : ~ HoldsRow(q)'
    BY <1>0, <2>1, SameRequest DEF OneWriter, HoldsRow
  <2>. QED BY <2>5, <2>6 DEF OneWriter, WriterStillRight
<1>4. ASSUME NEW p \in Proc, Checkpoint(p) PROVE ArchInv'
  <2>1. UNCHANGED <<node, edge, kind, link>> /\ EndTx(p) /\ RowIsFree(p)
    BY <1>4 DEF Checkpoint, graphVars
  <2>2. UNCHANGED <<lock, revision>>
        \/ (lock # NoLock /\ lock' = NoLock /\ revision' = InsertArchRevision(lock, FALSE))
    BY <1>4 DEF Checkpoint, flushLockedSession, DeleteArchLock, GetArchLockForUpdate
  <2>3. FALSE \in BOOLEAN
    OBVIOUS
  <2>4. lock' \in Open \cup {NoLock} /\ revision' \in Seq(Closed)
    BY <1>0, <2>2, <2>3, RevisionShape DEF Shapes
  <2>5. Shapes'
    BY <1>0, <2>1, <2>4, WorkShape DEF Shapes
  <2>6. \A q \in Proc : ~ HoldsRow(q)'
    BY <1>0, <2>1, SameRequest DEF RowIsFree, HoldsRow
  <2>. QED BY <2>5, <2>6 DEF OneWriter, WriterStillRight
<1>5. ASSUME NEW p \in Proc, Abort(p) PROVE ArchInv'
  <2>1. UNCHANGED <<node, edge, kind, lock, revision, link>> /\ EndTx(p)
    BY <1>5 DEF Abort, graphVars
  <2>2. Shapes'
    BY <1>0, <2>1, WorkShape DEF Shapes
  <2>3. OneWriter' /\ WriterStillRight'
    BY <1>0, <2>1, SameRequest, WritersStay DEF HoldsRow
  <2>. QED BY <2>2, <2>3
<1>6. CASE ReadKinds \/ flushOnce \/ FlushFails \/ UNCHANGED <<archVars, link>> \/ Relink
  <2>1. /\ UNCHANGED <<node, edge, lock, revision, work>>
        /\ UNCHANGED kind \/ EnsureDefaultKinds
        /\ UNCHANGED link \/ Relink
    BY <1>6 DEF ReadKinds, ListKindsTool, ListKindsHandler, flushOnce, FlushFails, graphVars,
                archVars, Relink
  <2>2. kind \subseteq kind' /\ kind' \subseteq Kind
    BY <2>1, DefaultsAdd DEF Shapes
  <2>3. link' \subseteq Node \X (Path \cup HomeTask)
    BY <2>1 DEF Shapes, Relink
  <2>4. Shapes'
    BY <2>1, <2>2, <2>3 DEF Shapes
  <2>5. OneWriter' /\ WriterStillRight'
    BY <2>1, <2>2, WritersStay DEF HoldsRow
  <2>. QED BY <2>4, <2>5
<1>7. CASE flushOne
  <2>1. UNCHANGED <<node, edge, kind, link, work>> /\ \A q \in Proc : ~ HoldsRow(q)
    BY <1>7 DEF flushOne, graphVars
  <2>2. UNCHANGED <<lock, revision>>
        \/ (lock # NoLock /\ lock' = NoLock /\ revision' = InsertArchRevision(lock, TRUE))
    BY <1>7 DEF flushOne, flushLockedSession, DeleteArchLock
  <2>3. TRUE \in BOOLEAN
    OBVIOUS
  <2>4. lock' \in Open \cup {NoLock} /\ revision' \in Seq(Closed)
    BY <1>0, <2>2, <2>3, RevisionShape DEF Shapes
  <2>5. Shapes'
    BY <2>1, <2>4 DEF Shapes
  <2>. QED BY <2>1, <2>5 DEF OneWriter, WriterStillRight, HoldsRow
<1>8. CASE Age
  <2>1. lock # NoLock /\ lock' = [lock EXCEPT !.age = Older(lock.age)]
        /\ UNCHANGED <<node, edge, kind, link, revision, work>>
    BY <1>8 DEF Age, graphVars
  <2>2. lock' \in Open /\ lock'.user = lock.user /\ (Expired => Expired')
    BY <2>1, AgeShape DEF Shapes
  <2>3. Shapes'
    BY <2>1, <2>2 DEF Shapes
  <2>4. OneWriter' /\ WriterStillRight'
    BY <2>1, <2>2, WritersStay DEF HoldsRow
  <2>. QED BY <2>3, <2>4
<1>. QED BY <1>0, <1>1, <1>2, <1>3, <1>4, <1>5, <1>6, <1>7, <1>8, CallBegins
         DEF ArchStepOrMove, ArchNext, ArchStep, ArchBackground

-----------------------------------------------------------------------------
(* The graph hangs together. *)

\* A node that is moved anywhere but below itself leaves the tree a forest: a
\* set of nodes with all its parents inside would hold such a set without the
\* moved node's subtree.
LEMMA ForestReparent ==
  ASSUME Forest, \A m \in Nodes : node[m].parent \in Nodes \cup {NoNode}, Nodes \subseteq Node,
         NEW n \in Nodes, NEW to, to = NoNode \/ (to # n /\ ~ ArchNodeCycleCheck(to, n)),
         Nodes' = Nodes, node'[n].parent = to,
         \A m \in Nodes \ {n} : node'[m].parent = node[m].parent
  PROVE  Forest'
<1>. SUFFICES ASSUME NEW S \in SUBSET Nodes, S # {} PROVE \E m \in S : node'[m].parent \notin S
  BY DEF Forest
<1>1. CASE n \notin S
  <2>1. PICK m \in S : node[m].parent \notin S
    BY DEF Forest
  <2>. QED BY <1>1, <2>1
<1>2. CASE n \in S /\ to \notin S
  BY <1>2
<1>3. CASE n \in S /\ to \in S
  <2>1. to # NoNode
    BY <1>3, ArchAssumption
  <2>2. to \in Nodes /\ to \notin Subtree(n)
    BY <1>3, <2>1 DEF ArchNodeCycleCheck
  <2>3. PICK T \in SUBSET Nodes : /\ n \in T /\ to \notin T
                                  /\ \A x \in Nodes : node[x].parent \in T => x \in T
    BY <2>2 DEF Subtree
  <2>4. S \ T # {} /\ S \ T \in SUBSET Nodes
    BY <1>3, <2>3
  <2>5. PICK m \in S \ T : node[m].parent \notin S \ T
    BY <2>4 DEF Forest
  <2>6. node[m].parent \notin S /\ m # n
    BY <2>3, <2>5
  <2>. QED BY <2>5, <2>6
<1>. QED BY <1>1, <1>2, <1>3

\* So does a new node under one that is there, or under none.
LEMMA ForestInsert ==
  ASSUME Forest, \A m \in Nodes : node[m].parent \in Nodes \cup {NoNode},
         NEW n \in Node \ Nodes, NEW to \in Nodes \cup {NoNode},
         Nodes' = Nodes \cup {n}, node'[n].parent = to,
         \A m \in Nodes : node'[m].parent = node[m].parent
  PROVE  Forest'
<1>. SUFFICES ASSUME NEW S \in SUBSET (Nodes \cup {n}), S # {} PROVE \E m \in S : node'[m].parent \notin S
  BY DEF Forest
<1>1. n # NoNode /\ to # n
  BY ArchAssumption
<1>2. CASE S \subseteq {n}
  BY <1>1, <1>2
<1>3. CASE S \ {n} # {}
  <2>1. S \ {n} \in SUBSET Nodes
    OBVIOUS
  <2>2. PICK m \in S \ {n} : node[m].parent \notin S \ {n}
    BY <1>3, <2>1 DEF Forest
  <2>3. node[m].parent # n /\ node'[m].parent = node[m].parent
    BY <1>1, <2>1
  <2>. QED BY <2>2, <2>3
<1>. QED BY <1>2, <1>3

\* The subtree of a node takes the children of its members along.
LEMMA SubtreeClosed ==
  ASSUME NEW n, NEW m \in Nodes, node[m].parent \in Subtree(n)
  PROVE  m \in Subtree(n)
BY DEF Subtree

\* The writes of nodes: what is left is sound if it was sound.
LEMMA TreeSound ==
  ASSUME Shapes, GraphSound, NEW p \in Proc, Accepted(work[p]),
         UpsertNode(p) \/ MoveNode(p) \/ RemoveNode(p)
  PROVE  GraphSound'
<1>. DEFINE w == work[p]
<1>0. /\ Forest /\ Nodes \subseteq Node /\ Wanted(w)
      /\ \A n \in Nodes : node[n].parent \in Nodes \cup {NoNode} /\ node[n].kind \in kind
      /\ \A n \in Nodes : node[n] \in [parent : Node \cup {NoNode}, kind : Kind]
      /\ \A e \in edge : e[1] \in Nodes /\ e[2] \in Nodes
      /\ \A l \in link : l[1] \in Nodes
  BY NodeTable DEF Shapes, GraphSound
<1>1. CASE UpsertNode(p)
  <2>1. MayUpsertNode(w) /\ UNCHANGED <<edge, kind, link>>
        /\ node' = IF w.n \in Nodes THEN UpdateArchNode(w.n, w.to, w.k) ELSE InsertArchNode(w.n, w.to, w.k)
    BY <1>1, AcceptedFor DEF UpsertNode, Writes
  <2>2. w.n \in Node /\ w.to \in Nodes \cup {NoNode} /\ w.k \in kind /\ (w.n \in Nodes => NoCycle(w))
    BY <1>0, <2>1 DEF MayUpsertNode, Wanted, KnownParent, GetArchNodeIDBySlug, ArchKindExists
  <2>. HIDE DEF w
  <2>3. /\ Nodes' = Nodes \cup {w.n} /\ node'[w.n].parent = w.to /\ node'[w.n].kind = w.k
        /\ \A m \in Nodes \ {w.n} : node'[m] = node[m]
    <3>1. CASE w.n \in Nodes
      BY <2>1, <3>1 DEF UpdateArchNode, Nodes
    <3>2. CASE w.n \notin Nodes
      BY <2>1, <3>2 DEF InsertArchNode, Nodes
    <3>. QED BY <3>1, <3>2
  <2>4. Forest'
    <3>1. CASE w.n \in Nodes
      <4>1. w.to = NoNode \/ (w.to # w.n /\ ~ ArchNodeCycleCheck(w.to, w.n))
        BY <2>2, <3>1 DEF NoCycle
      <4>2. Nodes' = Nodes
        BY <2>3, <3>1
      <4>. QED BY <1>0, <2>3, <3>1, <4>1, <4>2, ForestReparent
    <3>2. CASE w.n \notin Nodes
      BY <1>0, <2>2, <2>3, <3>2, ForestInsert
    <3>. QED BY <3>1, <3>2
  <2>. QED BY <1>0, <2>1, <2>2, <2>3, <2>4 DEF GraphSound
<1>2. CASE MoveNode(p)
  <2>1. MayMoveNode(w) /\ UNCHANGED <<edge, kind, link>> /\ node' = MoveArchNode(w.n, w.to)
    BY <1>2, AcceptedFor DEF MoveNode, Writes
  <2>2. w.n \in Nodes /\ w.to \in Nodes \cup {NoNode}
        /\ (w.to = NoNode \/ (w.to # w.n /\ ~ ArchNodeCycleCheck(w.to, w.n)))
    BY <2>1 DEF MayMoveNode, KnownParent, NoCycle, GetArchNodeIDBySlug
  <2>. HIDE DEF w
  <2>3. /\ Nodes' = Nodes /\ node'[w.n].parent = w.to /\ node'[w.n].kind = node[w.n].kind
        /\ \A m \in Nodes \ {w.n} : node'[m] = node[m]
    BY <1>0, <2>1, <2>2 DEF MoveArchNode, Nodes
  <2>4. Forest'
    BY <1>0, <2>2, <2>3, ForestReparent
  <2>. QED BY <1>0, <2>1, <2>2, <2>3, <2>4 DEF GraphSound
<1>3. CASE RemoveNode(p)
  <2>. DEFINE gone == Subtree(w.n)
  <2>1. /\ node' = DeleteArchNode(w.n) /\ UNCHANGED kind
        /\ edge' = {e \in edge : e[1] \notin gone /\ e[2] \notin gone}
        /\ link' = {l \in link : l[1] \notin gone}
    BY <1>3 DEF RemoveNode
  <2>2. Nodes' = Nodes \ gone /\ \A m \in Nodes \ gone : node'[m] = node[m]
    BY <2>1 DEF DeleteArchNode, Nodes
  <2>3. \A m \in Nodes \ gone : node[m].parent \in (Nodes \ gone) \cup {NoNode}
    BY <1>0, SubtreeClosed
  <2>. HIDE DEF gone
  <2>4. Forest'
    BY <1>0, <2>2 DEF Forest
  <2>. QED BY <1>0, <2>1, <2>2, <2>3, <2>4 DEF GraphSound
<1>. QED BY <1>1, <1>2, <1>3

LEMMA GraphSoundStep == ArchInv /\ GraphSound /\ ArchStepOrMove => GraphSound'
<1>. SUFFICES ASSUME ArchInv, GraphSound, ArchStepOrMove PROVE GraphSound'
  OBVIOUS
<1>0. Shapes /\ \A p \in Proc : HoldsRow(p) => Accepted(work[p])
  BY DEF ArchInv, WriterStillRight
<1>1. ASSUME NEW p \in Proc, UpsertNode(p) \/ MoveNode(p) \/ RemoveNode(p) PROVE GraphSound'
  <2>1. HoldsRow(p)
    BY <1>1, WriteCommits DEF WriteGraph
  <2>. QED BY <1>0, <1>1, <2>1, TreeSound
<1>2. ASSUME NEW p \in Proc, DeleteKind(p) PROVE GraphSound'
  <2>1. HoldsRow(p) /\ UNCHANGED <<node, edge, link>> /\ kind' = kind \ {work[p].k}
        /\ work[p].op = "delete_kind"
    BY <1>2, WriteCommits DEF WriteGraph, DeleteKind, DeleteArchKind, Writes
  <2>2. \A n \in Nodes : node[n].kind # work[p].k
    BY <1>0, <2>1, AcceptedFor DEF MayDeleteKind, CountNodesByKind
  <2>. QED BY <2>1, <2>2 DEF GraphSound, Forest, Nodes
<1>3. ASSUME NEW p \in Proc, UpsertEdge(p) \/ RemoveEdge(p) PROVE GraphSound'
  <2>1. HoldsRow(p) /\ UNCHANGED <<node, kind, link>>
        /\ \/ edge' \subseteq edge
           \/ edge' = edge \cup {<<work[p].n, work[p].to>>} /\ work[p].op = "upsert_edge"
    BY <1>3, WriteCommits DEF WriteGraph, UpsertEdge, RemoveEdge, UpsertArchEdge, DeleteArchEdge, Writes
  <2>2. \A e \in edge' : e[1] \in Nodes /\ e[2] \in Nodes
    BY <1>0, <2>1, AcceptedFor DEF MayUpsertEdge, GetArchNodeIDBySlug, GraphSound
  <2>. QED BY <2>1, <2>2 DEF GraphSound, Forest, Nodes
<1>4. ASSUME NEW p \in Proc, Link(p) \/ Unlink(p) PROVE GraphSound'
  <2>1. HoldsRow(p) /\ UNCHANGED <<node, kind, edge>>
        /\ \/ link' \subseteq link
           \/ link' = link \cup {<<work[p].n, work[p].to>>} /\ work[p].op = "link"
    BY <1>4, WriteCommits
       DEF WriteGraph, Link, Unlink, InsertArchNodeLink, DeleteArchNodeLink, Writes
  <2>2. \A l \in link' : l[1] \in Nodes
    BY <1>0, <2>1, AcceptedFor DEF MayLink, GetArchNodeIDBySlug, GraphSound
  <2>. QED BY <2>1, <2>2 DEF GraphSound, Forest, Nodes
<1>5. ASSUME UNCHANGED <<node, edge>>, kind \subseteq kind', UNCHANGED link \/ Relink
      PROVE  GraphSound'
  <2>1. \A l \in link' : l[1] \in Nodes
    BY <1>5 DEF Relink, GraphSound
  <2>. QED BY <1>5, <2>1 DEF GraphSound, Forest, Nodes
<1>6. ASSUME NEW p \in Proc, ArchCall(p) PROVE GraphSound'
  <2>1. UNCHANGED <<node, edge, link>> /\ (UNCHANGED kind \/ EnsureDefaultKinds)
    BY <1>0, <1>6, CallBegins DEF Begins
  <2>. QED BY <1>0, <1>5, <2>1, DefaultsAdd DEF Shapes
<1>7. ASSUME NEW p \in Proc,
             \/ acquireOrExtendLock(p) \/ InsertLockRow(p) \/ Checkpoint(p) \/ Abort(p) \/ UpsertKind(p)
      PROVE  GraphSound'
  <2>1. UNCHANGED <<node, edge, link>> /\ kind \subseteq kind'
    BY <1>7 DEF acquireOrExtendLock, InsertLockRow, Checkpoint, Abort, UpsertKind, UpsertArchKind,
                graphVars
  <2>. QED BY <1>5, <2>1
<1>8. CASE ReadKinds \/ ArchBackground \/ UNCHANGED <<archVars, link>> \/ Relink
  <2>1. /\ UNCHANGED <<node, edge>>
        /\ UNCHANGED kind \/ EnsureDefaultKinds
        /\ UNCHANGED link \/ Relink
    BY <1>8 DEF ReadKinds, ListKindsTool, ListKindsHandler, ArchBackground, flushOnce, flushOne,
                FlushFails, Age, graphVars, archVars, Relink
  <2>. QED BY <1>0, <1>5, <2>1, DefaultsAdd DEF Shapes
<1>. QED BY <1>1, <1>2, <1>3, <1>4, <1>6, <1>7, <1>8
         DEF ArchStepOrMove, ArchNext, ArchStep, WriteGraph

\* No request is written over another one's: of all that are past their check
\* at most one is not done, and what it was checked for still holds.
THEOREM ArchInvariant == ArchSpec => []ArchInv
<1>. QED BY ArchInvInit, ArchInvStep, PTL DEF ArchSpec, ArchStepOrMove

\* The tree has no cycles, and parents, the ends of edges, the kinds in use and
\* linked nodes exist, although each write is checked before it is made.
THEOREM GraphIsSound == ArchSpec => []GraphSound
<1>1. ArchInit => GraphSound
  BY DEF ArchInit, GraphSound, Forest, Nodes
<1>. QED BY <1>1, GraphSoundStep, ArchInvariant, PTL DEF ArchSpec, ArchStepOrMove

\* Whoever opens the list from the roots down comes to every node.
LEMMA SoundIsReached == GraphSound => EveryNodeIsReached
<1>. SUFFICES ASSUME GraphSound, NEW c \in Agent, archProject(c)
              PROVE  /\ \A S \in SUBSET Nodes :
                          (/\ ListNodesTool(c, NoNode) \subseteq S
                           /\ \A n \in S : ListNodesHandler(c, n) \subseteq S) => S = Nodes
                     /\ \A n \in Nodes :
                          /\ \E r \in GetNodeTool(c, n) : r.children = ListNodesHandler(c, n)
                          /\ GetNodeTool(c, n) = GetNodeHandler(c, n)
                          /\ ListEdgesTool(c, n) = ListEdgesHandler(c, n)
                          /\ \A e \in ListEdgesTool(c, n) :
                               GetNodeTool(c, e[1]) # {} /\ GetNodeTool(c, e[2]) # {}
  BY DEF EveryNodeIsReached
<1>0. requireAccess(c)
  BY DEF archProject, requireAccess
<1>1. ASSUME NEW S \in SUBSET Nodes,
             ListNodesTool(c, NoNode) \subseteq S,
             \A n \in S : ListNodesHandler(c, n) \subseteq S
      PROVE  S = Nodes
  <2>1. SUFFICES ASSUME Nodes \ S # {} PROVE FALSE
    OBVIOUS
  <2>2. PICK n \in Nodes \ S : node[n].parent \notin Nodes \ S
    BY <2>1 DEF GraphSound, Forest
  <2>3. node[n].parent = NoNode \/ node[n].parent \in S
    BY <2>2 DEF GraphSound
  <2>. QED BY <1>0, <1>1, <2>2, <2>3 DEF ListNodesTool, ListNodesHandler, ListArchNodes
<1>2. \A n : GetNodeTool(c, n) = GetNodeHandler(c, n) /\ ListEdgesTool(c, n) = ListEdgesHandler(c, n)
  BY <1>0 DEF GetNodeTool, GetNodeHandler, ListEdgesTool, ListEdgesHandler
<1>3. ASSUME NEW n \in Nodes
      PROVE  \E r \in GetNodeTool(c, n) : r.children = ListNodesHandler(c, n)
  <2>. DEFINE x == [slug |-> n, parent |-> node[n].parent, kind |-> node[n].kind]
              r == [node |-> x, children |-> ListArchNodes(n), edges |-> ListArchEdges(n),
                    links |-> ListArchNodeLinks(n)]
  <2>1. x \in GetArchNodeBySlug(n)
    BY DEF GetArchNodeBySlug
  <2>2. r \in GetNodeTool(c, n)
    BY <2>1 DEF GetNodeTool
  <2>3. ListNodesHandler(c, n) = ListArchNodes(n)
    BY <1>0 DEF ListNodesHandler
  <2>. QED BY <2>2, <2>3
<1>4. ASSUME NEW n \in Nodes, NEW e \in ListEdgesTool(c, n)
      PROVE  GetNodeTool(c, e[1]) # {} /\ GetNodeTool(c, e[2]) # {}
  BY <1>3 DEF ListEdgesTool, ListArchEdges, GraphSound
<1>. QED BY <1>1, <1>2, <1>3, <1>4

\* From either side every node is shown, with the same edges and links.
THEOREM NodesAreReached == ArchSpec => []EveryNodeIsReached
<1>. QED BY GraphIsSound, SoundIsReached, PTL

-----------------------------------------------------------------------------
(* Sessions. *)

\* What a step does to the graph, the session and the history: a write by the
\* session's author, the end of a session, or nothing.
LEMMA SessionSteps ==
  ASSUME ArchInv, ArchStepOrMove
  PROVE  \/ \E p \in Proc : WriteGraph(p)
         \/ /\ UNCHANGED <<node, edge>>
            /\ UNCHANGED kind \/ EnsureDefaultKinds
            /\ \/ UNCHANGED <<lock, revision>>
               \/ Age
               \/ \E auto \in BOOLEAN :
                    /\ lock # NoLock /\ lock' = NoLock
                    /\ revision' = InsertArchRevision(lock, auto)
                    /\ IF auto THEN Expired
                       ELSE \E p \in Proc : work[p].op = "checkpoint" /\ work[p].by = lock.user
<1>0. Shapes
  BY DEF ArchInv
<1>1. ASSUME NEW p \in Proc, ArchCall(p)
      PROVE  UNCHANGED <<node, edge, lock, revision>> /\ (UNCHANGED kind \/ EnsureDefaultKinds)
  BY <1>0, <1>1, CallBegins DEF Begins
<1>2. ASSUME NEW p \in Proc, acquireOrExtendLock(p) \/ InsertLockRow(p) \/ Abort(p)
      PROVE  UNCHANGED <<node, edge, kind, lock, revision>>
  BY <1>2 DEF acquireOrExtendLock, InsertLockRow, Abort, graphVars
<1>3. ASSUME NEW p \in Proc, Checkpoint(p)
      PROVE  /\ UNCHANGED <<node, edge, kind>>
             /\ \/ UNCHANGED <<lock, revision>>
                \/ /\ lock # NoLock /\ lock' = NoLock
                   /\ revision' = InsertArchRevision(lock, FALSE)
                   /\ work[p].op = "checkpoint" /\ work[p].by = lock.user
  BY <1>3 DEF Checkpoint, graphVars, flushLockedSession, DeleteArchLock, GetArchLockForUpdate
<1>4. CASE ArchBackground
  <2>1. UNCHANGED <<node, edge, kind>>
    BY <1>4 DEF ArchBackground, flushOnce, flushOne, FlushFails, Age, graphVars
  <2>2. \/ UNCHANGED <<lock, revision>>
        \/ Age
        \/ /\ lock # NoLock /\ lock' = NoLock
           /\ revision' = InsertArchRevision(lock, TRUE) /\ Expired
    BY <1>4 DEF ArchBackground, flushOnce, flushOne, FlushFails, flushLockedSession, DeleteArchLock
  <2>3. TRUE \in BOOLEAN
    OBVIOUS
  <2>. QED BY <2>1, <2>2, <2>3
<1>5. CASE ReadKinds \/ UNCHANGED <<archVars, link>> \/ Relink
  BY <1>5 DEF ReadKinds, ListKindsTool, ListKindsHandler, archVars, Relink
<1>6. FALSE \in BOOLEAN
  OBVIOUS
<1>7. ASSUME NEW p \in Proc, Checkpoint(p)
      PROVE  /\ UNCHANGED <<node, edge, kind>>
             /\ \/ UNCHANGED <<lock, revision>>
                \/ \E auto \in BOOLEAN :
                    /\ lock # NoLock /\ lock' = NoLock
                    /\ revision' = InsertArchRevision(lock, auto)
                    /\ IF auto THEN Expired
                       ELSE \E q \in Proc : work[q].op = "checkpoint" /\ work[q].by = lock.user
  <2>1. CASE UNCHANGED <<lock, revision>>
    BY <1>3, <1>7, <2>1
  <2>2. CASE ~ UNCHANGED <<lock, revision>>
    <3>1. /\ lock # NoLock /\ lock' = NoLock
          /\ revision' = InsertArchRevision(lock, FALSE)
          /\ work[p].op = "checkpoint" /\ work[p].by = lock.user
      BY <1>3, <1>7, <2>2
    <3>. QED BY <1>3, <1>6, <1>7, <3>1
  <2>. QED BY <2>1, <2>2
<1>. QED BY <1>1, <1>2, <1>4, <1>5, <1>7 DEF ArchStepOrMove, ArchNext, ArchStep

\* A write: the session it leaves is its author's.
LEMMA WriteSession ==
  ASSUME ArchInv, NEW p \in Proc, WriteGraph(p)
  PROVE  /\ work[p].pc = "write" /\ work'[p].pc = "resting"
         /\ lock' # NoLock /\ lock'.user = work[p].by
         /\ lock # NoLock /\ lock.user # work[p].by => Expired
<1>1. HoldsRow(p) /\ SessionWritten(work[p]) /\ EndTx(p)
  BY WriteCommits
<1>2. Shapes /\ Wanted(work[p]) /\ work[p].pc = "write"
      /\ (lock # NoLock /\ lock.user # work[p].by => Expired)
  BY <1>1 DEF ArchInv, Shapes, HoldsRow, WriterStillRight
<1>3. work'[p].pc = "resting"
  BY <1>1, <1>2 DEF EndTx, Shapes, Resting
<1>. QED BY <1>1, <1>2, <1>3, SessionShape

\* Nodes, edges and kinds change only by the open session's author, but for
\* the defaults that fill an empty catalogue.
LEMMA AuthorStep ==
  ASSUME ArchInv, ArchStepOrMove
  PROVE  /\ <<node, edge>>' # <<node, edge>> =>
              /\ lock' # NoLock
              /\ \E p \in Proc : work[p].pc = "write" /\ work'[p].pc = "resting" /\ lock'.user = work[p].by
         /\ kind' # kind =>
              \/ kind = {}
              \/ \E p \in Proc : work[p].pc = "write" /\ lock' # NoLock /\ lock'.user = work[p].by
<1>1. CASE \E p \in Proc : WriteGraph(p)
  BY <1>1, WriteSession
<1>2. CASE UNCHANGED <<node, edge>> /\ (UNCHANGED kind \/ EnsureDefaultKinds)
  BY <1>2 DEF EnsureDefaultKinds, CountArchKinds
<1>. QED BY <1>1, <1>2, SessionSteps

THEOREM AuthorsOwn == ArchSpec => AuthorsOwnTheirSession
<1>. QED BY AuthorStep, ArchInvariant, PTL DEF ArchSpec, ArchStepOrMove, AuthorsOwnTheirSession

\* The last revision made says whether it was made by the clock.
LEMMA LastRevision ==
  ASSUME Shapes, lock # NoLock, NEW auto \in BOOLEAN, NEW r, r = InsertArchRevision(lock, auto)
  PROVE  /\ r \in Seq(Closed) /\ Len(r) = Len(revision) + 1
         /\ \A i \in 1..Len(revision) : r[i] = revision[i]
         /\ r[Len(r)] = [user |-> lock.user, writes |-> lock.writes, auto |-> auto,
                         snapshot |-> BuildArchSnapshot]
<1>. DEFINE e == [user |-> lock.user, writes |-> lock.writes, auto |-> auto,
                  snapshot |-> BuildArchSnapshot]
<1>1. e \in Closed
  BY DEF Closed, BuildArchSnapshot, Shapes, Open
<1>2. r = Append(revision, e) /\ revision \in Seq(Closed)
  BY DEF InsertArchRevision, Shapes
<1>. HIDE DEF e
<1>3. r \in Seq(Closed) /\ Len(r) = Len(revision) + 1 /\ Len(revision) \in Nat
      /\ (\A i \in 1..Len(revision) : r[i] = revision[i]) /\ r[Len(revision) + 1] = e
  BY <1>1, <1>2
<1>. QED BY <1>3 DEF e

\* A session that ends, or is replaced, was its author's to end or had expired.
LEMMA EndStep ==
  ASSUME ArchInv, ArchStepOrMove, lock # NoLock, lock' = NoLock \/ lock'.base # lock.base
  PROVE  \/ \E p \in Proc : work[p].op = "checkpoint" /\ work[p].by = lock.user
         \/ lock.age >= IdleThreshold /\ revision'[Len(revision')].auto
<1>0. Shapes /\ lock \in Open
  BY DEF ArchInv, Shapes
<1>1. ASSUME NEW p \in Proc, WriteGraph(p)
      PROVE  lock.age >= IdleThreshold /\ revision'[Len(revision')].auto
  <2>1. SessionWritten(work[p]) /\ lock' # NoLock
    BY <1>1, WriteCommits, WriteSession
  <2>2. lock.user # work[p].by
    <3>1. SUFFICES ASSUME lock.user = work[p].by PROVE FALSE
      OBVIOUS
    <3>2. lock' = ExtendArchLock
      BY <2>1, <3>1 DEF SessionWritten
    <3>3. lock'.base = lock.base
      BY <1>0, <3>2 DEF ExtendArchLock, Open
    <3>. QED BY <2>1, <3>3
  <2>3. Expired
    BY <1>1, <2>2, WriteSession
  <2>4. revision' = InsertArchRevision(lock, TRUE)
    BY <2>1, <2>2 DEF SessionWritten
  <2>5. TRUE \in BOOLEAN
    OBVIOUS
  <2>6. revision'[Len(revision')] = [user |-> lock.user, writes |-> lock.writes, auto |-> TRUE,
                                     snapshot |-> BuildArchSnapshot]
    BY <1>0, <2>4, <2>5, LastRevision
  <2>. QED BY <2>3, <2>6 DEF Expired
<1>2. CASE UNCHANGED <<lock, revision>>
  BY <1>2
<1>3. CASE Age
  BY <1>0, <1>3, AgeShape, ArchAssumption DEF Age, Open
<1>4. ASSUME NEW auto \in BOOLEAN, revision' = InsertArchRevision(lock, auto),
             IF auto THEN Expired
             ELSE \E p \in Proc : work[p].op = "checkpoint" /\ work[p].by = lock.user
      PROVE  \/ \E p \in Proc : work[p].op = "checkpoint" /\ work[p].by = lock.user
             \/ lock.age >= IdleThreshold /\ revision'[Len(revision')].auto
  <2>1. revision'[Len(revision')] = [user |-> lock.user, writes |-> lock.writes, auto |-> auto,
                                     snapshot |-> BuildArchSnapshot]
    BY <1>0, <1>4, LastRevision
  <2>2. revision'[Len(revision')].auto = auto
    BY <2>1
  <2>. QED BY <1>4, <2>2 DEF Expired
<1>. QED BY <1>1, <1>2, <1>3, <1>4, SessionSteps

THEOREM SessionsEnd == ArchSpec => SessionsEndInTime
<1>. QED BY EndStep, ArchInvariant, PTL DEF ArchSpec, ArchStepOrMove, SessionsEndInTime

\* With no session open the last revision is the graph as it is.
LastIsLive ==
  lock = NoLock /\ Len(revision) > 0 => revision[Len(revision)].snapshot = BuildArchSnapshot

LEMMA LastIsLiveStep == ArchInv /\ LastIsLive /\ ArchStepOrMove => LastIsLive'
<1>. SUFFICES ASSUME ArchInv, LastIsLive, ArchStepOrMove, lock' = NoLock, Len(revision') > 0
              PROVE  revision'[Len(revision')].snapshot = BuildArchSnapshot'
  BY DEF LastIsLive
<1>0. Shapes
  BY DEF ArchInv
<1>1. ~ \E p \in Proc : WriteGraph(p)
  BY WriteSession
<1>2. ~ Age
  <2>1. SUFFICES ASSUME Age PROVE FALSE
    OBVIOUS
  <2>2. lock \in Open /\ lock' = [lock EXCEPT !.age = Older(lock.age)]
    BY <1>0, <2>1 DEF Age, Shapes
  <2>3. lock' \in Open
    BY <2>2, AgeShape
  <2>. QED BY <2>3, ArchAssumption DEF Open
<1>3. UNCHANGED <<node, edge>>
  BY <1>1, SessionSteps
<1>4. CASE UNCHANGED <<lock, revision>>
  BY <1>3, <1>4 DEF LastIsLive, BuildArchSnapshot
<1>5. ASSUME NEW auto \in BOOLEAN, lock # NoLock, revision' = InsertArchRevision(lock, auto)
      PROVE  revision'[Len(revision')].snapshot = BuildArchSnapshot'
  <2>1. revision'[Len(revision')] = [user |-> lock.user, writes |-> lock.writes, auto |-> auto,
                                     snapshot |-> BuildArchSnapshot]
    BY <1>0, <1>5, LastRevision
  <2>2. revision'[Len(revision')].snapshot = BuildArchSnapshot
    BY <2>1
  <2>. QED BY <1>3, <2>2 DEF BuildArchSnapshot
<1>. QED BY <1>1, <1>2, <1>4, <1>5, SessionSteps

LEMMA LiveIsShown == Shapes /\ LastIsLive => NewestRevisionIsLive
<1>. SUFFICES ASSUME Shapes, LastIsLive, lock = NoLock, NEW c \in Caller,
                     NEW v \in ListArchHistoryHandler(c, Len(revision) + 1),
                     v + 1 \notin ListArchHistoryHandler(c, Len(revision) + 1)
              PROVE  \E r \in GetArchRevisionHandler(c, v) : r.snapshot = [node |-> node, edge |-> edge]
  BY DEF NewestRevisionIsLive
<1>1. requireAccess(c) /\ v \in 1..Len(revision) /\ Len(revision) \in Nat
  BY DEF ListArchHistoryHandler, ListArchRevisions, Shapes
<1>2. v = Len(revision)
  BY <1>1 DEF ListArchHistoryHandler, ListArchRevisions
<1>3. revision[v] \in GetArchRevisionHandler(c, v)
  BY <1>1 DEF GetArchRevisionHandler, GetArchRevision
<1>. QED BY <1>1, <1>2, <1>3 DEF LastIsLive, BuildArchSnapshot

\* Between sessions, the newest revision the history shows is what everybody
\* sees.
THEOREM HistoryIsLive == ArchSpec => []NewestRevisionIsLive
<1>1. ArchInit => LastIsLive
  BY DEF ArchInit, LastIsLive
<1>2. ArchSpec => []LastIsLive
  BY <1>1, LastIsLiveStep, ArchInvariant, PTL DEF ArchSpec, ArchStepOrMove
<1>. QED BY <1>2, LiveIsShown, ArchInvariant, PTL DEF ArchInv

-----------------------------------------------------------------------------
(* The sessions implement their log. *)

Shown(rows) ==
  [i \in 1..Len(rows) |-> [author |-> rows[i].user, writes |-> rows[i].writes,
                           graph |-> rows[i].snapshot]]

LEMMA ShownAppends ==
  ASSUME Shapes, lock # NoLock, NEW auto \in BOOLEAN, NEW r, r = InsertArchRevision(lock, auto)
  PROVE  Shown(r) = Append(Shown(revision), [author |-> lock.user, writes |-> lock.writes,
                                             graph |-> [node |-> node, edge |-> edge]])
<1>. DEFINE e == [author |-> lock.user, writes |-> lock.writes,
                  graph |-> [node |-> node, edge |-> edge]]
            s == Shown(revision)
            E == {s[i] : i \in 1..Len(revision)} \cup {e}
<1>1. /\ Len(r) = Len(revision) + 1 /\ Len(revision) \in Nat
      /\ \A i \in 1..Len(revision) : r[i] = revision[i]
      /\ r[Len(revision) + 1].user = lock.user /\ r[Len(revision) + 1].writes = lock.writes
      /\ r[Len(revision) + 1].snapshot = [node |-> node, edge |-> edge]
  <2>1. /\ Len(r) = Len(revision) + 1
        /\ \A i \in 1..Len(revision) : r[i] = revision[i]
        /\ r[Len(r)] = [user |-> lock.user, writes |-> lock.writes, auto |-> auto,
                        snapshot |-> BuildArchSnapshot]
    BY LastRevision
  <2>2. Len(revision) \in Nat
    BY DEF Shapes
  <2>. QED BY <2>1, <2>2 DEF BuildArchSnapshot
<1>2. s \in [1..Len(revision) -> E]
  BY DEF Shown
<1>3. s \in Seq(E) /\ Len(s) = Len(revision)
  BY <1>1, <1>2
<1>4. Shown(r) = [i \in 1..Len(revision) + 1 |-> IF i = Len(revision) + 1 THEN e ELSE s[i]]
  BY <1>1 DEF Shown
<1>5. e \in E
  OBVIOUS
<1>. HIDE DEF s, e, E
<1>6. Append(s, e) = [i \in 1..Len(revision) + 1 |-> IF i = Len(revision) + 1 THEN e ELSE s[i]]
  <2>. DEFINE a == Append(s, e)
  <2>1. /\ a \in Seq(E) /\ Len(a) = Len(revision) + 1
        /\ \A i \in 1..Len(revision) : a[i] = s[i]
        /\ a[Len(revision) + 1] = e
    BY <1>3, <1>5
  <2>. HIDE DEF a
  <2>2. a \in [1..Len(revision) + 1 -> E]
    BY <1>1, <2>1
  <2>3. \A i \in 1..Len(revision) + 1 : a[i] = IF i = Len(revision) + 1 THEN e ELSE s[i]
    BY <1>1, <2>1
  <2>. QED BY <2>2, <2>3 DEF a
<1>. QED BY <1>4, <1>6 DEF s, e

\* The open session as its log sees it.
Shows(row) == IF row = NoLock THEN NoLock ELSE [author |-> row.user, writes |-> row.writes]

LEMMA ShowsOpen ==
  ASSUME NEW r \in Open
  PROVE  Shows(r) # NoLock /\ Shows(r).author = r.user /\ Shows(r).writes = r.writes
         /\ Shows(r) = [author |-> r.user, writes |-> r.writes]
<1>1. r # NoLock /\ [author |-> r.user, writes |-> r.writes] \in [author : User, writes : Nat]
  BY ArchAssumption DEF Open
<1>. QED BY <1>1, ArchAssumption DEF Shows

\* A commit that continues its author's session ...
LEMMA WriteContinues ==
  ASSUME ArchInv, NEW p \in Proc, WriteGraph(p), lock # NoLock, lock.user = work[p].by
  PROVE  /\ Shows(lock') = [Shows(lock) EXCEPT !.writes = @ + 1]
         /\ Shows(lock) # NoLock /\ UNCHANGED revision
<1>1. lock \in Open /\ SessionWritten(work[p])
  BY WriteCommits DEF ArchInv, Shapes
<1>2. lock' = [lock EXCEPT !.writes = @ + 1, !.age = 0] /\ UNCHANGED revision
  BY <1>1 DEF SessionWritten, ExtendArchLock
<1>3. /\ lock.user \in User /\ lock.writes \in Nat \ {0} /\ lock.writes + 1 \in Nat \ {0}
      /\ lock.base \in Nat /\ 0 \in 0..IdleThreshold + 1
  BY <1>1, ArchAssumption DEF Open
<1>4. lock' = [user |-> lock.user, writes |-> lock.writes + 1, base |-> lock.base, age |-> 0]
  BY <1>1, <1>2 DEF Open
<1>5. lock' \in Open
  BY <1>3, <1>4 DEF Open
<1>6. Shows(lock) = [author |-> lock.user, writes |-> lock.writes] /\ Shows(lock) # NoLock
  BY <1>1, ShowsOpen
<1>7. Shows(lock') = [author |-> lock.user, writes |-> lock.writes + 1]
  BY <1>4, <1>5, ShowsOpen
<1>. QED BY <1>2, <1>6, <1>7

\* ... and one that starts a session of its own.
LEMMA WriteStarts ==
  ASSUME ArchInv, NEW p \in Proc, WriteGraph(p), lock = NoLock \/ lock.user # work[p].by
  PROVE  /\ work[p].by \in User
         /\ Shows(lock') = [author |-> work[p].by, writes |-> 1]
         /\ revision' = IF lock = NoLock THEN revision ELSE InsertArchRevision(lock, TRUE)
<1>1. SessionWritten(work[p]) /\ Shapes /\ Wanted(work[p]) /\ work[p].pc = "write"
  BY WriteCommits DEF ArchInv, Shapes, HoldsRow
<1>2. work[p].by \in User
  BY <1>1 DEF Wanted
<1>3. lock' = [user |-> work[p].by, writes |-> 1, base |-> Len(revision'), age |-> 0]
      /\ revision' = IF lock = NoLock THEN revision ELSE InsertArchRevision(lock, TRUE)
  BY <1>1 DEF SessionWritten, InsertArchLock
<1>4. lock' # NoLock
  BY WriteSession
<1>. QED BY <1>2, <1>3, <1>4 DEF Shows

LogStep == [SessionLogOf!LogNext]_SessionLogOf!logVars

LEMMA LogIs ==
  LogStep <=>
    \/ /\ Shows(lock) # NoLock
       /\ Shows(lock') = [Shows(lock) EXCEPT !.writes = @ + 1]
       /\ Shown(revision') = Shown(revision)
    \/ \E a \in User :
         /\ IF Shows(lock) = NoLock THEN Shown(revision') = Shown(revision)
            ELSE /\ Shows(lock).author # a
                 /\ Shown(revision') =
                      Append(Shown(revision), [author |-> Shows(lock).author, writes |-> Shows(lock).writes,
                                               graph |-> [node |-> node, edge |-> edge]])
         /\ Shows(lock') = [author |-> a, writes |-> 1]
    \/ /\ Shows(lock) # NoLock
       /\ Shown(revision') =
            Append(Shown(revision), [author |-> Shows(lock).author, writes |-> Shows(lock).writes,
                                     graph |-> [node |-> node, edge |-> edge]])
       /\ Shows(lock') = NoLock
       /\ [node |-> node, edge |-> edge]' = [node |-> node, edge |-> edge]
    \/ /\ [node |-> node, edge |-> edge]' = [node |-> node, edge |-> edge]
       /\ Shows(lock') = Shows(lock)
       /\ Shown(revision') = Shown(revision)
  BY DEF LogStep, SessionLogOf!LogNext, SessionLogOf!logVars, SessionLogOf!Continue,
         SessionLogOf!Start, SessionLogOf!Close, SessionLogOf!Record, Shows, Shown

\* Each step is one of the log's, or none of its business.
LEMMA LogStepHolds == ASSUME ArchInv, ArchStepOrMove PROVE LogStep
<1>0. Shapes /\ (lock # NoLock => lock \in Open)
  BY DEF ArchInv, Shapes
<1>. DEFINE added == [author |-> Shows(lock).author, writes |-> Shows(lock).writes,
                      graph |-> [node |-> node, edge |-> edge]]
<1>1. ASSUME NEW auto \in BOOLEAN, lock # NoLock, revision' = InsertArchRevision(lock, auto)
      PROVE  Shown(revision') = Append(Shown(revision), added) /\ Shows(lock) # NoLock
  BY <1>0, <1>1, ShownAppends, ShowsOpen
<1>2. ASSUME NEW p \in Proc, WriteGraph(p) PROVE LogStep
  <2>1. CASE lock # NoLock /\ lock.user = work[p].by
    BY <1>2, <2>1, WriteContinues, LogIs
  <2>2. CASE lock = NoLock
    BY <1>2, <2>2, WriteStarts, LogIs DEF Shows
  <2>3. CASE lock # NoLock /\ lock.user # work[p].by
    <3>1. /\ work[p].by \in User
          /\ Shows(lock') = [author |-> work[p].by, writes |-> 1]
          /\ revision' = InsertArchRevision(lock, TRUE)
      BY <1>2, <2>3, WriteStarts
    <3>2. TRUE \in BOOLEAN
      OBVIOUS
    <3>3. Shown(revision') = Append(Shown(revision), added) /\ Shows(lock) # NoLock
      BY <1>1, <2>3, <3>1, <3>2
    <3>4. Shows(lock).author # work[p].by
      BY <1>0, <2>3, ShowsOpen
    <3>. QED BY <3>1, <3>3, <3>4, LogIs
  <2>. QED BY <2>1, <2>2, <2>3
<1>3. CASE UNCHANGED <<node, edge, lock, revision>>
  BY <1>3, LogIs
<1>4. CASE Age /\ UNCHANGED <<node, edge>>
  <2>1. lock \in Open /\ lock' = [lock EXCEPT !.age = Older(lock.age)] /\ UNCHANGED revision
    BY <1>0, <1>4 DEF Age
  <2>2. lock' \in Open /\ lock'.user = lock.user /\ lock'.writes = lock.writes
    BY <2>1, AgeShape
  <2>3. Shows(lock') = Shows(lock)
    BY <2>1, <2>2, ShowsOpen
  <2>. QED BY <1>4, <2>1, <2>3, LogIs
<1>5. ASSUME NEW auto \in BOOLEAN, lock # NoLock, lock' = NoLock,
             revision' = InsertArchRevision(lock, auto), UNCHANGED <<node, edge>>
      PROVE  LogStep
  BY <1>1, <1>5, LogIs DEF Shows
<1>. QED BY <1>2, <1>3, <1>4, <1>5, SessionSteps

LEMMA SessionLogStarts == ArchInit => SessionLogOf!LogInit
<1>1. SUFFICES ASSUME ArchInit PROVE Shows(lock) = NoLock /\ Shown(revision) = <<>>
  BY DEF SessionLogOf!LogInit, Shows, Shown
<1>2. revision = <<>> /\ lock = NoLock
  BY <1>1 DEF ArchInit
<1>3. Len(<<>>) = 0
  OBVIOUS
<1>4. 1..0 = {}
  OBVIOUS
<1>5. Shown(revision) = [i \in {} |-> i]
  BY <1>2, <1>3, <1>4 DEF Shown
<1>6. <<>> = [i \in {} |-> i]
  OBVIOUS
<1>. QED BY <1>2, <1>5, <1>6 DEF Shows

\* What the sessions do is what their log promises.
THEOREM SessionsImplementLog == ArchSpec => ImplementsSessionLog
<1>1. ArchInit => SessionLogOf!LogInit
  BY SessionLogStarts
<1>2. ArchInv /\ ArchStepOrMove => LogStep
  BY LogStepHolds
<1>. QED BY <1>1, <1>2, ArchInvariant, PTL
  DEF ArchSpec, ArchStepOrMove, LogStep, ImplementsSessionLog, SessionLogOf!LogSpec

=============================
