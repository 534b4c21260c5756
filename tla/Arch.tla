--------------------------------- MODULE Arch ---------------------------------
(***************************************************************************)
(* The architecture graph of one project (internal/arch): a forest of      *)
(* nodes, edges between them, the catalogue of their kinds and the links   *)
(* to documents and tasks.  All edits of one author in a row are a         *)
(* session, whose row in arch_locks keeps the others out until a           *)
(* checkpoint or the idle threshold closes it with one revision.           *)
(*                                                                         *)
(* A write is one transaction in up to four steps: its first statement     *)
(* begins, and sees the lock row or none; it gets that row, or goes on to  *)
(* insert one, and checks what the write needs; it writes and commits.     *)
(* The age of a session counts ticks since its last commit and stops past  *)
(* the threshold.  Names, descriptions, positions and the labels and kinds *)
(* of edges are left out.                                                  *)
(***************************************************************************)
EXTENDS DocLinks, Integers, Sequences

CONSTANTS
  Kind,
  DefaultKinds,    \* the kinds an empty catalogue is filled with
  Task,
  HomeTask,        \* the tasks of this project
  NoNode,          \* no parent
  NoLock,
  IdleThreshold    \* ticks without a write after which a session is over

ASSUME ArchAssumption ==
  /\ DefaultKinds \subseteq Kind /\ DefaultKinds # {}
  /\ HomeTask \subseteq Task
  /\ NoNode \notin Node
  /\ NoLock \notin [user : User, writes : Nat, base : Nat, age : Nat]
  /\ NoLock \notin [author : User, writes : Nat]
  /\ IdleThreshold \in Nat

VARIABLES
  node,        \* arch_nodes: [parent, kind] by slug
  edge,        \* arch_edges: pairs of slugs
  kind,        \* arch_node_kinds
  lock,        \* arch_locks: the open session's row, or NoLock
  revision,    \* arch_revisions
  work,        \* what each request is doing
  ticker       \* what the flush ticker is doing

graphVars == <<node, edge, kind, link>>
archVars  == <<node, edge, kind, lock, revision, work, ticker>>

Nodes == DOMAIN node
NoRow == -1                                 \* a statement found no lock row

Resting == [pc |-> "resting", op |-> "none", by |-> NoLock, n |-> NoNode, to |-> NoNode,
            k |-> NoNode, cascade |-> FALSE, seen |-> NoRow]

-----------------------------------------------------------------------------
(* Queries. *)

ArchKindExists(k)        == k \in kind
CountArchKinds           == kind # {}
CountNodesByKind(k)      == {n \in Nodes : node[n].kind = k}
CountArchNodeChildren(n) == {m \in Nodes : node[m].parent = n}
GetArchNodeIDBySlug(n)   == n \in Nodes

\* The node and everything under it.
Subtree(n) ==
  {m \in Nodes :
     \A S \in SUBSET Nodes :
       (n \in S /\ \A x \in Nodes : node[x].parent \in S => x \in S) => m \in S}

\* Descendants of the node among the ancestors of the new parent.
ArchNodeCycleCheck(parent, n) == parent \in Subtree(n)

GetArchNodeBySlug(n) == {[slug |-> m, parent |-> node[m].parent, kind |-> node[m].kind] :
                           m \in Nodes \cap {n}}
ListArchNodes(parent)  == {m \in Nodes : node[m].parent = parent}    \* NoNode: root_only
ListArchEdges(n)       == {e \in edge : n \in {e[1], e[2]}}
ListArchNodeLinks(n)   == {l \in link : l[1] = n}
ListArchKinds          == kind

InsertDefaultArchKind == kind \cup DefaultKinds
UpsertArchKind(k)     == kind \cup {k}
DeleteArchKind(k)     == kind \ {k}
InsertArchNode(n, parent, k) ==
  [m \in Nodes \cup {n} |-> IF m = n THEN [parent |-> parent, kind |-> k] ELSE node[m]]
UpdateArchNode(n, parent, k) == [node EXCEPT ![n] = [parent |-> parent, kind |-> k]]
MoveArchNode(n, parent)      == [node EXCEPT ![n].parent = parent]
DeleteArchNode(n)            == [m \in Nodes \ Subtree(n) |-> node[m]]
UpsertArchEdge(n, m)         == edge \cup {<<n, m>>}
DeleteArchEdge(n, m)         == edge \ {<<n, m>>}

AnyProject(t)       == TRUE     \* mutant: a task of any project
ProjectIDForTask(t) == t \in HomeTask

GetArchLockForUpdate(seen)  == lock # NoLock /\ lock.base = seen
MaxArchRevisionVersion      == Len(revision)
InsertArchLock(u, base)     == [user |-> u, writes |-> 1, base |-> base, age |-> 0]
ExtendArchLock              == [lock EXCEPT !.writes = @ + 1, !.age = 0]
WithoutEdges                == [node |-> node, edge |-> {}]       \* mutant
BuildArchSnapshot           == [node |-> node, edge |-> edge]     \* kinds and links left out
InsertArchRevision(row, auto) ==
  Append(revision, [user |-> row.user, writes |-> row.writes, auto |-> auto,
                    snapshot |-> BuildArchSnapshot])
KeepArchLock   == lock        \* mutant: the row stays
DeleteArchLock == NoLock
ListFreshArchLocks   == {r \in {lock} \ {NoLock} : r.age < IdleThreshold}     \* mutant
ListExpiredArchLocks == {r \in {lock} \ {NoLock} : r.age > IdleThreshold}
ListArchRevisions(before) == {v \in 1..Len(revision) : v < before}
GetArchRevision(v) == {revision[i] : i \in {v} \cap (1..Len(revision))}

-----------------------------------------------------------------------------
(* What each write checks once it has the session. *)

KnownParent(w)  == w.to = NoNode \/ GetArchNodeIDBySlug(w.to)
AnyParent(w)    == TRUE        \* mutant: the new parent is not looked at
NoCycle(w)      == w.to = NoNode \/ (w.to # w.n /\ ~ ArchNodeCycleCheck(w.to, w.n))

MayUpsertNode(w) ==
  /\ w.op = "upsert_node"
  /\ ArchKindExists(w.k) /\ KnownParent(w)
  /\ GetArchNodeIDBySlug(w.n) => NoCycle(w)

MayMoveNode(w) ==
  w.op = "move_node" /\ GetArchNodeIDBySlug(w.n) /\ KnownParent(w) /\ NoCycle(w)

MayRemoveNode(w) ==
  /\ w.op = "remove_node" /\ GetArchNodeIDBySlug(w.n)
  /\ w.cascade \/ CountArchNodeChildren(w.n) = {}

MayDeleteKind(w) == w.op = "delete_kind" /\ CountNodesByKind(w.k) = {} /\ ArchKindExists(w.k)
MayUpsertEdge(w) == w.op = "upsert_edge" /\ GetArchNodeIDBySlug(w.n) /\ GetArchNodeIDBySlug(w.to)
MayRemoveEdge(w) == w.op = "remove_edge" /\ <<w.n, w.to>> \in edge
MayLink(w)       == /\ w.op = "link" /\ GetArchNodeIDBySlug(w.n)
                    /\ w.to \in Task => ProjectIDForTask(w.to)
MayUnlink(w)     == w.op = "unlink" /\ GetArchNodeIDBySlug(w.n)

Accepted(w) ==
  \/ MayUpsertNode(w) \/ MayMoveNode(w) \/ MayRemoveNode(w)
  \/ w.op = "upsert_kind" \/ MayDeleteKind(w)
  \/ MayUpsertEdge(w) \/ MayRemoveEdge(w) \/ MayLink(w) \/ MayUnlink(w)

-----------------------------------------------------------------------------
(* The session. *)

ArchInit ==
  /\ node = [n \in {} |-> NoNode]
  /\ edge = {} /\ kind = {} /\ link = {}
  /\ lock = NoLock /\ revision = <<>>
  /\ work = [p \in Proc |-> Resting]
  /\ ticker = "waiting"

\* The transaction that holds the lock row, or has inserted one: everybody
\* else's FOR UPDATE and INSERT wait for its end.
HoldsRow(q) == work[q].pc = "write"
NobodyWaits(p) == TRUE         \* mutant: GetArchLock in place of GetArchLockForUpdate
RowIsFree(p)   == \A q \in Proc \ {p} : ~ HoldsRow(q)

EndTx(p) == work' = [work EXCEPT ![p] = Resting]

GoesOn(p, pc) == work' = [work EXCEPT ![p].pc = pc, ![p].seen = NoRow]

\* A write begins, or a checkpoint.  Its first statement sees the row that is
\* there now; with none a write goes on to insert one.
withSession(p, u, op, n, to, k, cascade) ==
  /\ work[p].pc = "resting"
  /\ work' = [work EXCEPT ![p] =
       [pc |-> IF lock = NoLock /\ op # "checkpoint" THEN "insert" ELSE "acquire", op |-> op, by |-> u,
        n |-> n, to |-> to, k |-> k, cascade |-> cascade,
        seen |-> IF lock = NoLock THEN NoRow ELSE lock.base]]
  /\ UNCHANGED <<node, edge, lock, revision, ticker, link>>

NeverMind == TRUE              \* mutant: expiry is not looked at again
Expired   == lock.age >= IdleThreshold

\* The session is the caller's: the write goes on if its own checks accept it,
\* and rolls the session's part back too if they do not.
Check(p) == IF Accepted(work[p]) THEN GoesOn(p, "write") ELSE EndTx(p)

\* The row is free.  If it was replaced meanwhile the statement returns none.
acquireOrExtendLock(p) ==
  LET w == work[p] IN
  /\ w.pc = "acquire" /\ w.op # "checkpoint"
  /\ RowIsFree(p)
  /\ IF ~ GetArchLockForUpdate(w.seen) THEN GoesOn(p, "insert")
     ELSE IF lock.user = w.by \/ Expired THEN Check(p)
     ELSE EndTx(p)
  /\ UNCHANGED <<graphVars, lock, revision, ticker>>

\* Of two first writers the second one waits, then hits the primary key.
InsertLockRow(p) ==
  /\ work[p].pc = "insert" /\ RowIsFree(p)
  /\ IF lock = NoLock THEN Check(p) ELSE EndTx(p)
  /\ UNCHANGED <<graphVars, lock, revision, ticker>>

flushLockedSession(auto) == revision' = InsertArchRevision(lock, auto) /\ lock' = DeleteArchLock

\* mutant: an expired session of somebody else is extended, not flushed
ExtendsAnyones(w) ==
  /\ lock' = IF lock # NoLock THEN ExtendArchLock ELSE InsertArchLock(w.by, Len(revision))
  /\ UNCHANGED revision

\* The session's part of a commit: the author's row is extended, an expired
\* one of somebody else is flushed, as the graph was before this write.
SessionWritten(w) ==
  IF lock # NoLock /\ lock.user = w.by
  THEN lock' = ExtendArchLock /\ UNCHANGED revision
  ELSE /\ revision' = IF lock = NoLock THEN revision ELSE InsertArchRevision(lock, TRUE)
       /\ lock' = InsertArchLock(w.by, Len(revision'))

Checkpoint(p) ==
  LET w == work[p] IN
  /\ w.op = "checkpoint" /\ w.pc = "acquire"
  /\ RowIsFree(p)
  /\ IF GetArchLockForUpdate(w.seen) /\ lock.user = w.by
     THEN flushLockedSession(FALSE) ELSE UNCHANGED <<lock, revision>>
  /\ EndTx(p)
  /\ UNCHANGED <<graphVars, ticker>>

\* The ticker lists the locks that have expired, then takes each one up in a
\* transaction of its own and looks again.
flushOnce ==
  /\ ticker = "waiting" /\ ListExpiredArchLocks # {}
  /\ ticker' = "listed"
  /\ UNCHANGED <<graphVars, lock, revision, work>>

flushOne ==
  /\ ticker = "listed"
  /\ \A q \in Proc : ~ HoldsRow(q)
  /\ IF lock # NoLock /\ Expired THEN flushLockedSession(TRUE) ELSE UNCHANGED <<lock, revision>>
  /\ ticker' = "waiting"
  /\ UNCHANGED <<graphVars, work>>

\* A flush fails and is logged, or the server restarts.
FlushFails == ticker = "listed" /\ ticker' = "waiting" /\ UNCHANGED <<graphVars, lock, revision, work>>

Abort(p) ==
  /\ work[p].pc # "resting"
  /\ EndTx(p) /\ UNCHANGED <<graphVars, lock, revision, ticker>>

Older(a) == IF a > IdleThreshold THEN a ELSE a + 1

Age ==
  /\ lock # NoLock
  /\ lock' = [lock EXCEPT !.age = Older(@)]
  /\ UNCHANGED <<graphVars, revision, work, ticker>>

-----------------------------------------------------------------------------
(* The writes. *)

Writes(p, op) ==
  /\ work[p].pc = "write" /\ work[p].op = op
  /\ SessionWritten(work[p])
  /\ EndTx(p)
  /\ UNCHANGED ticker

UpsertNode(p) ==
  LET w == work[p] IN
  /\ Writes(p, "upsert_node")
  /\ node' = IF w.n \in Nodes THEN UpdateArchNode(w.n, w.to, w.k) ELSE InsertArchNode(w.n, w.to, w.k)
  /\ UNCHANGED <<edge, kind, link>>

MoveNode(p) ==
  /\ Writes(p, "move_node")
  /\ node' = MoveArchNode(work[p].n, work[p].to)
  /\ UNCHANGED <<edge, kind, link>>

\* The subtree goes, and with it its edges and links.
RemoveNode(p) ==
  LET gone == Subtree(work[p].n) IN
  /\ Writes(p, "remove_node")
  /\ node' = DeleteArchNode(work[p].n)
  /\ edge' = {e \in edge : e[1] \notin gone /\ e[2] \notin gone}
  /\ link' = {l \in link : l[1] \notin gone}
  /\ UNCHANGED kind

UpsertKind(p) ==
  Writes(p, "upsert_kind") /\ kind' = UpsertArchKind(work[p].k) /\ UNCHANGED <<node, edge, link>>

DeleteKind(p) ==
  Writes(p, "delete_kind") /\ kind' = DeleteArchKind(work[p].k) /\ UNCHANGED <<node, edge, link>>

UpsertEdge(p) ==
  /\ Writes(p, "upsert_edge")
  /\ edge' = UpsertArchEdge(work[p].n, work[p].to) /\ UNCHANGED <<node, kind, link>>

RemoveEdge(p) ==
  /\ Writes(p, "remove_edge")
  /\ edge' = DeleteArchEdge(work[p].n, work[p].to) /\ UNCHANGED <<node, kind, link>>

Link(p) ==
  /\ Writes(p, "link")
  /\ link' = InsertArchNodeLink(link, work[p].n, work[p].to) /\ UNCHANGED <<node, edge, kind>>

Unlink(p) ==
  /\ Writes(p, "unlink")
  /\ link' = DeleteArchNodeLink(link, work[p].n, work[p].to) /\ UNCHANGED <<node, edge, kind>>

\* Outside any session: an empty catalogue gets the default kinds.
EnsureDefaultKinds == kind' = IF CountArchKinds THEN kind ELSE InsertDefaultArchKind

-----------------------------------------------------------------------------
(* The MCP tools (internal/mcp/tools_arch.go) ... *)

archProject(c) == c \in Agent /\ requireProjectAccess(c, Home)

ListKindsTool(c) ==
  archProject(c) /\ EnsureDefaultKinds /\ UNCHANGED <<node, edge, link, lock, revision, work, ticker>>
UpsertKindTool(p, c, k) ==
  archProject(c) /\ withSession(p, c.user, "upsert_kind", NoNode, NoNode, k, FALSE) /\ UNCHANGED kind
RemoveKindTool(p, c, k) ==
  archProject(c) /\ withSession(p, c.user, "delete_kind", NoNode, NoNode, k, FALSE) /\ UNCHANGED kind
UpsertNodeTool(p, c, n, to, k) ==
  archProject(c) /\ EnsureDefaultKinds /\ withSession(p, c.user, "upsert_node", n, to, k, FALSE)
MoveNodeTool(p, c, n, to) ==
  archProject(c) /\ withSession(p, c.user, "move_node", n, to, NoNode, FALSE) /\ UNCHANGED kind
RemoveNodeTool(p, c, n, cascade) ==
  archProject(c) /\ withSession(p, c.user, "remove_node", n, NoNode, NoNode, cascade) /\ UNCHANGED kind
UpsertEdgeTool(p, c, n, m) ==
  archProject(c) /\ n # m /\ withSession(p, c.user, "upsert_edge", n, m, NoNode, FALSE) /\ UNCHANGED kind
RemoveEdgeTool(p, c, n, m) ==
  archProject(c) /\ withSession(p, c.user, "remove_edge", n, m, NoNode, FALSE) /\ UNCHANGED kind
LinkDocTool(p, c, n, path) ==
  archProject(c) /\ withSession(p, c.user, "link", n, path, NoNode, FALSE) /\ UNCHANGED kind
UnlinkDocTool(p, c, n, path) ==
  archProject(c) /\ withSession(p, c.user, "unlink", n, path, NoNode, FALSE) /\ UNCHANGED kind
LinkTaskTool(p, c, n, t) ==
  archProject(c) /\ withSession(p, c.user, "link", n, t, NoNode, FALSE) /\ UNCHANGED kind
UnlinkTaskTool(p, c, n, t) ==
  archProject(c) /\ withSession(p, c.user, "unlink", n, t, NoNode, FALSE) /\ UNCHANGED kind
CheckpointTool(p, c) ==
  archProject(c) /\ withSession(p, c.user, "checkpoint", NoNode, NoNode, NoNode, FALSE) /\ UNCHANGED kind

ListNodesTool(c, parent) == {m \in ListArchNodes(parent) : archProject(c)}
ListEdgesTool(c, n)      == {e \in ListArchEdges(n) : archProject(c)}
GetNodeTool(c, n) ==
  {[node |-> r, children |-> ListArchNodes(n), edges |-> ListArchEdges(n),
    links |-> ListArchNodeLinks(n)] : r \in {x \in GetArchNodeBySlug(n) : archProject(c)}}

-----------------------------------------------------------------------------
(* ... and the web API (internal/web/api_arch.go).                         *)

requireAccess(c) == requireProjectAccess(c, Home)

ListKindsHandler(c) ==
  requireAccess(c) /\ EnsureDefaultKinds /\ UNCHANGED <<node, edge, link, lock, revision, work, ticker>>
UpsertKindHandler(p, c, k) ==
  requireAccess(c) /\ withSession(p, c.user, "upsert_kind", NoNode, NoNode, k, FALSE) /\ UNCHANGED kind
DeleteKindHandler(p, c, k) ==
  requireAccess(c) /\ withSession(p, c.user, "delete_kind", NoNode, NoNode, k, FALSE) /\ UNCHANGED kind
UpsertNodeHandler(p, c, n, to, k) ==
  requireAccess(c) /\ EnsureDefaultKinds /\ withSession(p, c.user, "upsert_node", n, to, k, FALSE)
MoveNodeHandler(p, c, n, to) ==
  requireAccess(c) /\ withSession(p, c.user, "move_node", n, to, NoNode, FALSE) /\ UNCHANGED kind
RemoveNodeHandler(p, c, n, cascade) ==
  requireAccess(c) /\ withSession(p, c.user, "remove_node", n, NoNode, NoNode, cascade) /\ UNCHANGED kind
UpsertEdgeHandler(p, c, n, m) ==
  requireAccess(c) /\ n # m /\ withSession(p, c.user, "upsert_edge", n, m, NoNode, FALSE) /\ UNCHANGED kind
RemoveEdgeHandler(p, c, n, m) ==
  requireAccess(c) /\ withSession(p, c.user, "remove_edge", n, m, NoNode, FALSE) /\ UNCHANGED kind
LinkNodeHandler(p, c, n, target) ==
  requireAccess(c) /\ withSession(p, c.user, "link", n, target, NoNode, FALSE) /\ UNCHANGED kind
UnlinkNodeHandler(p, c, n, target) ==
  requireAccess(c) /\ withSession(p, c.user, "unlink", n, target, NoNode, FALSE) /\ UNCHANGED kind

ListNodesHandler(c, parent) == {m \in ListArchNodes(parent) : requireAccess(c)}
ListEdgesHandler(c, n)      == {e \in ListArchEdges(n) : requireAccess(c)}
GetNodeHandler(c, n) ==
  {[node |-> r, children |-> ListArchNodes(n), edges |-> ListArchEdges(n),
    links |-> ListArchNodeLinks(n)] : r \in {x \in GetArchNodeBySlug(n) : requireAccess(c)}}
ListArchHistoryHandler(c, before) == {v \in ListArchRevisions(before) : requireAccess(c)}
GetArchRevisionHandler(c, v) == {r \in GetArchRevision(v) : requireAccess(c)}

-----------------------------------------------------------------------------
Target == Path \cup Task

EditNodes(p, c) == \E n \in Node :
  \/ \E to \in Node \cup {NoNode} :
       \/ \E k \in Kind : UpsertNodeTool(p, c, n, to, k) \/ UpsertNodeHandler(p, c, n, to, k)
       \/ MoveNodeTool(p, c, n, to) \/ MoveNodeHandler(p, c, n, to)
  \/ \E cascade \in BOOLEAN : RemoveNodeTool(p, c, n, cascade) \/ RemoveNodeHandler(p, c, n, cascade)

EditKinds(p, c) == \E k \in Kind :
  \/ UpsertKindTool(p, c, k) \/ UpsertKindHandler(p, c, k)
  \/ RemoveKindTool(p, c, k) \/ DeleteKindHandler(p, c, k)

EditEdges(p, c) == \E n, m \in Node :
  \/ UpsertEdgeTool(p, c, n, m) \/ UpsertEdgeHandler(p, c, n, m)
  \/ RemoveEdgeTool(p, c, n, m) \/ RemoveEdgeHandler(p, c, n, m)

EditLinks(p, c) == \E n \in Node :
  \/ \E path \in Path : LinkDocTool(p, c, n, path) \/ UnlinkDocTool(p, c, n, path)
  \/ \E t \in Task : LinkTaskTool(p, c, n, t) \/ UnlinkTaskTool(p, c, n, t)
  \/ \E to \in Target : LinkNodeHandler(p, c, n, to) \/ UnlinkNodeHandler(p, c, n, to)

ArchCall(p) == \E c \in Caller :
  EditNodes(p, c) \/ EditKinds(p, c) \/ EditEdges(p, c) \/ EditLinks(p, c) \/ CheckpointTool(p, c)

WriteGraph(p) ==
  \/ UpsertNode(p) \/ MoveNode(p) \/ RemoveNode(p)
  \/ UpsertKind(p) \/ DeleteKind(p)
  \/ UpsertEdge(p) \/ RemoveEdge(p)
  \/ Link(p) \/ Unlink(p)

ArchStep(p) ==
  acquireOrExtendLock(p) \/ InsertLockRow(p) \/ WriteGraph(p) \/ Checkpoint(p) \/ Abort(p)

ReadKinds == \E c \in Caller : ListKindsTool(c) \/ ListKindsHandler(c)

ArchBackground == flushOnce \/ flushOne \/ FlushFails \/ Age

ArchNext == (\E p \in Proc : ArchCall(p) \/ ArchStep(p)) \/ ReadKinds \/ ArchBackground

ArchSpec == ArchInit /\ [][ArchNext]_<<archVars, link>>

\* The ticker's goroutine and the clock run for ever; a flush that keeps being
\* taken up does not fail every time.
ArchFairness ==
  /\ WF_<<archVars, link>>(Age)
  /\ WF_<<archVars, link>>(flushOnce)
  /\ SF_<<archVars, link>>(flushOne)

-----------------------------------------------------------------------------
(* Properties. *)

Sessions == [user : User, writes : Nat, base : Nat, age : 0..IdleThreshold + 1]

ArchTypeOK ==
  /\ Nodes \subseteq Node
  /\ \A n \in Nodes : node[n].parent \in Node \cup {NoNode} /\ node[n].kind \in Kind
  /\ edge \subseteq Node \X Node /\ kind \subseteq Kind
  /\ link \subseteq Node \X (Path \cup HomeTask)
  /\ lock \in Sessions \cup {NoLock}
  /\ \A i \in 1..Len(revision) : revision[i].user \in User /\ revision[i].writes \in Nat \ {0}
  /\ \A p \in Proc : work[p].pc \in {"resting", "acquire", "insert", "write"}

\* Every set of nodes has one whose parent is outside it: no cycles.
Forest == \A S \in (SUBSET Nodes) \ {{}} : \E n \in S : node[n].parent \notin S

\* The graph hangs together, though it is checked in one statement and written
\* in another: parents, the ends of edges and the kinds in use exist (kinds
\* have no foreign key), and no node is under itself.
GraphSound ==
  /\ Forest
  /\ \A n \in Nodes : node[n].parent \in Nodes \cup {NoNode} /\ node[n].kind \in kind
  /\ \A e \in edge : e[1] \in Nodes /\ e[2] \in Nodes
  /\ \A l \in link : l[1] \in Nodes

\* The browser and the agents, opening what list_nodes shows from the roots
\* down, come to every node, and to the same edges and links.
EveryNodeIsReached ==
  \A c \in Agent : archProject(c) =>
    /\ \A S \in SUBSET Nodes :
         (/\ ListNodesTool(c, NoNode) \subseteq S
          /\ \A n \in S : ListNodesHandler(c, n) \subseteq S) => S = Nodes
    /\ \A n \in Nodes :
         /\ \E r \in GetNodeTool(c, n) : r.children = ListNodesHandler(c, n)
         /\ GetNodeTool(c, n) = GetNodeHandler(c, n)
         /\ ListEdgesTool(c, n) = ListEdgesHandler(c, n)
         /\ \A e \in ListEdgesTool(c, n) : GetNodeTool(c, e[1]) # {} /\ GetNodeTool(c, e[2]) # {}

\* While no session is open the newest revision of the history is the graph
\* that everybody sees, whoever closed the session and however.
NewestRevisionIsLive ==
  lock = NoLock =>
    \A c \in Caller : \A v \in ListArchHistoryHandler(c, Len(revision) + 1) :
      \/ v + 1 \in ListArchHistoryHandler(c, Len(revision) + 1)
      \/ \E r \in GetArchRevisionHandler(c, v) : r.snapshot = [node |-> node, edge |-> edge]

\* The graph changes only by a write of the open session's author, and a kind
\* otherwise only when the empty catalogue is filled.
AuthorsOwnTheirSession ==
  [][/\ <<node, edge>>' # <<node, edge>> =>
          /\ lock' # NoLock
          /\ \E p \in Proc : work[p].pc = "write" /\ work'[p].pc = "resting" /\ lock'.user = work[p].by
     /\ kind' # kind =>
          \/ kind = {}
          \/ \E p \in Proc : work[p].pc = "write" /\ lock' # NoLock /\ lock'.user = work[p].by
    ]_<<archVars, link>>

\* A session ends by its author's checkpoint, or once nobody has written for
\* the threshold: never because the ticker or another author was quick.
SessionsEndInTime ==
  [][lock # NoLock /\ (lock' = NoLock \/ lock'.base # lock.base)
       => \/ \E p \in Proc : work[p].op = "checkpoint" /\ work[p].by = lock.user
          \/ lock.age >= IdleThreshold /\ revision'[Len(revision')].auto]_<<archVars, link>>

\* The sessions implement their abstract log.
SessionLogOf == INSTANCE SessionLog WITH
  Author    <- User,
  NoSession <- NoLock,
  graph     <- [node |-> node, edge |-> edge],
  open      <- IF lock = NoLock THEN NoLock ELSE [author |-> lock.user, writes |-> lock.writes],
  closed    <- [i \in 1..Len(revision) |->
                  [author |-> revision[i].user, writes |-> revision[i].writes,
                   graph |-> revision[i].snapshot]]

ImplementsSessionLog == SessionLogOf!LogSpec

\* A session whose author has gone ends: once nobody writes any more, the
\* ticker closes what is open, whatever transactions had failed on the way.
AbandonedSessionEnds ==
  <>[](\A p \in Proc : work[p].pc = "resting") => <>[](lock = NoLock)
=============================================================================
