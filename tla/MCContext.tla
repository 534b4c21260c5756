------------------------------ MODULE MCContext ------------------------------
(***************************************************************************)
(* The documents and the architecture graph of a project, side by side     *)
(* over the links they share.  Each behaviour looks at one part of the     *)
(* product, its focus, so that the state spaces add up instead of          *)
(* multiplying; every bound is named here.                                 *)
(***************************************************************************)
EXTENDS Context, TLC, FiniteSets

CONSTANTS
  ann, eve,       \* an administrator and a member
  Focus,          \* the parts to look at
  MaxVersions,    \* document versions
  MaxUrls, MaxClock,
  MaxWrites,      \* commits to the graph, those under way included
  MaxSessions

VARIABLE focus

MCMember == {<<eve, Home>>}

\* The only caller of most parts, and the one who edits the tree with it.
Someone == [user |-> ann, via |-> Home]
Other   == [user |-> eve, via |-> Home]
Here    == [scope |-> "project", project |-> Home]

RECURSIVE Committed(_)
Committed(i) == IF i = 0 THEN 0 ELSE Committed(i - 1) + revision[i].writes

OpenWrites == IF lock = NoLock THEN 0 ELSE lock.writes
UnderWay   == Cardinality({p \in Proc : work[p].pc # "resting"})
MayEdit    == /\ Committed(Len(revision)) + OpenWrites + UnderWay < MaxWrites
              /\ Len(revision) < MaxSessions

\* All callers of the documents, without URLs.
AllCalls == \E p \in Proc : CallSome(p) \/ FindSome(p) \/ FinishSome(p) \/ Cancel(p)

\* One agent's calls, for longer histories.
AgentCalls == \E p \in Proc :
  \/ WriteSome(p, Someone, Here) \/ AppendSome(p, Someone, Here)
  \/ DeleteSome(p, Someone, Here) \/ MoveSome(p, Someone, Here)
  \/ FindSome(p) \/ FinishSome(p)

\* One agent signs and uses URLs while it writes and moves.
Urls ==
  \/ \E p \in Proc : FindSome(p) \/ FinishSome(p)
  \/ \E p \in Proc, path \in Path, to \in Path, v \in Versions :
       MoveTool(p, Someone, Here, path, to, v)
  \/ Cardinality(upload \cup download) < MaxUrls /\ SignSome
  \/ \E p \in Proc, g \in upload : UploadDocHandler(p, g)
  \/ clock < MaxClock /\ upload \cup download # {} /\ Tick

\* One agent moves documents that it links to the graph meanwhile.
SomeCalls == \E p \in Proc :
  \/ \E path \in Path, text \in Texts : WriteTool(p, Someone, Here, path, text, Unstated)
  \/ \E path, to \in Path : MoveTool(p, Someone, Here, path, to, Unstated)
  \/ FindSome(p) \/ FinishSome(p)

LinkCalls == \E p \in Proc :
  \/ /\ MayEdit
     /\ \E n \in Node :
          \/ /\ Nodes = {} /\ \A q \in Proc : work[q].pc = "resting"
             /\ \E k \in Kind : UpsertNodeTool(p, Someone, n, NoNode, k)
          \/ \E path \in Path : LinkDocTool(p, Someone, n, path) \/ UnlinkDocTool(p, Someone, n, path)
          \/ RemoveNodeTool(p, Someone, n, TRUE)
  \/ acquireOrExtendLock(p) \/ InsertLockRow(p) \/ WriteGraph(p)

\* Two authors edit the tree and the kinds; the clock and the ticker run.
TreeCalls ==
  \/ \E p \in Proc :
       \/ MayEdit /\ (EditNodes(p, Someone) \/ CheckpointTool(p, Someone))
       \/ MayEdit /\ (EditKinds(p, Other) \/ CheckpointTool(p, Other))
       \/ MayEdit /\ \E n \in Node :
            \/ \E to \in Node \cup {NoNode} : MoveNodeHandler(p, Other, n, to)
            \/ \E cascade \in BOOLEAN : RemoveNodeHandler(p, Other, n, cascade)
       \/ ArchStep(p)
  \/ ReadKinds \/ ArchBackground

\* One agent also draws edges.
EdgeCalls ==
  \E p \in Proc :
    \/ MayEdit /\ (EditNodes(p, Someone) \/ EditEdges(p, Someone) \/ EditLinks(p, Someone))
    \/ Len(revision) < MaxSessions /\ CheckpointTool(p, Someone)
    \/ ArchStep(p)

MCInit == ContextInit /\ focus \in Focus

DocsPart ==
  /\ \/ focus = "docs" /\ AllCalls
     \/ focus = "agent" /\ AgentCalls
     \/ focus = "urls" /\ Urls
     \/ focus = "links" /\ SomeCalls
  /\ UNCHANGED <<archVars, focus>>

GraphPart ==
  /\ \/ focus = "links" /\ LinkCalls
     \/ focus = "tree" /\ TreeCalls
     \/ focus = "edges" /\ EdgeCalls
  /\ LinksWait
  /\ UNCHANGED <<docVars, focus>>

MCNext == DocsPart \/ GraphPart

MCSpec == MCInit /\ [][MCNext]_<<contextVars, focus>>

Small == Cardinality(DOMAIN version) <= IF focus \in {"docs", "links"} THEN MaxVersions - 1 ELSE MaxVersions

Interchangeable ==
  Permutations(Proc) \cup Permutations(DocId) \cup Permutations(Node) \cup Permutations(Path)
=============================================================================
