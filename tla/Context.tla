-------------------------------- MODULE Context --------------------------------
(***************************************************************************)
(* What agents read before they work: the documents and the architecture   *)
(* graph of one project, over the links between them that both write.      *)
(***************************************************************************)
EXTENDS Docs, Arch

contextVars == <<docVars, archVars, link>>

ContextInit == Init /\ ArchInit

\* The rows of links that a move has repointed or deleted, at either path:
\* it holds them until it commits.
HeldLinks ==
  UNION {c.renamed \cup c.dropped \cup {<<l[1], c.to>> : l \in c.renamed} :
           c \in {call[p] : p \in Proc}}

\* The rows that a write of the graph inserts or deletes.
TouchedLinks(w) ==
  CASE w.op = "link"        -> {<<w.n, w.to>>}
    [] w.op = "unlink"      -> {<<w.n, w.to>>}
    [] w.op = "remove_node" -> {l \in link : l[1] \in Subtree(w.n)}
    [] OTHER                -> {}

NobodyWaitsForLinks == TRUE    \* mutant: a move's rows are anybody's

\* A write of the graph waits for the moves that hold its rows.
LinksWait == \A p \in Proc : WriteGraph(p) => TouchedLinks(work[p]) \cap HeldLinks = {}

ContextNext ==
  \/ DocsNext /\ UNCHANGED archVars
  \/ ArchNext /\ LinksWait /\ UNCHANGED docVars

ContextSpec == ContextInit /\ [][ContextNext]_contextVars

\* Every table and every request of both parts is well formed.
ContextTypeOK == DocsTypeOK /\ ArchTypeOK

\* A document takes the graph's links along: one that a move has repointed is
\* nobody else's until the move commits (no unlink, removed node or second
\* link of its node comes between), and then it is at the new path only.
LinksFollowMoves ==
  [][\A p \in Proc : Move(p) =>
       \A l \in call[p].renamed :
         /\ l \in link \ link'
         /\ <<l[1], call[p].to>> \in link' \ link]_contextVars
=============================================================================
