------------------------------- MODULE DocLinks -------------------------------
(***************************************************************************)
(* What the documents and the architecture graph share: the links table,   *)
(* in which a node of the graph names a document of its project by path    *)
(* (or a task by its id).  Arch writes it, and so does moving a document.  *)
(***************************************************************************)
EXTENDS Access

CONSTANTS
  Proc,    \* requests served at the same time
  Home,    \* the project whose graph is modelled
  Path,    \* paths of documents
  Node     \* slugs of nodes

ASSUME LinksAssumption == Home \in Project

VARIABLE link      \* pairs <<node, target>>

\* The rows that the UPDATE points at the new path: a node that already links
\* it keeps its old row.
RepathArchDocLinks(rows, old, new) == {l \in rows : l[2] = old /\ <<l[1], new>> \notin rows}

\* The rows that the DELETE takes: whatever it finds at the old path.
DeleteArchDocLinksTo(rows, old) == {l \in rows : l[2] = old}

InsertArchNodeLink(rows, n, target) == rows \cup {<<n, target>>}
DeleteArchNodeLink(rows, n, target) == rows \ {<<n, target>>}
=============================================================================
