----------------------------- MODULE DocumentLog -----------------------------
(***************************************************************************)
(* What the documents promise: each one is a log of numbered versions that *)
(* only grows, by one version at a time, and shows its last one.  Nothing  *)
(* here knows of callers, locks, statements or conflicts.                  *)
(***************************************************************************)
EXTENDS Naturals

VARIABLES
  log,     \* <<document, number>> -> the version's text
  size,    \* document -> how many versions it has
  shown    \* document -> the text it shows

logVars == <<log, size, shown>>

Empty == [d \in {} |-> 0]

LogInit == log = Empty /\ size = Empty /\ shown = Empty

\* Document d, new or not, gets its next version; nothing else changes.
Extend(d) ==
  LET n == (IF d \in DOMAIN size THEN size[d] ELSE 0) + 1 IN
  /\ <<d, n>> \notin DOMAIN log
  /\ DOMAIN log' = DOMAIN log \cup {<<d, n>>}
  /\ \A e \in DOMAIN log : log'[e] = log[e]
  /\ DOMAIN size' = DOMAIN size \cup {d} /\ size'[d] = n
  /\ DOMAIN shown' = DOMAIN size' /\ shown'[d] = log'[<<d, n>>]
  /\ \A x \in DOMAIN size \ {d} : size'[x] = size[x] /\ shown'[x] = shown[x]

LogNext == \E d \in DOMAIN size' : Extend(d)

LogSpec == LogInit /\ [][LogNext]_logVars
=============================================================================
