---------------------------- MODULE ContextProofs ----------------------------
(***************************************************************************)
(* The documents and the graph together.  Each side's step lemmas allow    *)
(* for what the other one does to the links: an edit of the graph may do   *)
(* anything to them as far as the documents are concerned, and all that    *)
(* moving a document does is to let some name another path (LinksAfter),   *)
(* which the graph's invariant survives (Relink).  What a move knows of    *)
(* the links (LinksFit) needs both: that edits wait for the rows it holds, *)
(* and that no other move has its paths (KeysClaimed).                     *)
(***************************************************************************)
EXTENDS Context, DocsProofs, ArchProofs

MovesHold == \A p \in Proc : LinksFit(call[p])

ContextInv == DocsInv /\ ArchInv /\ MovesHold

\* A step of the whole as each of the two sees it.
LEMMA BothStep ==
  ASSUME DocsInv, MovesHold, [ContextNext]_contextVars
  PROVE  DocsStepOrEdit /\ ArchStepOrMove
<1>1. CASE DocsNext /\ UNCHANGED archVars
  <2>1. UNCHANGED link \/ Relink
    BY <1>1, LinksAfter DEF Relink, MovesHold
  <2>. QED BY <1>1, <2>1 DEF DocsStepOrEdit, ArchStepOrMove
<1>2. CASE ArchNext /\ UNCHANGED docVars
  BY <1>2 DEF DocsStepOrEdit, ArchStepOrMove
<1>3. CASE UNCHANGED contextVars
  BY <1>3 DEF contextVars, DocsStepOrEdit, ArchStepOrMove
<1>. QED BY <1>1, <1>2, <1>3 DEF ContextNext

\* A commit of the documents leaves the rows of other moves where they are ...
LEMMA MovesHoldDocs ==
  ASSUME DocsInv, MovesHold, DocsNext
  PROVE  MovesHold'
<1>1. ASSUME NEW p \in Proc, Moves(p) PROVE MovesHold'
  <2>1. PICK w : ClaimsWell(p, w) /\ call' = [call EXCEPT ![p] = w] /\ UNCHANGED link
    BY <1>1 DEF Moves
  <2>2. \A q \in Proc : call'[q] = w \/ call'[q] = call[q]
    BY <2>1 DEF DocsInv, CallsOK
  <2>3. LinksFit(w) /\ \A q \in Proc : LinksFit(call[q])
    BY <2>1 DEF ClaimsWell, MovesHold
  <2>. QED BY <2>1, <2>2, <2>3 DEF MovesHold, LinksFit
<1>2. ASSUME NEW p \in Proc, Ends(p), UNCHANGED link PROVE MovesHold'
  <2>1. \A q \in Proc : call'[q] = Idle \/ call'[q] = call[q]
    BY <1>2 DEF Ends, DocsInv, CallsOK
  <2>2. LinksFit(Idle)
    BY IdleOK DEF LinksFit
  <2>. HIDE DEF Idle
  <2>. QED BY <1>2, <2>1, <2>2 DEF MovesHold, LinksFit
<1>3. ASSUME NEW p \in Proc, NEW r, Extends(p, r), Relinked(p) PROVE MovesHold'
  <2>1. CASE UNCHANGED link
    BY <1>2, <1>3, <2>1 DEF Extends
  <2>2. CASE link' # link
    <3>. DEFINE c == call[p]
    <3>1. link' = LinksFollow(c) /\ c.op = "move" /\ CallOK(c)
      BY <1>3, <2>2 DEF Relinked, DocsInv, CallsOK
    <3>2. c.renamed # {} \/ c.dropped # {}
      BY <2>2, <3>1 DEF LinksFollow
    <3>3. HasMoved(c) /\ \A l \in c.renamed \cup c.dropped : l[2] = c.key[2]
      BY <3>1, <3>2 DEF CallOK, CallFits
    <3>4. ASSUME NEW q \in Proc PROVE LinksFit(call[q])'
      <4>1. CASE q = p
        <5>1. call'[q] = Idle
          BY <1>3, <4>1 DEF Extends, Ends, DocsInv, CallsOK
        <5>. QED BY <5>1, IdleOK DEF LinksFit
      <4>2. CASE q # p /\ HasMoved(call[q])
        <5>. DEFINE b == call[q]
        <5>1. call'[q] = b /\ LinksFit(b) /\ CallOK(b)
          BY <1>3, <4>2 DEF Extends, Ends, DocsInv, CallsOK, MovesHold
        <5>2. Claims(b) \cap Claims(c) = {} /\ b.key[1] = Home /\ c.key[1] = Home
              /\ b.key = <<b.key[1], b.key[2]>> /\ c.key = <<c.key[1], c.key[2]>>
          <6>1. b.pc # "idle" /\ c.pc # "idle"
            BY <3>3, <4>2 DEF HasMoved
          <6>2. b.key \in Place \X Path /\ c.key \in Place \X Path
            BY <3>1, <5>1, <6>1 DEF CallOK, CallFits
          <6>. QED BY <3>3, <4>2, <6>2 DEF HasMoved, DocsInv, KeysClaimed
        <5>3. b.key[2] # c.key[2] /\ b.to # c.to /\ b.key[2] # c.to
          BY <5>2 DEF Claims
        <5>4. \A l \in b.renamed \cup b.dropped : l \in link /\ l[2] = b.key[2]
          BY <5>1 DEF LinksFit, CallOK, CallFits
        <5>5. b.renamed \cup b.dropped \subseteq link'
          BY <3>1, <3>3, <5>3, <5>4 DEF LinksFollow
        <5>6. \A l \in b.renamed : <<l[1], b.to>> \notin link'
          BY <3>1, <5>1, <5>3 DEF LinksFollow, LinksFit
        <5>. QED BY <5>1, <5>5, <5>6 DEF LinksFit
      <4>3. CASE q # p /\ ~ HasMoved(call[q])
        <5>1. call'[q] = call[q] /\ CallOK(call[q])
          BY <1>3, <4>3 DEF Extends, Ends, DocsInv, CallsOK
        <5>2. call[q].renamed = {} /\ call[q].dropped = {}
          BY <4>3, <5>1 DEF CallOK, CallFits
        <5>. QED BY <5>1, <5>2 DEF LinksFit
      <4>. QED BY <4>1, <4>2, <4>3
    <3>. QED BY <3>4 DEF MovesHold
  <2>. QED BY <2>1, <2>2
<1>4. CASE Signs /\ UNCHANGED link
  BY <1>4 DEF Signs, MovesHold, LinksFit
<1>. QED BY <1>1, <1>2, <1>3, <1>4, NextSteps DEF Creates

\* ... and an edit of the graph touches none of them.
LEMMA MovesHoldArch ==
  ASSUME ArchInv, MovesHold, ArchNext, LinksWait, UNCHANGED docVars
  PROVE  MovesHold'
<1>. USE DEF MovesHold
<1>1. call' = call
  BY DEF docVars
<1>2. CASE UNCHANGED link
  BY <1>1, <1>2 DEF LinksFit
<1>3. CASE link' # link
  <2>1. PICK p \in Proc : Link(p) \/ Unlink(p) \/ RemoveNode(p)
    <3>1. ASSUME NEW p \in Proc PROVE ~ ArchCall(p)
      BY <1>3, <3>1, CallBegins DEF Begins, ArchInv
    <3>2. ~ (ReadKinds \/ ArchBackground)
      BY <1>3 DEF ReadKinds, ListKindsTool, ListKindsHandler, ArchBackground, flushOnce, flushOne,
         FlushFails, Age, graphVars
    <3>3. ASSUME NEW p \in Proc, ArchStep(p) PROVE WriteGraph(p)
      BY <1>3, <3>3 DEF ArchStep, acquireOrExtendLock, InsertLockRow, Checkpoint, Abort, graphVars
    <3>4. ASSUME NEW p \in Proc, WriteGraph(p) PROVE Link(p) \/ Unlink(p) \/ RemoveNode(p)
      BY <1>3, <3>4 DEF WriteGraph, UpsertNode, MoveNode, UpsertKind, DeleteKind, UpsertEdge, RemoveEdge
    <3>. QED BY <3>1, <3>2, <3>3, <3>4 DEF ArchNext
  <2>. DEFINE t == TouchedLinks(work[p])
  <2>2. t \cap HeldLinks = {}
    BY <2>1 DEF LinksWait, WriteGraph
  <2>3. link' = link \cup t \/ link' = link \ t
    <3>1. CASE Link(p)
      BY <3>1 DEF Link, Writes, TouchedLinks, InsertArchNodeLink
    <3>2. CASE Unlink(p)
      BY <3>2 DEF Unlink, Writes, TouchedLinks, DeleteArchNodeLink
    <3>3. CASE RemoveNode(p)
      BY <3>3 DEF RemoveNode, Writes, TouchedLinks
    <3>. QED BY <2>1, <3>1, <3>2, <3>3
  <2>. HIDE DEF t
  <2>4. SUFFICES ASSUME NEW q \in Proc PROVE LinksFit(call[q])'
    BY <1>1
  <2>. DEFINE c == call[q]
  <2>5. LinksFit(c)
    OBVIOUS
  <2>6. c.renamed \cup c.dropped \cup {<<l[1], c.to>> : l \in c.renamed} \subseteq HeldLinks
    BY DEF HeldLinks
  <2>7. \A l \in c.renamed : <<l[1], c.to>> \in HeldLinks
    BY <2>6
  <2>. HIDE DEF HeldLinks
  <2>8. c.renamed \cup c.dropped \subseteq link'
    BY <2>2, <2>3, <2>5, <2>6 DEF LinksFit
  <2>9. \A l \in c.renamed : <<l[1], c.to>> \notin link'
    BY <2>2, <2>3, <2>5, <2>7 DEF LinksFit
  <2>. QED BY <1>1, <2>8, <2>9 DEF LinksFit
<1>. QED BY <1>2, <1>3

\* What both invariants gather holds whatever the two sides do to each other's
\* links, and what a move is about to do to them stays to be done.
THEOREM ContextInvariant == ContextSpec => []ContextInv
<1>1. ContextInit => ContextInv
  <2>1. ContextInit => MovesHold
    <3>. HIDE DEF Idle
    <3>. QED BY IdleOK DEF ContextInit, Init, MovesHold, LinksFit
  <2>. QED BY <2>1, DocsInvInit, ArchInvInit DEF ContextInit, ContextInv
<1>2. ContextInv /\ [ContextNext]_contextVars => ContextInv'
  <2>1. SUFFICES ASSUME ContextInv, [ContextNext]_contextVars PROVE MovesHold'
    BY BothStep, DocsInvStep, ArchInvStep DEF ContextInv
  <2>2. CASE UNCHANGED contextVars
    BY <2>1, <2>2 DEF contextVars, docVars, ContextInv, MovesHold, LinksFit
  <2>. QED BY <2>1, <2>2, MovesHoldDocs, MovesHoldArch DEF ContextNext, ContextInv
<1>. QED BY <1>1, <1>2, PTL DEF ContextSpec

LEMMA ShapesTyped == Shapes => ArchTypeOK
<1>. SUFFICES ASSUME Shapes PROVE ArchTypeOK
  OBVIOUS
<1>1. Nodes \subseteq Node /\ \A n \in Nodes : node[n].parent \in Node \cup {NoNode} /\ node[n].kind \in Kind
  BY DEF Shapes, Table, Nodes
<1>2. lock \in Sessions \cup {NoLock}
  BY DEF Shapes, Open, Sessions
<1>3. \A i \in 1..Len(revision) : revision[i].user \in User /\ revision[i].writes \in Nat \ {0}
  <2>1. \A i \in 1..Len(revision) : revision[i] \in Closed
    BY DEF Shapes
  <2>. QED BY <2>1 DEF Closed
<1>4. \A p \in Proc : work[p].pc \in {"resting", "acquire", "insert", "write"}
  BY DEF Shapes, Wanted, Work
<1>. QED BY <1>1, <1>2, <1>3, <1>4 DEF Shapes, ArchTypeOK

\* Documents, versions, URLs, the graph, its session, its history and every
\* request under way are well formed.
THEOREM ContextWellFormed == ContextSpec => []ContextTypeOK
<1>1. ContextInv => ContextTypeOK
  BY WellFormed, ShapesTyped DEF ContextInv, ContextTypeOK, ArchInv
<1>. QED BY <1>1, ContextInvariant, PTL

\* What either side promises of every state, it promises next to the other:
\* one document a path, writers that hold the lock commit, tokens write at
\* home, document readers agree; the graph is sound and seen as a whole.
THEOREM BothSafe ==
  ContextSpec => [](/\ OneProjectDocPerPath /\ LockedWritersCommit
                    /\ TokenWritesStayHome /\ ReadersAgree
                    /\ GraphSound /\ EveryNodeIsReached /\ NewestRevisionIsLive)
<1>1. DocsInv => OneProjectDocPerPath /\ LockedWritersCommit /\ TokenWritesStayHome /\ ReadersAgree
  BY LockedCommit, EntriesStayHome, AllAgree DEF DocsInv
<1>2. ContextInit => GraphSound /\ LastIsLive
  BY DEF ContextInit, ArchInit, GraphSound, Forest, Nodes, LastIsLive
<1>3. ContextInv /\ GraphSound /\ LastIsLive /\ [ContextNext]_contextVars => GraphSound' /\ LastIsLive'
  BY BothStep, GraphSoundStep, LastIsLiveStep DEF ContextInv
<1>4. ContextSpec => [](GraphSound /\ LastIsLive)
  BY <1>2, <1>3, ContextInvariant, PTL DEF ContextSpec
<1>5. ContextInv /\ GraphSound /\ LastIsLive => EveryNodeIsReached /\ NewestRevisionIsLive
  BY SoundIsReached, LiveIsShown DEF ContextInv, ArchInv
<1>. QED BY <1>1, <1>4, <1>5, ContextInvariant, PTL DEF ContextInv

\* What a move has repointed it repoints for good: it finds the links as it
\* left them, and commits.
LEMMA FollowStep ==
  ASSUME ContextInv, NEW p \in Proc, Move(p), NEW l \in call[p].renamed
  PROVE  l \in link \ link' /\ <<l[1], call[p].to>> \in link' \ link
<1>. DEFINE c == call[p]
<1>1. CallOK(c) /\ LinksFit(c) /\ c.found # NoDoc /\ c.op = "move"
  BY DEF ContextInv, DocsInv, CallsOK, MovesHold, Move, Finishes
<1>2. HasMoved(c) /\ c.locks # {}
  BY <1>1 DEF CallOK, CallFits, HoldsIn
<1>3. <<c.found, NextVersion(c)>> \notin DOMAIN version
  BY <1>2, LockedCommit DEF ContextInv, LockedWritersCommit
<1>4. link' = LinksFollow(c)
  BY <1>2, <1>3 DEF Move, Commit
<1>. QED BY <1>1, <1>4 DEF LinksFollow, LinksFit

\* And of every step: no update is lost and links move with their document;
\* the graph changes in its author's session only, which ends in time.
THEOREM BothKeepTheirRules ==
  ContextSpec => NoLostUpdate /\ LinksFollowMoves /\ AuthorsOwnTheirSession /\ SessionsEndInTime
<1>1. ContextInv /\ [ContextNext]_contextVars => DocsInv /\ DocsStepOrEdit /\ ArchInv /\ ArchStepOrMove
  BY BothStep DEF ContextInv
<1>2. ContextSpec => NoLostUpdate
  BY <1>1, UpdateStep, ContextInvariant, PTL DEF ContextSpec, NoLostUpdate
<1>3. ContextSpec => LinksFollowMoves
  <2>1. ContextInv => \A p \in Proc : Move(p) =>
          \A l \in call[p].renamed :
            /\ l \in link \ link'
            /\ <<l[1], call[p].to>> \in link' \ link
    BY FollowStep
  <2>. QED BY <2>1, ContextInvariant, PTL DEF ContextSpec, LinksFollowMoves
<1>4. ContextSpec => AuthorsOwnTheirSession
  BY <1>1, AuthorStep, ContextInvariant, PTL DEF ContextSpec, AuthorsOwnTheirSession
<1>5. ContextSpec => SessionsEndInTime
  BY <1>1, EndStep, ContextInvariant, PTL DEF ContextSpec, SessionsEndInTime
<1>. QED BY <1>2, <1>3, <1>4, <1>5

\* Documents and sessions implement their logs side by side.
THEOREM BothImplementTheirLogs == ContextSpec => ImplementsLog /\ ImplementsSessionLog
<1>1. ContextInit => Log!LogInit /\ SessionLogOf!LogInit
  BY LogStarts, SessionLogStarts DEF ContextInit
<1>2. ContextInv /\ [ContextNext]_contextVars => DocLogStep /\ LogStep
  BY BothStep, DocLogStepHolds, LogStepHolds DEF ContextInv
<1>. QED BY <1>1, <1>2, ContextInvariant, PTL
  DEF ContextSpec, DocLogStep, LogStep, ImplementsLog, Log!LogSpec, ImplementsSessionLog,
      SessionLogOf!LogSpec
===============================================================================
