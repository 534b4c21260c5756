------------------------------ MODULE DocsProofs ------------------------------
(***************************************************************************)
(* What Docs promises for any set of documents, callers and requests.      *)
(*                                                                         *)
(* The argument is about what a call still knows when it commits.  It read *)
(* its row some steps ago; what it read is the row's present state while   *)
(* it holds the row's lock, and if it does not (a delete), is the present  *)
(* state exactly when the version number it is about to take is still free *)
(* (Holds).  That needs the versions of a document to be numbered without  *)
(* a gap (Numbered), which each commit keeps up by adding the next one.    *)
(***************************************************************************)
EXTENDS Docs, TLAPS

Row == [place : Place, path : Path, text : Seq(Piece), version : Nat \ {0}, deleted : BOOLEAN]

RowsOK == Rows \subseteq DocId /\ \A d \in Rows : doc[d] \in Row

Numbered ==
  /\ \A d \in Rows, n \in Nat : <<d, n>> \in DOMAIN version <=> n \in 1..doc[d].version
  /\ \A x \in DOMAIN version : x[1] \in Rows /\ x[2] \in Nat /\ x = <<x[1], x[2]>>
  /\ \A d \in Rows : version[<<d, doc[d].version>>].text = doc[d].text

EntriesOK ==
  \A x \in DOMAIN version :
    /\ version[x] = [text |-> version[x].text, via |-> version[x].via, url |-> version[x].url]
    /\ version[x].text \in Seq(Piece)
    /\ version[x].via \in (Project \cup {Web}) \cap {Web, doc[x[1]].place}
    /\ version[x].url \in upload \cup {NoUrl}

Signed ==
  \A g \in upload : /\ g.project \in Project /\ g.path \in Path
                    /\ g.text \in Seq(Piece) /\ g.by \in Caller

IsCall(c) ==
  c = [pc |-> c.pc, op |-> c.op, key |-> c.key, to |-> c.to, text |-> c.text,
       expected |-> c.expected, via |-> c.via, url |-> c.url, found |-> c.found,
       locks |-> c.locks, version |-> c.version, old |-> c.old,
               renamed |-> c.renamed, dropped |-> c.dropped]

\* What a call that found its row knows of it ...
HoldsIn(c, rows) ==
  /\ c.found \in DOMAIN rows
  /\ c.version \in 1..rows[c.found].version
  /\ c.version = rows[c.found].version => c.old = rows[c.found].text
  /\ c.expected \in {Unstated, c.version}
  /\ rows[c.found].place = c.key[1]
  /\ c.locks \subseteq DOMAIN rows
  /\ c.op # "delete" => c.locks # {}
  /\ c.locks # {} => /\ c.found \in c.locks
                     /\ c.version = rows[c.found].version
                     /\ <<rows[c.found].place, rows[c.found].path>> = c.key

\* ... and any call of itself.
CallFits(c, rows, urls) ==
  /\ IsCall(c)
  /\ c.pc \in {"idle", "find", "relink", "unlink", "finish"}
  /\ c.text \in Seq(Piece) /\ c.via \in Project \cup {Web} /\ c.url \in urls \cup {NoUrl}
  /\ c.pc # "idle" => c.key \in Place \X Path /\ c.to \in Path /\ c.via \in {Web, c.key[1]}
  /\ c.pc \in {"idle", "find"} => c.locks = {} /\ c.found = NoDoc
  /\ c.pc \in {"relink", "unlink"} => c.found # NoDoc /\ c.op = "move" /\ c.key[1] = Home
  /\ c.found # NoDoc => HoldsIn(c, rows)
  /\ c.found = NoDoc => c.locks = {}
  /\ c.pc = "finish" /\ c.found = NoDoc => c.expected \in {Unstated, 0}
  /\ ~ HasMoved(c) => c.renamed = {} /\ c.dropped = {}
  /\ \A l \in c.renamed \cup c.dropped : l[2] = c.key[2]

Holds(c)  == HoldsIn(c, doc)
CallOK(c) == CallFits(c, doc, upload)

CallsOK ==
  /\ DOMAIN call = Proc
  /\ \A p \in Proc : CallOK(call[p])
  /\ \A p, q \in Proc : p # q => call[p].locks \cap call[q].locks = {}

\* A path that a move has written and not committed is free, and no other
\* move has one of its two.
KeysClaimed ==
  /\ \A p \in Proc : HasMoved(call[p]) => KeyIsFree(<<call[p].key[1], call[p].to>>, call[p].found)
  /\ \A p, q \in Proc : p # q /\ HasMoved(call[p]) /\ HasMoved(call[q])
       => Claims(call[p]) \cap Claims(call[q]) = {}

DocsInv ==
  RowsOK /\ Numbered /\ EntriesOK /\ Signed /\ CallsOK /\ KeysClaimed /\ OneProjectDocPerPath

\* What a move knows of the links, as long as others wait for those it holds.
LinksFit(c) ==
  c.renamed \cup c.dropped \subseteq link /\ \A l \in c.renamed : <<l[1], c.to>> \notin link

\* What an edit of the graph does here: nothing but to the links.
DocsStepOrEdit == DocsNext \/ UNCHANGED docVars

-----------------------------------------------------------------------------
(* The steps, taken apart. *)

\* What a step makes of a call: a move claims only what nobody else does.
ClaimsWell(p, w) ==
  /\ HasMoved(w) => /\ KeyIsFree(<<w.key[1], w.to>>, w.found)
                    /\ \A q \in Proc \ {p} : HasMoved(call[q]) => Claims(call[q]) \cap Claims(w) = {}
  /\ LinksFit(call[p]) => LinksFit(w)

\* A call goes one step further, and nothing is written.
Moves(p) ==
  \E w : /\ CallOK(w) /\ ClaimsWell(p, w)
         /\ \A q \in Proc \ {p} : call[q].locks \cap w.locks = {}
         /\ call' = [call EXCEPT ![p] = w]
         /\ UNCHANGED <<doc, version, upload, download, clock, link>>

Ends(p) == call' = [call EXCEPT ![p] = Idle]

\* A call commits the next version of its row ...
Extends(p, r) ==
  LET d == call[p].found IN
  /\ d \in Rows /\ r \in Row /\ call[p].pc = "finish"
  /\ r.version = doc[d].version + 1 /\ r.place = doc[d].place
  /\ r.path = doc[d].path \/ KeyIsFree(<<r.place, r.path>>, d)
  /\ r.path = doc[d].path \/ (call[p].op = "move" /\ r.path = call[p].to)
  /\ doc' = [doc EXCEPT ![d] = r]
  /\ version' = InsertDocumentVersion(d, r.version, r.text, call[p])
  /\ LockedBy(d) \subseteq {p}
  /\ call[p].expected \in {Unstated, doc[d].version}
  /\ Ends(p) /\ UNCHANGED <<upload, download, clock>>

\* ... or the first one of a new row.
Creates(p, d) ==
  LET c == call[p] IN
  /\ c.pc = "finish" /\ c.found = NoDoc
  /\ d \in DocId \ Rows /\ KeyIsFree(c.key, NoDoc) /\ Unclaimed({c.key})
  /\ doc' = InsertDocument(d, c.key, c.text)
  /\ version' = InsertDocumentVersion(d, 1, c.text, c)
  /\ Ends(p) /\ UNCHANGED <<upload, download, clock, link>>

\* A call that has written nothing claims nothing.
LEMMA QuietClaims ==
  ASSUME NEW p, NEW w, ~ HasMoved(w), w.renamed = {}, w.dropped = {}
  PROVE  ClaimsWell(p, w)
BY DEF ClaimsWell, LinksFit

LEMMA IdleOK ==
  /\ CallOK(Idle) /\ Idle.locks = {} /\ Idle.pc = "idle"
  /\ ~ HasMoved(Idle) /\ Idle.renamed = {} /\ Idle.dropped = {}
<1>1. IsCall(Idle)
  BY DEF IsCall, Idle
<1>2. Idle.text = <<>> /\ <<>> \in Seq(Piece)
  BY DEF Idle
<1>. QED BY <1>1, <1>2 DEF CallOK, CallFits, Idle, HasMoved

LEMMA BeginMoves ==
  ASSUME DocsInv, NEW p \in Proc, NEW op, NEW place \in Place, NEW path \in Path, NEW to \in Path,
         NEW text \in Seq(Piece), NEW v, NEW c \in Caller, c.via \in {Web, place},
         NEW url \in upload \cup {NoUrl},
         Begin(p, op, place, path, to, text, v, c, url)
  PROVE  Moves(p)
<1>. DEFINE w == [pc |-> "find", op |-> op, key |-> <<place, path>>, to |-> to, text |-> text,
                  expected |-> v, via |-> c.via, url |-> url, found |-> NoDoc, locks |-> {},
                  version |-> 0, old |-> <<>>, renamed |-> {}, dropped |-> {}]
<1>1. /\ w.pc = "find" /\ w.key = <<place, path>> /\ w.to = to /\ w.text = text
      /\ w.via = c.via /\ w.url = url /\ w.found = NoDoc /\ w.locks = {}
      /\ w.renamed = {} /\ w.dropped = {}
      /\ IsCall(w)
  BY DEF IsCall
<1>2. c.via \in Project \cup {Web}
  BY DEF Caller
<1>. HIDE DEF w
<1>3. w.key \in Place \X Path /\ w.key[1] = place
  BY <1>1
<1>4. CallOK(w)
  BY <1>1, <1>2, <1>3 DEF CallOK, CallFits
<1>6. ClaimsWell(p, w)
  BY <1>1, QuietClaims DEF HasMoved
<1>5. call' = [call EXCEPT ![p] = w] /\ UNCHANGED <<doc, version, upload, download, clock, link>>
  BY DEF Begin, w
<1>. QED BY <1>1, <1>4, <1>5, <1>6 DEF Moves

\* A request points at places its caller is given, and a token at its own.
LEMMA PlacesGiven ==
  ASSUME NEW c \in Caller, NEW r
  PROVE  /\ \A place \in MayWrite(c, resolveDocScope(c, r)) : place \in Place /\ c.via \in {Web, place}
         /\ \A place \in MayWrite(c, resolveScope(c, r)) : place \in Place /\ c.via \in {Web, place}
BY DEF MayWrite, resolveDocScope, resolveScope, HasAccess, requireProjectAccess, RequireProjectScope,
       RequireGlobalWrite, Place

LEMMA CallMoves ==
  ASSUME DocsInv, NEW p \in Proc, CallSome(p) \/ \E g \in upload : UploadDocHandler(p, g)
  PROVE  Moves(p)
<1>1. NoUrl \in upload \cup {NoUrl} /\ <<>> \in Seq(Piece)
  OBVIOUS
<1>2. \A text \in Texts : text \in Seq(Piece)
  <2>1. SUFFICES ASSUME NEW x \in Piece PROVE <<x>> \in Seq(Piece)
    BY DEF Texts
  <2>. QED OBVIOUS
<1>3. ASSUME NEW c \in Caller, NEW r, CallSome(p),
             WriteSome(p, c, r) \/ AppendSome(p, c, r) \/ DeleteSome(p, c, r) \/ MoveSome(p, c, r)
      PROVE  Moves(p)
  <2>1. \A place \in MayWrite(c, resolveDocScope(c, r)) : place \in Place /\ c.via \in {Web, place}
    BY PlacesGiven
  <2>2. \A place \in MayWrite(c, resolveScope(c, r)) : place \in Place /\ c.via \in {Web, place}
    BY PlacesGiven
  <2>3. CASE WriteSome(p, c, r)
    BY <1>1, <1>2, <2>1, <2>2, <2>3, BeginMoves DEF WriteSome, WriteTool, WriteDocHandler
  <2>4. CASE AppendSome(p, c, r)
    BY <1>1, <1>2, <2>1, <2>4, BeginMoves DEF AppendSome, AppendTool
  <2>5. CASE DeleteSome(p, c, r)
    BY <1>1, <2>1, <2>2, <2>5, BeginMoves DEF DeleteSome, DeleteTool, DeleteDocHandler
  <2>6. CASE MoveSome(p, c, r)
    BY <1>1, <2>1, <2>2, <2>6, BeginMoves DEF MoveSome, MoveTool, MoveDocHandler
  <2>. QED BY <1>3, <2>3, <2>4, <2>5, <2>6
<1>4. ASSUME NEW g \in upload, UploadDocHandler(p, g) PROVE Moves(p)
  <2>1. g.project \in Place /\ g.by.via \in {Web, g.project}
    BY <1>4 DEF UploadDocHandler, checkSignedCaller, requireProjectAccess, RequireProjectScope, Place
  <2>. QED BY <1>4, <2>1, BeginMoves DEF UploadDocHandler, DocsInv, Signed
<1>. QED BY <1>3, <1>4 DEF CallSome

-----------------------------------------------------------------------------
(* The SELECTs. *)

LEMMA IdleMoves ==
  ASSUME DocsInv, NEW p \in Proc, Return(p), UNCHANGED <<doc, version, upload, download, clock, link>>
  PROVE  Moves(p)
<1>1. call' = [call EXCEPT ![p] = Idle]
  BY DEF Return
<1>2. CallOK(Idle) /\ Idle.locks = {} /\ ClaimsWell(p, Idle)
  BY IdleOK, QuietClaims
<1>. HIDE DEF Idle
<1>. QED BY <1>1, <1>2 DEF Moves

\* A call that found rows under its key and goes on with one of them.
LEMMA TakeMoves ==
  ASSUME DocsInv, NEW p \in Proc, NEW rows, NEW locked, NEW next \in {"relink", "finish"},
         call[p].pc = "find",
         rows \subseteq Rows,
         \A d \in rows : KeyOf(d) = call[p].key,
         \/ call[p].op \in {"write", "append", "move"} /\ locked = rows /\ FreeFor(p, rows)
         \/ call[p].op = "delete" /\ locked = {},
         next = "relink" <=> call[p].op = "move" /\ call[p].key[1] = Home,
         Take(p, rows, locked, next),
         UNCHANGED <<doc, version, upload, download, clock, link>>
  PROVE  Moves(p)
<1>. DEFINE c == call[p]
<1>0. CallOK(c) /\ p \in DOMAIN call
  BY DEF DocsInv, CallsOK
<1>1. PICK d \in rows :
        IF VersionMatches(c, d)
        THEN call' = [call EXCEPT ![p].pc = next, ![p].found = d, ![p].locks = locked,
                                  ![p].version = doc[d].version, ![p].old = doc[d].text]
        ELSE Return(p)
  BY DEF Take
<1>2. CASE ~ VersionMatches(c, d)
  BY <1>1, <1>2, IdleMoves
<1>3. CASE VersionMatches(c, d)
  <2>. DEFINE w == [pc |-> next, op |-> c.op, key |-> c.key, to |-> c.to, text |-> c.text,
                    expected |-> c.expected, via |-> c.via, url |-> c.url, found |-> d,
                    locks |-> locked, version |-> doc[d].version, old |-> doc[d].text,
                    renamed |-> c.renamed, dropped |-> c.dropped]
  <2>1. call' = [call EXCEPT ![p] = w]
    <3>. DEFINE w1 == [c EXCEPT !.pc = next]
                w2 == [w1 EXCEPT !.found = d]
                w3 == [w2 EXCEPT !.locks = locked]
                w4 == [w3 EXCEPT !.version = doc[d].version]
                w5 == [w4 EXCEPT !.old = doc[d].text]
    <3>1. c = [pc |-> c.pc, op |-> c.op, key |-> c.key, to |-> c.to, text |-> c.text,
               expected |-> c.expected, via |-> c.via, url |-> c.url, found |-> c.found,
               locks |-> c.locks, version |-> c.version, old |-> c.old,
               renamed |-> c.renamed, dropped |-> c.dropped]
      BY <1>0 DEF CallOK, CallFits, IsCall
    <3>2. w1 = [pc |-> next, op |-> c.op, key |-> c.key, to |-> c.to, text |-> c.text,
               expected |-> c.expected, via |-> c.via, url |-> c.url, found |-> c.found,
               locks |-> c.locks, version |-> c.version, old |-> c.old,
               renamed |-> c.renamed, dropped |-> c.dropped]
      BY <3>1
    <3>. HIDE DEF w1
    <3>3. w2 = [pc |-> next, op |-> c.op, key |-> c.key, to |-> c.to, text |-> c.text,
               expected |-> c.expected, via |-> c.via, url |-> c.url, found |-> d,
               locks |-> c.locks, version |-> c.version, old |-> c.old,
               renamed |-> c.renamed, dropped |-> c.dropped]
      BY <3>2
    <3>. HIDE DEF w2
    <3>4. w3 = [pc |-> next, op |-> c.op, key |-> c.key, to |-> c.to, text |-> c.text,
               expected |-> c.expected, via |-> c.via, url |-> c.url, found |-> d,
               locks |-> locked, version |-> c.version, old |-> c.old,
               renamed |-> c.renamed, dropped |-> c.dropped]
      BY <3>3
    <3>. HIDE DEF w3
    <3>5. w4 = [pc |-> next, op |-> c.op, key |-> c.key, to |-> c.to, text |-> c.text,
               expected |-> c.expected, via |-> c.via, url |-> c.url, found |-> d,
               locks |-> locked, version |-> doc[d].version, old |-> c.old,
               renamed |-> c.renamed, dropped |-> c.dropped]
      BY <3>4
    <3>. HIDE DEF w4
    <3>6. w5 = w
      BY <3>5
    <3>7. call' = [call EXCEPT ![p] = w5]
      BY <1>0, <1>1, <1>3 DEF w1, w2, w3, w4
    <3>. QED BY <3>6, <3>7
  <2>2. /\ w.pc = next /\ w.op = c.op /\ w.key = c.key /\ w.to = c.to /\ w.text = c.text
        /\ w.expected = c.expected /\ w.via = c.via /\ w.url = c.url /\ w.found = d
        /\ w.locks = locked /\ w.version = doc[d].version /\ w.old = doc[d].text
        /\ w.renamed = c.renamed /\ w.dropped = c.dropped /\ IsCall(w)
    BY DEF IsCall
  <2>. HIDE DEF w
  <2>3. d \in Rows /\ d # NoDoc /\ doc[d].version \in Nat \ {0} /\ KeyOf(d) = c.key
    BY DocsAssumption DEF DocsInv, RowsOK, Row
  <2>4. Holds(w)
    BY <1>3, <2>2, <2>3 DEF Holds, HoldsIn, VersionMatches, KeyOf, Rows
  <2>7. ~ HasMoved(c) /\ ~ HasMoved(w)
    BY <2>2 DEF HasMoved
  <2>8. w.renamed = {} /\ w.dropped = {}
    BY <1>0, <2>2, <2>7 DEF CallOK, CallFits
  <2>9. ClaimsWell(p, w)
    BY <2>7, <2>8, QuietClaims
  <2>5. CallOK(w)
    BY <1>0, <2>2, <2>3, <2>4, <2>8 DEF CallOK, CallFits, Holds
  <2>6. \A q \in Proc \ {p} : call[q].locks \cap w.locks = {}
    <3>1. SUFFICES ASSUME NEW q \in Proc \ {p}, NEW x \in call[q].locks, x \in rows,
                          FreeFor(p, rows)
                   PROVE  FALSE
      BY <2>2
    <3>. QED BY <3>1 DEF FreeFor, LockedBy
  <2>. QED BY <2>1, <2>2, <2>5, <2>6, <2>9 DEF Moves
<1>. QED BY <1>2, <1>3

LEMMA FindMoves ==
  ASSUME DocsInv, NEW p \in Proc, FindSome(p)
  PROVE  Moves(p)
<1>. DEFINE c == call[p]
<1>0. CallOK(c) /\ p \in DOMAIN call
  BY DEF DocsInv, CallsOK
<1>1. UNCHANGED <<doc, version, upload, download, clock, link>>
  BY DEF FindSome, FindForWrite, FindToAppend, FindToMove, FindToDelete, Keep
<1>2. CASE Return(p)
  BY <1>1, <1>2, IdleMoves
<1>3. CASE FindForWrite(p) /\ GetDocumentByPathForUpdate(c.key) = {}
           /\ call' = [call EXCEPT ![p].pc = "finish"] /\ c.expected \in {Unstated, 0}
  <2>. DEFINE w == [c EXCEPT !.pc = "finish"]
  <2>1. w = [pc |-> "finish", op |-> c.op, key |-> c.key, to |-> c.to, text |-> c.text,
             expected |-> c.expected, via |-> c.via, url |-> c.url, found |-> c.found,
             locks |-> c.locks, version |-> c.version, old |-> c.old,
               renamed |-> c.renamed, dropped |-> c.dropped]
    BY <1>0 DEF CallOK, CallFits, IsCall
  <2>2. /\ w.pc = "finish" /\ w.op = c.op /\ w.key = c.key /\ w.to = c.to /\ w.text = c.text
        /\ w.expected = c.expected /\ w.via = c.via /\ w.url = c.url /\ w.found = c.found
        /\ w.locks = c.locks /\ w.renamed = c.renamed /\ w.dropped = c.dropped /\ IsCall(w)
    BY <2>1 DEF IsCall
  <2>3. call' = [call EXCEPT ![p] = w]
    BY <1>0, <1>3
  <2>. HIDE DEF w
  <2>4. c.pc = "find" /\ c.found = NoDoc /\ c.locks = {} /\ ~ HasMoved(c) /\ ~ HasMoved(w)
    BY <1>0, <1>3, <2>2 DEF CallOK, CallFits, FindForWrite, HasMoved
  <2>6. w.renamed = {} /\ w.dropped = {}
    BY <1>0, <2>2, <2>4 DEF CallOK, CallFits
  <2>5. CallOK(w)
    BY <1>0, <1>3, <2>2, <2>4, <2>6 DEF CallOK, CallFits
  <2>7. ClaimsWell(p, w)
    BY <2>4, <2>6, QuietClaims
  <2>. QED BY <1>1, <2>2, <2>3, <2>4, <2>5, <2>7 DEF Moves
<1>4. "finish" \in {"relink", "finish"} /\ "relink" \in {"relink", "finish"} /\ {} \subseteq Rows
  OBVIOUS
<1>5. CASE FindForWrite(p) /\ Take(p, GetDocumentByPathForUpdate(c.key), GetDocumentByPathForUpdate(c.key), "finish")
  BY <1>1, <1>4, <1>5, TakeMoves DEF FindForWrite, GetDocumentByPathForUpdate
<1>6. CASE FindToAppend(p) /\ Take(p, GetDocumentForAppend(c.key), GetDocumentForAppend(c.key), "finish")
  BY <1>1, <1>4, <1>6, TakeMoves DEF FindToAppend, GetDocumentForAppend
<1>7. CASE FindToMove(p) /\ \E next \in {"relink", "finish"} :
             /\ next = "relink" <=> c.key[1] = Home
             /\ Take(p, GetDocumentForMove(c.key), GetDocumentForMove(c.key), next)
  BY <1>1, <1>7, TakeMoves DEF FindToMove, GetDocumentForMove
<1>8. CASE FindToDelete(p) /\ Take(p, GetDocumentForDelete(c.key), {}, "finish")
  BY <1>1, <1>4, <1>8, TakeMoves DEF FindToDelete, GetDocumentForDelete
<1>. QED BY <1>2, <1>3, <1>4, <1>5, <1>6, <1>7, <1>8
         DEF FindSome, FindForWrite, FindToAppend, FindToMove, FindToDelete

\* A move writes its row, and claims its two paths.
LEMMA RepathMoves ==
  ASSUME DocsInv, NEW p \in Proc, RepathLinks(p)
  PROVE  Moves(p)
<1>. DEFINE c    == call[p]
            seen == RepathArchDocLinks(link, c.key[2], c.to)
            w    == [c EXCEPT !.pc = "unlink"]
            u    == [w EXCEPT !.renamed = seen]
<1>0. CallOK(c) /\ p \in DOMAIN call /\ c.pc = "relink" /\ \A q \in Proc \ {p} : call[q].locks \cap c.locks = {}
  BY DEF DocsInv, CallsOK, RepathLinks
<1>1. UNCHANGED <<doc, version, upload, download, clock, link>> /\ Unclaimed(Claims(c))
  BY <1>0 DEF RepathLinks, Keep
<1>2. CASE Return(p)
  BY <1>1, <1>2, IdleMoves
<1>3. CASE ~ Return(p)
  <2>1. call' = [call EXCEPT ![p] = u] /\ KeyIsFree(<<c.key[1], c.to>>, c.found)
    BY <1>0, <1>3 DEF RepathLinks
  <2>2. w = [pc |-> "unlink", op |-> c.op, key |-> c.key, to |-> c.to, text |-> c.text,
             expected |-> c.expected, via |-> c.via, url |-> c.url, found |-> c.found,
             locks |-> c.locks, version |-> c.version, old |-> c.old,
             renamed |-> c.renamed, dropped |-> c.dropped]
    BY <1>0 DEF CallOK, CallFits, IsCall
  <2>. HIDE DEF w, seen
  <2>3. u = [pc |-> "unlink", op |-> c.op, key |-> c.key, to |-> c.to, text |-> c.text,
             expected |-> c.expected, via |-> c.via, url |-> c.url, found |-> c.found,
             locks |-> c.locks, version |-> c.version, old |-> c.old,
             renamed |-> seen, dropped |-> c.dropped]
    BY <2>2
  <2>. HIDE DEF u
  <2>4. /\ u.pc = "unlink" /\ u.op = c.op /\ u.key = c.key /\ u.to = c.to /\ u.text = c.text
        /\ u.expected = c.expected /\ u.via = c.via /\ u.url = c.url /\ u.found = c.found
        /\ u.locks = c.locks /\ u.version = c.version /\ u.old = c.old /\ u.renamed = seen
        /\ u.dropped = c.dropped /\ IsCall(u)
    BY <2>3 DEF IsCall
  <2>5. c.found # NoDoc /\ Holds(c) /\ c.op = "move" /\ c.key[1] = Home /\ c.dropped = {}
    BY <1>0 DEF CallOK, CallFits, Holds, HasMoved
  <2>6. Holds(u) /\ HasMoved(u)
    BY <2>4, <2>5 DEF Holds, HoldsIn, HasMoved
  <2>7. CallOK(u)
    <3>1. \A l \in u.renamed \cup u.dropped : l[2] = u.key[2]
      BY <2>4, <2>5 DEF seen, RepathArchDocLinks
    <3>. QED BY <1>0, <2>4, <2>5, <2>6, <3>1 DEF CallOK, CallFits, Holds
  <2>8. LinksFit(u)
    BY <2>4, <2>5 DEF LinksFit, seen, RepathArchDocLinks
  <2>9. Claims(u) = Claims(c)
    BY <2>4 DEF Claims
  <2>10. \A q \in Proc \ {p} : HasMoved(call[q]) => Claims(call[q]) \cap Claims(u) = {}
    BY <1>1, <2>9 DEF Unclaimed
  <2>11. ClaimsWell(p, u)
    BY <2>1, <2>4, <2>8, <2>10 DEF ClaimsWell
  <2>. QED BY <1>0, <1>1, <2>1, <2>4, <2>7, <2>11 DEF Moves
<1>. QED BY <1>2, <1>3

\* Then it takes what is left at the old one.
LEMMA DropMoves ==
  ASSUME DocsInv, NEW p \in Proc, DropLinks(p)
  PROVE  Moves(p)
<1>. DEFINE c    == call[p]
            left == DeleteArchDocLinksTo(link \ c.renamed, c.key[2])
            w    == [c EXCEPT !.pc = "finish"]
            u    == [w EXCEPT !.dropped = left]
<1>0. CallOK(c) /\ p \in DOMAIN call /\ c.pc = "unlink" /\ \A q \in Proc \ {p} : call[q].locks \cap c.locks = {}
  BY DEF DocsInv, CallsOK, DropLinks
<1>1. UNCHANGED <<doc, version, upload, download, clock, link>> /\ call' = [call EXCEPT ![p] = u]
  BY <1>0 DEF DropLinks, Keep
<1>2. w = [pc |-> "finish", op |-> c.op, key |-> c.key, to |-> c.to, text |-> c.text,
           expected |-> c.expected, via |-> c.via, url |-> c.url, found |-> c.found,
           locks |-> c.locks, version |-> c.version, old |-> c.old,
           renamed |-> c.renamed, dropped |-> c.dropped]
  BY <1>0 DEF CallOK, CallFits, IsCall
<1>. HIDE DEF w, left
<1>3. u = [pc |-> "finish", op |-> c.op, key |-> c.key, to |-> c.to, text |-> c.text,
           expected |-> c.expected, via |-> c.via, url |-> c.url, found |-> c.found,
           locks |-> c.locks, version |-> c.version, old |-> c.old,
           renamed |-> c.renamed, dropped |-> left]
  BY <1>2
<1>. HIDE DEF u
<1>4. /\ u.pc = "finish" /\ u.op = c.op /\ u.key = c.key /\ u.to = c.to /\ u.text = c.text
      /\ u.expected = c.expected /\ u.via = c.via /\ u.url = c.url /\ u.found = c.found
      /\ u.locks = c.locks /\ u.version = c.version /\ u.old = c.old /\ u.renamed = c.renamed
      /\ u.dropped = left /\ IsCall(u)
  BY <1>3 DEF IsCall
<1>5. c.found # NoDoc /\ Holds(c) /\ c.op = "move" /\ c.key[1] = Home
  BY <1>0 DEF CallOK, CallFits, Holds
<1>6. Holds(u) /\ HasMoved(u) /\ HasMoved(c)
  BY <1>0, <1>4, <1>5 DEF Holds, HoldsIn, HasMoved
<1>7. CallOK(u)
  <2>1. \A l \in left : l[2] = c.key[2]
    BY DEF left, DeleteArchDocLinksTo
  <2>2. \A l \in u.renamed \cup u.dropped : l[2] = u.key[2]
    BY <1>0, <1>4, <2>1 DEF CallOK, CallFits
  <2>. QED BY <1>0, <1>4, <1>5, <1>6, <2>2 DEF CallOK, CallFits, Holds
<1>8. left \subseteq link
  BY DEF left, DeleteArchDocLinksTo
<1>9. LinksFit(c) => LinksFit(u)
  BY <1>4, <1>8 DEF LinksFit
<1>10. Claims(u) = Claims(c)
  BY <1>4 DEF Claims
<1>11. KeyIsFree(<<u.key[1], u.to>>, u.found)
  BY <1>4, <1>6 DEF DocsInv, KeysClaimed
<1>12. \A q \in Proc \ {p} : HasMoved(call[q]) => Claims(call[q]) \cap Claims(u) = {}
  BY <1>6, <1>10 DEF DocsInv, KeysClaimed
<1>13. ClaimsWell(p, u)
  BY <1>9, <1>11, <1>12 DEF ClaimsWell
<1>. QED BY <1>0, <1>1, <1>4, <1>7, <1>13 DEF Moves

-----------------------------------------------------------------------------
(* The commits. *)

\* A version number that is still free is the row's next: what the call read
\* is how the row is now.
LEMMA StillCurrent ==
  ASSUME DocsInv, NEW p \in Proc, call[p].found # NoDoc,
         <<call[p].found, NextVersion(call[p])>> \notin DOMAIN version
  PROVE  /\ call[p].version = doc[call[p].found].version
         /\ call[p].old = doc[call[p].found].text
         /\ call[p].expected \in {Unstated, doc[call[p].found].version}
<1>1. Holds(call[p]) /\ call[p].found \in Rows
  BY DEF DocsInv, CallsOK, CallOK, CallFits, Holds, HoldsIn, Rows
<1>2. doc[call[p].found].version \in Nat \ {0}
  BY <1>1 DEF DocsInv, RowsOK, Row
<1>3. call[p].version \in 1..doc[call[p].found].version
  BY <1>1 DEF Holds, HoldsIn
<1>4. NextVersion(call[p]) \notin 1..doc[call[p].found].version
  BY <1>1, <1>2, <1>3 DEF NextVersion, DocsInv, Numbered
<1>5. call[p].version = doc[call[p].found].version
  BY <1>2, <1>3, <1>4 DEF NextVersion
<1>. QED BY <1>1, <1>5 DEF Holds, HoldsIn

LEMMA CommitExtends ==
  ASSUME DocsInv, NEW p \in Proc, call[p].found # NoDoc, FreeFor(p, {call[p].found}),
         call[p].pc = "finish", NEW row, NEW text, NEW links, NEW path \in Path, NEW deleted \in BOOLEAN,
         text \in Seq(Piece),
         path = doc[call[p].found].path \/ KeyIsFree(<<doc[call[p].found].place, path>>, call[p].found),
         path = doc[call[p].found].path \/ (call[p].op = "move" /\ path = call[p].to),
         row = [doc EXCEPT ![call[p].found] =
                  [place |-> doc[call[p].found].place, path |-> path, text |-> text,
                   version |-> NextVersion(call[p]), deleted |-> deleted]],
         Commit(p, row, text, links)
  PROVE  Moves(p) \/ ((\E r : Extends(p, r)) /\ link' = links)
<1>. DEFINE d == call[p].found
            r == [place |-> doc[d].place, path |-> path, text |-> text,
                  version |-> NextVersion(call[p]), deleted |-> deleted]
<1>1. CASE <<d, NextVersion(call[p])>> \in DOMAIN version
  <2>1. Return(p) /\ UNCHANGED <<doc, version, upload, download, clock, link>>
    BY <1>1 DEF Commit, Keep
  <2>. QED BY <2>1, IdleMoves
<1>2. CASE <<d, NextVersion(call[p])>> \notin DOMAIN version
  <2>1. d \in Rows /\ doc[d] \in Row
    BY DEF DocsInv, CallsOK, CallOK, CallFits, Holds, HoldsIn, Rows, RowsOK
  <2>2. call[p].version = doc[d].version /\ call[p].expected \in {Unstated, doc[d].version}
    BY <1>2, StillCurrent
  <2>3. /\ r.place = doc[d].place /\ r.path = path /\ r.text = text
        /\ r.version = doc[d].version + 1 /\ NextVersion(call[p]) = doc[d].version + 1
    BY <2>2 DEF NextVersion
  <2>4. r \in Row
    BY <2>1, <2>3 DEF Row
  <2>5. LockedBy(d) \subseteq {p}
    BY DEF FreeFor
  <2>6. /\ doc' = [doc EXCEPT ![d] = r]
        /\ version' = InsertDocumentVersion(d, NextVersion(call[p]), text, call[p])
        /\ link' = links /\ Ends(p) /\ UNCHANGED <<upload, download, clock>>
    BY <1>2 DEF Commit, Ends, Return
  <2>. HIDE DEF r
  <2>7. version' = InsertDocumentVersion(d, r.version, r.text, call[p])
    BY <2>3, <2>6
  <2>. QED BY <2>1, <2>2, <2>3, <2>4, <2>5, <2>6, <2>7 DEF Extends
<1>. QED BY <1>1, <1>2

\* What the UPDATEs make of a row.
LEMMA UpdatedRow ==
  ASSUME NEW d \in Rows, doc[d] \in Row, NEW text, NEW n
  PROVE  UpdateDocument(d, text, n)
          = [doc EXCEPT ![d] = [place |-> doc[d].place, path |-> doc[d].path, text |-> text,
                               version |-> n, deleted |-> FALSE]]
<1>. DEFINE r == doc[d]
            no == FALSE
            texted == [r EXCEPT !.text = text]
            numbered == [texted EXCEPT !.version = n]
            restored == [numbered EXCEPT !.deleted = no]
<1>1. UpdateDocument(d, text, n) = [doc EXCEPT ![d] = restored]
  BY DEF UpdateDocument
<1>2. r = [place |-> r.place, path |-> r.path, text |-> r.text, version |-> r.version, deleted |-> r.deleted]
  BY DEF Row
<1>. HIDE DEF r, no
<1>3. texted = [place |-> r.place, path |-> r.path, text |-> text, version |-> r.version, deleted |-> r.deleted]
  BY <1>2
<1>. HIDE DEF texted
<1>4. numbered = [place |-> r.place, path |-> r.path, text |-> text, version |-> n, deleted |-> r.deleted]
  BY <1>3
<1>. HIDE DEF numbered
<1>5. restored = [place |-> r.place, path |-> r.path, text |-> text, version |-> n, deleted |-> no]
  BY <1>4
<1>. HIDE DEF restored
<1>. QED BY <1>1, <1>5 DEF r, no

LEMMA DeletedRow ==
  ASSUME NEW d \in Rows, doc[d] \in Row, NEW n
  PROVE  SoftDeleteDocument(d, n)
          = [doc EXCEPT ![d] = [place |-> doc[d].place, path |-> doc[d].path, text |-> doc[d].text,
                               version |-> n, deleted |-> TRUE]]
<1>. DEFINE r == doc[d]
            yes == TRUE
            numbered == [r EXCEPT !.version = n]
            gone == [numbered EXCEPT !.deleted = yes]
<1>1. SoftDeleteDocument(d, n) = [doc EXCEPT ![d] = gone]
  BY DEF SoftDeleteDocument
<1>2. r = [place |-> r.place, path |-> r.path, text |-> r.text, version |-> r.version, deleted |-> r.deleted]
  BY DEF Row
<1>. HIDE DEF r, yes
<1>3. numbered = [place |-> r.place, path |-> r.path, text |-> r.text, version |-> n, deleted |-> r.deleted]
  BY <1>2
<1>. HIDE DEF numbered
<1>4. gone = [place |-> r.place, path |-> r.path, text |-> r.text, version |-> n, deleted |-> yes]
  BY <1>3
<1>. HIDE DEF gone
<1>. QED BY <1>1, <1>4 DEF r, yes

LEMMA MovedRow ==
  ASSUME NEW d \in Rows, doc[d] \in Row, NEW path, NEW n
  PROVE  MoveDocument(d, path, n)
          = [doc EXCEPT ![d] = [place |-> doc[d].place, path |-> path, text |-> doc[d].text,
                               version |-> n, deleted |-> doc[d].deleted]]
<1>. DEFINE r == doc[d]
            moved == [r EXCEPT !.path = path]
            numbered == [moved EXCEPT !.version = n]
<1>1. MoveDocument(d, path, n) = [doc EXCEPT ![d] = numbered]
  BY DEF MoveDocument
<1>2. r = [place |-> r.place, path |-> r.path, text |-> r.text, version |-> r.version, deleted |-> r.deleted]
  BY DEF Row
<1>. HIDE DEF r
<1>3. moved = [place |-> r.place, path |-> path, text |-> r.text, version |-> r.version, deleted |-> r.deleted]
  BY <1>2
<1>. HIDE DEF moved
<1>4. numbered = [place |-> r.place, path |-> path, text |-> r.text, version |-> n, deleted |-> r.deleted]
  BY <1>3
<1>. HIDE DEF numbered
<1>. QED BY <1>1, <1>4 DEF r

\* The links after a commit.
Relinked(p) ==
  link' = IF call[p].op = "move" THEN LinksFollow(call[p]) ELSE link

LEMMA FinishSteps ==
  ASSUME DocsInv, NEW p \in Proc, FinishSome(p)
  PROVE  Moves(p) \/ ((\E r : Extends(p, r)) /\ Relinked(p)) \/ \E d : Creates(p, d)
<1>. DEFINE c == call[p]
            d == c.found
<1>0. CallOK(c)
  BY DEF DocsInv, CallsOK
<1>1. CASE RepathLinks(p) \/ DropLinks(p)
  BY <1>1, RepathMoves, DropMoves
<1>2. CASE CreateDocument(p)
  <2>1. CASE KeyIsFree(c.key, NoDoc)
    <3>1. PICK e \in DocId \ Rows :
            /\ doc' = InsertDocument(e, c.key, c.text)
            /\ version' = InsertDocumentVersion(e, 1, c.text, c)
            /\ UNCHANGED link
      BY <1>2, <2>1 DEF CreateDocument
    <3>. QED BY <1>2, <2>1, <3>1 DEF CreateDocument, Creates, Ends, Return
  <2>2. CASE ~ KeyIsFree(c.key, NoDoc)
    <3>1. Return(p) /\ UNCHANGED <<doc, version, upload, download, clock, link>>
      BY <1>2, <2>2 DEF CreateDocument, Keep
    <3>. QED BY <3>1, IdleMoves
  <2>. QED BY <2>1, <2>2
<1>. SUFFICES ASSUME ReplaceDocument(p) \/ AppendText(p) \/ DeleteWithParams(p) \/ Move(p)
              PROVE  Moves(p) \/ ((\E r : Extends(p, r)) /\ Relinked(p))
  BY <1>1, <1>2 DEF FinishSome
<1>3. /\ c.pc = "finish" /\ d # NoDoc /\ FreeFor(p, {d})
      /\ Holds(c) /\ d \in Rows /\ doc[d] \in Row /\ c.key \in Place \X Path /\ c.to \in Path
      /\ c.text \in Seq(Piece)
  <2>1. c.pc = "finish" /\ d # NoDoc /\ FreeFor(p, {d})
    BY DEF ReplaceDocument, AppendText, DeleteWithParams, Move, Finishes
  <2>2. Holds(c) /\ d \in Rows
    BY <1>0, <2>1 DEF CallOK, CallFits, Holds, HoldsIn, Rows
  <2>3. doc[d] \in Row
    BY <2>2 DEF DocsInv, RowsOK
  <2>. QED BY <1>0, <2>1, <2>2, <2>3 DEF CallOK, CallFits
<1>4. doc[d].path \in Path /\ doc[d].text \in Seq(Piece) /\ doc[d].deleted \in BOOLEAN
      /\ TRUE \in BOOLEAN /\ FALSE \in BOOLEAN
  BY <1>3 DEF Row
<1>5. <<d, NextVersion(c)>> \notin DOMAIN version => c.old = doc[d].text
  BY <1>3, StillCurrent
<1>6. CASE ReplaceDocument(p)
  <2>1. Commit(p, UpdateDocument(d, c.text, NextVersion(c)), c.text, link) /\ c.op = "write"
    BY <1>6 DEF ReplaceDocument, Finishes
  <2>2. UpdateDocument(d, c.text, NextVersion(c))
         = [doc EXCEPT ![d] = [place |-> doc[d].place, path |-> doc[d].path, text |-> c.text,
                               version |-> NextVersion(c), deleted |-> FALSE]]
    BY <1>3, UpdatedRow
  <2>3. Moves(p) \/ ((\E r : Extends(p, r)) /\ UNCHANGED link)
    BY <1>3, <1>4, <2>1, <2>2, CommitExtends
  <2>. QED BY <2>1, <2>3 DEF Relinked
<1>7. CASE AppendText(p)
  <2>. DEFINE all == joinBody(c.old, c.text)
  <2>1. Commit(p, UpdateDocument(d, all, NextVersion(c)), all, link) /\ c.op = "append"
    BY <1>7 DEF AppendText, Finishes
  <2>2. UpdateDocument(d, all, NextVersion(c))
         = [doc EXCEPT ![d] = [place |-> doc[d].place, path |-> doc[d].path, text |-> all,
                               version |-> NextVersion(c), deleted |-> FALSE]]
    BY <1>3, UpdatedRow
  <2>3. CASE <<d, NextVersion(c)>> \in DOMAIN version
    <3>1. Return(p) /\ UNCHANGED <<doc, version, upload, download, clock, link>>
      BY <2>1, <2>3 DEF Commit, Keep
    <3>. QED BY <3>1, IdleMoves
  <2>4. CASE <<d, NextVersion(c)>> \notin DOMAIN version
    <3>1. all \in Seq(Piece)
      BY <1>3, <1>4, <1>5, <2>4 DEF joinBody
    <3>. HIDE DEF all
    <3>2. Moves(p) \/ ((\E r : Extends(p, r)) /\ UNCHANGED link)
      BY <1>3, <1>4, <2>1, <2>2, <3>1, CommitExtends
    <3>. QED BY <2>1, <3>2 DEF Relinked
  <2>. QED BY <2>3, <2>4
<1>8. CASE DeleteWithParams(p)
  <2>1. Commit(p, SoftDeleteDocument(d, NextVersion(c)), c.old, link) /\ c.op = "delete"
    BY <1>8 DEF DeleteWithParams, Finishes
  <2>2. SoftDeleteDocument(d, NextVersion(c))
         = [doc EXCEPT ![d] = [place |-> doc[d].place, path |-> doc[d].path, text |-> doc[d].text,
                               version |-> NextVersion(c), deleted |-> TRUE]]
    BY <1>3, DeletedRow
  <2>3. CASE <<d, NextVersion(c)>> \in DOMAIN version
    <3>1. Return(p) /\ UNCHANGED <<doc, version, upload, download, clock, link>>
      BY <2>1, <2>3 DEF Commit, Keep
    <3>. QED BY <3>1, IdleMoves
  <2>4. CASE <<d, NextVersion(c)>> \notin DOMAIN version
    <3>1. Commit(p, SoftDeleteDocument(d, NextVersion(c)), doc[d].text, link)
      BY <1>5, <2>1, <2>4
    <3>2. Moves(p) \/ ((\E r : Extends(p, r)) /\ UNCHANGED link)
      BY <1>3, <1>4, <2>2, <3>1, CommitExtends
    <3>. QED BY <2>1, <3>2 DEF Relinked
  <2>. QED BY <2>3, <2>4
<1>9. CASE Move(p)
  <2>1. c.op = "move" /\ c.locks # {}
    BY <1>3, <1>9 DEF Move, Finishes, Holds, HoldsIn
  <2>2. KeyOf(d) = c.key /\ doc[d].place = c.key[1]
    BY <1>3, <2>1 DEF Holds, HoldsIn, KeyOf
  <2>3. CASE HasMoved(c) \/ KeyIsFree(<<c.key[1], c.to>>, d)
    <3>5. KeyIsFree(<<c.key[1], c.to>>, d)
      BY <2>3 DEF DocsInv, KeysClaimed
    <3>1. Commit(p, MoveDocument(d, c.to, NextVersion(c)), c.old, LinksFollow(c))
      BY <1>9, <2>3 DEF Move
    <3>2. MoveDocument(d, c.to, NextVersion(c))
           = [doc EXCEPT ![d] = [place |-> doc[d].place, path |-> c.to, text |-> doc[d].text,
                                 version |-> NextVersion(c), deleted |-> doc[d].deleted]]
      BY <1>3, MovedRow
    <3>3. CASE <<d, NextVersion(c)>> \in DOMAIN version
      <4>1. Return(p) /\ UNCHANGED <<doc, version, upload, download, clock, link>>
        BY <3>1, <3>3 DEF Commit, Keep
      <4>. QED BY <4>1, IdleMoves
    <3>4. CASE <<d, NextVersion(c)>> \notin DOMAIN version
      <4>1. Moves(p) \/ ((\E r : Extends(p, r)) /\ link' = LinksFollow(c))
        BY <1>3, <1>4, <1>5, <2>1, <2>2, <3>1, <3>2, <3>4, <3>5, CommitExtends
      <4>. QED BY <2>1, <4>1 DEF Relinked
    <3>. QED BY <3>3, <3>4
  <2>4. CASE ~ (HasMoved(c) \/ KeyIsFree(<<c.key[1], c.to>>, d))
    <3>1. Return(p) /\ UNCHANGED <<doc, version, upload, download, clock, link>>
      BY <1>9, <2>4 DEF Move, Keep
    <3>. QED BY <3>1, IdleMoves
  <2>. QED BY <2>3, <2>4
<1>. QED BY <1>6, <1>7, <1>8, <1>9

\* A URL is signed, the clock ticks, or it is none of the documents' business.
Signs ==
  /\ UNCHANGED <<doc, version, call>>
  /\ upload \subseteq upload' /\ Signed'

LEMMA NextSteps ==
  ASSUME DocsInv, DocsNext
  PROVE  \/ \E p \in Proc : \/ Moves(p)
                            \/ (\E r : Extends(p, r)) /\ Relinked(p)
                            \/ \E d : Creates(p, d)
         \/ Signs /\ UNCHANGED link
<1>2. ASSUME NEW p \in Proc, CallSome(p) \/ FindSome(p) \/ FinishSome(p)
      PROVE  \/ Moves(p) \/ ((\E r : Extends(p, r)) /\ Relinked(p)) \/ \E d : Creates(p, d)
  BY <1>2, CallMoves, FindMoves, FinishSteps
<1>3. ASSUME NEW p \in Proc, Cancel(p) PROVE Moves(p)
  BY <1>3, IdleMoves DEF Cancel, Keep
<1>4. ASSUME NEW p \in Proc, NEW g \in upload, UploadDocHandler(p, g) PROVE Moves(p)
  BY <1>4, CallMoves
<1>5. CASE Tick
  <2>1. Signed' /\ upload' = upload
    BY <1>5 DEF Tick, DocsInv, Signed
  <2>. QED BY <1>5, <2>1 DEF Tick, Signs
<1>6. ASSUME NEW c \in Caller, NEW p \in Project, NEW path \in Path,
             (\E text \in Texts, v \in Versions : UploadURLTool(c, p, path, v, text))
               \/ DownloadURLTool(c, p, path)
      PROVE  Signs /\ UNCHANGED link
  <2>0. Signed
    BY DEF DocsInv
  <2>1. ASSUME NEW x \in Piece, NEW v, UploadURLTool(c, p, path, v, <<x>>)
        PROVE  Signs /\ UNCHANGED link
    <3>. DEFINE g == SignUpload(c, p, path, v, <<x>>)
    <3>1. upload' = upload \cup {g} /\ UNCHANGED <<doc, version, call, download, clock, link>>
      BY <2>1 DEF UploadURLTool
    <3>2. <<x>> \in Seq(Piece)
      OBVIOUS
    <3>3. g.project = p /\ g.path = path /\ g.text = <<x>> /\ g.by = c
      BY DEF SignUpload
    <3>. HIDE DEF g
    <3>4. Signed'
      BY <2>0, <3>1, <3>2, <3>3 DEF Signed
    <3>. QED BY <3>1, <3>4 DEF Signs
  <2>2. ASSUME DownloadURLTool(c, p, path), UNCHANGED <<doc, version, call, upload, clock, link>>
        PROVE  Signs /\ UNCHANGED link
    BY <2>0, <2>2 DEF Signs, Signed
  <2>3. DownloadURLTool(c, p, path) => UNCHANGED <<doc, version, call, upload, clock, link>>
    BY DEF DownloadURLTool
  <2>. QED BY <1>6, <2>1, <2>2, <2>3 DEF Texts
<1>. QED BY <1>2, <1>3, <1>4, <1>5, <1>6 DEF DocsNext, SignSome

LEMMA DocsSteps ==
  ASSUME DocsInv, DocsStepOrEdit
  PROVE  \/ \E p \in Proc : \/ Moves(p)
                            \/ (\E r : Extends(p, r)) /\ Relinked(p)
                            \/ \E d : Creates(p, d)
         \/ Signs
<1>1. CASE UNCHANGED docVars
  <2>1. upload' = upload /\ Signed
    BY <1>1 DEF docVars, DocsInv
  <2>2. Signed'
    BY <2>1 DEF Signed
  <2>. QED BY <1>1, <2>1, <2>2 DEF docVars, Signs
<1>. QED BY <1>1, NextSteps DEF DocsStepOrEdit

-----------------------------------------------------------------------------
(* The invariant. *)

\* What a call knows stays true while others write: they wait for its locks,
\* and without them it knows a past version.
LEMMA FitsLater ==
  ASSUME NEW c, NEW rows, NEW urls, NEW later, NEW more,
         CallFits(c, rows, urls), urls \subseteq more,
         DOMAIN rows \subseteq DOMAIN later,
         \A d \in DOMAIN rows :
           /\ rows[d].version \in Nat
           /\ \/ later[d] = rows[d]
              \/ /\ d \notin c.locks
                 /\ later[d].version = rows[d].version + 1 /\ later[d].place = rows[d].place
  PROVE  CallFits(c, later, more)
<1>1. ASSUME HoldsIn(c, rows) PROVE HoldsIn(c, later)
  <2>1. CASE later[c.found] = rows[c.found]
    BY <1>1, <2>1 DEF HoldsIn
  <2>2. CASE /\ c.found \notin c.locks
             /\ later[c.found].version = rows[c.found].version + 1
             /\ later[c.found].place = rows[c.found].place
    BY <1>1, <2>2 DEF HoldsIn
  <2>. QED BY <1>1, <2>1, <2>2 DEF HoldsIn
<1>. QED BY <1>1 DEF CallFits

LEMMA MovesKeep == ASSUME DocsInv, NEW p \in Proc, Moves(p) PROVE DocsInv'
<1>1. PICK w : /\ CallOK(w) /\ ClaimsWell(p, w)
               /\ \A q \in Proc \ {p} : call[q].locks \cap w.locks = {}
               /\ call' = [call EXCEPT ![p] = w]
               /\ UNCHANGED <<doc, version, upload, download, clock, link>>
  BY DEF Moves
<1>2. /\ \A q \in Proc : call'[q] = IF q = p THEN w ELSE call[q]
      /\ DOMAIN call' = Proc
  BY <1>1 DEF DocsInv, CallsOK
<1>3. CallsOK'
  <2>1. \A q \in Proc : CallFits(call'[q], doc, upload)
    BY <1>1, <1>2 DEF DocsInv, CallsOK, CallOK
  <2>2. \A q \in Proc : CallFits(call'[q], doc', upload')
    BY <1>1, <2>1
  <2>3. \A q, s \in Proc : q # s => call'[q].locks \cap call'[s].locks = {}
    BY <1>1, <1>2 DEF DocsInv, CallsOK
  <2>. QED BY <1>2, <2>2, <2>3 DEF CallsOK, CallOK
<1>4. RowsOK' /\ Numbered' /\ EntriesOK' /\ Signed'
  BY <1>1 DEF DocsInv, RowsOK, Numbered, EntriesOK, Signed, Rows
<1>5. OneProjectDocPerPath'
  BY <1>1 DEF DocsInv, OneProjectDocPerPath, Rows, KeyOf
<1>6. KeysClaimed'
  <2>1. \A q \in Proc : HasMoved(call'[q])
          => KeyIsFree(<<call'[q].key[1], call'[q].to>>, call'[q].found)
    BY <1>1, <1>2 DEF ClaimsWell, DocsInv, KeysClaimed
  <2>2. \A q, s \in Proc : q # s /\ HasMoved(call'[q]) /\ HasMoved(call'[s])
          => Claims(call'[q]) \cap Claims(call'[s]) = {}
    BY <1>1, <1>2 DEF ClaimsWell, DocsInv, KeysClaimed
  <2>. QED BY <1>1, <2>1, <2>2 DEF KeysClaimed, KeyIsFree, Rows, KeyOf
<1>. QED BY <1>3, <1>4, <1>5, <1>6 DEF DocsInv

LEMMA SignsKeep == ASSUME DocsInv, Signs PROVE DocsInv'
<1>1. UNCHANGED <<doc, version, call>> /\ upload \subseteq upload' /\ Signed'
  BY DEF Signs
<1>2. \A d \in DOMAIN doc : doc[d].version \in Nat /\ doc'[d] = doc[d]
  BY <1>1 DEF DocsInv, RowsOK, Row, Rows
<1>3. CallsOK'
  <2>1. \A q \in Proc : CallFits(call[q], doc, upload)
    BY DEF DocsInv, CallsOK, CallOK
  <2>2. \A q \in Proc : CallFits(call[q], doc', upload')
    BY <1>1, <1>2, <2>1, FitsLater
  <2>. QED BY <1>1, <2>2 DEF DocsInv, CallsOK, CallOK
<1>4. RowsOK' /\ Numbered' /\ EntriesOK'
  BY <1>1 DEF DocsInv, RowsOK, Numbered, EntriesOK, Rows
<1>5. OneProjectDocPerPath'
  BY <1>1 DEF DocsInv, OneProjectDocPerPath, Rows, KeyOf
<1>6. KeysClaimed'
  BY <1>1 DEF DocsInv, KeysClaimed, KeyIsFree, Rows, KeyOf
<1>. QED BY <1>1, <1>3, <1>4, <1>5, <1>6 DEF DocsInv

\* A commit leaves alone what the moves under way have claimed: its new path
\* is none of theirs.
LEMMA ClaimsKept ==
  ASSUME DocsInv, NEW p \in Proc, Ends(p), NEW d,
         Rows' = Rows \cup {d}, \A e \in Rows \ {d} : doc'[e] = doc[e],
         \A q \in Proc \ {p} : HasMoved(call[q]) =>
           \/ d \in Rows /\ doc'[d].place = doc[d].place /\ doc'[d].path = doc[d].path
           \/ <<doc'[d].place, doc'[d].path>> \notin Claims(call[q])
  PROVE  KeysClaimed'
<1>1. \A q \in Proc : HasMoved(call'[q]) => q # p /\ call'[q] = call[q]
  <2>1. \A q \in Proc : call'[q] = IF q = p THEN Idle ELSE call[q]
    BY DEF Ends, DocsInv, CallsOK
  <2>. QED BY <2>1, IdleOK
<1>2. ASSUME NEW q \in Proc, HasMoved(call'[q])
      PROVE  KeyIsFree(<<call[q].key[1], call[q].to>>, call[q].found)'
  <2>. DEFINE k == <<call[q].key[1], call[q].to>>
              f == call[q].found
  <2>1. call'[q] = call[q] /\ q # p /\ HasMoved(call[q])
    BY <1>1, <1>2
  <2>2. KeyIsFree(k, f) /\ k \in Claims(call[q])
    BY <2>1 DEF DocsInv, KeysClaimed, Claims
  <2>. HIDE DEF k, f
  <2>3. \/ d \in Rows /\ doc'[d].place = doc[d].place /\ doc'[d].path = doc[d].path
        \/ <<doc'[d].place, doc'[d].path>> # k
    BY <2>1, <2>2
  <2>4. k[1] = Global \/ \A x \in Rows' \ {f} : <<doc'[x].place, doc'[x].path>> # k
    BY <2>2, <2>3 DEF KeyIsFree, KeyOf
  <2>5. k = <<call'[q].key[1], call'[q].to>> /\ f = call'[q].found
    BY <2>1 DEF k, f
  <2>. QED BY <2>4, <2>5 DEF KeyIsFree, KeyOf
<1>3. \A q, s \in Proc : q # s /\ HasMoved(call'[q]) /\ HasMoved(call'[s])
          => Claims(call'[q]) \cap Claims(call'[s]) = {}
  BY <1>1 DEF DocsInv, KeysClaimed
<1>. QED BY <1>2, <1>3 DEF KeysClaimed

LEMMA ExtendsKeep == ASSUME DocsInv, NEW p \in Proc, NEW r, Extends(p, r) PROVE DocsInv'
<1>. DEFINE c == call[p]
            d == c.found
            n == doc[d].version + 1
<1>0. /\ CallOK(c) /\ d \in Rows /\ d # NoDoc /\ doc[d] \in Row /\ r \in Row
      /\ Holds(c) /\ c.pc # "idle" /\ doc[d].place = c.key[1]
      /\ doc[d].version \in Nat \ {0}
  <2>1. CallOK(c) /\ d \in Rows /\ d # NoDoc /\ doc[d] \in Row /\ r \in Row
    BY DocsAssumption DEF DocsInv, CallsOK, RowsOK, Extends
  <2>. QED BY <2>1 DEF CallOK, CallFits, Holds, HoldsIn, Row
<1>1. /\ Rows' = Rows /\ doc'[d] = r /\ \A e \in Rows \ {d} : doc'[e] = doc[e]
      /\ r.version = n /\ r.place = doc[d].place
  BY <1>0 DEF Extends, Rows
<1>2. /\ DOMAIN version' = DOMAIN version \cup {<<d, n>>}
      /\ version'[<<d, n>>] = [text |-> r.text, via |-> c.via, url |-> c.url]
      /\ \A x \in DOMAIN version : x # <<d, n>> => version'[x] = version[x]
  BY <1>1 DEF Extends, InsertDocumentVersion
<1>3. <<d, n>> \notin DOMAIN version
  BY <1>0 DEF DocsInv, Numbered
<1>4. RowsOK'
  BY <1>0, <1>1 DEF DocsInv, RowsOK
<1>5. Numbered'
  <2>1. \A e \in Rows', m \in Nat : <<e, m>> \in DOMAIN version' <=> m \in 1..doc'[e].version
    <3>1. SUFFICES ASSUME NEW e \in Rows, NEW m \in Nat
                   PROVE  <<e, m>> \in DOMAIN version' <=> m \in 1..doc'[e].version
      BY <1>1
    <3>2. <<e, m>> \in DOMAIN version <=> m \in 1..doc[e].version
      BY DEF DocsInv, Numbered
    <3>3. <<e, m>> \in DOMAIN version' <=> m \in 1..doc[e].version \/ (e = d /\ m = n)
      BY <1>2, <3>2
    <3>4. CASE e = d
      BY <1>0, <1>1, <3>3, <3>4
    <3>5. CASE e # d
      BY <1>1, <3>3, <3>5
    <3>. QED BY <3>4, <3>5
  <2>2. \A x \in DOMAIN version' : x[1] \in Rows' /\ x[2] \in Nat /\ x = <<x[1], x[2]>>
    BY <1>0, <1>1, <1>2 DEF DocsInv, Numbered
  <2>3. \A e \in Rows' : version'[<<e, doc'[e].version>>].text = doc'[e].text
    <3>1. version'[<<d, n>>].text = r.text
      BY <1>2
    <3>2. ASSUME NEW e \in Rows \ {d} PROVE version'[<<e, doc'[e].version>>].text = doc'[e].text
      <4>1. doc[e].version \in Nat \ {0} /\ doc'[e] = doc[e]
        BY <1>1 DEF DocsInv, RowsOK, Row
      <4>2. <<e, doc[e].version>> \in DOMAIN version /\ version[<<e, doc[e].version>>].text = doc[e].text
        BY <4>1 DEF DocsInv, Numbered
      <4>. QED BY <1>2, <1>3, <4>1, <4>2
    <3>. QED BY <1>1, <3>1, <3>2
  <2>. QED BY <2>1, <2>2, <2>3 DEF Numbered
<1>6. EntriesOK' /\ Signed'
  <2>1. upload' = upload
    BY DEF Extends
  <2>2. ASSUME NEW x \in DOMAIN version
        PROVE  /\ version'[x] = version[x] /\ doc'[x[1]].place = doc[x[1]].place
    <3>1. x[1] \in Rows
      BY DEF DocsInv, Numbered
    <3>. QED BY <1>1, <1>2, <1>3, <3>1
  <2>3. \A x \in DOMAIN version :
          /\ version'[x] = [text |-> version'[x].text, via |-> version'[x].via, url |-> version'[x].url]
          /\ version'[x].text \in Seq(Piece)
          /\ version'[x].via \in (Project \cup {Web}) \cap {Web, doc'[x[1]].place}
          /\ version'[x].url \in upload' \cup {NoUrl}
    BY <2>1, <2>2 DEF DocsInv, EntriesOK
  <2>4. r.text \in Seq(Piece)
    BY <1>0 DEF Row
  <2>5. /\ c.via \in (Project \cup {Web}) \cap {Web, doc'[d].place}
        /\ c.url \in upload' \cup {NoUrl}
    BY <1>0, <1>1, <2>1 DEF CallOK, CallFits
  <2>6. LET x == <<d, n>> IN
          /\ version'[x] = [text |-> version'[x].text, via |-> version'[x].via, url |-> version'[x].url]
          /\ version'[x].text \in Seq(Piece)
          /\ version'[x].via \in (Project \cup {Web}) \cap {Web, doc'[x[1]].place}
          /\ version'[x].url \in upload' \cup {NoUrl}
    BY <1>2, <2>4, <2>5
  <2>7. EntriesOK'
    BY <1>2, <2>3, <2>6 DEF EntriesOK
  <2>. QED BY <2>1, <2>7 DEF DocsInv, Signed
<1>7. CallsOK'
  <2>1. /\ \A q \in Proc : call'[q] = IF q = p THEN Idle ELSE call[q]
        /\ DOMAIN call' = Proc /\ upload' = upload
    BY DEF Extends, Ends, DocsInv, CallsOK
  <2>2. CallFits(Idle, doc', upload') /\ Idle.locks = {}
    <3>1. IsCall(Idle)
      BY DEF IsCall, Idle
    <3>2. Idle.text = <<>> /\ <<>> \in Seq(Piece)
      BY DEF Idle
    <3>. QED BY <3>1, <3>2 DEF CallFits, Idle
  <2>3. ASSUME NEW q \in Proc \ {p} PROVE CallFits(call[q], doc', upload')
    <3>1. d \notin call[q].locks
      BY DEF Extends, LockedBy
    <3>2. \A e \in DOMAIN doc :
            /\ doc[e].version \in Nat
            /\ \/ doc'[e] = doc[e]
               \/ /\ e \notin call[q].locks
                  /\ doc'[e].version = doc[e].version + 1 /\ doc'[e].place = doc[e].place
      BY <1>0, <1>1, <3>1 DEF DocsInv, RowsOK, Row, Rows
    <3>3. CallFits(call[q], doc, upload) /\ upload \subseteq upload' /\ DOMAIN doc \subseteq DOMAIN doc'
      BY <1>1, <2>1 DEF DocsInv, CallsOK, CallOK, Rows
    <3>. QED BY <3>2, <3>3, FitsLater
  <2>4. \A q \in Proc : CallFits(call'[q], doc', upload')
    BY <2>1, <2>2, <2>3
  <2>5. \A q, s \in Proc : q # s => call'[q].locks \cap call'[s].locks = {}
    <3>. HIDE DEF Idle
    <3>. QED BY <2>1, <2>2 DEF DocsInv, CallsOK
  <2>. QED BY <2>1, <2>4, <2>5 DEF CallsOK, CallOK
<1>8. OneProjectDocPerPath'
  <2>1. SUFFICES ASSUME NEW a \in Rows, NEW b \in Rows, a # b, KeyOf(a)' = KeyOf(b)'
                 PROVE  doc'[a].place = Global
    BY <1>1 DEF OneProjectDocPerPath
  <2>2. doc'[a].place = doc'[b].place /\ doc'[a].path = doc'[b].path
    BY <2>1 DEF KeyOf
  <2>3. CASE r.path = doc[d].path
    <3>1. \A e \in Rows : doc'[e].place = doc[e].place /\ doc'[e].path = doc[e].path
      BY <1>1, <2>3
    <3>2. KeyOf(a) = KeyOf(b)
      BY <2>2, <3>1 DEF KeyOf
    <3>. QED BY <2>1, <3>1, <3>2 DEF DocsInv, OneProjectDocPerPath
  <2>4. CASE r.path # doc[d].path
    <3>1. r.place = Global \/ \A x \in Rows \ {d} : KeyOf(x) # <<r.place, r.path>>
      BY <2>4 DEF Extends, KeyIsFree
    <3>2. CASE a # d /\ b # d
      <4>1. KeyOf(a) = KeyOf(b) /\ doc'[a].place = doc[a].place
        BY <1>1, <2>2, <3>2 DEF KeyOf
      <4>. QED BY <2>1, <4>1 DEF DocsInv, OneProjectDocPerPath
    <3>3. CASE a = d
      <4>1. doc'[b] = doc[b] /\ doc'[a] = r
        BY <1>1, <2>1, <3>3
      <4>. QED BY <2>1, <2>2, <3>1, <3>3, <4>1 DEF KeyOf
    <3>4. CASE b = d
      <4>1. doc'[a] = doc[a] /\ doc'[b] = r
        BY <1>1, <2>1, <3>4
      <4>. QED BY <2>1, <2>2, <3>1, <3>4, <4>1 DEF KeyOf
    <3>. QED BY <3>2, <3>3, <3>4
  <2>. QED BY <2>3, <2>4
<1>9. KeysClaimed'
  <2>1. ASSUME NEW q \in Proc \ {p}, HasMoved(call[q]), r.path # doc[d].path
        PROVE  <<r.place, r.path>> \notin Claims(call[q])
    <3>1. c.op = "move" /\ r.path = c.to /\ r.place = c.key[1] /\ c.pc = "finish"
      BY <1>0, <2>1 DEF Extends
    <3>2. <<r.place, r.path>> \in Claims(c) /\ (HasMoved(c) <=> r.place = Home)
      BY <3>1 DEF Claims, HasMoved
    <3>3. \A k \in Claims(call[q]) : k[1] = Home
      BY <2>1 DEF HasMoved, Claims
    <3>4. CASE r.place = Home
      BY <2>1, <3>2, <3>4 DEF DocsInv, KeysClaimed
    <3>5. CASE r.place # Home
      BY <3>3, <3>5
    <3>. QED BY <3>4, <3>5
  <2>2. Ends(p) /\ Rows' = Rows \cup {d}
    BY <1>0, <1>1 DEF Extends
  <2>3. \A q \in Proc \ {p} : HasMoved(call[q]) =>
           \/ d \in Rows /\ doc'[d].place = doc[d].place /\ doc'[d].path = doc[d].path
           \/ <<doc'[d].place, doc'[d].path>> \notin Claims(call[q])
    BY <1>0, <1>1, <2>1
  <2>. QED BY <1>1, <2>2, <2>3, ClaimsKept
<1>. QED BY <1>4, <1>5, <1>6, <1>7, <1>8, <1>9 DEF DocsInv

LEMMA CreatesKeep == ASSUME DocsInv, NEW p \in Proc, NEW d, Creates(p, d) PROVE DocsInv'
<1>. DEFINE c == call[p]
            r == [place |-> c.key[1], path |-> c.key[2], text |-> c.text, version |-> 1, deleted |-> FALSE]
<1>0. /\ CallOK(c) /\ d \in DocId \ Rows /\ c.pc = "finish"
      /\ c.key \in Place \X Path /\ c.via \in {Web, c.key[1]} /\ c.text \in Seq(Piece)
  BY DEF DocsInv, CallsOK, CallOK, CallFits, Creates
<1>1. /\ Rows' = Rows \cup {d} /\ doc'[d] = r /\ \A e \in Rows : doc'[e] = doc[e]
  BY <1>0 DEF Creates, InsertDocument, Rows
<1>2. r \in Row /\ r.place = c.key[1] /\ r.path = c.key[2] /\ r.text = c.text /\ r.version = 1
  BY <1>0 DEF Row
<1>. HIDE DEF r
<1>3. /\ DOMAIN version' = DOMAIN version \cup {<<d, 1>>}
      /\ version'[<<d, 1>>] = [text |-> c.text, via |-> c.via, url |-> c.url]
      /\ \A x \in DOMAIN version : x # <<d, 1>> => version'[x] = version[x]
  BY DEF Creates, InsertDocumentVersion
<1>4. \A n : <<d, n>> \notin DOMAIN version
  BY <1>0 DEF DocsInv, Numbered
<1>5. RowsOK'
  BY <1>0, <1>1, <1>2 DEF DocsInv, RowsOK
<1>6. Numbered'
  <2>1. \A e \in Rows', m \in Nat : <<e, m>> \in DOMAIN version' <=> m \in 1..doc'[e].version
    <3>1. SUFFICES ASSUME NEW e \in Rows \cup {d}, NEW m \in Nat
                   PROVE  <<e, m>> \in DOMAIN version' <=> m \in 1..doc'[e].version
      BY <1>1
    <3>2. CASE e = d
      BY <1>1, <1>2, <1>3, <1>4, <3>2
    <3>3. CASE e # d
      <4>1. <<e, m>> \in DOMAIN version <=> m \in 1..doc[e].version
        BY <3>3 DEF DocsInv, Numbered
      <4>. QED BY <1>1, <1>3, <3>3, <4>1
    <3>. QED BY <3>2, <3>3
  <2>2. \A x \in DOMAIN version' : x[1] \in Rows' /\ x[2] \in Nat /\ x = <<x[1], x[2]>>
    BY <1>1, <1>3 DEF DocsInv, Numbered
  <2>3. \A e \in Rows' : version'[<<e, doc'[e].version>>].text = doc'[e].text
    <3>1. version'[<<d, doc'[d].version>>].text = doc'[d].text
      BY <1>1, <1>2, <1>3
    <3>2. ASSUME NEW e \in Rows PROVE version'[<<e, doc'[e].version>>].text = doc'[e].text
      <4>1. doc[e].version \in Nat \ {0} /\ doc'[e] = doc[e]
        BY <1>1 DEF DocsInv, RowsOK, Row
      <4>2. <<e, doc[e].version>> \in DOMAIN version /\ version[<<e, doc[e].version>>].text = doc[e].text
        BY <4>1 DEF DocsInv, Numbered
      <4>3. <<e, doc[e].version>> # <<d, 1>>
        BY <1>0
      <4>. QED BY <1>3, <4>1, <4>2, <4>3
    <3>. QED BY <1>1, <3>1, <3>2
  <2>. QED BY <2>1, <2>2, <2>3 DEF Numbered
<1>7. EntriesOK' /\ Signed'
  <2>1. upload' = upload
    BY DEF Creates
  <2>2. ASSUME NEW x \in DOMAIN version
        PROVE  /\ version'[x] = version[x] /\ doc'[x[1]].place = doc[x[1]].place
    <3>1. x[1] \in Rows /\ x = <<x[1], x[2]>>
      BY DEF DocsInv, Numbered
    <3>2. x # <<d, 1>>
      BY <1>0, <3>1
    <3>. QED BY <1>1, <1>3, <3>1, <3>2
  <2>3. \A x \in DOMAIN version :
          /\ version'[x] = [text |-> version'[x].text, via |-> version'[x].via, url |-> version'[x].url]
          /\ version'[x].text \in Seq(Piece)
          /\ version'[x].via \in (Project \cup {Web}) \cap {Web, doc'[x[1]].place}
          /\ version'[x].url \in upload' \cup {NoUrl}
    BY <2>1, <2>2 DEF DocsInv, EntriesOK
  <2>4. /\ c.via \in (Project \cup {Web}) \cap {Web, doc'[d].place}
        /\ c.url \in upload' \cup {NoUrl}
    BY <1>0, <1>1, <1>2, <2>1 DEF CallOK, CallFits
  <2>5. LET x == <<d, 1>> IN
          /\ version'[x] = [text |-> version'[x].text, via |-> version'[x].via, url |-> version'[x].url]
          /\ version'[x].text \in Seq(Piece)
          /\ version'[x].via \in (Project \cup {Web}) \cap {Web, doc'[x[1]].place}
          /\ version'[x].url \in upload' \cup {NoUrl}
    BY <1>0, <1>3, <2>4
  <2>6. EntriesOK'
    BY <1>3, <2>3, <2>5 DEF EntriesOK
  <2>. QED BY <2>1, <2>6 DEF DocsInv, Signed
<1>8. CallsOK'
  <2>1. /\ \A q \in Proc : call'[q] = IF q = p THEN Idle ELSE call[q]
        /\ DOMAIN call' = Proc /\ upload' = upload
    BY DEF Creates, Ends, DocsInv, CallsOK
  <2>2. CallFits(Idle, doc', upload') /\ Idle.locks = {}
    <3>1. IsCall(Idle)
      BY DEF IsCall, Idle
    <3>2. Idle.text = <<>> /\ <<>> \in Seq(Piece)
      BY DEF Idle
    <3>. QED BY <3>1, <3>2 DEF CallFits, Idle
  <2>3. ASSUME NEW q \in Proc \ {p} PROVE CallFits(call[q], doc', upload')
    <3>1. \A e \in DOMAIN doc : doc[e].version \in Nat /\ doc'[e] = doc[e]
      BY <1>1 DEF DocsInv, RowsOK, Row, Rows
    <3>2. CallFits(call[q], doc, upload) /\ upload \subseteq upload' /\ DOMAIN doc \subseteq DOMAIN doc'
      BY <1>1, <2>1 DEF DocsInv, CallsOK, CallOK, Rows
    <3>. QED BY <3>1, <3>2, FitsLater
  <2>4. \A q \in Proc : CallFits(call'[q], doc', upload')
    BY <2>1, <2>2, <2>3
  <2>5. \A q, s \in Proc : q # s => call'[q].locks \cap call'[s].locks = {}
    <3>. HIDE DEF Idle
    <3>. QED BY <2>1, <2>2 DEF DocsInv, CallsOK
  <2>. QED BY <2>1, <2>4, <2>5 DEF CallsOK, CallOK
<1>9. OneProjectDocPerPath'
  <2>1. SUFFICES ASSUME NEW a \in Rows \cup {d}, NEW b \in Rows \cup {d}, a # b, KeyOf(a)' = KeyOf(b)'
                 PROVE  doc'[a].place = Global
    BY <1>1 DEF OneProjectDocPerPath
  <2>2. doc'[a].place = doc'[b].place /\ doc'[a].path = doc'[b].path
    BY <2>1 DEF KeyOf
  <2>3. c.key = <<c.key[1], c.key[2]>>
    BY <1>0
  <2>4. c.key[1] = Global \/ \A x \in Rows : KeyOf(x) # c.key
    BY DocsAssumption DEF DocsInv, RowsOK, Creates, KeyIsFree
  <2>5. CASE a # d /\ b # d
    <3>1. KeyOf(a) = KeyOf(b) /\ doc'[a].place = doc[a].place
      BY <1>1, <2>2, <2>5 DEF KeyOf
    <3>. QED BY <2>1, <2>5, <3>1 DEF DocsInv, OneProjectDocPerPath
  <2>6. CASE a = d
    <3>1. doc'[b] = doc[b] /\ doc'[a] = r
      BY <1>1, <2>1, <2>6
    <3>. QED BY <1>2, <2>1, <2>2, <2>3, <2>4, <2>6, <3>1 DEF KeyOf
  <2>7. CASE b = d
    <3>1. doc'[a] = doc[a] /\ doc'[b] = r
      BY <1>1, <2>1, <2>7
    <3>. QED BY <1>2, <2>1, <2>2, <2>3, <2>4, <2>7, <3>1 DEF KeyOf
  <2>. QED BY <2>5, <2>6, <2>7
<1>10. KeysClaimed'
  <2>1. c.key = <<r.place, r.path>> /\ d \notin Rows
    BY <1>0, <1>2
  <2>2. \A q \in Proc : HasMoved(call[q]) => c.key \notin Claims(call[q])
    BY DEF Creates, Unclaimed
  <2>3. Ends(p)
    BY DEF Creates
  <2>. QED BY <1>1, <2>1, <2>2, <2>3, ClaimsKept
<1>. QED BY <1>5, <1>6, <1>7, <1>8, <1>9, <1>10 DEF DocsInv

LEMMA DocsInvStep == DocsInv /\ DocsStepOrEdit => DocsInv'
  BY DocsSteps, MovesKeep, ExtendsKeep, CreatesKeep, SignsKeep

LEMMA DocsInvInit == Init => DocsInv
<1>. SUFFICES ASSUME Init PROVE DocsInv
  OBVIOUS
<1>1. Rows = {} /\ DOMAIN version = {} /\ upload = {}
  BY DEF Init, Rows
<1>2. \A p \in Proc : call[p] = Idle
  BY DEF Init
<1>3. DOMAIN call = Proc
  BY DEF Init
<1>4. CallsOK
  <2>. HIDE DEF Idle
  <2>. QED BY <1>2, <1>3, IdleOK DEF CallsOK
<1>5. KeysClaimed
  <2>. HIDE DEF Idle
  <2>. QED BY <1>2, IdleOK DEF KeysClaimed
<1>. QED BY <1>1, <1>4, <1>5 DEF DocsInv, RowsOK, Numbered, EntriesOK, Signed, OneProjectDocPerPath

\* What the calls know is true, versions are numbered without a gap, and every
\* path of a project names one document.
THEOREM DocsInvariant == DocsSpec => []DocsInv
<1>1. [DocsNext]_<<docVars, link>> => DocsStepOrEdit
  BY DEF DocsStepOrEdit
<1>. QED BY <1>1, DocsInvInit, DocsInvStep, PTL DEF DocsSpec

-----------------------------------------------------------------------------
(* The properties of a state. *)

THEOREM OneDocument == DocsSpec => []OneProjectDocPerPath
<1>. QED BY DocsInvariant, PTL DEF DocsInv

LEMMA LockedCommit == DocsInv => LockedWritersCommit
<1>. SUFFICES ASSUME DocsInv, NEW p \in Proc, call[p].locks # {}
              PROVE  <<call[p].found, NextVersion(call[p])>> \notin DOMAIN version
  BY DEF LockedWritersCommit
<1>1. call[p].found # NoDoc /\ Holds(call[p])
  BY DEF DocsInv, CallsOK, CallOK, CallFits, Holds
<1>2. call[p].found \in Rows /\ call[p].version = doc[call[p].found].version
  BY <1>1 DEF Holds, HoldsIn, Rows
<1>3. doc[call[p].found].version \in Nat
  BY <1>2 DEF DocsInv, RowsOK, Row
<1>. QED BY <1>2, <1>3 DEF DocsInv, Numbered, NextVersion

\* The number that a writer takes under its lock is free.
THEOREM LocksSuffice == DocsSpec => []LockedWritersCommit
<1>. QED BY DocsInvariant, LockedCommit, PTL

LEMMA EntriesStayHome == DocsInv => TokenWritesStayHome
  BY DEF DocsInv, EntriesOK, TokenWritesStayHome

\* A token's documents are in its own project.
THEOREM WritesStayHome == DocsSpec => []TokenWritesStayHome
<1>. QED BY DocsInvariant, EntriesStayHome, PTL

LEMMA WellFormed == DocsInv => DocsTypeOK
<1>. SUFFICES ASSUME DocsInv PROVE DocsTypeOK
  OBVIOUS
<1>1. Rows \subseteq DocId /\ \A d \in Rows : KeyOf(d) \in Place \X Path /\ doc[d].version \in Nat \ {0}
  BY DEF DocsInv, RowsOK, Row, KeyOf
<1>2. \A x \in DOMAIN version : x[1] \in Rows /\ version[x] \in Entry
  <2>1. SUFFICES ASSUME NEW x \in DOMAIN version PROVE x[1] \in Rows /\ version[x] \in Entry
    OBVIOUS
  <2>2. /\ version[x] = [text |-> version[x].text, via |-> version[x].via, url |-> version[x].url]
        /\ version[x].text \in Seq(Piece) /\ version[x].via \in Project \cup {Web}
        /\ version[x].url \in upload \cup {NoUrl}
    BY DEF DocsInv, EntriesOK
  <2>. QED BY <2>2 DEF Entry, DocsInv, Numbered
<1>3. \A p \in Proc : call[p].locks \subseteq Rows /\ call[p].pc \in {"idle", "find", "relink", "unlink", "finish"}
  BY DEF DocsInv, CallsOK, CallOK, CallFits, HoldsIn, Rows
<1>4. \A p, q \in Proc : p # q => call[p].locks \cap call[q].locks = {}
  BY DEF DocsInv, CallsOK
<1>. QED BY <1>1, <1>2, <1>3, <1>4 DEF DocsTypeOK

\* Everything is well formed.
THEOREM DocsWellFormed == DocsSpec => []DocsTypeOK
<1>. QED BY DocsInvariant, WellFormed, PTL

\* What the readers find for a request about a project, at one of its paths.
Found(c, p, path) ==
  {d \in Rows : KeyOf(d) = <<p, path>> /\ ~ doc[d].deleted /\ HasAccess(c, p)}

\* ... and what they are told.
Answers(found) == {[id |-> d, version |-> doc[d].version, text |-> doc[d].text] : d \in found}

LEMMA Reads ==
  ASSUME NEW c, NEW p \in Project, NEW path
  PROVE  ReadTool(c, [scope |-> "project", project |-> p], path) = Answers(Found(c, p, path))
<1>. DEFINE r      == [scope |-> "project", project |-> p]
            places == {q \in Project : q = p /\ HasAccess(c, q)}
<1>1. resolveDocScope(c, r) = places
  BY DEF resolveDocScope
<1>2. ReadTool(c, r, path) = UNION {ReadDocument(<<pl, path>>) : pl \in places}
  BY <1>1 DEF ReadTool, Read
<1>. QED BY <1>2 DEF ReadDocument, Found, Answers

LEMMA Readers ==
  ASSUME NEW c, NEW p \in Project, NEW path
  PROVE  LET r == [scope |-> "project", project |-> p] IN
         /\ resolveDocScope(c, r) = resolveScope(c, r)
         /\ ListTool(c, r, {path}) =
              {[path |-> doc[d].path, version |-> doc[d].version] : d \in Found(c, p, path)}
         /\ \A d \in Found(c, p, path) :
              \E s \in StatTool(c, r, path) : s.version = doc[d].version /\ s.sha = doc[d].text
<1>. DEFINE r      == [scope |-> "project", project |-> p]
            places == {q \in Project : q = p /\ HasAccess(c, q)}
<1>1. resolveDocScope(c, r) = places /\ resolveScope(c, r) = places
  BY DEF resolveDocScope, resolveScope
<1>3. ListTool(c, r, {path}) = {[path |-> doc[d].path, version |-> doc[d].version] : d \in Found(c, p, path)}
  <2>1. ListTool(c, r, {path}) = UNION {ListDocuments(pl, {path}) : pl \in places}
    BY <1>1 DEF ListTool, List
  <2>2. \A d \in Rows : doc[d].place = p /\ Live(d) /\ doc[d].path \in {path}
                        <=> KeyOf(d) = <<p, path>> /\ ~ doc[d].deleted
    BY DEF Live, KeyOf
  <2>3. ListDocuments(p, {path}) =
          {[path |-> doc[d].path, version |-> doc[d].version] :
             d \in {x \in Rows : KeyOf(x) = <<p, path>> /\ ~ doc[x].deleted}}
    BY <2>2 DEF ListDocuments
  <2>4. CASE HasAccess(c, p)
    <3>1. places = {p} /\ Found(c, p, path) = {x \in Rows : KeyOf(x) = <<p, path>> /\ ~ doc[x].deleted}
      BY <2>4 DEF Found
    <3>2. ListTool(c, r, {path}) = ListDocuments(p, {path})
      BY <2>1, <3>1
    <3>. QED BY <2>3, <3>1, <3>2
  <2>5. CASE ~ HasAccess(c, p)
    <3>1. places = {} /\ Found(c, p, path) = {}
      BY <2>5 DEF Found
    <3>. QED BY <2>1, <3>1
  <2>. QED BY <2>4, <2>5
<1>4. StatTool(c, r, path) =
        {[path |-> path, version |-> doc[d].version, sha |-> doc[d].text] : d \in Found(c, p, path)}
  <2>1. StatTool(c, r, path) = UNION {StatDocument(<<pl, path>>) : pl \in places}
    BY <1>1 DEF StatTool, ReadStat
  <2>. QED BY <2>1 DEF StatDocument, Found
<1>5. ASSUME NEW d \in Found(c, p, path)
      PROVE  \E s \in StatTool(c, r, path) : s.version = doc[d].version /\ s.sha = doc[d].text
  <2>. DEFINE s == [path |-> path, version |-> doc[d].version, sha |-> doc[d].text]
  <2>1. s \in StatTool(c, r, path) /\ s.version = doc[d].version /\ s.sha = doc[d].text
    BY <1>4
  <2>. QED BY <2>1
<1>. QED BY <1>1, <1>3, <1>5

LEMMA OneFound ==
  ASSUME DocsInv, NEW c, NEW p \in Project, NEW path, NEW d \in Found(c, p, path)
  PROVE  d \in Rows /\ doc[d].path = path /\ Found(c, p, path) = {d}
<1>1. d \in Rows /\ KeyOf(d) = <<p, path>>
  BY DEF Found
<1>2. doc[d].path = path
  BY <1>1 DEF KeyOf
<1>3. Found(c, p, path) = {d}
  <2>1. SUFFICES ASSUME NEW e \in Found(c, p, path) PROVE e = d
    OBVIOUS
  <2>2. e \in Rows /\ KeyOf(e) = <<p, path>> /\ doc[e].place = p
    BY <2>1 DEF Found, KeyOf
  <2>. QED BY <1>1, <2>2, DocsAssumption DEF DocsInv, OneProjectDocPerPath
<1>. QED BY <1>1, <1>2, <1>3

\* The history of a document ends in what it shows.
LEMMA LastShown ==
  ASSUME DocsInv, NEW d \in Rows
  PROVE  /\ ListDocumentVersions(d) = 1..doc[d].version
         /\ GetDocumentVersion(d, doc[d].version) = {doc[d].text}
<1>1. doc[d].version \in Nat \ {0}
  BY DEF DocsInv, RowsOK, Row
<1>2. \A n \in Nat : <<d, n>> \in DOMAIN version <=> n \in 1..doc[d].version
  BY DEF DocsInv, Numbered
<1>3. ListDocumentVersions(d) = 1..doc[d].version
  BY <1>1, <1>2 DEF ListDocumentVersions
<1>4. <<d, doc[d].version>> \in DOMAIN version
  BY <1>1, <1>2
<1>5. version[<<d, doc[d].version>>].text = doc[d].text
  BY DEF DocsInv, Numbered
<1>. QED BY <1>3, <1>4, <1>5 DEF GetDocumentVersion

LEMMA DownloadsAgree ==
  ASSUME DocsInv, NEW g, g.project \in Project
  PROVE  DownloadDocHandler(g) \subseteq
           ReadVersionTool(g.by, [scope |-> "project", project |-> g.project], g.path, g.version)
<1>. DEFINE r     == [scope |-> "project", project |-> g.project]
            found == Found(g.by, g.project, g.path)
<1>1. CASE ~ VerifyDownload(g) \/ ~ checkSignedCaller(g)
  BY <1>1 DEF DownloadDocHandler
<1>2. CASE VerifyDownload(g) /\ checkSignedCaller(g)
  <2>1. HasAccess(g.by, g.project)
    BY <1>2 DEF checkSignedCaller, HasAccess
  <2>2. ReadDocument(<<g.project, g.path>>) = Answers(found)
    BY <2>1 DEF ReadDocument, Found, Answers
  <2>3. ReadTool(g.by, r, g.path) = Answers(found)
    BY Reads
  <2>4. DownloadDocHandler(g)
          = UNION {IF a.version = g.version THEN {a.text} ELSE GetDocumentVersion(a.id, g.version) :
                     a \in ReadDocument(<<g.project, g.path>>)}
    BY <1>2 DEF DownloadDocHandler
  <2>5. ReadVersionTool(g.by, r, g.path, g.version)
          = UNION {GetDocumentVersion(a.id, g.version) : a \in ReadDocument(<<g.project, g.path>>)}
    BY <2>2, <2>3 DEF ReadVersionTool, ReadVersion
  <2>6. ASSUME NEW a \in ReadDocument(<<g.project, g.path>>), a.version = g.version
        PROVE  {a.text} = GetDocumentVersion(a.id, g.version)
    <3>1. PICK d \in found : a.id = d /\ a.version = doc[d].version /\ a.text = doc[d].text
      BY <2>2 DEF Answers
    <3>2. GetDocumentVersion(d, doc[d].version) = {doc[d].text}
      BY <3>1, OneFound, LastShown
    <3>. QED BY <2>6, <3>1, <3>2
  <2>. QED BY <2>4, <2>5, <2>6
<1>. QED BY <1>1, <1>2

\* What ReadersAgree says of one caller and path.
Agreement(c, p, path) ==
  LET r       == [scope |-> "project", project |-> p]
      read    == ReadTool(c, r, path)
      listed  == ListTool(c, r, {path})
      history == HistoryTool(c, r, path) IN
  /\ listed = {[path |-> path, version |-> a.version] : a \in read}
  /\ read = ReadDocHandler(c, r, path) /\ listed = ListDocsHandler(c, r, {path})
  /\ history = HistoryDocHandler(c, r, path)
  /\ \A x \in Piece : SearchTool(c, r, x) = SearchDocsHandler(c, r, x)
  /\ \A a \in read :
       /\ \E s \in StatTool(c, r, path) : s.version = a.version /\ s.sha = a.text
       /\ history = {1..a.version}
       /\ ReadVersionTool(c, r, path, a.version) = {a.text}
       /\ ReadDocVersionHandler(c, r, path, a.version) = {a.text}

LEMMA ReadersHold ==
  ASSUME DocsInv, NEW c, NEW p \in Project, NEW path
  PROVE  Agreement(c, p, path)
<1>. DEFINE r       == [scope |-> "project", project |-> p]
            read    == ReadTool(c, r, path)
            listed  == ListTool(c, r, {path})
            history == HistoryTool(c, r, path)
            found   == Found(c, p, path)
<1>1. /\ resolveDocScope(c, r) = resolveScope(c, r)
      /\ read = {[id |-> d, version |-> doc[d].version, text |-> doc[d].text] : d \in found}
      /\ listed = {[path |-> doc[d].path, version |-> doc[d].version] : d \in found}
      /\ \A d \in found : \E s \in StatTool(c, r, path) : s.version = doc[d].version /\ s.sha = doc[d].text
  <2>1. read = Answers(found)
    BY Reads
  <2>. QED BY <2>1, Readers DEF Answers
<1>2. /\ read = ReadDocHandler(c, r, path) /\ listed = ListDocsHandler(c, r, {path})
      /\ history = HistoryDocHandler(c, r, path)
      /\ \A x \in Piece : SearchTool(c, r, x) = SearchDocsHandler(c, r, x)
      /\ \A n : ReadDocVersionHandler(c, r, path, n) = ReadVersionTool(c, r, path, n)
  BY <1>1 DEF ReadTool, ReadDocHandler, ListTool, ListDocsHandler, HistoryTool, HistoryDocHandler,
              SearchTool, SearchDocsHandler, ReadDocVersionHandler, ReadVersionTool
<1>3. history = {ListDocumentVersions(a.id) : a \in read}
      /\ \A n : ReadVersionTool(c, r, path, n) = UNION {GetDocumentVersion(a.id, n) : a \in read}
  BY DEF HistoryTool, History, ReadVersionTool, ReadVersion
<1>4. listed = {[path |-> path, version |-> a.version] : a \in read}
  <2>1. \A d \in found : doc[d].path = path
    <3>1. SUFFICES ASSUME NEW d \in Found(c, p, path) PROVE doc[d].path = path
      OBVIOUS
    <3>. QED BY <3>1, OneFound
  <2>. HIDE DEF read, found
  <2>2. \A a \in read : \E d \in found : a.version = doc[d].version
    BY <1>1
  <2>3. ASSUME NEW d \in found PROVE \E a \in read : a.version = doc[d].version
    <3>. DEFINE a == [id |-> d, version |-> doc[d].version, text |-> doc[d].text]
    <3>1. a \in read /\ a.version = doc[d].version
      BY <1>1
    <3>. QED BY <3>1
  <2>4. listed = {[path |-> path, version |-> doc[d].version] : d \in found}
    BY <1>1, <2>1
  <2>. HIDE DEF listed
  <2>. QED BY <2>2, <2>3, <2>4
<1>5. ASSUME NEW a \in read
      PROVE  /\ \E s \in StatTool(c, r, path) : s.version = a.version /\ s.sha = a.text
             /\ history = {1..a.version}
             /\ ReadVersionTool(c, r, path, a.version) = {a.text}
  <2>1. PICK d \in found : a = [id |-> d, version |-> doc[d].version, text |-> doc[d].text]
    BY <1>1
  <2>2. found = {d} /\ ListDocumentVersions(d) = 1..doc[d].version
        /\ GetDocumentVersion(d, doc[d].version) = {doc[d].text}
    BY OneFound, LastShown
  <2>3. read = {a} /\ a.id = d /\ a.version = doc[d].version /\ a.text = doc[d].text
    BY <1>1, <2>1, <2>2
  <2>4. history = {1..a.version}
    BY <1>3, <2>2, <2>3
  <2>5. ReadVersionTool(c, r, path, a.version) = {a.text}
    BY <1>3, <2>2, <2>3
  <2>6. \E s \in StatTool(c, r, path) : s.version = a.version /\ s.sha = a.text
    BY <1>1, <2>3
  <2>. QED BY <2>3, <2>4, <2>5, <2>6
<1>. QED BY <1>2, <1>4, <1>5 DEF Agreement

LEMMA AllAgree == DocsInv => ReadersAgree
<1>. SUFFICES ASSUME DocsInv PROVE ReadersAgree
  OBVIOUS
<1>. USE DocsInv
<1>1. \A g \in download : g.project \in Project => DownloadDocHandler(g) \subseteq
        ReadVersionTool(g.by, [scope |-> "project", project |-> g.project], g.path, g.version)
  BY DownloadsAgree
<1>2. \A g \in download : g.project \notin Project => DownloadDocHandler(g) = {}
  BY DEF DownloadDocHandler, checkSignedCaller, requireProjectAccess
<1>3. \A c \in Agent, p \in Project, path \in Path : Agreement(c, p, path)
  BY ReadersHold
<1>. QED BY <1>1, <1>2, <1>3 DEF ReadersAgree, Agreement

\* However a document is read, the answer is the same.
THEOREM ReadingIsConsistent == DocsSpec => []ReadersAgree
<1>. QED BY DocsInvariant, AllAgree, PTL

-----------------------------------------------------------------------------
(* The properties of a step. *)

LEMMA UpdateStep ==
  DocsInv /\ DocsStepOrEdit =>
    \A p \in Proc, d \in DocId :
       (/\ call[p].pc = "finish" /\ call'[p].pc = "idle" /\ call[p].expected # Unstated
        /\ d \in DOMAIN doc' /\ (d \in Rows => doc'[d].version # doc[d].version))
         => call[p].expected = IF d \in Rows THEN doc[d].version ELSE 0
<1>. SUFFICES ASSUME DocsInv, DocsStepOrEdit, NEW p \in Proc, NEW d \in DocId,
                     call[p].pc = "finish", call'[p].pc = "idle", call[p].expected # Unstated,
                     d \in DOMAIN doc', d \in Rows => doc'[d].version # doc[d].version
              PROVE  call[p].expected = IF d \in Rows THEN doc[d].version ELSE 0
  OBVIOUS
<1>1. doc' # doc
  BY DEF Rows
<1>2. ~ Signs /\ ~ \E q \in Proc : Moves(q)
  BY <1>1 DEF Signs, Moves
<1>3. ASSUME NEW q \in Proc, q # p, Ends(q) PROVE FALSE
  <2>1. call'[p] = call[p]
    BY <1>3 DEF Ends, DocsInv, CallsOK
  <2>. QED BY <2>1
<1>4. ASSUME NEW q \in Proc, NEW r, Extends(q, r)
      PROVE  call[p].expected = IF d \in Rows THEN doc[d].version ELSE 0
  <2>1. q = p
    BY <1>3, <1>4 DEF Extends
  <2>2. /\ doc' = [doc EXCEPT ![call[p].found] = r] /\ call[p].found \in Rows
        /\ r.version = doc[call[p].found].version + 1
        /\ call[p].expected \in {Unstated, doc[call[p].found].version}
    BY <1>4, <2>1 DEF Extends
  <2>3. d \in Rows /\ d = call[p].found
    BY <2>2 DEF Rows
  <2>. QED BY <2>2, <2>3
<1>5. ASSUME NEW q \in Proc, NEW e, Creates(q, e)
      PROVE  call[p].expected = IF d \in Rows THEN doc[d].version ELSE 0
  <2>1. q = p
    BY <1>3, <1>5 DEF Creates
  <2>2. call[p].expected \in {Unstated, 0}
    BY <1>5, <2>1 DEF Creates, DocsInv, CallsOK, CallOK, CallFits
  <2>3. doc' = InsertDocument(e, call[p].key, call[p].text) /\ e \notin Rows
    BY <1>5, <2>1 DEF Creates
  <2>4. d \notin Rows
    BY <2>3 DEF InsertDocument, Rows
  <2>. QED BY <2>2, <2>4
<1>. QED BY <1>2, <1>4, <1>5, DocsSteps

\* A call that names a version replaces that one or nothing.
THEOREM NoUpdateIsLost == DocsSpec => NoLostUpdate
<1>. QED BY UpdateStep, DocsInvariant, PTL DEF DocsSpec, DocsStepOrEdit, NoLostUpdate

\* All that a step here does to the links is to let some name another path.
LEMMA LinksAfter ==
  ASSUME DocsInv, \A p \in Proc : LinksFit(call[p]), DocsNext
  PROVE  UNCHANGED link \/ \E new \in Path : \A l \in link' : l \in link \/ \E m \in link : l = <<m[1], new>>
<1>1. ASSUME NEW p \in Proc, NEW r, Extends(p, r), Relinked(p)
      PROVE  UNCHANGED link \/ \E new \in Path : \A l \in link' : l \in link \/ \E m \in link : l = <<m[1], new>>
  <2>1. CASE call[p].op # "move"
    BY <1>1, <2>1 DEF Relinked
  <2>2. CASE call[p].op = "move"
    <3>1. CallOK(call[p]) /\ call[p].found # NoDoc
      BY <1>1, DocsAssumption DEF Extends, DocsInv, CallsOK, RowsOK
    <3>2. call[p].to \in Path
      BY <3>1 DEF CallOK, CallFits
    <3>3. \A l \in link' : l \in link \/ \E m \in link : l = <<m[1], call[p].to>>
      BY <1>1, <2>2 DEF Relinked, LinksFollow, LinksFit
    <3>. QED BY <3>2, <3>3
  <2>. QED BY <2>1, <2>2
<1>. QED BY <1>1, NextSteps DEF Moves, Creates

-----------------------------------------------------------------------------
(* The documents implement their log. *)

DocLogStep == [Log!LogNext]_Log!logVars
texts == [x \in DOMAIN version |-> version[x].text]
sizes == [d \in Rows |-> doc[d].version]
shows == [d \in Rows |-> doc[d].text]

LEMMA LogExtends ==
  ASSUME NEW d, NEW n, d \in Rows', n = (IF d \in Rows THEN doc[d].version ELSE 0) + 1,
         <<d, n>> \notin DOMAIN version,
         DOMAIN version' = DOMAIN version \cup {<<d, n>>},
         \A x \in DOMAIN version : version'[x] = version[x],
         Rows' = Rows \cup {d}, doc'[d].version = n, doc'[d].text = version'[<<d, n>>].text,
         \A e \in Rows \ {d} : doc'[e] = doc[e]
  PROVE  DocLogStep
<1>1. /\ DOMAIN texts = DOMAIN version /\ DOMAIN sizes = Rows /\ DOMAIN shows = Rows
      /\ \A x \in DOMAIN version : texts[x] = version[x].text
      /\ \A e \in Rows : sizes[e] = doc[e].version /\ shows[e] = doc[e].text
  BY DEF texts, sizes, shows
<1>2. /\ DOMAIN texts' = DOMAIN version' /\ DOMAIN sizes' = Rows' /\ DOMAIN shows' = Rows'
      /\ \A x \in DOMAIN version' : texts'[x] = version'[x].text
      /\ \A e \in Rows' : sizes'[e] = doc'[e].version /\ shows'[e] = doc'[e].text
  BY DEF texts, sizes, shows
<1>3. /\ d \in DOMAIN sizes'
      /\ <<d, n>> \notin DOMAIN texts /\ DOMAIN texts' = DOMAIN texts \cup {<<d, n>>}
      /\ \A e \in DOMAIN texts : texts'[e] = texts[e]
      /\ DOMAIN sizes' = DOMAIN sizes \cup {d} /\ sizes'[d] = n
      /\ DOMAIN shows' = DOMAIN sizes' /\ shows'[d] = texts'[<<d, n>>]
      /\ \A x \in DOMAIN sizes \ {d} : sizes'[x] = sizes[x] /\ shows'[x] = shows[x]
      /\ n = (IF d \in DOMAIN sizes THEN sizes[d] ELSE 0) + 1
  BY <1>1, <1>2
<1>4. Log!Extend(d)
  BY <1>3 DEF Log!Extend, texts, sizes, shows
<1>5. d \in DOMAIN sizes'
  BY <1>3
<1>. QED BY <1>4, <1>5 DEF DocLogStep, Log!LogNext, sizes

LEMMA DocLogStepHolds == ASSUME DocsInv, DocsStepOrEdit PROVE DocLogStep
<1>1. CASE UNCHANGED <<doc, version>>
  BY <1>1 DEF DocLogStep, Log!logVars, Rows
<1>2. ASSUME NEW p \in Proc, NEW r, Extends(p, r) PROVE DocLogStep
  <2>. DEFINE d == call[p].found
              n == doc[d].version + 1
  <2>1. /\ d \in Rows /\ doc[d].version \in Nat /\ r.version = n
        /\ Rows' = Rows /\ doc'[d] = r /\ \A e \in Rows \ {d} : doc'[e] = doc[e]
    BY <1>2 DEF Extends, Rows, DocsInv, RowsOK, Row
  <2>2. /\ DOMAIN version' = DOMAIN version \cup {<<d, n>>}
        /\ version'[<<d, n>>].text = r.text
        /\ \A x \in DOMAIN version : x # <<d, n>> => version'[x] = version[x]
    BY <1>2, <2>1 DEF Extends, InsertDocumentVersion
  <2>3. <<d, n>> \notin DOMAIN version
    BY <2>1 DEF DocsInv, Numbered
  <2>. HIDE DEF d
  <2>4. /\ d \in Rows' /\ n = (IF d \in Rows THEN doc[d].version ELSE 0) + 1
        /\ \A x \in DOMAIN version : version'[x] = version[x]
        /\ Rows' = Rows \cup {d} /\ doc'[d].version = n /\ doc'[d].text = version'[<<d, n>>].text
    BY <2>1, <2>2, <2>3
  <2>. QED BY <2>1, <2>2, <2>3, <2>4, LogExtends
<1>3. ASSUME NEW p \in Proc, NEW d, Creates(p, d) PROVE DocLogStep
  <2>1. /\ d \notin Rows /\ Rows' = Rows \cup {d} /\ \A e \in Rows : doc'[e] = doc[e]
        /\ doc'[d].version = 1 /\ doc'[d].text = call[p].text
    BY <1>3 DEF Creates, InsertDocument, Rows
  <2>2. /\ DOMAIN version' = DOMAIN version \cup {<<d, 1>>}
        /\ version'[<<d, 1>>].text = call[p].text
        /\ \A x \in DOMAIN version : x # <<d, 1>> => version'[x] = version[x]
    BY <1>3 DEF Creates, InsertDocumentVersion
  <2>3. <<d, 1>> \notin DOMAIN version
    BY <2>1 DEF DocsInv, Numbered
  <2>4. /\ d \in Rows' /\ 1 = (IF d \in Rows THEN doc[d].version ELSE 0) + 1
        /\ \A x \in DOMAIN version : version'[x] = version[x]
        /\ \A e \in Rows \ {d} : doc'[e] = doc[e]
    BY <2>1, <2>2, <2>3
  <2>. QED BY <2>1, <2>2, <2>3, <2>4, LogExtends
<1>. QED BY <1>1, <1>2, <1>3, DocsSteps DEF Moves, Signs

LEMMA LogStarts == Init => Log!LogInit
  BY DEF Init, Log!LogInit, Log!Empty, Rows

\* What happens to the documents is what their log promises.
THEOREM DocumentsImplementLog == DocsSpec => ImplementsLog
<1>1. Init => Log!LogInit
  BY LogStarts
<1>2. DocsInv /\ DocsStepOrEdit => DocLogStep
  BY DocLogStepHolds
<1>3. [DocsNext]_<<docVars, link>> => DocsStepOrEdit
  BY DEF DocsStepOrEdit
<1>. QED BY <1>1, <1>2, <1>3, DocsInvariant, PTL
  DEF DocsSpec, DocLogStep, ImplementsLog, Log!LogSpec
===============================================================================
