--------------------------------- MODULE Docs ---------------------------------
(***************************************************************************)
(* The documents (internal/docs): rows in documents, one row per version   *)
(* in document_versions, optimistic concurrency on the version number, and *)
(* the signed URLs through which agents move files.  A call takes two      *)
(* steps after it has begun: the SELECT that finds (and for most calls     *)
(* locks) the row, then the statements that write and commit, or the       *)
(* error; a move of a document the graph may link has two more between     *)
(* them, up to its UPDATE of the links and its DELETE of those left.       *)
(* Calls of other clients run between the steps.                           *)
(*                                                                         *)
(* A text is a sequence of pieces: append adds one.  Kinds, titles,        *)
(* frontmatter and search ranks are left out.                              *)
(***************************************************************************)
EXTENDS DocLinks, Integers, Sequences

CONSTANTS
  DocId,
  Piece,      \* pieces of text
  Global,     \* the place of documents that belong to no project
  NoDoc,
  NoUrl,
  UploadTTL   \* ticks a signed URL stays valid

ASSUME DocsAssumption ==
  /\ Global \notin Project
  /\ NoDoc \notin DocId
  /\ UploadTTL \in Nat

Unstated   == -1                                \* expected_version not given
Place == Project \cup {Global}
Scope == {"", "global", "project"}         \* "" is a request that gives none
Request == [scope : Scope, project : Project \cup {NoProject}]

VARIABLES
  doc,        \* documents: [place, path, text, version, deleted] by id
  version,    \* document_versions: [text, via, url] by <<id, number>>
  call,       \* what each request is doing
  upload,     \* the upload URLs handed out
  download,   \* the download URLs handed out
  clock

docVars == <<doc, version, call, upload, download, clock>>

Rows     == DOMAIN doc
KeyOf(d) == <<doc[d].place, doc[d].path>>

Idle == [pc |-> "idle", op |-> "none", key |-> <<Global, "">>, to |-> "", text |-> <<>>,
         expected |-> Unstated, via |-> Web, url |-> NoUrl, found |-> NoDoc, locks |-> {},
         version |-> 0, old |-> <<>>, renamed |-> {}, dropped |-> {}]

-----------------------------------------------------------------------------
(* Queries. *)

GetDocumentByPathForUpdate(k) == {d \in Rows : KeyOf(d) = k}

GetDocumentForAppend(k) == {d \in Rows : KeyOf(d) = k /\ ~ doc[d].deleted}
GetDocumentForMove(k)   == {d \in Rows : KeyOf(d) = k /\ ~ doc[d].deleted}
GetDocumentForDelete(k) == {d \in Rows : KeyOf(d) = k /\ ~ doc[d].deleted}

\* Whoever holds a path, deleted or not.
GetDocumentPathHolder(k) == {d \in Rows : KeyOf(d) = k}

Anything(d) == TRUE          \* mutant: deleted documents are listed too
Live(d)     == ~ doc[d].deleted

ReadDocument(k) ==
  {[id |-> d, version |-> doc[d].version, text |-> doc[d].text] :
     d \in {x \in Rows : KeyOf(x) = k /\ ~ doc[x].deleted}}

\* The digest stands for the text it is taken of.
StatDocument(k) ==
  {[path |-> k[2], version |-> doc[d].version, sha |-> doc[d].text] :
     d \in {x \in Rows : KeyOf(x) = k /\ ~ doc[x].deleted}}

ListDocuments(place, prefix) ==
  {[path |-> doc[d].path, version |-> doc[d].version] :
     d \in {x \in Rows : doc[x].place = place /\ Live(x) /\ doc[x].path \in prefix}}

SearchDocuments(place, piece) ==
  {[path |-> doc[d].path, version |-> doc[d].version] :
     d \in {x \in Rows : /\ doc[x].place = place /\ ~ doc[x].deleted
                         /\ \E i \in DOMAIN doc[x].text : doc[x].text[i] = piece}}

ListDocumentVersions(d) == {n \in 1..doc[d].version + 1 : <<d, n>> \in DOMAIN version}

GetDocumentVersion(d, n) ==
  IF <<d, n>> \in DOMAIN version THEN {version[<<d, n>>].text} ELSE {}

\* documents_scope_project_id_path_key, read for a row that is about to take
\* key k.  A global document has no project_id, and NULLs are all different.
AnyKey(k, d)    == TRUE      \* mutant: the table has no unique key
KeyIsFree(k, d) == k[1] = Global \/ \A x \in Rows \ {d} : KeyOf(x) # k

InsertDocument(d, k, text) ==
  [x \in Rows \cup {d} |->
     IF x = d THEN [place |-> k[1], path |-> k[2], text |-> text, version |-> 1, deleted |-> FALSE]
     ELSE doc[x]]

UpdateDocument(d, text, n) ==
  [doc EXCEPT ![d].text = text, ![d].version = n, ![d].deleted = FALSE]

MoveDocument(d, path, n) == [doc EXCEPT ![d].path = path, ![d].version = n]

KeepsVersion(d, n)       == [doc EXCEPT ![d].deleted = TRUE]     \* mutant: no version bump
SoftDeleteDocument(d, n) == [doc EXCEPT ![d].version = n, ![d].deleted = TRUE]

InsertDocumentVersion(d, n, text, c) ==
  [x \in DOMAIN version \cup {<<d, n>>} |->
     IF x = <<d, n>> THEN [text |-> text, via |-> c.via, url |-> c.url] ELSE version[x]]

-----------------------------------------------------------------------------
(* Calls into the package. *)

Init ==
  /\ doc = [d \in {} |-> NoDoc]
  /\ version = [x \in {} |-> NoDoc]
  /\ call = [p \in Proc |-> Idle]
  /\ upload = {}
  /\ download = {}
  /\ clock = 0
  /\ link = {}

Begin(p, op, place, path, to, text, expected, c, url) ==
  /\ call[p].pc = "idle"
  /\ call' = [call EXCEPT ![p] =
       [pc |-> "find", op |-> op, key |-> <<place, path>>, to |-> to, text |-> text,
        expected |-> expected, via |-> c.via, url |-> url, found |-> NoDoc, locks |-> {},
        version |-> 0, old |-> <<>>, renamed |-> {}, dropped |-> {}]]
  /\ UNCHANGED <<doc, version, upload, download, clock, link>>

\* The call ends, with an error or after its commit.
Return(p) == call' = [call EXCEPT ![p] = Idle]

Keep == UNCHANGED <<doc, version, link>>

LockedBy(d) == {q \in Proc : d \in call[q].locks}
NoWait(p, rows)  == TRUE      \* mutant: SELECT without FOR UPDATE
FreeFor(p, rows) == \A d \in rows : LockedBy(d) \subseteq {p}

VersionMatches(c, d) == c.expected \in {Unstated, doc[d].version}

\* The call found rows under its key (one, where the key is unique): it goes
\* on with the first one if the caller expects that version.
Take(p, rows, locked, next) ==
  \E d \in rows :
    IF VersionMatches(call[p], d)
    THEN call' = [call EXCEPT ![p].pc = next, ![p].found = d, ![p].locks = locked,
                              ![p].version = doc[d].version, ![p].old = doc[d].text]
    ELSE Return(p)

\* Write looks for its row; with none there is no version to replace.
FindForWrite(p) ==
  LET c == call[p]
      rows == GetDocumentByPathForUpdate(c.key) IN
  /\ c.pc = "find" /\ c.op = "write"
  /\ FreeFor(p, rows)
  /\ IF rows # {} THEN Take(p, rows, rows, "finish")
     ELSE IF c.expected \in {Unstated, 0} THEN call' = [call EXCEPT ![p].pc = "finish"]
     ELSE Return(p)
  /\ Keep /\ UNCHANGED <<upload, download, clock>>

\* Append never creates: the row has to be there, and live.
FindToAppend(p) ==
  LET c == call[p]
      rows == GetDocumentForAppend(c.key) IN
  /\ c.pc = "find" /\ c.op = "append"
  /\ FreeFor(p, rows)
  /\ IF rows = {} THEN Return(p) ELSE Take(p, rows, rows, "finish")
  /\ Keep /\ UNCHANGED <<upload, download, clock>>

\* Nor does Move, whose new path must be nobody's, a deleted document's neither.
FindToMove(p) ==
  LET c == call[p]
      rows == GetDocumentForMove(c.key) IN
  /\ c.pc = "find" /\ c.op = "move"
  /\ FreeFor(p, rows)
  /\ IF rows = {} \/ GetDocumentPathHolder(<<c.key[1], c.to>>) # {} THEN Return(p)
     ELSE Take(p, rows, rows, IF c.key[1] = Home THEN "relink" ELSE "finish")
  /\ Keep /\ UNCHANGED <<upload, download, clock>>

\* Delete reads its row without a lock and waits for nobody.
FindToDelete(p) ==
  LET c == call[p]
      rows == GetDocumentForDelete(c.key) IN
  /\ c.pc = "find" /\ c.op = "delete"
  /\ IF rows = {} THEN Return(p) ELSE Take(p, rows, {}, "finish")
  /\ Keep /\ UNCHANGED <<upload, download, clock>>

NextVersionInSQL(c) == IF c.found = NoDoc THEN 1 ELSE doc[c.found].version + 1
                       \* mutant: current_version = current_version + 1
NextVersion(c) == c.version + 1

joinBody(old, new) == old \o new

\* A move that has written its row and not committed has both its old key and
\* its new one in the unique index: whoever wants one of them waits for it.
HasMoved(c)   == c.op = "move" /\ c.key[1] = Home /\ c.pc \in {"unlink", "finish"}
Claims(c)     == {c.key, <<c.key[1], c.to>>}
Unclaimed(ks) == \A q \in Proc : HasMoved(call[q]) => Claims(call[q]) \cap ks = {}

\* The rows written, the call commits.  A key or a version number that is
\* taken fails the statement and rolls the call back.
CreateDocument(p) ==
  LET c == call[p] IN
  /\ c.pc = "finish" /\ c.op = "write" /\ c.found = NoDoc
  /\ Unclaimed({c.key})
  /\ IF KeyIsFree(c.key, NoDoc)
     THEN \E d \in DocId \ Rows :
            /\ doc' = InsertDocument(d, c.key, c.text)
            /\ version' = InsertDocumentVersion(d, 1, c.text, c)
            /\ UNCHANGED link
     ELSE Keep
  /\ Return(p) /\ UNCHANGED <<upload, download, clock>>

Commit(p, row, text, links) ==
  LET c == call[p] IN
  /\ IF <<c.found, NextVersion(c)>> \in DOMAIN version
     THEN Keep
     ELSE /\ doc' = row
          /\ version' = InsertDocumentVersion(c.found, NextVersion(c), text, c)
          /\ link' = links
  /\ Return(p) /\ UNCHANGED <<upload, download, clock>>

\* An UPDATE waits for whoever holds the row.
Finishes(p, op) ==
  /\ call[p].pc = "finish" /\ call[p].op = op /\ call[p].found # NoDoc
  /\ FreeFor(p, {call[p].found})

ReplaceDocument(p) ==
  LET c == call[p] IN
  /\ Finishes(p, "write")
  /\ Commit(p, UpdateDocument(c.found, c.text, NextVersion(c)), c.text, link)

AppendText(p) ==
  LET c == call[p]
      all == joinBody(c.old, c.text) IN
  /\ Finishes(p, "append")
  /\ Commit(p, UpdateDocument(c.found, all, NextVersion(c)), all, link)

DeleteWithParams(p) ==
  LET c == call[p] IN
  /\ Finishes(p, "delete")
  /\ Commit(p, SoftDeleteDocument(c.found, NextVersion(c)), c.old, link)

\* A move writes its row, if the path is still free, and repoints the links of
\* the graph that are there now.
RepathLinks(p) ==
  LET c == call[p] IN
  /\ c.pc = "relink"
  /\ Unclaimed(Claims(c))
  /\ IF KeyIsFree(<<c.key[1], c.to>>, c.found)
     THEN call' = [call EXCEPT ![p].pc = "unlink",
                               ![p].renamed = RepathArchDocLinks(link, c.key[2], c.to)]
     ELSE Return(p)
  /\ Keep /\ UNCHANGED <<upload, download, clock>>

\* Its DELETE has a snapshot of its own: it also takes the links that others
\* have made to the old path since.
DropLinks(p) ==
  LET c == call[p] IN
  /\ c.pc = "unlink"
  /\ call' = [call EXCEPT ![p].pc = "finish",
                           ![p].dropped = DeleteArchDocLinksTo(link \ c.renamed, c.key[2])]
  /\ Keep /\ UNCHANGED <<upload, download, clock>>

\* The links once the move has committed.
LinksFollow(c) == (link \ (c.renamed \cup c.dropped)) \cup {<<l[1], c.to>> : l \in c.renamed}

Move(p) ==
  LET c == call[p] IN
  /\ Finishes(p, "move")
  /\ IF HasMoved(c) \/ KeyIsFree(<<c.key[1], c.to>>, c.found)
     THEN Commit(p, MoveDocument(c.found, c.to, NextVersion(c)), c.old, LinksFollow(c))
     ELSE Keep /\ Return(p) /\ UNCHANGED <<upload, download, clock>>

\* A statement fails or the client goes away: the transaction leaves nothing.
Cancel(p) ==
  /\ call[p].pc # "idle"
  /\ Return(p) /\ Keep /\ UNCHANGED <<upload, download, clock>>

-----------------------------------------------------------------------------
(* Reading, where a request points: a set with the answer, empty for an error. *)

Read(places, path)     == UNION {ReadDocument(<<pl, path>>) : pl \in places}
ReadStat(places, path) == UNION {StatDocument(<<pl, path>>) : pl \in places}
List(places, prefix)   == UNION {ListDocuments(pl, prefix) : pl \in places}
Search(places, piece)  == UNION {SearchDocuments(pl, piece) : pl \in places}
History(found)         == {ListDocumentVersions(a.id) : a \in found}
ReadVersion(found, n)  == UNION {GetDocumentVersion(a.id, n) : a \in found}

-----------------------------------------------------------------------------
(* The MCP tools (internal/mcp/tools_docs.go). *)

HasAccess(c, p) == requireProjectAccess(c, p)

\* Where a request points: the place, or nothing if it is refused.
resolveDocScope(c, r) ==
  IF r.scope = "global" \/ (r.scope = "" /\ r.project = NoProject) THEN {Global}
  ELSE {p \in Project : p = r.project /\ HasAccess(c, p)}

AnyoneWritesGlobal(c, places) == places     \* mutant: no check on global writes

\* Where the caller may also write.
MayWrite(c, places) == {place \in places : place = Global => RequireGlobalWrite(c)}

WriteTool(p, c, r, path, text, v) ==
  /\ c \in Agent
  /\ \E place \in MayWrite(c, resolveDocScope(c, r)) :
       Begin(p, "write", place, path, path, text, v, c, NoUrl)

AppendTool(p, c, r, path, text, v) ==
  /\ c \in Agent
  /\ \E place \in MayWrite(c, resolveDocScope(c, r)) :
       Begin(p, "append", place, path, path, text, v, c, NoUrl)

DeleteTool(p, c, r, path, v) ==
  /\ c \in Agent
  /\ \E place \in MayWrite(c, resolveDocScope(c, r)) :
       Begin(p, "delete", place, path, path, <<>>, v, c, NoUrl)

MoveTool(p, c, r, path, to, v) ==
  /\ c \in Agent /\ to # path
  /\ \E place \in MayWrite(c, resolveDocScope(c, r)) :
       Begin(p, "move", place, path, to, <<>>, v, c, NoUrl)

ReadTool(c, r, path)    == Read(resolveDocScope(c, r), path)
StatTool(c, r, path)    == ReadStat(resolveDocScope(c, r), path)
ListTool(c, r, prefix)  == List(resolveDocScope(c, r), prefix)
SearchTool(c, r, piece) == Search(resolveDocScope(c, r), piece)
HistoryTool(c, r, path) == History(ReadTool(c, r, path))
ReadVersionTool(c, r, path, n) == ReadVersion(ReadTool(c, r, path), n)

-----------------------------------------------------------------------------
(* The web API (internal/web/api_docs.go).  It takes a cookie or a token,  *)
(* and a request without a scope is about a project.                       *)

resolveScope(c, r) ==
  IF r.scope = "global" THEN {Global} ELSE {p \in Project : p = r.project /\ HasAccess(c, p)}

WriteDocHandler(p, c, r, path, text, v) ==
  \E place \in MayWrite(c, resolveScope(c, r)) :
    Begin(p, "write", place, path, path, text, v, c, NoUrl)

DeleteDocHandler(p, c, r, path, v) ==
  \E place \in MayWrite(c, resolveScope(c, r)) :
    Begin(p, "delete", place, path, path, <<>>, v, c, NoUrl)

MoveDocHandler(p, c, r, path, to, v) ==
  /\ to # path
  /\ \E place \in MayWrite(c, resolveScope(c, r)) :
       Begin(p, "move", place, path, to, <<>>, v, c, NoUrl)

ReadDocHandler(c, r, path)     == Read(resolveScope(c, r), path)
ListDocsHandler(c, r, prefix)  == List(resolveScope(c, r), prefix)
SearchDocsHandler(c, r, piece) == Search(resolveScope(c, r), piece)
HistoryDocHandler(c, r, path)  == History(ReadDocHandler(c, r, path))
ReadDocVersionHandler(c, r, path, n) == ReadVersion(ReadDocHandler(c, r, path), n)

-----------------------------------------------------------------------------
(* Signed URLs. *)

\* Nobody can make or change a URL that the server did not sign; what is left
\* of verifying one is that it was handed out and has not expired.
VerifyUpload(g)   == g \in upload /\ clock <= g.exp
VerifyDownload(g) == g \in download /\ clock <= g.exp

SignUpload(c, p, path, v, text) ==
  [project |-> p, path |-> path, expected |-> v, text |-> text, by |-> c, exp |-> clock + UploadTTL]

SignDownload(c, p, path, n) ==
  [project |-> p, path |-> path, version |-> n, by |-> c, exp |-> clock + UploadTTL]

\* docs.upload_url refuses a version that is stale by now.
UploadURLTool(c, p, path, v, text) ==
  /\ c \in Agent /\ requireProjectAccess(c, p)
  /\ v >= 0
  /\ \A a \in StatDocument(<<p, path>>) : a.version = v
  /\ upload' = upload \cup {SignUpload(c, p, path, v, text)}
  /\ UNCHANGED <<doc, version, call, download, clock, link>>

DownloadURLTool(c, p, path) ==
  /\ c \in Agent /\ requireProjectAccess(c, p)
  /\ \E a \in StatDocument(<<p, path>>) : download' = download \cup {SignDownload(c, p, path, a.version)}
  /\ UNCHANGED <<doc, version, call, upload, clock, link>>

\* The token and its user are looked at again when the URL is used.
checkSignedCaller(g) == requireProjectAccess(g.by, g.project)

UploadDocHandler(p, g) ==
  /\ VerifyUpload(g)
  /\ checkSignedCaller(g)
  /\ Begin(p, "write", g.project, g.path, g.path, g.text, g.expected, g.by, g)

DownloadDocHandler(g) ==
  IF ~ VerifyDownload(g) \/ ~ checkSignedCaller(g) THEN {}
  ELSE UNION {IF a.version = g.version THEN {a.text} ELSE GetDocumentVersion(a.id, g.version) :
                a \in ReadDocument(<<g.project, g.path>>)}

Tick == clock' = clock + 1 /\ UNCHANGED <<doc, version, call, upload, download, link>>

-----------------------------------------------------------------------------
Texts == {<<x>> : x \in Piece}
Versions == {Unstated} \cup {doc[d].version : d \in Rows} \cup {0}

WriteSome(p, c, r) == \E path \in Path, text \in Texts, v \in Versions :
  WriteTool(p, c, r, path, text, v) \/ WriteDocHandler(p, c, r, path, text, v)

AppendSome(p, c, r) == \E path \in Path, text \in Texts, v \in Versions :
  AppendTool(p, c, r, path, text, v)

DeleteSome(p, c, r) == \E path \in Path, v \in Versions :
  DeleteTool(p, c, r, path, v) \/ DeleteDocHandler(p, c, r, path, v)

MoveSome(p, c, r) == \E path, to \in Path, v \in Versions :
  MoveTool(p, c, r, path, to, v) \/ MoveDocHandler(p, c, r, path, to, v)

CallSome(p) ==
  /\ call[p].pc = "idle"
  /\ \E c \in Caller, r \in Request :
       WriteSome(p, c, r) \/ AppendSome(p, c, r) \/ DeleteSome(p, c, r) \/ MoveSome(p, c, r)

FindSome(p) ==
  \/ FindForWrite(p)
  \/ FindToAppend(p)
  \/ FindToMove(p)
  \/ FindToDelete(p)

FinishSome(p) ==
  \/ CreateDocument(p) \/ ReplaceDocument(p) \/ AppendText(p)
  \/ DeleteWithParams(p) \/ RepathLinks(p) \/ DropLinks(p) \/ Move(p)

SignSome ==
  \E c \in Caller, p \in Project, path \in Path :
    \/ \E text \in Texts, v \in Versions : UploadURLTool(c, p, path, v, text)
    \/ DownloadURLTool(c, p, path)

DocsNext ==
  \/ \E p \in Proc : CallSome(p) \/ FindSome(p) \/ FinishSome(p) \/ Cancel(p)
  \/ \E p \in Proc, g \in upload : UploadDocHandler(p, g)
  \/ SignSome
  \/ Tick

DocsSpec == Init /\ [][DocsNext]_<<docVars, link>>

-----------------------------------------------------------------------------
(* Properties. *)

Entry == [text : Seq(Piece), via : Project \cup {Web}, url : upload \cup {NoUrl}]

\* Rows, versions and calls are well formed; a row is locked by one call.
DocsTypeOK ==
  /\ Rows \subseteq DocId
  /\ \A d \in Rows : KeyOf(d) \in Place \X Path /\ doc[d].version \in Nat \ {0}
  /\ \A x \in DOMAIN version : x[1] \in Rows /\ version[x] \in Entry
  /\ \A p \in Proc : call[p].locks \subseteq Rows /\ call[p].pc \in {"idle", "find", "relink", "unlink", "finish"}
  /\ \A p, q \in Proc : p # q => call[p].locks \cap call[q].locks = {}

\* A path of a project never holds two documents, live or deleted, however
\* writes, moves, deletes and restores meet.
OneProjectDocPerPath ==
  \A d, e \in Rows : KeyOf(d) = KeyOf(e) => d = e \/ doc[d].place = Global

\* A write or append that holds its row never meets a version number that is
\* taken: the unique key that Write falls back on is never what stops it.
LockedWritersCommit ==
  \A p \in Proc : call[p].locks # {} => <<call[p].found, NextVersion(call[p])>> \notin DOMAIN version

\* No lost update: a call that named a version changes a document only while
\* it is at that version, or creates it if there was none.
NoLostUpdate ==
  [][\A p \in Proc, d \in DocId :
       (/\ call[p].pc = "finish" /\ call'[p].pc = "idle" /\ call[p].expected # Unstated
        /\ d \in DOMAIN doc' /\ (d \in Rows => doc'[d].version # doc[d].version))
         => call[p].expected = IF d \in Rows THEN doc[d].version ELSE 0]_<<docVars, link>>

\* What a token wrote is in its own project: not in another one, and not in
\* the global documents every project's agents are given.
TokenWritesStayHome ==
  \A x \in DOMAIN version : version[x].via \in {Web, doc[x[1]].place}

\* The ways to read a document agree, for every caller and from either side:
\* the list shows what can be opened, the fingerprint is that of the text, the
\* history runs from 1 to the version shown, and that version reads the same.
\* A download URL gives what read_version gives.
ReadersAgree ==
  /\ \A g \in download : DownloadDocHandler(g) \subseteq
       ReadVersionTool(g.by, [scope |-> "project", project |-> g.project], g.path, g.version)
  /\ \A c \in Agent, p \in Project, path \in Path :
    LET r       == [scope |-> "project", project |-> p]
        read    == ReadTool(c, r, path)
        listed  == ListTool(c, r, {path})
        history == HistoryTool(c, r, path) IN
    /\ listed = {[path |-> path, version |-> a.version] : a \in read}
    /\ read = ReadDocHandler(c, r, path) /\ listed = ListDocsHandler(c, r, {path})
    /\ history = HistoryDocHandler(c, r, path)
    /\ \A x \in Piece : SearchTool(c, r, x) = SearchDocsHandler(c, r, x)
    /\ \A a \in read :
         /\ \E s \in StatTool(c, r, path) : s.version = a.version /\ s.sha = a.text
         /\ history = {1..a.version}
         /\ ReadVersionTool(c, r, path, a.version) = {a.text}
         /\ ReadDocVersionHandler(c, r, path, a.version) = {a.text}

\* The documents implement their abstract log.
Log == INSTANCE DocumentLog WITH
  log   <- [x \in DOMAIN version |-> version[x].text],
  size  <- [d \in Rows |-> doc[d].version],
  shown <- [d \in Rows |-> doc[d].text]

ImplementsLog == Log!LogSpec

\* Of a path, live or deleted, there is one document, wherever it is.
OneDocPerPath == \A d, e \in Rows : KeyOf(d) = KeyOf(e) => d = e

\* A signed upload URL writes at most once.
UploadURLWritesOnce ==
  \A x, y \in DOMAIN version : version[x].url # NoUrl /\ version[x].url = version[y].url => x = y
=============================================================================
