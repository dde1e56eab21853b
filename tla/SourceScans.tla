---------------------------- MODULE SourceScans ----------------------------
(* The sources of the library, their scans, and the imports that scans lead    *)
(* to (server/sources.go, server/import_tokens.go, scanner/scanner.go,         *)
(* catalog/source_store.go, catalog/import_store.go).  A source is a directory *)
(* of ROMs and an entry one file.  What a source shows of its last scan is     *)
(* left out: nothing reads it.                                                 *)
EXTENDS Naturals, Sequences, SequencesExt

CONSTANTS Sources, Scans,  \* ids
          SourceRows,      \* what a source may hold
          Below,           \* the files below each root, in their order
          Contents,        \* of files
          Gone,            \* no content, no source, no preview
          Callers,         \* requests at a time
          MaxChanges       \* bound on what happens around the requests

VARIABLES files,     \* in the library's directories
          adapter,   \* the source adapter is enabled
          sources,   \* library_sources
          scans,     \* source_scans, each with the preview its token digest is of
          artifacts, \* the files of editions, by where they came from
          boot,      \* the process, by its key for previews
          calls,     \* requests under way
          imported,  \* history: what each scan has led to
          changes    \* changes around the requests so far
scanVars == <<files, adapter, sources, scans, artifacts, boot, calls, imported, changes>>

Paths == UNION {ToSet(Below[root]) : root \in DOMAIN Below}
NoCall == [op |-> "none"]
NoScan == [status |-> "none"]
ASSUME ScansAssumption ==
  /\ Gone \notin Contents /\ MaxChanges \in Nat
  /\ SourceRows \subseteq [root : DOMAIN Below, storage : {"reference", "copy"}, enabled : BOOLEAN]

GoesOn(c, call) ==
  /\ calls' = [calls EXCEPT ![c] = call]
  /\ UNCHANGED <<files, adapter, sources, scans, artifacts, boot, imported, changes>>

-----------------------------------------------------------------------------
(* Looking at a source, for a scan or for its commit                           *)

ValidateSourceAdapterForScan(c) ==
  LET call == calls[c] IN
  /\ call.op # "none" /\ call.step = "adapter"
  /\ GoesOn(c, [call EXCEPT !.step = IF adapter THEN "walk" ELSE "finish",
                             !.outcome = "failed"])

Walk(c) ==
  LET call == calls[c] IN
  /\ call.op # "none" /\ call.step = "walk"
  /\ GoesOn(c, [call EXCEPT !.step = "look",
                             !.todo = SelectSeq(Below[call.row.root],
                                                LAMBDA p : files[p] # Gone)])

Candidate(p) ==
  [path |-> p, content |-> files[p],
   status |-> IF \E a \in artifacts : a.source = p \/ a.content = files[p] THEN "duplicate"
              ELSE IF files[p] = Gone THEN "missing" ELSE "new"]

(* A file is hashed and looked up; it may be gone since the walk.              *)
Look(c) ==
  LET call == calls[c] IN
  /\ call.op # "none" /\ call.step = "look" /\ call.todo # <<>>
  /\ GoesOn(c, [call EXCEPT !.todo = Tail(@),
                             !.candidates = Append(@, Candidate(Head(call.todo)))])

(* What sealImportPreview signs.                                               *)
Preview(call) == [boot |-> boot, root |-> call.row.root, storage |-> call.row.storage,
                  candidates |-> call.candidates]

-----------------------------------------------------------------------------
(* createSourceScan                                                            *)

AskScan(op, s, row, step) ==
  [op |-> op, step |-> step, source |-> s, row |-> row, todo |-> <<>>, candidates |-> <<>>,
   scan |-> Gone, token |-> Gone, chosen |-> {}, rows |-> {}, outcome |-> "ready"]

BeginSourceScan(c, s) ==
  /\ calls[c] = NoCall
  /\ sources[s] # Gone /\ sources[s].enabled
  /\ GoesOn(c, AskScan("scan", s, sources[s], "adapter"))

(* A scan of a source deleted since is a reference to nothing.                 *)
CreateSourceScan(c, n) ==
  LET call == calls[c]
      ready == call.step = "look" /\ call.todo = <<>>
  IN
  /\ call.op = "scan" /\ (ready \/ call.step = "finish")
  /\ scans[n] = NoScan
  /\ scans' = IF sources[call.source] = Gone THEN scans
              ELSE [scans EXCEPT ![n] =
                      [source |-> call.source, expired |-> FALSE,
                       status |-> IF ready THEN "ready" ELSE "failed",
                       preview |-> IF ready THEN Preview(call) ELSE Gone]]
  /\ calls' = [calls EXCEPT ![c] = NoCall]
  /\ UNCHANGED <<files, adapter, sources, artifacts, boot, imported, changes>>

-----------------------------------------------------------------------------
(* commitSourceScan: the source is looked at again and must look the same.     *)

GetSourceScan(c, n, token, chosen) ==
  LET scan == scans[n] IN
  /\ calls[c] = NoCall
  /\ scan.status = "ready"
  /\ LET stale == scan.expired \/ scan.preview # token
     IN  GoesOn(c, [AskScan("commit", scan.source, Gone, IF stale THEN "finish" ELSE "source")
                       EXCEPT !.scan = n, !.token = token, !.chosen = chosen,
                              !.outcome = "stale"])

GetLibrarySource(c) ==
  LET call == calls[c] IN
  /\ call.op = "commit" /\ call.step = "source"
  /\ GoesOn(c, [call EXCEPT !.step = "adapter", !.row = sources[call.source]])

Selected(call) == {p \in call.chosen : p \in ToSet(call.candidates)}
SameSource(call) ==     \* mutant of SamePreview
  Preview(call).root = call.token.root
SamePreview(call) == Preview(call) = call.token

VerifyImportSelection(c) ==
  LET call == calls[c] IN
  /\ call.op = "commit" /\ call.step = "look" /\ call.todo = <<>>
  /\ GoesOn(c, [call EXCEPT
       !.todo = call.candidates,
       !.step = IF SamePreview(call) /\ \A p \in Selected(call) : p.status = "new"
                THEN "ingest" ELSE "finish",
       !.outcome = IF SamePreview(call) THEN "failed" ELSE "stale"])

(* What was not selected is passed over.  A copy is hashed again as it is      *)
(* made, a reference is what was looked at.                                    *)
IngestGame(c) ==
  LET call == calls[c]
      p == Head(call.todo)
      content == IF call.row.storage = "copy" THEN files[p.path] ELSE p.content
  IN
  /\ call.op = "commit" /\ call.step = "ingest" /\ call.todo # <<>>
  /\ GoesOn(c, IF p \notin Selected(call) THEN [call EXCEPT !.todo = Tail(@)]
                ELSE IF content = Gone THEN [call EXCEPT !.step = "finish"]
                ELSE [call EXCEPT !.todo = Tail(@),
                                  !.rows = @ \cup {[source |-> p.path, content |-> content]}])

NoneKnown(rows) ==   \* mutant of NoneImportedYet
  \A r \in rows, a \in artifacts : r.source # a.source /\ r.content # a.content
NoneImportedYet(rows) ==
  /\ NoneKnown(rows)
  /\ \A r, q \in rows : r.content = q.content => r = q

(* One transaction: a file that is known by now, or comes twice, ends it all.  *)
ImportGamesAtomic(c) ==
  LET call == calls[c] IN
  /\ call.op = "commit" /\ call.step = "ingest" /\ call.todo = <<>>
  /\ LET succeeds == call.rows # {} /\ NoneImportedYet(call.rows) IN
     /\ artifacts' = IF succeeds THEN artifacts \cup call.rows ELSE artifacts
     /\ imported' = IF succeeds THEN [imported EXCEPT ![call.scan] = @ \cup call.rows]
                    ELSE imported
     /\ calls' = [calls EXCEPT ![c] = [call EXCEPT !.step = "finish",
                    !.outcome = IF succeeds THEN "committed" ELSE "failed"]]
  /\ UNCHANGED <<files, adapter, sources, scans, boot, changes>>

(* Whatever became of the scan meanwhile.                                      *)
UpdateSourceScanStatus(c) ==
  LET call == calls[c] IN
  /\ call.op = "commit" /\ call.step = "finish"
  /\ scans' = [scans EXCEPT ![call.scan].status = call.outcome]
  /\ calls' = [calls EXCEPT ![c] = NoCall]
  /\ UNCHANGED <<files, adapter, sources, artifacts, boot, imported, changes>>

-----------------------------------------------------------------------------
(* Around the requests.  Saving and deleting a source check first what the     *)
(* statement that follows cannot tell apart: a source saved just before its    *)
(* adapter was disabled, a scan that came just before the deletion.            *)

Change == changes < MaxChanges /\ changes' = changes + 1

SaveLibrarySource(s, row) ==
  /\ Change /\ adapter
  /\ \A other \in Sources \ {s} : sources[other] # Gone => sources[other].root # row.root
  /\ sources' = [sources EXCEPT ![s] = row]
  /\ UNCHANGED <<files, adapter, scans, artifacts, boot, calls, imported>>

DeleteLibrarySource(s) ==
  /\ Change /\ sources[s] # Gone
  /\ \A n \in Scans : scans[n] # NoScan => scans[n].source # s
  /\ sources' = [sources EXCEPT ![s] = Gone]
  /\ UNCHANGED <<files, adapter, scans, artifacts, boot, calls, imported>>

SetSourceAdapter ==
  /\ Change /\ adapter' = ~adapter
  /\ UNCHANGED <<files, sources, scans, artifacts, boot, calls, imported>>

WriteFile(p, content) ==
  /\ Change /\ files' = [files EXCEPT ![p] = content]
  /\ UNCHANGED <<adapter, sources, scans, artifacts, boot, calls, imported>>

DeleteArtifact(a) ==
  /\ Change /\ artifacts' = artifacts \ {a}
  /\ UNCHANGED <<files, adapter, sources, scans, boot, calls, imported>>

ScanExpires(n) ==
  /\ scans[n].status = "ready" /\ ~scans[n].expired
  /\ scans' = [scans EXCEPT ![n].expired = TRUE]
  /\ UNCHANGED <<files, adapter, sources, artifacts, boot, calls, imported, changes>>

(* The key of the previews is of the process.                                  *)
Restart ==
  /\ Change /\ boot' = boot + 1
  /\ calls' = [c \in Callers |-> NoCall]
  /\ UNCHANGED <<files, adapter, sources, scans, artifacts, imported>>

ScansInit ==
  /\ files \in [Paths -> Contents \cup {Gone}]
  /\ adapter = TRUE
  /\ sources \in [Sources -> SourceRows \cup {Gone}]
  /\ \A s, t \in Sources : s # t /\ sources[s] # Gone /\ sources[t] # Gone =>
                             sources[s].root # sources[t].root
  /\ scans = [n \in Scans |-> NoScan]
  /\ artifacts = {}
  /\ boot = 0
  /\ calls = [c \in Callers |-> NoCall]
  /\ imported = [n \in Scans |-> {}]
  /\ changes = 0

Tokens == {scans[n].preview : n \in {m \in Scans : scans[m] # NoScan}} \ {Gone}

ScansNext ==
  \/ \E c \in Callers :
       \/ \E s \in Sources : BeginSourceScan(c, s)
       \/ ValidateSourceAdapterForScan(c) \/ Walk(c)
       \/ Look(c) \/ IngestGame(c)
       \/ \E n \in Scans : CreateSourceScan(c, n)
       \/ \E n \in Scans, token \in Tokens : \E chosen \in SUBSET ToSet(token.candidates) :
            GetSourceScan(c, n, token, chosen)
       \/ \E n \in Scans : GetSourceScan(c, n, Gone, {})
       \/ GetLibrarySource(c) \/ VerifyImportSelection(c)
       \/ ImportGamesAtomic(c) \/ UpdateSourceScanStatus(c)
  \/ \E s \in Sources : DeleteLibrarySource(s) \/ \E row \in SourceRows : SaveLibrarySource(s, row)
  \/ SetSourceAdapter \/ Restart
  \/ \E p \in Paths, content \in Contents \cup {Gone} : WriteFile(p, content)
  \/ \E a \in artifacts : DeleteArtifact(a)
  \/ \E n \in Scans : ScanExpires(n)

ScansSpec == ScansInit /\ [][ScansNext]_scanVars

-----------------------------------------------------------------------------
(* Whatever changes around a commit, and whoever commits the same scan, what a *)
(* scan leads to was shown as new by the preview of that scan, signed by this  *)
(* process; a file that is referenced has the content that was shown; and      *)
(* nothing the library has comes again (commitSourceScan; docs/STORAGE.md: a   *)
(* commit scans again, and any drift ends the whole batch).                    *)
ImportsWhatWasPreviewed ==
  [][\A n \in Scans : \A r \in imported'[n] \ imported[n] :
       LET preview == scans[n].preview IN
       /\ preview.boot = boot
       /\ \E p \in ToSet(preview.candidates) :
            /\ p.path = r.source /\ p.status = "new"
            /\ preview.storage = "reference" => p.content = r.content
       /\ \A a \in artifacts : a.source # r.source /\ a.content # r.content
       /\ \A a \in artifacts' : a.content = r.content => a = r]_scanVars
=============================================================================
