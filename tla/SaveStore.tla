----------------------------- MODULE SaveStore -----------------------------
(***************************************************************************)
(* The revisions of the save streams and the calls of PushSet that append  *)
(* to them.                                                                *)
(*                                                                         *)
(* internal/catalog opens SQLite with one connection, so a statement or a  *)
(* transaction is one atomic step here.  PushSet (internal/saves) is NOT   *)
(* one transaction: it reads the current revision, may look for an older   *)
(* revision with the same content, and appends in a transaction of its     *)
(* own.  Each of these is a step, and calls of several requests interleave *)
(* between them.                                                           *)
(*                                                                         *)
(* A revision id is its position in `revisions', the order of insertion.   *)
(* A content hash is a member of Hashes: contents are told apart and       *)
(* nothing else.  A stream that has no row yet and one without revisions   *)
(* answer every query here alike (ResolveSaveStream,                       *)
(* CurrentStreamRevision: no rows), so streams are a constant set.         *)
(***************************************************************************)
EXTENDS Naturals, Sequences

CONSTANTS Streams,       \* save stream ids
          Devices,       \* device ids
          Hashes,        \* content hashes of complete save sets
          NoHash,        \* the empty content hash
          Handlers,      \* requests the server works on at a time
          MaxRevisions   \* bound: revisions appended over a behaviour

ASSUME SaveStoreAssumption ==
  /\ NoHash \notin Hashes
  /\ MaxRevisions \in Nat

VARIABLES revisions,     \* save_revisions, oldest first
          push           \* push[h]: the PushSet call of request h

storeVars == <<revisions, push>>

-----------------------------------------------------------------------------
(* Tables and queries *)

NoRevision == 0          \* the empty revision id

RevisionStatus == {"current", "superseded", "conflict"}

Revision == [stream : Streams, device : Devices, parent : Nat,
             hash : Hashes, status : RevisionStatus]

IsNewestOf(i, S) == i \in S /\ \A j \in S : j <= i

\* The first row of a query ORDER BY created_at DESC,id DESC, or no row.
Newest(S) == IF S = {} THEN NoRevision ELSE CHOOSE i \in S : IsNewestOf(i, S)

StreamRevisions(s) == {i \in DOMAIN revisions : revisions[i].stream = s}

CurrentStreamRevision(s) ==
  Newest({i \in StreamRevisions(s) : revisions[i].status = "current"})

FindRevisionByContentHash(s, hash) ==   \* mutant: of any stream
  {i \in DOMAIN revisions : revisions[i].hash = hash}

\* The rows its query may return.  It asks for the first by created_at, a text
\* that drops trailing zeros of the fraction and follows the system's clock:
\* that need not be the last inserted.  CurrentStreamRevision asks the same
\* way, but of at most one row (CurrentIsNewestPublished).
FindStreamRevisionByContentHash(s, hash) ==
  {i \in StreamRevisions(s) : revisions[i].hash = hash}

Exists(base, s) == base \in DOMAIN revisions   \* mutant: of any stream

\* GetSaveRevision(base) succeeds and the revision belongs to the stream.
BelongsTo(base, s) == base \in StreamRevisions(s)

\* Mutants of WithRevision, in which the UPDATE sets another status or hits
\* other rows.
Mutated(Hits(_), retired, s, d, base, hash, conflict) ==
  Append([i \in DOMAIN revisions |->
            IF Hits(revisions[i]) THEN [revisions[i] EXCEPT !.status = retired]
                                  ELSE revisions[i]],
         [stream |-> s, device |-> d, parent |-> base, hash |-> hash,
          status |-> IF conflict THEN "conflict" ELSE "current"])

WithConflictSuperseding(s, d, base, hash, conflict) ==
  Mutated(LAMBDA r : r.stream = s /\ r.status = "current",
          "superseded", s, d, base, hash, conflict)

WithConflictsSuperseded(s, d, base, hash, conflict) ==
  Mutated(LAMBDA r : ~conflict /\ r.stream = s,
          "superseded", s, d, base, hash, conflict)

WithAllStreamsSuperseded(s, d, base, hash, conflict) ==
  Mutated(LAMBDA r : ~conflict /\ r.status = "current",
          "superseded", s, d, base, hash, conflict)

\* The transaction of AddSaveRevision: a new current revision supersedes the
\* one there is, a conflict leaves it alone.
WithRevision(s, d, base, hash, conflict) ==
  LET status == IF conflict THEN "conflict" ELSE "current"
      Superseded(r) == ~conflict /\ r.stream = s /\ r.status = "current"
  IN  Append([i \in DOMAIN revisions |->
                IF Superseded(revisions[i])
                  THEN [revisions[i] EXCEPT !.status = "superseded"]
                  ELSE revisions[i]],
             [stream |-> s, device |-> d, parent |-> base,
              hash |-> hash, status |-> status])

-----------------------------------------------------------------------------
(* A call of PushSet and its steps *)

PushPC == {"idle",    \* no call
           "read",    \* staged and hashed, about to read the current revision
           "find",    \* diverged from it, about to look for the same content
           "add",     \* about to append
           "done",    \* returned a result
           "error"}   \* returned an error

NoPush == [pc |-> "idle"]

PushCall == [pc : PushPC \ {"idle"}, stream : Streams, device : Devices,
             base : Nat, hash : Hashes, latest : Nat, result : Nat,
             conflict : BOOLEAN]

PushReturns(h, result, conflict) ==
  push' = [push EXCEPT ![h].pc = "done", ![h].result = result,
                       ![h].conflict = conflict]

\* The upload has been staged and hashed; no table is touched yet.
PushSet(h, s, d, base, hash) ==
  push' = [push EXCEPT ![h] =
             [pc |-> "read", stream |-> s, device |-> d, base |-> base,
              hash |-> hash, latest |-> NoRevision, result |-> NoRevision,
              conflict |-> FALSE]]

\* ResolveSaveStream, the check of the base revision and
\* CurrentStreamRevision.  A revision never leaves its stream, so reading the
\* base together with the current revision loses no interleaving.
PushReadCurrent(h) ==
  LET p == push[h]
      latest == CurrentStreamRevision(p.stream)
      baseKnown == p.base = NoRevision \/ BelongsTo(p.base, p.stream)
      stored == latest # NoRevision /\ revisions[latest].hash = p.hash
      diverged == latest # NoRevision /\ p.base # latest
  IN  /\ p.pc = "read"
      /\ \/ /\ ~baseKnown
            /\ push' = [push EXCEPT ![h].pc = "error"]
         \/ /\ baseKnown /\ stored
            /\ PushReturns(h, latest, FALSE)
         \/ /\ baseKnown /\ ~stored
            /\ push' = [push EXCEPT
                          ![h].pc = IF diverged THEN "find" ELSE "add",
                          ![h].latest = latest,
                          ![h].conflict = diverged]
      /\ UNCHANGED revisions

\* A diverged upload whose content the stream already holds appends nothing.
PushFindExisting(h) ==
  LET p == push[h]
      found == FindStreamRevisionByContentHash(p.stream, p.hash)
  IN  /\ p.pc = "find"
      /\ \/ /\ found = {}
            /\ push' = [push EXCEPT ![h].pc = "add"]
         \/ \E existing \in found :
              PushReturns(h, existing, revisions[existing].status = "conflict")
      /\ UNCHANGED revisions

AddCurrentRevision(h) ==   \* mutant: the divergence is forgotten
  LET p == push[h]
  IN  /\ p.pc = "add"
      /\ Len(revisions) < MaxRevisions
      /\ revisions' = WithRevision(p.stream, p.device, p.base, p.hash, FALSE)
      /\ PushReturns(h, Len(revisions) + 1, FALSE)

AddSaveRevision(h) ==
  LET p == push[h]
  IN  /\ p.pc = "add"
      /\ Len(revisions) < MaxRevisions
      /\ revisions' = WithRevision(p.stream, p.device, p.base, p.hash, p.conflict)
      /\ PushReturns(h, Len(revisions) + 1, p.conflict)

PushStep(h) == PushReadCurrent(h) \/ PushFindExisting(h) \/ AddSaveRevision(h)

-----------------------------------------------------------------------------
(* The store on its own: any device pushes any content on any base, as the *)
(* routes that upload outside a sync session let it.                       *)

TypeOK ==
  /\ revisions \in Seq(Revision)
  /\ push \in [Handlers -> PushCall \cup {NoPush}]

Init ==
  /\ revisions = <<>>
  /\ push = [h \in Handlers |-> NoPush]

\* uploadStreamRevision, uploadSaveRevision
UploadRevision(h) ==
  /\ push[h].pc = "idle"
  /\ \E s \in Streams, d \in Devices, hash \in Hashes,
        base \in {NoRevision} \cup DOMAIN revisions :
        PushSet(h, s, d, base, hash)
  /\ UNCHANGED revisions

\* The response is written, or the request ends early: the client went away
\* and its context was cancelled, or the server stopped.
RequestEnds(h) ==
  /\ push[h].pc # "idle"
  /\ push' = [push EXCEPT ![h] = NoPush]
  /\ UNCHANGED revisions

Next == \E h \in Handlers : UploadRevision(h) \/ PushStep(h) \/ RequestEnds(h)

Spec == Init /\ [][Next]_storeVars

-----------------------------------------------------------------------------
(* The abstract specification: the status column and the rows superseded   *)
(* by each transaction implement one head per stream.                      *)

HistoryLog ==
  [i \in DOMAIN revisions |->
     [stream |-> revisions[i].stream, hash |-> revisions[i].hash,
      kind |-> IF revisions[i].status = "conflict" THEN "preserved" ELSE "published"]]

HistoryHead == [s \in Streams |-> CurrentStreamRevision(s)]

History == INSTANCE SaveHistory WITH log <- HistoryLog, head <- HistoryHead

\* The store implements SaveHistory: each step appends one accepted save and
\* moves at most the head of its stream, to that save, or changes nothing a
\* client can see.
ImplementsHistory == History!Spec

-----------------------------------------------------------------------------
(* Properties *)

\* The revisions that were current when they were appended.
Published(s) == {i \in StreamRevisions(s) : revisions[i].status # "conflict"}

\* Every stream that has a revision has exactly one current revision, and it
\* is the newest of those that were ever published as current: conflicts
\* preserved beside it never take its place, whatever the interleaving of the
\* reads of one PushSet and the transactions of others.
CurrentIsNewestPublished ==
  \A s \in Streams :
    StreamRevisions(s) # {} =>
      \E i \in Published(s) :
         /\ IsNewestOf(i, Published(s))
         /\ \A j \in Published(s) : revisions[j].status = "current" <=> j = i

\* A revision descends from an older revision of its own stream, or from
\* none: PushSet refuses a base of another stream, and what AddSaveRevision
\* stores as parent_revision_id is that base.
ParentIsOlderInStream ==
  \A i \in DOMAIN revisions :
    LET parent == revisions[i].parent
    IN  parent # NoRevision =>
          parent < i /\ revisions[parent].stream = revisions[i].stream

\* Revisions are append-only: a step drops none, changes nothing of one but
\* its status, and a status changes only from current to superseded.
AppendOnly ==
  [][\A i \in DOMAIN revisions :
        /\ i \in DOMAIN revisions'
        /\ revisions'[i] # revisions[i] =>
             /\ revisions[i].status = "current"
             /\ revisions'[i] = [revisions[i] EXCEPT !.status = "superseded"]
    ]_revisions

\* What PushSet returns is the pushed content, stored in the stream pushed
\* to; and a conflict is reported exactly when the returned revision is kept
\* beside the line of current revisions.
ResultHoldsContent ==
  \A h \in Handlers :
    LET p == push[h]
    IN  p.pc = "done" =>
          /\ p.result \in StreamRevisions(p.stream)
          /\ revisions[p.result].hash = p.hash
          /\ p.conflict <=> revisions[p.result].status = "conflict"

\* What PushSet finds out about the current revision, it keeps to: a push that
\* becomes current while the revision it read still is descends from that one.
\* Only a transaction of another push in between takes this away from it.
SupersedesWhatItRead ==
  [][\A h \in Handlers :
       LET p == push[h]
       IN  \A i \in DOMAIN revisions' \ DOMAIN revisions :
             /\ p.pc = "add" /\ push'[h].pc = "done"
             /\ p.latest = CurrentStreamRevision(p.stream)
             /\ revisions'[i].status = "current"
             => revisions'[i].parent = p.latest]_storeVars

\* "If the current server revision advances after negotiation, a subsequent
\* upload MUST fail as a conflict; it MUST NOT overwrite the newer revision."
\* (docs/DEVICE_SYNC_PROTOCOL.md): a revision that was published as current
\* descends from the revision published before it, so no push supersedes a
\* revision its author had not seen.
PublishedRevisionsChain ==
  \A s \in Streams : \A i \in Published(s) :
    revisions[i].parent = Newest({j \in Published(s) : j < i})
=============================================================================
