----------------------------- MODULE SyncServer -----------------------------
(***************************************************************************)
(* Sync sessions on top of the save store: negotiation of a plan, its      *)
(* idempotent creation, and the uploads and acknowledgements that carry it *)
(* out (internal/server/sync_api.go, internal/catalog/                     *)
(* sync_session_store.go).                                                 *)
(*                                                                         *)
(* A handler is a sequence of statements and transactions, each one atomic *)
(* step (see SaveStore); `call' holds the locals of every request between  *)
(* them.  A request may end between any two of its steps: its context is   *)
(* cancelled when the client goes away or the server stops, and what it    *)
(* has stored stays.                                                       *)
(*                                                                         *)
(* Authentication, revocation and the attestation of streams are decided   *)
(* before the steps below and refuse a request whole; they are not here.   *)
(* An operation's id is its session and stream: a plan holds one operation *)
(* per stream of the request.                                              *)
(***************************************************************************)
EXTENDS SaveStore, FiniteSets

CONSTANTS Keys,          \* idempotency keys
          MaxSessions    \* bound: sessions inserted over a behaviour

ASSUME SyncServerAssumption == MaxSessions \in Nat

VARIABLES sessions,      \* sync_sessions with their sync_operations, oldest first
          call           \* call[h]: the session request h works on

syncVars == <<revisions, push, sessions, call>>

-----------------------------------------------------------------------------
(* Tables *)

\* What a request or a plan says of a stream it leaves out, and the streams
\* it names.
Absent == [absent |-> TRUE]
Named(f) == {s \in Streams : f[s] # Absent}

\* The save state of a stream in a request: NoHash means no local data.
SaveState == [base : Nat, hash : Hashes \cup {NoHash}]

\* The saves of a request.  requestFingerprint tells two requests of a device
\* apart when it tells their normalised saves apart; the inventory that is
\* hashed with them is left out, so requests here differ in saves alone.
SaveStates == [Streams -> SaveState \cup {Absent}]

Operation == [action : {"upload", "download", "conflict", "noop"},
              status : {"proposed", "complete", "failed"},
              base : Nat, target : Nat,
              expected : Hashes \cup {NoHash}, actual : Hashes \cup {NoHash}]

Plan == [Streams -> Operation \cup {Absent}]

Session == [device : Devices, key : Keys, saves : SaveStates,
            status : {"proposed", "transferring", "complete", "partial"},
            ops : Plan]

NoSession == 0

SessionsOf(d, key) ==
  {i \in DOMAIN sessions : sessions[i].device = d /\ sessions[i].key = key}

-----------------------------------------------------------------------------
(* Requests *)

NoCall == [pc |-> "idle"]

CreateCall == [kind : {"create"},
               pc : {"negotiate", "lookup", "insert", "aggregate", "store", "reply"},
               device : Devices, key : Keys, saves : SaveStates, plan : Plan,
               session : Nat, status : {"transferring", "complete", "partial"},
               ok : BOOLEAN]

\* An upload or an acknowledgement of one operation of a session.
OperationCall == [kind : {"upload", "ack"},
                  pc : {"push", "fail", "complete", "write", "reject",
                        "aggregate", "store", "reply"},
                  session : Nat, stream : Streams,
                  actual : Hashes \cup {NoHash}, target : Nat,
                  status : {"transferring", "complete", "partial"},
                  ok : BOOLEAN]

Op(c) == sessions[c.session].ops[c.stream]

Goes(h, pc) == call' = [call EXCEPT ![h].pc = pc]

Replies(h, ok) == call' = [call EXCEPT ![h].pc = "reply", ![h].ok = ok]

\* One UPDATE of sync_operations.
UpdateOp(c, op) == sessions' = [sessions EXCEPT ![c.session].ops[c.stream] = op]

-----------------------------------------------------------------------------
(* createSyncSession *)

HasBase(state) == state.base # NoRevision   \* mutant: whatever its content

\* The local save is unchanged since the revision it is based on.
AtBase(state) ==
  state.base # NoRevision /\ state.hash = revisions[state.base].hash

\* The action the server chooses for a save state of stream s.
Decide(s, state) ==
  LET current == CurrentStreamRevision(s)
      present == current # NoRevision
      local == state.hash # NoHash
      same == present /\ state.hash = revisions[current].hash
      Chosen(action, status, target, expected) ==
        [action |-> action, status |-> status, base |-> state.base,
         target |-> target, expected |-> expected, actual |-> NoHash]
  IN  CASE ~present /\ local ->
             Chosen("upload", "proposed", NoRevision, state.hash)
        [] ~present /\ ~local ->
             Chosen("noop", "complete", NoRevision, NoHash)
        [] present /\ local /\ same ->
             Chosen("noop", "complete", current, state.hash)
        [] present /\ (~local \/ (~same /\ AtBase(state))) ->
             Chosen("download", "proposed", current, revisions[current].hash)
        [] present /\ local /\ ~same /\ ~AtBase(state) /\ state.base = current ->
             Chosen("upload", "proposed", NoRevision, state.hash)
        [] OTHER ->
             Chosen("conflict", "complete", current, state.hash)

\* The request as the handler normalises it: a save state without local data
\* has neither hash nor base.
Normalised(saves) ==
  [s \in Streams |->
     IF s \in Named(saves) /\ saves[s].hash = NoHash
       THEN [base |-> NoRevision, hash |-> NoHash]
       ELSE saves[s]]

CreateSession(h, d, key, saves) ==
  call' = [call EXCEPT ![h] =
             [kind |-> "create", pc |-> "negotiate", device |-> d, key |-> key,
              saves |-> Normalised(saves), plan |-> [s \in Streams |-> Absent],
              session |-> NoSession,
              status |-> "transferring", ok |-> FALSE]]

\* One turn of the loop over the saves: the base has to be a revision of the
\* stream.  The loop follows the order of opaque ids, so any stream is next.
NegotiateStream(h) ==
  LET c == call[h]
  IN  /\ c.pc = "negotiate"
      /\ \E s \in Named(c.saves) \ Named(c.plan) :
           LET state == c.saves[s]
               baseKnown == state.base = NoRevision \/ BelongsTo(state.base, s)
               plan == [c.plan EXCEPT ![s] = Decide(s, state)]
           IN  \/ /\ ~baseKnown
                  /\ Replies(h, FALSE)
               \/ /\ baseKnown
                  /\ call' = [call EXCEPT
                       ![h].plan = plan,
                       ![h].pc = IF Named(plan) = Named(c.saves) THEN "lookup"
                                                                   ELSE "negotiate"]
      /\ UNCHANGED <<revisions, push, sessions>>

\* The SELECT of CreateSyncSession: replay the session of this device and
\* key, refuse another request under the same key.
LookupSession(h) ==
  LET c == call[h]
      existing == SessionsOf(c.device, c.key)
  IN  /\ c.pc = "lookup"
      /\ \/ /\ existing = {}
            /\ Goes(h, "insert")
         \/ \E i \in existing :
              /\ sessions[i].saves # c.saves
              /\ Replies(h, FALSE)
         \/ \E i \in existing :
              /\ sessions[i].saves = c.saves
              /\ call' = [call EXCEPT ![h].session = i, ![h].pc = "aggregate"]
      /\ UNCHANGED <<revisions, push, sessions>>

InsertAnotherSession(h) ==   \* mutant: the key is not unique
  LET c == call[h]
      new == [device |-> c.device, key |-> c.key, saves |-> c.saves,
              status |-> "proposed", ops |-> c.plan]
  IN  /\ c.pc = "insert"
      /\ Len(sessions) < MaxSessions
      /\ sessions' = Append(sessions, new)
      /\ call' = [call EXCEPT ![h].session = Len(sessions) + 1,
                              ![h].pc = "aggregate"]
      /\ UNCHANGED <<revisions, push>>

\* The transaction of CreateSyncSession; UNIQUE(device_id, idempotency_key)
\* fails it when another request inserted the session since the lookup.
InsertSession(h) ==
  LET c == call[h]
      new == [device |-> c.device, key |-> c.key, saves |-> c.saves,
              status |-> "proposed", ops |-> c.plan]
  IN  /\ c.pc = "insert"
      /\ \/ /\ SessionsOf(c.device, c.key) # {}
            /\ Replies(h, FALSE)
            /\ UNCHANGED sessions
         \/ /\ SessionsOf(c.device, c.key) = {}
            /\ Len(sessions) < MaxSessions
            /\ sessions' = Append(sessions, new)
            /\ call' = [call EXCEPT ![h].session = Len(sessions) + 1,
                                    ![h].pc = "aggregate"]
      /\ UNCHANGED <<revisions, push>>

-----------------------------------------------------------------------------
(* RecalculateSyncSession: one SELECT over the operations, then one UPDATE *)
(* of the session with what was read.                                      *)

\* Mutants of StatusOf: a status no session has, a failure overlooked.
FailedStatusOf(ops) ==
  LET Some(status) == \E s \in Named(ops) : ops[s].status = status
  IN  CASE Some("proposed") -> "transferring"
        [] ~Some("proposed") /\ Some("failed") -> "failed"
        [] OTHER -> "complete"

CompleteStatusOf(ops) ==
  IF \E s \in Named(ops) : ops[s].status = "proposed" THEN "transferring"
                                                     ELSE "complete"

StatusOf(ops) ==
  LET Some(status) == \E s \in Named(ops) : ops[s].status = status
  IN  CASE Some("proposed") -> "transferring"
        [] ~Some("proposed") /\ Some("failed") -> "partial"
        [] OTHER -> "complete"

ReadOperations(h) ==
  LET c == call[h]
  IN  /\ c.pc = "aggregate"
      /\ call' = [call EXCEPT ![h].pc = "store",
                              ![h].status = StatusOf(sessions[c.session].ops)]
      /\ UNCHANGED <<revisions, push, sessions>>

\* The last step of every handler that recalculates.  A creation replies with
\* success; the others with what became of their operation.
StoreSessionStatus(h) ==
  LET c == call[h]
  IN  /\ c.pc = "store"
      /\ sessions' = [sessions EXCEPT ![c.session].status = c.status]
      /\ Replies(h, c.kind = "create" \/ c.ok)
      /\ UNCHANGED <<revisions, push>>

-----------------------------------------------------------------------------
(* uploadSyncOperation *)

OperationRequest(kind, pc, i, s, actual, target) ==
  [kind |-> kind, pc |-> pc, session |-> i, stream |-> s, actual |-> actual,
   target |-> target, status |-> "transferring", ok |-> FALSE]

\* syncOperationForRequest and the check of the action, then PushSet up to its
\* comparison of the received content with the expected hash.  What is read of
\* the operation here no statement ever updates.
UploadOperation(h, i, s, received) ==
  LET op == sessions[i].ops[s]
      match == received = op.expected
      Request(pc, actual) ==
        OperationRequest("upload", pc, i, s, actual, NoRevision)
  IN  /\ op.action = "upload"
      /\ \/ /\ match
            /\ call' = [call EXCEPT ![h] = Request("push", received)]
            /\ PushSet(h, s, sessions[i].device, op.base, received)
         \/ /\ ~match
            /\ call' = [call EXCEPT ![h] = Request("fail", NoHash)]
            /\ UNCHANGED push

UploadRolledBack(h) ==   \* mutant: a conflict is not kept
  LET p == push[h]
  IN  /\ call[h].pc = "push"
      /\ p.pc = "done"
      /\ \/ /\ p.conflict
            /\ Goes(h, "fail")
            /\ revisions' = SubSeq(revisions, 1, p.result - 1)
         \/ /\ ~p.conflict
            /\ call' = [call EXCEPT ![h].pc = "complete", ![h].target = p.result]
            /\ UNCHANGED revisions
      /\ push' = [push EXCEPT ![h] = NoPush]
      /\ UNCHANGED sessions

\* PushSet has returned to the handler.
UploadPushed(h) ==
  LET p == push[h]
  IN  /\ call[h].pc = "push"
      /\ \/ /\ p.pc = "error"
            /\ Replies(h, FALSE)
         \/ /\ p.pc = "done" /\ p.conflict
            /\ Goes(h, "fail")
         \/ /\ p.pc = "done" /\ ~p.conflict
            /\ call' = [call EXCEPT ![h].pc = "complete", ![h].target = p.result]
      /\ push' = [push EXCEPT ![h] = NoPush]
      /\ UNCHANGED <<revisions, sessions>>

FailAnySyncOperation(h) ==   \* mutant: no WHERE status<>'complete'
  LET c == call[h]
  IN  /\ c.pc = "fail"
      /\ UpdateOp(c, [Op(c) EXCEPT !.status = "failed", !.actual = c.actual])
      /\ Goes(h, "aggregate")
      /\ UNCHANGED <<revisions, push>>

\* One UPDATE ... WHERE status<>'complete'; its outcome is ignored.
FailSyncOperation(h) ==
  LET c == call[h]
  IN  /\ c.pc = "fail"
      /\ \/ /\ Op(c).status = "complete"
            /\ UNCHANGED sessions
         \/ /\ Op(c).status # "complete"
            /\ UpdateOp(c, [Op(c) EXCEPT !.status = "failed", !.actual = c.actual])
      /\ Goes(h, "aggregate")
      /\ UNCHANGED <<revisions, push>>

-----------------------------------------------------------------------------
(* ackSyncOperation, and CompleteSyncOperation that both handlers call     *)

AckOperation(h, i, s, actual) ==
  LET op == sessions[i].ops[s]
  IN  /\ op.action = "download"
      /\ call' = [call EXCEPT ![h] =
                    OperationRequest("ack", "complete", i, s, actual, op.target)]
      /\ UNCHANGED push

\* CompleteSyncOperation returned: an acknowledgement recalculates whatever
\* it returned, an upload only after success.
CompleteReturns(h, ok) ==
  call' = [call EXCEPT
             ![h].ok = ok,
             ![h].pc = IF ok \/ call[h].kind = "ack" THEN "aggregate" ELSE "reply"]

NoMismatch(op, actual) == FALSE   \* mutant: the hash is not verified

\* The content carried over is not the content negotiated.
Mismatch(op, actual) == op.expected # NoHash /\ op.expected # actual

\* CompleteSyncOperation reads the operation and decides on what it read.
ReadOperation(h) ==
  LET c == call[h]
      op == Op(c)
      sameResult == op.actual = c.actual /\ op.target = c.target
      mismatch == Mismatch(op, c.actual)
  IN  /\ c.pc = "complete"
      /\ \/ /\ op.status = "complete"
            /\ CompleteReturns(h, sameResult)
         \/ /\ op.status = "failed"
            /\ CompleteReturns(h, FALSE)
         \/ /\ op.status = "proposed" /\ mismatch
            /\ Goes(h, "reject")
         \/ /\ op.status = "proposed" /\ ~mismatch
            /\ Goes(h, "write")
      /\ UNCHANGED <<revisions, push, sessions>>

\* Its UPDATE for a hash mismatch.
RejectOperation(h) ==
  LET c == call[h]
  IN  /\ c.pc = "reject"
      /\ UpdateOp(c, [Op(c) EXCEPT !.status = "failed", !.actual = c.actual])
      /\ CompleteReturns(h, FALSE)
      /\ UNCHANGED <<revisions, push>>

\* Its UPDATE for success: neither looks at the status again.
CompleteOperation(h) ==
  LET c == call[h]
  IN  /\ c.pc = "write"
      /\ UpdateOp(c, [Op(c) EXCEPT !.status = "complete", !.actual = c.actual,
                                   !.target = c.target])
      /\ CompleteReturns(h, TRUE)
      /\ UNCHANGED <<revisions, push>>

-----------------------------------------------------------------------------
(* The server under any clients *)

SyncTypeOK ==
  /\ TypeOK
  /\ sessions \in Seq(Session)
  /\ call \in [Handlers -> CreateCall \cup OperationCall \cup {NoCall}]

SyncInit ==
  /\ Init
  /\ sessions = <<>>
  /\ call = [h \in Handlers |-> NoCall]

CallStep(h) ==
  \/ NegotiateStream(h) \/ LookupSession(h) \/ InsertSession(h)
  \/ ReadOperations(h) \/ StoreSessionStatus(h)
  \/ PushStep(h) /\ UNCHANGED <<sessions, call>>
  \/ UploadPushed(h) \/ FailSyncOperation(h)
  \/ ReadOperation(h) \/ RejectOperation(h) \/ CompleteOperation(h)

Idle(h) == push[h].pc = "idle" /\ call[h].pc = "idle"

\* Any client of a device asks for a session over any of its streams, with
\* any of the revisions there are as base and any content.
ClientCreates(h) ==
  /\ Idle(h)
  /\ \E d \in Devices, key \in Keys,
        saves \in [Streams -> {Absent} \cup
                     [base : {NoRevision} \cup DOMAIN revisions,
                      hash : Hashes \cup {NoHash}]] :
       /\ Named(saves) # {}
       /\ CreateSession(h, d, key, saves)
  /\ UNCHANGED <<revisions, push, sessions>>

ClientUploads(h) ==
  /\ Idle(h)
  /\ \E i \in DOMAIN sessions : \E s \in Named(sessions[i].ops), c \in Hashes :
       UploadOperation(h, i, s, c)
  /\ UNCHANGED <<revisions, sessions>>

ClientAcks(h) ==
  /\ Idle(h)
  /\ \E i \in DOMAIN sessions : \E s \in Named(sessions[i].ops), c \in Hashes :
       AckOperation(h, i, s, c)
  /\ UNCHANGED <<revisions, sessions>>

\* The routes outside sessions upload too.
DirectUpload(h) ==
  /\ Idle(h)
  /\ UploadRevision(h)
  /\ UNCHANGED <<sessions, call>>

RequestOver(h) ==
  /\ ~Idle(h)
  /\ push' = [push EXCEPT ![h] = NoPush]
  /\ call' = [call EXCEPT ![h] = NoCall]
  /\ UNCHANGED <<revisions, sessions>>

SyncNext ==
  \E h \in Handlers :
    \/ ClientCreates(h) \/ ClientUploads(h) \/ ClientAcks(h) \/ DirectUpload(h)
    \/ CallStep(h) \/ RequestOver(h)

SyncSpec == SyncInit /\ [][SyncNext]_syncVars

\* The device a request speaks for; requests outside sessions are no device's.
CallsOf(d) ==
  {h \in Handlers : LET c == call[h]
                    IN  \/ c.pc # "idle" /\ c.kind = "create" /\ c.device = d
                        \/ c.pc # "idle" /\ c.kind # "create"
                             /\ sessions[c.session].device = d}

\* What an agent that waits for every answer makes of the same server: a
\* device has at most one request in flight.
OneCallPerDevice == \A d \in Devices : \A g, h \in CallsOf(d) : g = h

SerialSpec == SyncInit /\ [][SyncNext /\ OneCallPerDevice']_syncVars

-----------------------------------------------------------------------------
(* Properties *)

\* To the store's clients a session changes nothing: every step of the sync
\* server is a step of SaveStore or leaves its state alone.
ImplementsStore == Spec

\* A plan never gives up content the server lacks: a download names a stored
\* revision by its hash and goes only to a client without local data or one
\* whose content is the stored revision it is based on; an upload or conflict
\* is based on a revision of the stream.
PlansLoseNothing ==
  \A i \in DOMAIN sessions : \A s \in Named(sessions[i].ops) :
    LET op == sessions[i].ops[s]
        state == sessions[i].saves[s]
    IN  /\ op.base # NoRevision => op.base \in StreamRevisions(s)
        /\ op.action = "download" =>
             /\ op.target \in Published(s)
             /\ revisions[op.target].hash = op.expected
             /\ \/ state.hash = NoHash
                \/ \E r \in StreamRevisions(s) :
                     r = state.base /\ revisions[r].hash = state.hash

\* A transfer recorded as complete names a stored revision with the content
\* negotiated, whichever handlers raced for it ("commit occurs only after
\* negotiated hash verification", openapi.yaml).
CompleteMeansStored ==
  \A i \in DOMAIN sessions : \A s \in Named(sessions[i].ops) :
    LET op == sessions[i].ops[s]
    IN  op.status = "complete" /\ op.action \in {"upload", "download"} =>
          /\ op.target \in StreamRevisions(s)
          /\ revisions[op.target].hash = op.expected
          /\ op.actual = op.expected

\* A device never gets two sessions for one idempotency key, and a creation
\* that succeeds answers with the session of that key made for the very same
\* saves, even when two creations raced from lookup to insert.
CreationIsIdempotent ==
  /\ \A d \in Devices, key \in Keys : Cardinality(SessionsOf(d, key)) <= 1
  /\ \A h \in Handlers :
       LET c == call[h]
       IN  c.pc = "reply" /\ c.kind = "create" /\ c.ok =>
             /\ c.session \in SessionsOf(c.device, c.key)
             /\ sessions[c.session].saves = c.saves

\* "session -> complete | partial | aborted | failed (terminal)"
\* (docs/DEVICE_SYNC_PROTOCOL.md): a session never leaves a terminal status.
TerminalStays ==
  [][\A i \in DOMAIN sessions :
       sessions[i].status \in {"complete", "partial"} =>
         sessions'[i].status = sessions[i].status]_sessions

\* What a finished session says of its operations is so: RecalculateSyncSession
\* overwrites a row it does not lock, and this is what has to survive that.
TerminalIsTruthful ==
  \A i \in DOMAIN sessions :
    LET statuses == {sessions[i].ops[s].status : s \in Named(sessions[i].ops)}
    IN  /\ sessions[i].status = "complete" => statuses \subseteq {"complete"}
        /\ sessions[i].status = "partial" =>
             "failed" \in statuses /\ "proposed" \notin statuses

\* An operation once complete or failed never changes again: its target and
\* hash are what a retry of the same request is answered with.
OutcomeIsFinal ==
  [][\A i \in DOMAIN sessions : \A s \in Named(sessions[i].ops) :
       LET op == sessions[i].ops[s]
       IN  /\ op.status = "complete" => sessions'[i].ops[s] = op
           /\ op.status = "failed" => sessions'[i].ops[s].status = "failed"
    ]_sessions

\* "If the current server revision advances after negotiation, a subsequent
\* upload MUST fail as a conflict" (docs/DEVICE_SYNC_PROTOCOL.md): content that
\* PushSet accepts for an operation not yet carried out is current then.
AcceptedUploadIsCurrent ==
  [][\A h \in Handlers :
       /\ call[h].pc = "push" /\ Op(call[h]).status = "proposed"
       /\ push[h].pc # "done" /\ push'[h].pc = "done" /\ ~push'[h].conflict
       => push'[h].result = CurrentStreamRevision(push[h].stream)']_syncVars
=============================================================================
