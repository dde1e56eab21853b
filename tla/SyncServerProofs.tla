------------------------- MODULE SyncServerProofs -------------------------
(***************************************************************************)
(* Theorems about SyncServer, for any number of streams, devices, keys,    *)
(* contents, requests, sessions and revisions.                             *)
(***************************************************************************)
EXTENDS SyncServer, SaveStoreProofs, FiniteSetTheorems

-----------------------------------------------------------------------------
(* The inductive invariant.  What the properties say of sessions, each       *)
(* request knows of its own session between its steps.  Everything is said   *)
(* of a table of revisions rs and of one of sessions ss, so that it can be   *)
(* carried from the tables before a step to those after it.                  *)

\* Revision r of stream s has this content; it was published as current.
Stored(rs, s, r, hash) == r \in DOMAIN rs /\ rs[r].stream = s /\ rs[r].hash = hash

\* What is known of an operation planned for a save state of stream s.
OpFits(rs, s, state, op) ==
  /\ op.base # NoRevision => op.base \in DOMAIN rs /\ rs[op.base].stream = s
  /\ op.action = "download" =>
       /\ Stored(rs, s, op.target, op.expected)
       /\ rs[op.target].status # "conflict"
       /\ state.hash = NoHash \/ Stored(rs, s, state.base, state.hash)
  /\ op.action = "noop" /\ op.target # NoRevision =>
       Stored(rs, s, op.target, op.expected)
  /\ op.action \in {"upload", "download"} /\ op.status = "complete" =>
       Stored(rs, s, op.target, op.expected) /\ op.actual = op.expected

PlanFits(rs, saves, ops) == \A s \in Named(ops) : OpFits(rs, s, saves[s], ops[s])

SessionsFit(rs, ss) == \A i \in DOMAIN ss : PlanFits(rs, ss[i].saves, ss[i].ops)

KeysUnique(ss) ==
  \A i, j \in DOMAIN ss :
    ss[i].device = ss[j].device /\ ss[i].key = ss[j].key => i = j

\* The session a creation answers with is that of its key, for its saves.
Answers(ss, c) ==
  /\ c.session \in DOMAIN ss
  /\ ss[c.session].device = c.device
  /\ ss[c.session].key = c.key
  /\ ss[c.session].saves = c.saves

CreateFits(rs, ss, c) ==
  /\ PlanFits(rs, c.saves, c.plan)
  /\ c.pc \in {"aggregate", "store"} => Answers(ss, c)
  /\ c.pc = "reply" /\ c.ok => Answers(ss, c)

\* A request for operation op carries the content of op.
CarriesContent(rs, c, op) ==
  /\ c.kind = "ack" =>
       /\ op.action = "download" /\ c.target = op.target
       /\ c.pc \notin {"push", "fail"}
       /\ c.pc = "write" => c.actual = op.expected
  /\ c.kind = "upload" =>
       /\ op.action = "upload"
       /\ c.pc \in {"push", "complete", "write"} => c.actual = op.expected
       /\ c.pc \in {"complete", "write"} => Stored(rs, c.stream, c.target, c.actual)

OperationFits(rs, ss, c) ==
  /\ c.session \in DOMAIN ss
  /\ c.stream \in Named(ss[c.session].ops)
  /\ CarriesContent(rs, c, ss[c.session].ops[c.stream])

CallFits(rs, ss, c) ==
  c.pc # "idle" => IF c.kind = "create" THEN CreateFits(rs, ss, c)
                                        ELSE OperationFits(rs, ss, c)

\* While an upload waits for PushSet, that is pushing its content.
PushFits(c, p) ==
  c.pc = "push" => p.pc # "idle" /\ p.stream = c.stream /\ p.hash = c.actual

CallsFit == \A h \in Handlers : /\ CallFits(revisions, sessions, call[h])
                                /\ PushFits(call[h], push[h])

SyncInv == /\ StoreInv
           /\ SyncTypeOK
           /\ SessionsFit(revisions, sessions)
           /\ KeysUnique(sessions)
           /\ CallsFit

-----------------------------------------------------------------------------
(* What a step may do to the tables *)

\* No row of the revisions is lost or rewritten but for its status, and
\* a conflict stays one and becomes one in no step.
Grows(rs, rsn) ==
  \A i \in DOMAIN rs :
    /\ i \in DOMAIN rsn
    /\ rsn[i].stream = rs[i].stream
    /\ rsn[i].hash = rs[i].hash
    /\ rsn[i].status = "conflict" <=> rs[i].status = "conflict"

\* What was planned of an operation stays as planned.
SamePlan(op, opn) ==
  /\ opn # Absent
  /\ opn.action = op.action
  /\ opn.base = op.base
  /\ opn.expected = op.expected
  /\ op.action = "download" => opn.target = op.target

\* No session is lost or becomes another one.
Evolves(ss, ssn) ==
  \A i \in DOMAIN ss :
    /\ i \in DOMAIN ssn
    /\ ssn[i].device = ss[i].device
    /\ ssn[i].key = ss[i].key
    /\ ssn[i].saves = ss[i].saves
    /\ \A s \in Named(ss[i].ops) :
         /\ s \in Named(ssn[i].ops)
         /\ SamePlan(ss[i].ops[s], ssn[i].ops[s])

LEMMA GrowsReflexive == \A rs : Grows(rs, rs)
BY DEF Grows

LEMMA EvolvesReflexive == \A ss : Evolves(ss, ss)
BY DEF Evolves, SamePlan, Named

\* A stored content stays stored.
LEMMA StoredLasts ==
  ASSUME NEW rs, NEW rsn, Grows(rs, rsn), NEW s, NEW r, NEW hash,
         Stored(rs, s, r, hash)
  PROVE  Stored(rsn, s, r, hash)
BY DEF Grows, Stored

\* What fits one table of revisions fits every later one.
LEMMA OpFitLasts ==
  ASSUME NEW rs, NEW rsn, Grows(rs, rsn), NEW s, NEW state, NEW op,
         OpFits(rs, s, state, op)
  PROVE  OpFits(rsn, s, state, op)
<1>1. op.base # NoRevision => op.base \in DOMAIN rsn /\ rsn[op.base].stream = s
  BY DEF Grows, OpFits
<1>2. ASSUME op.action = "download"
      PROVE  /\ Stored(rsn, s, op.target, op.expected)
             /\ rsn[op.target].status # "conflict"
             /\ state.hash = NoHash \/ Stored(rsn, s, state.base, state.hash)
  <2>1. Stored(rs, s, op.target, op.expected) /\ rs[op.target].status # "conflict"
    BY <1>2 DEF OpFits
  <2>2. rsn[op.target].status # "conflict"
    BY <2>1 DEF Grows, Stored
  <2>3. state.hash = NoHash \/ Stored(rs, s, state.base, state.hash)
    BY <1>2 DEF OpFits
  <2> QED BY <2>1, <2>2, <2>3, StoredLasts
<1>3. ASSUME op.action \in {"upload", "download"} /\ op.status = "complete"
      PROVE  Stored(rsn, s, op.target, op.expected) /\ op.actual = op.expected
  BY <1>3, StoredLasts DEF OpFits
<1>4. ASSUME op.action = "noop" /\ op.target # NoRevision
      PROVE  Stored(rsn, s, op.target, op.expected)
  BY <1>4, StoredLasts DEF OpFits
<1> QED BY <1>1, <1>2, <1>3, <1>4 DEF OpFits

LEMMA PlanFitLasts ==
  ASSUME NEW rs, NEW rsn, Grows(rs, rsn), NEW saves, NEW ops,
         PlanFits(rs, saves, ops)
  PROVE  PlanFits(rsn, saves, ops)
BY OpFitLasts DEF PlanFits

LEMMA AnswerLasts ==
  ASSUME NEW ss, NEW ssn, Evolves(ss, ssn), NEW c, Answers(ss, c)
  PROVE  Answers(ssn, c)
BY DEF Evolves, Answers

\* What a request knows survives the steps of the others.
LEMMA CallFitLasts ==
  ASSUME NEW rs, NEW rsn, Grows(rs, rsn), NEW ss, NEW ssn, Evolves(ss, ssn),
         NEW c, CallFits(rs, ss, c)
  PROVE  CallFits(rsn, ssn, c)
<1>1. SUFFICES ASSUME c.pc # "idle"
               PROVE  IF c.kind = "create" THEN CreateFits(rsn, ssn, c)
                                           ELSE OperationFits(rsn, ssn, c)
  BY DEF CallFits
<1>2. CASE c.kind = "create"
  <2>1. CreateFits(rs, ss, c)
    BY <1>1, <1>2 DEF CallFits
  <2>2. PlanFits(rsn, c.saves, c.plan)
    BY <2>1, PlanFitLasts DEF CreateFits
  <2> QED BY <1>2, <2>1, <2>2, AnswerLasts DEF CreateFits
<1>3. CASE c.kind # "create"
  <2> DEFINE op == ss[c.session].ops[c.stream]
             opn == ssn[c.session].ops[c.stream]
  <2>1. OperationFits(rs, ss, c)
    BY <1>1, <1>3 DEF CallFits
  <2>2. /\ c.session \in DOMAIN ssn
        /\ c.stream \in Named(ssn[c.session].ops)
        /\ SamePlan(op, opn)
    BY <2>1 DEF OperationFits, Evolves
  <2>3. CarriesContent(rs, c, op)
    BY <2>1 DEF OperationFits
  <2> HIDE DEF op, opn
  <2>4. CarriesContent(rsn, c, opn)
    BY <2>2, <2>3, StoredLasts DEF CarriesContent, SamePlan
  <2> QED BY <1>3, <2>2, <2>4 DEF OperationFits, op, opn
<1> QED BY <1>2, <1>3

-----------------------------------------------------------------------------
(* Types *)

Call == CreateCall \cup OperationCall \cup {NoCall}

\* An operation, and the save state it was planned for.
LEMMA OperationTyped ==
  ASSUME NEW plan \in Plan, NEW s \in Named(plan)
  PROVE  s \in Streams /\ plan[s] \in Operation
BY DEF Named, Plan

LEMMA SaveTyped ==
  ASSUME NEW saves \in SaveStates, NEW s \in Named(saves)
  PROVE  s \in Streams /\ saves[s] \in SaveState
BY DEF Named, SaveStates

LEMMA OperationNamed == \A op \in Operation : op # Absent
BY DEF Operation, Absent

LEMMA SessionTyped ==
  ASSUME NEW ss \in Seq(Session), NEW i \in DOMAIN ss
  PROVE  ss[i] \in Session
OBVIOUS

\* The kind of a request in progress tells its locals.
LEMMA CreateTyped ==
  ASSUME NEW c \in Call,
         \/ c.pc \in {"negotiate", "lookup", "insert"}
         \/ c.pc # "idle" /\ c.kind = "create"
  PROVE  c \in CreateCall /\ c.kind = "create"
BY DEF Call, CreateCall, OperationCall, NoCall

LEMMA OperationCallTyped ==
  ASSUME NEW c \in Call,
         \/ c.pc \in {"push", "fail", "complete", "write", "reject"}
         \/ c.pc # "idle" /\ c.kind # "create"
  PROVE  c \in OperationCall /\ c.kind \in {"upload", "ack"} /\ c.kind # "create"
BY DEF Call, CreateCall, OperationCall, NoCall

-----------------------------------------------------------------------------
(* The steps of one request *)

\* What the step of request h has to keep.
Keeps(h) ==
  /\ sessions' \in Seq(Session)
  /\ Evolves(sessions, sessions')
  /\ SessionsFit(revisions', sessions')
  /\ KeysUnique(sessions')
  /\ call' = [call EXCEPT ![h] = call'[h]]
  /\ call'[h] \in Call
  /\ CallFits(revisions', sessions', call'[h])
  /\ PushFits(call'[h], push'[h])

\* Its share of the store's state.
OwnPush(h) == \A g \in Handlers : g # h => push'[g] = push[g]

LEMMA StoreGrows ==
  ASSUME StoreInv, [Next]_storeVars
  PROVE  Grows(revisions, revisions')
<1>1. CASE UNCHANGED revisions
  BY <1>1, GrowsReflexive
<1>2. ASSUME NEW h \in Handlers, AddSaveRevision(h)
      PROVE  Grows(revisions, revisions')
  <2> DEFINE n == Len(revisions)
             p == push[h]
  <2>1. TypeOK
    BY DEF StoreInv
  <2>2. /\ n \in Nat
        /\ DOMAIN revisions = 1..n
        /\ DOMAIN revisions' = 1..(n + 1)
    BY <1>2, <2>1, AddSaveRevisionEffect
  <2>3. \A i \in 1..n : /\ revisions'[i].stream = revisions[i].stream
                        /\ revisions'[i].hash = revisions[i].hash
                        /\ revisions'[i].status = "conflict"
                             <=> revisions[i].status = "conflict"
    BY <1>2, <2>1, StreamsGrow
  <2> HIDE DEF n
  <2> QED BY <2>2, <2>3 DEF Grows
<1> QED BY <1>1, <1>2, OnlyAddWrites

LEMMA SyncInvStep ==
  ASSUME SyncInv, [Next]_storeVars, NEW h \in Handlers, OwnPush(h), Keeps(h)
  PROVE  SyncInv'
<1>1. StoreInv'
  BY NextStoreInv DEF SyncInv
<1>2. Grows(revisions, revisions')
  BY StoreGrows DEF SyncInv
<1>3. SyncTypeOK'
  <2>1. call \in [Handlers -> Call]
    BY DEF SyncInv, SyncTypeOK, Call
  <2>2. call' \in [Handlers -> Call]
    BY <2>1 DEF Keeps
  <2> QED BY <1>1, <2>2 DEF SyncTypeOK, StoreInv, Keeps, Call
<1>4. ASSUME NEW g \in Handlers
      PROVE  CallFits(revisions', sessions', call'[g]) /\ PushFits(call'[g], push'[g])
  <2>1. CASE g = h
    BY <2>1 DEF Keeps
  <2>2. CASE g # h
    <3>1. call'[g] = call[g] /\ push'[g] = push[g]
      BY <2>2 DEF Keeps, OwnPush, SyncInv, SyncTypeOK
    <3>2. CallFits(revisions, sessions, call[g]) /\ PushFits(call[g], push[g])
      BY DEF SyncInv, CallsFit
    <3> QED BY <3>1, <3>2, <1>2, CallFitLasts DEF Keeps
  <2> QED BY <2>1, <2>2
<1> QED BY <1>1, <1>3, <1>4 DEF SyncInv, CallsFit, Keeps

\* A step that changes nothing but the locals of its request.
LEMMA OnlyCallMoves ==
  ASSUME SyncInv, NEW h \in Handlers, UNCHANGED <<revisions, sessions>>,
         NEW c \in Call, call' = [call EXCEPT ![h] = c],
         CallFits(revisions, sessions, c), PushFits(c, push'[h])
  PROVE  Keeps(h)
<1>1. call'[h] = c
  BY DEF SyncInv, SyncTypeOK
<1> QED BY <1>1, EvolvesReflexive DEF Keeps, SyncInv, SyncTypeOK

LEMMA StoreUntouched ==
  ASSUME UNCHANGED <<revisions, push>>, NEW h \in Handlers
  PROVE  [Next]_storeVars /\ OwnPush(h)
BY DEF storeVars, OwnPush

\* PushSet keeps to the stream and content it was called with.
LEMMA PushKeeps ==
  ASSUME TypeOK, NEW h \in Handlers, PushStep(h)
  PROVE  /\ push'[h].pc # "idle"
         /\ push'[h].stream = push[h].stream
         /\ push'[h].hash = push[h].hash
<1>1. push[h] \in PushCall
  BY PushTyped DEF PushStep, PushReadCurrent, PushFindExisting, AddSaveRevision
<1>2. CASE PushReadCurrent(h)
  BY <1>1, <1>2 DEF PushReadCurrent, PushReturns, PushCall, PushPC, TypeOK
<1>3. CASE PushFindExisting(h)
  <2>1. CASE push' = [push EXCEPT ![h].pc = "add"]
    BY <1>1, <2>1 DEF PushCall, PushPC, TypeOK
  <2>2. ASSUME NEW i, NEW conflict, PushReturns(h, i, conflict)
        PROVE  /\ push'[h].pc # "idle"
               /\ push'[h].stream = push[h].stream
               /\ push'[h].hash = push[h].hash
    BY <1>1, <2>2 DEF PushReturns, PushCall, PushPC, TypeOK
  <2> QED BY <1>3, <2>1, <2>2 DEF PushFindExisting
<1>4. CASE AddSaveRevision(h)
  BY <1>1, <1>4 DEF AddSaveRevision, PushReturns, PushCall, PushPC, TypeOK
<1> QED BY <1>2, <1>3, <1>4 DEF PushStep

LEMMA PushStepKeeps ==
  ASSUME SyncInv, NEW h \in Handlers, PushStep(h), UNCHANGED <<sessions, call>>
  PROVE  [Next]_storeVars /\ OwnPush(h) /\ Keeps(h)
<1>1. TypeOK /\ StoreInv
  BY DEF SyncInv, StoreInv
<1>2. [Next]_storeVars
  BY DEF Next
<1>3. OwnPush(h)
  BY <1>1, OneCallMoves DEF OwnPush
<1>4. Grows(revisions, revisions')
  BY <1>1, <1>2, StoreGrows
<1>5. PushFits(call[h], push'[h])
  BY <1>1, PushKeeps DEF SyncInv, CallsFit, PushFits
<1>6. CallFits(revisions', sessions, call[h])
  BY <1>4, CallFitLasts, EvolvesReflexive DEF SyncInv, CallsFit
<1>7. SessionsFit(revisions', sessions)
  BY <1>4, PlanFitLasts DEF SyncInv, SessionsFit
<1>8. call = [call EXCEPT ![h] = call[h]] /\ call[h] \in Call
  BY DEF SyncInv, SyncTypeOK, Call
<1> QED BY <1>2, <1>3, <1>5, <1>6, <1>7, <1>8, EvolvesReflexive
        DEF Keeps, SyncInv, SyncTypeOK

-----------------------------------------------------------------------------
(* Creation *)

LEMMA CreateSessionKeeps ==
  ASSUME SyncInv, NEW h \in Handlers, ClientCreates(h)
  PROVE  [Next]_storeVars /\ OwnPush(h) /\ Keeps(h)
<1>1. PICK d \in Devices, key \in Keys,
           saves \in [Streams -> {Absent} \cup
                        [base : {NoRevision} \cup DOMAIN revisions,
                         hash : Hashes \cup {NoHash}]] :
        CreateSession(h, d, key, saves)
  BY DEF ClientCreates
<1> DEFINE c == [kind |-> "create", pc |-> "negotiate", device |-> d, key |-> key,
                 saves |-> Normalised(saves), plan |-> [s \in Streams |-> Absent],
                 session |-> NoSession, status |-> "transferring", ok |-> FALSE]
<1>2. Normalised(saves) \in SaveStates
  <2>1. revisions \in Seq(Revision)
    BY DEF SyncInv, StoreInv, TypeOK
  <2>2. DOMAIN revisions \subseteq Nat
    BY <2>1
  <2>3. saves \in SaveStates
    BY <2>2 DEF SaveStates, SaveState, NoRevision
  <2>4. [base |-> NoRevision, hash |-> NoHash] \in SaveState
    BY DEF SaveState, NoRevision
  <2> QED BY <2>3, <2>4 DEF Normalised, SaveStates
<1>3. c \in Call
  BY <1>2 DEF Call, CreateCall, Plan, NoSession
<1>4. call' = [call EXCEPT ![h] = c]
  BY <1>1 DEF CreateSession
<1>5. CallFits(revisions, sessions, c)
  BY DEF CallFits, CreateFits, PlanFits, Named
<1>6. PushFits(c, push'[h])
  BY DEF PushFits
<1>7. UNCHANGED <<revisions, push, sessions>>
  BY DEF ClientCreates
<1> HIDE DEF c
<1> QED BY <1>3, <1>4, <1>5, <1>6, <1>7, OnlyCallMoves, StoreUntouched

\* What the negotiation decides fits the revisions there are.
LEMMA DecisionFits ==
  ASSUME TypeOK, NEW s \in Streams, NEW state \in SaveState,
         state.base = NoRevision \/ BelongsTo(state.base, s)
  PROVE  Decide(s, state) \in Operation /\ OpFits(revisions, s, state, Decide(s, state))
<1> DEFINE current == CurrentStreamRevision(s)
           present == current # NoRevision
           local == state.hash # NoHash
           same == present /\ state.hash = revisions[current].hash
           op == Decide(s, state)
<1>1. state.base \in Nat /\ state.hash \in Hashes \cup {NoHash}
  BY DEF SaveState
<1>2. state.base # NoRevision =>
        state.base \in DOMAIN revisions /\ revisions[state.base].stream = s
  BY DEF BelongsTo, StreamRevisions
<1>3. present => /\ current \in DOMAIN revisions /\ current \in Nat
                 /\ revisions[current].stream = s
                 /\ revisions[current].status = "current"
                 /\ revisions[current].hash \in Hashes
  <2>1. ASSUME present
        PROVE  /\ current \in StreamRevisions(s)
               /\ revisions[current].status = "current"
    BY <2>1, QueryReturnsCurrent DEF TypeOK
  <2>2. \A i \in DOMAIN revisions : i \in Nat /\ revisions[i].hash \in Hashes
    <3>1. \A i \in DOMAIN revisions : i \in Nat /\ revisions[i] \in Revision
      BY DEF TypeOK
    <3> QED BY <3>1 DEF Revision
  <2> HIDE DEF current
  <2> QED BY <2>1, <2>2 DEF StreamRevisions
<1>4. AtBase(state) => Stored(revisions, s, state.base, state.hash)
  BY <1>2 DEF AtBase, Stored
<1> DEFINE Chosen(action, status, target, expected) ==
             [action |-> action, status |-> status, base |-> state.base,
              target |-> target, expected |-> expected, actual |-> NoHash]
<1>5. \/ op = Chosen("upload", "proposed", NoRevision, state.hash)
      \/ op = Chosen("noop", "complete", NoRevision, NoHash)
      \/ same /\ op = Chosen("noop", "complete", current, state.hash)
      \/ /\ present /\ (~local \/ AtBase(state))
         /\ op = Chosen("download", "proposed", current, revisions[current].hash)
      \/ op = Chosen("conflict", "complete", current, state.hash)
  <2>1. CASE ~present /\ local
    BY <2>1 DEF Decide
  <2>2. CASE ~present /\ ~local
    BY <2>2 DEF Decide
  <2>3. CASE present /\ local /\ same
    BY <2>3 DEF Decide
  <2>4. CASE present /\ (~local \/ (~same /\ AtBase(state)))
    BY <2>4 DEF Decide
  <2>5. CASE present /\ local /\ ~same /\ ~AtBase(state)
    <3>1. CASE state.base = current
      BY <2>5, <3>1 DEF Decide
    <3>2. CASE state.base # current
      BY <2>5, <3>2 DEF Decide
    <3> QED BY <3>1, <3>2
  <2> QED BY <2>1, <2>2, <2>3, <2>4, <2>5
<1>6. current \in Nat
  BY <1>3 DEF NoRevision
<1> HIDE DEF op, current
<1>7. op \in Operation /\ OpFits(revisions, s, state, op)
  <2>1. CASE op = Chosen("download", "proposed", current, revisions[current].hash)
    BY <2>1, <1>1, <1>2, <1>3, <1>4, <1>5 DEF OpFits, Stored, Operation
  <2>2. CASE same /\ op = Chosen("noop", "complete", current, state.hash)
    BY <2>2, <1>1, <1>2, <1>3 DEF OpFits, Stored, Operation
  <2>3. CASE \/ op = Chosen("upload", "proposed", NoRevision, state.hash)
             \/ op = Chosen("noop", "complete", NoRevision, NoHash)
             \/ op = Chosen("conflict", "complete", current, state.hash)
    BY <2>3, <1>1, <1>2, <1>6 DEF OpFits, Operation, NoRevision
  <2> QED BY <1>5, <2>1, <2>2, <2>3
<1> QED BY <1>7 DEF op

\* What any creation in progress knows.
LEMMA CreateKnows ==
  ASSUME SyncInv, NEW h \in Handlers,
         \/ call[h].pc \in {"negotiate", "lookup", "insert"}
         \/ call[h].pc # "idle" /\ call[h].kind = "create"
  PROVE  /\ call[h] \in CreateCall
         /\ call[h].kind = "create"
         /\ CreateFits(revisions, sessions, call[h])
<1>1. call[h] \in Call
  BY DEF SyncInv, SyncTypeOK, Call
<1>2. call[h].pc # "idle" /\ call[h] \in CreateCall /\ call[h].kind = "create"
  BY <1>1, CreateTyped
<1> QED BY <1>2 DEF SyncInv, CallsFit, CallFits

\* A refused creation knows nothing but its plan.
LEMMA CreationRefused ==
  ASSUME SyncInv, NEW h \in Handlers, call[h] \in CreateCall,
         CreateFits(revisions, sessions, call[h]), Replies(h, FALSE),
         UNCHANGED <<revisions, push, sessions>>
  PROVE  Keeps(h)
<1> DEFINE c == call[h]
           cn == [c EXCEPT !.pc = "reply", !.ok = FALSE]
<1>1. /\ cn \in CreateCall /\ cn.kind = "create" /\ cn.pc = "reply" /\ cn.ok = FALSE
      /\ cn.plan = c.plan /\ cn.saves = c.saves
  BY DEF CreateCall
<1>2. call' = [call EXCEPT ![h] = cn]
  BY DEF Replies, SyncInv, SyncTypeOK
<1>3. PlanFits(revisions, c.saves, c.plan)
  BY DEF CreateFits
<1> HIDE DEF c, cn
<1>4. cn \in Call /\ CallFits(revisions, sessions, cn)
  BY <1>1, <1>3 DEF Call, CallFits, CreateFits
<1>5. PushFits(cn, push'[h])
  BY <1>1 DEF PushFits
<1> QED BY <1>2, <1>4, <1>5, OnlyCallMoves

LEMMA NegotiateKeeps ==
  ASSUME SyncInv, NEW h \in Handlers, NegotiateStream(h)
  PROVE  [Next]_storeVars /\ OwnPush(h) /\ Keeps(h)
<1> DEFINE c == call[h]
<1>1. c \in CreateCall /\ CreateFits(revisions, sessions, c)
  BY CreateKnows DEF NegotiateStream
<1>2. UNCHANGED <<revisions, push, sessions>>
  BY DEF NegotiateStream
<1>3. CASE Replies(h, FALSE)
  BY <1>1, <1>2, <1>3, CreationRefused, StoreUntouched
<1>4. CASE ~Replies(h, FALSE)
  <2> DEFINE Plan1(s) == [c.plan EXCEPT ![s] = Decide(s, c.saves[s])]
  <2>1. PICK s \in Named(c.saves) :
          /\ c.saves[s].base = NoRevision \/ BelongsTo(c.saves[s].base, s)
          /\ call' = [call EXCEPT
               ![h].plan = Plan1(s),
               ![h].pc = IF Named(Plan1(s)) = Named(c.saves) THEN "lookup"
                                                             ELSE "negotiate"]
    BY <1>4 DEF NegotiateStream
  <2> DEFINE plan == Plan1(s)
             pc == IF Named(plan) = Named(c.saves) THEN "lookup" ELSE "negotiate"
             cn == [c EXCEPT !.plan = plan, !.pc = pc]
  <2>2. c.saves \in SaveStates /\ c.plan \in Plan /\ s \in Streams
    BY <1>1 DEF CreateCall, Named
  <2>3. c.saves[s] \in SaveState
    BY <2>2, SaveTyped
  <2>4. TypeOK
    BY DEF SyncInv, StoreInv
  <2>5. Decide(s, c.saves[s]) \in Operation
        /\ OpFits(revisions, s, c.saves[s], Decide(s, c.saves[s]))
    BY <2>1, <2>2, <2>3, <2>4, DecisionFits
  <2>6. plan \in Plan /\ PlanFits(revisions, c.saves, plan)
    <3> DEFINE op == Decide(s, c.saves[s])
    <3>1. op \in Operation /\ OpFits(revisions, s, c.saves[s], op)
      BY <2>5
    <3>2. PlanFits(revisions, c.saves, c.plan)
      BY <1>1 DEF CreateFits
    <3>3. plan = [c.plan EXCEPT ![s] = op]
      OBVIOUS
    <3> HIDE DEF op, plan, c
    <3> QED BY <2>2, <3>1, <3>2, <3>3 DEF Plan, PlanFits, Named
  <2> HIDE DEF plan, Plan1
  <2>7. pc \in {"lookup", "negotiate"}
    OBVIOUS
  <2>8. call' = [call EXCEPT ![h] = cn]
    BY <2>1 DEF SyncInv, SyncTypeOK, plan
  <2> HIDE DEF pc
  <2>9. /\ cn \in CreateCall /\ cn.kind = "create" /\ cn.pc \in {"lookup", "negotiate"}
        /\ cn.plan = plan /\ cn.saves = c.saves
    BY <1>1, <2>6, <2>7 DEF CreateCall
  <2> HIDE DEF c, cn
  <2>10. cn \in Call /\ CallFits(revisions, sessions, cn) /\ PushFits(cn, push'[h])
    BY <2>6, <2>9 DEF Call, CallFits, CreateFits, PushFits
  <2> QED BY <1>2, <2>8, <2>10, OnlyCallMoves, StoreUntouched
<1> QED BY <1>3, <1>4

LEMMA LookupKeeps ==
  ASSUME SyncInv, NEW h \in Handlers, LookupSession(h)
  PROVE  [Next]_storeVars /\ OwnPush(h) /\ Keeps(h)
<1> DEFINE c == call[h]
<1>1. c \in CreateCall /\ c.kind = "create" /\ CreateFits(revisions, sessions, c)
  BY CreateKnows DEF LookupSession
<1>2. UNCHANGED <<revisions, push, sessions>>
  BY DEF LookupSession
<1>3. PlanFits(revisions, c.saves, c.plan)
  BY <1>1 DEF CreateFits
<1>4. CASE Replies(h, FALSE)
  BY <1>1, <1>2, <1>4, CreationRefused, StoreUntouched
<1>5. CASE Goes(h, "insert")
  <2> DEFINE cn == [c EXCEPT !.pc = "insert"]
  <2>1. call' = [call EXCEPT ![h] = cn]
    BY <1>5 DEF Goes, SyncInv, SyncTypeOK
  <2>2. /\ cn \in CreateCall /\ cn.kind = "create" /\ cn.pc = "insert"
        /\ cn.plan = c.plan /\ cn.saves = c.saves
    BY <1>1 DEF CreateCall
  <2> HIDE DEF c, cn
  <2>3. cn \in Call /\ CallFits(revisions, sessions, cn) /\ PushFits(cn, push'[h])
    BY <1>3, <2>2 DEF Call, CallFits, CreateFits, PushFits
  <2> QED BY <1>2, <2>1, <2>3, OnlyCallMoves, StoreUntouched
<1>6. ASSUME NEW i \in SessionsOf(c.device, c.key), sessions[i].saves = c.saves,
             call' = [call EXCEPT ![h].session = i, ![h].pc = "aggregate"]
      PROVE  Keeps(h)
  <2> DEFINE cn == [c EXCEPT !.session = i, !.pc = "aggregate"]
  <2>1. call' = [call EXCEPT ![h] = cn]
    BY <1>6 DEF SyncInv, SyncTypeOK
  <2>2. /\ i \in DOMAIN sessions
        /\ sessions[i].device = c.device /\ sessions[i].key = c.key
    BY DEF SessionsOf
  <2>3. i \in Nat
    <3>1. sessions \in Seq(Session)
      BY DEF SyncInv, SyncTypeOK
    <3> QED BY <3>1, <2>2
  <2>4. /\ cn \in CreateCall /\ cn.kind = "create" /\ cn.pc = "aggregate"
        /\ cn.plan = c.plan /\ cn.saves = c.saves
        /\ cn.device = c.device /\ cn.key = c.key /\ cn.session = i
    BY <1>1, <2>3 DEF CreateCall
  <2> HIDE DEF c, cn
  <2>5. cn \in Call /\ CallFits(revisions, sessions, cn) /\ PushFits(cn, push'[h])
    BY <1>3, <1>6, <2>2, <2>4 DEF Call, CallFits, CreateFits, Answers, PushFits
  <2> QED BY <1>2, <2>1, <2>5, OnlyCallMoves
<1> QED BY <1>2, <1>4, <1>5, <1>6, StoreUntouched DEF LookupSession

\* A session with a key of its own, appended to a table with unique keys.
LEMMA SessionAppended ==
  ASSUME NEW rs, NEW ss \in Seq(Session), NEW new \in Session,
         SessionsFit(rs, ss), KeysUnique(ss), PlanFits(rs, new.saves, new.ops),
         \A i \in DOMAIN ss : ~(ss[i].device = new.device /\ ss[i].key = new.key)
  PROVE  LET ssn == Append(ss, new)
         IN  /\ ssn \in Seq(Session) /\ Evolves(ss, ssn)
             /\ SessionsFit(rs, ssn) /\ KeysUnique(ssn)
             /\ Len(ss) + 1 \in DOMAIN ssn /\ ssn[Len(ss) + 1] = new
<1> DEFINE ssn == Append(ss, new)
           n == Len(ss)
<1>1. /\ n \in Nat /\ DOMAIN ss = 1..n
      /\ ssn \in Seq(Session) /\ DOMAIN ssn = 1..(n + 1)
      /\ \A i \in 1..n : ssn[i] = ss[i]
      /\ ssn[n + 1] = new
  BY AppendProperties, LenProperties
<1> HIDE DEF ssn, n
<1>2. Evolves(ss, ssn)
  BY <1>1 DEF Evolves, SamePlan, Named
<1>3. SessionsFit(rs, ssn)
  BY <1>1 DEF SessionsFit
<1>4. KeysUnique(ssn)
  BY <1>1 DEF KeysUnique
<1> QED BY <1>1, <1>2, <1>3, <1>4 DEF ssn, n

LEMMA InsertKeeps ==
  ASSUME SyncInv, NEW h \in Handlers, InsertSession(h)
  PROVE  [Next]_storeVars /\ OwnPush(h) /\ Keeps(h)
<1> DEFINE c == call[h]
           new == [device |-> c.device, key |-> c.key, saves |-> c.saves,
                   status |-> "proposed", ops |-> c.plan]
<1>1. c \in CreateCall /\ c.kind = "create" /\ CreateFits(revisions, sessions, c)
  BY CreateKnows DEF InsertSession
<1>2. UNCHANGED <<revisions, push>>
  BY DEF InsertSession
<1>3. PlanFits(revisions, c.saves, c.plan)
  BY <1>1 DEF CreateFits
<1>4. CASE Replies(h, FALSE) /\ UNCHANGED sessions
  BY <1>1, <1>2, <1>4, CreationRefused, StoreUntouched
<1>5. ASSUME SessionsOf(c.device, c.key) = {}, sessions' = Append(sessions, new),
             call' = [call EXCEPT ![h].session = Len(sessions) + 1,
                                  ![h].pc = "aggregate"]
      PROVE  Keeps(h)
  <2> DEFINE n == Len(sessions) + 1
             cn == [c EXCEPT !.session = n, !.pc = "aggregate"]
  <2>1. call' = [call EXCEPT ![h] = cn]
    BY <1>5 DEF SyncInv, SyncTypeOK
  <2>2. sessions \in Seq(Session) /\ n \in Nat
    BY DEF SyncInv, SyncTypeOK
  <2>3. /\ new \in Session /\ new.device = c.device /\ new.key = c.key
        /\ new.saves = c.saves /\ new.ops = c.plan
    BY <1>1 DEF Session, CreateCall
  <2>4. /\ cn \in CreateCall /\ cn.kind = "create" /\ cn.pc = "aggregate"
        /\ cn.plan = c.plan /\ cn.saves = c.saves
        /\ cn.device = c.device /\ cn.key = c.key /\ cn.session = n
    BY <1>1, <2>2 DEF CreateCall
  <2>5. \A i \in DOMAIN sessions :
          ~(sessions[i].device = c.device /\ sessions[i].key = c.key)
    BY <1>5 DEF SessionsOf
  <2> HIDE DEF c, new, cn
  <2>6. /\ sessions' \in Seq(Session) /\ Evolves(sessions, sessions')
        /\ SessionsFit(revisions, sessions') /\ KeysUnique(sessions')
        /\ n \in DOMAIN sessions' /\ sessions'[n] = new
    BY <1>3, <1>5, <2>2, <2>3, <2>5, SessionAppended DEF SyncInv
  <2> HIDE DEF n
  <2>7. cn \in Call /\ CallFits(revisions, sessions', cn) /\ PushFits(cn, push'[h])
    BY <1>3, <2>3, <2>4, <2>6 DEF Call, CallFits, CreateFits, Answers, PushFits
  <2>8. call'[h] = cn
    BY <2>1 DEF SyncInv, SyncTypeOK
  <2> QED BY <1>2, <2>1, <2>6, <2>7, <2>8 DEF Keeps
<1> QED BY <1>2, <1>4, <1>5, StoreUntouched DEF InsertSession

-----------------------------------------------------------------------------
(* The aggregate *)

\* What any request for an operation knows.
LEMMA OperationKnows ==
  ASSUME SyncInv, NEW h \in Handlers,
         \/ call[h].pc \in {"push", "fail", "complete", "write", "reject"}
         \/ call[h].pc # "idle" /\ call[h].kind # "create"
  PROVE  /\ call[h] \in OperationCall
         /\ call[h].kind \in {"upload", "ack"}
         /\ OperationFits(revisions, sessions, call[h])
<1>1. call[h] \in Call
  BY DEF SyncInv, SyncTypeOK, Call
<1>2. /\ call[h].pc # "idle" /\ call[h] \in OperationCall
      /\ call[h].kind \in {"upload", "ack"} /\ call[h].kind # "create"
  BY <1>1, OperationCallTyped
<1> QED BY <1>2 DEF SyncInv, CallsFit, CallFits

\* A request that is done with its operation need not know its content.
LEMMA OperationDone ==
  ASSUME NEW rs, NEW ss, NEW c \in OperationCall, OperationFits(rs, ss, c),
         NEW cn \in OperationCall, cn.kind = c.kind, cn.session = c.session,
         cn.stream = c.stream, cn.target = c.target,
         cn.pc \in {"reject", "aggregate", "store", "reply"}
  PROVE  CallFits(rs, ss, cn) /\ \A p : PushFits(cn, p)
<1>1. c.kind \in {"upload", "ack"}
  BY DEF OperationCall
<1>2. CarriesContent(rs, cn, ss[c.session].ops[c.stream])
  <2> DEFINE op == ss[c.session].ops[c.stream]
  <2>1. CarriesContent(rs, c, op)
    BY DEF OperationFits
  <2> HIDE DEF op
  <2>2. CarriesContent(rs, cn, op)
    BY <2>1 DEF CarriesContent
  <2> QED BY <2>2 DEF op
<1> QED BY <1>1, <1>2 DEF CallFits, OperationFits, PushFits

LEMMA StatusTyped == \A ops : StatusOf(ops) \in {"transferring", "complete", "partial"}
BY DEF StatusOf

LEMMA AggregateKeeps ==
  ASSUME SyncInv, NEW h \in Handlers, ReadOperations(h)
  PROVE  [Next]_storeVars /\ OwnPush(h) /\ Keeps(h)
<1> DEFINE c == call[h]
           status == StatusOf(sessions[c.session].ops)
           cn == [c EXCEPT !.pc = "store", !.status = status]
<1>1. UNCHANGED <<revisions, push, sessions>> /\ c.pc = "aggregate"
  BY DEF ReadOperations
<1>2. call' = [call EXCEPT ![h] = cn]
  BY DEF ReadOperations, SyncInv, SyncTypeOK
<1>3. status \in {"transferring", "complete", "partial"}
  BY StatusTyped
<1> HIDE DEF status
<1>4. cn \in Call /\ CallFits(revisions, sessions, cn) /\ PushFits(cn, push'[h])
  <2>1. CASE c.kind = "create"
    <3>1. c \in CreateCall /\ CreateFits(revisions, sessions, c)
      BY <1>1, <2>1, CreateKnows
    <3>2. /\ cn \in CreateCall /\ cn.kind = "create" /\ cn.pc = "store"
          /\ cn.plan = c.plan /\ cn.saves = c.saves
          /\ cn.device = c.device /\ cn.key = c.key /\ cn.session = c.session
      BY <1>3, <3>1 DEF CreateCall
    <3>3. PlanFits(revisions, c.saves, c.plan) /\ Answers(sessions, c)
      BY <1>1, <3>1 DEF CreateFits
    <3> HIDE DEF c, cn
    <3> QED BY <3>2, <3>3 DEF Call, CallFits, CreateFits, Answers, PushFits
  <2>2. CASE c.kind # "create"
    <3>1. c \in OperationCall /\ OperationFits(revisions, sessions, c)
      BY <1>1, <2>2, OperationKnows
    <3>2. /\ cn \in OperationCall /\ cn.kind = c.kind /\ cn.session = c.session
          /\ cn.stream = c.stream /\ cn.target = c.target /\ cn.pc = "store"
      BY <1>3, <3>1 DEF OperationCall
    <3> HIDE DEF c, cn
    <3> QED BY <3>1, <3>2, OperationDone DEF Call
  <2> QED BY <2>1, <2>2
<1> HIDE DEF c, cn
<1> QED BY <1>1, <1>2, <1>4, OnlyCallMoves, StoreUntouched

\* The status of a session is no part of its plan.
LEMMA StatusStored ==
  ASSUME NEW rs, NEW ss \in Seq(Session), NEW i \in DOMAIN ss,
         NEW status \in {"transferring", "complete", "partial"},
         SessionsFit(rs, ss), KeysUnique(ss)
  PROVE  LET ssn == [ss EXCEPT ![i].status = status]
         IN  /\ ssn \in Seq(Session) /\ Evolves(ss, ssn)
             /\ SessionsFit(rs, ssn) /\ KeysUnique(ssn)
<1> DEFINE new == [ss[i] EXCEPT !.status = status]
           ssn == [ss EXCEPT ![i] = new]
<1>1. ss[i] \in Session
  OBVIOUS
<1>2. /\ new \in Session /\ new.device = ss[i].device /\ new.key = ss[i].key
      /\ new.saves = ss[i].saves /\ new.ops = ss[i].ops
  BY <1>1 DEF Session
<1> HIDE DEF new
<1>3. /\ ssn \in Seq(Session) /\ DOMAIN ssn = DOMAIN ss
      /\ \A j \in DOMAIN ss : ssn[j] = IF j = i THEN new ELSE ss[j]
  BY <1>2
<1> HIDE DEF ssn
<1>4. \A j \in DOMAIN ss : /\ ssn[j].device = ss[j].device /\ ssn[j].key = ss[j].key
                           /\ ssn[j].saves = ss[j].saves /\ ssn[j].ops = ss[j].ops
  BY <1>2, <1>3
<1>5. Evolves(ss, ssn) /\ SessionsFit(rs, ssn) /\ KeysUnique(ssn)
  <2>1. Evolves(ss, ssn)
    <3>1. \A s \in Streams : \A j \in DOMAIN ss :
            s \in Named(ss[j].ops) => SamePlan(ss[j].ops[s], ss[j].ops[s])
      BY DEF SamePlan, Named
    <3> QED BY <1>3, <1>4, <3>1 DEF Evolves, Named
  <2>2. SessionsFit(rs, ssn)
    BY <1>3, <1>4 DEF SessionsFit
  <2>3. KeysUnique(ssn)
    BY <1>3, <1>4 DEF KeysUnique
  <2> QED BY <2>1, <2>2, <2>3
<1> QED BY <1>3, <1>5 DEF ssn, new

LEMMA StoreStatusKeeps ==
  ASSUME SyncInv, NEW h \in Handlers, StoreSessionStatus(h)
  PROVE  [Next]_storeVars /\ OwnPush(h) /\ Keeps(h)
<1> DEFINE c == call[h]
           ok == c.kind = "create" \/ c.ok
           cn == [c EXCEPT !.pc = "reply", !.ok = ok]
<1>1. UNCHANGED <<revisions, push>> /\ c.pc = "store"
  BY DEF StoreSessionStatus
<1>2. sessions' = [sessions EXCEPT ![c.session].status = c.status]
  BY DEF StoreSessionStatus
<1>3. call' = [call EXCEPT ![h] = cn]
  BY DEF StoreSessionStatus, Replies, SyncInv, SyncTypeOK
<1>4. ok \in BOOLEAN
  OBVIOUS
<1> HIDE DEF ok
<1>5. /\ c.session \in DOMAIN sessions
      /\ c.status \in {"transferring", "complete", "partial"}
      /\ cn \in Call
      /\ CallFits(revisions, sessions, cn)
  <2>1. CASE c.kind = "create"
    <3>1. c \in CreateCall /\ CreateFits(revisions, sessions, c)
      BY <1>1, <2>1, CreateKnows
    <3>2. /\ cn \in CreateCall /\ cn.kind = "create" /\ cn.pc = "reply"
          /\ cn.plan = c.plan /\ cn.saves = c.saves
          /\ cn.device = c.device /\ cn.key = c.key /\ cn.session = c.session
      BY <1>4, <3>1 DEF CreateCall
    <3>3. PlanFits(revisions, c.saves, c.plan) /\ Answers(sessions, c)
      BY <1>1, <3>1 DEF CreateFits
    <3>4. c.status \in {"transferring", "complete", "partial"}
      BY <3>1 DEF CreateCall
    <3> HIDE DEF c, cn
    <3> QED BY <3>2, <3>3, <3>4 DEF Call, CallFits, CreateFits, Answers
  <2>2. CASE c.kind # "create"
    <3>1. c \in OperationCall /\ OperationFits(revisions, sessions, c)
      BY <1>1, <2>2, OperationKnows
    <3>2. /\ cn \in OperationCall /\ cn.kind = c.kind /\ cn.session = c.session
          /\ cn.stream = c.stream /\ cn.target = c.target /\ cn.pc = "reply"
      BY <1>4, <3>1 DEF OperationCall
    <3>3. c.status \in {"transferring", "complete", "partial"}
      BY <3>1 DEF OperationCall
    <3>4. c.session \in DOMAIN sessions
      BY <3>1 DEF OperationFits
    <3> HIDE DEF c, cn
    <3> QED BY <3>1, <3>2, <3>3, <3>4, OperationDone DEF Call
  <2> QED BY <2>1, <2>2
<1>6. /\ sessions' \in Seq(Session) /\ Evolves(sessions, sessions')
      /\ SessionsFit(revisions, sessions') /\ KeysUnique(sessions')
  BY <1>2, <1>5, StatusStored DEF SyncInv, SyncTypeOK
<1>7. CallFits(revisions, sessions', cn)
  BY <1>5, <1>6, GrowsReflexive, CallFitLasts
<1>8. call'[h] = cn /\ cn.pc = "reply"
  <2>1. call[h] \in Call /\ call'[h] = cn
    BY <1>3 DEF SyncInv, SyncTypeOK, Call
  <2>2. cn.pc = "reply"
    BY <1>1, <2>1 DEF Call, CreateCall, OperationCall, NoCall
  <2> QED BY <2>1, <2>2
<1> HIDE DEF c, cn
<1>9. PushFits(cn, push'[h])
  BY <1>8 DEF PushFits
<1> QED BY <1>1, <1>3, <1>5, <1>6, <1>7, <1>8, <1>9, StoreUntouched DEF Keeps

-----------------------------------------------------------------------------
(* Uploads and acknowledgements *)

LEMMA StartOfOperation ==
  ASSUME SyncInv, NEW h \in Handlers, NEW i \in DOMAIN sessions,
         NEW s \in Named(sessions[i].ops)
  PROVE  LET op == sessions[i].ops[s]
         IN  /\ s \in Streams /\ op \in Operation
             /\ OpFits(revisions, s, sessions[i].saves[s], op)
             /\ sessions[i].device \in Devices /\ i \in Nat
<1>1. sessions \in Seq(Session)
  BY DEF SyncInv, SyncTypeOK
<1>2. sessions[i] \in Session /\ i \in Nat
  BY <1>1
<1>3. sessions[i].device \in Devices /\ sessions[i].ops \in Plan
  BY <1>2 DEF Session
<1> QED BY <1>2, <1>3, OperationTyped DEF SyncInv, SessionsFit, PlanFits

LEMMA UploadKeeps ==
  ASSUME SyncInv, NEW h \in Handlers, ClientUploads(h)
  PROVE  [Next]_storeVars /\ OwnPush(h) /\ Keeps(h)
<1>1. PICK i \in DOMAIN sessions : \E s \in Named(sessions[i].ops), received \in Hashes :
        UploadOperation(h, i, s, received)
  BY DEF ClientUploads
<1>2. PICK s \in Named(sessions[i].ops), received \in Hashes :
        UploadOperation(h, i, s, received)
  BY <1>1
<1> DEFINE op == sessions[i].ops[s]
           c(pc, actual) == OperationRequest("upload", pc, i, s, actual, NoRevision)
<1>3. /\ s \in Streams /\ op \in Operation
      /\ OpFits(revisions, s, sessions[i].saves[s], op)
      /\ sessions[i].device \in Devices /\ i \in Nat
  BY StartOfOperation
<1>4. UNCHANGED <<revisions, sessions>> /\ op.action = "upload"
  BY <1>2 DEF ClientUploads, UploadOperation
<1>5. TypeOK /\ push[h].pc = "idle"
  BY DEF ClientUploads, Idle, SyncInv, StoreInv
<1>6. \A pc \in {"push", "fail"}, actual \in Hashes \cup {NoHash} :
        c(pc, actual) \in Call /\ c(pc, actual) # NoCall
  BY <1>3 DEF OperationRequest, OperationCall, Call, NoRevision, NoCall
<1>7. CASE received = op.expected
  <2> DEFINE cn == c("push", received)
  <2>1. /\ call' = [call EXCEPT ![h] = cn]
        /\ PushSet(h, s, sessions[i].device, op.base, received)
    BY <1>2, <1>7 DEF UploadOperation
  <2>2. CallFits(revisions, sessions, cn)
    BY <1>4, <1>7 DEF CallFits, OperationFits, CarriesContent, OperationRequest
  <2>3. PushFits(cn, push'[h])
    BY <2>1, <1>5 DEF PushSet, PushFits, OperationRequest, TypeOK
  <2>4. op.base \in {NoRevision} \cup DOMAIN revisions
    BY <1>3 DEF OpFits
  <2>5. UploadRevision(h)
    <3> DEFINE base == op.base
               d == sessions[i].device
    <3>1. base \in {NoRevision} \cup DOMAIN revisions /\ d \in Devices
      BY <1>3, <2>4
    <3>2. PushSet(h, s, d, base, received)
      BY <2>1
    <3> HIDE DEF base, d
    <3> QED BY <1>3, <1>4, <1>5, <3>1, <3>2 DEF UploadRevision
  <2>6. [Next]_storeVars /\ OwnPush(h)
    BY <1>5, <2>5, OneCallMoves DEF Next, OwnPush
  <2>7. cn \in Call
    BY <1>6
  <2> HIDE DEF cn
  <2> QED BY <1>4, <2>1, <2>2, <2>3, <2>6, <2>7, OnlyCallMoves
<1>8. CASE received # op.expected
  <2> DEFINE cn == c("fail", NoHash)
  <2>1. call' = [call EXCEPT ![h] = cn] /\ UNCHANGED push
    BY <1>2, <1>8 DEF UploadOperation
  <2>2. CallFits(revisions, sessions, cn) /\ PushFits(cn, push'[h])
    BY <1>4 DEF CallFits, OperationFits, CarriesContent, OperationRequest, PushFits
  <2>3. cn \in Call
    BY <1>6
  <2> HIDE DEF cn
  <2> QED BY <1>4, <2>1, <2>2, <2>3, OnlyCallMoves, StoreUntouched
<1> QED BY <1>7, <1>8

LEMMA AckKeeps ==
  ASSUME SyncInv, NEW h \in Handlers, ClientAcks(h)
  PROVE  [Next]_storeVars /\ OwnPush(h) /\ Keeps(h)
<1>1. PICK i \in DOMAIN sessions : \E s \in Named(sessions[i].ops), actual \in Hashes :
        AckOperation(h, i, s, actual)
  BY DEF ClientAcks
<1>2. PICK s \in Named(sessions[i].ops), actual \in Hashes : AckOperation(h, i, s, actual)
  BY <1>1
<1> DEFINE op == sessions[i].ops[s]
           cn == OperationRequest("ack", "complete", i, s, actual, op.target)
<1>3. s \in Streams /\ op \in Operation /\ i \in Nat
  BY StartOfOperation
<1>4. /\ UNCHANGED <<revisions, push, sessions>> /\ op.action = "download"
      /\ call' = [call EXCEPT ![h] = cn]
  BY <1>2 DEF ClientAcks, AckOperation
<1>5. CallFits(revisions, sessions, cn) /\ PushFits(cn, push'[h])
  BY <1>4 DEF CallFits, OperationFits, CarriesContent, OperationRequest, PushFits
<1>6. cn \in Call
  <2>1. op.target \in Nat
    BY <1>3 DEF Operation
  <2> HIDE DEF op
  <2> QED BY <1>3, <2>1 DEF OperationRequest, OperationCall, Call
<1> HIDE DEF cn
<1> QED BY <1>4, <1>5, <1>6, OnlyCallMoves, StoreUntouched

\* One operation of one session, updated within its plan.
LEMMA OperationUpdated ==
  ASSUME NEW rs, NEW ss \in Seq(Session), NEW i \in DOMAIN ss,
         NEW s \in Named(ss[i].ops), NEW op \in Operation,
         SamePlan(ss[i].ops[s], op), OpFits(rs, s, ss[i].saves[s], op),
         SessionsFit(rs, ss), KeysUnique(ss),
         NEW ssn, ssn = [ss EXCEPT ![i].ops[s] = op]
  PROVE  /\ ssn \in Seq(Session) /\ Evolves(ss, ssn)
         /\ SessionsFit(rs, ssn) /\ KeysUnique(ssn)
<1> DEFINE ops == [ss[i].ops EXCEPT ![s] = op]
           new == [ss[i] EXCEPT !.ops = ops]
<1>0. ssn = [ss EXCEPT ![i] = new]
  OBVIOUS
<1>1. ss[i] \in Session
  OBVIOUS
<1>2. ss[i].ops \in Plan /\ s \in Streams
  BY <1>1 DEF Session, Named
<1>3. /\ ops \in Plan /\ ops[s] = op
      /\ \A r \in Streams : r # s => ops[r] = ss[i].ops[r]
  BY <1>2 DEF Plan
<1> HIDE DEF ops
<1>4. /\ new \in Session /\ new.device = ss[i].device /\ new.key = ss[i].key
      /\ new.saves = ss[i].saves /\ new.ops = ops
  BY <1>1, <1>3 DEF Session
<1> HIDE DEF new
<1>5. /\ ssn \in Seq(Session) /\ DOMAIN ssn = DOMAIN ss
      /\ \A j \in DOMAIN ss : ssn[j] = IF j = i THEN new ELSE ss[j]
  BY <1>0, <1>4
<1>6. \A j \in DOMAIN ss : /\ ssn[j].device = ss[j].device /\ ssn[j].key = ss[j].key
                           /\ ssn[j].saves = ss[j].saves
  BY <1>4, <1>5
<1>7. \A j \in DOMAIN ss : \A r \in Streams :
        ssn[j].ops[r] = IF j = i /\ r = s THEN op ELSE ss[j].ops[r]
  <2>1. \A r \in Streams : ssn[i].ops[r] = IF r = s THEN op ELSE ss[i].ops[r]
    <3>1. ssn[i].ops = ops
      BY <1>4, <1>5
    <3>2. ops[s] = op /\ \A r \in Streams : r # s => ops[r] = ss[i].ops[r]
      BY <1>3
    <3> QED BY <3>1, <3>2, Zenon
  <2>2. \A j \in DOMAIN ss : j # i => ssn[j].ops = ss[j].ops
    BY <1>5
  <2> QED BY <2>1, <2>2
<1>8. op # Absent
  BY OperationNamed
<1>9. \A j \in DOMAIN ss : Named(ssn[j].ops) = Named(ss[j].ops)
  BY <1>7, <1>8, <1>2 DEF Named
<1>10. Evolves(ss, ssn)
  <2>1. ASSUME NEW j \in DOMAIN ss, NEW r \in Named(ss[j].ops)
        PROVE  SamePlan(ss[j].ops[r], ssn[j].ops[r])
    <3>1. r \in Streams /\ ss[j].ops[r] # Absent
      BY DEF Named
    <3>2. CASE j = i /\ r = s
      BY <3>1, <3>2, <1>7
    <3>3. CASE ~(j = i /\ r = s)
      BY <3>1, <3>3, <1>7 DEF SamePlan
    <3> QED BY <3>2, <3>3
  <2> QED BY <2>1, <1>5, <1>6, <1>9 DEF Evolves
<1>11. SessionsFit(rs, ssn)
  <2>1. ASSUME NEW j \in DOMAIN ss, NEW r \in Named(ss[j].ops)
        PROVE  OpFits(rs, r, ssn[j].saves[r], ssn[j].ops[r])
    <3>1. r \in Streams
      BY DEF Named
    <3>2. OpFits(rs, r, ss[j].saves[r], ss[j].ops[r])
      BY DEF SessionsFit, PlanFits
    <3>3. CASE j = i /\ r = s
      BY <3>1, <3>3, <1>6, <1>7
    <3>4. CASE ~(j = i /\ r = s)
      BY <3>1, <3>2, <3>4, <1>6, <1>7
    <3> QED BY <3>3, <3>4
  <2> QED BY <2>1, <1>5, <1>9 DEF SessionsFit, PlanFits
<1>12. KeysUnique(ssn)
  BY <1>5, <1>6 DEF KeysUnique
<1> QED BY <1>5, <1>10, <1>11, <1>12

\* A request that updates its operation within its plan and is done with it.
LEMMA OperationWritten ==
  ASSUME SyncInv, NEW h \in Handlers, NEW c \in OperationCall, c = call[h],
         OperationFits(revisions, sessions, c), UNCHANGED <<revisions, push>>,
         NEW op \in Operation, SamePlan(Op(c), op), UpdateOp(c, op),
         OpFits(revisions, c.stream, sessions[c.session].saves[c.stream], op),
         NEW cn \in OperationCall, call' = [call EXCEPT ![h] = cn],
         cn.kind = c.kind, cn.session = c.session, cn.stream = c.stream,
         cn.target = c.target, cn.pc \in {"reject", "aggregate", "store", "reply"}
  PROVE  [Next]_storeVars /\ OwnPush(h) /\ Keeps(h)
<1>1. c.session \in DOMAIN sessions /\ c.stream \in Named(sessions[c.session].ops)
  BY DEF OperationFits
<1>2. /\ sessions' \in Seq(Session) /\ Evolves(sessions, sessions')
      /\ SessionsFit(revisions, sessions') /\ KeysUnique(sessions')
  <2>1. /\ sessions \in Seq(Session)
        /\ SessionsFit(revisions, sessions) /\ KeysUnique(sessions)
    BY DEF SyncInv, SyncTypeOK
  <2>2. /\ sessions' = [sessions EXCEPT ![c.session].ops[c.stream] = op]
        /\ SamePlan(sessions[c.session].ops[c.stream], op)
    BY DEF UpdateOp, Op
  <2> QED BY <1>1, <2>1, <2>2, OperationUpdated
<1>3. CallFits(revisions, sessions', cn) /\ PushFits(cn, push'[h])
  BY <1>2, OperationDone, CallFitLasts, GrowsReflexive
<1>4. call'[h] = cn /\ cn \in Call
  BY DEF SyncInv, SyncTypeOK, Call
<1> QED BY <1>2, <1>3, <1>4, StoreUntouched DEF Keeps

\* The outcome of CompleteSyncOperation, in the locals of the request.
LEMMA ReturnOfComplete ==
  ASSUME SyncInv, NEW h \in Handlers, NEW c \in OperationCall, c = call[h],
         NEW ok \in BOOLEAN, CompleteReturns(h, ok)
  PROVE  \E cn \in OperationCall :
           /\ call' = [call EXCEPT ![h] = cn]
           /\ cn.kind = c.kind /\ cn.session = c.session /\ cn.stream = c.stream
           /\ cn.target = c.target /\ cn.pc \in {"aggregate", "reply"}
<1> DEFINE pc == IF ok \/ c.kind = "ack" THEN "aggregate" ELSE "reply"
           cn == [c EXCEPT !.ok = ok, !.pc = pc]
<1>1. call' = [call EXCEPT ![h] = cn]
  BY DEF CompleteReturns, SyncInv, SyncTypeOK
<1>2. pc \in {"aggregate", "reply"}
  OBVIOUS
<1> HIDE DEF pc
<1>3. /\ cn \in OperationCall /\ cn.kind = c.kind /\ cn.session = c.session
      /\ cn.stream = c.stream /\ cn.target = c.target /\ cn.pc \in {"aggregate", "reply"}
  BY <1>2 DEF OperationCall
<1> HIDE DEF cn
<1> QED BY <1>1, <1>3

\* An operation that failed keeps its plan.
LEMMA FailureFits ==
  ASSUME NEW rs, NEW s, NEW state, NEW op \in Operation, OpFits(rs, s, state, op),
         NEW actual \in Hashes \cup {NoHash}
  PROVE  LET opn == [op EXCEPT !.status = "failed", !.actual = actual]
         IN  opn \in Operation /\ SamePlan(op, opn) /\ OpFits(rs, s, state, opn)
<1> DEFINE opn == [op EXCEPT !.status = "failed", !.actual = actual]
<1>1. /\ opn \in Operation
      /\ opn.action = op.action /\ opn.base = op.base /\ opn.target = op.target
      /\ opn.expected = op.expected /\ opn.status = "failed"
  BY DEF Operation
<1> HIDE DEF opn
<1>2. opn # Absent
  BY <1>1, OperationNamed
<1>3. SamePlan(op, opn) /\ OpFits(rs, s, state, opn)
  BY <1>1, <1>2 DEF SamePlan, OpFits
<1> QED BY <1>1, <1>3 DEF opn

\* What a request knows of its operation.
LEMMA OwnOperation ==
  ASSUME SyncInv, NEW c \in OperationCall, OperationFits(revisions, sessions, c)
  PROVE  /\ Op(c) \in Operation
         /\ OpFits(revisions, c.stream, sessions[c.session].saves[c.stream], Op(c))
         /\ CarriesContent(revisions, c, Op(c))
         /\ c.actual \in Hashes \cup {NoHash} /\ c.target \in Nat
<1>1. c.session \in DOMAIN sessions /\ c.stream \in Named(sessions[c.session].ops)
  BY DEF OperationFits
<1>2. sessions \in Seq(Session)
  BY DEF SyncInv, SyncTypeOK
<1>3. sessions[c.session].ops \in Plan
  <2>1. sessions[c.session] \in Session
    BY <1>1, <1>2
  <2> QED BY <2>1 DEF Session
<1>4. Op(c) \in Operation
  BY <1>1, <1>3, OperationTyped DEF Op
<1>5. OpFits(revisions, c.stream, sessions[c.session].saves[c.stream], Op(c))
  BY <1>1 DEF SyncInv, SessionsFit, PlanFits, Op
<1> QED BY <1>4, <1>5 DEF OperationFits, OperationCall, Op

LEMMA FailKeeps ==
  ASSUME SyncInv, NEW h \in Handlers, FailSyncOperation(h)
  PROVE  [Next]_storeVars /\ OwnPush(h) /\ Keeps(h)
<1> DEFINE c == call[h]
           cn == [c EXCEPT !.pc = "aggregate"]
           op == [Op(c) EXCEPT !.status = "failed", !.actual = c.actual]
<1>1. UNCHANGED <<revisions, push>> /\ c.pc = "fail"
  BY DEF FailSyncOperation
<1>2. c \in OperationCall /\ OperationFits(revisions, sessions, c)
  BY <1>1, OperationKnows
<1>3. call' = [call EXCEPT ![h] = cn]
  BY DEF FailSyncOperation, Goes, SyncInv, SyncTypeOK
<1>4. /\ cn \in OperationCall /\ cn.kind = c.kind /\ cn.session = c.session
      /\ cn.stream = c.stream /\ cn.target = c.target /\ cn.pc = "aggregate"
  BY <1>2 DEF OperationCall
<1>5. CASE UNCHANGED sessions
  <2>1. CallFits(revisions, sessions, cn) /\ PushFits(cn, push'[h])
    BY <1>2, <1>4, OperationDone
  <2>2. cn \in Call
    BY <1>4 DEF Call
  <2> HIDE DEF cn
  <2> QED BY <1>1, <1>3, <1>5, <2>1, <2>2, OnlyCallMoves, StoreUntouched
<1>6. CASE UpdateOp(c, op)
  <2>1. /\ op \in Operation /\ SamePlan(Op(c), op)
        /\ OpFits(revisions, c.stream, sessions[c.session].saves[c.stream], op)
    BY <1>2, OwnOperation, FailureFits
  <2> HIDE DEF c, cn, op
  <2> QED BY <1>1, <1>2, <1>3, <1>4, <1>6, <2>1, OperationWritten DEF c
<1> QED BY <1>5, <1>6 DEF FailSyncOperation

LEMMA RejectKeeps ==
  ASSUME SyncInv, NEW h \in Handlers, RejectOperation(h)
  PROVE  [Next]_storeVars /\ OwnPush(h) /\ Keeps(h)
<1> DEFINE c == call[h]
           op == [Op(c) EXCEPT !.status = "failed", !.actual = c.actual]
<1>1. UNCHANGED <<revisions, push>> /\ c.pc = "reject"
  BY DEF RejectOperation
<1>2. c \in OperationCall /\ OperationFits(revisions, sessions, c)
  BY <1>1, OperationKnows
<1>3. UpdateOp(c, op) /\ CompleteReturns(h, FALSE)
  BY DEF RejectOperation
<1>4. /\ op \in Operation /\ SamePlan(Op(c), op)
      /\ OpFits(revisions, c.stream, sessions[c.session].saves[c.stream], op)
  BY <1>2, OwnOperation, FailureFits
<1>5. PICK cn \in OperationCall :
        /\ call' = [call EXCEPT ![h] = cn]
        /\ cn.kind = c.kind /\ cn.session = c.session /\ cn.stream = c.stream
        /\ cn.target = c.target /\ cn.pc \in {"aggregate", "reply"}
  BY <1>2, <1>3, ReturnOfComplete
<1> HIDE DEF c, op
<1> QED BY <1>1, <1>2, <1>3, <1>4, <1>5, OperationWritten DEF c

LEMMA CompleteKeeps ==
  ASSUME SyncInv, NEW h \in Handlers, CompleteOperation(h)
  PROVE  [Next]_storeVars /\ OwnPush(h) /\ Keeps(h)
<1> DEFINE c == call[h]
           old == Op(c)
           op == [old EXCEPT !.status = "complete", !.actual = c.actual,
                             !.target = c.target]
           state == sessions[c.session].saves[c.stream]
<1>1. UNCHANGED <<revisions, push>> /\ c.pc = "write"
  BY DEF CompleteOperation
<1>2. c \in OperationCall /\ OperationFits(revisions, sessions, c)
  BY <1>1, OperationKnows
<1>3. UpdateOp(c, op) /\ CompleteReturns(h, TRUE)
  BY DEF CompleteOperation
<1>4. /\ old \in Operation /\ OpFits(revisions, c.stream, state, old)
      /\ CarriesContent(revisions, c, old)
      /\ c.actual \in Hashes \cup {NoHash} /\ c.target \in Nat
  BY <1>2, OwnOperation
<1>5. PICK cn \in OperationCall :
        /\ call' = [call EXCEPT ![h] = cn]
        /\ cn.kind = c.kind /\ cn.session = c.session /\ cn.stream = c.stream
        /\ cn.target = c.target /\ cn.pc \in {"aggregate", "reply"}
  BY <1>2, <1>3, ReturnOfComplete
<1>6. c.kind \in {"upload", "ack"}
  BY <1>2 DEF OperationCall
<1> HIDE DEF c, old, state
<1>7. /\ op \in Operation
      /\ op.action = old.action /\ op.base = old.base /\ op.expected = old.expected
      /\ op.target = c.target /\ op.actual = c.actual
  BY <1>4 DEF Operation
<1> HIDE DEF op
<1>8. op # Absent
  BY <1>7, OperationNamed
<1>9. /\ c.actual = old.expected
      /\ Stored(revisions, c.stream, c.target, old.expected)
      /\ old.action = "download" => c.target = old.target
  <2>1. CASE c.kind = "upload"
    BY <2>1, <1>1, <1>4 DEF CarriesContent
  <2>2. CASE c.kind = "ack"
    BY <2>2, <1>1, <1>4 DEF CarriesContent, OpFits
  <2> QED BY <1>6, <2>1, <2>2
<1>10. SamePlan(old, op) /\ OpFits(revisions, c.stream, state, op)
  BY <1>4, <1>7, <1>8, <1>9 DEF SamePlan, OpFits
<1> QED BY <1>1, <1>2, <1>3, <1>5, <1>7, <1>10, OperationWritten DEF c, old, state

LEMMA ReadOperationKeeps ==
  ASSUME SyncInv, NEW h \in Handlers, ReadOperation(h)
  PROVE  [Next]_storeVars /\ OwnPush(h) /\ Keeps(h)
<1> DEFINE c == call[h]
           op == Op(c)
<1>1. UNCHANGED <<revisions, push, sessions>> /\ c.pc = "complete"
  BY DEF ReadOperation
<1>2. /\ c \in OperationCall /\ c.kind \in {"upload", "ack"}
      /\ OperationFits(revisions, sessions, c)
  BY <1>1, OperationKnows
<1>3. ASSUME NEW ok \in BOOLEAN, CompleteReturns(h, ok)
      PROVE  Keeps(h)
  <2>1. PICK cn \in OperationCall :
          /\ call' = [call EXCEPT ![h] = cn]
          /\ cn.kind = c.kind /\ cn.session = c.session /\ cn.stream = c.stream
          /\ cn.target = c.target /\ cn.pc \in {"aggregate", "reply"}
    BY <1>2, <1>3, ReturnOfComplete
  <2>2. CallFits(revisions, sessions, cn) /\ PushFits(cn, push'[h])
    BY <1>2, <2>1, OperationDone
  <2>3. cn \in Call
    BY DEF Call
  <2> QED BY <1>1, <2>1, <2>2, <2>3, OnlyCallMoves
<1>4. CASE Goes(h, "reject")
  <2> DEFINE cn == [c EXCEPT !.pc = "reject"]
  <2>1. call' = [call EXCEPT ![h] = cn]
    BY <1>4 DEF Goes, SyncInv, SyncTypeOK
  <2>2. /\ cn \in OperationCall /\ cn.kind = c.kind /\ cn.session = c.session
        /\ cn.stream = c.stream /\ cn.target = c.target /\ cn.pc = "reject"
    BY <1>2 DEF OperationCall
  <2>3. CallFits(revisions, sessions, cn) /\ PushFits(cn, push'[h])
    BY <1>2, <2>2, OperationDone
  <2>4. cn \in Call
    BY <2>2 DEF Call
  <2> HIDE DEF cn
  <2> QED BY <1>1, <2>1, <2>3, <2>4, OnlyCallMoves, StoreUntouched
<1>5. CASE Goes(h, "write") /\ ~Mismatch(op, c.actual)
  <2> DEFINE cn == [c EXCEPT !.pc = "write"]
  <2>1. call' = [call EXCEPT ![h] = cn]
    BY <1>5 DEF Goes, SyncInv, SyncTypeOK
  <2>2. /\ cn \in OperationCall /\ cn.kind = c.kind /\ cn.session = c.session
        /\ cn.stream = c.stream /\ cn.target = c.target /\ cn.pc = "write"
        /\ cn.actual = c.actual
    BY <1>2 DEF OperationCall
  <2>3. /\ OpFits(revisions, c.stream, sessions[c.session].saves[c.stream], op)
        /\ CarriesContent(revisions, c, op)
    BY <1>2, OwnOperation
  <2>4. c.kind = "ack" => c.actual = op.expected
    <3>1. SUFFICES ASSUME c.kind = "ack" PROVE op.expected # NoHash
      BY <1>5 DEF Mismatch
    <3>2. Stored(revisions, c.stream, op.target, op.expected)
      BY <2>3, <3>1 DEF CarriesContent, OpFits
    <3>3. \A r \in DOMAIN revisions : revisions[r].hash \in Hashes
      <4>1. \A r \in DOMAIN revisions : revisions[r] \in Revision
        BY DEF SyncInv, StoreInv, TypeOK
      <4> QED BY <4>1 DEF Revision
    <3> QED BY <3>2, <3>3, SaveStoreAssumption DEF Stored
  <2>5. /\ cn.session \in DOMAIN sessions
        /\ cn.stream \in Named(sessions[cn.session].ops)
    BY <1>2, <2>2 DEF OperationFits
  <2>6. sessions[cn.session].ops[cn.stream] = op
    BY <2>2 DEF Op
  <2> HIDE DEF c, cn, op
  <2>7. CarriesContent(revisions, cn, op)
    BY <1>1, <1>2, <2>2, <2>3, <2>4 DEF CarriesContent
  <2>8. CallFits(revisions, sessions, cn) /\ PushFits(cn, push'[h]) /\ cn \in Call
    BY <1>2, <2>2, <2>5, <2>6, <2>7 DEF CallFits, OperationFits, PushFits, Call
  <2> QED BY <1>1, <2>1, <2>8, OnlyCallMoves, StoreUntouched
<1>6. (op.actual = c.actual /\ op.target = c.target) \in BOOLEAN
  OBVIOUS
<1>7. \/ \E ok \in BOOLEAN : CompleteReturns(h, ok)
      \/ Goes(h, "reject")
      \/ Goes(h, "write") /\ ~Mismatch(op, c.actual)
  BY <1>6 DEF ReadOperation
<1> QED BY <1>1, <1>3, <1>4, <1>5, <1>7, StoreUntouched

LEMMA UploadPushedKeeps ==
  ASSUME SyncInv, NEW h \in Handlers, UploadPushed(h)
  PROVE  [Next]_storeVars /\ OwnPush(h) /\ Keeps(h)
<1> DEFINE c == call[h]
           p == push[h]
<1>1. /\ UNCHANGED <<revisions, sessions>> /\ c.pc = "push"
      /\ push' = [push EXCEPT ![h] = NoPush] /\ p.pc \in {"error", "done"}
  BY DEF UploadPushed
<1>2. /\ c \in OperationCall /\ c.kind \in {"upload", "ack"}
      /\ OperationFits(revisions, sessions, c)
  BY <1>1, OperationKnows
<1>3. TypeOK /\ ResultHoldsContent
  BY DEF SyncInv, StoreInv
<1>4. [Next]_storeVars /\ OwnPush(h)
  <2>1. RequestEnds(h)
    BY <1>1 DEF RequestEnds
  <2> QED BY <1>3, <2>1, OneCallMoves DEF Next, OwnPush
<1>5. c.kind = "upload" /\ CarriesContent(revisions, c, Op(c))
  BY <1>1, <1>2, OwnOperation DEF CarriesContent
<1>6. /\ c.session \in DOMAIN sessions
      /\ c.stream \in Named(sessions[c.session].ops)
  BY <1>2 DEF OperationFits
<1>7. CASE Replies(h, FALSE)
  <2> DEFINE cn == [c EXCEPT !.pc = "reply", !.ok = FALSE]
  <2>1. call' = [call EXCEPT ![h] = cn]
    BY <1>7 DEF Replies, SyncInv, SyncTypeOK
  <2>2. /\ cn \in OperationCall /\ cn.kind = c.kind /\ cn.session = c.session
        /\ cn.stream = c.stream /\ cn.target = c.target /\ cn.pc = "reply"
    BY <1>2 DEF OperationCall
  <2>3. CallFits(revisions, sessions, cn) /\ PushFits(cn, push'[h])
    BY <1>2, <2>2, OperationDone
  <2>4. cn \in Call
    BY <2>2 DEF Call
  <2> HIDE DEF cn
  <2> QED BY <1>1, <1>4, <2>1, <2>3, <2>4, OnlyCallMoves
<1>8. CASE Goes(h, "fail")
  <2> DEFINE cn == [c EXCEPT !.pc = "fail"]
  <2>1. call' = [call EXCEPT ![h] = cn]
    BY <1>8 DEF Goes, SyncInv, SyncTypeOK
  <2>2. /\ cn \in OperationCall /\ cn.kind = c.kind /\ cn.session = c.session
        /\ cn.stream = c.stream /\ cn.pc = "fail"
    BY <1>2 DEF OperationCall
  <2>3. Op(cn) = Op(c)
    BY <2>2 DEF Op
  <2> HIDE DEF c, cn
  <2>4. CarriesContent(revisions, cn, Op(cn))
    BY <1>5, <2>2, <2>3 DEF CarriesContent
  <2>5. CallFits(revisions, sessions, cn) /\ PushFits(cn, push'[h]) /\ cn \in Call
    BY <1>5, <1>6, <2>2, <2>4 DEF CallFits, OperationFits, PushFits, Call, Op
  <2> QED BY <1>1, <1>4, <2>1, <2>5, OnlyCallMoves
<1>9. CASE /\ p.pc = "done"
           /\ call' = [call EXCEPT ![h].pc = "complete", ![h].target = p.result]
  <2> DEFINE cn == [c EXCEPT !.pc = "complete", !.target = p.result]
  <2>1. call' = [call EXCEPT ![h] = cn]
    BY <1>9 DEF SyncInv, SyncTypeOK
  <2>2. p.stream = c.stream /\ p.hash = c.actual
    BY <1>1 DEF SyncInv, CallsFit, PushFits
  <2>3. Stored(revisions, c.stream, p.result, c.actual)
    BY <1>3, <1>9, <2>2 DEF ResultHoldsContent, Stored, StreamRevisions
  <2>4. p.result \in Nat
    BY <1>3, <1>9, PushTyped DEF PushCall
  <2>5. /\ cn \in OperationCall /\ cn.kind = c.kind /\ cn.session = c.session
        /\ cn.stream = c.stream /\ cn.pc = "complete" /\ cn.actual = c.actual
        /\ cn.target = p.result
    BY <1>2, <2>4 DEF OperationCall
  <2>6. Op(cn) = Op(c)
    BY <2>5 DEF Op
  <2> HIDE DEF c, cn, p
  <2>7. CarriesContent(revisions, cn, Op(cn))
    BY <1>1, <1>5, <2>3, <2>5, <2>6 DEF CarriesContent
  <2>8. CallFits(revisions, sessions, cn) /\ PushFits(cn, push'[h]) /\ cn \in Call
    BY <1>5, <1>6, <2>5, <2>7 DEF CallFits, OperationFits, PushFits, Call, Op
  <2> QED BY <1>1, <1>4, <2>1, <2>8, OnlyCallMoves
<1> QED BY <1>7, <1>8, <1>9 DEF UploadPushed

-----------------------------------------------------------------------------
(* Requests from outside sessions, and the end of any request *)

LEMMA DirectUploadKeeps ==
  ASSUME SyncInv, NEW h \in Handlers, DirectUpload(h)
  PROVE  [Next]_storeVars /\ OwnPush(h) /\ Keeps(h)
<1>1. /\ UploadRevision(h) /\ UNCHANGED <<revisions, sessions, call>>
      /\ call[h].pc = "idle"
  BY DEF DirectUpload, UploadRevision, Idle
<1>2. [Next]_storeVars /\ OwnPush(h)
  BY <1>1, OneCallMoves DEF Next, OwnPush, SyncInv, StoreInv
<1>3. call[h] \in Call /\ call' = [call EXCEPT ![h] = call[h]]
  BY <1>1 DEF SyncInv, SyncTypeOK, Call
<1>4. CallFits(revisions, sessions, call[h]) /\ PushFits(call[h], push'[h])
  BY <1>1 DEF CallFits, PushFits
<1> QED BY <1>1, <1>2, <1>3, <1>4, OnlyCallMoves

LEMMA RequestOverKeeps ==
  ASSUME SyncInv, NEW h \in Handlers, RequestOver(h)
  PROVE  [Next]_storeVars /\ OwnPush(h) /\ Keeps(h)
<1>1. /\ UNCHANGED <<revisions, sessions>>
      /\ push' = [push EXCEPT ![h] = NoPush]
      /\ call' = [call EXCEPT ![h] = NoCall]
  BY DEF RequestOver
<1>2. TypeOK
  BY DEF SyncInv, StoreInv
<1>3. [Next]_storeVars /\ OwnPush(h)
  <2>1. CASE push[h].pc # "idle"
    <3>1. RequestEnds(h)
      BY <1>1, <2>1 DEF RequestEnds
    <3> QED BY <1>2, <3>1, OneCallMoves DEF Next, OwnPush
  <2>2. CASE push[h].pc = "idle"
    <3>1. push[h] = NoPush
      BY <1>2, <2>2 DEF TypeOK, PushCall
    <3>2. UNCHANGED <<revisions, push>>
      BY <1>1, <1>2, <3>1 DEF TypeOK
    <3> QED BY <3>2, StoreUntouched
  <2> QED BY <2>1, <2>2
<1>4. NoCall \in Call /\ CallFits(revisions, sessions, NoCall) /\ PushFits(NoCall, push'[h])
  BY DEF Call, CallFits, PushFits, NoCall
<1> QED BY <1>1, <1>3, <1>4, OnlyCallMoves

-----------------------------------------------------------------------------
(* All steps *)

LEMMA CallStepKeeps ==
  ASSUME SyncInv, NEW h \in Handlers, CallStep(h)
  PROVE  [Next]_storeVars /\ OwnPush(h) /\ Keeps(h)
BY NegotiateKeeps, LookupKeeps, InsertKeeps, AggregateKeeps, StoreStatusKeeps,
   PushStepKeeps, UploadPushedKeeps, FailKeeps, ReadOperationKeeps, RejectKeeps,
   CompleteKeeps DEF CallStep

LEMMA EveryStepKeeps ==
  ASSUME SyncInv, SyncNext
  PROVE  [Next]_storeVars /\ \E h \in Handlers : OwnPush(h) /\ Keeps(h)
<1>1. PICK h \in Handlers :
        \/ ClientCreates(h) \/ ClientUploads(h) \/ ClientAcks(h) \/ DirectUpload(h)
        \/ CallStep(h) \/ RequestOver(h)
  BY DEF SyncNext
<1> QED BY <1>1, CreateSessionKeeps, UploadKeeps, AckKeeps, DirectUploadKeeps,
           CallStepKeeps, RequestOverKeeps

LEMMA SyncInvNext == SyncInv /\ [SyncNext]_syncVars => SyncInv' /\ [Next]_storeVars
<1> SUFFICES ASSUME SyncInv, [SyncNext]_syncVars PROVE SyncInv' /\ [Next]_storeVars
  OBVIOUS
<1>1. CASE SyncNext
  BY <1>1, EveryStepKeeps, SyncInvStep
<1>2. CASE UNCHANGED syncVars
  <2>1. UNCHANGED <<revisions, push, sessions, call>>
    BY <1>2 DEF syncVars
  <2>2. [Next]_storeVars
    BY <2>1 DEF storeVars
  <2>3. StoreInv'
    BY <2>2, NextStoreInv DEF SyncInv
  <2> QED BY <2>1, <2>2, <2>3
          DEF SyncInv, SyncTypeOK, StoreInv, CallsFit
<1> QED BY <1>1, <1>2

LEMMA SyncInvInit == SyncInit => SyncInv
<1> SUFFICES ASSUME SyncInit PROVE SyncInv
  OBVIOUS
<1>1. StoreInv
  BY InitStoreInv DEF SyncInit
<1>2. SyncTypeOK
  BY <1>1 DEF SyncInit, SyncTypeOK, StoreInv
<1>3. SessionsFit(revisions, sessions) /\ KeysUnique(sessions)
  BY DEF SyncInit, SessionsFit, KeysUnique
<1>4. CallsFit
  BY DEF SyncInit, CallsFit, CallFits, PushFits, NoCall
<1> QED BY <1>1, <1>2, <1>3, <1>4 DEF SyncInv

-----------------------------------------------------------------------------
(* Theorems *)

\* The tables and the locals of all requests fit one another, however the
\* requests interleave and wherever they end.
THEOREM SyncInvariance == SyncSpec => []SyncInv
BY SyncInvInit, SyncInvNext, PTL DEF SyncSpec

\* The tables of sessions and operations and the locals of every request keep
\* their types.
THEOREM SyncTypeCorrect == SyncSpec => []SyncTypeOK
<1>1. SyncInv => SyncTypeOK
  BY DEF SyncInv
<1> QED BY <1>1, SyncInvariance, PTL

\* A session is invisible to the store: what the sync server does to the
\* revisions and to the calls of PushSet, the store under its own clients does.
THEOREM ServerImplementsStore == SyncSpec => ImplementsStore
<1>1. SyncInit => Init
  BY DEF SyncInit
<1> QED BY <1>1, SyncInvariance, SyncInvNext, PTL DEF SyncSpec, ImplementsStore, Spec

\* So what holds of the store holds of the server: its streams have one current
\* revision each, whichever requests of whichever sessions raced.
THEOREM ServerKeepsOneCurrent == SyncSpec => []CurrentIsNewestPublished
BY ServerImplementsStore, OneCurrentRevision, PTL DEF ImplementsStore

\* The store of the server stays a history whatever the sessions do with it:
\* refinements compose.
THEOREM ServerImplementsHistory == SyncSpec => ImplementsHistory
BY ServerImplementsStore, StoreImplementsHistory, PTL DEF ImplementsStore

\* No plan gives up content the server lacks, then or at any later time.
THEOREM NothingLost == SyncSpec => []PlansLoseNothing
<1>1. SyncInv => PlansLoseNothing
  <2> SUFFICES ASSUME SyncInv, NEW i \in DOMAIN sessions, NEW s \in Named(sessions[i].ops)
               PROVE  LET op == sessions[i].ops[s]
                          state == sessions[i].saves[s]
                      IN  /\ op.base # NoRevision => op.base \in StreamRevisions(s)
                          /\ op.action = "download" =>
                               /\ op.target \in Published(s)
                               /\ revisions[op.target].hash = op.expected
                               /\ \/ state.hash = NoHash
                                  \/ \E r \in StreamRevisions(s) :
                                       r = state.base /\ revisions[r].hash = state.hash
    BY DEF PlansLoseNothing
  <2>1. OpFits(revisions, s, sessions[i].saves[s], sessions[i].ops[s])
    BY DEF SyncInv, SessionsFit, PlanFits
  <2> QED BY <2>1 DEF OpFits, Stored, StreamRevisions, Published
<1> QED BY <1>1, SyncInvariance, PTL

\* What is recorded as transferred is stored with the content negotiated.
THEOREM CompletionIsStored == SyncSpec => []CompleteMeansStored
<1>1. SyncInv => CompleteMeansStored
  <2> SUFFICES ASSUME SyncInv, NEW i \in DOMAIN sessions, NEW s \in Named(sessions[i].ops)
               PROVE  LET op == sessions[i].ops[s]
                      IN  op.status = "complete" /\ op.action \in {"upload", "download"} =>
                            /\ op.target \in StreamRevisions(s)
                            /\ revisions[op.target].hash = op.expected
                            /\ op.actual = op.expected
    BY DEF CompleteMeansStored
  <2>1. OpFits(revisions, s, sessions[i].saves[s], sessions[i].ops[s])
    BY DEF SyncInv, SessionsFit, PlanFits
  <2> QED BY <2>1 DEF OpFits, Stored, StreamRevisions
<1> QED BY <1>1, SyncInvariance, PTL

\* One idempotency key of a device, one session, made for the saves it
\* answers for.
THEOREM KeysNameOneSession == SyncSpec => []CreationIsIdempotent
<1>1. SyncInv => CreationIsIdempotent
  <2> SUFFICES ASSUME SyncInv PROVE CreationIsIdempotent
    OBVIOUS
  <2>1. ASSUME NEW d \in Devices, NEW key \in Keys
        PROVE  Cardinality(SessionsOf(d, key)) <= 1
    <3>1. CASE SessionsOf(d, key) = {}
      BY <3>1, FS_EmptySet
    <3>2. CASE SessionsOf(d, key) # {}
      <4>1. PICK i : i \in SessionsOf(d, key)
        BY <3>2
      <4>2. SessionsOf(d, key) = {i}
        BY <4>1 DEF SessionsOf, SyncInv, KeysUnique
      <4> QED BY <4>2, FS_Singleton
    <3> QED BY <3>1, <3>2
  <2>2. ASSUME NEW h \in Handlers,
               call[h].pc = "reply" /\ call[h].kind = "create" /\ call[h].ok
        PROVE  /\ call[h].session \in SessionsOf(call[h].device, call[h].key)
               /\ sessions[call[h].session].saves = call[h].saves
    <3>1. CreateFits(revisions, sessions, call[h])
      BY <2>2, CreateKnows
    <3> QED BY <2>2, <3>1 DEF CreateFits, Answers, SessionsOf
  <2> QED BY <2>1, <2>2 DEF CreationIsIdempotent
<1> QED BY <1>1, SyncInvariance, PTL
-----------------------------------------------------------------------------
(* A device that waits for its answers.  RecalculateSyncSession reads the    *)
(* operations and writes the session in two statements, CompleteSyncOperation *)
(* reads and writes an operation in two.  What they have read is still so    *)
(* when they write, as long as no other request works on the session.        *)

Terminal == {"complete", "partial"}

Truthful(session) ==
  LET statuses == {session.ops[s].status : s \in Named(session.ops)}
  IN  /\ session.status = "complete" => statuses \subseteq {"complete"}
      /\ session.status = "partial" =>
           "failed" \in statuses /\ "proposed" \notin statuses

\* What a request read and has yet to act on is still so.
Fresh(ss, c) ==
  /\ c.pc = "store" => c.status = StatusOf(ss[c.session].ops)
  /\ c.pc \in {"reject", "write"} =>
       ss[c.session].ops[c.stream].status = "proposed"

SerialInv == /\ SyncInv
             /\ OneCallPerDevice
             /\ \A i \in DOMAIN sessions : Truthful(sessions[i])
             /\ \A h \in Handlers : Fresh(sessions, call[h])

\* A request past the point where it knows its session.
OnSession(c) ==
  c.pc # "idle" /\ (c.kind = "create" => c.pc \in {"aggregate", "store"})

\* The session a request works on is there, and the request one of its device.
LEMMA SessionKnown ==
  ASSUME SyncInv, NEW h \in Handlers, OnSession(call[h])
  PROVE  /\ call[h].session \in DOMAIN sessions
         /\ sessions[call[h].session] \in Session
         /\ h \in CallsOf(sessions[call[h].session].device)
<1>1. /\ call[h].session \in DOMAIN sessions
      /\ h \in CallsOf(sessions[call[h].session].device)
  <2>1. CASE call[h].kind = "create"
    <3>1. CreateFits(revisions, sessions, call[h])
      BY <2>1, CreateKnows DEF OnSession
    <3>2. Answers(sessions, call[h])
      BY <2>1, <3>1 DEF OnSession, CreateFits
    <3> QED BY <2>1, <3>2 DEF Answers, CallsOf, OnSession
  <2>2. CASE call[h].kind # "create"
    <3>1. OperationFits(revisions, sessions, call[h])
      BY <2>2, OperationKnows DEF OnSession
    <3> QED BY <2>2, <3>1 DEF OperationFits, CallsOf, OnSession
  <2> QED BY <2>1, <2>2
<1>2. sessions[call[h].session] \in Session
  BY <1>1, SessionTyped DEF SyncInv, SyncTypeOK
<1> QED BY <1>1, <1>2

\* No two requests work on one session: a session has one device.
LEMMA SessionsApart ==
  ASSUME SyncInv, OneCallPerDevice, NEW g \in Handlers, NEW h \in Handlers,
         OnSession(call[g]), OnSession(call[h]), call[g].session = call[h].session
  PROVE  g = h
<1> DEFINE d == sessions[call[g].session].device
<1>1. g \in CallsOf(d) /\ h \in CallsOf(d) /\ d \in Devices
  BY SessionKnown DEF Session
<1> QED BY <1>1 DEF OneCallPerDevice

\* The status computed from the operations tells the truth about them, and a
\* terminal status that does is the one computed again.
LEMMA StatusTellsTruth ==
  ASSUME NEW session \in Session
  PROVE  /\ session.status = StatusOf(session.ops) => Truthful(session)
         /\ Truthful(session) /\ session.status \in Terminal =>
              StatusOf(session.ops) = session.status
<1> DEFINE Some(status) == \E s \in Named(session.ops) : session.ops[s].status = status
           statuses == {session.ops[s].status : s \in Named(session.ops)}
<1>1. \A status : Some(status) <=> status \in statuses
  OBVIOUS
<1>2. statuses \subseteq {"proposed", "complete", "failed"}
  <2>1. \A s \in Named(session.ops) : session.ops[s] \in Operation
    BY OperationTyped DEF Session
  <2> QED BY <2>1 DEF Operation
<1>3. StatusOf(session.ops) =
        CASE "proposed" \in statuses -> "transferring"
          [] "proposed" \notin statuses /\ "failed" \in statuses -> "partial"
          [] OTHER -> "complete"
  BY <1>1 DEF StatusOf
<1>4. Truthful(session) <=>
        /\ session.status = "complete" => statuses \subseteq {"complete"}
        /\ session.status = "partial" =>
             "failed" \in statuses /\ "proposed" \notin statuses
  BY DEF Truthful
<1> HIDE DEF statuses, Some
<1> QED BY <1>2, <1>3, <1>4 DEF Terminal

-----------------------------------------------------------------------------
(* The steps of one request, as far as the sessions' status goes *)

\* No outcome of an operation is lost from one state of a session to the next.
OutcomesKept(session, sessionn) ==
  \A s \in Named(session.ops) :
    LET op == session.ops[s]
    IN  /\ op.status = "complete" => sessionn.ops[s] = op
        /\ op.status = "failed" => sessionn.ops[s].status = "failed"

SerialKeeps(h) ==
  /\ \A g \in Handlers \ {h} : call'[g] = call[g]
  /\ Fresh(sessions', call'[h])
  /\ \A i \in DOMAIN sessions' : Truthful(sessions'[i])
  /\ \A i \in DOMAIN sessions :
       /\ sessions'[i] # sessions[i] => OnSession(call[h]) /\ call[h].session = i
       /\ sessions[i].status \in Terminal =>
            sessions'[i].status = sessions[i].status
       /\ OutcomesKept(sessions[i], sessions'[i])

\* A step that leaves the sessions alone.
LEMMA SessionsAlone ==
  ASSUME SerialInv, NEW h \in Handlers, UNCHANGED sessions,
         NEW c, call' = [call EXCEPT ![h] = c], Fresh(sessions, c)
  PROVE  SerialKeeps(h)
<1>1. call'[h] = c /\ \A g \in Handlers \ {h} : call'[g] = call[g]
  BY DEF SerialInv, SyncInv, SyncTypeOK
<1>2. \A session : OutcomesKept(session, session)
  BY DEF OutcomesKept
<1> QED BY <1>1, <1>2 DEF SerialKeeps, SerialInv

\* A step that rewrites the session of its request.
LEMMA OwnSessionWritten ==
  ASSUME SerialInv, NEW h \in Handlers, OnSession(call[h]),
         NEW session, sessions' = [sessions EXCEPT ![call[h].session] = session],
         Truthful(session),
         sessions[call[h].session].status \in Terminal =>
           session.status = sessions[call[h].session].status,
         OutcomesKept(sessions[call[h].session], session),
         NEW c, call' = [call EXCEPT ![h] = c], c.pc \in {"aggregate", "reply"}
  PROVE  SerialKeeps(h)
<1>1. call'[h] = c /\ \A g \in Handlers \ {h} : call'[g] = call[g]
  BY DEF SerialInv, SyncInv, SyncTypeOK
<1>2. call[h].session \in DOMAIN sessions
  BY SessionKnown DEF SerialInv
<1>3. Fresh(sessions', c)
  BY DEF Fresh
<1>4. /\ DOMAIN sessions' = DOMAIN sessions
      /\ sessions'[call[h].session] = session
      /\ \A i \in DOMAIN sessions : i # call[h].session => sessions'[i] = sessions[i]
  BY <1>2
<1>5. \A old : OutcomesKept(old, old)
  BY DEF OutcomesKept
<1> QED BY <1>1, <1>2, <1>3, <1>4, <1>5 DEF SerialKeeps, SerialInv

\* The steps after which a request knows nothing it could act on.
LEMMA ForgetfulSteps ==
  ASSUME SerialInv, NEW h \in Handlers,
         \/ ClientCreates(h) \/ ClientUploads(h) \/ ClientAcks(h) \/ DirectUpload(h)
         \/ NegotiateStream(h) \/ LookupSession(h)
         \/ PushStep(h) /\ UNCHANGED <<sessions, call>>
         \/ UploadPushed(h) \/ RequestOver(h)
  PROVE  SerialKeeps(h)
<1>1. UNCHANGED sessions
  BY DEF ClientCreates, ClientUploads, ClientAcks, DirectUpload, NegotiateStream,
         LookupSession, UploadPushed, RequestOver
<1>2. Fresh(sessions, call[h])
  BY DEF SerialInv
<1>3. call \in [Handlers -> Call]
  BY DEF SerialInv, SyncInv, SyncTypeOK, Call
<1>4. ASSUME NEW c, call' = [call EXCEPT ![h] = c],
             c.pc \notin {"store", "reject", "write"}
      PROVE  SerialKeeps(h)
  BY <1>1, <1>4, SessionsAlone DEF Fresh
<1>5. CASE UNCHANGED call
  <2>1. call' = [call EXCEPT ![h] = call[h]]
    BY <1>3, <1>5
  <2> QED BY <1>1, <1>2, <2>1, SessionsAlone
<1>6. CASE ClientCreates(h)
  BY <1>4, <1>6, Zenon DEF ClientCreates, CreateSession
<1>7. CASE ClientUploads(h)
  <2>1. PICK i, s, received : UploadOperation(h, i, s, received)
    BY <1>7 DEF ClientUploads
  <2> DEFINE Request(pc, actual) ==
        OperationRequest("upload", pc, i, s, actual, NoRevision)
  <2>2. \/ call' = [call EXCEPT ![h] = Request("push", received)]
        \/ call' = [call EXCEPT ![h] = Request("fail", NoHash)]
    BY <2>1 DEF UploadOperation
  <2>3. \A actual : Request("push", actual).pc = "push" /\ Request("fail", actual).pc = "fail"
    BY DEF OperationRequest
  <2> HIDE DEF Request
  <2> QED BY <1>4, <2>2, <2>3
<1>8. CASE ClientAcks(h)
  <2>1. PICK i, s, actual : AckOperation(h, i, s, actual)
    BY <1>8 DEF ClientAcks
  <2> DEFINE c == OperationRequest("ack", "complete", i, s, actual,
                                   sessions[i].ops[s].target)
  <2>2. call' = [call EXCEPT ![h] = c]
    BY <2>1 DEF AckOperation
  <2>3. c.pc = "complete"
    BY DEF OperationRequest
  <2> HIDE DEF c
  <2> QED BY <1>4, <2>2, <2>3
<1>9. CASE NegotiateStream(h)
  <2>1. /\ call[h] \in CreateCall /\ call[h].pc = "negotiate"
        /\ \/ Replies(h, FALSE)
           \/ \E plan, pc : /\ pc \in {"lookup", "negotiate"}
                            /\ call' = [call EXCEPT ![h].plan = plan, ![h].pc = pc]
    <3>1. call[h] \in CreateCall
      BY <1>9, CreateKnows DEF NegotiateStream, SerialInv
    <3> DEFINE plan(s) == [call[h].plan EXCEPT ![s] = Decide(s, call[h].saves[s])]
               pc(s) == IF Named(plan(s)) = Named(call[h].saves) THEN "lookup"
                                                               ELSE "negotiate"
    <3>2. PICK s : \/ Replies(h, FALSE)
                   \/ call' = [call EXCEPT ![h].plan = plan(s), ![h].pc = pc(s)]
      BY <1>9 DEF NegotiateStream
    <3>3. pc(s) \in {"lookup", "negotiate"}
      OBVIOUS
    <3>4. call[h].pc = "negotiate"
      BY <1>9 DEF NegotiateStream
    <3> HIDE DEF plan, pc
    <3> QED BY <3>1, <3>2, <3>3, <3>4
  <2>2. CASE Replies(h, FALSE)
    <3> DEFINE c == [call[h] EXCEPT !.pc = "reply", !.ok = FALSE]
    <3>1. call' = [call EXCEPT ![h] = c] /\ c.pc = "reply"
      BY <1>3, <2>1, <2>2 DEF Replies, CreateCall
    <3> HIDE DEF c
    <3> QED BY <1>4, <3>1
  <2>3. ASSUME NEW plan, NEW pc, pc \in {"lookup", "negotiate"},
               call' = [call EXCEPT ![h].plan = plan, ![h].pc = pc]
        PROVE  SerialKeeps(h)
    <3> DEFINE c == [call[h] EXCEPT !.plan = plan, !.pc = pc]
    <3>1. call' = [call EXCEPT ![h] = c] /\ c.pc = pc
      BY <1>3, <2>1, <2>3 DEF CreateCall
    <3> HIDE DEF c
    <3> QED BY <1>4, <2>3, <3>1
  <2> QED BY <2>1, <2>2, <2>3
<1>10. CASE LookupSession(h)
  <2>1. call[h] \in CreateCall
    BY <1>10, CreateKnows DEF LookupSession, SerialInv
  <2>2. \/ Goes(h, "insert") \/ Replies(h, FALSE)
        \/ \E i : call' = [call EXCEPT ![h].session = i, ![h].pc = "aggregate"]
    BY <1>10 DEF LookupSession
  <2>3. CASE Goes(h, "insert")
    <3> DEFINE c == [call[h] EXCEPT !.pc = "insert"]
    <3>1. call' = [call EXCEPT ![h] = c] /\ c.pc = "insert"
      BY <1>3, <2>1, <2>3 DEF Goes, CreateCall
    <3> HIDE DEF c
    <3> QED BY <1>4, <3>1
  <2>4. CASE Replies(h, FALSE)
    <3> DEFINE c == [call[h] EXCEPT !.pc = "reply", !.ok = FALSE]
    <3>1. call' = [call EXCEPT ![h] = c] /\ c.pc = "reply"
      BY <1>3, <2>1, <2>4 DEF Replies, CreateCall
    <3> HIDE DEF c
    <3> QED BY <1>4, <3>1
  <2>5. ASSUME NEW i, call' = [call EXCEPT ![h].session = i, ![h].pc = "aggregate"]
        PROVE  SerialKeeps(h)
    <3> DEFINE c == [call[h] EXCEPT !.session = i, !.pc = "aggregate"]
    <3>1. call' = [call EXCEPT ![h] = c] /\ c.pc = "aggregate"
      BY <1>3, <2>1, <2>5 DEF CreateCall
    <3> HIDE DEF c
    <3> QED BY <1>4, <3>1
  <2> QED BY <2>2, <2>3, <2>4, <2>5
<1>11. CASE UploadPushed(h)
  <2>1. call[h] \in OperationCall
    BY <1>11, OperationKnows DEF UploadPushed, SerialInv
  <2>2. \/ Replies(h, FALSE) \/ Goes(h, "fail")
        \/ \E r : call' = [call EXCEPT ![h].pc = "complete", ![h].target = r]
    BY <1>11 DEF UploadPushed
  <2>3. CASE Replies(h, FALSE)
    <3> DEFINE c == [call[h] EXCEPT !.pc = "reply", !.ok = FALSE]
    <3>1. call' = [call EXCEPT ![h] = c] /\ c.pc = "reply"
      BY <1>3, <2>1, <2>3 DEF Replies, OperationCall
    <3> HIDE DEF c
    <3> QED BY <1>4, <3>1
  <2>4. CASE Goes(h, "fail")
    <3> DEFINE c == [call[h] EXCEPT !.pc = "fail"]
    <3>1. call' = [call EXCEPT ![h] = c] /\ c.pc = "fail"
      BY <1>3, <2>1, <2>4 DEF Goes, OperationCall
    <3> HIDE DEF c
    <3> QED BY <1>4, <3>1
  <2>5. ASSUME NEW r, call' = [call EXCEPT ![h].pc = "complete", ![h].target = r]
        PROVE  SerialKeeps(h)
    <3> DEFINE c == [call[h] EXCEPT !.pc = "complete", !.target = r]
    <3>1. call' = [call EXCEPT ![h] = c] /\ c.pc = "complete"
      BY <1>3, <2>1, <2>5 DEF OperationCall
    <3> HIDE DEF c
    <3> QED BY <1>4, <3>1
  <2> QED BY <2>2, <2>3, <2>4, <2>5
<1>12. CASE RequestOver(h)
  BY <1>4, <1>12 DEF RequestOver, NoCall
<1>13. DirectUpload(h) => UNCHANGED call
  BY DEF DirectUpload
<1> QED BY <1>5, <1>6, <1>7, <1>8, <1>9, <1>10, <1>11, <1>12, <1>13

\* What the transaction of a creation adds is not finished.
LEMMA InsertKeepsTruth ==
  ASSUME SerialInv, NEW h \in Handlers, InsertSession(h)
  PROVE  SerialKeeps(h)
<1> DEFINE c == call[h]
           new == [device |-> c.device, key |-> c.key, saves |-> c.saves,
                   status |-> "proposed", ops |-> c.plan]
<1>1. call \in [Handlers -> Call] /\ sessions \in Seq(Session) /\ c \in CreateCall
  BY CreateKnows DEF SerialInv, SyncInv, SyncTypeOK, Call, InsertSession
<1>2. CASE Replies(h, FALSE) /\ UNCHANGED sessions
  <2> DEFINE cn == [c EXCEPT !.pc = "reply", !.ok = FALSE]
  <2>1. call' = [call EXCEPT ![h] = cn] /\ cn.pc = "reply"
    BY <1>1, <1>2 DEF Replies, CreateCall
  <2> HIDE DEF cn
  <2> QED BY <1>2, <2>1, SessionsAlone DEF Fresh
<1>3. CASE /\ sessions' = Append(sessions, new)
           /\ call' = [call EXCEPT ![h].session = Len(sessions) + 1,
                                   ![h].pc = "aggregate"]
  <2> DEFINE cn == [c EXCEPT !.session = Len(sessions) + 1, !.pc = "aggregate"]
  <2>1. call' = [call EXCEPT ![h] = cn] /\ cn.pc = "aggregate"
    BY <1>1, <1>3 DEF CreateCall
  <2>2. Truthful(new)
    BY DEF Truthful
  <2> HIDE DEF cn, new, c
  <2>3. call'[h] = cn /\ \A g \in Handlers \ {h} : call'[g] = call[g]
    BY <1>1, <2>1
  <2>4. /\ DOMAIN sessions' = 1..(Len(sessions) + 1)
        /\ DOMAIN sessions = 1..Len(sessions) /\ Len(sessions) \in Nat
        /\ sessions'[Len(sessions) + 1] = new
        /\ \A i \in 1..Len(sessions) : sessions'[i] = sessions[i]
    BY <1>1, <1>3
  <2>5. \A i \in DOMAIN sessions' : Truthful(sessions'[i])
    BY <2>2, <2>4 DEF SerialInv
  <2>6. Fresh(sessions', call'[h])
    BY <2>1, <2>3 DEF Fresh
  <2>7. \A session : OutcomesKept(session, session)
    BY DEF OutcomesKept
  <2> QED BY <2>3, <2>4, <2>5, <2>6, <2>7 DEF SerialKeeps
<1> QED BY <1>2, <1>3 DEF InsertSession

\* What RecalculateSyncSession reads is so when it has read it.
LEMMA AggregateKeepsTruth ==
  ASSUME SerialInv, NEW h \in Handlers, ReadOperations(h)
  PROVE  SerialKeeps(h)
<1> DEFINE c == call[h]
           status == StatusOf(sessions[c.session].ops)
           cn == [c EXCEPT !.pc = "store", !.status = status]
<1>1. call \in [Handlers -> Call] /\ c.pc = "aggregate" /\ UNCHANGED sessions
  BY DEF SerialInv, SyncInv, SyncTypeOK, Call, ReadOperations
<1>2. call' = [call EXCEPT ![h] = cn]
  BY <1>1 DEF ReadOperations
<1>3. cn.pc = "store" /\ cn.status = status /\ cn.session = c.session
  BY <1>1 DEF Call, CreateCall, OperationCall, NoCall
<1>4. Fresh(sessions, cn)
  BY <1>3 DEF Fresh
<1> HIDE DEF cn
<1> QED BY <1>1, <1>2, <1>4, SessionsAlone

\* And still so when it writes.
LEMMA StoreKeepsTruth ==
  ASSUME SerialInv, NEW h \in Handlers, StoreSessionStatus(h)
  PROVE  SerialKeeps(h)
<1> DEFINE c == call[h]
           old == sessions[c.session]
           new == [old EXCEPT !.status = c.status]
           ok == c.kind = "create" \/ c.ok
           cn == [c EXCEPT !.pc = "reply", !.ok = ok]
<1>1. call \in [Handlers -> Call] /\ c.pc = "store"
  BY DEF SerialInv, SyncInv, SyncTypeOK, Call, StoreSessionStatus
<1>2. c.session \in DOMAIN sessions /\ old \in Session /\ OnSession(c)
  <2>1. OnSession(c)
    BY <1>1 DEF OnSession
  <2> QED BY <2>1, SessionKnown DEF SerialInv
<1>3. c.status = StatusOf(old.ops)
  BY <1>1 DEF SerialInv, Fresh
<1>4. new \in Session /\ new.status = c.status /\ new.ops = old.ops
  BY <1>2, <1>3, StatusTyped DEF Session
<1>5. Truthful(new)
  <2> HIDE DEF new
  <2> QED BY <1>3, <1>4, StatusTellsTruth
<1>6. old.status \in Terminal => new.status = old.status
  <2>1. Truthful(old)
    BY <1>2 DEF SerialInv
  <2> HIDE DEF new, old
  <2> QED BY <1>2, <1>3, <1>4, <2>1, StatusTellsTruth
<1>7. call' = [call EXCEPT ![h] = cn] /\ cn.pc = "reply"
  <2>1. call' = [call EXCEPT ![h].pc = "reply", ![h].ok = ok]
    BY DEF StoreSessionStatus, Replies
  <2>2. c \in CreateCall \cup OperationCall
    BY <1>1 DEF Call, NoCall
  <2>3. cn.pc = "reply"
    BY <2>2 DEF CreateCall, OperationCall
  <2> HIDE DEF ok
  <2> QED BY <1>1, <2>1, <2>3
<1>8. sessions' = [sessions EXCEPT ![c.session] = new]
  BY DEF StoreSessionStatus
<1>9. OutcomesKept(old, new)
  BY <1>4 DEF OutcomesKept
<1> HIDE DEF new, cn
<1> QED BY <1>2, <1>5, <1>6, <1>7, <1>8, <1>9, OwnSessionWritten

\* One operation of a session written, in a session that is not terminal or
\* where a failure follows a failure.
LEMMA OperationWrittenTruthfully ==
  ASSUME SerialInv, NEW h \in Handlers,
         call[h].pc \in {"fail", "reject", "write"}, NEW op, UpdateOp(call[h], op),
         \/ Op(call[h]).status = "proposed"
         \/ Op(call[h]).status = "failed" /\ op.status = "failed",
         op # Absent,
         NEW cn, call' = [call EXCEPT ![h] = cn], cn.pc \in {"aggregate", "reply"}
  PROVE  SerialKeeps(h)
<1> DEFINE c == call[h]
           old == sessions[c.session]
           ops == [old.ops EXCEPT ![c.stream] = op]
           new == [old EXCEPT !.ops = ops]
<1>1. c \in OperationCall /\ OperationFits(revisions, sessions, c) /\ OnSession(c)
  BY OperationKnows, OperationCallTyped DEF SerialInv, OnSession, OperationCall
<1>2. /\ c.session \in DOMAIN sessions /\ old \in Session
      /\ c.stream \in Named(old.ops) /\ Op(c) = old.ops[c.stream]
  BY <1>1, SessionKnown DEF SerialInv, OperationFits, Op
<1>3. c.stream \in Streams /\ old.ops \in Plan
  BY <1>2, OperationTyped DEF Session
<1>4. /\ new.status = old.status /\ new.ops = ops
      /\ DOMAIN ops = Streams /\ ops[c.stream] = op
      /\ \A s \in Streams \ {c.stream} : ops[s] = old.ops[s]
  BY <1>2, <1>3 DEF Session, Plan
<1>5. Named(new.ops) = Named(old.ops)
  BY <1>2, <1>3, <1>4 DEF Named
<1>6. Truthful(old)
  BY <1>2 DEF SerialInv
<1>7. old.status # "complete"
  BY <1>2, <1>6 DEF Truthful
<1>8. old.status = "partial" => Op(c).status = "failed" /\ op.status = "failed"
  BY <1>2, <1>6 DEF Truthful
<1>9. sessions' = [sessions EXCEPT ![c.session] = new]
  BY DEF UpdateOp
<1> HIDE DEF c, old, ops, new
<1>10. \A s \in Named(old.ops) : s # c.stream => new.ops[s] = old.ops[s]
  BY <1>4 DEF Named
<1>11. old.status = "partial" =>
         \A s \in Named(old.ops) : new.ops[s].status = old.ops[s].status
  BY <1>2, <1>4, <1>8, <1>10
<1>12. Truthful(new)
  BY <1>4, <1>5, <1>6, <1>7, <1>11 DEF Truthful
<1>13. OutcomesKept(old, new)
  BY <1>2, <1>4, <1>10 DEF OutcomesKept, c
<1> QED BY <1>1, <1>2, <1>4, <1>9, <1>12, <1>13, OwnSessionWritten DEF c, old

\* A failure is recorded of what is proposed, or has failed before.
LEMMA FailKeepsTruth ==
  ASSUME SerialInv, NEW h \in Handlers, FailSyncOperation(h)
  PROVE  SerialKeeps(h)
<1> DEFINE c == call[h]
           cn == [c EXCEPT !.pc = "aggregate"]
           op == [Op(c) EXCEPT !.status = "failed", !.actual = c.actual]
<1>1. c.pc = "fail" /\ c \in OperationCall /\ OperationFits(revisions, sessions, c)
  BY OperationKnows DEF FailSyncOperation, SerialInv
<1>2. call' = [call EXCEPT ![h] = cn] /\ cn.pc = "aggregate"
  BY <1>1 DEF FailSyncOperation, Goes, OperationCall, SerialInv, SyncInv, SyncTypeOK
<1>3. Op(c) \in Operation
  BY <1>1, OwnOperation DEF SerialInv
<1> HIDE DEF cn
<1>4. CASE UNCHANGED sessions
  BY <1>2, <1>4, SessionsAlone DEF Fresh
<1>5. CASE Op(c).status # "complete" /\ UpdateOp(c, op)
  <2>1. op \in Operation /\ op.status = "failed"
    BY <1>1, <1>3 DEF Operation, OperationCall
  <2>2. Op(c).status \in {"proposed", "failed"}
    BY <1>3, <1>5 DEF Operation
  <2>3. op # Absent
    BY <2>1, OperationNamed
  <2> HIDE DEF op
  <2> QED BY <1>1, <1>2, <1>5, <2>1, <2>2, <2>3, OperationWrittenTruthfully
<1> QED BY <1>4, <1>5 DEF FailSyncOperation

\* CompleteSyncOperation goes on to write only what is still proposed.
LEMMA ReadOperationKeepsTruth ==
  ASSUME SerialInv, NEW h \in Handlers, ReadOperation(h)
  PROVE  SerialKeeps(h)
<1> DEFINE c == call[h]
           op == Op(c)
<1>1. c.pc = "complete" /\ c \in OperationCall /\ UNCHANGED sessions /\ SyncInv
  BY OperationKnows DEF ReadOperation, SerialInv
<1>2. ASSUME NEW ok \in BOOLEAN, CompleteReturns(h, ok)
      PROVE  SerialKeeps(h)
  <2>1. PICK cn \in OperationCall : /\ call' = [call EXCEPT ![h] = cn]
                                    /\ cn.pc \in {"aggregate", "reply"}
    BY <1>1, <1>2, ReturnOfComplete
  <2> QED BY <1>1, <2>1, SessionsAlone DEF Fresh
<1>3. ASSUME NEW pc \in {"reject", "write"}, Goes(h, pc), op.status = "proposed"
      PROVE  SerialKeeps(h)
  <2> DEFINE cn == [c EXCEPT !.pc = pc]
  <2>1. call' = [call EXCEPT ![h] = cn]
    BY <1>1, <1>3 DEF Goes, SyncInv, SyncTypeOK
  <2>2. cn.pc = pc /\ cn.session = c.session /\ cn.stream = c.stream
    BY <1>1 DEF OperationCall
  <2>3. Fresh(sessions, cn)
    BY <1>3, <2>2 DEF Fresh, Op
  <2> HIDE DEF cn
  <2> QED BY <1>1, <2>1, <2>3, SessionsAlone
<1>4. (op.actual = c.actual /\ op.target = c.target) \in BOOLEAN
  OBVIOUS
<1>5. \/ \E ok \in BOOLEAN : CompleteReturns(h, ok)
      \/ op.status = "proposed" /\ (Goes(h, "reject") \/ Goes(h, "write"))
  BY <1>4 DEF ReadOperation
<1> QED BY <1>2, <1>3, <1>5

\* What it found proposed still is when it writes.
LEMMA OutcomeKeepsTruth ==
  ASSUME SerialInv, NEW h \in Handlers, RejectOperation(h) \/ CompleteOperation(h)
  PROVE  SerialKeeps(h)
<1> DEFINE c == call[h]
           rejected == [Op(c) EXCEPT !.status = "failed", !.actual = c.actual]
           completed == [Op(c) EXCEPT !.status = "complete", !.actual = c.actual,
                                      !.target = c.target]
<1>1. c.pc \in {"reject", "write"}
  BY DEF RejectOperation, CompleteOperation
<1>2. c \in OperationCall /\ OperationFits(revisions, sessions, c) /\ SyncInv
  BY <1>1, OperationKnows DEF SerialInv
<1>3. Op(c) \in Operation /\ c.actual \in Hashes \cup {NoHash} /\ c.target \in Nat
  BY <1>2, OwnOperation
<1>4. Op(c).status = "proposed"
  BY <1>1 DEF SerialInv, Fresh, Op
<1>5. rejected \in Operation /\ completed \in Operation
  BY <1>3 DEF Operation
<1>6. PICK op \in {rejected, completed}, ok \in BOOLEAN :
        UpdateOp(c, op) /\ CompleteReturns(h, ok)
  BY DEF RejectOperation, CompleteOperation
<1>7. op # Absent
  BY <1>5, <1>6, OperationNamed
<1>8. PICK cn \in OperationCall : /\ call' = [call EXCEPT ![h] = cn]
                                  /\ cn.pc \in {"aggregate", "reply"}
  BY <1>2, <1>6, ReturnOfComplete
<1>9. UpdateOp(c, op) /\ call' = [call EXCEPT ![h] = cn] /\ cn.pc \in {"aggregate", "reply"}
  BY <1>6, <1>8
<1> HIDE DEF rejected, completed
<1> QED BY <1>1, <1>4, <1>7, <1>9, OperationWrittenTruthfully

LEMMA EveryStepKeepsTruth ==
  ASSUME SerialInv, SyncNext
  PROVE  \E h \in Handlers : SerialKeeps(h)
<1>1. PICK h \in Handlers :
        \/ ClientCreates(h) \/ ClientUploads(h) \/ ClientAcks(h) \/ DirectUpload(h)
        \/ CallStep(h) \/ RequestOver(h)
  BY DEF SyncNext
<1> QED BY <1>1, ForgetfulSteps, InsertKeepsTruth, AggregateKeepsTruth, StoreKeepsTruth,
           FailKeepsTruth, ReadOperationKeepsTruth, OutcomeKeepsTruth DEF CallStep

LEMMA SerialInvNext ==
  SerialInv /\ [SyncNext /\ OneCallPerDevice']_syncVars => SerialInv'
<1> SUFFICES ASSUME SerialInv, [SyncNext /\ OneCallPerDevice']_syncVars
             PROVE  SerialInv'
  OBVIOUS
<1>1. SyncInv'
  BY SyncInvNext DEF SerialInv
<1>2. CASE SyncNext /\ OneCallPerDevice'
  <2>1. PICK h \in Handlers : SerialKeeps(h)
    BY <1>2, EveryStepKeepsTruth
  <2>2. ASSUME NEW g \in Handlers \ {h} PROVE Fresh(sessions', call'[g])
    <3>1. call'[g] = call[g] /\ Fresh(sessions, call[g])
      BY <2>1 DEF SerialKeeps, SerialInv
    <3>2. CASE call[g].pc \in {"store", "reject", "write"}
      <4>1. OnSession(call[g])
        <5>1. call[g].pc \in {"reject", "write"} => call[g].kind # "create"
          BY OperationKnows DEF SerialInv
        <5> QED BY <3>2, <5>1 DEF OnSession
      <4>2. call[g].session \in DOMAIN sessions
        BY <4>1, SessionKnown DEF SerialInv
      <4>3. sessions'[call[g].session] = sessions[call[g].session]
        <5>1. SUFFICES ASSUME sessions'[call[g].session] # sessions[call[g].session]
                       PROVE  g = h
          OBVIOUS
        <5>2. OnSession(call[h]) /\ call[h].session = call[g].session
          BY <2>1, <4>2, <5>1 DEF SerialKeeps
        <5> QED BY <4>1, <5>2, SessionsApart DEF SerialInv
      <4> QED BY <3>1, <4>3 DEF Fresh
    <3>3. CASE call[g].pc \notin {"store", "reject", "write"}
      BY <3>1, <3>3 DEF Fresh
    <3> QED BY <3>2, <3>3
  <2>3. Fresh(sessions', call'[h]) /\ \A i \in DOMAIN sessions' : Truthful(sessions'[i])
    BY <2>1 DEF SerialKeeps
  <2> QED BY <1>1, <1>2, <2>2, <2>3 DEF SerialInv
<1>3. CASE UNCHANGED syncVars
  <2>1. UNCHANGED <<sessions, call>>
    BY <1>3 DEF syncVars
  <2>2. OneCallPerDevice'
    BY <2>1 DEF SerialInv, OneCallPerDevice, CallsOf
  <2> QED BY <1>1, <2>1, <2>2 DEF SerialInv
<1> QED BY <1>2, <1>3

LEMMA SerialInvInit == SyncInit => SerialInv
<1> SUFFICES ASSUME SyncInit PROVE SerialInv
  OBVIOUS
<1>1. sessions = <<>> /\ \A h \in Handlers : call[h] = NoCall
  BY DEF SyncInit
<1>2. OneCallPerDevice
  BY <1>1 DEF OneCallPerDevice, CallsOf, NoCall
<1>3. \A h \in Handlers : Fresh(sessions, call[h])
  BY <1>1 DEF Fresh, NoCall
<1> QED BY <1>1, <1>2, <1>3, SyncInvInit DEF SerialInv

\* As long as no device has two requests in flight, what a request has read of
\* its session is still so when it acts on it.
THEOREM SerialInvariance == SerialSpec => []SerialInv
BY SerialInvInit, SerialInvNext, PTL DEF SerialSpec

\* A device that waits for its answers is told the truth about its sessions: a
\* session complete or partial has just the operations that make it so.
THEOREM FinishedSessionsAreTruthful == SerialSpec => []TerminalIsTruthful
<1>1. SerialInv => TerminalIsTruthful
  BY DEF SerialInv, TerminalIsTruthful, Truthful
<1> QED BY <1>1, SerialInvariance, PTL

\* And finished for good: no later upload, acknowledgement or retry of such a
\* device, and no upload from outside its sessions, takes it out of a terminal
\* status.
THEOREM FinishedSessionsStay == SerialSpec => TerminalStays
<1>1. ASSUME SerialInv, [SyncNext /\ OneCallPerDevice']_syncVars,
             NEW i \in DOMAIN sessions, sessions[i].status \in {"complete", "partial"}
      PROVE  sessions'[i].status = sessions[i].status
  <2>1. CASE SyncNext
    <3>1. PICK h \in Handlers : SerialKeeps(h)
      BY <1>1, <2>1, EveryStepKeepsTruth
    <3> QED BY <1>1, <3>1 DEF SerialKeeps, Terminal
  <2>2. CASE UNCHANGED syncVars
    BY <2>2 DEF syncVars
  <2> QED BY <1>1, <2>1, <2>2
<1>2. SerialInv /\ [SyncNext /\ OneCallPerDevice']_syncVars =>
        [\A i \in DOMAIN sessions :
           sessions[i].status \in {"complete", "partial"} =>
             sessions'[i].status = sessions[i].status]_sessions
  BY <1>1
<1> QED BY <1>2, SerialInvariance, PTL DEF SerialSpec, TerminalStays

\* Nor does any of its operations change its outcome: what a retry is answered
\* with stands.  Two requests in flight for one device are what it takes to
\* overturn one.
THEOREM OutcomesStand == SerialSpec => OutcomeIsFinal
<1>1. ASSUME SerialInv, [SyncNext /\ OneCallPerDevice']_syncVars,
             NEW i \in DOMAIN sessions
      PROVE  OutcomesKept(sessions[i], sessions'[i])
  <2>1. CASE SyncNext
    <3>1. PICK h \in Handlers : SerialKeeps(h)
      BY <1>1, <2>1, EveryStepKeepsTruth
    <3> QED BY <1>1, <3>1 DEF SerialKeeps
  <2>2. CASE UNCHANGED syncVars
    BY <2>2 DEF syncVars, OutcomesKept
  <2> QED BY <1>1, <2>1, <2>2
<1>2. SerialInv /\ [SyncNext /\ OneCallPerDevice']_syncVars =>
        [\A i \in DOMAIN sessions : \A s \in Named(sessions[i].ops) :
           LET op == sessions[i].ops[s]
           IN  /\ op.status = "complete" => sessions'[i].ops[s] = op
               /\ op.status = "failed" => sessions'[i].ops[s].status = "failed"
        ]_sessions
  BY <1>1 DEF OutcomesKept
<1> QED BY <1>2, SerialInvariance, PTL DEF SerialSpec, OutcomeIsFinal
=============================================================================
