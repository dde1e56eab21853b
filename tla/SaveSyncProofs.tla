--------------------------- MODULE SaveSyncProofs ---------------------------
(***************************************************************************)
(* Theorems about SaveSync: agents, emulators and server together, for any *)
(* number of devices, saves, plays, crashes and abandoned requests.        *)
(***************************************************************************)
EXTENDS SaveSync, SyncServerProofs

-----------------------------------------------------------------------------
(* What a run of an agent knows between its steps.  As for the server it is  *)
(* said of tables, here of revisions rs, sessions ss and a request c, so     *)
(* that it can be carried over the steps of others.                          *)

\* A base an agent remembers is none, or a stored revision with its hash.
BaseFits(rs, s, state) ==
  state = NoStreamState \/ Stored(rs, s, state.revision, state.hash)

BasesFit(rs, streams) == \A s \in Streams : BaseFits(rs, s, streams[s])

\* The request a run makes of the saves it collected.
CollectionFits(rs, a) ==
  \A s \in Streams :
    /\ a.saves[s] \in [base : {NoRevision} \cup DOMAIN rs, hash : Content]
    /\ a.saves[s].hash = a.sets[s]

\* The plan a run carries out was made for the saves it collected.
PlannedFor(ss, d, a) ==
  /\ a.session \in DOMAIN ss
  /\ ss[a.session].device = d
  /\ ss[a.session].key = a.key
  /\ ss[a.session].saves = Normalised(a.saves)

\* From the download of a revision to its acknowledgement.
Downloads == {"install", "replace", "place", "ack", "acking"}

DownloadPlanned(ss, a) ==
  /\ a.stream \in Named(ss[a.session].ops)
  /\ ss[a.session].ops[a.stream].action = "download"

\* The request a run waits for is the one it sent.
Asks(c, d, a) ==
  /\ c.pc # "idle"
  /\ a.pc = "creating" =>
       /\ c.kind = "create" /\ c.device = d /\ c.key = a.key
       /\ c.saves = Normalised(a.saves)
  /\ a.pc \in {"uploading", "acking"} =>
       /\ c.kind = (IF a.pc = "uploading" THEN "upload" ELSE "ack")
       /\ c.session = a.session /\ c.stream = a.stream

RunFits(rs, ss, d, a) ==
  a.pc # "idle" =>
    /\ BasesFit(rs, a.streams)
    /\ CollectionFits(rs, a)
    /\ a.pc \notin {"create", "creating"} => PlannedFor(ss, d, a)
    /\ a.pc \in Downloads => DownloadPlanned(ss, a)

WaitFits(calls, d, a) == a.pc \in Waiting => Asks(calls[a.handler], d, a)

\* No two runs wait for one request.
WaitAlone(runs) ==
  \A d, e \in Devices :
    /\ runs[d].pc \in Waiting /\ runs[e].pc \in Waiting
    /\ runs[d].handler = runs[e].handler
    => d = e

\* A successful upload names a revision of its stream.
AnswerStored(rs, c) ==
  c.pc # "idle" /\ c.kind = "upload" /\ c.ok =>
    /\ c.pc \in {"aggregate", "store", "reply"}
    /\ c.target \in DOMAIN rs /\ rs[c.target].stream = c.stream

AgentInv ==
  /\ SyncInv
  /\ SaveSyncTypeOK
  /\ \A h \in Handlers : AnswerStored(revisions, call[h])
  /\ \A d \in Devices : /\ BasesFit(revisions, config[d].streams)
                        /\ RunFits(revisions, sessions, d, agent[d])
                        /\ WaitFits(call, d, agent[d])
  /\ WaitAlone(agent)

-----------------------------------------------------------------------------
(* While no emulator writes between the agent's last look at a save and its  *)
(* replacement, what the run is about to take away is in a backup.           *)

ReplacementFits(d) ==
  LET a == agent[d]
      saved == backups[d][a.stream]
  IN  /\ a.pc = "replace" => local[d][a.stream] \in saved \cup {NoHash}
      /\ a.pc = "place" => a.moved \in saved /\ local[d][a.stream] = NoHash

QuietInv == AgentInv /\ \A d \in Devices : ReplacementFits(d)

-----------------------------------------------------------------------------
(* The requests, seen from the agents *)

\* A request in progress goes on as the request it was.
SameRequest(c, cn) ==
  /\ cn.pc # "idle" /\ cn.kind = c.kind
  /\ c.kind = "create" => cn.device = c.device /\ cn.key = c.key /\ cn.saves = c.saves
  /\ c.kind # "create" => cn.session = c.session /\ cn.stream = c.stream

\* What is said of a creation and of an upload in one step of either.
LEMMA CreationGoesOn ==
  ASSUME SyncInv, NEW h \in Handlers,
         NegotiateStream(h) \/ LookupSession(h) \/ InsertSession(h)
  PROVE  /\ SameRequest(call[h], call'[h])
         /\ call[h].kind = "create"
<1> DEFINE c == call[h]
<1>1. c.pc \in {"negotiate", "lookup", "insert"}
  BY DEF NegotiateStream, LookupSession, InsertSession
<1>2. c \in CreateCall /\ c.kind = "create"
  BY <1>1, CreateKnows
<1>3. CASE Replies(h, FALSE)
  <2> DEFINE cn == [c EXCEPT !.pc = "reply", !.ok = FALSE]
  <2>1. call'[h] = cn
    BY <1>3 DEF Replies, SyncInv, SyncTypeOK
  <2> QED BY <1>2, <2>1 DEF CreateCall, SameRequest
<1>4. ASSUME NEW plan, NEW pc \in {"lookup", "negotiate"},
             call' = [call EXCEPT ![h].plan = plan, ![h].pc = pc]
      PROVE  SameRequest(c, call'[h])
  <2> DEFINE cn == [c EXCEPT !.plan = plan, !.pc = pc]
  <2>1. call'[h] = cn
    BY <1>4 DEF SyncInv, SyncTypeOK
  <2> QED BY <1>2, <2>1 DEF CreateCall, SameRequest
<1>5. CASE Goes(h, "insert")
  <2> DEFINE cn == [c EXCEPT !.pc = "insert"]
  <2>1. call'[h] = cn
    BY <1>5 DEF Goes, SyncInv, SyncTypeOK
  <2> QED BY <1>2, <2>1 DEF CreateCall, SameRequest
<1>6. ASSUME NEW i, call' = [call EXCEPT ![h].session = i, ![h].pc = "aggregate"]
      PROVE  SameRequest(c, call'[h])
  <2> DEFINE cn == [c EXCEPT !.session = i, !.pc = "aggregate"]
  <2>1. call'[h] = cn
    BY <1>6 DEF SyncInv, SyncTypeOK
  <2> QED BY <1>2, <2>1 DEF CreateCall, SameRequest
<1>7. CASE NegotiateStream(h)
  <2>1. CASE Replies(h, FALSE)
    BY <1>2, <1>3, <2>1
  <2>2. CASE ~Replies(h, FALSE)
    <3>1. PICK s \in Named(c.saves) :
            LET plan == [c.plan EXCEPT ![s] = Decide(s, c.saves[s])]
            IN  call' = [call EXCEPT
                  ![h].plan = plan,
                  ![h].pc = IF Named(plan) = Named(c.saves) THEN "lookup"
                                                            ELSE "negotiate"]
      BY <1>7, <2>2 DEF NegotiateStream
    <3> QED BY <1>2, <1>4, <3>1
  <2> QED BY <2>1, <2>2
<1>8. CASE LookupSession(h)
  BY <1>2, <1>3, <1>5, <1>6, <1>8 DEF LookupSession
<1>9. CASE InsertSession(h)
  BY <1>2, <1>3, <1>6, <1>9 DEF InsertSession
<1> QED BY <1>2, <1>7, <1>8, <1>9

\* The aggregate of a session, for either kind of request.
LEMMA AggregateGoesOn ==
  ASSUME SyncInv, NEW h \in Handlers, ReadOperations(h) \/ StoreSessionStatus(h)
  PROVE  /\ SameRequest(call[h], call'[h])
         /\ call[h].kind = "upload" => /\ call'[h].target = call[h].target
                                       /\ call'[h].ok = call[h].ok
                                       /\ call'[h].pc \in {"store", "reply"}
<1> DEFINE c == call[h]
<1>1. c \in Call /\ c.pc \in {"aggregate", "store"}
  BY DEF ReadOperations, StoreSessionStatus, SyncInv, SyncTypeOK, Call
<1>2. c \in CreateCall \/ c \in OperationCall
  BY <1>1 DEF Call, NoCall
<1>3. CASE ReadOperations(h)
  <2> DEFINE status == StatusOf(sessions[c.session].ops)
             cn == [c EXCEPT !.pc = "store", !.status = status]
  <2>1. call'[h] = cn
    BY <1>3 DEF ReadOperations, SyncInv, SyncTypeOK
  <2> HIDE DEF status
  <2> QED BY <1>2, <2>1 DEF CreateCall, OperationCall, SameRequest
<1>4. CASE StoreSessionStatus(h)
  <2> DEFINE ok == c.kind = "create" \/ c.ok
             cn == [c EXCEPT !.pc = "reply", !.ok = ok]
  <2>1. call'[h] = cn
    BY <1>4 DEF StoreSessionStatus, Replies, SyncInv, SyncTypeOK
  <2>2. ASSUME c.kind = "upload" PROVE ok = c.ok
    <3>1. c.kind # "create" /\ c.ok \in BOOLEAN
      BY <1>2, <2>2 DEF CreateCall, OperationCall
    <3> QED BY <3>1
  <2> HIDE DEF ok
  <2> QED BY <1>2, <2>1, <2>2 DEF CreateCall, OperationCall, SameRequest
<1> QED BY <1>3, <1>4

\* The steps of an upload or an acknowledgement.
LEMMA OperationGoesOn ==
  ASSUME SyncInv, NEW h \in Handlers,
         \/ UploadPushed(h) \/ FailSyncOperation(h) \/ ReadOperation(h)
         \/ RejectOperation(h) \/ CompleteOperation(h),
         AnswerStored(revisions, call[h])
  PROVE  SameRequest(call[h], call'[h]) /\ AnswerStored(revisions', call'[h])
<1> DEFINE c == call[h]
<1>1. c.pc \in {"push", "fail", "complete", "write", "reject"} /\ UNCHANGED revisions
  BY DEF UploadPushed, FailSyncOperation, ReadOperation, RejectOperation, CompleteOperation
<1>2. /\ c \in OperationCall /\ c.kind \in {"upload", "ack"}
      /\ OperationFits(revisions, sessions, c)
  BY <1>1, OperationKnows
<1>3. c.kind = "upload" => ~c.ok
  BY <1>1 DEF AnswerStored
<1>4. c.kind = "upload" /\ c.pc \in {"complete", "write"} =>
        c.target \in DOMAIN revisions /\ revisions[c.target].stream = c.stream
  BY <1>2, OwnOperation DEF CarriesContent, Stored
<1>5. ASSUME NEW pc \in {"reject", "write", "fail", "aggregate"}, Goes(h, pc)
      PROVE  SameRequest(c, call'[h]) /\ AnswerStored(revisions, call'[h])
  <2> DEFINE cn == [c EXCEPT !.pc = pc]
  <2>1. call'[h] = cn
    BY <1>5 DEF Goes, SyncInv, SyncTypeOK
  <2>2. /\ cn.pc = pc /\ cn.kind = c.kind /\ cn.session = c.session
        /\ cn.stream = c.stream /\ cn.ok = c.ok
    BY <1>2 DEF OperationCall
  <2> HIDE DEF cn, c
  <2> QED BY <1>2, <1>3, <2>1, <2>2 DEF SameRequest, AnswerStored
<1>6. ASSUME NEW ok \in BOOLEAN, CompleteReturns(h, ok),
             ok => c.pc \in {"complete", "write"}
      PROVE  SameRequest(c, call'[h]) /\ AnswerStored(revisions, call'[h])
  <2> DEFINE pc == IF ok \/ c.kind = "ack" THEN "aggregate" ELSE "reply"
             cn == [c EXCEPT !.ok = ok, !.pc = pc]
  <2>1. call'[h] = cn
    BY <1>6 DEF CompleteReturns, SyncInv, SyncTypeOK
  <2>2. pc \in {"aggregate", "reply"}
    OBVIOUS
  <2> HIDE DEF pc
  <2>3. /\ cn.pc = pc /\ cn.kind = c.kind /\ cn.session = c.session
        /\ cn.stream = c.stream /\ cn.target = c.target
    BY <1>2 DEF OperationCall
  <2>4. cn.ok => ok
    BY <1>2 DEF OperationCall
  <2> HIDE DEF cn, c
  <2> QED BY <1>2, <1>4, <1>6, <2>1, <2>2, <2>3, <2>4 DEF SameRequest, AnswerStored
<1>7. CASE UploadPushed(h)
  <2>1. CASE Replies(h, FALSE)
    <3> DEFINE cn == [c EXCEPT !.pc = "reply", !.ok = FALSE]
    <3>1. call'[h] = cn
      BY <2>1 DEF Replies, SyncInv, SyncTypeOK
    <3>2. /\ cn.pc = "reply" /\ cn.kind = c.kind /\ cn.session = c.session
          /\ cn.stream = c.stream /\ ~cn.ok
      BY <1>2 DEF OperationCall
    <3> HIDE DEF cn, c
    <3> QED BY <1>1, <1>2, <3>1, <3>2 DEF SameRequest, AnswerStored, c
  <2>2. CASE Goes(h, "fail")
    BY <1>1, <1>5, <2>2
  <2>3. CASE call' = [call EXCEPT ![h].pc = "complete", ![h].target = push[h].result]
    <3> DEFINE cn == [c EXCEPT !.pc = "complete", !.target = push[h].result]
    <3>1. call'[h] = cn
      BY <2>3 DEF SyncInv, SyncTypeOK
    <3>2. /\ cn.pc = "complete" /\ cn.kind = c.kind /\ cn.session = c.session
          /\ cn.stream = c.stream /\ cn.ok = c.ok
      BY <1>2 DEF OperationCall
    <3> HIDE DEF cn, c
    <3> QED BY <1>1, <1>2, <1>3, <3>1, <3>2 DEF SameRequest, AnswerStored, c
  <2> QED BY <1>7, <2>1, <2>2, <2>3 DEF UploadPushed
<1>8. CASE FailSyncOperation(h)
  BY <1>1, <1>5, <1>8 DEF FailSyncOperation
<1>9. CASE ReadOperation(h)
  <2>1. (Op(c).actual = c.actual /\ Op(c).target = c.target) \in BOOLEAN
    OBVIOUS
  <2>2. /\ c.pc = "complete"
        /\ \/ \E ok \in BOOLEAN : CompleteReturns(h, ok)
           \/ Goes(h, "reject")
           \/ Goes(h, "write")
    BY <1>9, <2>1 DEF ReadOperation
  <2> QED BY <1>1, <1>5, <1>6, <2>2
<1>10. CASE RejectOperation(h)
  BY <1>1, <1>6, <1>10 DEF RejectOperation
<1>11. CASE CompleteOperation(h)
  BY <1>1, <1>6, <1>11 DEF CompleteOperation
<1> QED BY <1>7, <1>8, <1>9, <1>10, <1>11

\* A request goes on as it was, and an upload that succeeded stays answered.
LEMMA RequestGoesOn ==
  ASSUME SyncInv, NEW h \in Handlers, CallStep(h), AnswerStored(revisions, call[h]),
         Grows(revisions, revisions')
  PROVE  /\ call[h].pc # "idle" => SameRequest(call[h], call'[h])
         /\ AnswerStored(revisions', call'[h])
<1>1. CASE NegotiateStream(h) \/ LookupSession(h) \/ InsertSession(h)
  <2>1. SameRequest(call[h], call'[h]) /\ call[h].kind = "create"
    BY <1>1, CreationGoesOn
  <2> QED BY <2>1 DEF SameRequest, AnswerStored
<1>2. CASE ReadOperations(h) \/ StoreSessionStatus(h)
  <2>1. /\ SameRequest(call[h], call'[h])
        /\ call[h].kind = "upload" => /\ call'[h].target = call[h].target
                                      /\ call'[h].ok = call[h].ok
                                      /\ call'[h].pc \in {"store", "reply"}
    BY <1>2, AggregateGoesOn
  <2>2. call[h].pc # "idle" /\ UNCHANGED revisions
    BY <1>2 DEF ReadOperations, StoreSessionStatus
  <2> QED BY <2>1, <2>2 DEF SameRequest, AnswerStored
<1>3. CASE PushStep(h) /\ UNCHANGED <<sessions, call>>
  BY <1>3 DEF SameRequest, AnswerStored, Grows
<1>4. CASE \/ UploadPushed(h) \/ FailSyncOperation(h) \/ ReadOperation(h)
           \/ RejectOperation(h) \/ CompleteOperation(h)
  BY <1>4, OperationGoesOn
<1> QED BY <1>1, <1>2, <1>3, <1>4 DEF CallStep

-----------------------------------------------------------------------------
(* What agents know lasts *)

LEMMA BasesLast ==
  ASSUME NEW rs, NEW rsn, Grows(rs, rsn), NEW streams, BasesFit(rs, streams)
  PROVE  BasesFit(rsn, streams)
BY StoredLasts DEF BasesFit, BaseFits

LEMMA RunLasts ==
  ASSUME NEW rs, NEW rsn, Grows(rs, rsn), NEW ss, NEW ssn, Evolves(ss, ssn),
         NEW d, NEW a, RunFits(rs, ss, d, a)
  PROVE  RunFits(rsn, ssn, d, a)
<1> SUFFICES ASSUME a.pc # "idle"
             PROVE  /\ BasesFit(rsn, a.streams)
                    /\ CollectionFits(rsn, a)
                    /\ a.pc \notin {"create", "creating"} => PlannedFor(ssn, d, a)
                    /\ a.pc \in Downloads => DownloadPlanned(ssn, a)
  BY DEF RunFits
<1>1. BasesFit(rsn, a.streams)
  BY BasesLast DEF RunFits
<1>2. CollectionFits(rsn, a)
  <2>1. DOMAIN rs \subseteq DOMAIN rsn
    BY DEF Grows
  <2>2. ASSUME NEW s \in Streams
        PROVE  /\ a.saves[s] \in [base : {NoRevision} \cup DOMAIN rsn, hash : Content]
               /\ a.saves[s].hash = a.sets[s]
    <3>1. /\ a.saves[s] \in [base : {NoRevision} \cup DOMAIN rs, hash : Content]
          /\ a.saves[s].hash = a.sets[s]
      BY DEF RunFits, CollectionFits
    <3> QED BY <2>1, <3>1
  <2> QED BY <2>2 DEF CollectionFits
<1>3. ASSUME a.pc \notin {"create", "creating"} PROVE PlannedFor(ssn, d, a)
  BY <1>3 DEF RunFits, PlannedFor, Evolves
<1>4. ASSUME a.pc \in Downloads PROVE DownloadPlanned(ssn, a)
  <2>1. PlannedFor(ss, d, a) /\ DownloadPlanned(ss, a)
    BY <1>4 DEF RunFits, Downloads
  <2> QED BY <2>1 DEF DownloadPlanned, PlannedFor, Evolves, SamePlan
<1> QED BY <1>1, <1>2, <1>3, <1>4

LEMMA AskLasts ==
  ASSUME NEW c, NEW cn, SameRequest(c, cn), NEW d, NEW a, Asks(c, d, a)
  PROVE  Asks(cn, d, a)
BY DEF SameRequest, Asks

-----------------------------------------------------------------------------
(* Types *)

\* The agents' own part of the state.
AgentTyped ==
  /\ local \in [Devices -> [Streams -> LocalSaves]]
  /\ backups \in [Devices -> [Streams -> SUBSET Hashes]]
  /\ aside \in [Devices -> [Streams -> SUBSET (Hashes \cup {EmptySave})]]
  /\ config \in [Devices -> Config]
  /\ agent \in [Devices -> Run \cup {NoRun}]
  /\ budget \in [plays : 0..MaxPlays, crashes : 0..MaxCrashes, orphans : 0..MaxOrphans]

LEMMA TypesOfAgents == SaveSyncTypeOK <=> SyncTypeOK /\ AgentTyped
BY DEF SaveSyncTypeOK, AgentTyped

LEMMA RunTyped ==
  ASSUME AgentTyped, NEW d \in Devices, agent[d].pc # "idle"
  PROVE  agent[d] \in Run
BY DEF AgentTyped, NoRun

LEMMA ConfigTyped ==
  ASSUME AgentTyped, NEW d \in Devices
  PROVE  /\ config[d] \in Config
         /\ config[d].streams \in [Streams -> StreamState]
         /\ config[d].pending \in [key : Keys, saves : SaveStates] \cup {NoPending}
BY DEF AgentTyped, Config

-----------------------------------------------------------------------------
(* A step of the system, from what it does to each of its parts *)

LEMMA AgentInvStep ==
  ASSUME AgentInv, SyncInv', AgentTyped',
         Grows(revisions, revisions'), Evolves(sessions, sessions'),
         \A h \in Handlers :
           call'[h] = call[h] \/ AnswerStored(revisions', call'[h]),
         \A d \in Devices :
           config'[d].streams = config[d].streams \/ BasesFit(revisions', config'[d].streams),
         \A d \in Devices :
           agent'[d] = agent[d] \/ RunFits(revisions', sessions', d, agent'[d]),
         \A d \in Devices : WaitFits(call', d, agent'[d]),
         WaitAlone(agent')
  PROVE  AgentInv'
<1>1. SaveSyncTypeOK'
  BY TypesOfAgents DEF SaveSyncTypeOK, SyncInv, AgentTyped
<1>2. ASSUME NEW h \in Handlers PROVE AnswerStored(revisions', call'[h])
  <2>1. AnswerStored(revisions, call[h])
    BY DEF AgentInv
  <2> QED BY <2>1 DEF AnswerStored, Grows
<1>3. ASSUME NEW d \in Devices
      PROVE  /\ BasesFit(revisions', config'[d].streams)
             /\ RunFits(revisions', sessions', d, agent'[d])
  <2>1. BasesFit(revisions, config[d].streams) /\ RunFits(revisions, sessions, d, agent[d])
    BY DEF AgentInv
  <2> QED BY <2>1, BasesLast, RunLasts
<1> QED BY <1>1, <1>2, <1>3 DEF AgentInv

\* A step of one agent alone.
LEMMA AloneStep ==
  ASSUME AgentInv, AgentTyped', UNCHANGED syncVars, NEW d \in Devices, NEW a, NEW k,
         agent' = [agent EXCEPT ![d] = a], config' = [config EXCEPT ![d] = k],
         a.pc \notin Waiting, BasesFit(revisions, k.streams),
         RunFits(revisions, sessions, d, a)
  PROVE  AgentInv'
<1>1. UNCHANGED <<revisions, push, sessions, call>>
  BY DEF syncVars
<1>2. SyncInv'
  BY SyncInvNext DEF AgentInv
<1>3. AgentTyped
  BY TypesOfAgents DEF AgentInv
<1>4. \A e \in Devices : /\ agent'[e] = IF e = d THEN a ELSE agent[e]
                         /\ config'[e] = IF e = d THEN k ELSE config[e]
  BY <1>3 DEF AgentTyped
<1>5. \A e \in Devices : WaitFits(call', e, agent'[e])
  BY <1>1, <1>4 DEF AgentInv, WaitFits
<1>6. WaitAlone(agent')
  BY <1>4 DEF AgentInv, WaitAlone
<1> QED BY <1>1, <1>2, <1>4, <1>5, <1>6, AgentInvStep, GrowsReflexive, EvolvesReflexive

\* A run that is over knows nothing.
LEMMA NoRunFits ==
  NoRun.pc \notin Waiting /\ \A rs, ss, d : RunFits(rs, ss, d, NoRun)
BY DEF NoRun, Waiting, RunFits

\* A step of an agent and one request, which it sends or has waited for.
LEMMA TogetherStep ==
  ASSUME AgentInv, AgentTyped', UNCHANGED config, NEW d \in Devices, NEW a,
         agent' = [agent EXCEPT ![d] = a], NEW h \in Handlers,
         [Next]_storeVars, OwnPush(h), Keeps(h),
         call[h].pc = "idle" \/ (agent[d].pc \in Waiting /\ agent[d].handler = h),
         AnswerStored(revisions', call'[h]),
         RunFits(revisions', sessions', d, a),
         a.pc \in Waiting => a.handler = h /\ Asks(call'[h], d, a)
  PROVE  AgentInv'
<1>1. SyncInv'
  BY SyncInvStep DEF AgentInv
<1>2. Grows(revisions, revisions') /\ Evolves(sessions, sessions')
  BY StoreGrows DEF AgentInv, SyncInv, Keeps
<1>3. AgentTyped
  BY TypesOfAgents DEF AgentInv
<1>4. \A e \in Devices : agent'[e] = IF e = d THEN a ELSE agent[e]
  BY <1>3 DEF AgentTyped
<1>5. \A g \in Handlers : g # h => call'[g] = call[g]
  BY DEF AgentInv, SyncInv, SyncTypeOK, Keeps
<1>6. ASSUME NEW e \in Devices, e # d, agent[e].pc \in Waiting
      PROVE  agent[e].handler # h /\ agent[e].handler \in Handlers
  <2>1. Asks(call[agent[e].handler], e, agent[e])
    BY <1>6 DEF AgentInv, WaitFits
  <2>2. agent[e] \in Run
    BY <1>3, <1>6, RunTyped DEF Waiting
  <2>3. agent[e].handler \in Handlers
    BY <2>2 DEF Run
  <2>4. CASE call[h].pc = "idle"
    BY <2>1, <2>3, <2>4 DEF Asks
  <2>5. CASE agent[d].pc \in Waiting /\ agent[d].handler = h
    BY <1>6, <2>3, <2>5 DEF AgentInv, WaitAlone
  <2> QED BY <2>4, <2>5
<1>7. \A e \in Devices : WaitFits(call', e, agent'[e])
  <2>1. WaitFits(call', d, agent'[d])
    BY <1>4 DEF WaitFits
  <2>2. ASSUME NEW e \in Devices, e # d PROVE WaitFits(call', e, agent'[e])
    BY <1>4, <1>5, <1>6, <2>2 DEF AgentInv, WaitFits
  <2> QED BY <2>1, <2>2
<1>8. WaitAlone(agent')
  BY <1>4, <1>6 DEF AgentInv, WaitAlone
<1> QED BY <1>1, <1>2, <1>4, <1>5, <1>7, <1>8, AgentInvStep

-----------------------------------------------------------------------------
(* The server's own steps *)

LEMMA ServerKeepsAgents ==
  ASSUME AgentInv, UNCHANGED agentVars, NEW h \in Handlers,
         [Next]_storeVars, OwnPush(h), Keeps(h), AnswerStored(revisions', call'[h]),
         Awaited(h) => SameRequest(call[h], call'[h])
  PROVE  AgentInv'
<1>1. UNCHANGED <<local, backups, aside, config, agent, budget>>
  BY DEF agentVars
<1>2. AgentTyped'
  <2>1. AgentTyped
    BY TypesOfAgents DEF AgentInv
  <2> QED BY <1>1, <2>1 DEF AgentTyped
<1>3. SyncInv'
  BY SyncInvStep DEF AgentInv
<1>4. Grows(revisions, revisions') /\ Evolves(sessions, sessions')
  BY StoreGrows DEF AgentInv, SyncInv, Keeps
<1>5. \A g \in Handlers : g # h => call'[g] = call[g]
  BY DEF AgentInv, SyncInv, SyncTypeOK, Keeps
<1>6. ASSUME NEW d \in Devices PROVE WaitFits(call', d, agent[d])
  <2> SUFFICES ASSUME agent[d].pc \in Waiting
               PROVE  Asks(call'[agent[d].handler], d, agent[d])
    BY DEF WaitFits
  <2>1. Asks(call[agent[d].handler], d, agent[d])
    BY DEF AgentInv, WaitFits
  <2>2. agent[d].handler \in Handlers
    <3>1. agent[d] \in Run
      BY TypesOfAgents, RunTyped DEF AgentInv, Waiting
    <3> QED BY <3>1 DEF Run
  <2>3. CASE agent[d].handler = h
    BY <2>1, <2>3, AskLasts DEF Awaited
  <2>4. CASE agent[d].handler # h
    BY <1>5, <2>1, <2>2, <2>4
  <2> QED BY <2>3, <2>4
<1>7. WaitAlone(agent)
  BY DEF AgentInv
<1> QED BY <1>1, <1>2, <1>3, <1>4, <1>5, <1>6, <1>7, AgentInvStep

LEMMA ServerStepInv ==
  ASSUME AgentInv, NEW h \in Handlers, ServerStep(h)
  PROVE  AgentInv'
<1>1. SyncInv /\ CallStep(h) /\ UNCHANGED agentVars /\ AnswerStored(revisions, call[h])
  BY DEF AgentInv, ServerStep
<1>2. [Next]_storeVars /\ OwnPush(h) /\ Keeps(h)
  BY <1>1, CallStepKeeps
<1>3. Grows(revisions, revisions')
  BY <1>1, <1>2, StoreGrows DEF SyncInv
<1>4. /\ call[h].pc # "idle" => SameRequest(call[h], call'[h])
      /\ AnswerStored(revisions', call'[h])
  BY <1>1, <1>3, RequestGoesOn
<1>5. Awaited(h) => call[h].pc # "idle"
  BY DEF Awaited, AgentInv, WaitFits, Asks
<1> QED BY <1>1, <1>2, <1>4, <1>5, ServerKeepsAgents

\* A request that is over has answered nothing.
LEMMA NoAnswer == \A rs : AnswerStored(rs, NoCall)
BY DEF AnswerStored, NoCall

LEMMA OrphanOverInv ==
  ASSUME AgentInv, NEW h \in Handlers, OrphanOver(h)
  PROVE  AgentInv'
<1>1. SyncInv /\ RequestOver(h) /\ UNCHANGED agentVars /\ ~Awaited(h)
  BY DEF AgentInv, OrphanOver
<1>2. [Next]_storeVars /\ OwnPush(h) /\ Keeps(h)
  BY <1>1, RequestOverKeeps
<1>3. call'[h] = NoCall
  BY <1>1 DEF RequestOver, SyncInv, SyncTypeOK
<1> QED BY <1>1, <1>2, <1>3, NoAnswer, ServerKeepsAgents

-----------------------------------------------------------------------------
(* Steps of an agent alone *)

LEMMA TypedStep ==
  ASSUME AgentTyped, NEW d \in Devices, NEW a \in Run \cup {NoRun},
         agent' = [agent EXCEPT ![d] = a],
         UNCHANGED <<local, backups, aside, config, budget>>
  PROVE  AgentTyped'
BY DEF AgentTyped

\* A run that moves to another step of its plan, or to another operation.
LEMMA RunMoves ==
  ASSUME NEW rs, NEW ss, NEW d, NEW a \in Run, RunFits(rs, ss, d, a),
         a.pc \notin {"create", "creating"}, NEW b \in Run,
         b.saves = a.saves, b.sets = a.sets, b.key = a.key, b.session = a.session,
         BasesFit(rs, b.streams), b.pc \notin {"create", "creating"},
         b.pc \in Downloads => DownloadPlanned(ss, b)
  PROVE  RunFits(rs, ss, d, b)
<1>1. a.pc # "idle"
  BY DEF Run, AgentPC, Waiting
<1>2. CollectionFits(rs, a) /\ PlannedFor(ss, d, a)
  BY <1>1 DEF RunFits
<1> QED BY <1>2 DEF RunFits, CollectionFits, PlannedFor

LEMMA StartSyncInv ==
  ASSUME AgentInv, NEW d \in Devices, StartSync(d)
  PROVE  AgentInv'
<1> DEFINE saves == Collected(d)
           streams == config[d].streams
           sets == [s \in Streams |-> HashOf(local[d][s])]
           A(key) == [pc |-> "create", sets |-> sets, key |-> key, saves |-> saves,
                      streams |-> streams, session |-> NoSession,
                      done |-> {}, stream |-> CHOOSE s \in Streams : TRUE,
                      handler |-> CHOOSE h \in Handlers : TRUE,
                      existed |-> FALSE, moved |-> NoHash]
<1>1. AgentTyped /\ UNCHANGED <<syncVars, local, backups, aside, budget>>
  BY TypesOfAgents DEF AgentInv, StartSync
<1>2. /\ config[d] \in Config /\ streams \in [Streams -> StreamState]
      /\ config[d].pending \in [key : Keys, saves : SaveStates] \cup {NoPending}
      /\ sets \in [Streams -> Content]
  <2>1. ASSUME NEW s \in Streams PROVE HashOf(local[d][s]) \in Content
    BY <1>1 DEF AgentTyped, HashOf, LocalSaves, Content
  <2> QED BY <1>1, <2>1, ConfigTyped DEF AgentTyped
<1>3. BasesFit(revisions, streams)
  BY DEF AgentInv
<1>4. DOMAIN revisions \subseteq Nat
  <2>1. revisions \in Seq(Revision)
    BY DEF AgentInv, SyncInv, StoreInv, TypeOK
  <2> QED BY <2>1
<1>5. ASSUME NEW s \in Streams
      PROVE  /\ saves[s] \in [base : {NoRevision} \cup DOMAIN revisions, hash : Content]
             /\ saves[s].hash = sets[s]
  <2>1. saves[s] = [base |-> streams[s].revision, hash |-> sets[s]]
    BY DEF Collected
  <2>2. streams[s].revision \in {NoRevision} \cup DOMAIN revisions
    BY <1>3 DEF BasesFit, BaseFits, Stored, NoStreamState
  <2>3. sets[s] \in Content
    BY <1>2
  <2> HIDE DEF streams, saves, sets
  <2> QED BY <2>1, <2>2, <2>3
<1>6. saves \in SaveStates
  <2>1. ASSUME NEW s \in Streams PROVE saves[s] \in SaveState
    <3> HIDE DEF saves
    <3>1. saves[s] \in [base : {NoRevision} \cup DOMAIN revisions, hash : Content]
      BY <1>5
    <3>2. {NoRevision} \cup DOMAIN revisions \subseteq Nat
      BY <1>4 DEF NoRevision
    <3> QED BY <3>1, <3>2 DEF SaveState, Content
  <2>2. saves = [s \in Streams |-> saves[s]]
    BY DEF Collected
  <2> HIDE DEF saves
  <2> QED BY <2>1, <2>2 DEF SaveStates
<1>7. ASSUME NEW key \in Keys
      PROVE  /\ A(key) \in Run /\ A(key).pc = "create"
             /\ RunFits(revisions, sessions, d, A(key))
  <2>1. /\ (CHOOSE s \in Streams : TRUE) \in Streams
        /\ (CHOOSE h \in Handlers : TRUE) \in Handlers
    BY SaveSyncAssumption, Zenon
  <2> DEFINE stream == CHOOSE s \in Streams : TRUE
             handler == CHOOSE h \in Handlers : TRUE
  <2> HIDE DEF saves, sets, streams, stream, handler
  <2>2. A(key) \in Run
    BY <1>2, <1>6, <2>1 DEF Run, AgentPC, NoSession, LocalSaves, Content, stream, handler
  <2>3. CollectionFits(revisions, A(key))
    BY <1>5 DEF CollectionFits
  <2> QED BY <1>3, <2>2, <2>3 DEF RunFits, Downloads
<1>8. PICK key \in Keys, k \in Config :
        /\ agent' = [agent EXCEPT ![d] = A(key)]
        /\ config' = [config EXCEPT ![d] = k]
        /\ k.streams = streams
  <2>1. CASE /\ config[d].pending # NoPending
             /\ agent' = [agent EXCEPT ![d] = A(config[d].pending.key)]
             /\ UNCHANGED config
    <3>1. config[d].pending.key \in Keys
      BY <1>2, <2>1
    <3>2. config' = [config EXCEPT ![d] = config[d]]
      BY <1>1, <2>1 DEF AgentTyped
    <3> QED BY <1>2, <2>1, <3>1, <3>2
  <2>2. ASSUME NEW key, key = (CHOOSE k \in Keys : k \notin UsedKeys(d)),
               Keys \ UsedKeys(d) # {}, agent' = [agent EXCEPT ![d] = A(key)],
               config' = [config EXCEPT ![d].pending = [key |-> key, saves |-> saves]]
        PROVE  \E kk \in Keys, k \in Config :
                 /\ agent' = [agent EXCEPT ![d] = A(kk)]
                 /\ config' = [config EXCEPT ![d] = k]
                 /\ k.streams = streams
    <3>1. key \in Keys
      BY <2>2, Zenon
    <3> DEFINE pending == [key |-> key, saves |-> saves]
               k == [config[d] EXCEPT !.pending = pending]
    <3>2. config' = [config EXCEPT ![d] = k]
      BY <1>1, <2>2 DEF AgentTyped
    <3>3. pending \in [key : Keys, saves : SaveStates] \cup {NoPending}
      BY <1>6, <3>1
    <3> HIDE DEF pending, saves
    <3>4. k \in Config /\ k.streams = config[d].streams
      BY <1>2, <3>3 DEF Config
    <3> HIDE DEF k
    <3> QED BY <2>2, <3>1, <3>2, <3>4
  <2> QED BY <2>1, <2>2 DEF StartSync
<1> HIDE DEF A, saves, streams
<1>9. AgentTyped'
  BY <1>1, <1>7, <1>8 DEF AgentTyped
<1>10. A(key).pc \notin Waiting
  BY <1>7 DEF Waiting
<1> QED BY <1>1, <1>3, <1>7, <1>8, <1>9, <1>10, AloneStep DEF streams

\* A step of a run that leaves the configuration as it is.
LEMMA RunStep ==
  ASSUME AgentInv, AgentTyped', UNCHANGED <<syncVars, config>>, NEW d \in Devices,
         NEW a, agent' = [agent EXCEPT ![d] = a], a.pc \notin Waiting,
         RunFits(revisions, sessions, d, a)
  PROVE  AgentInv'
<1>1. AgentTyped
  BY TypesOfAgents DEF AgentInv
<1>2. config' = [config EXCEPT ![d] = config[d]]
  BY <1>1 DEF AgentTyped
<1>3. BasesFit(revisions, config[d].streams)
  BY DEF AgentInv
<1> QED BY <1>2, <1>3, AloneStep

LEMMA RunEndsInv ==
  ASSUME AgentInv, AgentTyped', UNCHANGED <<syncVars, config>>, NEW d \in Devices,
         RunEnds(d)
  PROVE  AgentInv'
BY NoRunFits, RunStep DEF RunEnds

\* The run a step of the plan starts from.
LEMMA PlannedRun ==
  ASSUME AgentInv, NEW d \in Devices,
         agent[d].pc \in {"next", "uploading"} \cup Downloads
  PROVE  /\ agent[d] \in Run /\ RunFits(revisions, sessions, d, agent[d])
         /\ agent[d].pc \notin {"create", "creating"}
         /\ BasesFit(revisions, agent[d].streams)
         /\ PlannedFor(sessions, d, agent[d])
         /\ agent[d].pc \in Downloads => DownloadPlanned(sessions, agent[d])
         /\ AgentTyped
<1>1. agent[d].pc # "idle" /\ agent[d].pc \notin {"create", "creating"}
  BY DEF Downloads
<1>2. AgentTyped /\ RunFits(revisions, sessions, d, agent[d])
  BY TypesOfAgents DEF AgentInv
<1> QED BY <1>1, <1>2, RunTyped DEF RunFits

\* An operation of the plan, with what the server knows of it.
LEMMA PlannedOperation ==
  ASSUME AgentInv, NEW d \in Devices, PlannedFor(sessions, d, agent[d]),
         NEW s \in Named(PlanOf(d))
  PROVE  /\ s \in Streams /\ agent[d].session \in DOMAIN sessions
         /\ PlanOf(d)[s] \in Operation
         /\ \E state : OpFits(revisions, s, state, PlanOf(d)[s])
<1>1. agent[d].session \in DOMAIN sessions /\ s \in Named(sessions[agent[d].session].ops)
  BY DEF PlannedFor, PlanOf
<1>2. SyncInv
  BY DEF AgentInv
<1>3. PICK h : h \in Handlers
  BY SaveSyncAssumption
<1> QED BY <1>1, <1>2, <1>3, StartOfOperation DEF PlanOf

LEMMA UploadGoneInv ==
  ASSUME AgentInv, NEW d \in Devices, UploadGone(d)
  PROVE  AgentInv'
<1>1. RunEnds(d) /\ UNCHANGED <<syncVars, local, backups, aside, config, budget>>
  BY DEF UploadGone
<1>2. AgentTyped'
  BY <1>1, TypesOfAgents, TypedStep DEF AgentInv, RunEnds
<1> QED BY <1>1, <1>2, RunEndsInv

LEMMA DownloadInv ==
  ASSUME AgentInv, NEW d \in Devices, Download(d)
  PROVE  AgentInv'
<1>1. PICK s \in Left(d, "download") :
        agent' = [agent EXCEPT ![d].pc = "install", ![d].stream = s]
  BY DEF Download
<1> DEFINE a == agent[d]
           b == [a EXCEPT !.pc = "install", !.stream = s]
<1>2. /\ a.pc = "next" /\ s \in Named(PlanOf(d)) /\ PlanOf(d)[s].action = "download"
      /\ UNCHANGED <<syncVars, local, backups, aside, config, budget>>
  BY DEF Left, Download
<1>3. /\ a \in Run /\ RunFits(revisions, sessions, d, a) /\ AgentTyped
      /\ a.pc \notin {"create", "creating"} /\ BasesFit(revisions, a.streams)
      /\ PlannedFor(sessions, d, a)
  BY <1>2, PlannedRun
<1>4. s \in Streams
  BY <1>2, <1>3, PlannedOperation
<1>5. agent' = [agent EXCEPT ![d] = b]
  BY <1>1, <1>3 DEF AgentTyped
<1>6. /\ b \in Run /\ b.pc = "install" /\ b.stream = s
      /\ b.saves = a.saves /\ b.sets = a.sets /\ b.key = a.key
      /\ b.session = a.session /\ b.streams = a.streams
  BY <1>3, <1>4 DEF Run, AgentPC
<1>7. DownloadPlanned(sessions, b)
  BY <1>2, <1>6 DEF DownloadPlanned, PlanOf
<1> HIDE DEF a, b
<1>8. RunFits(revisions, sessions, d, b)
  BY <1>3, <1>6, <1>7, RunMoves
<1>9. AgentTyped'
  BY <1>2, <1>3, <1>5, <1>6, TypedStep
<1> QED BY <1>2, <1>5, <1>6, <1>8, <1>9, RunStep DEF Waiting

\* A download that has its operation still to do.
LEMMA DownloadGoesOn ==
  ASSUME AgentInv, NEW d \in Devices, agent[d].pc \in {"install", "replace", "place"},
         NEW pc \in {"replace", "place", "ack"}, NEW existed \in BOOLEAN,
         NEW moved \in LocalSaves, NEW b,
         b = [agent[d] EXCEPT !.pc = pc, !.existed = existed, !.moved = moved]
  PROVE  /\ b \in Run /\ b.pc \notin Waiting
         /\ RunFits(revisions, sessions, d, b)
<1> DEFINE a == agent[d]
<1>1. /\ a \in Run /\ RunFits(revisions, sessions, d, a)
      /\ a.pc \notin {"create", "creating"} /\ BasesFit(revisions, a.streams)
      /\ DownloadPlanned(sessions, a)
  BY PlannedRun DEF Downloads
<1>2. /\ b \in Run /\ b.pc = pc /\ b.stream = a.stream
      /\ b.saves = a.saves /\ b.sets = a.sets /\ b.key = a.key
      /\ b.session = a.session /\ b.streams = a.streams
  BY <1>1 DEF Run, AgentPC
<1>3. DownloadPlanned(sessions, b)
  BY <1>1, <1>2 DEF DownloadPlanned
<1> HIDE DEF a
<1>4. RunFits(revisions, sessions, d, b)
  BY <1>1, <1>2, <1>3, RunMoves
<1> QED BY <1>2, <1>4 DEF Waiting

\* What a download knows of the save it is about, and of the content to come.
LEMMA DownloadTyped ==
  ASSUME AgentInv, NEW d \in Devices, agent[d].pc \in Downloads
  PROVE  /\ AgentTyped
         /\ agent[d] \in Run /\ agent[d].stream \in Streams
         /\ agent[d].existed \in BOOLEAN /\ agent[d].moved \in LocalSaves
         /\ local[d][agent[d].stream] \in LocalSaves
         /\ agent[d].session \in DOMAIN sessions
         /\ agent[d].stream \in Named(PlanOf(d))
         /\ OpOf(d).action = "download" /\ OpOf(d).target \in Nat
         /\ Stored(revisions, agent[d].stream, OpOf(d).target, OpOf(d).expected)
         /\ OpOf(d).expected \in Hashes
<1> DEFINE a == agent[d]
<1>1. /\ a \in Run /\ AgentTyped
      /\ PlannedFor(sessions, d, a) /\ DownloadPlanned(sessions, a)
  BY PlannedRun
<1>2. /\ a.stream \in Streams /\ a.existed \in BOOLEAN /\ a.moved \in LocalSaves
  BY <1>1 DEF Run
<1>3. a.stream \in Named(PlanOf(d)) /\ OpOf(d).action = "download"
  BY <1>1 DEF DownloadPlanned, PlanOf, OpOf
<1>4. PICK state : /\ a.session \in DOMAIN sessions
                   /\ OpOf(d) \in Operation
                   /\ OpFits(revisions, a.stream, state, OpOf(d))
  BY <1>1, <1>3, PlannedOperation DEF OpOf
<1>5. Stored(revisions, a.stream, OpOf(d).target, OpOf(d).expected)
  BY <1>3, <1>4 DEF OpFits
<1>6. OpOf(d).expected \in Hashes
  <2>1. \A r \in DOMAIN revisions : revisions[r] \in Revision
    BY DEF AgentInv, SyncInv, StoreInv, TypeOK
  <2> QED BY <1>5, <2>1 DEF Stored, Revision
<1> QED BY <1>1, <1>2, <1>3, <1>4, <1>5, <1>6 DEF AgentTyped, Operation

LEMMA BackUpInv ==
  ASSUME AgentInv, NEW d \in Devices, BackUp(d)
  PROVE  AgentInv'
<1> DEFINE a == agent[d]
           s == a.stream
           exists == local[d][s] # NoHash
           b == [a EXCEPT !.pc = "replace", !.existed = exists, !.moved = a.moved]
<1>1. a.pc = "install" /\ UNCHANGED <<syncVars, local, aside, config, budget>>
  BY DEF BackUp
<1>2. /\ AgentTyped /\ a \in Run /\ s \in Streams /\ a.moved \in LocalSaves
      /\ local[d][s] \in LocalSaves
  BY <1>1, DownloadTyped DEF Downloads
<1>3. CASE agent' = [agent EXCEPT ![d].pc = "replace", ![d].existed = exists]
  <2>1. agent' = [agent EXCEPT ![d] = b]
    BY <1>2, <1>3 DEF AgentTyped, Run
  <2>2. exists \in BOOLEAN
    OBVIOUS
  <2>3. b \in Run /\ b.pc \notin Waiting /\ RunFits(revisions, sessions, d, b)
    BY <1>1, <1>2, <2>2, DownloadGoesOn
  <2>4. backups' \in [Devices -> [Streams -> SUBSET Hashes]]
    <3>1. \/ UNCHANGED backups
          \/ /\ exists /\ local[d][s] = a.sets[s]
             /\ backups' = [backups EXCEPT ![d][s] = @ \cup {local[d][s]}]
      BY <1>3 DEF BackUp
    <3>2. exists /\ local[d][s] = a.sets[s] => local[d][s] \in Hashes
      BY <1>2 DEF Run, Content
    <3>3. ASSUME NEW c \in Hashes, backups' = [backups EXCEPT ![d][s] = @ \cup {c}]
          PROVE  backups' \in [Devices -> [Streams -> SUBSET Hashes]]
      <4> DEFINE saved == backups[d][s] \cup {c}
      <4>1. saved \in SUBSET Hashes
        BY <1>2 DEF AgentTyped
      <4>2. backups' = [backups EXCEPT ![d][s] = saved]
        BY <3>3
      <4> HIDE DEF saved, s
      <4> QED BY <1>2, <4>1, <4>2 DEF AgentTyped
    <3> QED BY <1>2, <3>1, <3>2, <3>3 DEF AgentTyped
  <2> HIDE DEF b
  <2>5. AgentTyped'
    BY <1>1, <1>2, <2>1, <2>3, <2>4 DEF AgentTyped
  <2> QED BY <1>1, <2>1, <2>3, <2>5, RunStep
<1>4. CASE RunEnds(d) /\ UNCHANGED backups
  <2>1. AgentTyped'
    BY <1>1, <1>2, <1>4, TypedStep DEF RunEnds
  <2> QED BY <1>1, <1>4, <2>1, RunEndsInv
<1> QED BY <1>3, <1>4 DEF BackUp

LEMMA UpdateTyped ==
  ASSUME NEW T, NEW f \in [Devices -> [Streams -> T]], NEW d \in Devices,
         NEW s \in Streams, NEW v \in T
  PROVE  [f EXCEPT ![d][s] = v] \in [Devices -> [Streams -> T]]
OBVIOUS

\* What is left of the bounds when the environment has taken its step.
Budget == [plays : 0..MaxPlays, crashes : 0..MaxCrashes, orphans : 0..MaxOrphans]

LEMMA BudgetSpent ==
  ASSUME NEW b \in Budget
  PROVE  /\ b.plays > 0 => [b EXCEPT !.plays = @ - 1] \in Budget
         /\ b.crashes > 0 => [b EXCEPT !.crashes = @ - 1] \in Budget
         /\ b.orphans > 0 => [b EXCEPT !.orphans = @ - 1] \in Budget
BY SaveSyncAssumption DEF Budget

\* The new save is in its place: what is left of the operation is to say so.
LEMMA InstalledFits ==
  ASSUME AgentInv, NEW d \in Devices, agent[d].pc \in {"replace", "place"},
         Installed(d, agent[d].stream)
  PROVE  /\ local' \in [Devices -> [Streams -> LocalSaves]]
         /\ \E b \in Run : /\ agent' = [agent EXCEPT ![d] = b] /\ b.pc \notin Waiting
                           /\ RunFits(revisions, sessions, d, b)
<1> DEFINE a == agent[d]
           b == [a EXCEPT !.pc = "ack", !.existed = a.existed, !.moved = a.moved]
<1>1. /\ AgentTyped /\ a \in Run /\ a.stream \in Streams
      /\ a.existed \in BOOLEAN /\ a.moved \in LocalSaves /\ OpOf(d).expected \in LocalSaves
  BY DownloadTyped DEF Downloads, LocalSaves, Content
<1>2. agent' = [agent EXCEPT ![d] = b]
  BY <1>1 DEF Installed, Does, AgentTyped, Run
<1>3. b \in Run /\ b.pc \notin Waiting /\ RunFits(revisions, sessions, d, b)
  BY <1>1, DownloadGoesOn
<1>4. local' \in [Devices -> [Streams -> LocalSaves]]
  BY <1>1, UpdateTyped DEF Installed, AgentTyped
<1> HIDE DEF b
<1> QED BY <1>2, <1>3, <1>4

LEMMA ReplaceInv ==
  ASSUME AgentInv, NEW d \in Devices, Replace(d)
  PROVE  AgentInv'
<1> DEFINE a == agent[d]
           s == a.stream
           b == [a EXCEPT !.pc = "place", !.existed = a.existed, !.moved = local[d][s]]
<1>1. a.pc = "replace" /\ UNCHANGED <<syncVars, backups, config, budget>>
  BY DEF Replace
<1>2. /\ AgentTyped /\ a \in Run /\ s \in Streams /\ a.existed \in BOOLEAN
      /\ local[d][s] \in LocalSaves
  BY <1>1, DownloadTyped DEF Downloads
<1>3. CASE Installed(d, s) /\ UNCHANGED aside
  <2>1. PICK c \in Run : /\ agent' = [agent EXCEPT ![d] = c] /\ c.pc \notin Waiting
                         /\ RunFits(revisions, sessions, d, c)
    BY <1>1, <1>3, InstalledFits
  <2>2. local' \in [Devices -> [Streams -> LocalSaves]]
    BY <1>1, <1>3, InstalledFits
  <2>3. AgentTyped'
    BY <1>1, <1>2, <1>3, <2>1, <2>2 DEF AgentTyped
  <2> QED BY <1>1, <2>1, <2>3, RunStep
<1>4. CASE /\ local[d][s] # NoHash
           /\ local' = [local EXCEPT ![d][s] = NoHash]
           /\ aside' = [aside EXCEPT ![d][s] = @ \cup {local[d][s]}]
           /\ agent' = [agent EXCEPT ![d].pc = "place", ![d].moved = local[d][s]]
  <2>1. agent' = [agent EXCEPT ![d] = b]
    BY <1>2, <1>4 DEF AgentTyped, Run
  <2>2. b \in Run /\ b.pc \notin Waiting /\ RunFits(revisions, sessions, d, b)
    BY <1>1, <1>2, DownloadGoesOn
  <2>3. local' \in [Devices -> [Streams -> LocalSaves]]
    BY <1>2, <1>4, UpdateTyped DEF AgentTyped, LocalSaves, Content
  <2>4. aside' \in [Devices -> [Streams -> SUBSET (Hashes \cup {EmptySave})]]
    <3>1. aside[d][s] \cup {local[d][s]} \in SUBSET (Hashes \cup {EmptySave})
      BY <1>2, <1>4 DEF AgentTyped, LocalSaves, Content
    <3> QED BY <1>2, <1>4, <3>1, UpdateTyped DEF AgentTyped
  <2> HIDE DEF b
  <2>5. AgentTyped'
    BY <1>1, <1>2, <2>1, <2>2, <2>3, <2>4 DEF AgentTyped
  <2> QED BY <1>1, <2>1, <2>2, <2>5, RunStep
<1>5. CASE RunEnds(d) /\ UNCHANGED <<local, aside>>
  <2>1. AgentTyped'
    BY <1>1, <1>2, <1>5, TypedStep DEF RunEnds
  <2> QED BY <1>1, <1>5, <2>1, RunEndsInv
<1> QED BY <1>3, <1>4, <1>5 DEF Replace

LEMMA PlaceInv ==
  ASSUME AgentInv, NEW d \in Devices, Place(d)
  PROVE  AgentInv'
<1> DEFINE a == agent[d]
           s == a.stream
           Forget == aside' = [aside EXCEPT ![d][s] = @ \ {a.moved}]
<1>1. a.pc = "place" /\ UNCHANGED <<syncVars, backups, config>>
  BY DEF Place
<1>2. /\ AgentTyped /\ a \in Run /\ s \in Streams /\ a.moved \in LocalSaves
      /\ local[d][s] \in LocalSaves
  BY <1>1, DownloadTyped DEF Downloads
<1>3. ASSUME Forget PROVE aside' \in [Devices -> [Streams -> SUBSET (Hashes \cup {EmptySave})]]
  <2>1. aside[d][s] \ {a.moved} \in SUBSET (Hashes \cup {EmptySave})
    BY <1>2 DEF AgentTyped
  <2> QED BY <1>2, <1>3, <2>1, UpdateTyped DEF AgentTyped
<1>4. CASE Installed(d, s) /\ Forget /\ UNCHANGED budget
  <2>1. PICK c \in Run : /\ agent' = [agent EXCEPT ![d] = c] /\ c.pc \notin Waiting
                         /\ RunFits(revisions, sessions, d, c)
    BY <1>1, <1>4, InstalledFits
  <2>2. local' \in [Devices -> [Streams -> LocalSaves]]
    BY <1>1, <1>4, InstalledFits
  <2>3. AgentTyped'
    BY <1>1, <1>2, <1>3, <1>4, <2>1, <2>2 DEF AgentTyped
  <2> QED BY <1>1, <2>1, <2>3, RunStep
<1>5. CASE /\ budget.crashes > 0
           /\ local' = [local EXCEPT ![d][s] = a.moved]
           /\ Forget /\ RunEnds(d)
           /\ budget' = [budget EXCEPT !.crashes = @ - 1]
  <2>1. local' \in [Devices -> [Streams -> LocalSaves]]
    BY <1>2, <1>5, UpdateTyped DEF AgentTyped
  <2>2. budget' \in Budget
    BY <1>2, <1>5, BudgetSpent DEF AgentTyped, Budget
  <2>3. AgentTyped'
    BY <1>1, <1>2, <1>3, <1>5, <2>1, <2>2 DEF AgentTyped, Budget, RunEnds
  <2> QED BY <1>1, <1>5, <2>3, RunEndsInv
<1>6. CASE RunEnds(d) /\ UNCHANGED <<local, aside, budget>>
  <2>1. AgentTyped'
    BY <1>1, <1>2, <1>6, TypedStep DEF RunEnds
  <2> QED BY <1>1, <1>6, <2>1, RunEndsInv
<1> QED BY <1>4, <1>5, <1>6 DEF Place

\* The run is through with an operation and remembers what it agreed on.
LEMMA AgreedFits ==
  ASSUME AgentInv, NEW d \in Devices, agent[d].pc \in {"next", "uploading", "acking"},
         NEW s \in Streams, NEW r \in Nat, NEW hash \in Content,
         Stored(revisions, s, r, hash), Agreed(d, s, r, hash)
  PROVE  \E b \in Run : /\ agent' = [agent EXCEPT ![d] = b] /\ b.pc = "next"
                        /\ RunFits(revisions, sessions, d, b)
<1> DEFINE a == agent[d]
           state == [revision |-> r, hash |-> hash]
           streams == [a.streams EXCEPT ![s] = state]
           done == a.done \cup {s}
           b == [a EXCEPT !.pc = "next", !.done = done, !.streams = streams]
<1>1. /\ a \in Run /\ RunFits(revisions, sessions, d, a) /\ AgentTyped
      /\ a.pc \notin {"create", "creating"} /\ BasesFit(revisions, a.streams)
  BY PlannedRun DEF Downloads
<1>2. agent' = [agent EXCEPT ![d] = b]
  BY <1>1 DEF Agreed, AgentTyped, Run
<1>3. a.streams \in [Streams -> StreamState] /\ state \in StreamState
  BY <1>1 DEF Run, StreamState
<1>4. streams \in [Streams -> StreamState]
  BY <1>3
<1>5. BasesFit(revisions, streams)
  <2>1. BaseFits(revisions, s, state)
    BY DEF BaseFits
  <2>2. \A t \in Streams : streams[t] = IF t = s THEN state ELSE a.streams[t]
    BY <1>3
  <2> HIDE DEF streams, state, a
  <2> QED BY <1>1, <2>1, <2>2 DEF BasesFit
<1>6. done \in SUBSET Streams
  BY <1>1 DEF Run
<1> HIDE DEF streams, done
<1>7. /\ b \in Run /\ b.pc = "next" /\ b.streams = streams
      /\ b.saves = a.saves /\ b.sets = a.sets /\ b.key = a.key
      /\ b.session = a.session
  BY <1>1, <1>4, <1>6 DEF Run, AgentPC
<1> HIDE DEF a, b
<1>8. RunFits(revisions, sessions, d, b)
  BY <1>1, <1>5, <1>7, RunMoves DEF Downloads
<1> QED BY <1>2, <1>7, <1>8 DEF a

LEMMA SettleInv ==
  ASSUME AgentInv, NEW d \in Devices, Settle(d)
  PROVE  AgentInv'
<1> DEFINE a == agent[d]
<1>1. UNCHANGED <<syncVars, local, backups, aside, config, budget>>
  BY DEF Settle
<1>2. PICK s \in Left(d, "noop") \cup Left(d, "conflict") :
        \/ /\ PlanOf(d)[s].action = "noop" /\ PlanOf(d)[s].target # NoRevision
           /\ Agreed(d, s, PlanOf(d)[s].target, PlanOf(d)[s].expected)
        \/ agent' = [agent EXCEPT ![d].done = @ \cup {s}]
  BY DEF Settle, Left
<1>3. a.pc = "next" /\ s \in Named(PlanOf(d))
  BY <1>2 DEF Left
<1>4. /\ a \in Run /\ RunFits(revisions, sessions, d, a) /\ AgentTyped
      /\ a.pc \notin {"create", "creating"} /\ BasesFit(revisions, a.streams)
      /\ PlannedFor(sessions, d, a)
  BY <1>3, PlannedRun
<1>5. PICK state : /\ s \in Streams /\ PlanOf(d)[s] \in Operation
                   /\ OpFits(revisions, s, state, PlanOf(d)[s])
  BY <1>3, <1>4, PlannedOperation
<1>6. PICK b \in Run : /\ agent' = [agent EXCEPT ![d] = b] /\ b.pc = "next"
                       /\ RunFits(revisions, sessions, d, b)
  <2>1. CASE /\ PlanOf(d)[s].action = "noop" /\ PlanOf(d)[s].target # NoRevision
             /\ Agreed(d, s, PlanOf(d)[s].target, PlanOf(d)[s].expected)
    <3>1. Stored(revisions, s, PlanOf(d)[s].target, PlanOf(d)[s].expected)
      BY <1>5, <2>1 DEF OpFits
    <3>2. PlanOf(d)[s].target \in Nat /\ PlanOf(d)[s].expected \in Content
      BY <1>5 DEF Operation, Content
    <3> QED BY <1>3, <1>5, <2>1, <3>1, <3>2, AgreedFits
  <2>2. CASE agent' = [agent EXCEPT ![d].done = @ \cup {s}]
    <3> DEFINE done == a.done \cup {s}
               b == [a EXCEPT !.done = done]
    <3>1. agent' = [agent EXCEPT ![d] = b]
      BY <1>4, <2>2 DEF AgentTyped
    <3>2. done \in SUBSET Streams
      BY <1>4, <1>5 DEF Run
    <3> HIDE DEF done
    <3>3. /\ b \in Run /\ b.pc = a.pc /\ b.streams = a.streams
          /\ b.saves = a.saves /\ b.sets = a.sets /\ b.key = a.key
          /\ b.session = a.session
      BY <1>4, <3>2 DEF Run
    <3> HIDE DEF b, a
    <3>4. RunFits(revisions, sessions, d, b)
      BY <1>3, <1>4, <3>3, RunMoves DEF Downloads
    <3> QED BY <1>3, <3>1, <3>3, <3>4
  <2> QED BY <1>2, <2>1, <2>2
<1>7. AgentTyped'
  BY <1>1, <1>4, <1>6, TypedStep
<1> QED BY <1>1, <1>6, <1>7, RunStep DEF Waiting

LEMMA FinishSyncInv ==
  ASSUME AgentInv, NEW d \in Devices, FinishSync(d)
  PROVE  AgentInv'
<1> DEFINE k == [streams |-> agent[d].streams, pending |-> NoPending]
<1>1. /\ agent[d].pc = "next" /\ config' = [config EXCEPT ![d] = k]
      /\ agent' = [agent EXCEPT ![d] = NoRun]
      /\ UNCHANGED <<syncVars, local, backups, aside, budget>>
  BY DEF FinishSync, RunEnds
<1>2. agent[d] \in Run /\ AgentTyped /\ BasesFit(revisions, agent[d].streams)
  BY <1>1, PlannedRun
<1>3. k \in Config /\ k.streams = agent[d].streams
  BY <1>2 DEF Config, Run
<1> HIDE DEF k
<1>4. AgentTyped'
  BY <1>1, <1>2, <1>3 DEF AgentTyped
<1> QED BY <1>1, <1>2, <1>3, <1>4, NoRunFits, AloneStep

-----------------------------------------------------------------------------
(* Requests and answers *)

\* To the server an agent is one of its clients: it asks for a session over
\* saves that are there, with bases that are stored.
LEMMA SendsCreate ==
  ASSUME AgentInv, NEW d \in Devices, NEW h \in Handlers, SendCreate(d, h)
  PROVE  ClientCreates(h)
<1> DEFINE a == agent[d]
           saves == a.saves
           States == [base : {NoRevision} \cup DOMAIN revisions,
                      hash : Hashes \cup {NoHash}]
<1>1. /\ a.pc = "create" /\ Idle(h) /\ CreateSession(h, d, a.key, a.saves)
      /\ UNCHANGED <<revisions, push, sessions>>
  BY DEF SendCreate, Sends
<1>2. a \in Run /\ CollectionFits(revisions, a)
  BY <1>1, TypesOfAgents, RunTyped DEF AgentInv, RunFits
<1>3. a.key \in Keys /\ a.saves \in SaveStates /\ a.stream \in Streams
  BY <1>2 DEF Run
<1>4. \A s \in Streams : saves[s] \in States
  BY <1>2 DEF CollectionFits, Content
<1>5. \A state \in States : state # Absent
  BY DEF Absent
<1>6. saves \in [Streams -> {Absent} \cup States]
  <2>1. saves \in [Streams -> SaveState \cup {Absent}]
    BY <1>3 DEF SaveStates
  <2> HIDE DEF saves, States
  <2> QED BY <1>4, <2>1
<1>7. a.stream \in Named(saves)
  <2> HIDE DEF saves, States
  <2> QED BY <1>3, <1>4, <1>5 DEF Named
<1>8. saves = a.saves
  OBVIOUS
<1> HIDE DEF saves
<1> QED BY <1>1, <1>3, <1>6, <1>7, <1>8 DEF ClientCreates

LEMMA SendCreateInv ==
  ASSUME AgentInv, NEW d \in Devices, NEW h \in Handlers, SendCreate(d, h)
  PROVE  AgentInv'
<1> DEFINE a == agent[d]
           b == [a EXCEPT !.pc = "creating", !.handler = h]
<1>1. /\ a.pc = "create" /\ Idle(h) /\ CreateSession(h, d, a.key, a.saves)
      /\ agent' = [agent EXCEPT ![d].pc = "creating", ![d].handler = h]
      /\ UNCHANGED <<revisions, push, sessions, local, backups, aside, config, budget>>
  BY DEF SendCreate, Sends
<1>2. AgentTyped /\ a \in Run /\ RunFits(revisions, sessions, d, a) /\ SyncInv
  BY <1>1, TypesOfAgents, RunTyped DEF AgentInv
<1>4. CollectionFits(revisions, a) /\ BasesFit(revisions, a.streams)
  BY <1>1, <1>2 DEF RunFits
<1>5. ClientCreates(h)
  BY SendsCreate
<1>6. [Next]_storeVars /\ OwnPush(h) /\ Keeps(h)
  BY <1>2, <1>5, CreateSessionKeeps
<1>7. agent' = [agent EXCEPT ![d] = b]
  BY <1>1, <1>2 DEF AgentTyped
<1>8. /\ b \in Run /\ b.pc = "creating" /\ b.handler = h
      /\ b.saves = a.saves /\ b.sets = a.sets /\ b.key = a.key /\ b.streams = a.streams
  BY <1>2 DEF Run, AgentPC, Waiting
<1>9. /\ call'[h].pc = "negotiate" /\ call'[h].kind = "create" /\ call'[h].device = d
      /\ call'[h].key = a.key /\ call'[h].saves = Normalised(a.saves)
  BY <1>1, <1>2 DEF CreateSession, SyncInv, SyncTypeOK
<1> HIDE DEF a, b
<1>10. AgentTyped'
  BY <1>1, <1>2, <1>7, <1>8, TypedStep
<1>11. RunFits(revisions, sessions, d, b)
  BY <1>4, <1>8 DEF RunFits, CollectionFits, Downloads
<1>12. AnswerStored(revisions', call'[h]) /\ Asks(call'[h], d, b)
  BY <1>8, <1>9 DEF AnswerStored, Asks
<1>13. UNCHANGED <<revisions, sessions, config>> /\ call[h].pc = "idle"
  BY <1>1 DEF Idle
<1> QED BY <1>6, <1>7, <1>8, <1>10, <1>11, <1>12, <1>13, TogetherStep

\* The request an operation of the plan is carried out with.
LEMMA SendOperation ==
  ASSUME AgentInv, NEW d \in Devices, NEW h \in Handlers,
         agent[d].pc \in {"next", "ack"}, call[h].pc = "idle",
         NEW pc \in {"uploading", "acking"}, NEW s \in Named(PlanOf(d)),
         pc = "acking" => PlanOf(d)[s].action = "download",
         agent' = [agent EXCEPT ![d] = [agent[d] EXCEPT !.pc = pc, !.stream = s,
                                                        !.handler = h]],
         UNCHANGED <<revisions, sessions, local, backups, aside, config, budget>>,
         [Next]_storeVars, OwnPush(h), Keeps(h),
         call'[h].kind = (IF pc = "uploading" THEN "upload" ELSE "ack"),
         call'[h].pc # "idle", call'[h].ok = FALSE,
         call'[h].session = agent[d].session, call'[h].stream = s
  PROVE  AgentInv'
<1> DEFINE a == agent[d]
           b == [a EXCEPT !.pc = pc, !.stream = s, !.handler = h]
<1>1. /\ a \in Run /\ RunFits(revisions, sessions, d, a) /\ AgentTyped
      /\ a.pc \notin {"create", "creating"} /\ BasesFit(revisions, a.streams)
      /\ PlannedFor(sessions, d, a)
  BY PlannedRun DEF Downloads
<1>2. s \in Streams
  BY <1>1, PlannedOperation
<1>3. /\ b \in Run /\ b.pc = pc /\ b.handler = h /\ b.stream = s
      /\ b.saves = a.saves /\ b.sets = a.sets /\ b.key = a.key
      /\ b.session = a.session /\ b.streams = a.streams
  BY <1>1, <1>2 DEF Run, AgentPC, Waiting
<1>4. agent' = [agent EXCEPT ![d] = b]
  OBVIOUS
<1>5. b.pc \in Downloads => DownloadPlanned(sessions, b)
  BY <1>3 DEF Downloads, DownloadPlanned, PlanOf
<1>6. Asks(call'[h], d, b)
  BY <1>3 DEF Asks
<1> HIDE DEF a, b
<1>7. RunFits(revisions, sessions, d, b)
  BY <1>1, <1>3, <1>5, RunMoves
<1>8. AgentTyped'
  BY <1>1, <1>3, <1>4, TypedStep
<1>9. AnswerStored(revisions', call'[h])
  BY DEF AnswerStored
<1> QED BY <1>3, <1>4, <1>6, <1>7, <1>8, <1>9, TogetherStep

LEMMA SendsUpload ==
  ASSUME AgentInv, NEW d \in Devices, NEW h \in Handlers, SendUpload(d, h)
  PROVE  ClientUploads(h)
<1>1. PICK s \in Left(d, "upload") :
        /\ local[d][s] \in Hashes
        /\ UploadOperation(h, agent[d].session, s, local[d][s])
  BY DEF SendUpload
<1>2. /\ agent[d].pc = "next" /\ s \in Named(PlanOf(d)) /\ Idle(h)
      /\ UNCHANGED <<revisions, sessions>>
  BY DEF Left, SendUpload
<1>3. AgentTyped /\ PlannedFor(sessions, d, agent[d])
  BY <1>2, PlannedRun
<1>4. s \in Streams /\ agent[d].session \in DOMAIN sessions
  BY <1>2, <1>3, PlannedOperation
<1>5. local[d][s] \in Hashes
  BY <1>1
<1> QED BY <1>1, <1>2, <1>4, <1>5 DEF ClientUploads, PlanOf

LEMMA SendUploadInv ==
  ASSUME AgentInv, NEW d \in Devices, NEW h \in Handlers, SendUpload(d, h)
  PROVE  AgentInv'
<1>1. PICK s \in Left(d, "upload") :
        /\ local[d][s] \in Hashes
        /\ agent' = [agent EXCEPT ![d].pc = "uploading", ![d].stream = s,
                                  ![d].handler = h]
        /\ UploadOperation(h, agent[d].session, s, local[d][s])
  BY DEF SendUpload
<1>2. /\ agent[d].pc = "next" /\ s \in Named(PlanOf(d)) /\ Idle(h)
      /\ UNCHANGED <<revisions, sessions, local, backups, aside, config, budget>>
  BY DEF Left, SendUpload
<1>3. AgentTyped /\ PlannedFor(sessions, d, agent[d]) /\ agent[d] \in Run
  BY <1>2, PlannedRun
<1>6. ClientUploads(h)
  BY SendsUpload
<1>7. [Next]_storeVars /\ OwnPush(h) /\ Keeps(h)
  BY <1>6, UploadKeeps DEF AgentInv
<1>8. /\ call'[h].kind = "upload" /\ call'[h].pc # "idle" /\ call'[h].ok = FALSE
      /\ call'[h].session = agent[d].session /\ call'[h].stream = s
  <2>1. PICK pc, actual :
          /\ pc \in {"push", "fail"}
          /\ call' = [call EXCEPT ![h] =
                        OperationRequest("upload", pc, agent[d].session, s,
                                         actual, NoRevision)]
    BY <1>1 DEF UploadOperation
  <2>2. call'[h] = OperationRequest("upload", pc, agent[d].session, s, actual, NoRevision)
    BY <2>1 DEF AgentInv, SyncInv, SyncTypeOK
  <2> QED BY <2>1, <2>2 DEF OperationRequest
<1>9. agent' = [agent EXCEPT ![d] = [agent[d] EXCEPT !.pc = "uploading", !.stream = s,
                                                     !.handler = h]]
  BY <1>1, <1>3 DEF AgentTyped
<1> QED BY <1>2, <1>7, <1>8, <1>9, SendOperation DEF Idle

LEMMA SendsAck ==
  ASSUME AgentInv, NEW d \in Devices, NEW h \in Handlers, SendAck(d, h)
  PROVE  ClientAcks(h)
<1> DEFINE s == agent[d].stream
<1>1. /\ agent[d].pc = "ack" /\ Idle(h)
      /\ AckOperation(h, agent[d].session, s, OpOf(d).expected)
      /\ UNCHANGED <<revisions, sessions>>
  BY DEF SendAck, Sends
<1>2. /\ agent[d].session \in DOMAIN sessions /\ s \in Named(PlanOf(d))
      /\ OpOf(d).expected \in Hashes
  BY <1>1, DownloadTyped DEF Downloads
<1> QED BY <1>1, <1>2 DEF ClientAcks, PlanOf

LEMMA SendAckInv ==
  ASSUME AgentInv, NEW d \in Devices, NEW h \in Handlers, SendAck(d, h)
  PROVE  AgentInv'
<1> DEFINE s == agent[d].stream
<1>1. /\ agent[d].pc = "ack" /\ Idle(h)
      /\ agent' = [agent EXCEPT ![d].pc = "acking", ![d].handler = h]
      /\ AckOperation(h, agent[d].session, s, OpOf(d).expected)
      /\ UNCHANGED <<revisions, sessions, local, backups, aside, config, budget>>
  BY DEF SendAck, Sends
<1>2. /\ AgentTyped /\ agent[d] \in Run /\ s \in Streams
      /\ agent[d].session \in DOMAIN sessions /\ s \in Named(PlanOf(d))
      /\ OpOf(d).action = "download" /\ OpOf(d).expected \in Hashes
  BY <1>1, DownloadTyped DEF Downloads
<1>3. ClientAcks(h)
  BY SendsAck
<1>4. [Next]_storeVars /\ OwnPush(h) /\ Keeps(h)
  BY <1>3, AckKeeps DEF AgentInv
<1>5. /\ call'[h].kind = "ack" /\ call'[h].pc # "idle" /\ call'[h].ok = FALSE
      /\ call'[h].session = agent[d].session /\ call'[h].stream = s
  <2>1. PICK actual, target :
          call' = [call EXCEPT ![h] = OperationRequest("ack", "complete", agent[d].session,
                                                       s, actual, target)]
    BY <1>1 DEF AckOperation
  <2>2. call'[h] = OperationRequest("ack", "complete", agent[d].session, s, actual, target)
    BY <2>1 DEF AgentInv, SyncInv, SyncTypeOK
  <2> QED BY <2>2 DEF OperationRequest
<1>6. agent' = [agent EXCEPT ![d] = [agent[d] EXCEPT !.pc = "acking", !.stream = s,
                                                     !.handler = h]]
  BY <1>1, <1>2 DEF AgentTyped, Run
<1>7. PlanOf(d)[s].action = "download"
  BY <1>2 DEF OpOf
<1> QED BY <1>1, <1>2, <1>4, <1>5, <1>6, <1>7, SendOperation DEF Idle

\* The request a run waits for.
LEMMA AwaitedRequest ==
  ASSUME AgentInv, NEW d \in Devices, agent[d].pc \in Waiting
  PROVE  /\ AgentTyped /\ agent[d] \in Run /\ agent[d].handler \in Handlers
         /\ Asks(call[agent[d].handler], d, agent[d])
         /\ RunFits(revisions, sessions, d, agent[d])
<1>1. AgentTyped /\ agent[d].pc # "idle"
  BY TypesOfAgents DEF AgentInv, Waiting
<1>2. agent[d] \in Run
  BY <1>1, RunTyped
<1> QED BY <1>1, <1>2 DEF AgentInv, WaitFits, Run

\* A request whose answer has been received is over.
LEMMA ReceiveKeeps ==
  ASSUME SyncInv, NEW h \in Handlers, call' = [call EXCEPT ![h] = NoCall],
         UNCHANGED <<revisions, push, sessions>>
  PROVE  [Next]_storeVars /\ OwnPush(h) /\ Keeps(h)
<1>1. NoCall \in Call /\ CallFits(revisions, sessions, NoCall) /\ PushFits(NoCall, push'[h])
  BY DEF Call, CallFits, PushFits, NoCall
<1> QED BY <1>1, OnlyCallMoves, StoreUntouched

LEMMA ReceivesInv ==
  ASSUME AgentInv, NEW d \in Devices, agent[d].pc \in Waiting, NEW ok, Receives(d, ok),
         NEW b \in Run \cup {NoRun}, agent' = [agent EXCEPT ![d] = b],
         UNCHANGED <<local, backups, aside, config, budget>>,
         b.pc \notin Waiting, RunFits(revisions, sessions, d, b)
  PROVE  AgentInv'
<1> DEFINE h == agent[d].handler
<1>1. AgentTyped /\ h \in Handlers
  BY AwaitedRequest
<1>2. call' = [call EXCEPT ![h] = NoCall] /\ UNCHANGED <<revisions, push, sessions>>
  BY DEF Receives
<1>3. call'[h] = NoCall
  BY <1>1, <1>2 DEF AgentInv, SyncInv, SyncTypeOK
<1>4. [Next]_storeVars /\ OwnPush(h) /\ Keeps(h)
  BY <1>1, <1>2, ReceiveKeeps DEF AgentInv
<1>5. AgentTyped'
  BY <1>1, TypedStep
<1>6. agent[d].handler = h
  OBVIOUS
<1> HIDE DEF h
<1> QED BY <1>1, <1>2, <1>3, <1>4, <1>5, <1>6, NoAnswer, TogetherStep

LEMMA SessionCreatedInv ==
  ASSUME AgentInv, NEW d \in Devices, SessionCreated(d)
  PROVE  AgentInv'
<1> DEFINE a == agent[d]
           c == call[a.handler]
           b == [a EXCEPT !.pc = "next", !.session = c.session]
<1>1. /\ a.pc = "creating" /\ a.pc \in Waiting /\ Receives(d, TRUE)
      /\ agent' = [agent EXCEPT ![d].pc = "next", ![d].session = c.session]
      /\ UNCHANGED <<local, backups, aside, config, budget>>
  BY DEF SessionCreated, Waiting
<1>2. /\ AgentTyped /\ a \in Run /\ a.handler \in Handlers
      /\ Asks(c, d, a) /\ RunFits(revisions, sessions, d, a)
  BY <1>1, AwaitedRequest
<1>3. c.pc = "reply" /\ c.ok /\ c.kind = "create"
  BY <1>1, <1>2 DEF Receives, Asks
<1>4. c \in CreateCall /\ Answers(sessions, c)
  BY <1>2, <1>3, CreateKnows DEF AgentInv, CreateFits
<1>5. agent' = [agent EXCEPT ![d] = b]
  BY <1>1, <1>2 DEF AgentTyped
<1>6. c.session \in Nat
  BY <1>4 DEF CreateCall
<1>7. /\ b \in Run /\ b.pc = "next" /\ b.session = c.session
      /\ b.saves = a.saves /\ b.sets = a.sets /\ b.key = a.key /\ b.streams = a.streams
  BY <1>2, <1>6 DEF Run, AgentPC
<1>8. PlannedFor(sessions, d, b)
  BY <1>1, <1>2, <1>4, <1>7 DEF Asks, Answers, PlannedFor
<1> HIDE DEF a, b, c
<1>9. RunFits(revisions, sessions, d, b)
  BY <1>1, <1>2, <1>7, <1>8 DEF RunFits, CollectionFits, Downloads
<1> QED BY <1>1, <1>5, <1>7, <1>9, ReceivesInv DEF a, Waiting

LEMMA RequestFailedInv ==
  ASSUME AgentInv, NEW d \in Devices, RequestFailed(d)
  PROVE  AgentInv'
<1>1. /\ agent[d].pc \in Waiting /\ Receives(d, FALSE)
      /\ agent' = [agent EXCEPT ![d] = NoRun]
      /\ UNCHANGED <<local, backups, aside, config, budget>>
  BY DEF RequestFailed, RunEnds
<1> QED BY <1>1, NoRunFits, ReceivesInv

LEMMA UploadedInv ==
  ASSUME AgentInv, NEW d \in Devices, Uploaded(d)
  PROVE  AgentInv'
<1> DEFINE a == agent[d]
           c == call[a.handler]
           s == a.stream
           hash == revisions[c.target].hash
<1>1. /\ a.pc = "uploading" /\ a.pc \in Waiting /\ Receives(d, TRUE)
      /\ Agreed(d, s, c.target, hash) \/ RunEnds(d)
      /\ UNCHANGED <<local, backups, aside, config, budget>>
  BY DEF Uploaded, Waiting
<1>2. AgentTyped /\ a \in Run /\ a.handler \in Handlers /\ Asks(c, d, a)
  BY <1>1, AwaitedRequest
<1>3. c.pc = "reply" /\ c.ok /\ c.kind = "upload" /\ c.stream = s
  BY <1>1, <1>2 DEF Receives, Asks
<1>4. c.target \in DOMAIN revisions /\ revisions[c.target].stream = s
  BY <1>2, <1>3 DEF AgentInv, AnswerStored
<1>5. c.target \in Nat /\ hash \in Content
  <2>1. revisions \in Seq(Revision)
    BY DEF AgentInv, SyncInv, StoreInv, TypeOK
  <2>2. c.target \in Nat /\ revisions[c.target] \in Revision
    BY <1>4, <2>1
  <2> QED BY <2>2 DEF Revision, Content
<1>6. s \in Streams
  BY <1>2 DEF Run
<1>7. CASE Agreed(d, s, c.target, hash)
  <2>1. Stored(revisions, s, c.target, hash)
    BY <1>4 DEF Stored
  <2>2. PICK b \in Run : /\ agent' = [agent EXCEPT ![d] = b] /\ b.pc = "next"
                         /\ RunFits(revisions, sessions, d, b)
    BY <1>1, <1>5, <1>6, <1>7, <2>1, AgreedFits
  <2> QED BY <1>1, <2>2, ReceivesInv DEF Waiting
<1>8. CASE RunEnds(d)
  BY <1>1, <1>8, NoRunFits, ReceivesInv DEF RunEnds
<1> QED BY <1>1, <1>7, <1>8

LEMMA AcknowledgedInv ==
  ASSUME AgentInv, NEW d \in Devices, Acknowledged(d)
  PROVE  AgentInv'
<1>1. /\ agent[d].pc = "acking" /\ agent[d].pc \in Waiting /\ Receives(d, TRUE)
      /\ Agreed(d, agent[d].stream, OpOf(d).target, OpOf(d).expected)
      /\ UNCHANGED <<local, backups, aside, config, budget>>
  BY DEF Acknowledged, Waiting
<1>2. /\ agent[d].stream \in Streams /\ OpOf(d).target \in Nat
      /\ OpOf(d).expected \in Content
      /\ Stored(revisions, agent[d].stream, OpOf(d).target, OpOf(d).expected)
  BY <1>1, DownloadTyped DEF Downloads, Content
<1>3. PICK b \in Run : /\ agent' = [agent EXCEPT ![d] = b] /\ b.pc = "next"
                       /\ RunFits(revisions, sessions, d, b)
  BY <1>1, <1>2, AgreedFits
<1> QED BY <1>1, <1>3, ReceivesInv DEF Waiting

-----------------------------------------------------------------------------
(* Emulators and faults *)

LEMMA PlayInv ==
  ASSUME AgentInv, NEW d \in Devices, NEW s \in Streams, Play(d, s)
  PROVE  AgentInv'
<1>1. PICK c \in LocalSaves : local' = [local EXCEPT ![d][s] = c]
  BY DEF Play
<1>2. /\ budget.plays > 0 /\ budget' = [budget EXCEPT !.plays = @ - 1]
      /\ UNCHANGED <<syncVars, backups, aside, config, agent>>
  BY DEF Play
<1>3. AgentTyped
  BY TypesOfAgents DEF AgentInv
<1>4. budget' \in Budget
  BY <1>2, <1>3, BudgetSpent DEF AgentTyped, Budget
<1>5. local' \in [Devices -> [Streams -> LocalSaves]]
  BY <1>1, <1>3, UpdateTyped DEF AgentTyped
<1>6. AgentTyped'
  BY <1>2, <1>3, <1>4, <1>5 DEF AgentTyped, Budget
<1>7. agent' = [agent EXCEPT ![d] = agent[d]] /\ config' = [config EXCEPT ![d] = config[d]]
  BY <1>2, <1>3 DEF AgentTyped
<1>8. UNCHANGED <<revisions, push, sessions, call>>
  BY <1>2 DEF syncVars
<1>9. SyncInv'
  BY <1>8, <1>2, SyncInvNext DEF AgentInv
<1>10. \A e \in Devices : WaitFits(call', e, agent'[e])
  BY <1>2, <1>8 DEF AgentInv
<1>11. WaitAlone(agent')
  BY <1>2 DEF AgentInv
<1> QED BY <1>2, <1>6, <1>8, <1>9, <1>10, <1>11,
           AgentInvStep, GrowsReflexive, EvolvesReflexive

LEMMA RunGivesUpInv ==
  ASSUME AgentInv, NEW d \in Devices, RunGivesUp(d)
  PROVE  AgentInv'
<1>1. /\ budget.orphans > 0 /\ budget' = [budget EXCEPT !.orphans = @ - 1]
      /\ RunEnds(d) /\ UNCHANGED <<syncVars, local, backups, aside, config>>
  BY DEF RunGivesUp
<1>2. AgentTyped
  BY TypesOfAgents DEF AgentInv
<1>3. budget' \in Budget
  BY <1>1, <1>2, BudgetSpent DEF AgentTyped, Budget
<1>4. AgentTyped'
  BY <1>1, <1>2, <1>3 DEF AgentTyped, Budget, RunEnds
<1> QED BY <1>1, <1>4, RunEndsInv

LEMMA RunDiesInv ==
  ASSUME AgentInv, NEW d \in Devices, RunDies(d)
  PROVE  AgentInv'
<1>1. /\ budget.crashes > 0 /\ budget' = [budget EXCEPT !.crashes = @ - 1]
      /\ agent' = [agent EXCEPT ![d] = NoRun] /\ RunEnds(d)
      /\ UNCHANGED <<revisions, sessions, local, backups, aside, config>>
  BY DEF RunDies, RunEnds
<1>2. AgentTyped
  BY TypesOfAgents DEF AgentInv
<1>3. budget' \in Budget
  BY <1>1, <1>2, BudgetSpent DEF AgentTyped, Budget
<1>4. AgentTyped'
  BY <1>1, <1>2, <1>3 DEF AgentTyped, Budget
<1>5. CASE agent[d].pc \in Waiting
  <2> DEFINE h == agent[d].handler
  <2>1. h \in Handlers /\ call[h].pc # "idle"
    BY <1>5, AwaitedRequest DEF Asks
  <2>2. RequestOver(h)
    BY <1>1, <1>5, <2>1 DEF RunDies, RequestOver, Idle
  <2>3. [Next]_storeVars /\ OwnPush(h) /\ Keeps(h)
    BY <2>1, <2>2, RequestOverKeeps DEF AgentInv
  <2>4. call'[h] = NoCall
    BY <2>1, <2>2 DEF RequestOver, AgentInv, SyncInv, SyncTypeOK
  <2>5. agent[d].handler = h
    OBVIOUS
  <2> HIDE DEF h
  <2> QED BY <1>1, <1>4, <1>5, <2>1, <2>3, <2>4, <2>5, NoRunFits, NoAnswer, TogetherStep
<1>6. CASE agent[d].pc \notin Waiting
  BY <1>1, <1>4, <1>6, RunEndsInv DEF RunDies, syncVars
<1> QED BY <1>5, <1>6

-----------------------------------------------------------------------------
(* All steps *)

LEMMA AgentStepInv ==
  ASSUME AgentInv, NEW d \in Devices, AgentStep(d)
  PROVE  AgentInv'
BY StartSyncInv, SessionCreatedInv, RequestFailedInv, UploadGoneInv, UploadedInv,
   DownloadInv, BackUpInv, ReplaceInv, PlaceInv, AcknowledgedInv, SettleInv,
   FinishSyncInv, SendCreateInv, SendUploadInv, SendAckInv DEF AgentStep

LEMMA FaultsInv ==
  ASSUME AgentInv, Faults
  PROVE  AgentInv'
BY RunDiesInv, RunGivesUpInv, OrphanOverInv DEF Faults

LEMMA AgentInvNext == AgentInv /\ [AnyNext]_vars => AgentInv'
<1> SUFFICES ASSUME AgentInv, [AnyNext]_vars PROVE AgentInv'
  OBVIOUS
<1>1. CASE SystemNext
  BY <1>1, AgentStepInv, ServerStepInv, FaultsInv DEF SystemNext
<1>2. CASE PlayOutside({})
  BY <1>2, PlayInv DEF PlayOutside
<1>3. CASE UNCHANGED vars
  <2>1. UNCHANGED <<syncVars, local, backups, aside, config, agent, budget>>
    BY <1>3 DEF vars, agentVars
  <2>2. UNCHANGED <<revisions, push, sessions, call>>
    BY <2>1 DEF syncVars
  <2>3. SyncInv'
    BY <2>1, SyncInvNext DEF AgentInv
  <2>4. AgentTyped'
    BY <2>1, TypesOfAgents DEF AgentInv, AgentTyped
  <2>5. \A d \in Devices : WaitFits(call', d, agent'[d])
    BY <2>1, <2>2 DEF AgentInv
  <2>6. WaitAlone(agent')
    BY <2>1 DEF AgentInv
  <2> QED BY <2>1, <2>2, <2>3, <2>4, <2>5, <2>6,
             AgentInvStep, GrowsReflexive, EvolvesReflexive
<1> QED BY <1>1, <1>2, <1>3 DEF AnyNext

LEMMA AgentInvInit == SaveSyncInit => AgentInv
<1> SUFFICES ASSUME SaveSyncInit PROVE AgentInv
  OBVIOUS
<1>1. SyncInv
  BY SyncInvInit DEF SaveSyncInit
<1>2. AgentTyped
  <2>1. [streams |-> [s \in Streams |-> NoStreamState], pending |-> NoPending] \in Config
    BY DEF Config, StreamState, NoStreamState, NoRevision, Content
  <2>2. budget \in Budget
    BY SaveSyncAssumption DEF SaveSyncInit, Budget
  <2> QED BY <2>1, <2>2 DEF SaveSyncInit, AgentTyped, Budget
<1>3. \A h \in Handlers : AnswerStored(revisions, call[h])
  BY NoAnswer DEF SaveSyncInit, SyncInit
<1>4. ASSUME NEW d \in Devices
      PROVE  /\ BasesFit(revisions, config[d].streams)
             /\ RunFits(revisions, sessions, d, agent[d])
             /\ agent[d].pc \notin Waiting
  <2>1. config[d].streams = [s \in Streams |-> NoStreamState]
    BY DEF SaveSyncInit
  <2>2. agent[d] = NoRun
    BY DEF SaveSyncInit
  <2> QED BY <2>1, <2>2, NoRunFits DEF BasesFit, BaseFits
<1>5. SaveSyncTypeOK
  BY <1>1, <1>2, TypesOfAgents DEF SyncInv
<1> QED BY <1>1, <1>3, <1>4, <1>5 DEF AgentInv, WaitFits, WaitAlone

-----------------------------------------------------------------------------
(* What holds for every schedule *)

\* The configuration, the runs, the local saves and their backups keep their
\* shape through every step of agents, server, emulators and faults.
THEOREM AgentsAreWellTyped == AnySpec => []SaveSyncTypeOK
<1>1. AgentInv => SaveSyncTypeOK
  BY DEF AgentInv
<1> QED BY <1>1, AgentInvInit, AgentInvNext, PTL DEF AnySpec

LEMMA BasesFound ==
  ASSUME NEW streams, BasesFit(revisions, streams), NEW s \in Streams
  PROVE  \/ streams[s] = NoStreamState
         \/ /\ streams[s].revision \in StreamRevisions(s)
            /\ revisions[streams[s].revision].hash = streams[s].hash
BY DEF BasesFit, BaseFits, Stored, StreamRevisions

\* The base a device remembers, in its file or in a run, is a stored revision
\* of its stream with the hash the device keeps beside it, whatever requests
\* fail, race, are abandoned or are sent again in a later run.
THEOREM BasesAreStored == AnySpec => []BaseIsStored
<1>1. ASSUME AgentInv PROVE BaseIsStored
  <2>1. ASSUME NEW d \in Devices
        PROVE  /\ BasesFit(revisions, config[d].streams)
               /\ agent[d].pc # "idle" => BasesFit(revisions, agent[d].streams)
    BY <1>1 DEF AgentInv, RunFits
  <2> QED BY <2>1, BasesFound DEF BaseIsStored
<1>2. AgentInv => BaseIsStored
  BY <1>1
<1> QED BY <1>2, AgentInvInit, AgentInvNext, PTL DEF AnySpec

\* A run carries out a plan of its own device and key that was made for
\* exactly the contents it collected: no crash, retry or abandoned request
\* makes a key name the plan of other saves.
THEOREM PlansFitTheirRuns == AnySpec => []PlanFitsRun
<1>1. ASSUME AgentInv, NEW d \in Devices, agent[d].pc \in AgentPC \ {"create", "creating"}
      PROVE  LET i == agent[d].session
             IN  /\ i \in SessionsOf(d, agent[d].key)
                 /\ \A s \in Streams : sessions[i].saves[s].hash = agent[d].sets[s]
  <2> DEFINE a == agent[d]
             saves == a.saves
  <2>1. RunFits(revisions, sessions, d, a) /\ a.pc # "idle" /\ a.pc \notin {"create", "creating"}
    BY <1>1 DEF AgentInv, AgentPC, Waiting
  <2>2. PlannedFor(sessions, d, a) /\ CollectionFits(revisions, a)
    BY <2>1 DEF RunFits
  <2>3. a.session \in SessionsOf(d, a.key)
    BY <2>2 DEF PlannedFor, SessionsOf
  <2>4. sessions[a.session].saves = Normalised(saves)
    BY <2>2 DEF PlannedFor
  <2>5. \A s \in Streams : saves[s].hash = a.sets[s]
    BY <2>2 DEF CollectionFits
  <2> HIDE DEF saves
  <2>6. \A s \in Streams : Normalised(saves)[s].hash = saves[s].hash
    BY DEF Normalised
  <2> QED BY <2>3, <2>4, <2>5, <2>6
<1>2. AgentInv => PlanFitsRun
  BY <1>1 DEF PlanFitsRun
<1> QED BY <1>2, AgentInvInit, AgentInvNext, PTL DEF AnySpec

-----------------------------------------------------------------------------
(* What is taken away has been backed up *)

LEMMA RunReplacesNothing ==
  ASSUME NEW d \in Devices, agent[d].pc \notin {"replace", "place"}
  PROVE  ReplacementFits(d)
BY DEF ReplacementFits

LEMMA ReplacementLasts ==
  ASSUME NEW d \in Devices, ReplacementFits(d), agent'[d] = agent[d],
         local'[d] = local[d], backups'[d] = backups[d]
  PROVE  ReplacementFits(d)'
BY DEF ReplacementFits

\* A step of one agent leaves the others and their devices alone.
LEMMA AgentStepElsewhere ==
  ASSUME AgentTyped, NEW d \in Devices, AgentStep(d), NEW e \in Devices \ {d}
  PROVE  /\ agent'[e] = agent[e]
         /\ local'[e] = local[e]
         /\ backups'[e] = backups[e]
<1> USE DEF AgentTyped
<1>1. agent'[e] = agent[e]
  <2>1. CASE StartSync(d)
    BY <2>1 DEF StartSync
  <2>2. CASE SessionCreated(d) \/ RequestFailed(d) \/ UploadGone(d) \/ Uploaded(d)
    BY <2>2 DEF SessionCreated, RequestFailed, UploadGone, Uploaded, RunEnds, Agreed
  <2>3. CASE Download(d) \/ BackUp(d) \/ Replace(d) \/ Place(d)
    BY <2>3 DEF Download, BackUp, Replace, Place, Installed, Does, RunEnds
  <2>4. CASE Acknowledged(d) \/ Settle(d) \/ FinishSync(d)
    BY <2>4 DEF Acknowledged, Settle, FinishSync, Agreed, RunEnds
  <2>5. CASE \E h \in Handlers : SendCreate(d, h) \/ SendUpload(d, h) \/ SendAck(d, h)
    BY <2>5 DEF SendCreate, SendUpload, SendAck, Sends
  <2> QED BY <2>1, <2>2, <2>3, <2>4, <2>5 DEF AgentStep
<1>2. local'[e] = local[e] /\ backups'[e] = backups[e]
  <2>1. CASE BackUp(d)
    BY <2>1 DEF BackUp
  <2>2. CASE Replace(d)
    BY <2>2 DEF Replace, Installed
  <2>3. CASE Place(d)
    BY <2>3 DEF Place, Installed
  <2>4. UNCHANGED <<local, backups>> \/ BackUp(d) \/ Replace(d) \/ Place(d)
    BY DEF AgentStep, StartSync, SessionCreated, RequestFailed, UploadGone, Uploaded,
           Download, Acknowledged, Settle, FinishSync, SendCreate, SendUpload, SendAck
  <2> QED BY <2>1, <2>2, <2>3, <2>4
<1> QED BY <1>1, <1>2

\* A run that is through with an operation goes on to the next.
LEMMA AgreedGoesOn ==
  ASSUME NEW d \in DOMAIN agent, agent[d] \in Run, NEW s, NEW r, NEW hash, Agreed(d, s, r, hash)
  PROVE  agent'[d].pc = "next"
<1> DEFINE a == agent[d]
           b == [a EXCEPT !.pc = "next", !.done = @ \cup {s},
                          !.streams[s] = [revision |-> r, hash |-> hash]]
<1>1. agent' = [agent EXCEPT ![d] = b]
  BY DEF Agreed
<1>2. "pc" \in DOMAIN a
  BY DEF Run
<1>3. b.pc = "next"
  BY <1>2
<1> HIDE DEF b
<1> QED BY <1>1, <1>3

\* Only the second look at a save brings a run to its replacement.
LEMMA AgentStepOutside ==
  ASSUME AgentTyped, NEW d \in Devices, AgentStep(d), ~BackUp(d), ~Replace(d)
  PROVE  agent'[d].pc \notin {"replace", "place"}
<1> DEFINE a == agent[d]
<1>1. a \in Run \cup {NoRun} /\ agent \in [Devices -> Run \cup {NoRun}]
  BY DEF AgentTyped
<1>2. NoRun.pc = "idle"
  BY DEF NoRun
<1>3. CASE RunEnds(d)
  BY <1>1, <1>2, <1>3 DEF RunEnds
<1>4. CASE StartSync(d)
  BY <1>1, <1>4 DEF StartSync
<1>5. ASSUME a.pc # "idle", NEW b, agent' = [agent EXCEPT ![d] = b],
             b.pc \notin {"replace", "place"}
      PROVE  agent'[d].pc \notin {"replace", "place"}
  BY <1>1, <1>5
<1>6. CASE SessionCreated(d) \/ Download(d)
  <2>1. a.pc # "idle" /\ a \in Run
    BY <1>1, <1>2, <1>6 DEF SessionCreated, Download, Left
  <2>2. "pc" \in DOMAIN a
    BY <2>1 DEF Run
  <2>3. d \in DOMAIN agent
    BY <1>1
  <2>4. CASE SessionCreated(d)
    <3> DEFINE b == [a EXCEPT !.pc = "next", !.session = call[a.handler].session]
    <3>1. agent' = [agent EXCEPT ![d] = b]
      BY <2>4 DEF SessionCreated
    <3>2. b.pc = "next"
      BY <2>2
    <3> HIDE DEF b
    <3> QED BY <2>3, <3>1, <3>2
  <2>5. CASE Download(d)
    <3>1. PICK s : agent' = [agent EXCEPT ![d].pc = "install", ![d].stream = s]
      BY <2>5 DEF Download
    <3> DEFINE b == [a EXCEPT !.pc = "install", !.stream = s]
    <3>2. agent' = [agent EXCEPT ![d] = b]
      BY <3>1
    <3>3. b.pc = "install"
      BY <2>2
    <3> HIDE DEF b
    <3> QED BY <2>3, <3>2, <3>3
  <2> QED BY <1>6, <2>4, <2>5
<1>7. CASE (Uploaded(d) \/ Acknowledged(d)) /\ ~RunEnds(d)
  <2>1. a.pc # "idle" /\ a \in Run
    BY <1>1, <1>2, <1>7 DEF Uploaded, Acknowledged
  <2>2. PICK s, r, hash : Agreed(d, s, r, hash)
    BY <1>7 DEF Uploaded, Acknowledged
  <2>3. agent'[d].pc = "next"
    BY <1>1, <2>1, <2>2, AgreedGoesOn
  <2> QED BY <2>3
<1>8. CASE Settle(d)
  <2>1. a.pc = "next" /\ a \in Run
    BY <1>1, <1>2, <1>8 DEF Settle, Left
  <2>2. \/ \E s, r, hash : Agreed(d, s, r, hash)
        \/ \E s : agent' = [agent EXCEPT ![d].done = @ \cup {s}]
    BY <1>8 DEF Settle
  <2>3. ASSUME NEW s, NEW r, NEW hash, Agreed(d, s, r, hash)
        PROVE  agent'[d].pc = "next"
    BY <1>1, <2>1, <2>3, AgreedGoesOn
  <2>4. ASSUME NEW s, agent' = [agent EXCEPT ![d].done = @ \cup {s}]
        PROVE  agent'[d].pc = "next"
    BY <1>1, <2>1, <2>4 DEF Run
  <2> QED BY <2>2, <2>3, <2>4
<1>9. CASE Place(d) /\ ~RunEnds(d)
  <2>1. a.pc # "idle" /\ a \in Run /\ Does(d, "ack")
    BY <1>1, <1>2, <1>9 DEF Place, Installed
  <2> QED BY <1>1, <2>1 DEF Does, Run
<1>10. CASE \E h \in Handlers : SendCreate(d, h) \/ SendUpload(d, h) \/ SendAck(d, h)
  <2>1. a.pc # "idle" /\ a \in Run
    BY <1>1, <1>2, <1>10 DEF SendCreate, SendUpload, SendAck, Left
  <2>2. ASSUME NEW pc \in {"creating", "acking"}, NEW h \in Handlers, Sends(d, h, pc)
        PROVE  agent'[d].pc \notin {"replace", "place"}
    BY <1>1, <2>1, <2>2 DEF Sends, Run
  <2>3. ASSUME NEW h \in Handlers, SendUpload(d, h)
        PROVE  agent'[d].pc \notin {"replace", "place"}
    <3>1. PICK s \in Left(d, "upload") :
            agent' = [agent EXCEPT ![d].pc = "uploading", ![d].stream = s,
                                   ![d].handler = h]
      BY <2>3 DEF SendUpload
    <3> QED BY <1>1, <2>1, <3>1 DEF Run
  <2> QED BY <1>10, <2>2, <2>3 DEF SendCreate, SendAck
<1> QED BY <1>3, <1>4, <1>6, <1>7, <1>8, <1>9, <1>10
        DEF AgentStep, RequestFailed, UploadGone, FinishSync

\* What the second look finds is nothing, or what has just been backed up.
LEMMA BackUpFits ==
  ASSUME AgentInv, NEW d \in Devices, BackUp(d)
  PROVE  ReplacementFits(d)'
<1> DEFINE a == agent[d]
           s == a.stream
           exists == local[d][s] # NoHash
<1>1. a.pc = "install" /\ UNCHANGED local
  BY DEF BackUp
<1>2. AgentTyped /\ a \in Run /\ s \in Streams
  BY <1>1, DownloadTyped DEF Downloads
<1>3. CASE agent' = [agent EXCEPT ![d].pc = "replace", ![d].existed = exists]
  <2> DEFINE b == [a EXCEPT !.pc = "replace", !.existed = exists]
  <2>1. agent'[d] = b
    BY <1>2, <1>3 DEF AgentTyped
  <2>2. b.pc = "replace" /\ b.stream = s
    BY <1>2 DEF Run
  <2>3. exists => local[d][s] \in backups'[d][s]
    <3>1. CASE RunEnds(d)
      BY <1>2, <2>1, <2>2, <3>1 DEF RunEnds, NoRun, AgentTyped
    <3>2. CASE exists /\ backups' = [backups EXCEPT ![d][s] = @ \cup {local[d][s]}]
      BY <1>2, <3>2 DEF AgentTyped
    <3> QED BY <3>1, <3>2 DEF BackUp
  <2> HIDE DEF b, s
  <2> QED BY <1>1, <2>1, <2>2, <2>3 DEF ReplacementFits
<1>4. CASE RunEnds(d)
  BY <1>2, <1>4 DEF RunEnds, NoRun, AgentTyped, ReplacementFits
<1> QED BY <1>3, <1>4 DEF BackUp

\* The directory moved aside is the one that was found and backed up.
LEMMA ReplaceFits ==
  ASSUME QuietInv, NEW d \in Devices, Replace(d)
  PROVE  ReplacementFits(d)'
<1> DEFINE a == agent[d]
           s == a.stream
<1>1. a.pc = "replace" /\ UNCHANGED backups /\ ReplacementFits(d)
  BY DEF Replace, QuietInv
<1>2. AgentTyped /\ a \in Run /\ s \in Streams
  BY <1>1, DownloadTyped DEF Downloads, QuietInv
<1>3. CASE Installed(d, s)
  <2>1. agent'[d] = [a EXCEPT !.pc = "ack"]
    BY <1>2, <1>3 DEF Installed, Does, AgentTyped
  <2> QED BY <1>2, <2>1 DEF Run, ReplacementFits
<1>4. CASE /\ local[d][s] # NoHash
           /\ local' = [local EXCEPT ![d][s] = NoHash]
           /\ agent' = [agent EXCEPT ![d].pc = "place", ![d].moved = local[d][s]]
  <2> DEFINE b == [a EXCEPT !.pc = "place", !.moved = local[d][s]]
  <2>1. agent'[d] = b /\ local'[d][s] = NoHash
    BY <1>2, <1>4 DEF AgentTyped
  <2>2. b.pc = "place" /\ b.stream = s /\ b.moved = local[d][s]
    BY <1>2 DEF Run
  <2>3. local[d][s] \in backups[d][s]
    BY <1>1, <1>4 DEF ReplacementFits
  <2> HIDE DEF b, s
  <2> QED BY <1>1, <2>1, <2>2, <2>3 DEF ReplacementFits
<1>5. CASE RunEnds(d)
  BY <1>2, <1>5 DEF RunEnds, NoRun, AgentTyped, ReplacementFits
<1> QED BY <1>3, <1>4, <1>5 DEF Replace

LEMMA QuietInvNext == QuietInv /\ [QuietNext]_vars => QuietInv'
<1> SUFFICES ASSUME QuietInv, [QuietNext]_vars PROVE QuietInv'
  OBVIOUS
<1>1. AgentTyped /\ AgentInv
  BY TypesOfAgents DEF QuietInv, AgentInv
<1>2. [AnyNext]_vars
  BY DEF QuietNext, AnyNext, PlayOutside
<1>3. AgentInv'
  BY <1>1, <1>2, AgentInvNext
<1>4. ASSUME NEW e \in Devices PROVE ReplacementFits(e)'
  <2>1. ReplacementFits(e)
    BY DEF QuietInv
  <2>2. CASE UNCHANGED <<agent, local, backups>>
    BY <2>1, <2>2, ReplacementLasts
  <2>3. ASSUME NEW d \in Devices, AgentStep(d) PROVE ReplacementFits(e)'
    <3>1. CASE e # d
      BY <1>1, <2>1, <2>3, <3>1, AgentStepElsewhere, ReplacementLasts
    <3>2. CASE e = d /\ (BackUp(d) \/ Replace(d))
      BY <1>1, <3>2, BackUpFits, ReplaceFits
    <3>3. CASE e = d /\ ~BackUp(d) /\ ~Replace(d)
      <4>1. agent'[d].pc \notin {"replace", "place"}
        BY <1>1, <2>3, <3>3, AgentStepOutside
      <4> QED BY <3>3, <4>1 DEF ReplacementFits
    <3> QED BY <3>1, <3>2, <3>3
  <2>4. CASE \E h \in Handlers : ServerStep(h)
    BY <2>2, <2>4 DEF ServerStep, agentVars
  <2>5. CASE \E h \in Handlers : OrphanOver(h)
    BY <2>2, <2>5 DEF OrphanOver, agentVars
  <2>6. ASSUME NEW d \in Devices, RunDies(d) \/ RunGivesUp(d) PROVE ReplacementFits(e)'
    <3>1. /\ UNCHANGED <<local, backups>>
          /\ agent' = [agent EXCEPT ![d] = NoRun]
      BY <2>6 DEF RunDies, RunGivesUp, RunEnds
    <3>2. CASE e = d
      BY <1>1, <3>1, <3>2 DEF AgentTyped, NoRun, ReplacementFits
    <3>3. CASE e # d
      BY <1>1, <2>1, <3>1, <3>3, ReplacementLasts DEF AgentTyped
    <3> QED BY <3>2, <3>3
  <2>7. ASSUME NEW d \in Devices, NEW s \in Streams,
               agent[d].pc \notin {"replace", "place"}, Play(d, s)
        PROVE  ReplacementFits(e)'
    <3>1. UNCHANGED <<agent, backups>> /\ (e # d => local'[e] = local[e])
      BY <1>1, <2>7 DEF Play, AgentTyped
    <3>2. CASE e = d
      BY <2>7, <3>1, <3>2 DEF ReplacementFits
    <3>3. CASE e # d
      BY <2>1, <3>1, <3>3, ReplacementLasts
    <3> QED BY <3>2, <3>3
  <2>8. CASE UNCHANGED vars
    BY <2>2, <2>8 DEF vars, agentVars
  <2> QED BY <2>3, <2>4, <2>5, <2>6, <2>7, <2>8
          DEF QuietNext, SystemNext, Faults, PlayOutside
<1> QED BY <1>3, <1>4 DEF QuietInv

LEMMA QuietInvInit == SaveSyncInit => QuietInv
<1> SUFFICES ASSUME SaveSyncInit PROVE QuietInv
  OBVIOUS
<1>1. AgentInv
  BY AgentInvInit
<1>2. \A d \in Devices : agent[d].pc \notin {"replace", "place"}
  BY DEF SaveSyncInit, NoRun
<1> QED BY <1>1, <1>2, RunReplacesNothing DEF QuietInv

\* Only the replacement of a save takes a content from its device.
LEMMA TakenIsBackedUp ==
  ASSUME QuietInv, NEW d \in Devices, AgentStep(d),
         NEW s \in Streams, NEW c \in Hashes, Kept(d, s, c), ~Kept(d, s, c)'
  PROVE  c \in backups'[d][s]
<1>1. AgentTyped /\ AgentInv
  BY TypesOfAgents DEF QuietInv, AgentInv
<1>2. c # NoHash
  BY SaveStoreAssumption
<1>3. Replace(d) \/ Place(d)
  <2>1. UNCHANGED <<local, aside>> \/ Replace(d) \/ Place(d)
    BY ZenonT(40) DEF AgentStep, StartSync, SessionCreated, RequestFailed, UploadGone, Uploaded,
           Download, BackUp, Acknowledged, Settle, FinishSync, SendCreate, SendUpload,
           SendAck
  <2> QED BY <2>1 DEF Kept
<1> DEFINE t == agent[d].stream
<1>4. /\ agent[d].pc \in {"replace", "place"} /\ UNCHANGED backups
      /\ t \in Streams /\ ReplacementFits(d)
  BY <1>1, <1>3, DownloadTyped DEF Replace, Place, Downloads, QuietInv
<1>5. CASE Replace(d)
  <2>1. /\ agent[d].pc = "replace"
        /\ \/ (\E e : local' = [local EXCEPT ![d][t] = e]) /\ UNCHANGED aside
           \/ /\ \E e : local' = [local EXCEPT ![d][t] = e]
              /\ aside' = [aside EXCEPT ![d][t] = @ \cup {local[d][t]}]
    BY <1>5 DEF Replace, Installed, Kept
  <2>2. s = t /\ c = local[d][t]
    BY <1>1, <1>4, <2>1 DEF Kept, AgentTyped
  <2> QED BY <1>2, <1>4, <2>1, <2>2 DEF ReplacementFits
<1>6. CASE Place(d)
  <2>1. /\ agent[d].pc = "place" /\ local[d][t] = NoHash
        /\ aside' = [aside EXCEPT ![d][t] = @ \ {agent[d].moved}]
        /\ \E e : local' = [local EXCEPT ![d][t] = e]
    BY <1>4, <1>6 DEF Place, Installed, Kept, ReplacementFits
  <2>2. s = t /\ c = agent[d].moved
    BY <1>1, <1>2, <1>4, <2>1 DEF Kept, AgentTyped
  <2> QED BY <1>4, <2>1, <2>2 DEF ReplacementFits
<1> QED BY <1>3, <1>5, <1>6

\* As long as no emulator writes between the agent's last look at a save and
\* its replacement, whatever save a step of an agent takes from its device is
\* in a backup: across failed renames, runs that die with the save moved
\* aside, and saves collected long before the plan reaches them.
THEOREM ReplacedSavesAreRecoverable == QuietSpec => ReplacedIsRecoverable
<1>1. ASSUME QuietInv, [QuietNext]_vars,
             NEW d \in Devices, NEW s \in Streams, NEW c \in Hashes,
             Kept(d, s, c), ~Kept(d, s, c)', budget'.plays = budget.plays
      PROVE  Recoverable(d, s, c)'
  <2>1. AgentTyped /\ budget.plays \in Nat /\ budget \in Budget
    <3>1. AgentTyped
      BY <1>1, TypesOfAgents DEF QuietInv, AgentInv
    <3> QED BY <3>1, SaveSyncAssumption DEF AgentTyped, Budget
  <2>2. ASSUME NEW e \in Devices, NEW t \in Streams, Play(e, t) PROVE FALSE
    <3>1. budget' = [budget EXCEPT !.plays = @ - 1]
      BY <2>2 DEF Play
    <3>2. budget'.plays = budget.plays - 1
      BY <2>1, <3>1 DEF Budget
    <3> QED BY <1>1, <2>1, <3>2
  <2>3. PICK e \in Devices : AgentStep(e)
    <3>1. local' # local \/ aside' # aside
      BY <1>1 DEF Kept
    <3> QED BY <1>1, <2>2, <3>1 DEF QuietNext, SystemNext, Faults, PlayOutside, ServerStep,
               RunDies, RunGivesUp, OrphanOver, agentVars, vars
  <2>4. e = d
    <3>1. ASSUME e # d PROVE local'[d] = local[d] /\ aside'[d] = aside[d]
      <4>1. local'[d] = local[d]
        BY <2>1, <2>3, <3>1, AgentStepElsewhere
      <4>2. UNCHANGED aside \/ Replace(e) \/ Place(e)
        BY ZenonT(40), <2>3 DEF AgentStep, StartSync, SessionCreated, RequestFailed, UploadGone,
               Uploaded, Download, BackUp, Acknowledged, Settle, FinishSync, SendCreate,
               SendUpload, SendAck
      <4>3. aside'[d] = aside[d]
        BY <2>1, <3>1, <4>2 DEF Replace, Place, AgentTyped
      <4> QED BY <4>1, <4>3
    <3> QED BY <1>1, <3>1 DEF Kept
  <2> QED BY <1>1, <2>3, <2>4, TakenIsBackedUp DEF Recoverable
<1>2. QuietInv /\ [QuietNext]_vars
        => [\A d \in Devices, s \in Streams, c \in Hashes :
              /\ Kept(d, s, c) /\ ~Kept(d, s, c)'
              /\ budget'.plays = budget.plays
              => Recoverable(d, s, c)']_vars
  BY <1>1
<1> QED BY <1>2, QuietInvInit, QuietInvNext, PTL DEF QuietSpec, ReplacedIsRecoverable

-----------------------------------------------------------------------------
(* The agents as clients of the server.  The server's own specification lets *)
(* any client send any request; agents send some of those, one at a time.   *)

\* No agent uploads outside its sessions: PushSet runs for an upload of one.
PushesInSessions == \A h \in Handlers : call[h].pc # "push" => push[h] = NoPush

ClientInv == AgentInv /\ PushesInSessions

\* Every request is waited for: no run has given up on one.
NoOrphans == \A h \in Handlers : call[h].pc # "idle" => Awaited(h)

SoloInv == ClientInv /\ NoOrphans /\ budget.orphans = 0

\* What agents have the server do.
SessionStep(h) ==
  \/ ClientCreates(h) \/ ClientUploads(h) \/ ClientAcks(h)
  \/ CallStep(h) \/ RequestOver(h)

\* An answer that is received is a request that is over.
LEMMA ReceivesIsOver ==
  ASSUME ClientInv, NEW d \in Devices, agent[d].pc \in Waiting, NEW ok, Receives(d, ok)
  PROVE  agent[d].handler \in Handlers /\ RequestOver(agent[d].handler)
<1> DEFINE h == agent[d].handler
<1>1. /\ call[h].pc = "reply" /\ call' = [call EXCEPT ![h] = NoCall]
      /\ UNCHANGED <<revisions, push, sessions>>
  BY DEF Receives
<1>2. h \in Handlers
  BY AwaitedRequest DEF ClientInv
<1>3. push[h] = NoPush /\ push \in [Handlers -> PushCall \cup {NoPush}]
  BY <1>1, <1>2 DEF ClientInv, PushesInSessions, AgentInv, SyncInv, StoreInv, TypeOK
<1>4. push' = [push EXCEPT ![h] = NoPush]
  BY <1>1, <1>3
<1> QED BY <1>1, <1>2, <1>4 DEF RequestOver, Idle

LEMMA DyingIsOver ==
  ASSUME ClientInv, NEW d \in Devices, RunDies(d), agent[d].pc \in Waiting
  PROVE  agent[d].handler \in Handlers /\ RequestOver(agent[d].handler)
<1>1. agent[d].handler \in Handlers /\ call[agent[d].handler].pc # "idle"
  BY AwaitedRequest DEF ClientInv, Asks
<1> QED BY <1>1 DEF RunDies, RequestOver, Idle

\* Whatever agents, emulators and faults do, the server sees a step of its
\* clients, a step of its own or nothing.
LEMMA AgentsAreClients ==
  ASSUME ClientInv, [AnyNext]_vars
  PROVE  UNCHANGED syncVars \/ \E h \in Handlers : SessionStep(h)
<1>1. AgentInv
  BY DEF ClientInv
<1>2. ASSUME NEW d \in Devices, AgentStep(d)
      PROVE  UNCHANGED syncVars \/ \E h \in Handlers : SessionStep(h)
  <2>1. CASE \/ StartSync(d) \/ UploadGone(d) \/ Download(d) \/ BackUp(d)
             \/ Replace(d) \/ Place(d) \/ Settle(d) \/ FinishSync(d)
    BY <2>1 DEF StartSync, UploadGone, Download, BackUp, Replace, Place, Settle, FinishSync
  <2>2. CASE SessionCreated(d) \/ RequestFailed(d) \/ Uploaded(d) \/ Acknowledged(d)
    <3>1. agent[d].pc \in Waiting /\ \E ok : Receives(d, ok)
      BY <2>2 DEF SessionCreated, RequestFailed, Uploaded, Acknowledged, Waiting
    <3> QED BY <3>1, ReceivesIsOver DEF SessionStep
  <2>3. CASE \E h \in Handlers : SendCreate(d, h) \/ SendUpload(d, h) \/ SendAck(d, h)
    BY <1>1, <2>3, SendsCreate, SendsUpload, SendsAck DEF SessionStep
  <2> QED BY <1>2, <2>1, <2>2, <2>3 DEF AgentStep
<1>3. CASE \E h \in Handlers : ServerStep(h) \/ OrphanOver(h)
  BY <1>3 DEF ServerStep, OrphanOver, SessionStep
<1>4. ASSUME NEW d \in Devices, RunDies(d)
      PROVE  UNCHANGED syncVars \/ \E h \in Handlers : SessionStep(h)
  <2>1. CASE agent[d].pc \in Waiting
    BY <1>4, <2>1, DyingIsOver DEF SessionStep
  <2>2. CASE agent[d].pc \notin Waiting
    BY <1>4, <2>2 DEF RunDies, syncVars
  <2> QED BY <2>1, <2>2
<1>5. CASE (\E d \in Devices : RunGivesUp(d)) \/ PlayOutside({}) \/ UNCHANGED vars
  BY <1>5 DEF RunGivesUp, PlayOutside, Play, vars
<1> QED BY <1>2, <1>3, <1>4, <1>5 DEF AnyNext, SystemNext, Faults

\* A session step is one of the server's, and moves one request.
LEMMA SessionStepKeeps ==
  ASSUME SyncInv, NEW h \in Handlers, SessionStep(h)
  PROVE  /\ SyncNext
         /\ \A g \in Handlers \ {h} : call'[g] = call[g] /\ push'[g] = push[g]
<1>1. SyncNext
  BY DEF SessionStep, SyncNext
<1>2. OwnPush(h) /\ Keeps(h)
  BY CreateSessionKeeps, UploadKeeps, AckKeeps, CallStepKeeps, RequestOverKeeps
     DEF SessionStep
<1> QED BY <1>1, <1>2 DEF OwnPush, Keeps, SyncInv, SyncTypeOK

LEMMA PushesStayInSessions ==
  ASSUME ClientInv, NEW h \in Handlers, SessionStep(h)
  PROVE  PushesInSessions'
<1>1. SyncInv /\ call \in [Handlers -> Call] /\ push \in [Handlers -> PushCall \cup {NoPush}]
  <2>1. SyncInv
    BY DEF ClientInv, AgentInv
  <2> QED BY <2>1 DEF SyncInv, SyncTypeOK, StoreInv, TypeOK, Call
<1>2. \A g \in Handlers \ {h} : call'[g] = call[g] /\ push'[g] = push[g]
  BY <1>1, SessionStepKeeps
<1>3. call[h].pc # "push" => push[h] = NoPush
  BY DEF ClientInv, PushesInSessions
<1>4. ASSUME call'[h].pc # "push" PROVE push'[h] = NoPush
  <2>1. CASE ClientCreates(h) \/ ClientAcks(h)
    BY <1>3, <2>1 DEF ClientCreates, ClientAcks, Idle, AckOperation
  <2>2. CASE ClientUploads(h)
    <3>1. PICK i \in DOMAIN sessions :
            \E s \in Named(sessions[i].ops), c \in Hashes : UploadOperation(h, i, s, c)
      BY <2>2 DEF ClientUploads
    <3>2. PICK s \in Named(sessions[i].ops), c \in Hashes : UploadOperation(h, i, s, c)
      BY <3>1
    <3>3. call[h].pc = "idle"
      BY <2>2 DEF ClientUploads, Idle
    <3>4. CASE call' = [call EXCEPT ![h] =
                          OperationRequest("upload", "push", i, s, c, NoRevision)]
      BY <1>1, <1>4, <3>4 DEF OperationRequest
    <3>5. CASE UNCHANGED push
      BY <1>3, <3>3, <3>5
    <3> QED BY <3>2, <3>4, <3>5 DEF UploadOperation
  <2>3. CASE RequestOver(h) \/ UploadPushed(h)
    BY <1>1, <2>3 DEF RequestOver, UploadPushed
  <2>4. CASE PushStep(h) /\ UNCHANGED <<sessions, call>>
    <3>1. push[h].pc # "idle"
      BY <2>4 DEF PushStep, PushReadCurrent, PushFindExisting, AddSaveRevision
    <3> QED BY <1>3, <1>4, <2>4, <3>1 DEF NoPush
  <2>5. CASE \/ NegotiateStream(h) \/ LookupSession(h) \/ InsertSession(h)
             \/ ReadOperations(h) \/ StoreSessionStatus(h) \/ FailSyncOperation(h)
             \/ ReadOperation(h) \/ RejectOperation(h) \/ CompleteOperation(h)
    <3>1. call[h].pc # "push" /\ UNCHANGED push
      BY <2>5 DEF NegotiateStream, LookupSession, InsertSession, ReadOperations,
             StoreSessionStatus, FailSyncOperation, ReadOperation, RejectOperation,
             CompleteOperation
    <3> QED BY <1>3, <3>1
  <2> QED BY <2>1, <2>2, <2>3, <2>4, <2>5 DEF SessionStep, CallStep
<1> QED BY <1>2, <1>4, <1>3 DEF PushesInSessions, ClientInv

LEMMA ClientInvNext == ClientInv /\ [AnyNext]_vars => ClientInv' /\ [SyncNext]_syncVars
<1> SUFFICES ASSUME ClientInv, [AnyNext]_vars PROVE ClientInv' /\ [SyncNext]_syncVars
  OBVIOUS
<1>1. AgentInv' /\ SyncInv
  BY AgentInvNext DEF ClientInv, AgentInv
<1>2. CASE UNCHANGED syncVars
  BY <1>1, <1>2 DEF ClientInv, PushesInSessions, syncVars
<1>3. ASSUME NEW h \in Handlers, SessionStep(h) PROVE ClientInv' /\ SyncNext
  BY <1>1, <1>3, SessionStepKeeps, PushesStayInSessions DEF ClientInv
<1> QED BY <1>2, <1>3, AgentsAreClients

LEMMA ClientInvInit == SaveSyncInit => ClientInv /\ SyncInit
<1> SUFFICES ASSUME SaveSyncInit PROVE ClientInv /\ SyncInit
  OBVIOUS
<1>1. push = [h \in Handlers |-> NoPush] /\ SyncInit
  BY DEF SaveSyncInit, SyncInit, Init
<1> QED BY <1>1, AgentInvInit DEF ClientInv, PushesInSessions

\* Agents, emulators and faults around it are to the sync server clients like
\* any other: its theorems, and through it those of the store, hold of the
\* whole.
THEOREM AgentsImplementTheServer == AnySpec => SyncSpec
BY ClientInvInit, ClientInvNext, PTL DEF AnySpec, SyncSpec

\* From end to end: agents that crash, lose answers and repeat requests, over
\* sessions that race, write one history of saves, in which nothing accepted
\* is ever lost or moved.
THEOREM AgentsImplementHistory == AnySpec => ImplementsHistory
BY AgentsImplementTheServer, ServerImplementsHistory, PTL

\* What agents rely on while they sync: one current revision for each stream,
\* plans that give up no content, completions that are stored, and one session
\* for each key.
THEOREM AgentsMayRelyOnTheServer ==
  AnySpec => [](/\ CurrentIsNewestPublished /\ PlansLoseNothing
                /\ CompleteMeansStored /\ CreationIsIdempotent)
BY AgentsImplementTheServer, ServerKeepsOneCurrent, NothingLost, CompletionIsStored,
   KeysNameOneSession, PTL

-----------------------------------------------------------------------------
(* Runs that never give up on a request the server goes on with *)

LEMMA RequestStaysAwaited ==
  ASSUME NoOrphans, NEW d \in Devices, \A e \in Devices \ {d} : agent'[e] = agent[e],
         NEW h \in Handlers, \A g \in Handlers \ {h} : call'[g] = call[g],
         agent[d].pc \in Waiting => agent[d].handler = h,
         call'[h].pc # "idle" => agent'[d].pc \in Waiting /\ agent'[d].handler = h
  PROVE  NoOrphans'
<1>1. ASSUME NEW g \in Handlers, g # h, call[g].pc # "idle"
      PROVE  \E e \in Devices : agent'[e].pc \in Waiting /\ agent'[e].handler = g
  <2>1. PICK e \in Devices : agent[e].pc \in Waiting /\ agent[e].handler = g
    BY <1>1 DEF NoOrphans, Awaited
  <2> QED BY <1>1, <2>1
<1> QED BY <1>1 DEF NoOrphans, Awaited

LEMMA NothingStaysAwaited ==
  ASSUME NoOrphans, UNCHANGED call, NEW d \in Devices, agent[d].pc \notin Waiting,
         \A e \in Devices \ {d} : agent'[e] = agent[e]
  PROVE  NoOrphans'
<1>1. ASSUME NEW g \in Handlers, call[g].pc # "idle"
      PROVE  \E e \in Devices : agent'[e].pc \in Waiting /\ agent'[e].handler = g
  <2>1. PICK e \in Devices : agent[e].pc \in Waiting /\ agent[e].handler = g
    BY <1>1 DEF NoOrphans, Awaited
  <2> QED BY <1>1, <2>1
<1> QED BY <1>1 DEF NoOrphans, Awaited

\* The server goes on with the requests it has.
LEMMA RequestsGoOnAwaited ==
  ASSUME AgentInv, NoOrphans, NEW h \in Handlers, CallStep(h) \/ RequestOver(h),
         UNCHANGED agent
  PROVE  NoOrphans'
<1>1. SyncInv /\ call \in [Handlers -> Call]
  <2>1. SyncInv
    BY DEF AgentInv
  <2> QED BY <2>1 DEF SyncInv, SyncTypeOK, Call
<1>2. \A g \in Handlers \ {h} : call'[g] = call[g]
  BY <1>1, SessionStepKeeps DEF SessionStep
<1>3. call'[h].pc # "idle" => call[h].pc # "idle"
  <2>1. CASE RequestOver(h)
    BY <2>1, <1>1 DEF RequestOver, NoCall
  <2>2. CASE CallStep(h)
    <3>1. call[h].pc # "idle" \/ UNCHANGED call
      BY ZenonT(40), <2>2 DEF CallStep, NegotiateStream, LookupSession, InsertSession,
             ReadOperations, StoreSessionStatus, UploadPushed, FailSyncOperation,
             ReadOperation, RejectOperation, CompleteOperation
    <3> QED BY <3>1
  <2> QED BY <2>1, <2>2
<1> QED BY <1>2, <1>3 DEF NoOrphans, Awaited

LEMMA SoloStep ==
  ASSUME SoloInv, NEW d \in Devices, AgentStep(d)
  PROVE  NoOrphans'
<1>1. AgentInv /\ AgentTyped /\ NoOrphans /\ ClientInv
  <2>1. AgentInv /\ NoOrphans /\ ClientInv
    BY DEF SoloInv, ClientInv
  <2> QED BY <2>1, TypesOfAgents DEF AgentInv
<1>2. \A e \in Devices \ {d} : agent'[e] = agent[e]
  BY <1>1, AgentStepElsewhere
<1>3. CASE \/ StartSync(d) \/ UploadGone(d) \/ Download(d) \/ BackUp(d)
           \/ Replace(d) \/ Place(d) \/ Settle(d) \/ FinishSync(d)
  <2>1. UNCHANGED syncVars /\ agent[d].pc \notin Waiting
    BY <1>3 DEF StartSync, UploadGone, Download, BackUp, Replace, Place, Settle,
                FinishSync, Left, Waiting
  <2> QED BY <1>1, <1>2, <2>1, NothingStaysAwaited DEF syncVars
<1>4. CASE SessionCreated(d) \/ RequestFailed(d) \/ Uploaded(d) \/ Acknowledged(d)
  <2> DEFINE h == agent[d].handler
  <2>1. agent[d].pc \in Waiting /\ \E ok : Receives(d, ok)
    BY <1>4 DEF SessionCreated, RequestFailed, Uploaded, Acknowledged, Waiting
  <2>2. h \in Handlers /\ RequestOver(h)
    BY <1>1, <2>1, ReceivesIsOver
  <2>3. call'[h].pc = "idle" /\ \A g \in Handlers \ {h} : call'[g] = call[g]
    <3>1. call \in [Handlers -> Call]
      <4>1. SyncInv
        BY <1>1 DEF AgentInv
      <4> QED BY <4>1 DEF SyncInv, SyncTypeOK, Call
    <3> QED BY <2>2, <3>1 DEF RequestOver, NoCall
  <2> HIDE DEF h
  <2>4. agent[d].handler = h
    BY DEF h
  <2> QED BY <1>1, <1>2, <2>2, <2>3, <2>4, RequestStaysAwaited
<1>5. ASSUME NEW h \in Handlers, SendCreate(d, h) \/ SendUpload(d, h) \/ SendAck(d, h)
      PROVE  NoOrphans'
  <2>1. agent[d].pc \notin Waiting /\ agent[d].pc # "idle"
    BY <1>5 DEF SendCreate, SendUpload, SendAck, Left, Waiting
  <2>2. agent[d] \in Run /\ agent \in [Devices -> Run \cup {NoRun}]
    BY <1>1, <2>1, RunTyped DEF AgentTyped
  <2>3. agent'[d].pc \in Waiting /\ agent'[d].handler = h
    <3>1. ASSUME NEW pc \in Waiting, Sends(d, h, pc)
          PROVE  agent'[d].pc \in Waiting /\ agent'[d].handler = h
      BY <2>2, <3>1 DEF Sends, Run
    <3>2. CASE SendUpload(d, h)
      <4>1. PICK s \in Left(d, "upload") :
              agent' = [agent EXCEPT ![d].pc = "uploading", ![d].stream = s,
                                     ![d].handler = h]
        BY <3>2 DEF SendUpload
      <4> QED BY <2>2, <4>1 DEF Run, Waiting
    <3> QED BY <1>5, <3>1, <3>2 DEF SendCreate, SendAck, Waiting
  <2>4. \A g \in Handlers \ {h} : call'[g] = call[g]
    <3>1. SessionStep(h)
      BY <1>1, <1>5, SendsCreate, SendsUpload, SendsAck DEF SessionStep
    <3> QED BY <1>1, <3>1, SessionStepKeeps DEF AgentInv
  <2> QED BY <1>1, <1>2, <2>1, <2>3, <2>4, RequestStaysAwaited
<1> QED BY <1>3, <1>4, <1>5 DEF AgentStep

LEMMA OrphansLeft ==
  ASSUME SoloInv, [AnyNext]_vars
  PROVE  budget'.orphans = 0
<1>1. budget \in Budget /\ budget.orphans = 0
  <2>1. AgentTyped
    BY TypesOfAgents DEF SoloInv, ClientInv, AgentInv
  <2> QED BY <2>1 DEF SoloInv, AgentTyped, Budget
<1>2. CASE UNCHANGED budget
  BY <1>1, <1>2
<1>3. CASE \/ budget' = [budget EXCEPT !.plays = @ - 1]
           \/ budget' = [budget EXCEPT !.crashes = @ - 1]
  BY <1>1, <1>3 DEF Budget
<1>4. ASSUME NEW d \in Devices, AgentStep(d)
      PROVE  UNCHANGED budget \/ budget' = [budget EXCEPT !.crashes = @ - 1]
  BY ZenonT(40), <1>4 DEF AgentStep, StartSync, SessionCreated, RequestFailed, UploadGone, Uploaded,
         Download, BackUp, Replace, Place, Acknowledged, Settle, FinishSync, SendCreate,
         SendUpload, SendAck
<1> QED BY <1>1, <1>2, <1>3, <1>4 DEF AnyNext, SystemNext, Faults, PlayOutside, Play,
           ServerStep, OrphanOver, RunDies, RunGivesUp, agentVars, vars

LEMMA SoloInvNext == SoloInv /\ [AnyNext]_vars => SoloInv'
<1> SUFFICES ASSUME SoloInv, [AnyNext]_vars PROVE SoloInv'
  OBVIOUS
<1>1. AgentInv /\ AgentTyped /\ NoOrphans /\ ClientInv /\ budget.orphans = 0
  <2>1. AgentInv /\ NoOrphans /\ ClientInv /\ budget.orphans = 0
    BY DEF SoloInv, ClientInv
  <2> QED BY <2>1, TypesOfAgents DEF AgentInv
<1>2. ClientInv' /\ budget'.orphans = 0
  BY <1>1, ClientInvNext, OrphansLeft
<1>3. NoOrphans'
  <2>1. CASE \E d \in Devices : AgentStep(d)
    BY <2>1, SoloStep
  <2>2. CASE \E h \in Handlers : ServerStep(h) \/ OrphanOver(h)
    BY <1>1, <2>2, RequestsGoOnAwaited DEF ServerStep, OrphanOver, agentVars
  <2>3. ASSUME NEW d \in Devices, RunDies(d) PROVE NoOrphans'
    <3>1. \A e \in Devices \ {d} : agent'[e] = agent[e]
      BY <1>1, <2>3 DEF RunDies, RunEnds, AgentTyped
    <3>2. CASE agent[d].pc \in Waiting
      <4> DEFINE h == agent[d].handler
      <4>1. h \in Handlers /\ RequestOver(h)
        BY <1>1, <2>3, <3>2, DyingIsOver
      <4>2. call'[h].pc = "idle" /\ \A g \in Handlers \ {h} : call'[g] = call[g]
        <5>1. call \in [Handlers -> Call]
          <6>1. SyncInv
            BY <1>1 DEF AgentInv
          <6> QED BY <6>1 DEF SyncInv, SyncTypeOK, Call
        <5> QED BY <4>1, <5>1 DEF RequestOver, NoCall
      <4> HIDE DEF h
      <4>3. agent[d].handler = h
        BY DEF h
      <4> QED BY <1>1, <3>1, <4>1, <4>2, <4>3, RequestStaysAwaited
    <3>3. CASE agent[d].pc \notin Waiting
      BY <1>1, <2>3, <3>1, <3>3, NothingStaysAwaited DEF RunDies
    <3> QED BY <3>2, <3>3
  <2>4. ASSUME NEW d \in Devices, RunGivesUp(d) PROVE FALSE
    BY <1>1, <2>4 DEF RunGivesUp
  <2>5. CASE PlayOutside({}) \/ UNCHANGED vars
    <3>1. UNCHANGED <<call, agent>>
      BY <2>5 DEF PlayOutside, Play, vars, agentVars, syncVars
    <3> QED BY <1>1, <3>1 DEF NoOrphans, Awaited
  <2> QED BY <2>1, <2>2, <2>3, <2>4, <2>5 DEF AnyNext, SystemNext, Faults
<1> QED BY <1>2, <1>3 DEF SoloInv

\* A device whose runs wait for their answers has one request in flight.
LEMMA SoloIsSerial == SoloInv => OneCallPerDevice
<1> SUFFICES ASSUME SoloInv, NEW d \in Devices, NEW g \in CallsOf(d)
             PROVE  agent[d].pc \in Waiting /\ agent[d].handler = g
  BY DEF OneCallPerDevice
<1>1. AgentInv
  BY DEF SoloInv, ClientInv
<1>2. g \in Handlers /\ call[g].pc # "idle"
  BY DEF CallsOf
<1>3. PICK e \in Devices : agent[e].pc \in Waiting /\ agent[e].handler = g
  BY <1>2 DEF SoloInv, NoOrphans, Awaited
<1>4. Asks(call[g], e, agent[e]) /\ RunFits(revisions, sessions, e, agent[e])
  BY <1>1, <1>3, AwaitedRequest
<1>5. e = d
  <2>1. CASE agent[e].pc = "creating"
    BY <1>4, <2>1 DEF Asks, CallsOf
  <2>2. CASE agent[e].pc \in {"uploading", "acking"}
    BY <1>4, <2>2 DEF Asks, CallsOf, RunFits, PlannedFor
  <2> QED BY <1>3, <2>1, <2>2 DEF Waiting
<1> QED BY <1>3, <1>5

\* Agents that never give up on a request the server goes on with are clients
\* with one request in flight for each device, whatever else happens: runs
\* die, connections break, emulators play and requests fail.
THEOREM WaitingAgentsAreSerial ==
  ASSUME MaxOrphans = 0
  PROVE  AnySpec => SerialSpec
<1>1. SaveSyncInit => SoloInv /\ SyncInit
  <2> SUFFICES ASSUME SaveSyncInit PROVE SoloInv /\ SyncInit
    OBVIOUS
  <2>1. NoOrphans /\ budget.orphans = 0
    BY DEF SaveSyncInit, SyncInit, NoOrphans, NoCall
  <2> QED BY <2>1, ClientInvInit DEF SoloInv
<1>2. SoloInv' => OneCallPerDevice'
  BY SoloIsSerial, PTL
<1>3. SoloInv /\ [AnyNext]_vars => SoloInv' /\ [SyncNext /\ OneCallPerDevice']_syncVars
  BY <1>2, SoloInvNext, ClientInvNext DEF SoloInv
<1> QED BY <1>1, <1>3, PTL DEF AnySpec, SerialSpec

\* So their sessions tell them the truth for good.  It is a request given up
\* on that can be answered after the next one and turn a session over.
THEOREM WaitingAgentsAreToldTheTruth ==
  ASSUME MaxOrphans = 0
  PROVE  AnySpec => []TerminalIsTruthful /\ TerminalStays /\ OutcomeIsFinal
BY WaitingAgentsAreSerial, FinishedSessionsAreTruthful, FinishedSessionsStay,
   OutcomesStand, PTL
=============================================================================
