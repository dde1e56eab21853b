------------------------------ MODULE SaveSync ------------------------------
(***************************************************************************)
(* Device agents (internal/deviceagent) synchronising their local saves    *)
(* through the sync server, while the emulators they serve keep playing.   *)
(*                                                                         *)
(* A run of SyncOnce holds the lock of its configuration file, so a device *)
(* has one run at a time.  It reads the local saves once, negotiates, and  *)
(* carries the plan out operation by operation; only the configuration     *)
(* file outlives the run, and it is replaced atomically, once before the   *)
(* session is asked for and once when the whole plan is done.  Probing,    *)
(* heartbeat and inventory come before and change nothing kept here.       *)
(*                                                                         *)
(* The agent and the emulator do not exclude each other: the local save is *)
(* read again when it is uploaded, when it is compared and backed up, and  *)
(* it is replaced some time later.                                         *)
(***************************************************************************)
EXTENDS SyncServer

CONSTANTS DirectoryStreams,  \* streams whose local save is a directory
          EmptySave,         \* a directory save that is there without any file
          MaxPlays,          \* bound: saves the emulators write
          MaxCrashes,        \* bound: runs that die or lose their connection
          MaxOrphans         \* bound: runs that give up on a request the server
                             \* goes on with

\* The locals of a run that has sent nothing yet name any stream and handler.
ASSUME SaveSyncAssumption ==
  /\ Streams # {} /\ Handlers # {}
  /\ DirectoryStreams \subseteq Streams
  /\ EmptySave \notin Hashes \cup {NoHash}
  /\ {MaxPlays, MaxCrashes, MaxOrphans} \subseteq Nat

VARIABLES local,      \* local[d][s]: the save on the device, NoHash when absent
          backups,    \* backups[d][s]: contents in .varkiv/backups
          aside,      \* aside[d][s]: contents of .varkiv-previous directories
          config,     \* config[d]: the agent's configuration file
          agent,      \* agent[d]: the run of SyncOnce
          budget      \* what is left of the bounds

agentVars == <<local, backups, aside, config, agent, budget>>
vars == <<syncVars, agentVars>>

-----------------------------------------------------------------------------
(* State of a device *)

Content == Hashes \cup {NoHash}

LocalSaves == Content \cup {EmptySave}

\* enumerateBinding: a save without files has no hash, there or not.
HashOf(save) == IF save = EmptySave THEN NoHash ELSE save

\* StreamState: the revision the device last agreed on with the server.
StreamState == [revision : Nat, hash : Content]

NoStreamState == [revision |-> NoRevision, hash |-> NoHash]

NoPending == [none |-> TRUE]

Config == [streams : [Streams -> StreamState],
           pending : [key : Keys, saves : SaveStates] \cup {NoPending}]

Waiting == {"creating", "uploading", "acking"}

AgentPC == {"create", "next", "install", "replace", "place", "ack"} \cup Waiting

NoRun == [pc |-> "idle"]

Run == [pc : AgentPC, sets : [Streams -> Content], key : Keys,
        saves : SaveStates, streams : [Streams -> StreamState],
        session : Nat, done : SUBSET Streams, stream : Streams, handler : Handlers,
        existed : BOOLEAN, moved : LocalSaves]

Does(d, pc) == agent' = [agent EXCEPT ![d].pc = pc]

RunEnds(d) == agent' = [agent EXCEPT ![d] = NoRun]

PlanOf(d) == sessions[agent[d].session].ops

\* The operation the run is at.
OpOf(d) == PlanOf(d)[agent[d].stream]

UsedKeys(d) ==
  {sessions[i].key : i \in {j \in DOMAIN sessions : sessions[j].device = d}}
    \cup {call[h].key : h \in {g \in Handlers : call[g].pc # "idle"
                                                 /\ call[g].kind = "create"}}

-----------------------------------------------------------------------------
(* syncOnce up to the session *)

CollectedBefore(d) ==   \* mutant: a pending request is sent again as it was
  IF config[d].pending # NoPending THEN config[d].pending.saves
  ELSE [s \in Streams |-> [base |-> config[d].streams[s].revision,
                           hash |-> HashOf(local[d][s])]]

\* The saves of the request a run would send now.
Collected(d) ==
  [s \in Streams |-> [base |-> config[d].streams[s].revision,
                      hash |-> HashOf(local[d][s])]]

\* The ticker starts runs without end; one whose plan would hold nothing but
\* conflicts and noops that confirm what the device knows is left out: it
\* changes nothing kept here but the table of sessions.
Due(d) ==
  \/ config[d].pending # NoPending
  \/ \E s \in Streams :
       LET op == Decide(s, Normalised(Collected(d))[s])
       IN  \/ op.action \in {"upload", "download"}
           \/ op.action = "noop" /\ op.target \notin {NoRevision, config[d].streams[s].revision}

\* collectLocalSets and the request made of it; the key of a request that is
\* still pending is used again, a new one is stored before it is used.
StartSync(d) ==
  LET sets == [s \in Streams |-> HashOf(local[d][s])]
      saves == Collected(d)
      pending == config[d].pending
      again == pending # NoPending /\ pending.saves = saves
      Begin(key) == agent' = [agent EXCEPT ![d] =
                      [pc |-> "create", sets |-> sets, key |-> key, saves |-> saves,
                       streams |-> config[d].streams, session |-> NoSession,
                       done |-> {}, stream |-> CHOOSE s \in Streams : TRUE,
                       handler |-> CHOOSE h \in Handlers : TRUE,
                       existed |-> FALSE, moved |-> NoHash]]
  IN  /\ agent[d].pc = "idle" /\ Due(d)
      /\ \/ /\ again
            /\ Begin(pending.key)
            /\ UNCHANGED config
         \/ /\ ~again
            /\ LET key == CHOOSE k \in Keys : k \notin UsedKeys(d)
               IN  /\ Keys \ UsedKeys(d) # {}
                   /\ Begin(key)
                   /\ config' = [config EXCEPT ![d].pending =
                                   [key |-> key, saves |-> saves]]
      /\ UNCHANGED <<syncVars, local, backups, aside, budget>>

\* A request of the run takes an idle handler.
Sends(d, h, pc) ==
  /\ Idle(h)
  /\ agent' = [agent EXCEPT ![d].pc = pc, ![d].handler = h]

SendCreate(d, h) ==
  /\ agent[d].pc = "create"
  /\ Sends(d, h, "creating")
  /\ CreateSession(h, d, agent[d].key, agent[d].saves)
  /\ UNCHANGED <<revisions, push, sessions, local, backups, aside, config, budget>>

\* The answer of the request the run waits for.
Receives(d, ok) ==
  LET h == agent[d].handler
  IN  /\ call[h].pc = "reply" /\ call[h].ok = ok
      /\ call' = [call EXCEPT ![h] = NoCall]
      /\ UNCHANGED <<revisions, push, sessions>>

SessionCreated(d) ==
  /\ agent[d].pc = "creating"
  /\ Receives(d, TRUE)
  /\ agent' = [agent EXCEPT ![d].pc = "next",
                            ![d].session = call[agent[d].handler].session]
  /\ UNCHANGED <<local, backups, aside, config, budget>>

\* An error answer ends the run; nothing of its memory is stored.
RequestFailed(d) ==
  /\ agent[d].pc \in Waiting
  /\ Receives(d, FALSE)
  /\ RunEnds(d)
  /\ UNCHANGED <<local, backups, aside, config, budget>>

-----------------------------------------------------------------------------
(* The operations of the plan, in the order of their opaque ids *)

AgreedOldHash(d, s, revision, hash) ==   \* mutant: only the revision is stored
  agent' = [agent EXCEPT ![d].pc = "next", ![d].done = @ \cup {s},
                         ![d].streams[s].revision = revision]

\* The run is through with its operation and remembers what it agreed on.
Agreed(d, s, revision, hash) ==
  agent' = [agent EXCEPT ![d].pc = "next", ![d].done = @ \cup {s},
                         ![d].streams[s] = [revision |-> revision, hash |-> hash]]

Left(d, action) ==
  IF agent[d].pc # "next" THEN {}
  ELSE {s \in Named(PlanOf(d)) \ agent[d].done : PlanOf(d)[s].action = action}

\* uploadOperation reads the files again while it sends them; a file that is
\* gone by then ends the run.
SendUpload(d, h) ==
  /\ Idle(h)
  /\ \E s \in Left(d, "upload") :
       /\ local[d][s] \in Hashes
       /\ agent' = [agent EXCEPT ![d].pc = "uploading", ![d].stream = s,
                                 ![d].handler = h]
       /\ UploadOperation(h, agent[d].session, s, local[d][s])
  /\ UNCHANGED <<revisions, sessions, local, backups, aside, config, budget>>

UploadGone(d) ==
  /\ \E s \in Left(d, "upload") : local[d][s] \notin Hashes
  /\ RunEnds(d)
  /\ UNCHANGED <<syncVars, local, backups, aside, config, budget>>

Uploaded(d) ==
  LET s == agent[d].stream
      revision == call[agent[d].handler].target
  IN  /\ agent[d].pc = "uploading"
      /\ Receives(d, TRUE)
      /\ \/ /\ revisions[revision].hash = agent[d].sets[s]
            /\ Agreed(d, s, revision, revisions[revision].hash)
         \/ /\ revisions[revision].hash # agent[d].sets[s]
            /\ RunEnds(d)
      /\ UNCHANGED <<local, backups, aside, config, budget>>

\* downloadRevision up to the verified staged copy: revisions are immutable.
Download(d) ==
  /\ \E s \in Left(d, "download") :
       agent' = [agent EXCEPT ![d].pc = "install", ![d].stream = s]
  /\ UNCHANGED <<syncVars, local, backups, aside, config, budget>>

BackUpCollected(d) ==   \* mutant: there is no second look
  LET s == agent[d].stream
      collected == agent[d].sets[s]
  IN  /\ agent[d].pc = "install"
      /\ agent' = [agent EXCEPT ![d].pc = "replace",
                                ![d].existed = local[d][s] # NoHash]
      /\ backups' = [backups EXCEPT ![d][s] = @ \cup ({collected} \ {NoHash})]
      /\ UNCHANGED <<syncVars, local, aside, config, budget>>

\* The second look at the local save, and its verified backup: a save that is
\* not the one collected ends the run, and so does one that was collected
\* without a hash and is there all the same.
BackUp(d) ==
  LET s == agent[d].stream
      exists == local[d][s] # NoHash
      collected == agent[d].sets[s] # NoHash /\ local[d][s] = agent[d].sets[s]
      Ready == agent' = [agent EXCEPT ![d].pc = "replace", ![d].existed = exists]
  IN  /\ agent[d].pc = "install"
      /\ \/ /\ ~exists
            /\ Ready
            /\ UNCHANGED backups
         \/ /\ exists /\ collected
            /\ Ready
            /\ backups' = [backups EXCEPT ![d][s] = @ \cup {local[d][s]}]
         \/ /\ exists /\ ~collected
            /\ RunEnds(d)
            /\ UNCHANGED backups
      /\ UNCHANGED <<syncVars, local, aside, config, budget>>

Installed(d, s) ==
  /\ local' = [local EXCEPT ![d][s] = OpOf(d).expected]
  /\ Does(d, "ack")

\* One rename puts a single file in place whatever is there.  A directory that
\* was there is moved aside first; a rename of a directory that is gone, or
\* onto one that is there, fails.
Replace(d) ==
  LET s == agent[d].stream
      directory == s \in DirectoryStreams
      moves == directory /\ agent[d].existed
      exists == local[d][s] # NoHash
  IN  /\ agent[d].pc = "replace"
      /\ \/ /\ directory => ~agent[d].existed /\ ~exists
            /\ Installed(d, s)
            /\ UNCHANGED aside
         \/ /\ moves /\ exists
            /\ local' = [local EXCEPT ![d][s] = NoHash]
            /\ aside' = [aside EXCEPT ![d][s] = @ \cup {local[d][s]}]
            /\ agent' = [agent EXCEPT ![d].pc = "place", ![d].moved = local[d][s]]
         \/ /\ directory /\ exists # agent[d].existed
            /\ RunEnds(d)
            /\ UNCHANGED <<local, aside>>
      /\ UNCHANGED <<syncVars, backups, config, budget>>

\* The directory moved aside is removed once the new one is in place, moved
\* back if it cannot be put there, and kept if neither succeeds.
Place(d) ==
  LET s == agent[d].stream
      Forget == aside' = [aside EXCEPT ![d][s] = @ \ {agent[d].moved}]
  IN  /\ agent[d].pc = "place"
      /\ \/ /\ local[d][s] = NoHash
            /\ Installed(d, s)
            /\ Forget
            /\ UNCHANGED budget
         \/ /\ local[d][s] = NoHash /\ budget.crashes > 0
            /\ local' = [local EXCEPT ![d][s] = agent[d].moved]
            /\ Forget
            /\ RunEnds(d)
            /\ budget' = [budget EXCEPT !.crashes = @ - 1]
         \/ /\ local[d][s] # NoHash
            /\ RunEnds(d)
            /\ UNCHANGED <<local, aside, budget>>
      /\ UNCHANGED <<syncVars, backups, config>>

SendAck(d, h) ==
  LET s == agent[d].stream
  IN  /\ agent[d].pc = "ack"
      /\ Sends(d, h, "acking")
      /\ AckOperation(h, agent[d].session, s, OpOf(d).expected)
      /\ UNCHANGED <<revisions, sessions, local, backups, aside, config, budget>>

Acknowledged(d) ==
  /\ agent[d].pc = "acking"
  /\ Receives(d, TRUE)
  /\ Agreed(d, agent[d].stream, OpOf(d).target, OpOf(d).expected)
  /\ UNCHANGED <<local, backups, aside, config, budget>>

\* A noop or a conflict asks nothing of the server; a noop settles the base.
Settle(d) ==
  /\ \/ \E s \in Left(d, "noop") :
          LET op == PlanOf(d)[s]
          IN  \/ op.target # NoRevision /\ Agreed(d, s, op.target, op.expected)
              \/ op.target = NoRevision
                   /\ agent' = [agent EXCEPT ![d].done = @ \cup {s}]
     \/ \E s \in Left(d, "conflict") : agent' = [agent EXCEPT ![d].done = @ \cup {s}]
  /\ UNCHANGED <<syncVars, local, backups, aside, config, budget>>

\* Mutants of FinishSync: the key is kept, the bases are not stored.
FinishKeepingKey(d) ==
  /\ agent[d].pc = "next"
  /\ agent[d].done = Named(PlanOf(d))
  /\ config' = [config EXCEPT ![d].streams = agent[d].streams]
  /\ RunEnds(d)
  /\ UNCHANGED <<syncVars, local, backups, aside, budget>>

FinishKeepingBases(d) ==
  /\ agent[d].pc = "next"
  /\ agent[d].done = Named(PlanOf(d))
  /\ config' = [config EXCEPT ![d].pending = NoPending]
  /\ RunEnds(d)
  /\ UNCHANGED <<syncVars, local, backups, aside, budget>>

\* The whole plan is done: the bases are stored and the key is forgotten.
FinishSync(d) ==
  /\ agent[d].pc = "next"
  /\ agent[d].done = Named(PlanOf(d))
  /\ config' = [config EXCEPT ![d] = [streams |-> agent[d].streams,
                                      pending |-> NoPending]]
  /\ RunEnds(d)
  /\ UNCHANGED <<syncVars, local, backups, aside, budget>>

-----------------------------------------------------------------------------
(* The environment *)

\* The emulator writes or removes a save, or removes all files of a directory.
Play(d, s) ==
  /\ budget.plays > 0
  /\ \E c \in LocalSaves \ {local[d][s]} :
       /\ c = EmptySave => s \in DirectoryStreams
       /\ local' = [local EXCEPT ![d][s] = c]
  /\ budget' = [budget EXCEPT !.plays = @ - 1]
  /\ UNCHANGED <<syncVars, backups, aside, config, agent>>

\* The agent's process dies, or its connection or context does: the request
\* it waits for is cancelled too.
RunDies(d) ==
  /\ agent[d].pc # "idle"
  /\ budget.crashes > 0
  /\ budget' = [budget EXCEPT !.crashes = @ - 1]
  /\ RunEnds(d)
  /\ IF agent[d].pc \in Waiting
       THEN /\ push' = [push EXCEPT ![agent[d].handler] = NoPush]
            /\ call' = [call EXCEPT ![agent[d].handler] = NoCall]
       ELSE UNCHANGED <<push, call>>
  /\ UNCHANGED <<revisions, sessions, local, backups, aside, config>>

\* The run times out while the server has not noticed and works on.
RunGivesUp(d) ==
  /\ agent[d].pc \in Waiting
  /\ budget.orphans > 0
  /\ budget' = [budget EXCEPT !.orphans = @ - 1]
  /\ RunEnds(d)
  /\ UNCHANGED <<syncVars, local, backups, aside, config>>

Awaited(h) == \E d \in Devices : agent[d].pc \in Waiting /\ agent[d].handler = h

\* A request nobody waits for is answered into the void or cancelled.
OrphanOver(h) ==
  /\ ~Awaited(h)
  /\ RequestOver(h)
  /\ UNCHANGED agentVars

-----------------------------------------------------------------------------
(* Specification *)

SaveSyncTypeOK ==
  /\ SyncTypeOK
  /\ local \in [Devices -> [Streams -> LocalSaves]]
  /\ backups \in [Devices -> [Streams -> SUBSET Hashes]]
  /\ aside \in [Devices -> [Streams -> SUBSET (Hashes \cup {EmptySave})]]
  /\ config \in [Devices -> Config]
  /\ agent \in [Devices -> Run \cup {NoRun}]
  /\ budget \in [plays : 0..MaxPlays, crashes : 0..MaxCrashes, orphans : 0..MaxOrphans]

\* Freshly paired devices, which may have saves already.
SaveSyncInit ==
  /\ SyncInit
  /\ local \in [Devices -> [Streams -> LocalSaves]]
  /\ \A d \in Devices, s \in Streams \ DirectoryStreams : local[d][s] # EmptySave
  /\ backups = [d \in Devices |-> [s \in Streams |-> {}]]
  /\ aside = [d \in Devices |-> [s \in Streams |-> {}]]
  /\ config = [d \in Devices |-> [streams |-> [s \in Streams |-> NoStreamState],
                                  pending |-> NoPending]]
  /\ agent = [d \in Devices |-> NoRun]
  /\ budget = [plays |-> MaxPlays, crashes |-> MaxCrashes, orphans |-> MaxOrphans]

AgentStep(d) ==
  \/ StartSync(d) \/ SessionCreated(d) \/ RequestFailed(d)
  \/ UploadGone(d) \/ Uploaded(d) \/ Download(d) \/ BackUp(d) \/ Replace(d)
  \/ Place(d) \/ Acknowledged(d) \/ Settle(d) \/ FinishSync(d)
  \/ \E h \in Handlers : SendCreate(d, h) \/ SendUpload(d, h) \/ SendAck(d, h)

ServerStep(h) == CallStep(h) /\ UNCHANGED agentVars

Faults == \/ \E d \in Devices : RunDies(d) \/ RunGivesUp(d)
          \/ \E h \in Handlers : OrphanOver(h)

\* Emulators that leave the agent alone in some of its phases.
PlayOutside(phases) ==
  \E d \in Devices, s \in Streams : agent[d].pc \notin phases /\ Play(d, s)

SystemNext == \/ \E d \in Devices : AgentStep(d)
              \/ \E h \in Handlers : ServerStep(h)
              \/ Faults

\* No emulator saves while its device has a run; none saves between the
\* agent's last look at a save and its replacement; any saves at any time.
IdleNext == SystemNext \/ PlayOutside(AgentPC)
QuietNext == SystemNext \/ PlayOutside({"replace", "place"})
AnyNext == SystemNext \/ PlayOutside({})

\* The agent's loop is driven by a ticker and its steps by the process; the
\* server works on every request and drops those nobody waits for.
Fairness ==
  /\ \A d \in Devices : WF_vars(AgentStep(d))
  /\ \A h \in Handlers : WF_vars(ServerStep(h)) /\ WF_vars(OrphanOver(h))

QuietSpec == SaveSyncInit /\ [][QuietNext]_vars
AnySpec == SaveSyncInit /\ [][AnyNext]_vars
FairIdleSpec == SaveSyncInit /\ [][IdleNext]_vars /\ Fairness
FairQuietSpec == QuietSpec /\ Fairness

-----------------------------------------------------------------------------
(* Properties *)

\* Where a content is kept on its device, a backup apart.
Kept(d, s, c) == c \in {local[d][s]} \cup aside[d][s]

\* A content is recoverable from a backup or from the server.
Recoverable(d, s, c) ==
  c \in backups[d][s] \/ FindStreamRevisionByContentHash(s, c) # {}

\* "A client ... backs up the previous local set, and atomically replaces it.
\* ... must leave the previous local state recoverable" (docs/
\* DEVICE_SYNC_PROTOCOL.md): whatever save a step of an agent takes from where
\* the emulator reads it, or from where the agent has moved it, can be
\* recovered afterwards.
ReplacedIsRecoverable ==
  [][\A d \in Devices, s \in Streams, c \in Hashes :
       /\ Kept(d, s, c) /\ ~Kept(d, s, c)'
       /\ budget'.plays = budget.plays
       => Recoverable(d, s, c)']_vars

\* The base a device remembers, in its file or in a run, is a stored revision
\* of the stream and the hash kept with it is that revision's: what the next
\* negotiation concludes from it is right.
BaseIsStored ==
  LET Stored(state, s) ==
        \/ state = NoStreamState
        \/ /\ state.revision \in StreamRevisions(s)
           /\ revisions[state.revision].hash = state.hash
  IN  \A d \in Devices, s \in Streams :
        /\ Stored(config[d].streams[s], s)
        /\ agent[d].pc # "idle" => Stored(agent[d].streams[s], s)

\* A run only carries out a plan made for exactly the saves it collected: a
\* key is never used again for another request, across crashes and replays.
PlanFitsRun ==
  \A d \in Devices :
    agent[d].pc \in AgentPC \ {"create", "creating"} =>
      LET i == agent[d].session
      IN  /\ i \in SessionsOf(d, agent[d].key)
          /\ \A s \in Streams : sessions[i].saves[s].hash = agent[d].sets[s]

\* The save directory is there without a file and the server has a revision:
\* the server plans its download, and every run refuses to install it into a
\* target it has no hash of.
Blocked(d, s) == local[d][s] = EmptySave /\ CurrentStreamRevision(s) # NoRevision

\* A device that has asked for a session gets through with one, unless an
\* empty save directory stops its runs.
PendingClears ==
  \A d \in Devices :
    config[d].pending # NoPending
      ~> config[d].pending = NoPending \/ \E s \in Streams : Blocked(d, s)

Settled(d, s) ==
  LET current == CurrentStreamRevision(s)
  IN  /\ config[d].streams[s].revision = current
      /\ HashOf(local[d][s]) = IF current = NoRevision THEN NoHash ELSE revisions[current].hash

\* Both sides moved on from the base: a person has to choose.
Diverged(d, s) ==
  LET base == config[d].streams[s]
  IN  /\ HashOf(local[d][s]) \notin {NoHash, base.hash}
      /\ CurrentStreamRevision(s) # base.revision

\* A device on its own ends up in agreement with the server: every save it
\* has is the current revision of its stream and the base it remembers.  Runs
\* that die halfway leave nothing behind that later runs do not finish, unless
\* the save went on meanwhile from a base the server has left.  One empty save
\* directory the server has a revision for holds up the whole device.
Settles ==
  <>[] \A d \in Devices :
         \/ \E s \in Streams : Blocked(d, s)
         \/ \A s \in Streams :
              Settled(d, s) \/ (budget.crashes < MaxCrashes /\ Diverged(d, s))
=============================================================================
