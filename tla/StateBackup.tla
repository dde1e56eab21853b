----------------------------- MODULE StateBackup -----------------------------
(* Complete backups of the database and of the files the service owns, and     *)
(* their restoration (statebackup/statebackup.go, catalog/store.go: Backup).   *)
(* The commands run in processes of their own, beside a service that goes on   *)
(* importing and cleaning up and beside one another; every file is a step.     *)
EXTENDS Naturals, Functions

CONSTANTS StatePaths,  \* portable paths of the state root
          FileBytes,   \* contents of files
          NoFile,      \* no file, no reference
          Roots,       \* directories that commands are asked to create
          Commands,    \* commands at a time
          MaxCommands, \* bound on commands
          MaxMoves     \* bound on the changes made to files by anyone else

\* The directory of a command: a database, the files, and a manifest of both.
Trees == [StatePaths -> FileBytes \cup {NoFile}]
RootRecord == [db : Trees \cup {NoFile}, state : Trees,
               manifest : [db : Trees \cup {NoFile}, state : Trees] \cup {NoFile}]

ASSUME StateBackupAssumption ==
  /\ NoFile \notin FileBytes \cup RootRecord
  /\ MaxCommands \in Nat /\ MaxMoves \in Nat

VARIABLES live,      \* the state root of the service
          refs,      \* its database: the content it has recorded for each path
          roots,     \* the directories of the commands
          vouched,   \* those a command has reported as created, untouched since
          commands,  \* the commands under way
          begun,     \* commands so far
          changes    \* changes so far
backupVars == <<live, refs, roots, vouched, commands, begun, changes>>

NoTree == [p \in StatePaths |-> NoFile]
Idle == [phase |-> "idle"]
EmptyRoot == [db |-> NoFile, state |-> NoTree, manifest |-> NoFile]
Root(c) == roots[commands[c].out]
Becomes(c, command) == commands' = [commands EXCEPT ![c] = command]
Build(c, root) == roots' = [roots EXCEPT ![commands[c].out] = root]
Service == <<live, refs, changes>>
Untouched == UNCHANGED <<Service, begun, vouched>>

-----------------------------------------------------------------------------
(* Check: the files are those of the manifest, and the database refers to      *)
(* nothing that is not among them as recorded.  It writes nothing, and is one  *)
(* step here.                                                                  *)

ValidReferences(root) == \A p \in StatePaths : root.db[p] \in {NoFile, root.state[p]}
Listed(root) ==
  /\ root # NoFile
  /\ root.manifest = [db |-> root.db, state |-> root.state]
ListedOnly(root) == Listed(root)   \* mutant of Check
Check(root) == Listed(root) /\ ValidReferences(root)

-----------------------------------------------------------------------------
(* Both commands.                                                              *)

\* The output is looked for first and made later, by a call that fails if it
\* is there by then.
BeginCommand(c, o, job) ==
  /\ commands[c] = Idle
  /\ begun < MaxCommands /\ begun' = begun + 1
  /\ roots[o] = NoFile
  /\ Becomes(c, job)
  /\ UNCHANGED <<Service, roots, vouched>>

\* The next step of a command, whose directory is there.
At(c, phase) == commands[c].phase = phase /\ Root(c) # NoFile

\* An error removes what the command has made.
Fails(c) == Becomes(c, Idle) /\ Build(c, NoFile) /\ Untouched

MakeOutput(c) ==
  /\ commands[c].phase = "begun"
  /\ \/ Root(c) # NoFile /\ Becomes(c, Idle) /\ UNCHANGED roots
     \/ /\ Root(c) = NoFile
        /\ Build(c, EmptyRoot)
        /\ Becomes(c, [commands[c] EXCEPT !.phase = "made"])
  /\ Untouched

Stops(c) == commands[c].phase \notin {"idle", "begun"} /\ Fails(c)

\* The process dies, and leaves what it has made.
Dies(c) ==
  /\ commands[c] # Idle
  /\ Becomes(c, Idle)
  /\ UNCHANGED roots /\ Untouched

Succeeds(c) ==
  /\ Becomes(c, Idle)
  /\ vouched' = vouched \cup {commands[c].out}
  /\ UNCHANGED <<Service, roots, begun>>

-----------------------------------------------------------------------------
(* Create.                                                                     *)

BeginCreate(c, o) ==
  BeginCommand(c, o, [phase |-> "begun", op |-> "create", out |-> o, from |-> o,
               rest |-> StatePaths, copied |-> NoTree, start |-> NoTree, moved |-> {}, wavered |-> FALSE])

\* Store.Backup, in one transaction.
SnapshotDatabase(c) ==
  /\ At(c, "made") /\ commands[c].op = "create"
  /\ Build(c, [Root(c) EXCEPT !.db = refs])
  /\ Becomes(c, [commands[c] EXCEPT !.phase = "copy", !.start = live])
  /\ Untouched

\* A walk lists a directory when it enters it, so a file that came after the
\* walk began may go unseen.
Unseen(c, p) == commands[c].start[p] = NoFile

\* copyState; a file that is listed and gone is an error, see Stops.
CopyFile(c, p) ==
  LET left == commands[c].rest \ {p}
      done(content) == [commands[c] EXCEPT !.rest = left, !.copied[p] = content]
  IN  /\ At(c, "copy") /\ p \in commands[c].rest
      /\ \E content \in {live[p]} \cup (IF Unseen(c, p) THEN {NoFile} ELSE {}) :
           /\ Build(c, [Root(c) EXCEPT !.state[p] = content])
           /\ Becomes(c, IF left # {} THEN done(content)
                      ELSE [done(content) EXCEPT !.phase = "verify", !.rest = StatePaths,
                                                 !.start = live])
      /\ Untouched

VerifyNothing(c, p) ==   \* mutant of VerifyFile
  /\ At(c, "verify")
  /\ Becomes(c, [commands[c] EXCEPT !.phase = "manifest"])
  /\ UNCHANGED roots /\ Untouched

\* verifySourceStable.
VerifyFile(c, p) ==
  LET copied == commands[c].copied[p]
      left == commands[c].rest \ {p}
  IN  /\ At(c, "verify") /\ p \in commands[c].rest
      /\ \/ live[p] # copied /\ Fails(c)
         \/ /\ live[p] = copied \/ (copied = NoFile /\ Unseen(c, p))
            /\ Becomes(c, [commands[c] EXCEPT !.rest = left,
                                           !.phase = IF left = {} THEN "manifest" ELSE @])
            /\ UNCHANGED roots /\ Untouched

WriteBackupManifest(c) ==
  /\ At(c, "manifest")
  /\ Build(c, [Root(c) EXCEPT !.manifest = [db |-> Root(c).db, state |-> commands[c].copied]])
  /\ Becomes(c, [commands[c] EXCEPT !.phase = "check"])
  /\ Untouched

FinishCreate(c) ==
  /\ At(c, "check")
  /\ IF Check(Root(c)) THEN Succeeds(c) ELSE Fails(c)

-----------------------------------------------------------------------------
(* Restore.                                                                    *)

BeginRestore(c, from, o) ==
  /\ from # o
  /\ Check(roots[from])
  /\ BeginCommand(c, o, [phase |-> "begun", op |-> "restore", out |-> o, from |-> from,
                  rest |-> {}, copied |-> NoTree, start |-> NoTree, moved |-> {}, wavered |-> FALSE])

\* The manifest is read again and not compared with the files any more.
ReadManifest(c) ==
  LET source == roots[commands[c].from]
  IN  /\ At(c, "made") /\ commands[c].op = "restore"
      /\ IF source = NoFile THEN Fails(c)
         ELSE IF source.manifest = NoFile THEN Fails(c)
         ELSE /\ Becomes(c, [commands[c] EXCEPT
                            !.phase = "restore",
                            !.rest = {p \in StatePaths : source.manifest.state[p] # NoFile}])
              /\ Build(c, [Root(c) EXCEPT !.db = source.db])
              /\ Untouched

RestoreFile(c, p) ==
  LET source == roots[commands[c].from]
  IN  /\ At(c, "restore") /\ p \in commands[c].rest
      /\ IF source = NoFile THEN Fails(c)
         ELSE IF source.state[p] = NoFile THEN Fails(c)
         ELSE /\ Build(c, [Root(c) EXCEPT !.state[p] = source.state[p]])
              /\ Becomes(c, [commands[c] EXCEPT !.rest = @ \ {p}])
              /\ Untouched

FinishRestore(c) ==
  /\ At(c, "restore") /\ commands[c].rest = {}
  /\ IF ValidReferences(Root(c)) THEN Succeeds(c) ELSE Fails(c)

-----------------------------------------------------------------------------
(* The service, and whatever else changes files.                               *)

Changes(ps) ==
  /\ changes < MaxMoves /\ changes' = changes + 1
  /\ commands' = [c \in Commands |->
       IF commands[c] = Idle THEN Idle
       ELSE [commands[c] EXCEPT !.wavered = @ \/ commands[c].moved \cap ps # {},
                                !.moved = @ \cup ps]]
  /\ UNCHANGED <<begun>>

\* An import or an upload writes a file and refers to it afterwards.
StoreFile(p, content) ==
  /\ live[p] = NoFile
  /\ live' = [live EXCEPT ![p] = content]
  /\ Changes({p})
  /\ UNCHANGED <<refs, roots, vouched>>

Refer(p) ==
  /\ live[p] # NoFile /\ refs[p] # live[p]
  /\ refs' = [refs EXCEPT ![p] = live[p]]
  /\ Changes({})
  /\ UNCHANGED <<live, roots, vouched>>

Forget(p) ==
  /\ refs[p] # NoFile
  /\ refs' = [refs EXCEPT ![p] = NoFile]
  /\ Changes({})
  /\ UNCHANGED <<live, roots, vouched>>

\* A cleanup moves a file nothing refers to into the recovery area, which is in
\* the state root too, and a restore moves it back.
MoveFile(p, q) ==
  /\ live[p] # NoFile /\ live[q] = NoFile /\ refs[p] = NoFile
  /\ live' = [live EXCEPT ![p] = NoFile, ![q] = live[p]]
  /\ Changes({p, q})
  /\ UNCHANGED <<refs, roots, vouched>>

\* A file of a directory a command was asked for is lost, or altered.
DamageRoot(o, p, content) ==
  /\ roots[o] # NoFile
  /\ roots[o].state[p] \notin {NoFile, content}
  /\ roots' = [roots EXCEPT ![o].state[p] = content]
  /\ vouched' = vouched \ {o}
  /\ Changes({})
  /\ UNCHANGED <<live, refs>>

-----------------------------------------------------------------------------
BackupInit ==
  /\ live \in Trees
  /\ refs \in {[p \in StatePaths |-> IF p \in referred THEN live[p] ELSE NoFile] :
                 referred \in SUBSET StatePaths}
  /\ roots = [o \in Roots |-> NoFile]
  /\ vouched = {}
  /\ commands = [c \in Commands |-> Idle]
  /\ begun = 0 /\ changes = 0

CommandStep(c) ==
  \/ \E o \in Roots : BeginCreate(c, o) \/ \E from \in Roots : BeginRestore(c, from, o)
  \/ MakeOutput(c) \/ Stops(c) \/ Dies(c)
  \/ SnapshotDatabase(c)
  \/ \E p \in StatePaths : CopyFile(c, p) \/ VerifyFile(c, p) \/ RestoreFile(c, p)
  \/ WriteBackupManifest(c) \/ FinishCreate(c)
  \/ ReadManifest(c) \/ FinishRestore(c)

Change ==
  \/ \E p \in StatePaths, content \in FileBytes : StoreFile(p, content)
  \/ \E p \in StatePaths : Refer(p) \/ Forget(p)
  \/ \E p, q \in StatePaths : MoveFile(p, q)
  \/ \E o \in Roots, p \in StatePaths, content \in FileBytes \cup {NoFile} :
       DamageRoot(o, p, content)

BackupNext == Change \/ \E c \in Commands : CommandStep(c)
BackupSpec == BackupInit /\ [][BackupNext]_backupVars

-----------------------------------------------------------------------------
(* A directory a command has reported is there, and holds everything its       *)
(* database refers to with the content recorded, though the database, the files *)
(* and the source of a restore are read at different moments                   *)
(* (statebackup.go: verifySourceStable, Check, validateReferences).            *)
VouchedRootsAreWhole ==
  \A o \in vouched : roots[o] # NoFile /\ ValidReferences(roots[o])

(* A backup is what the state root held at one moment, unless a path changed   *)
(* twice meanwhile: what was copied before is still so after the last copy.    *)
BackupIsOneMoment ==
  [][\A c \in Commands :
       (/\ commands[c].phase = "check" /\ commands'[c] = Idle
        /\ commands[c].out \in vouched' /\ ~commands[c].wavered)
         => Root(c).state = commands[c].start]_backupVars
=============================================================================
