---------------------------- MODULE ManagedStorage ----------------------------
(* The files the service owns: imports and uploads copy them in and reference    *)
(* them afterwards, a cleanup moves what nothing references to a recovery area, *)
(* and a restore moves it back (storage/repository.go, storage/cleanup.go,      *)
(* server/storage_cleanup.go, server/import_api.go, catalog/import_store.go).   *)
(* The store has one connection: a cleanup that holds its transaction stops     *)
(* every other statement, but no file operation.                                *)
EXTENDS Naturals, FiniteSets, Sequences, SequencesExt

CONSTANTS Entries,      \* the editions a metadata file describes
          RomsOf,       \* their ROM files, in a managed folder of each edition
          BlobsOf,      \* their media, content-addressed and shared
          Runs,         \* cleanup runs
          Requests,     \* requests under way
          MaxStamps,    \* bound on file writes
          MaxSealed,    \* bound on preview tokens
          MaxRestarts   \* bound on crashes

Roms == UNION {RomsOf[e] : e \in Entries}
Blobs == UNION {BlobsOf[e] : e \in Entries}
Paths == Roms \cup Blobs

(* The ROMs of an edition lie in a folder named after it, below roms; media      *)
(* lie below media.                                                            *)
ASSUME ManagedStorageAssumption ==
  /\ DOMAIN RomsOf = Entries /\ DOMAIN BlobsOf = Entries
  /\ \A e, f \in Entries : e # f => RomsOf[e] \cap RomsOf[f] = {}
  /\ Roms \cap Blobs = {}
  /\ IsFiniteSet(Entries) /\ IsFiniteSet(Paths)
  /\ {MaxStamps, MaxSealed, MaxRestarts} \subseteq Nat

VARIABLES disk,      \* managed files: the stamp (size, time, mode) of each, 0 when absent
          folders,   \* managed ROM folders that exist
          imported,  \* edition rows
          rows,      \* managed paths each edition's artifact and media rows name
          recovery,  \* the recovery area: the manifest and the files of each run
          sealed,    \* what the previews handed out have shown
          jobs,      \* requests under way
          locked,    \* the requests whose transaction holds the connection
          stamps,    \* writes so far
          restarts   \* crashes so far
storageVars ==
  <<disk, folders, imported, rows, recovery, sealed, jobs, locked, stamps, restarts>>

NoToken == [cleanup |-> {}, import |-> {}]
Waiting == [op |-> "waiting"]
NoRun == [status |-> "none", items |-> <<>>, stored |-> [p \in Paths |-> 0]]
DroppedRun == [NoRun EXCEPT !.status = "dropped"]

ManagedStorageReferences == UNION {rows[e] : e \in Entries}
Inode(p) == <<p, disk[p]>>
Files(S) == {p \in S : disk[p] # 0}

-----------------------------------------------------------------------------
(* Cleanup.  The identity of a candidate is its path, size, time and mode: here *)
(* its stamp.                                                                  *)

PreviewManagedCleanup(references) == {Inode(p) : p \in Files(Paths) \ references}

(* A preview reads the references and walks the folders one after the other;    *)
(* a commit does both again under the lock, so one moment stands for both here. *)
PreviewStorageCleanup ==
  /\ locked = {}
  /\ Cardinality(sealed.cleanup) < MaxSealed
  /\ sealed' = [sealed EXCEPT !.cleanup = @ \cup {PreviewManagedCleanup(ManagedStorageReferences)}]
  /\ UNCHANGED <<disk, folders, imported, rows, recovery, jobs, locked, stamps, restarts>>

Sweep(r, run, selected) ==
  /\ jobs' = [jobs EXCEPT ![r] = [op |-> "sweep", run |-> run, phase |-> "manifest",
                                  rest |-> SetToSeq(selected), done |-> <<>>, clean |-> TRUE]]
  /\ recovery' = [recovery EXCEPT ![run].status = "bare"]
  /\ UNCHANGED <<disk, folders, imported, rows, sealed, stamps, restarts>>

CommitOnTrust(r, run, plan, selected) ==
  /\ jobs[r] = Waiting /\ locked = {} /\ recovery[run].status = "none"
  /\ plan \in sealed.cleanup /\ selected \subseteq plan /\ selected # {}
  /\ locked' = {r}
  /\ Sweep(r, run, selected)
CommitStorageCleanup(r, run, plan, selected) ==
  /\ jobs[r] = Waiting /\ locked = {} /\ recovery[run].status = "none"
  /\ plan \in sealed.cleanup /\ selected \subseteq plan /\ selected # {}
  /\ plan = PreviewManagedCleanup(ManagedStorageReferences)
  /\ locked' = {r}
  /\ Sweep(r, run, selected)

WriteManifest(r) ==
  /\ jobs[r].op = "sweep" /\ jobs[r].phase = "manifest"
  /\ recovery' = [recovery EXCEPT ![jobs[r].run].status = "prepared",
                                  ![jobs[r].run].items = jobs[r].rest]
  /\ jobs' = [jobs EXCEPT ![r].phase = "move"]
  /\ UNCHANGED <<disk, folders, imported, rows, sealed, locked, stamps, restarts>>

Moving(r, op) == jobs[r].op = op /\ jobs[r].phase = "move"
RollBack(r) ==
  /\ jobs' = [jobs EXCEPT ![r].phase = "rollback"]
  /\ UNCHANGED <<disk, folders, imported, rows, recovery, sealed, locked, stamps, restarts>>
Moved(r) == [jobs EXCEPT ![r].rest = Tail(@), ![r].done = Append(@, Head(jobs[r].rest))]

(* candidateStillMatches and the rename: a file that is no longer the one       *)
(* reviewed, or cannot be renamed, takes the run back.                          *)
QuarantineManagedCleanup(r) ==
  LET item == Head(jobs[r].rest) IN
  /\ Moving(r, "sweep") /\ jobs[r].rest # <<>>
  /\ \/ /\ Inode(item[1]) = item
        /\ disk' = [disk EXCEPT ![item[1]] = 0]
        /\ recovery' = [recovery EXCEPT ![jobs[r].run].stored[item[1]] = item[2]]
        /\ jobs' = Moved(r)
        /\ UNCHANGED <<folders, imported, rows, sealed, locked, stamps, restarts>>
     \/ RollBack(r)

Finished(r, status, next) ==
  /\ Moving(r, jobs[r].op) /\ jobs[r].rest = <<>>
  /\ recovery' = [recovery EXCEPT ![jobs[r].run].status = status]
  /\ jobs' = [jobs EXCEPT ![r] = next]
  /\ UNCHANGED <<disk, folders, imported, rows, sealed, locked, stamps, restarts>>

FinishQuarantine(r) ==
  /\ jobs[r].op = "sweep"
  /\ \/ Finished(r, "quarantined", [jobs[r] EXCEPT !.phase = "commit"])
     \/ Moving(r, "sweep") /\ jobs[r].rest = <<>> /\ RollBack(r)

(* Nothing was written: the commit only lets the connection go.  Should it      *)
(* fail, the run is restored at once.                                          *)
ReleaseReferences(r) ==
  /\ jobs[r].op = "sweep" /\ jobs[r].phase = "commit"
  /\ locked' = {}
  /\ \E next \in {Waiting, [op |-> "restore", run |-> jobs[r].run, phase |-> "check"]} :
       jobs' = [jobs EXCEPT ![r] = next]
  /\ UNCHANGED <<disk, folders, imported, rows, recovery, sealed, stamps, restarts>>

(* The moves in reverse, from where each file was put to where it was: a file   *)
(* that is gone is skipped, one that is in the way is replaced.                 *)
RollbackMove(r) ==
  LET job == jobs[r]
      item == Last(job.done)
      stored == recovery[job.run].stored IN
  /\ job.op \in {"sweep", "restore"} /\ job.phase = "rollback" /\ job.done # <<>>
  /\ LET from == IF job.op = "sweep" THEN stored[item[1]] ELSE disk[item[1]] IN
     /\ jobs' = [jobs EXCEPT ![r].done = Front(@), ![r].clean = @ /\ from # 0]
     /\ IF from = 0 THEN UNCHANGED <<disk, recovery>>
        ELSE IF job.op = "sweep"
        THEN /\ disk' = [disk EXCEPT ![item[1]] = from]
             /\ recovery' = [recovery EXCEPT ![job.run].stored[item[1]] = 0]
        ELSE /\ disk' = [disk EXCEPT ![item[1]] = 0]
             /\ recovery' = [recovery EXCEPT ![job.run].stored[item[1]] = from]
  /\ UNCHANGED <<folders, imported, rows, sealed, locked, stamps, restarts>>

EndRollback(r) ==
  /\ jobs[r].op \in {"sweep", "restore"} /\ jobs[r].phase = "rollback"
  /\ jobs[r].done = <<>>
  /\ recovery' = IF jobs[r].op = "sweep" /\ jobs[r].clean
                 THEN [recovery EXCEPT ![jobs[r].run] = DroppedRun] ELSE recovery
  /\ jobs' = [jobs EXCEPT ![r] = Waiting]
  /\ locked' = locked \ {r}
  /\ UNCHANGED <<disk, folders, imported, rows, sealed, stamps, restarts>>

-----------------------------------------------------------------------------
(* Restore.  It takes no lock and every item must still be in the recovery      *)
(* area, and its place free.                                                   *)

Restorable(run) ==
  /\ recovery[run].status \in {"prepared", "quarantined"}
  /\ \A i \in DOMAIN recovery[run].items :
       LET p == recovery[run].items[i][1] IN recovery[run].stored[p] # 0 /\ disk[p] = 0

Check(r, run) ==
  /\ jobs' = [jobs EXCEPT ![r] = IF Restorable(run)
       THEN [op |-> "restore", run |-> run, phase |-> "move", rest |-> recovery[run].items,
             done |-> <<>>, clean |-> TRUE] ELSE Waiting]
  /\ UNCHANGED <<disk, folders, imported, rows, recovery, sealed, locked, stamps, restarts>>

RestoreCleanupRun(r, run) == jobs[r] = Waiting /\ Restorable(run) /\ Check(r, run)
RestoreOwnRun(r) ==
  jobs[r].op = "restore" /\ jobs[r].phase = "check" /\ Check(r, jobs[r].run)

RestoreMove(r) ==
  LET run == jobs[r].run
      p == Head(jobs[r].rest)[1] IN
  /\ Moving(r, "restore") /\ jobs[r].rest # <<>>
  /\ \/ /\ recovery[run].stored[p] # 0
        /\ disk' = [disk EXCEPT ![p] = recovery[run].stored[p]]
        /\ recovery' = [recovery EXCEPT ![run].stored[p] = 0]
        /\ jobs' = Moved(r)
        /\ folders' = folders \cup {e \in Entries : p \in RomsOf[e]}
        /\ UNCHANGED <<imported, rows, sealed, locked, stamps, restarts>>
     \/ RollBack(r)

FinishRestore(r) ==
  /\ jobs[r].op = "restore"
  /\ \/ Finished(r, "restored", Waiting)
     \/ Moving(r, "restore") /\ jobs[r].rest = <<>> /\ RollBack(r)

-----------------------------------------------------------------------------
(* Imports.  A candidate whose files are known is a duplicate, one whose        *)
(* identifier is known without them a conflict.                                *)

ImportCandidate(e) ==
  IF rows[e] \cap RomsOf[e] # {} THEN "duplicate"
  ELSE IF e \in imported THEN "conflict" ELSE "new"
ImportCandidates == [e \in Entries |-> ImportCandidate(e)]

PreviewImport ==
  /\ locked = {}
  /\ Cardinality(sealed.import) < MaxSealed
  /\ sealed' = [sealed EXCEPT !.import = @ \cup {ImportCandidates}]
  /\ UNCHANGED <<disk, folders, imported, rows, recovery, jobs, locked, stamps, restarts>>

CommitImport(r, batch) ==
  /\ jobs[r] = Waiting /\ locked = {}
  /\ ImportCandidates \in sealed.import
  /\ batch # {} /\ \A e \in batch : ImportCandidates[e] = "new"
  /\ jobs' = [jobs EXCEPT ![r] = [op |-> "import", phase |-> "folder", rest |-> SetToSeq(batch),
                                  made |-> {}, files |-> {}]]
  /\ UNCHANGED <<disk, folders, imported, rows, recovery, sealed, locked, stamps, restarts>>

RemoveFolders(r, made) ==
  /\ disk' = [p \in Paths |-> IF p \in UNION {RomsOf[e] : e \in made} THEN 0 ELSE disk[p]]
  /\ folders' = folders \ made
  /\ jobs' = [jobs EXCEPT ![r] = Waiting]
  /\ UNCHANGED <<imported, rows, recovery, sealed, locked, stamps, restarts>>

(* The folder of an edition must be new: the import that finds one removes those *)
(* it has made, never the one it found.                                        *)
IngestOver(r) ==
  LET e == Head(jobs[r].rest) IN
  /\ jobs[r].op = "import" /\ jobs[r].phase = "folder" /\ jobs[r].rest # <<>>
  /\ IF e \in folders THEN RemoveFolders(r, jobs[r].made \cup {e})
     ELSE /\ folders' = folders \cup {e}
          /\ jobs' = [jobs EXCEPT ![r].phase = "copy", ![r].made = @ \cup {e},
                                  ![r].files = RomsOf[e] \cup BlobsOf[e]]
          /\ UNCHANGED <<disk, imported, rows, recovery, sealed, locked, stamps, restarts>>
IngestGame(r) ==
  LET e == Head(jobs[r].rest) IN
  /\ jobs[r].op = "import" /\ jobs[r].phase = "folder" /\ jobs[r].rest # <<>>
  /\ IF e \in folders THEN RemoveFolders(r, jobs[r].made)
     ELSE /\ folders' = folders \cup {e}
          /\ jobs' = [jobs EXCEPT ![r].phase = "copy", ![r].made = @ \cup {e},
                                  ![r].files = RomsOf[e] \cup BlobsOf[e]]
          /\ UNCHANGED <<disk, imported, rows, recovery, sealed, locked, stamps, restarts>>

(* A ROM is written into place by a rename, a blob only when it is not there.   *)
Written(p) ==
  /\ stamps < MaxStamps
  /\ disk' = [disk EXCEPT ![p] = IF p \in Blobs /\ @ # 0 THEN @ ELSE stamps + 1]
  /\ stamps' = stamps + 1

CopyFile(r, p) ==
  LET e == Head(jobs[r].rest) IN
  /\ jobs[r].op = "import" /\ jobs[r].phase = "copy" /\ p \in jobs[r].files
  /\ p \in Blobs => jobs[r].files \cap Roms = {}
  /\ Written(p)
  /\ folders' = IF p \in Roms THEN folders \cup {e} ELSE folders
  /\ jobs' = [jobs EXCEPT ![r].files = @ \ {p}]
  /\ UNCHANGED <<imported, rows, recovery, sealed, locked, restarts>>

(* A file that cannot be copied gives the whole batch up.                      *)
CopyFails(r) ==
  /\ jobs[r].op = "import" /\ jobs[r].phase = "copy" /\ jobs[r].files # {}
  /\ RemoveFolders(r, jobs[r].made)

NextEntry(r) ==
  /\ jobs[r].op = "import" /\ jobs[r].phase = "copy" /\ jobs[r].files = {}
  /\ jobs' = [jobs EXCEPT ![r].rest = Tail(@),
                          ![r].phase = IF Len(jobs[r].rest) = 1 THEN "rows" ELSE "folder"]
  /\ UNCHANGED <<disk, folders, imported, rows, recovery, sealed, locked, stamps, restarts>>

(* One transaction: a duplicate of the batch leaves nothing behind.            *)
ImportGamesAtomic(r) ==
  LET batch == jobs[r].made IN
  /\ jobs[r].op = "import" /\ jobs[r].phase = "rows" /\ locked = {}
  /\ IF \A e \in batch : e \notin imported /\ ImportCandidate(e) = "new"
     THEN /\ imported' = imported \cup batch
          /\ rows' = [e \in Entries |-> IF e \in batch THEN RomsOf[e] \cup BlobsOf[e] ELSE rows[e]]
          /\ jobs' = [jobs EXCEPT ![r] = Waiting]
          /\ UNCHANGED <<disk, folders, recovery, sealed, locked, stamps, restarts>>
     ELSE RemoveFolders(r, batch)

-----------------------------------------------------------------------------
(* Uploads, deletions and crashes.  No row takes its file with it.              *)

UploadMedia(r, e, p) ==
  /\ jobs[r] = Waiting /\ locked = {} /\ e \in imported
  /\ Written(p)
  /\ jobs' = [jobs EXCEPT ![r] = [op |-> "upload", entry |-> e, path |-> p]]
  /\ UNCHANGED <<folders, imported, rows, recovery, sealed, locked, restarts>>

(* The edition may be gone by now: its key refuses the row.                    *)
AddMedia(r) ==
  /\ jobs[r].op = "upload" /\ locked = {}
  /\ rows' = IF jobs[r].entry \in imported
             THEN [rows EXCEPT ![jobs[r].entry] = @ \cup {jobs[r].path}] ELSE rows
  /\ jobs' = [jobs EXCEPT ![r] = Waiting]
  /\ UNCHANGED <<disk, folders, imported, recovery, sealed, locked, stamps, restarts>>

DeleteRows(e, gone, edition) ==
  /\ locked = {} /\ e \in imported
  /\ rows' = [rows EXCEPT ![e] = @ \ gone]
  /\ imported' = imported \ edition
  /\ UNCHANGED <<disk, folders, recovery, sealed, jobs, locked, stamps, restarts>>
DeleteEdition(e) == DeleteRows(e, Paths, {e})
DeleteOneRow(e, p) == p \in rows[e] /\ DeleteRows(e, {p}, {})

(* The transaction is rolled back; the key that signs the tokens is new.       *)
CrashStorage ==
  /\ restarts < MaxRestarts
  /\ restarts' = restarts + 1
  /\ jobs' = [r \in Requests |-> Waiting]
  /\ locked' = {}
  /\ sealed' = NoToken
  /\ UNCHANGED <<disk, folders, imported, rows, recovery, stamps>>

-----------------------------------------------------------------------------
StorageInit ==
  /\ disk = [p \in Paths |-> 0]
  /\ folders = {} /\ imported = {}
  /\ rows = [e \in Entries |-> {}]
  /\ recovery = [run \in Runs |-> NoRun]
  /\ sealed = NoToken
  /\ jobs = [r \in Requests |-> Waiting]
  /\ locked = {}
  /\ stamps = 0 /\ restarts = 0

CleanupStep(r) ==
  \/ \E run \in Runs, plan \in sealed.cleanup :
       \E selected \in SUBSET plan : CommitStorageCleanup(r, run, plan, selected)
  \/ WriteManifest(r) \/ QuarantineManagedCleanup(r) \/ FinishQuarantine(r)
  \/ ReleaseReferences(r) \/ RollbackMove(r) \/ EndRollback(r)
  \/ \E run \in Runs : RestoreCleanupRun(r, run)
  \/ RestoreOwnRun(r) \/ RestoreMove(r) \/ FinishRestore(r)

ImportStep(r) ==
  \/ \E batch \in SUBSET Entries : CommitImport(r, batch)
  \/ IngestGame(r) \/ \E p \in Paths : CopyFile(r, p)
  \/ CopyFails(r) \/ NextEntry(r) \/ ImportGamesAtomic(r)
  \/ \E e \in Entries, p \in Blobs : UploadMedia(r, e, p)
  \/ AddMedia(r)

StorageNext ==
  \/ PreviewStorageCleanup \/ PreviewImport
  \/ \E r \in Requests : CleanupStep(r) \/ ImportStep(r)
  \/ \E e \in Entries : DeleteEdition(e) \/ \E p \in Paths : DeleteOneRow(e, p)
  \/ CrashStorage

StorageSpec == StorageInit /\ [][StorageNext]_storageVars

-----------------------------------------------------------------------------
Held(p) == disk[p] # 0 \/ \E run \in Runs : recovery[run].stored[p] # 0

(* No step of a cleanup takes a file away that the catalogue refers to at that  *)
(* moment: the lock covers the last look at the references and every rename     *)
(* (WithLockedManagedStorageReferences).  A restore takes no lock: while it is  *)
(* taken back, it may take a file that has found a row meanwhile.               *)
CleanupSparesReferences ==
  [][\A r \in Requests, p \in ManagedStorageReferences' :
       Moving(r, "sweep") /\ jobs'[r] # jobs[r] /\ disk[p] # 0 => disk'[p] # 0]_storageVars

(* What the catalogue refers to was copied before, and is still on disk or in a *)
(* recovery area: no import takes the folder of another one away.              *)
ReferencedIsKept == \A p \in ManagedStorageReferences : Held(p)

(* A run of which a file can still be put back is one RestoreCleanupRun takes,  *)
(* once no request is at work on it.                                           *)
InterruptedRunsAreRecoverable ==
  \A run \in Runs :
    /\ \A r \in Requests : jobs[r].op \in {"sweep", "restore"} => jobs[r].run # run
    /\ \E p \in Paths : recovery[run].stored[p] # 0
    /\ \A p \in Paths : recovery[run].stored[p] # 0 => disk[p] = 0
    => Restorable(run)

=============================================================================
