# TLA+ models of Varkiv

Varkiv is a self-hosted game library. Its server keeps a catalogue of games and
their files, the runtimes they are launched with, and the revisions of save files;
its device agents carry saves between emulators and that server. This directory
models the server, the agents and the browser player wherever more than one step
or more than one actor decides what becomes of data. All paths below are relative
to the repository; `internal/` is left out of most.

## Inventory

| Component | State | Operations | Hard behaviours | What makes it correct |
|---|---|---|---|---|
| Save revisions: `saves`, `catalog/save_store.go` | `save_streams`, `save_revisions`, blobs by checksum | `Push`, `PushSet`, `AddSaveRevision`, queries for the current and for an equal revision | `PushSet` reads, reads again and appends in three statements; routes run at once | one current revision per stream; nothing uploaded is lost or rewritten; no upload supersedes what its author has not seen |
| Sync sessions: `server/sync_api.go`, `catalog/sync_session_store.go` | `sync_sessions`, `sync_operations` | create (negotiate, replay), upload, acknowledge, list, download | creation, completion and the aggregate are read in one statement and written in another; requests end halfway; retries | plans lose no content; a key names one session; complete means stored; terminal means terminal |
| Device agent: `deviceagent` | configuration (bases, pending key), saves, `.varkiv/backups`, `.varkiv-previous-*` | `SyncOnce`: collect, negotiate, upload, download, back up, replace, acknowledge, store | crashes between server and file, lost answers, emulators that write meanwhile; one lock per configuration | bases are truthful; what is replaced is recoverable; an interrupted run is finished by a later one |
| Pairing, devices, tokens: `server/pairing_api.go`, `catalog/sync_store.go`, `device_store.go` | `pairing_codes`, `devices`, `client_tokens`, `device_profiles` | create and redeem a code, update, heartbeat, revoke | `UpdateDevice` writes back a status it read; a request outlives the revocation; codes and tokens expire | a code pays once; a revoked device stays out but for that one stale write |
| Save bindings: `catalog/save_compatibility_store.go`, `sync_store.go` | `save_streams`, `save_bindings`, `runtime_attestations` | create setups and bindings, attest, authorise | a heartbeat replaces attestations and a build its contracts between the reading of streams and the session | a session covers attested streams of its device only |
| Inventory matching: `sync_session_store.go`, `inventory_match_api.go` | `inventory_items`, `inventory_match_overrides` | match, review, confirm, apply later | candidates change between review, confirmation and use | a confirmed match is what a reviewer confirmed, among the candidates reviewed |
| Managed storage: `storage`, `server/storage_cleanup.go`, `import_api.go` | files, quarantine runs with manifests, references in the catalogue | import, preview, clean up, restore | imports copy before they refer; renames and manifests crash in between; restores roll back | nothing referenced leaves the disk and the recovery area; a run can be undone |
| Sources and scans: `server/sources.go`, `import_tokens.go`, `scanner`, `catalog/source_store.go` | `library_sources`, `source_scans`, signed previews | scan, preview, commit | directories are walked again at the commit; two commits of one scan; restarts change the key | what is imported is what was previewed |
| Library: `catalog/library_store.go`, `series_store.go`, `game_merge.go`, `server/library_mutation_api.go` | games, editions, primaries, artifacts, series | edit, move, delete, relink, recheck, merge, import | check and write in two statements; hashes computed outside of transactions; reviewed merges | a hash is of the file its row names; merges are as reviewed; primaries exist |
| Package builds: `bundler`, `server/packages.go`, `catalog/package_store.go` | plans, output directory, manifest, recovery snapshot | plan, approve, build, recover | the output, the sources and other builds change between plan, snapshot, writes and manifest | a failed build leaves the output it found; a user's file stays |
| Runtime catalogue: `catalog/runtime_store.go`, `server/runtime_catalog.go` | adapters, profiles, drivers, cores, evidence claims | seed at boot, edit, review evidence, delete | a release reseeds what administrators and reviewers rely on; reads before updates | hardware levels come from reviews of the contract at hand |
| Launch bindings: `catalog/runtime_import_store.go`, `portable_runtime.go`, `custom_platform_store.go`, `runtimecfg` | core mappings, launch bindings, import hints, custom platforms | edit, suggest, review in batches, import, resolve | batches reviewed before they are applied; definitions validated before they are stored | a batch applies what was reviewed; an import stores what it carried |
| Browser play and rooms: `server/web_emulation.go`, `web_netplay.go`, `multiplayer` | passes, the page's queues and base, rooms in memory | restore, upload, create, join, close | uploads and restores queue and fail in any order; the ROM changes between room and page | work nobody has seen survives; a room plays one content |
| State backup: `statebackup` | backup directories with manifests | create, verify, restore | files are copied one by one beside the service and other commands | what is vouched for is whole; files are of one moment |
| Migrations; hash packs; probes and target packages; Android client; web interface | tables, in the main | linear schema changes, single transactions, rendering | few | see "Not modelled" |

The server's handlers share one SQLite database opened with a single connection
(`catalog.Open`), so a statement or a transaction is atomic, and nothing larger
is. Files are outside of every transaction. The agent and the emulators share the
save files without a lock, and only the agent and the player's script retry.

## Modules

| Module | Models | State |
|---|---|---|
| `SaveHistory` | the promise of the store: a log of accepted saves that only grows, and one head per stream | `log`, `head` |
| `Credentials` | the promise of pairing: a code gives a credential once, to a device that is new, and a barred device holds none | `spent`, `known`, `held`, `barred` |
| `SaveStore` | `save_revisions` and the steps of `PushSet` | `revisions`; `push[h]`, the locals of the call request `h` is in |
| `SyncServer` (extends `SaveStore`) | sessions, operations and the handlers of the sync API | `sessions`; `call[h]` |
| `SaveSync` (extends `SyncServer`) | the agents and the files of their devices, emulators, crashes, lost requests | `local`, `backups`, `aside`, `config`, `agent`, `budget` |
| `BrowserPlay` (extends `SaveStore`) | the player's script in several tabs, its passes, the save endpoint, rooms | `tabs`, `rooms`, `rom` |
| `InventoryMatch` | matching, reviews and overrides | `library`, `items`, `overrides`, `signed`, `requests` |
| `DevicePairing` | profiles, codes, devices, tokens, a clock | `profiles`, `codes`, `devices`, `tokens`, `calls`, `time` |
| `SaveBindings` (extends `DevicePairing`) | streams, bindings, attestations, what a session may name | `build`, `saveStreams`, `bindings`, `attestations` |
| `ManagedStorage` | files the service owns, imports, cleanup, recovery | `disk`, `imported`, `rows`, `recovery`, `jobs`, `locked` |
| `SourceScans` | sources, scans, previews and their commits | `files`, `sources`, `scans`, `artifacts`, `calls` |
| `Library` | games, editions, their titles, artifacts, series, merges, rechecks, scans | `games`, `editions`, `titles`, `artifacts`, `members`, `disk`, `jobs`, `review` |
| `PackageBuild` | plans, builds, ownership, recovery snapshots | `output`, `manifest`, `plans`, `builds`, `releases` |
| `RuntimeCatalog` | the catalogue over releases, edits and hardware reviews | `objects`, `claims`, `previews`, `requests`, `boot` |
| `RuntimeBindings` | mappings, launch bindings, hints, portable definitions | `definitions`, `mappings`, `launches`, `hints`, `tasks` |
| `StateBackup` | backup, verification and restore | `live`, `refs`, `roots`, `commands` |
| `SaveStoreProofs`, `SyncServerProofs`, `SaveSyncProofs` (each extends the one before) | theorems about `SaveStore`, `SyncServer` and `SaveSync` | |
| `ServicesProofs` | theorems about `DevicePairing`, `SaveBindings`, `RuntimeCatalog` and `RuntimeBindings` | |
| `ContentProofs`, `StateBackupProofs`, `ManagedStorageProofs` | theorems about `Library` and `PackageBuild`, `StateBackup`, `ManagedStorage` | |
| `IntakeProofs` | theorems about `InventoryMatch`, `SourceScans` and `BrowserPlay` | |
| `MCSaveStore`, `MCServices`, `MCContent` | several parts on small instances, see Runs; they extend their parts | |
| `MCSaveStoreRace`, `MCSyncServer`, `MCSaveSync`, `MCManagedStorage`, `MCPackageReturn` | one part each | |

How the code corresponds to the modules:

* One statement or one transaction is one action, and so is one operation on a
  file. A request is a record of its locals with the step it is at; any number
  of requests interleave between their steps, and a request may end between any
  two of them: its context is cancelled or the server stops, and what is
  committed stays.
* `PushSet` is `PushReadCurrent` (the base's check and `CurrentStreamRevision`),
  `PushFindExisting` and `AddSaveRevision`; `CompleteSyncOperation` is
  `ReadOperation` and then `RejectOperation` or `CompleteOperation`;
  `RecalculateSyncSession` is `ReadOperations` and `StoreSessionStatus`;
  `CreateSyncSession` is `LookupSession` and `InsertSession`, after one
  `NegotiateStream` for each save.
* A revision id is its position in `revisions`. Contents, hashes and paths are
  values nothing else is known of; two differ or they do not.
* `created_at` is a text that drops the trailing zeros of its fraction
  (`nowText`), so the order of rows by it is not the order of insertion. The
  current revision is the only row its query finds, which is proved below;
  `FindStreamRevisionByContentHash` may find several, and returns any of them.
* An agent's run is an action per request it sends, answer it gets and file it
  moves. What outlives a run is the configuration file, written when a new key is
  drawn (`StartSync`) and when a whole plan is done (`FinishSync`). The plan is
  carried out whatever the operations' status, as the code does on a replay, and
  in any order: operations are sorted by opaque ids. A directory save is replaced
  by two renames with the emulator's save missing in between (`Replace`,
  `Place`); a single file by one. What is at a target is a save, nothing, or a
  directory without a file (`EmptySave`): the last two have the same hash, none
  (`HashOf`), so the server plans the same download for both, but a run replaces
  only what is absent or what it hashed (`BackUp`), and refuses the empty directory.
* A tab of the browser plays one page: it restores (`restoreSave`) and uploads
  (`uploadSave`) at the same time, each upload on the base the script holds when
  it is sent, and other devices push through the actions of `SaveStore`.
* What a person was shown is a value the model keeps: a signed preview is the
  record it was computed from, and a handler that gets one back computes it again
  and compares. `InventoryMatch`, `SourceScans`, `RuntimeCatalog`,
  `RuntimeBindings`, `ManagedStorage` and `Library` (merges) share this shape.
* A quarantine of `ManagedStorage` holds the transaction (`locked`) while its files
  move, as `CommitStorageCleanup` does, but no lock on the files; a file is the
  stamp of its last write, which is what size, time and mode tell.
* `PackageBuild` moves file by file: the recovery snapshot, each file copied, each
  metadata file and the manifest are steps of their own, and so is each file a
  deferred restore puts back. The games are listed when the plan is made, again
  when files are copied, and once more when metadata is written; a build removes
  nothing but what its own restore takes back. A source is read twice: its hash
  goes into the manifest (`HashSource`), and what it holds by then into the output
  (`CopySource`). A metadata file or a template is one step. Hard links are left
  out: a linked target is its source, and changes with it.
* `Library` keeps one title for each game and edition, that of one locale, which a
  merge moves to the target where the target has none (`MovedTitles`). The default
  title, which no merge changes, is left out.
* A scan that is not there is a record with status "none", and the commit of a scan
  looks at all of its candidates again and then imports those selected, the whole
  batch in one transaction.
* A portable import inserts the definitions its validation had not found, and looks
  for the platform once more in the transaction: one that was deleted since is put
  back (`InsertPortableRuntimeCatalog`). What a launch resolves to is read and kept
  nowhere; resolutions are not modelled.
* A request that begins with a token keeps the token's row as it was read then:
  `SaveBindings` compares it with the table only where the code does. A session
  takes the bindings it listed one by one, as they were when it listed them
  (`AuthorizeBinding`), and looks at streams and attestations as they are by then.
* A backup copies the database in one step (`VACUUM INTO`) and files one by one,
  and hashes each again when it verifies.
* Left out everywhere: input checks that refuse a request before it reads or writes
  the state above, and the text of messages, arguments and metadata files.

## Runs

| Run | Instance | Shows |
|---|---|---|
| `store` | two uploads on two streams, four revisions, of which the middle ones race; two tabs, a device and a room, two revisions; three editions and two items; one source of two files, one scan and two requests | `SaveStore` keeps its promises and implements `SaveHistory`; `UnseenWorkSurvives`, `OneGamePerRoom`; `ConfirmedMatchesAreConfirmed`; `ImportsWhatWasPreviewed` |
| `store_race` (violation) | two uploads on one stream | `PublishedRevisionsChain` fails |
| `server` | two requests on one stream, one key, two sessions, two revisions | plans lose nothing, completion is truthful, creation is idempotent, sessions are invisible to the store |
| `server_race` (violation) | two requests on the two operations of a session | `TerminalStays` fails |
| `agents` | two devices, one directory save, a save played, a crash; every run waits for its answers | replaced saves are recoverable; terminal sessions are truthful and stay terminal |
| `agent_orphans` | one device, two abandoned requests, a crash, a save played at any time | bases are truthful, and plans fit their runs, with requests of earlier runs still at work |
| `agent_alone` | one device, two saves, one a directory, two plays, which may leave the directory empty, one crash | every run is finished in the end and the device agrees with the server, but for saves that diverged and directories left empty |
| `agents_race` (violation) | as `agents`, with a save written at any time | `ReplacedIsRecoverable` fails |
| `services` | two requests in each of the runtime catalogue, managed storage and pairing; two reviewers of launch bindings and imports; one device that is one of two machines, a binding and two builds, with one caller that asks for sessions and one that does the rest | the ten properties of those five modules, with pairing shown to implement `Credentials` |
| `content` | two requests on a library of two games; two builds of one plan; one build whose sources go, come back and change; two backup commands | the eight properties of those three modules |
| `package_return` (violation) | one build of one game whose file is missing for a while, a file of the user's in its place | `UnownedFilesAreRefused` fails |
| `cleanup_crash` (violation) | two entries, one cleanup, one restart | `InterruptedRunsAreRecoverable` fails |

`store`, `services` and `content` each check several parts: their initial predicate
chooses one, and what the others keep rests in an initial state of theirs. The state
spaces add up and do not multiply. Most parts share no state, and each property
speaks of its own part; `SaveStore` is shared by uploads from any route and uploads
from tabs, and the pairing tables by pairing and the save bindings, so their
properties are checked in both. Each of these four has a bound of its own in the MC
module, pairing only those of its constants. `StoreBound` lets an upload to an empty
history, and one to a history of three, start only while no other is under way;
those in between race. `TabsBound` allows two revisions. `PairingBound` keeps one of
the two callers at rest: the transactions of pairing, which need no caller, race with
the requests of the other. In `BindingBound` one device is paired, by its code; one
caller asks for sessions and nothing else, while the other sends heartbeats, updates
the device to either of two machines, and edits bindings and profile; a profile is for
the device's kind or disabled, and the clock stands still, as expiry is checked with
pairing. So the steps of a heartbeat, an update, a revocation or an edit fall between
any two steps of the creation of a session.

`content` has four parts: the library, two builds with one change or crash outside of
them (`package`), one build with two changes (`returns`), and the commands of backup. In
`returns` a source that was missing when the build planned comes back and changes
between its hash and its copy.

### Properties by hazard

* *Checked, then stale.* `SupersedesWhatItRead`, `ResultHoldsContent` (uploads);
  `LockedUntilAttested` (authorisation); `ConfirmedMatchesAreConfirmed`,
  `BatchAppliesWhatWasReviewed`, `MergeIsAsReviewed`, `ImportsWhatWasPreviewed`,
  `ReadinessIsReviewed`, `ClaimsComeFromReviews` (reviews); `HashIsOfItsPath`,
  `PrimaryIsLostByLateChoiceOnly`, `ImportDivergesByEditOnly` (reads before writes
  in the library and the catalogue).
* *Files beside transactions.* `ReferencedIsKept`, `CleanupSparesReferences`,
  `InterruptedRunsAreRecoverable` (managed storage); `UserFilesStay`,
  `UnownedFilesAreRefused`, `FailedBuildKeepsOutput`, `ExportsStayBuildable` (packages);
  `VouchedRootsAreWhole`, `BackupIsOneMoment` (backups); `ReplacedIsRecoverable`
  (agents).
* *Lost answers, retries, crashes.* `CreationIsIdempotent`, `ImplementsCredentials`,
  `CompleteMeansStored`, `TerminalIsTruthful`, `TerminalStays`, `BaseIsStored`,
  `PlanFitsRun`, `Settles`, `PendingClears`, `UnseenWorkSurvives`.
* *Revocation.* `RevokedStaysOut`, `RevivedByStaleUpdateOnly`.

`PrimaryIsLostByLateChoiceOnly`, `ImportDivergesByEditOnly` and
`RevivedByStaleUpdateOnly` state the one race by which the code loses what one would
want outright, and that nothing else does.

### Bounds

`MaxRevisions`, `MaxSessions`, `Keys` and the `Max...` constants of each module cap
what would grow without end, in the guard of the action that appends or in that
of the environment's steps; `MaxPlays`, `MaxCrashes`, `MaxOrphans`, `MaxChanges`,
`MaxRestarts` and `MaxEdits` are budgets of the environment. Each hazard needs few
actors: two requests for every race between two statements (a third changes
nothing that two do not, as each race is of one read and one write), two streams
where one operation's end is told from its session's, two contents for "the same"
and "another", and a third only in the races that need a base and its two rivals.
Four revisions let a stream hold a superseded, a current and a conflicting
revision while another stream grows. Three edits let one be read, one overtake it
and one follow. Three editions let a match be ambiguous, chosen, and ambiguous
again among others. One restart is enough to fall between any two file
operations, as what a restart leaves behind is a rest state again. In the
liveness run the bounds on revisions, sessions and keys are above what the plays
and crashes can use up: a run that hit one would be stuck with its pending key,
and `PendingClears` would say so.

`CHECK_DEADLOCK FALSE` is set in every run: requests come from outside, and a
server without a request, or a system whose budgets are spent, rests.

### Fairness

Liveness is asked of the agents under weak fairness of each agent's next step, of
each request's next step in the server and of the end of requests nobody waits
for. The agent's loop starts a run at every tick whatever became of the last
(`cmd/varkiv/main.go`, `agentRun`), its process takes its next step unless it
dies, and `net/http` gives every request a goroutine. Emulators, crashes and lost
connections are never fair. Liveness is checked without emulator writes during a
run (`IdleNext`). `Settles` and `PendingClears` exempt a device with a save directory that
was left empty while the server holds a save of it (`Blocked`): every run of the code
ends there, see Observations. A tick on which a run would change nothing but the table of
sessions is left out (`Due`), so that a device at rest rests. The other parts
promise nothing that must happen: every request there is asked for by a person,
and may be given up.

## Findings

Each is a run whose property TLC finds violated, with its counterexample:

1. **Overlapping uploads overwrite each other** (`store_race`). The divergence
   check of `PushSet` and its append are two steps, so the second of two uploads
   on one base supersedes the first although the protocol says it must fail as a
   conflict. The superseded revision stays in the history.
2. **A terminal session goes back to transferring** (`server_race`). The
   aggregate is read and stored in two statements.
3. **A save written during replacement is lost** (`agents_race`). Between the
   last comparison and the rename there is time for the emulator to write.
4. **An interrupted cleanup cannot be restored** (`cleanup_crash`). A restore takes
   every file of the manifest to have been moved, so a quarantine that stops
   between two renames is refused as damaged.
5. **A user's file is overwritten unowned** (`package_return`). A source that
   cannot be read when the plan is made has no target in it; when it is back by the
   time files are copied, it goes over whatever is at its path, although "an
   untracked target blocks overwrite" (`docs/PORTABLE_FORMATS.md:103`), and no
   recovery snapshot holds what was there.

### Observations

Met while modelling. Those with a property in brackets are defined in the module
and fail: adding the name to the part's configuration shows the trace.

* An upload that diverged but whose content the stream holds in a superseded
  revision is accepted with that revision (`AcceptedUploadIsCurrent`;
  `saves/repository.go:272`).
* An upload refused because the file changed while it was sent stays refused
  when the file is as it was again, because the agent replays its key and a failed
  operation stays failed (`PendingClears` under `FairQuietSpec`, which lets the
  emulator write during a run; `catalog/sync_session_store.go:569`).
* A save directory that is there without a file is never filled, and holds up its
  device. It hashes like one that is missing (`deviceagent/sync.go:403`), so the server
  plans a download, as the table of `docs/DEVICE_SYNC_PROTOCOL.md:108` asks for ("present
  | no local content | download"); `downloadRevision` refuses a target that exists without
  a hash (`sync.go:967-971`) and ends the run, every run under the same pending key, until
  a person removes the directory or saves into it (`Blocked`).
* A device that pairs between the count of a profile's references and the update
  no longer fits its profile (`DevicesFitTheirProfile`;
  `catalog/runtime_store.go:786`).
* An administrator's update that spells a hardware level in a deprecated way is
  ranked as spelled and stored normalised, and becomes a claim nobody reviewed
  (`HardwareClaimsAreReviewed`; `catalog/runtime_store.go:524`). A later update of
  the same contract may then keep the claim, so `ClaimsComeFromReviews` remembers
  where levels were respelled (`respelled`) and admits no other ground.
* A session that was asked for with a token goes on after the token is revoked:
  its streams may be authorised for the machine it read, while an update that was
  under way makes the device active and a later one makes it another machine. This
  is why `LockedUntilAttested` speaks of sessions whose token still stands
  (`server/sync_api.go`, `catalog/device_store.go`).
* A portable import that several reviewers race for may differ from what it carried
  in what any of them wrote after it looked: `ImportDivergesByEditOnly` counts the
  writes since the look of the import in question, and no others.
* A save restored late takes the player's base back to an older revision than its
  own last upload (`PlayerCarriesItsLastUpload`; `server/web_emulation.go:305`,
  `docs/WEB_EMULATION.md:111`). A save emitted before the first restore is
  uploaded on the base its page came with, the content endpoint does not ask for
  the room, and closed rooms are never deleted (`multiplayer/broker.go:187`).
* A source that was missing from the plan and changes between its hash and its copy
  leaves a manifest whose hash is not that of the output, so that the next plan takes
  the target for a modified one and refuses it (`bundler/bundler.go:304`, `:326`); the
  hash of a planned target is read back from the output. `ExportsStayBuildable` speaks
  of histories without such a change (`orderly`).
* A path of generated metadata that the last manifest does not list is taken for
  the package's own (`bundler/plan.go:383`), and so is a path the manifest owns
  while nothing is there; `UserFilesStay` exempts the first and names the second. A source that is
  missing for one plan makes its target a leftover that blocks the next; a crash in
  a build leaves a mixed output; games that are edited between the plan and the two
  later listings are built as they are then.
* A crash between the creation of a run's directory and its manifest makes the
  listing of runs fail until someone removes it (`storage/cleanup.go`).
* A recheck stops at the first library file that is missing, and one begun before
  a relink writes its path back; a primary chosen while its edition moves away
  stays dangling (`catalog/library_store.go:311`).
* A restore does not compare what it copied with the manifest; a path changed
  twice while a backup runs can make it a mix of moments; a crash leaves a partial
  directory, which verification rejects (`statebackup/statebackup.go`).
* The tiers above the one that matched are not asked again in the transaction that
  confirms a match, and a session fails as a whole when the edition it matched is
  deleted before the insert (`catalog/sync_session_store.go:505`).
* Of two commits of one ready scan, the loser overwrites `committed` with `failed`;
  a wrong token makes a ready scan stale; a file copied into the managed library
  is hashed again while it is copied, so that a change after the second look is
  imported (`server/sources.go:291`). A disabled source still commits.
* Two custom platforms whose keys overlap make every later registry fail
  (`catalog/custom_platform_store.go`).

## Proofs

`SaveStoreProofs` proves for all streams, devices, contents, numbers of requests
and bounds:

* `TypeCorrect`, the types;
* `OneCurrentRevision`, a stream with revisions has exactly one current revision,
  the newest ever published in it;
* `Ancestry`, a parent is an older revision of the same stream;
* `UploadsAreKept`, what an upload is answered with is stored, in its stream,
  with its content, and the conflict reported is the status stored;
* `RevisionsAppendOnly`, no step drops or rewrites a revision;
* `SupersedesItsBase`, an upload that becomes current while the revision it read
  still is descends from that one;
* `StoreImplementsHistory`, the store implements `SaveHistory`: initial states are
  its initial states (`HistoryStarts`), a step that appends is its append
  (`HistoryMoves`), every other a stutter (`HistoryRests`).

The assumptions are those of the module: the empty hash is no content and the
bound is a natural number. None of the invariants is inductive alone. The
inductive one, `StoreInv`, adds what each call knows of the revisions between its
steps (`ReadsHold`): a call that is about to append has a base in its stream or
none, and one that found a conflict found a current revision, so the stream has
one still whatever was appended since. This is why a conflict never becomes the
first revision of a stream, and so why the head is never missing. The append
step splits on what it does to each stream: the stream pushed to gets a new
newest published revision, or a conflict above the head, and the others keep
theirs. The statement that reads the current revision returns it because the
invariant says there is but one (`QueryReturnsCurrent`). `SupersedesItsBase` adds
what the call decided from what it read (`CallsDecide`).

`SyncServerProofs` proves the same kind of facts for the whole server, for any
number of sessions, keys and requests:

* `SyncTypeCorrect`, the types;
* `ServerImplementsStore`, every step of the server is a step of `SaveStore` or
  leaves its state alone, and through it `ServerKeepsOneCurrent` and
  `ServerImplementsHistory`;
* `NothingLost`, no plan gives up content the server lacks;
* `CompletionIsStored`, what is recorded as transferred is stored with the content
  negotiated;
* `KeysNameOneSession`, a key of a device names one session, and a creation answers
  with the session made for its saves.

Its inductive invariant, `SyncInv`, adds to the store's what a request knows of
its session between two statements (`CallsFit`): a creation past its lookup or
insert holds the session of its key; an upload that waits for `PushSet` is
pushing the content negotiated, and one past it holds a stored revision with
that content; an acknowledgement about to write carries the hash expected. What
makes this last through the steps of others is said once, of any two tables:
revisions keep stream and content (`Grows`) and sessions keep what was planned
(`Evolves`, `CallFitLasts`). Each action then has a lemma (`...Keeps`) saying that
it is a step of the store, touches only its own request and keeps `Grows`,
`Evolves` and its own part of the invariant. `CompleteSyncOperation` writes without
asking for the status again; the proof shows why that is harmless to
`CompletionIsStored`: whoever writes last writes content that fits the plan.

A device that waits for each answer before it asks again keeps one request in
flight (`SerialSpec`). For those, `SerialInv` adds that a session's stored status
follows from its operations and that a request about to store an aggregate holds
a fresh one, which gives `FinishedSessionsAreTruthful` (`TerminalIsTruthful`),
`FinishedSessionsStay` (`TerminalStays`) and `OutcomesStand`, whose counterpart on
sessions the run `server_race` refutes for devices that do not wait.

`SaveSyncProofs` is about agents, emulators, crashes and abandoned requests around
that server, for any devices, streams and budgets:

* `AgentsAreWellTyped`, `BasesAreStored`, `PlansFitTheirRuns`, from `AgentInv`: beside
  `SyncInv`, what a run knows fits the tables (a base is a stored revision with the
  hash kept beside it; a session is the one made for the run's key and saves), every
  request it waits for is its own (`Asks`, `WaitAlone`) and an answer on its way is
  still stored (`AnswerStored`);
* `ReplacedSavesAreRecoverable`, under `QuietSpec`, in which emulators leave a save
  alone between the agent's last look and its replacement; `QuietInv` adds that
  what is about to be replaced is the save that was looked at (`ReplacementFits`).
  The run `agents_race` shows that the condition is needed;
* `AgentsImplementTheServer`, every behaviour of the agents is one of `SyncSpec`, and
  through it `AgentsMayRelyOnTheServer`: the server's and the store's promises hold
  of the whole. `AgentsImplementHistory` is the chain from end to end: agents,
  emulators and crashes implement `SyncServer`, that `SaveStore`, that `SaveHistory`;
* `WaitingAgentsAreSerial` and `WaitingAgentsAreToldTheTruth`: if no run gives up on a
  request (`MaxOrphans = 0`, a hypothesis of the two theorems), the agents are such
  clients as `SerialSpec` has, and their sessions are truthful for good. It is the
  request given up on that turns a session over.

`ServicesProofs`:

* `PairingIsWellTyped`, `ACodeIssuesOneToken`, `RevocationIsFinal` and
  `OnlyAStaleUpdateRevives`. `PairingInv` says that the code of every token is marked
  (`TokensAreRedeemed`), that a revocation reached every token of its device and the
  device is not to be minted again (`RevocationsReachTokens`), and what each request
  carries (`CallsOK`). `BindingsKeepPairingSafe` says the same of pairing with
  bindings, sessions and attestations around it.
* `PairingImplementsCredentials` and `BindingsImplementCredentials`: the store's codes,
  devices and tokens, read as a ledger (`SpentCodes`, `KnownDevices`, `HeldTokens`),
  implement `Credentials`, alone and with the bindings around them. A credential in
  force is a token neither revoked nor deleted, whether or not it has expired. A
  redemption marks the code and writes device and token in one transaction, a
  revocation reaches every token in one, and an update writes the row of a device
  already known (`CallsOK`), so each step is one of the abstract steps or a stutter.
  `LedgerKeepsItsPromise` proves that whatever implements `Credentials` keeps
  `OncePerCode` and `BarredHoldNone`.
* `BindingsStayMembers`: types, and every binding is of a stream that is there, with
  a driver the stream or its group admits (`BindingsAreMembers`). `BindingInv` adds
  what a request found before it writes (`AsksFit`): the stream it looked up is still
  there, since no step of a stream's takes its row away.
* `SessionsAreLockedUntilAttested` (`LockedUntilAttested`). `LockInv` adds to `PairingInv`
  that a request which carries a machine from one statement to another, a session or
  an update, carries the machine the device is for as long as the device has a token
  that would be accepted (`Carries`); the bindings it carries may be older than the
  table's, and the proof does not need them to be current. It lasts because the update counts tokens
  before it goes on with another machine, and because no step gives a known device
  a new token (`MachineHolds`). The attempt with the property as it stood first
  failed, and TLC confirmed the trace the proof pointed to with two machines and two
  requests; the statement now asks that the session's token still stands.
* `RuntimeIsWellTyped`, `ReadinessNeedsAReview` and `ClaimsHaveGrounds`. `ClaimsInv` says
  that every stored row has a ground for the hardware level it claims, a review or a
  respelling, for the contract it is at, and that an update between its look at the
  evidence and its write has such a ground already for what it will store.
* `BatchesApplyWhatWasReviewed` and `ImportsDivergeByEditOnly`.
  `LaunchInv` ties a batch under way to a signed snapshot and an import under way to
  what it saw, but for the definitions written since.

`ContentProofs`:

* `LibraryIsWellTyped`, `HashesAreOfTheirPaths`, `OnlyALateChoiceLosesAPrimary` and
  `ConfirmedMergeIsTheReviewedOne`, from `LibraryInv`: foreign keys (`References`),
  every path and hash in a row or in a request's hands were on disk together
  (`FilesSeen`), and what a request carries fits the tables (`JobsFit`). A merge is
  shown to make of editions, files and titles what its preview said of the same rows
  (`MergeKeepsRows`), the titles among them moved and not left alone (`MovedTitles`).
* `PackageIsWellTyped`, `OrderlyExportsStayBuildable`, `UserFilesAreOnlyLostToAClaim` and
  `FailedBuildsRestoreTheOutput`, from `PackageInv`: for each build its shape, what its
  plan knew of the output (`PlanFits`), that an undisturbed build changed only what its
  snapshot holds (`AloneFits`), and that in an orderly history there is one writer
  and the output is what it read, but for the one file between its hash and its copy
  (`ReadFits`). The proof of the third met the case that is finding 5: `UserFilesStay` did not hold
  for sources that were missing when the build planned.

`StateBackupProofs`: `VouchedDirectoriesAreWhole` and `BackupsAreOfOneMoment`, from
`BackupInv`: no two commands share a directory (`OwnDirectories`), and what has been
copied is what was there when the copies ended, unless a path changed back
(`CopiesAligned`).

`ManagedStorageProofs`: `StorageIsWellTyped`, `ReferencedFilesAreKept` and
`CleanupTakesNothingReferenced`, from `StorageInv`: what a job under way has made or
checked is still there, no row refers to what a cleanup that holds the lock has
yet to move, and no two jobs make one folder or put back one file (`Apart`). A
restore takes no lock, so `CleanupSparesReferences` speaks of the cleanups' steps only.

`IntakeProofs`: `ConfirmedMatchesWereChosen` (`InventoryInv`: every override is what
somebody signed for among the candidates of the preview), `ImportsAreOfTheirPreview`
(`ScansInv`: a commit works on the candidates of its scan's preview for as long as
the scan is stored), `RoomsPlayOneGame` (`RoomsInv`) and `UnseenWorkIsKept` (`WorkInv`,
which adds to the store's invariant that the base of a save that follows the
player's restore is one its player loaded or uploaded). From the same invariant
follow `PlayIsWellTyped`, and `PlayersKeepTheStore` and `PlayersKeepHistory`: an upload
of a tab is a step of `SaveStore`, so the promises of the store hold with players
among the devices, and the whole implements `SaveHistory`. The hypothesis of these four
is `BrowserAssumption`: the browser is one of the devices and there is a save stream.

What the theorems assume is in the `...Assumption` of each module, and TLC evaluates
each on the instances above. Beyond the typing of inputs and the sorts being
apart, three say something of the code: the folders of two library entries share no
file, since the folder of an import is named after platform and edition
(`roms/<platform>/<edition>`, `storage/repository.go:212`), and media lies below
`media/`; the sets a cleanup walks are finite; and an import carries definitions of
the kinds the catalogue has (`DOMAIN Carried`).

Only model-checked:

* `Settles` and `PendingClears`: liveness under fairness is out of the prover's reach.
* The five findings: the theorems say what holds in spite of them, and the runs show
  the traces.

Every other property of a run is the subject of a theorem. The type invariants are
proved (those of `SourceScans`, `InventoryMatch` and `RuntimeBindings` only as far as
the theorems need them) and are in no run. The runs
check `TerminalIsTruthful` and `TerminalStays` on agents that wait, the theorems on
any clients that do; and `OutcomeIsFinal` says of operations what `TerminalStays`
says of sessions.

## Not modelled, and the plan

Not modelled:

* **Hash packs**: an import is one transaction that compares the fingerprint of
  its preview first and only adds rows; nothing else writes what it reads, so no
  interleaving is left to explore.
* **Schema migrations**: a linear list, each in a transaction, run before the
  server serves. Their tables, keys and cascades are what the other modules use.
* **Probes and target packages** of the agent: they read installed files and
  write one archive.
* **The Android client**: a second client of the protocol; the clients of
  `SyncServer` may send any request at any time, which includes what it sends.
* **Resolution** (`runtimecfg/resolver.go`): a launch looks its bindings, mappings and
  definitions up and keeps nothing of it.
* **Hard links** of a package: the target of a link is its source, so that it can
  neither be restored nor owned apart from it.
* **Rendering, parsing and routing**: ES-DE and Pegasus parsers, templates, argument
  rendering and read models are functions of text, without state whose order
  matters. The append and conflict statuses of metadata imports and playlists are
  left out with them.

Next, in this order:

1. One composition more: a library whose files `ManagedStorage` moves while
   `PackageBuild` reads them, with `ReferencedIsKept` and `FailedBuildKeepsOutput`
   carried over by a refinement to each part.
2. Abstract specifications for `ManagedStorage` (a set of files of which the
   referenced ones are never lost) and `StateBackup` (copies of one moment), with
   the refinements proved from the inductive invariants there are.
