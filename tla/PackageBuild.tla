----------------------------- MODULE PackageBuild -----------------------------
(* A package profile is planned, the plan approved, and the package built into  *)
(* its output directory (bundler/plan.go, bundler/bundler.go,                   *)
(* bundler/recovery.go, server/packages.go, server/package_legacy_api.go,       *)
(* catalog/package_store.go).  A plan holds no lock: the files, the library, the *)
(* output directory and another build change between any two of its steps.      *)
EXTENDS Naturals, FiniteSets

CONSTANTS Sources,        \* files of the library and of the managed folders
          ExportPaths,    \* where the package puts them
          PathOf,         \* the relative path of a source, that of its target too
          Systems,        \* platforms: one generated metadata file of each
          SystemOf,       \* the platform of the game a source belongs to
          Bytes,          \* file contents and their hashes
          Plans,          \* plan records
          Builds,         \* requests that build a package
          MaxBuilds,      \* bound on build requests
          MaxOutside      \* bound on crashes and on changes made outside of the builds

ASSUME PackageBuildAssumption ==
  /\ PathOf \in [Sources -> ExportPaths] /\ SystemOf \in [Sources -> Systems]
  /\ ExportPaths \cap Systems = {} /\ "template" \notin Sources \cup ExportPaths \cup Systems
  /\ {"gone", "user", "none", "any", "unlisted", "unsaved"} \cap Bytes = {}
  /\ MaxBuilds \in Nat /\ MaxOutside \in Nat

VARIABLES inputs,      \* content of the sources, "gone" when they cannot be read
          catalogued,  \* hash the catalogue holds of them
          listed,      \* sources some edition names
          texts,       \* what the metadata of the library says
          profile,     \* the package profile: how it copies, and its template
          output,      \* content of the output directory
          manifest,    \* package-manifest.json: the paths a build owns, with their hash
          plans,       \* package_plans
          releases,    \* package_releases
          builds,      \* builds under way
          orderly,     \* no build was cut short, disturbed, overlapped or left a file behind,
                       \* and none copied an unplanned source that changed after its hash
          started,     \* build requests so far
          outside      \* changes and crashes so far
packageVars == <<inputs, catalogued, listed, texts, profile, output, manifest, plans,
                 releases, builds, orderly, started, outside>>

Places == ExportPaths \cup Systems \cup {"template"}
TargetOf(w) == IF w = "template" THEN "template" ELSE PathOf[w]
NoManifest == [present |-> FALSE, mode |-> "copy", owned |-> [p \in Places |-> "none"]]
NoBuild == [stage |-> "idle"]

-----------------------------------------------------------------------------
(* Planning.                                                                    *)

Offered == {w \in listed : inputs[w] # "gone"} \cup {"template"}
HashOf(w, use) == IF w = "template" THEN use.template ELSE inputs[w]
Metadata == {SystemOf[w] : w \in listed}

(* What an earlier build owns; any metadata file counts as owned under a valid  *)
(* manifest, listed there or not.                                               *)
Owned(p) == IF manifest.present /\ p \in Metadata /\ manifest.owned[p] = "none"
            THEN "any" ELSE manifest.owned[p]

Changed(w) == w # "template" /\ catalogued[w] # inputs[w]

(* The first writer of a path decides; a second with other content conflicts.   *)
Doubled(w, use) == \E v \in Offered \ {w} :
  TargetOf(v) = TargetOf(w) /\ ~Changed(v) /\ HashOf(v, use) # HashOf(w, use)

Kept(use) == Metadata \cup {"template"} \cup
  (IF use.mode = "reference" THEN {} ELSE {PathOf[w] : w \in Offered \ {"template"}})

ForeignByHash(p) ==
  output[p] # "gone" /\ Owned(p) \notin {"none", "any"} /\ Owned(p) # output[p]
Foreign(p) ==
  /\ output[p] # "gone"
  /\ \/ Owned(p) = "none"
     \/ Owned(p) # "any" /\ Owned(p) # output[p]

Conflicts(use) ==
  {TargetOf(w) : w \in {v \in Offered : Changed(v) \/ Doubled(v, use)}}
    \cup {p \in Kept(use) : Foreign(p)}

CopiesTarget(p, use) ==
  \E w \in Offered \ {"template"} : TargetOf(w) = p /\ output[p] # inputs[w]

(* An unchanged target is not written, and so not in the recovery snapshot.     *)
WritesTarget(p, use) ==
  ~\E w \in Offered : TargetOf(w) = p /\ output[p] = HashOf(w, use) /\ Owned(p) # "none"

Fingerprint == [mode |-> profile.mode, enabled |-> profile.enabled, template |-> profile.template,
                items |-> [w \in Sources |-> IF w \in listed THEN inputs[w] ELSE "unlisted"]]

CreatePackagePlan(p) ==
  /\ plans[p].status = "none" /\ profile.enabled
  /\ plans' = [plans EXCEPT ![p] = [status |-> "ready", fingerprint |-> Fingerprint]]
  /\ UNCHANGED <<inputs, catalogued, listed, texts, profile, output, manifest, releases, builds,
                 orderly, started, outside>>

-----------------------------------------------------------------------------
(* Building.                                                                    *)

First(S) == CHOOSE x \in S : TRUE   \* files go one by one in a fixed order
Filling == {"files", "copying", "export", "manifest"}
Writing == Filling \cup {"restoring"}
Keep(b, record) == builds' = [builds EXCEPT ![b] = record]
Unread == UNCHANGED <<inputs, catalogued, listed, texts, profile, output, manifest, plans, releases,
                      orderly, outside>>
Unbuilt == Unread /\ UNCHANGED started
Begin(b) == builds[b] = NoBuild /\ started < MaxBuilds /\ started' = started + 1
Answered(b) == IF builds[b].plan = "legacy" THEN NoBuild ELSE [builds[b] EXCEPT !.stage = "failed"]

(* A plan that is no longer ready is refused; one whose time is over becomes    *)
(* stale.                                                                       *)
OpenPackagePlan(b, p, late) ==
  /\ Begin(b) /\ plans[p].status = "ready"
  /\ Keep(b, [stage |-> IF late THEN "stale" ELSE "opened", plan |-> p])
  /\ Unread

RefuseStalePlan(b) ==
  /\ builds[b].stage = "stale"
  /\ plans' = [plans EXCEPT ![builds[b].plan].status = "stale"]
  /\ Keep(b, NoBuild)
  /\ UNCHANGED <<inputs, catalogued, listed, texts, profile, output, manifest, releases, orderly, started, outside>>

(* The plan is made again and must have the fingerprint of the approved one.    *)
(* refused: the device preflight or the free space object.                      *)
BuildPackagePlan(b, refused) ==
  /\ builds[b].stage = "opened"
  /\ LET same == plans[builds[b].plan].fingerprint = Fingerprint
         clean == Conflicts(profile) = {} /\ ~refused
     IN  Keep(b, CASE ~same -> [builds[b] EXCEPT !.stage = "stale"]
                   [] same /\ ~clean -> [builds[b] EXCEPT !.stage = "failed"]
                   [] OTHER -> [stage |-> "accepted", plan |-> builds[b].plan, use |-> profile])
  /\ Unbuilt

BuildPackage(b, mode) ==
  /\ Begin(b)
  /\ Keep(b, [stage |-> "accepted", plan |-> "legacy", use |-> [profile EXCEPT !.mode = mode]])
  /\ Unread

(* The builder plans a third time; these conflicts are the ones that count.     *)
PlanBuild(b) ==
  /\ builds[b].stage = "accepted"
  /\ LET use == builds[b].use
     IN  Keep(b, IF Conflicts(use) # {} THEN Answered(b)
                 ELSE [stage |-> "planned", plan |-> builds[b].plan, use |-> use, kept |-> Kept(use),
                       writes |-> {p \in Kept(use) : WritesTarget(p, use)},
                       before |-> output, owned |-> manifest.owned, alone |-> TRUE])
  /\ Unbuilt

(* The games are listed once more, after the plan.                              *)
PrepareBuildRecovery(b) ==
  /\ builds[b].stage = "planned"
  /\ Keep(b, [stage |-> "files", plan |-> builds[b].plan, use |-> builds[b].use, kept |-> builds[b].kept,
              rest |-> listed, read |-> [p \in Places |-> "none"],
              snapshot |-> [p \in Places |-> IF p \in builds[b].writes THEN output[p] ELSE "unsaved"],
              before |-> builds[b].before, owned |-> builds[b].owned, alone |-> builds[b].alone])
  /\ orderly' = (orderly /\ builds[b].use.mode = "copy"
                         /\ \A o \in Builds \ {b} : builds[o].stage \notin Writing)
  /\ UNCHANGED <<inputs, catalogued, listed, texts, profile, output, manifest, plans, releases, started, outside>>

(* A write of one build is a change under every other.                          *)
WritesFile(b, p, c, record) ==
  /\ output' = [output EXCEPT ![p] = c]
  /\ builds' = [o \in Builds |-> IF o = b THEN record
                                 ELSE IF "alone" \in DOMAIN builds[o] /\ output[p] # c
                                      THEN [builds[o] EXCEPT !.alone = FALSE] ELSE builds[o]]

(* syncOne hashes a source for the manifest and leaves an equal target alone.   *)
(* Hard links are left out: what is linked follows later edits of its source.   *)
HashSource(b) ==
  /\ builds[b].stage = "files" /\ builds[b].rest # {}
  /\ LET w == First(builds[b].rest)
         target == PathOf[w]
         done == [builds[b] EXCEPT !.rest = @ \ {w}]
         settled == builds[b].use.mode = "reference" \/ output[target] = inputs[w]
     IN  Keep(b, CASE inputs[w] = "gone" -> done
                   [] inputs[w] # "gone" /\ settled -> [done EXCEPT !.read[target] = inputs[w]]
                   [] OTHER -> [builds[b] EXCEPT !.read[target] = inputs[w], !.stage = "copying"])
  /\ Unbuilt

(* Then it copies what the source holds by now; the hash of a target that the   *)
(* plan kept is read back from the output, that of another stays as it is.      *)
CopySource(b) ==
  /\ builds[b].stage = "copying"
  /\ LET w == First(builds[b].rest)
         target == PathOf[w]
     IN  /\ inputs[w] # "gone"
         /\ WritesFile(b, target, inputs[w], [builds[b] EXCEPT !.rest = @ \ {w}, !.stage = "files"])
         /\ orderly' = (orderly /\ (target \in builds[b].kept \/ builds[b].read[target] = inputs[w]))
  /\ UNCHANGED <<inputs, catalogued, listed, texts, profile, manifest, plans, releases, started, outside>>

(* The exporter lists the games once more, and writes what it finds then.       *)
ExportFrontend(b) ==
  /\ builds[b].stage = "files" /\ builds[b].rest = {}
  /\ Keep(b, [stage |-> "export", plan |-> builds[b].plan, use |-> builds[b].use, kept |-> builds[b].kept,
              rest |-> Metadata, text |-> texts, read |-> builds[b].read,
              snapshot |-> builds[b].snapshot, before |-> builds[b].before,
              owned |-> builds[b].owned, alone |-> builds[b].alone])
  /\ Unbuilt

WriteMetadata(b) ==
  /\ builds[b].stage = "export" /\ builds[b].rest # {}
  /\ LET s == First(builds[b].rest)
     IN  WritesFile(b, s, builds[b].text, [builds[b] EXCEPT !.rest = @ \ {s}])
  /\ UNCHANGED <<inputs, catalogued, listed, texts, profile, manifest, plans, releases, orderly, started, outside>>

WriteConfig(b) ==
  /\ builds[b].stage = "export" /\ builds[b].rest = {}
  /\ WritesFile(b, "template", builds[b].use.template, [builds[b] EXCEPT !.stage = "manifest"])
  /\ UNCHANGED <<inputs, catalogued, listed, texts, profile, manifest, plans, releases, orderly, started, outside>>

(* The managed paths are the planned ones, with the hashes read back; the file  *)
(* records of a copying build own their targets too.                            *)
WriteManifest(b) ==
  /\ builds[b].stage = "manifest"
  /\ LET job == builds[b]
         own(p) == IF p \in job.kept /\ output[p] # "gone" THEN output[p]
                   ELSE IF job.use.mode # "reference" /\ job.read[p] # "none" THEN job.read[p]
                   ELSE IF p \in job.kept THEN "any" ELSE "none"
         owned == [p \in Places |-> own(p)]
     IN  /\ manifest' = [present |-> TRUE, mode |-> job.use.mode, owned |-> owned]
         /\ orderly' = (orderly /\ \A p \in Places : output[p] # "gone" => owned[p] # "none")
         /\ Keep(b, IF job.plan = "legacy" THEN NoBuild ELSE [stage |-> "built", plan |-> job.plan])
  /\ UNCHANGED <<inputs, catalogued, listed, texts, profile, output, plans, releases, started, outside>>

BuildStops(b) ==
  /\ builds[b].stage \in Filling
  /\ Keep(b, Answered(b))
  /\ Unbuilt

(* Any step after the snapshot may fail; the deferred restore puts back what     *)
(* the snapshot holds and removes what was not there.                           *)
BuildFails(b) ==
  /\ builds[b].stage \in Filling
  /\ Keep(b, [stage |-> "restoring", plan |-> builds[b].plan, kept |-> builds[b].kept,
              snapshot |-> builds[b].snapshot, before |-> builds[b].before,
              owned |-> builds[b].owned, alone |-> builds[b].alone])
  /\ orderly' = (orderly /\ builds[b].alone)
  /\ UNCHANGED <<inputs, catalogued, listed, texts, profile, output, manifest, plans, releases, started, outside>>

Saved(b) == {p \in Places : builds[b].snapshot[p] # "unsaved"}

RestoreEntry(b) ==
  /\ builds[b].stage = "restoring" /\ Saved(b) # {}
  /\ LET p == First(Saved(b)) IN WritesFile(b, p, builds[b].snapshot[p], [builds[b] EXCEPT !.snapshot[p] = "unsaved"])
  /\ UNCHANGED <<inputs, catalogued, listed, texts, profile, manifest, plans, releases, orderly, started, outside>>

EndRestore(b) ==
  /\ builds[b].stage = "restoring" /\ Saved(b) = {}
  /\ Keep(b, Answered(b))
  /\ Unbuilt

(* The release and the plan's last status are one transaction.                  *)
RecordPackageRelease(b) ==
  /\ builds[b].stage \in {"built", "failed"}
  /\ LET done == builds[b].stage = "built" IN
     /\ plans' = [plans EXCEPT ![builds[b].plan].status = IF done THEN "built" ELSE "failed"]
     /\ releases' = releases \cup {[plan |-> builds[b].plan, status |-> IF done THEN "succeeded" ELSE "failed"]}
  /\ Keep(b, NoBuild)
  /\ UNCHANGED <<inputs, catalogued, listed, texts, profile, output, manifest, orderly, started, outside>>

-----------------------------------------------------------------------------
(* What happens around a build.                                                 *)

Outside == outside < MaxOutside /\ outside' = outside + 1
Disturb == builds' = [o \in Builds |-> IF "alone" \in DOMAIN builds[o]
                                      THEN [builds[o] EXCEPT !.alone = FALSE] ELSE builds[o]]

ReplaceSource(w, c) ==
  /\ Outside /\ inputs[w] # c
  /\ inputs' = [inputs EXCEPT ![w] = c]
  /\ Disturb
  /\ UNCHANGED <<catalogued, listed, texts, profile, output, manifest, plans, releases, orderly, started>>

RecheckArtifact(w) ==
  /\ inputs[w] # "gone" /\ catalogued[w] # inputs[w]
  /\ catalogued' = [catalogued EXCEPT ![w] = inputs[w]]
  /\ UNCHANGED <<inputs, listed, texts, profile, output, manifest, plans, releases, builds, orderly, started, outside>>

EditLibrary(games, text) ==
  /\ Outside
  /\ listed' = games /\ texts' = text
  /\ (games = listed) # (text = texts)   \* one edit at a time
  /\ Disturb
  /\ UNCHANGED <<inputs, catalogued, profile, output, manifest, plans, releases, orderly, started>>

UpdatePackageProfile(in) ==
  /\ Outside /\ in # profile
  /\ in \in {[profile EXCEPT !.mode = in.mode], [profile EXCEPT !.template = in.template],
            [profile EXCEPT !.enabled = in.enabled]}
  /\ profile' = in
  /\ UNCHANGED <<inputs, catalogued, listed, texts, output, manifest, plans, releases, builds, orderly, started>>

(* The owner of the output puts a file of theirs in place, or edits one.        *)
PlaceFile(p) ==
  /\ Outside /\ output[p] # "user"
  /\ output' = [output EXCEPT ![p] = "user"]
  /\ Disturb
  /\ orderly' = FALSE
  /\ UNCHANGED <<inputs, catalogued, listed, texts, profile, manifest, plans, releases, started>>

(* Nothing of a build survives a crash but what it wrote; no start restores it. *)
CrashBuilds ==
  /\ Outside /\ \E b \in Builds : builds[b] # NoBuild
  /\ builds' = [b \in Builds |-> NoBuild]
  /\ orderly' = (orderly /\ \A b \in Builds : builds[b].stage \notin Writing)
  /\ UNCHANGED <<inputs, catalogued, listed, texts, profile, output, manifest, plans, releases, started>>

-----------------------------------------------------------------------------
PackageInit ==
  /\ catalogued \in [Sources -> Bytes]
  /\ \E missing \in SUBSET Sources :
       inputs = [w \in Sources |-> IF w \in missing THEN "gone" ELSE catalogued[w]]
  /\ listed = Sources
  /\ texts \in Bytes
  /\ profile = [mode |-> "copy", template |-> texts, enabled |-> TRUE]
  /\ output = [p \in Places |-> "gone"]
  /\ manifest = NoManifest
  /\ plans = [p \in Plans |-> [status |-> "none", fingerprint |-> {}]]
  /\ releases = {}
  /\ builds = [b \in Builds |-> NoBuild]
  /\ orderly = TRUE
  /\ started = 0
  /\ outside = 0

BuildStep(b) ==
  \/ RefuseStalePlan(b)
  \/ \E refused \in BOOLEAN : BuildPackagePlan(b, refused)
  \/ PlanBuild(b) \/ PrepareBuildRecovery(b)
  \/ HashSource(b) \/ CopySource(b)
  \/ ExportFrontend(b)
  \/ WriteMetadata(b)
  \/ WriteConfig(b) \/ WriteManifest(b)
  \/ BuildFails(b) \/ EndRestore(b) \/ RecordPackageRelease(b)
  \/ RestoreEntry(b)

BuildRequest(b) ==
  \/ \E p \in Plans, late \in BOOLEAN : OpenPackagePlan(b, p, late)
  \/ \E mode \in {"copy", "reference"} : BuildPackage(b, mode)

PackageWorld ==
  \/ \E w \in Sources, c \in Bytes \cup {"gone"} : ReplaceSource(w, c)
  \/ \E w \in Sources : RecheckArtifact(w)
  \/ \E games \in SUBSET Sources, text \in Bytes : EditLibrary(games, text)
  \/ \E in \in [mode : {"copy", "reference"}, template : Bytes, enabled : BOOLEAN] : UpdatePackageProfile(in)
  \/ \E p \in Plans : CreatePackagePlan(p)
  \/ \E p \in Places : PlaceFile(p)
  \/ CrashBuilds

PackageNext == PackageWorld \/ \E b \in Builds : BuildRequest(b) \/ BuildStep(b)
PackageSpec == PackageInit /\ [][PackageNext]_packageVars

-----------------------------------------------------------------------------
(* Types: what a place may hold, and a build that answers a plan names one.     *)
PackageTypeOK ==
  /\ inputs \in [Sources -> Bytes \cup {"gone"}] /\ listed \subseteq Sources
  /\ output \in [Places -> Bytes \cup {"gone", "user"}]
  /\ manifest.owned \in [Places -> Bytes \cup {"none", "any", "user"}]
  /\ releases \subseteq [plan : Plans, status : {"succeeded", "failed"}]
  /\ \A b \in Builds : builds[b] # NoBuild => builds[b].plan \in Plans \cup {"legacy"}

(* A file the user put into the output directory, or edited there, is lost only *)
(* to a build that planned before it was there, that found it claimed by a       *)
(* manifest (which hashed it, or owned the path while nothing was there), or     *)
(* that planned nothing for its path: a source that was missing then and is      *)
(* there when the files are copied goes over what the plan never looked at.      *)
(* Generated metadata, which a valid manifest lets a build claim unlisted, is    *)
(* exempt (plan.go: addTarget, loadManagedTargets; bundler.go: syncOne).         *)
UserFilesStay == [][\A p \in Places \ Systems :
  output[p] = "user" /\ output'[p] # "user" =>
    \E b \in Builds : /\ builds[b].stage \in Writing
                     /\ \/ builds[b].before[p] # "user"
                        \/ builds[b].owned[p] \in {"user", "any"}
                        \/ builds[b].stage = "copying" /\ p \notin builds[b].kept]_packageVars

(* "target exists but is not owned by a previous Varkiv manifest" refuses a      *)
(* build (plan.go:216, bundler_test.go:778).  The code breaks it: a source that  *)
(* cannot be read when the plan is made has no target there, and is copied over  *)
(* the file of its path when it can be read again.                              *)
UnownedFilesAreRefused == [][\A p \in Places \ Systems :
  output[p] = "user" /\ output'[p] # "user" =>
    \E b \in Builds : /\ builds[b].stage \in Writing
                     /\ \/ builds[b].before[p] # "user"
                        \/ builds[b].owned[p] # "none"]_packageVars

(* When a build has failed and nothing else changed meanwhile, the directory is *)
(* what it was when the build planned: every file written was in the snapshot   *)
(* (bundler.go: the deferred restore; packages.go: "existing managed files were *)
(* kept or restored").                                                          *)
FailedBuildKeepsOutput == [][\A b \in Builds :
  (builds[b].stage = "restoring" /\ builds[b].alone /\ builds'[b].stage \in {"idle", "failed"} /\ outside' = outside)
    => output' = builds[b].before]_packageVars

(* As long as builds come one at a time, are not cut short, copy, and leave no  *)
(* file of an earlier one behind, the manifest owns every file of the directory *)
(* with the hash it has: whatever changed in the library, the next plan finds   *)
(* no modified or foreign target (bundler.go: the manifest's managed records).  *)
(* A planned source may change between the read that hashes and the read that   *)
(* copies it, its record is read back; one that was missing from the plan may   *)
(* not: its record keeps the first hash, and the next plan refuses the target.  *)
ExportsStayBuildable ==
  (orderly /\ \A b \in Builds : builds[b].stage \notin Writing)
    => \A p \in Places : output[p] # "gone" => manifest.owned[p] = output[p]

=============================================================================
