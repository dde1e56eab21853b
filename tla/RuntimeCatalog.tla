--------------------------- MODULE RuntimeCatalog ---------------------------
(* The runtime catalog: source adapters, frontend adapters, device profiles,   *)
(* emulator drivers and cores, what a release seeds, what administrators edit,  *)
(* and the reviewed hardware evidence that raises a support level              *)
(* (catalog/runtime_store.go, catalog/hardware_evidence.go,                    *)
(* catalog/support_readiness.go, server/runtime_catalog.go,                    *)
(* server/hardware_acceptance.go).  One object of each kind and one target:     *)
(* the kinds share no state but the evidence claims.                           *)
EXTENDS Naturals, Sequences

CONSTANTS RuntimeCallers, \* requests under way at a time
          SeedChoices,    \* which kinds hold an object of the release
          Releases,       \* releases of the program; a release seeds its number as contract
          Edits,          \* what an administrator may write
          Reports,        \* device reports a reviewer may hold
          MaxWrites       \* bound on the writes of administrators and reviewers

(* A contract's version is positive; the normalizations refuse any other.      *)
ASSUME RuntimeAssumption ==
  /\ Releases \subseteq Nat \ {0}
  /\ Edits \subseteq [version : Nat \ {0}, level : STRING, enabled : BOOLEAN,
                      evidence : [scope : STRING, version : Nat]]

VARIABLES seeds,     \* the kinds whose object the release owns
          release,   \* the release that runs
          boot,      \* how many kinds the boot has seeded
          objects,   \* source_adapters .. retroarch_cores, by kind
          claims,    \* runtime_evidence_claims, by kind
          previews,  \* snapshots signed for a reviewer
          requests,  \* requests under way
          reviews,   \* history: the contracts a committed review named
          respelled, \* history: the contracts an update gave a level in another spelling
          writes     \* counts writes, for the bound
runtimeVars ==
  <<seeds, release, boot, objects, claims, previews, requests, reviews, respelled, writes>>

Kinds == {"source_adapter", "frontend_adapter", "device_profile", "emulator_driver",
          "retroarch_core"}
SeedOrder == <<"source_adapter", "frontend_adapter", "device_profile", "emulator_driver",
               "retroarch_core">>
ReviewOrder == <<"device_profile", "emulator_driver", "frontend_adapter", "retroarch_core">>
Reviewed == {ReviewOrder[i] : i \in DOMAIN ReviewOrder}

HardwareLevels == {"hardware-tested", "sync-tested"}
Levels == {"catalogued", "package-tested"} \cup HardwareLevels
Absent == [state |-> "absent"]
Stored(row) == row.state = "row"
Quiet == [op |-> "none"]
Serving == boot = Len(SeedOrder)

-----------------------------------------------------------------------------
(* Support levels and their evidence.  An evidence names its scope and, when it *)
(* is bound, the contract version; version 0 is bound to nothing.              *)

SupportLevelRank(level) ==
  CASE level = "catalogued" -> 1
    [] level = "package-tested" -> 2
    [] level = "hardware-tested" -> 3
    [] level = "sync-tested" -> 4
    [] OTHER -> 0

(* Lower case and trimmed; an administrator may write it in another spelling.  *)
NormalizeSupportLevel(level) ==
  CASE level = "HARDWARE-TESTED" -> "hardware-tested"
    [] OTHER -> level

ValidateSupportEvidence(level, evidence) ==
  level \in HardwareLevels => evidence.scope = level

BindSupportEvidence(evidence, version) == [evidence EXCEPT !.version = version]

ValidateSupportEvidenceBinding(level, evidence, version) ==
  level \in HardwareLevels => evidence.version = version

ValidateStoredSupportEvidence(row) ==
  /\ row.level \in Levels
  /\ ValidateSupportEvidence(row.level, row.evidence)
  /\ ValidateSupportEvidenceBinding(row.level, row.evidence, row.version)

ClaimsHardware(row) == SupportLevelRank(row.level) >= SupportLevelRank("hardware-tested")

(* Reading an object refuses a row whose claim is not valid.                   *)
Readable(kind) == Stored(objects[kind]) /\ ValidateStoredSupportEvidence(objects[kind])
ScanSourceAdapter   == Readable("source_adapter")
ScanFrontendAdapter == Readable("frontend_adapter")
ScanDeviceProfile   == Readable("device_profile")
ScanEmulatorDriver  == Readable("emulator_driver")
ScanRetroArchCore   == Readable("retroarch_core")
Scans(kind) == CASE kind = "source_adapter" -> ScanSourceAdapter
                 [] kind = "frontend_adapter" -> ScanFrontendAdapter
                 [] kind = "device_profile" -> ScanDeviceProfile
                 [] kind = "emulator_driver" -> ScanEmulatorDriver
                 [] kind = "retroarch_core" -> ScanRetroArchCore

Normalized(in) == [in EXCEPT !.level = NormalizeSupportLevel(@)]
NormalizedIsValid(in) == /\ Normalized(in).level \in Levels
                         /\ ValidateSupportEvidence(Normalized(in).level, in.evidence)
NormalizeSourceAdapter(in)   == NormalizedIsValid(in)
NormalizeFrontendAdapter(in) == NormalizedIsValid(in)
NormalizeDeviceProfile(in)   == NormalizedIsValid(in)
NormalizeEmulatorDriver(in)  == NormalizedIsValid(in)
NormalizeRetroArchCore(in)   == NormalizedIsValid(in)

Row(in, builtin) == [state |-> "row", version |-> in.version,
                     level |-> NormalizeSupportLevel(in.level), evidence |-> in.evidence,
                     builtin |-> builtin, enabled |-> in.enabled]

-----------------------------------------------------------------------------
(* Administrators.  An identifier of the release's namespace is refused.       *)

Writes == writes < MaxWrites /\ writes' = writes + 1

Create(kind, in, valid) ==
  /\ Serving /\ Writes
  /\ kind \notin seeds
  /\ valid
  /\ Normalized(in).level \notin HardwareLevels
  /\ objects[kind] = Absent
  /\ objects' = [objects EXCEPT ![kind] = Row(in, FALSE)]
  /\ UNCHANGED <<seeds, release, boot, claims, previews, requests, reviews, respelled>>

CreateSourceAdapter(in)   == Create("source_adapter", in, NormalizeSourceAdapter(in))
CreateFrontendAdapter(in) == Create("frontend_adapter", in, NormalizeFrontendAdapter(in))
CreateDeviceProfileDefinition(in) == Create("device_profile", in, NormalizeDeviceProfile(in))
CreateEmulatorDriver(in)  == Create("emulator_driver", in, NormalizeEmulatorDriver(in))
CreateRetroArchCore(in)   == Create("retroarch_core", in, NormalizeRetroArchCore(in))

(* A claim may only be kept, for the contract it was made for.                 *)
KeepsAnyClaim(row, in) == ClaimsHardware(in) => ClaimsHardware(row)
KeepsClaim(row, in) ==
  ClaimsHardware(in) =>
    /\ ClaimsHardware(row)
    /\ in.version = row.version
    /\ ValidateSupportEvidenceBinding(in.level, in.evidence, in.version)

ReadForUpdate(c, kind, in, accepted) ==
  /\ Serving /\ requests[c] = Quiet
  /\ Scans(kind)
  /\ ~objects[kind].builtin
  /\ accepted
  /\ requests' = [requests EXCEPT ![c] = [op |-> "update", kind |-> kind, in |-> in]]
  /\ UNCHANGED <<seeds, release, boot, objects, claims, previews, reviews, respelled, writes>>

(* The source adapter is normalized before its claim is looked at; the four    *)
(* other kinds look at the level as it was spelled.                            *)
UpdateSourceAdapter(c, in) ==
  LET kind == "source_adapter" IN
  ReadForUpdate(c, kind, in, NormalizeSourceAdapter(in) /\ KeepsClaim(objects[kind], Normalized(in)))
UpdateFrontendAdapter(c, in) ==
  LET kind == "frontend_adapter" IN
  ReadForUpdate(c, kind, in, KeepsClaim(objects[kind], in) /\ NormalizeFrontendAdapter(in))
UpdateDeviceProfileDefinition(c, in) ==
  LET kind == "device_profile" IN
  ReadForUpdate(c, kind, in, KeepsClaim(objects[kind], in) /\ NormalizeDeviceProfile(in))
UpdateEmulatorDriver(c, in) ==
  LET kind == "emulator_driver" IN
  ReadForUpdate(c, kind, in, KeepsClaim(objects[kind], in) /\ NormalizeEmulatorDriver(in))
UpdateRetroArchCore(c, in) ==
  LET kind == "retroarch_core" IN
  ReadForUpdate(c, kind, in, KeepsClaim(objects[kind], in) /\ NormalizeRetroArchCore(in))

(* The level goes past KeepsClaim in a spelling it does not rank.             *)
Respells(kind, in) == kind # "source_adapter" /\ in.level \notin Levels

WriteUpdate(c) ==
  LET call == requests[c] IN
  /\ call.op = "update" /\ Writes
  /\ objects' = IF Stored(objects[call.kind])
                THEN [objects EXCEPT ![call.kind] = Row(call.in, FALSE)] ELSE objects
  /\ respelled' = IF Stored(objects[call.kind]) /\ Respells(call.kind, call.in)
                  THEN respelled \cup {[kind |-> call.kind, version |-> call.in.version]}
                  ELSE respelled
  /\ requests' = [requests EXCEPT ![c] = Quiet]
  /\ UNCHANGED <<seeds, release, boot, claims, previews, reviews>>

ReadForDelete(c, kind) ==
  /\ Serving /\ requests[c] = Quiet
  /\ Scans(kind)
  /\ ~objects[kind].builtin
  /\ requests' = [requests EXCEPT ![c] = [op |-> "delete", kind |-> kind]]
  /\ UNCHANGED <<seeds, release, boot, objects, claims, previews, reviews, respelled, writes>>

DeleteSourceAdapter(c)   == ReadForDelete(c, "source_adapter")
DeleteFrontendAdapter(c) == ReadForDelete(c, "frontend_adapter")
DeleteDeviceProfileDefinition(c) == ReadForDelete(c, "device_profile")
DeleteEmulatorDriver(c)  == ReadForDelete(c, "emulator_driver")
DeleteRetroArchCore(c)   == ReadForDelete(c, "retroarch_core")

(* The row goes and its claims with it, in one transaction.                    *)
DeleteRuntimeObjectWithEvidence(c) ==
  LET kind == requests[c].kind IN
  /\ requests[c].op = "delete" /\ Writes
  /\ objects' = [objects EXCEPT ![kind] = Absent]
  /\ claims' = [claims EXCEPT ![kind] = Absent]
  /\ requests' = [requests EXCEPT ![c] = Quiet]
  /\ UNCHANGED <<seeds, release, boot, previews, reviews, respelled>>

-----------------------------------------------------------------------------
(* The release                                                                *)

Seed == [state |-> "row", version |-> release, level |-> "package-tested",
         evidence |-> [scope |-> "none", version |-> 0], builtin |-> TRUE, enabled |-> TRUE]

Reconciled(row) ==
  IF Stored(row) /\ row.version >= release THEN row ELSE Seed
ReconcileBuiltinSourceAdapter(row)   == Reconciled(row)
ReconcileBuiltinFrontendAdapter(row) == Reconciled(row)
ReconcileBuiltinDeviceProfile(row)   == Reconciled(row)
ReconcileBuiltinEmulatorDriver(row)  == Reconciled(row)
ReconcileBuiltinRetroArchCore(row)   == Reconciled(row)

EnsureRuntimeCatalog ==
  LET kind == SeedOrder[boot + 1]
      row == objects[kind] IN
  /\ boot < Len(SeedOrder)
  /\ boot' = boot + 1
  /\ objects' = IF kind \notin seeds THEN objects
                ELSE [objects EXCEPT ![kind] =
                        CASE kind = "source_adapter" -> ReconcileBuiltinSourceAdapter(row)
                          [] kind = "frontend_adapter" -> ReconcileBuiltinFrontendAdapter(row)
                          [] kind = "device_profile" -> ReconcileBuiltinDeviceProfile(row)
                          [] kind = "emulator_driver" -> ReconcileBuiltinEmulatorDriver(row)
                          [] kind = "retroarch_core" -> ReconcileBuiltinRetroArchCore(row)]
  /\ UNCHANGED <<seeds, release, claims, previews, requests, reviews, respelled, writes>>

(* A crash or an upgrade, at any point, the boot included.                     *)
RestartCatalog(v) ==
  /\ Writes
  /\ release' = v
  /\ boot' = 0
  /\ requests' = [c \in RuntimeCallers |-> Quiet]
  /\ UNCHANGED <<seeds, objects, claims, previews, reviews, respelled>>

-----------------------------------------------------------------------------
(* Hardware evidence.  A maintainer previews a device's report, and commits    *)
(* with the signed snapshot of the contract versions the preview read.         *)

HardwareRequiredForTarget == {"launch", "upgrade"}
SyncRequired == {"launch", "save"}

ValidateAcceptanceReport(report) ==
  IF HardwareRequiredForTarget \cup SyncRequired \subseteq report.observed /\ report.session
  THEN "sync-tested"
  ELSE IF HardwareRequiredForTarget \subseteq report.observed THEN "hardware-tested" ELSE "none"

NoReviewToken == [level |-> "none", versions |-> <<>>]

PreviewHardwareAcceptance(c, report) ==
  /\ Serving /\ requests[c] = Quiet
  /\ ValidateAcceptanceReport(report) # "none"
  /\ requests' = [requests EXCEPT ![c] =
       [op |-> "preview", token |-> NoReviewToken, level |-> ValidateAcceptanceReport(report),
        versions |-> <<>>]]
  /\ UNCHANGED <<seeds, release, boot, objects, claims, previews, reviews, respelled, writes>>

CommitHardwareAcceptance(c, token, report) ==
  /\ Serving /\ requests[c] = Quiet
  /\ requests' = [requests EXCEPT ![c] =
       [op |-> "commit", token |-> token, level |-> ValidateAcceptanceReport(report),
        versions |-> <<>>]]
  /\ UNCHANGED <<seeds, release, boot, objects, claims, previews, reviews, respelled, writes>>

(* One statement for each object: device, driver, frontend, core.              *)
BuildHardwareAcceptancePreview(c) ==
  LET call == requests[c]
      kind == ReviewOrder[Len(call.versions) + 1] IN
  /\ call.op \in {"preview", "commit"}
  /\ Len(call.versions) < Len(ReviewOrder)
  /\ requests' = [requests EXCEPT ![c] =
       IF Scans(kind) => ~objects[kind].enabled THEN Quiet
       ELSE [call EXCEPT !.versions = Append(@, objects[kind].version)]]
  /\ UNCHANGED <<seeds, release, boot, objects, claims, previews, reviews, respelled, writes>>

Snapshot(call) == [level |-> call.level, versions |-> call.versions]
Built(call, op) == call.op = op /\ Len(call.versions) = Len(ReviewOrder)

SignPreviewValue(c) ==
  /\ Built(requests[c], "preview")
  /\ previews' = previews \cup {Snapshot(requests[c])}
  /\ requests' = [requests EXCEPT ![c] = Quiet]
  /\ UNCHANGED <<seeds, release, boot, objects, claims, reviews, respelled, writes>>

CurrentContract(kind, version) ==
  Scans(kind) /\ objects[kind].enabled /\ objects[kind].version = version

Promoted(row, level) ==
  LET evidence == [scope |-> level, version |-> row.version] IN
  IF SupportLevelRank(row.level) > SupportLevelRank(level)
  THEN [row EXCEPT !.evidence = BindSupportEvidence(@, row.version)]
  ELSE [row EXCEPT !.level = level, !.evidence = evidence]

(* The transaction looks at every contract once more.                          *)
ApplyReviewedHardwareEvidence(c) ==
  LET call == requests[c] IN
  /\ Built(call, "commit") /\ Writes
  /\ requests' = [requests EXCEPT ![c] = Quiet]
  /\ IF /\ Snapshot(call) = call.token
        /\ \A i \in DOMAIN ReviewOrder : CurrentContract(ReviewOrder[i], call.versions[i])
     THEN /\ claims' = [k \in Kinds |->
                IF k \in Reviewed
                THEN [state |-> "row", version |-> objects[k].version, level |-> call.level]
                ELSE claims[k]]
          /\ objects' = [k \in Kinds |->
                IF k \in Reviewed THEN Promoted(objects[k], call.level) ELSE objects[k]]
          /\ reviews' = reviews \cup {[kind |-> ReviewOrder[i], version |-> call.versions[i],
                                       level |-> call.level] : i \in DOMAIN ReviewOrder}
     ELSE UNCHANGED <<claims, objects, reviews>>
  /\ UNCHANGED <<seeds, release, boot, previews, respelled>>

(* What the readiness report counts.                                          *)
RuntimeClaimOfAnyContract(kind) ==
  Stored(objects[kind]) /\ objects[kind].enabled /\ Stored(claims[kind])
RuntimeClaim(kind) ==
  /\ Stored(objects[kind]) /\ objects[kind].enabled
  /\ Stored(claims[kind])
  /\ claims[kind].version = objects[kind].version
ClaimMeets(claim, level) == SupportLevelRank(claim.level) >= SupportLevelRank(level)
ComponentMeets(kind, level) == RuntimeClaim(kind) /\ ClaimMeets(claims[kind], level)

(* The report is refused as a whole when any stored claim is not valid.        *)
StoredEvidenceIsValid ==
  \A kind \in Kinds : Stored(objects[kind]) /\ ClaimsHardware(objects[kind]) =>
                       ValidateStoredSupportEvidence(objects[kind])
HardwareReadiness(kind, level) == StoredEvidenceIsValid /\ ComponentMeets(kind, level)

-----------------------------------------------------------------------------
RuntimeInit ==
  /\ seeds \in SeedChoices
  /\ release = 1
  /\ boot = 0
  /\ objects = [k \in Kinds |-> Absent]
  /\ claims = [k \in Kinds |-> Absent]
  /\ previews = {}
  /\ requests = [c \in RuntimeCallers |-> Quiet]
  /\ reviews = {}
  /\ respelled = {}
  /\ writes = 0

AdapterRequest ==
  \/ \E in \in Edits : CreateSourceAdapter(in) \/ CreateFrontendAdapter(in)
  \/ \E c \in RuntimeCallers : \/ \E in \in Edits : \/ UpdateSourceAdapter(c, in)
                                                  \/ UpdateFrontendAdapter(c, in)
                              \/ DeleteSourceAdapter(c)
                              \/ DeleteFrontendAdapter(c)

DefinitionRequests ==
  \/ \E in \in Edits : \/ CreateDeviceProfileDefinition(in)
                       \/ CreateEmulatorDriver(in)
                       \/ CreateRetroArchCore(in)
  \/ \E c \in RuntimeCallers : \/ \E in \in Edits : \/ UpdateDeviceProfileDefinition(c, in)
                                                  \/ UpdateEmulatorDriver(c, in)
                                                  \/ UpdateRetroArchCore(c, in)
                              \/ DeleteDeviceProfileDefinition(c)
                              \/ DeleteEmulatorDriver(c)
                              \/ DeleteRetroArchCore(c)

StoreStep == \E c \in RuntimeCallers : WriteUpdate(c) \/ DeleteRuntimeObjectWithEvidence(c)

ReviewStep ==
  \E c \in RuntimeCallers :
    \/ \E report \in Reports : \/ PreviewHardwareAcceptance(c, report)
                                        \/ \E token \in previews :
                                             CommitHardwareAcceptance(c, token, report)
    \/ BuildHardwareAcceptancePreview(c)
    \/ SignPreviewValue(c)
    \/ ApplyReviewedHardwareEvidence(c)

RuntimeNext == \/ AdapterRequest
               \/ DefinitionRequests
               \/ StoreStep
               \/ ReviewStep
               \/ EnsureRuntimeCatalog
               \/ \E v \in Releases : RestartCatalog(v)
RuntimeSpec == RuntimeInit /\ [][RuntimeNext]_runtimeVars

-----------------------------------------------------------------------------
(* Every row is of its kind's shape.                                          *)
RuntimeTypeOK ==
  /\ \A k \in Kinds : Stored(objects[k]) =>
       /\ objects[k].level \in Levels
       /\ objects[k].version \in Nat \ {0}
       /\ objects[k].builtin = (k \in seeds)
  /\ boot \in 0..Len(SeedOrder)

(* The readiness report counts a component only when a maintainer committed a   *)
(* review of the contract it has now, at that level or above, whatever was      *)
(* edited, deleted, recreated or upgraded since the preview was signed          *)
(* (HardwareReadiness, ApplyReviewedHardwareEvidence).                         *)
ReadinessIsReviewed ==
  \A kind \in Kinds, level \in HardwareLevels :
    HardwareReadiness(kind, level) =>
      \E r \in reviews : /\ r.kind = kind
                         /\ r.version = objects[kind].version
                         /\ SupportLevelRank(r.level) >= SupportLevelRank(level)

WasReviewed(kind, row) ==
  \E r \in reviews : r.kind = kind /\ r.version = row.version

(* "hardware support claims require reviewed evidence for the current runtime   *)
(* contract" (runtime_store.go:526).  The code breaks it: four of the five      *)
(* updates rank the level as it was spelled and store it normalized.            *)
HardwareClaimsAreReviewed ==
  \A kind \in Kinds :
    Stored(objects[kind]) /\ ClaimsHardware(objects[kind]) => WasReviewed(kind, objects[kind])

WasRespelled(kind, row) == [kind |-> kind, version |-> row.version] \in respelled

(* An object comes to claim hardware without a review, or becomes unreadable,   *)
(* only by an update that spelled the level otherwise, or keeps the claim that  *)
(* such an update made for the same contract; no interleaving of edits,         *)
(* deletions, reviews and upgrades does it.                                    *)
ClaimsComeFromReviews ==
  [][\A kind \in Kinds :
       Stored(objects[kind])' /\ objects'[kind] # objects[kind] =>
         \/ /\ ValidateStoredSupportEvidence(objects[kind]')
            /\ ClaimsHardware(objects[kind]') =>
                 WasReviewed(kind, objects[kind])' \/ WasRespelled(kind, objects[kind]')
         \/ \E c \in RuntimeCallers :
              /\ requests[c].op = "update" /\ requests[c].kind = kind
              /\ Respells(kind, requests[c].in)]_runtimeVars

=============================================================================
