--------------------------- MODULE RuntimeBindings ---------------------------
(* What a launch of an edition is configured by: core mappings, launch bindings, *)
(* the hints an import brings, their review, and the runtime definitions a       *)
(* portable import carries (catalog/runtime_store.go,                            *)
(* catalog/runtime_import_store.go, catalog/portable_runtime.go,                 *)
(* catalog/custom_platform_store.go, server/runtime_api.go).  Every transaction  *)
(* and every single statement is one step.  RuntimeCatalog's checks of a         *)
(* definition are not repeated: here a definition is created, edited or removed  *)
(* in one step.  A resolution for a launch only reads, and is not modelled.      *)
EXTENDS Naturals, FiniteSets

CONSTANTS LaunchEditions, LaunchProfiles, LaunchDrivers, LaunchCores,
          Platform,       \* the custom platform a portable import defines
          Nothing,        \* an empty identifier
          Rewrites,       \* what an edit may make of a definition: [content, enabled]
          Wanted,         \* launch bindings an administrator may ask for
          MaxTokens,      \* bound on the previews
          Hints, HintOf,  \* what the import says of each hint, see ImportedHint
          DefaultCore,    \* the core of the built-in global mapping
          Carried,        \* the definitions the import carries: [subset -> content]
          Reviewers,      \* requests of several steps under way
          MaxEdits        \* bound on writes

ImportedHint == [edition : LaunchEditions, trust : {"structured", "untrusted"},
                 driver : LaunchDrivers \cup {Nothing}, core : LaunchCores \cup {Nothing},
                 mentions : SUBSET LaunchCores]
Definitions == LaunchProfiles \cup LaunchDrivers \cup LaunchCores \cup {Platform}
ASSUME RuntimeBindingsAssumption ==
  HintOf \in [Hints -> ImportedHint] /\ DOMAIN Carried \subseteq Definitions /\ MaxEdits \in Nat

VARIABLES definitions, \* device_profiles, emulator_drivers, retroarch_cores, custom_platforms
          mappings,    \* core_mappings, by scope
          launches,    \* launch_bindings, by edition and device profile
          hints,       \* runtime_import_hints
          signed,      \* batch snapshots a reviewer holds a token for
          tasks,       \* the batches and imports under way
          edits,       \* counts writes: updated_at of what they write, and the bound
          bound,       \* history: how many bindings each hint became
          touched      \* history: by reviewer, definitions written since its import looked
launchVars == <<definitions, mappings, launches, hints, signed, tasks, edits, bound, touched>>

None == [state |-> "none"]
Kept(row) == row.state = "row"
Resting == [op |-> "resting"]
Scopes == LaunchEditions \X (LaunchProfiles \cup {Nothing})
MappingScopes == {<<"edition", e>> : e \in LaunchEditions}
                   \cup {<<"device_profile", p>> : p \in LaunchProfiles}
                   \cup {<<"platform", Nothing>>, <<"global", Nothing>>}
Edit == edits < MaxEdits /\ edits' = edits + 1

-----------------------------------------------------------------------------
(* Definitions, mappings and bindings.  A definition that a binding or a       *)
(* mapping refers to is not deleted, and neither refers to a missing one.      *)

WriteDefinition(d, in) ==
  /\ Edit
  /\ definitions' = [definitions EXCEPT ![d] = [state |-> "row", content |-> in.content,
                                                enabled |-> in.enabled, stamp |-> edits]]
  /\ touched' = [r \in Reviewers |-> touched[r] \cup {d}]
  /\ UNCHANGED <<mappings, launches, hints, signed, tasks, bound>>

Referenced(d) == \/ \E s \in MappingScopes : Kept(mappings[s]) /\ mappings[s].core = d
                 \/ \E s \in Scopes : Kept(launches[s]) /\ d \in {launches[s].driver,
                                                                  launches[s].core, s[2]}

RemoveDefinition(d) ==
  /\ Edit
  /\ Kept(definitions[d]) /\ ~Referenced(d)
  /\ definitions' = [definitions EXCEPT ![d] = None]
  /\ touched' = [r \in Reviewers |-> touched[r] \cup {d}]
  /\ UNCHANGED <<mappings, launches, hints, signed, tasks, bound>>

SetMapping(s, row) ==
  /\ Edit
  /\ mappings' = [mappings EXCEPT ![s] = row]
  /\ UNCHANGED <<definitions, launches, hints, signed, tasks, bound, touched>>

CreateCoreMapping(s, k) ==
  /\ ~Kept(mappings[s]) /\ Kept(definitions[k])
  /\ SetMapping(s, [state |-> "row", core |-> k, builtin |-> FALSE])

UpdateCoreMapping(s, k) ==
  /\ Kept(mappings[s]) /\ ~mappings[s].builtin /\ Kept(definitions[k])
  /\ SetMapping(s, [mappings[s] EXCEPT !.core = k])

DeleteCoreMapping(s) == Kept(mappings[s]) /\ ~mappings[s].builtin /\ SetMapping(s, None)

(* One binding for an edition and a device profile, all it refers to there.    *)
Insertable(scope, in) ==
  /\ ~Kept(launches[scope])
  /\ \A d \in {scope[2], in.driver, in.core} \ {Nothing} : Kept(definitions[d])

LaunchRow(driver, core, enabled) ==
  [state |-> "row", driver |-> driver, core |-> core, enabled |-> enabled]

CreateLaunchBinding(scope, in) ==
  /\ Edit
  /\ Insertable(scope, in)
  /\ launches' = [launches EXCEPT ![scope] = in]
  /\ UNCHANGED <<definitions, mappings, hints, signed, tasks, bound, touched>>

UpdateLaunchBinding(scope, next, in) ==
  /\ Edit
  /\ Kept(launches[scope])
  /\ scope = next \/ ~Kept(launches[next])
  /\ \A d \in {next[2], in.driver, in.core} \ {Nothing} : Kept(definitions[d])
  /\ launches' = [[launches EXCEPT ![scope] = None] EXCEPT ![next] = in]
  /\ UNCHANGED <<definitions, mappings, hints, signed, tasks, bound, touched>>

DeleteLaunchBinding(scope) ==
  /\ Edit
  /\ Kept(launches[scope])
  /\ launches' = [launches EXCEPT ![scope] = None]
  /\ UNCHANGED <<definitions, mappings, hints, signed, tasks, bound, touched>>

-----------------------------------------------------------------------------
(* Hints.  A raw command is never run: enabled cores it names by library are   *)
(* suggested when there is exactly one, and its driver after it.               *)

Enabled(d) == Kept(definitions[d]) /\ definitions[d].enabled

SuggestUntrustedRuntimeHint(hint, mentions) ==
  LET cores == {k \in mentions : Enabled(k)}
      core == IF hint.core = Nothing /\ Cardinality(cores) = 1
              THEN CHOOSE k \in cores : TRUE ELSE hint.core
      drivers == {d \in LaunchDrivers : Enabled(d)} IN
  IF hint.trust # "untrusted" THEN hint
  ELSE [hint EXCEPT !.core = core,
                    !.driver = IF @ = Nothing /\ core # Nothing /\ Cardinality(drivers) = 1
                               THEN CHOOSE d \in drivers : TRUE ELSE @]

InsertRuntimeImportHint(h) ==
  SuggestUntrustedRuntimeHint(
    [state |-> "row", edition |-> HintOf[h].edition, trust |-> HintOf[h].trust,
     driver |-> HintOf[h].driver, core |-> HintOf[h].core, status |-> "pending",
     stamp |-> edits], HintOf[h].mentions)

(* Every start looks at the untrusted hints still pending once more.           *)
SuggestPendingRuntimeHints ==
  LET suggested(h) == SuggestUntrustedRuntimeHint(hints[h], HintOf[h].mentions) IN
  /\ Edit
  /\ hints' = [h \in Hints |->
                 IF Kept(hints[h]) /\ hints[h].status = "pending" /\ suggested(h) # hints[h]
                 THEN [suggested(h) EXCEPT !.stamp = edits] ELSE hints[h]]
  /\ tasks' = [r \in Reviewers |-> Resting]
  /\ UNCHANGED <<definitions, mappings, launches, signed, bound, touched>>

Present(h) == Kept(hints[h])
PendingOnce(h) == Kept(hints[h]) /\ hints[h].status = "pending"

(* What the request leaves empty is the hint's.                                *)
ApplyRuntimeImportHint(h, p, in) ==
  LET or(value, other) == IF value = Nothing THEN other ELSE value
      row == LaunchRow(or(in.driver, hints[h].driver), or(in.core, hints[h].core), in.enabled)
      scope == <<hints[h].edition, p>> IN
  /\ PendingOnce(h) /\ Edit
  /\ row.driver # Nothing
  /\ Insertable(scope, row)
  /\ launches' = [launches EXCEPT ![scope] = row]
  /\ hints' = [hints EXCEPT ![h].status = "applied", ![h].stamp = edits]
  /\ bound' = [bound EXCEPT ![h] = @ + 1]
  /\ UNCHANGED <<definitions, mappings, signed, tasks, touched>>

DismissRuntimeImportHint(h) ==
  /\ PendingOnce(h) /\ Edit
  /\ hints' = [hints EXCEPT ![h].status = "dismissed", ![h].stamp = edits]
  /\ UNCHANGED <<definitions, mappings, launches, signed, tasks, bound, touched>>

-----------------------------------------------------------------------------
(* A batch: hints of one profile, driver and core, reviewed as a snapshot of    *)
(* their rows and of the definitions, and applied only as it was reviewed.      *)

Batch == [ids : (SUBSET Hints) \ {{}}, profile : LaunchProfiles, driver : LaunchDrivers,
          core : LaunchCores \cup {Nothing}]

ReviewSucceeds(batch) ==
  /\ \A d \in {batch.profile, batch.driver, batch.core} \ {Nothing} : Enabled(d)
  /\ \A h \in batch.ids : /\ PendingOnce(h)
                          /\ ~Kept(launches[<<hints[h].edition, batch.profile>>])

UnversionedSnapshot(batch) ==
  [batch |-> batch, rows |-> [h \in batch.ids |-> hints[h].edition], defs |-> {}]
ReviewRuntimeImportHintBatch(batch) ==
  [batch |-> batch, rows |-> [h \in batch.ids |-> hints[h]],
   defs |-> {definitions[d] : d \in {batch.profile, batch.driver, batch.core} \ {Nothing}}]

PreviewRuntimeImportHintBatch(batch) ==
  /\ ReviewSucceeds(batch)
  /\ Cardinality(signed) < MaxTokens
  /\ signed' = signed \cup {ReviewRuntimeImportHintBatch(batch)}
  /\ UNCHANGED <<definitions, mappings, launches, hints, tasks, edits, bound, touched>>

CommitRuntimeImportHintBatch(r, token) ==
  /\ tasks[r] = Resting
  /\ ReviewSucceeds(token.batch)
  /\ ReviewRuntimeImportHintBatch(token.batch) = token
  /\ tasks' = [tasks EXCEPT ![r] = [op |-> "batch", token |-> token]]
  /\ UNCHANGED <<definitions, mappings, launches, hints, signed, edits, bound, touched>>

(* Two hints of one edition are one insertion too many: nothing is applied.    *)
ApplyRuntimeImportHintBatchIfSnapshot(r) ==
  LET token == tasks[r].token
      batch == token.batch
      scope(h) == <<hints[h].edition, batch.profile>> IN
  /\ tasks[r].op = "batch" /\ Edit
  /\ tasks' = [tasks EXCEPT ![r] = Resting]
  /\ IF /\ ReviewSucceeds(batch)
        /\ ReviewRuntimeImportHintBatch(batch) = token
        /\ \A g, h \in batch.ids : scope(g) = scope(h) => g = h
     THEN /\ launches' = [s \in Scopes |->
                IF \E h \in batch.ids : scope(h) = s
                THEN LaunchRow(batch.driver, batch.core, TRUE) ELSE launches[s]]
          /\ hints' = [h \in Hints |->
                IF h \in batch.ids THEN [hints[h] EXCEPT !.status = "applied", !.stamp = edits]
                ELSE hints[h]]
          /\ bound' = [h \in Hints |-> IF h \in batch.ids THEN bound[h] + 1 ELSE bound[h]]
     ELSE UNCHANGED <<launches, hints, bound>>
  /\ UNCHANGED <<definitions, mappings, signed, touched>>

-----------------------------------------------------------------------------
(* A portable import: its definitions are compared with the store's, and then   *)
(* one transaction inserts those that were missing, and the hints.              *)

CompatibleWhenEnabled(d) == Kept(definitions[d]) => definitions[d].enabled
Compatible(d) == Kept(definitions[d]) => /\ definitions[d].enabled
                                         /\ definitions[d].content = Carried[d]

ValidatePortableRuntimeCatalogImports(r) ==
  /\ tasks[r] = Resting
  /\ \A d \in DOMAIN Carried : Compatible(d)
  /\ \A h \in Hints : ~Kept(hints[h])
  /\ tasks' = [tasks EXCEPT ![r] = [op |-> "import", existing |->
                  {d \in DOMAIN Carried : Kept(definitions[d])}]]
  /\ touched' = [touched EXCEPT ![r] = {}]
  /\ UNCHANGED <<definitions, mappings, launches, hints, signed, edits, bound>>

(* The platform is looked for again, whatever the comparison had found.        *)
InsertPortableRuntimeCatalog(existing) ==
  LET missing(d) == IF d = Platform THEN ~Kept(definitions[d]) ELSE d \notin existing IN
  [d \in Definitions |->
     IF d \in DOMAIN Carried /\ missing(d)
     THEN [state |-> "row", content |-> Carried[d], enabled |-> TRUE, stamp |-> edits]
     ELSE definitions[d]]

ImportGamesAndCustomPlatformsAtomic(r) ==
  LET existing == tasks[r].existing IN
  /\ tasks[r].op = "import" /\ Edit
  /\ tasks' = [tasks EXCEPT ![r] = Resting]
  /\ IF /\ \A d \in DOMAIN Carried \ (existing \cup {Platform}) : ~Kept(definitions[d])
        /\ \A h \in Hints : ~Kept(hints[h])
     THEN /\ definitions' = InsertPortableRuntimeCatalog(existing)
          /\ hints' = [h \in Hints |-> InsertRuntimeImportHint(h)']
     ELSE UNCHANGED <<definitions, hints>>
  /\ UNCHANGED <<mappings, launches, signed, bound, touched>>

-----------------------------------------------------------------------------
LaunchInit ==
  /\ definitions = [d \in Definitions |->
       IF d \in DOMAIN Carried THEN None
       ELSE [state |-> "row", content |-> 1, enabled |-> TRUE, stamp |-> 0]]
  /\ mappings = [[s \in MappingScopes |-> None] EXCEPT
       ![<<"global", Nothing>>] = [state |-> "row", core |-> DefaultCore, builtin |-> TRUE]]
  /\ launches = [s \in Scopes |-> None]
  /\ hints = [h \in Hints |-> None]
  /\ signed = {}
  /\ tasks = [r \in Reviewers |-> Resting]
  /\ edits = 0
  /\ bound = [h \in Hints |-> 0]
  /\ touched = [r \in Reviewers |-> {}]

BindingRequest ==
  \/ \E s \in MappingScopes : \/ \E k \in LaunchCores : \/ CreateCoreMapping(s, k)
                                                        \/ UpdateCoreMapping(s, k)
                              \/ DeleteCoreMapping(s)
  \/ \E s \in Scopes : \/ \E in \in Wanted : \/ CreateLaunchBinding(s, in)
                                             \/ \E t \in Scopes : UpdateLaunchBinding(s, t, in)
                       \/ DeleteLaunchBinding(s)

DefinitionRequest ==
  \E d \in Definitions : \/ \E in \in Rewrites : WriteDefinition(d, in)
                         \/ RemoveDefinition(d)

HintRequest ==
  \/ SuggestPendingRuntimeHints
  \/ \E h \in Hints : \/ \E p \in LaunchProfiles \cup {Nothing},
                            in \in Wanted \cup {LaunchRow(Nothing, Nothing, TRUE)} :
                           ApplyRuntimeImportHint(h, p, in)
                      \/ DismissRuntimeImportHint(h)
  \/ \E batch \in Batch : PreviewRuntimeImportHintBatch(batch)
  \/ \E r \in Reviewers : \/ \E token \in signed : CommitRuntimeImportHintBatch(r, token)
                          \/ ApplyRuntimeImportHintBatchIfSnapshot(r)
                          \/ ValidatePortableRuntimeCatalogImports(r)
                          \/ ImportGamesAndCustomPlatformsAtomic(r)

LaunchNext == BindingRequest \/ DefinitionRequest \/ HintRequest
LaunchSpec == LaunchInit /\ [][LaunchNext]_launchVars

-----------------------------------------------------------------------------
(* A batch applies all of its hints or none, and only while their rows and the  *)
(* definitions are, stamps included, what some preview showed: an edit that was *)
(* taken back since the preview refuses it as well.                            *)
BatchAppliesWhatWasReviewed ==
  [][\A r \in Reviewers :
       tasks[r].op = "batch" /\ tasks'[r] = Resting /\ bound' # bound =>
         \E token \in signed :
           LET batch == token.batch IN
           /\ batch = tasks[r].token.batch
           /\ \A h \in batch.ids : hints'[h].status = "applied" /\ token.rows[h] = hints[h]
           /\ token.defs = {definitions[d] : d \in {batch.profile, batch.driver, batch.core}
                                                     \ {Nothing}}]_launchVars

(* An import that brings its hints leaves the store with exactly the            *)
(* definitions it carried, except for one that somebody wrote or removed after  *)
(* the import had looked at it.                                                 *)
ImportDivergesByEditOnly ==
  [][\A r \in Reviewers, d \in DOMAIN Carried :
       /\ tasks[r].op = "import" /\ tasks'[r] = Resting
       /\ \E h \in Hints : Kept(hints'[h]) /\ ~Kept(hints[h])
       /\ d \notin touched[r]
       =>
         /\ Kept(definitions'[d]) /\ definitions'[d].enabled
         /\ definitions'[d].content = Carried[d]]_launchVars

=============================================================================
