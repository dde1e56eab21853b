------------------------------ MODULE Library ------------------------------
(***************************************************************************)
(* The library: games, their editions and primary edition, the artifacts   *)
(* of an edition, series, merges of games, rechecks and scans              *)
(* (internal/catalog/library_store.go, series_store.go, game_merge.go,     *)
(* import_store.go; internal/server/library_mutation_api.go;               *)
(* internal/scanner).                                                      *)
(*                                                                         *)
(* A transaction or a single statement is one step.  What a handler does   *)
(* in several (check and write, read the row, hash the file and write) is  *)
(* a job of several steps, and jobs interleave.  Rows have ids from        *)
(* constant sets; an id is used again, as the code never keeps one of a    *)
(* row it did not read.  Titles are those of one locale.  Media follow     *)
(* their owner like artifacts and are left out (ManagedStorage has them).  *)
(***************************************************************************)
EXTENDS Naturals, FiniteSets, Functions

CONSTANTS Games, Editions, Artifacts, Series,   \* ids of rows
          Platforms, Titles,                    \* values of the metadata
          LibraryPaths, ManagedPaths,           \* paths of files
          FileContents, Nothing,                \* contents, and no value
          SortsBefore(_, _),                    \* the order of editions
          Callers,                              \* requests at a time
          MaxEdits                              \* bound: requests and changes

(* No row is NULL, a row is of one table, and a query that sorts the editions *)
(* of a game returns a first one when there is any.                           *)
ASSUME LibraryAssumption ==
  /\ Nothing \notin Games \cup Editions /\ Games \cap Editions = {}
  /\ Nothing \notin [platform : Platforms, primary : Editions \cup {Nothing}]
  /\ MaxEdits \in Nat
  /\ \A es \in (SUBSET Editions) \ {{}} :
       \E e \in es : \A f \in es \ {e} : SortsBefore(e, f)

VARIABLES games,      \* games: platform and primary edition, or Nothing
          titles,     \* localized_titles: a locale's title, or Nothing
          editions,   \* editions: the game of each, or Nothing
          artifacts,  \* artifacts: edition, path, content, or Nothing
          members,    \* series_members: the relation, or Nothing
          disk,       \* the content at each path, or Nothing
          seen,       \* <<path, content>> pairs that were on disk
          review,     \* the last merge preview a person holds
          jobs,       \* the handlers under way
          edits       \* requests and changes so far

libraryVars == <<games, titles, editions, artifacts, members, disk, seen,
                 review, jobs, edits>>
metadata == <<titles, members, review>>
relations == <<members, review>>
files == <<disk, seen>>

-----------------------------------------------------------------------------
(* Tables *)

Paths == LibraryPaths \cup ManagedPaths
Present(table) == {id \in DOMAIN table : table[id] # Nothing}
EditionsOf(g) == {e \in Present(editions) : editions[e] = g}
ArtifactsOf(es) == {a \in Present(artifacts) : artifacts[a].edition \in es}
NoJob == [op |-> "none"]
NoReview == [target |-> Nothing]

\* putTitles: a request names a title in the locale or leaves it out.
Titled == Titles \cup {Nothing}

Edit == edits < MaxEdits /\ edits' = edits + 1

\* The first edition in sort order, or none.
FirstOf(es) ==
  IF es = {} THEN Nothing
  ELSE CHOOSE e \in es : \A f \in es \ {e} : SortsBefore(e, f)

KeepsPrimary(g, e, rest) == games   \* mutant of Lost

\* primary_edition_id of a game that loses, or gains, an edition.
Lost(g, e, rest) ==
  [games EXCEPT ![g].primary = IF @ = e THEN FirstOf(rest) ELSE @]
Gained(table, g, e) ==
  [table EXCEPT ![g].primary = IF @ = Nothing THEN e ELSE @]

\* The UNIQUE indexes on path and, when there is one, sha256.
Unique(a, path, content) ==
  \A b \in Present(artifacts) \ {a} :
    /\ artifacts[b].path # path
    /\ content = Nothing \/ artifacts[b].content # content

Row(e, path, content) == [edition |-> e, path |-> path, content |-> content]

\* The titles of a deleted owner go with it; nothing refers to them.
WithoutTitles(owners) ==
  titles' = [x \in Games \cup Editions |-> IF x \in owners THEN Nothing ELSE titles[x]]

\* ON DELETE CASCADE of editions.
WithoutEditions(es) ==
  /\ editions' = [e \in Editions |-> IF e \in es THEN Nothing ELSE editions[e]]
  /\ artifacts' = [a \in Artifacts |->
                     IF a \in ArtifactsOf(es) THEN Nothing ELSE artifacts[a]]

-----------------------------------------------------------------------------
(* Games and editions *)

CreateGame(g) ==
  /\ Edit
  /\ games[g] = Nothing
  /\ \E p \in Platforms, text \in Titled :
       /\ games' = [games EXCEPT ![g] = [platform |-> p, primary |-> Nothing]]
       /\ titles' = [titles EXCEPT ![g] = text]
  /\ UNCHANGED <<members, review, editions, artifacts, files, jobs>>

UpdateGame(g) ==
  /\ Edit
  /\ games[g] # Nothing
  /\ \E p \in Platforms, text \in Titled :
       /\ games' = [games EXCEPT ![g].platform = p]
       /\ titles' = [titles EXCEPT ![g] = text]
  /\ UNCHANGED <<editions, artifacts, members, review, files, jobs>>

UpdateEdition(e) ==
  /\ Edit
  /\ editions[e] # Nothing
  /\ \E text \in Titled : titles' = [titles EXCEPT ![e] = text]
  /\ UNCHANGED <<games, editions, artifacts, members, review, files, jobs>>

AddEdition(g, e) ==
  /\ Edit
  /\ games[g] # Nothing /\ editions[e] = Nothing
  /\ editions' = [editions EXCEPT ![e] = g]
  /\ games' = Gained(games, g, e)
  /\ \E text \in Titled : titles' = [titles EXCEPT ![e] = text]
  /\ UNCHANGED <<relations, artifacts, files, jobs>>

MoveEdition(e, target) ==
  LET source == editions[e]
  IN  /\ Edit
      /\ source # Nothing /\ games[target] # Nothing /\ source # target
      /\ games[source].platform = games[target].platform
      /\ editions' = [editions EXCEPT ![e] = target]
      /\ games' = Gained(Lost(source, e, EditionsOf(source) \ {e}), target, e)
      /\ UNCHANGED <<metadata, artifacts, files, jobs>>

DeleteEdition(e) ==
  /\ editions[e] # Nothing
  /\ WithoutTitles({e})
  /\ WithoutEditions({e})
  /\ games' = Lost(editions[e], e, EditionsOf(editions[e]) \ {e})
  /\ UNCHANGED <<relations, files, jobs>>

DeleteGame(g) ==
  /\ games[g] # Nothing
  /\ WithoutTitles({g} \cup EditionsOf(g))
  /\ WithoutEditions(EditionsOf(g))
  /\ games' = [games EXCEPT ![g] = Nothing]
  /\ members' = [m \in DOMAIN members |-> IF m[2] = g THEN Nothing ELSE members[m]]
  /\ UNCHANGED <<review, files, jobs>>

Delete(e) == Edit /\ DeleteEdition(e)
DeleteWhole(g) == Edit /\ DeleteGame(g)

\* SetPrimaryEdition: the check is a statement of its own.
CheckPrimary(c, g, e) ==
  /\ Edit
  /\ jobs[c] = NoJob
  /\ editions[e] # Nothing /\ editions[e] = g
  /\ jobs' = [jobs EXCEPT ![c] = [op |-> "primary", game |-> g, edition |-> e]]
  /\ UNCHANGED <<games, metadata, editions, artifacts, files>>

SetPrimaryEdition(c) ==
  /\ jobs[c].op = "primary"
  /\ games' = IF games[jobs[c].game] = Nothing THEN games
              ELSE [games EXCEPT ![jobs[c].game].primary = jobs[c].edition]
  /\ jobs' = [jobs EXCEPT ![c] = NoJob]
  /\ UNCHANGED <<metadata, editions, artifacts, files, edits>>

-----------------------------------------------------------------------------
(* Merges *)

\* buildGameMergePlan: what its digest covers.
MergeGraph(t, s) ==
  LET es == EditionsOf(t) \cup EditionsOf(s)
  IN  [games |-> <<games[t], games[s]>>,
       titles |-> Restrict(titles, {t, s} \cup es),
       editions |-> Restrict(editions, es),
       artifacts |-> Restrict(artifacts, ArtifactsOf(es)),
       members |-> Restrict(members, Series \X {t, s})]

Mergeable(t, s) ==
  /\ t # s /\ games[t] # Nothing /\ games[s] # Nothing
  /\ games[t].platform = games[s].platform

\* The moves of mergeGamesTx, before the source is deleted.
MovedEditions(t, s) ==
  [e \in Editions |-> IF editions[e] = s THEN t ELSE editions[e]]

\* The target's own membership wins.
MovedMembers(t, s) ==
  [m \in DOMAIN members |->
     IF m[2] = s THEN Nothing
     ELSE IF m[2] = t /\ members[m] = Nothing THEN members[<<m[1], s>>]
     ELSE members[m]]

\* The target's own title wins, and the source keeps none.
MovedTitles(t, s) ==
  [titles EXCEPT ![t] = IF @ = Nothing THEN titles[s] ELSE @, ![s] = Nothing]

MergeGames(t, s) ==
  /\ Mergeable(t, s)
  /\ editions' = MovedEditions(t, s)
  /\ artifacts' = [a \in Artifacts |->
       IF artifacts[a] # Nothing /\ editions'[artifacts[a].edition] = Nothing
         THEN Nothing ELSE artifacts[a]]
  /\ titles' = MovedTitles(t, s)
  /\ members' = MovedMembers(t, s)
  /\ games' = [games EXCEPT
       ![t].primary = IF @ = Nothing THEN games[s].primary ELSE @,
       ![s] = Nothing]
  /\ UNCHANGED <<files, jobs>>

\* mergeGame without a preview, for older clients.
MergeUnseen(t, s) == Edit /\ MergeGames(t, s) /\ UNCHANGED review

PreviewGameMerge(t, s) ==
  /\ Edit
  /\ Mergeable(t, s)
  /\ review' = [target |-> t, source |-> s, graph |-> MergeGraph(t, s)]
  /\ UNCHANGED <<games, titles, editions, artifacts, members, files, jobs>>

ReviewedByPlatform(t, s) == Mergeable(t, s)   \* mutant: no fingerprint

\* MergeGamesIfFingerprint: the comparison, in the transaction of the merge.
StillAsReviewed(t, s) == Mergeable(t, s) /\ review.graph = MergeGraph(t, s)

MergeReviewed ==
  /\ Edit
  /\ review # NoReview
  /\ StillAsReviewed(review.target, review.source)
  /\ MergeGames(review.target, review.source)
  /\ review' = NoReview

-----------------------------------------------------------------------------
(* Series *)

PutSeriesMember(series, g) ==
  /\ Edit
  /\ games[g] # Nothing
  /\ members' = [members EXCEPT ![<<series, g>>] = "member"]
  /\ UNCHANGED <<games, titles, review, editions, artifacts, files, jobs>>

DeleteSeriesMember(series, g) ==
  /\ Edit
  /\ members[<<series, g>>] # Nothing
  /\ members' = [members EXCEPT ![<<series, g>>] = Nothing]
  /\ UNCHANGED <<games, titles, review, editions, artifacts, files, jobs>>

\* UpdateSeriesMutation replaces the members of a series; every game must be.
UpdateSeries(series) ==
  /\ Edit
  /\ \E gs \in SUBSET Present(games) :
       members' = [m \in DOMAIN members |->
                     IF m[1] # series THEN members[m]
                     ELSE IF m[2] \in gs THEN "replaced" ELSE Nothing]
  /\ UNCHANGED <<games, titles, review, editions, artifacts, files, jobs>>

-----------------------------------------------------------------------------
(* Artifacts *)

Starts(c, job) == jobs[c] = NoJob /\ jobs' = [jobs EXCEPT ![c] = job]
Goes(c, job) == jobs' = [jobs EXCEPT ![c] = job]
Ends(c) == jobs' = [jobs EXCEPT ![c] = NoJob]
OnlyJobs == UNCHANGED <<games, metadata, editions, artifacts, files>>

\* artifactInput: a library file is there and is hashed.
ReadFile(path) == path \in LibraryPaths /\ disk[path] # Nothing

\* createArtifact and createEdition: the file is hashed before the database
\* is asked.
HashNewArtifact(c, g, e, path) ==
  /\ Edit
  /\ ReadFile(path)
  /\ Starts(c, [op |-> "insert", game |-> g, row |-> Row(e, path, disk[path])])
  /\ OnlyJobs

\* AddArtifact, or AddEditionWithArtifact when the edition is a new one of a
\* game; a violated index or reference is an error.
AddArtifact(c, a) ==
  LET job == jobs[c]
      new == job.game # Nothing
      e == job.row.edition
  IN  /\ job.op = "insert"
      /\ Ends(c)
      /\ \/ /\ artifacts[a] = Nothing
            /\ IF new THEN games[job.game] # Nothing /\ editions[e] = Nothing
                      ELSE editions[e] # Nothing
            /\ Unique(a, job.row.path, job.row.content)
            /\ artifacts' = [artifacts EXCEPT ![a] = job.row]
            /\ editions' = IF new THEN [editions EXCEPT ![e] = job.game] ELSE editions
            /\ games' = IF new THEN Gained(games, job.game, e) ELSE games
            /\ \E text \in Titled :
                 titles' = IF new THEN [titles EXCEPT ![e] = text] ELSE titles
         \/ UNCHANGED <<artifacts, editions, games, titles>>
      /\ UNCHANGED <<relations, files, edits>>

\* updateArtifact: the row is read and the file hashed; the path of a managed
\* one stays, and a managed file may be missing.
HashKnownArtifact(c, a, path) ==
  /\ Edit
  /\ artifacts[a] # Nothing
  /\ IF artifacts[a].path \in ManagedPaths THEN path = artifacts[a].path
                                           ELSE ReadFile(path)
  /\ Starts(c, [op |-> "update", id |-> a, path |-> path,
                content |-> disk[path], rest |-> <<>>])
  /\ OnlyJobs

\* recheckArtifacts lists every row, then takes one after another.
ListArtifacts(c) ==
  /\ Edit
  /\ Present(artifacts) # {}
  /\ Starts(c, [op |-> "recheck", rest |-> Restrict(artifacts, Present(artifacts))])
  /\ OnlyJobs

\* recheckArtifact of a row of the list; a library file that is missing is an
\* error, and ends the recheck.
HashListedArtifact(c, a) ==
  LET rest == jobs[c].rest
      path == rest[a].path
  IN  /\ jobs[c].op = "recheck" /\ a \in DOMAIN rest
      /\ IF path \in LibraryPaths /\ ~ReadFile(path) THEN Ends(c)
         ELSE Goes(c, [op |-> "update", id |-> a, path |-> path,
                       content |-> disk[path],
                       rest |-> Restrict(rest, DOMAIN rest \ {a})])
      /\ OnlyJobs /\ UNCHANGED edits

HashOnly(row, path, content) == Row(row.edition, row.path, content)   \* mutant

Written(row, path, content) == Row(row.edition, path, content)
UpdateArtifact(c) ==
  LET job == jobs[c]
      fits == /\ artifacts[job.id] # Nothing
              /\ Unique(job.id, job.path, job.content)
  IN  /\ job.op = "update"
      /\ artifacts' = IF fits
           THEN [artifacts EXCEPT ![job.id] = Written(@, job.path, job.content)]
           ELSE artifacts
      /\ IF fits /\ DOMAIN job.rest # {}
           THEN Goes(c, [op |-> "recheck", rest |-> job.rest]) ELSE Ends(c)
      /\ UNCHANGED <<games, metadata, editions, files, edits>>

DeleteArtifact(a) ==
  /\ Edit
  /\ artifacts[a] # Nothing
  /\ artifacts' = [artifacts EXCEPT ![a] = Nothing]
  /\ UNCHANGED <<games, metadata, editions, files, jobs>>

-----------------------------------------------------------------------------
(* Scans *)

Known(path, content) ==
  \E a \in Present(artifacts) :
    artifacts[a].path = path \/ artifacts[a].content = content

\* DiscoverWithRegistry: the files nobody knows.
Discover(c) ==
  LET candidates == {path \in LibraryPaths : ReadFile(path) /\ ~Known(path, disk[path])}
  IN  /\ Edit
      /\ candidates # {}
      /\ Starts(c, [op |-> "scan", found |-> Restrict(disk, candidates)])
      /\ OnlyJobs

\* commitCandidates: importGameTx makes a game of each, without titles of its
\* own, unless it is known by then.
ImportGame(c, path, g, e, a) ==
  LET found == jobs[c].found
      others == Restrict(found, DOMAIN found \ {path})
  IN  /\ jobs[c].op = "scan" /\ path \in DOMAIN found
      /\ IF DOMAIN others = {} THEN Ends(c)
                               ELSE Goes(c, [op |-> "scan", found |-> others])
      /\ \/ /\ Known(path, found[path])
            /\ UNCHANGED <<games, editions, artifacts>>
         \/ /\ ~Known(path, found[path])
            /\ games[g] = Nothing /\ editions[e] = Nothing /\ artifacts[a] = Nothing
            /\ \E p \in Platforms :
                 games' = [games EXCEPT ![g] = [platform |-> p, primary |-> e]]
            /\ editions' = [editions EXCEPT ![e] = g]
            /\ artifacts' = [artifacts EXCEPT ![a] = Row(e, path, found[path])]
      /\ UNCHANGED <<metadata, files, edits>>

\* A file is replaced, removed or put back.
ChangeFile(path) ==
  /\ Edit
  /\ \E content \in FileContents \cup {Nothing} :
       /\ disk' = [disk EXCEPT ![path] = content]
       /\ seen' = seen \cup {<<path, content>>}
  /\ UNCHANGED <<games, metadata, editions, artifacts, jobs>>

\* A request ends early: its client left, or the service stopped.
CutOff(c) ==
  /\ jobs[c] # NoJob
  /\ Ends(c)
  /\ OnlyJobs /\ UNCHANGED edits
-----------------------------------------------------------------------------
\* An empty library, or one with all games, of which an import brought one
\* with a managed file.
LibraryInit ==
  /\ disk \in [Paths -> FileContents \cup {Nothing}]
  /\ \/ /\ games = [g \in Games |-> Nothing]
        /\ editions = [e \in Editions |-> Nothing]
        /\ artifacts = [a \in Artifacts |-> Nothing]
     \/ \E g \in Games, e \in Editions, a \in Artifacts, p \in Platforms, path \in ManagedPaths :
          /\ disk[path] # Nothing
          /\ games = [x \in Games |->
                        [platform |-> p, primary |-> IF x = g THEN e ELSE Nothing]]
          /\ editions = [[x \in Editions |-> Nothing] EXCEPT ![e] = g]
          /\ artifacts = [[x \in Artifacts |-> Nothing] EXCEPT ![a] = Row(e, path, disk[path])]
  /\ titles = [x \in Games \cup Editions |-> Nothing]
  /\ members = [m \in Series \X Games |-> Nothing]
  /\ seen = {<<path, disk[path]>> : path \in Paths}
  /\ review = NoReview
  /\ jobs = [c \in Callers |-> NoJob]
  /\ edits = 0

GameStep ==
  \/ \E g \in Games : CreateGame(g) \/ UpdateGame(g) \/ DeleteWhole(g)
  \/ \E g \in Games, e \in Editions : AddEdition(g, e) \/ MoveEdition(e, g)
  \/ \E e \in Editions : UpdateEdition(e) \/ Delete(e)
  \/ \E s, t \in Games : MergeUnseen(t, s) \/ PreviewGameMerge(t, s)
  \/ MergeReviewed
  \/ \E series \in Series, g \in Games :
       PutSeriesMember(series, g) \/ DeleteSeriesMember(series, g)
  \/ \E series \in Series : UpdateSeries(series)

FileStep ==
  \/ \E path \in Paths : ChangeFile(path)
  \/ \E a \in Artifacts : DeleteArtifact(a)

JobStep(c) ==
  \/ \E g \in Games, e \in Editions : CheckPrimary(c, g, e)
  \/ SetPrimaryEdition(c)
  \/ \E g \in Games \cup {Nothing}, e \in Editions, path \in Paths :
       HashNewArtifact(c, g, e, path)
  \/ \E a \in Artifacts : AddArtifact(c, a) \/ HashListedArtifact(c, a)
  \/ \E a \in Artifacts, path \in Paths : HashKnownArtifact(c, a, path)
  \/ ListArtifacts(c) \/ UpdateArtifact(c)
  \/ Discover(c)
  \/ \E path \in Paths, g \in Games, e \in Editions, a \in Artifacts :
       ImportGame(c, path, g, e, a)
  \/ CutOff(c)

LibraryNext == GameStep \/ FileStep \/ \E c \in Callers : JobStep(c)

LibrarySpec == LibraryInit /\ [][LibraryNext]_libraryVars

-----------------------------------------------------------------------------
(* Properties *)

\* Every edition is of a game there is, every artifact of an edition there
\* is, every member of a series a game there is.
LibraryTypeOK ==
  /\ \A g \in Present(games) : games[g].primary \in Editions \cup {Nothing}
  /\ \A e \in Present(editions) : games[editions[e]] # Nothing
  /\ \A a \in Present(artifacts) : editions[artifacts[a].edition] # Nothing
  /\ \A m \in Present(members) : games[m[2]] # Nothing

HasOwnPrimary(g) ==
  games[g] # Nothing => IF EditionsOf(g) = {} THEN games[g].primary = Nothing
                        ELSE games[g].primary \in EditionsOf(g)

\* A game has one of its own editions as primary, if it has any.  Moves,
\* merges, deletions and imports keep it so; only SetPrimaryEdition, which
\* checks and then writes, takes it away, when the edition left in between.
PrimaryIsLostByLateChoiceOnly ==
  [][\A g \in Games :
       HasOwnPrimary(g) /\ ~HasOwnPrimary(g)'
         /\ (\A h \in Games : HasOwnPrimary(h))
         => \E c \in Callers : jobs[c].op = "primary" /\ jobs'[c] = NoJob
    ]_libraryVars

\* What the target of a merge has, or else what the source had.
Prevails(own, other) == IF own # Nothing THEN own ELSE other

\* "A stale review therefore produces zero writes": after a merge by preview
\* the target holds the editions, their titles and the files the person saw on
\* the two games, and the title and primary edition seen on the target or, where
\* it had none, those of the source, whatever happened between the preview and
\* the confirmation.
MergeIsAsReviewed ==
  [][\A t \in Games : review.target = t /\ review' = NoReview
       => LET graph == review.graph
          IN  /\ EditionsOf(t)' = DOMAIN graph.editions
              /\ Restrict(artifacts', ArtifactsOf(EditionsOf(t))') = graph.artifacts
              /\ \A e \in DOMAIN graph.editions : titles'[e] = graph.titles[e]
              /\ titles'[t] = Prevails(graph.titles[t], graph.titles[review.source])
              /\ games'[t].primary =
                   Prevails(graph.games[1].primary, graph.games[2].primary)
    ]_libraryVars

\* The content a row names was read from the path the row names, however the
\* recheck of one request, the update of another and the change of the file
\* follow one another.
HashIsOfItsPath ==
  \A a \in Present(artifacts) : <<artifacts[a].path, artifacts[a].content>> \in seen
=============================================================================
