--------------------------- MODULE ContentProofs ---------------------------
(***************************************************************************)
(* Theorems about Library, for any games, editions, files, series, callers *)
(* and order of the editions, and about PackageBuild, for any sources and  *)
(* paths of theirs, platforms, contents, plans and builds.                 *)
(***************************************************************************)
EXTENDS Library, PackageBuild, TLAPS

-----------------------------------------------------------------------------
(* The inductive invariant                                                    *)

GameRow == [platform : Platforms, primary : Editions \cup {Nothing}]
ArtifactRow == [edition : Editions, path : Paths, content : FileContents \cup {Nothing}]

\* The tables, and what a person holds of a preview.
TablesOK ==
  /\ games \in [Games -> GameRow \cup {Nothing}]
  /\ editions \in [Editions -> Games \cup {Nothing}]
  /\ artifacts \in [Artifacts -> ArtifactRow \cup {Nothing}]
  /\ members = [m \in Series \X Games |-> members[m]]
  /\ review = NoReview \/ (review.target \in Games /\ review.source \in Games)

\* The foreign keys.
References ==
  /\ \A e \in Editions : editions[e] # Nothing => games[editions[e]] # Nothing
  /\ \A a \in Artifacts : artifacts[a] # Nothing => editions[artifacts[a].edition] # Nothing
  /\ \A m \in Series \X Games : members[m] # Nothing => games[m[2]] # Nothing

\* What is at a path now was there before, and what a row says was.
FilesSeen ==
  /\ disk \in [Paths -> FileContents \cup {Nothing}]
  /\ \A p \in Paths : <<p, disk[p]>> \in seen
  /\ HashIsOfItsPath

\* The rows a recheck has still to take.
RestOK(rest) == \A a \in DOMAIN rest : a \in Artifacts /\ rest[a] \in ArtifactRow

\* A handler that hashed a file carries the path it read along with the content.
JobFits(job, pairs) ==
  /\ job.op = "primary" => job.game \in Games /\ job.edition \in Editions
  /\ job.op = "insert" => /\ job.game \in Games \cup {Nothing}
                          /\ job.row \in ArtifactRow
                          /\ <<job.row.path, job.row.content>> \in pairs
  /\ job.op = "update" => /\ job.id \in Artifacts
                          /\ job.path \in Paths
                          /\ job.content \in FileContents \cup {Nothing}
                          /\ <<job.path, job.content>> \in pairs
                          /\ RestOK(job.rest)
  /\ job.op = "recheck" => RestOK(job.rest)
  /\ job.op = "scan" => \A p \in DOMAIN job.found :
                          /\ p \in Paths /\ job.found[p] \in FileContents \cup {Nothing}
                          /\ <<p, job.found[p]>> \in pairs

JobsFit == /\ jobs = [c \in Callers |-> jobs[c]]
           /\ \A c \in Callers : JobFits(jobs[c], seen)

LibraryInv == TablesOK /\ References /\ FilesSeen /\ JobsFit

TitlesOK == titles = [x \in Games \cup Editions |-> titles[x]]

-----------------------------------------------------------------------------
(* Jobs and files                                                             *)

LEMMA JobsStay ==
  ASSUME JobsFit, seen \subseteq seen', UNCHANGED jobs
  PROVE  JobsFit'
<1>1. ASSUME NEW job, JobFits(job, seen)
      PROVE  JobFits(job, seen')
  BY <1>1 DEF JobFits
<1> QED BY <1>1 DEF JobsFit

LEMMA JobBecomes ==
  ASSUME JobsFit, UNCHANGED seen, NEW c \in Callers, NEW job, JobFits(job, seen),
         jobs' = [jobs EXCEPT ![c] = job]
  PROVE  JobsFit'
BY DEF JobsFit

LEMMA NoJobFits == JobFits(NoJob, seen)
BY DEF JobFits, NoJob

LEMMA RowsAreSeen ==
  ASSUME TablesOK, FilesSeen
  PROVE  \A a \in Artifacts :
           artifacts[a] # Nothing => <<artifacts[a].path, artifacts[a].content>> \in seen
BY DEF TablesOK, FilesSeen, HashIsOfItsPath, Present

LEMMA FilesStaySeen ==
  ASSUME FilesSeen, TablesOK', UNCHANGED files,
         \A a \in Artifacts :
           artifacts'[a] # Nothing => <<artifacts'[a].path, artifacts'[a].content>> \in seen
  PROVE  FilesSeen'
BY DEF TablesOK, FilesSeen, HashIsOfItsPath, Present, files

\* A step that writes no row of a file and changes no file.
LEMMA FilesUntouched ==
  ASSUME TablesOK, FilesSeen, TablesOK', UNCHANGED files,
         \A a \in Artifacts : artifacts'[a] \in {artifacts[a], Nothing}
  PROVE  FilesSeen'
BY RowsAreSeen, FilesStaySeen

-----------------------------------------------------------------------------
(* Primary editions                                                           *)

\* HasOwnPrimary of a game, said of a table of games and one of editions.
Own(gs, es, g) ==
  gs[g] # Nothing =>
    \/ gs[g].primary = Nothing /\ \A e \in Editions : es[e] # g
    \/ gs[g].primary \in Editions /\ es[gs[g].primary] = g

AllOwn(gs, es) == \A g \in Games : Own(gs, es, g)

LEMMA OwnIsHasOwnPrimary ==
  /\ TablesOK => \A g \in Games : HasOwnPrimary(g) <=> Own(games, editions, g)
  /\ TablesOK' => \A g \in Games : HasOwnPrimary(g)' <=> Own(games', editions', g)
BY LibraryAssumption DEF TablesOK, HasOwnPrimary, Own, EditionsOf, Present

LEMMA RowIsSomething == Nothing \notin GameRow
BY LibraryAssumption DEF GameRow

\* The query for the first edition finds one when there is any.
LEMMA FirstOfSome ==
  ASSUME NEW es \in SUBSET Editions
  PROVE  IF es = {} THEN FirstOf(es) = Nothing ELSE FirstOf(es) \in es
<1>1. CASE es = {}
  BY <1>1 DEF FirstOf
<1>2. CASE es # {}
  <2>1. \E e \in es : \A f \in es \ {e} : SortsBefore(e, f)
    BY <1>2, LibraryAssumption
  <2> QED BY <1>2, <2>1, Zenon DEF FirstOf
<1> QED BY <1>1, <1>2

\* A game that gains an edition keeps its primary one or takes this one.
LEMMA GainedRow ==
  ASSUME NEW table \in [Games -> GameRow \cup {Nothing}], NEW g \in Games,
         table[g] # Nothing, NEW e \in Editions
  PROVE  /\ Gained(table, g, e) \in [Games -> GameRow \cup {Nothing}]
         /\ \A h \in Games \ {g} : Gained(table, g, e)[h] = table[h]
         /\ Gained(table, g, e)[g] \in GameRow
         /\ Gained(table, g, e)[g].primary =
              IF table[g].primary = Nothing THEN e ELSE table[g].primary
<1>1. table[g] \in GameRow
  OBVIOUS
<1>2. [table[g] EXCEPT !.primary = IF @ = Nothing THEN e ELSE @] \in GameRow
  BY <1>1 DEF GameRow
<1>3. Gained(table, g, e) =
        [table EXCEPT ![g] = [table[g] EXCEPT !.primary = IF @ = Nothing THEN e ELSE @]]
  BY DEF Gained
<1> QED BY <1>1, <1>2, <1>3 DEF GameRow

\* A game that loses an edition keeps its primary one or takes the first that is left.
LEMMA LostRow ==
  ASSUME TablesOK, NEW g \in Games, games[g] # Nothing, NEW e, NEW rest \in SUBSET Editions
  PROVE  /\ Lost(g, e, rest) \in [Games -> GameRow \cup {Nothing}]
         /\ \A h \in Games \ {g} : Lost(g, e, rest)[h] = games[h]
         /\ Lost(g, e, rest)[g] \in GameRow
         /\ Lost(g, e, rest)[g].primary =
              IF games[g].primary = e THEN FirstOf(rest) ELSE games[g].primary
<1>1. games[g] \in GameRow
  BY DEF TablesOK
<1>2. [games[g] EXCEPT !.primary = IF @ = e THEN FirstOf(rest) ELSE @] \in GameRow
  BY <1>1, FirstOfSome DEF GameRow
<1>3. Lost(g, e, rest) =
        [games EXCEPT ![g] = [games[g] EXCEPT !.primary = IF @ = e THEN FirstOf(rest) ELSE @]]
  BY DEF Lost
<1> QED BY <1>1, <1>2, <1>3 DEF GameRow, TablesOK

-----------------------------------------------------------------------------
(* What the steps do to the tables: rows stay well formed, references hold,   *)
(* and games that have primary editions of their own keep them.               *)

TablesKept == /\ TablesOK' /\ References'
              /\ AllOwn(games, editions) => AllOwn(games', editions')

LEMMA TablesUntouched ==
  ASSUME TablesOK, References, UNCHANGED <<games, editions, artifacts, members, review>>
  PROVE  TablesKept
BY DEF TablesKept, TablesOK, References, AllOwn, Own

LEMMA CreateGameKeeps ==
  ASSUME TablesOK, References, NEW g \in Games, CreateGame(g)
  PROVE  TablesKept
<1> USE DEF TablesOK
<1>1. PICK p \in Platforms :
        games' = [games EXCEPT ![g] = [platform |-> p, primary |-> Nothing]]
  BY DEF CreateGame
<1>2. [platform |-> p, primary |-> Nothing] \in GameRow
  BY DEF GameRow
<1>3. UNCHANGED <<editions, artifacts, members, review>> /\ games[g] = Nothing
  BY DEF CreateGame
<1>4. TablesOK'
  BY <1>1, <1>2, <1>3
<1>5. \A h \in Games : games[h] # Nothing => games'[h] = games[h]
  BY <1>1, <1>3
<1>6. References'
  BY <1>3, <1>5 DEF References
<1>7. AllOwn(games, editions) => AllOwn(games', editions')
  <2>1. Own(games', editions', g)
    BY <1>1, <1>3, LibraryAssumption DEF References, Own
  <2>2. ASSUME NEW h \in Games, h # g, Own(games, editions, h)
        PROVE  Own(games', editions', h)
    BY <1>1, <1>3, <2>2 DEF Own
  <2> QED BY <2>1, <2>2 DEF AllOwn
<1> QED BY <1>4, <1>6, <1>7 DEF TablesKept

LEMMA UpdateGameKeeps ==
  ASSUME TablesOK, References, NEW g \in Games, UpdateGame(g)
  PROVE  TablesKept
<1> USE DEF TablesOK
<1>1. PICK p \in Platforms : games' = [games EXCEPT ![g].platform = p]
  BY DEF UpdateGame
<1>2. games[g] \in GameRow /\ UNCHANGED <<editions, artifacts, members, review>>
  BY DEF UpdateGame
<1>3. games'[g] \in GameRow /\ games'[g].primary = games[g].primary
  BY <1>1, <1>2 DEF GameRow
<1>4. \A h \in Games \ {g} : games'[h] = games[h]
  BY <1>1
<1>5. TablesOK'
  BY <1>1, <1>2, <1>3, <1>4
<1>6. References'
  BY <1>2, <1>3, <1>4, RowIsSomething DEF References
<1>7. AllOwn(games, editions) => AllOwn(games', editions')
  BY <1>2, <1>3, <1>4, RowIsSomething DEF AllOwn, Own
<1> QED BY <1>5, <1>6, <1>7 DEF TablesKept

LEMMA AddEditionKeeps ==
  ASSUME TablesOK, References, NEW g \in Games, NEW e \in Editions,
         games[g] # Nothing, editions[e] = Nothing,
         editions' = [editions EXCEPT ![e] = g],
         games' = Gained(games, g, e),
         artifacts' \in [Artifacts -> ArtifactRow \cup {Nothing}],
         \A a \in Artifacts : artifacts'[a] # Nothing =>
           editions[artifacts'[a].edition] # Nothing \/ artifacts'[a].edition = e,
         UNCHANGED <<members, review>>
  PROVE  TablesKept
<1> USE DEF TablesOK
<1>1. /\ games' \in [Games -> GameRow \cup {Nothing}]
      /\ \A h \in Games \ {g} : games'[h] = games[h]
      /\ games'[g] \in GameRow
      /\ games'[g].primary = IF games[g].primary = Nothing THEN e ELSE games[g].primary
  BY GainedRow
<1>2. TablesOK'
  BY <1>1
<1>3. \A h \in Games : games[h] # Nothing => games'[h] # Nothing
  BY <1>1, RowIsSomething
<1>4. \A f \in Editions : editions[f] # Nothing => f # e /\ editions'[f] = editions[f]
  OBVIOUS
<1>5. References'
  <2>1. \A f \in Editions : editions'[f] # Nothing => games'[editions'[f]] # Nothing
    BY <1>3 DEF References
  <2>2. \A a \in Artifacts : artifacts'[a] # Nothing => editions'[artifacts'[a].edition] # Nothing
    BY <1>4, LibraryAssumption DEF ArtifactRow
  <2>3. \A m \in Series \X Games : members'[m] # Nothing => games'[m[2]] # Nothing
    BY <1>3 DEF References
  <2> QED BY <2>1, <2>2, <2>3 DEF References
<1>6. ASSUME AllOwn(games, editions)
      PROVE  AllOwn(games', editions')
  <2>1. Own(games, editions, g)
    BY <1>6 DEF AllOwn
  <2>2. Own(games', editions', g)
    BY <1>1, <1>4, <2>1, LibraryAssumption DEF Own
  <2>3. ASSUME NEW h \in Games, h # g, Own(games, editions, h)
        PROVE  Own(games', editions', h)
    <3>1. \A f \in Editions : editions'[f] = h <=> editions[f] = h
      BY <2>3, LibraryAssumption
    <3> QED BY <1>1, <2>3, <3>1 DEF Own
  <2> QED BY <1>6, <2>2, <2>3 DEF AllOwn
<1> QED BY <1>2, <1>5, <1>6 DEF TablesKept

LEMMA MoveEditionKeeps ==
  ASSUME TablesOK, References, NEW e \in Editions, NEW t \in Games, MoveEdition(e, t)
  PROVE  TablesKept
<1> DEFINE s == editions[e]
           rest == EditionsOf(s) \ {e}
           lost == Lost(s, e, rest)
<1> USE DEF TablesOK
<1>1. /\ s \in Games /\ s # t /\ games[s] # Nothing /\ games[t] # Nothing
      /\ editions' = [editions EXCEPT ![e] = t]
      /\ games' = Gained(lost, t, e)
      /\ UNCHANGED <<artifacts, members, review>>
  BY DEF MoveEdition, References, metadata
<1>2. rest \in SUBSET Editions /\ rest = {f \in Editions \ {e} : editions[f] = s}
  BY <1>1, LibraryAssumption DEF EditionsOf, Present
<1> HIDE DEF s, rest, lost
<1>3. /\ lost \in [Games -> GameRow \cup {Nothing}]
      /\ \A h \in Games \ {s} : lost[h] = games[h]
      /\ lost[s] \in GameRow
      /\ lost[s].primary = IF games[s].primary = e THEN FirstOf(rest) ELSE games[s].primary
  BY <1>1, <1>2, LostRow DEF lost
<1>4. /\ games' \in [Games -> GameRow \cup {Nothing}]
      /\ \A h \in Games \ {s, t} : games'[h] = games[h]
      /\ games'[t] \in GameRow
      /\ games'[t].primary = IF games[t].primary = Nothing THEN e ELSE games[t].primary
      /\ games'[s] = lost[s]
  BY <1>1, <1>3, GainedRow
<1>5. \A h \in Games : games[h] # Nothing => games'[h] # Nothing
  BY <1>3, <1>4, RowIsSomething
<1>6. TablesOK'
  BY <1>1, <1>4
<1>7. References'
  BY <1>1, <1>5, LibraryAssumption DEF References, ArtifactRow
<1>8. ASSUME AllOwn(games, editions)
      PROVE  AllOwn(games', editions')
  <2>1. editions[e] = s /\ editions'[e] = t
    BY <1>1 DEF s
  <2>2. \A f \in Editions \ {e} : editions'[f] = editions[f]
    BY <1>1
  <2>3. Own(games', editions', s)
    <3>1. Own(games, editions, s)
      BY <1>1, <1>8 DEF AllOwn
    <3>2. CASE games[s].primary # e
      <4>1. games[s].primary \in Editions /\ editions[games[s].primary] = s
        BY <1>1, <2>1, <3>1 DEF Own
      <4> QED BY <1>3, <1>4, <2>2, <3>2, <4>1 DEF Own
    <3>3. CASE games[s].primary = e
      <4>1. games'[s].primary = FirstOf(rest)
        BY <1>3, <1>4, <3>3
      <4>2. CASE rest = {}
        <5>1. \A f \in Editions : editions'[f] # s
          BY <1>1, <1>2, <2>1, <2>2, <4>2
        <5> QED BY <1>2, <4>1, <4>2, <5>1, FirstOfSome DEF Own
      <4>3. CASE rest # {}
        <5>1. FirstOf(rest) \in rest
          BY <1>2, <4>3, FirstOfSome
        <5> QED BY <1>2, <2>2, <4>1, <5>1 DEF Own
      <4> QED BY <4>2, <4>3
    <3> QED BY <3>2, <3>3
  <2>4. Own(games', editions', t)
    <3>1. Own(games, editions, t)
      BY <1>8 DEF AllOwn
    <3> QED BY <1>1, <1>4, <2>1, <2>2, <3>1, LibraryAssumption DEF Own
  <2>5. ASSUME NEW h \in Games \ {s, t}
        PROVE  Own(games', editions', h)
    <3>1. Own(games, editions, h)
      BY <1>8 DEF AllOwn
    <3> QED BY <1>4, <2>1, <2>2, <2>5, <3>1 DEF Own
  <2> QED BY <2>3, <2>4, <2>5 DEF AllOwn
<1> QED BY <1>6, <1>7, <1>8 DEF TablesKept

\* The rows that go with a set of editions.
LEMMA WithoutEditionsKeeps ==
  ASSUME TablesOK, References, NEW es \in SUBSET Editions, WithoutEditions(es)
  PROVE  /\ editions' \in [Editions -> Games \cup {Nothing}]
         /\ artifacts' \in [Artifacts -> ArtifactRow \cup {Nothing}]
         /\ \A e \in Editions : editions'[e] = IF e \in es THEN Nothing ELSE editions[e]
         /\ \A a \in Artifacts : artifacts'[a] \in {artifacts[a], Nothing}
         /\ \A a \in Artifacts :
              artifacts'[a] # Nothing => editions'[artifacts'[a].edition] # Nothing
<1> USE DEF TablesOK, WithoutEditions
<1>1. \A a \in Artifacts :
        artifacts'[a] = IF artifacts[a] # Nothing /\ artifacts[a].edition \in es
                        THEN Nothing ELSE artifacts[a]
  BY DEF ArtifactsOf, Present
<1>2. \A e \in Editions : editions'[e] = IF e \in es THEN Nothing ELSE editions[e]
  OBVIOUS
<1>3. \A a \in Artifacts :
        artifacts'[a] # Nothing => editions'[artifacts'[a].edition] # Nothing
  BY <1>1, <1>2 DEF References, ArtifactRow
<1> QED BY <1>1, <1>2, <1>3

LEMMA DeleteEditionKeeps ==
  ASSUME TablesOK, References, NEW e \in Editions, DeleteEdition(e)
  PROVE  TablesKept /\ \A a \in Artifacts : artifacts'[a] \in {artifacts[a], Nothing}
<1> DEFINE s == editions[e]
           rest == EditionsOf(s) \ {e}
<1> USE DEF TablesOK
<1>1. /\ s \in Games /\ games[s] # Nothing /\ WithoutEditions({e})
      /\ games' = Lost(s, e, rest) /\ UNCHANGED <<members, review>>
  BY DEF DeleteEdition, References, relations
<1>2. rest \in SUBSET Editions /\ rest = {f \in Editions \ {e} : editions[f] = s}
  BY <1>1, LibraryAssumption DEF EditionsOf, Present
<1>3. /\ editions' \in [Editions -> Games \cup {Nothing}]
      /\ artifacts' \in [Artifacts -> ArtifactRow \cup {Nothing}]
      /\ \A f \in Editions : editions'[f] = IF f = e THEN Nothing ELSE editions[f]
      /\ \A a \in Artifacts : artifacts'[a] \in {artifacts[a], Nothing}
      /\ \A a \in Artifacts :
           artifacts'[a] # Nothing => editions'[artifacts'[a].edition] # Nothing
  BY <1>1, WithoutEditionsKeeps
<1> HIDE DEF s, rest
<1>4. /\ games' \in [Games -> GameRow \cup {Nothing}]
      /\ \A h \in Games \ {s} : games'[h] = games[h]
      /\ games'[s] \in GameRow
      /\ games'[s].primary = IF games[s].primary = e THEN FirstOf(rest) ELSE games[s].primary
  BY <1>1, <1>2, LostRow
<1>5. TablesOK'
  BY <1>1, <1>3, <1>4
<1>6. \A h \in Games : games[h] # Nothing => games'[h] # Nothing
  BY <1>4, RowIsSomething
<1>7. References'
  BY <1>1, <1>3, <1>6 DEF References
<1>8. ASSUME AllOwn(games, editions)
      PROVE  AllOwn(games', editions')
  <2>1. editions[e] = s
    BY DEF s
  <2>2. Own(games', editions', s)
    <3>1. Own(games, editions, s)
      BY <1>1, <1>8 DEF AllOwn
    <3>2. CASE games[s].primary # e
      <4>1. games[s].primary \in Editions /\ editions[games[s].primary] = s
        BY <1>1, <2>1, <3>1 DEF Own
      <4> QED BY <1>3, <1>4, <3>2, <4>1 DEF Own
    <3>3. CASE games[s].primary = e
      <4>1. games'[s].primary = FirstOf(rest)
        BY <1>4, <3>3
      <4>2. CASE rest = {}
        <5>1. \A f \in Editions : editions'[f] # s
          BY <1>1, <1>2, <1>3, <4>2, LibraryAssumption
        <5> QED BY <1>2, <4>1, <4>2, <5>1, FirstOfSome DEF Own
      <4>3. CASE rest # {}
        <5>1. FirstOf(rest) \in rest
          BY <1>2, <4>3, FirstOfSome
        <5> QED BY <1>2, <1>3, <4>1, <5>1 DEF Own
      <4> QED BY <4>2, <4>3
    <3> QED BY <3>2, <3>3
  <2>3. ASSUME NEW h \in Games \ {s}
        PROVE  Own(games', editions', h)
    <3>1. Own(games, editions, h)
      BY <1>8 DEF AllOwn
    <3> QED BY <1>3, <1>4, <2>1, <2>3, <3>1, LibraryAssumption DEF Own
  <2> QED BY <2>2, <2>3 DEF AllOwn
<1> QED BY <1>3, <1>5, <1>7, <1>8 DEF TablesKept

LEMMA DeleteGameKeeps ==
  ASSUME TablesOK, References, NEW g \in Games, DeleteGame(g)
  PROVE  TablesKept /\ \A a \in Artifacts : artifacts'[a] \in {artifacts[a], Nothing}
<1> USE DEF TablesOK
<1>1. EditionsOf(g) = {e \in Editions : editions[e] = g}
  BY LibraryAssumption DEF EditionsOf, Present
<1>2. /\ editions' \in [Editions -> Games \cup {Nothing}]
      /\ artifacts' \in [Artifacts -> ArtifactRow \cup {Nothing}]
      /\ \A e \in Editions : editions'[e] = IF editions[e] = g THEN Nothing ELSE editions[e]
      /\ \A a \in Artifacts : artifacts'[a] \in {artifacts[a], Nothing}
      /\ \A a \in Artifacts :
           artifacts'[a] # Nothing => editions'[artifacts'[a].edition] # Nothing
  BY <1>1, WithoutEditionsKeeps DEF DeleteGame
<1>3. /\ games' = [games EXCEPT ![g] = Nothing]
      /\ members' = [m \in Series \X Games |-> IF m[2] = g THEN Nothing ELSE members[m]]
      /\ UNCHANGED review
  BY DEF DeleteGame
<1>4. TablesOK'
  BY <1>2, <1>3
<1>5. References'
  <2>1. \A e \in Editions : editions'[e] # Nothing => games'[editions'[e]] # Nothing
    BY <1>2, <1>3 DEF References
  <2>2. ASSUME NEW m \in Series \X Games, members'[m] # Nothing
        PROVE  games'[m[2]] # Nothing
    BY <1>3, <2>2 DEF References
  <2> QED BY <1>2, <2>1, <2>2 DEF References
<1>6. AllOwn(games, editions) => AllOwn(games', editions')
  BY <1>2, <1>3, LibraryAssumption DEF AllOwn, Own
<1> QED BY <1>2, <1>4, <1>5, <1>6 DEF TablesKept

LEMMA MergeGamesKeeps ==
  ASSUME TablesOK, References, NEW t \in Games, NEW s \in Games, MergeGames(t, s),
         review' = review \/ review' = NoReview
  PROVE  TablesKept /\ \A a \in Artifacts : artifacts'[a] \in {artifacts[a], Nothing}
<1> USE DEF TablesOK
<1>1. t # s /\ games[t] # Nothing /\ games[s] # Nothing
  BY DEF MergeGames, Mergeable
<1>2. editions' = [e \in Editions |-> IF editions[e] = s THEN t ELSE editions[e]]
  BY DEF MergeGames, MovedEditions
<1>3. \A a \in Artifacts :
        artifacts'[a] = IF artifacts[a] # Nothing /\ editions'[artifacts[a].edition] = Nothing
                        THEN Nothing ELSE artifacts[a]
  BY DEF MergeGames
<1>4. games' = [games EXCEPT ![t].primary = IF @ = Nothing THEN games[s].primary ELSE @,
                             ![s] = Nothing]
  BY DEF MergeGames
<1>5. games[t] \in GameRow /\ games[s] \in GameRow
  BY <1>1
<1>6. /\ games'[s] = Nothing /\ games'[t] \in GameRow
      /\ games'[t].primary = IF games[t].primary = Nothing THEN games[s].primary
                                                        ELSE games[t].primary
      /\ \A h \in Games \ {s, t} : games'[h] = games[h]
      /\ DOMAIN games' = Games /\ games' = [h \in Games |-> games'[h]]
  BY <1>1, <1>4, <1>5 DEF GameRow
<1>7. members' = [m \in Series \X Games |->
                    IF m[2] = s THEN Nothing
                    ELSE IF m[2] = t /\ members[m] = Nothing THEN members[<<m[1], s>>]
                    ELSE members[m]]
  BY DEF MergeGames, MovedMembers
<1>8. TablesOK'
  <2>1. games' \in [Games -> GameRow \cup {Nothing}]
    BY <1>6
  <2>2. artifacts' \in [Artifacts -> ArtifactRow \cup {Nothing}]
    BY <1>3 DEF MergeGames
  <2> QED BY <1>2, <1>7, <2>1, <2>2
<1>9. References'
  <2>1. \A e \in Editions : editions'[e] # Nothing => games'[editions'[e]] # Nothing
    BY <1>1, <1>2, <1>6, RowIsSomething DEF References
  <2>2. \A a \in Artifacts : artifacts'[a] # Nothing => editions'[artifacts'[a].edition] # Nothing
    BY <1>3
  <2>3. ASSUME NEW m \in Series \X Games, members'[m] # Nothing
        PROVE  games'[m[2]] # Nothing
    BY <1>6, <1>7, <2>3, RowIsSomething DEF References
  <2> QED BY <2>1, <2>2, <2>3 DEF References
<1>10. ASSUME AllOwn(games, editions)
       PROVE  AllOwn(games', editions')
  <2>1. Own(games, editions, t) /\ Own(games, editions, s)
    BY <1>10 DEF AllOwn
  <2>2. Own(games', editions', t)
    <3>1. CASE games[t].primary # Nothing
      BY <1>1, <1>2, <1>6, <2>1, <3>1, LibraryAssumption DEF Own
    <3>2. CASE games[t].primary = Nothing
      BY <1>1, <1>2, <1>6, <2>1, <3>2, LibraryAssumption DEF Own
    <3> QED BY <3>1, <3>2
  <2>3. Own(games', editions', s)
    BY <1>6 DEF Own
  <2>4. ASSUME NEW h \in Games \ {s, t}
        PROVE  Own(games', editions', h)
    <3>1. Own(games, editions, h)
      BY <1>10 DEF AllOwn
    <3> QED BY <1>2, <1>6, <3>1 DEF Own
  <2> QED BY <2>2, <2>3, <2>4 DEF AllOwn
<1> QED BY <1>3, <1>8, <1>9, <1>10 DEF TablesKept

LEMMA MembersKeep ==
  ASSUME TablesOK, References, UNCHANGED <<games, editions, artifacts, review>>,
         members' = [m \in Series \X Games |-> members'[m]],
         \A m \in Series \X Games :
           members'[m] # Nothing => members[m] # Nothing \/ games[m[2]] # Nothing
  PROVE  TablesKept
BY DEF TablesKept, TablesOK, References, AllOwn, Own

LEMMA SeriesStepKeeps ==
  ASSUME TablesOK, References, NEW series \in Series,
         \/ \E g \in Games : PutSeriesMember(series, g) \/ DeleteSeriesMember(series, g)
         \/ UpdateSeries(series)
  PROVE  TablesKept
<1> USE DEF TablesOK
<1>1. ASSUME NEW g \in Games, PutSeriesMember(series, g)
      PROVE  TablesKept
  <2>1. \A m \in Series \X Games :
          members'[m] = IF m = <<series, g>> THEN "member" ELSE members[m]
    BY <1>1 DEF PutSeriesMember
  <2>2. members' = [m \in Series \X Games |-> members'[m]]
    BY <1>1 DEF PutSeriesMember
  <2>3. games[g] # Nothing /\ <<series, g>>[2] = g
    BY <1>1 DEF PutSeriesMember
  <2>4. UNCHANGED <<games, editions, artifacts, review>>
    BY <1>1 DEF PutSeriesMember
  <2> QED BY <2>1, <2>2, <2>3, <2>4, MembersKeep
<1>2. ASSUME NEW g \in Games, DeleteSeriesMember(series, g)
      PROVE  TablesKept
  BY <1>2, MembersKeep DEF DeleteSeriesMember
<1>3. ASSUME UpdateSeries(series)
      PROVE  TablesKept
  <2>1. PICK gs \in SUBSET Present(games) :
          members' = [m \in DOMAIN members |->
                        IF m[1] # series THEN members[m]
                        ELSE IF m[2] \in gs THEN "replaced" ELSE Nothing]
    BY <1>3 DEF UpdateSeries
  <2>2. \A m \in Series \X Games :
          members'[m] # Nothing => members[m] # Nothing \/ games[m[2]] # Nothing
    BY <2>1 DEF Present
  <2> QED BY <1>3, <2>1, <2>2, MembersKeep DEF UpdateSeries
<1> QED BY <1>1, <1>2, <1>3

LEMMA SetPrimaryEditionKeeps ==
  ASSUME TablesOK, References, JobsFit, NEW c \in Callers, SetPrimaryEdition(c)
  PROVE  TablesOK' /\ References'
<1> DEFINE g == jobs[c].game
           e == jobs[c].edition
<1> USE DEF TablesOK
<1>1. /\ g \in Games /\ e \in Editions
      /\ games' = IF games[g] = Nothing THEN games ELSE [games EXCEPT ![g].primary = e]
      /\ UNCHANGED <<editions, artifacts, members, review>>
  BY DEF SetPrimaryEdition, JobsFit, JobFits, metadata
<1> HIDE DEF g, e
<1>2. ASSUME games[g] # Nothing
      PROVE  [games[g] EXCEPT !.primary = e] \in GameRow
  BY <1>1, <1>2 DEF GameRow
<1>3. /\ games' \in [Games -> GameRow \cup {Nothing}]
      /\ \A h \in Games : games[h] # Nothing => games'[h] # Nothing
  BY <1>1, <1>2, RowIsSomething
<1> QED BY <1>1, <1>3 DEF References

\* The row a handler inserts is of the file it hashed.
LEMMA AddArtifactKeeps ==
  ASSUME LibraryInv, NEW c \in Callers, NEW a \in Artifacts, AddArtifact(c, a)
  PROVE  TablesKept /\ FilesSeen'
<1> DEFINE job == jobs[c]
           e == job.row.edition
<1> USE DEF TablesOK
<1>1. TablesOK /\ References /\ FilesSeen /\ JobsFit
  BY DEF LibraryInv
<1>2. /\ job.game \in Games \cup {Nothing} /\ job.row \in ArtifactRow
      /\ e \in Editions /\ <<job.row.path, job.row.content>> \in seen
  BY <1>1 DEF AddArtifact, JobsFit, JobFits, ArtifactRow
<1>3. UNCHANGED <<members, review, disk, seen>>
  BY DEF AddArtifact, relations, files
<1>4. CASE UNCHANGED <<artifacts, editions, games>>
  BY <1>1, <1>3, <1>4, TablesUntouched, FilesUntouched DEF TablesKept, files
<1>5. CASE /\ artifacts[a] = Nothing
           /\ artifacts' = [artifacts EXCEPT ![a] = job.row]
           /\ IF job.game # Nothing THEN games[job.game] # Nothing /\ editions[e] = Nothing
                                    ELSE editions[e] # Nothing
           /\ editions' = IF job.game # Nothing THEN [editions EXCEPT ![e] = job.game]
                                                ELSE editions
           /\ games' = IF job.game # Nothing THEN Gained(games, job.game, e) ELSE games
  <2>1. artifacts' \in [Artifacts -> ArtifactRow \cup {Nothing}]
    BY <1>1, <1>2, <1>5
  <2>2. \A b \in Artifacts : artifacts'[b] # Nothing =>
           \/ editions[artifacts'[b].edition] # Nothing
           \/ artifacts'[b].edition = e
    BY <1>1, <1>5 DEF References
  <2>3. ASSUME job.game # Nothing
        PROVE  TablesKept
    <3>1. /\ job.game \in Games /\ games[job.game] # Nothing /\ editions[e] = Nothing
          /\ editions' = [editions EXCEPT ![e] = job.game]
          /\ games' = Gained(games, job.game, e)
      BY <1>2, <1>5, <2>3
    <3>2. e \in Editions /\ UNCHANGED <<members, review>>
      BY <1>2, <1>3
    <3> HIDE DEF job, e, TablesOK
    <3> QED BY <1>1, <2>1, <2>2, <3>1, <3>2, AddEditionKeeps
  <2>4. ASSUME job.game = Nothing
        PROVE  TablesKept
    <3>1. References'
      BY <1>1, <1>3, <1>5, <2>2, <2>4 DEF References
    <3>2. UNCHANGED <<games, editions>>
      BY <1>5, <2>4
    <3>3. TablesOK'
      BY <1>1, <1>3, <2>1, <3>2
    <3>4. AllOwn(games, editions) => AllOwn(games', editions')
      BY <3>2
    <3> HIDE DEF TablesOK
    <3> QED BY <3>1, <3>3, <3>4 DEF TablesKept
  <2>5. TablesKept
    BY <2>3, <2>4
  <2>6. FilesSeen'
    BY <1>1, <1>2, <1>3, <1>5, <2>5, RowsAreSeen, FilesStaySeen DEF TablesKept, files
  <2> QED BY <2>5, <2>6
<1> QED BY <1>4, <1>5 DEF AddArtifact

\* What an update writes is a path and the content read there.
LEMMA UpdateArtifactKeeps ==
  ASSUME LibraryInv, NEW c \in Callers, UpdateArtifact(c)
  PROVE  TablesKept /\ FilesSeen'
<1> DEFINE job == jobs[c]
           new == Written(artifacts[job.id], job.path, job.content)
<1> USE DEF TablesOK
<1>1. TablesOK /\ References /\ FilesSeen /\ JobsFit
  BY DEF LibraryInv
<1>2. /\ job.id \in Artifacts /\ job.path \in Paths
      /\ job.content \in FileContents \cup {Nothing}
      /\ <<job.path, job.content>> \in seen
  BY <1>1 DEF UpdateArtifact, JobsFit, JobFits
<1>3. UNCHANGED <<games, editions, members, review, disk, seen>>
  BY DEF UpdateArtifact, metadata, files
<1>4. CASE UNCHANGED artifacts
  BY <1>1, <1>3, <1>4, TablesUntouched, FilesUntouched DEF TablesKept, files
<1>5. CASE artifacts[job.id] # Nothing /\ artifacts' = [artifacts EXCEPT ![job.id] = new]
  <2>1. artifacts[job.id] \in ArtifactRow
    BY <1>1, <1>2, <1>5
  <2>2. /\ new \in ArtifactRow /\ new.path = job.path /\ new.content = job.content
        /\ new.edition = artifacts[job.id].edition
    BY <1>2, <2>1 DEF Written, Row, ArtifactRow
  <2> HIDE DEF new
  <2>3. artifacts' \in [Artifacts -> ArtifactRow \cup {Nothing}]
    BY <1>1, <1>5, <2>2
  <2>4. \A b \in Artifacts : artifacts'[b] # Nothing =>
           artifacts[b] # Nothing /\ artifacts'[b].edition = artifacts[b].edition
    BY <1>1, <1>2, <1>5, <2>2
  <2>5. References'
    BY <1>1, <1>3, <2>4 DEF References
  <2>6. TablesKept
    BY <1>1, <1>3, <2>3, <2>5 DEF TablesKept, AllOwn, Own
  <2>7. FilesSeen'
    BY <1>1, <1>2, <1>3, <1>5, <2>2, <2>6, RowsAreSeen, FilesStaySeen DEF TablesKept, files
  <2> QED BY <2>6, <2>7
<1> QED BY <1>4, <1>5 DEF UpdateArtifact

LEMMA ImportGameKeeps ==
  ASSUME LibraryInv, NEW c \in Callers, NEW path \in Paths, NEW g \in Games,
         NEW e \in Editions, NEW a \in Artifacts, ImportGame(c, path, g, e, a)
  PROVE  TablesKept /\ FilesSeen'
<1> DEFINE found == jobs[c].found
           new == Row(e, path, found[path])
<1> USE DEF TablesOK
<1>1. TablesOK /\ References /\ FilesSeen /\ JobsFit
  BY DEF LibraryInv
<1>2. found[path] \in FileContents \cup {Nothing} /\ <<path, found[path]>> \in seen
  BY <1>1 DEF ImportGame, JobsFit, JobFits
<1>3. UNCHANGED <<members, review, disk, seen>>
  BY DEF ImportGame, metadata, files
<1>4. CASE UNCHANGED <<games, editions, artifacts>>
  BY <1>1, <1>3, <1>4, TablesUntouched, FilesUntouched DEF TablesKept, files
<1>5. ASSUME NEW p \in Platforms,
             games[g] = Nothing, editions[e] = Nothing, artifacts[a] = Nothing,
             games' = [games EXCEPT ![g] = [platform |-> p, primary |-> e]],
             editions' = [editions EXCEPT ![e] = g],
             artifacts' = [artifacts EXCEPT ![a] = new]
      PROVE  TablesKept /\ FilesSeen'
  <2>1. /\ new \in ArtifactRow /\ new.path = path /\ new.content = found[path]
        /\ new.edition = e
    BY <1>2 DEF Row, ArtifactRow
  <2>2. [platform |-> p, primary |-> e] \in GameRow
    BY DEF GameRow
  <2> HIDE DEF new, found
  <2>3. TablesOK'
    BY <1>1, <1>3, <1>5, <2>1, <2>2
  <2>4. /\ \A h \in Games \ {g} : games'[h] = games[h]
        /\ games'[g] # Nothing /\ games'[g].primary = e
    BY <1>1, <1>5, <2>2, RowIsSomething
  <2>5. /\ \A f \in Editions \ {e} : editions'[f] = editions[f]
        /\ editions'[e] = g /\ g # Nothing
    BY <1>1, <1>5, LibraryAssumption
  <2>6. References'
    <3>1. \A f \in Editions : editions'[f] # Nothing => games'[editions'[f]] # Nothing
      BY <1>1, <2>4, <2>5 DEF References
    <3>2. ASSUME NEW b \in Artifacts, artifacts'[b] # Nothing
          PROVE  editions'[artifacts'[b].edition] # Nothing
      <4>1. CASE b = a
        BY <1>1, <1>5, <2>1, <2>5, <4>1
      <4>2. CASE b # a
        BY <1>1, <1>5, <2>3, <2>5, <3>2, <4>2 DEF References, ArtifactRow
      <4> QED BY <4>1, <4>2
    <3>3. \A m \in Series \X Games : members'[m] # Nothing => games'[m[2]] # Nothing
      BY <1>1, <1>3, <2>4 DEF References
    <3> QED BY <3>1, <3>2, <3>3 DEF References
  <2>7. ASSUME AllOwn(games, editions)
        PROVE  AllOwn(games', editions')
    <3>1. Own(games', editions', g)
      BY <2>4, <2>5 DEF Own
    <3>2. ASSUME NEW h \in Games \ {g}
          PROVE  Own(games', editions', h)
      <4>1. Own(games, editions, h)
        BY <2>7 DEF AllOwn
      <4> QED BY <1>5, <2>4, <2>5, <3>2, <4>1, LibraryAssumption DEF Own
    <3> QED BY <3>1, <3>2 DEF AllOwn
  <2>8. FilesSeen'
    BY <1>1, <1>2, <1>3, <1>5, <2>1, <2>3, RowsAreSeen, FilesStaySeen DEF files
  <2> QED BY <2>3, <2>6, <2>7, <2>8 DEF TablesKept
<1> QED BY <1>4, <1>5 DEF ImportGame

-----------------------------------------------------------------------------
(* Every step keeps the invariant, and all but SetPrimaryEdition keep the      *)
(* primary editions.                                                          *)

StepKeeps == TablesKept /\ FilesSeen' /\ JobsFit'

LEMMA GameStepKeeps ==
  ASSUME LibraryInv, GameStep
  PROVE  StepKeeps
<1>1. TablesOK /\ References /\ FilesSeen /\ JobsFit
  BY DEF LibraryInv
<1>2. ASSUME TablesKept, UNCHANGED <<files, jobs>>,
             \A a \in Artifacts : artifacts'[a] \in {artifacts[a], Nothing}
      PROVE  StepKeeps
  <2>1. FilesSeen'
    BY <1>1, <1>2, FilesUntouched DEF TablesKept
  <2>2. JobsFit'
    BY <1>1, <1>2, JobsStay DEF files
  <2> QED BY <1>2, <2>1, <2>2 DEF StepKeeps
<1>3. ASSUME TablesKept, UNCHANGED <<artifacts, files, jobs>>
      PROVE  StepKeeps
  BY <1>2, <1>3
<1>4. ASSUME NEW g \in Games, CreateGame(g)
      PROVE  StepKeeps
  BY <1>1, <1>3, <1>4, CreateGameKeeps DEF CreateGame
<1>5. ASSUME NEW g \in Games, UpdateGame(g)
      PROVE  StepKeeps
  BY <1>1, <1>3, <1>5, UpdateGameKeeps DEF UpdateGame
<1>6. ASSUME NEW g \in Games, DeleteWhole(g)
      PROVE  StepKeeps
  BY <1>1, <1>2, <1>6, DeleteGameKeeps DEF DeleteWhole, DeleteGame
<1>7. ASSUME NEW g \in Games, NEW e \in Editions, AddEdition(g, e)
      PROVE  StepKeeps
  <2>1. /\ games[g] # Nothing /\ editions[e] = Nothing
        /\ editions' = [editions EXCEPT ![e] = g]
        /\ games' = Gained(games, g, e)
        /\ UNCHANGED <<artifacts, files, jobs>>
        /\ UNCHANGED <<members, review>>
    BY <1>7 DEF AddEdition, relations
  <2>2. artifacts' \in [Artifacts -> ArtifactRow \cup {Nothing}]
    BY <1>1, <2>1 DEF TablesOK
  <2>3. \A a \in Artifacts : artifacts'[a] # Nothing =>
          editions[artifacts'[a].edition] # Nothing \/ artifacts'[a].edition = e
    BY <1>1, <2>1 DEF References
  <2>4. TablesKept
    BY <1>1, <2>1, <2>2, <2>3, AddEditionKeeps
  <2> QED BY <1>3, <2>1, <2>4
<1>8. ASSUME NEW g \in Games, NEW e \in Editions, MoveEdition(e, g)
      PROVE  StepKeeps
  BY <1>1, <1>3, <1>8, MoveEditionKeeps DEF MoveEdition
<1>9. ASSUME NEW e \in Editions, UpdateEdition(e)
      PROVE  StepKeeps
  BY <1>1, <1>3, <1>9, TablesUntouched DEF UpdateEdition
<1>10. ASSUME NEW e \in Editions, Delete(e)
       PROVE  StepKeeps
  BY <1>1, <1>2, <1>10, DeleteEditionKeeps DEF Delete, DeleteEdition
<1>11. ASSUME NEW s \in Games, NEW t \in Games, MergeUnseen(t, s)
       PROVE  StepKeeps
  BY <1>1, <1>2, <1>11, MergeGamesKeeps DEF MergeUnseen, MergeGames
<1>12. ASSUME NEW s \in Games, NEW t \in Games, PreviewGameMerge(t, s)
       PROVE  StepKeeps
  <2>1. UNCHANGED <<games, editions, artifacts, members, files, jobs>>
    BY <1>12 DEF PreviewGameMerge
  <2>2. review'.target \in Games /\ review'.source \in Games
    BY <1>12 DEF PreviewGameMerge
  <2>3. TablesKept
    BY <1>1, <2>1, <2>2 DEF TablesKept, TablesOK, References, AllOwn, Own
  <2> QED BY <1>3, <2>1, <2>3
<1>13. ASSUME MergeReviewed
       PROVE  StepKeeps
  <2>1. review.target \in Games /\ review.source \in Games
    BY <1>1, <1>13 DEF MergeReviewed, TablesOK
  <2>2. MergeGames(review.target, review.source) /\ review' = NoReview
    BY <1>13 DEF MergeReviewed
  <2>3. /\ TablesKept
        /\ \A a \in Artifacts : artifacts'[a] \in {artifacts[a], Nothing}
    BY <1>1, <2>1, <2>2, MergeGamesKeeps
  <2> QED BY <1>2, <2>2, <2>3 DEF MergeGames
<1>14. ASSUME NEW series \in Series,
              \/ \E g \in Games : PutSeriesMember(series, g) \/ DeleteSeriesMember(series, g)
              \/ UpdateSeries(series)
       PROVE  StepKeeps
  <2>1. UNCHANGED <<artifacts, files, jobs>>
    BY <1>14 DEF PutSeriesMember, DeleteSeriesMember, UpdateSeries
  <2>2. TablesKept
    BY <1>1, <1>14, SeriesStepKeeps
  <2> QED BY <1>3, <2>1, <2>2
<1> QED BY <1>4, <1>5, <1>6, <1>7, <1>8, <1>9, <1>10, <1>11, <1>12, <1>13, <1>14 DEF GameStep

LEMMA FileStepKeeps ==
  ASSUME LibraryInv, FileStep
  PROVE  StepKeeps
<1>1. TablesOK /\ References /\ FilesSeen /\ JobsFit
  BY DEF LibraryInv
<1>2. ASSUME NEW path \in Paths, ChangeFile(path)
      PROVE  StepKeeps
  <2>1. PICK content \in FileContents \cup {Nothing} :
          /\ disk' = [disk EXCEPT ![path] = content]
          /\ seen' = seen \cup {<<path, content>>}
    BY <1>2 DEF ChangeFile
  <2>2. UNCHANGED <<games, editions, artifacts, members, review>> /\ UNCHANGED jobs
    BY <1>2 DEF ChangeFile, metadata
  <2>3. TablesKept
    BY <1>1, <2>2, TablesUntouched
  <2>4. FilesSeen'
    BY <1>1, <2>1, <2>2 DEF FilesSeen, HashIsOfItsPath, Present
  <2>5. JobsFit'
    BY <1>1, <2>1, <2>2, JobsStay
  <2> QED BY <2>3, <2>4, <2>5 DEF StepKeeps
<1>3. ASSUME NEW a \in Artifacts, DeleteArtifact(a)
      PROVE  StepKeeps
  <2>1. artifacts' = [artifacts EXCEPT ![a] = Nothing]
    BY <1>3 DEF DeleteArtifact
  <2>2. UNCHANGED <<games, editions, members, review>> /\ UNCHANGED files /\ UNCHANGED jobs
    BY <1>3 DEF DeleteArtifact, metadata
  <2>3. /\ artifacts' \in [Artifacts -> ArtifactRow \cup {Nothing}]
        /\ \A b \in Artifacts : artifacts'[b] \in {artifacts[b], Nothing}
    BY <1>1, <2>1 DEF TablesOK
  <2>4. TablesOK' /\ References'
    BY <1>1, <2>2, <2>3 DEF TablesOK, References
  <2>5. AllOwn(games, editions) => AllOwn(games', editions')
    BY <2>2
  <2>6. FilesSeen'
    BY <1>1, <2>2, <2>3, <2>4, FilesUntouched
  <2>7. JobsFit'
    BY <1>1, <2>2, JobsStay DEF files
  <2> QED BY <2>4, <2>5, <2>6, <2>7 DEF StepKeeps, TablesKept
<1> QED BY <1>2, <1>3 DEF FileStep

\* A step of a handler that writes no table and no file.
LEMMA JobOnlyKeeps ==
  ASSUME LibraryInv, NEW c \in Callers, NEW job, JobFits(job, seen),
         jobs' = [jobs EXCEPT ![c] = job], OnlyJobs
  PROVE  StepKeeps
<1>1. TablesOK /\ References /\ FilesSeen /\ JobsFit
  BY DEF LibraryInv
<1>2. UNCHANGED <<games, editions, artifacts, members, review>> /\ UNCHANGED files
  BY DEF OnlyJobs, metadata
<1>3. TablesKept
  BY <1>1, <1>2, TablesUntouched
<1>4. FilesSeen'
  BY <1>1, <1>2, <1>3, FilesUntouched DEF TablesKept
<1>5. JobsFit'
  BY <1>1, <1>2, JobBecomes DEF files
<1> QED BY <1>3, <1>4, <1>5 DEF StepKeeps

\* What a handler takes along from a query of all rows.
LEMMA ListFits ==
  ASSUME TablesOK
  PROVE  RestOK(Restrict(artifacts, Present(artifacts)))
BY DEF TablesOK, RestOK, Restrict, Present

LEMMA ReadStepKeeps ==
  ASSUME LibraryInv, NEW c \in Callers,
         \/ \E g \in Games, e \in Editions : CheckPrimary(c, g, e)
         \/ \E g \in Games \cup {Nothing}, e \in Editions, path \in Paths :
              HashNewArtifact(c, g, e, path)
         \/ \E a \in Artifacts : HashListedArtifact(c, a)
         \/ \E a \in Artifacts, path \in Paths : HashKnownArtifact(c, a, path)
         \/ ListArtifacts(c) \/ Discover(c) \/ CutOff(c)
  PROVE  StepKeeps
<1>1. TablesOK /\ FilesSeen /\ JobsFit
  BY DEF LibraryInv
<1>2. \A path \in Paths : /\ disk[path] \in FileContents \cup {Nothing}
                          /\ <<path, disk[path]>> \in seen
  BY <1>1 DEF FilesSeen
<1>3. ASSUME NEW g \in Games, NEW e \in Editions, CheckPrimary(c, g, e)
      PROVE  StepKeeps
  <2>1. JobFits([op |-> "primary", game |-> g, edition |-> e], seen)
    BY DEF JobFits
  <2>2. OnlyJobs /\ jobs' = [jobs EXCEPT ![c] = [op |-> "primary", game |-> g, edition |-> e]]
    BY <1>3 DEF CheckPrimary, OnlyJobs
  <2> QED BY <2>1, <2>2, JobOnlyKeeps
<1>4. ASSUME NEW g \in Games \cup {Nothing}, NEW e \in Editions, NEW path \in Paths,
             HashNewArtifact(c, g, e, path)
      PROVE  StepKeeps
  <2> DEFINE job == [op |-> "insert", game |-> g, row |-> Row(e, path, disk[path])]
  <2>1. Row(e, path, disk[path]) \in ArtifactRow
    BY <1>2 DEF Row, ArtifactRow
  <2>2. JobFits(job, seen)
    BY <1>2, <2>1 DEF JobFits, Row
  <2>3. OnlyJobs /\ jobs' = [jobs EXCEPT ![c] = job]
    BY <1>4 DEF HashNewArtifact, Starts
  <2> HIDE DEF job
  <2> QED BY <2>2, <2>3, JobOnlyKeeps
<1>5. ASSUME NEW a \in Artifacts, HashListedArtifact(c, a)
      PROVE  StepKeeps
  <2> DEFINE rest == jobs[c].rest
             path == rest[a].path
             job == [op |-> "update", id |-> a, path |-> path, content |-> disk[path],
                     rest |-> Restrict(rest, DOMAIN rest \ {a})]
  <2>1. RestOK(rest) /\ a \in DOMAIN rest
    BY <1>1, <1>5 DEF HashListedArtifact, JobsFit, JobFits
  <2>2. path \in Paths
    BY <2>1 DEF RestOK, ArtifactRow
  <2>3. RestOK(Restrict(rest, DOMAIN rest \ {a}))
    BY <2>1 DEF RestOK, Restrict
  <2>4. JobFits(job, seen)
    BY <1>2, <2>2, <2>3 DEF JobFits
  <2>5. OnlyJobs /\ \/ jobs' = [jobs EXCEPT ![c] = NoJob]
                    \/ jobs' = [jobs EXCEPT ![c] = job]
    BY <1>5 DEF HashListedArtifact, Ends, Goes
  <2> HIDE DEF job
  <2> QED BY <2>4, <2>5, NoJobFits, JobOnlyKeeps
<1>6. ASSUME NEW a \in Artifacts, NEW path \in Paths, HashKnownArtifact(c, a, path)
      PROVE  StepKeeps
  <2> DEFINE job == [op |-> "update", id |-> a, path |-> path,
                     content |-> disk[path], rest |-> <<>>]
  <2>1. RestOK(<<>>)
    BY DEF RestOK
  <2>2. JobFits(job, seen)
    BY <1>2, <2>1 DEF JobFits
  <2>3. OnlyJobs /\ jobs' = [jobs EXCEPT ![c] = job]
    BY <1>6 DEF HashKnownArtifact, Starts
  <2> HIDE DEF job
  <2> QED BY <2>2, <2>3, JobOnlyKeeps
<1>7. ASSUME ListArtifacts(c)
      PROVE  StepKeeps
  <2> DEFINE job == [op |-> "recheck", rest |-> Restrict(artifacts, Present(artifacts))]
  <2>1. JobFits(job, seen)
    BY <1>1, ListFits DEF JobFits
  <2>2. OnlyJobs /\ jobs' = [jobs EXCEPT ![c] = job]
    BY <1>7 DEF ListArtifacts, Starts
  <2> HIDE DEF job
  <2> QED BY <2>1, <2>2, JobOnlyKeeps
<1>8. ASSUME Discover(c)
      PROVE  StepKeeps
  <2> DEFINE candidates == {path \in LibraryPaths : ReadFile(path) /\ ~Known(path, disk[path])}
             job == [op |-> "scan", found |-> Restrict(disk, candidates)]
  <2>1. candidates \subseteq Paths
    BY DEF Paths
  <2>2. OnlyJobs /\ jobs' = [jobs EXCEPT ![c] = job]
    BY <1>8 DEF Discover, Starts
  <2> HIDE DEF candidates
  <2>3. JobFits(job, seen)
    BY <1>2, <2>1 DEF JobFits, Restrict
  <2> HIDE DEF job
  <2> QED BY <2>2, <2>3, JobOnlyKeeps
<1>9. ASSUME CutOff(c)
      PROVE  StepKeeps
  BY <1>9, NoJobFits, JobOnlyKeeps DEF CutOff, Ends
<1> QED BY <1>3, <1>4, <1>5, <1>6, <1>7, <1>8, <1>9

LEMMA WriteStepKeeps ==
  ASSUME LibraryInv, NEW c \in Callers,
         \/ \E a \in Artifacts : AddArtifact(c, a)
         \/ UpdateArtifact(c)
         \/ \E path \in Paths, g \in Games, e \in Editions, a \in Artifacts :
              ImportGame(c, path, g, e, a)
  PROVE  StepKeeps
<1>1. JobsFit
  BY DEF LibraryInv
<1>2. ASSUME TablesKept, FilesSeen', UNCHANGED files,
             NEW job, JobFits(job, seen), jobs' = [jobs EXCEPT ![c] = job]
      PROVE  StepKeeps
  BY <1>1, <1>2, JobBecomes DEF StepKeeps, files
<1>3. ASSUME NEW a \in Artifacts, AddArtifact(c, a)
      PROVE  StepKeeps
  <2>1. UNCHANGED files /\ jobs' = [jobs EXCEPT ![c] = NoJob]
    BY <1>3 DEF AddArtifact, Ends
  <2> QED BY <1>2, <1>3, <2>1, AddArtifactKeeps, NoJobFits
<1>4. ASSUME UpdateArtifact(c)
      PROVE  StepKeeps
  <2> DEFINE job == [op |-> "recheck", rest |-> jobs[c].rest]
  <2>1. JobFits(job, seen)
    BY <1>1, <1>4 DEF UpdateArtifact, JobsFit, JobFits
  <2>2. UNCHANGED files /\ \/ jobs' = [jobs EXCEPT ![c] = NoJob]
                           \/ jobs' = [jobs EXCEPT ![c] = job]
    BY <1>4 DEF UpdateArtifact, Ends, Goes
  <2> HIDE DEF job
  <2> QED BY <1>2, <1>4, <2>1, <2>2, UpdateArtifactKeeps, NoJobFits
<1>5. ASSUME NEW path \in Paths, NEW g \in Games, NEW e \in Editions, NEW a \in Artifacts,
             ImportGame(c, path, g, e, a)
      PROVE  StepKeeps
  <2> DEFINE found == jobs[c].found
             job == [op |-> "scan", found |-> Restrict(found, DOMAIN found \ {path})]
  <2>1. JobFits(job, seen)
    BY <1>1, <1>5 DEF ImportGame, JobsFit, JobFits, Restrict
  <2>2. UNCHANGED files /\ \/ jobs' = [jobs EXCEPT ![c] = NoJob]
                           \/ jobs' = [jobs EXCEPT ![c] = job]
    BY <1>5 DEF ImportGame, Ends, Goes
  <2> HIDE DEF job
  <2> QED BY <1>2, <1>5, <2>1, <2>2, ImportGameKeeps, NoJobFits
<1> QED BY <1>3, <1>4, <1>5

LEMMA ChoiceKeeps ==
  ASSUME LibraryInv, NEW c \in Callers, SetPrimaryEdition(c)
  PROVE  LibraryInv'
<1>1. TablesOK /\ References /\ FilesSeen /\ JobsFit
  BY DEF LibraryInv
<1>2. TablesOK' /\ References'
  BY <1>1, SetPrimaryEditionKeeps
<1>3. UNCHANGED files /\ UNCHANGED artifacts /\ jobs' = [jobs EXCEPT ![c] = NoJob]
  BY DEF SetPrimaryEdition
<1>4. FilesSeen'
  BY <1>1, <1>2, <1>3, FilesUntouched
<1>5. JobsFit'
  BY <1>1, <1>3, NoJobFits, JobBecomes DEF files
<1> QED BY <1>2, <1>4, <1>5 DEF LibraryInv

\* Every step but the write of a chosen primary edition.
LEMMA LibraryStep ==
  ASSUME LibraryInv, LibraryNext
  PROVE  StepKeeps \/ \E c \in Callers : SetPrimaryEdition(c)
<1>1. ASSUME NEW c \in Callers, JobStep(c), ~SetPrimaryEdition(c)
      PROVE  StepKeeps
  BY <1>1, ReadStepKeeps, WriteStepKeeps DEF JobStep
<1> QED BY <1>1, GameStepKeeps, FileStepKeeps DEF LibraryNext

-----------------------------------------------------------------------------
(* The theorems                                                               *)

LEMMA LibraryInit_Inv == LibraryInit => LibraryInv
<1> SUFFICES ASSUME LibraryInit PROVE LibraryInv
  OBVIOUS
<1>1. disk \in [Paths -> FileContents \cup {Nothing}] /\ seen = {<<path, disk[path]>> : path \in Paths}
  BY DEF LibraryInit
<1>2. /\ members = [m \in Series \X Games |-> Nothing] /\ review = NoReview
      /\ jobs = [c \in Callers |-> NoJob]
  BY DEF LibraryInit
<1>3. JobsFit
  BY <1>2, NoJobFits DEF JobsFit
<1>4. CASE /\ games = [g \in Games |-> Nothing]
           /\ editions = [e \in Editions |-> Nothing]
           /\ artifacts = [a \in Artifacts |-> Nothing]
  <2>1. TablesOK /\ References
    BY <1>2, <1>4 DEF TablesOK, References
  <2>2. FilesSeen
    BY <1>1, <1>4 DEF FilesSeen, HashIsOfItsPath, Present
  <2> QED BY <1>3, <2>1, <2>2 DEF LibraryInv
<1>5. ASSUME NEW g \in Games, NEW e \in Editions, NEW a \in Artifacts, NEW p \in Platforms,
             NEW path \in ManagedPaths,
             games = [x \in Games |->
                        [platform |-> p, primary |-> IF x = g THEN e ELSE Nothing]],
             editions = [[x \in Editions |-> Nothing] EXCEPT ![e] = g],
             artifacts = [[x \in Artifacts |-> Nothing] EXCEPT ![a] = Row(e, path, disk[path])]
      PROVE  LibraryInv
  <2> DEFINE new == Row(e, path, disk[path])
  <2>1. path \in Paths /\ disk[path] \in FileContents \cup {Nothing} /\ <<path, disk[path]>> \in seen
    BY <1>1 DEF Paths
  <2>2. /\ new \in ArtifactRow /\ new.edition = e
        /\ <<new.path, new.content>> \in seen
    BY <2>1 DEF Row, ArtifactRow
  <2> HIDE DEF new
  <2>3. \A b \in Artifacts : artifacts[b] = IF b = a THEN new ELSE Nothing
    BY <1>5 DEF new
  <2>4. \A f \in Editions : editions[f] = IF f = e THEN g ELSE Nothing
    BY <1>5
  <2>5. \A h \in Games : games[h] \in GameRow
    BY <1>5 DEF GameRow
  <2>6. TablesOK
    <3>1. games \in [Games -> GameRow \cup {Nothing}]
      BY <1>5, <2>5
    <3>2. editions \in [Editions -> Games \cup {Nothing}]
      BY <1>5
    <3>3. artifacts \in [Artifacts -> ArtifactRow \cup {Nothing}]
      BY <1>5, <2>2 DEF new
    <3> QED BY <1>2, <3>1, <3>2, <3>3 DEF TablesOK
  <2>7. References
    BY <1>2, <2>2, <2>3, <2>4, <2>5, RowIsSomething, LibraryAssumption DEF References
  <2>8. FilesSeen
    BY <1>1, <2>2, <2>3, <2>6 DEF FilesSeen, HashIsOfItsPath, Present, TablesOK
  <2> QED BY <1>3, <2>6, <2>7, <2>8 DEF LibraryInv
<1>6. ASSUME ~ /\ games = [g \in Games |-> Nothing]
               /\ editions = [e \in Editions |-> Nothing]
               /\ artifacts = [a \in Artifacts |-> Nothing]
      PROVE  LibraryInv
  <2>1. PICK g \in Games, e \in Editions, a \in Artifacts, p \in Platforms, path \in ManagedPaths :
           /\ disk[path] # Nothing
           /\ games = [x \in Games |->
                         [platform |-> p, primary |-> IF x = g THEN e ELSE Nothing]]
           /\ editions = [[x \in Editions |-> Nothing] EXCEPT ![e] = g]
           /\ artifacts = [[x \in Artifacts |-> Nothing] EXCEPT ![a] = Row(e, path, disk[path])]
    BY <1>6, Zenon DEF LibraryInit
  <2> QED BY <1>5, <2>1
<1> QED BY <1>4, <1>6

LEMMA LibraryNext_Inv == LibraryInv /\ [LibraryNext]_libraryVars => LibraryInv'
<1> SUFFICES ASSUME LibraryInv, [LibraryNext]_libraryVars PROVE LibraryInv'
  OBVIOUS
<1>1. CASE LibraryNext
  BY <1>1, LibraryStep, ChoiceKeeps DEF StepKeeps, TablesKept, LibraryInv
<1>2. CASE UNCHANGED libraryVars
  <2>1. /\ UNCHANGED <<games, editions, artifacts, members, review>>
        /\ UNCHANGED files /\ UNCHANGED <<seen, jobs>>
    BY <1>2 DEF libraryVars, files
  <2>2. TablesOK /\ References /\ FilesSeen /\ JobsFit
    BY DEF LibraryInv
  <2>3. TablesOK' /\ References'
    BY <2>1, <2>2, TablesUntouched DEF TablesKept
  <2>4. FilesSeen'
    BY <2>1, <2>2, <2>3, FilesUntouched
  <2>5. JobsFit'
    BY <2>1, <2>2, JobsStay
  <2> QED BY <2>3, <2>4, <2>5 DEF LibraryInv
<1> QED BY <1>1, <1>2

LEMMA LibraryInvariance == LibrarySpec => []LibraryInv
BY LibraryInit_Inv, LibraryNext_Inv, PTL DEF LibrarySpec

\* The foreign keys: no edition, artifact or series member outlives what it
\* belongs to, whatever deletions, merges, moves and imports interleave.
THEOREM LibraryIsWellTyped == LibrarySpec => []LibraryTypeOK
<1>1. LibraryInv => LibraryTypeOK
  <2> SUFFICES ASSUME TablesOK, References PROVE LibraryTypeOK
    BY DEF LibraryInv
  <2>1. \A g \in Present(games) : games[g].primary \in Editions \cup {Nothing}
    BY DEF TablesOK, Present, GameRow
  <2>2. \A e \in Present(editions) : games[editions[e]] # Nothing
    BY DEF TablesOK, References, Present
  <2>3. \A a \in Present(artifacts) : editions[artifacts[a].edition] # Nothing
    BY DEF TablesOK, References, Present
  <2>4. \A m \in Present(members) : games[m[2]] # Nothing
    BY DEF TablesOK, References, Present
  <2> QED BY <2>1, <2>2, <2>3, <2>4 DEF LibraryTypeOK
<1> QED BY <1>1, LibraryInvariance, PTL

\* A row never pairs a path with a content that was not read there, although
\* files are hashed before the transaction that writes the row, and rechecks,
\* updates, imports and changes of the files interleave.
THEOREM HashesAreOfTheirPaths == LibrarySpec => []HashIsOfItsPath
<1>1. LibraryInv => HashIsOfItsPath
  BY DEF LibraryInv, FilesSeen
<1> QED BY <1>1, LibraryInvariance, PTL

\* Moves, deletions, merges and imports leave every game with a primary edition
\* of its own; only a choice of a primary edition that was checked before the
\* edition left takes it away.
THEOREM OnlyALateChoiceLosesAPrimary == LibrarySpec => PrimaryIsLostByLateChoiceOnly
<1>1. ASSUME LibraryInv, LibraryInv', [LibraryNext]_libraryVars,
             NEW g \in Games, HasOwnPrimary(g), ~HasOwnPrimary(g)',
             \A h \in Games : HasOwnPrimary(h)
      PROVE  \E c \in Callers : jobs[c].op = "primary" /\ jobs'[c] = NoJob
  <2>1. TablesOK /\ TablesOK'
    BY <1>1 DEF LibraryInv
  <2>2. AllOwn(games, editions) /\ ~Own(games', editions', g)
    BY <1>1, <2>1, OwnIsHasOwnPrimary DEF AllOwn
  <2>3. ~AllOwn(games', editions')
    BY <2>2 DEF AllOwn
  <2>4. LibraryNext
    BY <1>1, <2>2, <2>3 DEF libraryVars
  <2>5. PICK c \in Callers : SetPrimaryEdition(c)
    BY <1>1, <2>2, <2>3, <2>4, LibraryStep DEF StepKeeps, TablesKept
  <2>6. jobs[c].op = "primary" /\ jobs' = [jobs EXCEPT ![c] = NoJob]
    BY <2>5 DEF SetPrimaryEdition
  <2>7. jobs'[c] = NoJob
    BY <1>1, <2>6 DEF LibraryInv, JobsFit
  <2> QED BY <2>6, <2>7
<1>2. LibraryInv /\ LibraryInv' /\ [LibraryNext]_libraryVars
        => [\A g \in Games :
              HasOwnPrimary(g) /\ ~HasOwnPrimary(g)'
                /\ (\A h \in Games : HasOwnPrimary(h))
                => \E c \in Callers : jobs[c].op = "primary" /\ jobs'[c] = NoJob
           ]_libraryVars
  BY <1>1
<1> QED BY <1>2, LibraryInvariance, PTL DEF LibrarySpec, PrimaryIsLostByLateChoiceOnly

\* Whatever a step writes, there is a title or none of every game and edition.
LEMMA TitlesAreATable == LibrarySpec => []TitlesOK
<1>1. LibraryInit => TitlesOK
  BY DEF LibraryInit, TitlesOK
<1>2. ASSUME TitlesOK, [LibraryNext]_libraryVars
      PROVE  TitlesOK'
  <2>1. ASSUME NEW x, NEW text, titles' = [titles EXCEPT ![x] = text]
        PROVE  TitlesOK'
    BY <1>2, <2>1 DEF TitlesOK
  <2>2. ASSUME UNCHANGED titles
        PROVE  TitlesOK'
    BY <1>2, <2>2 DEF TitlesOK
  <2>3. ASSUME NEW owners, WithoutTitles(owners)
        PROVE  TitlesOK'
    BY <2>3 DEF TitlesOK, WithoutTitles
  <2>4. ASSUME NEW t, NEW s, MergeGames(t, s)
        PROVE  TitlesOK'
    BY <1>2, <2>4 DEF TitlesOK, MergeGames, MovedTitles
  <2>5. ASSUME NEW g \in Games, CreateGame(g) \/ UpdateGame(g)
        PROVE  TitlesOK'
    BY <2>1, <2>5 DEF CreateGame, UpdateGame
  <2>6. CASE GameStep
    <3>1. ASSUME NEW g \in Games, NEW e \in Editions, MoveEdition(e, g)
          PROVE  TitlesOK'
      BY <2>2, <3>1 DEF MoveEdition, metadata
    <3>2. ASSUME NEW s, NEW t, MergeUnseen(t, s) \/ PreviewGameMerge(t, s)
          PROVE  TitlesOK'
      BY <2>2, <2>4, <3>2 DEF MergeUnseen, PreviewGameMerge
    <3>3. ASSUME MergeReviewed
          PROVE  TitlesOK'
      BY <2>4, <3>3 DEF MergeReviewed
    <3>4. ASSUME NEW series, NEW g,
                 \/ PutSeriesMember(series, g) \/ DeleteSeriesMember(series, g)
                 \/ UpdateSeries(series)
          PROVE  TitlesOK'
      BY <2>2, <3>4 DEF PutSeriesMember, DeleteSeriesMember, UpdateSeries
    <3>5. ASSUME NEW g \in Games, DeleteWhole(g)
          PROVE  TitlesOK'
      BY <2>3, <3>5 DEF DeleteWhole, DeleteGame
    <3>6. ASSUME NEW e \in Editions, Delete(e) \/ UpdateEdition(e)
          PROVE  TitlesOK'
      BY <2>1, <2>3, <3>6 DEF Delete, DeleteEdition, UpdateEdition
    <3>7. ASSUME NEW g \in Games, NEW e \in Editions, AddEdition(g, e)
          PROVE  TitlesOK'
      BY <2>1, <3>7 DEF AddEdition
    <3> QED BY <2>5, <2>6, <3>1, <3>2, <3>3, <3>4, <3>5, <3>6, <3>7 DEF GameStep
  <2>7. CASE FileStep
    BY <2>2, <2>7 DEF FileStep, ChangeFile, DeleteArtifact, metadata
  <2>8. ASSUME NEW c \in Callers, NEW a \in Artifacts, AddArtifact(c, a)
        PROVE  TitlesOK'
    BY <2>1, <2>2, <2>8 DEF AddArtifact
  <2>9. ASSUME NEW c \in Callers, JobStep(c)
        PROVE  TitlesOK'
    BY <2>2, <2>8, <2>9
       DEF JobStep, CheckPrimary, SetPrimaryEdition, HashNewArtifact, HashListedArtifact,
           HashKnownArtifact, ListArtifacts, UpdateArtifact, Discover, ImportGame, CutOff,
           OnlyJobs, metadata
  <2>10. CASE UNCHANGED libraryVars
    BY <2>2, <2>10 DEF libraryVars
  <2> QED BY <1>2, <2>6, <2>7, <2>9, <2>10 DEF LibraryNext
<1> QED BY <1>1, <1>2, PTL DEF LibrarySpec

\* A preview a person holds goes with the merge that was reviewed.
LEMMA ReviewEnds ==
  ASSUME LibraryNext, review.target \in Games, review' = NoReview
  PROVE  MergeReviewed
<1>1. review' # review /\ review'.target \notin Games
  BY LibraryAssumption DEF NoReview
<1>2. ASSUME NEW s \in Games, NEW t \in Games, MergeUnseen(t, s) \/ PreviewGameMerge(t, s)
      PROVE  FALSE
  BY <1>1, <1>2 DEF MergeUnseen, PreviewGameMerge
<1>3. CASE GameStep
  BY <1>1, <1>2, <1>3
     DEF GameStep, CreateGame, UpdateGame, DeleteWhole, DeleteGame, AddEdition, MoveEdition,
         UpdateEdition, Delete, DeleteEdition, PutSeriesMember, DeleteSeriesMember,
         UpdateSeries, metadata, relations
<1>4. CASE FileStep
  BY <1>1, <1>4 DEF FileStep, ChangeFile, DeleteArtifact, metadata, relations
<1>5. ASSUME NEW c \in Callers, JobStep(c)
      PROVE  FALSE
  BY <1>1, <1>5
     DEF JobStep, CheckPrimary, SetPrimaryEdition, HashNewArtifact, AddArtifact,
         HashListedArtifact, HashKnownArtifact, ListArtifacts, UpdateArtifact, Discover,
         ImportGame, CutOff, OnlyJobs, metadata, relations
<1> QED BY <1>3, <1>4, <1>5 DEF LibraryNext

\* A merge loses no row of a file, and of the titles only the one of the source.
LEMMA MergeKeepsRows ==
  ASSUME LibraryInv, TitlesOK, NEW t \in Games, NEW s \in Games, MergeGames(t, s)
  PROVE  /\ UNCHANGED artifacts
         /\ EditionsOf(t)' = EditionsOf(t) \cup EditionsOf(s)
         /\ \A e \in Editions : titles'[e] = titles[e]
         /\ titles'[t] = Prevails(titles[t], titles[s])
         /\ games'[t].primary = Prevails(games[t].primary, games[s].primary)
<1> USE DEF TablesOK
<1>1. TablesOK /\ References
  BY DEF LibraryInv
<1>2. editions' = [e \in Editions |-> IF editions[e] = s THEN t ELSE editions[e]]
  BY DEF MergeGames, MovedEditions
<1>3. ASSUME NEW a \in Artifacts, artifacts[a] # Nothing
      PROVE  editions'[artifacts[a].edition] # Nothing
  BY <1>1, <1>2, <1>3, LibraryAssumption DEF References, ArtifactRow
<1>4. artifacts' = [a \in Artifacts |-> artifacts[a]]
  BY <1>1, <1>3 DEF MergeGames
<1>5. artifacts' = artifacts
  BY <1>1, <1>4
<1>6. EditionsOf(t)' = EditionsOf(t) \cup EditionsOf(s)
  BY <1>1, <1>2, LibraryAssumption DEF EditionsOf, Present
<1>7. t # s /\ games[t] # Nothing /\ games[s] # Nothing /\ titles' = MovedTitles(t, s)
  BY DEF MergeGames, Mergeable
<1>8. \A e \in Editions : titles'[e] = titles[e]
  BY <1>7, LibraryAssumption DEF MovedTitles, TitlesOK
<1>9. titles'[t] = Prevails(titles[t], titles[s])
  BY <1>7 DEF MovedTitles, TitlesOK, Prevails
<1>10. games'[t].primary = Prevails(games[t].primary, games[s].primary)
  <2>1. games[t] \in GameRow
    BY <1>1, <1>7
  <2>2. games' = [games EXCEPT
          ![t].primary = IF @ = Nothing THEN games[s].primary ELSE @, ![s] = Nothing]
    BY DEF MergeGames
  <2> QED BY <1>1, <1>7, <2>1, <2>2 DEF GameRow, Prevails
<1> QED BY <1>5, <1>6, <1>8, <1>9, <1>10

\* A confirmed merge writes what the person saw: between the preview and the
\* confirmation any number of requests may have run, and the comparison of the
\* whole graph lets the merge through only where they changed nothing it shows.
THEOREM ConfirmedMergeIsTheReviewedOne == LibrarySpec => MergeIsAsReviewed
<1> DEFINE Reviewed(graph, t, s) ==
             /\ EditionsOf(t)' = DOMAIN graph.editions
             /\ Restrict(artifacts', ArtifactsOf(EditionsOf(t))') = graph.artifacts
             /\ \A e \in DOMAIN graph.editions : titles'[e] = graph.titles[e]
             /\ titles'[t] = Prevails(graph.titles[t], graph.titles[s])
             /\ games'[t].primary = Prevails(graph.games[1].primary, graph.games[2].primary)
<1>1. ASSUME LibraryInv, TitlesOK, [LibraryNext]_libraryVars,
             NEW t \in Games, review.target = t, review' = NoReview
      PROVE  Reviewed(review.graph, t, review.source)
  <2> DEFINE s == review.source
             es == EditionsOf(t) \cup EditionsOf(s)
             graph == review.graph
  <2>1. LibraryNext
    BY <1>1, LibraryAssumption DEF libraryVars, NoReview
  <2>2. MergeReviewed
    BY <1>1, <2>1, ReviewEnds
  <2>3. s \in Games /\ MergeGames(t, s) /\ graph = MergeGraph(t, s)
    BY <1>1, <2>2, LibraryAssumption
       DEF LibraryInv, TablesOK, MergeReviewed, StillAsReviewed, NoReview
  <2>4. /\ UNCHANGED artifacts /\ EditionsOf(t)' = es
        /\ \A e \in Editions : titles'[e] = titles[e]
        /\ titles'[t] = Prevails(titles[t], titles[s])
        /\ games'[t].primary = Prevails(games[t].primary, games[s].primary)
    BY <1>1, <2>3, MergeKeepsRows
  <2>5. ArtifactsOf(EditionsOf(t))' = ArtifactsOf(es)
    BY <2>4 DEF ArtifactsOf, Present
  <2>6. /\ graph.games = <<games[t], games[s]>>
        /\ graph.editions = Restrict(editions, es)
        /\ graph.artifacts = Restrict(artifacts, ArtifactsOf(es))
        /\ graph.titles = Restrict(titles, {t, s} \cup es)
    BY <2>3 DEF MergeGraph
  <2>7. es \subseteq Editions
    BY <1>1 DEF LibraryInv, TablesOK, EditionsOf, Present
  <2> HIDE DEF s, es, graph
  <2>8. DOMAIN graph.editions = es
    BY <2>6 DEF Restrict
  <2>9. \A x \in {t, s} \cup es : graph.titles[x] = titles[x]
    BY <2>6 DEF Restrict
  <2>10. \A e \in es : titles'[e] = graph.titles[e]
    BY <2>4, <2>7, <2>9
  <2>11. titles'[t] = Prevails(graph.titles[t], graph.titles[s])
    BY <2>4, <2>9
  <2>12. games'[t].primary = Prevails(graph.games[1].primary, graph.games[2].primary)
    BY <2>4, <2>6
  <2> QED BY <2>4, <2>5, <2>6, <2>8, <2>10, <2>11, <2>12 DEF s, graph
<1>2. LibraryInv /\ TitlesOK /\ [LibraryNext]_libraryVars
        => [\A t \in Games : review.target = t /\ review' = NoReview
              => Reviewed(review.graph, t, review.source)]_libraryVars
  BY <1>1
<1> QED BY <1>2, LibraryInvariance, TitlesAreATable, PTL DEF LibrarySpec, MergeIsAsReviewed

-----------------------------------------------------------------------------
(* Packages: what a build under way carries.  A record is of the shape of its   *)
(* stage; what the plan let pass stays true of the plan; a build that nothing    *)
(* disturbed knows what it has to put back; and in an orderly directory the one  *)
(* build that writes knows what it wrote.                                       *)

Contents == Bytes \cup {"gone", "user"}
Owners == Bytes \cup {"none", "any", "user"}
Uses == [mode : {"copy", "reference"}, template : Bytes, enabled : BOOLEAN]

PlanFields == {"stage", "plan", "use", "kept", "before", "owned", "alone"}
Planned == {"planned"} \cup Writing

PlanShape(r) == /\ r.kept \subseteq Places
                /\ r.before \in [Places -> Contents]
                /\ r.owned \in [Places -> Owners]

Shape(r) ==
  /\ r.stage \in {"idle", "stale", "opened", "accepted", "built", "failed"} \cup Planned
  /\ r.stage = "idle" => r = NoBuild
  /\ r.stage # "idle" => {"stage", "plan"} \subseteq DOMAIN r /\ r.plan \in Plans \cup {"legacy"}
  /\ r.stage \in {"stale", "opened", "built", "failed"} => r.plan \in Plans
  /\ r.stage \in {"accepted", "planned"} \cup Filling => r.use \in Uses
  /\ r.stage = "accepted" => DOMAIN r = {"stage", "plan", "use"}
  /\ r.stage = "planned" =>
       /\ DOMAIN r = PlanFields \cup {"writes"}
       /\ PlanShape(r) /\ r.writes \subseteq r.kept /\ "template" \in r.kept
  /\ r.stage \in Filling =>
       /\ PlanShape(r)
       /\ r.snapshot \in [Places -> Contents \cup {"unsaved"}]
       /\ r.read \in [Places -> Bytes \cup {"none"}]
       /\ \A p \in Places : r.read[p] # "none" => p \in ExportPaths
       /\ \A p \in Places : r.snapshot[p] # "unsaved" => p \in r.kept
       /\ "template" \in r.kept
  /\ r.stage \in {"files", "copying"} =>
       /\ DOMAIN r = PlanFields \cup {"rest", "read", "snapshot"}
       /\ r.rest \subseteq Sources
  /\ r.stage = "copying" => r.rest # {} /\ r.use.mode # "reference"
  /\ r.stage \in {"export", "manifest"} =>
       /\ DOMAIN r = PlanFields \cup {"rest", "text", "read", "snapshot"}
       /\ r.rest \subseteq Systems /\ r.text \in Bytes
  /\ r.stage = "restoring" =>
       /\ DOMAIN r = {"stage", "plan", "kept", "snapshot", "before", "owned", "alone"}
       /\ PlanShape(r)
       /\ r.snapshot \in [Places -> Contents \cup {"unsaved"}]
       /\ \A p \in Places : r.snapshot[p] # "unsaved" => p \in r.kept

\* The plan found no file of the user's at a path it kept, but one that was claimed.
PlanFits(r) ==
  r.stage \in Planned =>
    \A p \in r.kept \ Systems : r.before[p] = "user" => r.owned[p] \in {"user", "any"}

\* What is in the snapshot is what was there; what is not there was not touched.
SnapshotHolds(r) ==
  \A p \in Places : /\ r.snapshot[p] \in {"unsaved", r.before[p]}
                    /\ r.snapshot[p] = "unsaved" => output[p] = r.before[p]

\* What an undisturbed build has still to write is in its snapshot, or is there already.
Covers(r, p, c) == r.snapshot[p] # "unsaved" \/ r.before[p] = c

AloneFits(r) ==
  r.stage \in Planned /\ r.alone =>
    /\ r.stage = "planned" =>
         /\ output = r.before
         /\ \A w \in listed : inputs[w] # "gone" /\ r.use.mode # "reference" =>
              PathOf[w] \in r.writes \/ r.before[PathOf[w]] = inputs[w]
         /\ "template" \in r.writes \/ r.before["template"] = r.use.template
         /\ Metadata \subseteq r.writes
    /\ r.stage # "planned" => SnapshotHolds(r)
    /\ r.stage \in {"files", "copying"} =>
         /\ \A w \in r.rest : inputs[w] # "gone" /\ r.use.mode # "reference" =>
              Covers(r, PathOf[w], inputs[w])
         /\ \A s \in Metadata : r.snapshot[s] # "unsaved"
    /\ r.stage = "export" => \A s \in r.rest : r.snapshot[s] # "unsaved"
    /\ r.stage \in {"files", "copying", "export"} => Covers(r, "template", r.use.template)

\* The manifest owns what is in a directory, with the hashes it has.
Agrees(out) == \A p \in Places : out[p] # "gone" => manifest.owned[p] = out[p]

\* An unplanned file holds what was hashed of its source, unless it is still to be
\* copied.
Pending(r) == IF r.stage = "copying" THEN {PathOf[First(r.rest)]} ELSE {}
ReadFits(r) ==
  \A p \in Places \ (r.kept \cup Pending(r)) : r.read[p] # "none" => output[p] = r.read[p]

OrderlyFits(r) ==
  orderly =>
    /\ r.stage \in Filling =>
         /\ r.use.mode = "copy"
         /\ ReadFits(r)
         /\ r.alone => Agrees(r.before)
    /\ r.stage = "restoring" => SnapshotHolds(r) /\ Agrees(r.before)

BuildOK(r) == Shape(r) /\ PlanFits(r) /\ AloneFits(r) /\ OrderlyFits(r)

OneWriter == \A b, o \in Builds :
               builds[b].stage \in Writing /\ builds[o].stage \in Writing => b = o

WorldOK ==
  /\ inputs \in [Sources -> Bytes \cup {"gone"}]
  /\ listed \subseteq Sources
  /\ texts \in Bytes
  /\ profile \in Uses
  /\ output \in [Places -> Contents]
  /\ manifest.owned \in [Places -> Owners]
  /\ releases \subseteq [plan : Plans, status : {"succeeded", "failed"}]

PackageInv ==
  /\ WorldOK
  /\ builds = [b \in Builds |-> builds[b]]
  /\ \A b \in Builds : BuildOK(builds[b])
  /\ orderly => OneWriter
  /\ ExportsStayBuildable

LEMMA PlacesApart ==
  /\ ExportPaths \subseteq Places /\ Systems \subseteq Places /\ "template" \in Places
  /\ \A p \in ExportPaths : p \notin Systems /\ p # "template"
  /\ "template" \notin Systems
  /\ "template" \notin Sources
  /\ \A w \in Sources : PathOf[w] \in ExportPaths /\ SystemOf[w] \in Systems
BY PackageBuildAssumption DEF PackageBuildAssumption, Places

LEMMA WordsAreNoBytes ==
  /\ "gone" \notin Bytes /\ "user" \notin Bytes /\ "none" \notin Bytes
  /\ "any" \notin Bytes /\ "unsaved" \notin Bytes
BY PackageBuildAssumption DEF PackageBuildAssumption

LEMMA FirstIsIn ==
  ASSUME NEW S, S # {}
  PROVE  First(S) \in S
BY Zenon DEF First

\* The records with a mark of being alone are those that have planned, and those
\* of builds that failed afterwards.
LEMMA Marked ==
  ASSUME NEW r, Shape(r), r.stage \in Planned
  PROVE  "alone" \in DOMAIN r
BY DEF Shape, Planned, Writing, Filling, PlanFields

\* Another's change under a build leaves its record as it was but for the mark.
LEMMA MutedShape ==
  ASSUME NEW r, Shape(r), "alone" \in DOMAIN r, r.stage # "idle",
         NEW m, m = [r EXCEPT !.alone = FALSE]
  PROVE  /\ Shape(m) /\ m.stage = r.stage /\ DOMAIN m = DOMAIN r /\ ~m.alone
         /\ r.stage \in Planned =>
              m.kept = r.kept /\ m.before = r.before /\ m.owned = r.owned
         /\ r.stage \in Filling => m.use = r.use /\ m.read = r.read /\ m.rest = r.rest
         /\ r.stage \in Writing => m.snapshot = r.snapshot
<1>1. /\ DOMAIN m = DOMAIN r /\ ~m.alone
      /\ \A f \in DOMAIN r : f # "alone" => m[f] = r[f]
  OBVIOUS
<1>2. m.stage = r.stage /\ m.plan = r.plan
  BY <1>1 DEF Shape
<1>3. CASE r.stage = "planned"
  BY <1>1, <1>2, <1>3 DEF Shape, PlanShape, PlanFields, Planned, Writing, Filling
<1>4. CASE r.stage \in {"files", "copying"}
  BY <1>1, <1>2, <1>4 DEF Shape, PlanShape, PlanFields, Planned, Writing, Filling
<1>5. CASE r.stage \in {"export", "manifest"}
  BY <1>1, <1>2, <1>5 DEF Shape, PlanShape, PlanFields, Planned, Writing, Filling
<1>6. CASE r.stage = "restoring"
  BY <1>1, <1>2, <1>6 DEF Shape, PlanShape, PlanFields, Planned, Writing, Filling
<1>7. CASE r.stage = "accepted"
  BY <1>1, <1>2, <1>7 DEF Shape, Planned, Writing, Filling
<1>8. CASE r.stage \notin {"accepted"} \cup Planned
  BY <1>1, <1>2, <1>8 DEF Shape, Planned, Writing, Filling
<1> QED BY <1>3, <1>4, <1>5, <1>6, <1>7, <1>8 DEF Planned, Writing, Filling

\* What a build knows outlasts what others do: either nothing of it changed, or it
\* was muted; and where the directory is orderly no other build writes.
LEMMA OtherStays ==
  ASSUME NEW r, BuildOK(r), NEW b, builds'[b] \in {r, [r EXCEPT !.alone = FALSE]},
         builds'[b] # r => "alone" \in DOMAIN r,
         r.stage \in Planned /\ r.alone /\ builds'[b] = r => UNCHANGED <<inputs, listed, output>>,
         r.stage \in Writing /\ orderly' => orderly /\ UNCHANGED <<output, manifest>>
  PROVE  BuildOK(builds[b])'
<1>1. PICK m : m = builds'[b]
  OBVIOUS
<1>2. r.stage = "idle" => m = r
  BY <1>1 DEF BuildOK, Shape, NoBuild
<1>3. /\ Shape(m) /\ m.stage = r.stage
      /\ m # r => ~m.alone
      /\ r.stage \in Planned =>
           m.kept = r.kept /\ m.before = r.before /\ m.owned = r.owned
      /\ r.stage \in Filling => m.use = r.use /\ m.read = r.read /\ m.rest = r.rest
      /\ r.stage \in Writing => m.snapshot = r.snapshot
  BY <1>1, <1>2, MutedShape DEF BuildOK
<1>4. Shape(m)' /\ PlanFits(m)'
  BY <1>3 DEF BuildOK, Shape, PlanShape, PlanFits
<1>5. AloneFits(m)'
  <2>1. CASE m # r
    BY <1>3, <2>1 DEF AloneFits
  <2>2. CASE m = r /\ r.stage \in Planned /\ r.alone
    <3>1. UNCHANGED <<inputs, listed, output>> /\ AloneFits(r)
      BY <1>1, <2>2 DEF BuildOK
    <3> QED BY <2>2, <3>1 DEF AloneFits, SnapshotHolds, Covers, Metadata
  <2>3. CASE m = r /\ ~(r.stage \in Planned /\ r.alone)
    BY <2>3 DEF AloneFits
  <2> QED BY <2>1, <2>2, <2>3
<1>6. OrderlyFits(m)'
  <2>1. CASE r.stage \in Writing /\ orderly'
    <3>1. orderly /\ UNCHANGED <<output, manifest>> /\ OrderlyFits(r)
      BY <2>1 DEF BuildOK
    <3>2. m.alone => r.alone
      BY <1>3
    <3>3. CASE r.stage \in Filling
      <4>1. /\ r.use.mode = "copy"
            /\ ReadFits(r)
            /\ r.alone => Agrees(r.before)
        BY <3>1, <3>3 DEF OrderlyFits
      <4>0. ReadFits(m)'
        BY <1>3, <3>1, <3>3, <4>1 DEF ReadFits, Pending, Planned, Writing
      <4>2. m.alone => Agrees(m.before)'
        BY <1>3, <2>1, <3>1, <3>2, <3>3, <4>1 DEF Agrees, Planned
      <4>3. m.stage # "restoring"
        BY <1>3, <3>3 DEF Filling
      <4> QED BY <1>3, <2>1, <3>1, <3>3, <4>0, <4>1, <4>2, <4>3 DEF OrderlyFits
    <3>4. CASE r.stage = "restoring"
      <4>1. SnapshotHolds(r) /\ Agrees(r.before)
        BY <3>1, <3>4 DEF OrderlyFits
      <4>2. m.before = r.before /\ m.snapshot = r.snapshot /\ m.stage \notin Filling
        BY <1>3, <3>4 DEF Planned, Writing, Filling
      <4>3. SnapshotHolds(m)' /\ Agrees(m.before)'
        BY <3>1, <4>1, <4>2 DEF SnapshotHolds, Agrees
      <4> QED BY <4>2, <4>3 DEF OrderlyFits
    <3> QED BY <2>1, <3>3, <3>4 DEF Writing, Filling
  <2>2. CASE r.stage \notin Writing \/ ~orderly'
    BY <1>3, <2>2 DEF OrderlyFits, Writing, Filling
  <2> QED BY <2>1, <2>2
<1> QED BY <1>1, <1>4, <1>5, <1>6 DEF BuildOK

BuildsOK == /\ builds = [b \in Builds |-> builds[b]]
            /\ \A b \in Builds : BuildOK(builds[b])
            /\ orderly => OneWriter

\* One build moves and writes nothing of the output.
LEMMA KeepStep ==
  ASSUME PackageInv, NEW b \in Builds, NEW rec, Keep(b, rec),
         UNCHANGED <<inputs, listed, output>>, orderly' => orderly,
         UNCHANGED manifest \/ builds[b].stage \in Writing,
         builds'[b] = rec => BuildOK(builds[b])',
         rec.stage \in Writing /\ orderly' =>
           \/ builds[b].stage \in Writing
           \/ \A o \in Builds \ {b} : builds[o].stage \notin Writing
  PROVE  BuildsOK'
<1>1. builds = [o \in Builds |-> builds[o]] /\ builds' = [builds EXCEPT ![b] = rec]
  BY DEF PackageInv, Keep
<1>2. builds' = [o \in Builds |-> builds'[o]] /\ builds'[b] = rec
  BY <1>1
<1>3. ASSUME NEW o \in Builds, o # b
      PROVE  BuildOK(builds[o])' /\ builds'[o] = builds[o]
  <2>1. BuildOK(builds[o]) /\ builds'[o] = builds[o]
    BY <1>1, <1>3 DEF PackageInv
  <2>2. builds[o].stage \in Writing /\ orderly' => orderly /\ UNCHANGED <<output, manifest>>
    BY <1>3 DEF PackageInv, OneWriter
  <2> QED BY <2>1, <2>2, OtherStays
<1>4. ASSUME orderly', NEW o \in Builds, NEW q \in Builds, o # q,
             builds'[o].stage \in Writing, builds'[q].stage \in Writing
      PROVE  FALSE
  BY <1>2, <1>3, <1>4 DEF PackageInv, OneWriter
<1> QED BY <1>2, <1>3, <1>4 DEF BuildsOK, OneWriter

\* One build writes a file: nobody else writes in an orderly directory, and any other
\* build that it changes something under is muted.
LEMMA WriteStep ==
  ASSUME PackageInv, NEW b \in Builds, builds[b].stage \in Writing,
         NEW p \in Places, NEW c \in Contents, NEW rec, rec.stage \in Writing,
         WritesFile(b, p, c, rec), UNCHANGED <<inputs, listed, manifest>>, orderly' => orderly,
         builds'[b] = rec => BuildOK(builds[b])'
  PROVE  BuildsOK' /\ output' \in [Places -> Contents] /\ ExportsStayBuildable'
<1>1. /\ builds' = [o \in Builds |-> builds'[o]] /\ builds'[b] = rec
      /\ output' = [output EXCEPT ![p] = c] /\ output \in [Places -> Contents]
  BY DEF WritesFile, PackageInv, WorldOK
<1>2. ASSUME NEW o \in Builds, o # b
      PROVE  BuildOK(builds[o])' /\ builds'[o].stage = builds[o].stage
  <2>1. BuildOK(builds[o])
    BY DEF PackageInv
  <2>2. \/ /\ builds'[o] = builds[o]
           /\ "alone" \in DOMAIN builds[o] => output[p] = c
        \/ /\ builds'[o] = [builds[o] EXCEPT !.alone = FALSE]
           /\ "alone" \in DOMAIN builds[o]
    BY <1>2 DEF WritesFile
  <2>3. builds[o].stage \in Writing => ~orderly'
    BY <1>2 DEF PackageInv, OneWriter
  <2>4. CASE builds'[o] = builds[o] /\ ("alone" \in DOMAIN builds[o] => output[p] = c)
    <3>1. builds[o].stage \in Planned => UNCHANGED <<inputs, listed, output>>
      BY <1>1, <2>1, <2>4, Marked DEF BuildOK
    <3> QED BY <2>1, <2>3, <2>4, <3>1, OtherStays
  <2>5. CASE /\ builds'[o] = [builds[o] EXCEPT !.alone = FALSE]
             /\ "alone" \in DOMAIN builds[o]
    <3>1. builds[o].alone => builds'[o] # builds[o]
      BY <2>5
    <3>2. BuildOK(builds[o])'
      BY <2>1, <2>3, <2>5, <3>1, OtherStays
    <3>3. builds[o].stage # "idle"
      BY <2>1, <2>5 DEF BuildOK, Shape, NoBuild
    <3> QED BY <2>1, <2>5, <3>2, <3>3, MutedShape DEF BuildOK
  <2> QED BY <2>2, <2>4, <2>5
<1>3. ASSUME orderly', NEW o \in Builds, NEW q \in Builds, o # q,
             builds'[o].stage \in Writing, builds'[q].stage \in Writing
      PROVE  FALSE
  BY <1>1, <1>2, <1>3 DEF PackageInv, OneWriter
<1>4. output' \in [Places -> Contents]
  BY <1>1
<1>5. ExportsStayBuildable'
  BY <1>1 DEF ExportsStayBuildable
<1> QED BY <1>1, <1>2, <1>3, <1>4, <1>5 DEF BuildsOK, OneWriter

\* A change from outside mutes every build that has planned.
LEMMA DisturbStep ==
  ASSUME PackageInv, Disturb, UNCHANGED manifest, orderly' => orderly /\ UNCHANGED output
  PROVE  BuildsOK' /\ ExportsStayBuildable'
<1>1. builds' = [o \in Builds |-> builds'[o]]
  BY DEF Disturb
<1>2. ASSUME NEW o \in Builds
      PROVE  BuildOK(builds[o])' /\ builds'[o].stage = builds[o].stage
  <2>1. BuildOK(builds[o])
    BY DEF PackageInv
  <2>2. CASE "alone" \in DOMAIN builds[o]
    <3>1. builds'[o] = [builds[o] EXCEPT !.alone = FALSE]
      BY <2>2 DEF Disturb
    <3>2. builds[o].alone => builds'[o] # builds[o]
      BY <2>2, <3>1
    <3>3. builds[o].stage # "idle"
      BY <2>1, <2>2 DEF BuildOK, Shape, NoBuild
    <3>4. BuildOK(builds[o])'
      BY <2>1, <2>2, <3>1, <3>2, OtherStays
    <3> QED BY <2>1, <2>2, <3>1, <3>3, <3>4, MutedShape DEF BuildOK
  <2>3. CASE "alone" \notin DOMAIN builds[o]
    <3>1. builds'[o] = builds[o]
      BY <2>3 DEF Disturb
    <3>2. builds[o].stage \notin Planned
      BY <2>1, <2>3, Marked DEF BuildOK
    <3>3. builds[o].stage \notin Writing
      BY <3>2 DEF Planned
    <3> QED BY <2>1, <3>1, <3>2, <3>3, OtherStays
  <2> QED BY <2>2, <2>3
<1>3. BuildsOK'
  BY <1>1, <1>2 DEF BuildsOK, OneWriter, PackageInv
<1>4. ExportsStayBuildable'
  BY <1>2 DEF PackageInv, ExportsStayBuildable
<1> QED BY <1>3, <1>4

LEMMA UnplannedOK ==
  ASSUME NEW r, Shape(r), r.stage \notin Planned
  PROVE  BuildOK(r) /\ BuildOK(r)'
BY DEF BuildOK, PlanFits, AloneFits, OrderlyFits, Planned, Writing, Filling, Shape, PlanShape

\* A build that is not writing moves on, and is not writing then either.
LEMMA QuietStep ==
  ASSUME PackageInv, NEW b \in Builds, NEW rec, Keep(b, rec),
         UNCHANGED <<inputs, listed, texts, profile, output, manifest, orderly>>,
         builds[b].stage \notin Writing, rec.stage \notin Writing,
         releases' \subseteq [plan : Plans, status : {"succeeded", "failed"}],
         builds'[b] = rec => BuildOK(builds[b])'
  PROVE  PackageInv'
<1>1. BuildsOK'
  BY KeepStep
<1>2. WorldOK'
  BY DEF PackageInv, WorldOK
<1>3. \A o \in Builds : builds'[o].stage \in Writing <=> builds[o].stage \in Writing
  BY DEF PackageInv, Keep
<1>4. ExportsStayBuildable'
  BY <1>3 DEF PackageInv, ExportsStayBuildable
<1> QED BY <1>1, <1>2, <1>4 DEF PackageInv, BuildsOK

\* The same for a record of a stage without a plan.
LEMMA UnplannedStep ==
  ASSUME PackageInv, NEW b \in Builds, NEW rec, Keep(b, rec),
         UNCHANGED <<inputs, listed, texts, profile, output, manifest, orderly>>,
         builds[b].stage \notin Writing, Shape(rec), rec.stage \notin Planned,
         releases' \subseteq [plan : Plans, status : {"succeeded", "failed"}]
  PROVE  PackageInv'
<1>1. BuildOK(rec)' /\ rec.stage \notin Writing
  BY UnplannedOK DEF Planned
<1>2. builds'[b] = rec => BuildOK(builds[b])'
  BY <1>1
<1> QED BY <1>1, <1>2, QuietStep

LEMMA OpenKeeps ==
  ASSUME PackageInv, NEW b \in Builds, NEW p \in Plans, NEW late \in BOOLEAN,
         OpenPackagePlan(b, p, late)
  PROVE  PackageInv'
<1>1. PICK rec : rec = [stage |-> IF late THEN "stale" ELSE "opened", plan |-> p]
  OBVIOUS
<1>2. Shape(rec) /\ rec.stage \notin Planned
  BY <1>1 DEF Shape, Planned, Writing, Filling
<1>3. builds[b].stage \notin Writing /\ Keep(b, rec)
  BY <1>1 DEF OpenPackagePlan, Begin, NoBuild, Writing, Filling
<1> QED BY <1>2, <1>3, UnplannedStep DEF OpenPackagePlan, Unread, PackageInv, WorldOK

LEMMA RefuseKeeps ==
  ASSUME PackageInv, NEW b \in Builds, RefuseStalePlan(b)
  PROVE  PackageInv'
<1>1. PICK rec : rec = NoBuild
  OBVIOUS
<1>2. Shape(rec) /\ rec.stage \notin Planned
  BY <1>1 DEF Shape, Planned, Writing, Filling, NoBuild
<1>3. builds[b].stage \notin Writing /\ Keep(b, rec)
  BY <1>1 DEF RefuseStalePlan, Writing, Filling
<1> QED BY <1>2, <1>3, UnplannedStep DEF RefuseStalePlan, PackageInv, WorldOK

LEMMA ReleaseKeeps ==
  ASSUME PackageInv, NEW b \in Builds, RecordPackageRelease(b)
  PROVE  PackageInv'
<1>1. PICK rec : rec = NoBuild
  OBVIOUS
<1>2. Shape(rec) /\ rec.stage \notin Planned
  BY <1>1 DEF Shape, Planned, Writing, Filling, NoBuild
<1>3. builds[b].stage \notin Writing /\ Keep(b, rec)
  BY <1>1 DEF RecordPackageRelease, Writing, Filling
<1>4. builds[b].plan \in Plans
  BY DEF RecordPackageRelease, PackageInv, BuildOK, Shape
<1>5. releases' \subseteq [plan : Plans, status : {"succeeded", "failed"}]
  BY <1>4 DEF RecordPackageRelease, PackageInv, WorldOK
<1> QED BY <1>2, <1>3, <1>5, UnplannedStep DEF RecordPackageRelease

LEMMA BuildPlanKeeps ==
  ASSUME PackageInv, NEW b \in Builds, NEW refused \in BOOLEAN, BuildPackagePlan(b, refused)
  PROVE  PackageInv'
<1>1. PICK r : r = builds[b]
  OBVIOUS
<1>2. Shape(r) /\ r.stage = "opened" /\ profile \in Uses
  BY <1>1 DEF BuildPackagePlan, PackageInv, BuildOK, WorldOK
<1>3. /\ "stage" \in DOMAIN r /\ "plan" \in DOMAIN r /\ r.plan \in Plans
  BY <1>2 DEF Shape
<1>4. PICK use : use = profile
  OBVIOUS
<1>5. PICK rec : Keep(b, rec) /\
        (\/ rec = [r EXCEPT !.stage = "stale"]
         \/ rec = [r EXCEPT !.stage = "failed"]
         \/ rec = [stage |-> "accepted", plan |-> r.plan, use |-> use])
  BY <1>1, <1>4 DEF BuildPackagePlan
<1>6. Shape(rec) /\ rec.stage \notin Planned
  <2>1. CASE rec = [r EXCEPT !.stage = "stale"]
    <3>1. rec.stage = "stale" /\ rec.plan = r.plan /\ DOMAIN rec = DOMAIN r
      BY <1>3, <2>1
    <3> QED BY <1>3, <3>1 DEF Shape, Planned, Writing, Filling
  <2>2. CASE rec = [r EXCEPT !.stage = "failed"]
    <3>1. rec.stage = "failed" /\ rec.plan = r.plan /\ DOMAIN rec = DOMAIN r
      BY <1>3, <2>2
    <3> QED BY <1>3, <3>1 DEF Shape, Planned, Writing, Filling
  <2>3. CASE rec = [stage |-> "accepted", plan |-> r.plan, use |-> use]
    BY <1>2, <1>3, <1>4, <2>3 DEF Shape, Planned, Writing, Filling
  <2> QED BY <1>5, <2>1, <2>2, <2>3
<1>7. builds[b].stage \notin Writing
  BY <1>1, <1>2 DEF Writing, Filling
<1> QED BY <1>5, <1>6, <1>7, UnplannedStep
        DEF BuildPackagePlan, Unbuilt, Unread, PackageInv, WorldOK

LEMMA BuildPackageKeeps ==
  ASSUME PackageInv, NEW b \in Builds, NEW mode \in {"copy", "reference"}, BuildPackage(b, mode)
  PROVE  PackageInv'
<1>1. PICK use : use = [profile EXCEPT !.mode = mode]
  OBVIOUS
<1>2. use \in Uses
  BY <1>1 DEF PackageInv, WorldOK, Uses
<1>3. PICK rec : rec = [stage |-> "accepted", plan |-> "legacy", use |-> use]
  OBVIOUS
<1>4. Shape(rec) /\ rec.stage \notin Planned
  BY <1>2, <1>3 DEF Shape, Planned, Writing, Filling
<1>5. builds[b].stage \notin Writing /\ Keep(b, rec)
  BY <1>1, <1>3 DEF BuildPackage, Begin, NoBuild, Writing, Filling
<1> QED BY <1>4, <1>5, UnplannedStep DEF BuildPackage, Unread, PackageInv, WorldOK

\* An answered build has failed, or is gone when it answers no plan.
LEMMA AnsweredShape ==
  ASSUME NEW r, Shape(r), r.stage # "idle",
         NEW a, a = IF r.plan = "legacy" THEN NoBuild ELSE [r EXCEPT !.stage = "failed"]
  PROVE  Shape(a) /\ a.stage \in {"idle", "failed"}
<1>1. "stage" \in DOMAIN r /\ "plan" \in DOMAIN r /\ r.plan \in Plans \cup {"legacy"}
  BY DEF Shape
<1>2. CASE r.plan = "legacy"
  BY <1>2 DEF Shape, NoBuild, Planned, Writing, Filling
<1>3. CASE r.plan # "legacy"
  <2>1. a.stage = "failed" /\ a.plan = r.plan /\ DOMAIN a = DOMAIN r
    BY <1>1, <1>3
  <2> QED BY <1>1, <1>3, <2>1 DEF Shape, Planned, Writing, Filling
<1> QED BY <1>2, <1>3

\* A plan without conflicts: no file of the user's but a claimed one, and what a
\* target would get is to be written or there already, whatever else is offered for it.
LEMMA PlanIsClean ==
  ASSUME PackageInv, NEW use \in Uses, Conflicts(use) = {}
  PROVE  /\ Kept(use) \subseteq Places
         /\ \A p \in Kept(use) \ Systems :
              output[p] = "user" => manifest.owned[p] \in {"user", "any"}
         /\ \A w \in listed : inputs[w] # "gone" /\ use.mode # "reference" =>
              \/ PathOf[w] \in Kept(use) /\ WritesTarget(PathOf[w], use)
              \/ output[PathOf[w]] = inputs[w]
         /\ WritesTarget("template", use) \/ output["template"] = use.template
         /\ \A s \in Metadata : WritesTarget(s, use)
<1>1. listed \subseteq Sources /\ Metadata \subseteq Systems
  BY PlacesApart DEF PackageInv, WorldOK, Metadata
<1>2. Kept(use) \subseteq Places
  BY <1>1, PlacesApart DEF Kept, Offered
<1>3. ASSUME NEW p \in Kept(use) \ Systems, output[p] = "user"
      PROVE  manifest.owned[p] \in {"user", "any"}
  <2>1. ~Foreign(p) /\ Owned(p) = manifest.owned[p]
    BY <1>1, <1>3 DEF Conflicts, Owned
  <2> QED BY <1>3, <2>1 DEF Foreign
<1>4. \A v \in Offered : ~Changed(v) /\ ~Doubled(v, use)
  BY DEF Conflicts
<1>5. ASSUME NEW w \in listed, inputs[w] # "gone", use.mode # "reference"
      PROVE  \/ PathOf[w] \in Kept(use) /\ WritesTarget(PathOf[w], use)
             \/ output[PathOf[w]] = inputs[w]
  <2>1. w \in Offered /\ w # "template" /\ TargetOf(w) = PathOf[w] /\ HashOf(w, use) = inputs[w]
    BY <1>1, <1>5, PlacesApart DEF Offered, TargetOf, HashOf
  <2>2. PathOf[w] \in Kept(use)
    BY <1>5, <2>1 DEF Kept
  <2>3. ASSUME NEW v \in Offered, TargetOf(v) = PathOf[w], output[PathOf[w]] = HashOf(v, use)
        PROVE  output[PathOf[w]] = inputs[w]
    BY <1>4, <2>1, <2>3 DEF Doubled
  <2> QED BY <2>2, <2>3 DEF WritesTarget
<1>6. WritesTarget("template", use) \/ output["template"] = use.template
  <2>1. ASSUME NEW v \in Offered, TargetOf(v) = "template"
        PROVE  HashOf(v, use) = use.template
    BY <1>1, <2>1, PlacesApart DEF Offered, TargetOf, HashOf
  <2> QED BY <2>1 DEF WritesTarget
<1>7. ASSUME NEW s \in Metadata
      PROVE  WritesTarget(s, use)
  BY <1>1, <1>7, PlacesApart DEF WritesTarget, Offered, TargetOf
<1> QED BY <1>2, <1>3, <1>5, <1>6, <1>7

LEMMA PlanKeeps ==
  ASSUME PackageInv, NEW b \in Builds, PlanBuild(b)
  PROVE  PackageInv'
<1>1. PICK r : r = builds[b]
  OBVIOUS
<1>2. Shape(r) /\ r.stage = "accepted" /\ r.use \in Uses /\ r.plan \in Plans \cup {"legacy"}
  BY <1>1 DEF PlanBuild, PackageInv, BuildOK, Shape
<1>3. builds[b].stage \notin Writing
  BY <1>1, <1>2 DEF Writing, Filling
<1>4. UNCHANGED <<inputs, listed, texts, profile, output, manifest, orderly, releases>>
  BY DEF PlanBuild, Unbuilt, Unread
<1>5. releases' \subseteq [plan : Plans, status : {"succeeded", "failed"}]
  BY <1>4 DEF PackageInv, WorldOK
<1>6. CASE Conflicts(r.use) # {}
  <2>1. PICK rec : rec = IF r.plan = "legacy" THEN NoBuild ELSE [r EXCEPT !.stage = "failed"]
    OBVIOUS
  <2>2. Shape(rec) /\ rec.stage \notin Planned
    BY <1>2, <2>1, AnsweredShape DEF Planned, Writing, Filling
  <2>3. Keep(b, rec)
    BY <1>1, <1>6, <2>1 DEF PlanBuild, Answered
  <2> QED BY <1>3, <1>4, <1>5, <2>2, <2>3, UnplannedStep
<1>7. CASE Conflicts(r.use) = {}
  <2>1. PICK use : use = r.use
    OBVIOUS
  <2>2. PICK kept : kept = Kept(use)
    OBVIOUS
  <2>3. PICK writes : writes = {p \in Kept(use) : WritesTarget(p, use)}
    OBVIOUS
  <2>4. PICK before : before = output
    OBVIOUS
  <2>5. PICK owned : owned = manifest.owned
    OBVIOUS
  <2>6. PICK rec : rec = [stage |-> "planned", plan |-> r.plan, use |-> use, kept |-> kept,
                          writes |-> writes, before |-> before, owned |-> owned, alone |-> TRUE]
    OBVIOUS
  <2>7. Keep(b, rec)
    BY <1>1, <1>7, <2>1, <2>2, <2>3, <2>4, <2>5, <2>6 DEF PlanBuild
  <2>8. use \in Uses /\ Conflicts(use) = {}
    BY <1>2, <1>7, <2>1
  <2>9. kept \subseteq Places /\ before \in [Places -> Contents] /\ owned \in [Places -> Owners]
    BY <2>2, <2>4, <2>5, <2>8, PlanIsClean DEF PackageInv, WorldOK
  <2>10. Shape(rec)
    <3>1. "template" \in kept
      BY <2>2 DEF Kept
    <3> QED
      BY <1>2, <2>2, <2>3, <2>6, <2>8, <2>9, <3>1
         DEF Shape, PlanShape, Planned, Writing, Filling, PlanFields
  <2>11. PlanFits(rec)
    BY <2>2, <2>4, <2>5, <2>6, <2>8, PlanIsClean DEF PlanFits
  <2>12. /\ \A w \in listed : inputs[w] # "gone" /\ use.mode # "reference" =>
              PathOf[w] \in writes \/ before[PathOf[w]] = inputs[w]
         /\ "template" \in writes \/ before["template"] = use.template
         /\ Metadata \subseteq writes
    <3>1. "template" \in Kept(use) /\ Metadata \subseteq Kept(use)
      BY DEF Kept
    <3> QED BY <3>1, <2>3, <2>4, <2>8, PlanIsClean
  <2>13. AloneFits(rec)'
    BY <1>4, <2>4, <2>6, <2>12 DEF AloneFits, Planned, Metadata
  <2>14. BuildOK(rec)'
    <3>1. Shape(rec)' /\ PlanFits(rec)'
      BY <2>10, <2>11 DEF Shape, PlanShape, PlanFits
    <3>2. OrderlyFits(rec)'
      BY <2>6 DEF OrderlyFits, Filling
    <3> QED BY <2>13, <3>1, <3>2 DEF BuildOK
  <2>15. builds'[b] = rec => BuildOK(builds[b])'
    BY <2>14
  <2>16. rec.stage \notin Writing
    BY <2>6 DEF Writing, Filling
  <2> QED BY <1>3, <1>4, <1>5, <2>7, <2>15, <2>16, QuietStep
<1> QED BY <1>6, <1>7

\* A build that writes, or starts to, keeps the directory as it is.
LEMMA WritingStep ==
  ASSUME PackageInv, NEW b \in Builds, NEW rec, Keep(b, rec), rec.stage \in Writing,
         UNCHANGED <<inputs, listed, texts, profile, output, manifest, releases>>,
         orderly' => orderly,
         orderly' => \/ builds[b].stage \in Writing
                     \/ \A o \in Builds \ {b} : builds[o].stage \notin Writing,
         builds'[b] = rec => BuildOK(builds[b])'
  PROVE  PackageInv'
<1>1. BuildsOK'
  BY KeepStep
<1>2. WorldOK'
  BY DEF PackageInv, WorldOK
<1>3. builds'[b] = rec
  BY DEF PackageInv, Keep
<1>4. ExportsStayBuildable'
  BY <1>3 DEF ExportsStayBuildable
<1> QED BY <1>1, <1>2, <1>4 DEF PackageInv, BuildsOK

LEMMA PrepareKeeps ==
  ASSUME PackageInv, NEW b \in Builds, PrepareBuildRecovery(b)
  PROVE  PackageInv'
<1>1. PICK r : r = builds[b]
  OBVIOUS
<1>2. BuildOK(r) /\ Shape(r) /\ r.stage = "planned" /\ r.use \in Uses /\ PlanShape(r)
      /\ r.plan \in Plans \cup {"legacy"} /\ "template" \in r.kept /\ r.writes \subseteq r.kept
  BY <1>1 DEF PrepareBuildRecovery, PackageInv, BuildOK, Shape
<1>3. PICK todo : todo = listed
  OBVIOUS
<1>4. PICK snapshot : snapshot = [p \in Places |-> IF p \in r.writes THEN output[p] ELSE "unsaved"]
  OBVIOUS
<1>5. PICK read : read = [p \in Places |-> "none"]
  OBVIOUS
<1>6. PICK rec : rec = [stage |-> "files", plan |-> r.plan, use |-> r.use, kept |-> r.kept,
                        rest |-> todo, read |-> read, snapshot |-> snapshot,
                        before |-> r.before, owned |-> r.owned, alone |-> r.alone]
  OBVIOUS
<1>7. Keep(b, rec)
  BY <1>1, <1>3, <1>4, <1>5, <1>6 DEF PrepareBuildRecovery
<1>8. UNCHANGED <<inputs, listed, texts, profile, output, manifest, releases>>
  BY DEF PrepareBuildRecovery
<1>9. orderly' => /\ orderly /\ r.use.mode = "copy"
                  /\ \A o \in Builds \ {b} : builds[o].stage \notin Writing
  BY <1>1 DEF PrepareBuildRecovery
<1>10. output \in [Places -> Contents] /\ todo \subseteq Sources
  BY <1>3 DEF PackageInv, WorldOK
<1>11. Shape(rec)
  <2>1. snapshot \in [Places -> Contents \cup {"unsaved"}]
    BY <1>4, <1>10
  <2>2. read \in [Places -> Bytes \cup {"none"}] /\ \A p \in Places : read[p] = "none"
    BY <1>5
  <2>3. \A p \in Places : snapshot[p] # "unsaved" => p \in r.kept
    BY <1>2, <1>4
  <2> QED BY <1>2, <1>6, <1>10, <2>1, <2>2, <2>3 DEF Shape, PlanShape, Planned, Writing, Filling, PlanFields
<1>12. PlanFits(rec)
  BY <1>2, <1>6 DEF BuildOK, PlanFits, Planned, Writing, Filling
<1>13. ASSUME r.alone
       PROVE  /\ output = r.before /\ SnapshotHolds(rec)
              /\ \A w \in todo : inputs[w] # "gone" /\ r.use.mode # "reference" =>
                   Covers(rec, PathOf[w], inputs[w])
              /\ \A s \in Metadata : snapshot[s] # "unsaved"
              /\ Covers(rec, "template", r.use.template)
  <2>1. /\ output = r.before
        /\ \A w \in todo : inputs[w] # "gone" /\ r.use.mode # "reference" =>
              PathOf[w] \in r.writes \/ r.before[PathOf[w]] = inputs[w]
        /\ "template" \in r.writes \/ r.before["template"] = r.use.template
        /\ Metadata \subseteq r.writes
    BY <1>2, <1>3, <1>13 DEF BuildOK, AloneFits, Planned
  <2>2. \A p \in r.writes : snapshot[p] # "unsaved"
    <3> SUFFICES ASSUME NEW p \in r.writes PROVE snapshot[p] # "unsaved"
      OBVIOUS
    <3>1. p \in Places /\ snapshot[p] = output[p]
      BY <1>2, <1>4 DEF PlanShape
    <3> QED BY <1>10, <3>1, WordsAreNoBytes DEF Contents
  <2>3. SnapshotHolds(rec)
    BY <1>4, <1>6, <2>1, <2>2 DEF SnapshotHolds
  <2> QED BY <1>6, <2>1, <2>2, <2>3 DEF Covers
<1>14. AloneFits(rec)'
  BY <1>3, <1>6, <1>8, <1>13 DEF AloneFits, SnapshotHolds, Covers, Metadata
<1>15. ASSUME orderly', r.alone
       PROVE  Agrees(r.before)
  <2>1. \A o \in Builds : builds[o].stage \notin Writing
    BY <1>1, <1>2, <1>9, <1>15 DEF Writing, Filling
  <2>2. Agrees(output)
    BY <1>9, <1>15, <2>1 DEF PackageInv, ExportsStayBuildable, Agrees
  <2> QED BY <1>13, <1>15, <2>2
<1>16. OrderlyFits(rec)'
  <2>1. \A p \in Places : read[p] = "none"
    BY <1>5
  <2>2. rec.stage = "files" /\ rec.read = read /\ rec.use = r.use /\ rec.alone = r.alone /\ rec.before = r.before
    BY <1>6
  <2>3. ASSUME orderly', r.alone
        PROVE  Agrees(rec.before)'
    BY <1>8, <1>15, <2>2, <2>3 DEF Agrees
  <2>4. ReadFits(rec)'
    BY <2>1, <2>2 DEF ReadFits
  <2> QED BY <1>9, <2>2, <2>3, <2>4 DEF OrderlyFits
<1>17. BuildOK(rec)'
  <2>1. Shape(rec)' /\ PlanFits(rec)'
    BY <1>11, <1>12 DEF Shape, PlanShape, PlanFits
  <2> QED BY <1>14, <1>16, <2>1 DEF BuildOK
<1>18. builds'[b] = rec => BuildOK(builds[b])'
  BY <1>17
<1>19. rec.stage \in Writing
  BY <1>6 DEF Writing, Filling
<1> QED BY <1>7, <1>8, <1>9, <1>18, <1>19, WritingStep

\* A build that goes over the files changes its stage, what is left and what it read.
LEMMA FilesMove ==
  ASSUME NEW r, Shape(r), r.stage \in {"files", "copying"},
         NEW rec, DOMAIN rec = DOMAIN r, rec = [f \in DOMAIN r |-> rec[f]],
         \A f \in DOMAIN r \ {"stage", "rest", "read"} : rec[f] = r[f],
         rec.stage \in {"files", "copying"},
         rec.stage = "copying" => rec.rest # {} /\ r.use.mode # "reference",
         rec.rest \subseteq r.rest, rec.read \in [Places -> Bytes \cup {"none"}],
         \A p \in Places : rec.read[p] # "none" => p \in ExportPaths
  PROVE  /\ Shape(rec) /\ (PlanFits(r) => PlanFits(rec))
         /\ rec.plan = r.plan /\ rec.use = r.use /\ rec.kept = r.kept /\ rec.before = r.before
         /\ rec.owned = r.owned /\ rec.alone = r.alone /\ rec.snapshot = r.snapshot
<1>1. /\ DOMAIN r = PlanFields \cup {"rest", "read", "snapshot"}
      /\ PlanShape(r) /\ r.rest \subseteq Sources /\ r.use \in Uses /\ r.plan \in Plans \cup {"legacy"}
      /\ r.snapshot \in [Places -> Contents \cup {"unsaved"}]
      /\ \A p \in Places : r.snapshot[p] # "unsaved" => p \in r.kept
      /\ "template" \in r.kept
  BY DEF Shape, Filling, Planned, Writing
<1>2. /\ rec.plan = r.plan /\ rec.use = r.use /\ rec.kept = r.kept /\ rec.before = r.before
      /\ rec.owned = r.owned /\ rec.alone = r.alone /\ rec.snapshot = r.snapshot
  BY <1>1 DEF PlanFields
<1>3. Shape(rec)
  BY <1>1, <1>2 DEF Shape, PlanShape, Planned, Writing, Filling
<1> QED BY <1>2, <1>3 DEF PlanFits, Planned, Writing, Filling

\* What a build that goes over the files knows.
LEMMA FilesKnown ==
  ASSUME PackageInv, NEW b \in Builds, builds[b].stage \in {"files", "copying"},
         NEW r, r = builds[b], r.rest # {}, NEW w, w = First(r.rest)
  PROVE  /\ BuildOK(r) /\ Shape(r) /\ PlanFits(r) /\ w \in r.rest /\ w \in Sources
         /\ r.read \in [Places -> Bytes \cup {"none"}]
         /\ \A p \in Places : r.read[p] # "none" => p \in ExportPaths
         /\ DOMAIN r = PlanFields \cup {"rest", "read", "snapshot"}
         /\ PathOf[w] \in ExportPaths /\ PathOf[w] \in Places
         /\ inputs[w] \in Bytes \cup {"gone"}
         /\ r.alone =>
              /\ SnapshotHolds(r)
              /\ \A v \in r.rest : inputs[v] # "gone" /\ r.use.mode # "reference" =>
                   Covers(r, PathOf[v], inputs[v])
              /\ \A s \in Metadata : r.snapshot[s] # "unsaved"
              /\ Covers(r, "template", r.use.template)
         /\ orderly => r.use.mode = "copy" /\ ReadFits(r) /\ (r.alone => Agrees(r.before))
<1>1. BuildOK(r) /\ Shape(r) /\ PlanFits(r)
  BY DEF PackageInv, BuildOK
<1>2. /\ r.read \in [Places -> Bytes \cup {"none"}]
      /\ \A p \in Places : r.read[p] # "none" => p \in ExportPaths
      /\ DOMAIN r = PlanFields \cup {"rest", "read", "snapshot"}
      /\ r.rest \subseteq Sources
  BY <1>1 DEF Shape, Filling
<1>3. w \in r.rest
  BY FirstIsIn
<1>4. PathOf[w] \in ExportPaths /\ PathOf[w] \in Places /\ inputs[w] \in Bytes \cup {"gone"}
  BY <1>2, <1>3, PlacesApart DEF PackageInv, WorldOK
<1>5. r.alone =>
        /\ SnapshotHolds(r)
        /\ \A v \in r.rest : inputs[v] # "gone" /\ r.use.mode # "reference" =>
             Covers(r, PathOf[v], inputs[v])
        /\ \A s \in Metadata : r.snapshot[s] # "unsaved"
        /\ Covers(r, "template", r.use.template)
  BY <1>1 DEF BuildOK, AloneFits, Planned, Writing, Filling
<1>6. orderly => r.use.mode = "copy" /\ ReadFits(r) /\ (r.alone => Agrees(r.before))
  BY <1>1 DEF BuildOK, OrderlyFits, Filling
<1> QED BY <1>1, <1>2, <1>3, <1>4, <1>5, <1>6

LEMMA HashKeeps ==
  ASSUME PackageInv, NEW b \in Builds, HashSource(b)
  PROVE  PackageInv'
<1>1. PICK r : r = builds[b]
  OBVIOUS
<1>2. PICK w : w = First(r.rest)
  OBVIOUS
<1>3. r.stage = "files" /\ r.rest # {} /\ builds[b].stage \in {"files", "copying"}
  BY <1>1 DEF HashSource
<1>4. /\ BuildOK(r) /\ Shape(r) /\ PlanFits(r) /\ w \in r.rest
      /\ r.read \in [Places -> Bytes \cup {"none"}]
      /\ \A p \in Places : r.read[p] # "none" => p \in ExportPaths
      /\ DOMAIN r = PlanFields \cup {"rest", "read", "snapshot"}
      /\ PathOf[w] \in ExportPaths /\ PathOf[w] \in Places
      /\ inputs[w] \in Bytes \cup {"gone"}
  BY <1>1, <1>2, <1>3, FilesKnown
<1>5. /\ r.alone =>
           /\ SnapshotHolds(r)
           /\ \A v \in r.rest : inputs[v] # "gone" /\ r.use.mode # "reference" =>
                Covers(r, PathOf[v], inputs[v])
           /\ \A s \in Metadata : r.snapshot[s] # "unsaved"
           /\ Covers(r, "template", r.use.template)
      /\ orderly => r.use.mode = "copy" /\ ReadFits(r) /\ (r.alone => Agrees(r.before))
  BY <1>1, <1>2, <1>3, FilesKnown
<1>6. UNCHANGED <<inputs, listed, texts, profile, output, manifest, orderly, releases>>
  BY DEF HashSource, Unbuilt, Unread
<1>7. PICK c : c = inputs[w]
  OBVIOUS
<1>8. PICK done : done = [r EXCEPT !.rest = @ \ {w}]
  OBVIOUS
<1>9. PICK settled : settled = [done EXCEPT !.read[PathOf[w]] = c]
  OBVIOUS
<1>10. PICK copying : copying = [r EXCEPT !.read[PathOf[w]] = c, !.stage = "copying"]
  OBVIOUS
<1>11. /\ DOMAIN done = DOMAIN r /\ done = [f \in DOMAIN r |-> done[f]]
       /\ \A f \in DOMAIN r \ {"rest"} : done[f] = r[f]
       /\ done.rest = r.rest \ {w} /\ done.read = r.read /\ done.stage = "files"
  BY <1>3, <1>4, <1>8 DEF PlanFields
<1>12. /\ DOMAIN settled = DOMAIN r /\ settled = [f \in DOMAIN r |-> settled[f]]
       /\ \A f \in DOMAIN r \ {"rest", "read"} : settled[f] = r[f]
       /\ settled.rest = r.rest \ {w} /\ settled.stage = "files"
       /\ settled.read = [r.read EXCEPT ![PathOf[w]] = c]
  BY <1>3, <1>4, <1>9, <1>11 DEF PlanFields
<1>13. /\ DOMAIN copying = DOMAIN r /\ copying = [f \in DOMAIN r |-> copying[f]]
       /\ \A f \in DOMAIN r \ {"stage", "read"} : copying[f] = r[f]
       /\ copying.rest = r.rest /\ copying.stage = "copying"
       /\ copying.read = [r.read EXCEPT ![PathOf[w]] = c]
  BY <1>4, <1>10 DEF PlanFields
<1>14. \/ Keep(b, done)
       \/ /\ Keep(b, settled) /\ c \in Bytes
          /\ r.use.mode = "reference" \/ output[PathOf[w]] = c
       \/ Keep(b, copying) /\ c \in Bytes /\ r.use.mode # "reference"
  BY <1>1, <1>2, <1>4, <1>7, <1>8, <1>9, <1>10 DEF HashSource
<1>15. \A p \in Places : [r.read EXCEPT ![PathOf[w]] = c][p] # "none" => p \in ExportPaths
  BY <1>4
<1>16. c \in Bytes => [r.read EXCEPT ![PathOf[w]] = c] \in [Places -> Bytes \cup {"none"}]
  BY <1>4
<1>17. ASSUME NEW rec, Keep(b, rec), Shape(rec), PlanFits(rec), rec.stage \in {"files", "copying"},
              rec.use = r.use, rec.kept = r.kept, rec.before = r.before, rec.alone = r.alone,
              rec.snapshot = r.snapshot, rec.rest \subseteq r.rest,
              orderly => ReadFits(rec)
       PROVE  PackageInv'
  <2>1. AloneFits(rec)'
    BY <1>5, <1>6, <1>17 DEF AloneFits, SnapshotHolds, Covers, Metadata
  <2>2. OrderlyFits(rec)'
    BY <1>5, <1>6, <1>17 DEF OrderlyFits, ReadFits, Pending, Agrees
  <2>3. Shape(rec)' /\ PlanFits(rec)'
    BY <1>17 DEF Shape, PlanShape, PlanFits
  <2>4. builds'[b] = rec => BuildOK(builds[b])'
    BY <2>1, <2>2, <2>3 DEF BuildOK
  <2>5. rec.stage \in Writing /\ builds[b].stage \in Writing
    BY <1>3, <1>17 DEF Writing, Filling
  <2> QED BY <1>6, <1>17, <2>4, <2>5, WritingStep
<1>18. CASE Keep(b, done)
  <2>1. /\ Shape(done) /\ PlanFits(done)
        /\ done.use = r.use /\ done.kept = r.kept /\ done.before = r.before
        /\ done.alone = r.alone /\ done.snapshot = r.snapshot
    <3>1. /\ r.stage \in {"files", "copying"} /\ done.stage \in {"files", "copying"}
          /\ done.stage = "copying" => done.rest # {} /\ r.use.mode # "reference"
          /\ done.rest \subseteq r.rest
      BY <1>3, <1>4, <1>11
    <3>2. \A f \in DOMAIN r \ {"stage", "rest", "read"} : done[f] = r[f]
      BY <1>3, <1>4, <1>11
    <3>3. /\ done.read \in [Places -> Bytes \cup {"none"}]
          /\ \A p \in Places : done.read[p] # "none" => p \in ExportPaths
      BY <1>3, <1>4, <1>11
    <3> QED BY ZenonT(40), <1>4, <1>11, <3>1, <3>2, <3>3, FilesMove
  <2>2. orderly => ReadFits(done)
    BY <1>3, <1>5, <1>11, <2>1 DEF ReadFits, Pending
  <2> QED BY <1>11, <1>17, <1>18, <2>1, <2>2
<1>19. CASE /\ Keep(b, settled) /\ c \in Bytes
            /\ r.use.mode = "reference" \/ output[PathOf[w]] = c
  <2>1. /\ Shape(settled) /\ PlanFits(settled)
        /\ settled.use = r.use /\ settled.kept = r.kept /\ settled.before = r.before
        /\ settled.alone = r.alone /\ settled.snapshot = r.snapshot
    <3>1. /\ r.stage \in {"files", "copying"} /\ settled.stage \in {"files", "copying"}
          /\ settled.stage = "copying" => settled.rest # {} /\ r.use.mode # "reference"
          /\ settled.rest \subseteq r.rest
      BY <1>3, <1>4, <1>12, <1>15, <1>16, <1>19
    <3>2. \A f \in DOMAIN r \ {"stage", "rest", "read"} : settled[f] = r[f]
      BY <1>3, <1>4, <1>12, <1>15, <1>16, <1>19
    <3>3. /\ settled.read \in [Places -> Bytes \cup {"none"}]
          /\ \A p \in Places : settled.read[p] # "none" => p \in ExportPaths
      BY <1>3, <1>4, <1>12, <1>15, <1>16, <1>19
    <3> QED BY ZenonT(40), <1>4, <1>12, <3>1, <3>2, <3>3, FilesMove
  <2>2. orderly => ReadFits(settled)
    BY <1>3, <1>4, <1>5, <1>12, <1>19, <2>1 DEF ReadFits, Pending
  <2> QED BY <1>12, <1>17, <1>19, <2>1, <2>2
<1>20. CASE Keep(b, copying) /\ c \in Bytes /\ r.use.mode # "reference"
  <2>1. /\ Shape(copying) /\ PlanFits(copying)
        /\ copying.use = r.use /\ copying.kept = r.kept /\ copying.before = r.before
        /\ copying.alone = r.alone /\ copying.snapshot = r.snapshot
    <3>1. /\ r.stage \in {"files", "copying"} /\ copying.stage \in {"files", "copying"}
          /\ copying.stage = "copying" => copying.rest # {} /\ r.use.mode # "reference"
          /\ copying.rest \subseteq r.rest
      BY <1>3, <1>4, <1>13, <1>15, <1>16, <1>20
    <3>2. \A f \in DOMAIN r \ {"stage", "rest", "read"} : copying[f] = r[f]
      BY <1>3, <1>4, <1>13, <1>15, <1>16, <1>20
    <3>3. /\ copying.read \in [Places -> Bytes \cup {"none"}]
          /\ \A p \in Places : copying.read[p] # "none" => p \in ExportPaths
      BY <1>3, <1>4, <1>13, <1>15, <1>16, <1>20
    <3> QED BY ZenonT(40), <1>4, <1>13, <3>1, <3>2, <3>3, FilesMove
  <2>2. orderly => ReadFits(copying)
    BY <1>2, <1>3, <1>4, <1>5, <1>13, <2>1 DEF ReadFits, Pending
  <2> QED BY <1>13, <1>17, <1>20, <2>1, <2>2
<1> QED BY <1>14, <1>18, <1>19, <1>20

LEMMA CopyKeeps ==
  ASSUME PackageInv, NEW b \in Builds, CopySource(b)
  PROVE  PackageInv'
<1>1. PICK r : r = builds[b]
  OBVIOUS
<1>2. PICK w : w = First(r.rest)
  OBVIOUS
<1>3. /\ r.stage = "copying" /\ r.rest # {} /\ r.use.mode # "reference"
      /\ builds[b].stage \in {"files", "copying"}
  BY <1>1 DEF CopySource, PackageInv, BuildOK, Shape
<1>4. /\ BuildOK(r) /\ Shape(r) /\ PlanFits(r) /\ w \in r.rest
      /\ r.read \in [Places -> Bytes \cup {"none"}]
      /\ \A p \in Places : r.read[p] # "none" => p \in ExportPaths
      /\ DOMAIN r = PlanFields \cup {"rest", "read", "snapshot"}
      /\ PathOf[w] \in Places /\ inputs[w] \in Bytes \cup {"gone"}
  BY <1>1, <1>2, <1>3, FilesKnown
<1>5. /\ r.alone =>
           /\ SnapshotHolds(r)
           /\ \A v \in r.rest : inputs[v] # "gone" /\ r.use.mode # "reference" =>
                Covers(r, PathOf[v], inputs[v])
           /\ \A s \in Metadata : r.snapshot[s] # "unsaved"
           /\ Covers(r, "template", r.use.template)
      /\ orderly => r.use.mode = "copy" /\ ReadFits(r) /\ (r.alone => Agrees(r.before))
  BY <1>1, <1>2, <1>3, FilesKnown
<1>6. PICK p : p = PathOf[w]
  OBVIOUS
<1>7. PICK c : c = inputs[w]
  OBVIOUS
<1>8. PICK rec : rec = [r EXCEPT !.rest = @ \ {w}, !.stage = "files"]
  OBVIOUS
<1>9. /\ c # "gone" /\ WritesFile(b, p, c, rec)
      /\ orderly' = (orderly /\ (p \in r.kept \/ r.read[p] = c))
      /\ UNCHANGED <<inputs, listed, texts, profile, manifest, releases>>
  BY <1>1, <1>2, <1>6, <1>7, <1>8 DEF CopySource
<1>10. /\ DOMAIN rec = DOMAIN r /\ rec = [f \in DOMAIN r |-> rec[f]]
       /\ \A f \in DOMAIN r \ {"stage", "rest"} : rec[f] = r[f]
       /\ rec.rest = r.rest \ {w} /\ rec.read = r.read /\ rec.stage = "files"
  BY <1>4, <1>8 DEF PlanFields
<1>11. /\ Shape(rec) /\ PlanFits(rec)
       /\ rec.use = r.use /\ rec.kept = r.kept /\ rec.before = r.before
       /\ rec.alone = r.alone /\ rec.snapshot = r.snapshot
  <2>1. /\ r.stage \in {"files", "copying"} /\ rec.stage \in {"files", "copying"}
        /\ rec.stage = "copying" => rec.rest # {} /\ r.use.mode # "reference"
        /\ rec.rest \subseteq r.rest
    BY <1>3, <1>10
  <2>2. \A f \in DOMAIN r \ {"stage", "rest", "read"} : rec[f] = r[f]
    BY <1>10
  <2>3. /\ rec.read \in [Places -> Bytes \cup {"none"}]
        /\ \A q \in Places : rec.read[q] # "none" => q \in ExportPaths
    BY <1>4, <1>10
  <2> QED BY ZenonT(40), <1>4, <1>10, <2>1, <2>2, <2>3, FilesMove
<1>12. output' = [output EXCEPT ![p] = c] /\ output \in [Places -> Contents]
  BY <1>9 DEF WritesFile, PackageInv, WorldOK
<1>13. c \in Contents /\ p \in Places
  BY <1>4, <1>6, <1>7 DEF Contents
<1>14. r.alone => SnapshotHolds(rec)'
  <2>1. r.alone => Covers(r, p, c)
    BY <1>3, <1>4, <1>5, <1>6, <1>7, <1>9
  <2> QED BY <1>5, <1>11, <1>12, <1>13, <2>1 DEF SnapshotHolds, Covers
<1>15. AloneFits(rec)'
  BY <1>3, <1>5, <1>9, <1>10, <1>11, <1>14 DEF AloneFits, Covers, Metadata
<1>16. orderly' => ReadFits(rec)'
  <2>1. Pending(r) = {p} /\ Pending(rec)' = {}
    BY <1>2, <1>3, <1>6, <1>10 DEF Pending
  <2> QED BY <1>5, <1>9, <1>10, <1>11, <1>12, <1>13, <2>1 DEF ReadFits
<1>17. OrderlyFits(rec)'
  BY <1>5, <1>9, <1>10, <1>11, <1>16 DEF OrderlyFits, Agrees
<1>18. Shape(rec)' /\ PlanFits(rec)'
  BY <1>11 DEF Shape, PlanShape, PlanFits
<1>19. builds'[b] = rec => BuildOK(builds[b])'
  BY <1>15, <1>17, <1>18 DEF BuildOK
<1>20. rec.stage \in Writing /\ builds[b].stage \in Writing
  BY <1>3, <1>10 DEF Writing, Filling
<1>21. BuildsOK' /\ output' \in [Places -> Contents] /\ ExportsStayBuildable'
  BY <1>9, <1>13, <1>19, <1>20, WriteStep
<1> QED BY <1>9, <1>21 DEF PackageInv, BuildsOK, WorldOK

LEMMA ExportKeeps ==
  ASSUME PackageInv, NEW b \in Builds, ExportFrontend(b)
  PROVE  PackageInv'
<1>1. PICK r : r = builds[b]
  OBVIOUS
<1>2. PICK todo : todo = Metadata
  OBVIOUS
<1>3. PICK text : text = texts
  OBVIOUS
<1>4. PICK rec : rec = [stage |-> "export", plan |-> r.plan, use |-> r.use, kept |-> r.kept,
                        rest |-> todo, text |-> text, read |-> r.read, snapshot |-> r.snapshot,
                        before |-> r.before, owned |-> r.owned, alone |-> r.alone]
  OBVIOUS
<1>5. Keep(b, rec)
  BY <1>1, <1>2, <1>3, <1>4 DEF ExportFrontend
<1>6. UNCHANGED <<inputs, listed, texts, profile, output, manifest, orderly, releases>>
  BY DEF ExportFrontend, Unbuilt, Unread
<1>7. BuildOK(r) /\ Shape(r) /\ r.stage = "files"
  BY <1>1 DEF ExportFrontend, PackageInv, BuildOK
<1>8. todo \subseteq Systems /\ text \in Bytes
  BY <1>2, <1>3, PlacesApart DEF PackageInv, WorldOK, Metadata
<1>9. Shape(rec)
  BY <1>4, <1>7, <1>8 DEF Shape, PlanShape, Planned, Writing, Filling, PlanFields
<1>10. r.alone =>
            /\ SnapshotHolds(r)
            /\ \A s \in Metadata : r.snapshot[s] # "unsaved"
            /\ Covers(r, "template", r.use.template)
  BY <1>7 DEF BuildOK, AloneFits, Planned, Writing, Filling
<1>11. orderly => /\ r.use.mode = "copy"
                  /\ ReadFits(r)
                  /\ r.alone => Agrees(r.before)
  BY <1>7 DEF BuildOK, OrderlyFits, Filling
<1>12. AloneFits(rec)'
  BY <1>2, <1>4, <1>6, <1>10 DEF AloneFits, SnapshotHolds, Covers
<1>13. OrderlyFits(rec)'
  BY <1>4, <1>6, <1>7, <1>11 DEF OrderlyFits, ReadFits, Pending, Agrees
<1>14. Shape(rec)' /\ PlanFits(rec)'
  BY <1>4, <1>7, <1>9 DEF BuildOK, Shape, PlanShape, PlanFits, Planned, Writing, Filling
<1>15. builds'[b] = rec => BuildOK(builds[b])'
  BY <1>12, <1>13, <1>14 DEF BuildOK
<1>16. rec.stage \in Writing /\ builds[b].stage \in Writing
  BY <1>1, <1>4, <1>7 DEF Writing, Filling
<1> QED BY <1>5, <1>6, <1>15, <1>16, WritingStep

\* A generated file goes to a path no source has, and one that is in the snapshot
\* of an undisturbed build or holds what is written.
LEMMA GeneratedStep ==
  ASSUME PackageInv, NEW b \in Builds, builds[b].stage = "export",
         NEW rec, DOMAIN rec = DOMAIN builds[b], rec.stage \in {"export", "manifest"},
         \A f \in DOMAIN builds[b] \ {"stage", "rest"} : rec[f] = builds[b][f],
         rec.rest \subseteq builds[b].rest,
         NEW p \in Places \ ExportPaths, NEW c \in Contents,
         builds[b].alone => Covers(builds[b], p, c),
         WritesFile(b, p, c, rec),
         UNCHANGED <<inputs, listed, texts, profile, manifest, orderly, releases>>
  PROVE  PackageInv'
<1>1. PICK r : r = builds[b]
  OBVIOUS
<1>2. BuildOK(r) /\ Shape(r) /\ r.stage = "export"
  BY <1>1 DEF PackageInv, BuildOK
<1>3. DOMAIN r = PlanFields \cup {"rest", "text", "read", "snapshot"}
  BY <1>2 DEF Shape
<1>4. /\ rec.plan = r.plan /\ rec.use = r.use /\ rec.kept = r.kept /\ rec.before = r.before
      /\ rec.owned = r.owned /\ rec.alone = r.alone /\ rec.snapshot = r.snapshot
      /\ rec.read = r.read /\ rec.text = r.text
  BY <1>1, <1>3 DEF PlanFields
<1>5. Shape(rec)
  BY <1>1, <1>2, <1>4 DEF Shape, PlanShape, Planned, Writing, Filling
<1>6. output' = [output EXCEPT ![p] = c] /\ output \in [Places -> Contents]
  BY DEF WritesFile, PackageInv, WorldOK
<1>7. r.alone => /\ SnapshotHolds(r)
                 /\ \A s \in r.rest : r.snapshot[s] # "unsaved"
                 /\ Covers(r, "template", r.use.template)
                 /\ Covers(r, p, c)
  BY <1>1, <1>2 DEF BuildOK, AloneFits, Planned, Writing, Filling
<1>8. orderly => /\ r.use.mode = "copy"
                 /\ ReadFits(r)
                 /\ r.alone => Agrees(r.before)
  BY <1>2 DEF BuildOK, OrderlyFits, Filling
<1>9. r.alone => SnapshotHolds(rec)'
  BY <1>4, <1>6, <1>7 DEF SnapshotHolds, Covers
<1>10. AloneFits(rec)'
  BY <1>1, <1>4, <1>7, <1>9 DEF AloneFits, Covers
<1>11. orderly => ReadFits(rec)'
  <2>1. \A q \in Places : r.read[q] # "none" => q # p
    BY <1>2 DEF Shape, Filling
  <2> QED BY <1>2, <1>4, <1>6, <1>8, <2>1 DEF ReadFits, Pending
<1>12. OrderlyFits(rec)'
  BY <1>4, <1>8, <1>11 DEF OrderlyFits, Agrees
<1>13. Shape(rec)' /\ PlanFits(rec)'
  BY <1>2, <1>4, <1>5 DEF BuildOK, Shape, PlanShape, PlanFits, Planned, Writing, Filling
<1>14. builds'[b] = rec => BuildOK(builds[b])'
  BY <1>10, <1>12, <1>13 DEF BuildOK
<1>15. rec.stage \in Writing /\ builds[b].stage \in Writing
  BY DEF Writing, Filling
<1>16. BuildsOK' /\ output' \in [Places -> Contents] /\ ExportsStayBuildable'
  BY <1>14, <1>15, WriteStep
<1> QED BY <1>16 DEF PackageInv, BuildsOK, WorldOK

LEMMA MetadataKeeps ==
  ASSUME PackageInv, NEW b \in Builds, WriteMetadata(b)
  PROVE  PackageInv'
<1>1. PICK r : r = builds[b]
  OBVIOUS
<1>2. PICK s : s = First(r.rest)
  OBVIOUS
<1>3. BuildOK(r) /\ Shape(r) /\ r.stage = "export" /\ r.rest # {}
  BY <1>1 DEF WriteMetadata, PackageInv, BuildOK
<1>4. /\ s \in r.rest /\ s \in Systems /\ r.text \in Bytes
      /\ DOMAIN r = PlanFields \cup {"rest", "text", "read", "snapshot"}
  BY <1>2, <1>3, FirstIsIn DEF Shape
<1>5. PICK rec : rec = [r EXCEPT !.rest = @ \ {s}]
  OBVIOUS
<1>6. /\ DOMAIN rec = DOMAIN r /\ rec.stage = "export" /\ rec.rest \subseteq r.rest
      /\ \A f \in DOMAIN r \ {"stage", "rest"} : rec[f] = r[f]
  BY <1>3, <1>4, <1>5 DEF PlanFields
<1>7. WritesFile(b, s, r.text, rec)
  BY <1>1, <1>2, <1>5 DEF WriteMetadata
<1>8. s \in Places \ ExportPaths /\ r.text \in Contents
  BY <1>4, PlacesApart DEF Contents
<1>9. r.alone => Covers(r, s, r.text)
  BY <1>3, <1>4 DEF BuildOK, AloneFits, Planned, Writing, Filling, Covers
<1>10. PICK c : c = r.text
  OBVIOUS
<1> QED BY <1>1, <1>3, <1>6, <1>7, <1>8, <1>9, <1>10, GeneratedStep DEF WriteMetadata

LEMMA ConfigKeeps ==
  ASSUME PackageInv, NEW b \in Builds, WriteConfig(b)
  PROVE  PackageInv'
<1>1. PICK r : r = builds[b]
  OBVIOUS
<1>2. BuildOK(r) /\ Shape(r) /\ r.stage = "export"
  BY <1>1 DEF WriteConfig, PackageInv, BuildOK
<1>3. /\ r.use.template \in Bytes
      /\ DOMAIN r = PlanFields \cup {"rest", "text", "read", "snapshot"}
  BY <1>2 DEF Shape, Filling, Uses
<1>4. PICK rec : rec = [r EXCEPT !.stage = "manifest"]
  OBVIOUS
<1>5. /\ DOMAIN rec = DOMAIN r /\ rec.stage = "manifest" /\ rec.rest \subseteq r.rest
      /\ \A f \in DOMAIN r \ {"stage", "rest"} : rec[f] = r[f]
  BY <1>3, <1>4 DEF PlanFields
<1>6. PICK c : c = r.use.template
  OBVIOUS
<1>7. WritesFile(b, "template", c, rec)
  BY <1>1, <1>4, <1>6 DEF WriteConfig
<1>8. "template" \in Places \ ExportPaths /\ c \in Contents
  BY <1>3, <1>6, PlacesApart DEF Contents
<1>9. r.alone => Covers(r, "template", c)
  BY <1>2, <1>6 DEF BuildOK, AloneFits, Planned, Writing, Filling
<1> QED BY <1>1, <1>2, <1>5, <1>7, <1>8, <1>9, GeneratedStep DEF WriteConfig

LEMMA ManifestKeeps ==
  ASSUME PackageInv, NEW b \in Builds, WriteManifest(b)
  PROVE  PackageInv'
<1>1. PICK r : r = builds[b]
  OBVIOUS
<1>2. BuildOK(r) /\ Shape(r) /\ r.stage = "manifest" /\ r.plan \in Plans \cup {"legacy"}
  BY <1>1 DEF WriteManifest, PackageInv, BuildOK, Shape
<1>3. /\ r.read \in [Places -> Bytes \cup {"none"}] /\ output \in [Places -> Contents]
      /\ r.use \in Uses
  BY <1>2 DEF Shape, Filling, PackageInv, WorldOK
<1>4. DEFINE own(p) == IF p \in r.kept /\ output[p] # "gone" THEN output[p]
                       ELSE IF r.use.mode # "reference" /\ r.read[p] # "none" THEN r.read[p]
                       ELSE IF p \in r.kept THEN "any" ELSE "none"
<1>5. PICK owned : owned = [p \in Places |-> own(p)]
  OBVIOUS
<1>6. /\ manifest' = [present |-> TRUE, mode |-> r.use.mode, owned |-> owned]
      /\ orderly' = (orderly /\ \A p \in Places : output[p] # "gone" => owned[p] # "none")
      /\ UNCHANGED <<inputs, listed, texts, profile, output, releases>>
  BY <1>1, <1>5 DEF WriteManifest
<1>7. owned \in [Places -> Owners]
  <2>1. \A p \in Places : own(p) \in Owners
    BY <1>3 DEF Owners, Contents
  <2> QED BY <1>5, <2>1
<1>8. PICK rec : rec = IF r.plan = "legacy" THEN NoBuild ELSE [stage |-> "built", plan |-> r.plan]
  OBVIOUS
<1>9. Keep(b, rec)
  BY <1>1, <1>8 DEF WriteManifest
<1>10. Shape(rec) /\ rec.stage \notin Planned
  BY <1>2, <1>8 DEF Shape, NoBuild, Planned, Writing, Filling
<1>11. BuildOK(rec)' /\ rec.stage \notin Writing /\ builds[b].stage \in Writing
  BY <1>1, <1>2, <1>10, UnplannedOK DEF Planned, Writing, Filling
<1>12. builds'[b] = rec => BuildOK(builds[b])'
  BY <1>11
<1>13. BuildsOK'
  BY <1>6, <1>9, <1>11, <1>12, KeepStep
<1>14. WorldOK'
  BY <1>6, <1>7 DEF PackageInv, WorldOK
<1>15. ASSUME orderly', NEW p \in Places, output[p] # "gone"
       PROVE  owned[p] = output[p]
  <2>1. r.use.mode = "copy" /\ (p \notin r.kept /\ r.read[p] # "none" => output[p] = r.read[p])
    BY <1>2, <1>6, <1>15 DEF BuildOK, OrderlyFits, ReadFits, Pending, Filling
  <2>2. owned[p] = own(p) /\ owned[p] # "none"
    BY <1>5, <1>6, <1>15
  <2> QED BY <1>15, <2>1, <2>2
<1>16. ExportsStayBuildable'
  BY <1>6, <1>15 DEF ExportsStayBuildable
<1> QED BY <1>13, <1>14, <1>16 DEF PackageInv, BuildsOK

LEMMA FailKeeps ==
  ASSUME PackageInv, NEW b \in Builds, BuildFails(b)
  PROVE  PackageInv'
<1>1. PICK r : r = builds[b]
  OBVIOUS
<1>2. BuildOK(r) /\ Shape(r) /\ r.stage \in Filling
  BY <1>1 DEF BuildFails, Filling, PackageInv, BuildOK
<1>3. PICK rec : rec = [stage |-> "restoring", plan |-> r.plan, kept |-> r.kept,
                        snapshot |-> r.snapshot, before |-> r.before,
                        owned |-> r.owned, alone |-> r.alone]
  OBVIOUS
<1>4. /\ Keep(b, rec) /\ orderly' = (orderly /\ r.alone)
      /\ UNCHANGED <<inputs, listed, texts, profile, output, manifest, releases>>
  BY <1>1, <1>3 DEF BuildFails
<1>5. Shape(rec)
  BY <1>2, <1>3 DEF Shape, PlanShape, Planned, Writing, Filling
<1>6. r.alone => SnapshotHolds(r)
  BY <1>2 DEF BuildOK, AloneFits, Planned, Writing, Filling
<1>7. r.alone => SnapshotHolds(rec)'
  BY <1>3, <1>4, <1>6 DEF SnapshotHolds
<1>8. orderly /\ r.alone => Agrees(rec.before)'
  BY <1>2, <1>3, <1>4 DEF BuildOK, OrderlyFits, Agrees
<1>9. AloneFits(rec)' /\ OrderlyFits(rec)'
  BY <1>3, <1>4, <1>7, <1>8 DEF AloneFits, OrderlyFits, Filling
<1>10. Shape(rec)' /\ PlanFits(rec)'
  BY <1>2, <1>3, <1>5 DEF BuildOK, Shape, PlanShape, PlanFits, Planned, Writing, Filling
<1>11. builds'[b] = rec => BuildOK(builds[b])'
  BY <1>9, <1>10 DEF BuildOK
<1>12. rec.stage \in Writing /\ builds[b].stage \in Writing
  BY <1>1, <1>2, <1>3 DEF Writing, Filling
<1> QED BY <1>4, <1>11, <1>12, WritingStep

LEMMA RestoreKeeps ==
  ASSUME PackageInv, NEW b \in Builds, RestoreEntry(b)
  PROVE  PackageInv'
<1>1. PICK r : r = builds[b]
  OBVIOUS
<1>2. PICK p : p = First(Saved(b))
  OBVIOUS
<1>3. BuildOK(r) /\ Shape(r) /\ r.stage = "restoring" /\ p \in Places /\ r.snapshot[p] # "unsaved"
  <2>1. BuildOK(r) /\ r.stage = "restoring" /\ p \in Saved(b)
    BY <1>1, <1>2, FirstIsIn DEF RestoreEntry, PackageInv
  <2> QED BY <1>1, <2>1 DEF BuildOK, Saved
<1>4. /\ DOMAIN r = {"stage", "plan", "kept", "snapshot", "before", "owned", "alone"}
      /\ PlanShape(r) /\ r.snapshot \in [Places -> Contents \cup {"unsaved"}]
      /\ \A q \in Places : r.snapshot[q] # "unsaved" => q \in r.kept
      /\ r.plan \in Plans \cup {"legacy"}
  BY <1>3 DEF Shape
<1>5. PICK rec : rec = [r EXCEPT !.snapshot[p] = "unsaved"]
  OBVIOUS
<1>6. /\ DOMAIN rec = DOMAIN r /\ rec.stage = "restoring" /\ rec.plan = r.plan
      /\ rec.kept = r.kept /\ rec.before = r.before /\ rec.owned = r.owned /\ rec.alone = r.alone
      /\ rec.snapshot = [r.snapshot EXCEPT ![p] = "unsaved"]
  BY <1>3, <1>4, <1>5
<1>7. PICK c : c = r.snapshot[p]
  OBVIOUS
<1>8. WritesFile(b, p, c, rec) /\ c \in Contents
  BY <1>1, <1>2, <1>3, <1>4, <1>5, <1>7 DEF RestoreEntry
<1>9. UNCHANGED <<inputs, listed, texts, profile, manifest, orderly, releases>>
  BY DEF RestoreEntry
<1>10. output' = [output EXCEPT ![p] = c] /\ output \in [Places -> Contents]
  BY <1>8 DEF WritesFile, PackageInv, WorldOK
<1>11. rec.snapshot \in [Places -> Contents \cup {"unsaved"}]
  BY <1>4, <1>6
<1>12. Shape(rec)
  <2>1. \A q \in Places : rec.snapshot[q] # "unsaved" => q \in rec.kept
    BY <1>4, <1>6
  <2> QED BY <1>3, <1>4, <1>6, <1>11, <2>1 DEF Shape, PlanShape, Planned, Writing, Filling
<1>13. SnapshotHolds(r) => SnapshotHolds(rec)'
  BY <1>3, <1>4, <1>6, <1>7, <1>10 DEF SnapshotHolds
<1>14. /\ r.alone => SnapshotHolds(r)
       /\ orderly => SnapshotHolds(r) /\ Agrees(r.before)
  BY <1>3 DEF BuildOK, AloneFits, OrderlyFits, Planned, Writing, Filling
<1>15. AloneFits(rec)' /\ OrderlyFits(rec)'
  <2>1. Agrees(r.before) => Agrees(rec.before)'
    BY <1>6, <1>9 DEF Agrees
  <2> QED BY <1>6, <1>9, <1>13, <1>14, <2>1 DEF AloneFits, OrderlyFits, Filling
<1>16. Shape(rec)' /\ PlanFits(rec)'
  BY <1>3, <1>6, <1>12 DEF BuildOK, Shape, PlanShape, PlanFits, Planned, Writing, Filling
<1>17. builds'[b] = rec => BuildOK(builds[b])'
  BY <1>15, <1>16 DEF BuildOK
<1>18. rec.stage \in Writing /\ builds[b].stage \in Writing
  BY <1>1, <1>3, <1>6 DEF Writing, Filling
<1>19. BuildsOK' /\ output' \in [Places -> Contents] /\ ExportsStayBuildable'
  BY <1>3, <1>8, <1>9, <1>17, <1>18, WriteStep
<1> QED BY <1>9, <1>19 DEF PackageInv, BuildsOK, WorldOK

\* When nothing is saved any more, what was there is there again.
LEMMA RestoredIsBefore ==
  ASSUME PackageInv, NEW b \in Builds, EndRestore(b), SnapshotHolds(builds[b])
  PROVE  output = builds[b].before
<1>1. builds[b].before \in [Places -> Contents] /\ output \in [Places -> Contents]
  BY DEF EndRestore, PackageInv, BuildOK, Shape, PlanShape, WorldOK
<1>2. \A p \in Places : builds[b].snapshot[p] = "unsaved"
  BY DEF EndRestore, Saved
<1>3. \A p \in Places : output[p] = builds[b].before[p]
  BY <1>2 DEF SnapshotHolds
<1> QED BY <1>1, <1>3

LEMMA EndKeeps ==
  ASSUME PackageInv, NEW b \in Builds, EndRestore(b)
  PROVE  PackageInv'
<1>1. PICK r : r = builds[b]
  OBVIOUS
<1>2. BuildOK(r) /\ Shape(r) /\ r.stage = "restoring"
  BY <1>1 DEF EndRestore, PackageInv, BuildOK
<1>3. PICK rec : rec = IF r.plan = "legacy" THEN NoBuild ELSE [r EXCEPT !.stage = "failed"]
  OBVIOUS
<1>4. Keep(b, rec)
  BY <1>1, <1>3 DEF EndRestore, Answered
<1>5. Shape(rec) /\ rec.stage \notin Planned
  BY <1>2, <1>3, AnsweredShape DEF Planned, Writing, Filling
<1>6. UNCHANGED <<inputs, listed, texts, profile, output, manifest, orderly, releases>>
  BY DEF EndRestore, Unbuilt, Unread
<1>7. BuildOK(rec)' /\ rec.stage \notin Writing
  BY <1>5, UnplannedOK DEF Planned
<1>8. builds'[b] = rec => BuildOK(builds[b])'
  BY <1>7
<1>9. BuildsOK'
  BY <1>4, <1>6, <1>7, <1>8, KeepStep
<1>10. WorldOK'
  BY <1>6 DEF PackageInv, WorldOK
<1>11. orderly => Agrees(output)
  <2>1. orderly => SnapshotHolds(r) /\ Agrees(r.before)
    BY <1>2 DEF BuildOK, OrderlyFits
  <2> QED BY <1>1, <2>1, RestoredIsBefore
<1>12. ExportsStayBuildable'
  BY <1>6, <1>11 DEF ExportsStayBuildable, Agrees
<1> QED BY <1>9, <1>10, <1>12 DEF PackageInv, BuildsOK

\* Nothing moves but the profile, the texts or what is on record.
LEMMA StillStep ==
  ASSUME PackageInv, profile' \in Uses, texts' \in Bytes,
         releases' \subseteq [plan : Plans, status : {"succeeded", "failed"}],
         UNCHANGED <<inputs, listed, output, manifest, builds, orderly>>
  PROVE  PackageInv'
<1>1. ASSUME NEW b \in Builds
      PROVE  BuildOK(builds[b])'
  <2>1. BuildOK(builds[b]) /\ builds'[b] = builds[b]
    BY DEF PackageInv
  <2> QED BY <2>1, OtherStays
<1>2. WorldOK' /\ ExportsStayBuildable' /\ (orderly => OneWriter)'
  BY DEF PackageInv, WorldOK, ExportsStayBuildable, OneWriter
<1>3. (builds = [b \in Builds |-> builds[b]])'
  BY DEF PackageInv
<1> QED BY <1>1, <1>2, <1>3 DEF PackageInv

LEMMA OutsideKeeps ==
  ASSUME PackageInv, PackageWorld
  PROVE  PackageInv'
<1>1. ASSUME NEW w \in Sources, NEW c \in Bytes \cup {"gone"}, ReplaceSource(w, c)
      PROVE  PackageInv'
  <2>1. BuildsOK' /\ ExportsStayBuildable'
    BY <1>1, DisturbStep DEF ReplaceSource
  <2>2. WorldOK'
    BY <1>1 DEF ReplaceSource, PackageInv, WorldOK
  <2> QED BY <2>1, <2>2 DEF PackageInv, BuildsOK
<1>2. ASSUME NEW todo \in SUBSET Sources, NEW text \in Bytes, EditLibrary(todo, text)
      PROVE  PackageInv'
  <2>1. BuildsOK' /\ ExportsStayBuildable'
    BY <1>2, DisturbStep DEF EditLibrary
  <2>2. WorldOK'
    BY <1>2 DEF EditLibrary, PackageInv, WorldOK
  <2> QED BY <2>1, <2>2 DEF PackageInv, BuildsOK
<1>3. ASSUME NEW p \in Places, PlaceFile(p)
      PROVE  PackageInv'
  <2>1. BuildsOK' /\ ExportsStayBuildable'
    BY <1>3, DisturbStep DEF PlaceFile
  <2>2. WorldOK'
    BY <1>3 DEF PlaceFile, PackageInv, WorldOK, Contents
  <2> QED BY <2>1, <2>2 DEF PackageInv, BuildsOK
<1>4. ASSUME NEW w \in Sources, RecheckArtifact(w)
      PROVE  PackageInv'
  BY <1>4, StillStep DEF RecheckArtifact, PackageInv, WorldOK
<1>5. ASSUME NEW in \in [mode : {"copy", "reference"}, template : Bytes, enabled : BOOLEAN],
             UpdatePackageProfile(in)
      PROVE  PackageInv'
  BY <1>5, StillStep DEF UpdatePackageProfile, Uses, PackageInv, WorldOK
<1>6. ASSUME NEW p \in Plans, CreatePackagePlan(p)
      PROVE  PackageInv'
  BY <1>6, StillStep DEF CreatePackagePlan, PackageInv, WorldOK
<1>7. ASSUME CrashBuilds
      PROVE  PackageInv'
  <2>1. Shape(NoBuild) /\ NoBuild.stage \notin Planned
    BY DEF Shape, NoBuild, Planned, Writing, Filling
  <2>2. BuildOK(NoBuild)'
    BY <2>1, UnplannedOK
  <2>3. \A b \in Builds : builds'[b] = NoBuild
    BY <1>7 DEF CrashBuilds
  <2>4. ASSUME NEW b \in Builds
        PROVE  BuildOK(builds[b])' /\ builds'[b].stage \notin Writing
    BY <2>1, <2>2, <2>3 DEF Planned
  <2>5. WorldOK' /\ ExportsStayBuildable'
    BY <1>7 DEF CrashBuilds, PackageInv, WorldOK, ExportsStayBuildable
  <2>6. (builds = [b \in Builds |-> builds[b]])'
    BY <1>7 DEF CrashBuilds
  <2> QED BY <2>4, <2>5, <2>6 DEF PackageInv, OneWriter
<1> QED BY <1>1, <1>2, <1>3, <1>4, <1>5, <1>6, <1>7 DEF PackageWorld

LEMMA PackageInvariance == PackageSpec => []PackageInv
<1>1. ASSUME PackageInit
      PROVE  PackageInv
  <2>1. Shape(NoBuild) /\ NoBuild.stage \notin Planned
    BY DEF Shape, NoBuild, Planned, Writing, Filling
  <2>2. BuildOK(NoBuild)
    BY <2>1, UnplannedOK
  <2>3. \A b \in Builds : builds[b] = NoBuild
    BY <1>1 DEF PackageInit
  <2>4. \A b \in Builds : BuildOK(builds[b]) /\ builds[b].stage \notin Writing
    BY <2>1, <2>2, <2>3 DEF Planned
  <2>5. WorldOK
    BY <1>1 DEF PackageInit, WorldOK, Contents, Owners, Uses, NoManifest
  <2>6. ExportsStayBuildable
    BY <1>1 DEF PackageInit, ExportsStayBuildable
  <2>7. builds = [b \in Builds |-> builds[b]]
    BY <1>1 DEF PackageInit
  <2> QED BY <2>4, <2>5, <2>6, <2>7 DEF PackageInv, OneWriter
<1>2. PackageInv /\ [PackageNext]_packageVars => PackageInv'
  <2> SUFFICES ASSUME PackageInv, [PackageNext]_packageVars
               PROVE  PackageInv'
    OBVIOUS
  <2>1. ASSUME NEW b \in Builds, BuildRequest(b)
        PROVE  PackageInv'
    BY <2>1, OpenKeeps, BuildPackageKeeps DEF BuildRequest
  <2>2. ASSUME NEW b \in Builds, BuildStep(b)
        PROVE  PackageInv'
    BY <2>2, RefuseKeeps, BuildPlanKeeps, PlanKeeps, PrepareKeeps, HashKeeps, CopyKeeps, ExportKeeps,
       MetadataKeeps, ConfigKeeps, ManifestKeeps, FailKeeps, EndKeeps, ReleaseKeeps,
       RestoreKeeps DEF BuildStep
  <2>3. CASE PackageWorld
    BY <2>3, OutsideKeeps
  <2>4. CASE UNCHANGED packageVars
    BY <2>4, StillStep DEF packageVars, PackageInv, WorldOK
  <2> QED BY <2>1, <2>2, <2>3, <2>4 DEF PackageNext
<1> QED BY <1>1, <1>2, PTL DEF PackageSpec

(* Types: what a place may hold, whatever builds write and crashes leave, and a  *)
(* build that answers a plan names one.                                         *)
THEOREM PackageIsWellTyped == PackageSpec => []PackageTypeOK
<1>1. PackageInv => PackageTypeOK
  BY DEF PackageInv, WorldOK, PackageTypeOK, BuildOK, Shape, NoBuild, Contents, Owners
<1> QED BY <1>1, PackageInvariance, PTL

(* As long as builds come one at a time, are not cut short, copy, and leave no   *)
(* file behind, the manifest owns every file of the directory with the hash it   *)
(* has, so that the next plan finds no modified or foreign target (bundler.go:   *)
(* the manifest's managed records and the deferred restore).  The files of the   *)
(* plan may change between their hash and their copy; one that was missing from  *)
(* the plan and comes back may not, it is no orderly build then.                *)
THEOREM OrderlyExportsStayBuildable == PackageSpec => []ExportsStayBuildable
<1>1. PackageInv => ExportsStayBuildable
  BY DEF PackageInv
<1> QED BY <1>1, PackageInvariance, PTL

\* A build that writes over a path did not find a file of the user's there when it
\* planned, or found it claimed, or never looked.
LEMMA KeptPathsFit ==
  ASSUME PackageInv, NEW b \in Builds, builds[b].stage \in Writing, NEW p \in Places \ Systems,
         p \in builds[b].kept \/ builds[b].stage = "copying"
  PROVE  \E o \in Builds : /\ builds[o].stage \in Writing
                           /\ \/ builds[o].before[p] # "user"
                              \/ builds[o].owned[p] \in {"user", "any"}
                              \/ builds[o].stage = "copying" /\ p \notin builds[o].kept
<1>1. PlanFits(builds[b])
  BY DEF PackageInv, BuildOK
<1> QED BY <1>1 DEF PlanFits, Planned

(* A file the user put into the output directory, or edited there, is lost only  *)
(* to a build that planned before it was there, that found it claimed by a        *)
(* manifest, or that never looked at its path because the source was missing      *)
(* when it planned; nothing else a build, a restore or a crash does takes it      *)
(* (plan.go: addTarget, loadManagedTargets; bundler.go: syncOne; recovery.go).   *)
THEOREM UserFilesAreOnlyLostToAClaim == PackageSpec => UserFilesStay
<1>1. ASSUME PackageInv, [PackageNext]_packageVars, NEW p \in Places \ Systems,
             output[p] = "user", output'[p] # "user"
      PROVE  \E b \in Builds : /\ builds[b].stage \in Writing
                               /\ \/ builds[b].before[p] # "user"
                                  \/ builds[b].owned[p] \in {"user", "any"}
                                  \/ builds[b].stage = "copying" /\ p \notin builds[b].kept
  <2>1. output \in [Places -> Contents]
    BY <1>1 DEF PackageInv, WorldOK
  <2>2. ASSUME NEW b \in Builds, NEW q \in Places, NEW c, NEW rec, WritesFile(b, q, c, rec)
        PROVE  q = p
    BY <1>1, <2>1, <2>2 DEF WritesFile
  <2>3. ASSUME NEW b \in Builds, CopySource(b)
        PROVE  builds[b].stage = "copying"
    BY <2>3 DEF CopySource
  <2>4. ASSUME NEW b \in Builds, WriteMetadata(b)
        PROVE  FALSE
    <3>1. builds[b].rest \subseteq Systems /\ builds[b].rest # {}
      BY <1>1, <2>4 DEF WriteMetadata, PackageInv, BuildOK, Shape
    <3>2. PICK s : s = First(builds[b].rest)
      OBVIOUS
    <3>3. s \in Systems /\ s \in Places
      BY <3>1, <3>2, FirstIsIn, PlacesApart
    <3>4. output' = [output EXCEPT ![s] = builds[b].text]
      BY <2>4, <3>2 DEF WriteMetadata, WritesFile
    <3> QED BY <1>1, <2>1, <3>3, <3>4
  <2>5. ASSUME NEW b \in Builds, WriteConfig(b)
        PROVE  builds[b].stage = "export" /\ p \in builds[b].kept
    <3>1. output' = [output EXCEPT !["template"] = builds[b].use.template]
      BY <2>5 DEF WriteConfig, WritesFile
    <3>2. p = "template"
      BY <1>1, <2>1, <3>1, PlacesApart
    <3> QED BY <1>1, <2>5, <3>2 DEF WriteConfig, PackageInv, BuildOK, Shape, Filling
  <2>6. ASSUME NEW b \in Builds, RestoreEntry(b)
        PROVE  builds[b].stage = "restoring" /\ p \in builds[b].kept
    <3>1. PICK q : q = First(Saved(b))
      OBVIOUS
    <3>2. q \in Places /\ builds[b].snapshot[q] # "unsaved"
      <4>1. q \in Saved(b)
        BY <2>6, <3>1, FirstIsIn DEF RestoreEntry
      <4> QED BY <4>1 DEF Saved
    <3>3. output' = [output EXCEPT ![q] = builds[b].snapshot[q]]
      BY <2>6, <3>1 DEF RestoreEntry, WritesFile
    <3>4. p = q
      BY <1>1, <2>1, <3>2, <3>3
    <3> QED BY <1>1, <2>6, <3>2, <3>4 DEF RestoreEntry, PackageInv, BuildOK, Shape
  <2>7. CASE \E b \in Builds : BuildStep(b)
    <3>1. PICK b \in Builds : BuildStep(b)
      BY <2>7
    <3>2. CopySource(b) \/ WriteMetadata(b) \/ WriteConfig(b) \/ RestoreEntry(b)
      BY <1>1, <3>1 DEF BuildStep, RefuseStalePlan, BuildPackagePlan, PlanBuild, PrepareBuildRecovery,
         HashSource, ExportFrontend, WriteManifest, BuildFails, EndRestore, RecordPackageRelease, Unbuilt, Unread
    <3>3. builds[b].stage \in Writing /\ (p \in builds[b].kept \/ builds[b].stage = "copying")
      BY <2>3, <2>4, <2>5, <2>6, <3>2 DEF Writing, Filling
    <3> QED BY <1>1, <3>3, KeptPathsFit
  <2>8. CASE PackageWorld \/ UNCHANGED packageVars \/ \E b \in Builds : BuildRequest(b)
    <3>1. \A q \in Places : ~PlaceFile(q)
      BY <1>1, <2>1 DEF PlaceFile
    <3> QED BY <1>1, <2>8, <3>1 DEF PackageWorld, packageVars, BuildRequest, ReplaceSource,
               RecheckArtifact, EditLibrary, UpdatePackageProfile, CreatePackagePlan, CrashBuilds,
               OpenPackagePlan, BuildPackage, Unread
  <2> QED BY <1>1, <2>7, <2>8 DEF PackageNext
<1>2. PackageInv /\ [PackageNext]_packageVars =>
        [\A p \in Places \ Systems :
          output[p] = "user" /\ output'[p] # "user" =>
            \E b \in Builds : /\ builds[b].stage \in Writing
                             /\ \/ builds[b].before[p] # "user"
                                \/ builds[b].owned[p] \in {"user", "any"}
                                \/ builds[b].stage = "copying" /\ p \notin builds[b].kept]_packageVars
  BY <1>1
<1> QED BY <1>2, PackageInvariance, PTL DEF PackageSpec, UserFilesStay

\* A step of one build leaves the stage of every other.
LEMMA OthersKeepTheirStage ==
  ASSUME PackageInv, NEW o \in Builds, BuildStep(o), NEW b \in Builds, b # o
  PROVE  builds'[b].stage = builds[b].stage
<1>1. builds = [q \in Builds |-> builds[q]]
  BY DEF PackageInv
<1>2. ASSUME NEW rec, Keep(o, rec)
      PROVE  builds'[b].stage = builds[b].stage
  BY <1>1, <1>2 DEF Keep
<1>3. ASSUME NEW p, NEW c, NEW rec, WritesFile(o, p, c, rec)
      PROVE  builds'[b].stage = builds[b].stage
  BY <1>3 DEF WritesFile
<1>4. CASE HashSource(o) \/ CopySource(o)
  BY <1>2, <1>3, <1>4 DEF HashSource, CopySource
<1>5. CASE WriteMetadata(o) \/ WriteConfig(o) \/ RestoreEntry(o)
  BY <1>3, <1>5 DEF WriteMetadata, WriteConfig, RestoreEntry
<1>6. CASE \E refused \in BOOLEAN : BuildPackagePlan(o, refused)
  BY <1>2, <1>6 DEF BuildPackagePlan
<1>7. CASE RefuseStalePlan(o) \/ PlanBuild(o) \/ PrepareBuildRecovery(o) \/ ExportFrontend(o)
  BY <1>2, <1>7 DEF RefuseStalePlan, PlanBuild, PrepareBuildRecovery, ExportFrontend
<1>8. CASE WriteManifest(o) \/ BuildFails(o) \/ EndRestore(o) \/ RecordPackageRelease(o)
  BY <1>2, <1>8 DEF WriteManifest, BuildFails, EndRestore, RecordPackageRelease
<1> QED BY <1>4, <1>5, <1>6, <1>7, <1>8 DEF BuildStep

LEMMA OutsideCounts == PackageSpec => [](outside \in Nat)
<1>1. PackageInit => outside \in Nat
  BY DEF PackageInit
<1>2. outside \in Nat /\ [PackageNext]_packageVars => (outside \in Nat)'
  <2> SUFFICES ASSUME outside \in Nat, [PackageNext]_packageVars
               PROVE  outside' \in Nat
    OBVIOUS
  <2>1. CASE \E b \in Builds : BuildStep(b) \/ BuildRequest(b)
    <3>1. UNCHANGED outside
      BY <2>1 DEF BuildStep, BuildRequest, RefuseStalePlan, BuildPackagePlan, PlanBuild,
         PrepareBuildRecovery, HashSource, CopySource, ExportFrontend, WriteMetadata, WriteConfig, WriteManifest,
         BuildFails, RestoreEntry, EndRestore, RecordPackageRelease, OpenPackagePlan, BuildPackage,
         Unbuilt, Unread
    <3> QED BY <3>1
  <2>2. CASE PackageWorld \/ UNCHANGED packageVars
    BY <2>2 DEF PackageWorld, ReplaceSource, RecheckArtifact, EditLibrary, UpdatePackageProfile,
       CreatePackagePlan, PlaceFile, CrashBuilds, Outside, packageVars
  <2> QED BY <2>1, <2>2 DEF PackageNext
<1> QED BY <1>1, <1>2, PTL DEF PackageSpec

(* When a build has failed and nothing else changed meanwhile, the directory is   *)
(* what it was when the build planned: every file it wrote was in the snapshot    *)
(* (bundler.go: the deferred restore; recovery.go).                              *)
THEOREM FailedBuildsRestoreTheOutput == PackageSpec => FailedBuildKeepsOutput
<1>1. ASSUME PackageInv, outside \in Nat, [PackageNext]_packageVars, NEW b \in Builds,
             builds[b].stage = "restoring", builds[b].alone,
             builds'[b].stage \in {"idle", "failed"}, outside' = outside
      PROVE  output' = builds[b].before
  <2>1. BuildOK(builds[b]) /\ builds = [o \in Builds |-> builds[o]]
    BY <1>1 DEF PackageInv
  <2>2. ASSUME NEW o \in Builds, BuildStep(o)
        PROVE  o = b
    BY <1>1, <2>2, OthersKeepTheirStage
  <2>3. ASSUME BuildStep(b)
        PROVE  EndRestore(b)
    <3>1. ~RestoreEntry(b)
      <4> SUFFICES ASSUME RestoreEntry(b) PROVE FALSE
        OBVIOUS
      <4>1. PICK rec : rec = [builds[b] EXCEPT !.snapshot[First(Saved(b))] = "unsaved"]
        OBVIOUS
      <4>2. builds'[b] = rec
        BY <4>1 DEF RestoreEntry, WritesFile
      <4>3. rec.stage = "restoring"
        BY <1>1, <4>1
      <4> QED BY <1>1, <4>2, <4>3
    <3>2. ~HashSource(b) /\ ~CopySource(b)
      BY <1>1 DEF HashSource, CopySource
    <3> QED BY <1>1, <2>3, <3>1, <3>2 DEF BuildStep, RefuseStalePlan, BuildPackagePlan, PlanBuild,
               PrepareBuildRecovery, ExportFrontend, WriteMetadata, WriteConfig,
               WriteManifest, BuildFails, RecordPackageRelease, Filling
  <2>4. ASSUME EndRestore(b)
        PROVE  output' = builds[b].before
    <3>1. SnapshotHolds(builds[b]) /\ output' = output
      BY <1>1, <2>1, <2>4 DEF BuildOK, AloneFits, Planned, Writing, Filling, EndRestore, Unbuilt, Unread
    <3> QED BY <1>1, <2>4, <3>1, RestoredIsBefore
  <2>5. CASE \E o \in Builds : BuildStep(o)
    BY <2>2, <2>3, <2>4, <2>5
  <2>6. CASE \E o \in Builds : BuildRequest(o)
    <3>1. PICK o, rec : o \in Builds /\ Keep(o, rec) /\ builds[o] = NoBuild
      BY <2>6 DEF BuildRequest, OpenPackagePlan, BuildPackage, Begin
    <3>2. o # b
      BY <1>1, <3>1 DEF NoBuild
    <3> QED BY <1>1, <2>1, <3>1, <3>2 DEF Keep
  <2>7. CASE PackageWorld
    <3>1. ASSUME Outside
          PROVE  FALSE
      BY <1>1, <3>1 DEF Outside
    <3>2. builds' = builds
      BY <2>7, <3>1 DEF PackageWorld, ReplaceSource, RecheckArtifact, EditLibrary,
         UpdatePackageProfile, CreatePackagePlan, PlaceFile, CrashBuilds
    <3> QED BY <1>1, <3>2
  <2>8. CASE UNCHANGED packageVars
    BY <1>1, <2>8 DEF packageVars
  <2> QED BY <1>1, <2>5, <2>6, <2>7, <2>8 DEF PackageNext
<1>2. PackageInv /\ outside \in Nat /\ [PackageNext]_packageVars =>
        [\A b \in Builds :
          (builds[b].stage = "restoring" /\ builds[b].alone /\ builds'[b].stage \in {"idle", "failed"} /\ outside' = outside)
            => output' = builds[b].before]_packageVars
  BY <1>1
<1> QED BY <1>2, PackageInvariance, OutsideCounts, PTL DEF PackageSpec, FailedBuildKeepsOutput

=============================================================================
