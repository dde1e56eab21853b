------------------------ MODULE ManagedStorageProofs ------------------------
(***************************************************************************)
(* Theorems about ManagedStorage, for any number of editions, files,       *)
(* cleanup runs and requests.                                              *)
(***************************************************************************)
EXTENDS ManagedStorage, FiniteSetTheorems, TLAPS

-----------------------------------------------------------------------------
(* Types                                                                      *)

\* A file as a preview shows it: its path and its stamp.
Item == Paths \X Nat

RunRecord == [status : {"none", "bare", "prepared", "quarantined", "restored", "dropped"},
              items : Seq(Item), stored : [Paths -> Nat]]

SweepJob == [op : {"sweep"}, run : Runs,
             phase : {"manifest", "move", "rollback", "commit"},
             rest : Seq(Item), done : Seq(Item), clean : BOOLEAN]

\* A restore that has not looked at its run yet, and one that has.
OwnRestore == [op : {"restore"}, run : Runs, phase : {"check"}]
RestoreJob == [op : {"restore"}, run : Runs, phase : {"move", "rollback"},
               rest : Seq(Item), done : Seq(Item), clean : BOOLEAN]

ImportJob == [op : {"import"}, phase : {"folder", "copy", "rows"},
              rest : Seq(Entries), made : SUBSET Entries, files : SUBSET Paths]

UploadJob == [op : {"upload"}, entry : Entries, path : Blobs]

Job == SweepJob \cup OwnRestore \cup RestoreJob \cup ImportJob \cup UploadJob \cup {Waiting}

StorageTypeOK ==
  /\ disk \in [Paths -> Nat]
  /\ folders \subseteq Entries /\ imported \subseteq Entries
  /\ rows \in [Entries -> SUBSET Paths]
  /\ recovery \in [Runs -> RunRecord]
  /\ jobs \in [Requests -> Job]
  /\ stamps \in Nat

-----------------------------------------------------------------------------
(* The inductive invariant                                                    *)

PathsIn(items) == {items[i][1] : i \in DOMAIN items}
Distinct(items) == \A i, j \in DOMAIN items : items[i][1] = items[j][1] => i = j

\* A restore at work on its run.
Restoring(job) == job.op = "restore" /\ job.phase # "check"

\* A cleanup holds the lock.  What it has still to move nothing refers to, and
\* is on the manifest; what its run holds it has moved itself, unless its
\* rollback has missed a file.
SweepOK(r) ==
  LET job == jobs[r]
      run == recovery[job.run]
  IN  job.op = "sweep" =>
        /\ locked = {r}
        /\ run.status # "none"
        /\ job.phase = "manifest" => run.status = "bare" /\ job.done = <<>>
        /\ job.phase = "move" => PathsIn(job.rest) \subseteq PathsIn(run.items)
        /\ job.phase \in {"manifest", "move"} =>
             /\ job.clean
             /\ Distinct(job.rest)
             /\ PathsIn(job.rest) \cap PathsIn(job.done) = {}
             /\ PathsIn(job.rest) \cap ManagedStorageReferences = {}
             /\ \A i \in DOMAIN job.rest : job.rest[i][2] # 0
        /\ job.clean => \A p \in Paths : run.stored[p] # 0 => p \in PathsIn(job.done)

\* What a restore has put back its run does not hold.
RestoreOK(r) ==
  LET job == jobs[r]
      run == recovery[job.run]
  IN  Restoring(job) =>
        /\ run.status \notin {"none", "bare"}
        /\ Distinct(job.done)
        /\ \A p \in PathsIn(job.done) : run.stored[p] = 0

\* An import has made its folders itself, nothing refers to their files yet,
\* and what it has copied is kept.
ImportOK(r) ==
  LET job == jobs[r]
  IN  job.op = "import" =>
        /\ job.made \subseteq folders
        /\ \A e \in job.made : rows[e] \cap RomsOf[e] = {}
        /\ job.phase = "copy" => job.rest # <<>> /\ Head(job.rest) \in job.made
        /\ \A e \in job.made : \A p \in RomsOf[e] \cup BlobsOf[e] :
             Held(p) \/ (job.phase = "copy" /\ e = Head(job.rest) /\ p \in job.files)

UploadOK(r) == jobs[r].op = "upload" => Held(jobs[r].path)

JobOK(r) == SweepOK(r) /\ RestoreOK(r) /\ ImportOK(r) /\ UploadOK(r)

\* No two imports have made one folder, no two restores put back one file, and
\* a restore works on the run of a cleanup only when that has moved every
\* file.
Apart(r, s) ==
  LET a == jobs[r]
      b == jobs[s]
  IN  /\ a.op = "import" /\ b.op = "import" => a.made \cap b.made = {}
      /\ Restoring(a) /\ Restoring(b) /\ a.run = b.run =>
           PathsIn(a.done) \cap PathsIn(b.done) = {}
      /\ a.op = "sweep" /\ Restoring(b) /\ a.run = b.run =>
           /\ a.phase = "move" => a.rest = <<>>
           /\ a.clean => PathsIn(b.done) \subseteq PathsIn(a.done)

\* An edition refers to its own ROMs and to media; where it refers to a ROM it
\* has its folder.
RowsOK ==
  \A e \in Entries : /\ rows[e] \subseteq RomsOf[e] \cup Blobs
                     /\ rows[e] \cap RomsOf[e] # {} => e \in folders

\* A run that has not begun holds nothing.
RunsOK ==
  \A q \in Runs : recovery[q].status = "none" => \A p \in Paths : recovery[q].stored[p] = 0

StorageInv ==
  /\ StorageTypeOK
  /\ RowsOK
  /\ RunsOK
  /\ ReferencedIsKept
  /\ \A r \in Requests : JobOK(r)
  /\ \A r, s \in Requests : r # s => Apart(r, s)

-----------------------------------------------------------------------------
(* Sequences of files, and the sets they are made from                        *)

LEMMA AppendPaths ==
  ASSUME NEW s \in Seq(Item), NEW x \in Item
  PROVE  /\ Append(s, x) \in Seq(Item)
         /\ PathsIn(Append(s, x)) = PathsIn(s) \cup {x[1]}
         /\ Distinct(s) /\ x[1] \notin PathsIn(s) => Distinct(Append(s, x))
<1> DEFINE t == Append(s, x)
<1>1. /\ t \in Seq(Item) /\ Len(s) \in Nat
      /\ DOMAIN s = 1..Len(s) /\ DOMAIN t = 1..(Len(s) + 1)
      /\ t[Len(s) + 1] = x /\ \A i \in 1..Len(s) : t[i] = s[i]
  OBVIOUS
<1> HIDE DEF t
<1>2. PathsIn(t) = PathsIn(s) \cup {x[1]}
  BY <1>1 DEF PathsIn
<1>3. Distinct(s) /\ x[1] \notin PathsIn(s) => Distinct(t)
  BY <1>1 DEF PathsIn, Distinct
<1> QED BY <1>1, <1>2, <1>3 DEF t

LEMMA TailPaths ==
  ASSUME NEW s \in Seq(Item), s # <<>>
  PROVE  /\ Tail(s) \in Seq(Item) /\ Head(s) \in Item /\ Head(s) = s[1]
         /\ 1 \in DOMAIN s
         /\ PathsIn(s) = PathsIn(Tail(s)) \cup {Head(s)[1]}
         /\ Distinct(s) => Distinct(Tail(s)) /\ Head(s)[1] \notin PathsIn(Tail(s))
         /\ \A i \in DOMAIN Tail(s) : \E j \in DOMAIN s : Tail(s)[i] = s[j]
<1> DEFINE t == Tail(s)
<1>1. /\ t \in Seq(Item) /\ Head(s) \in Item /\ Head(s) = s[1]
      /\ Len(s) \in Nat \ {0}
      /\ DOMAIN s = 1..Len(s) /\ DOMAIN t = 1..(Len(s) - 1)
      /\ \A i \in 1..(Len(s) - 1) : t[i] = s[i + 1]
  OBVIOUS
<1> HIDE DEF t
<1>2. PathsIn(s) = PathsIn(t) \cup {s[1][1]}
  <2>1. ASSUME NEW j \in 1..Len(s), j # 1
        PROVE  j - 1 \in 1..(Len(s) - 1) /\ t[j - 1] = s[j]
    BY <1>1, <2>1
  <2>2. ASSUME NEW i \in 1..(Len(s) - 1)
        PROVE  i + 1 \in 1..Len(s) /\ t[i] = s[i + 1]
    BY <1>1
  <2>3. PathsIn(s) \subseteq PathsIn(t) \cup {s[1][1]}
    <3> SUFFICES ASSUME NEW j \in 1..Len(s), j # 1 PROVE s[j][1] \in PathsIn(t)
      BY <1>1 DEF PathsIn
    <3> QED BY <1>1, <2>1 DEF PathsIn
  <2>4. PathsIn(t) \subseteq PathsIn(s)
    <3> SUFFICES ASSUME NEW i \in 1..(Len(s) - 1) PROVE t[i][1] \in PathsIn(s)
      BY <1>1 DEF PathsIn
    <3> QED BY <1>1, <2>2 DEF PathsIn
  <2>5. s[1][1] \in PathsIn(s)
    BY <1>1 DEF PathsIn
  <2> QED BY <2>3, <2>4, <2>5
<1>3. ASSUME Distinct(s) PROVE Distinct(t) /\ s[1][1] \notin PathsIn(t)
  <2>1. ASSUME NEW i \in 1..(Len(s) - 1)
        PROVE  i + 1 \in 1..Len(s) /\ i + 1 # 1 /\ t[i] = s[i + 1]
    BY <1>1
  <2>2. ASSUME NEW i \in 1..(Len(s) - 1), t[i][1] = s[1][1] PROVE FALSE
    BY <1>1, <1>3, <2>1, <2>2 DEF Distinct
  <2>3. ASSUME NEW i \in 1..(Len(s) - 1), NEW j \in 1..(Len(s) - 1), t[i][1] = t[j][1]
        PROVE  i = j
    <3>1. i + 1 = j + 1
      BY <1>1, <1>3, <2>1, <2>3 DEF Distinct
    <3> QED BY <3>1
  <2> QED BY <1>1, <2>2, <2>3 DEF PathsIn, Distinct
<1>4. \A i \in DOMAIN t : i + 1 \in DOMAIN s /\ t[i] = s[i + 1]
  BY <1>1
<1> QED BY <1>1, <1>2, <1>3, <1>4 DEF t

LEMMA FrontPaths ==
  ASSUME NEW s \in Seq(Item), s # <<>>
  PROVE  /\ Front(s) \in Seq(Item) /\ Last(s) \in Item
         /\ PathsIn(s) = PathsIn(Front(s)) \cup {Last(s)[1]}
         /\ Distinct(s) => Distinct(Front(s)) /\ Last(s)[1] \notin PathsIn(Front(s))
<1> DEFINE t == Front(s)
<1>1. /\ t \in Seq(Item) /\ Last(s) \in Item /\ Last(s) = s[Len(s)]
      /\ Len(s) \in Nat \ {0}
      /\ DOMAIN s = 1..Len(s) /\ DOMAIN t = 1..(Len(s) - 1)
      /\ \A i \in 1..(Len(s) - 1) : t[i] = s[i]
  BY DEF Front, Last
<1> HIDE DEF t
<1>2. PathsIn(s) = PathsIn(t) \cup {s[Len(s)][1]}
  BY <1>1 DEF PathsIn
<1>3. Distinct(s) => Distinct(t) /\ s[Len(s)][1] \notin PathsIn(t)
  BY <1>1 DEF PathsIn, Distinct
<1> QED BY <1>1, <1>2, <1>3 DEF t

\* A finite set laid out as a sequence holds each of its elements once.
LEMMA SetLaidOut ==
  ASSUME NEW S, IsFiniteSet(S)
  PROVE  LET s == SetToSeq(S)
         IN  /\ s \in Seq(S)
             /\ S = {s[i] : i \in DOMAIN s}
             /\ \A i, j \in DOMAIN s : s[i] = s[j] => i = j
<1> DEFINE n == Cardinality(S)
           s == SetToSeq(S)
<1>1. n \in Nat /\ ExistsBijection(1..n, S)
  BY FS_CardinalityType
<1>2. PICK f \in Bijection(1..n, S) : TRUE
  BY <1>1 DEF ExistsBijection
<1>3. f \in [1..n -> S] /\ IsInjective(f)
  BY <1>2 DEF Bijection, Injection, IsInjective
<1>4. s \in [1..n -> S] /\ IsInjective(s)
  BY <1>3 DEF SetToSeq
<1> HIDE DEF s, n
<1>5. s \in Seq(S)
  BY <1>1, <1>4
<1>6. s \in Injection(1..n, S)
  BY <1>4 DEF Injection, IsInjective
<1>7. IsFiniteSet(1..n) /\ Cardinality(1..n) = n
  BY <1>1, FS_Interval
<1>8. s \in Surjection(1..n, S)
  BY <1>6, <1>7, FS_Injection DEF n
<1>9. DOMAIN s = 1..n /\ S = {s[i] : i \in 1..n}
  BY <1>4, <1>8 DEF Surjection
<1> QED BY <1>4, <1>5, <1>9 DEF IsInjective, s

\* What a cleanup has to move is laid out by path.
LEMMA CandidatesLaidOut ==
  ASSUME StorageTypeOK, NEW references,
         NEW selected \in SUBSET PreviewManagedCleanup(references)
  PROVE  LET s == SetToSeq(selected)
         IN  /\ s \in Seq(Item) /\ Distinct(s)
             /\ PathsIn(s) \cap references = {}
             /\ \A i \in DOMAIN s : s[i][2] # 0
<1> DEFINE s == SetToSeq(selected)
           files == Files(Paths) \ references
<1>1. \A x \in selected : /\ x \in Item /\ x[1] \in files /\ x[2] # 0
                          /\ x = <<x[1], disk[x[1]]>>
  BY DEF PreviewManagedCleanup, Files, Inode, Item, StorageTypeOK
<1>2. IsFiniteSet(selected)
  <2> DEFINE shown == {Inode(p) : p \in files}
  <2>1. IsFiniteSet(files)
    BY FS_Subset, ManagedStorageAssumption DEF Files
  <2>2. IsFiniteSet(shown)
    <3> DEFINE f == [p \in files |-> Inode(p)]
    <3>1. f \in Surjection(files, shown)
      BY DEF Surjection
    <3> QED BY <2>1, <3>1, FS_Surjection
  <2> QED BY <2>2, FS_Subset DEF PreviewManagedCleanup
<1>3. /\ s \in Seq(selected)
      /\ \A i, j \in DOMAIN s : s[i] = s[j] => i = j
  BY <1>2, SetLaidOut
<1> HIDE DEF s, files
<1>4. \A i \in DOMAIN s : s[i] \in selected
  BY <1>3
<1>5. s \in Seq(Item)
  <2>1. selected \subseteq Item
    BY <1>1
  <2> QED BY <1>3, <2>1
<1>6. Distinct(s)
  BY <1>1, <1>3, <1>4 DEF Distinct
<1>7. PathsIn(s) \cap references = {}
  <2>1. files \cap references = {}
    BY DEF files
  <2> QED BY <1>1, <1>4, <2>1 DEF PathsIn
<1> QED BY <1>1, <1>4, <1>5, <1>6, <1>7 DEF s

-----------------------------------------------------------------------------
(* What a step may do to the jobs that do not take it.  `made' are the        *)
(* editions whose ROM folders it removes.                                     *)

RomsIn(made) == UNION {RomsOf[e] : e \in made}

TablesKept(made) ==
  /\ \A e \in Entries \ made : rows'[e] \cap RomsOf[e] \subseteq rows[e]
  /\ folders \ made \subseteq folders'
  /\ \A p \in Paths : Held(p) => Held(p)' \/ p \in RomsIn(made)

RunKept(s) ==
  LET job == jobs[s]
      run == recovery[job.run]
      runn == recovery'[job.run]
  IN  /\ job.op = "sweep" =>
           /\ runn.items = run.items
           /\ runn.status # "none"
           /\ run.status = "bare" => runn.status = "bare"
           /\ job.clean => \A p \in Paths : runn.stored[p] # 0 =>
                             run.stored[p] # 0 \/ p \in PathsIn(job.done)
      /\ Restoring(job) =>
           /\ runn.status \notin {"none", "bare"}
           /\ \A p \in PathsIn(job.done) : runn.stored[p] = 0

LEMMA JobTyped ==
  ASSUME StorageTypeOK, NEW r \in Requests
  PROVE  /\ jobs[r] \in Job
         /\ jobs[r].op = "sweep" => jobs[r] \in SweepJob
         /\ Restoring(jobs[r]) => jobs[r] \in RestoreJob
         /\ jobs[r].op = "restore" /\ jobs[r].phase = "check" => jobs[r] \in OwnRestore
         /\ jobs[r].op = "import" => jobs[r] \in ImportJob
         /\ jobs[r].op = "upload" => jobs[r] \in UploadJob
BY DEF StorageTypeOK, Job, SweepJob, OwnRestore, RestoreJob, ImportJob, UploadJob,
       Waiting, Restoring

LEMMA PathsTyped ==
  /\ \A e \in Entries : RomsOf[e] \subseteq Roms /\ BlobsOf[e] \subseteq Blobs
  /\ Roms \subseteq Paths /\ Blobs \subseteq Paths
  /\ \A items \in Seq(Item) : PathsIn(items) \subseteq Paths
<1>1. \A e \in Entries : RomsOf[e] \subseteq Roms /\ BlobsOf[e] \subseteq Blobs
  BY DEF Roms, Blobs
<1>2. ASSUME NEW items \in Seq(Item) PROVE PathsIn(items) \subseteq Paths
  <2>1. \A i \in DOMAIN items : items[i] \in Item
    OBVIOUS
  <2> QED BY <2>1 DEF PathsIn, Item
<1> QED BY <1>1, <1>2 DEF Paths

LEMMA RomsApart ==
  ASSUME NEW e \in Entries, NEW made \in SUBSET Entries, e \notin made,
         NEW p, p \in RomsIn(made)
  PROVE  p \notin RomsOf[e] /\ p \notin Blobs
<1>1. PICK f \in made : p \in RomsOf[f]
  BY DEF RomsIn
<1> QED BY <1>1, PathsTyped, ManagedStorageAssumption

LEMMA OthersKeep ==
  ASSUME StorageInv, NEW s \in Requests, jobs'[s] = jobs[s],
         NEW made \in SUBSET Entries,
         jobs[s].op = "import" => jobs[s].made \cap made = {},
         locked = {s} => locked' = {s} /\ UNCHANGED rows,
         RunKept(s), TablesKept(made)
  PROVE  JobOK(s)'
<1> DEFINE job == jobs[s]
<1>1. JobOK(s) /\ StorageTypeOK
  BY DEF StorageInv
<1>2. SweepOK(s)'
  <2> SUFFICES ASSUME job.op = "sweep"
               PROVE  /\ locked' = {s}
                      /\ recovery'[job.run].status # "none"
                      /\ job.phase = "manifest" =>
                           recovery'[job.run].status = "bare" /\ job.done = <<>>
                      /\ job.phase = "move" =>
                           PathsIn(job.rest) \subseteq PathsIn(recovery'[job.run].items)
                      /\ job.phase \in {"manifest", "move"} =>
                           /\ job.clean
                           /\ Distinct(job.rest)
                           /\ PathsIn(job.rest) \cap PathsIn(job.done) = {}
                           /\ PathsIn(job.rest) \cap ManagedStorageReferences' = {}
                           /\ \A i \in DOMAIN job.rest : job.rest[i][2] # 0
                      /\ job.clean =>
                           \A p \in Paths : recovery'[job.run].stored[p] # 0 =>
                                              p \in PathsIn(job.done)
    BY DEF SweepOK
  <2>1. SweepOK(s) /\ locked = {s}
    BY <1>1 DEF JobOK, SweepOK
  <2>2. ManagedStorageReferences' = ManagedStorageReferences
    BY <2>1 DEF ManagedStorageReferences
  <2>3. job.clean => \A p \in Paths : recovery'[job.run].stored[p] # 0 =>
                                         p \in PathsIn(job.done)
    BY <2>1 DEF SweepOK, RunKept
  <2>4. /\ recovery'[job.run].items = recovery[job.run].items
        /\ recovery'[job.run].status # "none"
        /\ recovery[job.run].status = "bare" => recovery'[job.run].status = "bare"
    BY DEF RunKept
  <2> QED BY <2>1, <2>2, <2>3, <2>4 DEF SweepOK
<1>3. RestoreOK(s)'
  BY <1>1 DEF JobOK, RestoreOK, RunKept
<1>4. ImportOK(s)'
  <2> SUFFICES ASSUME job.op = "import" PROVE ImportOK(s)'
    BY DEF ImportOK
  <2>1. job \in ImportJob
    BY <1>1, JobTyped
  <2>2. ImportOK(s) /\ job.made \subseteq Entries /\ job.made \cap made = {}
    BY <1>1, <2>1 DEF JobOK, ImportJob
  <2>3. job.made \subseteq folders'
    BY <2>2 DEF ImportOK, TablesKept
  <2>4. \A e \in job.made : rows'[e] \cap RomsOf[e] = {}
    BY <2>2 DEF ImportOK, TablesKept
  <2>5. ASSUME NEW e \in job.made, NEW p \in RomsOf[e] \cup BlobsOf[e]
        PROVE  Held(p)' \/ (job.phase = "copy" /\ e = Head(job.rest) /\ p \in job.files)
    <3>1. Held(p) \/ (job.phase = "copy" /\ e = Head(job.rest) /\ p \in job.files)
      BY <2>2 DEF ImportOK
    <3>2. p \in Paths /\ p \notin RomsIn(made)
      BY <2>2, PathsTyped, RomsApart
    <3> QED BY <3>1, <3>2 DEF TablesKept
  <2> QED BY <2>2, <2>3, <2>4, <2>5 DEF ImportOK
<1>5. UploadOK(s)'
  <2> SUFFICES ASSUME job.op = "upload" PROVE Held(job.path)'
    BY DEF UploadOK
  <2>1. job.path \in Blobs /\ Held(job.path)
    BY <1>1, JobTyped DEF UploadJob, JobOK, UploadOK
  <2>2. job.path \in Paths /\ job.path \notin RomsIn(made)
    <3>1. RomsIn(made) \subseteq Roms
      BY PathsTyped DEF RomsIn
    <3> QED BY <2>1, <3>1, PathsTyped, ManagedStorageAssumption
  <2> QED BY <2>1, <2>2 DEF TablesKept
<1> QED BY <1>2, <1>3, <1>4, <1>5 DEF JobOK

LEMMA TablesKeep ==
  ASSUME StorageInv, NEW made \in SUBSET Entries, TablesKept(made),
         \A e \in made : rows[e] \cap RomsOf[e] = {},
         \A e \in Entries : rows'[e] \subseteq RomsOf[e] \cup Blobs,
         \A e \in made : rows'[e] \cap RomsOf[e] # {} => e \in folders',
         \A e \in Entries : \A p \in rows'[e] \ rows[e] : Held(p)'
  PROVE  RowsOK' /\ ReferencedIsKept'
<1>1. RowsOK /\ ReferencedIsKept
  BY DEF StorageInv
<1>2. ASSUME NEW e \in Entries, rows'[e] \cap RomsOf[e] # {} PROVE e \in folders'
  <2>1. CASE e \in made
    BY <1>2, <2>1
  <2>2. CASE e \notin made
    <3>1. rows[e] \cap RomsOf[e] # {}
      BY <1>2, <2>2 DEF TablesKept
    <3> QED BY <1>1, <2>2, <3>1 DEF RowsOK, TablesKept
  <2> QED BY <2>1, <2>2
<1>3. ASSUME NEW e \in Entries, NEW p \in rows'[e] PROVE Held(p)'
  <2>1. CASE p \in rows[e]
    <3>1. Held(p)
      BY <1>1, <2>1 DEF ReferencedIsKept, ManagedStorageReferences
    <3>2. p \in RomsOf[e] \cup Blobs
      BY <1>1, <2>1 DEF RowsOK
    <3>3. p \in Paths
      BY <3>2, PathsTyped
    <3>4. p \notin RomsIn(made)
      <4>1. CASE e \in made
        <5>1. p \in Blobs
          BY <2>1, <3>2, <4>1
        <5>2. RomsIn(made) \subseteq Roms
          BY PathsTyped DEF RomsIn
        <5> QED BY <5>1, <5>2, ManagedStorageAssumption
      <4>2. CASE e \notin made
        BY <3>2, <4>2, RomsApart
      <4> QED BY <4>1, <4>2
    <3> QED BY <3>1, <3>3, <3>4 DEF TablesKept
  <2>2. CASE p \notin rows[e]
    BY <1>3, <2>2
  <2> QED BY <2>1, <2>2
<1> QED BY <1>2, <1>3 DEF RowsOK, ReferencedIsKept, ManagedStorageReferences

\* A step of request r that removes the folders of these editions, and adds to
\* the rows at most files that are held.
LEMMA RequestSteps ==
  ASSUME StorageInv, StorageTypeOK', NEW r \in Requests,
         NEW job, jobs' = [jobs EXCEPT ![r] = job],
         NEW made \in SUBSET Entries, TablesKept(made),
         \A e \in made : rows[e] \cap RomsOf[e] = {},
         \A s \in Requests \ {r} : jobs[s].op = "import" => jobs[s].made \cap made = {},
         \A s \in Requests \ {r} : locked = {s} => locked' = {s} /\ UNCHANGED rows,
         \A s \in Requests \ {r} : RunKept(s),
         RowsOK' /\ ReferencedIsKept', RunsOK',
         JobOK(r)',
         \A s \in Requests \ {r} : Apart(r, s)' /\ Apart(s, r)'
  PROVE  StorageInv'
<1>1. jobs \in [Requests -> Job]
  BY DEF StorageInv, StorageTypeOK
<1>2. \A s \in Requests \ {r} : jobs'[s] = jobs[s]
  BY <1>1
<1>3. \A s \in Requests \ {r} : JobOK(s)'
  BY <1>2, OthersKeep
<1>4. ASSUME NEW s \in Requests \ {r}, NEW t \in Requests \ {r}, s # t PROVE Apart(s, t)'
  <2>1. Apart(s, t) /\ jobs'[s] = jobs[s] /\ jobs'[t] = jobs[t]
    BY <1>2, <1>4 DEF StorageInv
  <2> QED BY <2>1 DEF Apart
<1>5. \A s, t \in Requests : s # t => Apart(s, t)'
  BY <1>4
<1> QED BY <1>3, <1>5 DEF StorageInv

\* A step of request r that loses nothing and leaves the rows alone.
LEMMA QuietSteps ==
  ASSUME StorageInv, StorageTypeOK', NEW r \in Requests,
         NEW job, jobs' = [jobs EXCEPT ![r] = job],
         UNCHANGED rows, folders \subseteq folders',
         \A p \in Paths : Held(p) => Held(p)', RunsOK',
         \A s \in Requests \ {r} : locked = {s} => locked' = {s},
         \A s \in Requests \ {r} : RunKept(s),
         JobOK(r)',
         \A s \in Requests \ {r} : Apart(r, s)' /\ Apart(s, r)'
  PROVE  StorageInv'
<1>1. TablesKept({})
  BY DEF TablesKept
<1>2. RowsOK' /\ ReferencedIsKept'
  BY <1>1, TablesKeep DEF StorageInv, RowsOK
<1> QED BY <1>1, <1>2, RequestSteps

LEMMA RunUnchanged ==
  ASSUME StorageInv, UNCHANGED recovery
  PROVE  RunsOK' /\ \A s \in Requests : RunKept(s)
<1>1. RunsOK'
  BY DEF StorageInv, RunsOK
<1>2. ASSUME NEW s \in Requests PROVE RunKept(s)
  BY DEF StorageInv, JobOK, SweepOK, RestoreOK, RunKept
<1> QED BY <1>1, <1>2

\* And one that touches nothing but its own job.
LEMMA JobSteps ==
  ASSUME StorageInv, NEW r \in Requests, NEW job \in Job,
         jobs' = [jobs EXCEPT ![r] = job],
         UNCHANGED <<disk, folders, imported, rows, recovery, locked, stamps>>,
         JobOK(r)',
         \A s \in Requests \ {r} : Apart(r, s)' /\ Apart(s, r)'
  PROVE  StorageInv'
<1>1. StorageTypeOK'
  BY DEF StorageInv, StorageTypeOK
<1>2. \A p \in Paths : Held(p) => Held(p)'
  BY DEF Held
<1> QED BY <1>1, <1>2, RunUnchanged, QuietSteps

-----------------------------------------------------------------------------
(* Cleanup                                                                    *)

\* A request that is through.
LEMMA WaitingIsOK ==
  ASSUME NEW r \in Requests, jobs'[r] = Waiting
  PROVE  JobOK(r)' /\ \A s \in Requests \ {r} : Apart(r, s)' /\ Apart(s, r)'
<1>1. JobOK(r)'
  BY DEF JobOK, SweepOK, RestoreOK, ImportOK, UploadOK, Restoring, Waiting
<1>2. ASSUME NEW s \in Requests PROVE Apart(r, s)' /\ Apart(s, r)'
  BY DEF Apart, Restoring, Waiting
<1> QED BY <1>1, <1>2

LEMMA JobReplaced ==
  ASSUME StorageTypeOK, NEW r \in Requests, NEW job, jobs' = [jobs EXCEPT ![r] = job]
  PROVE  jobs'[r] = job /\ \A s \in Requests \ {r} : jobs'[s] = jobs[s]
BY DEF StorageTypeOK

\* Only one request holds the lock.
LEMMA OneCleanup ==
  ASSUME StorageInv, NEW r \in Requests, NEW s \in Requests,
         jobs[r].op = "sweep", jobs[s].op = "sweep" \/ locked = {s}
  PROVE  r = s
BY DEF StorageInv, JobOK, SweepOK

LEMMA CommitKeeps ==
  ASSUME StorageInv, NEW r \in Requests, NEW q \in Runs,
         NEW plan \in sealed.cleanup, NEW selected \in SUBSET plan,
         CommitStorageCleanup(r, q, plan, selected)
  PROVE  StorageInv'
<1> DEFINE rest == SetToSeq(selected)
           job == [op |-> "sweep", run |-> q, phase |-> "manifest", rest |-> rest,
                   done |-> <<>>, clean |-> TRUE]
<1>1. /\ locked = {} /\ locked' = {r} /\ recovery[q].status = "none"
      /\ jobs' = [jobs EXCEPT ![r] = job]
      /\ recovery' = [recovery EXCEPT ![q].status = "bare"]
      /\ UNCHANGED <<disk, folders, imported, rows, stamps>>
      /\ selected \in SUBSET PreviewManagedCleanup(ManagedStorageReferences)
  BY DEF CommitStorageCleanup, Sweep
<1>2. StorageTypeOK
  BY DEF StorageInv
<1>3. /\ rest \in Seq(Item) /\ Distinct(rest)
      /\ PathsIn(rest) \cap ManagedStorageReferences = {}
      /\ \A i \in DOMAIN rest : rest[i][2] # 0
  BY <1>1, <1>2, CandidatesLaidOut
<1> HIDE DEF rest
<1>4. job \in SweepJob
  BY <1>3 DEF SweepJob
<1>5. /\ recovery' \in [Runs -> RunRecord] /\ recovery'[q].status = "bare"
      /\ \A k \in Runs : /\ recovery'[k].stored = recovery[k].stored
                         /\ k # q => recovery'[k] = recovery[k]
  BY <1>1, <1>2 DEF StorageTypeOK, RunRecord
<1>6. StorageTypeOK'
  BY <1>1, <1>2, <1>4, <1>5 DEF StorageTypeOK, Job
<1>7. jobs'[r] = job /\ \A s \in Requests \ {r} : jobs'[s] = jobs[s]
  BY <1>1, <1>2, JobReplaced
<1>8. \A p \in Paths : recovery[q].stored[p] = 0
  BY <1>1 DEF StorageInv, RunsOK
<1>9. \A p \in Paths : Held(p) => Held(p)'
  BY <1>1, <1>5 DEF Held
<1>10. RunsOK'
  BY <1>5 DEF StorageInv, RunsOK
<1>11. \A s \in Requests : jobs[s].op # "sweep"
  BY <1>1 DEF StorageInv, JobOK, SweepOK
<1>12. \A s \in Requests : Restoring(jobs[s]) => jobs[s].run \in Runs /\ jobs[s].run # q
  BY <1>1, <1>2, JobTyped DEF StorageInv, JobOK, RestoreOK, RestoreJob
<1>13. \A s \in Requests : RunKept(s)
  BY <1>5, <1>11, <1>12 DEF RunKept, StorageInv, JobOK, RestoreOK
<1>14. JobOK(r)'
  <2>1. SweepOK(r)'
    <3>1. PathsIn(job.done) = {}
      BY DEF PathsIn
    <3>2. ManagedStorageReferences' = ManagedStorageReferences
      BY <1>1 DEF ManagedStorageReferences
    <3>3. /\ job.op = "sweep" /\ job.phase = "manifest" /\ job.run = q /\ job.rest = rest
          /\ job.done = <<>> /\ job.clean
      OBVIOUS
    <3>4. \A p \in Paths : recovery'[q].stored[p] = 0
      BY <1>5, <1>8
    <3> HIDE DEF job
    <3> QED BY <1>1, <1>3, <1>5, <1>7, <3>1, <3>2, <3>3, <3>4 DEF SweepOK
  <2> QED BY <1>7, <2>1 DEF JobOK, RestoreOK, ImportOK, UploadOK, Restoring
<1>15. ASSUME NEW s \in Requests \ {r} PROVE Apart(r, s)' /\ Apart(s, r)'
  BY <1>7, <1>11, <1>12 DEF Apart, Restoring
<1> QED BY <1>1, <1>6, <1>9, <1>10, <1>13, <1>14, <1>15, QuietSteps

\* A step by which a cleanup or a restore gives up.
LEMMA RollBackKeeps ==
  ASSUME StorageInv, NEW r \in Requests, NEW op \in {"sweep", "restore"},
         Moving(r, op), RollBack(r)
  PROVE  StorageInv'
<1> DEFINE old == jobs[r]
           job == [old EXCEPT !.phase = "rollback"]
<1>1. old.op = op /\ old.phase = "move" /\ StorageTypeOK /\ JobOK(r)
  BY DEF Moving, StorageInv
<1>2. old \in SweepJob \cup RestoreJob
  BY <1>1, JobTyped DEF Restoring
<1>3. /\ job \in SweepJob \cup RestoreJob /\ job.op = op /\ job.phase = "rollback"
      /\ job.run = old.run /\ job.rest = old.rest /\ job.done = old.done
      /\ job.clean = old.clean
  BY <1>1, <1>2 DEF SweepJob, RestoreJob
<1>4. /\ jobs' = [jobs EXCEPT ![r] = job]
      /\ UNCHANGED <<disk, folders, imported, rows, recovery, locked, stamps>>
  BY <1>1 DEF RollBack, StorageTypeOK
<1>5. jobs'[r] = job /\ \A s \in Requests \ {r} : jobs'[s] = jobs[s]
  BY <1>1, <1>4, JobReplaced
<1> HIDE DEF job, old
<1>6. SweepOK(r)'
  BY <1>1, <1>3, <1>4, <1>5 DEF JobOK, SweepOK, old
<1>7. RestoreOK(r)'
  BY <1>1, <1>3, <1>4, <1>5 DEF JobOK, RestoreOK, Restoring, old
<1>8. JobOK(r)'
  BY <1>3, <1>5, <1>6, <1>7 DEF JobOK, ImportOK, UploadOK
<1>9. ASSUME NEW s \in Requests \ {r} PROVE Apart(r, s)' /\ Apart(s, r)'
  <2>1. Apart(r, s) /\ Apart(s, r) /\ jobs'[s] = jobs[s]
    BY <1>5 DEF StorageInv
  <2> QED BY <1>1, <1>3, <1>5, <2>1 DEF Apart, Restoring, old
<1>10. job \in Job
  BY <1>3 DEF Job
<1> QED BY <1>4, <1>8, <1>9, <1>10, JobSteps

\* What is known of the cleanup that takes a step.
LEMMA CleanupKnows ==
  ASSUME StorageInv, NEW r \in Requests, jobs[r].op = "sweep"
  PROVE  /\ StorageTypeOK /\ jobs[r] \in SweepJob /\ SweepOK(r) /\ locked = {r}
         /\ \A s \in Requests \ {r} : jobs[s].op # "sweep" /\ locked # {s}
BY OneCleanup, JobTyped DEF StorageInv, JobOK, SweepOK

LEMMA WriteManifestKeeps ==
  ASSUME StorageInv, NEW r \in Requests, WriteManifest(r)
  PROVE  StorageInv'
<1> DEFINE old == jobs[r]
           q == old.run
           job == [old EXCEPT !.phase = "move"]
<1>1. /\ old.op = "sweep" /\ old.phase = "manifest"
      /\ UNCHANGED <<disk, folders, imported, rows, locked, stamps>>
  BY DEF WriteManifest
<1>2. /\ StorageTypeOK /\ old \in SweepJob /\ SweepOK(r) /\ locked = {r}
      /\ \A s \in Requests \ {r} : jobs[s].op # "sweep" /\ locked # {s}
  BY <1>1, CleanupKnows
<1>3. /\ job \in SweepJob /\ job.op = "sweep" /\ job.phase = "move"
      /\ job.run = q /\ job.rest = old.rest /\ job.done = old.done /\ job.clean = old.clean
  BY <1>2 DEF SweepJob
<1>4. jobs' = [jobs EXCEPT ![r] = job]
  BY <1>2 DEF WriteManifest, StorageTypeOK
<1>5. q \in Runs /\ old.rest \in Seq(Item) /\ recovery \in [Runs -> RunRecord]
  BY <1>2 DEF SweepJob, StorageTypeOK
<1>6. recovery' = [recovery EXCEPT ![q].status = "prepared", ![q].items = old.rest]
  BY DEF WriteManifest
<1>7. /\ recovery' \in [Runs -> RunRecord] /\ recovery'[q].status = "prepared"
      /\ recovery'[q].items = old.rest
      /\ \A k \in Runs : /\ recovery'[k].stored = recovery[k].stored
                         /\ k # q => recovery'[k] = recovery[k]
  BY <1>5, <1>6 DEF RunRecord
<1>8. jobs'[r] = job /\ \A s \in Requests \ {r} : jobs'[s] = jobs[s]
  BY <1>2, <1>4, JobReplaced
<1>9. recovery[q].status = "bare"
  BY <1>1, <1>2 DEF SweepOK
<1>10. \A s \in Requests : Restoring(jobs[s]) => jobs[s].run \in Runs /\ jobs[s].run # q
  BY <1>2, <1>9, JobTyped DEF StorageInv, JobOK, RestoreOK, RestoreJob
<1> HIDE DEF job
<1>11. StorageTypeOK'
  BY <1>1, <1>2, <1>3, <1>4, <1>7 DEF StorageTypeOK, Job
<1>12. \A p \in Paths : Held(p) => Held(p)'
  BY <1>1, <1>7 DEF Held
<1>13. RunsOK'
  BY <1>7 DEF StorageInv, RunsOK
<1>14. \A s \in Requests \ {r} : RunKept(s)
  BY <1>2, <1>7, <1>10 DEF RunKept, StorageInv, JobOK, RestoreOK
<1>15. JobOK(r)'
  <2>1. SweepOK(r)'
    BY <1>1, <1>2, <1>3, <1>5, <1>7, <1>8 DEF SweepOK, ManagedStorageReferences
  <2> QED BY <1>3, <1>8, <2>1 DEF JobOK, RestoreOK, ImportOK, UploadOK, Restoring
<1>16. ASSUME NEW s \in Requests \ {r} PROVE Apart(r, s)' /\ Apart(s, r)'
  BY <1>2, <1>3, <1>8, <1>10 DEF Apart, Restoring
<1> QED BY <1>1, <1>2, <1>4, <1>11, <1>12, <1>13, <1>14, <1>15, <1>16, QuietSteps

\* The recovery area after a file has entered it, or left it with stamp 0.
StoredBecomes(q, p0, stamp) ==
  /\ recovery' \in [Runs -> RunRecord]
  /\ recovery'[q].status = recovery[q].status
  /\ recovery'[q].items = recovery[q].items
  /\ \A k \in Runs \ {q} : recovery'[k] = recovery[k]
  /\ recovery'[q].stored[p0] = stamp
  /\ \A p \in Paths \ {p0} : recovery'[q].stored[p] = recovery[q].stored[p]

LEMMA StoredChanges ==
  ASSUME StorageTypeOK, NEW q \in Runs, NEW p0 \in Paths, NEW stamp \in Nat,
         recovery' = [recovery EXCEPT ![q].stored[p0] = stamp]
  PROVE  StoredBecomes(q, p0, stamp)
<1>1. recovery \in [Runs -> RunRecord]
  BY DEF StorageTypeOK
<1>2. /\ recovery' \in [Runs -> RunRecord]
      /\ recovery'[q].status = recovery[q].status
      /\ recovery'[q].items = recovery[q].items
      /\ recovery'[q].stored = [recovery[q].stored EXCEPT ![p0] = stamp]
      /\ recovery[q].stored \in [Paths -> Nat]
      /\ \A k \in Runs \ {q} : recovery'[k] = recovery[k]
  BY <1>1 DEF RunRecord
<1> QED BY <1>2 DEF StoredBecomes

\* The reviewed file is on disk, and moves to the run's share of the recovery
\* area: nothing refers to it, and no restore is at work on the run.
LEMMA QuarantineKeeps ==
  ASSUME StorageInv, NEW r \in Requests, QuarantineManagedCleanup(r)
  PROVE  StorageInv'
<1> DEFINE old == jobs[r]
           q == old.run
           item == Head(old.rest)
           p0 == item[1]
           job == [old EXCEPT !.rest = Tail(old.rest), !.done = Append(old.done, item)]
<1>1. Moving(r, "sweep") /\ old.op = "sweep" /\ old.phase = "move" /\ old.rest # <<>>
  BY DEF QuarantineManagedCleanup, Moving
<1>2. /\ StorageTypeOK /\ old \in SweepJob /\ SweepOK(r) /\ locked = {r}
      /\ \A s \in Requests \ {r} : jobs[s].op # "sweep" /\ locked # {s}
  BY <1>1, CleanupKnows
<1>3. CASE RollBack(r)
  BY <1>1, <1>3, RollBackKeeps
<1>4. CASE /\ Inode(p0) = item
           /\ disk' = [disk EXCEPT ![p0] = 0]
           /\ recovery' = [recovery EXCEPT ![q].stored[p0] = item[2]]
           /\ jobs' = Moved(r)
           /\ UNCHANGED <<folders, imported, rows, sealed, locked, stamps, restarts>>
  <2>1. old.rest \in Seq(Item) /\ old.done \in Seq(Item) /\ q \in Runs
    BY <1>2 DEF SweepJob
  <2>2. /\ Tail(old.rest) \in Seq(Item) /\ item \in Item
        /\ PathsIn(old.rest) = PathsIn(Tail(old.rest)) \cup {p0}
        /\ Distinct(old.rest) =>
             Distinct(Tail(old.rest)) /\ p0 \notin PathsIn(Tail(old.rest))
        /\ \A i \in DOMAIN Tail(old.rest) :
             \E j \in DOMAIN old.rest : Tail(old.rest)[i] = old.rest[j]
        /\ 1 \in DOMAIN old.rest /\ item = old.rest[1]
    BY <1>1, <2>1, TailPaths
  <2>3. /\ Append(old.done, item) \in Seq(Item)
        /\ PathsIn(Append(old.done, item)) = PathsIn(old.done) \cup {p0}
    BY <2>1, <2>2, AppendPaths
  <2>4. /\ job \in SweepJob /\ job.op = "sweep" /\ job.phase = "move" /\ job.run = q
        /\ job.rest = Tail(old.rest) /\ job.done = Append(old.done, item)
        /\ job.clean = old.clean
    BY <1>1, <1>2, <2>2, <2>3 DEF SweepJob
  <2>5. jobs' = [jobs EXCEPT ![r] = job]
    BY <1>2, <1>4 DEF Moved, StorageTypeOK
  <2>6. jobs'[r] = job /\ \A s \in Requests \ {r} : jobs'[s] = jobs[s]
    BY <1>2, <2>5, JobReplaced
  <2>7. /\ p0 \in Paths /\ item[2] \in Nat /\ item[2] # 0 /\ disk[p0] = item[2]
        /\ recovery \in [Runs -> RunRecord] /\ disk \in [Paths -> Nat]
    <3>1. \A i \in DOMAIN old.rest : old.rest[i][2] # 0
      BY <1>1, <1>2 DEF SweepOK
    <3> QED BY <1>2, <1>4, <2>2, <3>1 DEF Item, Inode, StorageTypeOK
  <2>8. /\ recovery' \in [Runs -> RunRecord]
        /\ recovery'[q].status = recovery[q].status
        /\ recovery'[q].items = recovery[q].items
        /\ recovery'[q].stored = [recovery[q].stored EXCEPT ![p0] = item[2]]
        /\ recovery[q].stored \in [Paths -> Nat]
        /\ \A k \in Runs \ {q} : recovery'[k] = recovery[k]
    BY <1>4, <2>1, <2>7 DEF RunRecord
  <2>9. /\ recovery'[q].stored[p0] = item[2]
        /\ \A p \in Paths \ {p0} : recovery'[q].stored[p] = recovery[q].stored[p]
    BY <2>7, <2>8
  <2>10. disk' \in [Paths -> Nat] /\ \A p \in Paths \ {p0} : disk'[p] = disk[p]
    BY <1>4, <2>7
  <2>11. \A s \in Requests : Restoring(jobs[s]) => jobs[s].run \in Runs /\ jobs[s].run # q
    BY <1>1, <1>2, JobTyped DEF StorageInv, Apart, RestoreJob, Restoring
  <2> HIDE DEF job
  <2>12. StorageTypeOK'
    BY <1>2, <1>4, <2>4, <2>5, <2>8, <2>10 DEF StorageTypeOK, Job
  <2>13. \A p \in Paths : Held(p) => Held(p)'
    <3>1. ASSUME NEW p \in Paths, p = p0 PROVE Held(p)'
      BY ZenonT(40), <2>1, <2>7, <2>9, <3>1 DEF Held
    <3>2. ASSUME NEW p \in Paths, p # p0, Held(p) PROVE Held(p)'
      BY <2>8, <2>9, <2>10, <3>2 DEF Held
    <3> QED BY <3>1, <3>2
  <2>14. RunsOK'
    <3>1. recovery[q].status # "none"
      BY <1>1, <1>2 DEF SweepOK
    <3> QED BY <2>8, <3>1 DEF StorageInv, RunsOK
  <2>15. \A s \in Requests \ {r} : RunKept(s)
    BY <1>2, <2>8, <2>11 DEF RunKept, StorageInv, JobOK, RestoreOK
  <2>16. JobOK(r)'
    <3>1. SweepOK(r)'
      <4>1. /\ old.clean /\ Distinct(old.rest)
            /\ PathsIn(old.rest) \cap PathsIn(old.done) = {}
            /\ PathsIn(old.rest) \cap ManagedStorageReferences = {}
            /\ \A i \in DOMAIN old.rest : old.rest[i][2] # 0
            /\ PathsIn(old.rest) \subseteq PathsIn(recovery[q].items)
            /\ recovery[q].status # "none"
            /\ \A p \in Paths : recovery[q].stored[p] # 0 => p \in PathsIn(old.done)
        BY <1>1, <1>2 DEF SweepOK
      <4>2. ManagedStorageReferences' = ManagedStorageReferences
        BY <1>4 DEF ManagedStorageReferences
      <4>3. \A p \in Paths : recovery'[q].stored[p] # 0 => p \in PathsIn(job.done)
        BY <2>3, <2>4, <2>9, <4>1
      <4>4. /\ Distinct(job.rest) /\ PathsIn(job.rest) \cap PathsIn(job.done) = {}
            /\ PathsIn(job.rest) \cap ManagedStorageReferences' = {}
            /\ \A i \in DOMAIN job.rest : job.rest[i][2] # 0
            /\ PathsIn(job.rest) \subseteq PathsIn(recovery'[q].items)
        BY <2>2, <2>3, <2>4, <2>8, <4>1, <4>2
      <4>5. job.clean
        BY <2>4, <4>1
      <4> QED BY ZenonT(40), <1>2, <1>4, <2>4, <2>6, <2>8, <4>1, <4>3, <4>4, <4>5 DEF SweepOK
    <3> QED BY <2>4, <2>6, <3>1 DEF JobOK, RestoreOK, ImportOK, UploadOK, Restoring
  <2>17. ASSUME NEW s \in Requests \ {r} PROVE Apart(r, s)' /\ Apart(s, r)'
    BY <1>2, <2>4, <2>6, <2>11 DEF Apart, Restoring
  <2> QED BY <1>2, <1>4, <2>5, <2>12, <2>13, <2>14, <2>15, <2>16, <2>17, QuietSteps
<1> QED BY <1>3, <1>4 DEF QuarantineManagedCleanup

LEMMA FinishQuarantineKeeps ==
  ASSUME StorageInv, NEW r \in Requests, FinishQuarantine(r)
  PROVE  StorageInv'
<1> DEFINE old == jobs[r]
           q == old.run
           job == [old EXCEPT !.phase = "commit"]
<1>1. CASE Moving(r, "sweep") /\ RollBack(r)
  BY <1>1, RollBackKeeps
<1>2. CASE old.op = "sweep" /\ Finished(r, "quarantined", job)
  <2>1. /\ StorageTypeOK /\ old \in SweepJob /\ SweepOK(r) /\ locked = {r}
        /\ \A s \in Requests \ {r} : jobs[s].op # "sweep" /\ locked # {s}
    BY <1>2, CleanupKnows
  <2>2. /\ old.phase = "move" /\ jobs' = [jobs EXCEPT ![r] = job]
        /\ recovery' = [recovery EXCEPT ![q].status = "quarantined"]
        /\ UNCHANGED <<disk, folders, imported, rows, locked, stamps>>
    BY <1>2 DEF Finished, Moving
  <2>3. /\ job \in SweepJob /\ job.op = "sweep" /\ job.phase = "commit" /\ job.run = q
        /\ job.done = old.done /\ job.clean = old.clean /\ q \in Runs
    BY <2>1 DEF SweepJob
  <2>4. /\ recovery' \in [Runs -> RunRecord] /\ recovery'[q].status = "quarantined"
        /\ \A k \in Runs : /\ recovery'[k].stored = recovery[k].stored
                           /\ k # q => recovery'[k] = recovery[k]
    BY <2>1, <2>2, <2>3 DEF StorageTypeOK, RunRecord
  <2>5. jobs'[r] = job /\ \A s \in Requests \ {r} : jobs'[s] = jobs[s]
    BY <2>1, <2>2, JobReplaced
  <2> HIDE DEF job
  <2>6. StorageTypeOK'
    BY <2>1, <2>2, <2>3, <2>4 DEF StorageTypeOK, Job
  <2>7. \A p \in Paths : Held(p) => Held(p)'
    BY <2>2, <2>4 DEF Held
  <2>8. RunsOK'
    BY <2>4 DEF StorageInv, RunsOK
  <2>9. \A s \in Requests : Restoring(jobs[s]) => jobs[s].run \in Runs
    BY <2>1, JobTyped DEF RestoreJob
  <2>10. \A s \in Requests \ {r} : RunKept(s)
    BY <2>1, <2>4, <2>9 DEF RunKept, StorageInv, JobOK, RestoreOK
  <2>11. JobOK(r)'
    <3>1. SweepOK(r)'
      <4>1. old.clean => \A p \in Paths : recovery[q].stored[p] # 0 => p \in PathsIn(old.done)
        BY <1>2, <2>1 DEF SweepOK
      <4>2. job.clean => \A p \in Paths : recovery'[q].stored[p] # 0 => p \in PathsIn(job.done)
        BY <2>3, <2>4, <4>1
      <4> QED BY <2>1, <2>2, <2>3, <2>4, <2>5, <4>2 DEF SweepOK
    <3> QED BY <2>3, <2>5, <3>1 DEF JobOK, RestoreOK, ImportOK, UploadOK, Restoring
  <2>12. ASSUME NEW s \in Requests \ {r} PROVE Apart(r, s)' /\ Apart(s, r)'
    <3>1. Apart(r, s)
      BY DEF StorageInv
    <3> QED BY <1>2, <2>1, <2>3, <2>5, <3>1 DEF Apart, Restoring
  <2> QED BY <2>1, <2>2, <2>6, <2>7, <2>8, <2>10, <2>11, <2>12, QuietSteps
<1> QED BY <1>1, <1>2 DEF FinishQuarantine

LEMMA ReleaseKeeps ==
  ASSUME StorageInv, NEW r \in Requests, ReleaseReferences(r)
  PROVE  StorageInv'
<1> DEFINE q == jobs[r].run
           check == [op |-> "restore", run |-> q, phase |-> "check"]
<1>1. PICK job \in {Waiting, check} : jobs' = [jobs EXCEPT ![r] = job]
  BY DEF ReleaseReferences
<1>2. /\ jobs[r].op = "sweep" /\ locked' = {}
      /\ UNCHANGED <<disk, folders, imported, rows, recovery, stamps>>
  BY DEF ReleaseReferences
<1>3. /\ StorageTypeOK /\ jobs[r] \in SweepJob
      /\ \A s \in Requests \ {r} : jobs[s].op # "sweep" /\ locked # {s}
  BY <1>2, CleanupKnows
<1>4. job \in Job /\ job.op \in {"waiting", "restore"} /\ ~Restoring(job)
  BY <1>3 DEF Job, OwnRestore, SweepJob, Waiting, Restoring
<1>5. jobs'[r] = job /\ \A s \in Requests \ {r} : jobs'[s] = jobs[s]
  BY <1>1, <1>3, JobReplaced
<1>6. StorageTypeOK'
  BY <1>1, <1>2, <1>3, <1>4 DEF StorageTypeOK
<1>7. \A p \in Paths : Held(p) => Held(p)'
  BY <1>2 DEF Held
<1>8. JobOK(r)'
  BY <1>4, <1>5 DEF JobOK, SweepOK, RestoreOK, ImportOK, UploadOK, Restoring
<1>9. ASSUME NEW s \in Requests \ {r} PROVE Apart(r, s)' /\ Apart(s, r)'
  BY <1>4, <1>5 DEF Apart, Restoring
<1> QED BY <1>1, <1>2, <1>3, <1>6, <1>7, <1>8, <1>9, QuietSteps, RunUnchanged

\* What both rollbacks do to their job, and what they leave alone.
LEMMA RollbackJob ==
  ASSUME StorageInv, NEW r \in Requests, RollbackMove(r)
  PROVE  \E job \in SweepJob \cup RestoreJob, from \in Nat :
           LET old == jobs[r]
               item == Last(old.done)
           IN  /\ from = IF old.op = "sweep" THEN recovery[old.run].stored[item[1]]
                         ELSE disk[item[1]]
               /\ job.op = old.op /\ job.phase = "rollback" /\ job.run = old.run
               /\ job.done = Front(old.done) /\ job.clean = (old.clean /\ from # 0)
               /\ old \in SweepJob => job \in SweepJob
               /\ old \in RestoreJob => job \in RestoreJob
               /\ jobs' = [jobs EXCEPT ![r] = job]
<1> DEFINE old == jobs[r]
           item == Last(old.done)
           from == IF old.op = "sweep" THEN recovery[old.run].stored[item[1]]
                   ELSE disk[item[1]]
           clean == old.clean /\ from # 0
           job == [old EXCEPT !.done = Front(old.done), !.clean = clean]
<1>1. /\ old.op \in {"sweep", "restore"} /\ old.phase = "rollback" /\ old.done # <<>>
      /\ jobs' = [jobs EXCEPT ![r].done = Front(@), ![r].clean = @ /\ from # 0]
  BY Zenon DEF RollbackMove
<1>2. StorageTypeOK
  BY DEF StorageInv
<1>3. old \in SweepJob \cup RestoreJob
  BY <1>1, <1>2, JobTyped DEF Restoring
<1>4. old.done \in Seq(Item) /\ old.run \in Runs
  BY <1>3 DEF SweepJob, RestoreJob
<1>5. Front(old.done) \in Seq(Item) /\ item \in Item
  BY <1>1, <1>4, FrontPaths
<1>6. from \in Nat
  <2>1. item[1] \in Paths
    BY <1>5 DEF Item
  <2>2. /\ recovery \in [Runs -> RunRecord]
        /\ disk \in [Paths -> Nat]
    BY <1>2 DEF StorageTypeOK
  <2>3. recovery[old.run].stored[item[1]] \in Nat
    BY <1>4, <2>1, <2>2 DEF RunRecord
  <2> QED BY <2>1, <2>2, <2>3
<1>7. clean \in BOOLEAN
  OBVIOUS
<1>8. jobs' = [jobs EXCEPT ![r] = job]
  <2>1. jobs \in [Requests -> Job]
    BY <1>2 DEF StorageTypeOK
  <2> QED BY <1>1, <2>1
<1> HIDE DEF clean, from, item
<1>9. /\ job \in SweepJob \cup RestoreJob /\ job.op = old.op /\ job.phase = "rollback"
      /\ job.run = old.run /\ job.done = Front(old.done) /\ job.clean = clean
      /\ old \in SweepJob => job \in SweepJob
      /\ old \in RestoreJob => job \in RestoreJob
  BY <1>1, <1>3, <1>5, <1>7 DEF SweepJob, RestoreJob
<1> HIDE DEF job
<1> QED BY <1>6, <1>8, <1>9 DEF clean, from, item

\* Nothing was left to move: the rollback is unclean, and touches nothing.
LEMMA RollbackMisses ==
  ASSUME StorageInv, NEW r \in Requests,
         jobs[r] \in SweepJob \cup RestoreJob, jobs[r].phase = "rollback", jobs[r].done # <<>>,
         NEW job \in SweepJob \cup RestoreJob, job.op = jobs[r].op, job.phase = "rollback",
         job.run = jobs[r].run, job.done = Front(jobs[r].done), job.clean = FALSE,
         jobs' = [jobs EXCEPT ![r] = job],
         UNCHANGED <<disk, folders, imported, rows, recovery, locked, stamps>>
  PROVE  StorageInv'
<1> DEFINE old == jobs[r]
<1>1. StorageTypeOK /\ JobOK(r)
  BY DEF StorageInv
<1>2. jobs'[r] = job /\ \A s \in Requests \ {r} : jobs'[s] = jobs[s]
  BY <1>1, JobReplaced
<1>3. old.done \in Seq(Item) /\ old.op \in {"sweep", "restore"}
  BY DEF SweepJob, RestoreJob
<1>4. /\ PathsIn(job.done) \subseteq PathsIn(old.done)
      /\ Distinct(old.done) => Distinct(job.done)
  BY <1>3, FrontPaths
<1>5. SweepOK(r)'
  BY <1>1, <1>2 DEF JobOK, SweepOK
<1>6. RestoreOK(r)'
  BY <1>1, <1>2, <1>4 DEF JobOK, RestoreOK, Restoring
<1>7. JobOK(r)'
  BY <1>2, <1>3, <1>5, <1>6 DEF JobOK, ImportOK, UploadOK
<1>8. ASSUME NEW s \in Requests \ {r} PROVE Apart(r, s)' /\ Apart(s, r)'
  <2>1. Apart(r, s) /\ Apart(s, r) /\ jobs'[s] = jobs[s]
    BY <1>2 DEF StorageInv
  <2> QED BY <1>2, <1>3, <1>4, <2>1 DEF Apart, Restoring
<1> QED BY <1>7, <1>8, JobSteps DEF Job

\* A file goes back from the recovery area to its place.
LEMMA SweepRollsBack ==
  ASSUME StorageInv, NEW r \in Requests, jobs[r].op = "sweep",
         jobs[r].phase = "rollback", jobs[r].done # <<>>,
         NEW job \in SweepJob, job.phase = "rollback", job.run = jobs[r].run,
         NEW q, q = job.run,
         job.done = Front(jobs[r].done), job.clean = jobs[r].clean,
         NEW p0, p0 = Last(jobs[r].done)[1], NEW from \in Nat \ {0},
         from = recovery[q].stored[p0],
         jobs' = [jobs EXCEPT ![r] = job],
         disk' = [disk EXCEPT ![p0] = from],
         StoredBecomes(q, p0, 0),
         UNCHANGED <<folders, imported, rows, locked, stamps>>
  PROVE  StorageInv'
<1> DEFINE old == jobs[r]
<1>1. /\ StorageTypeOK /\ old \in SweepJob /\ SweepOK(r) /\ locked = {r}
      /\ \A s \in Requests \ {r} : jobs[s].op # "sweep" /\ locked # {s}
  BY CleanupKnows
<1>2. q \in Runs /\ job.op = "sweep" /\ old.done \in Seq(Item)
  BY <1>1 DEF SweepJob
<1>3. PathsIn(old.done) = PathsIn(job.done) \cup {p0} /\ Last(old.done) \in Item
  BY <1>2, FrontPaths
<1>4. p0 \in Paths /\ recovery \in [Runs -> RunRecord] /\ disk \in [Paths -> Nat]
  BY <1>1, <1>3 DEF Item, StorageTypeOK
<1>5. /\ recovery' \in [Runs -> RunRecord]
      /\ recovery'[q].status = recovery[q].status
      /\ recovery'[q].items = recovery[q].items
      /\ \A k \in Runs \ {q} : recovery'[k] = recovery[k]
      /\ recovery'[q].stored[p0] = 0
      /\ \A p \in Paths \ {p0} : recovery'[q].stored[p] = recovery[q].stored[p]
  BY DEF StoredBecomes
<1>7. /\ disk' \in [Paths -> Nat] /\ disk'[p0] = from
      /\ \A p \in Paths \ {p0} : disk'[p] = disk[p]
  BY <1>4
<1>8. jobs'[r] = job /\ \A s \in Requests \ {r} : jobs'[s] = jobs[s]
  BY <1>1, JobReplaced
<1>9. StorageTypeOK'
  BY <1>1, <1>5, <1>7 DEF StorageTypeOK, Job
<1>10. ASSUME NEW p \in Paths, Held(p) PROVE Held(p)'
  <2>1. CASE p = p0
    BY ZenonT(40), <1>7, <2>1 DEF Held
  <2>2. CASE p # p0
    <3>1. disk'[p] = disk[p]
      BY <1>7, <2>2
    <3>2. ASSUME NEW k \in Runs PROVE recovery'[k].stored[p] = recovery[k].stored[p]
      <4>1. CASE k = q
        BY <1>5, <2>2, <4>1
      <4>2. CASE k # q
        BY <1>5, <4>2
      <4> QED BY <4>1, <4>2
    <3> QED BY <1>10, <3>1, <3>2 DEF Held
  <2> QED BY <2>1, <2>2
<1>11. recovery[q].status # "none" /\ RunsOK'
  <2>1. recovery[q].status # "none"
    BY <1>1 DEF SweepOK
  <2> QED BY <1>5, <2>1 DEF StorageInv, RunsOK
<1>12. ASSUME NEW s \in Requests \ {r} PROVE RunKept(s)
  <2>1. jobs[s].op # "sweep" /\ RestoreOK(s)
    BY <1>1 DEF StorageInv, JobOK
  <2>2. Restoring(jobs[s]) => jobs[s].run \in Runs /\ PathsIn(jobs[s].done) \subseteq Paths
    BY <1>1, JobTyped, PathsTyped DEF RestoreJob
  <2> QED BY <1>5, <2>1, <2>2 DEF RestoreOK, RunKept
<1>13. JobOK(r)'
  <2>1. job.clean => \A p \in Paths : recovery'[q].stored[p] # 0 => p \in PathsIn(job.done)
    <3>1. job.clean => \A p \in Paths : recovery[q].stored[p] # 0 => p \in PathsIn(old.done)
      BY <1>1 DEF SweepOK
    <3> QED BY <1>3, <1>5, <3>1
  <2>2. SweepOK(r)'
    BY <1>1, <1>2, <1>5, <1>8, <1>11, <2>1 DEF SweepOK
  <2> QED BY <1>2, <1>8, <2>2 DEF JobOK, RestoreOK, ImportOK, UploadOK, Restoring
<1>14. ASSUME NEW s \in Requests \ {r} PROVE Apart(r, s)' /\ Apart(s, r)'
  <2>1. Apart(r, s) /\ RestoreOK(s) /\ jobs'[s] = jobs[s] /\ jobs[s].op # "sweep"
    BY <1>1, <1>8 DEF StorageInv, JobOK
  <2>2. ASSUME Restoring(jobs[s]), jobs[s].run = q PROVE p0 \notin PathsIn(jobs[s].done)
    BY <2>1, <2>2 DEF RestoreOK
  <2> QED BY <1>2, <1>3, <1>8, <2>1, <2>2 DEF Apart, Restoring
<1> QED BY <1>1, <1>8, <1>9, <1>10, <1>11, <1>12, <1>13, <1>14, QuietSteps

\* A file goes back from its place to the recovery area.
LEMMA RestoreRollsBack ==
  ASSUME StorageInv, NEW r \in Requests, jobs[r].op = "restore",
         jobs[r].phase = "rollback", jobs[r].done # <<>>,
         NEW job \in RestoreJob, job.phase = "rollback", job.run = jobs[r].run,
         NEW q, q = job.run,
         job.done = Front(jobs[r].done),
         NEW p0, p0 = Last(jobs[r].done)[1], NEW from \in Nat \ {0}, from = disk[p0],
         jobs' = [jobs EXCEPT ![r] = job],
         disk' = [disk EXCEPT ![p0] = 0],
         StoredBecomes(q, p0, from),
         UNCHANGED <<folders, imported, rows, locked, stamps>>
  PROVE  StorageInv'
<1> DEFINE old == jobs[r]
<1>1. StorageTypeOK /\ old \in RestoreJob /\ RestoreOK(r) /\ Restoring(old)
  BY JobTyped DEF StorageInv, JobOK, Restoring
<1>2. q \in Runs /\ job.op = "restore" /\ old.done \in Seq(Item)
  BY <1>1 DEF RestoreJob
<1>3. /\ PathsIn(old.done) = PathsIn(job.done) \cup {p0} /\ Last(old.done) \in Item
      /\ Distinct(old.done) => Distinct(job.done) /\ p0 \notin PathsIn(job.done)
  BY <1>2, FrontPaths
<1>4. p0 \in Paths /\ recovery \in [Runs -> RunRecord] /\ disk \in [Paths -> Nat]
  BY <1>1, <1>3 DEF Item, StorageTypeOK
<1>5. /\ recovery' \in [Runs -> RunRecord]
      /\ recovery'[q].status = recovery[q].status
      /\ recovery'[q].items = recovery[q].items
      /\ \A k \in Runs \ {q} : recovery'[k] = recovery[k]
      /\ recovery'[q].stored[p0] = from
      /\ \A p \in Paths \ {p0} : recovery'[q].stored[p] = recovery[q].stored[p]
  BY DEF StoredBecomes
<1>7. disk' \in [Paths -> Nat] /\ \A p \in Paths \ {p0} : disk'[p] = disk[p]
  BY <1>4
<1>8. jobs'[r] = job /\ \A s \in Requests \ {r} : jobs'[s] = jobs[s]
  BY <1>1, JobReplaced
<1>9. StorageTypeOK'
  BY <1>1, <1>5, <1>7 DEF StorageTypeOK, Job
<1>10. ASSUME NEW p \in Paths, Held(p) PROVE Held(p)'
  <2>1. CASE p = p0
    BY <1>2, <1>5, <2>1 DEF Held
  <2>2. CASE p # p0
    <3>1. disk'[p] = disk[p]
      BY <1>7, <2>2
    <3>2. ASSUME NEW k \in Runs PROVE recovery'[k].stored[p] = recovery[k].stored[p]
      <4>1. CASE k = q
        BY <1>5, <2>2, <4>1
      <4>2. CASE k # q
        BY <1>5, <4>2
      <4> QED BY <4>1, <4>2
    <3> QED BY <1>10, <3>1, <3>2 DEF Held
  <2> QED BY <2>1, <2>2
<1>11. recovery[q].status \notin {"none", "bare"} /\ RunsOK'
  <2>1. recovery[q].status \notin {"none", "bare"}
    BY <1>1 DEF RestoreOK
  <2> QED BY <1>5, <2>1 DEF StorageInv, RunsOK
<1>12. ASSUME NEW s \in Requests \ {r} PROVE RunKept(s)
  <2>1. RestoreOK(s) /\ SweepOK(s) /\ Apart(r, s) /\ Apart(s, r)
    BY DEF StorageInv, JobOK
  <2>2. /\ jobs[s].op = "sweep" => jobs[s].run \in Runs
        /\ Restoring(jobs[s]) => jobs[s].run \in Runs /\ PathsIn(jobs[s].done) \subseteq Paths
    BY <1>1, JobTyped, PathsTyped DEF RestoreJob, SweepJob
  <2>3. ASSUME jobs[s].op = "sweep"
        PROVE  LET sj == jobs[s]
               IN  /\ recovery'[sj.run].items = recovery[sj.run].items
                   /\ recovery'[sj.run].status # "none"
                   /\ recovery[sj.run].status = "bare" => recovery'[sj.run].status = "bare"
                   /\ sj.clean => \A p \in Paths : recovery'[sj.run].stored[p] # 0 =>
                                     recovery[sj.run].stored[p] # 0 \/ p \in PathsIn(sj.done)
    <3>1. CASE jobs[s].run = q
      <4>1. jobs[s].clean => p0 \in PathsIn(jobs[s].done)
        BY <1>1, <1>3, <2>1, <2>3, <3>1 DEF Apart
      <4>2. ASSUME NEW p \in Paths, p # p0
            PROVE  recovery'[q].stored[p] = recovery[q].stored[p]
        <5>1. p \in Paths \ {p0}
          BY <4>2
        <5> QED BY <1>5, <5>1
      <4>3. jobs[s].clean => \A p \in Paths : recovery'[q].stored[p] # 0 =>
                               recovery[q].stored[p] # 0 \/ p \in PathsIn(jobs[s].done)
        <5> SUFFICES ASSUME jobs[s].clean, NEW p \in Paths, recovery'[q].stored[p] # 0
                     PROVE  recovery[q].stored[p] # 0 \/ p \in PathsIn(jobs[s].done)
          OBVIOUS
        <5>1. CASE p = p0
          BY <4>1, <5>1
        <5>2. CASE p # p0
          BY <4>2, <5>2
        <5> QED BY <5>1, <5>2
      <4> QED BY <1>5, <1>11, <3>1, <4>3
    <3>2. CASE jobs[s].run # q
      BY <1>5, <2>1, <2>2, <2>3, <3>2 DEF SweepOK
    <3> QED BY <3>1, <3>2
  <2>4. ASSUME Restoring(jobs[s])
        PROVE  /\ recovery'[jobs[s].run].status \notin {"none", "bare"}
               /\ \A p \in PathsIn(jobs[s].done) : recovery'[jobs[s].run].stored[p] = 0
    <3>1. CASE jobs[s].run = q
      <4>1. p0 \notin PathsIn(jobs[s].done)
        BY <1>1, <1>3, <2>1, <2>4, <3>1 DEF Apart
      <4>2. \A p \in PathsIn(jobs[s].done) : p \in Paths /\ p # p0 /\ recovery[q].stored[p] = 0
        BY <2>1, <2>2, <2>4, <3>1, <4>1 DEF RestoreOK
      <4>3. \A p \in PathsIn(jobs[s].done) : recovery'[q].stored[p] = 0
        BY <1>5, <4>2
      <4> QED BY <1>5, <1>11, <3>1, <4>3
    <3>2. CASE jobs[s].run # q
      BY <1>5, <2>1, <2>2, <2>4, <3>2 DEF RestoreOK
    <3> QED BY <3>1, <3>2
  <2> QED BY <2>3, <2>4 DEF RunKept
<1>13. JobOK(r)'
  <2>1. RestoreOK(r)'
    <3>1. /\ Distinct(job.done) /\ p0 \notin PathsIn(job.done)
          /\ \A p \in PathsIn(job.done) : recovery[q].stored[p] = 0
      BY <1>1, <1>3 DEF RestoreOK
    <3>2. PathsIn(job.done) \subseteq Paths
      BY PathsTyped DEF RestoreJob
    <3> QED BY <1>5, <1>8, <1>11, <3>1, <3>2 DEF RestoreOK
  <2> QED BY <1>2, <1>8, <2>1 DEF JobOK, SweepOK, ImportOK, UploadOK
<1>14. ASSUME NEW s \in Requests \ {r} PROVE Apart(r, s)' /\ Apart(s, r)'
  <2>1. Apart(r, s) /\ Apart(s, r) /\ jobs'[s] = jobs[s]
    BY <1>8 DEF StorageInv
  <2> QED BY <1>1, <1>2, <1>3, <1>8, <2>1 DEF Apart, Restoring
<1>15. \A s \in Requests \ {r} : locked = {s} => locked' = {s}
  OBVIOUS
<1> QED BY <1>8, <1>9, <1>10, <1>11, <1>12, <1>13, <1>14, <1>15, QuietSteps

LEMMA RollbackMoveKeeps ==
  ASSUME StorageInv, NEW r \in Requests, RollbackMove(r)
  PROVE  StorageInv'
<1> DEFINE old == jobs[r]
           p0 == Last(old.done)[1]
<1>1. PICK job \in SweepJob \cup RestoreJob, from \in Nat :
        /\ from = IF old.op = "sweep" THEN recovery[old.run].stored[p0] ELSE disk[p0]
        /\ job.op = old.op /\ job.phase = "rollback" /\ job.run = old.run
        /\ job.done = Front(old.done) /\ job.clean = (old.clean /\ from # 0)
        /\ old \in SweepJob => job \in SweepJob
        /\ old \in RestoreJob => job \in RestoreJob
        /\ jobs' = [jobs EXCEPT ![r] = job]
  BY RollbackJob, Zenon
<1>2. /\ old.op \in {"sweep", "restore"} /\ old.phase = "rollback" /\ old.done # <<>>
      /\ UNCHANGED <<folders, imported, rows, locked, stamps>>
  BY DEF RollbackMove
<1>3. IF from = 0 THEN UNCHANGED <<disk, recovery>>
      ELSE IF old.op = "sweep"
      THEN /\ disk' = [disk EXCEPT ![p0] = from]
           /\ recovery' = [recovery EXCEPT ![old.run].stored[p0] = 0]
      ELSE /\ disk' = [disk EXCEPT ![p0] = 0]
           /\ recovery' = [recovery EXCEPT ![old.run].stored[p0] = from]
  BY <1>1, Zenon DEF RollbackMove
<1>4. /\ old.op = "sweep" => old \in SweepJob
      /\ old.op = "restore" => old \in RestoreJob
  BY <1>2, JobTyped DEF StorageInv, Restoring
<1>8. StorageTypeOK /\ old.run \in Runs /\ p0 \in Paths
  <2>1. StorageTypeOK /\ old.done \in Seq(Item) /\ old.run \in Runs
    BY <1>2, <1>4 DEF StorageInv, SweepJob, RestoreJob
  <2> QED BY <1>2, <2>1, FrontPaths DEF Item
<1>5. CASE from = 0
  <2>1. job.clean = FALSE
    BY <1>1, <1>5
  <2>2. UNCHANGED <<disk, recovery>>
    BY <1>3, <1>5
  <2>3. old \in SweepJob \cup RestoreJob
    BY <1>2, <1>4
  <2> QED BY <1>1, <1>2, <2>1, <2>2, <2>3, RollbackMisses
<1>6. CASE from # 0 /\ old.op = "sweep"
  <2>1. job \in SweepJob /\ old.clean \in BOOLEAN
    BY <1>1, <1>4, <1>6 DEF SweepJob
  <2>2. job.clean = old.clean
    BY <1>1, <1>6, <2>1
  <2>3. /\ disk' = [disk EXCEPT ![p0] = from]
        /\ recovery' = [recovery EXCEPT ![old.run].stored[p0] = 0]
        /\ from = recovery[old.run].stored[p0]
    BY <1>1, <1>3, <1>6
  <2>5. StoredBecomes(old.run, p0, 0)
    <3>1. PICK none \in Nat : none = 0
      OBVIOUS
    <3>2. StoredBecomes(old.run, p0, none)
      BY <1>8, <2>3, <3>1, StoredChanges
    <3> QED BY <3>1, <3>2
  <2>4. from \in Nat \ {0}
    BY <1>6
  <2> QED BY <1>1, <1>2, <1>6, <2>1, <2>2, <2>3, <2>4, <2>5, SweepRollsBack
<1>7. CASE from # 0 /\ old.op = "restore"
  <2>1. job \in RestoreJob
    BY <1>1, <1>4, <1>7
  <2>2. /\ disk' = [disk EXCEPT ![p0] = 0]
        /\ recovery' = [recovery EXCEPT ![old.run].stored[p0] = from]
        /\ from = disk[p0]
    BY <1>1, <1>3, <1>7
  <2>4. StoredBecomes(old.run, p0, from)
    BY <1>8, <2>2, StoredChanges
  <2>3. from \in Nat \ {0}
    BY <1>7
  <2> QED BY <1>1, <1>2, <1>7, <2>1, <2>2, <2>3, <2>4, RestoreRollsBack
<1> QED BY <1>2, <1>5, <1>6, <1>7

\* A clean rollback has emptied the run.
LEMMA EndRollbackKeeps ==
  ASSUME StorageInv, NEW r \in Requests, EndRollback(r)
  PROVE  StorageInv'
<1> DEFINE old == jobs[r]
           q == old.run
<1>1. /\ old.op \in {"sweep", "restore"} /\ old.phase = "rollback" /\ old.done = <<>>
      /\ jobs' = [jobs EXCEPT ![r] = Waiting] /\ locked' = locked \ {r}
      /\ UNCHANGED <<disk, folders, imported, rows, stamps>>
  BY DEF EndRollback
<1>2. StorageTypeOK /\ jobs'[r] = Waiting
  BY <1>1, JobReplaced DEF StorageInv
<1>3. JobOK(r)' /\ \A s \in Requests \ {r} : Apart(r, s)' /\ Apart(s, r)'
  BY <1>2, WaitingIsOK
<1>4. \A s \in Requests \ {r} : locked = {s} => locked' = {s}
  BY <1>1
<1>5. CASE UNCHANGED recovery
  <2>1. StorageTypeOK'
    BY <1>1, <1>2, <1>5 DEF StorageTypeOK, Job
  <2>2. \A p \in Paths : Held(p) => Held(p)'
    BY <1>1, <1>5 DEF Held
  <2> QED BY <1>1, <1>3, <1>4, <1>5, <2>1, <2>2, QuietSteps, RunUnchanged
<1>6. CASE /\ old.op = "sweep" /\ old.clean
           /\ recovery' = [recovery EXCEPT ![q] = DroppedRun]
  <2>1. /\ old \in SweepJob /\ SweepOK(r) /\ q \in Runs
        /\ \A s \in Requests \ {r} : jobs[s].op # "sweep" /\ locked # {s}
    BY <1>6, CleanupKnows DEF SweepJob
  <2>2. \A p \in Paths : recovery[q].stored[p] = 0
    <3>1. PathsIn(old.done) = {}
      BY <1>1 DEF PathsIn
    <3> QED BY <1>6, <2>1, <3>1 DEF SweepOK
  <2>3. /\ DroppedRun \in RunRecord /\ DroppedRun.status = "dropped"
        /\ \A p \in Paths : DroppedRun.stored[p] = 0
    <3>1. <<>> \in Seq(Item) /\ [p \in Paths |-> 0] \in [Paths -> Nat]
      OBVIOUS
    <3>2. DroppedRun = [status |-> "dropped", items |-> <<>>, stored |-> [p \in Paths |-> 0]]
      BY DEF DroppedRun, NoRun
    <3> QED BY <3>1, <3>2 DEF RunRecord
  <2>4. /\ recovery' \in [Runs -> RunRecord] /\ recovery'[q].status = "dropped"
        /\ \A p \in Paths : recovery'[q].stored[p] = 0
        /\ \A k \in Runs \ {q} : recovery'[k] = recovery[k]
    BY <1>2, <1>6, <2>1, <2>3 DEF StorageTypeOK
  <2>5. StorageTypeOK'
    BY <1>1, <1>2, <2>4 DEF StorageTypeOK, Job
  <2>6. \A p \in Paths : Held(p) => Held(p)'
    BY <1>1, <2>1, <2>2, <2>4 DEF Held
  <2>7. RunsOK'
    BY <2>4 DEF StorageInv, RunsOK
  <2>8. ASSUME NEW s \in Requests \ {r} PROVE RunKept(s)
    <3>1. jobs[s].op # "sweep" /\ RestoreOK(s)
      BY <2>1 DEF StorageInv, JobOK
    <3>2. Restoring(jobs[s]) => jobs[s].run \in Runs /\ PathsIn(jobs[s].done) \subseteq Paths
      BY <1>2, JobTyped, PathsTyped DEF RestoreJob
    <3> QED BY <2>4, <3>1, <3>2 DEF RestoreOK, RunKept
  <2> QED BY <1>1, <1>3, <1>4, <2>5, <2>6, <2>7, <2>8, QuietSteps
<1> QED BY <1>5, <1>6 DEF EndRollback

-----------------------------------------------------------------------------
(* Restore                                                                    *)

\* A run every file of which is in the recovery area has nothing left to move.
LEMMA RestorableIsMoved ==
  ASSUME StorageInv, NEW s \in Requests, jobs[s].op = "sweep", jobs[s].phase = "move",
         Restorable(jobs[s].run)
  PROVE  jobs[s].rest = <<>>
<1> DEFINE job == jobs[s]
           items == recovery[job.run].items
<1>1. job \in SweepJob /\ SweepOK(s)
  BY CleanupKnows
<1>2. /\ PathsIn(job.rest) \subseteq PathsIn(items) /\ job.clean
      /\ PathsIn(job.rest) \cap PathsIn(job.done) = {}
      /\ \A p \in Paths : recovery[job.run].stored[p] # 0 => p \in PathsIn(job.done)
  BY <1>1 DEF SweepOK
<1>3. \A p \in PathsIn(items) : recovery[job.run].stored[p] # 0
  BY DEF Restorable, PathsIn
<1>4. job.rest \in Seq(Item)
  BY <1>1 DEF SweepJob
<1>5. PathsIn(job.rest) \subseteq Paths
  BY <1>4, PathsTyped
<1>6. PathsIn(job.rest) = {}
  BY <1>2, <1>3, <1>5
<1>7. ASSUME job.rest # <<>> PROVE FALSE
  <2>1. Head(job.rest)[1] \in PathsIn(job.rest)
    BY <1>4, <1>7, TailPaths
  <2> QED BY <1>6, <2>1
<1> QED BY <1>7

LEMMA CheckKeeps ==
  ASSUME StorageInv, NEW r \in Requests, NEW q \in Runs, jobs[r].op # "sweep", Check(r, q)
  PROVE  StorageInv'
<1> DEFINE job == [op |-> "restore", run |-> q, phase |-> "move",
                   rest |-> recovery[q].items, done |-> <<>>, clean |-> TRUE]
<1>1. /\ jobs' = [jobs EXCEPT ![r] = IF Restorable(q) THEN job ELSE Waiting]
      /\ UNCHANGED <<disk, folders, imported, rows, recovery, locked, stamps>>
  BY Zenon DEF Check
<1>2. StorageTypeOK
  BY DEF StorageInv
<1>3. CASE ~Restorable(q)
  <2>1. jobs' = [jobs EXCEPT ![r] = Waiting]
    BY <1>1, <1>3
  <2>2. jobs'[r] = Waiting
    BY <1>2, <2>1, JobReplaced
  <2>3. JobOK(r)' /\ \A s \in Requests \ {r} : Apart(r, s)' /\ Apart(s, r)'
    BY <2>2, WaitingIsOK
  <2> QED BY <1>1, <2>1, <2>3, JobSteps DEF Job
<1>4. CASE Restorable(q)
  <2>1. recovery[q].items \in Seq(Item) /\ <<>> \in Seq(Item)
    BY <1>2 DEF StorageTypeOK, RunRecord
  <2>2. /\ job \in RestoreJob /\ job.op = "restore" /\ job.phase = "move" /\ job.run = q
        /\ job.done = <<>>
    BY <2>1 DEF RestoreJob
  <2>3. PathsIn(job.done) = {} /\ Distinct(job.done)
    BY <2>2 DEF PathsIn, Distinct
  <2>4. jobs' = [jobs EXCEPT ![r] = job]
    BY <1>1, <1>4
  <2> HIDE DEF job
  <2>5. jobs'[r] = job /\ \A s \in Requests \ {r} : jobs'[s] = jobs[s]
    BY <1>2, <2>4, JobReplaced
  <2>6. recovery[q].status \in {"prepared", "quarantined"}
    BY <1>4 DEF Restorable
  <2>7. JobOK(r)'
    BY <1>1, <2>2, <2>3, <2>5, <2>6
       DEF JobOK, SweepOK, RestoreOK, ImportOK, UploadOK, Restoring
  <2>8. ASSUME NEW s \in Requests \ {r} PROVE Apart(r, s)' /\ Apart(s, r)'
    <3>1. jobs[s].op = "sweep" /\ jobs[s].phase = "move" /\ jobs[s].run = q
            => jobs[s].rest = <<>>
      BY <1>4, RestorableIsMoved
    <3> QED BY <2>2, <2>3, <2>5, <3>1 DEF Apart, Restoring
  <2> QED BY <1>1, <2>2, <2>4, <2>7, <2>8, JobSteps DEF Job
<1> QED BY <1>3, <1>4

LEMMA RestoreBeginKeeps ==
  ASSUME StorageInv, NEW r \in Requests,
         (\E q \in Runs : RestoreCleanupRun(r, q)) \/ RestoreOwnRun(r)
  PROVE  StorageInv'
<1>1. ASSUME NEW q \in Runs, RestoreCleanupRun(r, q) PROVE StorageInv'
  BY <1>1, CheckKeeps DEF RestoreCleanupRun, Waiting
<1>2. ASSUME RestoreOwnRun(r) PROVE StorageInv'
  <2>1. jobs[r].op = "restore" /\ jobs[r].phase = "check" /\ Check(r, jobs[r].run)
    BY <1>2 DEF RestoreOwnRun
  <2>2. jobs[r].run \in Runs
    BY <2>1, JobTyped DEF StorageInv, OwnRestore
  <2> QED BY <2>1, <2>2, CheckKeeps
<1> QED BY <1>1, <1>2

LEMMA RestoreMoves ==
  ASSUME StorageInv, NEW r \in Requests, Moving(r, "restore"), jobs[r].rest # <<>>,
         NEW p0, p0 = Head(jobs[r].rest)[1], NEW q, q = jobs[r].run,
         NEW from \in Nat \ {0}, from = recovery[q].stored[p0],
         disk' = [disk EXCEPT ![p0] = from],
         StoredBecomes(q, p0, 0),
         jobs' = Moved(r),
         folders \subseteq folders', folders' \subseteq Entries,
         UNCHANGED <<imported, rows, locked, stamps>>
  PROVE  StorageInv'
<1> DEFINE old == jobs[r]
           item == Head(old.rest)
           job == [old EXCEPT !.rest = Tail(old.rest), !.done = Append(old.done, item)]
<1>1. /\ StorageTypeOK /\ old \in RestoreJob /\ RestoreOK(r) /\ Restoring(old)
      /\ old.op = "restore" /\ old.phase = "move"
  BY JobTyped DEF StorageInv, JobOK, Restoring, Moving
<1>2. q \in Runs /\ old.done \in Seq(Item) /\ old.rest \in Seq(Item)
  BY <1>1 DEF RestoreJob
<1>3. Tail(old.rest) \in Seq(Item) /\ item \in Item
  BY <1>2, TailPaths
<1>4. /\ Append(old.done, item) \in Seq(Item)
      /\ PathsIn(Append(old.done, item)) = PathsIn(old.done) \cup {p0}
      /\ Distinct(old.done) /\ p0 \notin PathsIn(old.done)
           => Distinct(Append(old.done, item))
  BY <1>2, <1>3, AppendPaths
<1>5. p0 \in Paths /\ recovery \in [Runs -> RunRecord] /\ disk \in [Paths -> Nat]
  BY <1>1, <1>3 DEF Item, StorageTypeOK
<1>6. /\ job \in RestoreJob /\ job.op = "restore" /\ job.phase = "move" /\ job.run = q
      /\ job.done = Append(old.done, item)
  BY <1>1, <1>3, <1>4 DEF RestoreJob
<1>7. jobs' = [jobs EXCEPT ![r] = job]
  BY <1>1 DEF Moved, StorageTypeOK
<1> HIDE DEF job
<1>8. jobs'[r] = job /\ \A s \in Requests \ {r} : jobs'[s] = jobs[s]
  BY <1>1, <1>7, JobReplaced
<1>9. /\ recovery' \in [Runs -> RunRecord]
      /\ recovery'[q].status = recovery[q].status
      /\ recovery'[q].items = recovery[q].items
      /\ \A k \in Runs \ {q} : recovery'[k] = recovery[k]
      /\ recovery'[q].stored[p0] = 0
      /\ \A p \in Paths \ {p0} : recovery'[q].stored[p] = recovery[q].stored[p]
  BY DEF StoredBecomes
<1>10. /\ disk' \in [Paths -> Nat] /\ disk'[p0] = from
       /\ \A p \in Paths \ {p0} : disk'[p] = disk[p]
  BY ZenonT(40), <1>5
<1>11. StorageTypeOK'
  <2>1. jobs \in [Requests -> Job] /\ imported \subseteq Entries /\ stamps \in Nat
        /\ rows \in [Entries -> SUBSET Paths]
    BY <1>1 DEF StorageTypeOK
  <2>2. job \in Job
    BY <1>6 DEF Job
  <2>3. jobs' \in [Requests -> Job]
    BY <1>7, <2>1, <2>2
  <2> QED BY ZenonT(40), <1>9, <1>10, <2>1, <2>3 DEF StorageTypeOK
<1>12. ASSUME NEW p \in Paths, Held(p) PROVE Held(p)'
  <2>1. CASE p = p0
    BY ZenonT(40), <1>10, <2>1 DEF Held
  <2>2. CASE p # p0
    <3>1. disk'[p] = disk[p]
      BY ZenonT(40), <1>10, <2>2
    <3>2. ASSUME NEW k \in Runs PROVE recovery'[k].stored[p] = recovery[k].stored[p]
      <4>1. CASE k = q
        BY <1>9, <2>2, <4>1
      <4>2. CASE k # q
        BY <1>9, <4>2
      <4> QED BY <4>1, <4>2
    <3> QED BY <1>12, <3>1, <3>2 DEF Held
  <2> QED BY <2>1, <2>2
<1>13. recovery[q].status \notin {"none", "bare"} /\ RunsOK'
  <2>1. recovery[q].status \notin {"none", "bare"}
    BY <1>1 DEF RestoreOK
  <2> QED BY <1>9, <2>1 DEF StorageInv, RunsOK
<1>14. ASSUME NEW s \in Requests \ {r} PROVE RunKept(s)
  <2>1. RestoreOK(s) /\ SweepOK(s)
    BY DEF StorageInv, JobOK
  <2>2. /\ jobs[s].op = "sweep" => jobs[s].run \in Runs
        /\ Restoring(jobs[s]) => jobs[s].run \in Runs /\ PathsIn(jobs[s].done) \subseteq Paths
    BY <1>1, JobTyped, PathsTyped DEF RestoreJob, SweepJob
  <2>3. \A k \in Runs : /\ recovery'[k].status = recovery[k].status
                        /\ recovery'[k].items = recovery[k].items
                        /\ \A p \in Paths : recovery'[k].stored[p] # 0 =>
                                              recovery[k].stored[p] # 0
    BY <1>9
  <2> QED BY <2>1, <2>2, <2>3 DEF SweepOK, RestoreOK, RunKept
<1>15. \A p \in PathsIn(old.done) : recovery[q].stored[p] = 0
  BY <1>1 DEF RestoreOK
<1>16. JobOK(r)'
  <2>1. RestoreOK(r)'
    <3>1. Distinct(job.done)
      BY <1>1, <1>4, <1>6, <1>15 DEF RestoreOK
    <3>2. PathsIn(old.done) \subseteq Paths
      BY <1>2, PathsTyped
    <3>3. \A p \in PathsIn(job.done) : recovery'[q].stored[p] = 0
      BY ZenonT(40), <1>4, <1>6, <1>9, <1>15, <3>2
    <3> QED BY <1>6, <1>8, <1>9, <1>13, <3>1, <3>3 DEF RestoreOK
  <2> QED BY <1>6, <1>8, <2>1 DEF JobOK, SweepOK, ImportOK, UploadOK
<1>17. ASSUME NEW s \in Requests \ {r} PROVE Apart(r, s)' /\ Apart(s, r)'
  <2>1. /\ Apart(r, s) /\ Apart(s, r) /\ RestoreOK(s) /\ SweepOK(s)
        /\ jobs'[s] = jobs[s]
    BY <1>8 DEF StorageInv, JobOK
  <2>2. Restoring(jobs[s]) /\ jobs[s].run = q => p0 \notin PathsIn(jobs[s].done)
    BY <2>1 DEF RestoreOK
  <2>3. jobs[s].op = "sweep" /\ jobs[s].run = q /\ jobs[s].clean
          => p0 \in PathsIn(jobs[s].done)
    BY <1>5, <2>1 DEF SweepOK
  <2>4. ASSUME Restoring(jobs[s]), jobs[s].run = q
        PROVE  PathsIn(jobs[s].done) \cap PathsIn(job.done) = {}
    BY <1>1, <1>4, <1>6, <2>1, <2>2, <2>4 DEF Apart
  <2>5. ASSUME jobs[s].op = "sweep", jobs[s].run = q
        PROVE  /\ jobs[s].phase = "move" => jobs[s].rest = <<>>
               /\ jobs[s].clean => PathsIn(job.done) \subseteq PathsIn(jobs[s].done)
    BY <1>1, <1>4, <1>6, <2>1, <2>3, <2>5 DEF Apart
  <2>6. Apart(r, s)'
    BY <1>6, <1>8, <2>1, <2>4 DEF Apart, Restoring
  <2>7. Apart(s, r)'
    BY <1>6, <1>8, <2>1, <2>4, <2>5 DEF Apart, Restoring
  <2> QED BY <2>6, <2>7
<1>18. \A s \in Requests \ {r} : locked = {s} => locked' = {s}
  OBVIOUS
<1> QED BY <1>7, <1>11, <1>12, <1>13, <1>14, <1>16, <1>17, <1>18, QuietSteps

LEMMA RestoreMoveKeeps ==
  ASSUME StorageInv, NEW r \in Requests, RestoreMove(r)
  PROVE  StorageInv'
<1> DEFINE q == jobs[r].run
           p0 == Head(jobs[r].rest)[1]
<1>1. Moving(r, "restore") /\ jobs[r].rest # <<>>
  BY DEF RestoreMove
<1>2. CASE RollBack(r)
  BY <1>1, <1>2, RollBackKeeps
<1>3. CASE /\ recovery[q].stored[p0] # 0
           /\ disk' = [disk EXCEPT ![p0] = recovery[q].stored[p0]]
           /\ recovery' = [recovery EXCEPT ![q].stored[p0] = 0]
           /\ jobs' = Moved(r)
           /\ folders' = folders \cup {e \in Entries : p0 \in RomsOf[e]}
           /\ UNCHANGED <<imported, rows, sealed, locked, stamps, restarts>>
  <2>1. /\ StorageTypeOK /\ jobs[r] \in RestoreJob
    BY <1>1, JobTyped DEF StorageInv, Restoring, Moving
  <2>2. q \in Runs /\ p0 \in Paths
    <3>1. jobs[r].rest \in Seq(Item) /\ q \in Runs
      BY <2>1 DEF RestoreJob
    <3> QED BY <1>1, <3>1, TailPaths DEF Item
  <2>3. recovery[q].stored[p0] \in Nat \ {0}
    BY <1>3, <2>1, <2>2 DEF StorageTypeOK, RunRecord
  <2>4. folders \subseteq folders' /\ folders' \subseteq Entries
    BY <1>3, <2>1 DEF StorageTypeOK
  <2>5. StoredBecomes(q, p0, 0)
    <3>1. PICK none \in Nat : none = 0
      OBVIOUS
    <3>2. StoredBecomes(q, p0, none)
      BY <1>3, <2>1, <2>2, <3>1, StoredChanges
    <3> QED BY <3>1, <3>2
  <2> QED BY ZenonT(40), <1>1, <1>3, <2>3, <2>4, <2>5, RestoreMoves
<1> QED BY ZenonT(40), <1>2, <1>3 DEF RestoreMove

LEMMA FinishRestoreKeeps ==
  ASSUME StorageInv, NEW r \in Requests, FinishRestore(r)
  PROVE  StorageInv'
<1> DEFINE q == jobs[r].run
<1>1. CASE Moving(r, "restore") /\ RollBack(r)
  BY <1>1, RollBackKeeps
<1>2. CASE jobs[r].op = "restore" /\ Finished(r, "restored", Waiting)
  <2>1. /\ jobs[r].phase = "move" /\ jobs' = [jobs EXCEPT ![r] = Waiting]
        /\ recovery' = [recovery EXCEPT ![q].status = "restored"]
        /\ UNCHANGED <<disk, folders, imported, rows, locked, stamps>>
    BY <1>2 DEF Finished, Moving
  <2>2. StorageTypeOK /\ RestoreOK(r) /\ Restoring(jobs[r]) /\ jobs[r] \in RestoreJob
    BY <1>2, <2>1, JobTyped DEF StorageInv, JobOK, Restoring
  <2>3. q \in Runs /\ recovery[q].status \notin {"none", "bare"}
    BY <2>2 DEF RestoreOK, RestoreJob
  <2>4. /\ recovery' \in [Runs -> RunRecord] /\ recovery'[q].status = "restored"
        /\ \A k \in Runs : /\ recovery'[k].stored = recovery[k].stored
                           /\ recovery'[k].items = recovery[k].items
                           /\ k # q => recovery'[k] = recovery[k]
    BY <2>1, <2>2, <2>3 DEF StorageTypeOK, RunRecord
  <2>5. jobs'[r] = Waiting
    BY <2>1, <2>2, JobReplaced
  <2>6. StorageTypeOK'
    BY <2>1, <2>2, <2>4 DEF StorageTypeOK, Job
  <2>7. \A p \in Paths : Held(p) => Held(p)'
    BY <2>1, <2>4 DEF Held
  <2>8. RunsOK'
    BY <2>4 DEF StorageInv, RunsOK
  <2>9. ASSUME NEW s \in Requests \ {r} PROVE RunKept(s)
    <3>1. RestoreOK(s) /\ SweepOK(s)
      BY DEF StorageInv, JobOK
    <3>2. /\ jobs[s].op = "sweep" => jobs[s].run \in Runs
          /\ Restoring(jobs[s]) => jobs[s].run \in Runs
      BY <2>2, JobTyped DEF RestoreJob, SweepJob
    <3> QED BY <2>3, <2>4, <3>1, <3>2 DEF SweepOK, RestoreOK, RunKept
  <2> QED BY <2>1, <2>5, <2>6, <2>7, <2>8, <2>9, WaitingIsOK, QuietSteps
<1> QED BY <1>1, <1>2 DEF FinishRestore

-----------------------------------------------------------------------------
(* Imports                                                                    *)

\* What is known of an import that takes a step.
LEMMA ImportKnows ==
  ASSUME StorageInv, NEW r \in Requests, jobs[r].op = "import"
  PROVE  /\ StorageTypeOK /\ jobs[r] \in ImportJob /\ ImportOK(r)
         /\ jobs[r].made \in SUBSET Entries
         /\ \A s \in Requests \ {r} : jobs[s].op = "import" =>
              jobs[s].made \cap jobs[r].made = {} /\ jobs[s].made \subseteq folders
<1>1. /\ StorageTypeOK /\ jobs[r] \in ImportJob /\ ImportOK(r)
  BY JobTyped DEF StorageInv, JobOK
<1>2. ASSUME NEW s \in Requests \ {r}, jobs[s].op = "import"
      PROVE  jobs[s].made \cap jobs[r].made = {} /\ jobs[s].made \subseteq folders
  BY <1>2 DEF StorageInv, JobOK, ImportOK, Apart
<1> QED BY <1>1, <1>2 DEF ImportJob

\* The job of an import, and no cleanup or restore, has changed.
LEMMA ImportApart ==
  ASSUME StorageInv, NEW r \in Requests, NEW job, job.op = "import",
         jobs' = [jobs EXCEPT ![r] = job], ImportOK(r)',
         \A s \in Requests \ {r} : jobs[s].op = "import" => jobs[s].made \cap job.made = {}
  PROVE  JobOK(r)' /\ \A s \in Requests \ {r} : Apart(r, s)' /\ Apart(s, r)'
<1>1. jobs'[r] = job /\ \A s \in Requests \ {r} : jobs'[s] = jobs[s]
  BY JobReplaced DEF StorageInv
<1>2. JobOK(r)'
  BY <1>1 DEF JobOK, SweepOK, RestoreOK, UploadOK, Restoring
<1>3. ASSUME NEW s \in Requests \ {r} PROVE Apart(r, s)' /\ Apart(s, r)'
  BY <1>1 DEF Apart, Restoring
<1> QED BY <1>2, <1>3

LEMMA CommitImportKeeps ==
  ASSUME StorageInv, NEW r \in Requests, NEW batch \in SUBSET Entries,
         CommitImport(r, batch)
  PROVE  StorageInv'
<1> DEFINE job == [op |-> "import", phase |-> "folder", rest |-> SetToSeq(batch),
                   made |-> {}, files |-> {}]
<1>1. /\ jobs' = [jobs EXCEPT ![r] = job]
      /\ UNCHANGED <<disk, folders, imported, rows, recovery, locked, stamps>>
  BY DEF CommitImport
<1>2. SetToSeq(batch) \in Seq(Entries)
  <2>1. IsFiniteSet(batch)
    BY FS_Subset, ManagedStorageAssumption
  <2>2. SetToSeq(batch) \in Seq(batch)
    BY <2>1, SetLaidOut
  <2> QED BY <2>2
<1>3. job \in ImportJob /\ job.op = "import" /\ job.phase = "folder" /\ job.made = {}
  BY <1>2 DEF ImportJob
<1> HIDE DEF job
<1>4. jobs'[r] = job
  BY <1>1, JobReplaced DEF StorageInv
<1>5. ImportOK(r)'
  BY <1>3, <1>4 DEF ImportOK
<1>6. JobOK(r)' /\ \A s \in Requests \ {r} : Apart(r, s)' /\ Apart(s, r)'
  BY <1>1, <1>3, <1>5, ImportApart
<1> QED BY <1>1, <1>3, <1>6, JobSteps DEF Job

\* An import gives up: nothing refers to the files of the folders it has made.
LEMMA RemoveFoldersKeeps ==
  ASSUME StorageInv, NEW r \in Requests, jobs[r].op = "import",
         NEW made, made = jobs[r].made, RemoveFolders(r, made)
  PROVE  StorageInv'
<1>1. /\ StorageTypeOK /\ ImportOK(r) /\ made \in SUBSET Entries
      /\ \A s \in Requests \ {r} : jobs[s].op = "import" => jobs[s].made \cap made = {}
  BY ImportKnows
<1>2. /\ disk' = [p \in Paths |-> IF p \in RomsIn(made) THEN 0 ELSE disk[p]]
      /\ folders' = folders \ made
      /\ jobs' = [jobs EXCEPT ![r] = Waiting]
      /\ UNCHANGED <<imported, rows, recovery, locked, stamps>>
  BY DEF RemoveFolders, RomsIn
<1>3. \A e \in made : rows[e] \cap RomsOf[e] = {}
  BY <1>1 DEF ImportOK
<1>4. disk' \in [Paths -> Nat] /\ \A p \in Paths \ RomsIn(made) : disk'[p] = disk[p]
  BY <1>1, <1>2 DEF StorageTypeOK
<1>5. StorageTypeOK'
  <2>1. jobs' \in [Requests -> Job]
    BY <1>1, <1>2 DEF StorageTypeOK, Job
  <2> QED BY <1>1, <1>2, <1>4, <2>1 DEF StorageTypeOK
<1>6. TablesKept(made)
  <2>1. ASSUME NEW p \in Paths, Held(p), p \notin RomsIn(made) PROVE Held(p)'
    BY <1>2, <1>4, <2>1 DEF Held
  <2> QED BY <1>2, <2>1 DEF TablesKept
<1>7. RowsOK' /\ ReferencedIsKept'
  <2>1. \A e \in Entries : rows'[e] \subseteq RomsOf[e] \cup Blobs
    BY <1>2 DEF StorageInv, RowsOK
  <2> QED BY <1>1, <1>2, <1>3, <1>6, <2>1, TablesKeep
<1>8. JobOK(r)' /\ \A s \in Requests \ {r} : Apart(r, s)' /\ Apart(s, r)'
  BY <1>1, <1>2, JobReplaced, WaitingIsOK
<1>9. RunsOK' /\ \A s \in Requests : RunKept(s)
  BY <1>2, RunUnchanged
<1>10. \A s \in Requests \ {r} : locked = {s} => locked' = {s} /\ UNCHANGED rows
  BY <1>2
<1> QED BY <1>1, <1>2, <1>3, <1>5, <1>6, <1>7, <1>8, <1>9, <1>10, RequestSteps

\* A folder is made only where none was: no other import, and no row, has it.
LEMMA IngestGameKeeps ==
  ASSUME StorageInv, NEW r \in Requests, IngestGame(r)
  PROVE  StorageInv'
<1> DEFINE old == jobs[r]
           e == Head(old.rest)
           job == [old EXCEPT !.phase = "copy", !.made = old.made \cup {e},
                              !.files = RomsOf[e] \cup BlobsOf[e]]
<1>1. old.op = "import" /\ old.phase = "folder" /\ old.rest # <<>>
  BY DEF IngestGame
<1>2. /\ StorageTypeOK /\ old \in ImportJob /\ ImportOK(r) /\ old.made \in SUBSET Entries
      /\ \A s \in Requests \ {r} : jobs[s].op = "import" =>
           jobs[s].made \cap old.made = {} /\ jobs[s].made \subseteq folders
  BY <1>1, ImportKnows
<1>3. CASE e \in folders
  <2>1. RemoveFolders(r, old.made)
    BY <1>3 DEF IngestGame
  <2> QED BY <1>1, <2>1, RemoveFoldersKeeps
<1>4. CASE e \notin folders
  <2>1. /\ folders' = folders \cup {e}
        /\ jobs' = [jobs EXCEPT ![r].phase = "copy", ![r].made = @ \cup {e},
                                ![r].files = RomsOf[e] \cup BlobsOf[e]]
        /\ UNCHANGED <<disk, imported, rows, recovery, locked, stamps>>
    BY <1>4 DEF IngestGame
  <2>2. e \in Entries
    BY <1>1, <1>2 DEF ImportJob
  <2>3. RomsOf[e] \cup BlobsOf[e] \subseteq Paths
    BY <2>2, PathsTyped
  <2>4. /\ job \in ImportJob /\ job.op = "import" /\ job.phase = "copy"
        /\ job.rest = old.rest /\ job.made = old.made \cup {e}
        /\ job.files = RomsOf[e] \cup BlobsOf[e]
    BY <1>1, <1>2, <2>2, <2>3 DEF ImportJob
  <2>5. jobs' = [jobs EXCEPT ![r] = job]
    BY <1>2, <2>1 DEF StorageTypeOK
  <2> HIDE DEF job
  <2>6. jobs'[r] = job
    BY <1>2, <2>5, JobReplaced
  <2>7. StorageTypeOK'
    <3>1. jobs' \in [Requests -> Job]
      BY <1>2, <2>4, <2>5 DEF StorageTypeOK, Job
    <3> QED BY <1>2, <2>1, <2>2, <3>1 DEF StorageTypeOK
  <2>8. \A p \in Paths : Held(p) => Held(p)'
    BY <2>1 DEF Held
  <2>9. rows[e] \cap RomsOf[e] = {}
    BY <1>4, <2>2 DEF StorageInv, RowsOK
  <2>10. ImportOK(r)'
    <3>1. ASSUME NEW f \in job.made, NEW p \in RomsOf[f] \cup BlobsOf[f]
          PROVE  Held(p)' \/ (f = e /\ p \in job.files)
      <4>1. CASE f = e
        BY <2>4, <4>1
      <4>2. CASE f # e
        <5>1. f \in old.made /\ f \in Entries
          BY <1>2, <2>4, <4>2
        <5>2. Held(p) /\ p \in Paths
          BY <1>1, <1>2, <5>1, PathsTyped DEF ImportOK
        <5> QED BY <2>8, <5>2
      <4> QED BY <4>1, <4>2
    <3>2. job.made \subseteq folders' /\ \A f \in job.made : rows'[f] \cap RomsOf[f] = {}
      BY <1>1, <1>2, <2>1, <2>4, <2>9 DEF ImportOK
    <3> QED BY <1>1, <2>4, <2>6, <3>1, <3>2 DEF ImportOK
  <2>11. \A s \in Requests \ {r} : jobs[s].op = "import" => jobs[s].made \cap job.made = {}
    BY <1>2, <1>4, <2>4
  <2>12. JobOK(r)' /\ \A s \in Requests \ {r} : Apart(r, s)' /\ Apart(s, r)'
    BY <2>4, <2>5, <2>10, <2>11, ImportApart
  <2>13. RunsOK' /\ \A s \in Requests : RunKept(s)
    BY <2>1, RunUnchanged
  <2> QED BY <2>1, <2>5, <2>7, <2>8, <2>12, <2>13, QuietSteps
<1> QED BY <1>3, <1>4

\* What is written is on disk, and nothing else is touched.
LEMMA WrittenHolds ==
  ASSUME StorageTypeOK, NEW p \in Paths, Written(p), UNCHANGED recovery
  PROVE  /\ disk' \in [Paths -> Nat] /\ stamps' \in Nat
         /\ Held(p)' /\ \A x \in Paths : Held(x) => Held(x)'
<1>1. /\ disk' = [disk EXCEPT ![p] = IF p \in Blobs /\ disk[p] # 0 THEN disk[p]
                                     ELSE stamps + 1]
      /\ stamps' = stamps + 1 /\ stamps \in Nat /\ disk \in [Paths -> Nat]
  BY DEF Written, StorageTypeOK
<1>2. stamps' \in Nat /\ stamps + 1 # 0
  BY <1>1
<1>3. disk' \in [Paths -> Nat] /\ disk'[p] # 0 /\ \A x \in Paths \ {p} : disk'[x] = disk[x]
  BY <1>1, <1>2
<1> QED BY <1>2, <1>3 DEF Held

LEMMA CopyFileKeeps ==
  ASSUME StorageInv, NEW r \in Requests, NEW p \in Paths, CopyFile(r, p)
  PROVE  StorageInv'
<1> DEFINE old == jobs[r]
           job == [old EXCEPT !.files = old.files \ {p}]
<1>1. /\ old.op = "import" /\ old.phase = "copy" /\ Written(p)
      /\ folders' = IF p \in Roms THEN folders \cup {Head(old.rest)} ELSE folders
      /\ jobs' = [jobs EXCEPT ![r].files = @ \ {p}]
      /\ UNCHANGED <<imported, rows, recovery, locked>>
  BY DEF CopyFile
<1>2. /\ StorageTypeOK /\ old \in ImportJob /\ ImportOK(r) /\ old.made \in SUBSET Entries
      /\ \A s \in Requests \ {r} : jobs[s].op = "import" => jobs[s].made \cap old.made = {}
  BY <1>1, ImportKnows
<1>3. /\ job \in ImportJob /\ job.op = "import" /\ job.phase = "copy"
      /\ job.rest = old.rest /\ job.made = old.made /\ job.files = old.files \ {p}
  BY <1>1, <1>2 DEF ImportJob
<1>4. jobs' = [jobs EXCEPT ![r] = job]
  BY <1>1, <1>2 DEF StorageTypeOK
<1> HIDE DEF job
<1>5. jobs'[r] = job
  BY <1>2, <1>4, JobReplaced
<1>6. /\ disk' \in [Paths -> Nat] /\ stamps' \in Nat
      /\ Held(p)' /\ \A x \in Paths : Held(x) => Held(x)'
  BY <1>1, <1>2, WrittenHolds
<1>7. old.rest # <<>> /\ Head(old.rest) \in old.made
  BY <1>1, <1>2 DEF ImportOK
<1>8. folders \subseteq folders' /\ folders' \subseteq Entries
  BY <1>1, <1>2, <1>7 DEF StorageTypeOK
<1>9. StorageTypeOK'
  <2>1. jobs' \in [Requests -> Job]
    BY <1>2, <1>3, <1>4 DEF StorageTypeOK, Job
  <2> QED BY <1>1, <1>2, <1>6, <1>8, <2>1 DEF StorageTypeOK
<1>10. ImportOK(r)'
  <2>1. ASSUME NEW f \in job.made, NEW x \in RomsOf[f] \cup BlobsOf[f]
        PROVE  Held(x)' \/ (f = Head(job.rest) /\ x \in job.files)
    <3>1. Held(x) \/ (f = Head(old.rest) /\ x \in old.files)
      BY <1>1, <1>2, <1>3 DEF ImportOK
    <3>2. x \in Paths
      BY <1>2, <1>3, PathsTyped
    <3>3. CASE x = p
      BY <1>6, <3>3
    <3>4. CASE x # p
      BY <1>3, <1>6, <3>1, <3>2, <3>4
    <3> QED BY <3>3, <3>4
  <2>2. job.made \subseteq folders' /\ \A f \in job.made : rows'[f] \cap RomsOf[f] = {}
    BY <1>1, <1>2, <1>3, <1>8 DEF ImportOK
  <2> QED BY <1>3, <1>5, <1>7, <2>1, <2>2 DEF ImportOK
<1>11. JobOK(r)' /\ \A s \in Requests \ {r} : Apart(r, s)' /\ Apart(s, r)'
  BY <1>2, <1>3, <1>4, <1>10, ImportApart
<1>12. RunsOK' /\ \A s \in Requests : RunKept(s)
  BY <1>1, RunUnchanged
<1> QED BY <1>1, <1>4, <1>6, <1>8, <1>9, <1>11, <1>12, QuietSteps

LEMMA NextEntryKeeps ==
  ASSUME StorageInv, NEW r \in Requests, NextEntry(r)
  PROVE  StorageInv'
<1> DEFINE old == jobs[r]
           phase == IF Len(old.rest) = 1 THEN "rows" ELSE "folder"
           job == [old EXCEPT !.rest = Tail(old.rest), !.phase = phase]
<1>1. /\ old.op = "import" /\ old.phase = "copy" /\ old.files = {}
      /\ jobs' = [jobs EXCEPT ![r].rest = Tail(@), ![r].phase = phase]
      /\ UNCHANGED <<disk, folders, imported, rows, recovery, locked, stamps>>
  BY DEF NextEntry
<1>2. /\ StorageTypeOK /\ old \in ImportJob /\ ImportOK(r)
      /\ \A s \in Requests \ {r} : jobs[s].op = "import" => jobs[s].made \cap old.made = {}
  BY <1>1, ImportKnows
<1>3. old.rest # <<>> /\ old.rest \in Seq(Entries)
  BY <1>1, <1>2 DEF ImportOK, ImportJob
<1>4. Tail(old.rest) \in Seq(Entries) /\ phase \in {"rows", "folder"}
  BY <1>3
<1>5. jobs' = [jobs EXCEPT ![r] = job]
  BY <1>1, <1>2 DEF StorageTypeOK
<1> HIDE DEF phase
<1>6. /\ job \in ImportJob /\ job.op = "import" /\ job.phase # "copy"
      /\ job.made = old.made
  BY <1>1, <1>2, <1>4 DEF ImportJob
<1> HIDE DEF job
<1>7. jobs'[r] = job
  BY <1>2, <1>5, JobReplaced
<1>8. ImportOK(r)'
  <2>1. \A e \in old.made : \A p \in RomsOf[e] \cup BlobsOf[e] : Held(p)
    BY <1>1, <1>2 DEF ImportOK
  <2>2. \A e \in job.made : \A p \in RomsOf[e] \cup BlobsOf[e] : Held(p)'
    BY <1>1, <1>6, <2>1 DEF Held
  <2> QED BY <1>1, <1>2, <1>6, <1>7, <2>2 DEF ImportOK
<1>9. JobOK(r)' /\ \A s \in Requests \ {r} : Apart(r, s)' /\ Apart(s, r)'
  BY <1>2, <1>5, <1>6, <1>8, ImportApart
<1> QED BY <1>1, <1>5, <1>6, <1>9, JobSteps DEF Job

\* The rows come in once every file of the batch is held.
LEMMA ImportGamesKeeps ==
  ASSUME StorageInv, NEW r \in Requests, ImportGamesAtomic(r)
  PROVE  StorageInv'
<1> DEFINE batch == jobs[r].made
<1>1. jobs[r].op = "import" /\ jobs[r].phase = "rows" /\ locked = {}
  BY DEF ImportGamesAtomic
<1>2. CASE RemoveFolders(r, batch)
  BY <1>1, <1>2, RemoveFoldersKeeps
<1>3. CASE /\ imported' = imported \cup batch
           /\ rows' = [e \in Entries |-> IF e \in batch THEN RomsOf[e] \cup BlobsOf[e]
                                         ELSE rows[e]]
           /\ jobs' = [jobs EXCEPT ![r] = Waiting]
           /\ UNCHANGED <<disk, folders, recovery, sealed, locked, stamps, restarts>>
  <2>1. /\ StorageTypeOK /\ ImportOK(r) /\ batch \in SUBSET Entries
        /\ \A s \in Requests \ {r} : jobs[s].op = "import" => jobs[s].made \cap batch = {}
    BY <1>1, ImportKnows
  <2>2. /\ \A e \in batch : rows'[e] = RomsOf[e] \cup BlobsOf[e]
        /\ \A e \in Entries \ batch : rows'[e] = rows[e]
    BY <1>3, <2>1
  <2>3. \A e \in Entries : rows'[e] \subseteq RomsOf[e] \cup Blobs
    BY <2>2, PathsTyped DEF StorageInv, RowsOK
  <2>4. StorageTypeOK'
    <3>1. rows' \in [Entries -> SUBSET Paths]
      BY <1>3, <2>1, PathsTyped DEF StorageTypeOK
    <3>2. jobs' \in [Requests -> Job]
      BY <1>3, <2>1 DEF StorageTypeOK, Job
    <3> QED BY <1>3, <2>1, <3>1, <3>2 DEF StorageTypeOK
  <2>5. \A p \in Paths : Held(p) => Held(p)'
    BY <1>3 DEF Held
  <2>6. TablesKept(batch)
    BY <1>3, <2>2, <2>5 DEF TablesKept
  <2>7. /\ \A e \in batch : rows[e] \cap RomsOf[e] = {}
        /\ \A e \in batch : e \in folders'
    BY <1>1, <1>3, <2>1 DEF ImportOK
  <2>8. \A e \in batch : \A p \in RomsOf[e] \cup BlobsOf[e] : p \in Paths /\ Held(p)
    BY <1>1, <2>1, PathsTyped DEF ImportOK
  <2>9. \A e \in Entries : \A p \in rows'[e] \ rows[e] : Held(p)'
    BY <2>2, <2>5, <2>8
  <2>10. RowsOK' /\ ReferencedIsKept'
    BY <2>1, <2>3, <2>6, <2>7, <2>9, TablesKeep
  <2>11. JobOK(r)' /\ \A s \in Requests \ {r} : Apart(r, s)' /\ Apart(s, r)'
    BY <1>3, <2>1, JobReplaced, WaitingIsOK
  <2>12. RunsOK' /\ \A s \in Requests : RunKept(s)
    BY <1>3, RunUnchanged
  <2>13. \A s \in Requests \ {r} : locked = {s} => locked' = {s} /\ UNCHANGED rows
    BY <1>1
  <2> QED BY <1>3, <2>1, <2>4, <2>6, <2>7, <2>10, <2>11, <2>12, <2>13, RequestSteps
<1> QED BY <1>2, <1>3 DEF ImportGamesAtomic

-----------------------------------------------------------------------------
(* Uploads, deletions, previews and crashes                                   *)

LEMMA UploadMediaKeeps ==
  ASSUME StorageInv, NEW r \in Requests, NEW e \in Entries, NEW p \in Blobs,
         UploadMedia(r, e, p)
  PROVE  StorageInv'
<1> DEFINE job == [op |-> "upload", entry |-> e, path |-> p]
<1>1. /\ Written(p) /\ jobs' = [jobs EXCEPT ![r] = job]
      /\ UNCHANGED <<folders, imported, rows, recovery, locked>>
  BY DEF UploadMedia
<1>2. StorageTypeOK /\ p \in Paths
  BY PathsTyped DEF StorageInv
<1>3. /\ disk' \in [Paths -> Nat] /\ stamps' \in Nat
      /\ Held(p)' /\ \A x \in Paths : Held(x) => Held(x)'
  BY <1>1, <1>2, WrittenHolds
<1>4. job \in UploadJob /\ job.op = "upload" /\ job.path = p
  BY DEF UploadJob
<1> HIDE DEF job
<1>5. jobs'[r] = job
  BY <1>1, <1>2, JobReplaced
<1>6. StorageTypeOK'
  <2>1. jobs' \in [Requests -> Job]
    BY <1>1, <1>2, <1>4 DEF StorageTypeOK, Job
  <2> QED BY <1>1, <1>2, <1>3, <2>1 DEF StorageTypeOK
<1>7. JobOK(r)'
  <2>1. UploadOK(r)'
    BY <1>3, <1>4, <1>5 DEF UploadOK, Held
  <2> QED BY <1>4, <1>5, <2>1 DEF JobOK, SweepOK, RestoreOK, ImportOK, Restoring
<1>8. ASSUME NEW s \in Requests \ {r} PROVE Apart(r, s)' /\ Apart(s, r)'
  BY <1>4, <1>5 DEF Apart, Restoring
<1>9. RunsOK' /\ \A s \in Requests : RunKept(s)
  BY <1>1, RunUnchanged
<1> QED BY <1>1, <1>3, <1>6, <1>7, <1>8, <1>9, QuietSteps

\* The row comes in while its file is held.
LEMMA AddMediaKeeps ==
  ASSUME StorageInv, NEW r \in Requests, AddMedia(r)
  PROVE  StorageInv'
<1> DEFINE e0 == jobs[r].entry
           p0 == jobs[r].path
<1>1. /\ jobs[r].op = "upload" /\ locked = {}
      /\ rows' = IF e0 \in imported THEN [rows EXCEPT ![e0] = rows[e0] \cup {p0}] ELSE rows
      /\ jobs' = [jobs EXCEPT ![r] = Waiting]
      /\ UNCHANGED <<disk, folders, imported, recovery, locked, stamps>>
  BY DEF AddMedia
<1>2. StorageTypeOK /\ jobs[r] \in UploadJob /\ UploadOK(r)
  BY <1>1, JobTyped DEF StorageInv, JobOK
<1>3. e0 \in Entries /\ p0 \in Blobs /\ p0 \in Paths /\ Held(p0) /\ p0 \notin Roms
  BY <1>1, <1>2, PathsTyped, ManagedStorageAssumption DEF UploadOK, UploadJob
<1> HIDE DEF e0, p0
<1>4. /\ rows' \in [Entries -> SUBSET Paths]
      /\ \A e \in Entries : rows'[e] \subseteq rows[e] \cup {p0}
  BY <1>1, <1>2, <1>3 DEF StorageTypeOK
<1>5. StorageTypeOK'
  <2>1. jobs' \in [Requests -> Job]
    BY <1>1, <1>2 DEF StorageTypeOK, Job
  <2> QED BY <1>1, <1>2, <1>4, <2>1 DEF StorageTypeOK
<1>6. \A p \in Paths : Held(p) => Held(p)'
  BY <1>1 DEF Held
<1>7. TablesKept({})
  <2>1. \A e \in Entries : RomsOf[e] \subseteq Roms
    BY PathsTyped
  <2>2. \A e \in Entries : rows'[e] \cap RomsOf[e] \subseteq rows[e]
    BY <1>3, <1>4, <2>1
  <2> QED BY <1>1, <1>6, <2>2 DEF TablesKept
<1>8. \A e \in Entries : rows'[e] \subseteq RomsOf[e] \cup Blobs
  BY <1>3, <1>4 DEF StorageInv, RowsOK
<1>9. \A e \in Entries : \A p \in rows'[e] \ rows[e] : Held(p)'
  BY <1>3, <1>4, <1>6
<1>10. RowsOK' /\ ReferencedIsKept'
  BY <1>7, <1>8, <1>9, TablesKeep
<1>11. JobOK(r)' /\ \A s \in Requests \ {r} : Apart(r, s)' /\ Apart(s, r)'
  BY <1>1, <1>2, JobReplaced, WaitingIsOK
<1>12. RunsOK' /\ \A s \in Requests : RunKept(s)
  BY <1>1, RunUnchanged
<1>13. \A s \in Requests \ {r} : locked = {s} => locked' = {s} /\ UNCHANGED rows
  BY <1>1
<1> QED BY <1>1, <1>5, <1>7, <1>10, <1>11, <1>12, <1>13, RequestSteps

\* Rows go when no cleanup is looking, and take no file with them.
LEMMA DeleteRowsKeeps ==
  ASSUME StorageInv, NEW e \in Entries, NEW gone, NEW edition, DeleteRows(e, gone, edition)
  PROVE  StorageInv'
<1>1. /\ locked = {} /\ rows' = [rows EXCEPT ![e] = rows[e] \ gone]
      /\ imported' = imported \ edition
      /\ UNCHANGED <<disk, folders, recovery, jobs, locked, stamps>>
  BY DEF DeleteRows
<1>2. StorageTypeOK
  BY DEF StorageInv
<1>3. /\ rows' \in [Entries -> SUBSET Paths]
      /\ \A f \in Entries : rows'[f] \subseteq rows[f]
  BY <1>1, <1>2 DEF StorageTypeOK
<1>4. StorageTypeOK'
  BY <1>1, <1>2, <1>3 DEF StorageTypeOK
<1>5. TablesKept({})
  BY <1>1, <1>3 DEF TablesKept, Held
<1>6. RowsOK' /\ ReferencedIsKept'
  <2>1. \A f \in Entries : rows'[f] \subseteq RomsOf[f] \cup Blobs
    BY <1>3 DEF StorageInv, RowsOK
  <2> QED BY <1>3, <1>5, <2>1, TablesKeep
<1>7. RunsOK' /\ \A s \in Requests : RunKept(s)
  BY <1>1, RunUnchanged
<1>8. ASSUME NEW s \in Requests PROVE JobOK(s)'
  <2>1. jobs'[s] = jobs[s] /\ locked # {s}
    BY <1>1
  <2> QED BY <1>5, <1>7, <2>1, OthersKeep
<1>9. ASSUME NEW r \in Requests, NEW s \in Requests, r # s PROVE Apart(r, s)'
  BY <1>1, <1>9 DEF StorageInv, Apart
<1> QED BY <1>4, <1>6, <1>7, <1>8, <1>9 DEF StorageInv

\* Previews, and steps that change nothing.
LEMMA LookingKeeps ==
  ASSUME StorageInv,
         UNCHANGED <<disk, folders, imported, rows, recovery, jobs, locked, stamps>>
  PROVE  StorageInv'
<1>1. StorageTypeOK' /\ RowsOK' /\ RunsOK' /\ ReferencedIsKept'
  BY DEF StorageInv, StorageTypeOK, RowsOK, RunsOK, ReferencedIsKept,
         ManagedStorageReferences, Held
<1>2. ASSUME NEW r \in Requests PROVE JobOK(r)'
  <2>1. JobOK(r) /\ StorageTypeOK
    BY DEF StorageInv
  <2> QED BY <2>1 DEF JobOK, SweepOK, RestoreOK, ImportOK, UploadOK,
                      ManagedStorageReferences, Held
<1>3. \A r, s \in Requests : r # s => Apart(r, s)'
  BY DEF StorageInv, Apart
<1> QED BY <1>1, <1>2, <1>3 DEF StorageInv

\* A crash takes the requests away, and leaves the files and the rows.
LEMMA CrashKeeps ==
  ASSUME StorageInv, CrashStorage
  PROVE  StorageInv'
<1>1. /\ \A r \in Requests : jobs'[r] = Waiting
      /\ UNCHANGED <<disk, folders, imported, rows, recovery, stamps>>
      /\ jobs' \in [Requests -> Job]
  BY DEF CrashStorage, Job
<1>2. StorageTypeOK'
  BY <1>1 DEF StorageInv, StorageTypeOK
<1>3. RowsOK' /\ RunsOK' /\ ReferencedIsKept'
  BY <1>1 DEF StorageInv, RowsOK, RunsOK, ReferencedIsKept, ManagedStorageReferences, Held
<1>4. ASSUME NEW r \in Requests
      PROVE  JobOK(r)' /\ \A s \in Requests \ {r} : Apart(r, s)' /\ Apart(s, r)'
  BY <1>1, WaitingIsOK
<1> QED BY <1>2, <1>3, <1>4 DEF StorageInv

-----------------------------------------------------------------------------
(* The theorems                                                               *)

LEMMA StorageInvInit ==
  ASSUME StorageInit
  PROVE  StorageInv
<1>1. /\ disk = [p \in Paths |-> 0] /\ folders = {} /\ imported = {}
      /\ rows = [e \in Entries |-> {}] /\ recovery = [q \in Runs |-> NoRun]
      /\ jobs = [r \in Requests |-> Waiting] /\ stamps = 0
  BY DEF StorageInit
<1>2. /\ NoRun \in RunRecord /\ \A p \in Paths : NoRun.stored[p] = 0
  <2>1. <<>> \in Seq(Item) /\ [p \in Paths |-> 0] \in [Paths -> Nat]
    OBVIOUS
  <2> QED BY <2>1 DEF NoRun, RunRecord
<1>3. StorageTypeOK
  BY <1>1, <1>2 DEF StorageTypeOK, Job
<1>4. RowsOK /\ RunsOK /\ ReferencedIsKept
  BY <1>1, <1>2 DEF RowsOK, RunsOK, ReferencedIsKept, ManagedStorageReferences
<1>5. ASSUME NEW r \in Requests PROVE JobOK(r) /\ \A s \in Requests : Apart(r, s)
  BY <1>1, <1>5 DEF JobOK, SweepOK, RestoreOK, ImportOK, UploadOK, Apart, Restoring, Waiting
<1> QED BY <1>3, <1>4, <1>5 DEF StorageInv

LEMMA StorageInvNext ==
  ASSUME StorageInv, [StorageNext]_storageVars
  PROVE  StorageInv'
<1>1. ASSUME NEW r \in Requests, CleanupStep(r) PROVE StorageInv'
  <2>1. ASSUME NEW q \in Runs, NEW plan \in sealed.cleanup, NEW selected \in SUBSET plan,
               CommitStorageCleanup(r, q, plan, selected)
        PROVE  StorageInv'
    BY <2>1, CommitKeeps
  <2>2. CASE WriteManifest(r)
    BY <2>2, WriteManifestKeeps
  <2>3. CASE QuarantineManagedCleanup(r)
    BY <2>3, QuarantineKeeps
  <2>4. CASE FinishQuarantine(r)
    BY <2>4, FinishQuarantineKeeps
  <2>5. CASE ReleaseReferences(r)
    BY <2>5, ReleaseKeeps
  <2>6. CASE RollbackMove(r)
    BY <2>6, RollbackMoveKeeps
  <2>7. CASE EndRollback(r)
    BY <2>7, EndRollbackKeeps
  <2>8. CASE (\E q \in Runs : RestoreCleanupRun(r, q)) \/ RestoreOwnRun(r)
    BY <2>8, RestoreBeginKeeps
  <2>9. CASE RestoreMove(r)
    BY <2>9, RestoreMoveKeeps
  <2>10. CASE FinishRestore(r)
    BY <2>10, FinishRestoreKeeps
  <2> QED BY <1>1, <2>1, <2>2, <2>3, <2>4, <2>5, <2>6, <2>7, <2>8, <2>9, <2>10
             DEF CleanupStep
<1>2. ASSUME NEW r \in Requests, ImportStep(r) PROVE StorageInv'
  <2>1. ASSUME NEW batch \in SUBSET Entries, CommitImport(r, batch) PROVE StorageInv'
    BY <2>1, CommitImportKeeps
  <2>2. CASE IngestGame(r)
    BY <2>2, IngestGameKeeps
  <2>3. ASSUME NEW p \in Paths, CopyFile(r, p) PROVE StorageInv'
    BY <2>3, CopyFileKeeps
  <2>4. CASE CopyFails(r)
    BY <2>4, RemoveFoldersKeeps DEF CopyFails
  <2>5. CASE NextEntry(r)
    BY <2>5, NextEntryKeeps
  <2>6. CASE ImportGamesAtomic(r)
    BY <2>6, ImportGamesKeeps
  <2>7. ASSUME NEW e \in Entries, NEW p \in Blobs, UploadMedia(r, e, p) PROVE StorageInv'
    BY <2>7, UploadMediaKeeps
  <2>8. CASE AddMedia(r)
    BY <2>8, AddMediaKeeps
  <2> QED BY <1>2, <2>1, <2>2, <2>3, <2>4, <2>5, <2>6, <2>7, <2>8 DEF ImportStep
<1>3. CASE PreviewStorageCleanup \/ PreviewImport
  BY <1>3, LookingKeeps DEF PreviewStorageCleanup, PreviewImport
<1>4. ASSUME NEW e \in Entries, DeleteEdition(e) \/ \E p \in Paths : DeleteOneRow(e, p)
      PROVE  StorageInv'
  BY <1>4, DeleteRowsKeeps DEF DeleteEdition, DeleteOneRow
<1>5. CASE CrashStorage
  BY <1>5, CrashKeeps
<1>6. CASE UNCHANGED storageVars
  BY <1>6, LookingKeeps DEF storageVars
<1> QED BY <1>1, <1>2, <1>3, <1>4, <1>5, <1>6 DEF StorageNext

LEMMA StorageInvariance == StorageSpec => []StorageInv
<1>1. StorageInit => StorageInv
  BY StorageInvInit
<1>2. StorageInv /\ [StorageNext]_storageVars => StorageInv'
  BY StorageInvNext
<1> QED BY <1>1, <1>2, PTL DEF StorageSpec

\* Every variable of the store has the values its code can give it.
THEOREM StorageIsWellTyped == StorageSpec => []StorageTypeOK
<1>1. StorageInv => StorageTypeOK
  BY DEF StorageInv
<1> QED BY <1>1, StorageInvariance, PTL

\* What the catalogue refers to is on disk or in a recovery area, whatever
\* cleanups, restores, imports, uploads, deletions and crashes come between
\* the copying of a file and the row that names it.
THEOREM ReferencedFilesAreKept == StorageSpec => []ReferencedIsKept
<1>1. StorageInv => ReferencedIsKept
  BY DEF StorageInv
<1> QED BY <1>1, StorageInvariance, PTL

\* No step of a cleanup takes a file away that the catalogue refers to: what
\* it has still to move was free when the lock was taken, and the lock keeps
\* every new row out.
THEOREM CleanupTakesNothingReferenced == StorageSpec => CleanupSparesReferences
<1>1. ASSUME StorageInv, [StorageNext]_storageVars, NEW r \in Requests,
             NEW p \in ManagedStorageReferences',
             Moving(r, "sweep"), jobs'[r] # jobs[r], disk[p] # 0
      PROVE  disk'[p] # 0
  <2>1. /\ StorageTypeOK /\ jobs[r] \in SweepJob /\ SweepOK(r) /\ locked = {r}
        /\ \A s \in Requests \ {r} : jobs[s].op # "sweep" /\ locked # {s}
        /\ jobs[r].op = "sweep" /\ jobs[r].phase = "move"
    BY <1>1, CleanupKnows DEF Moving
  <2>2. CASE QuarantineManagedCleanup(r)
    <3>1. CASE UNCHANGED disk
      BY <1>1, <3>1
    <3>2. CASE /\ jobs[r].rest # <<>> /\ UNCHANGED rows
               /\ disk' = [disk EXCEPT ![Head(jobs[r].rest)[1]] = 0]
      <4>1. jobs[r].rest \in Seq(Item)
        BY <2>1 DEF SweepJob
      <4>2. Head(jobs[r].rest)[1] \in PathsIn(jobs[r].rest)
        BY <3>2, <4>1, TailPaths
      <4>3. PathsIn(jobs[r].rest) \cap ManagedStorageReferences = {}
        BY <2>1 DEF SweepOK
      <4>4. p \in ManagedStorageReferences
        BY <1>1, <3>2 DEF ManagedStorageReferences
      <4>5. disk'[p] = disk[p]
        BY <3>2, <4>2, <4>3, <4>4, <2>1 DEF StorageTypeOK
      <4> QED BY <1>1, <4>5
    <3> QED BY <2>2, <3>1, <3>2 DEF QuarantineManagedCleanup, RollBack
  <2>3. CASE UNCHANGED disk
    BY <1>1, <2>3
  <2>4. ASSUME NEW s \in Requests \ {r}, CleanupStep(s) \/ ImportStep(s)
        PROVE  jobs'[r] = jobs[r]
    <3>1. jobs[r] # Waiting
      BY <2>1 DEF Waiting
    <3> QED BY ZenonT(40), <2>1, <2>4, <3>1
            DEF StorageTypeOK, CleanupStep, ImportStep, CommitStorageCleanup, Sweep,
                WriteManifest, QuarantineManagedCleanup, Moved, RollBack, FinishQuarantine,
                Finished, ReleaseReferences, RollbackMove, EndRollback, RestoreCleanupRun,
                RestoreOwnRun, Check, RestoreMove, FinishRestore, CommitImport, IngestGame,
                RemoveFolders, CopyFile, CopyFails, NextEntry, ImportGamesAtomic,
                UploadMedia, AddMedia
  <2>5. CASE CleanupStep(r) \/ ImportStep(r)
    <3>1. QuarantineManagedCleanup(r) \/ UNCHANGED disk
      BY <2>1, <2>5
         DEF CleanupStep, ImportStep, CommitStorageCleanup, Sweep,
             WriteManifest, RollBack, FinishQuarantine,
             Finished, ReleaseReferences, RollbackMove, EndRollback, RestoreCleanupRun,
             RestoreOwnRun, Check, RestoreMove, FinishRestore, CommitImport, IngestGame,
             CopyFile, CopyFails, NextEntry, ImportGamesAtomic, Moving, Waiting,
             UploadMedia, AddMedia
    <3> QED BY <2>2, <2>3, <3>1
  <2>6. CASE CrashStorage \/ PreviewStorageCleanup \/ PreviewImport \/ UNCHANGED storageVars
    BY <2>3, <2>6 DEF CrashStorage, PreviewStorageCleanup, PreviewImport, storageVars
  <2>7. CASE \E e \in Entries : DeleteEdition(e) \/ \E x \in Paths : DeleteOneRow(e, x)
    BY <2>3, <2>7 DEF DeleteEdition, DeleteOneRow, DeleteRows
  <2> QED BY <1>1, <2>4, <2>5, <2>6, <2>7 DEF StorageNext
<1>2. StorageInv /\ [StorageNext]_storageVars =>
        [\A r \in Requests, p \in ManagedStorageReferences' :
           Moving(r, "sweep") /\ jobs'[r] # jobs[r] /\ disk[p] # 0 => disk'[p] # 0]_storageVars
  BY <1>1
<1> QED BY <1>2, StorageInvariance, PTL DEF StorageSpec, CleanupSparesReferences
=============================================================================
