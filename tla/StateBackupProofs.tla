------------------------- MODULE StateBackupProofs -------------------------
(***************************************************************************)
(* Theorems about StateBackup, for any paths, contents, directories and    *)
(* commands.                                                               *)
(***************************************************************************)
EXTENDS StateBackup, TLAPS

-----------------------------------------------------------------------------
(* The inductive invariant                                                    *)

CommandRecord ==
           [phase : {"begun", "made", "copy", "verify", "manifest", "check", "restore"},
            op : {"create", "restore"}, out : Roots, from : Roots,
            rest : SUBSET StatePaths, copied : Trees, start : Trees,
            moved : SUBSET StatePaths, wavered : BOOLEAN]

\* A backup has copied nothing before it begins to.
Command == {job \in CommandRecord :
              job.phase \in {"begun", "made"} /\ job.op = "create" => job.rest = StatePaths}

BackupTypeOK ==
  /\ live \in Trees /\ refs \in Trees
  /\ roots \in [Roots -> RootRecord \cup {NoFile}]
  /\ vouched \subseteq Roots
  /\ commands \in [Commands -> Command \cup {Idle}]

\* A command that has made its directory has it to itself.
Writes(job) == job.phase \notin {"idle", "begun"}
OwnDirectories ==
  /\ \A c \in Commands : Writes(commands[c]) => Root(c) # NoFile /\ commands[c].out \notin vouched
  /\ \A c, d \in Commands : Writes(commands[c]) /\ Writes(commands[d]) /\ c # d
                              => commands[c].out # commands[d].out

\* What a command has copied of a path differs from what is there only when the
\* path changed; and it cannot be verified when it changed before the last copy.
Aligned(job, tree) ==
  job \in Command /\ ~job.wavered =>
    /\ job.phase = "copy" =>
         \A p \in StatePaths \ job.moved :
           job.start[p] = tree[p] /\ (p \notin job.rest => job.copied[p] = tree[p])
    /\ job.phase = "verify" =>
         \A p \in StatePaths :
           \/ job.copied[p] = job.start[p]
           \/ p \in job.rest /\ p \in job.moved /\ tree[p] = job.start[p]
    /\ job.phase \in {"manifest", "check"} => job.copied = job.start

Signed(job, root) == job.phase = "check" => root.manifest.state = job.copied

CopiesAligned == \A c \in Commands : /\ Aligned(commands[c], live)
                                     /\ commands[c] # Idle => Signed(commands[c], Root(c))

BackupInv == BackupTypeOK /\ OwnDirectories /\ VouchedRootsAreWhole /\ CopiesAligned

-----------------------------------------------------------------------------
(* Records                                                                    *)

LEMMA TreeUpdate ==
  ASSUME NEW t \in Trees, NEW p \in StatePaths, NEW x \in FileBytes \cup {NoFile}
  PROVE  /\ [t EXCEPT ![p] = x] \in Trees
         /\ [t EXCEPT ![p] = x][p] = x
         /\ \A q \in StatePaths \ {p} : [t EXCEPT ![p] = x][q] = t[q]
BY DEF Trees

LEMMA EmptyRootIsRoot == EmptyRoot \in RootRecord /\ NoTree \in Trees
BY DEF EmptyRoot, RootRecord, NoTree, Trees

LEMMA RootUpdate ==
  ASSUME NEW r \in RootRecord
  PROVE  /\ \A t \in Trees \cup {NoFile} : [r EXCEPT !.db = t] \in RootRecord
         /\ \A p \in StatePaths, x \in FileBytes \cup {NoFile} :
              /\ [r EXCEPT !.state[p] = x] \in RootRecord
              /\ [r EXCEPT !.state[p] = x].manifest = r.manifest
         /\ \A t \in Trees :
              LET signed == [r EXCEPT !.manifest = [db |-> r.db, state |-> t]]
              IN  signed \in RootRecord /\ signed.manifest.state = t
<1>1. ASSUME NEW p \in StatePaths, NEW x \in FileBytes \cup {NoFile}
      PROVE  /\ [r EXCEPT !.state[p] = x] \in RootRecord
             /\ [r EXCEPT !.state[p] = x].manifest = r.manifest
  <2>1. [r.state EXCEPT ![p] = x] \in Trees
    BY <1>1, TreeUpdate DEF RootRecord
  <2>2. [r EXCEPT !.state[p] = x] = [r EXCEPT !.state = [r.state EXCEPT ![p] = x]]
    BY DEF RootRecord
  <2> QED BY <2>1, <2>2 DEF RootRecord
<1> QED BY <1>1 DEF RootRecord

LEMMA CommandParts ==
  ASSUME NEW job \in Command
  PROVE  /\ job.out \in Roots /\ job.from \in Roots
         /\ job.rest \subseteq StatePaths /\ job.moved \subseteq StatePaths
         /\ job.copied \in Trees /\ job.start \in Trees /\ job.wavered \in BOOLEAN
         /\ job.phase # "idle" /\ job # Idle
BY DEF Command, CommandRecord, Idle

LEMMA IdleParts == Idle.phase = "idle" /\ ~Writes(Idle) /\ (\A t : Aligned(Idle, t))
BY CommandParts DEF Idle, Writes, Aligned

-----------------------------------------------------------------------------
(* Steps of a command                                                         *)

\* A command that has its directory goes on, or ends, and writes no other.
LEMMA GoesOnInItsDirectory ==
  ASSUME BackupInv, NEW c \in Commands, Writes(commands[c]),
         NEW job \in Command \cup {Idle}, NEW r \in RootRecord \cup {NoFile},
         job # Idle => /\ job.out = commands[c].out /\ r # NoFile
                       /\ Aligned(job, live) /\ Signed(job, r),
         Becomes(c, job), Build(c, r), Untouched
  PROVE  BackupInv'
<1> DEFINE o == commands[c].out
<1>1. BackupTypeOK /\ OwnDirectories /\ VouchedRootsAreWhole /\ CopiesAligned
  BY DEF BackupInv
<1>2. commands[c] \in Command /\ o \in Roots /\ o \notin vouched
  BY <1>1, CommandParts, IdleParts DEF BackupTypeOK, OwnDirectories
<1>3. /\ commands' = [commands EXCEPT ![c] = job] /\ roots' = [roots EXCEPT ![o] = r]
      /\ UNCHANGED <<live, refs, vouched>>
  BY DEF Becomes, Build, Untouched, Service
<1> HIDE DEF o
<1>4. /\ commands'[c] = job /\ \A d \in Commands \ {c} : commands'[d] = commands[d]
      /\ roots'[o] = r /\ \A q \in Roots \ {o} : roots'[q] = roots[q]
  BY <1>1, <1>2, <1>3 DEF BackupTypeOK
<1>5. BackupTypeOK'
  BY <1>1, <1>3 DEF BackupTypeOK
<1>6. \A d \in Commands \ {c} : Writes(commands[d]) => commands[d].out \in Roots \ {o}
  BY <1>1, CommandParts, IdleParts DEF BackupTypeOK, OwnDirectories, o
<1>7. OwnDirectories'
  <2>1. ASSUME NEW d \in Commands, Writes(commands'[d])
        PROVE  Root(d)' # NoFile /\ commands'[d].out \notin vouched'
    <3>1. CASE d = c
      BY <1>2, <1>3, <1>4, <2>1, <3>1, IdleParts DEF Root, o
    <3>2. CASE d # c
      BY <1>1, <1>3, <1>4, <1>6, <2>1, <3>2 DEF Root, OwnDirectories
    <3> QED BY <3>1, <3>2
  <2>2. ASSUME NEW d \in Commands \ {c}, Writes(commands'[d]), Writes(commands'[c])
        PROVE  commands'[d].out # commands'[c].out
    BY <1>4, <1>6, <2>2, IdleParts DEF o
  <2>3. ASSUME NEW d \in Commands, NEW e \in Commands, Writes(commands'[d]), Writes(commands'[e]), d # e
        PROVE  commands'[d].out # commands'[e].out
    BY <1>1, <1>4, <2>2, <2>3 DEF OwnDirectories
  <2> QED BY <2>1, <2>3 DEF OwnDirectories
<1>8. VouchedRootsAreWhole'
  BY <1>1, <1>2, <1>3, <1>4 DEF VouchedRootsAreWhole, ValidReferences, BackupTypeOK
<1>9. CopiesAligned'
  <2>1. ASSUME NEW d \in Commands \ {c}, commands'[d] # Idle
        PROVE  Signed(commands'[d], Root(d)')
    <3>1. Signed(commands[d], Root(d))
      BY <1>1, <1>4, <2>1 DEF CopiesAligned
    <3>2. Writes(commands[d]) => Root(d)' = Root(d)
      BY <1>4, <1>6 DEF Root
    <3> QED BY <1>4, <3>1, <3>2 DEF Signed, Writes
  <2>2. job # Idle => Signed(commands'[c], Root(c)')
    BY <1>4 DEF Root, o
  <2>3. Aligned(job, live)
    BY IdleParts
  <2> QED BY <1>1, <1>3, <1>4, <2>1, <2>2, <2>3 DEF CopiesAligned
<1> QED BY <1>5, <1>7, <1>8, <1>9 DEF BackupInv

\* The same when the directory is left as it is.
LEMMA GoesOn ==
  ASSUME BackupInv, NEW c \in Commands, Writes(commands[c]), NEW job \in Command \cup {Idle},
         job # Idle => /\ job.out = commands[c].out
                       /\ Aligned(job, live) /\ Signed(job, Root(c)),
         Becomes(c, job), UNCHANGED roots, Untouched
  PROVE  BackupInv'
<1>1. BackupTypeOK /\ OwnDirectories
  BY DEF BackupInv
<1>2. commands[c].out \in Roots
  BY <1>1, CommandParts, IdleParts DEF BackupTypeOK
<1>3. Root(c) \in RootRecord /\ Root(c) # NoFile
  BY <1>1, <1>2 DEF BackupTypeOK, OwnDirectories, Root
<1>4. Build(c, Root(c))
  BY <1>1, <1>2 DEF Build, Root, BackupTypeOK
<1> QED BY <1>3, <1>4, GoesOnInItsDirectory

LEMMA FailsKeeps ==
  ASSUME BackupInv, NEW c \in Commands, Writes(commands[c]), Fails(c)
  PROVE  BackupInv'
BY GoesOnInItsDirectory DEF Fails

\* A command that has no directory yet begins, or gives up.
LEMMA BeginsOrGivesUp ==
  ASSUME BackupInv, NEW c \in Commands, ~Writes(commands[c]), NEW job \in Command \cup {Idle},
         ~Writes(job), Becomes(c, job), UNCHANGED <<Service, roots, vouched>>
  PROVE  BackupInv'
<1>1. BackupTypeOK /\ OwnDirectories /\ VouchedRootsAreWhole /\ CopiesAligned
  BY DEF BackupInv
<1>2. /\ commands' = [commands EXCEPT ![c] = job]
      /\ UNCHANGED <<live, refs, roots, vouched>>
  BY DEF Becomes, Service
<1>3. commands'[c] = job /\ \A d \in Commands \ {c} : commands'[d] = commands[d]
  BY <1>1, <1>2 DEF BackupTypeOK
<1>4. BackupTypeOK'
  BY <1>1, <1>2 DEF BackupTypeOK
<1>5. OwnDirectories'
  BY <1>1, <1>2, <1>3 DEF OwnDirectories, Root
<1>6. Aligned(job, live) /\ \A root : Signed(job, root)
  BY DEF Aligned, Writes, Signed
<1>7. CopiesAligned'
  BY <1>1, <1>2, <1>3, <1>6 DEF CopiesAligned, Root
<1>8. VouchedRootsAreWhole'
  BY <1>1, <1>2 DEF VouchedRootsAreWhole, ValidReferences
<1> QED BY <1>4, <1>5, <1>7, <1>8 DEF BackupInv

LEMMA BeginsKeeps ==
  ASSUME BackupInv, NEW c \in Commands, NEW o \in Roots,
         BeginCreate(c, o) \/ \E from \in Roots : BeginRestore(c, from, o)
  PROVE  BackupInv'
<1>1. PICK job \in Command : job.phase = "begun" /\ BeginCommand(c, o, job)
  <2>1. CASE BeginCreate(c, o)
    BY <2>1, EmptyRootIsRoot DEF BeginCreate, Command, CommandRecord
  <2>2. ASSUME NEW from \in Roots, BeginRestore(c, from, o)
        PROVE  \E job \in Command : job.phase = "begun" /\ BeginCommand(c, o, job)
    BY <2>2, EmptyRootIsRoot DEF BeginRestore, Command, CommandRecord
  <2> QED BY <2>1, <2>2
<1> QED BY <1>1, IdleParts, BeginsOrGivesUp DEF BeginCommand, Writes

LEMMA MakeOutputKeeps ==
  ASSUME BackupInv, NEW c \in Commands, MakeOutput(c)
  PROVE  BackupInv'
<1> DEFINE o == commands[c].out
           job == [commands[c] EXCEPT !.phase = "made"]
<1>1. BackupTypeOK /\ OwnDirectories /\ VouchedRootsAreWhole /\ CopiesAligned
  BY DEF BackupInv
<1>2. commands[c].phase = "begun" /\ ~Writes(commands[c])
  BY DEF MakeOutput, Writes
<1>3. commands[c] \in Command /\ o \in Roots
  BY <1>1, <1>2, CommandParts, IdleParts DEF BackupTypeOK
<1>4. CASE Becomes(c, Idle) /\ UNCHANGED roots
  BY <1>2, <1>4, IdleParts, BeginsOrGivesUp DEF MakeOutput, Untouched
<1>5. CASE Root(c) = NoFile /\ Build(c, EmptyRoot) /\ Becomes(c, job)
  <2>1. /\ job \in Command /\ job.phase = "made" /\ job.out = o
        /\ UNCHANGED <<live, refs, vouched>>
    BY <1>3 DEF Command, CommandRecord, MakeOutput, Untouched, Service
  <2>2. roots[o] = NoFile /\ o \notin vouched
    BY <1>1, <1>5 DEF Root, VouchedRootsAreWhole
  <2>3. commands' = [commands EXCEPT ![c] = job] /\ roots' = [roots EXCEPT ![o] = EmptyRoot]
    BY <1>5 DEF Becomes, Build
  <2> HIDE DEF o, job
  <2>4. /\ commands'[c] = job /\ \A d \in Commands \ {c} : commands'[d] = commands[d]
        /\ roots'[o] = EmptyRoot /\ \A q \in Roots \ {o} : roots'[q] = roots[q]
    BY <1>1, <1>3, <2>3 DEF BackupTypeOK
  <2>5. \A d \in Commands \ {c} : Writes(commands[d]) => commands[d].out \in Roots \ {o}
    BY <1>1, <2>2, CommandParts, IdleParts DEF OwnDirectories, Root, BackupTypeOK
  <2>6. BackupTypeOK'
    BY <1>1, <2>1, <2>3, EmptyRootIsRoot DEF BackupTypeOK
  <2>7. OwnDirectories'
    <3>1. ASSUME NEW d \in Commands, Writes(commands'[d])
          PROVE  Root(d)' # NoFile /\ commands'[d].out \notin vouched'
      <4>1. CASE d = c
        BY <2>1, <2>2, <2>4, <4>1, EmptyRootIsRoot, StateBackupAssumption DEF Root
      <4>2. CASE d # c
        BY <1>1, <2>1, <2>4, <2>5, <3>1, <4>2 DEF Root, OwnDirectories
      <4> QED BY <4>1, <4>2
    <3>2. ASSUME NEW d \in Commands, NEW e \in Commands, Writes(commands'[d]), Writes(commands'[e]), d # e
          PROVE  commands'[d].out # commands'[e].out
      BY <1>1, <2>1, <2>4, <2>5, <3>2 DEF OwnDirectories
    <3> QED BY <3>1, <3>2 DEF OwnDirectories
  <2>8. VouchedRootsAreWhole'
    BY <1>1, <2>1, <2>2, <2>4 DEF VouchedRootsAreWhole, ValidReferences, BackupTypeOK
  <2>9. CopiesAligned'
    <3>1. Aligned(job, live) /\ \A root : Signed(job, root)
      BY <2>1 DEF Aligned, Signed
    <3>2. ASSUME NEW d \in Commands \ {c}, commands[d] # Idle
          PROVE  Signed(commands[d], Root(d)')
      <4>1. Signed(commands[d], Root(d))
        BY <1>1, <3>2 DEF CopiesAligned
      <4>2. Writes(commands[d]) => Root(d)' = Root(d)
        BY <2>4, <2>5 DEF Root
      <4> QED BY <4>1, <4>2 DEF Signed, Writes
    <3> QED BY <1>1, <2>1, <2>4, <3>1, <3>2 DEF CopiesAligned
  <2> QED BY <2>6, <2>7, <2>8, <2>9 DEF BackupInv
<1> QED BY <1>4, <1>5 DEF MakeOutput

LEMMA DiesKeeps ==
  ASSUME BackupInv, NEW c \in Commands, Dies(c)
  PROVE  BackupInv'
<1>1. CASE Writes(commands[c])
  BY <1>1, GoesOn DEF Dies
<1>2. CASE ~Writes(commands[c])
  BY <1>2, IdleParts, BeginsOrGivesUp DEF Dies, Untouched
<1> QED BY <1>1, <1>2

\* A directory is reported when its command looked at it last.
LEMMA SucceedsKeeps ==
  ASSUME BackupInv, NEW c \in Commands, Writes(commands[c]), ValidReferences(Root(c)),
         Succeeds(c)
  PROVE  BackupInv'
<1> DEFINE o == commands[c].out
<1>1. BackupTypeOK /\ OwnDirectories /\ VouchedRootsAreWhole /\ CopiesAligned
  BY DEF BackupInv
<1>2. commands[c] \in Command /\ o \in Roots /\ roots[o] # NoFile /\ ValidReferences(roots[o])
  BY <1>1, CommandParts, IdleParts DEF BackupTypeOK, OwnDirectories, Root
<1>3. /\ commands' = [commands EXCEPT ![c] = Idle] /\ vouched' = vouched \cup {o}
      /\ UNCHANGED <<live, refs, roots>>
  BY DEF Succeeds, Becomes, Service
<1> HIDE DEF o
<1>4. commands'[c] = Idle /\ \A d \in Commands \ {c} : commands'[d] = commands[d]
  BY <1>1, <1>3 DEF BackupTypeOK
<1>5. BackupTypeOK'
  BY <1>1, <1>2, <1>3 DEF BackupTypeOK
<1>6. OwnDirectories'
  <2>1. \A d \in Commands \ {c} : Writes(commands[d]) => commands[d].out # o
    BY <1>1 DEF OwnDirectories, o
  <2>2. ASSUME NEW d \in Commands, Writes(commands'[d])
        PROVE  Root(d)' # NoFile /\ commands'[d].out \notin vouched'
    BY <1>1, <1>3, <1>4, <2>1, <2>2, IdleParts DEF OwnDirectories, Root
  <2>3. ASSUME NEW d \in Commands, NEW e \in Commands, Writes(commands'[d]), Writes(commands'[e]), d # e
        PROVE  commands'[d].out # commands'[e].out
    BY <1>1, <1>4, <2>3, IdleParts DEF OwnDirectories
  <2> QED BY <2>2, <2>3 DEF OwnDirectories
<1>7. VouchedRootsAreWhole'
  BY <1>1, <1>2, <1>3 DEF VouchedRootsAreWhole, ValidReferences
<1>8. CopiesAligned'
  BY <1>1, <1>3, <1>4, IdleParts DEF CopiesAligned, Root
<1> QED BY <1>5, <1>6, <1>7, <1>8 DEF BackupInv

LEMMA WritingParts ==
  ASSUME BackupInv, NEW c \in Commands, Writes(commands[c])
  PROVE  /\ commands[c] \in Command /\ Root(c) \in RootRecord
         /\ Aligned(commands[c], live) /\ Signed(commands[c], Root(c))
         /\ live \in Trees /\ refs \in Trees
BY CommandParts, IdleParts
   DEF BackupInv, BackupTypeOK, OwnDirectories, CopiesAligned, Root

\* A step that writes the directory of its command and keeps its record typed.
LEMMA BuildsOn ==
  ASSUME BackupInv, NEW c \in Commands, Writes(commands[c]),
         NEW job \in Command, job.out = commands[c].out, NEW r \in RootRecord,
         Aligned(job, live), Signed(job, r),
         Becomes(c, job), Build(c, r), Untouched
  PROVE  BackupInv'
BY StateBackupAssumption, GoesOnInItsDirectory

LEMMA SnapshotKeeps ==
  ASSUME BackupInv, NEW c \in Commands, SnapshotDatabase(c)
  PROVE  BackupInv'
<1> DEFINE job == [commands[c] EXCEPT !.phase = "copy", !.start = live]
           r == [Root(c) EXCEPT !.db = refs]
<1>1. commands[c].phase = "made" /\ Becomes(c, job) /\ Build(c, r) /\ Untouched
  BY DEF SnapshotDatabase, At
<1>2. Writes(commands[c])
  BY <1>1 DEF Writes
<1>3. commands[c] \in Command /\ Root(c) \in RootRecord /\ live \in Trees /\ refs \in Trees
  BY <1>2, WritingParts
<1>4. /\ job \in Command /\ job.out = commands[c].out /\ job.phase = "copy"
      /\ job.start = live /\ job.copied = commands[c].copied /\ job.rest = commands[c].rest
  BY <1>3 DEF Command, CommandRecord
<1>5. r \in RootRecord
  BY <1>3, RootUpdate
<1>6. job.rest = StatePaths
  BY <1>1, <1>3, <1>4 DEF SnapshotDatabase, Command
<1>7. Aligned(job, live) /\ Signed(job, r)
  BY <1>4, <1>6 DEF Aligned, Signed
<1> HIDE DEF job, r
<1> QED BY <1>1, <1>2, <1>4, <1>5, <1>7, BuildsOn

LEMMA CopyFileKeeps ==
  ASSUME BackupInv, NEW c \in Commands, NEW p \in StatePaths, CopyFile(c, p)
  PROVE  BackupInv'
<1> DEFINE old == commands[c]
           left == old.rest \ {p}
           some(x) == [old EXCEPT !.rest = left, !.copied[p] = x]
           all(x) == [some(x) EXCEPT !.phase = "verify", !.rest = StatePaths, !.start = live]
           job(x) == IF left # {} THEN some(x) ELSE all(x)
           r(x) == [Root(c) EXCEPT !.state[p] = x]
<1>1. PICK x \in {live[p]} \cup (IF Unseen(c, p) THEN {NoFile} ELSE {}) :
        Build(c, r(x)) /\ Becomes(c, job(x)) /\ Untouched
  BY DEF CopyFile
<1>2. old.phase = "copy" /\ Writes(old)
  BY DEF CopyFile, At, Writes
<1>3. /\ old \in Command /\ Root(c) \in RootRecord /\ live \in Trees
      /\ Aligned(old, live)
  BY <1>2, WritingParts
<1>4. /\ x \in FileBytes \cup {NoFile}
      /\ x = live[p] \/ (x = NoFile /\ old.start[p] = NoFile)
  BY <1>1, <1>3 DEF Trees, Unseen
<1>5. r(x) \in RootRecord
  BY <1>3, <1>4, RootUpdate
<1> DEFINE copied == [old.copied EXCEPT ![p] = x]
<1>6. /\ copied \in Trees /\ copied[p] = x
      /\ \A q \in StatePaths \ {p} : copied[q] = old.copied[q]
  BY <1>3, <1>4, CommandParts, TreeUpdate
<1>7. some(x) = [old EXCEPT !.rest = left, !.copied = copied]
  BY <1>3 DEF Command, CommandRecord
<1> HIDE DEF copied
<1>8. /\ some(x) \in Command /\ some(x).out = old.out /\ some(x).phase = "copy"
      /\ some(x).copied = copied /\ some(x).start = old.start /\ some(x).rest = left
      /\ some(x).moved = old.moved /\ some(x).wavered = old.wavered
  BY <1>2, <1>3, <1>6, <1>7 DEF Command, CommandRecord
<1> HIDE DEF some
<1>9. /\ all(x) \in Command /\ all(x).out = old.out /\ all(x).phase = "verify"
      /\ all(x).copied = copied /\ all(x).start = live /\ all(x).rest = StatePaths
      /\ all(x).moved = old.moved /\ all(x).wavered = old.wavered
  BY <1>3, <1>8 DEF Command, CommandRecord
<1> HIDE DEF all, r, left
<1>10. ASSUME ~old.wavered
       PROVE  \A q \in StatePaths \ old.moved :
                old.start[q] = live[q] /\ (q \notin left => copied[q] = live[q])
  BY <1>2, <1>3, <1>4, <1>6, <1>10 DEF Aligned, left
<1>11. Aligned(some(x), live) /\ \A root : Signed(some(x), root)
  BY <1>8, <1>10 DEF Aligned, Signed
<1>12. ASSUME left = {}
       PROVE  Aligned(all(x), live) /\ \A root : Signed(all(x), root)
  BY <1>9, <1>10, <1>12 DEF Aligned, Signed
<1>13. CASE left # {}
  BY <1>1, <1>2, <1>5, <1>8, <1>11, <1>13, BuildsOn
<1>14. CASE left = {}
  BY <1>1, <1>2, <1>5, <1>9, <1>12, <1>14, BuildsOn
<1> QED BY <1>13, <1>14

LEMMA VerifyFileKeeps ==
  ASSUME BackupInv, NEW c \in Commands, NEW p \in StatePaths, VerifyFile(c, p)
  PROVE  BackupInv'
<1> DEFINE old == commands[c]
           left == old.rest \ {p}
           job == [old EXCEPT !.rest = left, !.phase = IF left = {} THEN "manifest" ELSE @]
<1>1. old.phase = "verify" /\ Writes(old)
  BY DEF VerifyFile, At, Writes
<1>2. old \in Command /\ Aligned(old, live) /\ live \in Trees
  BY <1>1, WritingParts
<1>3. CASE Fails(c)
  BY <1>1, <1>3, FailsKeeps
<1>4. CASE /\ live[p] = old.copied[p] \/ (old.copied[p] = NoFile /\ Unseen(c, p))
           /\ Becomes(c, job) /\ UNCHANGED roots /\ Untouched
  <2>1. /\ job \in Command /\ job.out = old.out /\ job.rest = left
        /\ job.phase = IF left = {} THEN "manifest" ELSE "verify"
        /\ job.copied = old.copied /\ job.start = old.start
        /\ job.moved = old.moved /\ job.wavered = old.wavered
    BY <1>1, <1>2 DEF Command, CommandRecord
  <2>2. ASSUME ~old.wavered
        PROVE  \A q \in StatePaths :
                 \/ old.copied[q] = old.start[q]
                 \/ q \in left /\ q \in old.moved /\ live[q] = old.start[q]
    BY <1>1, <1>2, <1>4, <2>2 DEF Aligned, Unseen
  <2>3. ASSUME ~old.wavered, left = {}
        PROVE  old.copied = old.start
    <3>1. \A q \in StatePaths : old.copied[q] = old.start[q]
      BY <2>2, <2>3
    <3>2. old.copied \in Trees /\ old.start \in Trees
      BY <1>2, CommandParts
    <3> QED BY <3>1, <3>2 DEF Trees
  <2> HIDE DEF job, left
  <2>4. Aligned(job, live) /\ \A root : Signed(job, root)
    BY <2>1, <2>2, <2>3 DEF Aligned, Signed
  <2> QED BY <1>1, <1>4, <2>1, <2>4, GoesOn
<1> QED BY <1>3, <1>4 DEF VerifyFile

LEMMA WriteBackupManifestKeeps ==
  ASSUME BackupInv, NEW c \in Commands, WriteBackupManifest(c)
  PROVE  BackupInv'
<1> DEFINE old == commands[c]
           job == [old EXCEPT !.phase = "check"]
           r == [Root(c) EXCEPT !.manifest = [db |-> Root(c).db, state |-> old.copied]]
<1>1. /\ old.phase = "manifest" /\ Writes(old)
      /\ Becomes(c, job) /\ Build(c, r) /\ Untouched
  BY DEF WriteBackupManifest, At, Writes
<1>2. old \in Command /\ Aligned(old, live) /\ Root(c) \in RootRecord
  BY <1>1, WritingParts
<1>3. /\ job \in Command /\ job.out = old.out /\ job.phase = "check"
      /\ job.copied = old.copied /\ job.start = old.start /\ job.wavered = old.wavered
  BY <1>2 DEF Command, CommandRecord
<1>4. r \in RootRecord /\ r.manifest.state = old.copied
  BY <1>2, CommandParts, RootUpdate
<1>5. Aligned(job, live) /\ Signed(job, r)
  BY <1>1, <1>2, <1>3, <1>4 DEF Aligned, Signed
<1> HIDE DEF job, r
<1> QED BY <1>1, <1>3, <1>4, <1>5, BuildsOn

LEMMA FinishKeeps ==
  ASSUME BackupInv, NEW c \in Commands, FinishCreate(c) \/ FinishRestore(c)
  PROVE  BackupInv'
<1>1. Writes(commands[c]) /\ (Fails(c) \/ (Succeeds(c) /\ ValidReferences(Root(c))))
  BY DEF FinishCreate, FinishRestore, Check, At, Writes
<1> QED BY <1>1, FailsKeeps, SucceedsKeeps

\* A restore takes no part in what is said of copies.
LEMMA ReadManifestKeeps ==
  ASSUME BackupInv, NEW c \in Commands, ReadManifest(c)
  PROVE  BackupInv'
<1> DEFINE old == commands[c]
           source == roots[old.from]
           paths == {p \in StatePaths : source.manifest.state[p] # NoFile}
           job == [old EXCEPT !.phase = "restore", !.rest = paths]
           r == [Root(c) EXCEPT !.db = source.db]
<1>1. Writes(old)
  BY DEF ReadManifest, At, Writes
<1>2. CASE Fails(c)
  BY <1>1, <1>2, FailsKeeps
<1>3. CASE source # NoFile /\ Becomes(c, job) /\ Build(c, r) /\ Untouched
  <2>1. old \in Command /\ Root(c) \in RootRecord
    BY <1>1, WritingParts
  <2>2. source \in RootRecord
    BY <1>3, <2>1, CommandParts DEF BackupInv, BackupTypeOK
  <2>3. paths \subseteq StatePaths
    OBVIOUS
  <2> HIDE DEF paths, source
  <2>4. r \in RootRecord
    BY <2>1, <2>2, RootUpdate DEF RootRecord
  <2>5. job \in Command /\ job.out = old.out /\ job.phase = "restore"
    BY <2>1, <2>3 DEF Command, CommandRecord
  <2>6. Aligned(job, live) /\ Signed(job, r)
    BY <2>5 DEF Aligned, Signed
  <2> HIDE DEF job, r
  <2> QED BY <1>1, <1>3, <2>4, <2>5, <2>6, BuildsOn
<1> QED BY <1>2, <1>3 DEF ReadManifest

LEMMA RestoreFileKeeps ==
  ASSUME BackupInv, NEW c \in Commands, NEW p \in StatePaths, RestoreFile(c, p)
  PROVE  BackupInv'
<1> DEFINE old == commands[c]
           source == roots[old.from]
           job == [old EXCEPT !.rest = @ \ {p}]
           r == [Root(c) EXCEPT !.state[p] = source.state[p]]
<1>1. Writes(old) /\ old.phase = "restore"
  BY DEF RestoreFile, At, Writes
<1>2. CASE Fails(c)
  BY <1>1, <1>2, FailsKeeps
<1>3. CASE source # NoFile /\ Becomes(c, job) /\ Build(c, r) /\ Untouched
  <2>1. old \in Command /\ Root(c) \in RootRecord
    BY <1>1, WritingParts
  <2>2. source \in RootRecord
    BY <1>3, <2>1, CommandParts DEF BackupInv, BackupTypeOK
  <2>3. source.state[p] \in FileBytes \cup {NoFile}
    BY <2>2 DEF RootRecord, Trees
  <2> HIDE DEF source
  <2>4. r \in RootRecord
    BY <2>1, <2>3, RootUpdate
  <2>5. job \in Command /\ job.out = old.out /\ job.phase = "restore"
    BY <1>1, <2>1 DEF Command, CommandRecord
  <2>6. Aligned(job, live) /\ Signed(job, r)
    BY <2>5 DEF Aligned, Signed
  <2> HIDE DEF job, r
  <2> QED BY <1>1, <1>3, <2>4, <2>5, <2>6, BuildsOn
<1> QED BY <1>2, <1>3 DEF RestoreFile

LEMMA CommandStepKeeps ==
  ASSUME BackupInv, NEW c \in Commands, CommandStep(c)
  PROVE  BackupInv'
<1>1. ASSUME Stops(c)
      PROVE  BackupInv'
  BY <1>1, FailsKeeps DEF Stops, Writes
<1> QED BY <1>1, BeginsKeeps, MakeOutputKeeps, DiesKeeps, SnapshotKeeps, CopyFileKeeps,
           VerifyFileKeeps, WriteBackupManifestKeeps, FinishKeeps, ReadManifestKeeps,
           RestoreFileKeeps
        DEF CommandStep

-----------------------------------------------------------------------------
(* Changes by anyone else                                                     *)

\* What a change of some paths leaves in the record of a command.
Noted(old, new, ps) ==
  IF old = Idle THEN new = Idle
  ELSE /\ new \in Command
       /\ new.phase = old.phase /\ new.out = old.out /\ new.rest = old.rest
       /\ new.copied = old.copied /\ new.start = old.start
       /\ new.moved = old.moved \cup ps
       /\ ~new.wavered => ~old.wavered /\ old.moved \cap ps = {}

LEMMA ChangesNoted ==
  ASSUME BackupTypeOK, NEW ps \in SUBSET StatePaths, Changes(ps)
  PROVE  /\ \A c \in Commands : Noted(commands[c], commands'[c], ps)
         /\ commands' \in [Commands -> Command \cup {Idle}]
<1>1. ASSUME NEW old \in Command
      PROVE  Noted(old, [old EXCEPT !.wavered = @ \/ old.moved \cap ps # {}, !.moved = @ \cup ps], ps)
  <2> DEFINE w == old.wavered \/ old.moved \cap ps # {}
             new == [old EXCEPT !.wavered = w, !.moved = @ \cup ps]
  <2>1. w \in BOOLEAN /\ old \in CommandRecord
    BY DEF Command
  <2>2. ~w => ~old.wavered /\ old.moved \cap ps = {}
    OBVIOUS
  <2> HIDE DEF w
  <2>3. /\ new \in CommandRecord /\ new.wavered = w
        /\ new.phase = old.phase /\ new.op = old.op /\ new.out = old.out /\ new.rest = old.rest
        /\ new.copied = old.copied /\ new.start = old.start
        /\ new.moved = old.moved \cup ps
    BY <2>1 DEF CommandRecord
  <2> HIDE DEF new
  <2>4. new \in Command
    BY <2>3 DEF Command
  <2>5. ~new.wavered => ~w
    BY <2>3
  <2>6. Noted(old, new, ps)
    BY <2>2, <2>3, <2>4, <2>5, CommandParts DEF Noted
  <2> QED BY <2>6 DEF new, w
<1>2. ASSUME NEW c \in Commands
      PROVE  commands'[c] = IF commands[c] = Idle THEN Idle
                            ELSE [commands[c] EXCEPT
                                    !.wavered = @ \/ commands[c].moved \cap ps # {},
                                    !.moved = @ \cup ps]
  BY DEF Changes
<1>3. ASSUME NEW c \in Commands
      PROVE  Noted(commands[c], commands'[c], ps)
  <2>1. CASE commands[c] = Idle
    BY <1>2, <2>1 DEF Noted
  <2>2. CASE commands[c] # Idle
    <3>1. commands[c] \in Command
      BY <2>2 DEF BackupTypeOK
    <3> QED BY <1>1, <1>2, <2>2, <3>1
  <2> QED BY <2>1, <2>2
<1>4. commands' = [c \in Commands |-> commands'[c]]
  BY DEF Changes
<1> QED BY <1>3, <1>4 DEF Noted

\* A copy that was in line with the files is so after a change that is noted.
LEMMA NotedKeepsAligned ==
  ASSUME NEW old \in Command \cup {Idle}, NEW new, NEW ps \in SUBSET StatePaths,
         Noted(old, new, ps), NEW t, NEW u,
         \A p \in StatePaths \ ps : u[p] = t[p], Aligned(old, t)
  PROVE  Aligned(new, u)
<1>1. CASE old = Idle
  BY <1>1, IdleParts DEF Noted
<1>2. CASE old # Idle
  BY <1>2 DEF Noted, Aligned
<1> QED BY <1>1, <1>2

\* Someone changes files of the state root, or of directories that exist.
LEMMA ChangeKeeps ==
  ASSUME BackupInv, NEW ps \in SUBSET StatePaths, Changes(ps),
         live' \in Trees, refs' \in Trees, \A p \in StatePaths \ ps : live'[p] = live[p],
         roots' \in [Roots -> RootRecord \cup {NoFile}], vouched' \subseteq vouched,
         \A o \in Roots :
           /\ roots[o] # NoFile => roots'[o] # NoFile /\ roots'[o].manifest = roots[o].manifest
           /\ o \in vouched' => roots'[o] = roots[o]
  PROVE  BackupInv'
<1>1. BackupTypeOK /\ OwnDirectories /\ VouchedRootsAreWhole /\ CopiesAligned
  BY DEF BackupInv
<1>2. /\ \A c \in Commands : Noted(commands[c], commands'[c], ps)
      /\ commands' \in [Commands -> Command \cup {Idle}]
  BY <1>1, ChangesNoted
<1>3. BackupTypeOK'
  BY <1>1, <1>2 DEF BackupTypeOK
<1>4. \A c \in Commands :
        /\ commands[c] = Idle <=> commands'[c] = Idle
        /\ commands'[c] # Idle => /\ commands'[c].phase = commands[c].phase
                                  /\ commands'[c].out = commands[c].out
                                  /\ commands'[c].copied = commands[c].copied
  BY <1>2, CommandParts DEF Noted
<1>5. \A c \in Commands : Writes(commands'[c]) =>
        /\ commands'[c] # Idle /\ Writes(commands[c])
        /\ commands[c].out \in Roots /\ commands'[c].out = commands[c].out
  BY <1>1, <1>4, IdleParts, CommandParts DEF Writes, BackupTypeOK
<1>6. OwnDirectories'
  <2>1. ASSUME NEW c \in Commands, Writes(commands'[c])
        PROVE  Root(c)' # NoFile /\ commands'[c].out \notin vouched'
    BY <1>1, <1>5, <2>1 DEF OwnDirectories, Root
  <2>2. \A c, d \in Commands : Writes(commands'[c]) /\ Writes(commands'[d]) /\ c # d
          => commands'[c].out # commands'[d].out
    BY <1>1, <1>5 DEF OwnDirectories
  <2> QED BY <2>1, <2>2 DEF OwnDirectories
<1>7. VouchedRootsAreWhole'
  BY <1>1 DEF VouchedRootsAreWhole, ValidReferences, BackupTypeOK
<1>8. CopiesAligned'
  <2>1. ASSUME NEW c \in Commands
        PROVE  Aligned(commands'[c], live')
    <3>1. commands[c] \in Command \cup {Idle} /\ Aligned(commands[c], live)
      BY <1>1 DEF BackupTypeOK, CopiesAligned
    <3> QED BY <1>2, <3>1, NotedKeepsAligned
  <2>2. ASSUME NEW c \in Commands, commands'[c] # Idle, commands'[c].phase = "check"
        PROVE  roots'[commands'[c].out].manifest.state = commands'[c].copied
    <3>1. /\ commands[c] # Idle /\ commands[c].phase = "check" /\ Writes(commands[c])
          /\ Writes(commands'[c]) /\ commands'[c].copied = commands[c].copied
      BY <1>4, <2>2 DEF Writes
    <3>2. roots[commands[c].out].manifest.state = commands[c].copied /\ Root(c) # NoFile
      BY <1>1, <3>1 DEF CopiesAligned, Signed, Root, OwnDirectories
    <3> QED BY <1>5, <3>1, <3>2 DEF Root
  <2> QED BY <2>1, <2>2 DEF CopiesAligned, Signed, Root
<1> QED BY <1>3, <1>6, <1>7, <1>8 DEF BackupInv

LEMMA ChangeStepKeeps ==
  ASSUME BackupInv, Change
  PROVE  BackupInv'
<1>1. BackupTypeOK
  BY DEF BackupInv
<1>2. ASSUME NEW p \in StatePaths, NEW content \in FileBytes, StoreFile(p, content)
      PROVE  BackupInv'
  <2>1. /\ live' = [live EXCEPT ![p] = content] /\ Changes({p})
        /\ UNCHANGED <<refs, roots, vouched>>
    BY <1>2 DEF StoreFile
  <2>2. live \in Trees /\ content \in FileBytes \cup {NoFile}
    BY <1>1 DEF BackupTypeOK
  <2>3. live' \in Trees /\ \A q \in StatePaths \ {p} : live'[q] = live[q]
    BY <2>1, <2>2 DEF Trees
  <2> QED BY <1>1, <2>1, <2>3, ChangeKeeps DEF BackupTypeOK
<1>3. ASSUME NEW p \in StatePaths, Refer(p) \/ Forget(p)
      PROVE  BackupInv'
  <2>1. PICK x \in FileBytes \cup {NoFile} : refs' = [refs EXCEPT ![p] = x]
    BY <1>1, <1>3 DEF Refer, Forget, BackupTypeOK, Trees
  <2>2. Changes({}) /\ UNCHANGED <<live, roots, vouched>>
    BY <1>3 DEF Refer, Forget
  <2>3. refs' \in Trees
    BY <1>1, <2>1, TreeUpdate DEF BackupTypeOK
  <2> QED BY <1>1, <2>2, <2>3, ChangeKeeps DEF BackupTypeOK
<1>4. ASSUME NEW p \in StatePaths, NEW q \in StatePaths, MoveFile(p, q)
      PROVE  BackupInv'
  <2>1. /\ live' = [live EXCEPT ![p] = NoFile, ![q] = live[p]] /\ Changes({p, q})
        /\ UNCHANGED <<refs, roots, vouched>>
    BY <1>4 DEF MoveFile
  <2>2. live' \in Trees /\ \A r \in StatePaths \ {p, q} : live'[r] = live[r]
    BY <1>1, <2>1 DEF BackupTypeOK, Trees
  <2> QED BY <1>1, <2>1, <2>2, ChangeKeeps DEF BackupTypeOK
<1>5. ASSUME NEW o \in Roots, NEW p \in StatePaths, NEW content \in FileBytes \cup {NoFile},
             DamageRoot(o, p, content)
      PROVE  BackupInv'
  <2> DEFINE r == [roots[o] EXCEPT !.state[p] = content]
  <2>1. /\ roots[o] # NoFile /\ roots' = [roots EXCEPT ![o].state[p] = content]
        /\ vouched' = vouched \ {o} /\ Changes({}) /\ UNCHANGED <<live, refs>>
    BY <1>5 DEF DamageRoot
  <2>2. roots[o] \in RootRecord
    BY <1>1, <2>1 DEF BackupTypeOK
  <2>3. r \in RootRecord /\ r.manifest = roots[o].manifest
    BY <2>2, RootUpdate
  <2>4. roots' = [roots EXCEPT ![o] = r]
    BY <1>1, <2>1 DEF BackupTypeOK
  <2> HIDE DEF r
  <2>5. /\ roots' \in [Roots -> RootRecord \cup {NoFile}]
        /\ roots'[o] = r /\ r # NoFile
        /\ \A q \in Roots \ {o} : roots'[q] = roots[q]
    BY <1>1, <2>3, <2>4, StateBackupAssumption DEF BackupTypeOK
  <2> QED BY <1>1, <2>1, <2>3, <2>5, ChangeKeeps DEF BackupTypeOK
<1> QED BY <1>2, <1>3, <1>4, <1>5 DEF Change

-----------------------------------------------------------------------------
(* The theorems                                                               *)

LEMMA BackupInit_Inv == BackupInit => BackupInv
<1> SUFFICES ASSUME BackupInit PROVE BackupInv
  OBVIOUS
<1>1. /\ live \in Trees /\ roots = [o \in Roots |-> NoFile] /\ vouched = {}
      /\ commands = [c \in Commands |-> Idle]
  BY DEF BackupInit
<1>2. refs \in Trees
  BY <1>1 DEF BackupInit, Trees
<1>3. BackupTypeOK
  BY <1>1, <1>2 DEF BackupTypeOK
<1>4. OwnDirectories /\ CopiesAligned
  BY <1>1, IdleParts DEF OwnDirectories, CopiesAligned
<1>5. VouchedRootsAreWhole
  BY <1>1 DEF VouchedRootsAreWhole
<1> QED BY <1>3, <1>4, <1>5 DEF BackupInv

LEMMA BackupNext_Inv == BackupInv /\ [BackupNext]_backupVars => BackupInv'
<1> SUFFICES ASSUME BackupInv, [BackupNext]_backupVars PROVE BackupInv'
  OBVIOUS
<1>1. CASE BackupNext
  BY <1>1, ChangeStepKeeps, CommandStepKeeps DEF BackupNext
<1>2. CASE UNCHANGED backupVars
  BY <1>2 DEF backupVars, BackupInv, BackupTypeOK, OwnDirectories, VouchedRootsAreWhole,
              ValidReferences, CopiesAligned, Root
<1> QED BY <1>1, <1>2

LEMMA BackupInvariance == BackupSpec => []BackupInv
BY BackupInit_Inv, BackupNext_Inv, PTL DEF BackupSpec

\* A directory that a backup or a restore reported as created holds every file
\* its database refers to: two commands never share a directory, and none is
\* written after it was reported.
THEOREM VouchedDirectoriesAreWhole == BackupSpec => []VouchedRootsAreWhole
<1>1. BackupInv => VouchedRootsAreWhole
  BY DEF BackupInv
<1> QED BY <1>1, BackupInvariance, PTL

\* Although the database and every file are read at moments of their own, what
\* a backup reports is the state root as it was at one moment, the end of the
\* copies, unless a path changed and changed back.
THEOREM BackupsAreOfOneMoment == BackupSpec => BackupIsOneMoment
<1>1. ASSUME BackupInv, BackupInv', [BackupNext]_backupVars, NEW c \in Commands,
             commands[c].phase = "check", commands'[c] = Idle,
             commands[c].out \in vouched', ~commands[c].wavered
      PROVE  Root(c).state = commands[c].start
  <2>1. Writes(commands[c])
    BY <1>1 DEF Writes
  <2>2. /\ commands[c] \in Command /\ Root(c) \in RootRecord
        /\ Aligned(commands[c], live) /\ Signed(commands[c], Root(c))
    BY <1>1, <2>1, WritingParts
  <2>3. commands[c].out \notin vouched
    BY <1>1, <2>1 DEF BackupInv, OwnDirectories
  <2>4. PICK d \in Commands : Succeeds(d) /\ (FinishCreate(d) \/ FinishRestore(d))
    BY ZenonT(40), <1>1, <2>3
       DEF BackupNext, backupVars, Change, StoreFile, Refer, Forget, MoveFile, DamageRoot,
           CommandStep, BeginCreate, BeginRestore, BeginCommand, MakeOutput, Stops, Dies,
           SnapshotDatabase, CopyFile, VerifyFile, RestoreFile, WriteBackupManifest,
           FinishCreate, ReadManifest, FinishRestore, Fails, Untouched
  <2>5. d = c
    <3>1. vouched' = vouched \cup {commands[d].out} /\ Writes(commands[d])
      BY <2>4 DEF Succeeds, FinishCreate, FinishRestore, At, Writes
    <3> QED BY <1>1, <2>1, <2>3, <3>1 DEF BackupInv, OwnDirectories
  <2>6. Listed(Root(c))
    <3>1. ~Fails(c)
      BY <1>1, <2>3 DEF Fails, Untouched
    <3>2. ~FinishRestore(c)
      BY <1>1 DEF FinishRestore, At
    <3> QED BY <2>4, <2>5, <3>1, <3>2 DEF FinishCreate, Check
  <2>7. Root(c).state = commands[c].copied
    BY <1>1, <2>2, <2>6 DEF Listed, Signed
  <2> QED BY <1>1, <2>2, <2>7 DEF Aligned
<1>2. BackupInv /\ BackupInv' /\ [BackupNext]_backupVars
        => [\A c \in Commands :
              (/\ commands[c].phase = "check" /\ commands'[c] = Idle
               /\ commands[c].out \in vouched' /\ ~commands[c].wavered)
                => Root(c).state = commands[c].start]_backupVars
  BY <1>1
<1> QED BY <1>2, BackupInvariance, PTL DEF BackupSpec, BackupIsOneMoment
=============================================================================
