----------------------------- MODULE MCContent -----------------------------
(***************************************************************************)
(* The library, the building of packages and the backups of the state root *)
(* on small instances: two games, two editions, two files and two requests;*)
(* two sources that share a target, one plan and two builds; two files and *)
(* two backup commands.  A package reads the library through values of its *)
(* own (what is listed, catalogued and titled), and a backup copies bytes, *)
(* so one of the three runs in each behaviour and the others rest.  For    *)
(* packages there are two kinds of behaviours: all sources are there and   *)
(* anything may change once, or all are missing and the sources change     *)
(* twice around one build.                                                 *)
(***************************************************************************)
EXTENDS Library, PackageBuild, StateBackup, TLC

CONSTANTS e1, e2, x1
VARIABLE part

InOrder(e, f) == e = e1 /\ f = e2
MCPathOf == [s \in Sources |-> x1]
MCSystemOf == [s \in Sources |-> CHOOSE m \in Systems : TRUE]

ContentInit ==
  /\ part \in {"library", "package", "returns", "backup"}
  /\ LibraryInit
  /\ part # "library" => disk = [p \in Paths |-> Nothing]
  /\ PackageInit
  /\ \A s \in Sources : inputs[s] = IF part = "returns" THEN "gone" ELSE texts
  /\ BackupInit
  /\ part # "backup" => live = NoTree

ContentNext ==
  /\ UNCHANGED part
  /\ \/ part = "library" /\ LibraryNext /\ UNCHANGED <<packageVars, backupVars>>
     \/ /\ part = "package"
        /\ PackageNext /\ outside' <= 1
        /\ UNCHANGED <<libraryVars, backupVars>>
     \/ /\ part = "returns"
        /\ PackageNext /\ started' <= 1
        /\ UNCHANGED <<listed, texts, profile, libraryVars, backupVars>>
     \/ part = "backup" /\ BackupNext /\ UNCHANGED <<libraryVars, packageVars>>

ContentSpec ==
  ContentInit /\ [][ContentNext]_<<part, libraryVars, packageVars, backupVars>>

(* The cfg takes the same two values for sets of different parts, so that one  *)
(* permutation serves both.                                                    *)
ContentSymmetry == Permutations(Games) \cup Permutations(LibraryPaths)
                     \cup Permutations(FileContents) \cup Permutations(Builds)
                     \cup Permutations(Bytes)
=============================================================================
