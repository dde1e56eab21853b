-------------------------- MODULE MCSaveStoreRace --------------------------
(* Uploads to the save store alone, on one stream.                         *)
EXTENDS SaveStore, TLC
Symmetry == Permutations(Hashes) \cup Permutations(Handlers)
=============================================================================
