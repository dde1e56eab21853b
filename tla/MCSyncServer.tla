---------------------------- MODULE MCSyncServer ----------------------------
(* The sync server with model values for TLC. *)
EXTENDS SyncServer, TLC

Symmetry == Permutations(Streams) \cup Permutations(Devices)
              \cup Permutations(Hashes) \cup Permutations(Handlers)
              \cup Permutations(Keys)
=============================================================================
