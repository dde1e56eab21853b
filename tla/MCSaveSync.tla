----------------------------- MODULE MCSaveSync -----------------------------
(* Agents and server with model values for TLC.  Streams, handlers and keys *)
(* are chosen from, so only contents and devices are interchangeable.       *)
EXTENDS SaveSync, TLC

Symmetry == Permutations(Devices) \cup Permutations(Hashes)
=============================================================================
