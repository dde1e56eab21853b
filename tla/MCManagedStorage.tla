-------------------------- MODULE MCManagedStorage --------------------------
(* Managed storage on its own, where a cleanup run is interrupted: two library
   entries, one with a blob, and what their files are called.                *)
EXTENDS ManagedStorage, TLC
CONSTANTS e1, e2, f1, f2, b1
MCRomsOf == e1 :> {f1} @@ e2 :> {f2}
MCBlobsOf == e1 :> {b1} @@ e2 :> {}
StorageSymmetry == Permutations(Requests)
=============================================================================
