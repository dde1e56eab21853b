--------------------------- MODULE MCPackageReturn ---------------------------
(***************************************************************************)
(* One build of one game whose file is missing for a while, and a person    *)
(* who puts a file of their own where that of the game would go.            *)
(***************************************************************************)
EXTENDS PackageBuild

CONSTANTS w1, x1, sys
MCPathOf == [s \in Sources |-> x1]
MCSystemOf == [s \in Sources |-> sys]
=============================================================================
