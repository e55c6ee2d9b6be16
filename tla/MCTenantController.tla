------------------------- MODULE MCTenantController -------------------------
(***************************************************************************)
(* Instances of TenantController for TLC.  The bounds are the Max...       *)
(* constants; each .cfg chooses which of the environments it explores.     *)
(***************************************************************************)
EXTENDS TenantRefinement, TLC

\* Package contents and repositories are interchangeable in safety runs.
Symmetry == Permutations(Bodies) \cup Permutations(Repos)
=============================================================================
