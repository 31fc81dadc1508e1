--------------------------- MODULE MCLockSurface ---------------------------
(* Instances of LockSurface for TLC, with the service that the locks are   *)
(* still to implement: structs and ids are numbered, which breaks the      *)
(* symmetry between them.                                                  *)
EXTENDS LockSurface, LockRefinement, TLC

SurfaceSymmetry == Permutations(Windows) \cup Permutations(Outputs)
=============================================================================
