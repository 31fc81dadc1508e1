--------------------------- MODULE MCSessionLock ---------------------------
(* Instances of SessionLock for TLC.                                       *)
EXTENDS LockRefinement, TLC

Symmetry == Permutations(Objs) \cup Permutations(Locks)
=============================================================================
