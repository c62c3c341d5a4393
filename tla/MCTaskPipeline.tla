--------------------------- MODULE MCTaskPipeline ---------------------------
(* TaskPipeline for TLC: the kinds of operation of each run, and symmetry.  *)
EXTENDS TaskPipeline, TLC

AllKinds  == DOMAIN Profile
PairKinds == {"command", "delete", "read"}
Perms     == Permutations(Tasks)
=============================================================================
