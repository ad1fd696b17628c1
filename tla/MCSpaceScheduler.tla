------------------------- MODULE MCSpaceScheduler -------------------------
(* Small instances of SpaceScheduler. *)
EXTENDS SpaceScheduler, TLC

TaskSymmetry == Permutations(Tasks)
===========================================================================
