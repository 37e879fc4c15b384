------------------------- MODULE MCBackgroundTasks --------------------------
(* BackgroundTasks with interchangeable targets.                           *)
EXTENDS BackgroundTasks
AnyTarget == Permutations(Target)
=============================================================================
