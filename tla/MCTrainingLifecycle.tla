--------------------------- MODULE MCTrainingLifecycle ---------------------------
(* Small instances of TrainingLifecycle for TLC. *)
EXTENDS TrainingLifecycle, TLC

Symmetry == Permutations(Run) \cup Permutations(Pid)
=============================================================================
