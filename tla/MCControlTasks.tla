--------------------------- MODULE MCControlTasks ---------------------------
(* Instances of ControlTasks for TLC. *)
EXTENDS ControlTasks, TLC

\* The L2 workers are alike.
Alike == Permutations(L2Workers)
=============================================================================
