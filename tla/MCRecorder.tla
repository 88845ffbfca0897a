----------------------------- MODULE MCRecorder -----------------------------
(***************************************************************************)
(* Instances of TrialRecorder for TLC.                                     *)
(***************************************************************************)
EXTENDS TrialRecorder, TLC

\* Task ids, nodes and workers are interchangeable.
Symmetry == Permutations(Task) \cup Permutations(Node) \cup Permutations(Worker)
=============================================================================
