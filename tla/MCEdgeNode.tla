----------------------------- MODULE MCEdgeNode -----------------------------
(***************************************************************************)
(* Small edge nodes for TLC.  Three calls compete: enough for a task that  *)
(* is finishing, a retry of the same task and a call for another task.     *)
(* Task "small" fits beside "large" in memory but not on a single core, so *)
(* the second reservation can fail after the first; "alien" is of a class  *)
(* the node does not accept; an injection takes the memory either needs.   *)
(***************************************************************************)
EXTENDS EdgeNode, TLC

CONSTANTS large, small, alien, block

MCTask == {large, small, alien}
MCAccepted == {large, small}
MCMemoryKb == large :> 2 @@ small :> 1 @@ alien :> 1
MCCores == large :> 1 @@ small :> 1 @@ alien :> 1
MCBlock == {block}
MCBlockKb == block :> 2

\* Calls are interchangeable; so sound for the runs without liveness.
CallSymmetry == Permutations(Call)
=============================================================================
