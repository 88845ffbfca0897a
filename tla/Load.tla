-------------------------------- MODULE Load --------------------------------
(***************************************************************************)
(* Resource totals.  Both edge managers and the scheduler's mirror keep a  *)
(* dictionary from task ids to an amount (kilobytes or cores) and compare  *)
(* its sum with a capacity.  The sum is written here as the number of unit *)
(* cells the tasks occupy, one cell per kilobyte or core: the cardinality  *)
(* of a disjoint union is the sum of the cardinalities, and it is a form   *)
(* the finite-set library can reason about without induction.              *)
(***************************************************************************)
EXTENDS Naturals, FiniteSets

\* The unit cells that the members of S occupy, size[x] of them for each x.
Cells(S, size) == UNION {{x} \X (1..size[x]) : x \in S}

\* The sum of size[x] over the members of S.
LoadOf(S, size) == Cardinality(Cells(S, size))
=============================================================================
