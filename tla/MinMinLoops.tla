---------------------------- MODULE MinMinLoops ----------------------------
(***************************************************************************)
(* The inner loops of schedule() as they are written, to be compared with  *)
(* the selection rule that MinMin states.                                  *)
(***************************************************************************)
EXTENDS MinMin

\* Mutant of Better: the last of equally good pairs wins.
BetterOrEqual(a, b) == b = <<>> \/ Cost(a[1], a[2]) <= Cost(b[1], b[2])

\* Whether a pair replaces the best so far, <<>> being None.
Better(a, b) == b = <<>> \/ Cost(a[1], a[2]) < Cost(b[1], b[2])

\* The best of N pairs, which a loop takes as they come; a pair may be None.
KeepBest(pair, N) ==
  LET best[k \in 0..N] ==
        IF k = 0 THEN <<>>
        ELSE IF pair[k] # <<>> /\ Better(pair[k], best[k - 1]) THEN pair[k] ELSE best[k - 1]
  IN  best[N]

\* The best feasible node for one task, and the best task.
BestNode(t) ==
  LET At(k) == {n \in Node : NodeRank[n] = k /\ Feasible(t, n)}
      N == Cardinality(Node)
  IN  KeepBest([k \in 1..N |-> IF At(k) = {} THEN <<>> ELSE <<t, CHOOSE n \in At(k) : TRUE>>], N)

BestPair ==
  LET At(k) == {t \in left : rank[t] = k}
      N == Cardinality(DOMAIN rank)
  IN  KeepBest([k \in 1..N |-> IF At(k) = {} THEN <<>> ELSE BestNode(CHOOSE t \in At(k) : TRUE)], N)

\* The nested loops end with the one pair the selection rule prefers to all
\* others, ties included, and with none exactly when nothing is feasible.
LoopsFindBest ==
  pc = "choosing" => IF Options = {} THEN BestPair = <<>> ELSE Best(BestPair)
=============================================================================
