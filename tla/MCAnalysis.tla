----------------------------- MODULE MCAnalysis -----------------------------
(***************************************************************************)
(* Small sets of items for Analysis.                                       *)
(***************************************************************************)
EXTENDS Analysis

CONSTANTS t1, t2, n1, n2

MCClassOf == t1 :> "lightweight" @@ t2 :> "very_heavy"
MCMemoryOf == t1 :> 1 @@ t2 :> 2
MCAcceptsOf == n1 :> {"lightweight"}
MCUsableOf == n1 :> 1
MCEdge34 == {n1}

\* The lines a log of one task is made of.
LinesOf(t) ==
  {Submitted(t), Evicted(t), NodeError(t, n1), Decision("negative")}
  \cup {MemorySample(n2, "high"), MemorySample(n2, "low"), MemorySample(n1, "high")}
  \cup UNION {{Dispatched(t, n), Rejected(t, n), Completed(t, n)} : n \in Node}

Entries ==
  {ArrivalSpec(at, m) : at \in 0..1, m \in {<<1, 0>>, <<0, 2>>, <<3, 1>>, <<0, 0>>}}
  \cup {GeneratorArrivalSpec(at, gap, count, <<3, 1>>) : at \in 0..1, gap \in 0..1, count \in {-1, 0, 2, 3}}
  \cup {InjectMemory(at) : at \in 0..1}

\* In steps of 20 percent: about and at saturation, which is at 80.
Percentages == [node : {n1, n2}, pct : {0, 3, 4, 5}]

TaskRecords ==
  LET record(s, n, c, from, to) == [status |-> s, node |-> n, class |-> c, submitted |-> from, completed |-> to]
  IN  {record("completed", n, c, from, from + d) :
         n \in {"n1", "n2"}, c \in 1..2, from \in 1..2, d \in 1..2}
      \cup {record(s, "n1", 1, from, 0) : s \in {"dispatched", "rejected"}, from \in 1..2}
      \cup {record("pending", "none", 2, from, 0) : from \in 1..2}

\* Trials 1 and 2 of a scenario with three algorithms, one trial of another with two,
\* and two trials of a verification test.
Rows ==
  LET row(s, id, a, v) ==
        [scenario |-> s, comparison_id |-> id, algorithm |-> a, value |-> v, nodes |-> {"e1"}]
  IN  {row(<<"memory", "eval">>, i, a, v) :
         i \in 1..2, a \in {<<"min">>, <<"adaptive", "min">>, <<"other">>}, v \in 1..2}
      \cup {row(<<"memory", "low">>, 3, a, 1) : a \in {<<"min">>, <<"adaptive", "min">>}}
      \cup {row(<<"alpha">>, 4, <<"min">>, 1), row(<<"alpha">>, 5, <<"adaptive", "min">>, 1)}

Samples == [trial : 1..2, t : 0..3, value : {0, 2}]

Verdicts ==
  [test_type : {"alpha", "stress"}, test_id : {"a", "b"}, sub_run : {"none", "s"},
   algorithm : {"min", "adaptive"}, trial_index : 1..2, overall_passed : BOOLEAN]

Listed(S) == FoldSet(LAMBDA x, s : Append(s, x), <<>>, S)

MCItems ==
  [k \in {"entries", "pcts", "tasks", "rows", "samples", "verdicts", "light", "heavy"} |->
     Listed(CASE k = "entries" -> Entries [] k = "pcts" -> Percentages [] k = "tasks" -> TaskRecords
              [] k = "rows" -> Rows [] k = "samples" -> Samples [] k = "verdicts" -> Verdicts
              [] k = "light" -> LinesOf(t1) [] k = "heavy" -> LinesOf(t2))]

MCLongest == [entries |-> 3, pcts |-> 4, tasks |-> 3, rows |-> 6, samples |-> 5, verdicts |-> 3,
              light |-> 4, heavy |-> 4]
MCOrdered == {"entries", "pcts", "tasks", "light", "heavy"}
=============================================================================
