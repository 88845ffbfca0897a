----------------------------- MODULE Statistics -----------------------------
(***************************************************************************)
(* What is computed of the trials: the columns of a row of runs.csv         *)
(* (scheduler/trial_recorder.py), and the paired test over these rows       *)
(* (scheduler/analysis/friedman.py).                                        *)
(*                                                                         *)
(* Values are integers and means are fractions, so nothing is rounded.      *)
(***************************************************************************)
EXTENDS SequencesExt, Integers, Load

CONSTANTS
  Scale   \* what values are multiplied by, to make the fractions of a line whole

ASSUME StatisticsAssumption == Scale \in Nat \ {0}

\* The fraction n/d as <<n, d>>.
LessEq(x, y) == x[1] * y[2] <= y[1] * x[2]
Same(x, y) == LessEq(x, y) /\ LessEq(y, x)

-----------------------------------------------------------------------------
\* Values are a function on any finite set: on the positions of a list, on the tasks or
\* the samples they are of.
Count(values) == Cardinality(DOMAIN values)
Total(values) == LoadOf(DOMAIN values, values)

\* statistics.fmean; the callers write 0.0 for no values.
fmean(values) == IF DOMAIN values = {} THEN <<0, 1>> ELSE <<Total(values), Count(values)>>

Smaller(values, v) == {i \in DOMAIN values : values[i] < v}
NoLarger(values, v) == {i \in DOMAIN values : values[i] <= v}

\* The k-th value has fewer than k before it, and no fewer than k with its equals.
sorted(values) ==
  [k \in 1..Count(values) |->
     CHOOSE v \in Range(values) :
       Cardinality(Smaller(values, v)) < k /\ k <= Cardinality(NoLarger(values, v))]

\* _percentile, in hundredths: linear between the two nearest ranks.
percentile(values, pct) ==
  LET s == sorted(values)
      n == Count(values)
      pos == pct * (n - 1)
      lo == pos \div 100
      hi == IF lo + 1 < n THEN lo + 1 ELSE n - 1
  IN  IF n = 0 THEN 0
      ELSE 100 * s[lo + 1] + (s[hi + 1] - s[lo + 1]) * (pos % 100)

\* statistics.median, doubled.
median(values) ==
  LET s == sorted(values)
      n == Count(values)
  IN  s[(n + 1) \div 2] + s[(n + 2) \div 2]

\* A sample at the threshold counts.
saturated(p, saturation_pct) == p >= saturation_pct

\* A node's samples at or above the threshold, one a second.
seconds_above(pcts, saturation_pct) ==
  Cardinality({i \in DOMAIN pcts : saturated(pcts[i], saturation_pct)})

\* The mean of a node, times Scale (rounded down if the number of samples is no divisor).
node_avg(pcts) == (Scale * Total(pcts)) \div Count(pcts)

\* _aggregate_utilization of the samples of each node.
aggregate_utilization(samples, saturation_pct) ==
  LET seen == {n \in DOMAIN samples : DOMAIN samples[n] # {}}
  IN  IF seen = {} THEN [avg |-> <<0, 1>>, peak |-> 0, p95 |-> <<0, 1>>, above |-> 0]
      ELSE [avg   |-> <<LoadOf(seen, [n \in seen |-> node_avg(samples[n])]), Scale * Cardinality(seen)>>,
            peak  |-> Max({Max(Range(samples[n])) : n \in seen}),
            p95   |-> <<LoadOf(seen, [n \in seen |-> percentile(samples[n], 95)]), 100 * Cardinality(seen)>>,
            above |-> LoadOf(seen, [n \in seen |-> seconds_above(samples[n], saturation_pct)])]

-----------------------------------------------------------------------------
\* Mutant of first_submission: that of the first record.
submission_of_first(tasks) == tasks[1].submitted
first_submission(tasks) == Min({tasks[i].submitted : i \in DOMAIN tasks})

With(tasks, status) == {i \in DOMAIN tasks : tasks[i].status = status}
completed_tasks(tasks) == {i \in With(tasks, "completed") : tasks[i].completed # 0}
OfClass(tasks, I, c) == {i \in I : tasks[i].class = c}
response_times(tasks, I) == [i \in I |-> tasks[i].completed - tasks[i].submitted]

makespan(tasks) ==
  LET done == completed_tasks(tasks)
  IN  IF done = {} THEN 0 ELSE Max({tasks[i].completed : i \in done}) - first_submission(tasks)

\* statistics.pvariance of the tasks per node, times the square of the number of nodes.
workload_variance(tasks) ==
  LET placed == {i \in With(tasks, "completed") \cup With(tasks, "dispatched") : tasks[i].node # "none"}
      nodes == {tasks[i].node : i \in placed}
      square == [n \in nodes |-> Cardinality({i \in placed : tasks[i].node = n}) ^ 2]
  IN  IF Cardinality(nodes) < 2 THEN 0
      ELSE Cardinality(nodes) * LoadOf(nodes, square) - Cardinality(placed) ^ 2

\* _compute_trial_result: the columns that are computed of the task records.
compute_trial_result(tasks, classes) ==
  LET done == completed_tasks(tasks)
      rejected == With(tasks, "rejected")
      response == response_times(tasks, done)
  IN  [makespan  |-> makespan(tasks),
       avg_rt    |-> fmean(response),
       p50       |-> IF done = {} THEN 0 ELSE median(response),
       p95       |-> percentile(response, 95),
       variance  |-> workload_variance(tasks),
       total     |-> Len(tasks),
       completed |-> Cardinality(done),
       rejected  |-> Cardinality(rejected),
       failed    |-> Cardinality(With(tasks, "failed")),
       completed_by_class |-> [c \in classes |-> Cardinality(OfClass(tasks, done, c))],
       rejected_by_class  |-> [c \in classes |-> Cardinality(OfClass(tasks, rejected, c))],
       avg_rt_by_class    |-> [c \in classes |-> fmean(response_times(tasks, OfClass(tasks, done, c)))]]

-----------------------------------------------------------------------------
\* The pivot of runs.csv: a row per comparison_id, a column per algorithm, the mean of
\* the values where there are several.
Algorithms(rows) == {rows[i].algorithm : i \in DOMAIN rows}
Cell(rows, b, a) == {i \in DOMAIN rows : rows[i].comparison_id = b /\ rows[i].algorithm = a}
pivot_table(rows, b, a) ==
  LET cell == Cell(rows, b, a)
  IN  <<LoadOf(cell, [i \in cell |-> rows[i].value]), Cardinality(cell)>>

Blocks(rows) == {rows[i].comparison_id : i \in DOMAIN rows}

\* Mutant of dropna: how="all".
dropna_all(rows) == Blocks(rows)

\* how="any": a block stays if every algorithm of the file has a value in it.
dropna(rows) ==
  {b \in Blocks(rows) : \A a \in Algorithms(rows) : Cell(rows, b, a) # {}}

\* Twice the average rank of an algorithm in a block.
rank(rows, b, a) ==
  LET mine == pivot_table(rows, b, a)
      below == {c \in Algorithms(rows) : ~LessEq(mine, pivot_table(rows, b, c))}
      equal == {c \in Algorithms(rows) : Same(mine, pivot_table(rows, b, c))}
  IN  2 * Cardinality(below) + Cardinality(equal) + 1

NoResult == [test_name |-> "none"]

\* _test_one_metric, but for SciPy's statistic; mean_rank is summed over the blocks.
test_one_metric(rows) ==
  LET blocks == dropna(rows)
      algorithms == IF blocks = {} THEN {} ELSE Algorithms(rows)
      differ == \E b \in blocks, a \in algorithms, c \in algorithms :
                  ~Same(pivot_table(rows, b, a), pivot_table(rows, b, c))
  IN  IF \/ Cardinality(Algorithms(rows)) < 2
         \/ Cardinality(blocks) < 2
         \/ Cardinality(algorithms) = 2 /\ ~differ
        THEN NoResult
        ELSE [test_name |-> IF Cardinality(algorithms) = 2 THEN "wilcoxon_signed_rank" ELSE "friedman",
              df |-> IF Cardinality(algorithms) = 2 THEN 0 ELSE Cardinality(algorithms) - 1,
              n_blocks |-> Cardinality(blocks),
              mean_rank |-> [a \in algorithms |-> LoadOf(blocks, [b \in blocks |-> rank(rows, b, a)])]]

-----------------------------------------------------------------------------
\* The percentile is the median at 50, grows with the rank asked for, and at every
\* rank is no more than the values that leave enough below them and no less than those
\* that leave enough above, as an order statistic must be.
PercentileIsOrderStatistic(values) ==
  DOMAIN values # {} =>
    /\ 2 * percentile(values, 50) = 100 * median(values)
    /\ \A p \in {0, 25, 50, 75, 95, 100} :
         LET x == percentile(values, p)
             below == Cardinality({i \in DOMAIN values : 100 * values[i] < x})
             above == Cardinality({i \in DOMAIN values : 100 * values[i] > x})
         IN  /\ 100 * (below - 1) < p * (Count(values) - 1) \/ below = 0
             /\ 100 * (above - 1) < (100 - p) * (Count(values) - 1) \/ above = 0
             /\ x <= percentile(values, 100)

\* The columns of a resource tell one story: the peak reaches saturation exactly in the
\* trials that spent time there, and bounds the average and the 95th percentile.
PeakMeetsTimeAbove(samples, saturation_pct) ==
  LET u == aggregate_utilization(samples, saturation_pct)
  IN  /\ u.peak >= saturation_pct <=> u.above > 0
      /\ LessEq(u.avg, <<u.peak, 1>>) /\ LessEq(u.p95, <<u.peak, 1>>)

\* No task took longer than the trial, whichever was recorded first; the columns by
\* class add up to the totals, and no record counts as two outcomes.
RowAddsUp(tasks, classes) ==
  LET row == compute_trial_result(tasks, classes)
  IN  /\ \A i \in DOMAIN tasks :
           tasks[i].status = "completed" => tasks[i].completed - tasks[i].submitted <= row.makespan
      /\ row.p50 <= 2 * row.makespan /\ row.p95 <= 100 * row.makespan
      /\ LoadOf(classes, row.completed_by_class) = row.completed
      /\ LoadOf(classes, row.rejected_by_class) = row.rejected
      /\ row.completed + row.rejected + row.failed <= row.total
      /\ LoadOf(classes, [c \in classes |-> row.avg_rt_by_class[c][1]]) = row.avg_rt[1]

\* The ranks of a block are shared out in full, ties included; and an algorithm that is
\* nowhere worse than another and somewhere better has the lower mean rank.
RanksAreFair(rows) ==
  LET result == test_one_metric(rows)
      blocks == dropna(rows)
      k == Cardinality(Algorithms(rows))
      no_worse(a, c) == \A b \in blocks : LessEq(pivot_table(rows, b, a), pivot_table(rows, b, c))
  IN  result # NoResult =>
        /\ LoadOf(Algorithms(rows), result.mean_rank) = result.n_blocks * k * (k + 1)
        /\ \A a, c \in Algorithms(rows) :
             no_worse(a, c) /\ ~no_worse(c, a) => result.mean_rank[a] < result.mean_rank[c]

\* A trial that some algorithm did not finish, and a verification trial, which is in a
\* block of its own, change nothing in the test of the other trials, as long as they
\* bring no further algorithm into the file.
IncompleteBlocksIgnored(rows) ==
  LET kept == [i \in {j \in DOMAIN rows : rows[j].comparison_id \in dropna(rows)} |-> rows[i]]
  IN  Algorithms(kept) = Algorithms(rows) => test_one_metric(kept) = test_one_metric(rows)
=============================================================================
