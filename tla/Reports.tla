------------------------------- MODULE Reports -------------------------------
(***************************************************************************)
(* What is shown of the trials: the bands of the time-series plots          *)
(* (scheduler/analysis/timeseries.py), the caveats and the plot index of    *)
(* the summary (scheduler/analysis/report.py), the sections of the          *)
(* verification report (verification/report.py).                            *)
(*                                                                         *)
(* A name is the sequence of its words, which an underscore separates.      *)
(***************************************************************************)
EXTENDS Statistics

CONSTANTS NaN

ASSUME ReportsAssumption == NaN \notin Int \cup (Int \X Int)

-----------------------------------------------------------------------------
\* A sample is <<t, value>>; the samples of a node in a trial are at different times.
Before(series, g) == {s \in series : s[1] <= g}
After(series, g) == {s \in series : s[1] >= g}
Latest(series) == CHOOSE s \in series : \A r \in series : r[1] <= s[1]
Earliest(series) == CHOOSE s \in series : \A r \in series : r[1] >= s[1]

\* np.interp: the line between the samples about g, the first value before the first.
interp(series, g) ==
  IF Before(series, g) = {} THEN Scale * Earliest(series)[2]
  ELSE LET l == Latest(Before(series, g))
           r == Earliest(After(series, g))
       IN  IF l = r THEN Scale * l[2]
           ELSE Scale * l[2] + ((r[2] - l[2]) * (g - l[1]) * Scale) \div (r[1] - l[1])

\* Mutant of resample: the last value is carried on.
resample_on(series, g) ==
  CASE series = {} -> NaN
    [] series # {} /\ After(series, g) = {} -> Scale * Latest(series)[2]
    [] OTHER -> interp(series, g)

\* _resample_to_grid at one offset, times Scale: nothing beyond the last sample.
resample(series, g) ==
  CASE series = {} \/ After(series, g) = {} -> NaN
    [] OTHER -> interp(series, g)

\* _aggregate_per_node_pct for one node and one offset: mean, lo and hi of the trials
\* that have a value there.
aggregate(trials, g) ==
  LET values == [i \in DOMAIN trials |-> resample(trials[i], g)]
      there == {i \in DOMAIN values : values[i] # NaN}
  IN  IF there = {} THEN [mean |-> NaN, lo |-> NaN, hi |-> NaN]
      ELSE [mean |-> <<LoadOf(there, values), Cardinality(there)>>,
            lo   |-> Min({values[i] : i \in there}),
            hi   |-> Max({values[i] : i \in there})]

\* regenerate_plots, for rows with a scenario, an algorithm and the nodes sampled in
\* their logs: three files for each row, named after scenario and algorithm, and two for
\* each node that was sampled under several algorithms.
plot_name(row) == row.scenario \o row.algorithm
Sampled(rows, s, n) ==
  {rows[i].algorithm : i \in {j \in DOMAIN rows : rows[j].scenario = s /\ n \in rows[j].nodes}}

trial_plots(rows) ==
  {plot_name(rows[i]) \o <<k>> : i \in {j \in DOMAIN rows : rows[j].nodes # {}},
                                 k \in {"memory.png", "cpu.png", "distribution.png"}}
overlay_name(row, n, k) == row.scenario \o <<n, k, "overlay.png">>
overlays_of(rows, i) ==
  {overlay_name(rows[i], n, k) :
     n \in {m \in rows[i].nodes : Cardinality(Sampled(rows, rows[i].scenario, m)) >= 2},
     k \in {"memory", "cpu"}}
overlays(rows) == UNION {overlays_of(rows, i) : i \in DOMAIN rows}
plots(rows) == trial_plots(rows) \cup overlays(rows)

\* _section_plot_index: the heading a plot is listed under.
heading(p) == <<Head(p)>>

-----------------------------------------------------------------------------
\* _section_caveats: the scenarios said to contribute nothing to the test.
single(rows) ==
  {s \in {rows[i].scenario : i \in DOMAIN rows} :
     Cardinality({rows[i].algorithm : i \in {j \in DOMAIN rows : rows[j].scenario = s}}) < 2}

-----------------------------------------------------------------------------
\* verification/report.py: a line per algorithm under a sub-run under a test under a
\* type; the types without a header of their own come last.
TYPE_ORDER == {"alpha", "beta", "whitebox", "blackbox"}

\* Mutant of types: only those with a header of their own.
types_known(verdicts) == {v.test_type : v \in ToSet(verdicts)} \cap TYPE_ORDER
types(verdicts) == types_known(verdicts) \cup ({v.test_type : v \in ToSet(verdicts)} \ TYPE_ORDER)

Key(v) == <<v.test_id, v.sub_run, v.algorithm>>

Passing(verdicts) == {i \in DOMAIN verdicts : verdicts[i].overall_passed}
OfType(verdicts, type) == {i \in DOMAIN verdicts : verdicts[i].test_type = type}
Under(verdicts, type, key) == {i \in OfType(verdicts, type) : Key(verdicts[i]) = key}
OfTest(verdicts, type, id) == {i \in OfType(verdicts, type) : verdicts[i].test_id = id}

\* The line of an algorithm, with the icon of the test it is under.
line(verdicts, type, key) ==
  [type |-> type, key |-> key,
   passed |-> Cardinality(Under(verdicts, type, key) \cap Passing(verdicts)),
   total |-> Cardinality(Under(verdicts, type, key)),
   test_icon |-> OfTest(verdicts, type, key[1]) \subseteq Passing(verdicts)]

section(verdicts, type) ==
  {line(verdicts, type, Key(verdicts[i])) : i \in OfType(verdicts, type)}

report(verdicts) ==
  [lines    |-> UNION {section(verdicts, type) : type \in types(verdicts)},
   overall  |-> Passing(verdicts) = DOMAIN verdicts,
   failures |-> DOMAIN verdicts \ Passing(verdicts)]

-----------------------------------------------------------------------------
\* The plotted band holds every sample taken at an offset of the grid, the mean is
\* within it, and it ends with the last sample of the longest trial: a trial that has
\* ended pulls the mean of the others nowhere.
BandHoldsSamples(trials, grid) ==
  \A g \in grid :
    LET band == aggregate(trials, g)
        going == {i \in DOMAIN trials : After(trials[i], g) # {}}
    IN  /\ band.mean = NaN <=> going = {}
        /\ going # {} =>
             /\ band.mean[2] = Cardinality(going)
             /\ LessEq(<<band.lo, 1>>, band.mean) /\ LessEq(band.mean, <<band.hi, 1>>)
             /\ \A i \in going : \A s \in trials[i] :
                  s[1] = g => band.lo <= Scale * s[2] /\ Scale * s[2] <= band.hi

\* The plots of one scenario are listed together, under a heading its name begins with.
PlotsOfAScenarioTogether(rows) ==
  LET files == plots(rows)
  IN  \A i \in {j \in DOMAIN rows : rows[j].nodes # {}} :
        \E h \in {heading(p) : p \in files} :
          /\ IsPrefix(h, rows[i].scenario)
          /\ \A p \in files : IsPrefix(rows[i].scenario, p) => heading(p) = h

\* A scenario the summary says contributes nothing to the test has no row in any of the
\* blocks the test keeps, as long as the file holds two algorithms.
SingleContributesNothing(rows) ==
  Cardinality(Algorithms(rows)) >= 2 =>
    \A i \in DOMAIN rows : rows[i].scenario \in single(rows) => rows[i].comparison_id \notin dropna(rows)

\* Every verdict is counted in one line of the report, and a failure shows wherever one
\* looks: at the top, at its test, in the count of its line and in the detail.
VerdictsAddUp(verdicts) ==
  LET r == report(verdicts)
  IN  /\ LoadOf(r.lines, [l \in r.lines |-> l.total]) = Len(verdicts)
      /\ LoadOf(r.lines, [l \in r.lines |-> l.passed]) + Cardinality(r.failures) = Len(verdicts)
      /\ r.overall <=> \A l \in r.lines : l.passed = l.total
      /\ \A i \in r.failures : \E l \in r.lines :
           /\ l.type = verdicts[i].test_type /\ l.key = Key(verdicts[i])
           /\ ~l.test_icon /\ l.passed < l.total
=============================================================================
