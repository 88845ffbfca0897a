------------------------------ MODULE Analysis ------------------------------
(***************************************************************************)
(* The pure algorithms on their inputs.  A state is an input: a kind and a  *)
(* sequence of items of this kind, which the next step makes one longer.    *)
(***************************************************************************)
EXTENDS Verification, Workload, Reports

CONSTANTS
  Items,    \* of every kind, the items an input may be made of, numbered
  Longest,  \* how long an input of a kind may get
  Ordered,  \* the kinds of which the order of the items matters; otherwise an input
            \* is a set of items, in the order of their numbers
  Saturation, \* the share of a resource above which it counts as saturated
  Trials,   \* of the samples
  Offsets   \* of the grid of the plots

\* A name has a first word.
IsName(s) == s \in Seq(ToSet(s)) /\ s # <<>>

\* What the parser lets through: of a mix it checks the counts, of a generator nothing.
IsEntry(e) ==
  /\ e.kind \in {"arrival", "generator", "inject_memory"} /\ e.at \in Int
  /\ e.kind # "inject_memory" => e.mix \in [Class -> Nat]
  /\ e.kind = "generator" => e.interval \in Int /\ e.count \in Int

\* A record of a task: a task that is completed was submitted before.
IsTaskRecord(r) ==
  /\ r.class \in Class /\ r.submitted \in Nat /\ r.completed \in Nat
  /\ r.completed # 0 => r.submitted <= r.completed

\* Each kind is what the code reads: the lines of a log are about a task of the test
\* or about none; metrics, samples and their times are not negative; a scenario and an
\* algorithm have a name, and the trials of one comparison are of one scenario
\* (run_loaded_scenario names it after the scenario and the trial).
ASSUME AnalysisAssumption ==
  /\ DOMAIN Items = {"entries", "pcts", "tasks", "rows", "samples", "verdicts", "light", "heavy"}
  /\ Longest \in [DOMAIN Items -> Nat] /\ Ordered \subseteq DOMAIN Items
  /\ \A k \in {"light", "heavy"} : \A i \in DOMAIN Items[k] :
       Items[k][i].task = Nothing \/ Items[k][i] \in TaskLine \cup NodeErrors
  /\ \A i \in DOMAIN Items["rows"] : Items["rows"][i].value \in Nat
  /\ \A i, j \in DOMAIN Items["rows"] :
       Items["rows"][i].comparison_id = Items["rows"][j].comparison_id =>
         Items["rows"][i].scenario = Items["rows"][j].scenario
  /\ \A i \in DOMAIN Items["rows"] :
       IsName(Items["rows"][i].scenario) /\ IsName(Items["rows"][i].algorithm)
  /\ \A i \in DOMAIN Items["samples"] :
       Items["samples"][i].t \in Nat /\ Items["samples"][i].value \in Nat
  /\ \A i \in DOMAIN Items["entries"] : IsEntry(Items["entries"][i])
  /\ \A i \in DOMAIN Items["pcts"] : Items["pcts"][i].pct \in Nat
  /\ \A i \in DOMAIN Items["tasks"] : IsTaskRecord(Items["tasks"][i])
  /\ Saturation \in Nat \ {0} /\ IsFiniteSet(Trials) /\ Offsets \subseteq Nat

VARIABLE input

Init == input \in {[kind |-> k, items |-> <<>>, last |-> 0] : k \in DOMAIN Items}

\* The input gets one more item, of this number.
Extend(i, item) ==
  /\ Len(input.items) < Longest[input.kind]
  /\ input.kind \notin Ordered => input.last < i
  /\ input' = [input EXCEPT !.items = Append(@, item), !.last = i]

Next == LET choices == Items[input.kind] IN \E i \in DOMAIN choices : Extend(i, choices[i])

Spec == Init /\ [][Next]_input
-----------------------------------------------------------------------------
Is(kinds) == input.kind \in kinds
Read == input.items

\* Nine of the library's fourteen assertions pass on exactly the logs of a task that
\* tell what their docstrings ask for, the two on edge2's saturation where no task was
\* moved from node to node (nor waited in the queue while edge2 became saturated).
AssertionsExact == Is({"light", "heavy"}) => ExactOn(Read)

\* What is read is a scenario with n arrivals, the rest being its explicit events.
Arrivals(n) == SubSeq(Read, 1, n)
Explicit(n) == SubSeq(Read, n + 1, Len(Read))
IsScenario(n) ==
  \A i \in DOMAIN Read :
    Read[i].kind \in IF i <= n THEN {"arrival", "generator"} ELSE {"arrival", "inject_memory"}

\* The timeline of a scenario submits the declared tasks, each once and under an id of
\* its own, in order of time, then of declaration; generators spread theirs evenly.
TimelineFaithful ==
  Is({"entries"}) =>
    /\ \A n \in 0..Len(Read) :
         IsScenario(n) => NothingLost(Arrivals(n), Explicit(n)) /\ InTime(Arrivals(n), Explicit(n))
    /\ \A i \in DOMAIN Read :
         Read[i].kind = "generator" => EvenShares(Read[i].mix, Read[i].count)

\* The samples of each node among the percentages read.
SamplesByNode ==
  [n \in {Read[i].node : i \in DOMAIN Read} |->
     [i \in {j \in DOMAIN Read : Read[j].node = n} |-> Read[i].pct]]

\* The columns of a trial's row agree with one another: those of its tasks, and peak,
\* average, percentile and time above saturation of a resource.
RowConsistent ==
  /\ Is({"tasks"}) => RowAddsUp(Read, Class)
  /\ Is({"pcts"}) => /\ PeakMeetsTimeAbove(SamplesByNode, Saturation)
                     /\ PercentileIsOrderStatistic([i \in DOMAIN Read |-> Read[i].pct])

\* The paired test compares all algorithms on the same trials: its ranks are shared out
\* fairly, incomplete blocks have no say, and the summary's caveat about scenarios with
\* one algorithm is true of it.
TestFair ==
  Is({"rows"}) =>
    RanksAreFair(Read) /\ IncompleteBlocksIgnored(Read) /\ SingleContributesNothing(Read)

\* The bands of the plots are about the trials that were still running, and the index
\* of the plots keeps a scenario together.
PlotsFaithful ==
  LET series == [k \in Trials |-> {<<Read[i].t, Read[i].value>> : i \in {j \in DOMAIN Read : Read[j].trial = k}}]
      one_value == \A i, j \in DOMAIN Read :
                     i # j => <<Read[i].trial, Read[i].t>> # <<Read[j].trial, Read[j].t>>
  IN  /\ Is({"samples"}) /\ one_value => BandHoldsSamples(series, Offsets)
      /\ Is({"rows"}) => PlotsOfAScenarioTogether(Read)

\* The verification report counts every verdict and hides no failure.
ReportTellsAll == Is({"verdicts"}) => VerdictsAddUp(Read)
=============================================================================
