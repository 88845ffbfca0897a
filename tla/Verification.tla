---------------------------- MODULE Verification ----------------------------
(***************************************************************************)
(* The assertions a verification test may name                             *)
(* (verification/assertions/library.py), as predicates of the event log    *)
(* they are evaluated on, and what their docstrings ask for.               *)
(***************************************************************************)
EXTENDS EventLog, FiniteSets

CONSTANTS
  ClassOf,      \* the class of each task
  MemoryOf,     \* its memory_kb
  AcceptsOf,    \* accepted_classes of the test's nodes, by node id
  UsableOf,     \* usable_ram_kb of these nodes
  Edge1,        \* the ids the assertions name
  Edge2,
  Edge34

Classes == {"lightweight", "moderate", "heavy", "very_heavy"}
Terminal == {"completed", "failed", "rejected"}

\* None is the name of nothing.
ASSUME VerificationAssumption ==
  /\ ClassOf \in [Task -> Classes] /\ MemoryOf \in [Task -> Nat]
  /\ DOMAIN AcceptsOf \subseteq Node /\ AcceptsOf \in [DOMAIN AcceptsOf -> SUBSET Classes]
  /\ UsableOf \in [DOMAIN AcceptsOf -> Nat]
  /\ Edge1 \in Node /\ Edge2 \in Node /\ Edge34 \subseteq Node
  /\ Nothing \notin Task \cup Node \cup Classes \cup Terminal \cup {"pending", "dispatched"}

ModeratePlus == {"moderate", "heavy", "very_heavy"}

\* Lines that only these assertions look at.
NodeError(t, n) == Noted("task_rejected", t, n, "node_error")
NodeErrors == {NodeError(t, n) : t \in Task, n \in Node}
MemorySample(n, level) == Noted("memory_sample", Nothing, n, level)
Decision(sign) == Noted("scheduling_decision", Nothing, Nothing, sign)

-----------------------------------------------------------------------------
\* TestContext: the records, and the lines themselves.  "drained" is
\* trial_completed_within_timeout.
Records(recs) == {t \in Task : recs[t] # NoRecord}
Assignments(recs) == {t \in Task : recs[t].node # Nothing}

\* A key that only the submission sets is missing from a record without one.
ClassIn(recs, t) == IF recs[t].known THEN ClassOf[t] ELSE Nothing
MemoryIn(recs, t) == IF recs[t].known THEN MemoryOf[t] ELSE 0

\* memory_samples_for: the places of a node's samples at or above 80%.
HighSamples(log, n) == {i \in DOMAIN log : log[i] = MemorySample(n, "high")}

-----------------------------------------------------------------------------
\* Mutant of all_tasks_have_terminal_status: only pending tasks are unfinished.
all_tasks_have_left_the_queue(recs) == \A t \in Records(recs) : recs[t].status # "pending"

all_tasks_have_terminal_status(recs) == \A t \in Records(recs) : recs[t].status \in Terminal

no_task_skipped(recs) == all_tasks_have_terminal_status(recs)

\* TaskClass(None) raises ValueError, which counts as a violation.
no_unsupported_allocations(recs) ==
  \A t \in Assignments(recs) :
    recs[t].node \in DOMAIN AcceptsOf => ClassIn(recs, t) \in AcceptsOf[recs[t].node]

\* Counted over the records, of which there is one per task id.
no_duplicate_assignments(recs) ==
  \A t \in Assignments(recs) : Cardinality({r \in Assignments(recs) : r = t}) <= 1

all_assignments_logged(recs) ==
  \A t \in Records(recs) : recs[t].status \in {"dispatched", "completed"} => recs[t].node # Nothing

sufficient_memory_for_each_assignment(recs) ==
  \A t \in Assignments(recs) :
    recs[t].node \in DOMAIN UsableOf => MemoryIn(recs, t) <= UsableOf[recs[t].node]

edge1_only_lightweight(recs) ==
  \A t \in Assignments(recs) : recs[t].node = Edge1 => ClassIn(recs, t) = "lightweight"

very_heavy_only_on_edge3_or_edge4(recs) ==
  \A t \in Assignments(recs) : ClassIn(recs, t) = "very_heavy" => recs[t].node \in Edge34

scheduler_did_not_hang(drained) == drained

no_node_crashed(log) == \A t \in Task, n \in Node : ~Contains(log, NodeError(t, n))

no_unhandled_exceptions == TRUE

valid_scheduling_decisions_throughout(log) == ~Contains(log, Decision("negative"))

\* dispatched_at_rel lies after edge2's first sample at or above 80%.
SaturatedBefore(log, rec) == \E i \in HighSamples(log, Edge2) : i < rec.since

moderate_plus_redirected_after_saturation(log, recs) ==
  /\ HighSamples(log, Edge2) # {}
  /\ \A t \in Assignments(recs) :
       ~(SaturatedBefore(log, recs[t]) /\ recs[t].node = Edge2 /\ ClassIn(recs, t) \in ModeratePlus)

adaptive_trigger_activated(log, recs) ==
  \E t \in Assignments(recs) :
    SaturatedBefore(log, recs[t]) /\ ClassIn(recs, t) \in ModeratePlus /\ recs[t].node # Edge2

\* _run_one_trial evaluates the assertions the test names; no name, no failure.
Outcome(name, log, drained) ==
  LET recs == Replay(log)
  IN  CASE name = "all_tasks_have_terminal_status" -> all_tasks_have_terminal_status(recs)
        [] name = "no_task_skipped" -> no_task_skipped(recs)
        [] name = "no_unsupported_allocations" -> no_unsupported_allocations(recs)
        [] name = "no_duplicate_assignments" -> no_duplicate_assignments(recs)
        [] name = "all_assignments_logged" -> all_assignments_logged(recs)
        [] name = "sufficient_memory_for_each_assignment" ->
             sufficient_memory_for_each_assignment(recs)
        [] name = "edge1_only_lightweight" -> edge1_only_lightweight(recs)
        [] name = "very_heavy_only_on_edge3_or_edge4" -> very_heavy_only_on_edge3_or_edge4(recs)
        [] name = "scheduler_did_not_hang" -> scheduler_did_not_hang(drained)
        [] name = "no_node_crashed" -> no_node_crashed(log)
        [] name = "no_unhandled_exceptions" -> no_unhandled_exceptions
        [] name = "valid_scheduling_decisions_throughout" ->
             valid_scheduling_decisions_throughout(log)
        [] name = "moderate_plus_redirected_after_saturation" ->
             moderate_plus_redirected_after_saturation(log, recs)
        [] name = "adaptive_trigger_activated" -> adaptive_trigger_activated(log, recs)

Passed(names, log, drained) == \A name \in names : Outcome(name, log, drained)
-----------------------------------------------------------------------------
\* What the docstrings ask of the trial, said of the lines of its log.  A task that a
\* line speaks of was submitted, whether or not its submission is among them; and a
\* task has one assignment, as TestContext has it, that of the node it is last with.

About(log, t, types) == {i \in DOMAIN log : log[i].task = t /\ log[i].type \in types}
Ended == {"task_completed", "task_rejected", "task_evicted"}
Placed == {"task_dispatched", "task_rejected"}

Told(log, t) == Contains(log, Submitted(t))
LastOf(log, I) == log[CHOOSE i \in I : \A j \in I : j <= i]

\* Whoever spoke last of the task, other than its submission, said that it ended.  A
\* refusal is such an end: the docstring counts "rejected", which the scheduler also
\* says of a task that is in its queue again.
LastWordIsAnEnd(log, t) ==
  LET said == About(log, t, Ended \cup {"task_dispatched"})
  IN  said # {} /\ LastOf(log, said).type \in Ended

\* Where the task is taken to be: the node last asked, or else the node that first
\* reported it complete.
Whereabouts(log, t) ==
  LET asked == About(log, t, Placed)
      told == About(log, t, {"task_completed"})
  IN  CASE asked # {} -> LastOf(log, asked).node
        [] asked = {} /\ told # {} -> log[CHOOSE i \in told : \A j \in told : i <= j].node
        [] OTHER -> Nothing

\* Lines on the task's submission, on its dispatches, and those of them that come after
\* edge2's first sample at or above 80%.
Asked(log, t) == About(log, t, {"task_submitted"})
Sent(log, t) == About(log, t, {"task_dispatched"})
Saturated(log, I) == {i \in I : \E h \in HighSamples(log, Edge2) : h < i}

\* The two assertions on edge2's saturation have no value without one ("cannot evaluate
\* trigger"): they fail.
Meaning(log, name) ==
  LET Mentioned == {t \in Task : \E i \in DOMAIN log : log[i].task = t}
      At(t) == Whereabouts(log, t)
      Large == {t \in Mentioned : Told(log, t) /\ ClassOf[t] \in ModeratePlus}
  IN  CASE name \in {"all_tasks_have_terminal_status", "no_task_skipped"} ->
             \A t \in Mentioned : LastWordIsAnEnd(log, t)
        [] name = "no_unsupported_allocations" ->
             \A t \in Mentioned :
               At(t) \in DOMAIN AcceptsOf => Told(log, t) /\ ClassOf[t] \in AcceptsOf[At(t)]
        [] name = "all_assignments_logged" ->
             \A t \in Mentioned :
               About(log, t, {"task_dispatched", "task_completed"}) # {} => At(t) \in Node
        [] name = "sufficient_memory_for_each_assignment" ->
             \A t \in Mentioned :
               (Told(log, t) /\ At(t) \in DOMAIN UsableOf) => MemoryOf[t] <= UsableOf[At(t)]
        [] name = "edge1_only_lightweight" ->
             \A t \in Mentioned : At(t) = Edge1 => Told(log, t) /\ ClassOf[t] = "lightweight"
        [] name = "very_heavy_only_on_edge3_or_edge4" ->
             \A t \in Mentioned :
               (Told(log, t) /\ ClassOf[t] = "very_heavy") => At(t) \in Edge34 \cup {Nothing}
        [] name = "moderate_plus_redirected_after_saturation" ->
             /\ HighSamples(log, Edge2) # {}
             /\ \A t \in Large : \A i \in Saturated(log, Sent(log, t)) : log[i].node # Edge2
        [] name = "adaptive_trigger_activated" ->
             \E t \in Large :
               Saturated(log, Asked(log, t)) # {} /\ \E i \in Sent(log, t) : log[i].node # Edge2

\* The assertions that look at the records, but for no_duplicate_assignments, which no
\* log fails.  The other four look at the time-out, at one kind of line, or at nothing.
Meant == {"all_tasks_have_terminal_status", "no_task_skipped", "no_unsupported_allocations",
          "all_assignments_logged", "sufficient_memory_for_each_assignment",
          "edge1_only_lightweight", "very_heavy_only_on_edge3_or_edge4"}

\* No task was given to one node after another.
PlacedOnce(log) ==
  \A t \in Task : \A i, j \in About(log, t, Placed) : log[i].node = log[j].node

\* No task was submitted before edge2 was saturated and dispatched after that.
NoneWaited(log) ==
  \A t \in Task : \A i \in Asked(log, t), j \in Sent(log, t) :
    i \in Saturated(log, Asked(log, t)) <=> j \in Saturated(log, Sent(log, t))

\* These assertions pass on exactly the logs that tell what their docstrings ask for,
\* in whichever order the threads wrote their lines and whichever lines are missing.
\* Of the two on saturation this is so only with what their records do not keep left
\* out: all but the last node of a task and, for adaptive_trigger_activated, when a task
\* was submitted, in place of which the code looks at its last dispatch.
ExactOn(log) ==
  LET Exact(name) == Outcome(name, log, TRUE) <=> Meaning(log, name)
  IN  /\ \A name \in Meant : Exact(name)
      /\ PlacedOnce(log) => Exact("moderate_plus_redirected_after_saturation")
      /\ PlacedOnce(log) /\ NoneWaited(log) => Exact("adaptive_trigger_activated")
=============================================================================
