------------------------------ MODULE EventLog ------------------------------
(***************************************************************************)
(* The lines of a trial's event log that say what became of a task, as     *)
(* scheduler/trial_recorder.py writes them, and the replay of these lines  *)
(* into a record per task, as verification/runner.py reads them.           *)
(***************************************************************************)
EXTENDS SequencesExt, Naturals

CONSTANTS
  Task,     \* task ids
  Node,     \* node ids
  Nothing   \* None, a missing key

\* The payload of a line; its "t" is its place in the log.  "note" stands for the
\* one thing a reader looks for in the reason, the percentage or the duration.
Noted(type, t, n, note) == [type |-> type, task |-> t, node |-> n, note |-> note]
Line(type, t, n) == Noted(type, t, n, Nothing)
NoLine == Line("none", Nothing, Nothing)

Submitted(t) == Line("task_submitted", t, Nothing)
Dispatched(t, n) == Line("task_dispatched", t, n)
Rejected(t, n) == Line("task_rejected", t, n)
Completed(t, n) == Line("task_completed", t, n)
Evicted(t) == Line("task_evicted", t, Nothing)

TaskLine ==
  {Submitted(t) : t \in Task} \cup {Evicted(t) : t \in Task}
    \cup {Dispatched(t, n) : t \in Task, n \in Node}
    \cup {Rejected(t, n) : t \in Task, n \in Node}
    \cup {Completed(t, n) : t \in Task, n \in Node}

\* A record that no line has been absorbed into.
NoRecord == [status |-> Nothing, node |-> Nothing, known |-> FALSE, since |-> 0]

-----------------------------------------------------------------------------
\* What one line does to the record of its task.  "known" stands for the task's
\* class, memory and units, which only its submission tells; "since" is
\* dispatched_at_rel.

\* Mutant of AbsorbSubmitted: a submission always makes the task pending.
AbsorbSubmittedAnew(rec) == [rec EXCEPT !.known = TRUE, !.status = "pending"]

AbsorbSubmitted(rec) ==
  [rec EXCEPT !.known = TRUE, !.status = IF @ = Nothing THEN "pending" ELSE @]

AbsorbDispatched(rec, n, i) ==
  [rec EXCEPT !.since = i, !.node = n, !.status = "dispatched"]

AbsorbCompleted(rec, n) ==
  [rec EXCEPT !.status = "completed", !.node = IF @ = Nothing THEN n ELSE @]

AbsorbRejected(rec, n) ==
  [rec EXCEPT !.status = "rejected", !.node = IF n = Nothing THEN @ ELSE n]

Absorb(rec, line, i) ==
  CASE line.type = "task_submitted" -> AbsorbSubmitted(rec)
    [] line.type = "task_dispatched" -> AbsorbDispatched(rec, line.node, i)
    [] line.type = "task_completed" -> AbsorbCompleted(rec, line.node)
    [] line.type \in {"task_rejected", "task_evicted"} -> AbsorbRejected(rec, line.node)
    [] OTHER -> rec

\* _build_context: the record of every task, NoRecord where there is none.
Replay(log) ==
  LET recs[i \in 0..Len(log)] ==
        IF i = 0 THEN [t \in Task |-> NoRecord]
        ELSE [t \in Task |->
               IF log[i].task = t THEN Absorb(recs[i - 1][t], log[i], i) ELSE recs[i - 1][t]]
  IN  recs[Len(log)]
=============================================================================
