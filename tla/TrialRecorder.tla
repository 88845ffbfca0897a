--------------------------- MODULE TrialRecorder ---------------------------
(***************************************************************************)
(* The trial recorder (scheduler/trial_recorder.py) under the threads of   *)
(* scheduler/service.py that call it: the client's requests, the tick, the *)
(* workers of the dispatch pool, the reconcile poller and the sampler.     *)
(*                                                                         *)
(* A call changes the active trial's record under _lock and then writes    *)
(* its line under _event_log_lock, reading _event_file and _active again   *)
(* before each use.  Ending and resetting a trial closes the file under    *)
(* _lock only.  Of the pipeline there is what decides who may call when:   *)
(* the queue, the tick's plan, the pool, the nodes and _inflight.          *)
(***************************************************************************)
EXTENDS EventLog, FiniteSets

CONSTANTS
  Worker,       \* threads of the dispatch pool
  Grace,        \* whether a trial is ended only after all calls about its tasks returned
  Sampling,     \* whether the sampling loop runs
  MaxRefusals,  \* bound on the number of 409 answers in a run
  MaxResets     \* bound on the number of POST /trial/reset

ASSUME RecorderAssumption ==
  /\ IsFiniteSet(Task)
  /\ Grace \in BOOLEAN /\ Sampling \in BOOLEAN
  /\ MaxRefusals \in Nat /\ MaxResets \in Nat
  /\ Nothing \notin Task \cup Node \cup Worker \cup {"client", "tick", "poller", "sampler"}
  /\ Nothing \notin {"pending", "dispatched", "completed", "rejected"}
  /\ Worker \cap {"client", "tick", "poller", "sampler"} = {}

VARIABLES
  active,     \* whether _active is not None
  record,     \* its tasks: status and node, NoRecord where there is none
  file,       \* _event_file: "none", "open" or "closed"
  log,        \* the lines about tasks in the event log of the last run
  result,     \* the TrialResult end_trial is about to append
  row,        \* the line of the last run in runs.csv
  writer,     \* the holder of _event_log_lock
  pc,         \* the next section of each thread
  line,       \* the line each thread is recording
  sent,       \* the tasks the client has submitted in this run
  todo,       \* those of its batch it has yet to record
  queue,      \* the pending tasks
  expired,    \* the tasks the tick has evicted and has yet to record
  plan,       \* the assignments of the tick still to be dispatched
  pool,       \* the assignments handed to the pool
  edge,       \* what the nodes are executing or have yet to report
  finished,   \* those of them that are completed
  report,     \* the completions the poller is working on
  tracked,    \* _inflight and _dispatched_tasks
  refusals,   \* 409 answers in this run
  resets,     \* resets so far
  disorder,   \* ghost: the run's tasks with calls that may overtake each other
  clean       \* ghost: no thread was busy with an earlier run when it was started

trialVars == <<active, record, file, result>>
outVars == <<log, row>>
clientVars == <<sent, todo, resets>>
tickVars == <<queue, expired, plan>>
nodeVars == <<pool, edge, finished, report, tracked, refusals>>
ghostVars == <<disorder, clean>>
vars == <<trialVars, outVars, writer, pc, line, clientVars, tickVars, nodeVars, ghostVars>>

Thread == Worker \cup {"client", "tick", "poller", "sampler"}
Moves(th, to) == pc' = [pc EXCEPT ![th] = to]
Goes(th, from, to) == pc[th] = from /\ Moves(th, to)

\* Nobody holds _lock: the client keeps it while it takes a trial down or up.
Unlocked == pc["client"] \notin {"forget", "deactivate", "activate"}

\* Nobody holds _inflight_lock: the poller keeps it while it works on a report.
InflightFree == pc["poller"] = "idle"

\* The client's tasks are all out of the pipeline, and nobody has a call about
\* one of them to make.
Settled ==
  /\ queue = {} /\ expired = {} /\ plan = {} /\ pool = {} /\ edge = {} /\ tracked = {}
  /\ \A th \in Thread \ {"sampler"} : pc[th] = "idle"

Init ==
  /\ active = FALSE /\ record = [t \in Task |-> NoRecord]
  /\ file = "none" /\ log = <<>> /\ result = Nothing /\ row = Nothing
  /\ writer = Nothing
  /\ pc = [th \in Thread |-> "idle"] /\ line = [th \in Thread |-> NoLine]
  /\ sent = {} /\ todo = {} /\ queue = {} /\ expired = {} /\ plan = {}
  /\ pool = {} /\ edge = {} /\ finished = {} /\ report = {} /\ tracked = {} /\ refusals = 0 /\ resets = 0
  /\ disorder = {} /\ clean = TRUE

-----------------------------------------------------------------------------
\* One call of record_*(): the record, then the line

Call(th, l) == pc' = [pc EXCEPT ![th] = "update"] /\ line' = [line EXCEPT ![th] = l]

\* Mutant of Recorded: an eviction is no rejection.
RecordedIgnoresEviction(rec, l) ==
  CASE l.type = "task_submitted" -> [NoRecord EXCEPT !.status = "pending", !.known = TRUE]
    [] l.type = "task_dispatched" -> [AbsorbDispatched(rec, l.node, 0) EXCEPT !.known = TRUE]
    [] l.type = "task_evicted" -> rec
    [] OTHER -> IF rec = NoRecord THEN rec ELSE Absorb(rec, l, 0)

\* The record of a task as each call leaves it.  A dispatch makes one where there
\* is none; a completion, rejection or eviction does not.
Recorded(rec, l) ==
  CASE l.type = "task_submitted" -> [NoRecord EXCEPT !.status = "pending", !.known = TRUE]
    [] l.type = "task_dispatched" -> [AbsorbDispatched(rec, l.node, 0) EXCEPT !.known = TRUE]
    [] l.type \notin {"task_submitted", "task_dispatched"} ->
         IF rec = NoRecord THEN rec ELSE Absorb(rec, l, 0)

\* Where a thread goes when its call returns.
AfterCall(th) ==
  CASE line[th].type = "task_dispatched" -> "track"
    [] line[th].type = "task_completed" -> "observe"
    [] line[th].type = "task_submitted" -> "batch"
    [] line[th].type = "trial_end" -> "append"
    [] OTHER -> "idle"

Return(th) ==
  /\ Moves(th, AfterCall(th))
  /\ line' = IF line[th].type = "task_dispatched" THEN line ELSE [line EXCEPT ![th] = NoLine]

\* Calls about a task that another call about it may overtake: those made before
\* its submission is recorded, and the rejection that follows its re-enqueuing.
Overtakes(l) ==
  /\ l.task # Nothing /\ l.type # "task_submitted"
  /\ l.type = "task_rejected" \/ record[l.task] = NoRecord

\* The section of _lock; without an active trial the call returns.
Update(th) ==
  /\ pc[th] = "update" /\ Unlocked
  /\ LET l == line[th]
     IN  \/ ~active /\ Return(th) /\ UNCHANGED <<record, disorder>>
         \/ /\ active /\ Moves(th, "emit") /\ UNCHANGED line
            /\ record' = IF l.task = Nothing THEN record ELSE [record EXCEPT ![l.task] = Recorded(@, l)]
            /\ disorder' = IF Overtakes(l) THEN disorder \cup {l.task} ELSE disorder
  /\ UNCHANGED <<active, file, result, outVars, writer, clientVars, tickVars, nodeVars, clean>>

\* Mutant of Emit: _event_log_lock is not waited for.
EmitUnlocked(th) ==
  /\ pc[th] = "emit"
  /\ IF file = "none" \/ ~active
       THEN Return(th) /\ UNCHANGED writer
       ELSE Moves(th, "write") /\ writer' = th /\ UNCHANGED line
  /\ UNCHANGED <<trialVars, outVars, clientVars, tickVars, nodeVars, ghostVars>>

\* Mutant of Emit: a line is dropped while another one is written.
EmitOrDrop(th) ==
  /\ pc[th] = "emit"
  /\ IF writer # Nothing \/ file = "none" \/ ~active
       THEN Return(th) /\ UNCHANGED writer
       ELSE Moves(th, "write") /\ writer' = th /\ UNCHANGED line
  /\ UNCHANGED <<trialVars, outVars, clientVars, tickVars, nodeVars, ghostVars>>

\* _emit_event looks for a file and a trial, ...
Emit(th) ==
  /\ pc[th] = "emit" /\ writer = Nothing
  /\ IF file = "none" \/ ~active
       THEN Return(th) /\ UNCHANGED writer
       ELSE Moves(th, "write") /\ writer' = th /\ UNCHANGED line
  /\ UNCHANGED <<trialVars, outVars, clientVars, tickVars, nodeVars, ghostVars>>

\* An exception leaves the with-statements, and the loop or the handler the
\* thread is in goes on with its next round: the poller drops the rest of its
\* report, the tick its evictions and its plan, the client its batch, a worker
\* the tracking.
Abandon(th) ==
  /\ Moves(th, "idle") /\ line' = [line EXCEPT ![th] = NoLine]
  /\ report' = (IF th = "poller" THEN {} ELSE report)
  /\ expired' = (IF th = "tick" THEN {} ELSE expired)
  /\ plan' = (IF th = "tick" THEN {} ELSE plan)
  /\ todo' = (IF th = "client" THEN {} ELSE todo)
  /\ UNCHANGED <<sent, resets, queue, pool, edge, finished, tracked, refusals, disorder, clean>>

Raise(th) == Abandon(th) /\ writer' = Nothing

\* ... reads started_at of whatever trial, and writes to whatever file, there is
\* by then, ...
Write(th) ==
  /\ pc[th] = "write"
  /\ \/ /\ file = "open" /\ Moves(th, "flush")
        /\ log' = IF line[th].task = Nothing THEN log ELSE Append(log, line[th])
        /\ UNCHANGED <<writer, line, clientVars, tickVars, nodeVars, ghostVars>>
     \/ (file # "open" \/ ~active) /\ Raise(th) /\ UNCHANGED log
  /\ UNCHANGED <<trialVars, row>>

\* ... and flushes it.
Flush(th) ==
  /\ pc[th] = "flush"
  /\ \/ file = "open" /\ Return(th) /\ writer' = Nothing
        /\ UNCHANGED <<clientVars, tickVars, nodeVars, ghostVars>>
     \/ file # "open" /\ Raise(th)
  /\ UNCHANGED <<trialVars, outVars>>

RecordStep(th) == Update(th) \/ Emit(th) \/ Write(th) \/ Flush(th)

-----------------------------------------------------------------------------
\* The client, one request after the other; it submits tasks within a run

\* POST /submit_task: the task is pending before its submission is recorded.
SubmitTask(t) ==
  /\ pc["client"] = "idle" /\ active /\ t \notin sent \cup queue
  /\ sent' = sent \cup {t} /\ queue' = queue \cup {t}
  /\ Call("client", Submitted(t))
  /\ UNCHANGED <<trialVars, outVars, writer, todo, resets, expired, plan, nodeVars, ghostVars>>

\* POST /submit_batch enqueues them all and then records those still pending.
SubmitBatch(S) ==
  /\ Goes("client", "idle", "batch")
  /\ active /\ S # {} /\ S \cap sent = {}
  /\ sent' = sent \cup S /\ queue' = queue \cup S /\ todo' = S
  /\ UNCHANGED <<trialVars, outVars, writer, line, resets, expired, plan, nodeVars, ghostVars>>

BatchNext ==
  /\ pc["client"] = "batch"
  /\ \/ todo = {} /\ Moves("client", "idle") /\ UNCHANGED <<line, todo>>
     \/ \E t \in todo :
          /\ todo' = todo \ {t}
          /\ IF t \in queue THEN Call("client", Submitted(t)) ELSE UNCHANGED <<pc, line>>
  /\ UNCHANGED <<trialVars, outVars, writer, sent, resets, tickVars, nodeVars, ghostVars>>

\* start_trial: the file, then the trial, then the line.  Every run has a log and
\* a row of its own, so nobody comes back to those of an earlier run.
Start ==
  /\ Goes("client", "idle", "activate")
  /\ ~active
  /\ file' = "open" /\ log' = <<>> /\ row' = Nothing
  /\ sent' = {} /\ refusals' = 0
  /\ clean' = (Settled /\ pc["sampler"] = "idle") /\ disorder' = {}
  /\ UNCHANGED <<active, record, result, writer, line, todo, resets, tickVars>>
  /\ UNCHANGED <<pool, edge, finished, report, tracked>>

Activate ==
  /\ Goes("client", "activate", "emit")
  /\ line' = [line EXCEPT !["client"] = Line("trial_start", Nothing, Nothing)]
  /\ active' = TRUE
  /\ UNCHANGED <<record, file, result, outVars, writer, clientVars, tickVars, nodeVars, ghostVars>>

\* Of the live record, the row counts these.
WithStatus(S) == {t \in Task : record[t].status \in S}

Result ==
  [total |-> Cardinality({t \in Task : record[t] # NoRecord}),
   completed |-> Cardinality(WithStatus({"completed"})),
   rejected |-> Cardinality(WithStatus({"rejected"})),
   perNode |-> [n \in Node |->
     Cardinality({t \in WithStatus({"completed", "dispatched"}) : record[t].node = n})]]

\* end_trial: the result is computed from the live record and its line written, ...
End ==
  /\ Goes("client", "idle", "emit")
  /\ active /\ (Grace => Settled)
  /\ line' = [line EXCEPT !["client"] = Line("trial_end", Nothing, Nothing)]
  /\ result' = Result
  /\ UNCHANGED <<active, record, file, outVars, writer, clientVars, tickVars, nodeVars, ghostVars>>

AppendRow ==
  /\ Goes("client", "append", "close")
  /\ row' = result /\ result' = Nothing
  /\ UNCHANGED <<active, record, file, log, writer, line, clientVars, tickVars, nodeVars, ghostVars>>

\* ... and the file is closed and forgotten before the trial is.
Close ==
  /\ Goes("client", "close", "forget")
  /\ file' = "closed"
  /\ UNCHANGED <<active, record, result, outVars, writer, line, clientVars>>
  /\ UNCHANGED <<tickVars, nodeVars, ghostVars>>

Forget ==
  /\ Goes("client", "forget", "deactivate")
  /\ file' = "none"
  /\ UNCHANGED <<active, record, result, outVars, writer, line, clientVars>>
  /\ UNCHANGED <<tickVars, nodeVars, ghostVars>>

\* Mutant of Deactivate: what is tracked is cleared before _lock is given back.
DeactivateUntracking ==
  /\ Goes("client", "deactivate", IF line["client"].type = "reset" THEN "clear" ELSE "idle")
  /\ InflightFree
  /\ active' = FALSE /\ record' = [t \in Task |-> NoRecord] /\ tracked' = {}
  /\ UNCHANGED <<file, result, outVars, writer, line, clientVars, tickVars, ghostVars>>
  /\ UNCHANGED <<pool, edge, finished, report, refusals>>

Deactivate ==
  /\ Goes("client", "deactivate", IF line["client"].type = "reset" THEN "clear" ELSE "idle")
  /\ active' = FALSE /\ record' = [t \in Task |-> NoRecord]
  /\ UNCHANGED <<file, result, outVars, writer, line, clientVars, tickVars, nodeVars, ghostVars>>

\* POST /trial/reset takes the trial down in the same way and clears the queue,
\* then _inflight, then the nodes.
Reset ==
  /\ Goes("client", "idle", IF active THEN "close" ELSE "clear")
  /\ line' = [line EXCEPT !["client"] = Line("reset", Nothing, Nothing)]
  /\ resets < MaxResets /\ resets' = resets + 1
  /\ UNCHANGED <<trialVars, outVars, writer, sent, todo, tickVars, nodeVars, ghostVars>>

ClearQueue ==
  /\ Goes("client", "clear", "untrack")
  /\ queue' = {}
  /\ UNCHANGED <<trialVars, outVars, writer, line, clientVars, expired, plan, nodeVars, ghostVars>>

ClearTracked ==
  /\ Goes("client", "untrack", "reset")
  /\ InflightFree
  /\ tracked' = {}
  /\ UNCHANGED <<trialVars, outVars, writer, line, clientVars, tickVars, ghostVars>>
  /\ UNCHANGED <<pool, edge, finished, report, refusals>>

ResetNodes ==
  /\ Goes("client", "reset", "idle")
  /\ line' = [line EXCEPT !["client"] = NoLine]
  /\ edge' = {} /\ finished' = {}
  /\ UNCHANGED <<trialVars, outVars, writer, clientVars, tickVars, ghostVars>>
  /\ UNCHANGED <<pool, report, tracked, refusals>>

ClientStep ==
  \/ BatchNext \/ Activate \/ AppendRow \/ Close \/ Forget \/ Deactivate
  \/ ClearQueue \/ ClearTracked \/ ResetNodes

-----------------------------------------------------------------------------
\* The tick: _run_one_tick

\* evict_expired takes them all out before the first one is recorded.
Evict(S) ==
  /\ pc["tick"] = "idle" /\ plan = {} /\ expired = {}
  /\ S # {} /\ S \subseteq queue
  /\ queue' = queue \ S /\ expired' = S
  /\ UNCHANGED <<trialVars, outVars, writer, pc, line, clientVars, plan, nodeVars, ghostVars>>

EvictNext(t) ==
  /\ pc["tick"] = "idle" /\ t \in expired
  /\ expired' = expired \ {t}
  /\ Call("tick", Evicted(t))
  /\ UNCHANGED <<trialVars, outVars, writer, clientVars, queue, plan, nodeVars, ghostVars>>

\* The decision is recorded before its assignments are dispatched.
Decide(p) ==
  /\ pc["tick"] = "idle" /\ plan = {} /\ expired = {} /\ queue # {}
  /\ plan' = p
  /\ Call("tick", Line("scheduling_decision", Nothing, Nothing))
  /\ UNCHANGED <<trialVars, outVars, writer, clientVars, queue, expired, nodeVars, ghostVars>>

Plans == UNION {{{<<t, f[t]>> : t \in S} : f \in [S -> Node]} : S \in SUBSET queue}

\* queue.remove, reserve and pool.submit.
Take(a) ==
  /\ pc["tick"] = "idle" /\ a \in plan
  /\ plan' = plan \ {a} /\ queue' = queue \ {a[1]} /\ pool' = pool \cup {a}
  /\ UNCHANGED <<trialVars, outVars, writer, pc, line, clientVars, expired>>
  /\ UNCHANGED <<edge, finished, report, tracked, refusals, ghostVars>>

-----------------------------------------------------------------------------
\* A worker: _do_dispatch and _on_dispatch_outcome

\* 201 Created.
Admitted(w, a) ==
  /\ pc[w] = "idle" /\ a \in pool
  /\ pc' = [pc EXCEPT ![w] = "callback"] /\ line' = [line EXCEPT ![w] = Dispatched(a[1], a[2])]
  /\ pool' = pool \ {a} /\ edge' = edge \cup {a}
  /\ UNCHANGED <<trialVars, outVars, writer, clientVars, tickVars, finished, report, tracked>>
  /\ UNCHANGED <<refusals, ghostVars>>

\* 409, or a failed request: the task is pending again before the callback.
Refused(w, a) ==
  /\ pc[w] = "idle" /\ a \in pool /\ refusals < MaxRefusals
  /\ pc' = [pc EXCEPT ![w] = "callback"] /\ line' = [line EXCEPT ![w] = Rejected(a[1], a[2])]
  /\ pool' = pool \ {a} /\ queue' = queue \cup {a[1]} /\ refusals' = refusals + 1
  /\ UNCHANGED <<trialVars, outVars, writer, clientVars, expired, plan, edge, finished, report>>
  /\ UNCHANGED <<tracked, ghostVars>>

\* Mutant of Callback: a dispatch is tracked first and recorded after that.
CallbackTracksFirst(w) ==
  /\ pc[w] = "callback" /\ Unlocked
  /\ Moves(w, IF active THEN "update" ELSE "idle")
  /\ line' = [line EXCEPT ![w] = IF active THEN @ ELSE NoLine]
  /\ tracked' = IF line[w].type = "task_dispatched" /\ active
                  THEN tracked \cup {<<line[w].task, line[w].node>>} ELSE tracked
  /\ UNCHANGED <<trialVars, outVars, writer, clientVars, tickVars, pool, edge, finished>>
  /\ UNCHANGED <<report, refusals, ghostVars>>

\* is_active().
Callback(w) ==
  /\ pc[w] = "callback" /\ Unlocked
  /\ Moves(w, IF active THEN "update" ELSE "idle")
  /\ line' = [line EXCEPT ![w] = IF active THEN @ ELSE NoLine]
  /\ UNCHANGED <<trialVars, outVars, writer, clientVars, tickVars, nodeVars, ghostVars>>

Track(w) ==
  /\ Goes(w, "track", "idle")
  /\ InflightFree
  /\ tracked' = tracked \cup {<<line[w].task, line[w].node>>}
  /\ line' = [line EXCEPT ![w] = NoLine]
  /\ UNCHANGED <<trialVars, outVars, writer, clientVars, tickVars, pool, edge, finished>>
  /\ UNCHANGED <<report, refusals, ghostVars>>

\* A node completes a task.
Finish(a) ==
  /\ a \in edge \ finished
  /\ finished' = finished \cup {a}
  /\ UNCHANGED <<trialVars, outVars, writer, pc, line, clientVars, tickVars, pool, edge>>
  /\ UNCHANGED <<report, tracked, refusals, ghostVars>>

-----------------------------------------------------------------------------
\* The poller: _reconcile_loop and _observe_completions

\* GET /status hands out the completions of a node, which forgets them.
Poll(n) ==
  /\ LET done == {a \in finished : a[2] = n}
     IN  /\ done # {} /\ report' = done
         /\ edge' = edge \ done /\ finished' = finished \ done
  /\ Goes("poller", "idle", "observe")
  /\ UNCHANGED <<trialVars, outVars, writer, line, clientVars, tickVars, pool, tracked>>
  /\ UNCHANGED <<refusals, ghostVars>>

\* _observe_completions: what is not tracked is skipped.
Observe ==
  /\ pc["poller"] = "observe"
  /\ \/ report = {} /\ Moves("poller", "idle") /\ UNCHANGED <<line, report, tracked>>
     \/ \E a \in report :
          /\ report' = report \ {a} /\ tracked' = tracked \ {a}
          /\ IF a \in tracked THEN Call("poller", Completed(a[1], a[2])) ELSE UNCHANGED <<pc, line>>
  /\ UNCHANGED <<trialVars, outVars, writer, clientVars, tickVars, pool, edge, finished>>
  /\ UNCHANGED <<refusals, ghostVars>>

\* _sampling_loop: is_active(), and a sample.
Sample ==
  /\ Sampling /\ pc["sampler"] = "idle" /\ Unlocked /\ active
  /\ Call("sampler", Line("memory_sample", Nothing, Nothing))
  /\ UNCHANGED <<trialVars, outVars, writer, clientVars, tickVars, nodeVars, ghostVars>>

-----------------------------------------------------------------------------
Requests ==
  \/ \E t \in Task : SubmitTask(t)
  \/ \E S \in SUBSET Task : SubmitBatch(S)
  \/ Start \/ End \/ Reset

Next ==
  \/ Requests \/ ClientStep \/ Sample \/ Observe
  \/ \E th \in Thread : RecordStep(th)
  \/ \E S \in SUBSET Task : Evict(S)
  \/ \E t \in Task : EvictNext(t)
  \/ \E p \in Plans : Decide(p)
  \/ \E t \in Task, n \in Node :
       \/ Take(<<t, n>>) \/ Finish(<<t, n>>)
       \/ \E w \in Worker : Admitted(w, <<t, n>>) \/ Refused(w, <<t, n>>)
  \/ \E w \in Worker : Callback(w) \/ Track(w)
  \/ \E n \in Node : Poll(n)

Spec == Init /\ [][Next]_vars

\* The interpreter runs every thread, and a lock that is released over and over
\* is given to each that waits for it.
Fairness ==
  /\ WF_vars(ClientStep) /\ WF_vars(Observe)
  /\ \A th \in Thread : SF_vars(RecordStep(th))

FairSpec == Spec /\ Fairness

-----------------------------------------------------------------------------
\* Type correctness of the recorder and of the pipeline around it.
TypeOK ==
  /\ active \in BOOLEAN /\ file \in {"none", "open", "closed"}
  /\ \A t \in Task : record[t].status \in {"pending", "dispatched", "completed", "rejected", Nothing}
  /\ \A i \in 1..Len(log) : log[i] \in TaskLine
  /\ writer \in Thread \cup {Nothing}
  /\ \A th \in Thread : pc[th] \in {"write", "flush"} => writer = th
  /\ queue \subseteq Task /\ expired \subseteq Task /\ todo \subseteq Task
  /\ plan \cup pool \cup edge \cup report \cup tracked \subseteq Task \X Node
  /\ finished \subseteq edge

\* A call about the task has changed its record and has yet to write its line.
HalfRecorded(t) == \E th \in Thread : line[th].task = t /\ pc[th] \in {"emit", "write"}

\* The tasks left out are those whose calls may overtake each other: submit_task
\* enqueues before it records, and _do_dispatch enqueues again before its callback.
InOrder(t) == clean /\ t \notin disorder

\* What the log says of a task is what the live record says, whenever no call is
\* between the two locks: replaying the log gives the same status and node.
ReplayAgrees ==
  (active /\ file = "open") =>
    \A t \in Task :
      (InOrder(t) /\ ~HalfRecorded(t)) =>
        LET told == Replay(log)[t]
        IN  told.status = record[t].status /\ told.node = record[t].node

\* Nothing the record says is missing from the log, not even of the tasks whose calls
\* overtake each other: its status was written by a line of that kind, and the node it
\* names by a line about that node.  The two may be different lines: when a refusal
\* overtakes a dispatch, the task counts as completed on the node that refused it.
RecordedIsLogged ==
  (active /\ file = "open") =>
    \A t \in Task :
      LET rec == record[t]
          told == {log[i] : i \in {j \in 1..Len(log) : log[j].task = t}}
          kinds == CASE rec.status = "pending" -> {"task_submitted"}
                     [] rec.status = "dispatched" -> {"task_dispatched"}
                     [] rec.status = "completed" -> {"task_completed"}
                     [] OTHER -> {"task_evicted", "task_rejected"}
      IN  \/ rec = NoRecord \/ HalfRecorded(t)
          \/ /\ \E l \in told : l.type \in kinds
             /\ rec.node # Nothing => \E l \in told : l.node = rec.node

\* The log tells of each task one life: at most one submission, and besides it
\* either one eviction or one dispatch, perhaps followed by one completion on the
\* same node, in whichever order the threads got hold of _event_log_lock.
Told(t) == {i \in 1..Len(log) : log[i].task = t /\ log[i].type # "task_submitted"}

Ends(t, j, i) ==
  \E n \in Node : j < i /\ log[j] = Dispatched(t, n) /\ log[i] = Completed(t, n)

OneLife(t) ==
  /\ \A i, j \in 1..Len(log) : log[i] = Submitted(t) /\ log[j] = Submitted(t) => i = j
  /\ \A i \in Told(t) :
       \/ log[i] = Evicted(t) \/ \E n \in Node : log[i] = Dispatched(t, n)
       \/ \E j \in Told(t) : Ends(t, j, i)
  /\ \A i, j \in Told(t) : j < i => Ends(t, j, i)

Lifecycle == \A t \in Task : InOrder(t) => OneLife(t)

\* A run that is ended when all calls about its tasks have returned has a row that
\* counts what its log tells, and every task in it is completed or rejected.
RowAgreesWithLog ==
  (Grace /\ row # Nothing /\ \A t \in Task : InOrder(t)) =>
    LET told == Replay(log)
        Count(s) == Cardinality({t \in Task : told[t].status = s})
    IN  /\ row.completed = Count("completed") /\ row.rejected = Count("rejected")
        /\ row.total = row.completed + row.rejected
        /\ \A n \in Node :
             row.perNode[n] =
               Cardinality({t \in Task : told[t].status = "completed" /\ told[t].node = n})

\* The poller gives _inflight_lock back, for which workers and trial_reset wait: the
\* calls it makes while it holds it get _lock and _event_log_lock, and return or
\* raise, whoever closes the file meanwhile.
InflightReleased == ~InflightFree ~> InflightFree
=============================================================================
