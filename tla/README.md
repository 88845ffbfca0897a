# A verification project for EdgeSystemSimulator

EdgeSystemSimulator runs a scheduler and a few simulated edge nodes as HTTP
services and compares two scheduling algorithms, Min-Min and Adaptive Min-Min,
over scripted workloads. This directory models it in TLA+, from the threads of the
nodes and the scheduler to the clients that run trials and the reports made of
them, checks it with TLC on small instances and proves its safety properties with
TLAPS for all instances.

Run a model with `tlc -config EdgeTrial.cfg MCEdgeNode`, a proof with
`tlapm EdgeNodeProofs.tla`. `PROJECT.json` lists the runs, what each checks, the
mutants that show each property can fail, the source lines of every definition,
the findings and the hazards.

## 1. The system

### Components, state, operations

| Component | State | Operations | Hard behaviour |
|---|---|---|---|
| `edge/memory_manager.py` | `_task_holds`, `_injected_blocks` | admit, release, inject, expire, reset | expiry is noticed only on the next read |
| `edge/cpu_manager.py` | `_task_holds` | admit, release, reset | |
| `edge/execution.py` | `_running`, `_completion_history` (cap 1000) | `try_admit`, `_run_task` on a daemon thread per task, drain, reset | two managers with a lock each; release before deregistration; threads that outlive a reset |
| `edge/edgenode.py` | the singletons | `/execute`, `/status` (drains completions), `/admin/inject_memory`, `/admin/reset`, `/metrics` | handlers run concurrently; a reset is three sections |
| `scheduler/node_state.py` | per node: spec, reservations, projected RAM/cores/workload, last status | register, reserve, release, reconcile, mark unreachable, reset | totals kept beside what they sum up, clamped at 0 |
| `scheduler/queue.py` | `_tasks`, `_enqueued_at` | enqueue, remove, evict, clear | a task put back gets a new timestamp |
| `scheduler/dispatcher.py` | a pool of 8 workers | `dispatch`, `_do_dispatch`, `_on_node_error` | answers that are refused, lost or late |
| `scheduler/service.py` | `_inflight`, `_dispatched_tasks` | tick (0.1 s), reconcile poller (0.5 s), sampling (1 s), dispatch callback, HTTP endpoints | all of them at once; `trial_reset` in the middle of it |
| `scheduler/algorithms/*` | none, learned rates | `schedule` | work on a copy of the mirror |
| `scheduler/learned_state.py` | EWMA per node | update, snapshot, reset | floating point |
| `scheduler/trial_recorder.py` | the active trial, its event log | start/end, record, sample | two locks; log closed by other threads |
| `workload/arrival.py`, `workload/generator.py` | none | build the timeline of a trial | ties, remainders, one numbering for all tasks |
| `workload/scenario_runner.py` | its place in the scenario | register, reset, start, replay, wait for the drain, end | a wait built from two answers; any request may fail |
| `verification/runner.py`, `verification/assertions/*` | its place in the test, the replayed log | run a trial, assert over its events | the log's order is the order in which threads got its lock; assertions that may hold vacuously |
| `scheduler/analysis/*`, `verification/report.py` | none | the paired test, plots, reports | incomplete blocks, ties, trials of different length |
| `dashboard/*` | none | pages | none |

### Interaction

    client --/submit_task--> queue --snapshot--> tick thread --schedule--> plan
      tick: queue.remove, mirror.reserve, pool.submit
      worker: POST /execute --> edge node
         201: callback tracks the task in _inflight
         409: mirror.release, queue.enqueue, callback
         no answer: mirror.release, mirror.mark_unreachable, queue.enqueue, callback
      poller: GET /status --> drained completions
              mirror.reconcile; for each tracked completion: mirror.release, record
      POST /trial/reset: record, queue, mirror, learned state, tracking, every edge node

The tick, the pool's workers, the poller, the sampler and every request handler
are threads of their own. Nothing is persisted but result files, so there is no
crash recovery to speak of.

### What makes the parts correct

* Edge node: tasks never hold more than the node has; a refused call leaves
  nothing behind; a running task owns what it runs on; a completion is reported
  once and only after its room is free; every hold is given back.
* Mirror: the totals are the sums of the reservations and fit the node.
* Pipeline: a submitted task is always in exactly one place; a reservation
  exists exactly while its task is on its way to a node or tracked there; the
  algorithm's plan is always still feasible when it is carried out; a node is
  never asked to run what it has no room for, if it is what it was registered as; no
  task runs twice; every task settles; a reset leaves nothing of the old trial, but
  for threads that still sleep on the nodes.
* Algorithms: answers are feasible, name each task once and leave over nothing
  that still fits; and follow the selection rule.
* Recorder: the log tells the same story as the record, nothing the record says is
  missing from it, and the row of `runs.csv` agrees with both; a thread that
  records gives back the locks it holds.
* Clients: no trial is refused because of an earlier one; a trial that starts on
  nothing left over, on the nodes' threads as well, behaves as the first one; drained
  means drained.
* Analysis: the timeline is what the scenario declares; the assertions mean what
  their docstrings say, where the records they look at keep enough for that; the row,
  the test, the plots and the reports add up.

## 2. The modules

| Module | Models |
|---|---|
| `Load` | the sum over a dictionary, as a cardinality, so that the finite-set library can reason about it |
| `EdgeContract` | what a node promises: atomic, bounded admission; each admitted task runs once |
| `EdgeNode` | one edge node, a step per critical section |
| `NodeMirror` | `NodeState`, a step per call |
| `Placement` | what an algorithm may answer: the feasibility checks and `IsPlan`, over `NodeMirror` |
| `MinMin` | both algorithms, a placement per step, with ready times and learned rates, and dispatch and completion around them |
| `MinMinLoops` | the algorithms' inner loops, position by position |
| `Scheduler` | queue, dispatcher, tick, poller, callback and trial endpoints around `NodeMirror`, with nodes that behave as `EdgeContract` says and an algorithm that answers one of `Plans` |
| `EventLog` | the lines of an event log and their replay into a record per task |
| `TrialRecorder` | the recorder under every thread that calls it, a step per critical section |
| `Campaign` | either client running trial after trial, composed with `Scheduler` |
| `Verification` | the assertions, as predicates of the replayed log, and what their docstrings ask of the log |
| `Workload` | the timeline of a trial |
| `Statistics`, `Reports` | the row of a trial, the paired test; plots, summary, verification report |
| `Analysis` | the inputs these pure modules are checked on, and what is said of them |
| `MCEdgeNode`, `MCMinMin`, `MCScheduler`, `MCRecorder`, `MCCampaign`, `MCAnalysis` | the small instances |
| `LoadTheorems`, `EdgeNodeProofs`, `NodeMirrorProofs`, `MinMinProofs`, `SchedulerProofs`, `CampaignProofs`, `TrialRecorderProofs`, `AnalysisProofs` | the proofs |

`Scheduler` lets the tick answer any of `Plans`, and `MinMin` shows that what the
two algorithms answer is one of them (`AnswerIsPlan`): the pipeline is checked and
proved without the algorithms' arithmetic, the algorithms without its threads.

`EdgeNode` is shown to implement `EdgeContract` (run `EdgeTrial`, theorem
`EdgeImplements`), and the nodes inside `Scheduler` are shown to be
`EdgeContract` nodes within a trial that starts on no earlier one's threads
(`EdgesHonourContract`, run `SchedLossy`, theorem `NodesHonourContract`): the scheduler
is put together with what the edge code provides, without their product being built.
After a reset neither keeps the contract: see "Nodes that are reset" below.
The contract allows a refusal at any time; `Scheduler` allows one only when what
is in progress at the node leaves no room or the task's class is not accepted, and
`RefusedOnlyWhenFull` says that `EdgeNode` refuses on no other ground than these or an
injection.

`TrialRecorder` and `Scheduler` model the same threads from two sides. `Scheduler`
has the accounts (mirror, reservations, losses) and merges recording with what it
accompanies; `TrialRecorder` has the locks of a recording call and of the pipeline
only what decides which thread may call when.

### EdgeNode

A `Call` is one `POST /execute` and, once admitted, its thread. `pc[c]` is the
next section it will enter: `memory`, `cpu`, `undoMemory`, `register` (with
`dupMemory` and `dupCpu` inside the engine's lock), `start`, `sleeping`,
`releaseCpu`, `finish`. Dictionaries keyed by task id are functions from tasks to
the call that made the entry: the code does not keep the call, and no guard
looks at it, but it is what "its own" means in the properties. The class check
is the first step. `is_active` is set at start-up and never cleared, so it is no
state. Injected blocks enter and leave `injected`; when the code drops an expired
block only on its next read, nobody can see the difference. `GET /status` is a
drain and a later answer; the memory and CPU snapshots change nothing.
A completion's `status` filter never drops one, since `time.sleep` does not raise.

`TrialSpec` is a node nobody resets; `Spec` adds the three sections of
`/admin/reset`, at most `MaxResets` times.

### NodeMirror and Scheduler

`NodeMirror` keeps reservations and totals separately, as the code does.
`projected_completion_time`, which only orders the algorithms' choices, is
`MinMin`'s `ready`.

In `Scheduler` a `Call` is one run of `_do_dispatch` with the request it posts:
`stage[c]` is the worker's next section, `phase[c]` what has become of the request
on its node, so an answer that nobody waits for any more is a state. The tick is
`Evict`, `Snapshot`, `Schedule`, then `Assign` and `DispatchHand` per assignment.
`Plans` is what both algorithms guarantee, whatever they optimise: a feasible
answer that names each task at most once and leaves over nothing that fits.
Ageing is a step that makes a pending task overdue; a task that is put back is
not, as `enqueue` stamps it afresh. The poller handles one node at a time:
`Poll` is the node draining, `StoreStatus` and `Observe` are what the answer does,
and `_inflight_lock` is held through all completions of an answer
(`pollPc = "observing"`).

Sections that were merged, because what lies between them is seen by nobody:
the eviction with its record, the callback's activity check with the recorder's
own, `_inflight` cleared with the mirror's gauges, and a rejection's enqueue with
the callback after it, which only records. A task id is not submitted again while
the record has it, as the clients do.

Nodes that are reset. `/admin/reset` empties the dictionaries of a node and stops none of
its threads. `ResetEdge(n)` is the first section of it: what runs there becomes a
"stray", a thread the node has no record of, and so may what has freed its room
and is about to report; the completions are forgotten. `EdgeAnswers` is the end of the
reset. A stray wakes (`Wake`) and reports its task id, popping
whatever record it finds under it: if a call of the next trial had the
same id, the node no longer has that call and it is a stray from then on, though it
runs. Or it finds no record at its start and exits (`Exit`). What the code keeps per task id may belong
to either, so on a node in `shaken`, one that was reset and has not been quiet since, a
call is admitted whatever the others hold, and a running one is known by its record alone.
Strays wake in `Next` and never in `TrialNext`, which is a trial on nodes without a past.
`Settle` takes a node out of `shaken` when no call of any trial is left there.
A call's name stays taken while its thread is there, which bounds the strays.

Profiles. `ProfileOf[n]` is what the node is: RAM, cores and classes. What the scheduler is
told of it is `spec[n]`, one of `Registered[n]`, which clients choose anew with each
`POST /nodes/register`: nothing compares the two, and the scenarios replace profiles
while the containers keep running as they are.

What the environment may do is a constant: `Lossy` names the endpoints whose
requests or answers may be lost or late, `Pressured` the nodes whose memory is
taken by injections at times, `Prompt` says whether a task always outlasts the
callback that tracks it (a task of one workload unit lasts longer than a lock
takes, but nothing enforces it).

### Placement and MinMin

`IsPlan(v, P, p)`: `p` names each task of `P` at most once, every node takes what
is placed on it together, as the view `v` shows it, and no task is left over that
a node would still take.

`MinMin` is a tick with one algorithm, chosen afresh for each. `Snapshot` is the
head of `schedule()`: the arguments `view`, `rank`, `t0`, `rates` and the copies
`ram`, `cores`, `freeAt`, `left`. `Place` is one iteration of the outer loop; it
takes the pair that `Best` describes, ties included. `MinMinLoops` has the nested
loops themselves: each goes through the positions of a list and keeps the best pair
so far (`KeepBest`), and `LoopsFindBest` says that they end with that pair. `Return` ends the algorithm, `Dispatch` removes
an assignment from the queue and reserves it. Around it, tasks complete (and
teach a rate), are refused, nodes are polled and registered again with another
profile, time passes and trials are reset. `schedule()` reads nothing but its
arguments and its own copies, so its iterations commute with all of this, and the
model lets the others step only before and after it.

Times are whole units. A rate `mu` is represented by its inverse, the time for
one workload unit, so a division becomes a product; a measurement moves it to any
member of `Paces`, without the arithmetic of the moving average. The network
penalty is zero: nothing calls `update_network_penalty`.

### TrialRecorder and EventLog

A recording call is five steps of its thread: `update` (the record, under
`_lock`), `emit` (take `_event_log_lock`, look at `_event_file` and `_active`),
`write`, `flush`, and what comes after the call (`AfterCall`): a worker goes on to
track the dispatch, the poller to the next completion, a batch to its next task.
`start_trial`, `end_trial` and `trial_reset` are the client's, cut where a lock is
taken or given back or where the file changes under another thread: `Start` and
`Activate`; `End`, `AppendRow`, `Close`, `Forget`, `Deactivate`; `Reset`,
`ClearQueue`, `ClearTracked`, `ResetNodes`. A write to a file that was closed
meanwhile raises: the tick gives up the loop it is in (`Abandon`), the poller marks
the node and lets go of `_inflight_lock`, a request fails. `_inflight_lock` is held
by the poller while it observes (`InflightFree`).

Of a line there is its type, task and node; its time is its place in the log. A
record is status, node, whether the submission's data are known, and when it was
last dispatched. The log is only that of the last run. `disorder` and `clean` are
ghosts: the first names the tasks whose calls could overtake each other
(`submit_task` enqueues before it records, a refusal is recorded after the task is
back in the queue), the second says that no thread was busy with an earlier run when
this one started. `Replay` is `_build_context`.

`Grace` lets a run be ended only once all calls about its tasks have returned.
That is what a client that waits for the drain gets unless it gives up the wait,
and `RowAgreesWithLog` is about such runs.

### Campaign

The loops of `run_loaded_scenario` and of the verification runner, chosen by
`Verifying`, one step per request. `step` is the client's program counter. A cell is
one trial under one algorithm; the cells of a trial use the same task ids.
`Background` is everything the scheduler and the nodes do by themselves.
`RequestFails` is a request that raises, before or after it has been served: the
scenario runner gives up the scenario, the verification runner the test, the
replay, one round of the wait or the end of the trial, as its `try` blocks have it.
The new scenario that comes next may be of the same or of another client, so a
campaign has no end. `counted` is `last_status.active_task_count` of each node,
which is what the drain wait is told; the verification runner also looks at
`projected_used_cores`. `clean` remembers whether anything of an earlier trial was
left in the scheduler or in the nodes' records when the trial started; a reset may fail
at a node, which may leave some. `quiet` remembers whether the nodes had no thread of one
either (`shaken` and `Stray` empty), which no client can see.

### Verification, Workload, Statistics, Reports

Pure functions. `Analysis` enumerates inputs: a state is a kind of input and a sequence
of items, and a step adds an item. Each of the fourteen assertions is translated from its
body (`Outcome`). Nine are stated a second time, from their docstrings, as a property of the
lines of the log (`Meaning`), and `ExactOn` compares the two: for the seven of `Meant` on every log;
for `moderate_plus_redirected_after_saturation` on logs in which no task went from one node to
another (`PlacedOnce`), as the record keeps only the last; and for `adaptive_trigger_activated`
where, besides, no task was submitted before the saturation and dispatched after it
(`NoneWaited`), as the docstring speaks of submissions and the code looks at dispatches.
Without either condition `Analysis` finds a log on which the two differ (section 4). The other five have no
meaning of their own here: `no_duplicate_assignments` and `no_unhandled_exceptions` cannot
fail, `scheduler_did_not_hang` is the runner's flag, and `no_node_crashed` and
`valid_scheduling_decisions_throughout` look for one kind of line, which is what the
`Outcome` says already. The timeline is stated by what it must contain; the
row, the test and the plots by what their numbers must satisfy. Values are whole
numbers and means are fractions, so nothing is rounded; the mean of a node, which is
averaged again, is multiplied by `Scale` first, which makes it whole for the numbers of
samples of the run.

`build_task_timeline` is a fold over the entries, as in the code: `made` is what the
loop has so far, the events and `seq`; `Process` is its body. A task is its class
and its number. A sorted list is given by ranks instead of a sort: the k-th event is the one
with k - 1 before it (`Precedes` is a stable sort's order), the k-th value has
fewer than k below it and no fewer than k with its equals.

## 3. Runs

| Run | Question | Instance |
|---|---|---|
| `EdgeTrial` | are the node's accounts right within a trial, does it implement its contract, liveness included | 3 calls of 2 tasks that fit in memory together but not on the core, one alien task, one injection, history cap 2 |
| `MinMin` | are the answers plans, do the loops find the minimum, is an answer still good when it is carried out, do the algorithms agree under the prior | 2 tasks of different sizes, 2 nodes that may each be registered in two ways, one of which does not accept the big task, a prior and one measured pace, `MaxTime` 1, `MaxReady` 1 |
| `SchedTrial` | the pipeline on a reliable network: does the mirror refuse, do the nodes refuse, does a task run twice | 2 nodes of which one may be registered as larger than it is and as accepting everything, 2 tasks, 2 dispatches in being for each, 2 workers, pressure on that node |
| `SchedLossy` | the scheduler's books when anything is lost, a retry beside its late first attempt; the nodes keep the contract | the same nodes, 1 task, 2 dispatches, pressure on one node |
| `SchedLive` | does every task settle and every reservation go | the nodes registered as they are, 1 worker, reliable network |
| `Recorder` | do log, record and row agree through the threads that record | 2 tasks, 2 nodes, 2 workers, sampling, one client |
| `RecorderLive` | does a thread ever keep `_inflight_lock`, with the file closed under it; is anything lost from the log | 1 task, 1 node, 1 worker, one refusal, one reset |
| `Campaign` | trial after trial of the verification runner, with failing requests, half-failing resets and threads that outlive them | 1 node under pressure, 1 task, 2 dispatches, 2 cells, 2 resets |
| `Analysis` | assertions, timeline, row, test, plots and reports against what they must satisfy | logs of up to 4 lines of a task, scenarios of up to 3 entries wherever their explicit events begin, 4 samples of a resource on 2 nodes, 3 task records, up to 6 rows of 3 algorithms, 5 points of the plots, 3 verdicts |
| `EdgeStaleThread`, `SchedDrift`, `CampaignDrain` | three places where the code does otherwise than it says, section 4 | the smallest that show it |

Bounds. Three calls on a node are a task that finishes, a retry of it and
another task that wants the room between: the races of the code are between two
calls over a third one's state. One core makes the second reservation fail after
the first has succeeded; two kilobytes out of three make an injection matter; a
history cap of 2 is exceeded by three completions. Two nodes and two tasks are
enough for the wrong node, the wrong task and a full node. A dispatch's name
(`Call`) is used again once it is free, so the number of attempts is not bounded
in a reliable trial; with a lossy network a retry whose name is still in use by
its lost predecessor waits, which is why `SchedLossy` and `Campaign` have two names
for their task. In `MinMin` the wide node takes both tasks and the narrow one either
of them, so a node fills up within a tick and one that comes back narrow is too small
for what was planned; two tasks and two nodes are enough for every tie the loops can
break, within a task and between tasks. `MaxTime` 1 lets a ready time lie in the
past, at the snapshot's moment or after it; `MaxReady` 1 bounds the ready times a
tick may start with, as they grow without bound otherwise (section 4).

Two workers, the tick, the poller, the client and the sampler are six threads that
record about two tasks in `Recorder`, so every pair of calls about one task, and a
call between the sections of another, happens. Refusals and resets are in
`RecorderLive` with one of each: a second one meets the same sections. In `Campaign`
two resets separate three trials, of which the middle one may be given up; what a
trial leaves on a node comes from one task as well as from two, and the second
dispatch name lets the leftover, a thread the reset did not stop included, run beside
its successor of the same id. In
`Analysis` the logs tell of one task, as an assertion looks at one task at a time,
with samples of two nodes and lines of the same kind about both. Generators have -1, 0, 2
or 3 arrivals for 3 and 1 tasks: none, fewer than there are tasks, as many, and more.
Utilization is in steps of 20 percent, 0 or 60 to 100, saturation at 80.

Deadlock is not checked in the edge, scheduler, recorder and campaign runs: once
every task has settled, nothing has to happen (and a campaign's bound on resets stops
it); `Analysis` stops when its inputs are as long as they get. `MinMin` checks it.

Symmetry is used among the calls of `EdgeStaleThread`, and among tasks, nodes and
workers of `Recorder`, which check no liveness.

Fairness. Threads of the tick, the poller, the pool and the nodes run when they
can (weak fairness of each); a sleep ends. The poll of a node is strongly fair:
the poller's `for` loop comes back to each node for ever, while the poll of one
is disabled during another's. In `RecorderLive` a thread's step in a recording call
is strongly fair, as the locks it waits for are released and taken again by others
and the interpreter's locks do not starve a waiter; the poller's loop over an answer
and a request that has begun go on (weak fairness). Clients' requests, resets,
losses, injections and the placement timeout owe nothing. `SchedLive` checks its
two properties under `Lossy = {}`, no pressure, `Prompt` and truthful registration: the next
section shows that each of the four is needed.

## 4. What the code does otherwise than it says

Three have a run of their own and their source lines in `PROJECT.json`.

* `EdgeStaleThread` (`WokenReleasesOwn`): a thread that slept through a reset does not
  look whether its record is gone, as the docstring says it does (`execution.py:283`); it
  releases by task id (206), also what a new call holds. Task ids are the same for both
  algorithms' runs of a trial. In the trace one call sleeps while the node is reset, a new
  call of its task reserves memory, and the first wakes and gives that memory back.
* `SchedDrift`: a completion polled before the callback has tracked its task is
  skipped, and its reservation stays until the next reset.
* `CampaignDrain`: the scenario runner's wait ends while a task is on its way to a
  node or runs there, since it is told the count of an earlier poll. The verification
  runner, which looks at the projected cores too, waits rightly in a clean trial
  (`NothingOnNodesWhenDrained`).

Met while modelling, without a run of their own:

* Edge node. The "unreachable" duplicate branch of `try_admit` is reached, without
  any reset, by a retry that comes between a task's release and its deregistration
  (the actions `DupReleaseMemory` and `DupReleaseCpu` fire in `EdgeTrial`). A call whose
  core reservation fails undoes its memory by task id (`execution.py:134`), after a reset
  also what a new call of the task has just reserved. A reset
  between a call's reservations and its registration lets the task run on nothing. A
  thread that finds its record gone at its start exits without releasing, although
  the reset may have cleared the managers before the call reserved.
* Trials. Completions from before a reset are said to be ignored in the next trial, as their
  task is not tracked (`service.py:332`). The next cell uses the same ids, so it is: in
  `Campaign`, in a trial with `clean` and not `quiet`, a thread left from before the reset
  reports a task that runs again, the scheduler records it completed and gives back its
  reservation, and the drain wait succeeds while the node still executes it.
  `MirrorCoversEdge`, `ExecutedOnce` and the second half of `NothingOnNodesWhenDrained` fail
  in such trials; therefore they are stated for quiet ones.
* Registration. Nothing compares a registered profile with the node. `04_homogeneous.yaml`
  registers edge1 as large as the others and for all classes, while `docker-compose.yml:53` runs it
  with 5 KB for lightweight tasks only; `node_state.py:96` speaks of the swap as if it were the
  node's. Such a node answers 409 without any injection, and a task that is planned
  for it again and again goes round for ever: with `Registered <- FarOverstated` `SchedLive` violates
  `EveryTaskSettles`.
* Dispatch. With `Lossy = {"status"}` the model of `SchedLive` violates `DriftCorrected`
  too: `/status` drains the completions when the answer is built, so a lost answer
  takes them with it. With pressure it violates `EveryTaskSettles`: a task refused again
  and again is stamped afresh by each re-enqueue and never times out. What the tick has
  planned before a "hard reset" it dispatches after it (`service.py:276`).
* Mirror. Each reservation pushes the node's ready time on; `release` leaves it to
  `reconcile` to correct, which does not touch it. A node that refuses a task again and
  again looks ever busier to both algorithms. A node that has been idle has its ready time
  in the past: Min-Min adds to it as it is, Adaptive Min-Min does not, so the two choose
  differently even under the prior. `SameUnderPrior` leaves these views out.
* Recorder. `_emit_event` is said to be safe from any thread (`trial_recorder.py:399`)
  but writes to a file another thread may have closed under the other lock, and raises.
  A submission recorded after its task's completion puts the record back to
  "pending"; a refusal recorded after the next dispatch makes it "rejected"
  (`disorder`). A refusal recorded after the next dispatch also leaves its node in the
  record, and a completion does not change a node that is set (`trial_recorder.py:302`,
  320), so the task counts as completed on the node that refused it. `workload_variance`
  leaves out idle nodes, and the time above saturation is a sum over the nodes where the docstring has an average.
* Statistics. Reruns under the same scenario name share their `comparison_id` and are
  averaged into one observation. The plot index groups by the first word of a name, so
  scenarios that share it are listed together (`report.py:242`).
* Verification. `adaptive_trigger_activated` asks for a task "submitted after edge2
  saturated" (`library.py:474`) and looks for one dispatched after that (497): a task that was
  submitted, waited in the queue while edge2 filled up, and went elsewhere, lets it pass.
  Both assertions on the saturation see only the last dispatch of a task: one that was
  given to saturated edge2, refused there and put elsewhere counts as redirected.
  `no_node_crashed` says that it looks for `node_unreachable` markers and samples with
  an error (`library.py:342`) and looks at refusals for a node error alone (363).
  `all_tasks_have_terminal_status` takes "rejected" for an end, as its docstring does, though a
  refused task is back in the queue (`dispatcher.py:169`).
  `no_duplicate_assignments`, `all_assignments_logged` and
  `no_unhandled_exceptions` cannot fail on any log, and a test that names no assertion
  passes. A test that raises loses the verdicts of the cells it has finished, and a
  report without verdicts says that all have passed.

## 5. Proofs

Every theorem holds for every set of tasks, calls, nodes and threads, every size,
capacity and bound of the model. The constants are assumed to be what the `ASSUME`s
state: finite sets of tasks and calls, at least one node, positive sizes, natural
capacities, positions that order the nodes; in `TrialRecorder` that the threads have
different names and that None is no name and no status; in `Verification` that the
classes a node accepts are classes.

**Edge node** (`EdgeNodeProofs`).

* `EdgeTypeCorrect`, `EdgeCapacity` (`Spec`, resets included). Capacity follows
  from the two admission guards, since nothing else adds a hold.
* `EdgeNoOrphans`, `EdgeRunningHolds`, `EdgeReleasesOwn` (`TrialSpec`). None is
  inductive. The strengthening, `Ownership`, is an equivalence: a task's memory is held
  by call `c` exactly when `c` stands between its memory reservation and its
  release, and likewise for cores and records. It makes two calls of the same
  task exclude each other in these ranges, from which the three follow.
  `EdgeEntriesMatch` is the conjunction of the first two, as `EdgeTrial` checks it.
* `EdgeFreedBeforeReported` adds that reported calls are past `finish`.
* `EdgeReportsOnce`: a call that is not done is in no list, so it joins the history
  once; a drain moves entries and a full history drops some, which `Times` of a
  concatenation and of a tail bound.
* `EdgeRefusesOnlyWhenFull`: by `Ownership` every hold belongs to a call in progress, so a
  manager that refuses is full with what is in progress and the injections.
* `EdgeImplements`: with those invariants every step maps to a step of
  `EdgeContract` or to a stutter; the admission takes effect at registration,
  where the tasks then running and the new one are among the holders of both
  managers and so fit.

**Mirror** (`NodeMirrorProofs`). `MirrorTypeCorrect`, `MirrorSums`, `MirrorFits`: the
totals, the types and the capacities are inductive only together. `reserve` bounds the
totals, hence the reservations, because the totals are the sums; `release` subtracts
what is a part of the sum, so its clamps never act. There is a lemma per call of the
mirror, used by all three specifications.

**Algorithms** (`MinMinProofs`).

* `MinMinAnswersPlan`, `MinMinRefusals`, `MinMinTypeCorrect`, `MinMinSums`,
  `MinMinFits`: while `schedule()` runs, its local totals are
  the view's plus what it has placed, so a pair feasible on them is one the node
  takes with all it got before; and when it has answered, there is still room for
  all that is left of the plan, because totals grow only by what leaves it. That
  the reservation exists nowhere yet needs that a waiting task is reserved
  nowhere, hence that a task is reserved on one node at most. `IInv` is the
  conjunction of these; it is inductive.
* `MinMinSamePrior`: under the prior an ECT is Min-Min's completion time less `t0`
  on every node, so the minimum is the same pair.
* `MinMinLoopsFindBest`: after k positions a loop has the first of the cheapest among the
  first k pairs (`FirstCheapest`), by induction over k; the inner loop's result for each
  task is what the outer loop goes through. A strictly better pair only replaces, so
  ties fall to the earlier task and then to the earlier node, which is `Precedes`.

**Scheduler** (`SchedulerProofs`: `Spec`, with losses, resets and registrations).
`SchedTypeCorrect`, `SchedSums`, `SchedFits`: every step of the scheduler is a legal use
of the mirror. What is needed beyond types is that a reservation is always for the demand
of its task, because `release` takes the workload units from the caller and not from
the reservation.

**A trial** (`SchedulerProofs`: `TrialSpec`). `TrialInv` is `BookInv`, what the scheduler's
own books need, with `NoStrays`, that no node has a thread left from a reset, and `EdgeInv`, what
follows of the nodes. `BookInv` has three parts, of which none is inductive without those before it; it is kept
by the steps of a trial (`BookStep`) and when a stray wakes (`BookStray`), so it is what remains for a trial after a reset.

* `AccountsInv` is the above.
* `PlaceInv` says where each task is (`SomePlace`), that the places exclude each other
  and have one holder each, and what is reserved for it. A callback that tracks a task,
  and a worker that gives one back, keep it only because nobody else has the task.
  `TaskInOnePlace` and `ReservationsOwned` are parts of it.
* `PlanInv` keeps the room for the rest of a plan. That room is there as planned since only
  the tick reserves, and a task ahead in the plan has no reservation, by `PlaceInv`. The
  last moment of it is `PlanAlwaysReserved`.
* `EdgeInv`, under the hypothesis `"execute" \notin Lossy`, ties each call on a node to
  its worker or to what is tracked there, so by `PlaceInv` to a reservation
  (`EdgeCovered`). Then what a node has in progress fits the mirror's totals, so a node
  that is no less than what it was registered as (`Overstated`) refuses only for an
  injection (`RefusedUnderPressure`), and a call about to be posted
  is for a task no node has (`NeverExecutedTwice`). Where an answer may be lost the
  three are false: the scheduler gives up on calls the node runs.
* `NodesHonourContract`, on any network, with `NoStrays`: every step of the pipeline maps, for each node, to a
  step of `EdgeContract` or to a stutter.

**Campaign** (`CampaignProofs`).

* `CampaignUsesScheduler`: a campaign is a behaviour of `Scheduler`'s `Spec`, for both
  clients and with requests that fail anywhere, so `Spec`'s theorems hold in it;
  `CampaignSums` is one such consequence. The step that needs an argument is the
  submission: `Scheduler` lets a task be submitted only while its record does not have
  it, which the client never looks at. `ClientInv` says what it knows from where it is:
  between the reset and the start nothing is active or submitted
  (`StepTellsActive`, `StepTellsSubmitted`), and during the replay what is still to be
  submitted has not been. The scheduler's own threads keep this, since none of them
  starts or ends a trial and the record is dropped only in the reset the client is
  waiting for.
* `CampaignStarts` is the first half of `ClientInv`: no trial is refused because an
  earlier one is still active, however that one was left. `CampaignTypeCorrect` is about
  the client's own variables.
* `CleanTrialsBehave`: when `/trial/start` finds nothing of an earlier trial in the
  scheduler and in the nodes' records, `BookInv` holds; when there is no thread of one on a
  node either, `TrialInv` does. Within the trial there are only steps of `TrialNext` and of strays,
  and none of the latter when no stray was there at the start, so each stays (`CleanInv`). What was proved of the books
  in a first trial thus holds in every clean one, what was proved of the nodes in the quiet ones, and
  the latter does fail in the others (section 4).
* `DrainedTrialIsOver`: for the verification runner. A node whose projected cores are zero has
  no reservation, as demands are positive and the totals are sums, so in a clean trial
  nothing is tracked. In a quiet one, by `TrialInv`, it then runs nothing, if no answer
  to a dispatch may be lost.

**Recorder** (`TrialRecorderProofs`). Four invariants, each on top of the one before.

* `RecorderInv` (`RecorderTypeCorrect`, `RecordedReachesLog`): a thread that writes holds the
  log's lock, and what a record says has a line in the log or in a thread's hands
  between the two locks. It needs nothing of the order of calls, so it holds in every
  trial, after a reset with threads still busy as well. The proof showed that the
  status and the node may come from different lines (section 4).
* `LifeInv` (`OneLifeEach`): in a clean trial a task whose calls do not overtake each
  other is in one place, the pool, tracked, or in the hands of one thread that carries
  it, and its place tells which lines are written of it: none before its eviction or
  dispatch, the dispatch alone until its completion.
* `AgreeInv` (`ReplayMatchesRecord`): the set of lines told of such a task determines its
  status and node (`Says`), in whichever order the submission came; the replay says what
  the written lines say, and the record what the written and the pending ones say.
* `RowInv` (`RowCountsLog`): a submitted task that is not over is in somebody's hands
  (`HeldInv`), so when nobody has anything in hand every task is over; then record and
  replay agree on all tasks, and nothing is written about a task until the row is.

**Assertions** (`AnalysisProofs`). `AssertionsMeanIt` is `ExactOn` for every log, of any
length: the `Outcome` of the seven of `Meant` is their `Meaning`, and that of the two on the saturation is
so under the conditions of section 2. The assertions look at the records the replay builds
line by line, their meaning at the log from its end. `RecTells` joins the two: what the
record of a task says after `i` lines is told by its last dispatch, its last line of a
status and the first of its lines that names it, among these `i`. It is kept by each
kind of line (`ThisTask`) and not touched by another task's (`AnotherTask`); each
assertion then needs a fact or two of the record (`RecordKnows`, `RecordLocates`,
`RecordDispatched`, `RecordPlaced`, `RecordLogged`).

`AssertionsAreExact` says it of the inputs of the run.

**The paired test** (`AnalysisProofs`). `TestIsFair`, for any number of blocks, algorithms
and trials. In a block the algorithms below one, tied with it and above it are all of
them, and below and above are the same pairs read from either end, so twice the ranks
of k algorithms add up to k(k + 1) (`RanksAddUp`); the table of ranks summed by rows is the
table summed by columns (`TableByRows`, `TableByColumns`), which gives the mean ranks. A
lower mean has a lower rank, ties included (`RankFollowsMean`), and one strict inequality
in a sum makes it strict (`LoadStrict`). Assumed: metrics are not negative, and all trials
of a comparison are of one scenario, as the runners name them. Without the second the
caveat of the summary would be false.

**The verification report** (`AnalysisProofs`). `ReportTellsEverything`: the lines of the
report are the values of a key of the verdicts, and a set is counted by counting what
each value of a key has (`CountByKey`).

**The plots** (`AnalysisProofs`). `PlotsAreFaithful`: a finite set of samples has a latest
and an earliest (`GreatestMember`, `LeastMember`); the line between two samples is
nowhere negative and passes through a sample at the offset (`InterpIs`), so the trials
that still run are those with a value, and a mean is between the least and the
greatest (`MeanBetween`). A plot's name begins with its scenario's, hence with the word
it is listed under. Assumed: times and percentages are not negative.

**The timeline** (`AnalysisProofs`). `TimelineIsFaithful`, for any number of arrivals,
generators and events, at any times. The invariant of the loop is `Good(made, have)`: the
tasks of the events made so far have exactly the numbers below `seq`, one each, in
the order of the events, and there are `have[c]` of class c. It is more than what is
asked for in the end: that as many places as numbers are taken makes the numbers
distinct, and that they grow from event to event is what the sort needs. A batch keeps it
(`NumberedIs`, `AppendGood`), hence a generator's slots (`SlotsGood`, whose shares add up to
its mix by `ApportionAdds`), an entry and all entries (`ProcessAllGood`). The sort is a
permutation (`SortIs`): the rank of an event is a number of its own, and as many ranks as
events are within bounds. It moves events but not what is in them, so nothing is lost
(`TimelineGood`). Assumed is what the parser checks, that counts of tasks are natural; times,
intervals and counts of arrivals may be any integers.

**The row** (`AnalysisProofs`). `RowIsConsistent`, for any task records and samples.
`SortedIs` shows that the k-th value exists for every k, as the least value with k at or
below it; from that the percentile lies between two neighbours
(`PercentileBetween`), grows with the rank asked for, is the median at 50 and an order
statistic at any rank (`OrderStatistic`). A node's peak bounds its mean and percentile and is
one of its samples, so the columns of a resource agree (`PeakMeets`). The makespan is
between the last completion and the first submission of all records, so no
response time exceeds it (`MakespanHolds`), and the classes split the records (`RowAdds`).
Assumed: a completed task was submitted before, by the scheduler's one clock, which
stamps both (`service.py:551`, `trial_recorder.py:310`); utilization is not negative.

Induction over data. `Replay`, `KeepBest`, `SubmitSlots` and `ProcessAll` are recursive
functions over positions. That they exist, depend on their prefix only and satisfy an
invariant at each position is proved by the least counterexample: a set of natural numbers has a least member
(`LeastMember`, from the library's well-foundedness of `<`), and none that fails can be
the least.

TLC and the proofs. What a theorem states a run checks as well, on a small instance: the
run tells that the definitions mean what they should (the interesting states are
reached, and each property has a mutant that breaks it), the proof that the instance
was not too small.

Only model-checked: liveness (`EveryTaskSettles`, `DriftCorrected`, `InflightReleased`,
`KeepsFairness`), which is out of the prover's reach. Every invariant and every action
property of a passing run is stated by a theorem.

## 6. Not modelled, and what is left

Not modelled: the dashboard, which shows what the endpoints answer; the parsing of
scenario and test files and its error messages; SciPy's statistics and p-values, the
drawing of plots and the wording of reports; metrics, logging and configuration from
the environment; the start and stop of the services and the dispatcher's `close()` at
shutdown; `distribution_balance_index`, a ratio of a standard deviation and a mean.

Assumed and not questioned: one client at a time, and one that waits for the answer of
a reset however long it takes (a real one gives up after five seconds, and the next
trial may then start while the reset is still clearing, as may the scheduler give up on a
node's answer while that node is); task ids that a client does
not submit twice in a trial, which `TimelineFaithful` checks of the generator.

Left, in this order.

1. A reset that outlives its client, and two clients at once.
2. `LearnedState` with exact rationals over small inputs.
