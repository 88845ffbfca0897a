----------------------------- MODULE Scheduler -----------------------------
(***************************************************************************)
(* The scheduler's pipeline: scheduler/queue.py, scheduler/dispatcher.py   *)
(* and the threads and endpoints of scheduler/service.py, around the       *)
(* mirror of scheduler/node_state.py (NodeMirror).                         *)
(*                                                                         *)
(* A step is one critical section of one thread: the tick thread, a worker *)
(* of the dispatch pool, the reconcile poller, a request handler.  A Call  *)
(* is one run of _do_dispatch together with the request it posts; the edge *)
(* nodes behave as EdgeContract says until they are reset, and Lossy names *)
(* the endpoints whose requests and answers the network may lose or delay   *)
(* beyond the timeout.                                                     *)
(***************************************************************************)
EXTENDS Placement

CONSTANTS
  Call,        \* runs of _do_dispatch
  TaskOf,      \* the task a call dispatches
  ProfileOf,   \* the fleet: usable RAM, cores and classes of each node
  Pressured,   \* nodes whose memory is taken by injections at times
  MaxWorkers,  \* max_workers of the dispatch pool (8 in the code)
  Lossy,       \* the endpoints whose requests or answers may be lost or late
  Prompt,      \* whether a task always outlasts the dispatch callback
  MaxResets    \* bound on the number of POST /trial/reset

ASSUME SchedulerAssumption ==
  /\ TaskOf \in [Call -> Task]
  /\ ProfileOf \in [Node -> Profile]
  /\ Pressured \subseteq Node
  /\ MaxWorkers \in Nat \ {0} /\ MaxResets \in Nat
  /\ Lossy \subseteq {"execute", "status", "reset"} /\ Prompt \in BOOLEAN
  /\ Nothing \notin Node /\ Nothing \notin Task \X Node

VARIABLES
  submitted,   \* tasks accepted by POST /submit_task or /submit_batch
  queue,       \* TaskQueue._tasks
  overdue,     \* those enqueued longer ago than the placement timeout
  tickPc,      \* the next critical section of _run_one_tick
  pending,     \* its snapshot of the queue
  plan,        \* its assignments still to be dispatched
  hand,        \* the assignment between queue.remove and reserve
  stage,       \* the next critical section of each call's worker
  at,          \* the node each call is for
  phase,       \* what has become of each call's request on the edge
  shaken,      \* the nodes reset while earlier calls had not left them
  pollPc,      \* the next critical section of _reconcile_loop
  pollNode,    \* the node it is polling
  report,      \* recent_completions of the answer it is working on
  inflight,    \* _inflight
  dispatched,  \* the keys of _dispatched_tasks
  completed,   \* completed tasks of the trial's record
  evicted,     \* evicted tasks of the trial's record
  active,      \* TrialRecorder.is_active()
  resetPc,     \* the next section of trial_reset
  toReset,     \* the nodes it still has to reset
  resets       \* resets begun

queueVars == <<queue, overdue>>
tickVars == <<tickPc, pending, plan, hand>>
callVars == <<stage, at, phase, shaken>>
pollVars == <<pollPc, pollNode, report>>
trackVars == <<inflight, dispatched>>
recordVars == <<submitted, completed, evicted, active>>
resetVars == <<resetPc, toReset, resets>>
vars == <<mirrorVars, queueVars, tickVars, callVars, pollVars, trackVars, recordVars, resetVars>>

-----------------------------------------------------------------------------
\* The calls a node is executing, and their tasks.
RunningAt(n) == {c \in Call : at[c] = n /\ phase[c] = "running"}
Stray == {c \in Call : phase[c] = "stray"}
TasksOf(S) == {TaskOf[c] : c \in S}

Advance(c, from, to) == stage[c] = from /\ stage' = [stage EXCEPT ![c] = to]

\* enqueue and enqueue_many leave a task that is already pending as it is; a
\* task they add has just been enqueued, so it is not overdue.
Enqueue(S) == queue' = queue \cup S /\ UNCHANGED overdue

\* Mutants of Dequeue: only one of the two dictionaries, or none, is updated.
DequeueTaskOnly(S) == queue' = queue \ S /\ UNCHANGED overdue
DequeueNothing(S) == UNCHANGED queueVars

\* remove, evict_expired and clear take a task from both dictionaries.
Dequeue(S) == queue' = queue \ S /\ overdue' = overdue \ S

\* A worker releases the reservation its call was made under.  Mutant: it does not.
KeepReservation(c) == UNCHANGED mirrorVars
GiveBack(c) == Release(at[c], TaskOf[c], DemandOf[TaskOf[c]].units)

-----------------------------------------------------------------------------
Init ==
  /\ spec \in [Node -> Profile] /\ \A n \in Node : spec[n] \in Registered[n]
  /\ held = [n \in Node |-> [t \in Task |-> Nothing]]
  /\ usedRam = [n \in Node |-> 0]
  /\ usedCores = [n \in Node |-> 0]
  /\ workload = [n \in Node |-> 0]
  /\ reachable = [n \in Node |-> FALSE]
  /\ submitted = {} /\ queue = {} /\ overdue = {}
  /\ tickPc = "idle" /\ pending = {} /\ plan = {} /\ hand = Nothing
  /\ stage = [c \in Call |-> "idle"]
  /\ at = [c \in Call |-> Nothing]
  /\ phase = [c \in Call |-> "unused"] /\ shaken = {}
  /\ pollPc = "idle" /\ pollNode = Nothing /\ report = {}
  /\ inflight = [n \in Node |-> {}] /\ dispatched = {}
  /\ completed = {} /\ evicted = {} /\ active = TRUE
  /\ resetPc = "idle" /\ toReset = {} /\ resets = 0

-----------------------------------------------------------------------------
\* POST /submit_task and /submit_batch; clients give every task its own id.
Submit(S) ==
  /\ submitted' = submitted \cup S
  /\ Enqueue(S)
  /\ UNCHANGED <<mirrorVars, tickVars, callVars, pollVars, trackVars>>
  /\ UNCHANGED <<completed, evicted, active, resetVars>>

\* The placement timeout passes for a pending task.
Age(t) ==
  /\ t \in queue \ overdue
  /\ overdue' = overdue \cup {t}
  /\ UNCHANGED <<mirrorVars, queue, tickVars, callVars, pollVars, trackVars, recordVars, resetVars>>

-----------------------------------------------------------------------------
\* The tick thread: _run_one_tick and Dispatcher.dispatch

\* evict_expired, and the record of what it evicted.
Evict ==
  /\ tickPc = "idle" /\ tickPc' = "snapshot"
  /\ Dequeue(overdue)
  /\ evicted' = IF active THEN evicted \cup overdue ELSE evicted
  /\ UNCHANGED <<mirrorVars, pending, plan, hand, callVars, pollVars, trackVars>>
  /\ UNCHANGED <<submitted, completed, active, resetVars>>

Snapshot ==
  /\ tickPc = "snapshot"
  /\ pending' = queue
  /\ tickPc' = IF queue = {} THEN "idle" ELSE "schedule"
  /\ UNCHANGED <<mirrorVars, queueVars, plan, hand, callVars, pollVars, trackVars>>
  /\ UNCHANGED <<recordVars, resetVars>>

\* snapshot_views and schedule(), whichever algorithm is active: MinMin shows
\* that both answer with a plan.
Schedule ==
  /\ tickPc = "schedule"
  /\ \E p \in Plans(View, pending) :
       /\ plan' = p
       /\ tickPc' = IF p = {} THEN "idle" ELSE "assign"
  /\ pending' = {}
  /\ UNCHANGED <<mirrorVars, queueVars, hand, callVars, pollVars, trackVars>>
  /\ UNCHANGED <<recordVars, resetVars>>

\* queue.remove, whose answer is not looked at.
Assign(a) ==
  /\ tickPc = "assign" /\ tickPc' = "reserve"
  /\ a \in plan
  /\ plan' = plan \ {a}
  /\ hand' = a
  /\ Dequeue({a[1]})
  /\ UNCHANGED <<mirrorVars, pending, callVars, pollVars, trackVars, recordVars, resetVars>>

\* Reserve in the mirror and hand the task to the pool, or put it back.
DispatchHand ==
  /\ tickPc = "reserve"
  /\ tickPc' = IF plan = {} THEN "idle" ELSE "assign"
  /\ hand' = Nothing
  /\ LET t == hand[1]
         n == hand[2]
     IN  \/ /\ Reserve(n, t, DemandOf[t])
            /\ \E c \in Call :
                 /\ TaskOf[c] = t /\ stage[c] = "idle" /\ phase[c] \in {"unused", "refused"}
                 /\ stage' = [stage EXCEPT ![c] = "pooled"]
                 /\ at' = [at EXCEPT ![c] = n]
                 /\ phase' = [phase EXCEPT ![c] = "unused"]
            /\ UNCHANGED <<queueVars, shaken>>
         \/ /\ ~CanReserve(n, t, DemandOf[t])
            /\ Enqueue({t})
            /\ UNCHANGED <<mirrorVars, callVars>>
  /\ UNCHANGED <<pending, plan, pollVars, trackVars, recordVars, resetVars>>

TickStep == Evict \/ Snapshot \/ Schedule \/ (\E a \in plan : Assign(a)) \/ DispatchHand

-----------------------------------------------------------------------------
\* The edge nodes, as EdgeContract describes them, and as EdgeNode shows them
\* after a reset.  Then a node may have "stray" threads, of calls it has no
\* record of: asleep, or gone and their memory with them.  On a shaken node
\* a call runs until its record is popped, elsewhere until its room is free.

\* A shaken node is settled once its reset has ended and every call has left it.
Settle ==
  shaken' = {n \in shaken :
    resetPc' = "edge" \/ \E c \in Call : at[c] = n /\ phase'[c] \in {"requested", "running", "stray"}}

\* Mutant of Admissible: a task that is running already is no obstacle.
AdmissibleAgain(c) ==
  /\ TaskOf[c] \in ProfileOf[at[c]].accepts
  /\ Room(ProfileOf[at[c]], TasksOf(RunningAt(at[c])) \cup {TaskOf[c]}, 0, 0)

\* What runs on a shaken node may have lost its reservations to a reset or a stray.
Admissible(c) ==
  LET n == at[c]
      others == IF n \in shaken THEN {} ELSE TasksOf(RunningAt(n))
  IN  /\ TaskOf[c] \in ProfileOf[n].accepts \ TasksOf(RunningAt(n))
      /\ Room(ProfileOf[n], others \cup {TaskOf[c]}, 0, 0)

\* 201 Created, if anybody is still waiting for it.
Admit(c) ==
  /\ phase[c] = "requested" /\ Admissible(c)
  /\ phase' = [phase EXCEPT ![c] = "running"]
  /\ stage' = [stage EXCEPT ![c] = IF @ = "posting" THEN "admitted" ELSE @]
  /\ UNCHANGED <<mirrorVars, queueVars, tickVars, at, shaken, pollVars, trackVars>>
  /\ UNCHANGED <<recordVars, resetVars>>

\* What a node may be holding something for: it is being admitted, it runs, it
\* has run and has not been reported, or it has been left behind by a reset.
Burden(n) == {c \in Call : at[c] = n /\ phase[c] \in {"requested", "running", "completed", "stray"}}

\* 409 Conflict: the class is not accepted, no room besides those, one of them is
\* the same task, or an injection is in the way.  EdgeNode!RefusedOnlyWhenFull
\* shows as much.
Refuse(c) ==
  /\ phase[c] = "requested"
  /\ \/ TaskOf[c] \notin ProfileOf[at[c]].accepts
     \/ ~Room(ProfileOf[at[c]], TasksOf(Burden(at[c])), 0, 0)
     \/ \E d \in Burden(at[c]) \ {c} : TaskOf[d] = TaskOf[c]
     \/ at[c] \in Pressured
  /\ phase' = [phase EXCEPT ![c] = "refused"]
  /\ stage' = [stage EXCEPT ![c] = IF @ = "posting" THEN "refused" ELSE @]
  /\ UNCHANGED <<mirrorVars, queueVars, tickVars, at, pollVars, trackVars, recordVars, resetVars>>
  /\ Settle

Complete(c) ==
  /\ phase[c] = "running"
  /\ Prompt => stage[c] = "idle"
  /\ phase' = [phase EXCEPT ![c] = "completed"]
  /\ UNCHANGED <<mirrorVars, queueVars, tickVars, stage, at, pollVars, trackVars>>
  /\ UNCHANGED <<recordVars, resetVars>>
  /\ Settle

\* A stray wakes and reports its task.  It pops the record it finds under that id:
\* the call the record belongs to is a stray from now on.
Wake(c) ==
  /\ phase[c] = "stray"
  /\ LET robbed == {d \in RunningAt(at[c]) : TaskOf[d] = TaskOf[c]}
     IN  phase' = [d \in Call |->
           IF d = c THEN "completed" ELSE IF d \in robbed THEN "stray" ELSE phase[d]]
  /\ UNCHANGED <<mirrorVars, queueVars, tickVars, stage, at, pollVars, trackVars>>
  /\ UNCHANGED <<recordVars, resetVars>>
  /\ Settle

\* A thread that has not begun finds no record and exits.
Exit(c) ==
  /\ phase[c] = "stray" /\ TaskOf[c] \notin TasksOf(RunningAt(at[c]))
  /\ phase' = [phase EXCEPT ![c] = "unused"]
  /\ UNCHANGED <<mirrorVars, queueVars, tickVars, stage, at, pollVars, trackVars>>
  /\ UNCHANGED <<recordVars, resetVars>>
  /\ Settle

\* The request never reaches the node.
LoseRequest(c) ==
  /\ "execute" \in Lossy /\ phase[c] = "requested"
  /\ phase' = [phase EXCEPT ![c] = "refused"]
  /\ UNCHANGED <<mirrorVars, queueVars, tickVars, stage, at, pollVars, trackVars>>
  /\ UNCHANGED <<recordVars, resetVars>>
  /\ Settle

EdgeStep(c) == Admit(c) \/ Refuse(c) \/ Complete(c)
StrayStep(c) == Wake(c) \/ Exit(c)

-----------------------------------------------------------------------------
\* A worker of the pool: Dispatcher._do_dispatch and _on_node_error

Busy == {c \in Call : stage[c] \notin {"idle", "pooled"}}

\* get_spec, which knows every node (no code unregisters one), and the request.
Post(c) ==
  /\ Cardinality(Busy) < MaxWorkers
  /\ Advance(c, "pooled", "posting")
  /\ phase' = [phase EXCEPT ![c] = "requested"]
  /\ UNCHANGED <<mirrorVars, queueVars, tickVars, at, shaken, pollVars, trackVars>>
  /\ UNCHANGED <<recordVars, resetVars>>

\* httpx.RequestError: no answer within the timeout, whatever the node did.
TimeOut(c) ==
  /\ "execute" \in Lossy
  /\ \E from \in {"posting", "admitted", "refused"} : Advance(c, from, "failed")
  /\ UNCHANGED <<mirrorVars, queueVars, tickVars, at, phase, shaken, pollVars, trackVars>>
  /\ UNCHANGED <<recordVars, resetVars>>

\* On a 201, _on_dispatch_outcome returns at once unless a trial is active.
RecordDispatched(c) ==
  /\ Advance(c, "admitted", IF active THEN "track" ELSE "idle")
  /\ UNCHANGED <<mirrorVars, queueVars, tickVars, at, phase, shaken, pollVars, trackVars>>
  /\ UNCHANGED <<recordVars, resetVars>>

\* Mutant of Track: the task is not put into _dispatched_tasks.
TrackInflightOnly(c) ==
  /\ pollPc # "observing"
  /\ Advance(c, "track", "idle")
  /\ inflight' = [inflight EXCEPT ![at[c]] = @ \cup {TaskOf[c]}]
  /\ UNCHANGED <<mirrorVars, queueVars, tickVars, at, phase, shaken, pollVars, dispatched>>
  /\ UNCHANGED <<recordVars, resetVars>>

\* Its section of _inflight_lock, which the poller may be holding.
Track(c) ==
  /\ pollPc # "observing"
  /\ Advance(c, "track", "idle")
  /\ inflight' = [inflight EXCEPT ![at[c]] = @ \cup {TaskOf[c]}]
  /\ dispatched' = dispatched \cup {TaskOf[c]}
  /\ UNCHANGED <<mirrorVars, queueVars, tickVars, at, phase, shaken, pollVars>>
  /\ UNCHANGED <<recordVars, resetVars>>

ReleaseRefused(c) ==
  /\ Advance(c, "refused", "requeue")
  /\ GiveBack(c)
  /\ UNCHANGED <<queueVars, tickVars, at, phase, shaken, pollVars, trackVars>>
  /\ UNCHANGED <<recordVars, resetVars>>

ReleaseFailed(c) ==
  /\ Advance(c, "failed", "mark")
  /\ GiveBack(c)
  /\ UNCHANGED <<queueVars, tickVars, at, phase, shaken, pollVars, trackVars>>
  /\ UNCHANGED <<recordVars, resetVars>>

\* Mutant of Mark: the task is not put back into the queue.
MarkOnly(c) ==
  /\ Advance(c, "mark", "idle")
  /\ MarkUnreachable(at[c])
  /\ UNCHANGED <<queueVars, tickVars, at, phase, shaken, pollVars, trackVars>>
  /\ UNCHANGED <<recordVars, resetVars>>

Mark(c) ==
  /\ Advance(c, "mark", "requeue")
  /\ MarkUnreachable(at[c])
  /\ UNCHANGED <<queueVars, tickVars, at, phase, shaken, pollVars, trackVars>>
  /\ UNCHANGED <<recordVars, resetVars>>

\* The callback that follows only records the rejection.
Requeue(c) ==
  /\ Advance(c, "requeue", "idle")
  /\ Enqueue({TaskOf[c]})
  /\ UNCHANGED <<mirrorVars, tickVars, at, phase, shaken, pollVars, trackVars>>
  /\ UNCHANGED <<recordVars, resetVars>>

WorkerStep(c) ==
  \/ Post(c) \/ RecordDispatched(c) \/ Track(c)
  \/ ReleaseRefused(c) \/ ReleaseFailed(c) \/ Mark(c) \/ Requeue(c)

-----------------------------------------------------------------------------
\* The poller: _reconcile_loop and _observe_completions

PollDone == pollPc' = "idle" /\ pollNode' = Nothing /\ report' = {}

\* GET /status: the node hands out its completions and forgets them.
Poll(n) ==
  /\ pollPc = "idle" /\ pollPc' = "answered"
  /\ pollNode' = n
  /\ LET done == {c \in Call : at[c] = n /\ phase[c] = "completed"}
     IN  /\ report' = TasksOf(done)
         /\ phase' = [c \in Call |-> IF c \in done THEN "unused" ELSE phase[c]]
  /\ UNCHANGED <<mirrorVars, queueVars, tickVars, stage, at, shaken, trackVars>>
  /\ UNCHANGED <<recordVars, resetVars>>

\* node_state.reconcile(node_id, runtime).
StoreStatus ==
  /\ pollPc = "answered"
  /\ Reconcile(pollNode)
  /\ \/ report # {} /\ pollPc' = "observe" /\ UNCHANGED <<pollNode, report>>
     \/ report = {} /\ PollDone
  /\ UNCHANGED <<queueVars, tickVars, callVars, trackVars, recordVars, resetVars>>

\* One completion, _inflight_lock being kept until the last one.
Observe(t) ==
  /\ pollPc \in {"observe", "observing"}
  /\ t \in report
  /\ \/ report # {t} /\ pollPc' = "observing" /\ report' = report \ {t} /\ UNCHANGED pollNode
     \/ report = {t} /\ PollDone
  /\ inflight' = [inflight EXCEPT ![pollNode] = @ \ {t}]
  /\ \/ /\ t \in inflight[pollNode] \cap dispatched
        /\ Release(pollNode, t, DemandOf[t].units)
        /\ completed' = IF active THEN completed \cup {t} ELSE completed
     \/ /\ t \notin inflight[pollNode] \cap dispatched
        /\ UNCHANGED <<mirrorVars, completed>>
  /\ dispatched' = IF t \in inflight[pollNode] THEN dispatched \ {t} ELSE dispatched
  /\ UNCHANGED <<queueVars, tickVars, callVars, submitted, evicted, active, resetVars>>

\* The poll fails before it reaches the node, or its answer does not arrive.
LosePoll(n) ==
  /\ "status" \in Lossy
  /\ \/ pollPc = "idle"
     \/ pollPc = "answered" /\ pollNode = n
  /\ MarkUnreachable(n)
  /\ PollDone
  /\ UNCHANGED <<queueVars, tickVars, callVars, trackVars, recordVars, resetVars>>

PollStep == StoreStatus \/ \E t \in report : Observe(t)

-----------------------------------------------------------------------------
\* Between trials: POST /trial/start, /trial/end, /trial/reset and
\* /nodes/register

\* Mutant of TrialStart: the record of the trial before is written on.
TrialStartAgain ==
  /\ ~active /\ active' = TRUE
  /\ UNCHANGED <<mirrorVars, queueVars, tickVars, callVars, pollVars, trackVars>>
  /\ UNCHANGED <<submitted, completed, evicted, resetVars>>

TrialStart ==
  /\ ~active /\ active' = TRUE
  /\ completed' = {} /\ evicted' = {}
  /\ UNCHANGED <<mirrorVars, queueVars, tickVars, callVars, pollVars, trackVars>>
  /\ UNCHANGED <<submitted, resetVars>>

TrialEnd ==
  /\ active /\ active' = FALSE
  /\ UNCHANGED <<mirrorVars, queueVars, tickVars, callVars, pollVars, trackVars>>
  /\ UNCHANGED <<submitted, completed, evicted, resetVars>>

\* The body says what the node is to be taken for.
RegisterNode(n) ==
  /\ \E p \in Registered[n] : Register(n, p)
  /\ UNCHANGED <<queueVars, tickVars, callVars, pollVars, trackVars, recordVars, resetVars>>

\* trial_reset drops the record, clears the queue, ...
ResetRecord ==
  /\ resetPc = "idle" /\ resetPc' = "queue"
  /\ resets < MaxResets /\ resets' = resets + 1
  /\ active' = FALSE
  /\ UNCHANGED <<mirrorVars, queueVars, tickVars, callVars, pollVars, trackVars>>
  /\ UNCHANGED <<submitted, completed, evicted, toReset>>

ClearQueue ==
  /\ resetPc = "queue" /\ resetPc' = "mirror"
  /\ Dequeue(queue)
  /\ submitted' = {}
  /\ UNCHANGED <<mirrorVars, tickVars, callVars, pollVars, trackVars>>
  /\ UNCHANGED <<completed, evicted, active, toReset, resets>>

\* ... the mirror, ...
ResetMirror ==
  /\ resetPc = "mirror" /\ resetPc' = "inflight"
  /\ ResetAll
  /\ UNCHANGED <<queueVars, tickVars, callVars, pollVars, trackVars, recordVars, toReset, resets>>

\* ... what is tracked, under a lock the poller may be holding, ...
ClearInflight ==
  /\ pollPc # "observing"
  /\ resetPc = "inflight" /\ resetPc' = "edges"
  /\ inflight' = [n \in Node |-> {}] /\ dispatched' = {}
  /\ toReset' = Node
  /\ UNCHANGED <<mirrorVars, queueVars, tickVars, callVars, pollVars, recordVars, resets>>

\* ... and resets each node in turn, or fails to.  The node forgets its records and
\* its completions; its threads go on, and so do those that have freed their room
\* and are about to report.
ResetEdge(n) ==
  /\ resetPc = "edges" /\ n \in toReset
  /\ toReset' = toReset \ {n}
  /\ LET reported == {c \in Call : at[c] = n /\ phase[c] = "completed"}
     IN  \/ /\ resetPc' = "edge" /\ shaken' = shaken \cup {n}
            /\ \E S \in SUBSET (IF n \in shaken THEN {} ELSE reported) :
                 phase' = [c \in Call |->
                   CASE c \in RunningAt(n) \cup S -> "stray"
                     [] c \in reported \ S -> "unused"
                     [] OTHER -> phase[c]]
         \/ /\ "reset" \in Lossy
            /\ resetPc' = IF toReset = {n} THEN "idle" ELSE "edges"
            /\ UNCHANGED <<phase, shaken>>
  /\ UNCHANGED <<mirrorVars, queueVars, tickVars, stage, at, pollVars, trackVars>>
  /\ UNCHANGED <<recordVars, resets>>

\* It has cleared its memory and its cores as well.
EdgeAnswers ==
  /\ resetPc = "edge" /\ resetPc' = IF toReset = {} THEN "idle" ELSE "edges"
  /\ UNCHANGED <<mirrorVars, queueVars, tickVars, stage, at, phase, pollVars, trackVars>>
  /\ UNCHANGED <<recordVars, toReset, resets>>
  /\ Settle

-----------------------------------------------------------------------------
\* A trial in progress, from an empty scheduler: nobody ends or resets it, and
\* no thread is left from an earlier one.
TrialNext ==
  \/ \E S \in SUBSET (Task \ submitted) : Submit(S)
  \/ \E t \in Task : Age(t)
  \/ TickStep
  \/ \E c \in Call : WorkerStep(c) \/ TimeOut(c) \/ EdgeStep(c) \/ LoseRequest(c)
  \/ \E n \in Node : Poll(n) \/ LosePoll(n)
  \/ PollStep

LifecycleNext ==
  \/ TrialStart \/ TrialEnd
  \/ ResetRecord \/ ClearQueue \/ ResetMirror \/ ClearInflight \/ EdgeAnswers
  \/ \E n \in Node : RegisterNode(n) \/ ResetEdge(n)

Next == TrialNext \/ LifecycleNext \/ \E c \in Call : StrayStep(c)

TrialSpec == Init /\ [][TrialNext]_vars
Spec == Init /\ [][Next]_vars

\* The tick and the poller are loops on their own threads, and the poller's
\* for-loop comes to every node again and again.  Pool workers run, the
\* nodes answer and finish their tasks.  Nobody has to submit anything.
Fairness ==
  /\ WF_vars(TickStep) /\ WF_vars(PollStep)
  /\ \A n \in Node : SF_vars(Poll(n))
  /\ \A c \in Call : WF_vars(WorkerStep(c)) /\ WF_vars(EdgeStep(c))

FairTrialSpec == TrialSpec /\ Fairness
-----------------------------------------------------------------------------
\* Properties

Stages == {"idle", "pooled", "posting", "admitted", "refused", "track", "failed", "mark", "requeue"}

\* The type invariant; what is overdue is pending, and only the poll that has
\* drained a node has completions to work on.
TypeOK ==
  /\ MirrorTypeOK
  /\ submitted \subseteq Task /\ queue \subseteq Task /\ overdue \subseteq queue
  /\ tickPc \in {"idle", "snapshot", "schedule", "assign", "reserve"}
  /\ pending \subseteq Task /\ plan \subseteq Task \X Node
  /\ IF tickPc = "reserve" THEN hand \in Task \X Node ELSE hand = Nothing
  /\ stage \in [Call -> Stages]
  /\ at \in [Call -> Node \cup {Nothing}]
  /\ \A c \in Call : stage[c] # "idle" \/ phase[c] # "unused" => at[c] \in Node
  /\ phase \in [Call -> {"unused", "requested", "running", "completed", "refused", "stray"}]
  /\ shaken \subseteq Node
  /\ pollPc \in {"idle", "answered", "observe", "observing"}
  /\ IF pollPc = "idle" THEN pollNode = Nothing /\ report = {}
                        ELSE pollNode \in Node /\ report \subseteq Task
  /\ inflight \in [Node -> SUBSET Task] /\ dispatched \subseteq Task
  /\ completed \subseteq Task /\ evicted \subseteq Task /\ active \in BOOLEAN
  /\ resetPc \in {"idle", "queue", "mirror", "inflight", "edges", "edge"}
  /\ toReset \subseteq Node /\ resets \in 0..MaxResets

\* The calls whose worker is still to decide what becomes of their task, and
\* those whose reservation it is still to keep or to give back.
Deciding == {c \in Call : stage[c] # "idle"}
Holding == {c \in Call : stage[c] \in {"pooled", "posting", "admitted", "refused", "track", "failed"}}

\* Where a task may be found: every way of saying so is one place.
Places(t) ==
  {<<"worker", c>> : c \in {d \in Deciding : TaskOf[d] = t}}
    \cup {<<"node", n>> : n \in {m \in Node : t \in inflight[m]}}
    \cup {<<place, t>> : place \in
             {"queue" : x \in {t} \cap queue} \cup {"hand" : x \in {a \in {hand} : a # Nothing /\ a[1] = t}}
               \cup {"completed" : x \in {t} \cap completed} \cup {"evicted" : x \in {t} \cap evicted}}

\* A submitted task is never lost and never in two hands: it is pending, or
\* between queue.remove and reserve, or with one worker, or tracked on one
\* node, or recorded as completed or as evicted, and only one of these.
OnePlace ==
  \A t \in Task :
    /\ t \in submitted <=> Places(t) # {}
    /\ \A p, q \in Places(t) : p = q

\* The mirror holds room on a node for exactly the tasks that are on their
\* way to it or tracked on it: no reservation outlives its task's stay there
\* and none is given back early, through refusals, timeouts and races.
ReservationHasOwner ==
  \A n \in Node, t \in Task :
    held[n][t] # Nothing <=>
      t \in inflight[n] \/ \E c \in Holding : at[c] = n /\ TaskOf[c] = t

\* "Mirror refused reservation" is never logged within a trial: between the
\* views the algorithm was given and the reservation nothing takes room away.
MirrorNeverRefuses ==
  tickPc = "reserve" => CanReserve(hand[2], hand[1], DemandOf[hand[1]])

\* Whatever a node is asked to run, runs or has not yet reported is reserved
\* in the mirror, unless the network has made the scheduler give up on it.
MirrorCoversEdge ==
  "execute" \notin Lossy =>
    \A n \in Node, c \in Call : c \in Burden(n) => held[n][TaskOf[c]] = DemandOf[TaskOf[c]]

\* The nodes registered as larger, or as accepting more, than they are.
Overstated ==
  {n \in Node : \/ spec[n].ram > ProfileOf[n].ram \/ spec[n].cores > ProfileOf[n].cores
                \/ ~(spec[n].accepts \subseteq ProfileOf[n].accepts)}

\* So a node that is what it was registered as refuses a task only because of an
\* injection: the mirror never sends it one for which it has no room.
OnlyPressureRefuses ==
  "execute" \notin Lossy =>
    \A c \in Call : stage[c] = "refused" => at[c] \in Pressured \cup Overstated

\* A task is not started again while a node has it or once it has completed,
\* unless an answer was lost.
ExecutedOnce ==
  "execute" \notin Lossy =>
    \A c, d \in Call :
      phase[c] = "running" /\ TaskOf[c] = TaskOf[d] =>
        /\ phase[d] \in {"requested", "running", "completed"} => c = d
        /\ TaskOf[c] \notin completed \cup queue

\* Each node as the scheduler sees it behaves as EdgeContract says: what
\* EdgeNode is shown to implement is what the scheduler is checked against.
\* (A request of a class the node does not accept is none in the contract.)
SeenBy(n, c) == at[c] = n /\ (phase[c] = "requested" => TaskOf[c] \in ProfileOf[n].accepts)

EdgeAt(n) ==
  INSTANCE EdgeContract
    WITH phase <- [c \in Call |-> IF SeenBy(n, c) THEN phase[c] ELSE "unused"],
         job <- TaskOf,
         Accepted <- ProfileOf[n].accepts,
         Fits <- LAMBDA S : Room(ProfileOf[n], S, 0, 0)

EdgesHonourContract ==
  /\ \A n \in Node : EdgeAt(n)!Init
  /\ [][\A n \in Node : EdgeAt(n)!Next \/ UNCHANGED EdgeAt(n)!contractVars]_vars

\* A submitted task completes or times out in the queue.
EveryTaskSettles == \A t \in Task : t \in submitted ~> t \in completed \cup evicted

\* "if the actual state diverges from the projection, the projection snaps to
\* reality": room reserved for a task no node has any more is given back.
OnSomeNode(t) ==
  \E c \in Call : TaskOf[c] = t /\ (stage[c] # "idle" \/ phase[c] \in {"requested", "running"})

DriftCorrected ==
  \A n \in Node, t \in Task :
    (held[n][t] # Nothing /\ ~OnSomeNode(t)) ~> held[n][t] = Nothing
=============================================================================
