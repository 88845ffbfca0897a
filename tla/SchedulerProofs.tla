-------------------------- MODULE SchedulerProofs --------------------------
(***************************************************************************)
(* For every fleet, every set of tasks, every number of dispatches, any    *)
(* network and any number of resets and re-registrations, the scheduler    *)
(* keeps its types, its accounts of what is reserved are exact, and they   *)
(* stay within the capacities.  That the accounts are exact needs that a   *)
(* reservation is always made with the demand its task is released with.   *)
(*                                                                         *)
(* Within a trial no task is lost or in two hands, each reservation has    *)
(* its owner and every plan can be carried out; while no answer to a       *)
(* dispatch is lost, no task runs twice and no node is asked for more than *)
(* it has. The invariant of a trial, TrialInv, begins with BookInv, which  *)
(* is about the scheduler's own books and holds whatever the nodes do. Of  *)
(* its parts AccountsInv makes the totals sums of what is reserved;        *)
(* PlaceInv says where each task is and what is reserved for it there;     *)
(* PlanInv keeps the room for the rest of a plan, which needs PlaceInv:    *)
(* what is in hand is reserved nowhere. NoStrays says that no node has a   *)
(* thread left from before a reset. EdgeInv then ties a call on the edge   *)
(* to its worker or to what is tracked, and so to PlaceInv, from which it  *)
(* learns that a call about to be posted is for a task no node has.        *)
(***************************************************************************)
EXTENDS Scheduler, NodeMirrorProofs

\* What is reserved for a task is what the task asks for.
ReservedAsDemanded == \A n \in Node, t \in Task : held[n][t] \in {DemandOf[t], Nothing}

AccountsInv == TypeOK /\ MirrorInv /\ ReservedAsDemanded

-----------------------------------------------------------------------------
\* The mirror's part

LEMMA MirrorUntouched ==
  ASSUME MirrorInv, ReservedAsDemanded, UNCHANGED mirrorVars
  PROVE  MirrorInv' /\ ReservedAsDemanded'
<1>1. MirrorInv'
  BY StatusKeeps DEF MirrorInv, MirrorTypeOK, mirrorVars, totals
<1>2. QED
  BY <1>1 DEF ReservedAsDemanded, mirrorVars

LEMMA MirrorReleases ==
  ASSUME MirrorInv, ReservedAsDemanded, NEW n \in Node, NEW t \in Task,
         Release(n, t, DemandOf[t].units)
  PROVE  MirrorInv' /\ ReservedAsDemanded'
<1>1. held[n][t] # Nothing => DemandOf[t].units = held[n][t].units
  BY DEF ReservedAsDemanded
<1>2. MirrorInv'
  BY <1>1, ReleaseKeeps
<1>3. ReservedAsDemanded'
  <2>1. held' = held \/ held' = [held EXCEPT ![n][t] = Nothing]
    BY DEF Release, mirrorVars
  <2>2. QED
    BY <2>1 DEF ReservedAsDemanded, MirrorInv, MirrorTypeOK
<1>4. QED
  BY <1>2, <1>3

LEMMA MirrorStatus ==
  ASSUME MirrorInv, ReservedAsDemanded, NEW n \in Node, Reconcile(n) \/ MarkUnreachable(n)
  PROVE  MirrorInv' /\ ReservedAsDemanded'
BY ReconcileKeeps DEF Reconcile, MarkUnreachable, ReservedAsDemanded

\* Every step of the scheduler is a legal use of the mirror.
LEMMA AccountsStep ==
  ASSUME AccountsInv, [Next]_vars
  PROVE  MirrorInv' /\ ReservedAsDemanded'
<1> USE DEF AccountsInv
<1>1. CASE UNCHANGED mirrorVars
  BY <1>1, MirrorUntouched
<1>2. ASSUME DispatchHand PROVE MirrorInv' /\ ReservedAsDemanded'
  <2> DEFINE t == hand[1]
             n == hand[2]
  <2>1. t \in Task /\ n \in Node
    BY <1>2 DEF DispatchHand, TypeOK
  <2>2. CASE Reserve(n, t, DemandOf[t])
    <3>1. DemandOf[t] \in Demand
      BY <2>1, PlacementAssumption
    <3>2. MirrorInv'
      BY <2>1, <2>2, <3>1, ReserveKeeps
    <3>3. ReservedAsDemanded'
      BY <2>1, <2>2 DEF Reserve, ReservedAsDemanded, MirrorInv, MirrorTypeOK
    <3>4. QED
      BY <3>2, <3>3
  <2>3. CASE UNCHANGED mirrorVars
    BY <2>3, MirrorUntouched
  <2>4. QED
    BY <1>2, <2>2, <2>3 DEF DispatchHand
<1>3. ASSUME NEW c \in Call, ReleaseRefused(c) \/ ReleaseFailed(c)
      PROVE  MirrorInv' /\ ReservedAsDemanded'
  <2>1. at[c] \in Node /\ TaskOf[c] \in Task
    BY <1>3, SchedulerAssumption DEF ReleaseRefused, ReleaseFailed, Advance, TypeOK
  <2>2. Release(at[c], TaskOf[c], DemandOf[TaskOf[c]].units)
    BY <1>3 DEF ReleaseRefused, ReleaseFailed, GiveBack
  <2>3. QED
    BY <2>1, <2>2, MirrorReleases
<1>4. ASSUME NEW c \in Call, Mark(c) PROVE MirrorInv' /\ ReservedAsDemanded'
  <2>1. at[c] \in Node
    BY <1>4 DEF Mark, Advance, TypeOK
  <2>2. QED
    BY <1>4, <2>1, MirrorStatus DEF Mark
<1>5. ASSUME StoreStatus PROVE MirrorInv' /\ ReservedAsDemanded'
  <2>1. pollNode \in Node
    BY <1>5 DEF StoreStatus, TypeOK
  <2>2. QED
    BY <1>5, <2>1, MirrorStatus DEF StoreStatus
<1>6. ASSUME NEW t \in report, Observe(t) PROVE MirrorInv' /\ ReservedAsDemanded'
  <2>1. pollNode \in Node /\ t \in Task
    BY <1>6 DEF Observe, TypeOK
  <2>2. CASE Release(pollNode, t, DemandOf[t].units)
    BY <2>1, <2>2, MirrorReleases
  <2>3. CASE UNCHANGED mirrorVars
    BY <2>3, MirrorUntouched
  <2>4. QED
    BY <1>6, <2>2, <2>3 DEF Observe
<1>7. ASSUME NEW n \in Node, LosePoll(n) PROVE MirrorInv' /\ ReservedAsDemanded'
  BY <1>7, MirrorStatus DEF LosePoll
<1>8. ASSUME NEW n \in Node, RegisterNode(n) PROVE MirrorInv' /\ ReservedAsDemanded'
  <2>1. PICK p \in Registered[n] : Register(n, p)
    BY <1>8 DEF RegisterNode
  <2>2. MirrorInv'
    BY <2>1, ReplaceKeeps, MirrorAssumption DEF Register
  <2>3. ReservedAsDemanded'
    BY <2>1 DEF Register, Replace, ReservedAsDemanded, MirrorInv, MirrorTypeOK
  <2>4. QED
    BY <2>2, <2>3
<1>9. ASSUME ResetMirror PROVE MirrorInv' /\ ReservedAsDemanded'
  BY <1>9, ResetKeeps DEF ResetMirror, ResetAll, ReservedAsDemanded
<1>10. CASE TrialNext
  <2>1. CASE TickStep
    BY <1>1, <1>2, <2>1 DEF TickStep, Evict, Snapshot, Schedule, Assign
  <2>2. ASSUME NEW c \in Call, WorkerStep(c) PROVE MirrorInv' /\ ReservedAsDemanded'
    BY <1>1, <1>3, <1>4, <2>2 DEF WorkerStep, Post, RecordDispatched, Track, Requeue
  <2>3. ASSUME NEW c \in Call, TimeOut(c) \/ EdgeStep(c) \/ LoseRequest(c)
        PROVE  MirrorInv' /\ ReservedAsDemanded'
    BY <1>1, <2>3 DEF TimeOut, EdgeStep, Admit, Refuse, Complete, LoseRequest
  <2>4. ASSUME NEW S \in SUBSET (Task \ submitted), Submit(S) PROVE MirrorInv' /\ ReservedAsDemanded'
    BY <1>1, <2>4 DEF Submit
  <2>5. ASSUME NEW t \in Task, Age(t) PROVE MirrorInv' /\ ReservedAsDemanded'
    BY <1>1, <2>5 DEF Age
  <2>6. ASSUME NEW n \in Node, Poll(n) PROVE MirrorInv' /\ ReservedAsDemanded'
    BY <1>1, <2>6 DEF Poll
  <2>7. QED
    BY <1>10, <1>5, <1>6, <1>7, <2>1, <2>2, <2>3, <2>4, <2>5, <2>6 DEF TrialNext, PollStep
<1>11. CASE LifecycleNext
  BY <1>1, <1>8, <1>9, <1>11
    DEF LifecycleNext, TrialStart, TrialEnd, ResetRecord, ClearQueue, ClearInflight, ResetEdge, EdgeAnswers
<1>12. ASSUME NEW c \in Call, StrayStep(c) PROVE MirrorInv' /\ ReservedAsDemanded'
  BY <1>1, <1>12 DEF StrayStep, Wake, Exit
<1>13. QED
  BY <1>1, <1>10, <1>11, <1>12 DEF Next, vars

-----------------------------------------------------------------------------
\* Types

\* Everything a type says but the mirror's.
QueueTypes == queue \subseteq Task /\ overdue \subseteq queue
TickTypes ==
  /\ tickPc \in {"idle", "snapshot", "schedule", "assign", "reserve"}
  /\ pending \subseteq Task /\ plan \subseteq Task \X Node
  /\ IF tickPc = "reserve" THEN hand \in Task \X Node ELSE hand = Nothing
CallTypes ==
  /\ stage \in [Call -> Stages]
  /\ at \in [Call -> Node \cup {Nothing}]
  /\ \A c \in Call : stage[c] # "idle" \/ phase[c] # "unused" => at[c] \in Node
  /\ phase \in [Call -> {"unused", "requested", "running", "completed", "refused", "stray"}]
  /\ shaken \subseteq Node
PollTypes ==
  /\ pollPc \in {"idle", "answered", "observe", "observing"}
  /\ IF pollPc = "idle" THEN pollNode = Nothing /\ report = {}
                        ELSE pollNode \in Node /\ report \subseteq Task
TrackTypes == inflight \in [Node -> SUBSET Task] /\ dispatched \subseteq Task
RecordTypes ==
  submitted \subseteq Task /\ completed \subseteq Task /\ evicted \subseteq Task /\ active \in BOOLEAN
ResetTypes ==
  /\ resetPc \in {"idle", "queue", "mirror", "inflight", "edges", "edge"}
  /\ toReset \subseteq Node /\ resets \in 0..MaxResets

RestTypes ==
  QueueTypes /\ TickTypes /\ CallTypes /\ PollTypes /\ TrackTypes /\ RecordTypes /\ ResetTypes

LEMMA TypeParts == TypeOK <=> MirrorTypeOK /\ RestTypes
BY DEF TypeOK, RestTypes, QueueTypes, TickTypes, CallTypes, PollTypes, TrackTypes, RecordTypes, ResetTypes

LEMMA TickTypesStep ==
  ASSUME RestTypes, TickStep
  PROVE  RestTypes'
<1> USE SchedulerAssumption
    DEF RestTypes, QueueTypes, TickTypes, CallTypes, PollTypes, TrackTypes, RecordTypes, ResetTypes, Stages,
        queueVars, tickVars, callVars, pollVars, trackVars, recordVars, resetVars
<1>1. CASE Evict
  BY <1>1 DEF Evict, Dequeue
<1>2. CASE Snapshot
  BY <1>2 DEF Snapshot
<1>3. CASE Schedule
  <2>1. plan' \subseteq Task \X Node
    BY <1>3 DEF Schedule, Plans
  <2>2. QED
    BY <1>3, <2>1 DEF Schedule
<1>4. ASSUME NEW a \in plan, Assign(a) PROVE RestTypes'
  BY <1>4 DEF Assign, Dequeue
<1>5. CASE DispatchHand
  <2>1. hand[1] \in Task /\ hand[2] \in Node
    BY <1>5 DEF DispatchHand
  <2>2. QueueTypes' /\ CallTypes'
    BY <1>5, <2>1 DEF DispatchHand, Enqueue
  <2>3. QED
    BY <1>5, <2>2 DEF DispatchHand
<1>6. QED
  BY <1>1, <1>2, <1>3, <1>4, <1>5 DEF TickStep

LEMMA CallTypesStep ==
  ASSUME RestTypes, NEW c \in Call,
         WorkerStep(c) \/ TimeOut(c) \/ EdgeStep(c) \/ LoseRequest(c) \/ StrayStep(c)
  PROVE  RestTypes'
<1> USE SchedulerAssumption
    DEF RestTypes, QueueTypes, TickTypes, CallTypes, PollTypes, TrackTypes, RecordTypes, ResetTypes, Stages,
        queueVars, tickVars, callVars, pollVars, trackVars, recordVars, resetVars
<1>1. CASE Post(c)
  BY <1>1 DEF Post, Advance
<1>2. CASE RecordDispatched(c) \/ TimeOut(c)
  BY <1>2 DEF RecordDispatched, TimeOut, Advance
<1>3. CASE Track(c)
  BY <1>3 DEF Track, Advance
<1>4. CASE ReleaseRefused(c) \/ ReleaseFailed(c) \/ Mark(c)
  BY <1>4 DEF ReleaseRefused, ReleaseFailed, Mark, Advance
<1>5. CASE Requeue(c)
  BY <1>5 DEF Requeue, Advance, Enqueue
<1>6. CASE Admit(c) \/ Refuse(c)
  BY <1>6 DEF Admit, Refuse, Settle
<1>7. CASE Complete(c) \/ LoseRequest(c) \/ Exit(c)
  BY <1>7 DEF Complete, LoseRequest, Exit, Settle
<1>8. CASE Wake(c)
  BY <1>8 DEF Wake, RunningAt, Settle
<1>9. QED
  BY <1>1, <1>2, <1>3, <1>4, <1>5, <1>6, <1>7, <1>8 DEF WorkerStep, EdgeStep, StrayStep

LEMMA PollTypesStep ==
  ASSUME RestTypes, PollStep \/ \E n \in Node : Poll(n) \/ LosePoll(n)
  PROVE  RestTypes'
<1> USE SchedulerAssumption
    DEF RestTypes, QueueTypes, TickTypes, CallTypes, PollTypes, TrackTypes, RecordTypes, ResetTypes, Stages,
        queueVars, tickVars, callVars, pollVars, trackVars, recordVars, resetVars
<1>1. CASE StoreStatus
  BY <1>1 DEF StoreStatus, PollDone
<1>2. ASSUME NEW t \in report, Observe(t) PROVE RestTypes'
  BY <1>2 DEF Observe, PollDone
<1>3. ASSUME NEW n \in Node, Poll(n) PROVE RestTypes'
  BY <1>3 DEF Poll, TasksOf
<1>4. ASSUME NEW n \in Node, LosePoll(n) PROVE RestTypes'
  BY <1>4 DEF LosePoll, PollDone
<1>5. QED
  BY <1>1, <1>2, <1>3, <1>4 DEF PollStep

LEMMA LifecycleTypesStep ==
  ASSUME RestTypes, LifecycleNext
  PROVE  RestTypes'
<1>0. ResetRecord => resets' \in 0..MaxResets
  <2>1. MaxResets \in Nat
    BY SchedulerAssumption
  <2>2. QED
    BY <2>1 DEF RestTypes, ResetTypes, ResetRecord
<1> USE SchedulerAssumption
    DEF RestTypes, QueueTypes, TickTypes, CallTypes, PollTypes, TrackTypes, RecordTypes, ResetTypes, Stages,
        queueVars, tickVars, callVars, pollVars, trackVars, recordVars, resetVars
<1>1. CASE TrialStart \/ TrialEnd
  BY <1>1, ZenonT(40) DEF TrialStart, TrialEnd
<1>2. CASE ResetRecord
  BY <1>0, <1>2 DEF ResetRecord
<1>3. CASE ClearQueue
  BY <1>3 DEF ClearQueue, Dequeue
<1>4. CASE ResetMirror \/ ClearInflight
  BY <1>4 DEF ResetMirror, ClearInflight
<1>5. ASSUME NEW n \in Node, RegisterNode(n) PROVE RestTypes'
  BY <1>5 DEF RegisterNode
<1>6. ASSUME NEW n \in Node, ResetEdge(n) PROVE RestTypes'
  <2>1. CallTypes'
    BY <1>6 DEF ResetEdge, RunningAt
  <2>2. QED
    BY <1>6, <2>1 DEF ResetEdge
<1>7. CASE EdgeAnswers
  BY <1>7 DEF EdgeAnswers, Settle
<1>8. QED
  BY <1>1, <1>2, <1>3, <1>4, <1>5, <1>6, <1>7 DEF LifecycleNext

LEMMA TypesStep ==
  ASSUME RestTypes, [Next]_vars
  PROVE  RestTypes'
<1>1. ASSUME NEW S \in SUBSET (Task \ submitted), Submit(S) PROVE RestTypes'
  BY <1>1 DEF Submit, Enqueue, RestTypes, QueueTypes, TickTypes, CallTypes, PollTypes, TrackTypes,
              RecordTypes, ResetTypes, tickVars, callVars, pollVars, trackVars, resetVars
<1>2. ASSUME NEW t \in Task, Age(t) PROVE RestTypes'
  BY <1>2 DEF Age, RestTypes, QueueTypes, TickTypes, CallTypes, PollTypes, TrackTypes,
              RecordTypes, ResetTypes, tickVars, callVars, pollVars, trackVars, recordVars, resetVars
<1>3. CASE UNCHANGED vars
  BY <1>3 DEF vars, RestTypes, QueueTypes, TickTypes, CallTypes, PollTypes, TrackTypes, RecordTypes,
              ResetTypes, queueVars, tickVars, callVars, pollVars, trackVars, recordVars, resetVars
<1>4. CASE LifecycleNext
  BY <1>4, LifecycleTypesStep
<1>5. ASSUME NEW c \in Call,
             WorkerStep(c) \/ TimeOut(c) \/ EdgeStep(c) \/ LoseRequest(c) \/ StrayStep(c)
      PROVE  RestTypes'
  BY <1>5, CallTypesStep
<1>6. CASE PollStep \/ \E n \in Node : Poll(n) \/ LosePoll(n)
  BY <1>6, PollTypesStep
<1>7. CASE TickStep
  BY <1>7, TickTypesStep
<1>8. CASE TrialNext
  BY <1>1, <1>2, <1>5, <1>6, <1>7, <1>8 DEF TrialNext
<1>9. QED
  BY <1>3, <1>4, <1>5, <1>8 DEF Next

-----------------------------------------------------------------------------
\* The theorems

LEMMA AccountsInit == Init => AccountsInv
<1> SUFFICES ASSUME Init PROVE AccountsInv
  OBVIOUS
<1>1. \A n \in Node : Reserved(n) = {} /\ HeldRam(n) = 0 /\ HeldCores(n) = 0 /\ HeldUnits(n) = 0
  BY EmptyHeld DEF Init
<1>2. \A n \in Node : spec[n] \in Profile /\ 0 <= spec[n].ram /\ 0 <= spec[n].cores
  BY SchedulerAssumption, MirrorAssumption DEF Init
<1>3. MirrorInv
  <2>1. MirrorTypeOK
    BY <1>1, SchedulerAssumption, MirrorAssumption DEF Init, MirrorTypeOK
  <2>2. ProjectedIsSum /\ ReservedFits
    BY <1>1, <1>2 DEF Init, ProjectedIsSum, ReservedFits
  <2>3. QED
    BY <2>1, <2>2 DEF MirrorInv
<1>4. RestTypes
  BY SchedulerAssumption
    DEF Init, RestTypes, QueueTypes, TickTypes, CallTypes, PollTypes, TrackTypes, RecordTypes, ResetTypes, Stages
<1>5. ReservedAsDemanded
  BY DEF Init, ReservedAsDemanded
<1>6. QED
  BY <1>3, <1>4, <1>5, TypeParts DEF AccountsInv, MirrorInv

LEMMA AccountsKept == AccountsInv /\ [Next]_vars => AccountsInv'
<1> SUFFICES ASSUME AccountsInv, [Next]_vars PROVE AccountsInv'
  OBVIOUS
<1>1. MirrorInv' /\ ReservedAsDemanded'
  BY AccountsStep
<1>2. RestTypes'
  BY TypesStep, TypeParts DEF AccountsInv
<1>3. TypeOK'
  BY <1>1, <1>2, TypeParts, PTL DEF MirrorInv
<1>4. QED
  BY <1>1, <1>3 DEF AccountsInv

LEMMA AccountsInvariant == Spec => []AccountsInv
BY AccountsInit, AccountsKept, PTL DEF Spec

\* The scheduler's variables keep their types through trials, resets and
\* re-registrations, whatever the network does (service.py, dispatcher.py).
THEOREM SchedTypeCorrect == Spec => []TypeOK
<1>1. AccountsInv => TypeOK
  BY DEF AccountsInv
<1>2. QED
  BY <1>1, AccountsInvariant, PTL

\* The mirror's totals are the sums of its reservations in every reachable
\* state of the scheduler: the threads that reserve and release cannot make
\* them drift, nor can a reset in the midst of it (node_state.py).
THEOREM SchedSums == Spec => []ProjectedIsSum
<1>1. AccountsInv => ProjectedIsSum
  BY DEF AccountsInv, MirrorInv
<1>2. QED
  BY <1>1, AccountsInvariant, PTL

\* The scheduler never has more reserved on a node than the node has.
THEOREM SchedFits == Spec => []ReservedFits
<1>1. AccountsInv => ReservedFits
  BY DEF AccountsInv, MirrorInv
<1>2. QED
  BY <1>1, AccountsInvariant, PTL

-----------------------------------------------------------------------------
\* Where a task may be
InHand(t) == tickPc = "reserve" /\ hand[1] = t
WithWorker(t) == \E c \in Call : stage[c] # "idle" /\ TaskOf[c] = t
Tracked(t) == \E n \in Node : t \in inflight[n]

\* A task has a place just when it has been submitted.
SomePlace ==
  \A t \in Task :
    t \in submitted <=>
      t \in queue \cup completed \cup evicted \/ InHand(t) \/ WithWorker(t) \/ Tracked(t)

\* The places exclude each other, and so do workers, and nodes.
PlacesApart ==
  /\ queue \cap (completed \cup evicted) = {} /\ completed \cap evicted = {}
  /\ \A t \in Task :
       /\ InHand(t) \/ WithWorker(t) \/ Tracked(t) => t \notin queue \cup completed \cup evicted
       /\ InHand(t) => ~WithWorker(t) /\ ~Tracked(t)
       /\ WithWorker(t) => ~Tracked(t)

OneHolder ==
  /\ \A c, d \in Call :
       stage[c] # "idle" /\ stage[d] # "idle" /\ TaskOf[c] = TaskOf[d] => c = d
  /\ \A m, n \in Node : \A t \in Task : t \in inflight[m] /\ t \in inflight[n] => m = n

\* What is tracked on a node is in _dispatched_tasks too.
InflightDispatched == \A n \in Node : inflight[n] \subseteq dispatched

PlaceInv == SomePlace /\ PlacesApart /\ OneHolder /\ InflightDispatched /\ ReservationHasOwner

-----------------------------------------------------------------------------
\* The assignments the tick has still to reserve, and their tasks on a node.
Ahead == plan \cup {a \in {hand} : tickPc = "reserve"}
AheadOn(n) == {t \in Task : <<t, n>> \in Ahead}

\* Nobody ends the trial within it, and every node is registered; between the
\* snapshot and the plan the queue only grows, and a plan is carried out before
\* anything else is evicted or planned.
TickShape ==
  /\ active = TRUE /\ spec \in [Node -> Profile]
  /\ plan # {} => tickPc \in {"assign", "reserve"}
  /\ tickPc = "schedule" => pending \subseteq queue

\* What is planned is pending, once, and where it is accepted.
PlanShape ==
  /\ \A a \in plan : a[1] \in queue
  /\ \A a, b \in Ahead : a[1] = b[1] => a = b
  /\ \A a \in Ahead : a[1] \in spec[a[2]].accepts

\* The room for all that is still to be reserved is there.
RoomAhead ==
  \A n \in Node : AheadOn(n) # {} => Room(spec[n], AheadOn(n), usedRam[n], usedCores[n])

\* A call in the pool has not been posted, and a call that has not been answered is
\* for a node that is said to accept it.
PooledFresh ==
  \A c \in Call :
    /\ stage[c] = "pooled" => phase[c] = "unused"
    /\ stage[c] \in {"pooled", "posting"} => TaskOf[c] \in spec[at[c]].accepts

PlanInv == TickShape /\ PlanShape /\ RoomAhead /\ PooledFresh

-----------------------------------------------------------------------------
\* While no answer to a dispatch is lost
OnEdge(c) == phase[c] \in {"requested", "running", "completed"}

\* How far a worker is tells what the node has done with its request.
Answered ==
  \A c \in Call :
    /\ stage[c] = "idle" => phase[c] # "requested"
    /\ stage[c] = "posting" => phase[c] = "requested"
    /\ stage[c] \in {"admitted", "track"} => phase[c] \in {"running", "completed", "unused"}
    /\ stage[c] \in {"refused", "requeue"} => phase[c] = "refused"
    /\ stage[c] \notin {"failed", "mark"}

\* What a node runs or has to report is tracked once its worker is done.
EdgeTracked ==
  \A c \in Call : OnEdge(c) /\ stage[c] = "idle" => TaskOf[c] \in inflight[at[c]]

\* No task is on the edge twice.
EdgeOnce == \A c, d \in Call : OnEdge(c) /\ OnEdge(d) /\ TaskOf[c] = TaskOf[d] => c = d

\* What has been reported is not on the edge, and it is tracked on the node
\* that reported it, or is about to be.
ReportTracked ==
  \A t \in report :
    /\ \A c \in Call : TaskOf[c] = t => ~OnEdge(c)
    /\ \/ t \in inflight[pollNode]
       \/ \E c \in Call : stage[c] \in {"admitted", "track"} /\ at[c] = pollNode /\ TaskOf[c] = t

EdgeInv ==
  "execute" \notin Lossy =>
    Answered /\ EdgeTracked /\ EdgeOnce /\ ReportTracked /\ OnlyPressureRefuses

\* No node has a thread of an earlier trial.
NoStrays == shaken = {} /\ \A c \in Call : phase[c] # "stray"

\* What the scheduler keeps in its own books needs nothing of the nodes.
BookInv == AccountsInv /\ PlaceInv /\ PlanInv
TrialInv == BookInv /\ NoStrays /\ EdgeInv

-----------------------------------------------------------------------------
\* One place for each task

\* What the proofs below need of the types.
LEMMA Shapes ==
  ASSUME TypeOK
  PROVE  /\ stage \in [Call -> Stages] /\ inflight \in [Node -> SUBSET Task]
         /\ held \in [Node -> [Task -> Demand \cup {Nothing}]]
         /\ dispatched \subseteq Task /\ submitted \subseteq Task
         /\ queue \subseteq Task /\ overdue \subseteq queue
         /\ completed \subseteq Task /\ evicted \subseteq Task
         /\ tickPc = "reserve" => hand \in Task \X Node
         /\ at \in [Call -> Node \cup {Nothing}]
         /\ \A c \in Call : stage[c] # "idle" => at[c] \in Node
         /\ TaskOf \in [Call -> Task]
BY SchedulerAssumption DEF TypeOK, MirrorTypeOK

LEMMA PlaceTick ==
  ASSUME TypeOK, PlaceInv, TickShape, PlanShape, TickStep
  PROVE  PlaceInv'
<1>0. Nothing \notin Demand
  BY MirrorAssumption
<1> USE Shapes, <1>0
    DEF PlaceInv, SomePlace, PlacesApart, OneHolder, InflightDispatched, ReservationHasOwner, Holding,
        InHand, WithWorker, Tracked, mirrorVars, queueVars, tickVars, callVars, pollVars, trackVars, recordVars
<1>1. CASE Evict
  BY <1>1 DEF Evict, Dequeue, TickShape
<1>2. CASE Snapshot \/ Schedule
  BY <1>2 DEF Snapshot, Schedule
<1>3. ASSUME NEW a \in plan, Assign(a) PROVE PlaceInv'
  <2>1. a[1] \in queue
    BY DEF PlanShape
  <2>2. QED
    BY <1>3, <2>1 DEF Assign, Dequeue
<1>4. CASE DispatchHand
  <2> DEFINE t == hand[1]
             n == hand[2]
  <2>1. t \in Task /\ n \in Node /\ InHand(t) /\ \A u \in Task : InHand(u) => u = t
    BY <1>4 DEF DispatchHand
  <2>2. \A u \in Task : ~InHand(u)'
    BY <1>4 DEF DispatchHand
  <2>3. CASE Reserve(n, t, DemandOf[t])
    <3>1. DemandOf[t] \in Demand
      BY <2>1, PlacementAssumption
    <3>2. PICK c \in Call :
            /\ TaskOf[c] = t /\ stage[c] = "idle"
            /\ stage' = [stage EXCEPT ![c] = "pooled"] /\ at' = [at EXCEPT ![c] = n]
      BY <1>4, <2>3 DEF DispatchHand, Reserve
    <3>3. /\ UNCHANGED <<submitted, queue, completed, evicted, inflight, dispatched>>
          /\ held' = [held EXCEPT ![n][t] = DemandOf[t]]
      BY <1>4, <2>3 DEF DispatchHand, Reserve
    <3> HIDE DEF t, n
    <3>4. \A u \in Task : WithWorker(u)' <=> u = t \/ WithWorker(u)
      BY <3>2
    <3>5. SomePlace' /\ PlacesApart' /\ InflightDispatched'
      BY <2>1, <2>2, <3>3, <3>4
    <3>6. OneHolder'
      BY <2>1, <3>2, <3>3
    <3>7. ReservationHasOwner'
      <4>1. c \in Holding' /\ \A d \in Call \ {c} : d \in Holding' <=> d \in Holding
        BY <3>2
      <4>2. ASSUME NEW m \in Node, NEW u \in Task
            PROVE  held'[m][u] # Nothing <=>
                     u \in inflight'[m] \/ \E d \in Holding' : at'[d] = m /\ TaskOf[d] = u
        <5>1. CASE m = n /\ u = t
          BY <2>1, <3>1, <3>2, <3>3, <4>1, <5>1
        <5>2. CASE ~(m = n /\ u = t)
          <6>1. held'[m][u] = held[m][u]
            BY <2>1, <3>3, <5>2
          <6>2. c \notin Holding /\ Holding' \subseteq Call /\ Holding \subseteq Call
            BY <3>2
          <6>3. at'[c] = n /\ \A d \in Call \ {c} : at'[d] = at[d]
            BY <2>1, <3>2
          <6>4. QED
            BY <3>2, <3>3, <4>1, <5>2, <6>1, <6>2, <6>3
        <5>3. QED
          BY <5>1, <5>2
      <4>3. QED
        BY <4>2
    <3>8. QED
      BY <3>5, <3>6, <3>7
  <2>4. CASE Enqueue({t}) /\ UNCHANGED <<mirrorVars, callVars>>
    BY <1>4, <2>1, <2>2, <2>4 DEF DispatchHand, Enqueue
  <2>5. QED
    BY <1>4, <2>3, <2>4 DEF DispatchHand
<1>5. QED
  BY <1>1, <1>2, <1>3, <1>4 DEF TickStep
\* A step that leaves every task where it is.
LEMMA PlaceSame ==
  ASSUME TypeOK, PlaceInv, Deciding' = Deciding, Holding' = Holding, UNCHANGED <<tickPc, hand>>,
         UNCHANGED <<submitted, queue, completed, evicted, inflight, dispatched, held, at>>
  PROVE  PlaceInv'
<1>1. \A c \in Call : stage'[c] # "idle" <=> stage[c] # "idle"
  BY DEF Deciding
<1>2. ReservationHasOwner'
  BY DEF PlaceInv, ReservationHasOwner
<1>3. QED
  BY <1>1, <1>2
    DEF PlaceInv, SomePlace, PlacesApart, OneHolder, InflightDispatched, InHand, WithWorker, Tracked

LEMMA PlaceWorker ==
  ASSUME TypeOK, PlaceInv, TickShape, NEW c \in Call,
         WorkerStep(c) \/ TimeOut(c) \/ EdgeStep(c) \/ LoseRequest(c)
  PROVE  PlaceInv'
<1> DEFINE n == at[c]
           t == TaskOf[c]
<1>0. Nothing \notin Demand
  BY MirrorAssumption
<1> USE Shapes, <1>0
    DEF mirrorVars, queueVars, tickVars, callVars, pollVars, trackVars, recordVars
<1>1. CASE Post(c) \/ RecordDispatched(c) \/ TimeOut(c) \/ EdgeStep(c) \/ LoseRequest(c) \/ Mark(c)
  <2>1. Deciding' = Deciding
    BY <1>1 DEF Post, RecordDispatched, TimeOut, EdgeStep, Admit, Refuse, Complete,
                LoseRequest, Mark, Advance, Deciding, TickShape
  <2>2. Holding' = Holding
    BY <1>1 DEF Post, RecordDispatched, TimeOut, EdgeStep, Admit, Refuse, Complete,
                LoseRequest, Mark, Advance, Holding, TickShape
  <2>3. /\ UNCHANGED <<tickPc, hand>>
        /\ UNCHANGED <<submitted, queue, completed, evicted, inflight, dispatched, held, at>>
    BY <1>1 DEF Post, RecordDispatched, TimeOut, EdgeStep, Admit, Refuse, Complete,
                LoseRequest, Mark, MarkUnreachable
  <2>4. QED
    BY <2>1, <2>2, <2>3, PlaceSame
<1>2. CASE Track(c)
  <2>1. /\ stage[c] = "track" /\ stage' = [stage EXCEPT ![c] = "idle"] /\ n \in Node /\ t \in Task
        /\ inflight' = [inflight EXCEPT ![n] = @ \cup {t}] /\ dispatched' = dispatched \cup {t}
        /\ UNCHANGED <<tickPc, hand, submitted, queue, completed, evicted, held, at>>
    BY <1>2 DEF Track, Advance
  <2> HIDE DEF n
  <2>2. \A u \in Task : Tracked(u)' <=> u = t \/ Tracked(u)
    BY <2>1 DEF Tracked
  <2>3. \A u \in Task : WithWorker(u)' <=> u # t /\ WithWorker(u)
    BY <2>1 DEF PlaceInv, OneHolder, WithWorker
  <2>4. WithWorker(t)
    BY <2>1 DEF WithWorker
  <2>5. SomePlace' /\ PlacesApart' /\ InflightDispatched'
    BY <2>1, <2>2, <2>3, <2>4
      DEF PlaceInv, SomePlace, PlacesApart, InflightDispatched, InHand
  <2>6. OneHolder'
    BY <2>1, <2>4 DEF PlaceInv, PlacesApart, OneHolder, Tracked
  <2>7. ReservationHasOwner'
    BY <2>1 DEF n, PlaceInv, ReservationHasOwner, Holding
  <2>8. QED
    BY <2>5, <2>6, <2>7 DEF PlaceInv
<1>3. CASE ReleaseRefused(c) \/ ReleaseFailed(c)
  <2>1. \E to \in {"requeue", "mark"} :
          /\ stage[c] \in {"refused", "failed"} /\ stage' = [stage EXCEPT ![c] = to]
          /\ UNCHANGED <<tickPc, hand, submitted, queue, completed, evicted, inflight, dispatched, at>>
    BY <1>3 DEF ReleaseRefused, ReleaseFailed, Advance
  <2>2. n \in Node /\ t \in Task /\ WithWorker(t) /\ c \in Holding
    BY <2>1 DEF WithWorker, Holding
  <2>3. held' = [held EXCEPT ![n][t] = Nothing]
    BY <1>3, <2>2
      DEF ReleaseRefused, ReleaseFailed, GiveBack, Release, PlaceInv, ReservationHasOwner
  <2>4. SomePlace' /\ PlacesApart' /\ OneHolder' /\ InflightDispatched'
    BY <2>1 DEF PlaceInv, SomePlace, PlacesApart, OneHolder, InflightDispatched, InHand, WithWorker, Tracked
  <2>5. Holding' = Holding \ {c}
    BY <2>1 DEF Holding
  <2>6. t \notin inflight[n] /\ \A d \in Holding : TaskOf[d] = t => d = c
    BY <2>1, <2>2 DEF PlaceInv, PlacesApart, OneHolder, Tracked, Holding
  <2>7. ReservationHasOwner'
    <3>1. ASSUME NEW m \in Node, NEW u \in Task
          PROVE  held'[m][u] # Nothing <=>
                   u \in inflight'[m] \/ \E d \in Holding' : at'[d] = m /\ TaskOf[d] = u
      BY <2>1, <2>2, <2>3, <2>5, <2>6 DEF PlaceInv, ReservationHasOwner
    <3>2. QED
      BY <3>1 DEF ReservationHasOwner
  <2>8. QED
    BY <2>4, <2>7 DEF PlaceInv
<1>4. CASE Requeue(c)
  <2>1. /\ stage[c] = "requeue" /\ stage' = [stage EXCEPT ![c] = "idle"] /\ t \in Task
        /\ queue' = queue \cup {t}
        /\ UNCHANGED <<tickPc, hand, submitted, completed, evicted, inflight, dispatched, held, at>>
    BY <1>4 DEF Requeue, Advance, Enqueue
  <2>2. \A u \in Task : WithWorker(u)' <=> u # t /\ WithWorker(u)
    BY <2>1 DEF PlaceInv, OneHolder, WithWorker
  <2>3. WithWorker(t)
    BY <2>1 DEF WithWorker
  <2>4. SomePlace' /\ PlacesApart' /\ InflightDispatched'
    BY <2>1, <2>2, <2>3 DEF PlaceInv, SomePlace, PlacesApart, InflightDispatched, InHand, Tracked
  <2>5. OneHolder'
    BY <2>1 DEF PlaceInv, OneHolder
  <2>6. ReservationHasOwner'
    BY <2>1 DEF PlaceInv, ReservationHasOwner, Holding
  <2>7. QED
    BY <2>4, <2>5, <2>6 DEF PlaceInv
<1>5. QED
  BY <1>1, <1>2, <1>3, <1>4 DEF WorkerStep

LEMMA PlaceObserve ==
  ASSUME TypeOK, PlaceInv, TickShape, NEW t \in report, Observe(t)
  PROVE  PlaceInv'
<1> DEFINE n == pollNode
<1>1. n \in Node /\ t \in Task
  BY DEF Observe, TypeOK
<1>2. UNCHANGED <<tickPc, hand, submitted, queue, evicted, stage, at>>
  BY DEF Observe, tickVars, callVars, queueVars
<1>3. CASE t \notin inflight[n]
  <2>1. UNCHANGED <<completed, inflight, dispatched, held>>
    BY <1>1, <1>3, Shapes DEF Observe, mirrorVars
  <2>2. QED
    BY <1>2, <2>1, PlaceSame DEF Deciding, Holding
<1>4. CASE t \in inflight[n]
  <2>1. t \in dispatched /\ held[n][t] # Nothing
    BY <1>1, <1>4 DEF PlaceInv, InflightDispatched, ReservationHasOwner
  <2>2. /\ inflight' = [inflight EXCEPT ![n] = @ \ {t}] /\ dispatched' = dispatched \ {t}
        /\ completed' = completed \cup {t} /\ held' = [held EXCEPT ![n][t] = Nothing]
    BY <1>4, <2>1 DEF Observe, Release, TickShape
  <2> HIDE DEF n
  <2>3. Tracked(t) /\ ~WithWorker(t)
    BY <1>1, <1>4 DEF PlaceInv, PlacesApart, Tracked
  <2>4. \A u \in Task : Tracked(u)' <=> u # t /\ Tracked(u)
    BY <1>1, <1>4, <2>2, Shapes DEF Tracked, PlaceInv, OneHolder
  <2>5. SomePlace' /\ PlacesApart'
    BY <1>1, <1>2, <2>2, <2>3, <2>4 DEF PlaceInv, SomePlace, PlacesApart, InHand, WithWorker
  <2>6. OneHolder'
    BY <1>1, <1>2, <2>2, Shapes DEF PlaceInv, OneHolder
  <2>7. InflightDispatched'
    BY <1>1, <1>4, <2>2, Shapes DEF PlaceInv, OneHolder, InflightDispatched
  <2>8. ReservationHasOwner'
    <3>1. \A c \in Holding : TaskOf[c] # t
      BY <2>3 DEF Holding, WithWorker
    <3>2. Holding' = Holding
      BY <1>2 DEF Holding
    <3>3. ASSUME NEW m \in Node, NEW u \in Task
          PROVE  held'[m][u] # Nothing <=>
                   u \in inflight'[m] \/ \E d \in Holding' : at'[d] = m /\ TaskOf[d] = u
      BY <1>1, <1>2, <2>2, <3>1, <3>2, Shapes DEF PlaceInv, ReservationHasOwner
    <3>4. QED
      BY <3>3 DEF ReservationHasOwner
  <2>9. QED
    BY <2>5, <2>6, <2>7, <2>8 DEF PlaceInv
<1>5. QED
  BY <1>3, <1>4

LEMMA PlaceStep ==
  ASSUME TypeOK, PlaceInv, TickShape, PlanShape, [TrialNext]_vars
  PROVE  PlaceInv'
<1>1. ASSUME NEW S \in SUBSET (Task \ submitted), Submit(S) PROVE PlaceInv'
  <2>1. /\ submitted' = submitted \cup S /\ queue' = queue \cup S
        /\ UNCHANGED <<tickPc, hand, completed, evicted, inflight, dispatched, held, at, stage>>
    BY <1>1 DEF Submit, Enqueue, mirrorVars, tickVars, callVars, trackVars
  <2>2. ReservationHasOwner'
    BY <2>1 DEF PlaceInv, ReservationHasOwner, Holding
  <2>3. SomePlace' /\ PlacesApart' /\ OneHolder' /\ InflightDispatched'
    BY <2>1 DEF PlaceInv, SomePlace, PlacesApart, OneHolder, InflightDispatched, InHand, WithWorker, Tracked
  <2>4. QED
    BY <2>2, <2>3 DEF PlaceInv
<1>2. ASSUME \/ \E t \in Task : Age(t)
             \/ \E n \in Node : Poll(n) \/ LosePoll(n)
             \/ StoreStatus
             \/ UNCHANGED vars
      PROVE  PlaceInv'
  <2>1. /\ UNCHANGED <<tickPc, hand, stage>>
        /\ UNCHANGED <<submitted, queue, completed, evicted, inflight, dispatched, held, at>>
    BY <1>2 DEF Age, Poll, LosePoll, StoreStatus, Reconcile, MarkUnreachable, vars,
                mirrorVars, queueVars, tickVars, callVars, trackVars, recordVars
  <2>2. QED
    BY <2>1, PlaceSame DEF Deciding, Holding
<1>3. QED
  BY <1>1, <1>2, PlaceTick, PlaceWorker, PlaceObserve DEF TrialNext, PollStep

-----------------------------------------------------------------------------
\* Room for the plan

\* Only a reservation adds to the totals.
LEMMA TotalsShrink ==
  ASSUME AccountsInv, NEW n \in Node, NEW t \in Task, Release(n, t, DemandOf[t].units)
  PROVE  \A m \in Node : usedRam'[m] <= usedRam[m] /\ usedCores'[m] <= usedCores[m]
<1>1. CASE held[n][t] = Nothing
  BY <1>1 DEF Release, mirrorVars, AccountsInv, MirrorInv, MirrorTypeOK
<1>2. CASE held[n][t] # Nothing
  <2>1. /\ usedRam' = [usedRam EXCEPT ![n] = Monus(@, held[n][t].ram)]
        /\ usedCores' = [usedCores EXCEPT ![n] = Monus(@, held[n][t].cores)]
    BY <1>2 DEF Release
  <2>2. held[n][t].ram \in Nat /\ held[n][t].cores \in Nat
    BY <1>2, MirrorAssumption DEF AccountsInv, MirrorInv, MirrorTypeOK
  <2>3. QED
    BY <2>1, <2>2 DEF AccountsInv, MirrorInv, MirrorTypeOK, Monus
<1>3. QED
  BY <1>1, <1>2

\* The totals grow only when the task in hand is reserved.
LEMMA TotalsStep ==
  ASSUME AccountsInv, [TrialNext]_vars, ~DispatchHand
  PROVE  /\ \A m \in Node : usedRam'[m] <= usedRam[m] /\ usedCores'[m] <= usedCores[m]
         /\ spec' = spec /\ active' = active
<1>1. ASSUME UNCHANGED <<spec, usedRam, usedCores, active>>
      PROVE  /\ \A m \in Node : usedRam'[m] <= usedRam[m] /\ usedCores'[m] <= usedCores[m]
             /\ spec' = spec /\ active' = active
  BY <1>1 DEF AccountsInv, MirrorInv, MirrorTypeOK
<1>2. ASSUME NEW n \in Node, NEW t \in Task, Release(n, t, DemandOf[t].units), active' = active
      PROVE  /\ \A m \in Node : usedRam'[m] <= usedRam[m] /\ usedCores'[m] <= usedCores[m]
             /\ spec' = spec /\ active' = active
  BY <1>2, TotalsShrink DEF Release, mirrorVars
<1> USE DEF mirrorVars, recordVars, totals
<1>3. ASSUME NEW c \in Call, WorkerStep(c) \/ TimeOut(c) \/ EdgeStep(c) \/ LoseRequest(c)
      PROVE  /\ \A m \in Node : usedRam'[m] <= usedRam[m] /\ usedCores'[m] <= usedCores[m]
             /\ spec' = spec /\ active' = active
  <2>1. CASE ReleaseRefused(c) \/ ReleaseFailed(c)
    <3>1. at[c] \in Node /\ TaskOf[c] \in Task
      BY <2>1, Shapes DEF ReleaseRefused, ReleaseFailed, Advance, AccountsInv
    <3>2. QED
      BY <1>2, <2>1, <3>1 DEF ReleaseRefused, ReleaseFailed, GiveBack
  <2>2. CASE ~(ReleaseRefused(c) \/ ReleaseFailed(c))
    BY <1>1, <1>3, <2>2
      DEF WorkerStep, TimeOut, EdgeStep, LoseRequest, Post, RecordDispatched, Track, Mark, Requeue,
          Admit, Refuse, Complete, MarkUnreachable
  <2>3. QED
    BY <2>1, <2>2
<1>4. ASSUME NEW t \in report, Observe(t)
      PROVE  /\ \A m \in Node : usedRam'[m] <= usedRam[m] /\ usedCores'[m] <= usedCores[m]
             /\ spec' = spec /\ active' = active
  <2>1. pollNode \in Node /\ t \in Task
    BY <1>4 DEF Observe, TypeOK, AccountsInv
  <2>2. QED
    BY <1>1, <1>2, <1>4, <2>1 DEF Observe
<1>5. ASSUME \/ \E S \in SUBSET (Task \ submitted) : Submit(S)
             \/ \E t \in Task : Age(t)
             \/ TickStep
             \/ \E n \in Node : Poll(n) \/ LosePoll(n)
             \/ StoreStatus
             \/ UNCHANGED vars
      PROVE  UNCHANGED <<spec, usedRam, usedCores, active>>
  BY <1>5 DEF Submit, Age, TickStep, Evict, Snapshot, Schedule, Assign, Poll, LosePoll, StoreStatus,
              Reconcile, MarkUnreachable, vars
<1>6. QED
  BY <1>1, <1>3, <1>4, <1>5 DEF TrialNext, PollStep

LEMMA PlanTypes ==
  ASSUME AccountsInv
  PROVE  /\ Ahead \subseteq Task \X Node /\ \A n : AheadOn(n) \subseteq Task
         /\ usedRam \in [Node -> Nat] /\ usedCores \in [Node -> Nat]
BY DEF AccountsInv, TypeOK, MirrorTypeOK, Ahead, AheadOn

\* A plan of which no more is left than before keeps its room.
LEMMA RoomKept ==
  ASSUME AccountsInv, AccountsInv', RoomAhead, \A n \in Node : AheadOn(n)' \subseteq AheadOn(n),
         TickShape, spec' = spec,
         \A n \in Node : usedRam'[n] <= usedRam[n] /\ usedCores'[n] <= usedCores[n]
  PROVE  RoomAhead'
<1>1. /\ \A n : AheadOn(n) \subseteq Task
      /\ usedRam \in [Node -> Nat] /\ usedCores \in [Node -> Nat]
  BY PlanTypes
<1>2. usedRam' \in [Node -> Nat] /\ usedCores' \in [Node -> Nat]
  BY DEF AccountsInv, TypeOK, MirrorTypeOK
<1>3. ASSUME NEW n \in Node, AheadOn(n)' # {}
      PROVE  Room(spec[n], AheadOn(n)', usedRam'[n], usedCores'[n])
  <2>1. Room(spec[n], AheadOn(n), usedRam[n], usedCores[n])
    BY <1>3 DEF RoomAhead
  <2>2. spec[n] \in Profile
    BY DEF TickShape
  <2>3. /\ usedRam[n] \in Nat /\ usedCores[n] \in Nat
        /\ usedRam'[n] \in Nat /\ usedCores'[n] \in Nat
    BY <1>1, <1>2
  <2> HIDE DEF AheadOn
  <2>4. QED
    BY <1>1, <2>1, <2>2, <2>3, RoomForLess
<1>4. QED
  BY <1>3 DEF RoomAhead, Room

\* What the other threads may do to the queue and to the calls in the pool.
LEMMA PlanElsewhere ==
  ASSUME AccountsInv, AccountsInv', PlanInv, UNCHANGED tickVars, spec' = spec, active' = active,
         queue \subseteq queue', PooledFresh',
         \A m \in Node : usedRam'[m] <= usedRam[m] /\ usedCores'[m] <= usedCores[m]
  PROVE  PlanInv'
<1>1. Ahead' = Ahead /\ \A n : AheadOn(n)' = AheadOn(n)
  BY DEF Ahead, AheadOn, tickVars
<1>2. RoomAhead'
  BY <1>1, RoomKept DEF PlanInv
<1>3. TickShape' /\ PlanShape'
  BY <1>1 DEF PlanInv, TickShape, PlanShape, tickVars
<1>4. QED
  BY <1>2, <1>3 DEF PlanInv

LEMMA PlanOthers ==
  ASSUME AccountsInv, AccountsInv', PlanInv, [TrialNext]_vars, ~TickStep
  PROVE  PlanInv'
<1>0. spec' = spec
  BY TotalsStep DEF TickStep
<1> USE DEF mirrorVars, queueVars, callVars, recordVars
<1>1. ASSUME UNCHANGED tickVars, queue \subseteq queue', PooledFresh' PROVE PlanInv'
  BY <1>1, TotalsStep, PlanElsewhere DEF TickStep
<1>2. ASSUME UNCHANGED callVars PROVE PooledFresh'
  BY <1>0, <1>2 DEF PlanInv, PooledFresh
<1>3. ASSUME NEW c \in Call, WorkerStep(c) \/ TimeOut(c) \/ EdgeStep(c) \/ LoseRequest(c) PROVE PlanInv'
  <2>1. UNCHANGED tickVars /\ queue \subseteq queue'
    BY <1>3 DEF WorkerStep, TimeOut, EdgeStep, LoseRequest, Post, RecordDispatched, Track, ReleaseRefused,
                ReleaseFailed, Mark, Requeue, Enqueue, Admit, Refuse, Complete
  <2>2. PooledFresh'
    <3>1. PooledFresh /\ stage \in [Call -> Stages]
      BY Shapes DEF PlanInv, AccountsInv
    <3>2. CASE WorkerStep(c) \/ TimeOut(c)
      BY <1>0, <3>1, <3>2
        DEF WorkerStep, TimeOut, Post, RecordDispatched, Track, ReleaseRefused, ReleaseFailed, Mark, Requeue,
            Advance, PooledFresh, AccountsInv, TypeOK
    <3>3. CASE Admit(c) \/ Refuse(c) \/ Complete(c) \/ LoseRequest(c)
      BY <1>0, <3>1, <3>3 DEF Admit, Refuse, Complete, LoseRequest, PooledFresh, AccountsInv, TypeOK
    <3>4. QED
      BY <1>3, <3>2, <3>3 DEF EdgeStep
  <2>3. QED
    BY <1>1, <2>1, <2>2
<1>4. ASSUME \/ \E S \in SUBSET (Task \ submitted) : Submit(S)
             \/ \E t \in Task : Age(t)
             \/ \E n \in Node : LosePoll(n)
             \/ StoreStatus
             \/ \E t \in report : Observe(t)
             \/ UNCHANGED vars
      PROVE  PlanInv'
  <2>1. UNCHANGED tickVars /\ queue \subseteq queue' /\ UNCHANGED callVars
    BY <1>4 DEF Submit, Enqueue, Age, LosePoll, StoreStatus, Observe, vars
  <2>2. QED
    BY <1>1, <1>2, <2>1
<1>5. ASSUME NEW n \in Node, Poll(n) PROVE PlanInv'
  <2>1. UNCHANGED tickVars /\ queue \subseteq queue'
    BY <1>5 DEF Poll
  <2>2. PooledFresh'
    BY <1>0, <1>5 DEF Poll, PlanInv, PooledFresh
  <2>3. QED
    BY <1>1, <2>1, <2>2
<1>6. QED
  BY <1>3, <1>4, <1>5 DEF TrialNext, PollStep, TickStep

\* What is in hand fits with all that is still planned, and it is nowhere else,
\* so the mirror takes it.
LEMMA HandFits ==
  ASSUME AccountsInv, PlaceInv, PlanInv, tickPc = "reserve"
  PROVE  /\ hand \in Task \X Node /\ CanReserve(hand[2], hand[1], DemandOf[hand[1]])
         /\ LET t == hand[1]
                n == hand[2]
            IN  Room(spec[n], AheadOn(n) \ {t}, usedRam[n] + DemandOf[t].ram,
                     usedCores[n] + DemandOf[t].cores)
<1> DEFINE t == hand[1]
           n == hand[2]
<1>1. hand \in Task \X Node /\ t \in Task /\ n \in Node /\ InHand(t) /\ hand = <<t, n>>
  BY DEF AccountsInv, TypeOK, InHand
<1>2. hand \in Ahead /\ t \in AheadOn(n)
  BY <1>1 DEF Ahead, AheadOn
<1> HIDE DEF t, n
<1>3. spec[n] \in Profile /\ spec[n] # Nothing
  BY <1>1, MirrorAssumption DEF PlanInv, TickShape
<1>4. held[n][t] = Nothing
  <2>1. ~WithWorker(t) /\ ~Tracked(t)
    BY <1>1 DEF PlaceInv, PlacesApart
  <2>2. QED
    BY <1>1, <2>1 DEF PlaceInv, ReservationHasOwner, Holding, WithWorker, Tracked
<1>5. Room(spec[n], AheadOn(n), usedRam[n], usedCores[n])
  BY <1>1, <1>2 DEF PlanInv, RoomAhead
<1>6. /\ LoadOf(AheadOn(n), RamOf) = LoadOf(AheadOn(n) \ {t}, RamOf) + DemandOf[t].ram
      /\ LoadOf(AheadOn(n), CoresOf) = LoadOf(AheadOn(n) \ {t}, CoresOf) + DemandOf[t].cores
      /\ LoadOf(AheadOn(n) \ {t}, RamOf) \in Nat /\ LoadOf(AheadOn(n) \ {t}, CoresOf) \in Nat
  <2>1. AheadOn(n) \ {t} \in SUBSET Task /\ t \in Task \ (AheadOn(n) \ {t})
    BY <1>1 DEF AheadOn
  <2>2. (AheadOn(n) \ {t}) \cup {t} = AheadOn(n)
    BY <1>2
  <2> HIDE DEF AheadOn
  <2>3. QED
    BY <2>1, <2>2, PlanLoads
<1>7. /\ DemandOf[t].ram \in Nat /\ DemandOf[t].cores \in Nat
      /\ usedRam[n] \in Nat /\ usedCores[n] \in Nat
      /\ spec[n].ram \in Nat /\ spec[n].cores \in Nat
  BY <1>1, <1>3, DemandIsNat, PlanTypes, MirrorAssumption
<1>8. Room(spec[n], AheadOn(n) \ {t}, usedRam[n] + DemandOf[t].ram, usedCores[n] + DemandOf[t].cores)
  BY <1>5, <1>6, <1>7 DEF Room
<1>9. CanReserve(n, t, DemandOf[t])
  BY <1>3, <1>4, <1>6, <1>7, <1>8 DEF Room, CanReserve
<1>10. QED
  BY <1>1, <1>8, <1>9 DEF t, n

LEMMA PlanDispatch ==
  ASSUME AccountsInv, AccountsInv', PlaceInv, PlanInv, DispatchHand
  PROVE  PlanInv'
<1>1. /\ tickPc = "reserve" /\ plan' = plan /\ tickPc' \in {"idle", "assign"}
      /\ tickPc' = "idle" => plan = {}
      /\ active' = active
  BY DEF DispatchHand, recordVars
<1>2. PICK t \in Task, n \in Node :
      /\ hand = <<t, n>> /\ hand \in Ahead
      /\ CanReserve(n, t, DemandOf[t])
      /\ Room(spec[n], AheadOn(n) \ {t}, usedRam[n] + DemandOf[t].ram, usedCores[n] + DemandOf[t].cores)
  <2>1. hand \in Task \X Node /\ hand \in Ahead
    BY <1>1, HandFits DEF Ahead
  <2>2. PICK t \in Task, n \in Node : hand = <<t, n>>
    BY <2>1
  <2>3. hand[1] = t /\ hand[2] = n
    BY <2>2
  <2>4. QED
    BY <1>1, <2>1, <2>2, <2>3, HandFits
<1>3. PICK c \in Call :
        /\ Reserve(n, t, DemandOf[t])
        /\ TaskOf[c] = t /\ stage[c] = "idle"
        /\ stage' = [stage EXCEPT ![c] = "pooled"] /\ at' = [at EXCEPT ![c] = n]
        /\ phase' = [phase EXCEPT ![c] = "unused"]
        /\ UNCHANGED queue
  BY <1>2 DEF DispatchHand, queueVars
<1>4. Ahead' = plan /\ plan \subseteq Ahead
  BY <1>1 DEF Ahead
<1>5. AheadOn(n)' \subseteq AheadOn(n) \ {t} /\ \A m : AheadOn(m)' \subseteq AheadOn(m)
  <2>1. <<t, n>> \notin plan
    BY <1>1, <1>2 DEF PlanInv, PlanShape, PlaceInv, PlacesApart, InHand
  <2>2. QED
    BY <1>4, <2>1 DEF AheadOn
<1>6. TickShape'
  BY <1>1, <1>3 DEF PlanInv, TickShape, Reserve
<1>7. PlanShape'
  BY <1>3, <1>4, <1>1 DEF PlanInv, PlanShape, Reserve
<1>8. PooledFresh'
  <2>1. t \in spec[n].accepts
    BY <1>2 DEF PlanInv, PlanShape
  <2>2. spec' = spec
    BY <1>3 DEF Reserve
  <2>3. QED
    BY <1>2, <1>3, <2>1, <2>2 DEF PlanInv, PooledFresh, AccountsInv, TypeOK
<1>9. RoomAhead'
  <2>1. /\ usedRam' = [usedRam EXCEPT ![n] = @ + DemandOf[t].ram]
        /\ usedCores' = [usedCores EXCEPT ![n] = @ + DemandOf[t].cores]
    BY <1>3 DEF Reserve
  <2>2. usedRam \in [Node -> Nat] /\ usedCores \in [Node -> Nat]
    BY PlanTypes
  <2>3. DemandOf[t].ram \in Nat /\ DemandOf[t].cores \in Nat
    BY <1>2, DemandIsNat
  <2>4. \A m : AheadOn(m) \subseteq Task
    BY PlanTypes
  <2>5. ASSUME NEW m \in Node, AheadOn(m)' # {}
        PROVE  Room(spec[m], AheadOn(m)', usedRam'[m], usedCores'[m])
    <3>1. spec[m] \in Profile
      BY DEF PlanInv, TickShape
    <3>2. CASE m = n
      <4> DEFINE r == usedRam[n] + DemandOf[t].ram
                 k == usedCores[n] + DemandOf[t].cores
                 S == AheadOn(n) \ {t}
      <4>1. usedRam'[n] = r /\ usedCores'[n] = k /\ r \in Nat /\ k \in Nat
        BY <1>2, <2>1, <2>2, <2>3
      <4>2. S \in SUBSET Task /\ AheadOn(n)' \in SUBSET S
        BY <1>5, <2>4
      <4>3. Room(spec[n], S, r, k) /\ r <= r /\ k <= k
        BY <1>2, <4>1
      <4> HIDE DEF r, k, S
      <4>4. Room(spec[n], AheadOn(n)', r, k)
        BY <3>1, <3>2, <4>1, <4>2, <4>3, RoomForLess
      <4>5. QED
        BY <3>2, <4>1, <4>4
    <3>3. CASE m # n
      <4>1. usedRam'[m] = usedRam[m] /\ usedCores'[m] = usedCores[m]
        BY <2>1, <2>2, <3>3
      <4>2. AheadOn(m)' \in SUBSET AheadOn(m) /\ AheadOn(m) # {} /\ AheadOn(m) \in SUBSET Task
        BY <1>5, <2>4, <2>5
      <4>3. Room(spec[m], AheadOn(m), usedRam[m], usedCores[m])
        BY <4>2 DEF PlanInv, RoomAhead
      <4>4. usedRam[m] \in Nat /\ usedCores[m] \in Nat
        BY <2>2
      <4>5. usedRam[m] <= usedRam[m] /\ usedCores[m] <= usedCores[m]
        BY <4>4
      <4>6. Room(spec[m], AheadOn(m)', usedRam[m], usedCores[m])
        BY <3>1, <4>2, <4>3, <4>4, <4>5, RoomForLess
      <4>7. QED
        BY <4>1, <4>6
    <3>4. QED
      BY <3>2, <3>3
  <2>6. QED
    BY <1>3, <2>5 DEF RoomAhead, Room, Reserve
<1>10. QED
  BY <1>6, <1>7, <1>8, <1>9 DEF PlanInv

LEMMA PlanTick ==
  ASSUME AccountsInv, AccountsInv', PlaceInv, PlanInv, TickStep
  PROVE  PlanInv'
<1> USE DEF mirrorVars, queueVars, tickVars, callVars, recordVars
<1>1. CASE Evict
  <2>1. plan = {} /\ plan' = {} /\ Ahead' = {} /\ \A n : AheadOn(n)' = {}
    BY <1>1 DEF Evict, PlanInv, TickShape, Ahead, AheadOn
  <2>2. QED
    BY <1>1, <2>1 DEF Evict, PlanInv, TickShape, PlanShape, RoomAhead, PooledFresh
<1>2. CASE Snapshot
  <2>1. plan = {} /\ plan' = {} /\ Ahead' = {} /\ \A n : AheadOn(n)' = {}
    BY <1>2 DEF Snapshot, PlanInv, TickShape, Ahead, AheadOn
  <2>2. QED
    BY <1>2, <2>1 DEF Snapshot, PlanInv, TickShape, PlanShape, RoomAhead, PooledFresh
<1>3. CASE Schedule
  <2>1. PICK p \in Plans(View, pending) : plan' = p /\ tickPc' = IF p = {} THEN "idle" ELSE "assign"
    BY <1>3 DEF Schedule
  <2>2. /\ p \subseteq pending \X Node /\ \A a, b \in p : a[1] = b[1] => a = b
        /\ \A n \in Node : On(p, n) # {} => Takes(View, n, On(p, n))
    BY <2>1 DEF Plans, IsPlan
  <2>3. Ahead' = p /\ \A n : AheadOn(n)' = On(p, n)
    BY <2>1 DEF Ahead, AheadOn, On
  <2>4. pending \subseteq queue /\ pending \subseteq Task /\ spec' = spec
    BY <1>3 DEF Schedule, PlanInv, TickShape, AccountsInv, TypeOK
  <2>5. PlanShape'
    <3>1. \A a \in p : a[1] \in spec[a[2]].accepts
      <4> SUFFICES ASSUME NEW a \in p PROVE a[1] \in spec[a[2]].accepts
        OBVIOUS
      <4>1. a[1] \in On(p, a[2]) /\ a[2] \in Node
        BY <2>2, <2>4 DEF On
      <4>2. QED
        BY <2>2, <4>1 DEF Takes, View
    <3>2. QED
      BY <1>3, <2>1, <2>2, <2>3, <2>4, <3>1 DEF PlanShape, Schedule
  <2>6. RoomAhead'
    <3>1. UNCHANGED <<usedRam, usedCores>>
      BY <1>3 DEF Schedule
    <3>2. ASSUME NEW n \in Node, On(p, n) # {}
          PROVE  Room(spec[n], On(p, n), usedRam[n], usedCores[n])
      BY <2>2, <2>4, <3>2 DEF Takes, View
    <3>3. QED
      BY <2>3, <2>4, <3>1, <3>2 DEF RoomAhead, Room
  <2>7. TickShape' /\ PooledFresh'
    BY <1>3, <2>1 DEF Schedule, PlanInv, TickShape, PooledFresh
  <2>8. QED
    BY <2>5, <2>6, <2>7 DEF PlanInv
<1>4. ASSUME NEW a \in plan, Assign(a) PROVE PlanInv'
  <2>1. Ahead' = Ahead /\ \A n : AheadOn(n)' = AheadOn(n)
    BY <1>4 DEF Assign, Ahead, AheadOn
  <2>2. RoomAhead'
    BY <1>4, <2>1, RoomKept DEF Assign, PlanInv, AccountsInv, TypeOK, MirrorTypeOK
  <2>3. PlanShape'
    <3>1. \A b \in plan' : b[1] \in queue'
      BY <1>4 DEF Assign, Dequeue, PlanInv, PlanShape, Ahead
    <3>2. spec' = spec
      BY <1>4 DEF Assign
    <3>3. QED
      BY <2>1, <3>1, <3>2 DEF PlanInv, PlanShape
  <2>4. TickShape' /\ PooledFresh'
    BY <1>4 DEF Assign, PlanInv, TickShape, PooledFresh
  <2>5. QED
    BY <2>2, <2>3, <2>4 DEF PlanInv
<1>5. CASE DispatchHand
  BY <1>5, PlanDispatch
<1>6. QED
  BY <1>1, <1>2, <1>3, <1>4, <1>5 DEF TickStep

-----------------------------------------------------------------------------
\* The edge, while no answer to a dispatch is lost

\* The mirror holds what each call on the edge asks for.
LEMMA BurdenReserved ==
  ASSUME AccountsInv, PlaceInv, NoStrays, EdgeInv
  PROVE  MirrorCoversEdge
<1> SUFFICES ASSUME "execute" \notin Lossy, NEW n \in Node, NEW c \in Burden(n)
             PROVE  held[n][TaskOf[c]] = DemandOf[TaskOf[c]]
  BY DEF MirrorCoversEdge
<1>1. c \in Call /\ at[c] = n /\ OnEdge(c) /\ TaskOf[c] \in Task
  BY SchedulerAssumption DEF Burden, NoStrays, OnEdge
<1>2. TaskOf[c] \in inflight[n] \/ c \in Holding
  BY <1>1 DEF EdgeInv, Answered, EdgeTracked, OnEdge, Holding, AccountsInv, TypeOK, Stages
<1>3. held[n][TaskOf[c]] # Nothing
  BY <1>1, <1>2 DEF PlaceInv, ReservationHasOwner
<1>4. QED
  BY <1>1, <1>3 DEF AccountsInv, ReservedAsDemanded

\* So there is room on a node that is what it was registered as for all that it may
\* be holding something for.
LEMMA BurdenFits ==
  ASSUME AccountsInv, PlaceInv, TickShape, NoStrays, EdgeInv, "execute" \notin Lossy,
         NEW n \in Node \ Overstated
  PROVE  Room(ProfileOf[n], TasksOf(Burden(n)), 0, 0)
<1> DEFINE S == TasksOf(Burden(n))
           ram == [t \in Reserved(n) |-> held[n][t].ram]
           cores == [t \in Reserved(n) |-> held[n][t].cores]
<1>1. \A t \in S : t \in Task /\ held[n][t] = DemandOf[t] /\ held[n][t] # Nothing
  BY BurdenReserved, SchedulerAssumption, MirrorAssumption, PlacementAssumption
    DEF MirrorCoversEdge, TasksOf, Burden
<1>2. S \in SUBSET Reserved(n)
  BY <1>1 DEF Reserved
<1>3. /\ IsFiniteSet(Reserved(n)) /\ \A t \in Reserved(n) : held[n][t] \in Demand
      /\ HeldRam(n) \in Nat /\ HeldCores(n) \in Nat
  BY HeldIsNat DEF AccountsInv, MirrorInv
<1>4. \A t \in Reserved(n) : ram[t] \in Nat /\ cores[t] \in Nat
  BY <1>3, MirrorAssumption
<1>5. /\ \A t \in S : RamOf[t] = ram[t]
      /\ \A t \in S : CoresOf[t] = cores[t]
  BY <1>1, <1>2 DEF RamOf, CoresOf
<1>6. LoadOf(S, RamOf) = LoadOf(S, ram) /\ LoadOf(S, CoresOf) = LoadOf(S, cores)
  <2> HIDE DEF S, ram, cores
  <2>1. LoadOf(S, RamOf) = LoadOf(S, ram)
    BY <1>5, LoadCongruent
  <2>2. LoadOf(S, CoresOf) = LoadOf(S, cores)
    BY <1>5, LoadCongruent
  <2>3. QED
    BY <2>1, <2>2
<1>7. LoadOf(S, ram) <= HeldRam(n) /\ LoadOf(S, cores) <= HeldCores(n)
  <2>1. HeldRam(n) = LoadOf(Reserved(n), ram) /\ HeldCores(n) = LoadOf(Reserved(n), cores)
    BY DEF HeldRam, HeldCores
  <2> HIDE DEF S, ram, cores
  <2>2. LoadOf(S, ram) <= LoadOf(Reserved(n), ram)
    BY <1>2, <1>3, <1>4, LoadMonotone
  <2>3. LoadOf(S, cores) <= LoadOf(Reserved(n), cores)
    BY <1>2, <1>3, <1>4, LoadMonotone
  <2>4. QED
    BY <2>1, <2>2, <2>3
<1>8. /\ ProfileOf[n].ram \in Nat /\ ProfileOf[n].cores \in Nat
      /\ HeldRam(n) <= ProfileOf[n].ram /\ HeldCores(n) <= ProfileOf[n].cores
  <2>1. spec[n] \in Profile /\ ProfileOf[n] \in Profile
    BY SchedulerAssumption DEF TickShape
  <2>2. spec[n] # Nothing /\ spec[n].ram \in Nat /\ spec[n].cores \in Nat
    BY <2>1, MirrorAssumption
  <2>3. ProfileOf[n].ram \in Nat /\ ProfileOf[n].cores \in Nat
    BY <2>1, MirrorAssumption
  <2>4. HeldRam(n) <= spec[n].ram /\ HeldCores(n) <= spec[n].cores
    BY <2>2 DEF AccountsInv, MirrorInv, ReservedFits
  <2>5. ~(spec[n].ram > ProfileOf[n].ram) /\ ~(spec[n].cores > ProfileOf[n].cores)
    BY DEF Overstated
  <2>6. QED
    BY <1>3, <2>2, <2>3, <2>4, <2>5
<1>9. S \in SUBSET Task
  BY <1>1
<1> HIDE DEF S, ram, cores
<1>10. LoadOf(S, RamOf) \in Nat /\ LoadOf(S, CoresOf) \in Nat
  BY <1>9, PlanLoads
<1>11. Room(ProfileOf[n], S, 0, 0)
  BY <1>3, <1>6, <1>7, <1>8, <1>10 DEF Room
<1>12. QED
  BY <1>11 DEF S

\* A step that concerns neither the calls nor what is tracked.
LEMMA EdgeSame ==
  ASSUME EdgeInv, UNCHANGED <<callVars, inflight>>, report' = {} \/ UNCHANGED <<pollNode, report>>,
         Overstated' = Overstated
  PROVE  EdgeInv'
BY DEF EdgeInv, Answered, EdgeTracked, EdgeOnce, ReportTracked, OnlyPressureRefuses, OnEdge, callVars

LEMMA EdgeDispatch ==
  ASSUME AccountsInv, PlaceInv, EdgeInv, DispatchHand, Overstated' = Overstated
  PROVE  EdgeInv'
<1>1. CASE UNCHANGED callVars
  BY <1>1, EdgeSame DEF DispatchHand, trackVars, pollVars
<1>2. CASE \E c \in Call : /\ TaskOf[c] = hand[1] /\ stage[c] = "idle" /\ phase[c] \in {"unused", "refused"}
                           /\ stage' = [stage EXCEPT ![c] = "pooled"] /\ at' = [at EXCEPT ![c] = hand[2]]
                           /\ phase' = [phase EXCEPT ![c] = "unused"]
  <2>1. PICK c \in Call : /\ stage[c] = "idle" /\ phase[c] \in {"unused", "refused"}
                          /\ stage' = [stage EXCEPT ![c] = "pooled"] /\ at' = [at EXCEPT ![c] = hand[2]]
                          /\ phase' = [phase EXCEPT ![c] = "unused"]
    BY <1>2
  <2>2. UNCHANGED <<inflight, pollNode, report>>
    BY DEF DispatchHand, trackVars, pollVars
  <2>3. QED
    BY <2>1, <2>2
      DEF EdgeInv, Answered, EdgeTracked, EdgeOnce, ReportTracked, OnlyPressureRefuses, OnEdge,
          AccountsInv, TypeOK
<1>3. QED
  BY <1>1, <1>2 DEF DispatchHand

LEMMA EdgeWorker ==
  ASSUME AccountsInv, PlaceInv, TickShape, PooledFresh, NoStrays, EdgeInv, "execute" \notin Lossy,
         Overstated' = Overstated, NEW c \in Call,
         WorkerStep(c) \/ TimeOut(c) \/ EdgeStep(c) \/ LoseRequest(c)
  PROVE  EdgeInv'
<1> USE DEF EdgeInv, callVars, trackVars, pollVars
<1>1. /\ stage \in [Call -> Stages] /\ inflight \in [Node -> SUBSET Task] /\ at \in [Call -> Node \cup {Nothing}]
      /\ phase \in [Call -> {"unused", "requested", "running", "completed", "refused"}]
      /\ stage[c] # "idle" => at[c] \in Node
      /\ TaskOf[c] \in Task
  BY SchedulerAssumption DEF AccountsInv, TypeOK, NoStrays
<1>2. /\ ~TimeOut(c) /\ ~LoseRequest(c) /\ ~ReleaseFailed(c) /\ ~Mark(c)
  BY DEF TimeOut, LoseRequest, ReleaseFailed, Mark, Advance, Answered
<1>3. CASE Post(c)
  <2>1. /\ stage[c] = "pooled" /\ phase[c] = "unused"
        /\ stage' = [stage EXCEPT ![c] = "posting"] /\ phase' = [phase EXCEPT ![c] = "requested"]
        /\ UNCHANGED <<at, inflight, pollNode, report>>
    BY <1>3 DEF Post, Advance, PooledFresh
  <2>2. \A n \in Node : TaskOf[c] \notin inflight[n]
    BY <1>1, <2>1 DEF PlaceInv, PlacesApart, WithWorker, Tracked
  <2>3. \A d \in Call : TaskOf[d] = TaskOf[c] /\ d # c => stage[d] = "idle"
    BY <2>1 DEF PlaceInv, OneHolder
  <2>4. \A d \in Call : TaskOf[d] = TaskOf[c] => ~OnEdge(d)
    BY <1>1, <2>1, <2>2, <2>3 DEF EdgeTracked, OnEdge, AccountsInv, TypeOK
  <2>5. TaskOf[c] \notin report
    BY <1>1, <2>1, <2>2, <2>3 DEF ReportTracked, AccountsInv, TypeOK
  <2>6. Answered' /\ EdgeTracked' /\ OnlyPressureRefuses'
    BY <1>1, <2>1 DEF Answered, EdgeTracked, OnlyPressureRefuses, OnEdge
  <2>7. EdgeOnce'
    BY <1>1, <2>1, <2>4 DEF EdgeOnce, OnEdge
  <2>8. ReportTracked'
    BY <1>1, <2>1, <2>5 DEF ReportTracked, OnEdge
  <2>9. QED
    BY <2>6, <2>7, <2>8
<1>4. CASE RecordDispatched(c)
  BY <1>1, <1>4
    DEF RecordDispatched, Advance, TickShape, Answered, EdgeTracked, EdgeOnce, ReportTracked,
        OnlyPressureRefuses, OnEdge
<1>5. CASE Track(c)
  BY <1>1, <1>5
    DEF Track, Advance, Answered, EdgeTracked, EdgeOnce, ReportTracked, OnlyPressureRefuses, OnEdge
<1>6. CASE ReleaseRefused(c) \/ Requeue(c)
  BY <1>1, <1>6
    DEF ReleaseRefused, Requeue, Advance, Answered, EdgeTracked, EdgeOnce, ReportTracked,
        OnlyPressureRefuses, OnEdge
<1>7. CASE Admit(c) \/ Complete(c)
  BY <1>1, <1>7
    DEF Admit, Complete, Answered, EdgeTracked, EdgeOnce, ReportTracked, OnlyPressureRefuses, OnEdge
<1>8. CASE Refuse(c)
  <2>1. /\ phase[c] = "requested" /\ phase' = [phase EXCEPT ![c] = "refused"]
        /\ stage' = [stage EXCEPT ![c] = IF @ = "posting" THEN "refused" ELSE @]
        /\ UNCHANGED <<at, inflight, pollNode, report>>
    BY <1>8 DEF Refuse
  <2>2. stage[c] = "posting" /\ at[c] \in Node
    BY <1>1, <2>1, PooledFresh DEF Answered, Stages, PooledFresh
  <2>3. at[c] \in Pressured \cup Overstated
    <3>1. at[c] \notin Overstated => Room(ProfileOf[at[c]], TasksOf(Burden(at[c])), 0, 0)
      BY <2>2, BurdenFits
    <3>2. \A d \in Burden(at[c]) \ {c} : TaskOf[d] # TaskOf[c]
      BY <2>1 DEF Burden, NoStrays, EdgeOnce, OnEdge
    <3>3. at[c] \notin Overstated => TaskOf[c] \in ProfileOf[at[c]].accepts
      BY <2>2 DEF PooledFresh, Overstated
    <3>4. QED
      BY <1>8, <3>1, <3>2, <3>3 DEF Refuse
  <2>4. Answered' /\ EdgeTracked' /\ EdgeOnce' /\ ReportTracked'
    BY <1>1, <2>1, <2>2 DEF Answered, EdgeTracked, EdgeOnce, ReportTracked, OnEdge
  <2>5. OnlyPressureRefuses'
    BY <1>1, <2>1, <2>3 DEF OnlyPressureRefuses
  <2>6. QED
    BY <2>4, <2>5
<1>9. QED
  BY <1>2, <1>3, <1>4, <1>5, <1>6, <1>7, <1>8 DEF WorkerStep, EdgeStep

LEMMA EdgePoll ==
  ASSUME AccountsInv, PooledFresh, EdgeInv, "execute" \notin Lossy, Overstated' = Overstated,
         NEW n \in Node, Poll(n)
  PROVE  EdgeInv'
<1> DEFINE done == {c \in Call : at[c] = n /\ phase[c] = "completed"}
<1> USE DEF EdgeInv
<1>1. /\ report' = TasksOf(done) /\ pollNode' = n /\ UNCHANGED <<stage, at, inflight>>
      /\ phase' = [c \in Call |-> IF c \in done THEN "unused" ELSE phase[c]]
  BY DEF Poll, trackVars
<1>2. Answered'
  BY <1>1 DEF Answered
<1>3. EdgeTracked' /\ EdgeOnce' /\ OnlyPressureRefuses'
  BY <1>1 DEF EdgeTracked, EdgeOnce, OnlyPressureRefuses, OnEdge
<1>4. ASSUME NEW t \in report'
      PROVE  /\ \A c \in Call : TaskOf[c] = t => ~OnEdge(c)'
             /\ \/ t \in inflight'[pollNode']
                \/ \E c \in Call : stage'[c] \in {"admitted", "track"} /\ at'[c] = pollNode' /\ TaskOf[c] = t
  <2>1. PICK c \in done : t = TaskOf[c]
    BY <1>1 DEF TasksOf
  <2>2. \A d \in Call : TaskOf[d] = t /\ OnEdge(d) => d = c
    BY <2>1 DEF EdgeOnce, OnEdge
  <2>3. \A d \in Call : TaskOf[d] = t => ~OnEdge(d)'
    BY <1>1, <2>1, <2>2 DEF OnEdge
  <2>4. stage[c] \in {"idle", "admitted", "track"}
    BY <2>1, PooledFresh DEF Answered, PooledFresh, AccountsInv, TypeOK, Stages
  <2>5. QED
    BY <1>1, <2>1, <2>3, <2>4 DEF EdgeTracked, OnEdge
<1>5. QED
  BY <1>2, <1>3, <1>4 DEF ReportTracked

LEMMA EdgeObserve ==
  ASSUME AccountsInv, PlaceInv, EdgeInv, "execute" \notin Lossy, Overstated' = Overstated,
         NEW t \in report, Observe(t)
  PROVE  EdgeInv'
<1> USE DEF EdgeInv
<1>1. /\ UNCHANGED <<stage, at, phase>> /\ report' = report \ {t}
      /\ report' = {} \/ pollNode' = pollNode
      /\ inflight' = [inflight EXCEPT ![pollNode] = @ \ {t}]
      /\ pollNode \in Node /\ inflight \in [Node -> SUBSET Task]
  BY DEF Observe, callVars, PollDone, AccountsInv, TypeOK
<1>2. \A c \in Call : TaskOf[c] = t => ~OnEdge(c)
  BY DEF ReportTracked
<1>3. \A c \in Call : OnEdge(c) => at[c] \in Node
  BY DEF OnEdge, AccountsInv, TypeOK
<1>4. EdgeTracked'
  BY <1>1, <1>2, <1>3 DEF EdgeTracked, OnEdge
<1>5. Answered' /\ EdgeOnce' /\ OnlyPressureRefuses'
  BY <1>1 DEF Answered, EdgeOnce, OnlyPressureRefuses, OnEdge
<1>6. ReportTracked'
  BY <1>1 DEF ReportTracked, OnEdge
<1>7. QED
  BY <1>4, <1>5, <1>6

\* Nobody registers a node, and none is reset, within a trial.
LEMMA SpecKept ==
  ASSUME AccountsInv, [TrialNext]_vars
  PROVE  spec' = spec /\ Overstated' = Overstated
<1>1. spec' = spec
  <2>1. CASE DispatchHand
    BY <2>1 DEF DispatchHand, Reserve, mirrorVars
  <2>2. CASE ~DispatchHand
    BY <2>2, TotalsStep
  <2>3. QED
    BY <2>1, <2>2
<1>2. QED
  BY <1>1 DEF Overstated

LEMMA NoStraysStep ==
  ASSUME TypeOK, NoStrays, [TrialNext]_vars
  PROVE  NoStrays'
<1> USE DEF NoStrays, TypeOK, callVars
<1>1. ASSUME UNCHANGED callVars PROVE NoStrays'
  BY <1>1
<1>2. CASE TickStep
  BY <1>2 DEF TickStep, Evict, Snapshot, Schedule, Assign, DispatchHand
<1>3. ASSUME NEW c \in Call, WorkerStep(c) \/ TimeOut(c) PROVE NoStrays'
  BY <1>3 DEF WorkerStep, TimeOut, Post, RecordDispatched, Track, ReleaseRefused, ReleaseFailed, Mark, Requeue
<1>4. ASSUME NEW c \in Call, EdgeStep(c) \/ LoseRequest(c) PROVE NoStrays'
  BY <1>4 DEF EdgeStep, LoseRequest, Admit, Refuse, Complete, Settle
<1>5. ASSUME NEW n \in Node, Poll(n) PROVE NoStrays'
  BY <1>5 DEF Poll
<1>6. ASSUME \/ \E S \in SUBSET (Task \ submitted) : Submit(S)
             \/ \E t \in Task : Age(t)
             \/ \E n \in Node : LosePoll(n)
             \/ PollStep
             \/ UNCHANGED vars
      PROVE  UNCHANGED callVars
  BY <1>6 DEF Submit, Age, LosePoll, PollStep, StoreStatus, Observe, vars
<1>7. QED
  BY <1>1, <1>2, <1>3, <1>4, <1>5, <1>6 DEF TrialNext

LEMMA EdgeInvStep ==
  ASSUME BookInv, NoStrays, EdgeInv, [TrialNext]_vars
  PROVE  EdgeInv'
<1> SUFFICES ASSUME "execute" \notin Lossy PROVE EdgeInv'
  BY DEF EdgeInv
<1>0. AccountsInv /\ PlaceInv /\ PlanInv /\ Overstated' = Overstated
  BY SpecKept DEF BookInv
<1>1. ASSUME \/ \E S \in SUBSET (Task \ submitted) : Submit(S)
             \/ \E t \in Task : Age(t)
             \/ Evict \/ Snapshot \/ Schedule \/ \E a \in plan : Assign(a)
             \/ \E n \in Node : LosePoll(n)
             \/ StoreStatus
             \/ UNCHANGED vars
      PROVE  EdgeInv'
  <2>1. UNCHANGED <<callVars, inflight>> /\ (report' = {} \/ UNCHANGED <<pollNode, report>>)
    BY <1>1 DEF Submit, Age, Evict, Snapshot, Schedule, Assign, LosePoll, StoreStatus, PollDone, vars,
                trackVars, pollVars
  <2>2. QED
    BY <1>0, <2>1, EdgeSame
<1>2. QED
  BY <1>0, <1>1, EdgeDispatch, EdgeWorker, EdgePoll, EdgeObserve DEF TrialNext, TickStep, PollStep, PlanInv

-----------------------------------------------------------------------------
\* The theorems

LEMMA BookStep ==
  ASSUME BookInv, [TrialNext]_vars
  PROVE  BookInv'
<1> USE DEF BookInv
<1>1. [Next]_vars
  BY DEF Next
<1>2. AccountsInv'
  BY <1>1, AccountsKept
<1>3. PlaceInv'
  BY PlaceStep DEF AccountsInv, PlanInv
<1>4. PlanInv'
  BY <1>2, PlanTick, PlanOthers
<1>5. QED
  BY <1>2, <1>3, <1>4

\* The books of a trial do not change when a thread of an earlier one wakes.
LEMMA BookStray ==
  ASSUME BookInv, NEW c \in Call, StrayStep(c)
  PROVE  BookInv'
<1> USE DEF BookInv
<1>1. UNCHANGED <<mirrorVars, queueVars, tickVars, stage, at, trackVars, recordVars>>
  BY DEF StrayStep, Wake, Exit
<1>2. AccountsInv'
  BY AccountsKept DEF Next
<1>3. PlaceInv'
  <2>1. Deciding' = Deciding /\ Holding' = Holding
    BY <1>1 DEF Deciding, Holding
  <2>2. QED
    BY <1>1, <2>1, PlaceSame DEF AccountsInv, mirrorVars, queueVars, tickVars, trackVars, recordVars
<1>4. PlanInv'
  <2>1. PooledFresh'
    <3>1. \A d \in Call : phase[d] = "unused" => phase'[d] = "unused"
      BY DEF StrayStep, Wake, Exit, RunningAt, AccountsInv, TypeOK
    <3>2. QED
      BY <1>1, <3>1 DEF PooledFresh, PlanInv, mirrorVars
  <2>2. \A m \in Node : usedRam'[m] <= usedRam[m] /\ usedCores'[m] <= usedCores[m]
    BY <1>1 DEF mirrorVars, AccountsInv, TypeOK, MirrorTypeOK
  <2>3. QED
    BY <1>1, <1>2, <2>1, <2>2, PlanElsewhere DEF mirrorVars, queueVars, recordVars
<1>5. QED
  BY <1>2, <1>3, <1>4

LEMMA TrialStep == TrialInv /\ [TrialNext]_vars => TrialInv'
BY BookStep, NoStraysStep, EdgeInvStep DEF TrialInv, BookInv, AccountsInv

LEMMA TrialInitInv == Init => TrialInv
<1> SUFFICES ASSUME Init PROVE TrialInv
  OBVIOUS
<1>1. AccountsInv
  BY AccountsInit
<1>2. PlaceInv
  BY SchedulerAssumption
    DEF Init, PlaceInv, SomePlace, PlacesApart, OneHolder, InflightDispatched, ReservationHasOwner,
        Holding, InHand, WithWorker, Tracked
<1>3. PlanInv
  BY DEF Init, PlanInv, TickShape, PlanShape, RoomAhead, PooledFresh, Ahead, AheadOn
<1>4. EdgeInv
  BY DEF Init, EdgeInv, Answered, EdgeTracked, EdgeOnce, ReportTracked, OnlyPressureRefuses, OnEdge
<1>5. NoStrays
  BY DEF Init, NoStrays
<1>6. QED
  BY <1>1, <1>2, <1>3, <1>4, <1>5 DEF TrialInv, BookInv

LEMMA TrialInvariant == TrialSpec => []TrialInv
BY TrialInitInv, TrialStep, PTL DEF TrialSpec

\* What the invariant says of the properties.
LEMMA InvOnePlace == BookInv => OnePlace
<1> SUFFICES ASSUME BookInv, NEW t \in Task
             PROVE  /\ t \in submitted <=> Places(t) # {}
                    /\ \A p, q \in Places(t) : p = q
  BY DEF OnePlace
<1>1. tickPc = "reserve" <=> hand # Nothing
  BY SchedulerAssumption DEF BookInv, AccountsInv, TypeOK
<1>2. {a \in {hand} : a # Nothing /\ a[1] = t} # {} <=> InHand(t)
  BY <1>1 DEF InHand
<1>3. \A p : p \in Places(t) <=>
        \/ \E c \in Call : stage[c] # "idle" /\ TaskOf[c] = t /\ p = <<"worker", c>>
        \/ \E n \in Node : t \in inflight[n] /\ p = <<"node", n>>
        \/ t \in queue /\ p = <<"queue", t>>
        \/ InHand(t) /\ p = <<"hand", t>>
        \/ t \in completed /\ p = <<"completed", t>>
        \/ t \in evicted /\ p = <<"evicted", t>>
  BY <1>2 DEF Places, Deciding
<1>4. t \in submitted <=> Places(t) # {}
  BY <1>3 DEF BookInv, PlaceInv, SomePlace, WithWorker, Tracked
<1>5. \A p, q \in Places(t) : p = q
  BY <1>3 DEF BookInv, PlaceInv, PlacesApart, OneHolder, WithWorker, Tracked
<1>6. QED
  BY <1>4, <1>5

LEMMA InvExecutedOnce == TrialInv => ExecutedOnce
<1> SUFFICES ASSUME TrialInv, "execute" \notin Lossy, NEW c \in Call, NEW d \in Call,
                    phase[c] = "running", TaskOf[c] = TaskOf[d]
             PROVE  /\ phase[d] \in {"requested", "running", "completed"} => c = d
                    /\ TaskOf[c] \notin completed \cup queue
  BY DEF ExecutedOnce
<1>1. OnEdge(c) /\ at[c] \in Node /\ TaskOf[c] \in Task
  BY SchedulerAssumption DEF OnEdge, TrialInv, BookInv, AccountsInv, TypeOK
<1>2. OnEdge(d) => c = d
  BY <1>1 DEF TrialInv, EdgeInv, EdgeOnce
<1>3. WithWorker(TaskOf[c]) \/ Tracked(TaskOf[c])
  BY <1>1 DEF TrialInv, EdgeInv, EdgeTracked, WithWorker, Tracked
<1>4. QED
  BY <1>1, <1>2, <1>3 DEF OnEdge, TrialInv, BookInv, PlaceInv, PlacesApart

\* Whatever the nodes do.
LEMMA BookProperties == BookInv => OnePlace /\ ReservationHasOwner /\ MirrorNeverRefuses
BY InvOnePlace, HandFits DEF BookInv, PlaceInv, MirrorNeverRefuses

LEMMA InvProperties ==
  TrialInv => /\ OnePlace /\ ReservationHasOwner /\ MirrorNeverRefuses
              /\ MirrorCoversEdge /\ OnlyPressureRefuses /\ ExecutedOnce
BY BookProperties, InvExecutedOnce, BurdenReserved
  DEF TrialInv, BookInv, EdgeInv, OnlyPressureRefuses

\* Within a trial no submitted task is ever lost or in two hands, whatever the
\* tick, the workers, the poller and the network do and in whatever order: it
\* is in the queue, in the dispatcher's hand, with one worker, in _inflight of
\* one node or in the trial's record, and only in one of these.
THEOREM TaskInOnePlace == TrialSpec => []OnePlace
BY TrialInvariant, InvProperties, PTL

\* Within a trial the mirror holds room for exactly the tasks that are on their
\* way to a node or tracked on it, through refusals, timeouts and late answers.
THEOREM ReservationsOwned == TrialSpec => []ReservationHasOwner
BY TrialInvariant, InvProperties, PTL

\* Within a trial every assignment of a plan is reserved: the room the
\* algorithm saw for all of it is there until the last of it.
THEOREM PlanAlwaysReserved == TrialSpec => []MirrorNeverRefuses
BY TrialInvariant, InvProperties, PTL

\* While no answer to a dispatch is lost, the mirror covers what each node is
\* asked to run, runs or has not reported.
THEOREM EdgeCovered == TrialSpec => []MirrorCoversEdge
BY TrialInvariant, InvProperties, PTL

\* So while no answer to a dispatch is lost, a node that is no smaller and accepts no
\* less than it was registered as refuses a task only because of an injection.
THEOREM RefusedUnderPressure == TrialSpec => []OnlyPressureRefuses
BY TrialInvariant, InvProperties, PTL

\* And no task is started on the fleet twice, or again when it has completed
\* or while it is pending.
THEOREM NeverExecutedTwice == TrialSpec => []ExecutedOnce
BY TrialInvariant, InvProperties, PTL

-----------------------------------------------------------------------------
\* The edge nodes the scheduler deals with are those EdgeNode implements

LEMMA ContractInit == Init => \A n \in Node : EdgeAt(n)!Init
BY SchedulerAssumption DEF Init, EdgeAt!Init

\* What node n has seen of each call.
SeenAt(n) == [c \in Call |-> IF SeenBy(n, c) THEN phase[c] ELSE "unused"]

\* One request changes: on every other node nothing does, and on its own node
\* it is a step of the contract.
LEMMA ContractCall ==
  ASSUME TypeOK, PooledFresh, NoStrays, NEW c \in Call, NEW n \in Node,
         Post(c) \/ EdgeStep(c) \/ LoseRequest(c)
  PROVE  EdgeAt(n)!Next \/ UNCHANGED EdgeAt(n)!contractVars
<1> USE DEF callVars
<1>1. /\ phase \in [Call -> {"unused", "requested", "running", "completed", "refused"}] /\ at' = at
      /\ \E to \in {"requested", "running", "completed", "refused"} : phase' = [phase EXCEPT ![c] = to]
  BY DEF Post, EdgeStep, LoseRequest, Admit, Refuse, Complete, TypeOK, NoStrays
<1>2. CASE at[c] # n
  <2>1. SeenAt(n)' = SeenAt(n)
    BY <1>1, <1>2 DEF SeenAt, SeenBy
  <2>2. QED
    BY <2>1 DEF SeenAt, EdgeAt!contractVars
<1>3. CASE at[c] = n
  <2>1. ASSUME NEW to, phase' = [phase EXCEPT ![c] = to],
               to = "requested" => TaskOf[c] \in ProfileOf[n].accepts
        PROVE  SeenAt(n)' = [SeenAt(n) EXCEPT ![c] = to]
    BY <1>1, <1>3, <2>1 DEF SeenAt, SeenBy
  <2>2. CASE Post(c)
    <3>1. phase[c] = "unused" /\ phase' = [phase EXCEPT ![c] = "requested"]
      BY <2>2 DEF Post, Advance, PooledFresh
    <3>2. CASE TaskOf[c] \in ProfileOf[n].accepts
      <4>1. SeenAt(n)' = [SeenAt(n) EXCEPT ![c] = "requested"]
        BY <2>1, <3>1, <3>2
      <4>2. SeenBy(n, c)
        BY <1>3, <3>1 DEF SeenBy
      <4>3. EdgeAt(n)!Request(c)
        BY <3>1, <3>2, <4>1, <4>2 DEF SeenAt, EdgeAt!Request
      <4>4. QED
        BY <4>3 DEF EdgeAt!Next
    <3>3. CASE TaskOf[c] \notin ProfileOf[n].accepts
      <4>1. SeenAt(n)' = SeenAt(n)
        BY <1>1, <3>1, <3>3 DEF SeenAt, SeenBy
      <4>2. QED
        BY <4>1 DEF SeenAt, EdgeAt!contractVars
    <3>4. QED
      BY <3>2, <3>3
  <2>3. CASE Refuse(c) \/ LoseRequest(c)
    <3>1. phase[c] = "requested" /\ SeenAt(n)' = [SeenAt(n) EXCEPT ![c] = "refused"]
      BY <2>1, <2>3 DEF Refuse, LoseRequest
    <3>2. SeenAt(n)[c] = "requested" \/ (SeenAt(n)[c] = "unused" /\ TaskOf[c] \notin ProfileOf[n].accepts)
      BY <1>3, <3>1 DEF SeenAt, SeenBy
    <3>3. EdgeAt(n)!Refuse(c)
      BY <3>1, <3>2 DEF SeenAt, EdgeAt!Refuse
    <3>4. QED
      BY <3>3 DEF EdgeAt!Next
  <2>4. CASE Complete(c)
    <3>1. phase[c] = "running" /\ SeenAt(n)' = [SeenAt(n) EXCEPT ![c] = "completed"]
      BY <2>1, <2>4 DEF Complete
    <3>2. EdgeAt(n)!Complete(c)
      BY <1>3, <3>1 DEF SeenAt, SeenBy, EdgeAt!Complete
    <3>3. QED
      BY <3>2 DEF EdgeAt!Next
  <2>5. CASE Admit(c)
    <3>1. phase[c] = "requested" /\ Admissible(c) /\ SeenAt(n)' = [SeenAt(n) EXCEPT ![c] = "running"]
      BY <2>1, <2>5 DEF Admit
    <3>2. EdgeAt(n)!ExecutingTasks = TasksOf(RunningAt(n))
      BY DEF EdgeAt!ExecutingTasks, EdgeAt!Executing, TasksOf, RunningAt, SeenBy
    <3>3. /\ TaskOf[c] \in ProfileOf[n].accepts /\ TaskOf[c] \notin TasksOf(RunningAt(n))
          /\ Room(ProfileOf[n], TasksOf(RunningAt(n)) \cup {TaskOf[c]}, 0, 0)
      BY <1>3, <3>1 DEF Admissible, NoStrays
    <3>4. EdgeAt(n)!Admit(c)
      BY <1>3, <3>1, <3>2, <3>3 DEF SeenAt, SeenBy, EdgeAt!Admit
    <3>5. QED
      BY <3>4 DEF EdgeAt!Next
  <2>6. QED
    BY <2>2, <2>3, <2>4, <2>5 DEF EdgeStep
<1>4. QED
  BY <1>2, <1>3

\* The names of answered calls are used again, for another node perhaps.
LEMMA ContractForget ==
  ASSUME TypeOK, NEW n \in Node, NEW S \in SUBSET Call,
         \A c \in S : phase[c] \in {"refused", "completed"} /\ at[c] = n,
         SeenAt(n)' = [c \in Call |-> IF c \in S THEN "unused" ELSE SeenAt(n)[c]]
  PROVE  EdgeAt(n)!Next
<1>1. EdgeAt(n)!Forget(S)
  BY DEF SeenAt, SeenBy, EdgeAt!Forget
<1>2. QED
  BY <1>1 DEF EdgeAt!Next

LEMMA ContractStep ==
  ASSUME TrialInv, [TrialNext]_vars, NEW n \in Node
  PROVE  EdgeAt(n)!Next \/ UNCHANGED EdgeAt(n)!contractVars
<1> USE DEF callVars
<1>0. TypeOK /\ PooledFresh /\ NoStrays
  BY DEF TrialInv, BookInv, AccountsInv, PlanInv
<1>1. ASSUME SeenAt(n)' = SeenAt(n) PROVE UNCHANGED EdgeAt(n)!contractVars
  BY <1>1 DEF SeenAt, EdgeAt!contractVars
<1>2. CASE DispatchHand
  <2>1. CASE UNCHANGED <<at, phase>>
    BY <1>1, <2>1 DEF SeenAt, SeenBy
  <2>2. ASSUME NEW c \in Call, phase[c] \in {"unused", "refused"},
               at' = [at EXCEPT ![c] = hand[2]], phase' = [phase EXCEPT ![c] = "unused"]
        PROVE  EdgeAt(n)!Next \/ UNCHANGED EdgeAt(n)!contractVars
    <3>1. CASE SeenAt(n)[c] = "unused"
      <4>1. SeenAt(n)' = SeenAt(n)
        BY <1>0, <2>2, <3>1 DEF SeenAt, SeenBy, TypeOK
      <4>2. QED
        BY <1>1, <4>1
    <3>2. CASE SeenAt(n)[c] # "unused"
      <4>1. phase[c] \in {"refused", "completed"} /\ at[c] = n
        BY <2>2, <3>2 DEF SeenAt, SeenBy
      <4>2. SeenAt(n)' = [d \in Call |-> IF d \in {c} THEN "unused" ELSE SeenAt(n)[d]]
        BY <1>0, <2>2 DEF SeenAt, SeenBy, TypeOK
      <4>3. QED
        BY <1>0, <4>1, <4>2, ContractForget
    <3>3. QED
      BY <3>1, <3>2
  <2>3. QED
    BY <1>2, <2>1, <2>2 DEF DispatchHand
<1>3. ASSUME NEW m \in Node, Poll(m) PROVE EdgeAt(n)!Next \/ UNCHANGED EdgeAt(n)!contractVars
  <2> DEFINE done == {c \in Call : at[c] = m /\ phase[c] = "completed"}
  <2>1. at' = at /\ phase' = [c \in Call |-> IF c \in done THEN "unused" ELSE phase[c]]
    BY <1>3 DEF Poll
  <2>2. CASE m = n
    <3>1. SeenAt(n)' = [c \in Call |-> IF c \in done THEN "unused" ELSE SeenAt(n)[c]]
      BY <2>1 DEF SeenAt, SeenBy
    <3>2. \A c \in done : phase[c] \in {"refused", "completed"} /\ at[c] = n
      BY <2>2
    <3>3. QED
      BY <1>0, <3>1, <3>2, ContractForget
  <2>3. CASE m # n
    <3>1. SeenAt(n)' = SeenAt(n)
      BY <2>1, <2>3 DEF SeenAt, SeenBy
    <3>2. QED
      BY <1>1, <3>1
  <2>4. QED
    BY <2>2, <2>3
<1>4. ASSUME NEW c \in Call, Post(c) \/ EdgeStep(c) \/ LoseRequest(c)
      PROVE  EdgeAt(n)!Next \/ UNCHANGED EdgeAt(n)!contractVars
  BY <1>0, <1>4, ContractCall
<1>5. ASSUME UNCHANGED <<at, phase>> PROVE UNCHANGED EdgeAt(n)!contractVars
  BY <1>1, <1>5 DEF SeenAt, SeenBy
<1>6. ASSUME NEW c \in Call, WorkerStep(c) \/ TimeOut(c), ~Post(c) PROVE UNCHANGED <<at, phase>>
  BY <1>6 DEF WorkerStep, TimeOut, RecordDispatched, Track, ReleaseRefused, ReleaseFailed, Mark, Requeue
<1>7. ASSUME \/ \E S \in SUBSET (Task \ submitted) : Submit(S)
             \/ \E t \in Task : Age(t)
             \/ Evict \/ Snapshot \/ Schedule \/ \E a \in plan : Assign(a)
             \/ \E m \in Node : LosePoll(m)
             \/ StoreStatus \/ \E t \in report : Observe(t)
             \/ UNCHANGED vars
      PROVE  UNCHANGED <<at, phase>>
  BY <1>7 DEF Submit, Age, Evict, Snapshot, Schedule, Assign, LosePoll, StoreStatus, Observe, vars
<1>8. QED
  BY <1>2, <1>3, <1>4, <1>5, <1>6, <1>7 DEF TrialNext, TickStep, PollStep

\* Within a trial every node the scheduler deals with behaves as EdgeContract
\* says, the specification EdgeNode is shown to implement: what the scheduler
\* takes for granted of the nodes is what the nodes are proved to do.
THEOREM NodesHonourContract == TrialSpec => EdgesHonourContract
<1>1. TrialInv /\ [TrialNext]_vars
        => [\A n \in Node : EdgeAt(n)!Next \/ UNCHANGED EdgeAt(n)!contractVars]_vars
  BY ContractStep
<1>2. QED
  BY <1>1, ContractInit, TrialInvariant, PTL DEF TrialSpec, EdgesHonourContract
=============================================================================
