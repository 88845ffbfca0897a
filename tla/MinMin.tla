------------------------------- MODULE MinMin -------------------------------
(***************************************************************************)
(* The two algorithms, scheduler/algorithms/min_min.py and                 *)
(* adaptive_min_min.py, with what they read: the mirror, its ready times   *)
(* (projected_completion_time) and the learned service rates.              *)
(*                                                                         *)
(* schedule() works on a snapshot and on copies of it, one placement per   *)
(* iteration of its outer loop; meanwhile tasks complete, nodes are        *)
(* polled, refused, registered again or reset.  What it answers is         *)
(* reserved afterwards, one assignment at a time.                          *)
(*                                                                         *)
(* Time is counted in whole units.  A learned rate mu is represented by    *)
(* its inverse, the time a node takes for one workload unit; the network   *)
(* penalty pi is zero, since nothing measures it.                          *)
(***************************************************************************)
EXTENDS Placement

CONSTANTS
  NodeRank,   \* the position of each node in NodeState._nodes
  UnitTime,   \* SECONDS_PER_WORKLOAD_UNIT
  Paces,      \* what the learned time for a workload unit may become
  MaxTime,    \* bound on the clock
  MaxReady    \* bound on the ready times a tick starts with

\* The positions a set of tasks, or of nodes, may have in a list of them.
Orders(S) == {f \in [S -> 1..Cardinality(S)] : \A t, u \in S : f[t] = f[u] => t = u}

ASSUME MinMinAssumption ==
  /\ IsFiniteSet(Node) /\ NodeRank \in Orders(Node)
  /\ UnitTime \in Nat \ {0} /\ Paces \subseteq Nat \ {0}
  /\ MaxTime \in Nat /\ MaxReady \in Nat

VARIABLES
  now,      \* the clock
  ready,    \* _NodeRecord.projected_completion_time
  pace,     \* LearnedState: time per workload unit of each node
  queue,    \* the pending tasks
  pc,       \* where _run_one_tick stands
  algo,     \* the algorithm this tick uses
  view,     \* its argument nodes
  rank,     \* its argument pending: the position of each task
  t0,       \* its argument now
  rates,    \* learned.snapshot()
  ram,      \* proj_ram
  cores,    \* proj_cores
  freeAt,   \* free_at
  left,     \* unassigned
  plan      \* the assignments made, and later those still to be dispatched

argVars == <<algo, view, rank, t0, rates>>
localVars == <<ram, cores, freeAt, left>>
tickVars == <<pc, argVars, localVars, plan>>
envVars == <<now, ready, pace, queue>>
vars == <<mirrorVars, envVars, tickVars>>

Later(a, b) == IF a < b THEN b ELSE a

Prior == [n \in Node |-> UnitTime]
AtZero == [n \in Node |-> 0]

\* The tasks somewhere in the pipeline; their ids are not submitted again.
Known == queue \cup left \cup {a[1] : a \in plan} \cup {t \in Task : \E n \in Node : held[n][t] # Nothing}

\* Nothing is kept from one tick to the next.
NoArgs ==
  algo = Nothing /\ view = Nothing /\ rank = Nothing /\ t0 = Nothing /\ rates = Nothing
NoLocals == ram = Nothing /\ cores = Nothing /\ freeAt = Nothing /\ left = {}
DropArgs ==
  algo' = Nothing /\ view' = Nothing /\ rank' = Nothing /\ t0' = Nothing /\ rates' = Nothing
DropLocals == ram' = Nothing /\ cores' = Nothing /\ freeAt' = Nothing /\ left' = {}

Init ==
  /\ MirrorInit
  /\ now = 0 /\ ready = AtZero /\ pace = Prior /\ queue = {}
  /\ pc = "idle" /\ NoArgs /\ NoLocals /\ plan = {}

-----------------------------------------------------------------------------
\* schedule()

\* queue.snapshot(), snapshot_views() and the copies made of them.  Any task
\* may have been enqueued first.  The algorithm is looked up for each tick.
Snapshot ==
  /\ pc = "idle" /\ pc' = "choosing"
  /\ queue # {}
  /\ \A n \in Node : ready[n] <= MaxReady
  /\ algo' \in {"min_min", "adaptive_min_min"}
  /\ view' = View /\ rank' \in Orders(queue) /\ t0' = now /\ rates' = pace
  /\ ram' = usedRam /\ cores' = usedCores /\ freeAt' = ready
  /\ left' = queue /\ plan' = {}
  /\ UNCHANGED <<mirrorVars, envVars>>

\* Mutant of Feasible: what this tick has placed already is not counted.
FeasibleInView(t, n) ==
  /\ view.open[n] /\ t \in view.spec[n].accepts
  /\ view.ram[n] + DemandOf[t].ram <= view.spec[n].ram
  /\ view.cores[n] + DemandOf[t].cores <= view.spec[n].cores

\* A node that is neither active nor reachable is no candidate.
Feasible(t, n) ==
  /\ view.open[n] /\ t \in view.spec[n].accepts
  /\ ram[n] + DemandOf[t].ram <= view.spec[n].ram
  /\ cores[n] + DemandOf[t].cores <= view.spec[n].cores

\* Min-Min's completion time, and the adaptive ECT.
Completion(t, n) == freeAt[n] + DemandOf[t].units * UnitTime
Ect(t, n) == Monus(freeAt[n], t0) + DemandOf[t].units * rates[n]
Cost(t, n) == IF algo = "min_min" THEN Completion(t, n) ELSE Ect(t, n)

\* Mutant of ShadowReady: the table is not updated.
ShadowUnchanged(t, n) == freeAt[n]

\* free_at of a node after a placement; a ready time in the past counts from
\* now in the adaptive algorithm only.
ShadowReady(t, n) ==
  IF algo = "min_min" THEN Completion(t, n)
                      ELSE Later(t0, freeAt[n]) + DemandOf[t].units * rates[n]

Options == {a \in left \X Node : Feasible(a[1], a[2])}

\* The loops run over tasks and nodes in order and replace the best pair so
\* far only by a strictly better one.
Precedes(a, b) ==
  LET x == Cost(a[1], a[2])
      y == Cost(b[1], b[2])
  IN  \/ x < y
      \/ x = y /\ rank[a[1]] < rank[b[1]]
      \/ x = y /\ a[1] = b[1] /\ NodeRank[a[2]] < NodeRank[b[2]]

Best(a) == a \in Options /\ \A b \in Options \ {a} : Precedes(a, b)

\* One iteration of the outer loop.
Place(a) ==
  /\ pc = "choosing"
  /\ Best(a)
  /\ plan' = plan \cup {a}
  /\ left' = left \ {a[1]}
  /\ ram' = [ram EXCEPT ![a[2]] = @ + DemandOf[a[1]].ram]
  /\ cores' = [cores EXCEPT ![a[2]] = @ + DemandOf[a[1]].cores]
  /\ freeAt' = [freeAt EXCEPT ![a[2]] = ShadowReady(a[1], a[2])]
  /\ UNCHANGED <<mirrorVars, envVars, pc, argVars>>

\* No task left, or none that any node takes; the local copies are gone.
Return ==
  /\ pc = "choosing" /\ Options = {}
  /\ \/ plan = {} /\ pc' = "idle" /\ DropArgs
     \/ plan # {} /\ pc' = "dispatching" /\ UNCHANGED argVars
  /\ DropLocals
  /\ UNCHANGED <<mirrorVars, envVars, plan>>

\* queue.remove and Dispatcher.dispatch; reserve() moves the ready time on.
Dispatch(a) ==
  /\ pc = "dispatching" /\ a \in plan
  /\ plan' = plan \ {a}
  /\ \/ plan = {a} /\ pc' = "idle" /\ DropArgs
     \/ plan # {a} /\ UNCHANGED <<pc, argVars>>
  /\ LET t == a[1]
         n == a[2]
     IN  \/ /\ Reserve(n, t, DemandOf[t])
            /\ ready' = [ready EXCEPT ![n] = Later(@, now) + DemandOf[t].units * UnitTime]
            /\ queue' = queue \ {t}
         \/ /\ ~CanReserve(n, t, DemandOf[t])
            /\ queue' = queue \cup {t}
            /\ UNCHANGED <<mirrorVars, ready>>
  /\ UNCHANGED <<now, pace, localVars>>

-----------------------------------------------------------------------------
\* Meanwhile, on other threads.  As schedule() reads only its arguments and
\* its copies, what happens while it runs is taken to happen when it returns.

Elapse ==
  /\ now < MaxTime /\ now' = now + 1
  /\ UNCHANGED <<mirrorVars, ready, pace, queue, tickVars>>

Submit(t) ==
  /\ t \notin Known
  /\ queue' = queue \cup {t}
  /\ UNCHANGED <<mirrorVars, now, ready, pace, tickVars>>

\* Mutant of Measured: the guard against an immeasurably short run is dropped.
MeasuredUnguarded == Paces \cup {0}

\* update_service_rate skips durations and workloads that are not positive.
Measured == Paces

\* A completion releases the reservation, which leaves the ready time alone,
\* and teaches the node's rate.
Complete(n, t) ==
  /\ held[n][t] # Nothing
  /\ Release(n, t, DemandOf[t].units)
  /\ \E p \in Measured : pace' = [pace EXCEPT ![n] = p]
  /\ UNCHANGED <<now, ready, queue, tickVars>>

\* The node refuses the task or does not answer.
GiveUp(n, t) ==
  /\ held[n][t] # Nothing
  /\ Release(n, t, DemandOf[t].units)
  /\ queue' = queue \cup {t}
  /\ UNCHANGED <<now, ready, pace, tickVars>>

Poll(n) ==
  /\ Reconcile(n) \/ MarkUnreachable(n)
  /\ UNCHANGED <<envVars, tickVars>>

\* A node may come back with another profile; its new record is ready at 0.
RegisterNode(n, p) ==
  /\ Register(n, p)
  /\ ready' = [ready EXCEPT ![n] = 0]
  /\ UNCHANGED <<now, pace, queue, tickVars>>

\* The part of trial_reset that concerns what is modelled here.
ResetTrial ==
  /\ ResetAll
  /\ ready' = AtZero /\ pace' = Prior /\ queue' = {}
  /\ UNCHANGED <<now, tickVars>>

TickNext == Snapshot \/ (\E a \in left \X Node : Place(a)) \/ Return \/ (\E a \in plan : Dispatch(a))

EnvironmentNext ==
  \/ Elapse \/ ResetTrial
  \/ \E t \in Task : Submit(t)
  \/ \E n \in Node, t \in Task : Complete(n, t) \/ GiveUp(n, t)
  \/ \E n \in Node : Poll(n) \/ \E p \in Registered[n] : RegisterNode(n, p)

Next == TickNext \/ (pc # "choosing" /\ EnvironmentNext)

Spec == Init /\ [][Next]_vars
-----------------------------------------------------------------------------
\* Properties

\* The type invariant; a rate is never zero, as workloads are divided by it.
TypeOK ==
  /\ MirrorTypeOK
  /\ now \in Nat /\ ready \in [Node -> Nat] /\ pace \in [Node -> Nat \ {0}]
  /\ queue \subseteq Task
  /\ pc \in {"idle", "choosing", "dispatching"}
  /\ plan \subseteq Task \X Node
  /\ IF pc = "idle"
     THEN NoArgs /\ plan = {}
     ELSE /\ algo \in {"min_min", "adaptive_min_min"}
          /\ view \in [open : [Node -> BOOLEAN], spec : [Node -> Profile \cup {Nothing}],
                       ram : [Node -> Nat], cores : [Node -> Nat]]
          /\ DOMAIN rank \subseteq Task /\ rank \in Orders(DOMAIN rank)
          /\ t0 \in Nat /\ rates \in [Node -> Nat \ {0}]
  /\ IF pc = "choosing"
     THEN /\ ram \in [Node -> Nat] /\ cores \in [Node -> Nat] /\ freeAt \in [Node -> Nat]
          /\ left \subseteq Task
     ELSE NoLocals

\* Both algorithms answer with a plan: feasible on the views they were given
\* with all they place together, every task once, and nothing left over that
\* would still fit.  This is what Scheduler takes their answers to be.
AnswerIsPlan == pc = "choosing" /\ Options = {} => IsPlan(view, DOMAIN rank, plan)

\* "Mirror refused reservation" happens only for a node that has been
\* registered with another profile since the views were taken: completions,
\* refusals, polls and resets in the meantime never make the answer infeasible.
RefusesOnlyRenewed ==
  pc = "dispatching" =>
    \A a \in plan :
      spec[a[2]] = view.spec[a[2]] => CanReserve(a[2], a[1], DemandOf[a[1]])

\* While nothing is learned yet and no ready time lies in the past, the
\* adaptive algorithm is Min-Min: "the nominal prior" changes no decision and
\* no later one in the same tick.
SameUnderPrior ==
  [][\A a \in left \X Node :
       Place(a) /\ rates = Prior /\ (\A n \in Node : freeAt[n] >= t0) =>
         /\ \A b \in Options : Completion(a[1], a[2]) <= Completion(b[1], b[2])
         /\ freeAt' = [freeAt EXCEPT ![a[2]] = Completion(a[1], a[2])]]_vars
=============================================================================
