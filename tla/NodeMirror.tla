----------------------------- MODULE NodeMirror -----------------------------
(***************************************************************************)
(* The scheduler's mirror of the edge nodes: scheduler/node_state.py.      *)
(*                                                                         *)
(* Every public method runs under one lock, so a step is one call.  A      *)
(* record keeps the reservations of a node, by task id, and the totals the *)
(* algorithms read, which are maintained separately: reserve() adds to     *)
(* them, release() subtracts from them and clamps the result at zero.      *)
(***************************************************************************)
EXTENDS Load

CONSTANTS
  Node,        \* node ids
  Task,        \* task ids
  Demand,      \* what a task may ask for: [ram, cores, units]
  Profile,     \* what a node may be: its room and the tasks whose class it accepts
  Registered,  \* what POST /nodes/register may say of each node
  Nothing      \* stands for "no entry" in a dictionary

ASSUME MirrorAssumption ==
  /\ IsFiniteSet(Task)
  /\ Demand \subseteq [ram : Nat \ {0}, cores : Nat \ {0}, units : Nat \ {0}]
  /\ Profile \subseteq [ram : Nat, cores : Nat \ {0}, accepts : SUBSET Task]
  /\ Registered \in [Node -> SUBSET Profile] /\ \A n \in Node : Registered[n] # {}
  /\ Nothing \notin Demand /\ Nothing \notin Profile

VARIABLES
  spec,       \* _NodeRecord.spec, for the registered nodes
  held,       \* _NodeRecord.reservations
  usedRam,    \* projected_used_ram_kb
  usedCores,  \* projected_used_cores
  workload,   \* in_flight_workload_units
  reachable   \* last_status.reachable

mirrorVars == <<spec, held, usedRam, usedCores, workload, reachable>>
totals == <<usedRam, usedCores, workload>>

\* The tasks that have a reservation on a node, and what they hold.
Reserved(n) == {t \in Task : held[n][t] # Nothing}
HeldRam(n) == LoadOf(Reserved(n), [t \in Reserved(n) |-> held[n][t].ram])
HeldCores(n) == LoadOf(Reserved(n), [t \in Reserved(n) |-> held[n][t].cores])
HeldUnits(n) == LoadOf(Reserved(n), [t \in Reserved(n) |-> held[n][t].units])

\* max(0, a - b).
Monus(a, b) == IF a < b THEN 0 ELSE a - b

-----------------------------------------------------------------------------
MirrorInit ==
  /\ spec = [n \in Node |-> Nothing]
  /\ held = [n \in Node |-> [t \in Task |-> Nothing]]
  /\ usedRam = [n \in Node |-> 0]
  /\ usedCores = [n \in Node |-> 0]
  /\ workload = [n \in Node |-> 0]
  /\ reachable = [n \in Node |-> FALSE]

\* A fresh record, or none at all, for a node id.
Replace(n, p) ==
  /\ spec' = [spec EXCEPT ![n] = p]
  /\ held' = [held EXCEPT ![n] = [t \in Task |-> Nothing]]
  /\ usedRam' = [usedRam EXCEPT ![n] = 0]
  /\ usedCores' = [usedCores EXCEPT ![n] = 0]
  /\ workload' = [workload EXCEPT ![n] = 0]
  /\ reachable' = [reachable EXCEPT ![n] = FALSE]

Register(n, p) == Replace(n, p)
Unregister(n) == Replace(n, Nothing)

\* Mutant of CanReserve: the algorithm's answer is trusted.
CanReserveAnything(n, t, d) == spec[n] # Nothing /\ held[n][t] = Nothing

\* The four reasons for which reserve() returns False, negated.
CanReserve(n, t, d) ==
  /\ spec[n] # Nothing
  /\ held[n][t] = Nothing
  /\ usedRam[n] + d.ram <= spec[n].ram
  /\ usedCores[n] + d.cores <= spec[n].cores

\* Mutant of Reserve: the RAM total is not advanced.
ReserveForgetsRam(n, t, d) ==
  /\ CanReserve(n, t, d)
  /\ held' = [held EXCEPT ![n][t] = d]
  /\ usedCores' = [usedCores EXCEPT ![n] = @ + d.cores]
  /\ workload' = [workload EXCEPT ![n] = @ + d.units]
  /\ UNCHANGED <<spec, usedRam, reachable>>

\* reserve() that returns True.
Reserve(n, t, d) ==
  /\ CanReserve(n, t, d)
  /\ held' = [held EXCEPT ![n][t] = d]
  /\ usedRam' = [usedRam EXCEPT ![n] = @ + d.ram]
  /\ usedCores' = [usedCores EXCEPT ![n] = @ + d.cores]
  /\ workload' = [workload EXCEPT ![n] = @ + d.units]
  /\ UNCHANGED <<spec, reachable>>

\* Mutant of Release: the reservation stays.
ReleaseNothing(n, t, units) == UNCHANGED mirrorVars

\* release(): RAM and cores come from the popped reservation, the workload
\* units from the caller.  Without a reservation it returns False.
Release(n, t, units) ==
  \/ /\ held[n][t] # Nothing
     /\ held' = [held EXCEPT ![n][t] = Nothing]
     /\ usedRam' = [usedRam EXCEPT ![n] = Monus(@, held[n][t].ram)]
     /\ usedCores' = [usedCores EXCEPT ![n] = Monus(@, held[n][t].cores)]
     /\ workload' = [workload EXCEPT ![n] = Monus(@, units)]
     /\ UNCHANGED <<spec, reachable>>
  \/ held[n][t] = Nothing /\ UNCHANGED mirrorVars

\* reconcile() stores the status of a registered node; the totals stay.
Reconcile(n) ==
  /\ reachable' = [reachable EXCEPT ![n] = spec[n] # Nothing]
  /\ UNCHANGED <<spec, held, totals>>

MarkUnreachable(n) ==
  /\ reachable' = [reachable EXCEPT ![n] = FALSE]
  /\ UNCHANGED <<spec, held, totals>>

\* Mutant of ResetAll: the CPU total is not cleared.
ResetForgetsCores ==
  /\ held' = [n \in Node |-> [t \in Task |-> Nothing]]
  /\ usedRam' = [n \in Node |-> 0]
  /\ workload' = [n \in Node |-> 0]
  /\ UNCHANGED <<spec, usedCores, reachable>>

ResetAll ==
  /\ held' = [n \in Node |-> [t \in Task |-> Nothing]]
  /\ usedRam' = [n \in Node |-> 0]
  /\ usedCores' = [n \in Node |-> 0]
  /\ workload' = [n \in Node |-> 0]
  /\ UNCHANGED <<spec, reachable>>

\* A caller that releases passes the workload of the task it reserved for.
MirrorNext ==
  \/ \E n \in Node :
       \/ \E p \in Profile : Register(n, p)
       \/ Unregister(n) \/ Reconcile(n) \/ MarkUnreachable(n)
  \/ \E n \in Node, t \in Task, d \in Demand :
       Reserve(n, t, d) \/ (held[n][t] \in {d, Nothing} /\ Release(n, t, d.units))
  \/ ResetAll

MirrorSpec == MirrorInit /\ [][MirrorNext]_mirrorVars
-----------------------------------------------------------------------------
\* Properties

\* The type invariant of the mirror; only a registered node is reachable.
MirrorTypeOK ==
  /\ spec \in [Node -> Profile \cup {Nothing}]
  /\ held \in [Node -> [Task -> Demand \cup {Nothing}]]
  /\ usedRam \in [Node -> Nat]
  /\ usedCores \in [Node -> Nat]
  /\ workload \in [Node -> Nat]
  /\ reachable \in [Node -> BOOLEAN]
  /\ \A n \in Node : spec[n] = Nothing => ~reachable[n] /\ Reserved(n) = {}

\* The totals of a record are the sums of the reservations they stand for: the
\* bookkeeping kept twice never drifts apart, so the clamps at zero in
\* release() never hide a difference.
ProjectedIsSum ==
  \A n \in Node :
    usedRam[n] = HeldRam(n) /\ usedCores[n] = HeldCores(n) /\ workload[n] = HeldUnits(n)

\* What is reserved on a node never exceeds the spec it is registered with,
\* even when the node is registered again with a smaller profile.
ReservedFits ==
  \A n \in Node :
    spec[n] # Nothing => HeldRam(n) <= spec[n].ram /\ HeldCores(n) <= spec[n].cores
=============================================================================
