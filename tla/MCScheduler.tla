---------------------------- MODULE MCScheduler ----------------------------
(***************************************************************************)
(* Small fleets for TLC.  Node "near" has room for one of the tasks at a   *)
(* time, "far" for both in memory but has one core and accepts only one of *)
(* them, so tasks wait for each other's reservations.  A fleet may be      *)
(* registered as what it is, or with "far" taken for a node with two cores *)
(* that accepts everything.                                                *)
(***************************************************************************)
EXTENDS Scheduler, TLC

CONSTANTS near, far, big, tiny

BothNodes == {near, far}
BothTasks == {big, tiny}
OneTask == {tiny}

Big == [ram |-> 2, cores |-> 1, units |-> 2]
Tiny == [ram |-> 1, cores |-> 1, units |-> 1]
MCDemandOf == [t \in Task |-> IF t = big THEN Big ELSE Tiny]
MCDemand == {Big, Tiny}

Near == [ram |-> 2, cores |-> 2, accepts |-> Task]
Far == [ram |-> 3, cores |-> 1, accepts |-> Task \ {big}]
Wide == [ram |-> 3, cores |-> 2, accepts |-> Task]
MCProfileOf == [n \in Node |-> IF n = near THEN Near ELSE Far]
MCProfile == {Near, Far, Wide}
AsTheyAre == [n \in Node |-> {MCProfileOf[n]}]
FarOverstated == [n \in Node |-> IF n = near THEN {Near} ELSE {Far, Wide}]

\* One or two names for the dispatches of a task, used again once free.
OneCall == Task \X {1}
TwoCalls == Task \X {1, 2}
MCTaskOf == [c \in Call |-> c[1]]
=============================================================================
