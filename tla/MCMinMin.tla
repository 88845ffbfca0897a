------------------------------ MODULE MCMinMin ------------------------------
(***************************************************************************)
(* Two tasks and two nodes.  A wide node takes both tasks, a narrow one    *)
(* either of them, so a node fills up during a tick, and one that comes    *)
(* back narrow is too small for what has been planned for it; a light one  *)
(* has the room for the big task but does not accept it.                   *)
(***************************************************************************)
EXTENDS MinMinLoops

CONSTANTS near, far, big, tiny

Big == [ram |-> 2, cores |-> 1, units |-> 2]
Tiny == [ram |-> 1, cores |-> 1, units |-> 1]
MCDemand == {Big, Tiny}
MCDemandOf == [t \in Task |-> IF t = big THEN Big ELSE Tiny]

Wide == [ram |-> 3, cores |-> 2, accepts |-> Task]
Narrow == [ram |-> 2, cores |-> 1, accepts |-> Task]
Light == [ram |-> 2, cores |-> 1, accepts |-> {tiny}]
MCProfile == {Wide, Narrow, Light}
MCRegistered == [n \in Node |-> IF n = near THEN {Wide, Narrow} ELSE {Wide, Light}]
MCNodeRank == [n \in Node |-> IF n = near THEN 1 ELSE 2]
=============================================================================
