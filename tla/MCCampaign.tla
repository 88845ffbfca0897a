----------------------------- MODULE MCCampaign -----------------------------
(***************************************************************************)
(* A campaign on the small fleets of MCScheduler.                           *)
(***************************************************************************)
EXTENDS Campaign, TLC

CONSTANTS near, big, tiny

Big == [ram |-> 2, cores |-> 1, units |-> 2]
Tiny == [ram |-> 1, cores |-> 1, units |-> 1]
MCDemandOf == [t \in Task |-> IF t = big THEN Big ELSE Tiny]
MCDemand == {Big, Tiny}
Near == [ram |-> 2, cores |-> 2, accepts |-> Task]
MCProfileOf == [n \in Node |-> Near]
MCProfile == {Near}
AsTheyAre == [n \in Node |-> {Near}]
MCCall == Task \X {1, 2}
OneCall == Task \X {1}
MCTaskOf == [c \in Call |-> c[1]]
=============================================================================
