----------------------------- MODULE Placement -----------------------------
(***************************************************************************)
(* What a scheduling algorithm may answer (scheduler/algorithms): the      *)
(* feasibility checks both algorithms share and what their answers have in *)
(* common, whatever they prefer.  A view is what snapshot_views() returns: *)
(* the specs, reachability and totals of the mirror at one moment.         *)
(***************************************************************************)
EXTENDS NodeMirror

CONSTANT DemandOf  \* what each task asks for

ASSUME PlacementAssumption == DemandOf \in [Task -> Demand]

RamOf == [t \in Task |-> DemandOf[t].ram]
CoresOf == [t \in Task |-> DemandOf[t].cores]

\* Whether the tasks in S have room in profile p besides ram and cores in use.
Room(p, S, ram, cores) ==
  /\ ram + LoadOf(S, RamOf) <= p.ram
  /\ cores + LoadOf(S, CoresOf) <= p.cores

\* snapshot_views().
View == [open |-> reachable, spec |-> spec, ram |-> usedRam, cores |-> usedCores]

\* Mutant of Takes: what is placed earlier in the same tick is not counted.
TakesEach(v, n, S) ==
  /\ v.open[n] /\ S \subseteq v.spec[n].accepts
  /\ \A t \in S : Room(v.spec[n], {t}, v.ram[n], v.cores[n])

\* Whether node n, as the view shows it, takes all of S.
Takes(v, n, S) ==
  /\ v.open[n] /\ S \subseteq v.spec[n].accepts
  /\ Room(v.spec[n], S, v.ram[n], v.cores[n])

\* What is placed on a node by a set of assignments.
On(p, n) == {t \in Task : <<t, n>> \in p}

\* Each task of P placed at most once, only where the node takes it with the
\* others placed there, and no task left over that a node would still take.
IsPlan(v, P, p) ==
  /\ p \subseteq P \X Node
  /\ \A a, b \in p : a[1] = b[1] => a = b
  /\ \A n \in Node : On(p, n) # {} => Takes(v, n, On(p, n))
  /\ \A t \in P : \/ \E n \in Node : <<t, n>> \in p
                  \/ \A n \in Node : ~Takes(v, n, On(p, n) \cup {t})

Plans(v, P) == {p \in SUBSET (P \X Node) : IsPlan(v, P, p)}
=============================================================================
