---------------------------- MODULE MinMinProofs ----------------------------
(***************************************************************************)
(* For every fleet, every set of tasks, every rate that may be learned and *)
(* every number of ticks, both algorithms answer plans, and the mirror     *)
(* refuses an assignment only for a node that has got another profile.     *)
(*                                                                         *)
(* While schedule() runs, its local totals are the view's plus what it has *)
(* placed (Choosing), so what is feasible on them is feasible on the view  *)
(* with everything placed so far.  When it has answered, this room is      *)
(* still there, since totals grow only by what leaves the plan             *)
(* (Dispatching), and no task that is waiting has a reservation (Waiting), *)
(* for a task is reserved on one node at most (HeldOnce).                  *)
(*                                                                         *)
(* The nested loops choose as the selection rule does, by induction over   *)
(* the positions they go through.                                          *)
(***************************************************************************)
EXTENDS MinMinLoops, NodeMirrorProofs

\* The tasks of a set of assignments.
Planned(p) == {a[1] : a \in p}

\* What is reserved for a task is what the task asks for.
Demanded == \A n \in Node, t \in Task : held[n][t] \in {DemandOf[t], Nothing}

\* A task is reserved on one node at most.
HeldOnce ==
  \A t \in Task, m, n \in Node : held[m][t] # Nothing /\ held[n][t] # Nothing => m = n

\* Nothing is reserved for a task that is queued, unassigned or planned.
Waiting == \A t \in queue \cup left \cup Planned(plan), n \in Node : held[n][t] = Nothing

Books == Demanded /\ HeldOnce /\ Waiting

\* A plan has each task once.
PlannedOnce == \A a, b \in plan : a[1] = b[1] => a = b

\* While schedule() runs: the mirror is as in the view, a task is either left
\* or planned, the local totals count the plan, and each node takes its part.
Choosing ==
  pc = "choosing" =>
    /\ view = View
    /\ left \subseteq DOMAIN rank /\ plan \subseteq (DOMAIN rank) \X Node
    /\ \A t \in DOMAIN rank : t \in left <=> t \notin Planned(plan)
    /\ \A n \in Node : /\ ram[n] = view.ram[n] + LoadOf(On(plan, n), RamOf)
                       /\ cores[n] = view.cores[n] + LoadOf(On(plan, n), CoresOf)
                       /\ On(plan, n) # {} => Takes(view, n, On(plan, n))

\* While the plan is carried out: the room for the rest of it is there.
Dispatching ==
  pc = "dispatching" =>
    \A n \in Node :
      On(plan, n) # {} =>
        /\ view.spec[n] \in Profile
        /\ Room(view.spec[n], On(plan, n), usedRam[n], usedCores[n])

PlanInv == PlannedOnce /\ Choosing /\ Dispatching

IInv == TypeOK /\ MirrorInv /\ Books /\ PlanInv
-----------------------------------------------------------------------------
\* The environment

\* Reservations that go, and a queue that grows only by what is held nowhere.
LEMMA BooksShrink ==
  ASSUME Books, \A n \in Node, t \in Task : held'[n][t] \in {held[n][t], Nothing},
         \A t \in (queue \cup left \cup Planned(plan))' :
           t \in Task /\ (t \in queue \cup left \cup Planned(plan) \/ \A n \in Node : held'[n][t] = Nothing)
  PROVE  Books'
<1>1. Demanded'
  BY DEF Books, Demanded
<1>2. HeldOnce'
  BY DEF Books, HeldOnce
<1>3. Waiting'
  BY DEF Books, Waiting
<1>4. QED
  BY <1>1, <1>2, <1>3 DEF Books

\* What an environment step has to respect.
LEMMA EnvironmentKeeps ==
  ASSUME IInv, pc # "choosing", UNCHANGED tickVars, MirrorInv', Books',
         now' \in Nat, ready' \in [Node -> Nat], pace' \in [Node -> Nat \ {0}], queue' \subseteq Task,
         \A n \in Node : usedRam'[n] <= usedRam[n] /\ usedCores'[n] <= usedCores[n]
  PROVE  IInv'
<1>1. TypeOK'
  BY DEF IInv, TypeOK, MirrorInv, tickVars, argVars, localVars, NoArgs, NoLocals
<1>2. PlannedOnce' /\ Choosing'
  BY DEF IInv, PlanInv, PlannedOnce, Choosing, tickVars
<1>3. Dispatching'
  <2> SUFFICES ASSUME pc = "dispatching", NEW n \in Node, On(plan, n) # {}
               PROVE  /\ view.spec[n] \in Profile
                      /\ Room(view.spec[n], On(plan, n), usedRam'[n], usedCores'[n])
    BY DEF Dispatching, tickVars, argVars, On, Room
  <2>1. view.spec[n] \in Profile /\ Room(view.spec[n], On(plan, n), usedRam[n], usedCores[n])
    BY DEF IInv, PlanInv, Dispatching
  <2>2. LoadOf(On(plan, n), RamOf) \in Nat /\ LoadOf(On(plan, n), CoresOf) \in Nat
    BY PlanLoads DEF On
  <2>3. /\ usedRam[n] \in Nat /\ usedCores[n] \in Nat
        /\ usedRam'[n] \in Nat /\ usedCores'[n] \in Nat
    BY DEF IInv, MirrorInv, MirrorTypeOK
  <2>4. view.spec[n].ram \in Nat /\ view.spec[n].cores \in Nat
    BY <2>1, MirrorAssumption
  <2>5. QED
    BY <2>1, <2>2, <2>3, <2>4 DEF Room
<1>4. QED
  BY <1>1, <1>2, <1>3 DEF IInv, PlanInv

\* Nothing reserved changes hands.
LEMMA MirrorUntouched ==
  ASSUME MirrorInv, UNCHANGED mirrorVars
  PROVE  /\ MirrorInv' /\ \A n \in Node, t \in Task : held'[n][t] \in {held[n][t], Nothing}
         /\ \A n \in Node : usedRam'[n] <= usedRam[n] /\ usedCores'[n] <= usedCores[n]
<1>1. MirrorInv'
  BY StatusKeeps DEF MirrorInv, MirrorTypeOK, mirrorVars, totals
<1>2. QED
  BY <1>1 DEF mirrorVars, MirrorInv, MirrorTypeOK

LEMMA ReleaseShrinks ==
  ASSUME MirrorInv, Demanded, NEW n \in Node, NEW t \in Task, held[n][t] # Nothing,
         Release(n, t, DemandOf[t].units)
  PROVE  /\ MirrorInv' /\ held' = [held EXCEPT ![n][t] = Nothing]
         /\ \A m \in Node : usedRam'[m] <= usedRam[m] /\ usedCores'[m] <= usedCores[m]
<1>1. DemandOf[t].units = held[n][t].units
  BY DEF Demanded
<1>2. MirrorInv'
  BY <1>1, ReleaseKeeps
<1>3. /\ held' = [held EXCEPT ![n][t] = Nothing]
      /\ usedRam' = [usedRam EXCEPT ![n] = Monus(@, held[n][t].ram)]
      /\ usedCores' = [usedCores EXCEPT ![n] = Monus(@, held[n][t].cores)]
  BY DEF Release
<1>4. held[n][t].ram \in Nat /\ held[n][t].cores \in Nat
  BY MirrorAssumption DEF MirrorInv, MirrorTypeOK
<1>5. \A m \in Node : usedRam'[m] <= usedRam[m] /\ usedCores'[m] <= usedCores[m]
  BY <1>3, <1>4 DEF MirrorInv, MirrorTypeOK, Monus
<1>6. QED
  BY <1>2, <1>3, <1>5

\* No step of another thread disturbs what a tick relies on.
LEMMA EnvironmentStep ==
  ASSUME IInv, pc # "choosing", EnvironmentNext
  PROVE  IInv'
<1> USE DEF IInv
<1>1. left = {}
  BY DEF TypeOK, NoLocals
<1>2. Planned(plan) \subseteq Task
  BY DEF TypeOK, Planned
<1>3. CASE Elapse
  <2>1. Books'
    BY <1>3, <1>1, <1>2, BooksShrink, MirrorUntouched DEF Elapse, tickVars, localVars, TypeOK
  <2>2. QED
    BY <1>3, <2>1, EnvironmentKeeps, MirrorUntouched DEF Elapse, TypeOK
<1>4. ASSUME NEW t \in Task, Submit(t) PROVE IInv'
  <2>1. \A n \in Node : held[n][t] = Nothing
    BY <1>4 DEF Submit, Known
  <2>2. Books'
    BY <1>4, <1>1, <1>2, <2>1, BooksShrink, MirrorUntouched
      DEF Submit, mirrorVars, tickVars, localVars, TypeOK
  <2>3. QED
    BY <1>4, <2>2, EnvironmentKeeps, MirrorUntouched DEF Submit, TypeOK
<1>5. ASSUME NEW n \in Node, NEW t \in Task, Complete(n, t) \/ GiveUp(n, t) PROVE IInv'
  <2>1. held[n][t] # Nothing /\ Release(n, t, DemandOf[t].units) /\ UNCHANGED tickVars
        /\ queue' \subseteq queue \cup {t}
    BY <1>5 DEF Complete, GiveUp
  <2>2. /\ MirrorInv' /\ held' = [held EXCEPT ![n][t] = Nothing]
        /\ \A m \in Node : usedRam'[m] <= usedRam[m] /\ usedCores'[m] <= usedCores[m]
    BY <2>1, ReleaseShrinks DEF Books
  <2>3. \A m \in Node : held'[m][t] = Nothing
    BY <2>1, <2>2 DEF Books, HeldOnce, MirrorInv, MirrorTypeOK
  <2>4. \A m \in Node, u \in Task : held'[m][u] \in {held[m][u], Nothing}
    BY <2>2 DEF MirrorInv, MirrorTypeOK
  <2>5. Books'
    BY <1>1, <1>2, <2>1, <2>3, <2>4, BooksShrink DEF tickVars, localVars, TypeOK
  <2>6. pace' \in [Node -> Nat \ {0}]
    BY <1>5, MinMinAssumption DEF Complete, GiveUp, Measured, TypeOK
  <2>7. now' \in Nat /\ ready' \in [Node -> Nat] /\ queue' \subseteq Task
    BY <1>5, <2>1 DEF Complete, GiveUp, TypeOK
  <2>8. QED
    BY <2>1, <2>2, <2>5, <2>6, <2>7, EnvironmentKeeps
<1>6. ASSUME NEW n \in Node, Poll(n) PROVE IInv'
  <2>1. MirrorInv' /\ UNCHANGED <<held, usedRam, usedCores>>
    BY <1>6, ReconcileKeeps DEF Poll, Reconcile, MarkUnreachable, totals
  <2>2. Books'
    BY <1>6, <1>1, <1>2, <2>1, BooksShrink DEF Poll, envVars, tickVars, localVars, TypeOK
  <2>3. \A m \in Node : usedRam'[m] <= usedRam[m] /\ usedCores'[m] <= usedCores[m]
    BY <2>1 DEF MirrorInv, MirrorTypeOK
  <2>4. QED
    BY <1>6, <2>1, <2>2, <2>3, EnvironmentKeeps DEF Poll, envVars, TypeOK
<1>7. ASSUME NEW n \in Node, NEW p \in Profile, RegisterNode(n, p) PROVE IInv'
  <2>1. MirrorInv'
    BY <1>7, ReplaceKeeps DEF RegisterNode, Register
  <2>2. /\ held' = [held EXCEPT ![n] = [t \in Task |-> Nothing]]
        /\ usedRam' = [usedRam EXCEPT ![n] = 0] /\ usedCores' = [usedCores EXCEPT ![n] = 0]
    BY <1>7 DEF RegisterNode, Register, Replace
  <2>3. Books'
    BY <1>7, <1>1, <1>2, <2>2, BooksShrink
      DEF RegisterNode, tickVars, localVars, TypeOK, MirrorInv, MirrorTypeOK
  <2>4. \A m \in Node : usedRam'[m] <= usedRam[m] /\ usedCores'[m] <= usedCores[m]
    BY <2>2 DEF MirrorInv, MirrorTypeOK
  <2>5. QED
    BY <1>7, <2>1, <2>3, <2>4, EnvironmentKeeps DEF RegisterNode, TypeOK
<1>8. CASE ResetTrial
  <2>1. MirrorInv'
    BY <1>8, ResetKeeps DEF ResetTrial
  <2>2. /\ held' = [n \in Node |-> [t \in Task |-> Nothing]]
        /\ usedRam' = [n \in Node |-> 0] /\ usedCores' = [n \in Node |-> 0]
    BY <1>8 DEF ResetTrial, ResetAll
  <2>3. Books'
    BY <1>8, <1>1, <1>2, <2>2, BooksShrink DEF ResetTrial, tickVars, localVars
  <2>4. \A m \in Node : usedRam'[m] <= usedRam[m] /\ usedCores'[m] <= usedCores[m]
    BY <2>2 DEF MirrorInv, MirrorTypeOK
  <2>5. QED
    BY <1>8, <2>1, <2>3, <2>4, EnvironmentKeeps, MinMinAssumption
      DEF ResetTrial, TypeOK, AtZero, Prior
<1>9. QED
  BY <1>3, <1>4, <1>5, <1>6, <1>7, <1>8, MirrorAssumption DEF EnvironmentNext

-----------------------------------------------------------------------------
\* The tick

\* The copies start out equal to the view.
LEMMA SnapshotStep ==
  ASSUME IInv, Snapshot
  PROVE  IInv'
<1> USE DEF IInv
<1>1. MirrorInv'
  BY MirrorUntouched DEF Snapshot
<1>2. DOMAIN rank' = queue /\ rank' \in Orders(queue)
  BY DEF Snapshot, Orders
<1>3. View \in [open : [Node -> BOOLEAN], spec : [Node -> Profile \cup {Nothing}],
                ram : [Node -> Nat], cores : [Node -> Nat]]
  BY DEF View, MirrorInv, MirrorTypeOK
<1>4. TypeOK'
  <2>1. MirrorTypeOK'
    BY <1>1 DEF MirrorInv
  <2>2. /\ now' \in Nat /\ ready' \in [Node -> Nat] /\ pace' \in [Node -> Nat \ {0}]
        /\ queue' \subseteq Task
    BY DEF Snapshot, TypeOK, envVars
  <2>3. /\ pc' = "choosing" /\ plan' \subseteq Task \X Node
        /\ algo' \in {"min_min", "adaptive_min_min"} /\ t0' \in Nat
        /\ rates' \in [Node -> Nat \ {0}]
    BY DEF Snapshot, TypeOK
  <2>4. /\ ram' \in [Node -> Nat] /\ cores' \in [Node -> Nat] /\ freeAt' \in [Node -> Nat]
        /\ left' \subseteq Task
    BY DEF Snapshot, TypeOK, MirrorTypeOK
  <2>5. DOMAIN rank' \subseteq Task /\ rank' \in Orders(DOMAIN rank')
    BY <1>2 DEF TypeOK
  <2>6. view' = View
    BY DEF Snapshot
  <2>7. QED
    BY <1>3, <2>1, <2>2, <2>3, <2>4, <2>5, <2>6 DEF TypeOK
<1>5. Books'
  <2>1. Planned(plan') = {}
    BY DEF Snapshot, Planned
  <2>2. QED
    BY <2>1, MirrorUntouched DEF Snapshot, Books, Demanded, HeldOnce, Waiting, mirrorVars, envVars
<1>6. \A n \in Node : On(plan', n) = {}
  BY DEF Snapshot, On
<1>7. Choosing'
  <2>1. view' = View'
    BY DEF Snapshot, View, mirrorVars
  <2>2. \A n \in Node : ram'[n] \in Nat /\ ram'[n] = view'.ram[n] + 0
                        /\ cores'[n] \in Nat /\ cores'[n] = view'.cores[n] + 0
    BY DEF Snapshot, View, MirrorInv, MirrorTypeOK
  <2>3. left' = DOMAIN rank' /\ plan' = {} /\ Planned(plan') = {}
    BY <1>2 DEF Snapshot, Planned
  <2>4. QED
    BY <1>6, <2>1, <2>2, <2>3, EmptyLoad DEF Choosing
<1>8. PlannedOnce' /\ Dispatching'
  BY DEF Snapshot, PlannedOnce, Dispatching
<1>9. QED
  BY <1>1, <1>4, <1>5, <1>7, <1>8 DEF PlanInv

\* A pair that is feasible on the local totals is one the node takes, as the
\* view shows it, with everything placed there before; and conversely.
LEMMA FeasibleIsTaken ==
  ASSUME IInv, pc = "choosing", NEW t \in left, NEW n \in Node,
         On(plan, n) # {} => Takes(view, n, On(plan, n))
  PROVE  Feasible(t, n) <=> Takes(view, n, On(plan, n) \cup {t})
<1>1. t \in Task /\ t \notin On(plan, n) /\ On(plan, n) \subseteq Task
  BY DEF IInv, TypeOK, PlanInv, Choosing, On, Planned
<1>2. /\ ram[n] = view.ram[n] + LoadOf(On(plan, n), RamOf)
      /\ cores[n] = view.cores[n] + LoadOf(On(plan, n), CoresOf)
  BY DEF IInv, PlanInv, Choosing
<1>3. /\ LoadOf(On(plan, n) \cup {t}, RamOf) = LoadOf(On(plan, n), RamOf) + DemandOf[t].ram
      /\ LoadOf(On(plan, n) \cup {t}, CoresOf) = LoadOf(On(plan, n), CoresOf) + DemandOf[t].cores
      /\ LoadOf(On(plan, n), RamOf) \in Nat /\ LoadOf(On(plan, n), CoresOf) \in Nat
  BY <1>1, PlanLoads
<1>4. view.ram[n] \in Nat /\ view.cores[n] \in Nat
  BY DEF IInv, TypeOK
<1>5. DemandOf[t].ram \in Nat /\ DemandOf[t].cores \in Nat
  BY <1>1, DemandIsNat
<1>6. Room(view.spec[n], On(plan, n) \cup {t}, view.ram[n], view.cores[n])
        <=> /\ ram[n] + DemandOf[t].ram <= view.spec[n].ram
            /\ cores[n] + DemandOf[t].cores <= view.spec[n].cores
  BY <1>2, <1>3, <1>4, <1>5 DEF Room
<1>7. On(plan, n) \subseteq view.spec[n].accepts \/ On(plan, n) = {}
  BY DEF Takes
<1>8. QED
  BY <1>6, <1>7 DEF Feasible, Takes

\* Local totals and ready times stay natural numbers.
LEMMA PlaceTypes ==
  ASSUME TypeOK, NEW a \in left \X Node, Place(a)
  PROVE  TypeOK'
<1> DEFINE t == a[1]
           n == a[2]
<1>1. t \in Task /\ n \in Node /\ pc = "choosing" /\ pc' = "choosing" /\ t0 \in Nat
      /\ rates[n] \in Nat \ {0} /\ freeAt[n] \in Nat /\ UnitTime \in Nat
  BY MinMinAssumption DEF Place, TypeOK
<1>2. DemandOf[t].ram \in Nat /\ DemandOf[t].cores \in Nat /\ DemandOf[t].units \in Nat
  BY <1>1, DemandIsNat
<1> HIDE DEF t, n
<1>3. DemandOf[t].units * UnitTime \in Nat /\ DemandOf[t].units * rates[n] \in Nat
  BY <1>1, <1>2
<1>4. ShadowReady(t, n) \in Nat
  BY <1>1, <1>3 DEF ShadowReady, Completion, Later
<1>5. /\ ram' \in [Node -> Nat] /\ cores' \in [Node -> Nat] /\ freeAt' \in [Node -> Nat]
      /\ left' \subseteq Task /\ plan' \subseteq Task \X Node
  BY <1>1, <1>2, <1>4 DEF Place, TypeOK, t, n
<1>6. MirrorTypeOK'
  BY DEF Place, TypeOK, MirrorTypeOK, mirrorVars, Reserved
<1>7. QED
  BY <1>1, <1>5, <1>6 DEF Place, TypeOK, envVars, argVars

\* What is placed is counted on the copies.
LEMMA PlaceStep ==
  ASSUME IInv, NEW a \in left \X Node, Place(a)
  PROVE  IInv'
<1> USE DEF IInv
<1> DEFINE t == a[1]
           n == a[2]
<1>1. /\ t \in left /\ n \in Node /\ a = <<t, n>> /\ pc = "choosing" /\ pc' = "choosing"
      /\ UNCHANGED <<mirrorVars, queue, view, rank>>
      /\ plan' = plan \cup {<<t, n>>} /\ left' = left \ {t}
      /\ ram' = [ram EXCEPT ![n] = @ + DemandOf[t].ram]
      /\ cores' = [cores EXCEPT ![n] = @ + DemandOf[t].cores]
  BY DEF Place, envVars, argVars
<1>2. Feasible(t, n)
  BY DEF Place, Best, Options
<1> HIDE DEF t, n
<1>3. /\ t \in Task /\ t \in DOMAIN rank /\ t \notin Planned(plan)
      /\ Planned(plan') = Planned(plan) \cup {t}
  BY <1>1 DEF TypeOK, PlanInv, Choosing, Planned
<1>4. /\ On(plan', n) = On(plan, n) \cup {t} /\ t \notin On(plan, n)
      /\ \A m \in Node \ {n} : On(plan', m) = On(plan, m)
      /\ \A m \in Node : On(plan, m) \subseteq Task
  BY <1>1, <1>3 DEF On, Planned
<1>5. MirrorInv'
  BY <1>1, MirrorUntouched
<1>6. TypeOK'
  BY PlaceTypes
<1>7. Books'
  BY <1>1, <1>3 DEF Books, Demanded, HeldOnce, Waiting, mirrorVars
<1>8. PlannedOnce'
  BY <1>1, <1>3 DEF PlanInv, PlannedOnce, Planned
<1>9. Choosing'
  <2>1. view' = View'
    BY <1>1 DEF PlanInv, Choosing, View, mirrorVars
  <2>2. /\ left' \subseteq DOMAIN rank' /\ plan' \subseteq (DOMAIN rank') \X Node
        /\ \A u \in DOMAIN rank' : u \in left' <=> u \notin Planned(plan')
    BY <1>1, <1>3 DEF PlanInv, Choosing
  <2>3. ASSUME NEW m \in Node
        PROVE  /\ ram'[m] = view.ram[m] + LoadOf(On(plan', m), RamOf)
               /\ cores'[m] = view.cores[m] + LoadOf(On(plan', m), CoresOf)
               /\ On(plan', m) # {} => Takes(view, m, On(plan', m))
    <3>1. /\ ram[m] = view.ram[m] + LoadOf(On(plan, m), RamOf)
          /\ cores[m] = view.cores[m] + LoadOf(On(plan, m), CoresOf)
          /\ On(plan, m) # {} => Takes(view, m, On(plan, m))
      BY <1>1 DEF PlanInv, Choosing
    <3>2. CASE m = n
      <4>1. Takes(view, n, On(plan', n))
        BY <1>1, <1>2, <1>4, <3>1, <3>2, FeasibleIsTaken, ZenonT(40)
      <4>2. /\ LoadOf(On(plan', n), RamOf) = LoadOf(On(plan, n), RamOf) + DemandOf[t].ram
            /\ LoadOf(On(plan', n), CoresOf) = LoadOf(On(plan, n), CoresOf) + DemandOf[t].cores
            /\ LoadOf(On(plan, n), RamOf) \in Nat /\ LoadOf(On(plan, n), CoresOf) \in Nat
        BY <1>1, <1>3, <1>4, PlanLoads
      <4>3. ram'[n] = ram[n] + DemandOf[t].ram /\ cores'[n] = cores[n] + DemandOf[t].cores
        BY <1>1 DEF TypeOK
      <4>4. /\ view.ram[n] \in Nat /\ view.cores[n] \in Nat
            /\ DemandOf[t].ram \in Nat /\ DemandOf[t].cores \in Nat
        BY <1>1, <1>3, DemandIsNat DEF TypeOK
      <4>5. QED
        BY <3>1, <3>2, <4>1, <4>2, <4>3, <4>4
    <3>3. CASE m # n
      <4>1. ram'[m] = ram[m] /\ cores'[m] = cores[m] /\ On(plan', m) = On(plan, m)
        BY <1>1, <1>4, <3>3 DEF TypeOK
      <4>2. QED
        BY <3>1, <4>1
    <3>4. QED
      BY <3>2, <3>3
  <2>4. QED
    BY <1>1, <2>1, <2>2, <2>3 DEF Choosing
<1>10. Dispatching'
  BY <1>1 DEF Dispatching
<1>11. QED
  BY <1>5, <1>6, <1>7, <1>8, <1>9, <1>10 DEF PlanInv

\* The room the view showed is there when dispatching begins.
LEMMA ReturnStep ==
  ASSUME IInv, Return
  PROVE  IInv'
<1> USE DEF IInv
<1>1. MirrorInv' /\ UNCHANGED <<mirrorVars, envVars, plan>> /\ left' = {}
  BY MirrorUntouched DEF Return, DropLocals
<1>2. TypeOK'
  BY <1>1 DEF Return, TypeOK, MirrorInv, envVars, argVars, DropArgs, DropLocals, NoArgs, NoLocals
<1>3. Books' /\ PlannedOnce' /\ Choosing'
  BY <1>1 DEF Return, PlanInv, PlannedOnce, Choosing, Books, Demanded, HeldOnce, Waiting,
              mirrorVars, envVars
<1>4. Dispatching'
  <2> SUFFICES ASSUME pc' = "dispatching", NEW n \in Node, On(plan, n) # {}
               PROVE  /\ view'.spec[n] \in Profile
                      /\ Room(view'.spec[n], On(plan, n), usedRam[n], usedCores[n])
    BY <1>1 DEF Dispatching, On, Room, mirrorVars
  <2>1. pc = "choosing" /\ view' = view /\ view = View /\ Takes(view, n, On(plan, n))
    BY DEF Return, argVars, PlanInv, Choosing
  <2>2. reachable[n] /\ Room(spec[n], On(plan, n), usedRam[n], usedCores[n])
    BY <2>1 DEF Takes, View
  <2>3. spec[n] \in Profile
    BY <2>2 DEF MirrorInv, MirrorTypeOK
  <2>4. QED
    BY <2>1, <2>2, <2>3 DEF View
<1>5. QED
  BY <1>1, <1>2, <1>3, <1>4 DEF PlanInv

\* A reservation takes the room of the assignment that leaves the plan.
LEMMA DispatchStep ==
  ASSUME IInv, NEW a \in plan, Dispatch(a)
  PROVE  IInv'
<1> USE DEF IInv
<1> DEFINE t == a[1]
           n == a[2]
<1>1. /\ t \in Task /\ n \in Node /\ a = <<t, n>> /\ pc = "dispatching"
      /\ plan' = plan \ {<<t, n>>} /\ left = {} /\ left' = {} /\ UNCHANGED <<now, pace, localVars>>
      /\ \/ plan' = {} /\ pc' = "idle" /\ DropArgs
         \/ pc' = "dispatching" /\ UNCHANGED argVars
  BY DEF Dispatch, TypeOK, NoLocals, localVars
<1>2. \/ /\ Reserve(n, t, DemandOf[t]) /\ queue' = queue \ {t}
         /\ ready' = [ready EXCEPT ![n] = Later(@, now) + DemandOf[t].units * UnitTime]
      \/ UNCHANGED mirrorVars /\ ready' = ready /\ queue' = queue \cup {t}
  BY DEF Dispatch
<1> HIDE DEF t, n
<1>3. /\ t \in Planned(plan) /\ t \notin Planned(plan')
      /\ Planned(plan') \subseteq Planned(plan) /\ Planned(plan) \subseteq Task
  BY <1>1 DEF PlanInv, PlannedOnce, Planned, TypeOK
<1>4. /\ On(plan, n) = On(plan', n) \cup {t} /\ t \in Task \ On(plan', n)
      /\ \A m \in Node \ {n} : On(plan', m) = On(plan, m)
      /\ \A m \in Node : On(plan', m) \subseteq Task
  BY <1>1, <1>3 DEF On, Planned
<1>5. /\ DemandOf[t] \in Demand /\ DemandOf[t].ram \in Nat /\ DemandOf[t].cores \in Nat
      /\ DemandOf[t].units \in Nat
  BY <1>1, DemandIsNat
<1>6. \A m \in Node : held[m][t] = Nothing
  BY <1>3 DEF Books, Waiting
<1>7. MirrorInv'
  BY <1>1, <1>2, <1>5, ReserveKeeps, MirrorUntouched
<1>8. TypeOK'
  <2>1. DemandOf[t].units * UnitTime \in Nat
    BY <1>5, MinMinAssumption
  <2>2. ready' \in [Node -> Nat]
    BY <1>1, <1>2, <2>1 DEF TypeOK, Later
  <2>3. queue' \subseteq Task /\ plan' \subseteq Task \X Node
    BY <1>1, <1>2 DEF TypeOK
  <2>4. QED
    BY <1>1, <1>7, <2>2, <2>3
      DEF TypeOK, MirrorInv, localVars, argVars, NoLocals, NoArgs, DropArgs
<1>9. Books'
  <2>1. CASE Reserve(n, t, DemandOf[t]) /\ queue' = queue \ {t}
    <3>1. held' = [held EXCEPT ![n][t] = DemandOf[t]]
      BY <2>1 DEF Reserve
    <3>2. \A m \in Node, u \in Task :
            held'[m][u] = IF m = n /\ u = t THEN DemandOf[t] ELSE held[m][u]
      BY <1>1, <3>1 DEF MirrorInv, MirrorTypeOK
    <3>3. Demanded'
      BY <3>2 DEF Books, Demanded
    <3>4. HeldOnce'
      BY <1>6, <3>2 DEF Books, HeldOnce
    <3>5. Waiting'
      <4>1. \A u \in queue' \cup left' \cup Planned(plan') :
              u \in Task /\ u # t /\ u \in queue \cup left \cup Planned(plan)
        BY <1>1, <1>3, <2>1 DEF TypeOK
      <4>2. QED
        BY <3>2, <4>1 DEF Books, Waiting
    <3>6. QED
      BY <3>3, <3>4, <3>5 DEF Books
  <2>2. CASE UNCHANGED mirrorVars /\ queue' = queue \cup {t}
    BY <1>1, <1>3, <1>6, <2>2, BooksShrink DEF mirrorVars, TypeOK
  <2>3. QED
    BY <1>2, <2>1, <2>2
<1>10. PlannedOnce' /\ Choosing'
  BY <1>1 DEF PlanInv, PlannedOnce, Choosing
<1>11. Dispatching'
  <2> SUFFICES ASSUME pc' = "dispatching", NEW m \in Node, On(plan', m) # {}
               PROVE  /\ view.spec[m] \in Profile
                      /\ Room(view.spec[m], On(plan', m), usedRam'[m], usedCores'[m])
    BY <1>1 DEF Dispatching, argVars
  <2>1. /\ view.spec[m] \in Profile
        /\ Room(view.spec[m], On(plan, m), usedRam[m], usedCores[m])
    BY <1>1, <1>4 DEF PlanInv, Dispatching
  <2>2. CASE m = n
    <3>1. /\ LoadOf(On(plan, n), RamOf) = LoadOf(On(plan', n), RamOf) + DemandOf[t].ram
          /\ LoadOf(On(plan, n), CoresOf) = LoadOf(On(plan', n), CoresOf) + DemandOf[t].cores
          /\ LoadOf(On(plan', n), RamOf) \in Nat /\ LoadOf(On(plan', n), CoresOf) \in Nat
      BY <1>1, <1>4, PlanLoads
    <3>2. \/ /\ usedRam'[n] = usedRam[n] + DemandOf[t].ram
             /\ usedCores'[n] = usedCores[n] + DemandOf[t].cores
          \/ usedRam'[n] = usedRam[n] /\ usedCores'[n] = usedCores[n]
      BY <1>1, <1>2 DEF Reserve, mirrorVars, MirrorInv, MirrorTypeOK
    <3>3. usedRam[n] \in Nat /\ usedCores[n] \in Nat
      BY <1>1 DEF MirrorInv, MirrorTypeOK
    <3>4. view.spec[n].ram \in Nat /\ view.spec[n].cores \in Nat
      BY <2>1, <2>2, MirrorAssumption
    <3>5. QED
      BY <1>5, <2>1, <2>2, <3>1, <3>2, <3>3, <3>4 DEF Room
  <2>3. CASE m # n
    <3>1. usedRam'[m] = usedRam[m] /\ usedCores'[m] = usedCores[m]
      BY <1>2, <2>3 DEF Reserve, mirrorVars, MirrorInv, MirrorTypeOK
    <3>2. On(plan', m) = On(plan, m)
      BY <1>4, <2>3
    <3>3. QED
      BY <2>1, <3>1, <3>2
  <2>4. QED
    BY <2>2, <2>3
<1>12. QED
  BY <1>7, <1>8, <1>9, <1>10, <1>11 DEF PlanInv

-----------------------------------------------------------------------------
\* The theorems

LEMMA InitInv == Init => IInv
<1> SUFFICES ASSUME Init PROVE IInv
  OBVIOUS
<1>1. MirrorInv
  BY MirrorInitInv DEF Init
<1>2. TypeOK
  BY <1>1, MinMinAssumption DEF Init, TypeOK, MirrorInv, AtZero, Prior, NoLocals
<1>3. \A n \in Node, t \in Task : held[n][t] = Nothing
  BY DEF Init, MirrorInit
<1>4. Planned(plan) = {}
  BY DEF Init, Planned
<1>5. Books
  BY <1>3, <1>4 DEF Init, NoLocals, Books, Demanded, HeldOnce, Waiting
<1>6. PlanInv
  BY DEF Init, PlanInv, PlannedOnce, Choosing, Dispatching
<1>7. QED
  BY <1>1, <1>2, <1>5, <1>6 DEF IInv

LEMMA StepInv == IInv /\ [Next]_vars => IInv'
<1> SUFFICES ASSUME IInv, [Next]_vars PROVE IInv'
  OBVIOUS
<1>1. ASSUME NEW a \in left \X Node, Place(a) PROVE IInv'
  BY <1>1, PlaceStep
<1>2. ASSUME NEW a \in plan, Dispatch(a) PROVE IInv'
  BY <1>2, DispatchStep
<1>3. CASE UNCHANGED vars
  <2>1. MirrorInv' /\ UNCHANGED <<mirrorVars, envVars, tickVars>>
    BY <1>3, MirrorUntouched DEF IInv, vars
  <2>2. TypeOK'
    BY <2>1 DEF IInv, TypeOK, MirrorInv, envVars, tickVars, argVars, localVars, NoArgs, NoLocals
  <2>3. Books'
    BY <2>1 DEF IInv, Books, Demanded, HeldOnce, Waiting, Planned,
                mirrorVars, envVars, tickVars, localVars
  <2>4. PlanInv'
    BY <2>1 DEF IInv, PlanInv, PlannedOnce, Choosing, Dispatching, View, Planned, On, Room, Takes,
                mirrorVars, tickVars, argVars, localVars
  <2>5. QED
    BY <2>1, <2>2, <2>3, <2>4 DEF IInv
<1>4. QED
  BY <1>1, <1>2, <1>3, SnapshotStep, ReturnStep, EnvironmentStep DEF Next, TickNext

LEMMA Invariant == Spec => []IInv
BY InitInv, StepInv, PTL DEF Spec

\* Every variable of a tick keeps its type, and no learned rate becomes zero
\* (adaptive_min_min.py divides by it), whatever happens between two ticks.
THEOREM MinMinTypeCorrect == Spec => []TypeOK
<1>1. IInv => TypeOK
  BY DEF IInv
<1>2. QED
  BY <1>1, Invariant, PTL

\* The totals the algorithms read are the sums of what is reserved
\* (node_state.py), for every order of ticks, completions and refusals.
THEOREM MinMinSums == Spec => []ProjectedIsSum
<1>1. IInv => ProjectedIsSum
  BY DEF IInv, MirrorInv
<1>2. QED
  BY <1>1, Invariant, PTL

\* No answer of an algorithm makes the scheduler reserve more than a node has.
THEOREM MinMinFits == Spec => []ReservedFits
<1>1. IInv => ReservedFits
  BY DEF IInv, MirrorInv
<1>2. QED
  BY <1>1, Invariant, PTL

\* schedule() answers a plan, whichever algorithm runs and whatever the ready
\* times and rates are (min_min.py, adaptive_min_min.py).
THEOREM MinMinAnswersPlan == Spec => []AnswerIsPlan
<1>1. IInv => AnswerIsPlan
  <2> SUFFICES ASSUME IInv, pc = "choosing", Options = {}
               PROVE  IsPlan(view, DOMAIN rank, plan)
    BY DEF AnswerIsPlan
  <2>1. /\ plan \subseteq (DOMAIN rank) \X Node
        /\ \A t \in DOMAIN rank : t \in left <=> t \notin Planned(plan)
        /\ \A n \in Node : On(plan, n) # {} => Takes(view, n, On(plan, n))
        /\ \A a, b \in plan : a[1] = b[1] => a = b
    BY DEF IInv, PlanInv, Choosing, PlannedOnce
  <2>2. ASSUME NEW t \in left, NEW n \in Node
        PROVE  ~Takes(view, n, On(plan, n) \cup {t})
    <3>1. ~Feasible(t, n)
      <4>1. <<t, n>> \in left \X Node /\ <<t, n>>[1] = t /\ <<t, n>>[2] = n
        OBVIOUS
      <4>2. ASSUME Feasible(t, n) PROVE <<t, n>> \in Options
        BY <4>1, <4>2 DEF Options, Feasible
      <4>3. QED
        BY <4>2
    <3>2. QED
      BY <2>1, <3>1, FeasibleIsTaken
  <2>3. ASSUME NEW t \in DOMAIN rank, t \notin left
        PROVE  \E n \in Node : <<t, n>> \in plan
    <3>1. PICK a \in plan : a[1] = t
      BY <2>1, <2>3 DEF Planned
    <3>2. a[2] \in Node /\ a = <<a[1], a[2]>>
      BY <2>1
    <3>3. QED
      BY <3>1, <3>2
  <2>4. QED
    BY <2>1, <2>2, <2>3 DEF IsPlan
<1>2. QED
  BY <1>1, Invariant, PTL

\* dispatcher.py's "Mirror refused reservation" is met only by an assignment
\* to a node that was registered with another profile since the snapshot.
THEOREM MinMinRefusals == Spec => []RefusesOnlyRenewed
<1>1. IInv => RefusesOnlyRenewed
  <2> SUFFICES ASSUME IInv, pc = "dispatching", NEW a \in plan, spec[a[2]] = view.spec[a[2]]
               PROVE  CanReserve(a[2], a[1], DemandOf[a[1]])
    BY DEF RefusesOnlyRenewed
  <2> DEFINE t == a[1]
             n == a[2]
             R == On(plan, n) \ {t}
  <2>1. t \in Task /\ n \in Node /\ a = <<t, n>>
    BY DEF IInv, TypeOK
  <2>2. /\ R \in SUBSET Task /\ t \in Task \ R /\ On(plan, n) = R \cup {t}
        /\ t \in Planned(plan) /\ On(plan, n) # {}
    BY <2>1 DEF On, Planned
  <2>3. held[n][t] = Nothing
    BY <2>1, <2>2 DEF IInv, Books, Waiting
  <2>4. spec[n] \in Profile /\ Room(spec[n], On(plan, n), usedRam[n], usedCores[n])
    BY <2>1, <2>2 DEF IInv, PlanInv, Dispatching
  <2> HIDE DEF R
  <2>5. /\ LoadOf(On(plan, n), RamOf) = LoadOf(R, RamOf) + DemandOf[t].ram
        /\ LoadOf(On(plan, n), CoresOf) = LoadOf(R, CoresOf) + DemandOf[t].cores
        /\ LoadOf(R, RamOf) \in Nat /\ LoadOf(R, CoresOf) \in Nat
    BY <2>2, PlanLoads
  <2>6. /\ usedRam[n] \in Nat /\ usedCores[n] \in Nat
        /\ spec[n].ram \in Nat /\ spec[n].cores \in Nat /\ spec[n] # Nothing
        /\ DemandOf[t].ram \in Nat /\ DemandOf[t].cores \in Nat
    BY <2>1, <2>4, MirrorAssumption, DemandIsNat DEF IInv, MirrorInv, MirrorTypeOK
  <2>7. QED
    BY <2>3, <2>4, <2>5, <2>6 DEF CanReserve, Room
<1>2. QED
  BY <1>1, Invariant, PTL

\* Under the prior, and with no ready time in the past, the adaptive algorithm
\* places what Min-Min places and leaves the ready times Min-Min leaves
\* (adaptive_min_min.py:147 and 185, min_min.py:129 and 176).
THEOREM MinMinSamePrior == Spec => SameUnderPrior
<1>1. ASSUME IInv, NEW a \in left \X Node, Place(a), rates = Prior,
             \A n \in Node : freeAt[n] >= t0
      PROVE  /\ \A b \in Options : Completion(a[1], a[2]) <= Completion(b[1], b[2])
             /\ freeAt' = [freeAt EXCEPT ![a[2]] = Completion(a[1], a[2])]
  <2>1. ASSUME NEW t \in left, NEW n \in Node
        PROVE  /\ Completion(t, n) \in Nat /\ t0 \in Nat
               /\ Ect(t, n) = Completion(t, n) - t0
               /\ ShadowReady(t, n) = Completion(t, n)
    <3>1. t \in Task /\ t0 \in Nat /\ freeAt[n] \in Nat /\ freeAt[n] >= t0
      BY <1>1 DEF Place, IInv, TypeOK
    <3>2. DemandOf[t].units \in Nat /\ UnitTime \in Nat /\ rates[n] = UnitTime
      BY <1>1, <3>1, DemandIsNat, MinMinAssumption DEF Prior
    <3> DEFINE w == DemandOf[t].units * UnitTime
    <3>3. w \in Nat
      BY <3>2
    <3>4. Ect(t, n) = Monus(freeAt[n], t0) + w /\ Completion(t, n) = freeAt[n] + w
      BY <3>2 DEF Ect, Completion
    <3>5. ShadowReady(t, n) = Completion(t, n) \/ ShadowReady(t, n) = Later(t0, freeAt[n]) + w
      BY <3>2 DEF ShadowReady
    <3> HIDE DEF w
    <3>6. QED
      BY <3>1, <3>3, <3>4, <3>5 DEF Monus, Later
  <2>2. /\ a[1] \in left /\ a[2] \in Node
        /\ \A b \in Options : b[1] \in left /\ b[2] \in Node
    BY DEF Options
  <2>3. ASSUME NEW b \in Options
        PROVE  Completion(a[1], a[2]) <= Completion(b[1], b[2])
    <3>1. CASE a = b
      BY <2>1, <2>2, <3>1
    <3>2. CASE a # b
      <4>1. Precedes(a, b)
        BY <1>1, <3>2 DEF Place, Best
      <4>2. Cost(a[1], a[2]) < Cost(b[1], b[2]) \/ Cost(a[1], a[2]) = Cost(b[1], b[2])
        BY <4>1 DEF Precedes
      <4>3. \/ /\ Cost(a[1], a[2]) = Completion(a[1], a[2])
               /\ Cost(b[1], b[2]) = Completion(b[1], b[2])
            \/ /\ Cost(a[1], a[2]) = Ect(a[1], a[2])
               /\ Cost(b[1], b[2]) = Ect(b[1], b[2])
        BY DEF Cost
      <4>4. QED
        BY <2>1, <2>2, <4>2, <4>3
    <3>3. QED
      BY <3>1, <3>2
  <2>4. freeAt' = [freeAt EXCEPT ![a[2]] = Completion(a[1], a[2])]
    BY <1>1, <2>1, <2>2 DEF Place
  <2>5. QED
    BY <2>3, <2>4
<1>2. IInv /\ [Next]_vars =>
        [\A a \in left \X Node :
           Place(a) /\ rates = Prior /\ (\A n \in Node : freeAt[n] >= t0) =>
             /\ \A b \in Options : Completion(a[1], a[2]) <= Completion(b[1], b[2])
             /\ freeAt' = [freeAt EXCEPT ![a[2]] = Completion(a[1], a[2])]]_vars
  BY <1>1
<1>3. QED
  BY <1>2, Invariant, PTL DEF Spec, SameUnderPrior
-----------------------------------------------------------------------------
\* The loops

\* The best of the first k pairs, from the best of the first k - 1.
KeptAt(best, pair, k) ==
  IF k = 0 THEN <<>>
  ELSE IF pair[k] # <<>> /\ Better(pair[k], best[k - 1]) THEN pair[k] ELSE best[k - 1]

Kept(best, pair, N) == best = [k \in 0..N |-> KeptAt(best, pair, k)]

LEMMA KeptExists == ASSUME NEW pair, NEW N \in Nat PROVE \E best : Kept(best, pair, N)
<1> DEFINE S == {m \in Nat : ~\E best : Kept(best, pair, m)}
<1>1. SUFFICES ASSUME S # {} PROVE FALSE
  OBVIOUS
<1>2. PICK m \in S : \A k \in S : ~(k < m)
  BY <1>1, LeastMember
<1>3. m \in Nat /\ ~\E best : Kept(best, pair, m)
  BY <1>2
<1>4. CASE m = 0
  <2>1. Kept([k \in 0..0 |-> <<>>], pair, 0)
    BY DEF Kept, KeptAt
  <2>2. QED
    BY <1>3, <1>4, <2>1
<1>5. CASE m # 0
  <2>1. m - 1 \in Nat /\ m - 1 < m
    BY <1>3, <1>5
  <2>2. PICK g : Kept(g, pair, m - 1)
    BY <1>2, <2>1
  <2> DEFINE f == [k \in 0..m |-> IF k = m THEN KeptAt(g, pair, m) ELSE g[k]]
  <2>3. \A k \in 0..m - 1 : f[k] = g[k] /\ g[k] = KeptAt(g, pair, k)
    BY <1>3, <2>1, <2>2 DEF Kept
  <2>4. \A k \in 0..m : (k # 0 => k - 1 \in 0..m - 1) /\ (k # m => k \in 0..m - 1)
    BY <1>3
  <2>5. f[m] = KeptAt(g, pair, m) /\ f = [k \in 0..m |-> f[k]]
    BY <1>3
  <2> HIDE DEF f
  <2>6. \A k \in 0..m : KeptAt(g, pair, k) = KeptAt(f, pair, k)
    BY <2>3, <2>4 DEF KeptAt
  <2>7. \A k \in 0..m : f[k] = KeptAt(f, pair, k)
    BY <2>3, <2>4, <2>5, <2>6
  <2>8. Kept(f, pair, m)
    BY <2>5, <2>7 DEF Kept
  <2>9. QED
    BY <1>3, <2>8
<1>6. QED
  BY <1>4, <1>5

CostOf(a) == Cost(a[1], a[2])

\* The first of the cheapest of k pairs, or None if all of them are.
FirstCheapest(a, pair, k) ==
  \/ a = <<>> /\ \A i \in 1..k : pair[i] = <<>>
  \/ /\ a # <<>>
     /\ \E i \in 1..k :
          /\ a = pair[i]
          /\ \A j \in 1..k :
               pair[j] # <<>> =>
                 CostOf(a) < CostOf(pair[j]) \/ (CostOf(a) = CostOf(pair[j]) /\ i <= j)

\* One more pair.
LEMMA OneMore ==
  ASSUME NEW pair, NEW k \in Nat \ {0}, NEW best, FirstCheapest(best[k - 1], pair, k - 1),
         \A i \in 1..k : pair[i] # <<>> => CostOf(pair[i]) \in Int
  PROVE  FirstCheapest(KeptAt(best, pair, k), pair, k)
<1> DEFINE b == best[k - 1]
<1>1. \A i \in 1..k : i = k \/ i \in 1..k - 1
  OBVIOUS
<1>2. k \in 1..k /\ 1..k - 1 \subseteq 1..k /\ \A i \in 1..k - 1 : i <= k
  OBVIOUS
<1>3. CASE pair[k] # <<>> /\ Better(pair[k], b)
  <2>1. KeptAt(best, pair, k) = pair[k]
    BY <1>3 DEF KeptAt
  <2>2. ASSUME NEW j \in 1..k, pair[j] # <<>>
        PROVE  CostOf(pair[k]) < CostOf(pair[j]) \/ (CostOf(pair[k]) = CostOf(pair[j]) /\ k <= j)
    <3>1. CASE j = k
      BY <1>2, <1>3, <3>1
    <3>2. CASE j \in 1..k - 1
      <4>1. PICK i \in 1..k - 1 : /\ b = pair[i] /\ b # <<>>
                                  /\ CostOf(b) < CostOf(pair[j]) \/ CostOf(b) = CostOf(pair[j])
        BY <2>2, <3>2 DEF FirstCheapest
      <4>2. CostOf(pair[k]) < CostOf(b)
        BY <1>3, <4>1 DEF Better, CostOf
      <4>3. CostOf(pair[k]) \in Int /\ CostOf(b) \in Int /\ CostOf(pair[j]) \in Int
        BY <1>2, <1>3, <2>2, <4>1
      <4>4. QED
        BY <4>1, <4>2, <4>3
    <3>3. QED
      BY <1>1, <3>1, <3>2
  <2>3. QED
    BY <1>2, <1>3, <2>1, <2>2 DEF FirstCheapest
<1>4. CASE ~(pair[k] # <<>> /\ Better(pair[k], b))
  <2>1. KeptAt(best, pair, k) = b
    BY <1>4 DEF KeptAt
  <2>2. CASE b = <<>>
    <3>1. pair[k] = <<>>
      BY <1>4, <2>2 DEF Better
    <3>2. \A i \in 1..k : pair[i] = <<>>
      BY <1>1, <2>2, <3>1 DEF FirstCheapest
    <3>3. QED
      BY <2>1, <2>2, <3>2 DEF FirstCheapest
  <2>3. CASE b # <<>>
    <3>1. PICK i \in 1..k - 1 :
            /\ b = pair[i]
            /\ \A j \in 1..k - 1 :
                 pair[j] # <<>> =>
                   CostOf(b) < CostOf(pair[j]) \/ (CostOf(b) = CostOf(pair[j]) /\ i <= j)
      BY <2>3 DEF FirstCheapest
    <3>2. ASSUME pair[k] # <<>>
          PROVE  CostOf(b) < CostOf(pair[k]) \/ (CostOf(b) = CostOf(pair[k]) /\ i <= k)
      <4>1. ~(CostOf(pair[k]) < CostOf(b))
        BY <1>4, <3>2 DEF Better, CostOf
      <4>2. CostOf(pair[k]) \in Int /\ CostOf(b) \in Int
        BY <1>2, <2>3, <3>1, <3>2
      <4>3. QED
        BY <1>2, <4>1, <4>2
    <3>3. i \in 1..k
      BY <1>2
    <3>4. \A j \in 1..k :
            pair[j] # <<>> =>
              CostOf(b) < CostOf(pair[j]) \/ (CostOf(b) = CostOf(pair[j]) /\ i <= j)
      BY <1>1, <3>1, <3>2
    <3>5. QED
      BY <2>1, <2>3, <3>1, <3>3, <3>4 DEF FirstCheapest
  <2>4. QED
    BY <2>2, <2>3
<1>5. QED
  BY <1>3, <1>4

\* What a loop keeps of the pairs it goes through.
LEMMA KeepsFirstCheapest ==
  ASSUME NEW pair, NEW N \in Nat,
         \A i \in 1..N : pair[i] # <<>> => CostOf(pair[i]) \in Int
  PROVE  FirstCheapest(KeepBest(pair, N), pair, N)
<1>1. KeepBest(pair, N) = (CHOOSE best : Kept(best, pair, N))[N]
  BY DEF KeepBest, Kept, KeptAt
<1>2. PICK best : Kept(best, pair, N) /\ KeepBest(pair, N) = best[N]
  BY <1>1, KeptExists
<1>3. \A k \in 0..N : best[k] = KeptAt(best, pair, k)
  BY <1>2 DEF Kept
<1> DEFINE S == {k \in 0..N : ~FirstCheapest(best[k], pair, k)}
<1>4. SUFFICES S = {}
  BY <1>2
<1>5. SUFFICES ASSUME S # {} PROVE FALSE
  OBVIOUS
<1>6. PICK k \in S : \A m \in S : ~(m < k)
  <2>1. S \in SUBSET Nat
    OBVIOUS
  <2> HIDE DEF S
  <2>2. QED
    BY <1>5, <2>1, LeastMember
<1>7. k \in 0..N /\ ~FirstCheapest(best[k], pair, k)
  BY <1>6
<1>8. CASE k = 0
  <2>1. best[0] = <<>>
    BY <1>3 DEF KeptAt
  <2>2. QED
    BY <1>7, <1>8, <2>1 DEF FirstCheapest
<1>9. CASE k # 0
  <2>1. k \in Nat \ {0} /\ k - 1 \in 0..N /\ k - 1 < k /\ 1..k \subseteq 1..N
    BY <1>7, <1>9
  <2>2. FirstCheapest(best[k - 1], pair, k - 1)
    BY <1>6, <2>1
  <2>3. FirstCheapest(KeptAt(best, pair, k), pair, k)
    BY <2>1, <2>2, OneMore
  <2>4. QED
    BY <1>3, <1>7, <2>3
<1>10. QED
  BY <1>8, <1>9

\* One position has one node, and every node has a position the loop gets to.
LEMMA NodePositions ==
  /\ Cardinality(Node) \in Nat
  /\ \A n \in Node : NodeRank[n] \in 1..Cardinality(Node)
  /\ \A m, n \in Node : NodeRank[m] = NodeRank[n] => m = n
BY MinMinAssumption, FS_CardinalityType DEF Orders

\* The inner loop ends with the first of the cheapest nodes that can take the task.
CheapestNode(t, n) ==
  /\ Feasible(t, n)
  /\ \A m \in Node :
       Feasible(t, m) =>
         Cost(t, n) < Cost(t, m) \/ (Cost(t, n) = Cost(t, m) /\ NodeRank[n] <= NodeRank[m])

LEMMA InnerLoop ==
  ASSUME NEW t, \A n \in Node : Cost(t, n) \in Int
  PROVE  \/ BestNode(t) = <<>> /\ \A n \in Node : ~Feasible(t, n)
         \/ \E n \in Node : BestNode(t) = <<t, n>> /\ CheapestNode(t, n)
<1> DEFINE At(k) == {n \in Node : NodeRank[n] = k /\ Feasible(t, n)}
           N == Cardinality(Node)
           pair == [k \in 1..N |-> IF At(k) = {} THEN <<>> ELSE <<t, CHOOSE n \in At(k) : TRUE>>]
<1>1. BestNode(t) = KeepBest(pair, N)
  BY DEF BestNode
<1>2. \A k \in 1..N :
        \/ pair[k] = <<>> /\ At(k) = {}
        \/ \E n \in At(k) : pair[k] = <<t, n>>
  OBVIOUS
<1>3. \A n \in Node : Feasible(t, n) => pair[NodeRank[n]] = <<t, n>>
  <2> SUFFICES ASSUME NEW n \in Node, Feasible(t, n) PROVE pair[NodeRank[n]] = <<t, n>>
    OBVIOUS
  <2>1. At(NodeRank[n]) = {n} /\ NodeRank[n] \in 1..N
    BY NodePositions
  <2>2. QED
    BY <1>2, <2>1
<1>4. \A k \in 1..N : pair[k] # <<>> =>
        \E n \in Node : pair[k] = <<t, n>> /\ NodeRank[n] = k /\ Feasible(t, n)
  BY <1>2
<1> HIDE DEF pair
<1>5. \A k \in 1..N : pair[k] # <<>> => CostOf(pair[k]) \in Int
  BY <1>4 DEF CostOf
<1>6. FirstCheapest(BestNode(t), pair, N)
  BY <1>1, <1>5, NodePositions, KeepsFirstCheapest
<1>7. CASE BestNode(t) = <<>>
  <2>1. \A k \in 1..N : pair[k] = <<>>
    BY <1>6, <1>7 DEF FirstCheapest
  <2>2. ASSUME NEW n \in Node, Feasible(t, n) PROVE FALSE
    <3>1. pair[NodeRank[n]] = <<t, n>> /\ NodeRank[n] \in 1..N
      BY <1>3, <2>2, NodePositions
    <3>2. <<t, n>> = <<>>
      BY <2>1, <3>1
    <3>3. QED
      BY <3>2
  <2>3. QED
    BY <1>7, <2>2
<1>8. CASE BestNode(t) # <<>>
  <2>1. PICK k \in 1..N :
          /\ BestNode(t) = pair[k]
          /\ \A j \in 1..N :
               pair[j] # <<>> =>
                 \/ CostOf(pair[k]) < CostOf(pair[j])
                 \/ CostOf(pair[k]) = CostOf(pair[j]) /\ k <= j
    BY <1>6, <1>8 DEF FirstCheapest
  <2>2. PICK n \in Node : pair[k] = <<t, n>> /\ NodeRank[n] = k /\ Feasible(t, n)
    BY <1>4, <1>8, <2>1
  <2>3. ASSUME NEW m \in Node, Feasible(t, m)
        PROVE  Cost(t, n) < Cost(t, m) \/ (Cost(t, n) = Cost(t, m) /\ NodeRank[n] <= NodeRank[m])
    <3>1. NodeRank[m] \in 1..N /\ pair[NodeRank[m]] = <<t, m>> /\ <<t, m>> # <<>>
      BY <1>3, <2>3, NodePositions
    <3>2. CostOf(pair[NodeRank[m]]) = Cost(t, m) /\ CostOf(pair[k]) = Cost(t, n)
      BY <2>2, <3>1 DEF CostOf
    <3>3. QED
      BY <2>1, <2>2, <3>1, <3>2
  <2>4. QED
    BY <2>1, <2>2, <2>3 DEF CheapestNode
<1>9. QED
  BY <1>7, <1>8

\* The outer loop goes through the inner loop's pairs in the tasks' order.
LEMMA OuterLoop ==
  ASSUME DOMAIN rank \subseteq Task, rank \in Orders(DOMAIN rank), left \subseteq DOMAIN rank,
         \A t \in left, n \in Node : Cost(t, n) \in Int
  PROVE  \/ BestPair = <<>> /\ \A t \in left : BestNode(t) = <<>>
         \/ \E t \in left :
              /\ BestPair = BestNode(t) /\ BestNode(t) # <<>>
              /\ \A u \in left :
                   BestNode(u) # <<>> =>
                     \/ CostOf(BestNode(t)) < CostOf(BestNode(u))
                     \/ CostOf(BestNode(t)) = CostOf(BestNode(u)) /\ rank[t] <= rank[u]
<1> DEFINE At(k) == {t \in left : rank[t] = k}
           N == Cardinality(DOMAIN rank)
           pair == [k \in 1..N |-> IF At(k) = {} THEN <<>> ELSE BestNode(CHOOSE t \in At(k) : TRUE)]
<1>1. BestPair = KeepBest(pair, N)
  BY DEF BestPair
<1>2. N \in Nat
  BY MirrorAssumption, FS_Subset, FS_CardinalityType
<1>3. \A t \in left : rank[t] \in 1..N /\ \A u \in left : rank[t] = rank[u] => t = u
  BY DEF Orders
<1>4. \A k \in 1..N :
        \/ pair[k] = <<>> /\ At(k) = {}
        \/ \E t \in At(k) : pair[k] = BestNode(t)
  OBVIOUS
<1>5. \A t \in left : pair[rank[t]] = BestNode(t)
  <2> SUFFICES ASSUME NEW t \in left PROVE pair[rank[t]] = BestNode(t)
    OBVIOUS
  <2>1. At(rank[t]) = {t} /\ rank[t] \in 1..N
    BY <1>3
  <2>2. QED
    BY <1>4, <2>1
<1>6. \A k \in 1..N : pair[k] # <<>> => \E t \in left : pair[k] = BestNode(t) /\ rank[t] = k
  BY <1>4
<1> HIDE DEF pair
<1>7. \A t \in left : BestNode(t) # <<>> => CostOf(BestNode(t)) \in Int
  <2> SUFFICES ASSUME NEW t \in left, BestNode(t) # <<>> PROVE CostOf(BestNode(t)) \in Int
    OBVIOUS
  <2>1. PICK n \in Node : BestNode(t) = <<t, n>>
    BY InnerLoop
  <2>2. QED
    BY <2>1 DEF CostOf
<1>8. FirstCheapest(BestPair, pair, N)
  <2>1. \A k \in 1..N : pair[k] # <<>> => CostOf(pair[k]) \in Int
    BY <1>6, <1>7
  <2>2. QED
    BY <1>1, <1>2, <2>1, KeepsFirstCheapest
<1>9. CASE BestPair = <<>>
  BY <1>3, <1>5, <1>8, <1>9 DEF FirstCheapest
<1>10. CASE BestPair # <<>>
  <2>1. PICK k \in 1..N :
          /\ BestPair = pair[k]
          /\ \A j \in 1..N :
               pair[j] # <<>> =>
                 \/ CostOf(pair[k]) < CostOf(pair[j])
                 \/ CostOf(pair[k]) = CostOf(pair[j]) /\ k <= j
    BY <1>8, <1>10 DEF FirstCheapest
  <2>2. PICK t \in left : pair[k] = BestNode(t) /\ rank[t] = k
    BY <1>6, <1>10, <2>1
  <2>3. QED
    BY <1>3, <1>5, <1>10, <2>1, <2>2
<1>11. QED
  BY <1>9, <1>10

\* The costs that are compared are numbers.
LEMMA CostIsNat ==
  ASSUME TypeOK, pc = "choosing", NEW t \in left, NEW n \in Node
  PROVE  Cost(t, n) \in Nat
<1>1. t \in Task /\ freeAt[n] \in Nat /\ t0 \in Nat /\ rates[n] \in Nat
  BY DEF TypeOK
<1>2. DemandOf[t].units \in Nat /\ UnitTime \in Nat
  BY <1>1, DemandIsNat, MinMinAssumption
<1>3. DemandOf[t].units * UnitTime \in Nat /\ DemandOf[t].units * rates[n] \in Nat
  BY <1>1, <1>2
<1>4. Completion(t, n) \in Nat
  BY <1>1, <1>3 DEF Completion
<1>5. Ect(t, n) \in Nat
  BY <1>1, <1>3 DEF Ect, Monus
<1>6. QED
  BY <1>4, <1>5 DEF Cost

\* The nested loops of schedule() find the pair that the selection rule names, for
\* every number of tasks and nodes and every order they are listed in
\* (min_min.py:103, adaptive_min_min.py:123): the cheapest, then the first task in the
\* list, then the first node.
THEOREM MinMinLoopsFindBest == Spec => []LoopsFindBest
<1>1. IInv => LoopsFindBest
  <2> SUFFICES ASSUME IInv, pc = "choosing"
               PROVE  IF Options = {} THEN BestPair = <<>> ELSE Best(BestPair)
    BY DEF LoopsFindBest
  <2>1. /\ TypeOK /\ left \subseteq DOMAIN rank /\ DOMAIN rank \subseteq Task
        /\ rank \in Orders(DOMAIN rank)
    BY DEF IInv, PlanInv, Choosing, TypeOK
  <2>2. \A t \in left, n \in Node : Cost(t, n) \in Int
    BY <2>1, CostIsNat
  <2>3. \A t \in left :
          \/ BestNode(t) = <<>> /\ \A n \in Node : ~Feasible(t, n)
          \/ \E n \in Node : BestNode(t) = <<t, n>> /\ CheapestNode(t, n)
    BY <2>2, InnerLoop
  <2>4. \A t, u \in left : rank[t] = rank[u] => t = u
    BY <2>1 DEF Orders
  <2>5. \A t \in left : rank[t] \in Int
    BY <2>1 DEF Orders
  <2>6. \A n \in Node : NodeRank[n] \in Int
    BY NodePositions
  <2>7. CASE BestPair = <<>> /\ \A t \in left : BestNode(t) = <<>>
    <3>1. ASSUME NEW t \in left, NEW n \in Node PROVE ~Feasible(t, n)
      <4>1. \A m \in Node : BestNode(t) # <<t, m>>
        BY <2>7
      <4>2. QED
        BY <2>3, <4>1
    <3>2. Options = {}
      BY <3>1 DEF Options
    <3>3. QED
      BY <2>7, <3>2
  <2>8. ASSUME NEW t \in left, BestPair = BestNode(t), BestNode(t) # <<>>,
               \A u \in left :
                 BestNode(u) # <<>> =>
                   \/ CostOf(BestNode(t)) < CostOf(BestNode(u))
                   \/ CostOf(BestNode(t)) = CostOf(BestNode(u)) /\ rank[t] <= rank[u]
        PROVE  Options # {} /\ Best(BestPair)
    <3>1. PICK n \in Node : BestNode(t) = <<t, n>> /\ CheapestNode(t, n)
      BY <2>3, <2>8
    <3>2. <<t, n>> \in Options
      <4>1. <<t, n>> \in left \X Node /\ <<t, n>>[1] = t /\ <<t, n>>[2] = n
        OBVIOUS
      <4>2. QED
        BY <3>1, <4>1 DEF Options, CheapestNode
    <3>3. ASSUME NEW b \in Options, b # <<t, n>> PROVE Precedes(<<t, n>>, b)
      <4>1. PICK u \in left, m \in Node : b = <<u, m>> /\ Feasible(u, m)
        BY DEF Options
      <4>2. PICK mm \in Node : BestNode(u) = <<u, mm>> /\ CheapestNode(u, mm)
        BY <2>3, <4>1
      <4>3. Cost(u, mm) < Cost(u, m) \/ (Cost(u, mm) = Cost(u, m) /\ NodeRank[mm] <= NodeRank[m])
        BY <4>1, <4>2 DEF CheapestNode
      <4>4. Cost(t, n) < Cost(u, mm) \/ (Cost(t, n) = Cost(u, mm) /\ rank[t] <= rank[u])
        <5>1. BestNode(u) # <<>>
          BY <4>2
        <5>2. CostOf(BestNode(t)) = Cost(t, n) /\ CostOf(BestNode(u)) = Cost(u, mm)
          BY <3>1, <4>2 DEF CostOf
        <5>3. QED
          BY <2>8, <5>1, <5>2
      <4>5. Cost(t, n) \in Int /\ Cost(u, mm) \in Int /\ Cost(u, m) \in Int
        BY <2>2
      <4>6. \/ Cost(t, n) < Cost(u, m)
            \/ /\ Cost(t, n) = Cost(u, m) /\ rank[t] <= rank[u]
               /\ NodeRank[mm] <= NodeRank[m]
        BY <4>3, <4>4, <4>5
      <4>7. ASSUME t = u, NodeRank[mm] <= NodeRank[m] PROVE NodeRank[n] < NodeRank[m]
        <5>1. mm = n /\ m # n
          BY <3>1, <3>3, <4>1, <4>2, <4>7
        <5>2. NodeRank[m] # NodeRank[n]
          BY <5>1, NodePositions
        <5>3. QED
          BY <2>6, <4>7, <5>1, <5>2
      <4>8. ASSUME t # u, rank[t] <= rank[u] PROVE rank[t] < rank[u]
        BY <2>4, <2>5, <4>8
      <4>9. \/ Cost(t, n) < Cost(u, m)
            \/ Cost(t, n) = Cost(u, m) /\ rank[t] < rank[u]
            \/ Cost(t, n) = Cost(u, m) /\ t = u /\ NodeRank[n] < NodeRank[m]
        BY <4>6, <4>7, <4>8
      <4>10. b[1] = u /\ b[2] = m /\ <<t, n>>[1] = t /\ <<t, n>>[2] = n
        BY <4>1
      <4>11. QED
        BY <4>9, <4>10 DEF Precedes
    <3>4. QED
      BY <2>8, <3>1, <3>2, <3>3 DEF Best
  <2>9. QED
    BY <2>1, <2>2, <2>7, <2>8, OuterLoop
<1>2. QED
  BY <1>1, Invariant, PTL
=============================================================================
