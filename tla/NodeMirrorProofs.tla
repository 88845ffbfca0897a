-------------------------- MODULE NodeMirrorProofs --------------------------
(***************************************************************************)
(* For every fleet, every set of tasks and every order of calls, the       *)
(* mirror's totals are the sums of its reservations and stay within the    *)
(* registered capacities.  The three parts of MirrorInv hold each other    *)
(* up: reserve() checks the totals, so it bounds what is reserved only     *)
(* because the totals are the sums.                                        *)
(***************************************************************************)
EXTENDS Placement, LoadTheorems

MirrorInv == MirrorTypeOK /\ ProjectedIsSum /\ ReservedFits

-----------------------------------------------------------------------------
\* Sums over what is placed on a node

\* Nothing placed, nothing used.
LEMMA EmptyLoad == \A f : LoadOf({}, f) = 0
BY FS_EmptySet DEF LoadOf, Cells

\* What a set of tasks needs is a natural number, and one task more needs
\* exactly its demand more.
LEMMA PlanLoads ==
  ASSUME NEW S \in SUBSET Task
  PROVE  /\ LoadOf(S, RamOf) \in Nat /\ LoadOf(S, CoresOf) \in Nat
         /\ \A t \in Task \ S :
              /\ LoadOf(S \cup {t}, RamOf) = LoadOf(S, RamOf) + DemandOf[t].ram
              /\ LoadOf(S \cup {t}, CoresOf) = LoadOf(S, CoresOf) + DemandOf[t].cores
<1>1. IsFiniteSet(S)
  BY MirrorAssumption, FS_Subset
<1>2. \A t \in Task : /\ RamOf[t] = DemandOf[t].ram /\ RamOf[t] \in Nat
                      /\ CoresOf[t] = DemandOf[t].cores /\ CoresOf[t] \in Nat
  BY MirrorAssumption, PlacementAssumption DEF RamOf, CoresOf
<1>3. LoadOf(S, RamOf) \in Nat /\ LoadOf(S, CoresOf) \in Nat
  BY <1>1, <1>2, LoadIsNat
<1>4. ASSUME NEW t \in Task \ S
      PROVE  /\ LoadOf(S \cup {t}, RamOf) = LoadOf(S, RamOf) + DemandOf[t].ram
             /\ LoadOf(S \cup {t}, CoresOf) = LoadOf(S, CoresOf) + DemandOf[t].cores
  <2>1. \A x \in S \cup {t} : RamOf[x] \in Nat /\ CoresOf[x] \in Nat
    BY <1>2
  <2>2. LoadOf(S \cup {t}, RamOf) = LoadOf(S, RamOf) + RamOf[t]
    BY <1>1, <2>1, LoadAddsSize
  <2>3. LoadOf(S \cup {t}, CoresOf) = LoadOf(S, CoresOf) + CoresOf[t]
    BY <1>1, <2>1, LoadAddsSize
  <2>4. QED
    BY <1>2, <2>2, <2>3
<1>5. QED
  BY <1>3, <1>4

\* A task asks for a natural amount of everything.
LEMMA DemandIsNat ==
  ASSUME NEW t \in Task
  PROVE  /\ DemandOf[t] \in Demand
         /\ DemandOf[t].ram \in Nat /\ DemandOf[t].cores \in Nat /\ DemandOf[t].units \in Nat
BY MirrorAssumption, PlacementAssumption

\* Less work has room where more has, and so it has besides less.
LEMMA RoomForLess ==
  ASSUME NEW S \in SUBSET Task, NEW R \in SUBSET S, NEW p \in Profile,
         NEW ram \in Nat, NEW cores \in Nat, NEW less \in Nat, NEW fewer \in Nat,
         less <= ram, fewer <= cores, Room(p, S, ram, cores)
  PROVE  Room(p, R, less, fewer)
<1>1. \A t \in S : RamOf[t] \in Nat /\ CoresOf[t] \in Nat
  BY MirrorAssumption, PlacementAssumption DEF RamOf, CoresOf
<1>2. IsFiniteSet(S)
  BY MirrorAssumption, FS_Subset
<1>3. LoadOf(R, RamOf) <= LoadOf(S, RamOf) /\ LoadOf(R, CoresOf) <= LoadOf(S, CoresOf)
  BY <1>1, <1>2, LoadMonotone
<1>4. /\ LoadOf(R, RamOf) \in Nat /\ LoadOf(S, RamOf) \in Nat
      /\ LoadOf(R, CoresOf) \in Nat /\ LoadOf(S, CoresOf) \in Nat
  BY PlanLoads
<1>5. p.ram \in Nat /\ p.cores \in Nat
  BY MirrorAssumption
<1>6. QED
  BY <1>3, <1>4, <1>5 DEF Room

-----------------------------------------------------------------------------
\* Sums over what is reserved

\* The sums are natural numbers over finite sets.
LEMMA HeldIsNat ==
  ASSUME MirrorTypeOK, NEW n \in Node
  PROVE  /\ IsFiniteSet(Reserved(n))
         /\ \A t \in Reserved(n) : held[n][t] \in Demand
         /\ HeldRam(n) \in Nat /\ HeldCores(n) \in Nat /\ HeldUnits(n) \in Nat
<1>1. IsFiniteSet(Reserved(n))
  BY MirrorAssumption, FS_Subset DEF Reserved
<1>2. \A t \in Reserved(n) : held[n][t] \in Demand
  BY DEF Reserved, MirrorTypeOK
<1>3. \A t \in Reserved(n) :
        held[n][t].ram \in Nat /\ held[n][t].cores \in Nat /\ held[n][t].units \in Nat
  BY <1>2, MirrorAssumption
<1>4. HeldRam(n) \in Nat
  BY <1>1, <1>3, LoadIsNat DEF HeldRam
<1>5. HeldCores(n) \in Nat
  BY <1>1, <1>3, LoadIsNat DEF HeldCores
<1>6. HeldUnits(n) \in Nat
  BY <1>1, <1>3, LoadIsNat DEF HeldUnits
<1>7. QED
  BY <1>1, <1>2, <1>4, <1>5, <1>6

\* A node whose reservations do not change keeps its sums.
LEMMA SameHeld ==
  ASSUME NEW n \in Node, held'[n] = held[n]
  PROVE  /\ Reserved(n)' = Reserved(n)
         /\ HeldRam(n)' = HeldRam(n) /\ HeldCores(n)' = HeldCores(n) /\ HeldUnits(n)' = HeldUnits(n)
BY DEF Reserved, HeldRam, HeldCores, HeldUnits

\* A node without reservations has sums of zero.
LEMMA EmptyHeld ==
  ASSUME NEW n \in Node, held[n] = [t \in Task |-> Nothing]
  PROVE  Reserved(n) = {} /\ HeldRam(n) = 0 /\ HeldCores(n) = 0 /\ HeldUnits(n) = 0
<1>1. Reserved(n) = {}
  BY DEF Reserved
<1>2. \A f : LoadOf({}, f) = 0
  BY FS_EmptySet DEF LoadOf, Cells
<1>3. QED
  BY <1>1, <1>2 DEF HeldRam, HeldCores, HeldUnits

\* The same in the next state.
LEMMA EmptiedHeld ==
  ASSUME NEW n \in Node, held'[n] = [t \in Task |-> Nothing]
  PROVE  Reserved(n)' = {} /\ HeldRam(n)' = 0 /\ HeldCores(n)' = 0 /\ HeldUnits(n)' = 0
<1>1. Reserved(n)' = {}
  BY DEF Reserved
<1>2. \A f : LoadOf({}, f) = 0
  BY FS_EmptySet DEF LoadOf, Cells
<1>3. QED
  BY <1>1, <1>2 DEF HeldRam, HeldCores, HeldUnits

\* A new reservation adds what it reserves.
LEMMA ReserveAdds ==
  ASSUME MirrorTypeOK, NEW n \in Node, NEW t \in Task, NEW d \in Demand,
         held[n][t] = Nothing, held' = [held EXCEPT ![n][t] = d]
  PROVE  /\ HeldRam(n)' = HeldRam(n) + d.ram
         /\ HeldCores(n)' = HeldCores(n) + d.cores
         /\ HeldUnits(n)' = HeldUnits(n) + d.units
<1>1. Reserved(n)' = Reserved(n) \cup {t} /\ t \notin Reserved(n)
  BY MirrorAssumption DEF Reserved, MirrorTypeOK
<1>2. /\ held'[n][t] = d
      /\ \A u \in Reserved(n) : held'[n][u] = held[n][u] /\ held[n][u] \in Demand
  BY <1>1, HeldIsNat DEF MirrorTypeOK
<1>3. d.ram \in Nat /\ d.cores \in Nat /\ d.units \in Nat
      /\ \A u \in Reserved(n) : /\ held[n][u].ram \in Nat
                                /\ held[n][u].cores \in Nat /\ held[n][u].units \in Nat
  BY <1>2, MirrorAssumption
<1> DEFINE R == Reserved(n)
<1> HIDE DEF R
<1>4. IsFiniteSet(R) /\ t \notin R
  BY <1>1, HeldIsNat DEF R
<1>5. HeldRam(n)' = HeldRam(n) + d.ram
  <2> DEFINE few == [u \in R |-> held[n][u].ram]
             all == [u \in R \cup {t} |-> held'[n][u].ram]
  <2>1. \A u \in R : few[u] \in Nat /\ few[u] = all[u]
    BY <1>2, <1>3 DEF R
  <2>2. all[t] = d.ram /\ all[t] \in Nat
    BY <1>2, <1>3
  <2> HIDE DEF few, all
  <2>3. LoadOf(R, few) = LoadOf(R, all)
    BY <2>1, LoadCongruent
  <2>4. \A u \in R \cup {t} : all[u] \in Nat
    BY <2>1, <2>2
  <2>5. LoadOf(R \cup {t}, all) = LoadOf(R, all) + all[t]
    BY <1>4, <2>4, LoadAddsSize
  <2>6. QED
    BY <1>1, <2>2, <2>3, <2>5 DEF HeldRam, R, few, all
<1>6. HeldCores(n)' = HeldCores(n) + d.cores
  <2> DEFINE few == [u \in R |-> held[n][u].cores]
             all == [u \in R \cup {t} |-> held'[n][u].cores]
  <2>1. \A u \in R : few[u] \in Nat /\ few[u] = all[u]
    BY <1>2, <1>3 DEF R
  <2>2. all[t] = d.cores /\ all[t] \in Nat
    BY <1>2, <1>3
  <2> HIDE DEF few, all
  <2>3. LoadOf(R, few) = LoadOf(R, all)
    BY <2>1, LoadCongruent
  <2>4. \A u \in R \cup {t} : all[u] \in Nat
    BY <2>1, <2>2
  <2>5. LoadOf(R \cup {t}, all) = LoadOf(R, all) + all[t]
    BY <1>4, <2>4, LoadAddsSize
  <2>6. QED
    BY <1>1, <2>2, <2>3, <2>5 DEF HeldCores, R, few, all
<1>7. HeldUnits(n)' = HeldUnits(n) + d.units
  <2> DEFINE few == [u \in R |-> held[n][u].units]
             all == [u \in R \cup {t} |-> held'[n][u].units]
  <2>1. \A u \in R : few[u] \in Nat /\ few[u] = all[u]
    BY <1>2, <1>3 DEF R
  <2>2. all[t] = d.units /\ all[t] \in Nat
    BY <1>2, <1>3
  <2> HIDE DEF few, all
  <2>3. LoadOf(R, few) = LoadOf(R, all)
    BY <2>1, LoadCongruent
  <2>4. \A u \in R \cup {t} : all[u] \in Nat
    BY <2>1, <2>2
  <2>5. LoadOf(R \cup {t}, all) = LoadOf(R, all) + all[t]
    BY <1>4, <2>4, LoadAddsSize
  <2>6. QED
    BY <1>1, <2>2, <2>3, <2>5 DEF HeldUnits, R, few, all
<1>8. QED
  BY <1>5, <1>6, <1>7

\* Popping a reservation takes exactly that away.
LEMMA ReleaseRemoves ==
  ASSUME MirrorTypeOK, NEW n \in Node, NEW t \in Task, NEW d \in Demand,
         held[n][t] = d, held' = [held EXCEPT ![n][t] = Nothing]
  PROVE  /\ HeldRam(n) = HeldRam(n)' + d.ram
         /\ HeldCores(n) = HeldCores(n)' + d.cores
         /\ HeldUnits(n) = HeldUnits(n)' + d.units
         /\ HeldRam(n)' \in Nat /\ HeldCores(n)' \in Nat /\ HeldUnits(n)' \in Nat
<1>1. Reserved(n) = Reserved(n)' \cup {t} /\ t \notin Reserved(n)'
  BY MirrorAssumption DEF Reserved, MirrorTypeOK
<1>2. /\ held[n][t] = d
      /\ \A u \in Reserved(n)' : held[n][u] = held'[n][u] /\ held'[n][u] \in Demand
  BY <1>1, HeldIsNat DEF MirrorTypeOK
<1>3. d.ram \in Nat /\ d.cores \in Nat /\ d.units \in Nat
      /\ \A u \in Reserved(n)' : /\ held'[n][u].ram \in Nat
                                /\ held'[n][u].cores \in Nat /\ held'[n][u].units \in Nat
  BY <1>2, MirrorAssumption
<1> DEFINE R == Reserved(n)'
<1> HIDE DEF R
<1>4. IsFiniteSet(R) /\ t \notin R
  BY <1>1, HeldIsNat, FS_Subset DEF R
<1>5. HeldRam(n) = HeldRam(n)' + d.ram /\ HeldRam(n)' \in Nat
  <2> DEFINE few == [u \in R |-> held'[n][u].ram]
             all == [u \in R \cup {t} |-> held[n][u].ram]
  <2>1. \A u \in R : few[u] \in Nat /\ few[u] = all[u]
    BY <1>2, <1>3 DEF R
  <2>2. all[t] = d.ram /\ all[t] \in Nat
    BY <1>2, <1>3
  <2> HIDE DEF few, all
  <2>3. LoadOf(R, few) = LoadOf(R, all)
    BY <2>1, LoadCongruent
  <2>4. \A u \in R \cup {t} : all[u] \in Nat
    BY <2>1, <2>2
  <2>5. LoadOf(R \cup {t}, all) = LoadOf(R, all) + all[t]
    BY <1>4, <2>4, LoadAddsSize
  <2>6. LoadOf(R, few) \in Nat
    BY <1>4, <2>1, LoadIsNat
  <2>7. QED
    BY <1>1, <2>2, <2>3, <2>5, <2>6 DEF HeldRam, R, few, all
<1>6. HeldCores(n) = HeldCores(n)' + d.cores /\ HeldCores(n)' \in Nat
  <2> DEFINE few == [u \in R |-> held'[n][u].cores]
             all == [u \in R \cup {t} |-> held[n][u].cores]
  <2>1. \A u \in R : few[u] \in Nat /\ few[u] = all[u]
    BY <1>2, <1>3 DEF R
  <2>2. all[t] = d.cores /\ all[t] \in Nat
    BY <1>2, <1>3
  <2> HIDE DEF few, all
  <2>3. LoadOf(R, few) = LoadOf(R, all)
    BY <2>1, LoadCongruent
  <2>4. \A u \in R \cup {t} : all[u] \in Nat
    BY <2>1, <2>2
  <2>5. LoadOf(R \cup {t}, all) = LoadOf(R, all) + all[t]
    BY <1>4, <2>4, LoadAddsSize
  <2>6. LoadOf(R, few) \in Nat
    BY <1>4, <2>1, LoadIsNat
  <2>7. QED
    BY <1>1, <2>2, <2>3, <2>5, <2>6 DEF HeldCores, R, few, all
<1>7. HeldUnits(n) = HeldUnits(n)' + d.units /\ HeldUnits(n)' \in Nat
  <2> DEFINE few == [u \in R |-> held'[n][u].units]
             all == [u \in R \cup {t} |-> held[n][u].units]
  <2>1. \A u \in R : few[u] \in Nat /\ few[u] = all[u]
    BY <1>2, <1>3 DEF R
  <2>2. all[t] = d.units /\ all[t] \in Nat
    BY <1>2, <1>3
  <2> HIDE DEF few, all
  <2>3. LoadOf(R, few) = LoadOf(R, all)
    BY <2>1, LoadCongruent
  <2>4. \A u \in R \cup {t} : all[u] \in Nat
    BY <2>1, <2>2
  <2>5. LoadOf(R \cup {t}, all) = LoadOf(R, all) + all[t]
    BY <1>4, <2>4, LoadAddsSize
  <2>6. LoadOf(R, few) \in Nat
    BY <1>4, <2>1, LoadIsNat
  <2>7. QED
    BY <1>1, <2>2, <2>3, <2>5, <2>6 DEF HeldUnits, R, few, all
<1>8. QED
  BY <1>5, <1>6, <1>7

-----------------------------------------------------------------------------
\* One lemma per call

\* A node none of whose fields change, capacities apart, keeps its part.
LEMMA OtherNode ==
  ASSUME MirrorInv, NEW m \in Node, held'[m] = held[m], spec'[m] = spec[m],
         usedRam'[m] = usedRam[m], usedCores'[m] = usedCores[m], workload'[m] = workload[m]
  PROVE  /\ usedRam'[m] = HeldRam(m)' /\ usedCores'[m] = HeldCores(m)' /\ workload'[m] = HeldUnits(m)'
         /\ spec'[m] # Nothing => HeldRam(m)' <= spec'[m].ram /\ HeldCores(m)' <= spec'[m].cores
BY SameHeld DEF MirrorInv, ProjectedIsSum, ReservedFits

\* A node without reservations has room for them.
LEMMA EmptiedNode ==
  ASSUME NEW m \in Node, held'[m] = [t \in Task |-> Nothing], spec'[m] \in Profile \cup {Nothing},
         usedRam'[m] = 0, usedCores'[m] = 0, workload'[m] = 0
  PROVE  /\ usedRam'[m] = HeldRam(m)' /\ usedCores'[m] = HeldCores(m)' /\ workload'[m] = HeldUnits(m)'
         /\ spec'[m] # Nothing => HeldRam(m)' <= spec'[m].ram /\ HeldCores(m)' <= spec'[m].cores
<1>1. spec'[m] # Nothing => 0 <= spec'[m].ram /\ 0 <= spec'[m].cores
  BY MirrorAssumption
<1>2. QED
  BY <1>1, EmptiedHeld

LEMMA ReplaceKeeps ==
  ASSUME MirrorInv, NEW n \in Node, NEW p \in Profile \cup {Nothing}, Replace(n, p)
  PROVE  MirrorInv'
<1>1. MirrorTypeOK'
  BY MirrorAssumption DEF MirrorInv, MirrorTypeOK, Replace, Reserved
<1>2. ASSUME NEW m \in Node
      PROVE  /\ usedRam'[m] = HeldRam(m)' /\ usedCores'[m] = HeldCores(m)' /\ workload'[m] = HeldUnits(m)'
             /\ spec'[m] # Nothing => HeldRam(m)' <= spec'[m].ram /\ HeldCores(m)' <= spec'[m].cores
  <2>1. CASE m = n
    BY <2>1, EmptiedNode DEF MirrorInv, MirrorTypeOK, Replace
  <2>2. CASE m # n
    BY <2>2, OtherNode DEF MirrorInv, MirrorTypeOK, Replace
  <2>3. QED
    BY <2>1, <2>2
<1>3. QED
  BY <1>1, <1>2 DEF MirrorInv, ProjectedIsSum, ReservedFits

LEMMA ReserveKeeps ==
  ASSUME MirrorInv, NEW n \in Node, NEW t \in Task, NEW d \in Demand, Reserve(n, t, d)
  PROVE  MirrorInv'
<1>1. MirrorTypeOK'
  BY MirrorAssumption DEF MirrorInv, MirrorTypeOK, Reserve, CanReserve, Reserved
<1>2. ASSUME NEW m \in Node
      PROVE  /\ usedRam'[m] = HeldRam(m)' /\ usedCores'[m] = HeldCores(m)' /\ workload'[m] = HeldUnits(m)'
             /\ spec'[m] # Nothing => HeldRam(m)' <= spec'[m].ram /\ HeldCores(m)' <= spec'[m].cores
  <2>1. CASE m = n
    <3>1. /\ HeldRam(n)' = HeldRam(n) + d.ram
          /\ HeldCores(n)' = HeldCores(n) + d.cores
          /\ HeldUnits(n)' = HeldUnits(n) + d.units
      BY ReserveAdds DEF MirrorInv, Reserve, CanReserve
    <3>2. /\ usedRam'[n] = usedRam[n] + d.ram
          /\ usedCores'[n] = usedCores[n] + d.cores
          /\ workload'[n] = workload[n] + d.units
      BY DEF MirrorInv, MirrorTypeOK, Reserve
    <3>3. /\ usedRam[n] + d.ram <= spec'[n].ram
          /\ usedCores[n] + d.cores <= spec'[n].cores
      BY DEF Reserve, CanReserve
    <3>4. usedRam[n] = HeldRam(n) /\ usedCores[n] = HeldCores(n) /\ workload[n] = HeldUnits(n)
      BY DEF MirrorInv, ProjectedIsSum
    <3>5. QED
      BY <2>1, <3>1, <3>2, <3>3, <3>4
  <2>2. CASE m # n
    BY <2>2, OtherNode DEF MirrorInv, MirrorTypeOK, Reserve
  <2>3. QED
    BY <2>1, <2>2
<1>3. QED
  BY <1>1, <1>2 DEF MirrorInv, ProjectedIsSum, ReservedFits

\* What only looks at a node's status leaves the accounts alone.
LEMMA StatusKeeps ==
  ASSUME MirrorInv, UNCHANGED <<spec, held, totals>>, reachable' \in [Node -> BOOLEAN],
         \A m \in Node : reachable'[m] => reachable[m] \/ spec[m] # Nothing
  PROVE  MirrorInv'
<1>1. MirrorTypeOK'
  BY DEF MirrorInv, MirrorTypeOK, totals, Reserved
<1>2. QED
  BY <1>1, OtherNode DEF MirrorInv, ProjectedIsSum, ReservedFits, totals

\* The clamps at zero never clamp: what is taken away is part of the total.
LEMMA ReleaseKeeps ==
  ASSUME MirrorInv, NEW n \in Node, NEW t \in Task, NEW units,
         held[n][t] # Nothing => units = held[n][t].units, Release(n, t, units)
  PROVE  MirrorInv'
<1>1. CASE held[n][t] = Nothing
  <2>1. UNCHANGED mirrorVars
    BY <1>1 DEF Release
  <2>2. QED
    BY <2>1, StatusKeeps DEF MirrorInv, MirrorTypeOK, mirrorVars, totals
<1>2. CASE held[n][t] # Nothing
  <2> DEFINE d == held[n][t]
  <2>1. /\ held' = [held EXCEPT ![n][t] = Nothing]
        /\ usedRam' = [usedRam EXCEPT ![n] = Monus(@, d.ram)]
        /\ usedCores' = [usedCores EXCEPT ![n] = Monus(@, d.cores)]
        /\ workload' = [workload EXCEPT ![n] = Monus(@, d.units)]
        /\ UNCHANGED <<spec, reachable>>
    BY <1>2 DEF Release
  <2>2. d \in Demand
    BY <1>2 DEF MirrorInv, MirrorTypeOK
  <2>3. d.ram \in Nat /\ d.cores \in Nat /\ d.units \in Nat
    BY <2>2, MirrorAssumption
  <2>4. /\ HeldRam(n) = HeldRam(n)' + d.ram
        /\ HeldCores(n) = HeldCores(n)' + d.cores
        /\ HeldUnits(n) = HeldUnits(n)' + d.units
        /\ HeldRam(n)' \in Nat /\ HeldCores(n)' \in Nat /\ HeldUnits(n)' \in Nat
    BY <2>1, <2>2, ReleaseRemoves DEF MirrorInv
  <2>5. MirrorTypeOK'
    BY <2>1, <2>3, MirrorAssumption DEF MirrorInv, MirrorTypeOK, Monus, Reserved
  <2>6. ASSUME NEW m \in Node
        PROVE  /\ usedRam'[m] = HeldRam(m)' /\ usedCores'[m] = HeldCores(m)' /\ workload'[m] = HeldUnits(m)'
               /\ spec'[m] # Nothing => HeldRam(m)' <= spec'[m].ram /\ HeldCores(m)' <= spec'[m].cores
    <3>1. CASE m = n
      <4>1. usedRam[n] = HeldRam(n) /\ usedCores[n] = HeldCores(n) /\ workload[n] = HeldUnits(n)
        BY DEF MirrorInv, ProjectedIsSum
      <4>2. /\ usedRam'[n] = Monus(usedRam[n], d.ram)
            /\ usedCores'[n] = Monus(usedCores[n], d.cores)
            /\ workload'[n] = Monus(workload[n], d.units)
        BY <2>1 DEF MirrorInv, MirrorTypeOK
      <4>3. /\ usedRam'[n] = HeldRam(n)' /\ usedCores'[n] = HeldCores(n)'
            /\ workload'[n] = HeldUnits(n)'
        BY <2>3, <2>4, <4>1, <4>2 DEF Monus
      <4>4. spec'[n] # Nothing =>
              /\ spec[n].ram \in Nat /\ spec[n].cores \in Nat
              /\ HeldRam(n) <= spec'[n].ram /\ HeldCores(n) <= spec'[n].cores
        BY <2>1, MirrorAssumption DEF MirrorInv, MirrorTypeOK, ReservedFits
      <4>5. QED
        BY <2>1, <2>3, <2>4, <3>1, <4>3, <4>4
    <3>2. CASE m # n
      BY <2>1, <3>2, OtherNode DEF MirrorInv, MirrorTypeOK
    <3>3. QED
      BY <3>1, <3>2
  <2>7. QED
    BY <2>5, <2>6 DEF MirrorInv, ProjectedIsSum, ReservedFits
<1>3. QED
  BY <1>1, <1>2

LEMMA ResetKeeps ==
  ASSUME MirrorInv, ResetAll
  PROVE  MirrorInv'
<1>1. MirrorTypeOK'
  BY DEF MirrorInv, MirrorTypeOK, ResetAll, Reserved
<1>2. \A m \in Node : spec'[m] \in Profile \cup {Nothing}
  BY DEF MirrorInv, MirrorTypeOK, ResetAll
<1>3. QED
  BY <1>1, <1>2, EmptiedNode DEF MirrorInv, ProjectedIsSum, ReservedFits, ResetAll

LEMMA ReconcileKeeps ==
  ASSUME MirrorInv, NEW n \in Node, Reconcile(n) \/ MarkUnreachable(n)
  PROVE  MirrorInv'
<1>1. /\ UNCHANGED <<spec, held, totals>> /\ reachable' \in [Node -> BOOLEAN]
      /\ \A m \in Node : reachable'[m] => reachable[m] \/ spec[m] # Nothing
  BY DEF MirrorInv, MirrorTypeOK, Reconcile, MarkUnreachable
<1>2. QED
  BY <1>1, StatusKeeps

-----------------------------------------------------------------------------
\* The theorems

LEMMA MirrorInitInv == MirrorInit => MirrorInv
<1> SUFFICES ASSUME MirrorInit PROVE MirrorInv
  OBVIOUS
<1>1. \A n \in Node : Reserved(n) = {} /\ HeldRam(n) = 0 /\ HeldCores(n) = 0 /\ HeldUnits(n) = 0
  BY EmptyHeld DEF MirrorInit
<1>2. QED
  BY <1>1 DEF MirrorInit, MirrorInv, MirrorTypeOK, ProjectedIsSum, ReservedFits

LEMMA MirrorStep == MirrorInv /\ [MirrorNext]_mirrorVars => MirrorInv'
<1> SUFFICES ASSUME MirrorInv, [MirrorNext]_mirrorVars PROVE MirrorInv'
  OBVIOUS
<1>1. ASSUME NEW n \in Node, NEW p \in Profile, Register(n, p) PROVE MirrorInv'
  BY <1>1, ReplaceKeeps DEF Register
<1>2. ASSUME NEW n \in Node, Unregister(n) PROVE MirrorInv'
  BY <1>2, ReplaceKeeps DEF Unregister
<1>3. ASSUME NEW n \in Node, Reconcile(n) \/ MarkUnreachable(n) PROVE MirrorInv'
  BY <1>3, ReconcileKeeps
<1>4. ASSUME NEW n \in Node, NEW t \in Task, NEW d \in Demand, Reserve(n, t, d) PROVE MirrorInv'
  BY <1>4, ReserveKeeps
<1>5. ASSUME NEW n \in Node, NEW t \in Task, NEW d \in Demand,
             held[n][t] \in {d, Nothing}, Release(n, t, d.units)
      PROVE  MirrorInv'
  BY <1>5, ReleaseKeeps
<1>6. ASSUME ResetAll PROVE MirrorInv'
  BY <1>6, ResetKeeps
<1>7. ASSUME UNCHANGED mirrorVars PROVE MirrorInv'
  BY <1>7, StatusKeeps DEF MirrorInv, MirrorTypeOK, mirrorVars, totals
<1>8. QED
  BY <1>1, <1>2, <1>3, <1>4, <1>5, <1>6, <1>7 DEF MirrorNext

LEMMA MirrorInvariant == MirrorSpec => []MirrorInv
BY MirrorInitInv, MirrorStep, PTL DEF MirrorSpec

\* The mirror's variables keep their types, and an unregistered node holds
\* nothing, whatever is called and in which order (node_state.py).
THEOREM MirrorTypeCorrect == MirrorSpec => []MirrorTypeOK
<1>1. MirrorInv => MirrorTypeOK
  BY DEF MirrorInv
<1>2. QED
  BY <1>1, MirrorInvariant, PTL

\* The totals kept by reserve() and release() are the sums of the
\* reservations, for every sequence of calls: release() never clamps.
THEOREM MirrorSums == MirrorSpec => []ProjectedIsSum
<1>1. MirrorInv => ProjectedIsSum
  BY DEF MirrorInv
<1>2. QED
  BY <1>1, MirrorInvariant, PTL

\* No sequence of calls reserves more on a node than it is registered with.
THEOREM MirrorFits == MirrorSpec => []ReservedFits
<1>1. MirrorInv => ReservedFits
  BY DEF MirrorInv
<1>2. QED
  BY <1>1, MirrorInvariant, PTL
=============================================================================
