--------------------------- MODULE EdgeNodeProofs ---------------------------
(***************************************************************************)
(* For every set of tasks, calls and injections and every capacity:        *)
(*   EdgeTypeCorrect       the type invariant, resets included;            *)
(*   EdgeCapacity          tasks never hold more than the node has, resets *)
(*                         included;                                       *)
(*   EdgeNoOrphans         within a trial, nothing is held for nobody;     *)
(*   EdgeRunningHolds      within a trial, a running task holds its own    *)
(*                         memory and core;                                *)
(*   EdgeFreedBeforeReported  a reported task has been freed;              *)
(*   EdgeReleasesOwn       within a trial, a thread takes away only its    *)
(*                         own;                                            *)
(*   EdgeImplements        within a trial, the node implements its         *)
(*                         contract;                                       *)
(*   EdgeRefusesOnlyWhenFull  within a trial, a refusal has a ground in    *)
(*                         the calls in progress and the injections;       *)
(*   EdgeReportsOnce       within a trial, a completion is reported once.  *)
(***************************************************************************)
EXTENDS EdgeNode, LoadTheorems


-----------------------------------------------------------------------------
\* Types

\* Dropping the oldest completion beyond the cap leaves a history of legal length.
LEMMA NewestType ==
  ASSUME NEW h \in Seq(Call), Len(h) <= HistoryCap + 1
  PROVE  Newest(h) \in Seq(Call) /\ Len(Newest(h)) <= HistoryCap
BY EdgeAssumption DEF Newest

LEMMA StageNames ==
  {"idle", "memory", "cpu", "undoMemory", "register", "dupMemory", "dupCpu", "start",
   "sleeping", "releaseCpu", "finish", "done", "rejected", "gone"} \subseteq Stages
BY DEF Stages, HoldsMemory, HoldsCpu, HasRecord

LEMMA GotoType ==
  ASSUME pc \in [Call -> Stages], NEW c \in Call, NEW from, NEW to \in Stages,
         Goto(c, from, to)
  PROVE  pc' \in [Call -> Stages]
BY DEF Goto

LEMMA TypeStep == TypeOK /\ [Next]_vars => TypeOK'
<1> SUFFICES ASSUME TypeOK, [Next]_vars PROVE TypeOK'
  OBVIOUS
<1> USE EdgeAssumption DEF TypeOK, callVars, engineVars, statusVars, resetVars
<1>1. ASSUME NEW c \in Call, Execute(c) PROVE TypeOK'
  BY <1>1, GotoType, StageNames DEF Execute
<1>2. ASSUME NEW c \in Call, Progress(c) PROVE TypeOK'
  <2>1. CASE ReserveMemory(c)
    BY <2>1, GotoType, StageNames DEF ReserveMemory
  <2>2. CASE ReserveCpu(c)
    BY <2>2, GotoType, StageNames DEF ReserveCpu
  <2>3. CASE UndoMemory(c)
    BY <2>3, GotoType, StageNames DEF UndoMemory, ReleaseMemoryOf
  <2>4. CASE Register(c)
    <3>1. pc' \in [Call -> Stages]
      BY <2>4, GotoType, StageNames DEF Register
    <3>2. running' \in [Task -> Call \cup {NoCall}]
      BY <2>4 DEF Register
    <3>3. QED
      BY <2>4, <3>1, <3>2 DEF Register
  <2>5. CASE DupReleaseMemory(c)
    BY <2>5, GotoType, StageNames DEF DupReleaseMemory, ReleaseMemoryOf
  <2>6. CASE DupReleaseCpu(c)
    BY <2>6, GotoType, StageNames DEF DupReleaseCpu, ReleaseCpuOf
  <2>7. CASE BeginRun(c)
    BY <2>7, GotoType, StageNames DEF BeginRun
  <2>8. CASE ReleaseMemory(c)
    BY <2>8, GotoType, StageNames DEF ReleaseMemory, ReleaseMemoryOf
  <2>9. CASE ReleaseCpu(c)
    BY <2>9, GotoType, StageNames DEF ReleaseCpu, ReleaseCpuOf
  <2>10. CASE Finish(c)
    <3>1. Append(history, c) \in Seq(Call) /\ Len(Append(history, c)) <= HistoryCap + 1
      OBVIOUS
    <3>2. history' \in Seq(Call) /\ Len(history') <= HistoryCap
      BY <2>10, <3>1, NewestType DEF Finish
    <3>3. QED
      BY <2>10, <3>2, GotoType, StageNames DEF Finish
  <2>11. QED
    BY <1>2, <2>1, <2>2, <2>3, <2>4, <2>5, <2>6, <2>7, <2>8, <2>9, <2>10 DEF Progress
<1>3. CASE DrainCompletions
  BY <1>3 DEF DrainCompletions
<1>4. CASE CountActive
  BY <1>4 DEF CountActive
<1>5. ASSUME NEW b \in Block, Inject(b) \/ Expire(b) PROVE TypeOK'
  BY <1>5 DEF Inject, Expire
<1>6. CASE ResetNext
  <2>1. CASE ResetEngine
    <3>1. history' \in Seq(Call) /\ Len(history') = 0
      BY <2>1 DEF ResetEngine
    <3>2. running' \in [Task -> Call \cup {NoCall}] /\ resets' \in 0..MaxResets
      BY <2>1 DEF ResetEngine
    <3>3. QED
      BY <2>1, <3>1, <3>2 DEF ResetEngine
  <2>2. CASE ResetMemory
    BY <2>2 DEF ResetMemory
  <2>3. CASE ResetCpu
    BY <2>3 DEF ResetCpu
  <2>4. QED
    BY <1>6, <2>1, <2>2, <2>3 DEF ResetNext
<1>7. CASE UNCHANGED vars
  BY <1>7 DEF vars
<1>8. QED
  BY <1>1, <1>2, <1>3, <1>4, <1>5, <1>6, <1>7 DEF Next, TrialNext

LEMMA TypeInit == Init => TypeOK
BY EdgeAssumption DEF Init, TypeOK, Stages

\* Every dictionary of the node stays well typed, resets included.
THEOREM EdgeTypeCorrect == Spec => []TypeOK
BY TypeInit, TypeStep, PTL DEF Spec

-----------------------------------------------------------------------------
\* Capacity

LEMMA SizesAreNat ==
  ASSUME NEW S \in SUBSET Task
  PROVE  /\ IsFiniteSet(S)
         /\ \A x \in S : MemoryKb[x] \in Nat /\ Cores[x] \in Nat
BY EdgeAssumption, FS_Subset

\* Making one more entry in a dictionary adds its task to those held.
LEMMA HeldAdds ==
  ASSUME NEW hold \in [Task -> Call \cup {NoCall}], NEW t \in Task, NEW c \in Call,
         hold[t] = NoCall
  PROVE  /\ Held([hold EXCEPT ![t] = c]) = Held(hold) \cup {t}
         /\ t \notin Held(hold)
BY EdgeAssumption DEF Held

LEMMA HeldIsSet == ASSUME NEW hold PROVE Held(hold) \in SUBSET Task
BY DEF Held

\* A step that adds no entry cannot break the capacity.
LEMMA CapacityShrinks ==
  ASSUME CapacityRespected,
         Held(memHold)' \subseteq Held(memHold), Held(cpuHold)' \subseteq Held(cpuHold)
  PROVE  CapacityRespected'
<1>1. IsFiniteSet(Held(memHold)) /\ \A x \in Held(memHold) : MemoryKb[x] \in Nat
  BY HeldIsSet, SizesAreNat
<1>2. IsFiniteSet(Held(cpuHold)) /\ \A x \in Held(cpuHold) : Cores[x] \in Nat
  BY HeldIsSet, SizesAreNat
<1>3. LoadOf(Held(memHold)', MemoryKb) <= LoadOf(Held(memHold), MemoryKb)
  BY <1>1, LoadMonotone
<1>4. LoadOf(Held(cpuHold)', Cores) <= LoadOf(Held(cpuHold), Cores)
  BY <1>2, LoadMonotone
<1>5. /\ LoadOf(Held(memHold), MemoryKb) \in Nat
      /\ LoadOf(Held(cpuHold), Cores) \in Nat
      /\ IsFiniteSet(Held(memHold)') /\ IsFiniteSet(Held(cpuHold)')
  BY <1>1, <1>2, LoadIsNat, FS_Subset
<1>6. LoadOf(Held(memHold)', MemoryKb) \in Nat /\ LoadOf(Held(cpuHold)', Cores) \in Nat
  <2>1. \A x \in Held(memHold)' : MemoryKb[x] \in Nat
    BY <1>1
  <2>2. \A x \in Held(cpuHold)' : Cores[x] \in Nat
    BY <1>2
  <2>3. QED
    BY <1>5, <2>1, <2>2, LoadIsNat
<1>7. LoadOf(Held(memHold)', MemoryKb) <= UsableRam /\ LoadOf(Held(cpuHold)', Cores) <= CpuCores
  BY <1>3, <1>4, <1>5, <1>6, EdgeAssumption DEF CapacityRespected
<1>8. QED
  BY <1>7 DEF CapacityRespected, Held

LEMMA CapacityInit == Init => CapacityRespected
<1> SUFFICES ASSUME Init PROVE CapacityRespected
  OBVIOUS
<1>1. Held(memHold) = {} /\ Held(cpuHold) = {}
  BY DEF Init, Held
<1>2. \A size : Cells({}, size) = {}
  BY DEF Cells
<1>3. \A size : LoadOf({}, size) = 0
  BY <1>2, FS_EmptySet DEF LoadOf
<1>4. QED
  BY <1>1, <1>3, EdgeAssumption DEF CapacityRespected

LEMMA CapacityStep == TypeOK /\ CapacityRespected /\ [Next]_vars => CapacityRespected'
<1> SUFFICES ASSUME TypeOK, CapacityRespected, [Next]_vars PROVE CapacityRespected'
  OBVIOUS
<1> USE DEF callVars, engineVars, statusVars, resetVars
<1>1. ASSUME NEW c \in Call, ReserveMemory(c) PROVE CapacityRespected'
  <2> DEFINE t == task[c]
  <2>1. CASE ~MemoryFits(t)
    <3>1. memHold' = memHold /\ cpuHold' = cpuHold
      BY <1>1, <2>1 DEF ReserveMemory
    <3>2. QED
      BY <3>1, CapacityShrinks DEF Held
  <2>2. CASE MemoryFits(t)
    <3>1. t \in Task /\ memHold \in [Task -> Call \cup {NoCall}] /\ memHold[t] = NoCall
      BY <2>2 DEF TypeOK, MemoryFits
    <3>2. memHold' = [memHold EXCEPT ![t] = c] /\ cpuHold' = cpuHold
      BY <1>1, <2>2 DEF ReserveMemory
    <3> HIDE DEF t
    <3>3. Held(memHold') = Held(memHold) \cup {t} /\ t \notin Held(memHold)
      BY <3>1, <3>2, HeldAdds
    <3>4. IsFiniteSet(Held(memHold)) /\ \A x \in Held(memHold) \cup {t} : MemoryKb[x] \in Nat
      BY <3>1, HeldIsSet, SizesAreNat, EdgeAssumption
    <3>5. LoadOf(Held(memHold'), MemoryKb) = LoadOf(Held(memHold), MemoryKb) + MemoryKb[t]
      BY <3>3, <3>4, LoadAddsSize
    <3>6. LoadOf(injected, BlockKb) \in Nat
      <4>1. IsFiniteSet(injected) /\ \A x \in injected : BlockKb[x] \in Nat
        BY EdgeAssumption, FS_Subset DEF TypeOK
      <4>2. QED
        BY <4>1, LoadIsNat
    <3>7. LoadOf(Held(memHold), MemoryKb) \in Nat /\ MemoryKb[t] \in Nat
      BY <3>1, <3>4, LoadIsNat
    <3>8. UsedRam + MemoryKb[t] <= UsableRam
      BY <2>2 DEF MemoryFits, t
    <3>9. LoadOf(Held(memHold'), MemoryKb) <= UsableRam
      BY <3>5, <3>6, <3>7, <3>8, EdgeAssumption DEF UsedRam
    <3>10. QED
      BY <3>2, <3>9 DEF CapacityRespected, Held
  <2>3. QED
    BY <2>1, <2>2
<1>2. ASSUME NEW c \in Call, ReserveCpu(c) PROVE CapacityRespected'
  <2> DEFINE t == task[c]
  <2>1. CASE ~CpuFits(t)
    <3>1. memHold' = memHold /\ cpuHold' = cpuHold
      BY <1>2, <2>1 DEF ReserveCpu
    <3>2. QED
      BY <3>1, CapacityShrinks DEF Held
  <2>2. CASE CpuFits(t)
    <3>1. t \in Task /\ cpuHold \in [Task -> Call \cup {NoCall}] /\ cpuHold[t] = NoCall
      BY <2>2 DEF TypeOK, CpuFits
    <3>2. cpuHold' = [cpuHold EXCEPT ![t] = c] /\ memHold' = memHold
      BY <1>2, <2>2 DEF ReserveCpu
    <3> HIDE DEF t
    <3>3. Held(cpuHold') = Held(cpuHold) \cup {t} /\ t \notin Held(cpuHold)
      BY <3>1, <3>2, HeldAdds
    <3>4. IsFiniteSet(Held(cpuHold)) /\ \A x \in Held(cpuHold) \cup {t} : Cores[x] \in Nat
      BY <3>1, HeldIsSet, SizesAreNat, EdgeAssumption
    <3>5. LoadOf(Held(cpuHold'), Cores) = LoadOf(Held(cpuHold), Cores) + Cores[t]
      BY <3>3, <3>4, LoadAddsSize
    <3>6. LoadOf(Held(cpuHold), Cores) + Cores[t] <= CpuCores
      BY <2>2 DEF CpuFits, UsedCores, t
    <3>7. QED
      BY <3>2, <3>5, <3>6 DEF CapacityRespected, Held
  <2>3. QED
    BY <2>1, <2>2
<1>3. ASSUME NEW c \in Call, Execute(c) \/ Progress(c),
             ~ReserveMemory(c), ~ReserveCpu(c)
      PROVE  CapacityRespected'
  <2>1. \/ memHold' = memHold
        \/ memHold' = [memHold EXCEPT ![task[c]] = NoCall]
    BY <1>3 DEF Execute, Progress, UndoMemory, Register, DupReleaseMemory, DupReleaseCpu,
                BeginRun, ReleaseMemory, ReleaseCpu, Finish, ReleaseMemoryOf
  <2>2. \/ cpuHold' = cpuHold
        \/ cpuHold' = [cpuHold EXCEPT ![task[c]] = NoCall]
    BY <1>3 DEF Execute, Progress, UndoMemory, Register, DupReleaseMemory, DupReleaseCpu,
                BeginRun, ReleaseMemory, ReleaseCpu, Finish, ReleaseCpuOf
  <2>3. Held(memHold)' \subseteq Held(memHold) /\ Held(cpuHold)' \subseteq Held(cpuHold)
    BY <2>1, <2>2 DEF TypeOK, Held
  <2>4. QED
    BY <2>3, CapacityShrinks
<1>4. CASE \/ DrainCompletions \/ CountActive \/ UNCHANGED vars
           \/ \E b \in Block : Inject(b) \/ Expire(b)
  <2>1. memHold' = memHold /\ cpuHold' = cpuHold
    BY <1>4 DEF DrainCompletions, CountActive, Inject, Expire, vars
  <2>2. QED
    BY <2>1, CapacityShrinks DEF Held
<1>5. CASE ResetNext
  <2>1. /\ memHold' = memHold \/ memHold' = [t \in Task |-> NoCall]
        /\ cpuHold' = cpuHold \/ cpuHold' = [t \in Task |-> NoCall]
    BY <1>5 DEF ResetNext, ResetEngine, ResetMemory, ResetCpu
  <2>2. Held(memHold)' \subseteq Held(memHold) /\ Held(cpuHold)' \subseteq Held(cpuHold)
    BY <2>1 DEF Held
  <2>3. QED
    BY <2>2, CapacityShrinks
<1>6. QED
  BY <1>1, <1>2, <1>3, <1>4, <1>5 DEF Next, TrialNext

\* No interleaving of admissions, releases, injections and resets makes the
\* tasks of a node hold more than its usable RAM or its cores.
THEOREM EdgeCapacity == Spec => []CapacityRespected
BY CapacityInit, CapacityStep, EdgeTypeCorrect, PTL DEF Spec

-----------------------------------------------------------------------------
\* Ownership within a trial

\* A call at a stage where it must own its memory, its cores or its record
\* does.  Together with NoOrphanHold this says that the dictionaries hold an
\* entry of a call exactly while the call stands between making the entry and
\* taking it back.
OwnsWhatItMust ==
  \A c \in Call :
    /\ pc[c] \in HoldsMemory => memHold[task[c]] = c
    /\ pc[c] \in HoldsCpu => cpuHold[task[c]] = c
    /\ pc[c] \in HasRecord => running[task[c]] = c

Ownership == TypeOK /\ OwnsWhatItMust /\ NoOrphanHold

LEMMA OwnershipInit == Init => Ownership
<1> SUFFICES ASSUME Init PROVE Ownership
  OBVIOUS
<1>1. TypeOK
  BY TypeInit
<1>2. OwnsWhatItMust
  BY DEF Init, OwnsWhatItMust, HoldsMemory, HoldsCpu, HasRecord
<1>3. NoOrphanHold
  BY EdgeAssumption DEF Init, NoOrphanHold
<1>4. QED
  BY <1>1, <1>2, <1>3 DEF Ownership

\* The ownership facts of the calls other than the one that moves.
LEMMA OwnershipStep == Ownership /\ [TrialNext]_vars => Ownership'
<1> SUFFICES ASSUME Ownership, [TrialNext]_vars PROVE Ownership'
  OBVIOUS
<1>0. TypeOK'
  BY TypeStep DEF Ownership, Next, vars
<1> USE EdgeAssumption DEF callVars, engineVars, statusVars, resetVars
<1> USE DEF Goto, TypeOK, HoldsMemory, HoldsCpu, HasRecord
<1>1. ASSUME NEW c \in Call, Execute(c) PROVE OwnsWhatItMust' /\ NoOrphanHold'
  BY <1>1 DEF Execute, Ownership, OwnsWhatItMust, NoOrphanHold
<1>2. ASSUME NEW c \in Call, Progress(c) PROVE OwnsWhatItMust' /\ NoOrphanHold'
  <2>1. CASE ReserveMemory(c)
    <3>1. CASE MemoryFits(task[c])
      BY <2>1, <3>1 DEF ReserveMemory, MemoryFits, Ownership, OwnsWhatItMust, NoOrphanHold
    <3>2. CASE ~MemoryFits(task[c])
      BY <2>1, <3>2, SMTT(20) DEF ReserveMemory, Ownership, OwnsWhatItMust, NoOrphanHold
    <3>3. QED
      BY <3>1, <3>2
  <2>2. CASE ReserveCpu(c)
    <3>1. CASE CpuFits(task[c])
      <4>1. /\ pc[c] = "cpu" /\ pc' = [pc EXCEPT ![c] = "register"]
            /\ cpuHold[task[c]] = NoCall /\ cpuHold' = [cpuHold EXCEPT ![task[c]] = c]
            /\ UNCHANGED <<task, memHold, running>>
        BY <2>2, <3>1 DEF ReserveCpu, CpuFits
      <4>2. OwnsWhatItMust'
        BY <4>1 DEF Ownership, OwnsWhatItMust
      <4>3. NoOrphanHold'
        BY <4>1 DEF Ownership, NoOrphanHold
      <4>4. QED
        BY <4>2, <4>3
    <3>2. CASE ~CpuFits(task[c])
      <4>1. /\ pc[c] = "cpu" /\ pc' = [pc EXCEPT ![c] = "undoMemory"]
            /\ UNCHANGED <<task, memHold, cpuHold, running>>
        BY <2>2, <3>2 DEF ReserveCpu
      <4>2. QED
        BY <4>1 DEF Ownership, OwnsWhatItMust, NoOrphanHold
    <3>3. QED
      BY <3>1, <3>2
  <2>3. CASE UndoMemory(c)
    BY <2>3 DEF UndoMemory, ReleaseMemoryOf, Ownership, OwnsWhatItMust, NoOrphanHold
  <2>4. CASE Register(c)
    <3>1. CASE running[task[c]] = NoCall
      <4>1. /\ pc[c] = "register" /\ pc' = [pc EXCEPT ![c] = "start"]
            /\ running' = [running EXCEPT ![task[c]] = c]
            /\ UNCHANGED <<task, memHold, cpuHold>>
        BY <2>4, <3>1 DEF Register
      <4>2. OwnsWhatItMust'
        BY <4>1, <3>1 DEF Ownership, OwnsWhatItMust
      <4>3. NoOrphanHold'
        BY <4>1 DEF Ownership, NoOrphanHold
      <4>4. QED
        BY <4>2, <4>3
    <3>2. CASE running[task[c]] # NoCall
      <4>1. /\ pc[c] = "register" /\ pc' = [pc EXCEPT ![c] = "dupMemory"]
            /\ UNCHANGED <<task, memHold, cpuHold, running>>
        BY <2>4, <3>2 DEF Register
      <4>2. QED
        BY <4>1 DEF Ownership, OwnsWhatItMust, NoOrphanHold
    <3>3. QED
      BY <3>1, <3>2
  <2>5. CASE DupReleaseMemory(c)
    BY <2>5 DEF DupReleaseMemory, ReleaseMemoryOf, Ownership, OwnsWhatItMust, NoOrphanHold
  <2>6. CASE DupReleaseCpu(c)
    BY <2>6 DEF DupReleaseCpu, ReleaseCpuOf, Ownership, OwnsWhatItMust, NoOrphanHold
  <2>7. CASE BeginRun(c)
    BY <2>7 DEF BeginRun, Ownership, OwnsWhatItMust, NoOrphanHold
  <2>8. CASE ReleaseMemory(c)
    BY <2>8 DEF ReleaseMemory, ReleaseMemoryOf, Ownership, OwnsWhatItMust, NoOrphanHold
  <2>9. CASE ReleaseCpu(c)
    BY <2>9 DEF ReleaseCpu, ReleaseCpuOf, Ownership, OwnsWhatItMust, NoOrphanHold
  <2>10. CASE Finish(c)
    BY <2>10 DEF Finish, Ownership, OwnsWhatItMust, NoOrphanHold
  <2>11. QED
    BY <1>2, <2>1, <2>2, <2>3, <2>4, <2>5, <2>6, <2>7, <2>8, <2>9, <2>10 DEF Progress
<1>3. ASSUME \/ DrainCompletions \/ CountActive \/ UNCHANGED vars
             \/ \E b \in Block : Inject(b) \/ Expire(b)
      PROVE  OwnsWhatItMust' /\ NoOrphanHold'
  <2>1. UNCHANGED <<pc, task, memHold, cpuHold, running>>
    BY <1>3 DEF DrainCompletions, CountActive, Inject, Expire, vars
  <2>2. OwnsWhatItMust'
    BY <2>1 DEF Ownership, OwnsWhatItMust
  <2>3. NoOrphanHold'
    BY <2>1 DEF Ownership, NoOrphanHold
  <2>4. QED
    BY <2>2, <2>3
<1>4. OwnsWhatItMust' /\ NoOrphanHold'
  BY <1>1, <1>2, <1>3 DEF TrialNext
<1>5. QED
  BY <1>0, <1>4 DEF Ownership

\* Within a trial nothing is held or registered for a call that has no step
\* left to take it back.
THEOREM EdgeNoOrphans == TrialSpec => []NoOrphanHold
<1>1. Ownership => NoOrphanHold
  BY DEF Ownership
<1>2. QED
  BY <1>1, OwnershipInit, OwnershipStep, PTL DEF TrialSpec

\* Within a trial a task whose thread is executing holds its own memory, its
\* own cores and its own record.
THEOREM EdgeRunningHolds == TrialSpec => []RunningHoldsResources
<1>1. Ownership => RunningHoldsResources
  BY DEF Ownership, OwnsWhatItMust, RunningHoldsResources, HoldsMemory, HoldsCpu, HasRecord
<1>2. QED
  BY <1>1, OwnershipInit, OwnershipStep, PTL DEF TrialSpec

\* Within a trial the node's dictionaries and its threads tell the same story.
THEOREM EdgeEntriesMatch == TrialSpec => []EntriesMatchThreads
<1>1. Ownership => EntriesMatchThreads
  BY DEF Ownership, OwnsWhatItMust, EntriesMatchThreads, RunningHoldsResources, HoldsMemory,
         HoldsCpu, HasRecord
<1>2. QED
  BY <1>1, OwnershipInit, OwnershipStep, PTL DEF TrialSpec

\* Within a trial a step of a call removes no entry that another call made.
LEMMA ReleasesOwnStep ==
  ASSUME Ownership, [TrialNext]_vars, NEW c \in Call, NEW t \in Task, pc'[c] # pc[c]
  PROVE  /\ memHold[t] \notin {NoCall, c} => memHold'[t] = memHold[t]
         /\ cpuHold[t] \notin {NoCall, c} => cpuHold'[t] = cpuHold[t]
         /\ running[t] \notin {NoCall, c} => running'[t] = running[t]
<1> USE DEF Goto, callVars, engineVars
<1>1. CASE \/ DrainCompletions \/ CountActive \/ UNCHANGED vars
           \/ \E b \in Block : Inject(b) \/ Expire(b)
  BY <1>1 DEF DrainCompletions, CountActive, Inject, Expire, vars
<1>2. CASE \E d \in Call : Execute(d) \/ Progress(d)
  <2>1. PICK d \in Call : Execute(d) \/ Progress(d)
    BY <1>2
  <2>2. d = c
    BY <2>1 DEF Ownership, TypeOK, Execute, Progress, ReserveMemory, ReserveCpu, UndoMemory,
                Register, DupReleaseMemory, DupReleaseCpu, BeginRun, ReleaseMemory, ReleaseCpu, Finish
  <2>3. /\ memHold' = memHold \/ (memHold[task[c]] \in {NoCall, c}
                                   /\ \E v : memHold' = [memHold EXCEPT ![task[c]] = v])
        /\ cpuHold' = cpuHold \/ (cpuHold[task[c]] \in {NoCall, c}
                                   /\ \E v : cpuHold' = [cpuHold EXCEPT ![task[c]] = v])
        /\ running' = running \/ (running[task[c]] \in {NoCall, c}
                                   /\ \E v : running' = [running EXCEPT ![task[c]] = v])
    <3> USE <2>1, <2>2 DEF Ownership, OwnsWhatItMust
    <3>1. CASE Execute(c) \/ BeginRun(c)
      BY <3>1 DEF Execute, BeginRun
    <3>2. CASE ReserveMemory(c)
      BY <3>2 DEF ReserveMemory, MemoryFits
    <3>3. CASE ReserveCpu(c)
      BY <3>3 DEF ReserveCpu, CpuFits
    <3>4. CASE UndoMemory(c) \/ DupReleaseMemory(c) \/ ReleaseMemory(c)
      BY <3>4 DEF UndoMemory, DupReleaseMemory, ReleaseMemory, ReleaseMemoryOf, HoldsMemory
    <3>5. CASE Register(c)
      BY <3>5 DEF Register
    <3>6. CASE DupReleaseCpu(c) \/ ReleaseCpu(c)
      BY <3>6 DEF DupReleaseCpu, ReleaseCpu, ReleaseCpuOf, HoldsCpu
    <3>7. CASE Finish(c)
      BY <3>7 DEF Finish, HasRecord
    <3>8. QED
      BY <2>1, <2>2, <3>1, <3>2, <3>3, <3>4, <3>5, <3>6, <3>7 DEF Progress
  <2>4. QED
    BY <2>3 DEF Ownership, TypeOK
<1>3. QED
  BY <1>1, <1>2 DEF TrialNext

\* Within a trial no thread releases or unregisters on behalf of another call.
THEOREM EdgeReleasesOwn == TrialSpec => ReleasesOnlyItsOwn
<1>1. Ownership /\ [TrialNext]_vars =>
        [\A c \in Call, t \in Task :
           pc'[c] # pc[c] =>
             /\ memHold[t] \notin {NoCall, c} => memHold'[t] = memHold[t]
             /\ cpuHold[t] \notin {NoCall, c} => cpuHold'[t] = cpuHold[t]
             /\ running[t] \notin {NoCall, c} => running'[t] = running[t]]_vars
  BY ReleasesOwnStep
<1>2. QED
  BY <1>1, OwnershipInit, OwnershipStep, PTL DEF TrialSpec, ReleasesOnlyItsOwn

-----------------------------------------------------------------------------
\* Completions

\* Every completion that the scheduler may learn of is of a thread that ended.
ReportedAreDone ==
  \A c \in CallsIn(history) \cup CallsIn(report) \cup CallsIn(delivered) : pc[c] = "done"

LEMMA CallsInAppend ==
  ASSUME NEW h \in Seq(Call), NEW c \in Call
  PROVE  CallsIn(Newest(Append(h, c))) \subseteq CallsIn(h) \cup {c}
<1> DEFINE g == Append(h, c)
<1>1. g \in Seq(Call) /\ Len(g) = Len(h) + 1
      /\ \A i \in 1..Len(g) : g[i] \in CallsIn(h) \cup {c}
  BY DEF CallsIn
<1> HIDE DEF g
<1>2. ASSUME NEW i \in 1..Len(Newest(g)) PROVE \E j \in 1..Len(g) : Newest(g)[i] = g[j]
  BY <1>1, EdgeAssumption, SMTT(20) DEF Newest
<1>3. QED
  BY <1>1, <1>2 DEF CallsIn, g

LEMMA CallsInConcat ==
  ASSUME NEW g \in Seq(Call), NEW h \in Seq(Call)
  PROVE  CallsIn(g \o h) \subseteq CallsIn(g) \cup CallsIn(h)
BY DEF CallsIn

LEMMA ReportedStep ==
  TypeOK /\ ReportedAreDone /\ [TrialNext]_vars => ReportedAreDone'
<1> SUFFICES ASSUME TypeOK, ReportedAreDone, [TrialNext]_vars PROVE ReportedAreDone'
  OBVIOUS
<1> USE DEF callVars, engineVars, statusVars, resetVars
<1>1. ASSUME NEW c \in Call, Finish(c) PROVE ReportedAreDone'
  <2>1. CallsIn(history') \subseteq CallsIn(history) \cup {c}
    BY <1>1, CallsInAppend DEF Finish, TypeOK
  <2>2. /\ pc' = [pc EXCEPT ![c] = "done"]
        /\ UNCHANGED <<report, delivered>>
    BY <1>1 DEF Finish, Goto
  <2>3. CallsIn(report)' = CallsIn(report) /\ CallsIn(delivered)' = CallsIn(delivered)
    BY <2>2 DEF CallsIn
  <2>4. CallsIn(history)' \subseteq CallsIn(history) \cup {c}
    BY <2>1 DEF CallsIn
  <2>5. \A d \in CallsIn(history) \cup CallsIn(report) \cup CallsIn(delivered) \cup {c} : pc'[d] = "done"
    BY <2>2 DEF ReportedAreDone, TypeOK
  <2>6. QED
    BY <2>3, <2>4, <2>5 DEF ReportedAreDone
<1>2. ASSUME NEW c \in Call, Execute(c) \/ Progress(c), ~Finish(c) PROVE ReportedAreDone'
  <2>1. UNCHANGED <<history, report, delivered>>
    BY <1>2 DEF Execute, Progress, ReserveMemory, ReserveCpu, UndoMemory, Register,
                DupReleaseMemory, DupReleaseCpu, BeginRun, ReleaseMemory, ReleaseCpu
  <2>2. pc[c] # "done" /\ \E v : pc' = [pc EXCEPT ![c] = v]
    BY <1>2 DEF Execute, Progress, ReserveMemory, ReserveCpu, UndoMemory, Register,
                DupReleaseMemory, DupReleaseCpu, BeginRun, ReleaseMemory, ReleaseCpu, Goto
  <2>3. \A d : pc[d] = "done" => pc'[d] = "done"
    BY <2>2 DEF TypeOK
  <2>4. QED
    BY <2>1, <2>3 DEF ReportedAreDone, CallsIn
<1>3. CASE DrainCompletions
  <2>1. pc' = pc /\ report' = history /\ history' = <<>> /\ delivered' = delivered
    BY <1>3 DEF DrainCompletions
  <2>2. /\ CallsIn(report)' = CallsIn(history) /\ CallsIn(history)' = {}
        /\ CallsIn(delivered)' = CallsIn(delivered)
    BY <2>1 DEF CallsIn
  <2>3. QED
    BY <2>1, <2>2 DEF ReportedAreDone
<1>4. CASE CountActive
  <2>1. pc' = pc /\ report' = <<>> /\ history' = history /\ delivered' = delivered \o report
    BY <1>4 DEF CountActive
  <2>2. CallsIn(delivered \o report) \subseteq CallsIn(delivered) \cup CallsIn(report)
    BY CallsInConcat DEF TypeOK
  <2>3. /\ CallsIn(report)' = {} /\ CallsIn(history)' = CallsIn(history)
        /\ CallsIn(delivered)' = CallsIn(delivered \o report)
    BY <2>1 DEF CallsIn
  <2>4. QED
    BY <2>1, <2>2, <2>3 DEF ReportedAreDone
<1>5. CASE UNCHANGED vars \/ \E b \in Block : Inject(b) \/ Expire(b)
  <2>1. UNCHANGED <<pc, history, report, delivered>>
    BY <1>5 DEF Inject, Expire, vars
  <2>2. QED
    BY <2>1 DEF ReportedAreDone, CallsIn
<1>6. QED
  BY <1>1, <1>2, <1>3, <1>4, <1>5 DEF TrialNext

\* Within a trial a completion is never visible to GET /status before the
\* memory, the cores and the record of its call have been given back.
THEOREM EdgeFreedBeforeReported == TrialSpec => []FreedBeforeReported
<1>1. Init => ReportedAreDone
  BY DEF Init, ReportedAreDone, CallsIn
<1>2. Ownership /\ ReportedAreDone /\ [TrialNext]_vars => ReportedAreDone'
  BY ReportedStep DEF Ownership
<1>3. ASSUME Ownership, ReportedAreDone PROVE FreedBeforeReported
  <2>1. CallsIn(history) \cup CallsIn(report) \cup CallsIn(delivered) \subseteq Call
    BY <1>3 DEF Ownership, TypeOK, CallsIn
  <2>2. QED
    BY <1>3, <2>1 DEF Ownership, TypeOK, NoOrphanHold, ReportedAreDone, FreedBeforeReported,
                      HoldsMemory, HoldsCpu, HasRecord
<1>4. QED
  BY <1>1, <1>2, <1>3, OwnershipInit, OwnershipStep, PTL DEF TrialSpec

-----------------------------------------------------------------------------
\* Refinement

LEMMA PhaseNames ==
  /\ PhaseOf("idle") = "unused" /\ PhaseOf("rejected") = "refused"
  /\ \A stage \in {"start", "sleeping"} : PhaseOf(stage) = "running"
  /\ \A stage \in {"releaseCpu", "finish", "done", "gone"} : PhaseOf(stage) = "completed"
  /\ \A stage \in {"memory", "cpu", "undoMemory", "register", "dupMemory", "dupCpu"} :
       PhaseOf(stage) = "requested"
BY DEF PhaseOf

\* The tasks of the calls in the abstract phase "running".
RunningTasks == {task[c] : c \in {d \in Call : pc[d] \in {"start", "sleeping"}}}

LEMMA ExecutingIsRunning ==
  ASSUME TypeOK
  PROVE  Abstract!ExecutingTasks = RunningTasks
<1>1. \A c \in Call : PhaseOf(pc[c]) = "running" <=> pc[c] \in {"start", "sleeping"}
  BY PhaseNames DEF TypeOK, Stages, HoldsMemory, HoldsCpu, HasRecord
<1>2. QED
  BY <1>1 DEF Abstract!ExecutingTasks, Abstract!Executing, RunningTasks

\* What the running tasks and one that is being registered need is part of
\* what the two managers hold, so it fits.
LEMMA RegisteringFits ==
  ASSUME Ownership, CapacityRespected, NEW c \in Call, pc[c] = "register"
  PROVE  /\ task[c] \notin RunningTasks
         /\ Fits(RunningTasks \cup {task[c]})
<1> DEFINE S == RunningTasks \cup {task[c]}
<1>1. memHold[task[c]] = c /\ cpuHold[task[c]] = c
  BY DEF Ownership, OwnsWhatItMust, HoldsMemory, HoldsCpu
<1>2. \A d \in Call : pc[d] \in {"start", "sleeping"} => memHold[task[d]] = d /\ cpuHold[task[d]] = d
  BY DEF Ownership, OwnsWhatItMust, HoldsMemory, HoldsCpu
<1>3. task[c] \notin RunningTasks
  BY <1>1, <1>2 DEF RunningTasks
<1>4. S \subseteq Held(memHold) /\ S \subseteq Held(cpuHold)
  BY <1>1, <1>2, EdgeAssumption DEF RunningTasks, Held, Ownership, TypeOK
<1> HIDE DEF S
<1>5. LoadOf(S, MemoryKb) <= LoadOf(Held(memHold), MemoryKb)
  <2>1. IsFiniteSet(Held(memHold)) /\ \A x \in Held(memHold) : MemoryKb[x] \in Nat
    BY HeldIsSet, SizesAreNat
  <2>2. QED
    BY <1>4, <2>1, LoadMonotone
<1>6. LoadOf(S, Cores) <= LoadOf(Held(cpuHold), Cores)
  <2>1. IsFiniteSet(Held(cpuHold)) /\ \A x \in Held(cpuHold) : Cores[x] \in Nat
    BY HeldIsSet, SizesAreNat
  <2>2. QED
    BY <1>4, <2>1, LoadMonotone
<1>7. /\ LoadOf(S, MemoryKb) \in Nat /\ LoadOf(S, Cores) \in Nat
      /\ LoadOf(Held(memHold), MemoryKb) \in Nat /\ LoadOf(Held(cpuHold), Cores) \in Nat
  <2>1. S \in SUBSET Task
    BY <1>4, HeldIsSet
  <2>2. /\ IsFiniteSet(S) /\ IsFiniteSet(Held(memHold)) /\ IsFiniteSet(Held(cpuHold))
        /\ \A x \in Task : MemoryKb[x] \in Nat /\ Cores[x] \in Nat
    BY <2>1, HeldIsSet, SizesAreNat, EdgeAssumption
  <2>3. QED
    BY <2>1, <2>2, HeldIsSet, LoadIsNat
<1>8. LoadOf(S, MemoryKb) <= UsableRam /\ LoadOf(S, Cores) <= CpuCores
  BY <1>5, <1>6, <1>7, EdgeAssumption DEF CapacityRespected
<1>9. QED
  BY <1>3, <1>8 DEF Fits, S

\* A step of the node is a step of the contract or leaves it where it is.
LEMMA ContractStep ==
  Ownership /\ CapacityRespected /\ [TrialNext]_vars
    => [Abstract!Next]_(Abstract!contractVars)
<1> SUFFICES ASSUME Ownership, CapacityRespected, [TrialNext]_vars
             PROVE  [Abstract!Next]_(Abstract!contractVars)
  OBVIOUS
<1> DEFINE phase == [c \in Call |-> PhaseOf(pc[c])]
<1> USE DEF callVars, engineVars, statusVars, resetVars, Goto
<1>1. CASE UNCHANGED <<pc, task>>
  BY <1>1 DEF Abstract!contractVars
<1>2. ASSUME NEW c \in Call, Execute(c) \/ Progress(c)
      PROVE  [Abstract!Next]_(Abstract!contractVars)
  <2>1. task' = task /\ pc \in [Call -> Stages]
    BY <1>2 DEF Ownership, TypeOK, Execute, Progress, ReserveMemory, ReserveCpu, UndoMemory, Register,
                DupReleaseMemory, DupReleaseCpu, BeginRun, ReleaseMemory, ReleaseCpu, Finish
  <2>2. ASSUME NEW to, pc' = [pc EXCEPT ![c] = to]
        PROVE  phase' = [phase EXCEPT ![c] = PhaseOf(to)]
    BY <2>1, <2>2
  <2>3. ASSUME NEW to, pc' = [pc EXCEPT ![c] = to], PhaseOf(to) = PhaseOf(pc[c])
        PROVE  UNCHANGED Abstract!contractVars
    BY <2>1, <2>3 DEF Abstract!contractVars
  <2>4. ASSUME pc' = [pc EXCEPT ![c] = "memory"], pc[c] = "idle", task[c] \in Accepted
        PROVE  Abstract!Request(c)
    BY <2>1, <2>2, <2>4, PhaseNames DEF Abstract!Request
  <2>5. ASSUME pc' = [pc EXCEPT ![c] = "rejected"],
               \/ pc[c] = "idle" /\ task[c] \notin Accepted
               \/ pc[c] \in {"memory", "undoMemory", "dupCpu"}
        PROVE  Abstract!Refuse(c)
    BY <2>1, <2>2, <2>5, PhaseNames DEF Abstract!Refuse
  <2>6. CASE Execute(c)
    BY <2>4, <2>5, <2>6 DEF Execute, Abstract!Next
  <2>7. CASE ReserveMemory(c)
    BY <2>3, <2>5, <2>7, PhaseNames DEF ReserveMemory, Abstract!Next
  <2>8. CASE ReserveCpu(c)
    BY <2>3, <2>8, PhaseNames DEF ReserveCpu
  <2>9. CASE UndoMemory(c) \/ DupReleaseCpu(c)
    BY <2>5, <2>9 DEF UndoMemory, DupReleaseCpu, Abstract!Next
  <2>10. CASE Register(c)
    <3>1. CASE running[task[c]] # NoCall
      BY <2>3, <2>10, <3>1, PhaseNames DEF Register
    <3>2. CASE running[task[c]] = NoCall
      <4>1. pc[c] = "register" /\ pc' = [pc EXCEPT ![c] = "start"]
        BY <2>10, <3>2 DEF Register
      <4>2. /\ task[c] \notin Abstract!ExecutingTasks
            /\ Fits(Abstract!ExecutingTasks \cup {task[c]})
        BY <4>1, RegisteringFits, ExecutingIsRunning DEF Ownership
      <4>3. phase[c] = "requested" /\ phase' = [phase EXCEPT ![c] = "running"]
        <5>1. PhaseOf(pc[c]) = "requested" /\ PhaseOf("start") = "running"
          BY <4>1, PhaseNames
        <5>2. phase' = [phase EXCEPT ![c] = PhaseOf("start")]
          BY <2>2, <4>1
        <5>3. phase[c] = PhaseOf(pc[c])
          OBVIOUS
        <5>4. QED
          BY <5>1, <5>2, <5>3
      <4>4. Abstract!Admit(c)
        BY <2>1, <4>2, <4>3 DEF Abstract!Admit
      <4>5. QED
        BY <4>4 DEF Abstract!Next
    <3>3. QED
      BY <3>1, <3>2
  <2>11. CASE DupReleaseMemory(c)
    BY <2>3, <2>11, PhaseNames DEF DupReleaseMemory
  <2>12. CASE BeginRun(c)
    <3>1. running[task[c]] # NoCall
      BY <2>12, EdgeAssumption DEF BeginRun, Ownership, OwnsWhatItMust, HasRecord
    <3>2. QED
      BY <2>3, <2>12, <3>1, PhaseNames DEF BeginRun
  <2>13. CASE ReleaseMemory(c)
    <3>1. phase[c] = "running" /\ phase' = [phase EXCEPT ![c] = "completed"]
      <4>1. pc[c] = "sleeping" /\ pc' = [pc EXCEPT ![c] = "releaseCpu"]
        BY <2>13 DEF ReleaseMemory
      <4>2. PhaseOf(pc[c]) = "running" /\ PhaseOf("releaseCpu") = "completed"
        BY <4>1, PhaseNames
      <4>3. phase' = [phase EXCEPT ![c] = PhaseOf("releaseCpu")]
        BY <2>2, <4>1
      <4>4. phase[c] = PhaseOf(pc[c])
        OBVIOUS
      <4>5. QED
        BY <4>2, <4>3, <4>4
    <3>2. Abstract!Complete(c)
      BY <2>1, <3>1 DEF Abstract!Complete
    <3>3. QED
      BY <3>2 DEF Abstract!Next
  <2>14. CASE ReleaseCpu(c) \/ Finish(c)
    BY <2>3, <2>14, PhaseNames DEF ReleaseCpu, Finish
  <2>15. QED
    BY <1>2, <2>6, <2>7, <2>8, <2>9, <2>10, <2>11, <2>12, <2>13, <2>14 DEF Progress
<1>3. CASE \/ DrainCompletions \/ CountActive \/ UNCHANGED vars
           \/ \E b \in Block : Inject(b) \/ Expire(b)
  <2>1. UNCHANGED <<pc, task>>
    BY <1>3 DEF DrainCompletions, CountActive, Inject, Expire, vars
  <2>2. QED
    BY <1>1, <2>1
<1>4. QED
  BY <1>2, <1>3 DEF TrialNext

\* Within a trial the node, with its two locks and its unwinding, admits and
\* completes tasks as the atomic contract allows.
THEOREM EdgeImplements == TrialSpec => ImplementsContract
<1>1. Init => Abstract!Init
  BY PhaseNames DEF Init, Abstract!Init
<1>2. TrialSpec => Spec
  <2>1. [TrialNext]_vars => [Next]_vars
    BY DEF Next
  <2>2. QED
    BY <2>1, PTL DEF TrialSpec, Spec
<1>3. QED
  BY <1>1, <1>2, EdgeCapacity, ContractStep, OwnershipInit, OwnershipStep, PTL
  DEF TrialSpec, ImplementsContract, Abstract!Contract

-----------------------------------------------------------------------------
\* Refusals

\* What the two managers hold is held for calls in progress.
LEMMA HeldInProgress ==
  ASSUME Ownership
  PROVE  /\ \A t \in Held(memHold) : memHold[t] \in InProgress /\ task[memHold[t]] = t
         /\ \A t \in Held(cpuHold) : cpuHold[t] \in InProgress /\ task[cpuHold[t]] = t
<1>1. {c \in Call : pc[c] \in HoldsMemory \cup HoldsCpu} \subseteq InProgress
  BY DEF InProgress, HoldsMemory, HoldsCpu
<1>2. ASSUME NEW t \in Held(memHold)
      PROVE  /\ memHold[t] \in Call
             /\ task[memHold[t]] = t /\ pc[memHold[t]] \in HoldsMemory
  BY DEF Ownership, TypeOK, NoOrphanHold, Held
<1>3. ASSUME NEW t \in Held(cpuHold)
      PROVE  /\ cpuHold[t] \in Call
             /\ task[cpuHold[t]] = t /\ pc[cpuHold[t]] \in HoldsCpu
  BY DEF Ownership, TypeOK, NoOrphanHold, Held
<1>4. QED
  BY <1>1, <1>2, <1>3

\* The grounds on which a call of an accepted class may be refused.
RefusalGrounds(c) ==
  LET S == {task[d] : d \in InProgress}
  IN  \/ \E d \in InProgress \ {c} : task[d] = task[c]
      \/ LoadOf(S, MemoryKb) + LoadOf(injected, BlockKb) > UsableRam
      \/ LoadOf(S, Cores) > CpuCores

\* What one more task of the calls in progress would bring a manager to is no
\* more than all of them need.
LEMMA NeededByAll ==
  ASSUME TypeOK, NEW R \in SUBSET Task, NEW t \in Task, t \notin R,
         R \cup {t} \subseteq {task[d] : d \in InProgress},
         NEW size \in [Task -> Nat]
  PROVE  /\ LoadOf(R, size) \in Nat
         /\ LoadOf({task[d] : d \in InProgress}, size) \in Nat
         /\ LoadOf(R, size) + size[t] <= LoadOf({task[d] : d \in InProgress}, size)
<1> DEFINE S == {task[d] : d \in InProgress}
<1>1. S \in SUBSET Task /\ R \cup {t} \in SUBSET S
  BY DEF TypeOK, InProgress
<1> HIDE DEF S
<1>2. IsFiniteSet(S) /\ IsFiniteSet(R)
  BY <1>1, SizesAreNat
<1>3. LoadOf(R \cup {t}, size) = LoadOf(R, size) + size[t]
  BY <1>2, LoadAddsSize
<1>4. LoadOf(R \cup {t}, size) <= LoadOf(S, size)
  BY <1>1, <1>2, LoadMonotone
<1>5. LoadOf(R, size) \in Nat /\ LoadOf(S, size) \in Nat
  BY <1>1, <1>2, LoadIsNat
<1>6. QED
  BY <1>3, <1>4, <1>5 DEF S

LEMMA MemoryRefused ==
  ASSUME Ownership, NEW c \in Call, pc[c] = "memory", ~MemoryFits(task[c])
  PROVE  RefusalGrounds(c)
<1> DEFINE t == task[c]
           S == {task[d] : d \in InProgress}
<1>1. TypeOK /\ t \in Task /\ c \in InProgress
  BY DEF Ownership, TypeOK, InProgress
<1>2. CASE memHold[t] # NoCall
  <2>1. memHold[t] \in InProgress /\ task[memHold[t]] = t
    BY <1>1, <1>2, HeldInProgress DEF Held
  <2>2. memHold[t] # c
    BY <1>1 DEF Ownership, NoOrphanHold, HoldsMemory
  <2>3. QED
    BY <2>1, <2>2 DEF RefusalGrounds
<1>3. CASE memHold[t] = NoCall
  <2>1. ~(UsedRam + MemoryKb[t] <= UsableRam)
    BY <1>3 DEF MemoryFits
  <2>2. Held(memHold) \cup {t} \subseteq S /\ t \notin Held(memHold)
    BY <1>1, <1>3, HeldInProgress DEF Held
  <2>3. MemoryKb \in [Task -> Nat] /\ MemoryKb[t] \in Nat
    BY <1>1, EdgeAssumption
  <2> HIDE DEF S, t
  <2>4. /\ LoadOf(Held(memHold), MemoryKb) \in Nat /\ LoadOf(S, MemoryKb) \in Nat
        /\ LoadOf(Held(memHold), MemoryKb) + MemoryKb[t] <= LoadOf(S, MemoryKb)
    BY <1>1, <2>2, <2>3, HeldIsSet, NeededByAll DEF S
  <2>5. LoadOf(injected, BlockKb) \in Nat
    <3>1. IsFiniteSet(injected) /\ \A x \in injected : BlockKb[x] \in Nat
      BY <1>1, EdgeAssumption, FS_Subset DEF TypeOK
    <3>2. QED
      BY <3>1, LoadIsNat
  <2>6. LoadOf(S, MemoryKb) + LoadOf(injected, BlockKb) > UsableRam
    BY <2>1, <2>3, <2>4, <2>5, EdgeAssumption DEF UsedRam
  <2>7. QED
    BY <2>6 DEF RefusalGrounds, S
<1>4. QED
  BY <1>2, <1>3

LEMMA CpuRefused ==
  ASSUME Ownership, NEW c \in Call, pc[c] = "cpu", ~CpuFits(task[c])
  PROVE  RefusalGrounds(c)
<1> DEFINE t == task[c]
           S == {task[d] : d \in InProgress}
<1>1. TypeOK /\ t \in Task /\ c \in InProgress
  BY DEF Ownership, TypeOK, InProgress
<1>2. CASE cpuHold[t] # NoCall
  <2>1. cpuHold[t] \in InProgress /\ task[cpuHold[t]] = t
    BY <1>1, <1>2, HeldInProgress DEF Held
  <2>2. cpuHold[t] # c
    BY <1>1 DEF Ownership, NoOrphanHold, HoldsCpu
  <2>3. QED
    BY <2>1, <2>2 DEF RefusalGrounds
<1>3. CASE cpuHold[t] = NoCall
  <2>1. ~(UsedCores + Cores[t] <= CpuCores)
    BY <1>3 DEF CpuFits
  <2>2. Held(cpuHold) \cup {t} \subseteq S /\ t \notin Held(cpuHold)
    BY <1>1, <1>3, HeldInProgress DEF Held
  <2>3. Cores \in [Task -> Nat] /\ Cores[t] \in Nat
    BY <1>1, EdgeAssumption
  <2> HIDE DEF S, t
  <2>4. /\ LoadOf(Held(cpuHold), Cores) \in Nat /\ LoadOf(S, Cores) \in Nat
        /\ LoadOf(Held(cpuHold), Cores) + Cores[t] <= LoadOf(S, Cores)
    BY <1>1, <2>2, <2>3, HeldIsSet, NeededByAll DEF S
  <2>5. LoadOf(S, Cores) > CpuCores
    BY <2>1, <2>3, <2>4, EdgeAssumption DEF UsedCores
  <2>6. QED
    BY <2>5 DEF RefusalGrounds, S
<1>4. QED
  BY <1>2, <1>3

LEMMA DuplicateRefused ==
  ASSUME Ownership, NEW c \in Call, pc[c] = "register", running[task[c]] # NoCall
  PROVE  RefusalGrounds(c)
<1> DEFINE d == running[task[c]]
<1>1. d \in Call /\ task[d] = task[c] /\ pc[d] \in HasRecord
  BY DEF Ownership, TypeOK, NoOrphanHold
<1>2. d \in InProgress /\ d # c
  BY <1>1 DEF InProgress, HasRecord
<1>3. QED
  BY <1>1, <1>2 DEF RefusalGrounds

LEMMA RefusedStep ==
  ASSUME Ownership, [TrialNext]_vars, NEW c \in Call,
         pc[c] \in {"memory", "cpu", "register"},
         pc'[c] \in {"rejected", "undoMemory", "dupMemory"}
  PROVE  RefusalGrounds(c)
<1> USE DEF callVars, engineVars, statusVars, resetVars, Goto
<1>1. pc \in [Call -> Stages] /\ pc'[c] # pc[c]
  BY DEF Ownership, TypeOK
<1>2. ASSUME NEW d \in Call, Execute(d) \/ Progress(d) PROVE d = c
  <2>1. \E v : pc' = [pc EXCEPT ![d] = v]
    BY <1>2 DEF Execute, Progress, ReserveMemory, ReserveCpu, UndoMemory, Register,
                DupReleaseMemory, DupReleaseCpu, BeginRun, ReleaseMemory, ReleaseCpu, Finish
  <2>2. QED
    BY <1>1, <2>1
<1>3. ~(\/ DrainCompletions \/ CountActive \/ UNCHANGED vars
        \/ \E b \in Block : Inject(b) \/ Expire(b))
  BY <1>1 DEF DrainCompletions, CountActive, Inject, Expire, vars
<1>4. Execute(c) \/ Progress(c)
  BY <1>2, <1>3 DEF TrialNext
<1>5. CASE ReserveMemory(c)
  BY <1>1, <1>5, MemoryRefused DEF ReserveMemory
<1>6. CASE ReserveCpu(c)
  BY <1>1, <1>6, CpuRefused DEF ReserveCpu
<1>7. CASE Register(c)
  BY <1>1, <1>7, DuplicateRefused DEF Register
<1>8. CASE \/ Execute(c) \/ UndoMemory(c) \/ DupReleaseMemory(c) \/ DupReleaseCpu(c)
           \/ BeginRun(c) \/ ReleaseMemory(c) \/ ReleaseCpu(c) \/ Finish(c)
  BY <1>8 DEF Execute, UndoMemory, DupReleaseMemory, DupReleaseCpu, BeginRun,
              ReleaseMemory, ReleaseCpu, Finish
<1>9. QED
  BY <1>4, <1>5, <1>6, <1>7, <1>8 DEF Progress

\* Within a trial a call of an accepted class is refused only because the calls
\* in progress do not fit beside the injections or are for the same task: no
\* order of unwinding and finishing leaves less room than that.
THEOREM EdgeRefusesOnlyWhenFull == TrialSpec => RefusedOnlyWhenFull
<1>1. Ownership /\ [TrialNext]_vars =>
        [\A c \in Call :
           pc[c] \in {"memory", "cpu", "register"}
             /\ pc'[c] \in {"rejected", "undoMemory", "dupMemory"} =>
             LET S == {task[d] : d \in InProgress}
             IN  \/ \E d \in InProgress \ {c} : task[d] = task[c]
                 \/ LoadOf(S, MemoryKb) + LoadOf(injected, BlockKb) > UsableRam
                 \/ LoadOf(S, Cores) > CpuCores]_vars
  BY RefusedStep DEF RefusalGrounds
<1>2. QED
  BY <1>1, OwnershipInit, OwnershipStep, PTL DEF TrialSpec, RefusedOnlyWhenFull

-----------------------------------------------------------------------------
\* Completions are reported once

Positions(c, h) == {i \in 1..Len(h) : h[i] = c}

LEMMA TimesIsNat ==
  ASSUME NEW h \in Seq(Call), NEW c
  PROVE  /\ IsFiniteSet(Positions(c, h))
         /\ Times(c, h) = Cardinality(Positions(c, h)) /\ Times(c, h) \in Nat
<1>1. IsFiniteSet(1..Len(h)) /\ Positions(c, h) \in SUBSET (1..Len(h))
  BY FS_Interval DEF Positions
<1>2. IsFiniteSet(Positions(c, h))
  BY <1>1, FS_Subset
<1>3. QED
  BY <1>2, FS_CardinalityType DEF Times, Positions

LEMMA TimesInNone == ASSUME NEW c PROVE Times(c, <<>>) = 0
<1>1. {i \in 1..Len(<<>>) : <<>>[i] = c} = {}
  OBVIOUS
<1>2. QED
  BY <1>1, FS_EmptySet DEF Times

LEMMA TimesAppend ==
  ASSUME NEW h \in Seq(Call), NEW c \in Call, NEW d \in Call
  PROVE  Times(d, Append(h, c)) = IF d = c THEN Times(d, h) + 1 ELSE Times(d, h)
<1> DEFINE g == Append(h, c)
           n == Len(h) + 1
<1>1. g \in Seq(Call) /\ Len(g) = n /\ g[n] = c /\ n \notin Positions(d, h)
      /\ \A i \in 1..Len(h) : g[i] = h[i]
  BY DEF Positions
<1>2. 1..n = (1..Len(h)) \cup {n}
  OBVIOUS
<1> HIDE DEF g, n
<1>3. Positions(d, g) = IF d = c THEN Positions(d, h) \cup {n} ELSE Positions(d, h)
  BY <1>1, <1>2 DEF Positions
<1>4. /\ IsFiniteSet(Positions(d, h)) /\ Times(d, h) = Cardinality(Positions(d, h))
      /\ Times(d, h) \in Nat /\ Times(d, g) = Cardinality(Positions(d, g))
  BY <1>1, TimesIsNat
<1>5. Cardinality(Positions(d, h) \cup {n}) = Cardinality(Positions(d, h)) + 1
  BY <1>1, <1>4, FS_AddElement
<1>6. QED
  BY <1>3, <1>4, <1>5 DEF g

\* Dropping the oldest entry reports no call more often.
LEMMA TimesInTail ==
  ASSUME NEW h \in Seq(Call), h # <<>>, NEW c \in Call
  PROVE  /\ SubSeq(h, 2, Len(h)) \in Seq(Call)
         /\ Times(c, SubSeq(h, 2, Len(h))) <= Times(c, h)
<1> DEFINE g == SubSeq(h, 2, Len(h))
           P == Positions(c, g)
           Q == Positions(c, h)
           f == [i \in P |-> i + 1]
<1>1. g \in Seq(Call) /\ Len(g) = Len(h) - 1 /\ \A i \in 1..Len(g) : g[i] = h[i + 1]
  OBVIOUS
<1> HIDE DEF g
<1>2. \A i \in P : i \in Int /\ i + 1 \in Q
  BY <1>1 DEF Positions
<1>3. f \in Injection(P, Q)
  BY <1>2 DEF Injection, IsInjective
<1>4. /\ IsFiniteSet(Q) /\ Times(c, h) = Cardinality(Q)
      /\ Times(c, g) = Cardinality(P)
  BY <1>1, TimesIsNat
<1> HIDE DEF P, Q, f
<1>5. Cardinality(P) <= Cardinality(Q)
  BY <1>3, <1>4, FS_Injection
<1>6. QED
  BY <1>1, <1>4, <1>5 DEF g

LEMMA TimesInConcat ==
  ASSUME NEW g \in Seq(Call), NEW h \in Seq(Call), NEW c \in Call
  PROVE  Times(c, g \o h) = Times(c, g) + Times(c, h)
<1> DEFINE k == g \o h
           P == Positions(c, g)
           Q == Positions(c, h)
           R == {Len(g) + i : i \in Q}
           f == [i \in Q |-> Len(g) + i]
<1>1. k \in Seq(Call) /\ Len(k) = Len(g) + Len(h)
      /\ (\A i \in 1..Len(g) : k[i] = g[i])
      /\ (\A i \in 1..Len(h) : k[Len(g) + i] = h[i])
  OBVIOUS
<1> HIDE DEF k
<1>2. \A i \in 1..Len(k) : i \in 1..Len(g) \/ \E j \in 1..Len(h) : i = Len(g) + j
  <2>1. SUFFICES ASSUME NEW i \in 1..Len(k), i \notin 1..Len(g)
                 PROVE  \E j \in 1..Len(h) : i = Len(g) + j
    OBVIOUS
  <2>2. i - Len(g) \in 1..Len(h) /\ i = Len(g) + (i - Len(g))
    BY <1>1, <2>1
  <2>3. QED
    BY <2>2
<1>3. Positions(c, k) \subseteq P \cup R
  BY <1>1, <1>2 DEF Positions
<1>4. P \cup R \subseteq Positions(c, k) /\ P \cap R = {}
  BY <1>1 DEF Positions
<1>5. f \in Bijection(Q, R)
  <2>1. Q \subseteq Int
    BY DEF Positions
  <2>2. QED
    BY <2>1 DEF Bijection, Injection, Surjection, IsInjective
<1>6. IsFiniteSet(R) /\ Cardinality(R) = Cardinality(Q)
  BY <1>5, TimesIsNat, FS_Bijection DEF ExistsBijection
<1>7. Positions(c, k) = P \cup R
  BY <1>3, <1>4
<1> HIDE DEF P, Q, R, f
<1>8. IsFiniteSet(P) /\ IsFiniteSet(Q) /\ Times(c, g) = Cardinality(P) /\ Times(c, h) = Cardinality(Q)
      /\ Times(c, k) = Cardinality(P \cup R) /\ Cardinality(P) \in Nat /\ Cardinality(Q) \in Nat
  BY <1>1, <1>7, TimesIsNat DEF P, Q
<1>9. Cardinality(P \cup R) = Cardinality(P) + Cardinality(R) - Cardinality({})
  BY <1>4, <1>6, <1>8, FS_Union
<1>10. QED
  BY <1>6, <1>8, <1>9, FS_EmptySet DEF k

\* A history in which no call occurs twice is as long as it has calls.
LEMMA AllDifferent ==
  ASSUME NEW h \in Seq(Call), \A c \in Call : Times(c, h) <= 1,
         NEW S \in SUBSET Call, CallsIn(h) \subseteq S
  PROVE  Len(h) <= Cardinality(S)
<1>1. IsFiniteSet(S) /\ Cardinality(S) \in Nat
  BY EdgeAssumption, FS_Subset, FS_CardinalityType
<1>2. IsFiniteSet(1..Len(h)) /\ Cardinality(1..Len(h)) = Len(h)
  <2>1. Len(h) \in Nat
    OBVIOUS
  <2>2. QED
    BY <2>1, FS_Interval
<1>3. SUFFICES ASSUME Cardinality(S) < Len(h) PROVE FALSE
  BY <1>1
<1> DEFINE f == [i \in 1..Len(h) |-> h[i]]
<1>4. f \in [1..Len(h) -> S]
  BY DEF CallsIn
<1>5. PICK i \in 1..Len(h), j \in 1..Len(h) : i # j /\ f[i] = f[j]
  <2> HIDE DEF f
  <2>1. QED
    BY <1>1, <1>2, <1>3, <1>4, FS_PigeonHole
<1>6. {i, j} \in SUBSET Positions(h[i], h) /\ h[i] \in Call
  BY <1>5 DEF Positions
<1>7. IsFiniteSet({i, j}) /\ Cardinality({i, j}) = 2
  <2>1. IsFiniteSet({i}) /\ Cardinality({i}) = 1
    BY FS_Singleton
  <2>2. {i, j} = {i} \cup {j} /\ j \notin {i}
    BY <1>5
  <2>3. IsFiniteSet({i} \cup {j}) /\ Cardinality({i} \cup {j}) = 1 + 1
    BY <2>1, <2>2, FS_AddElement
  <2>4. QED
    BY <2>2, <2>3
<1>8. 2 <= Times(h[i], h)
  BY <1>6, <1>7, TimesIsNat, FS_Subset
<1>9. QED
  BY <1>6, <1>8, TimesIsNat

\* How often the completion of a call has been, or is about to be, reported.
Reported(c) == Times(c, history) + Times(c, report) + Times(c, delivered)

DoneCalls == {d \in Call : pc[d] = "done"}

LEMMA ReportedIsNat ==
  ASSUME TypeOK
  PROVE  \A c : /\ Times(c, history) \in Nat /\ Times(c, report) \in Nat
                /\ Times(c, delivered) \in Nat
BY TimesIsNat DEF TypeOK

\* A step that reports nothing anew and finishes nothing leaves the reports
\* as they were.
LEMMA OnceKept ==
  ASSUME CompletionReportedOnce,
         \A c \in Call : Reported(c)' = Reported(c),
         \A c \in Call : pc'[c] = "done" <=> pc[c] = "done"
  PROVE  CompletionReportedOnce'
<1>1. {d \in Call : pc'[d] = "done"} = {d \in Call : pc[d] = "done"}
  OBVIOUS
<1>2. QED
  BY <1>1 DEF CompletionReportedOnce, Reported

\* What finishing does to the history: one more entry, and the oldest goes only
\* when that is one too many, with more calls done than the history keeps.
LEMMA FinishReports ==
  ASSUME TypeOK, CompletionReportedOnce, NEW c \in Call, Finish(c)
  PROVE  CompletionReportedOnce'
<1> DEFINE g == Append(history, c)
<1>1. /\ pc[c] = "finish" /\ pc' = [pc EXCEPT ![c] = "done"]
      /\ history' = Newest(g) /\ UNCHANGED <<report, delivered>>
      /\ history \in Seq(Call) /\ Len(history) <= HistoryCap
  BY DEF Finish, Goto, TypeOK, statusVars
<1>2. g \in Seq(Call) /\ Len(g) = Len(history) + 1 /\ Len(history) \in Nat
  BY <1>1
<1>3. \A d \in Call : Times(d, g) = IF d = c THEN Times(d, history) + 1 ELSE Times(d, history)
  BY <1>1, TimesAppend
<1> HIDE DEF g
<1>4. \A d \in Call : Times(d, history) \in Nat /\ Times(d, report) \in Nat /\ Times(d, delivered) \in Nat
  BY ReportedIsNat
<1>0. \A d \in Call : /\ Reported(d) <= 1
                      /\ Reported(d) = 1 => pc[d] = "done"
  BY DEF CompletionReportedOnce, Reported
<1>5. Times(c, history) = 0 /\ Times(c, report) = 0 /\ Times(c, delivered) = 0
  <2>1. Reported(c) # 1
    BY <1>0, <1>1
  <2>2. QED
    BY <1>0, <1>4, <2>1 DEF Reported
<1>6. \A d \in Call : pc'[d] = "done" <=> (pc[d] = "done" \/ d = c)
  BY <1>1 DEF TypeOK
<1>7. ASSUME NEW d \in Call
      PROVE  /\ Times(d, g) + Times(d, report) + Times(d, delivered) <= 1
             /\ Times(d, g) + Times(d, report) + Times(d, delivered) = 1 => pc'[d] = "done"
  <2>1. CASE d = c
    BY <1>3, <1>5, <1>6, <2>1
  <2>2. CASE d # c
    <3>1. Times(d, g) + Times(d, report) + Times(d, delivered) = Reported(d)
      BY <1>3, <2>2 DEF Reported
    <3>2. QED
      BY <1>0, <1>6, <3>1
  <2>3. QED
    BY <2>1, <2>2
<1>8. CASE Len(g) <= HistoryCap
  <2>1. Newest(g) = g
    BY <1>2, <1>8, EdgeAssumption DEF Newest
  <2>2. DoneCalls \subseteq DoneCalls'
    BY <1>6 DEF DoneCalls
  <2>3. Cardinality(DoneCalls) <= Cardinality(DoneCalls')
        /\ Cardinality(DoneCalls) \in Nat /\ Cardinality(DoneCalls') \in Nat
    <3>1. IsFiniteSet(DoneCalls') /\ IsFiniteSet(DoneCalls)
      BY EdgeAssumption, FS_Subset DEF DoneCalls
    <3>2. QED
      BY <2>2, <3>1, FS_Subset, FS_CardinalityType
  <2>4. ASSUME NEW d \in Call
        PROVE  (pc'[d] = "done" /\ Times(d, g) + Times(d, report) + Times(d, delivered) = 0)
                 => Cardinality(DoneCalls') > HistoryCap
    <3>1. SUFFICES ASSUME pc'[d] = "done",
                          Times(d, g) + Times(d, report) + Times(d, delivered) = 0
                   PROVE  Cardinality(DoneCalls') > HistoryCap
      OBVIOUS
    <3>2. pc[d] = "done" /\ Times(d, history) + Times(d, report) + Times(d, delivered) = 0
      BY <1>3, <1>4, <1>6, <3>1
    <3>3. Cardinality(DoneCalls) > HistoryCap
      BY <3>2 DEF CompletionReportedOnce, DoneCalls
    <3>4. QED
      BY <2>3, <3>3, EdgeAssumption
  <2>5. \A d : /\ Times(d, history)' = Times(d, g) /\ Times(d, report)' = Times(d, report)
               /\ Times(d, delivered)' = Times(d, delivered)
    BY <1>1, <2>1 DEF Times
  <2>6. QED
    BY <1>7, <2>4, <2>5 DEF CompletionReportedOnce, DoneCalls
<1>9. CASE Len(g) > HistoryCap
  <2>1. Newest(g) = SubSeq(g, 2, Len(g)) /\ Len(g) = HistoryCap + 1
    BY <1>1, <1>2, <1>9, EdgeAssumption DEF Newest
  <2>2. Newest(g) \in Seq(Call) /\ \A d \in Call : Times(d, Newest(g)) <= Times(d, g)
    <3>1. g # <<>>
      BY <1>2
    <3>2. QED
      BY <1>2, <2>1, <3>1, TimesInTail
  <2>3. \A d \in Call : Times(d, g) \in Nat /\ Times(d, Newest(g)) \in Nat
    BY <1>2, <2>2, TimesIsNat
  <2>4. \A d \in Call : Times(d, g) <= 1
    BY <1>4, <1>7, <2>3
  <2>5. CallsIn(g) \subseteq DoneCalls'
    <3>1. SUFFICES ASSUME NEW i \in 1..Len(g) PROVE g[i] \in DoneCalls'
      BY DEF CallsIn
    <3>2. g[i] \in Call /\ i \in Positions(g[i], g)
      BY <1>2 DEF Positions
    <3>3. Times(g[i], g) # 0
      <4>1. Positions(g[i], g) # {}
        BY <3>2
      <4>2. QED
        BY <1>2, <4>1, TimesIsNat, FS_EmptySet
    <3>4. pc'[g[i]] = "done"
      <4> DEFINE d == g[i]
      <4>1. Times(d, g) = 1 /\ Times(d, report) \in Nat /\ Times(d, delivered) \in Nat
        BY <1>4, <2>3, <2>4, <3>2, <3>3
      <4>2. Times(d, g) + Times(d, report) + Times(d, delivered) = 1
        BY <1>7, <3>2, <4>1
      <4>3. QED
        BY <1>7, <3>2, <4>2
    <3>5. QED
      BY <3>2, <3>4 DEF DoneCalls
  <2>6. Cardinality(DoneCalls') > HistoryCap
    <3>1. DoneCalls' \in SUBSET Call
      BY DEF DoneCalls
    <3>2. Len(g) <= Cardinality(DoneCalls') /\ Cardinality(DoneCalls') \in Nat
      BY <1>2, <2>4, <2>5, <3>1, AllDifferent, EdgeAssumption, FS_Subset, FS_CardinalityType
    <3>3. QED
      BY <2>1, <3>2, EdgeAssumption
  <2>7. ASSUME NEW d \in Call
        PROVE  /\ Times(d, Newest(g)) + Times(d, report) + Times(d, delivered) <= 1
               /\ Times(d, Newest(g)) + Times(d, report) + Times(d, delivered) = 1
                    => pc'[d] = "done"
    BY <1>4, <1>7, <2>2, <2>3, SMTT(20)
  <2>8. \A d : /\ Times(d, history)' = Times(d, Newest(g)) /\ Times(d, report)' = Times(d, report)
               /\ Times(d, delivered)' = Times(d, delivered)
    BY <1>1 DEF Times
  <2>9. QED
    BY <2>6, <2>7, <2>8 DEF CompletionReportedOnce, DoneCalls
<1>10. QED
  BY <1>2, <1>8, <1>9, EdgeAssumption

\* A GET /status begins with an empty answer, so the drain overwrites nothing.
NothingLeftOver == statusPc = "idle" => report = <<>>

LEMMA NothingLeftOverStep == NothingLeftOver /\ [TrialNext]_vars => NothingLeftOver'
BY DEF NothingLeftOver, TrialNext, Execute, Progress, ReserveMemory, ReserveCpu, UndoMemory,
       Register, DupReleaseMemory, DupReleaseCpu, BeginRun, ReleaseMemory, ReleaseCpu, Finish,
       DrainCompletions, CountActive, Inject, Expire,
       vars, callVars, engineVars, statusVars, resetVars

LEMMA OnceStep ==
  TypeOK /\ NothingLeftOver /\ CompletionReportedOnce /\ [TrialNext]_vars
    => CompletionReportedOnce'
<1> SUFFICES ASSUME TypeOK, NothingLeftOver, CompletionReportedOnce, [TrialNext]_vars
             PROVE  CompletionReportedOnce'
  OBVIOUS
<1> USE DEF callVars, engineVars, statusVars, resetVars
<1>1. ASSUME NEW c \in Call, Finish(c) PROVE CompletionReportedOnce'
  BY <1>1, FinishReports
<1>2. ASSUME NEW c \in Call, Execute(c) \/ Progress(c), ~Finish(c)
      PROVE  CompletionReportedOnce'
  <2>1. UNCHANGED <<history, report, delivered>>
    BY <1>2 DEF Execute, Progress, ReserveMemory, ReserveCpu, UndoMemory, Register,
                DupReleaseMemory, DupReleaseCpu, BeginRun, ReleaseMemory, ReleaseCpu
  <2>2. pc[c] # "done" /\ \E v : pc' = [pc EXCEPT ![c] = v] /\ v # "done"
    BY <1>2 DEF Execute, Progress, ReserveMemory, ReserveCpu, UndoMemory, Register,
                DupReleaseMemory, DupReleaseCpu, BeginRun, ReleaseMemory, ReleaseCpu, Goto
  <2>3. \A d \in Call : pc'[d] = "done" <=> pc[d] = "done"
    BY <2>2 DEF TypeOK
  <2>4. \A d \in Call : Reported(d)' = Reported(d)
    BY <2>1 DEF Reported, Times
  <2>5. QED
    BY <2>3, <2>4, OnceKept
<1>3. CASE DrainCompletions
  <2>1. pc' = pc /\ report' = history /\ history' = <<>> /\ delivered' = delivered
        /\ statusPc = "idle"
    BY <1>3 DEF DrainCompletions
  <2>2. \A d \in Call : Times(d, report) = 0
    BY <2>1, TimesInNone DEF NothingLeftOver
  <2>3. \A d \in Call : /\ Times(d, history)' = 0 /\ Times(d, report)' = Times(d, history)
                        /\ Times(d, delivered)' = Times(d, delivered)
    <3>1. \A d \in Call : /\ Times(d, history)' = Times(d, <<>>)
                          /\ Times(d, report)' = Times(d, history)
                          /\ Times(d, delivered)' = Times(d, delivered)
      BY <2>1 DEF Times
    <3>2. QED
      BY <3>1, TimesInNone
  <2>4. \A d \in Call : Reported(d)' = Reported(d)
    BY <2>2, <2>3, ReportedIsNat DEF Reported
  <2>5. QED
    BY <2>1, <2>4, OnceKept
<1>4. CASE CountActive
  <2>1. pc' = pc /\ report' = <<>> /\ history' = history /\ delivered' = delivered \o report
    BY <1>4 DEF CountActive
  <2>2. \A d \in Call : /\ Times(d, delivered \o report) = Times(d, delivered) + Times(d, report)
                        /\ Times(d, <<>>) = 0
    BY TimesInConcat, TimesInNone DEF TypeOK
  <2>3. \A d \in Call : /\ Times(d, history)' = Times(d, history) /\ Times(d, report)' = Times(d, <<>>)
               /\ Times(d, delivered)' = Times(d, delivered \o report)
    BY <2>1 DEF Times
  <2>4. \A d \in Call : Reported(d)' = Reported(d)
    BY <2>2, <2>3, ReportedIsNat DEF Reported
  <2>5. QED
    BY <2>1, <2>4, OnceKept
<1>5. CASE UNCHANGED vars \/ \E b \in Block : Inject(b) \/ Expire(b)
  <2>1. UNCHANGED <<pc, history, report, delivered>>
    BY <1>5 DEF Inject, Expire, vars
  <2>2. \A d \in Call : Reported(d)' = Reported(d)
    BY <2>1 DEF Reported, Times
  <2>3. QED
    BY <2>1, <2>2, OnceKept
<1>6. QED
  BY <1>1, <1>2, <1>3, <1>4, <1>5 DEF TrialNext

LEMMA OnceInit == Init => NothingLeftOver /\ CompletionReportedOnce
<1> SUFFICES ASSUME Init PROVE NothingLeftOver /\ CompletionReportedOnce
  OBVIOUS
<1>1. \A c : Times(c, history) = 0 /\ Times(c, report) = 0 /\ Times(c, delivered) = 0
  BY TimesInNone DEF Init
<1>2. \A c \in Call : pc[c] # "done"
  BY DEF Init
<1>3. QED
  BY <1>1, <1>2 DEF Init, NothingLeftOver, CompletionReportedOnce

\* Within a trial each completion is reported to GET /status once, and one goes
\* missing only when more calls have finished than the history keeps.
THEOREM EdgeReportsOnce == TrialSpec => []CompletionReportedOnce
<1>1. TypeOK /\ [TrialNext]_vars => TypeOK'
  BY TypeStep DEF Next
<1>2. QED
  BY <1>1, TypeInit, OnceInit, OnceStep, NothingLeftOverStep, PTL DEF TrialSpec
=============================================================================
