------------------------------ MODULE EdgeNode ------------------------------
(***************************************************************************)
(* One edge node: edge/execution.py, edge/memory_manager.py,               *)
(* edge/cpu_manager.py and the handlers of edge/edgenode.py.               *)
(*                                                                         *)
(* A step is one critical section of one thread.  A Call is one POST       *)
(* /execute and, once admitted, the daemon thread that runs its task: it   *)
(* reserves memory, then cores, then registers the task in _running, and   *)
(* later releases and unregisters in the same order.  Each of those takes  *)
(* a different lock, so other calls, GET /status, POST                     *)
(* /admin/inject_memory and the three sections of POST /admin/reset        *)
(* interleave anywhere between them.                                       *)
(***************************************************************************)
EXTENDS Load, Sequences

CONSTANTS
  Task,        \* task ids
  Call,        \* invocations of POST /execute
  NoCall,      \* stands for "no entry" in a dictionary
  Accepted,    \* tasks whose class is in _accepted_classes
  MemoryKb,    \* Task.memory_kb
  Cores,       \* Task.cpu_cores_required
  UsableRam,   \* usable_ram_kb
  CpuCores,    \* cpu_cores
  Block,       \* memory injections
  BlockKb,     \* their sizes
  HistoryCap,  \* _history_cap (1000 in the code)
  MaxResets    \* bound on the number of POST /admin/reset

ASSUME EdgeAssumption ==
  /\ IsFiniteSet(Task) /\ IsFiniteSet(Call) /\ IsFiniteSet(Block)
  /\ NoCall \notin Call
  /\ Accepted \subseteq Task
  /\ MemoryKb \in [Task -> Nat \ {0}]
  /\ Cores \in [Task -> Nat \ {0}]
  /\ BlockKb \in [Block -> Nat \ {0}]
  /\ UsableRam \in Nat /\ CpuCores \in Nat \ {0}
  /\ HistoryCap \in Nat \ {0}
  /\ MaxResets \in Nat

VARIABLES
  pc,         \* the next critical section of each call or of its thread
  task,       \* the task each call carries; it never changes
  memHold,    \* MemoryManager._task_holds: the call that reserved for a task
  cpuHold,    \* CpuManager._task_holds, likewise
  running,    \* ExecutionEngine._running: the call whose record is registered
  injected,   \* MemoryManager._injected_blocks not yet expired
  history,    \* ExecutionEngine._completion_history
  statusPc,   \* progress of the GET /status handler
  report,     \* the completions that handler has drained
  delivered,  \* every completion answered to a GET /status so far
  resetPc,    \* progress of the POST /admin/reset handler
  resets      \* resets begun

callVars == <<pc, task>>
engineVars == <<running, history>>
statusVars == <<statusPc, report, delivered>>
resetVars == <<resetPc, resets>>
vars == <<pc, task, memHold, cpuHold, running, injected, history,
          statusPc, report, delivered, resetPc, resets>>

-----------------------------------------------------------------------------
\* Reading the dictionaries

Held(hold) == {t \in Task : hold[t] # NoCall}

\* _used_locked of the memory manager, and of the CPU manager.
UsedRam == LoadOf(Held(memHold), MemoryKb) + LoadOf(injected, BlockKb)
UsedCores == LoadOf(Held(cpuHold), Cores)

\* The engine's lock stays taken while a duplicate is unwound inside it.
EngineUnlocked == \A c \in Call : pc[c] \notin {"dupMemory", "dupCpu"}

Goto(c, from, to) == pc[c] = from /\ pc' = [pc EXCEPT ![c] = to]

\* release_for_task: whoever calls it, the task's entry goes.  Mutant: it stays.
KeepCpuOf(t) == UNCHANGED cpuHold
ReleaseMemoryOf(t) == memHold' = [memHold EXCEPT ![t] = NoCall]
ReleaseCpuOf(t) == cpuHold' = [cpuHold EXCEPT ![t] = NoCall]

-----------------------------------------------------------------------------
Init ==
  /\ pc = [c \in Call |-> "idle"]
  /\ task \in [Call -> Task]
  /\ memHold = [t \in Task |-> NoCall]
  /\ cpuHold = [t \in Task |-> NoCall]
  /\ running = [t \in Task |-> NoCall]
  /\ injected = {}
  /\ history = <<>>
  /\ statusPc = "idle" /\ report = <<>> /\ delivered = <<>>
  /\ resetPc = "idle" /\ resets = 0

-----------------------------------------------------------------------------
\* Admission: ExecutionEngine.try_admit on the request's thread

\* The class check; is_active is set at startup and never cleared.
Execute(c) ==
  /\ \/ task[c] \in Accepted /\ Goto(c, "idle", "memory")
     \/ task[c] \notin Accepted /\ Goto(c, "idle", "rejected")
  /\ UNCHANGED <<task, memHold, cpuHold, injected>>
  /\ UNCHANGED <<engineVars, statusVars, resetVars>>

\* Mutants: a task that holds memory already is no obstacle; the request
\* itself is left out of the sum.
MemoryFitsAgain(t) == UsedRam + MemoryKb[t] <= UsableRam
CpuFitsWithoutIt(t) == cpuHold[t] = NoCall /\ UsedCores <= CpuCores

MemoryFits(t) == memHold[t] = NoCall /\ UsedRam + MemoryKb[t] <= UsableRam
CpuFits(t) == cpuHold[t] = NoCall /\ UsedCores + Cores[t] <= CpuCores

ReserveMemory(c) ==
  /\ \/ /\ MemoryFits(task[c])
        /\ Goto(c, "memory", "cpu")
        /\ memHold' = [memHold EXCEPT ![task[c]] = c]
     \/ /\ ~MemoryFits(task[c])
        /\ Goto(c, "memory", "rejected")
        /\ UNCHANGED memHold
  /\ UNCHANGED <<task, cpuHold, injected, engineVars, statusVars, resetVars>>

ReserveCpu(c) ==
  /\ \/ /\ CpuFits(task[c])
        /\ Goto(c, "cpu", "register")
        /\ cpuHold' = [cpuHold EXCEPT ![task[c]] = c]
     \/ /\ ~CpuFits(task[c])
        /\ Goto(c, "cpu", "undoMemory")
        /\ UNCHANGED cpuHold
  /\ UNCHANGED <<task, memHold, injected, engineVars, statusVars, resetVars>>

\* Mutant of UndoMemory: the memory is not given back.
UndoNothing(c) ==
  /\ Goto(c, "undoMemory", "rejected")
  /\ UNCHANGED <<task, memHold, cpuHold, injected, engineVars, statusVars, resetVars>>

\* "If this fails, give the memory back."
UndoMemory(c) ==
  /\ Goto(c, "undoMemory", "rejected")
  /\ ReleaseMemoryOf(task[c])
  /\ UNCHANGED <<task, cpuHold, injected, engineVars, statusVars, resetVars>>

Register(c) ==
  /\ EngineUnlocked
  /\ \/ /\ running[task[c]] = NoCall
        /\ Goto(c, "register", "start")
        /\ running' = [running EXCEPT ![task[c]] = c]
     \/ /\ running[task[c]] # NoCall
        /\ Goto(c, "register", "dupMemory")
        /\ UNCHANGED running
  /\ UNCHANGED <<task, memHold, cpuHold, injected, history, statusVars, resetVars>>

\* Mutant of DupReleaseMemory: it takes the engine's lock a second time.
DupReleaseMemoryLocked(c) ==
  /\ EngineUnlocked
  /\ Goto(c, "dupMemory", "dupCpu")
  /\ ReleaseMemoryOf(task[c])
  /\ UNCHANGED <<task, cpuHold, injected, engineVars, statusVars, resetVars>>

\* The duplicate_task_id branch, which keeps the engine's lock throughout.
DupReleaseMemory(c) ==
  /\ Goto(c, "dupMemory", "dupCpu")
  /\ ReleaseMemoryOf(task[c])
  /\ UNCHANGED <<task, cpuHold, injected, engineVars, statusVars, resetVars>>

DupReleaseCpu(c) ==
  /\ Goto(c, "dupCpu", "rejected")
  /\ ReleaseCpuOf(task[c])
  /\ UNCHANGED <<task, memHold, injected, engineVars, statusVars, resetVars>>

-----------------------------------------------------------------------------
\* Execution: ExecutionEngine._run_task on the daemon thread

\* The thread reads its record; without one it exits and releases nothing.
BeginRun(c) ==
  /\ EngineUnlocked
  /\ \/ running[task[c]] # NoCall /\ Goto(c, "start", "sleeping")
     \/ running[task[c]] = NoCall /\ Goto(c, "start", "gone")
  /\ UNCHANGED <<task, memHold, cpuHold, injected>>
  /\ UNCHANGED <<engineVars, statusVars, resetVars>>

\* After the sleep the record is not looked at again.
ReleaseMemory(c) ==
  /\ Goto(c, "sleeping", "releaseCpu")
  /\ ReleaseMemoryOf(task[c])
  /\ UNCHANGED <<task, cpuHold, injected, engineVars, statusVars, resetVars>>

ReleaseCpu(c) ==
  /\ Goto(c, "releaseCpu", "finish")
  /\ ReleaseCpuOf(task[c])
  /\ UNCHANGED <<task, memHold, injected, engineVars, statusVars, resetVars>>

\* Mutant of Newest: no cap.
NewestAll(h) == h

\* The newest HistoryCap completions.
Newest(h) == SubSeq(h, IF Len(h) > HistoryCap THEN 2 ELSE 1, Len(h))

\* Pop by task id, append to the history, drop what exceeds the cap.
Finish(c) ==
  /\ EngineUnlocked
  /\ Goto(c, "finish", "done")
  /\ running' = [running EXCEPT ![task[c]] = NoCall]
  /\ history' = Newest(Append(history, c))
  /\ UNCHANGED <<task, memHold, cpuHold, injected, statusVars, resetVars>>

-----------------------------------------------------------------------------
\* GET /status: the memory and CPU snapshots change nothing; the drain and
\* the count of active tasks are separate sections of the engine's lock.

\* Mutant of DrainCompletions: the history is not cleared.
ReadCompletions ==
  /\ EngineUnlocked
  /\ statusPc = "idle" /\ statusPc' = "count"
  /\ report' = history
  /\ UNCHANGED <<callVars, memHold, cpuHold, engineVars, injected, delivered, resetVars>>

DrainCompletions ==
  /\ EngineUnlocked
  /\ statusPc = "idle" /\ statusPc' = "count"
  /\ report' = history
  /\ history' = <<>>
  /\ UNCHANGED <<callVars, memHold, cpuHold, running, injected, delivered, resetVars>>

CountActive ==
  /\ EngineUnlocked
  /\ statusPc = "count" /\ statusPc' = "idle"
  /\ delivered' = delivered \o report
  /\ report' = <<>>
  /\ UNCHANGED <<callVars, memHold, cpuHold, engineVars, injected, resetVars>>

-----------------------------------------------------------------------------
\* POST /admin/inject_memory is not subject to usable_ram_kb.  A block whose
\* time has passed is dropped before the next read of the total.

Inject(b) ==
  /\ b \notin injected
  /\ injected' = injected \cup {b}
  /\ UNCHANGED <<callVars, memHold, cpuHold, engineVars, statusVars, resetVars>>

Expire(b) ==
  /\ b \in injected
  /\ injected' = injected \ {b}
  /\ UNCHANGED <<callVars, memHold, cpuHold, engineVars, statusVars, resetVars>>

-----------------------------------------------------------------------------
\* POST /admin/reset: engine, then memory, then CPU

ResetEngine ==
  /\ EngineUnlocked
  /\ resetPc = "idle" /\ resetPc' = "memory"
  /\ resets < MaxResets /\ resets' = resets + 1
  /\ running' = [t \in Task |-> NoCall]
  /\ history' = <<>>
  /\ UNCHANGED <<callVars, memHold, cpuHold, injected, statusVars>>

ResetMemory ==
  /\ resetPc = "memory" /\ resetPc' = "cpu"
  /\ memHold' = [t \in Task |-> NoCall]
  /\ injected' = {}
  /\ UNCHANGED <<callVars, cpuHold, engineVars, statusVars, resets>>

ResetCpu ==
  /\ resetPc = "cpu" /\ resetPc' = "idle"
  /\ cpuHold' = [t \in Task |-> NoCall]
  /\ UNCHANGED <<callVars, memHold, injected, engineVars, statusVars, resets>>

-----------------------------------------------------------------------------
\* The remaining steps of a call that has been made.
Progress(c) ==
  \/ ReserveMemory(c) \/ ReserveCpu(c) \/ UndoMemory(c)
  \/ Register(c) \/ DupReleaseMemory(c) \/ DupReleaseCpu(c)
  \/ BeginRun(c) \/ ReleaseMemory(c) \/ ReleaseCpu(c) \/ Finish(c)

\* Within a trial nobody resets the node.
TrialNext ==
  \/ \E c \in Call : Execute(c) \/ Progress(c)
  \/ DrainCompletions \/ CountActive
  \/ \E b \in Block : Inject(b) \/ Expire(b)

ResetNext == ResetEngine \/ ResetMemory \/ ResetCpu

Next == TrialNext \/ ResetNext

TrialSpec == Init /\ [][TrialNext]_vars
Spec == Init /\ [][Next]_vars

\* Handler and daemon threads are scheduled by the operating system, and a
\* sleep ends.  No request has to arrive and no poll has to be made.
Fairness == \A c \in Call : WF_vars(Progress(c))

FairTrialSpec == TrialSpec /\ Fairness
-----------------------------------------------------------------------------
\* Properties

\* Where a call stands while its memory, its cores and its record are its own.
HoldsMemory == {"cpu", "undoMemory", "register", "dupMemory", "start", "sleeping"}
HoldsCpu == {"register", "dupMemory", "dupCpu", "start", "sleeping", "releaseCpu"}
HasRecord == {"start", "sleeping", "releaseCpu", "finish"}
Stages == HoldsMemory \cup HoldsCpu \cup HasRecord
            \cup {"idle", "memory", "rejected", "gone", "done"}

\* The type invariant: every dictionary entry names a call or is absent, and
\* the completion history never outgrows its cap.
TypeOK ==
  /\ pc \in [Call -> Stages]
  /\ task \in [Call -> Task]
  /\ memHold \in [Task -> Call \cup {NoCall}]
  /\ cpuHold \in [Task -> Call \cup {NoCall}]
  /\ running \in [Task -> Call \cup {NoCall}]
  /\ injected \subseteq Block
  /\ history \in Seq(Call) /\ Len(history) <= HistoryCap
  /\ report \in Seq(Call) /\ delivered \in Seq(Call)
  /\ statusPc \in {"idle", "count"}
  /\ resetPc \in {"idle", "memory", "cpu"}
  /\ resets \in 0..MaxResets

\* The tasks admitted to a node never hold more than its usable RAM and its
\* cores, whatever is injected, unwound or reset between the two reservations
\* (try_admit reserves in two managers with two locks).
CapacityRespected ==
  /\ LoadOf(Held(memHold), MemoryKb) <= UsableRam
  /\ LoadOf(Held(cpuHold), Cores) <= CpuCores

\* A task whose thread is executing holds its memory and its cores itself:
\* no other call for the same task can have taken or released them.
RunningHoldsResources ==
  \A c \in Call :
    pc[c] \in {"start", "sleeping"} =>
      memHold[task[c]] = c /\ cpuHold[task[c]] = c /\ running[task[c]] = c

\* Nothing is held for a call that has no step left to release it: a refused
\* call has reserved nothing, a finished one has returned everything.
NoOrphanHold ==
  \A t \in Task, c \in Call :
    /\ memHold[t] = c => task[c] = t /\ pc[c] \in HoldsMemory
    /\ cpuHold[t] = c => task[c] = t /\ pc[c] \in HoldsCpu
    /\ running[t] = c => task[c] = t /\ pc[c] \in HasRecord

\* The three dictionaries and the threads tell the same story: a task that runs
\* owns all it runs on, and an entry stands for a call that will remove it.
EntriesMatchThreads == RunningHoldsResources /\ NoOrphanHold

\* A thread takes away only what its own call reserved and registered, even
\* when another call for the same task id is being admitted or unwound.
ReleasesOnlyItsOwn ==
  [][\A c \in Call, t \in Task :
       pc'[c] # pc[c] =>
         /\ memHold[t] \notin {NoCall, c} => memHold'[t] = memHold[t]
         /\ cpuHold[t] \notin {NoCall, c} => cpuHold'[t] = cpuHold[t]
         /\ running[t] \notin {NoCall, c} => running'[t] = running[t]]_vars

\* "On wake, find their record gone and exit without releasing": what a thread does
\* after its sleep leaves the entries of every other call alone, also when a reset, which
\* is over, and a new call for its task id came in between.
Woken == {"sleeping", "releaseCpu", "finish"}

WokenReleasesOwn ==
  [][\A c \in Call, t \in Task :
       pc[c] \in Woken /\ pc'[c] # pc[c] /\ resetPc = "idle" =>
         /\ memHold[t] \notin {NoCall, c} => memHold'[t] = memHold[t]
         /\ cpuHold[t] \notin {NoCall, c} => cpuHold'[t] = cpuHold[t]
         /\ running[t] \notin {NoCall, c} => running'[t] = running[t]]_vars

CallsIn(h) == {h[i] : i \in 1..Len(h)}
Times(c, h) == Cardinality({i \in 1..Len(h) : h[i] = c})

\* Each completion is reported to GET /status exactly once: it is in the
\* history, in the answer being built or in one answer given, and is missing
\* only if more completions than the history's cap have occurred.
CompletionReportedOnce ==
  \A c \in Call :
    LET n == Times(c, history) + Times(c, report) + Times(c, delivered)
    IN  /\ n <= 1
        /\ n = 1 => pc[c] = "done"
        /\ (pc[c] = "done" /\ n = 0) =>
             Cardinality({d \in Call : pc[d] = "done"}) > HistoryCap

\* A completion the scheduler may learn of has already freed everything: the
\* scheduler reuses the node's room as soon as it sees the completion.
FreedBeforeReported ==
  \A c \in CallsIn(history) \cup CallsIn(report) \cup CallsIn(delivered) :
    memHold[task[c]] # c /\ cpuHold[task[c]] # c /\ running[task[c]] # c

\* A call of an accepted class is refused only if the calls in progress at the
\* node do not fit beside the injections, or if one of them is for the same
\* task: unwinding, finishing and reporting never leave less room than that.
InProgress == {c \in Call : pc[c] \notin {"idle", "rejected", "done", "gone"}}

RefusedOnlyWhenFull ==
  [][\A c \in Call :
       pc[c] \in {"memory", "cpu", "register"} /\ pc'[c] \in {"rejected", "undoMemory", "dupMemory"} =>
         LET S == {task[d] : d \in InProgress}
         IN  \/ \E d \in InProgress \ {c} : task[d] = task[c]
             \/ LoadOf(S, MemoryKb) + LoadOf(injected, BlockKb) > UsableRam
             \/ LoadOf(S, Cores) > CpuCores]_vars

\* Within a trial the node implements its contract: an admission takes effect
\* when the task is registered, a completion when its memory is released.
Fits(S) == LoadOf(S, MemoryKb) <= UsableRam /\ LoadOf(S, Cores) <= CpuCores

PhaseOf(stage) ==
  CASE stage = "idle" -> "unused"
    [] stage = "rejected" -> "refused"
    [] stage \in {"start", "sleeping"} -> "running"
    [] stage \in {"releaseCpu", "finish", "done", "gone"} -> "completed"
    [] OTHER -> "requested"

Abstract == INSTANCE EdgeContract
              WITH phase <- [c \in Call |-> PhaseOf(pc[c])], job <- task

ImplementsContract == Abstract!Contract

\* The node is as live as its contract asks: every call is answered and every
\* admitted task completes, although locks are taken inside locks.
KeepsFairness == Abstract!FairContract
=============================================================================
