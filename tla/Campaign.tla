------------------------------ MODULE Campaign ------------------------------
(***************************************************************************)
(* A client that runs trial after trial against the scheduler: the loops    *)
(* of workload/scenario_runner.py and of verification/runner.py, composed   *)
(* with the scheduler's threads and endpoints (Scheduler).                  *)
(*                                                                         *)
(* A cell is a trial run under one algorithm.  The timeline of a trial, and *)
(* so the ids of its tasks, is the same in all its cells.  One client runs  *)
(* at a time, and it does not give up a reset before the reset has ended.   *)
(***************************************************************************)
EXTENDS Scheduler

CONSTANTS
  Verifying,  \* verification/runner.py, or else workload/scenario_runner.py
  Faulty,     \* whether requests of the client may fail
  Rounds      \* cells of a scenario or of a verification test

\* There are finitely many names for the dispatches, and a scenario has a node.
ASSUME CampaignAssumption ==
  /\ Verifying \in BOOLEAN /\ Faulty \in BOOLEAN /\ Rounds \in Nat \ {0}
  /\ IsFiniteSet(Call) /\ Node # {}

VARIABLES
  step,          \* what the client does next
  cell,          \* the cell it is at
  unregistered,  \* the nodes it still has to register
  todo,          \* the tasks of the timeline still to be submitted
  queueEmpty,    \* what GET /system/state told it
  drained,       \* whether the drain wait ended before its timeout
  answer,        \* active_task_count of the answer the poller is working on
  counted,       \* last_status.active_task_count of each node
  clean,         \* whether nothing of an earlier trial was left at /trial/start
  quiet          \* whether no thread of one was left on a node either

clientVars == <<step, cell, unregistered, todo, queueEmpty, drained, clean, quiet>>
countVars == <<answer, counted>>
campaignVars == <<vars, clientVars, countVars>>

\* A client before this one has given up its trial, which is still active.
CampaignInit ==
  /\ Init
  /\ step = "begin" /\ cell = 1 /\ unregistered = Node /\ todo = {}
  /\ queueEmpty = FALSE /\ drained = FALSE
  /\ answer = 0 /\ counted = [n \in Node |-> 0] /\ clean = FALSE /\ quiet = FALSE

-----------------------------------------------------------------------------
\* The scheduler and the nodes go on by themselves.  A poll brings the number of
\* running tasks, which the mirror stores with the status.
Background ==
  /\ UNCHANGED clientVars
  /\ \/ /\ \/ \E t \in Task : Age(t)
           \/ TickStep
           \/ \E c \in Call : WorkerStep(c) \/ TimeOut(c) \/ EdgeStep(c) \/ LoseRequest(c) \/ StrayStep(c)
           \/ \E n \in Node : LosePoll(n) \/ ResetEdge(n)
           \/ \E t \in report : Observe(t)
           \/ ClearQueue \/ ResetMirror \/ ClearInflight \/ EdgeAnswers
        /\ UNCHANGED countVars
     \/ \E n \in Node : Poll(n) /\ answer' = Cardinality(RunningAt(n)) /\ UNCHANGED counted
     \/ StoreStatus /\ counted' = [counted EXCEPT ![pollNode] = answer] /\ answer' = 0

-----------------------------------------------------------------------------
\* The client

\* A new scenario, or the next test, begins with its nodes.
Begin == step' = "begin" /\ cell' = 1 /\ unregistered' = Node

\* _register_nodes: a fresh record, with a fresh status, for one node after the other.
PostRegister(n) ==
  /\ step \in {"begin", "register"} /\ n \in unregistered
  /\ RegisterNode(n)
  /\ counted' = [counted EXCEPT ![n] = 0]
  /\ unregistered' = unregistered \ {n}
  /\ step' = IF unregistered # {n} THEN step ELSE IF step = "begin" THEN "reset" ELSE "start"
  /\ UNCHANGED <<cell, todo, queueEmpty, drained, answer, clean, quiet>>

\* Mutant of PostReset: only the first cell of a scenario is preceded by a reset.
PostResetOnce ==
  /\ step = "reset"
  /\ \/ cell = 1 /\ ResetRecord
     \/ cell # 1 /\ UNCHANGED vars
  /\ step' = "resetting"
  /\ UNCHANGED <<cell, unregistered, todo, queueEmpty, drained, clean, quiet, countVars>>

PostReset ==
  /\ step = "reset" /\ step' = "resetting"
  /\ ResetRecord
  /\ UNCHANGED <<cell, unregistered, todo, queueEmpty, drained, clean, quiet, countVars>>

\* _post_ack: the answer of /trial/reset, ok or not.
ResetAnswered ==
  /\ step = "resetting" /\ resetPc = "idle" /\ step' = "register"
  /\ unregistered' = Node
  /\ UNCHANGED <<vars, cell, todo, queueEmpty, drained, clean, quiet, countVars>>

\* Nothing pending, planned, on its way, running, unreported, tracked or reserved;
\* a node may have threads it has no record of.
Idle ==
  /\ queue = {} /\ pending = {} /\ plan = {} /\ hand = Nothing /\ report = {} /\ dispatched = {}
  /\ \A c \in Call : stage[c] = "idle" /\ phase[c] \in {"unused", "refused", "stray"}
  /\ \A n \in Node : inflight[n] = {} /\ Reserved(n) = {}

PostStart ==
  /\ step = "start" /\ step' = "replay"
  /\ TrialStart
  /\ clean' = Idle
  /\ quiet' = (shaken = {} /\ Stray = {})
  /\ todo' = Task
  /\ UNCHANGED <<cell, unregistered, queueEmpty, drained, countVars>>

\* The next batch of the timeline.
PostBatch(S) ==
  /\ step = "replay"
  /\ S # {} /\ S \subseteq todo
  /\ Submit(S)
  /\ todo' = todo \ S
  /\ UNCHANGED <<step, cell, unregistered, queueEmpty, drained, clean, quiet, countVars>>

\* _wait_for_drain asks for the queue ...
GetSystemState ==
  /\ (step = "replay" /\ todo = {}) \/ step = "drain"
  /\ queueEmpty' = (queue = {})
  /\ step' = "nodes"
  /\ UNCHANGED <<vars, cell, unregistered, todo, drained, clean, quiet, countVars>>

\* ... and then for the nodes.  Mutant: only their last status is looked at, as
\* scenario_runner.py does.
NodesReportedIdle == \A n \in Node : counted[n] = 0
NodesIdle == \A n \in Node : counted[n] = 0 /\ (Verifying => usedCores[n] = 0)

GetNodes ==
  /\ step = "nodes"
  /\ drained' = (queueEmpty /\ NodesIdle)
  /\ step' = IF drained' THEN "end" ELSE "drain"
  /\ UNCHANGED <<vars, cell, unregistered, todo, queueEmpty, clean, quiet, countVars>>

\* The wait takes longer than drain_timeout_seconds.
DrainTimeout ==
  /\ step = "drain" /\ step' = "end"
  /\ drained' = FALSE
  /\ UNCHANGED <<vars, cell, unregistered, todo, queueEmpty, clean, quiet, countVars>>

\* The next cell, or what comes after the last one.
NextCell ==
  \/ cell < Rounds /\ cell' = cell + 1 /\ step' = "reset" /\ UNCHANGED unregistered
  \/ cell = Rounds /\ Begin

PostEnd ==
  /\ step = "end"
  /\ TrialEnd
  /\ NextCell
  /\ UNCHANGED <<todo, queueEmpty, drained, clean, quiet, countVars>>

\* A request fails, before or after the scheduler has served it.  The scenario runner
\* gives up the scenario, and with it the trial, which stays active.  The verification
\* runner gives up the test unless the trial has started; then it stops replaying, or
\* goes on waiting, or leaves the trial active for the next reset to drop.
RequestFails ==
  /\ Faulty /\ step # "resetting"
  /\ CASE Verifying /\ step = "replay" -> step' = "end" /\ UNCHANGED <<cell, unregistered>>
       [] Verifying /\ step \in {"drain", "nodes"} -> step' = "drain" /\ UNCHANGED <<cell, unregistered>>
       [] Verifying /\ step = "end" -> NextCell
       [] OTHER -> Begin
  /\ drained' = FALSE
  /\ UNCHANGED <<vars, todo, queueEmpty, clean, quiet, countVars>>

Client ==
  \/ \E n \in Node : PostRegister(n)
  \/ PostReset \/ ResetAnswered \/ PostStart
  \/ \E S \in SUBSET Task : PostBatch(S)
  \/ GetSystemState \/ GetNodes \/ DrainTimeout \/ PostEnd

CampaignNext == Background \/ Client \/ RequestFails

CampaignSpec == CampaignInit /\ [][CampaignNext]_campaignVars
-----------------------------------------------------------------------------
\* Properties

InTrial == step \in {"replay", "drain", "nodes", "end"}

\* The type invariant; a trial is replayed only while it is active.
CampaignTypeOK ==
  /\ TypeOK
  /\ step \in {"begin", "reset", "resetting", "register", "start", "replay", "drain", "nodes", "end"}
  /\ cell \in 1..Rounds /\ unregistered \subseteq Node /\ todo \subseteq Task
  /\ queueEmpty \in BOOLEAN /\ drained \in BOOLEAN
  /\ clean \in BOOLEAN /\ quiet \in BOOLEAN
  /\ answer \in 0..Cardinality(Call) /\ counted \in [Node -> 0..Cardinality(Call)]
  /\ step \in {"begin", "register"} <=> unregistered # {}
  /\ InTrial => active

\* No trial is refused with "a trial is already active", whatever became of the ones
\* before it: given up half way, ended by a timeout, or never ended.
StartNeverRefused == step = "start" => ~active

\* A trial that finds the scheduler empty behaves, in the scheduler's books, as the
\* first one after its start does, though task ids and nodes are the same again: no
\* task is lost or in two places and each reservation has its owner.  If no thread of
\* an earlier trial is left on a node either, the mirror covers what the nodes have
\* and nothing runs twice; one that is left may report the new task of its id.
CleanTrialsAlike ==
  InTrial /\ clean =>
    /\ OnePlace /\ ReservationHasOwner
    /\ quiet => MirrorCoversEdge /\ ExecutedOnce

\* When the verification runner finds the trial drained no task of it is tracked, and
\* in a trial without threads from earlier ones no node has anything left of it,
\* running or unreported or on its way there, although the runner asks for the queue
\* and for the nodes in two requests and the counts it is told are those of old polls.
NothingOnNodesWhenDrained ==
  [][clean /\ step = "nodes" /\ step' = "end" =>
       \A n \in Node : inflight[n] = {} /\ (quiet => Burden(n) = {})]_campaignVars

\* _wait_for_drain: "Block until queue is empty AND no node has active tasks."
DrainedMeans ==
  [][step = "nodes" /\ step' = "end" => queue = {} /\ \A n \in Node : RunningAt(n) = {}]_campaignVars
=============================================================================
