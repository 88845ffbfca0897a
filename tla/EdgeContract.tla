---------------------------- MODULE EdgeContract ----------------------------
(***************************************************************************)
(* What an edge node promises the scheduler, with every admission atomic:  *)
(* a call to POST /execute is refused or admitted in one step, it is       *)
(* admitted only when the tasks then running fit the node's RAM and cores  *)
(* and none of them is the same task, and an admitted task runs once and   *)
(* completes.  A refusal is always allowed: the node may be holding memory *)
(* the contract does not speak of (an injection, another admission that is *)
(* about to be unwound).  EdgeNode implements this within a trial.         *)
(***************************************************************************)
CONSTANTS
  Task,       \* task ids
  Call,       \* invocations of POST /execute
  Accepted,   \* the tasks whose class the node accepts
  Fits(_)     \* whether a set of tasks can run together on the node

VARIABLES
  phase,      \* where each call is in its life
  job         \* the task each call asks for; it never changes

contractVars == <<phase, job>>

\* The calls whose task is executing, and their tasks.
Executing == {c \in Call : phase[c] = "running"}
ExecutingTasks == {job[c] : c \in Executing}

Init ==
  /\ phase = [c \in Call |-> "unused"]
  /\ job \in [Call -> Task]

Request(c) ==
  /\ phase[c] = "unused"
  /\ job[c] \in Accepted
  /\ phase' = [phase EXCEPT ![c] = "requested"]
  /\ UNCHANGED job

\* A task of a class the node does not accept is refused without being considered.
Refuse(c) ==
  /\ phase[c] = "requested" \/ (phase[c] = "unused" /\ job[c] \notin Accepted)
  /\ phase' = [phase EXCEPT ![c] = "refused"]
  /\ UNCHANGED job

Admit(c) ==
  /\ phase[c] = "requested"
  /\ job[c] \notin ExecutingTasks
  /\ Fits(ExecutingTasks \cup {job[c]})
  /\ phase' = [phase EXCEPT ![c] = "running"]
  /\ UNCHANGED job

Complete(c) ==
  /\ phase[c] = "running"
  /\ phase' = [phase EXCEPT ![c] = "completed"]
  /\ UNCHANGED job

\* The names of answered calls may be used again.
Forget(S) ==
  /\ \A c \in S : phase[c] \in {"refused", "completed"}
  /\ phase' = [c \in Call |-> IF c \in S THEN "unused" ELSE phase[c]]
  /\ UNCHANGED job

Next ==
  \/ \E c \in Call : Request(c) \/ Refuse(c) \/ Admit(c) \/ Complete(c)
  \/ \E S \in SUBSET Call : Forget(S)

\* A call is answered and an admitted task completes; calls need not be made.
Answer(c) == phase[c] = "requested" /\ (Refuse(c) \/ Admit(c))

Fairness ==
  \A c \in Call : WF_contractVars(Answer(c)) /\ WF_contractVars(Complete(c))

Contract == Init /\ [][Next]_contractVars
FairContract == Contract /\ Fairness
=============================================================================
