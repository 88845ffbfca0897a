--------------------------- MODULE CampaignProofs ---------------------------
(***************************************************************************)
(* A client's campaign is one way of using the scheduler: each of its steps *)
(* is a step of Scheduler or leaves the scheduler alone.  What is proved of *)
(* every use of the scheduler therefore holds throughout a campaign, and no *)
(* trial of it is refused.                                                  *)
(*                                                                          *)
(* A trial that finds the scheduler empty keeps the scheduler's own books   *)
(* as the first trial does, and if no thread of an earlier trial is left on *)
(* a node either, the whole invariant of the first trial (CleanInv); then,  *)
(* when the verification runner finds it drained, no node has anything left *)
(* of it.                                                                   *)
(***************************************************************************)
EXTENDS Campaign, SchedulerProofs, TLAPS

\* Whether a trial is active, and what has been submitted, by where the client is.
StepTellsActive ==
  /\ step \in {"resetting", "register", "start"} => ~active
  /\ InTrial => active

StepTellsSubmitted ==
  /\ resetPc # "idle" => step = "resetting"
  /\ step = "resetting" /\ resetPc # "queue" => submitted = {}
  /\ step \in {"register", "start"} => submitted = {}
  /\ step = "replay" => todo \cap submitted = {}

ClientInv == StepTellsActive /\ StepTellsSubmitted

\* The service's own threads start and end no trial, and drop what was submitted only
\* in the reset the client is waiting for.
LEMMA ThreadsKeepTrial ==
  ASSUME TickStep \/ (\E t \in Task : Age(t))
           \/ (\E c \in Call : WorkerStep(c) \/ TimeOut(c) \/ EdgeStep(c) \/ LoseRequest(c) \/ StrayStep(c))
           \/ (\E n \in Node : Poll(n) \/ LosePoll(n)) \/ PollStep
  PROVE  UNCHANGED <<active, submitted, resetPc>>
<1>1. TickStep => UNCHANGED <<active, submitted, resetPc>>
  BY DEF TickStep, Evict, Snapshot, Schedule, Assign, DispatchHand, recordVars, resetVars
<1>2. (\E t \in Task : Age(t)) => UNCHANGED <<active, submitted, resetPc>>
  BY DEF Age, recordVars, resetVars
<1>3. ASSUME NEW c \in Call, WorkerStep(c)
      PROVE  UNCHANGED <<active, submitted, resetPc>>
  BY <1>3 DEF WorkerStep, Post, RecordDispatched, Track, ReleaseRefused, ReleaseFailed, Mark, Requeue,
              recordVars, resetVars
<1>4. ASSUME NEW c \in Call, TimeOut(c) \/ EdgeStep(c) \/ LoseRequest(c) \/ StrayStep(c)
      PROVE  UNCHANGED <<active, submitted, resetPc>>
  BY <1>4 DEF TimeOut, EdgeStep, Admit, Refuse, Complete, LoseRequest, StrayStep, Wake, Exit, recordVars, resetVars
<1>5. (\E n \in Node : Poll(n) \/ LosePoll(n)) => UNCHANGED <<active, submitted, resetPc>>
  BY DEF Poll, LosePoll, recordVars, resetVars
<1>6. PollStep => UNCHANGED <<active, submitted, resetPc>>
  BY DEF PollStep, StoreStatus, Observe, recordVars, resetVars
<1>7. QED
  BY <1>1, <1>2, <1>3, <1>4, <1>5, <1>6

\* The sections of a reset after its first.
ResetSection ==
  ClearQueue \/ ResetMirror \/ ClearInflight \/ EdgeAnswers \/ \E n \in Node : ResetEdge(n)

LEMMA ResetKeepsTrial ==
  ASSUME ResetSection
  PROVE  /\ UNCHANGED active
         /\ submitted' \in {submitted, {}}
         /\ resetPc # "idle" /\ (resetPc = "queue" => submitted' = {})
<1>1. ClearQueue => UNCHANGED active /\ submitted' = {} /\ resetPc = "queue"
  BY DEF ClearQueue
<1>2. ResetMirror => UNCHANGED <<active, submitted>> /\ resetPc = "mirror"
  BY DEF ResetMirror, recordVars
<1>3. ClearInflight => UNCHANGED <<active, submitted>> /\ resetPc = "inflight"
  BY DEF ClearInflight, recordVars
<1>4. (\E n \in Node : ResetEdge(n)) => UNCHANGED <<active, submitted>> /\ resetPc = "edges"
  BY DEF ResetEdge, recordVars
<1>5. EdgeAnswers => UNCHANGED <<active, submitted>> /\ resetPc = "edge"
  BY DEF EdgeAnswers, recordVars
<1>6. QED
  BY <1>1, <1>2, <1>3, <1>4, <1>5 DEF ResetSection

\* What goes on by itself either keeps all of this or is a section of the reset.
LEMMA BackgroundCases ==
  ASSUME Background
  PROVE  /\ UNCHANGED clientVars
         /\ Next
         /\ \/ UNCHANGED <<active, submitted, resetPc>>
            \/ ResetSection
<1>1. CASE TickStep \/ (\E t \in Task : Age(t))
             \/ (\E c \in Call : WorkerStep(c) \/ TimeOut(c) \/ EdgeStep(c) \/ LoseRequest(c) \/ StrayStep(c))
             \/ (\E n \in Node : Poll(n) \/ LosePoll(n)) \/ PollStep
  <2>1. Next
    BY <1>1 DEF Next, TrialNext
  <2>2. QED
    BY <1>1, <2>1, ThreadsKeepTrial DEF Background
<1>2. CASE ResetSection
  BY <1>2 DEF ResetSection, Background, Next, LifecycleNext
<1>3. QED
  BY <1>1, <1>2 DEF ResetSection, Background, PollStep

LEMMA ClientInvInit == CampaignInit => ClientInv
BY DEF CampaignInit, Init, ClientInv, StepTellsActive, StepTellsSubmitted, InTrial

LEMMA BackgroundKeepsClientInv ==
  ASSUME ClientInv, Background
  PROVE  ClientInv'
<1> USE BackgroundCases DEF ClientInv, StepTellsActive, StepTellsSubmitted, InTrial, clientVars
<1>1. CASE UNCHANGED <<active, submitted, resetPc>>
  BY <1>1
<1>2. CASE ResetSection
  <2>1. step = "resetting" /\ step' = "resetting" /\ active' = active /\ submitted' = {}
    BY <1>2, ResetKeepsTrial
  <2>2. QED
    BY <2>1
<1>3. QED
  BY <1>1, <1>2

\* One step per request of the client.
LEMMA ClientKeepsClientInv ==
  ASSUME ClientInv, Client
  PROVE  ClientInv'
<1> USE DEF ClientInv, StepTellsActive, StepTellsSubmitted, InTrial
<1>1. ASSUME NEW n \in Node, PostRegister(n) PROVE ClientInv'
  BY <1>1 DEF PostRegister, RegisterNode, recordVars, resetVars
<1>2. ASSUME PostReset PROVE ClientInv'
  BY <1>2 DEF PostReset, ResetRecord
<1>3. ASSUME ResetAnswered PROVE ClientInv'
  BY <1>3 DEF ResetAnswered, vars, recordVars, resetVars
<1>4. ASSUME PostStart PROVE ClientInv'
  BY <1>4 DEF PostStart, TrialStart, resetVars
<1>5. ASSUME NEW S \in SUBSET Task, PostBatch(S) PROVE ClientInv'
  BY <1>5 DEF PostBatch, Submit, resetVars
<1>6. ASSUME GetSystemState \/ GetNodes \/ DrainTimeout PROVE ClientInv'
  BY <1>6 DEF GetSystemState, GetNodes, DrainTimeout, vars, recordVars, resetVars
<1>7. ASSUME PostEnd PROVE ClientInv'
  BY <1>7 DEF PostEnd, TrialEnd, NextCell, Begin, resetVars
<1>8. QED
  BY <1>1, <1>2, <1>3, <1>4, <1>5, <1>6, <1>7 DEF Client

LEMMA FailureKeepsClientInv ==
  ASSUME ClientInv, RequestFails
  PROVE  ClientInv'
BY DEF ClientInv, StepTellsActive, StepTellsSubmitted, InTrial, RequestFails, NextCell, Begin,
       vars, recordVars, resetVars

LEMMA ClientInvInvariant == CampaignSpec => []ClientInv
<1>1. ClientInv /\ [CampaignNext]_campaignVars => ClientInv'
  <2> SUFFICES ASSUME ClientInv, [CampaignNext]_campaignVars PROVE ClientInv'
    OBVIOUS
  <2>1. CASE UNCHANGED campaignVars
    BY <2>1 DEF campaignVars, clientVars, vars, recordVars, resetVars,
                ClientInv, StepTellsActive, StepTellsSubmitted, InTrial
  <2>2. QED
    BY <2>1, BackgroundKeepsClientInv, ClientKeepsClientInv, FailureKeepsClientInv DEF CampaignNext
<1>2. QED
  BY <1>1, ClientInvInit, PTL DEF CampaignSpec

LEMMA CampaignStepIsSchedulerStep ==
  ASSUME ClientInv, [CampaignNext]_campaignVars
  PROVE  [Next]_vars
<1>1. CASE Background
  BY <1>1, BackgroundCases
<1>2. ASSUME NEW S \in SUBSET Task, PostBatch(S) PROVE Next
  <2>1. Submit(S) /\ S \in SUBSET (Task \ submitted)
    BY <1>2 DEF PostBatch, ClientInv, StepTellsSubmitted
  <2>2. QED
    BY <2>1 DEF Next, TrialNext
<1>3. ASSUME NEW n \in Node, PostRegister(n) PROVE Next
  BY <1>3 DEF PostRegister, Next, LifecycleNext
<1>4. CASE PostReset \/ PostStart \/ PostEnd
  BY <1>4 DEF PostReset, PostStart, PostEnd, Next, LifecycleNext
<1>5. CASE ResetAnswered \/ GetSystemState \/ GetNodes \/ DrainTimeout \/ RequestFails
  BY <1>5 DEF ResetAnswered, GetSystemState, GetNodes, DrainTimeout, RequestFails
<1>6. CASE UNCHANGED campaignVars
  BY <1>6 DEF campaignVars
<1>7. QED
  BY <1>1, <1>2, <1>3, <1>4, <1>5, <1>6 DEF CampaignNext, Client

\* Every campaign, of the scenario runner or of the verification runner, with requests
\* that fail anywhere, is a behaviour of the scheduler: it never submits an id again
\* that the scheduler has not been made to forget (scenario_runner.py, runner.py).
THEOREM CampaignUsesScheduler == CampaignSpec => Spec
<1>1. CampaignInit => Init
  BY DEF CampaignInit
<1>2. QED
  BY <1>1, ClientInvInvariant, CampaignStepIsSchedulerStep, PTL DEF CampaignSpec, Spec

\* So the mirror's totals are the sums of its reservations from the first trial of a
\* campaign to the last one, whatever earlier trials left on their way.
THEOREM CampaignSums == CampaignSpec => []ProjectedIsSum
BY CampaignUsesScheduler, SchedSums, PTL

\* A trial that was given up, or ended by the drain timeout, or never ended does not
\* keep a later one from being started: POST /trial/start is not refused.
THEOREM CampaignStarts == CampaignSpec => []StartNeverRefused
<1>1. ClientInv => StartNeverRefused
  BY DEF ClientInv, StepTellsActive, StartNeverRefused
<1>2. QED
  BY <1>1, ClientInvInvariant, PTL

-----------------------------------------------------------------------------
\* The client's own variables

ClientTypes ==
  /\ step \in {"begin", "reset", "resetting", "register", "start", "replay", "drain", "nodes", "end"}
  /\ cell \in 1..Rounds /\ unregistered \subseteq Node /\ todo \subseteq Task
  /\ queueEmpty \in BOOLEAN /\ drained \in BOOLEAN /\ clean \in BOOLEAN /\ quiet \in BOOLEAN
  /\ step \in {"begin", "register"} <=> unregistered # {}

CountTypes == answer \in 0..Cardinality(Call) /\ counted \in [Node -> 0..Cardinality(Call)]

\* A node runs some of the calls.
LEMMA CountsCalls ==
  /\ Cardinality(Call) \in Nat
  /\ \A n : Cardinality(RunningAt(n)) \in 0..Cardinality(Call)
<1>1. IsFiniteSet(Call) /\ Cardinality(Call) \in Nat
  BY CampaignAssumption, FS_CardinalityType
<1>2. ASSUME NEW n PROVE Cardinality(RunningAt(n)) \in 0..Cardinality(Call)
  <2>1. RunningAt(n) \in SUBSET Call
    BY DEF RunningAt
  <2>2. IsFiniteSet(RunningAt(n)) /\ Cardinality(RunningAt(n)) <= Cardinality(Call)
    BY <1>1, <2>1, FS_Subset
  <2>3. Cardinality(RunningAt(n)) \in Nat
    BY <2>2, FS_CardinalityType
  <2>4. QED
    BY <1>1, <2>2, <2>3
<1>3. QED
  BY <1>1, <1>2

LEMMA NextCellTypes ==
  ASSUME ClientTypes, NextCell, step \notin {"begin", "register"}
  PROVE  /\ cell' \in 1..Rounds /\ unregistered' \subseteq Node /\ step' \in {"begin", "reset"}
         /\ step' = "begin" <=> unregistered' # {}
BY CampaignAssumption DEF ClientTypes, NextCell, Begin

LEMMA ClientTypesStep ==
  ASSUME ClientTypes, [CampaignNext]_campaignVars
  PROVE  ClientTypes'
<1> USE CampaignAssumption DEF ClientTypes, clientVars
<1>1. CASE Background
  BY <1>1 DEF Background
<1>2. ASSUME NEW n \in Node, PostRegister(n) PROVE ClientTypes'
  BY <1>2 DEF PostRegister
<1>3. CASE PostReset \/ ResetAnswered \/ PostStart
  BY <1>3 DEF PostReset, ResetAnswered, PostStart, Idle
<1>4. ASSUME NEW S \in SUBSET Task, PostBatch(S) PROVE ClientTypes'
  BY <1>4 DEF PostBatch
<1>5. CASE GetSystemState \/ GetNodes \/ DrainTimeout
  BY <1>5 DEF GetSystemState, GetNodes, DrainTimeout, NodesIdle
<1>6. CASE PostEnd
  BY <1>6, NextCellTypes DEF PostEnd
<1>7. CASE RequestFails
  <2>1. CASE NextCell /\ step = "end"
    BY <1>7, <2>1, NextCellTypes DEF RequestFails
  <2>2. CASE Begin
    <3>1. 1 \in 1..Rounds
      OBVIOUS
    <3>2. QED
      BY <1>7, <2>2, <3>1 DEF RequestFails, Begin
  <2>3. CASE /\ step' \in {"end", "drain"} /\ step \in {"replay", "drain", "nodes"}
             /\ UNCHANGED <<cell, unregistered>>
    BY <1>7, <2>3 DEF RequestFails
  <2>4. QED
    BY <1>7, <2>1, <2>2, <2>3 DEF RequestFails
<1>8. CASE UNCHANGED campaignVars
  BY <1>8 DEF campaignVars
<1>9. QED
  BY <1>1, <1>2, <1>3, <1>4, <1>5, <1>6, <1>7, <1>8 DEF CampaignNext, Client

LEMMA CountTypesStep ==
  ASSUME CountTypes, [CampaignNext]_campaignVars
  PROVE  CountTypes'
<1> USE CountsCalls DEF CountTypes, countVars
<1>1. CASE UNCHANGED countVars
  BY <1>1
<1>2. ASSUME NEW n \in Node, answer' = Cardinality(RunningAt(n)), UNCHANGED counted PROVE CountTypes'
  BY <1>2
<1>3. ASSUME counted' = [counted EXCEPT ![pollNode] = answer], answer' = 0 PROVE CountTypes'
  <2>1. 0 \in 0..Cardinality(Call)
    BY CountsCalls
  <2> HIDE CountsCalls
  <2>2. QED
    BY <1>3, <2>1
<1>4. ASSUME NEW n \in Node, counted' = [counted EXCEPT ![n] = 0], UNCHANGED answer PROVE CountTypes'
  BY <1>4
<1>5. CASE Background
  BY <1>1, <1>2, <1>3, <1>5 DEF Background
<1>6. CASE Client
  BY <1>1, <1>4, <1>6
    DEF Client, PostRegister, PostReset, ResetAnswered, PostStart, PostBatch, GetSystemState, GetNodes,
        DrainTimeout, PostEnd
<1>7. CASE RequestFails \/ UNCHANGED campaignVars
  BY <1>1, <1>7 DEF RequestFails, campaignVars
<1>8. QED
  BY <1>5, <1>6, <1>7 DEF CampaignNext

\* The client's variables keep their types through all its cells, and a trial is
\* replayed only while it is active (scenario_runner.py, runner.py).
THEOREM CampaignTypeCorrect == CampaignSpec => []CampaignTypeOK
<1>1. CampaignInit => ClientTypes /\ CountTypes
  <2>1. 1 \in 1..Rounds /\ 0 \in 0..Cardinality(Call)
    BY CampaignAssumption, CountsCalls
  <2>2. QED
    BY <2>1, CampaignAssumption DEF CampaignInit, ClientTypes, CountTypes
<1>2. TypeOK /\ ClientTypes /\ CountTypes /\ ClientInv => CampaignTypeOK
  BY DEF CampaignTypeOK, ClientTypes, CountTypes, ClientInv, StepTellsActive
<1>3. QED
  BY <1>1, <1>2, ClientTypesStep, CountTypesStep, ClientInvInvariant, CampaignUsesScheduler,
     SchedTypeCorrect, PTL DEF CampaignSpec

-----------------------------------------------------------------------------
\* A trial that begins clean

\* Every node stays registered, as one thing or another.
ProfilesKept == spec \in [Node -> Profile]

LEMMA ProfilesStep ==
  ASSUME AccountsInv, ProfilesKept, [Next]_vars
  PROVE  ProfilesKept'
<1> USE DEF ProfilesKept
<1>1. CASE TrialNext
  BY <1>1, SpecKept
<1>2. ASSUME NEW n \in Node, RegisterNode(n) PROVE spec' \in [Node -> Profile]
  <2>1. PICK p \in Registered[n] : spec' = [spec EXCEPT ![n] = p]
    BY <1>2 DEF RegisterNode, Register, Replace
  <2>2. p \in Profile
    BY MirrorAssumption
  <2>3. QED
    BY <2>1, <2>2
<1>3. CASE LifecycleNext
  BY <1>2, <1>3
    DEF LifecycleNext, TrialStart, TrialEnd, ResetRecord, ClearQueue, ResetMirror, ClearInflight,
        ResetEdge, EdgeAnswers, ResetAll, mirrorVars
<1>4. CASE UNCHANGED vars
  BY <1>4 DEF vars, mirrorVars
<1>5. ASSUME NEW c \in Call, StrayStep(c) PROVE ProfilesKept'
  BY <1>5 DEF StrayStep, Wake, Exit, mirrorVars
<1>6. QED
  BY <1>1, <1>3, <1>4, <1>5 DEF Next

LEMMA ProfilesStay == CampaignSpec => [](AccountsInv /\ ProfilesKept)
<1>1. Init => ProfilesKept
  BY DEF Init, ProfilesKept
<1>2. QED
  BY <1>1, ProfilesStep, AccountsInvariant, CampaignUsesScheduler, PTL DEF Spec

\* What was found clean, or clean and quiet, at /trial/start is kept as within the
\* first trial.
CleanInv == InTrial /\ clean => BookInv /\ (quiet => TrialInv)

\* When nothing is left of an earlier trial, the invariant of a trial holds at
\* its start: the scheduler may be anywhere in an empty tick or an empty poll.
LEMMA CleanStart ==
  ASSUME AccountsInv, AccountsInv', ProfilesKept, ClientInv, PostStart, clean'
  PROVE  BookInv' /\ (quiet' => TrialInv')
<1>1. /\ Idle /\ TrialStart /\ submitted = {}
  BY DEF PostStart, ClientInv, StepTellsSubmitted
<1>2. /\ submitted' = {} /\ queue' = {} /\ completed' = {} /\ evicted' = {} /\ active' = TRUE
      /\ spec' \in [Node -> Profile] /\ pending' = {} /\ plan' = {} /\ report' = {} /\ tickPc' = tickPc
      /\ dispatched' = {}
      /\ UNCHANGED <<stage, at, phase, shaken, inflight, held>>
  BY <1>1 DEF Idle, TrialStart, ProfilesKept, mirrorVars, queueVars, tickVars, callVars, pollVars, trackVars
<1>3. /\ \A c \in Call : stage[c] = "idle" /\ phase[c] \in {"unused", "refused", "stray"}
      /\ \A n \in Node : inflight[n] = {}
      /\ \A n \in Node, t \in Task : held[n][t] = Nothing
  BY <1>1 DEF Idle, Reserved
<1>4. tickPc # "reserve"
  BY <1>1, SchedulerAssumption DEF Idle, AccountsInv, TypeOK
<1>5. PlaceInv'
  BY <1>2, <1>3, <1>4
    DEF PlaceInv, SomePlace, PlacesApart, OneHolder, InflightDispatched, ReservationHasOwner, Holding,
        InHand, WithWorker, Tracked
<1>6. PlanInv'
  <2>1. Ahead' = {}
    BY <1>2, <1>4 DEF Ahead
  <2>2. \A n \in Node : AheadOn(n)' = {}
    BY <2>1 DEF AheadOn
  <2>3. QED
    BY <1>2, <1>3, <2>1, <2>2 DEF PlanInv, TickShape, PlanShape, RoomAhead, PooledFresh
<1>7. ASSUME quiet' PROVE NoStrays' /\ EdgeInv'
  <2>1. shaken = {} /\ \A c \in Call : phase[c] # "stray"
    BY <1>7 DEF PostStart, Stray
  <2>2. QED
    BY <1>2, <1>3, <2>1
      DEF NoStrays, EdgeInv, Answered, EdgeTracked, EdgeOnce, ReportTracked, OnlyPressureRefuses, OnEdge
<1>8. QED
  BY <1>5, <1>6, <1>7 DEF TrialInv, BookInv

\* Until the client ends its trial or gives it up, the scheduler takes only the
\* steps of a trial, and threads left from earlier ones theirs: the reset before it
\* has ended, and nobody registers a node.
LEMMA StepsWithinTrial ==
  ASSUME ClientInv, InTrial, InTrial', [CampaignNext]_campaignVars
  PROVE  /\ [TrialNext]_vars \/ \E c \in Call : StrayStep(c)
         /\ UNCHANGED <<clean, quiet>>
<1> USE DEF InTrial
<1>1. CASE Background
  <2>1. resetPc = "idle"
    BY DEF ClientInv, StepTellsSubmitted
  <2>2. ~(ClearQueue \/ ResetMirror \/ ClearInflight \/ EdgeAnswers \/ \E n \in Node : ResetEdge(n))
    BY <2>1 DEF ClearQueue, ResetMirror, ClearInflight, EdgeAnswers, ResetEdge
  <2>3. TrialNext \/ \E c \in Call : StrayStep(c)
    BY <1>1, <2>2 DEF Background, TrialNext, PollStep
  <2>4. QED
    BY <1>1, <2>3 DEF Background, clientVars
<1>2. ASSUME NEW S \in SUBSET Task, PostBatch(S) PROVE TrialNext /\ UNCHANGED <<clean, quiet>>
  <2>1. Submit(S) /\ S \in SUBSET (Task \ submitted) /\ UNCHANGED <<clean, quiet>>
    BY <1>2 DEF PostBatch, ClientInv, StepTellsSubmitted
  <2>2. QED
    BY <2>1 DEF TrialNext
<1>3. ASSUME GetSystemState \/ GetNodes \/ DrainTimeout \/ RequestFails \/ UNCHANGED campaignVars
      PROVE  UNCHANGED vars /\ UNCHANGED <<clean, quiet>>
  BY <1>3 DEF GetSystemState, GetNodes, DrainTimeout, RequestFails, campaignVars, clientVars
<1>4. ~((\E n \in Node : PostRegister(n)) \/ PostReset \/ ResetAnswered \/ PostStart \/ PostEnd)
  BY DEF PostRegister, PostReset, ResetAnswered, PostStart, PostEnd, NextCell, Begin
<1>5. QED
  BY <1>1, <1>2, <1>3, <1>4 DEF CampaignNext, Client

LEMMA CleanStep ==
  ASSUME CleanInv, ClientInv, AccountsInv, AccountsInv', ProfilesKept, [CampaignNext]_campaignVars
  PROVE  CleanInv'
<1>1. CASE InTrial /\ InTrial'
  <2>1. UNCHANGED <<clean, quiet>> /\ ([TrialNext]_vars \/ \E c \in Call : StrayStep(c))
    BY <1>1, StepsWithinTrial
  <2>2. CASE [TrialNext]_vars
    BY <1>1, <2>1, <2>2, BookStep, TrialStep DEF CleanInv
  <2>3. ASSUME NEW c \in Call, StrayStep(c) PROVE CleanInv'
    <3>1. phase[c] = "stray"
      BY <2>3 DEF StrayStep, Wake, Exit
    <3>2. ~TrialInv
      BY <3>1 DEF TrialInv, NoStrays
    <3>3. QED
      BY <1>1, <2>1, <2>3, <3>2, BookStray DEF CleanInv
  <2>4. QED
    BY <2>1, <2>2, <2>3
<1>2. CASE ~InTrial /\ InTrial'
  <2>1. PostStart
    BY <1>2 DEF InTrial, CampaignNext, Background, Client, PostRegister, PostReset, ResetAnswered, PostBatch,
                GetSystemState, GetNodes, DrainTimeout, PostEnd, NextCell, RequestFails, Begin,
                campaignVars, clientVars
  <2>2. QED
    BY <2>1, CleanStart DEF CleanInv
<1>3. QED
  BY <1>1, <1>2 DEF CleanInv

LEMMA CleanInvariant == CampaignSpec => []CleanInv
<1>1. CampaignInit => CleanInv
  BY DEF CampaignInit, CleanInv, InTrial
<1>2. QED
  BY <1>1, CleanStep, ClientInvInvariant, ProfilesStay, PTL DEF CampaignSpec

\* A trial that finds the scheduler empty loses no task and leaves no reservation
\* without an owner, whatever resets, time-outs and abandoned trials came before it and
\* whatever threads they left on the nodes, although task ids and nodes are the same
\* again (trial_reset in service.py, _run_one_trial in runner.py).  What it takes the
\* nodes to be doing they are doing if no such thread is left (reset in execution.py).
THEOREM CleanTrialsBehave == CampaignSpec => []CleanTrialsAlike
<1>1. CleanInv => CleanTrialsAlike
  BY BookProperties, InvProperties DEF CleanInv, CleanTrialsAlike
<1>2. QED
  BY <1>1, CleanInvariant, PTL

-----------------------------------------------------------------------------
\* The drain wait

\* A node on which no cores are reserved has no reservation.
LEMMA NoCoresNoTasks ==
  ASSUME MirrorInv, NEW n \in Node, usedCores[n] = 0
  PROVE  \A t \in Task : held[n][t] = Nothing
<1> SUFFICES ASSUME NEW t \in Task, held[n][t] # Nothing PROVE FALSE
  OBVIOUS
<1> DEFINE cores == [u \in Reserved(n) |-> held[n][u].cores]
<1>1. IsFiniteSet(Reserved(n)) /\ \A u \in Reserved(n) : held[n][u] \in Demand
  BY HeldIsNat DEF MirrorInv
<1>2. \A u \in Reserved(n) : cores[u] \in Nat
  BY <1>1, MirrorAssumption
<1>3. t \in Reserved(n) /\ cores[t] \in Nat \ {0}
  BY <1>1, MirrorAssumption DEF Reserved
<1>4. HeldCores(n) = LoadOf(Reserved(n), cores) /\ HeldCores(n) = 0
  BY DEF HeldCores, MirrorInv, ProjectedIsSum
<1> HIDE DEF cores
<1>5. LoadOf({t}, cores) = cores[t]
  <2>1. {t} = {} \cup {t} /\ t \notin {} /\ \A u \in {} \cup {t} : cores[u] \in Nat
    BY <1>3
  <2>2. LoadOf({} \cup {t}, cores) = LoadOf({}, cores) + cores[t]
    BY <2>1, FS_EmptySet, LoadAddsSize
  <2>3. QED
    BY <1>3, <2>1, <2>2, EmptyLoad
<1>6. LoadOf({t}, cores) <= LoadOf(Reserved(n), cores)
  <2>1. {t} \in SUBSET Reserved(n)
    BY <1>3
  <2>2. QED
    BY <1>1, <1>2, <2>1, LoadMonotone
<1>7. QED
  BY <1>3, <1>4, <1>5, <1>6

\* When the verification runner finds a clean trial drained, nothing of it is tracked,
\* and nothing of it is left on any node if none has a thread of an earlier trial: the
\* runner's check of the projected cores makes up for asking twice and for counts of
\* earlier polls (_wait_for_drain in runner.py).  It is the reservations that tell, so
\* no answer to a dispatch may have been lost.
THEOREM DrainedTrialIsOver ==
  Verifying /\ "execute" \notin Lossy /\ CampaignSpec => NothingOnNodesWhenDrained
<1> SUFFICES ASSUME Verifying, "execute" \notin Lossy
             PROVE  CampaignSpec => NothingOnNodesWhenDrained
  OBVIOUS
<1>1. ASSUME CleanInv, [CampaignNext]_campaignVars,
             clean, step = "nodes", step' = "end", NEW n \in Node
      PROVE  inflight[n] = {} /\ (quiet => Burden(n) = {})
  <2>1. BookInv /\ (quiet => TrialInv)
    BY <1>1 DEF CleanInv, InTrial
  <2>2. GetNodes
    BY <1>1 DEF CampaignNext, Background, Client, PostRegister, PostReset, ResetAnswered, PostStart, PostBatch,
                GetSystemState, DrainTimeout, PostEnd, RequestFails, Begin, NextCell, campaignVars, clientVars
  <2>3. usedCores[n] = 0
    BY <1>1, <2>2 DEF GetNodes, NodesIdle
  <2>4. \A t \in Task : held[n][t] = Nothing
    BY <2>1, <2>3, NoCoresNoTasks DEF BookInv, AccountsInv
  <2>5. inflight[n] = {}
    BY <2>1, <2>4, Shapes DEF BookInv, AccountsInv, PlaceInv, ReservationHasOwner
  <2>6. ASSUME quiet, NEW c \in Burden(n) PROVE FALSE
    <3>1. c \in Call /\ TaskOf[c] \in Task
      BY SchedulerAssumption DEF Burden
    <3>2. held[n][TaskOf[c]] = DemandOf[TaskOf[c]]
      BY <2>1, <2>6, <3>1, InvProperties DEF MirrorCoversEdge
    <3>3. QED
      BY <2>4, <3>1, <3>2, MirrorAssumption, PlacementAssumption
  <2>7. QED
    BY <2>5, <2>6
<1>2. CleanInv /\ [CampaignNext]_campaignVars
        => [clean /\ step = "nodes" /\ step' = "end" =>
              \A n \in Node : inflight[n] = {} /\ (quiet => Burden(n) = {})]_campaignVars
  BY <1>1
<1>3. QED
  BY <1>2, CleanInvariant, PTL DEF CampaignSpec, NothingOnNodesWhenDrained
=============================================================================
