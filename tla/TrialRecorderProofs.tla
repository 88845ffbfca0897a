------------------------ MODULE TrialRecorderProofs ------------------------
(***************************************************************************)
(* The trial recorder, for every set of tasks, nodes and threads, every    *)
(* bound on refusals and resets, and a trial ended at any moment.          *)
(*                                                                         *)
(* RecorderInv: types, one writer of the log, and no record that the log   *)
(*   or a thread between the two locks does not account for.               *)
(* LifeInv: a task of a clean trial whose calls do not overtake each other *)
(*   is in one place, which tells what is written of it.                   *)
(* AgreeInv: the lines about such a task determine its record and its      *)
(*   replay.                                                               *)
(* RowInv: no such task gets lost, so that a run ended when everything has *)
(*   settled has a row for each of them.                                   *)
(***************************************************************************)
EXTENDS TrialRecorder, LoadTheorems

-----------------------------------------------------------------------------
\* Types

Sections ==
  {"idle", "update", "emit", "write", "flush", "callback", "track", "observe", "batch",
   "append", "close", "forget", "deactivate", "activate", "clear", "untrack", "reset"}

\* The lines that are about no task, and what a thread holds between calls.
SilentLine ==
  {Line(type, Nothing, Nothing) :
     type \in {"none", "trial_start", "trial_end", "reset", "scheduling_decision", "memory_sample"}}

TaskRecord ==
  [status : {"pending", "dispatched", "completed", "rejected", Nothing},
   node : Node \cup {Nothing}, known : BOOLEAN, since : Nat]

\* The variables of the recorder itself, and those of the pipeline around it.
RecorderTypes ==
  /\ active \in BOOLEAN /\ file \in {"none", "open", "closed"}
  /\ record \in [Task -> TaskRecord]
  /\ log \in Seq(TaskLine)
  /\ writer \in Thread \cup {Nothing}
  /\ pc \in [Thread -> Sections]
  /\ line \in [Thread -> TaskLine \cup SilentLine]

PipelineTypes ==
  /\ queue \subseteq Task /\ expired \subseteq Task /\ todo \subseteq Task
  /\ plan \subseteq Task \X Node /\ pool \subseteq Task \X Node
  /\ edge \subseteq Task \X Node /\ report \subseteq Task \X Node
  /\ tracked \subseteq Task \X Node
  /\ finished \subseteq edge

\* A thread that writes to the log holds its lock, and one about to track a task
\* still knows which task it dispatched where.
OneWriter == \A th \in Thread : pc[th] \in {"write", "flush"} => writer = th

TracksDispatched ==
  \A th \in Thread :
    pc[th] = "track" => \E t \in Task, n \in Node : line[th] = Dispatched(t, n)

Types == RecorderTypes /\ PipelineTypes /\ OneWriter /\ TracksDispatched

LEMMA TypesGiveTypeOK == Types => TypeOK
<1> SUFFICES ASSUME Types PROVE TypeOK
  OBVIOUS
<1>1. \A t \in Task :
        record[t].status \in {"pending", "dispatched", "completed", "rejected", Nothing}
  BY DEF Types, RecorderTypes, TaskRecord
<1>2. \A i \in 1..Len(log) : log[i] \in TaskLine
  BY DEF Types, RecorderTypes
<1>3. QED
  BY <1>1, <1>2 DEF Types, RecorderTypes, PipelineTypes, OneWriter, TypeOK

-----------------------------------------------------------------------------
\* What the record says is told

\* The lines about a task that are in the log or are about to be.
LinesOf(t) ==
  {l \in {log[i] : i \in 1..Len(log)} : l.task = t}
    \cup {line[th] : th \in {u \in Thread : pc[u] \in {"emit", "write"} /\ line[u].task = t}}

KindsOf(status) ==
  CASE status = "pending" -> {"task_submitted"}
    [] status = "dispatched" -> {"task_dispatched"}
    [] status = "completed" -> {"task_completed"}
    [] OTHER -> {"task_evicted", "task_rejected"}

Explained(rec, lines) ==
  \/ rec = NoRecord
  \/ /\ \E l \in lines : l.type \in KindsOf(rec.status)
     /\ rec.node # Nothing => \E l \in lines : l.node = rec.node

\* A trial starts with an empty record, and none is active until then.
EmptyUnlessActive == active \/ record = [t \in Task |-> NoRecord]

ActivatedOnce == pc["client"] = "activate" => ~active

ToldInv == (active /\ file = "open") => \A t \in Task : Explained(record[t], LinesOf(t))

RecorderInv == Types /\ EmptyUnlessActive /\ ActivatedOnce /\ ToldInv

-----------------------------------------------------------------------------
\* Lines, sections and records

LEMMA NamedThreads == {"client", "tick", "poller", "sampler"} \subseteq Thread /\ Worker \subseteq Thread
BY DEF Thread

LEMMA LineTypes ==
  /\ \A t \in Task : Submitted(t) \in TaskLine /\ Evicted(t) \in TaskLine
  /\ \A t \in Task, n \in Node : /\ Dispatched(t, n) \in TaskLine /\ Rejected(t, n) \in TaskLine
                                /\ Completed(t, n) \in TaskLine
  /\ NoLine \in SilentLine
  /\ \A type \in {"trial_start", "trial_end", "reset", "scheduling_decision", "memory_sample"} :
       Line(type, Nothing, Nothing) \in SilentLine
BY DEF TaskLine, SilentLine, NoLine

\* What the fields of a line about a task can be.
LEMMA LineFields ==
  ASSUME NEW l \in TaskLine
  PROVE  /\ l.task \in Task
         /\ \/ l.type \in {"task_submitted", "task_evicted"} /\ l.node = Nothing
            \/ l.type \in {"task_dispatched", "task_rejected", "task_completed"} /\ l.node \in Node
         /\ l.type = "task_dispatched" => l = Dispatched(l.task, l.node)
BY DEF TaskLine, Submitted, Evicted, Dispatched, Rejected, Completed, Line, Noted

LEMMA SilentFields ==
  ASSUME NEW l \in SilentLine
  PROVE  /\ l.task = Nothing
         /\ l.type \in {"none", "trial_start", "trial_end", "reset", "scheduling_decision",
                        "memory_sample"}
BY DEF SilentLine, Line, Noted

\* A line is about a task exactly if it is one of those the replay reads.
LEMMA AboutTask ==
  ASSUME NEW l \in TaskLine \cup SilentLine
  PROVE  /\ l.task # Nothing <=> l \in TaskLine
         /\ l.type = "task_dispatched" => \E t \in Task, n \in Node : l = Dispatched(t, n)
<1>1. Nothing \notin Task
  BY RecorderAssumption
<1>2. CASE l \in TaskLine
  <2>1. l.task \in Task
    BY <1>2, LineFields
  <2>2. ASSUME l.type = "task_dispatched" PROVE l.node \in Node /\ l = Dispatched(l.task, l.node)
    BY <1>2, <2>2, LineFields
  <2>3. QED
    BY <1>1, <1>2, <2>1, <2>2
<1>3. CASE l \in SilentLine
  <2>1. l.task = Nothing /\ l.type # "task_dispatched"
    BY <1>3, SilentFields
  <2>2. l \notin TaskLine
    BY <1>1, <2>1, LineFields
  <2>3. QED
    BY <2>1, <2>2
<1>4. QED
  BY <1>2, <1>3

\* What a call makes of the record of its task.
LEMMA RecordedFields ==
  ASSUME NEW rec \in TaskRecord, NEW l \in TaskLine
  PROVE  /\ Recorded(rec, l) \in TaskRecord
         /\ \/ Recorded(rec, l) = rec /\ rec = NoRecord
            \/ /\ l.type \in KindsOf(Recorded(rec, l).status)
               /\ Recorded(rec, l).node \in {Nothing, rec.node, l.node}
<1>1. NoRecord \in TaskRecord
  BY DEF NoRecord, TaskRecord
<1>2. CASE l.type = "task_submitted"
  <2>1. Recorded(rec, l) = [NoRecord EXCEPT !.status = "pending", !.known = TRUE]
    BY <1>2 DEF Recorded
  <2>2. QED
    BY <1>1, <1>2, <2>1 DEF TaskRecord, NoRecord, KindsOf
<1>3. CASE l.type = "task_dispatched"
  <2>1. Recorded(rec, l) = [AbsorbDispatched(rec, l.node, 0) EXCEPT !.known = TRUE]
    BY <1>3 DEF Recorded
  <2>2. l.node \in Node
    BY <1>3, LineFields
  <2>3. Recorded(rec, l) = [status |-> "dispatched", node |-> l.node, known |-> TRUE, since |-> 0]
    BY <2>1 DEF AbsorbDispatched, TaskRecord
  <2>4. Recorded(rec, l) \in TaskRecord
    BY <2>2, <2>3 DEF TaskRecord
  <2>5. Recorded(rec, l).status = "dispatched" /\ Recorded(rec, l).node = l.node
    BY <2>3 DEF TaskRecord
  <2>6. QED
    BY <1>3, <2>4, <2>5 DEF KindsOf
<1>4. CASE l.type \notin {"task_submitted", "task_dispatched"}
  <2>1. Recorded(rec, l) = IF rec = NoRecord THEN rec ELSE Absorb(rec, l, 0)
    BY <1>4 DEF Recorded
  <2>2. CASE rec = NoRecord
    BY <2>1, <2>2
  <2>3. CASE rec # NoRecord /\ l.type = "task_completed"
    <3>1. Recorded(rec, l) = AbsorbCompleted(rec, l.node) /\ l.node \in Node
      BY <2>1, <2>3, LineFields DEF Absorb
    <3>2. QED
      BY <2>3, <3>1 DEF AbsorbCompleted, TaskRecord, KindsOf
  <2>4. CASE rec # NoRecord /\ l.type \in {"task_rejected", "task_evicted"}
    <3>1. Recorded(rec, l) = AbsorbRejected(rec, l.node) /\ l.node \in Node \cup {Nothing}
      BY <2>1, <2>4, LineFields DEF Absorb
    <3>2. QED
      BY <2>4, <3>1 DEF AbsorbRejected, TaskRecord, KindsOf
  <2>5. QED
    BY <1>4, <2>2, <2>3, <2>4, LineFields
<1>5. QED
  BY <1>2, <1>3, <1>4

LEMMA AfterCallSection ==
  ASSUME NEW th \in Thread
  PROVE  /\ AfterCall(th) \in Sections \ {"write", "flush", "update", "emit"}
         /\ AfterCall(th) = "track" => line[th].type = "task_dispatched"
BY DEF AfterCall, Sections

-----------------------------------------------------------------------------
\* Type correctness

ThreadTypes ==
  /\ writer \in Thread \cup {Nothing}
  /\ pc \in [Thread -> Sections]
  /\ line \in [Thread -> TaskLine \cup SilentLine]
  /\ OneWriter /\ TracksDispatched

\* A thread that is not writing moves on to a section in which it does not
\* write, with the line it has or with another one.
LEMMA OneMoves ==
  ASSUME ThreadTypes, NEW th \in Thread, pc[th] \notin {"write", "flush"},
         NEW to \in Sections \ {"write", "flush", "track"},
         pc' = [pc EXCEPT ![th] = to], writer' = writer,
         \/ line' = line
         \/ \E l \in TaskLine \cup SilentLine : line' = [line EXCEPT ![th] = l]
  PROVE  ThreadTypes'
<1>1. \A u \in Thread \ {th} : pc'[u] = pc[u] /\ line'[u] = line[u]
  BY DEF ThreadTypes
<1>2. pc'[th] = to
  BY DEF ThreadTypes
<1>3. OneWriter' /\ TracksDispatched'
  BY <1>1, <1>2 DEF ThreadTypes, OneWriter, TracksDispatched
<1>4. QED
  BY <1>3 DEF ThreadTypes

LEMMA NobodyMoves ==
  ASSUME ThreadTypes, UNCHANGED <<pc, line, writer>>
  PROVE  ThreadTypes'
BY DEF ThreadTypes, OneWriter, TracksDispatched

\* A writer leaves the lock behind.
LEMMA WriterLeaves ==
  ASSUME ThreadTypes, NEW th \in Thread, pc[th] \in {"write", "flush"},
         NEW to \in Sections \ {"write", "flush"},
         pc' = [pc EXCEPT ![th] = to], writer' = Nothing,
         \/ line' = line
         \/ \E l \in TaskLine \cup SilentLine : line' = [line EXCEPT ![th] = l],
         to = "track" => line' = line /\ line[th].type = "task_dispatched"
  PROVE  ThreadTypes'
<1>1. \A u \in Thread \ {th} : pc'[u] = pc[u] /\ line'[u] = line[u]
  BY DEF ThreadTypes
<1>2. pc'[th] = to
  BY DEF ThreadTypes
<1>3. \A u \in Thread \ {th} : pc[u] \notin {"write", "flush"}
  BY DEF ThreadTypes, OneWriter
<1>4. OneWriter'
  BY <1>1, <1>2, <1>3 DEF OneWriter
<1>5. to = "track" => \E t \in Task, n \in Node : line'[th] = Dispatched(t, n)
  BY AboutTask DEF ThreadTypes
<1>6. TracksDispatched'
  BY <1>1, <1>2, <1>5 DEF ThreadTypes, TracksDispatched
<1>7. QED
  BY <1>4, <1>6 DEF ThreadTypes

\* A call returns without having written.
LEMMA ReturnsSilently ==
  ASSUME ThreadTypes, NEW th \in Thread, pc[th] \notin {"write", "flush"},
         Return(th), writer' = writer
  PROVE  ThreadTypes'
<1>1. AfterCall(th) \in Sections \ {"write", "flush"}
  BY AfterCallSection
<1>2. pc' = [pc EXCEPT ![th] = AfterCall(th)]
      /\ line' = IF line[th].type = "task_dispatched" THEN line ELSE [line EXCEPT ![th] = NoLine]
  BY DEF Return, Moves
<1>3. NoLine \in TaskLine \cup SilentLine
  BY LineTypes
<1>4. CASE AfterCall(th) # "track"
  BY <1>1, <1>2, <1>3, <1>4, OneMoves
<1>5. CASE AfterCall(th) = "track"
  <2>1. line[th].type = "task_dispatched" /\ line' = line
    BY <1>2, <1>5, AfterCallSection
  <2>2. \E t \in Task, n \in Node : line'[th] = Dispatched(t, n)
    BY <2>1, AboutTask DEF ThreadTypes
  <2>3. pc' = [pc EXCEPT ![th] = "track"]
    BY <1>2, <1>5
  <2>4. QED
    BY <2>1, <2>2, <2>3 DEF ThreadTypes, OneWriter, TracksDispatched, Sections
<1>6. QED
  BY <1>4, <1>5

LEMMA UpdateTypes ==
  ASSUME Types, NEW th \in Thread, Update(th)
  PROVE  Types'
<1> USE DEF trialVars, outVars, clientVars, tickVars, nodeVars, ghostVars
<1>1. ThreadTypes /\ pc[th] = "update"
  BY DEF Types, RecorderTypes, ThreadTypes, Update
<1>2. CASE ~active
  <2>1. Return(th) /\ UNCHANGED <<record, writer, active, file, log>> /\ UNCHANGED PipelineTypes
    BY <1>2 DEF Update, PipelineTypes
  <2>2. ThreadTypes'
    BY <1>1, <2>1, ReturnsSilently
  <2>3. QED
    BY <2>1, <2>2 DEF Types, RecorderTypes, ThreadTypes
<1>3. CASE active
  <2>1. /\ pc' = [pc EXCEPT ![th] = "emit"] /\ UNCHANGED <<line, writer, active, file, log>>
        /\ UNCHANGED PipelineTypes
        /\ record' = IF line[th].task = Nothing THEN record
                       ELSE [record EXCEPT ![line[th].task] = Recorded(@, line[th])]
    BY <1>3 DEF Update, Moves, PipelineTypes
  <2>2. ThreadTypes'
    BY <1>1, <2>1, OneMoves DEF Sections
  <2>3. record' \in [Task -> TaskRecord]
    <3>1. CASE line[th].task = Nothing
      BY <2>1, <3>1 DEF Types, RecorderTypes
    <3>2. CASE line[th].task # Nothing
      <4>1. line[th] \in TaskLine
        BY <1>1, <3>2, AboutTask DEF ThreadTypes
      <4>2. line[th].task \in Task
        BY <4>1, LineFields
      <4>3. Recorded(record[line[th].task], line[th]) \in TaskRecord
        BY <4>1, <4>2, RecordedFields DEF Types, RecorderTypes
      <4>4. QED
        BY <2>1, <3>2, <4>2, <4>3 DEF Types, RecorderTypes
    <3>3. QED
      BY <3>1, <3>2
  <2>4. QED
    BY <2>1, <2>2, <2>3 DEF Types, RecorderTypes, ThreadTypes
<1>4. QED
  BY <1>2, <1>3

LEMMA EmitTypes ==
  ASSUME Types, NEW th \in Thread, Emit(th)
  PROVE  Types'
<1> USE DEF trialVars, outVars, clientVars, tickVars, nodeVars, ghostVars
<1>1. ThreadTypes /\ pc[th] = "emit" /\ writer = Nothing
  BY DEF Types, RecorderTypes, ThreadTypes, Emit
<1>2. UNCHANGED <<record, active, file, log>> /\ UNCHANGED PipelineTypes
  BY DEF Emit, PipelineTypes
<1>3. CASE file = "none" \/ ~active
  <2>1. Return(th) /\ writer' = writer
    BY <1>3 DEF Emit
  <2>2. ThreadTypes'
    BY <1>1, <2>1, ReturnsSilently
  <2>3. QED
    BY <1>2, <2>2 DEF Types, RecorderTypes, ThreadTypes
<1>4. CASE ~(file = "none" \/ ~active)
  <2>1. pc' = [pc EXCEPT ![th] = "write"] /\ writer' = th /\ line' = line
    BY <1>4 DEF Emit, Moves
  <2>2. Nothing \notin Thread
    BY RecorderAssumption DEF Thread
  <2>3. \A u \in Thread : pc[u] \notin {"write", "flush"}
    BY <1>1, <2>2 DEF ThreadTypes, OneWriter
  <2>4. OneWriter' /\ TracksDispatched'
    BY <1>1, <2>1, <2>3 DEF ThreadTypes, OneWriter, TracksDispatched
  <2>5. QED
    BY <1>1, <1>2, <2>1, <2>4 DEF Types, RecorderTypes, ThreadTypes, Sections
<1>5. QED
  BY <1>3, <1>4

LEMMA RaiseTypes ==
  ASSUME Types, NEW th \in Thread, pc[th] \in {"write", "flush"}, Raise(th)
  PROVE  ThreadTypes' /\ PipelineTypes'
<1>1. ThreadTypes
  BY DEF Types, RecorderTypes, ThreadTypes
<1>2. pc' = [pc EXCEPT ![th] = "idle"] /\ line' = [line EXCEPT ![th] = NoLine] /\ writer' = Nothing
  BY DEF Raise, Abandon, Moves
<1>3. ThreadTypes'
  BY <1>1, <1>2, LineTypes, WriterLeaves DEF Sections
<1>4. PipelineTypes'
  BY DEF Raise, Abandon, Types, PipelineTypes
<1>5. QED
  BY <1>3, <1>4

LEMMA WriteTypes ==
  ASSUME Types, NEW th \in Thread, Write(th)
  PROVE  Types'
<1> USE DEF trialVars, outVars, clientVars, tickVars, nodeVars, ghostVars
<1>1. ThreadTypes /\ pc[th] = "write" /\ UNCHANGED <<record, active, file>>
  BY DEF Types, RecorderTypes, ThreadTypes, Write
<1>2. CASE Raise(th) /\ UNCHANGED log
  BY <1>1, <1>2, RaiseTypes DEF Types, RecorderTypes, ThreadTypes
<1>3. CASE /\ pc' = [pc EXCEPT ![th] = "flush"] /\ UNCHANGED <<writer, line>>
           /\ UNCHANGED PipelineTypes
           /\ log' = IF line[th].task = Nothing THEN log ELSE Append(log, line[th])
  <2>1. OneWriter' /\ TracksDispatched'
    BY <1>1, <1>3 DEF ThreadTypes, OneWriter, TracksDispatched
  <2>2. line[th].task # Nothing => line[th] \in TaskLine
    BY <1>1, AboutTask DEF ThreadTypes
  <2>3. log' \in Seq(TaskLine)
    BY <1>3, <2>2 DEF Types, RecorderTypes
  <2>4. QED
    BY <1>1, <1>3, <2>1, <2>3 DEF Types, RecorderTypes, ThreadTypes, Sections
<1>4. QED
  BY <1>2, <1>3 DEF Write, Moves, PipelineTypes

LEMMA FlushTypes ==
  ASSUME Types, NEW th \in Thread, Flush(th)
  PROVE  Types'
<1> USE DEF trialVars, outVars, clientVars, tickVars, nodeVars, ghostVars
<1>1. ThreadTypes /\ pc[th] = "flush" /\ UNCHANGED <<record, active, file, log>>
  BY DEF Types, RecorderTypes, ThreadTypes, Flush
<1>2. CASE Raise(th)
  BY <1>1, <1>2, RaiseTypes DEF Types, RecorderTypes, ThreadTypes
<1>3. CASE Return(th) /\ writer' = Nothing /\ UNCHANGED PipelineTypes
  <2>1. AfterCall(th) \in Sections \ {"write", "flush"}
        /\ (AfterCall(th) = "track" => line[th].type = "task_dispatched")
    BY AfterCallSection
  <2>2. pc' = [pc EXCEPT ![th] = AfterCall(th)]
        /\ line' = IF line[th].type = "task_dispatched" THEN line ELSE [line EXCEPT ![th] = NoLine]
    BY <1>3 DEF Return, Moves
  <2>3. ThreadTypes'
    BY <1>1, <1>3, <2>1, <2>2, LineTypes, WriterLeaves
  <2>4. QED
    BY <1>1, <1>3, <2>3 DEF Types, RecorderTypes, ThreadTypes
<1>4. QED
  BY <1>2, <1>3 DEF Flush, PipelineTypes

-----------------------------------------------------------------------------
\* The steps outside the recorder's calls

ClientNext ==
  \/ \E t \in Task : SubmitTask(t)
  \/ \E S \in SUBSET Task : SubmitBatch(S)
  \/ Start \/ End \/ Reset \/ ClientStep

TickNext ==
  \/ \E S \in SUBSET Task : Evict(S)
  \/ \E t \in Task : EvictNext(t)
  \/ \E p \in Plans : Decide(p)
  \/ \E t \in Task, n \in Node : Take(<<t, n>>)

NodeNext ==
  \/ \E t \in Task, n \in Node, w \in Worker : Admitted(w, <<t, n>>) \/ Refused(w, <<t, n>>)
  \/ \E w \in Worker : Callback(w) \/ Track(w)
  \/ \E t \in Task, n \in Node : Finish(<<t, n>>)
  \/ \E n \in Node : Poll(n)
  \/ Observe \/ Sample

OutsideNext == ClientNext \/ TickNext \/ NodeNext

LEMMA NextSplit == Next => OutsideNext \/ \E th \in Thread : RecordStep(th)
BY DEF Next, Requests, OutsideNext, ClientNext, TickNext, NodeNext

\* A thread that is in no call goes to another section, perhaps with a line.
Proceeds(th) ==
  /\ pc[th] \notin {"update", "emit", "write", "flush"}
  /\ \E to \in Sections \ {"write", "flush", "track", "activate"} : pc' = [pc EXCEPT ![th] = to]
  /\ \/ line' = line
     \/ \E l \in TaskLine \cup SilentLine : line' = [line EXCEPT ![th] = l]

OneProceeds ==
  /\ writer' = writer
  /\ UNCHANGED <<pc, line>> \/ \E th \in Thread : Proceeds(th)

LEMMA ClientProceeds ==
  ASSUME Types, ClientNext, ~Start
  PROVE  OneProceeds
<1> USE DEF Proceeds, OneProceeds, Sections, Moves, Goes, Call, trialVars, outVars, clientVars,
            tickVars, nodeVars, ghostVars
<1>0. "client" \in Thread
  BY NamedThreads
<1>1. ASSUME NEW t \in Task, SubmitTask(t) PROVE OneProceeds
  BY <1>0, <1>1, LineTypes DEF SubmitTask
<1>2. ASSUME NEW S \in SUBSET Task, SubmitBatch(S) PROVE OneProceeds
  BY <1>0, <1>2 DEF SubmitBatch
<1>4. CASE End
  BY <1>0, <1>4, LineTypes DEF End
<1>5. CASE Reset
  BY <1>0, <1>5, LineTypes DEF Reset
<1>6. CASE BatchNext
  <2>1. CASE UNCHANGED <<pc, line>>
    BY <1>6, <2>1 DEF BatchNext
  <2>2. CASE pc' = [pc EXCEPT !["client"] = "idle"] /\ line' = line
    BY <1>0, <1>6, <2>2 DEF BatchNext
  <2>3. ASSUME NEW t \in Task, Call("client", Submitted(t)) PROVE OneProceeds
    BY <1>0, <1>6, <2>3, LineTypes DEF BatchNext
  <2>4. todo \subseteq Task
    BY DEF Types, PipelineTypes
  <2>5. QED
    BY <1>6, <2>1, <2>2, <2>3, <2>4 DEF BatchNext
<1>7. CASE Activate
  BY <1>0, <1>7, LineTypes DEF Activate
<1>8. CASE AppendRow \/ Close \/ Forget
  BY <1>0, <1>8 DEF AppendRow, Close, Forget
<1>9. CASE Deactivate
  BY <1>0, <1>9 DEF Deactivate
<1>10. CASE ClearQueue \/ ClearTracked
  BY <1>0, <1>10 DEF ClearQueue, ClearTracked
<1>11. CASE ResetNodes
  BY <1>0, <1>11, LineTypes DEF ResetNodes
<1>12. QED
  BY <1>1, <1>2, <1>4, <1>5, <1>6, <1>7, <1>8, <1>9, <1>10, <1>11
     DEF ClientNext, ClientStep

LEMMA TickProceeds ==
  ASSUME Types, TickNext
  PROVE  OneProceeds
<1> USE DEF Proceeds, OneProceeds, Sections, Moves, Goes, Call, trialVars, outVars, clientVars,
            tickVars, nodeVars, ghostVars
<1>0. "tick" \in Thread
  BY NamedThreads
<1>1. ASSUME NEW S \in SUBSET Task, Evict(S) PROVE OneProceeds
  BY <1>1 DEF Evict
<1>2. ASSUME NEW t \in Task, EvictNext(t) PROVE OneProceeds
  BY <1>0, <1>2, LineTypes DEF EvictNext
<1>3. ASSUME NEW p \in Plans, Decide(p) PROVE OneProceeds
  BY <1>0, <1>3, LineTypes DEF Decide
<1>4. ASSUME NEW t \in Task, NEW n \in Node, Take(<<t, n>>) PROVE OneProceeds
  BY <1>4 DEF Take
<1>5. QED
  BY <1>1, <1>2, <1>3, <1>4 DEF TickNext

LEMMA NodeProceeds ==
  ASSUME Types, NodeNext
  PROVE  OneProceeds
<1> USE DEF Proceeds, OneProceeds, Sections, Moves, Goes, Call, trialVars, outVars, clientVars,
            tickVars, nodeVars, ghostVars
<1>0. "poller" \in Thread /\ "sampler" \in Thread /\ Worker \subseteq Thread
  BY NamedThreads
<1>1. ASSUME NEW t \in Task, NEW n \in Node, NEW w \in Worker,
             Admitted(w, <<t, n>>) \/ Refused(w, <<t, n>>)
      PROVE  OneProceeds
  BY <1>0, <1>1, LineTypes DEF Admitted, Refused
<1>2. ASSUME NEW w \in Worker, Callback(w) PROVE OneProceeds
  <2>1. CASE active
    <3>1. pc' = [pc EXCEPT ![w] = "update"] /\ line' = line
      BY <1>2, <2>1 DEF Callback, Types, RecorderTypes
    <3>2. QED
      BY <1>0, <1>2, <3>1 DEF Callback
  <2>2. CASE ~active
    <3>1. pc' = [pc EXCEPT ![w] = "idle"] /\ line' = [line EXCEPT ![w] = NoLine]
      BY <1>2, <2>2 DEF Callback
    <3>2. QED
      BY <1>0, <1>2, <3>1, LineTypes DEF Callback
  <2>3. QED
    BY <2>1, <2>2
<1>3. ASSUME NEW w \in Worker, Track(w) PROVE OneProceeds
  BY <1>0, <1>3, LineTypes DEF Track
<1>4. ASSUME NEW t \in Task, NEW n \in Node, Finish(<<t, n>>) PROVE OneProceeds
  BY <1>4 DEF Finish
<1>5. ASSUME NEW n \in Node, Poll(n) PROVE OneProceeds
  BY <1>0, <1>5 DEF Poll
<1>6. CASE Observe
  <2>1. CASE UNCHANGED <<pc, line>>
    BY <1>6, <2>1 DEF Observe
  <2>2. CASE pc' = [pc EXCEPT !["poller"] = "idle"] /\ line' = line
    BY <1>0, <1>6, <2>2 DEF Observe
  <2>3. ASSUME NEW a \in report, Call("poller", Completed(a[1], a[2])) PROVE OneProceeds
    <3>1. a[1] \in Task /\ a[2] \in Node
      BY DEF Types, PipelineTypes
    <3>2. QED
      BY <1>0, <1>6, <2>3, <3>1, LineTypes DEF Observe
  <2>4. QED
    BY <1>6, <2>1, <2>2, <2>3 DEF Observe
<1>7. CASE Sample
  BY <1>0, <1>7, LineTypes DEF Sample
<1>8. QED
  BY <1>1, <1>2, <1>3, <1>4, <1>5, <1>6, <1>7 DEF NodeNext

\* Only bringing a trial up or taking it down touches the record or the file.
LEMMA OutsideKeeps ==
  ASSUME OutsideNext
  PROVE  \/ UNCHANGED <<active, record, file, log>>
         \/ Start \/ Activate \/ Close \/ Forget \/ Deactivate
<1> USE DEF trialVars, outVars, clientVars, tickVars, nodeVars, ghostVars
<1>1. CASE ClientNext
  BY <1>1 DEF ClientNext, SubmitTask, SubmitBatch, End, Reset, ClientStep, BatchNext, AppendRow,
              ClearQueue, ClearTracked, ResetNodes
<1>2. CASE TickNext
  BY <1>2 DEF TickNext, Evict, EvictNext, Decide, Take
<1>3. CASE NodeNext
  <2>1. CASE \E t \in Task, n \in Node, w \in Worker : Admitted(w, <<t, n>>) \/ Refused(w, <<t, n>>)
    BY <2>1 DEF Admitted, Refused
  <2>2. CASE \/ \E w \in Worker : Callback(w) \/ Track(w)
             \/ \E t \in Task, n \in Node : Finish(<<t, n>>)
    BY <2>2 DEF Callback, Track, Finish
  <2>3. CASE Observe \/ Sample \/ \E n \in Node : Poll(n)
    BY <2>3 DEF Observe, Sample, Poll
  <2>4. QED
    BY <1>3, <2>1, <2>2, <2>3 DEF NodeNext
<1>4. QED
  BY <1>1, <1>2, <1>3 DEF OutsideNext

LEMMA OutsidePipeline ==
  ASSUME Types, OutsideNext
  PROVE  PipelineTypes'
<1> USE DEF trialVars, outVars, clientVars, tickVars, nodeVars, ghostVars, Types, PipelineTypes
<1>1. CASE ClientNext
  BY <1>1 DEF ClientNext, SubmitTask, SubmitBatch, Start, End, Reset, ClientStep, BatchNext,
              Activate, AppendRow, Close, Forget, Deactivate, ClearQueue, ClearTracked, ResetNodes
<1>2. CASE TickNext
  <2>1. ASSUME NEW p \in Plans, Decide(p) PROVE PipelineTypes'
    <3>1. p \subseteq Task \X Node
      BY DEF Plans
    <3>2. QED
      BY <2>1, <3>1 DEF Decide
  <2>2. QED
    BY <1>2, <2>1 DEF TickNext, Evict, EvictNext, Take
<1>3. CASE NodeNext
  <2>1. ASSUME NEW w \in Worker, Track(w) PROVE PipelineTypes'
    <3>1. PICK t \in Task, n \in Node : line[w] = Dispatched(t, n)
      BY <2>1, NamedThreads DEF TracksDispatched, Track, Goes
    <3>2. line[w].task = t /\ line[w].node = n
      BY <3>1 DEF Dispatched, Line, Noted
    <3>3. QED
      BY <2>1, <3>2 DEF Track
  <2>2. ASSUME NEW t \in Task, NEW n \in Node, NEW w \in Worker,
               Admitted(w, <<t, n>>) \/ Refused(w, <<t, n>>)
        PROVE  PipelineTypes'
    BY <2>2 DEF Admitted, Refused
  <2>3. ASSUME NEW w \in Worker, Callback(w) PROVE PipelineTypes'
    BY <2>3 DEF Callback
  <2>4. CASE Observe \/ Sample \/ \E n \in Node : Poll(n)
    BY <2>4 DEF Observe, Sample, Poll
  <2>5. ASSUME NEW t \in Task, NEW n \in Node, Finish(<<t, n>>) PROVE PipelineTypes'
    BY <2>5 DEF Finish
  <2>6. QED
    BY <1>3, <2>1, <2>2, <2>3, <2>4, <2>5 DEF NodeNext
<1>4. QED
  BY <1>1, <1>2, <1>3 DEF OutsideNext

LEMMA TypesStep == Types /\ [Next]_vars => Types'
<1> SUFFICES ASSUME Types, [Next]_vars PROVE Types'
  OBVIOUS
<1>0. ThreadTypes
  BY DEF Types, RecorderTypes, ThreadTypes
<1>1. ASSUME NEW th \in Thread, RecordStep(th) PROVE Types'
  BY <1>1, UpdateTypes, EmitTypes, WriteTypes, FlushTypes DEF RecordStep
<1>2. CASE OutsideNext
  <2>1. ThreadTypes'
    <3>1. CASE Start
      BY <1>0, <3>1, OneMoves, NamedThreads DEF Start, Goes, Moves, Sections
    <3>2. CASE ~Start
      BY <1>0, <1>2, <3>2, OneMoves, NobodyMoves, ClientProceeds, TickProceeds, NodeProceeds
         DEF OutsideNext, OneProceeds, Proceeds
    <3>3. QED
      BY <3>1, <3>2
  <2>2. /\ active' \in BOOLEAN /\ file' \in {"none", "open", "closed"}
        /\ record' \in [Task -> TaskRecord] /\ log' \in Seq(TaskLine)
    <3>1. NoRecord \in TaskRecord /\ <<>> \in Seq(TaskLine)
      BY DEF NoRecord, TaskRecord
    <3>2. QED
      BY <1>2, <3>1, OutsideKeeps DEF Types, RecorderTypes, Start, Activate, Close, Forget, Deactivate,
              trialVars, outVars
  <2>3. QED
    BY <1>2, <2>1, <2>2, OutsidePipeline DEF Types, RecorderTypes, ThreadTypes
<1>3. CASE UNCHANGED vars
  <2>1. /\ UNCHANGED <<active, record, file, log, writer, pc, line>>
        /\ UNCHANGED <<queue, expired, todo, plan, pool, edge, report, tracked, finished>>
    BY <1>3 DEF vars, trialVars, outVars, clientVars, tickVars, nodeVars, ghostVars
  <2>2. ThreadTypes'
    BY <1>0, <2>1, NobodyMoves
  <2>3. QED
    BY <2>1, <2>2 DEF Types, RecorderTypes, PipelineTypes, ThreadTypes
<1>4. QED
  BY <1>1, <1>2, <1>3, NextSplit

LEMMA TypesInit == Init => Types
<1> SUFFICES ASSUME Init PROVE Types
  OBVIOUS
<1>1. NoRecord \in TaskRecord /\ <<>> \in Seq(TaskLine)
  BY DEF NoRecord, TaskRecord
<1>2. QED
  BY <1>1, LineTypes
     DEF Init, Types, RecorderTypes, PipelineTypes, OneWriter, TracksDispatched, Sections

\* The recorder and the pipeline stay well typed, and no two threads write to the
\* event log at once, whoever closes it meanwhile.
THEOREM RecorderTypeCorrect == Spec => []TypeOK
BY TypesInit, TypesStep, TypesGiveTypeOK, PTL DEF Spec

-----------------------------------------------------------------------------
\* Nothing recorded is missing from the log

LEMMA ExplainedByMore ==
  ASSUME NEW rec, NEW A, NEW B, A \subseteq B, Explained(rec, A)
  PROVE  Explained(rec, B)
BY DEF Explained

\* A thread that is in no call takes no line away.
LEMMA LinesKept ==
  ASSUME Types, OneProceeds, log' = log, NEW t \in Task
  PROVE  LinesOf(t) \subseteq LinesOf(t)'
<1>1. ASSUME NEW u \in Thread, pc[u] \in {"emit", "write"} PROVE pc'[u] = pc[u] /\ line'[u] = line[u]
  BY <1>1 DEF OneProceeds, Proceeds, Types, RecorderTypes
<1>2. QED
  BY <1>1 DEF LinesOf

LEMMA ToldOutside ==
  ASSUME RecorderInv, OutsideNext
  PROVE  EmptyUnlessActive' /\ ActivatedOnce' /\ ToldInv'
<1>1. ~Start => OneProceeds
  BY ClientProceeds, TickProceeds, NodeProceeds DEF RecorderInv, OutsideNext
<1>2. EmptyUnlessActive' /\ ToldInv'
  <2>1. CASE UNCHANGED <<active, record, file, log>> /\ ~Start
    BY <1>1, <2>1, LinesKept, ExplainedByMore DEF RecorderInv, EmptyUnlessActive, ToldInv
  <2>2. CASE Start
    BY <2>2 DEF Start, RecorderInv, EmptyUnlessActive, ToldInv
  <2>3. CASE Activate
    <3>1. record = [t \in Task |-> NoRecord]
      BY <2>3 DEF Activate, Goes, RecorderInv, EmptyUnlessActive, ActivatedOnce
    <3>2. QED
      BY <2>3, <3>1 DEF Activate, EmptyUnlessActive, ToldInv, Explained
  <2>4. CASE Close \/ Forget
    BY <2>4 DEF Close, Forget, RecorderInv, EmptyUnlessActive, ToldInv
  <2>5. CASE Deactivate
    BY <2>5 DEF Deactivate, EmptyUnlessActive, ToldInv
  <2>6. QED
    BY <2>1, <2>2, <2>3, <2>4, <2>5, OutsideKeeps
<1>3. ActivatedOnce'
  <2>1. CASE Start
    BY <2>1 DEF Start, ActivatedOnce
  <2>2. CASE Activate
    BY <2>2, NamedThreads DEF Activate, Goes, Moves, ActivatedOnce, RecorderInv, Types, RecorderTypes
  <2>3. CASE ~Start /\ ~Activate
    <3>1. pc'["client"] = "activate" => pc["client"] = "activate"
      BY <1>1, <2>3, NamedThreads
         DEF OneProceeds, Proceeds, RecorderInv, Types, RecorderTypes
    <3>2. active' = active \/ ~active'
      BY <2>3, OutsideKeeps DEF Close, Forget, Deactivate
    <3>3. QED
      BY <3>1, <3>2 DEF RecorderInv, ActivatedOnce
  <2>4. QED
    BY <2>1, <2>2, <2>3
<1>4. QED
  BY <1>2, <1>3

LEMMA ToldUpdate ==
  ASSUME RecorderInv, NEW th \in Thread, Update(th)
  PROVE  EmptyUnlessActive' /\ ToldInv'
<1> USE DEF trialVars, outVars
<1>1. UNCHANGED <<active, file, log>> /\ pc[th] = "update" /\ Types
  BY DEF Update, RecorderInv
<1>2. CASE ~active
  BY <1>1, <1>2 DEF Update, RecorderInv, EmptyUnlessActive, ToldInv
<1>3. CASE active /\ file # "open"
  BY <1>1, <1>3 DEF RecorderInv, EmptyUnlessActive, ToldInv
<1>4. CASE active /\ file = "open"
  <2> DEFINE l == line[th]
  <2>1. /\ pc' = [pc EXCEPT ![th] = "emit"] /\ line' = line
        /\ record' = IF l.task = Nothing THEN record
                       ELSE [record EXCEPT ![l.task] = Recorded(@, l)]
    BY <1>4 DEF Update, Moves
  <2>2. \A u \in Thread : pc[u] \in {"emit", "write"} => pc'[u] = pc[u]
    BY <1>1, <2>1 DEF Types, RecorderTypes
  <2>3. \A t \in Task : LinesOf(t) \subseteq LinesOf(t)' /\ (l.task = t => l \in LinesOf(t)')
    BY <1>1, <2>1, <2>2 DEF LinesOf, Types, RecorderTypes
  <2>4. ASSUME NEW t \in Task PROVE Explained(record'[t], LinesOf(t)')
    <3>1. Explained(record[t], LinesOf(t))
      BY <1>4 DEF RecorderInv, ToldInv
    <3>2. CASE l.task # t
      <4>1. record'[t] = record[t]
        BY <1>1, <2>1, <3>2 DEF Types, RecorderTypes
      <4>2. QED
        BY <2>3, <3>1, <4>1, ExplainedByMore
    <3>3. CASE l.task = t
      <4>1. l \in TaskLine /\ record[t] \in TaskRecord
        BY <1>1, <3>3, AboutTask, RecorderAssumption DEF Types, RecorderTypes
      <4>2. record'[t] = Recorded(record[t], l)
        BY <1>1, <2>1, <3>3, RecorderAssumption DEF Types, RecorderTypes
      <4>3. l \in LinesOf(t)'
        BY <2>3, <3>3
      <4> DEFINE rec == Recorded(record[t], l)
      <4>4. \/ rec = NoRecord
            \/ l.type \in KindsOf(rec.status) /\ rec.node \in {Nothing, record[t].node, l.node}
        BY <4>1, RecordedFields
      <4>5. record[t].node # Nothing => \E k \in LinesOf(t)' : k.node = record[t].node
        BY <2>3, <3>1 DEF Explained, NoRecord
      <4> HIDE DEF rec, l
      <4>6. Explained(rec, LinesOf(t)')
        BY <4>3, <4>4, <4>5 DEF Explained
      <4>7. QED
        BY <4>2, <4>6 DEF rec
    <3>4. QED
      BY <3>2, <3>3
  <2>5. QED
    BY <1>1, <1>4, <2>4 DEF EmptyUnlessActive, ToldInv
<1>5. QED
  BY <1>2, <1>3, <1>4

LEMMA ToldWriting ==
  ASSUME RecorderInv, NEW th \in Thread, Emit(th) \/ Write(th) \/ Flush(th)
  PROVE  EmptyUnlessActive' /\ ToldInv'
<1> USE DEF trialVars, outVars
<1>1. UNCHANGED <<active, file, record>> /\ Types
  BY DEF Emit, Write, Flush, RecorderInv
<1>2. CASE ~(active /\ file = "open")
  BY <1>1, <1>2 DEF RecorderInv, EmptyUnlessActive, ToldInv
<1>3. CASE active /\ file = "open"
  <2>1. ASSUME NEW t \in Task PROVE LinesOf(t) \subseteq LinesOf(t)'
    <3>1. CASE Emit(th)
      <4>1. pc' = [pc EXCEPT ![th] = "write"] /\ UNCHANGED <<line, log>>
        BY <1>3, <3>1 DEF Emit, Moves
      <4>2. \A u \in Thread : pc[u] \in {"emit", "write"} => pc'[u] \in {"emit", "write"}
        BY <1>1, <4>1 DEF Types, RecorderTypes
      <4>3. QED
        BY <4>1, <4>2 DEF LinesOf
    <3>2. CASE Write(th)
      <4>1. /\ pc[th] = "write" /\ pc' = [pc EXCEPT ![th] = "flush"] /\ line' = line
            /\ log' = IF line[th].task = Nothing THEN log ELSE Append(log, line[th])
        BY <1>3, <3>2 DEF Write, Moves
      <4>2. \A u \in Thread \ {th} : pc'[u] = pc[u]
        BY <1>1, <4>1 DEF Types, RecorderTypes
      <4>3. {log[i] : i \in 1..Len(log)} \subseteq {log'[i] : i \in 1..Len(log')}
        BY <1>1, <4>1, AboutTask DEF Types, RecorderTypes
      <4>4. line[th].task = t => line[th] \in {log'[i] : i \in 1..Len(log')}
        BY <1>1, <4>1, AboutTask, RecorderAssumption DEF Types, RecorderTypes
      <4>5. QED
        BY <4>1, <4>2, <4>3, <4>4 DEF LinesOf
    <3>3. CASE Flush(th)
      <4>1. pc[th] = "flush" /\ Return(th) /\ log' = log
        BY <1>3, <3>3 DEF Flush
      <4>2. \A u \in Thread : pc[u] \in {"emit", "write"} => pc'[u] = pc[u] /\ line'[u] = line[u]
        BY <1>1, <4>1 DEF Return, Moves, Types, RecorderTypes
      <4>3. QED
        BY <4>1, <4>2 DEF LinesOf
    <3>4. QED
      BY <3>1, <3>2, <3>3
  <2>2. QED
    BY <1>1, <1>3, <2>1, ExplainedByMore DEF RecorderInv, EmptyUnlessActive, ToldInv
<1>4. QED
  BY <1>2, <1>3

\* A call never brings a trial up.
LEMMA CallsActivateNothing ==
  ASSUME RecorderInv, NEW th \in Thread, RecordStep(th)
  PROVE  ActivatedOnce'
<1>1. active' = active
  BY DEF RecordStep, Update, Emit, Write, Flush, trialVars
<1>2. \E to : pc' = [pc EXCEPT ![th] = to] /\ to # "activate"
  BY AfterCallSection, ZenonT(40)
     DEF RecordStep, Update, Emit, Write, Flush, Return, Raise, Abandon, Moves, AfterCall
<1>3. pc'["client"] = "activate" => pc["client"] = "activate"
  BY <1>2, NamedThreads DEF RecorderInv, Types, RecorderTypes
<1>4. QED
  BY <1>1, <1>3 DEF RecorderInv, ActivatedOnce

LEMMA RecorderStep == RecorderInv /\ [Next]_vars => RecorderInv'
<1> SUFFICES ASSUME RecorderInv, [Next]_vars PROVE RecorderInv'
  OBVIOUS
<1>1. Types'
  BY TypesStep DEF RecorderInv
<1>2. ASSUME NEW th \in Thread, RecordStep(th) PROVE RecorderInv'
  BY <1>1, <1>2, ToldUpdate, ToldWriting, CallsActivateNothing DEF RecordStep, RecorderInv
<1>3. CASE OutsideNext
  BY <1>1, <1>3, ToldOutside DEF RecorderInv
<1>4. CASE UNCHANGED vars
  <2>1. UNCHANGED <<active, record, file, log, pc, line>>
    BY <1>4 DEF vars, trialVars, outVars
  <2>2. EmptyUnlessActive' /\ ActivatedOnce' /\ ToldInv'
    <3>1. \A t : LinesOf(t)' = LinesOf(t)
      BY <2>1 DEF LinesOf
    <3>2. QED
      BY <2>1, <3>1 DEF RecorderInv, EmptyUnlessActive, ActivatedOnce, ToldInv
  <2>3. QED
    BY <1>1, <2>2 DEF RecorderInv
<1>5. QED
  BY <1>2, <1>3, <1>4, NextSplit

LEMMA RecorderInit == Init => RecorderInv
BY TypesInit, NamedThreads DEF Init, RecorderInv, EmptyUnlessActive, ActivatedOnce, ToldInv

LEMMA ToldIsLogged == RecorderInv => RecordedIsLogged
<1> SUFFICES ASSUME RecorderInv, active, file = "open", NEW t \in Task,
                    record[t] # NoRecord, ~HalfRecorded(t)
             PROVE  LET rec == record[t]
                        told == {log[i] : i \in {j \in 1..Len(log) : log[j].task = t}}
                    IN  /\ \E l \in told : l.type \in KindsOf(rec.status)
                        /\ rec.node # Nothing => \E l \in told : l.node = rec.node
  BY DEF RecordedIsLogged, KindsOf
<1>1. LinesOf(t) = {log[i] : i \in {j \in 1..Len(log) : log[j].task = t}}
  BY DEF LinesOf, HalfRecorded
<1>2. Explained(record[t], LinesOf(t))
  BY DEF RecorderInv, ToldInv
<1>3. QED
  BY <1>1, <1>2 DEF Explained

\* While a trial is active and its file open, everything the live record says of a
\* task is in the log or about to be, in whatever order the threads record and
\* write, whatever they left behind in an earlier trial.
THEOREM RecordedReachesLog == Spec => []RecordedIsLogged
BY RecorderInit, RecorderStep, ToldIsLogged, PTL DEF Spec

-----------------------------------------------------------------------------
\* One life: what the pipeline does with a task while the log is open

\* A thread lets go of its line when it leaves the call.
LinesInCalls ==
  \A th \in Thread :
    line[th].task # Nothing => pc[th] \in {"callback", "update", "emit", "write", "flush", "track"}

\* The file is open only from the start of a trial to its end: the pipeline is
\* cleared when it has been closed.
OpenInTrial ==
  /\ file = "open" => active \/ pc["client"] = "activate"
  /\ pc["client"] \in {"forget", "deactivate", "clear", "untrack", "reset"} => file # "open"

BatchInHand ==
  todo # {} => \/ pc["client"] = "batch"
               \/ /\ pc["client"] \in {"update", "emit", "write", "flush"}
                  /\ line["client"].type = "task_submitted"

\* Nothing moves between the file of a clean trial and the trial.
QuietStart ==
  (clean /\ file = "open" /\ ~active) =>
    /\ queue = {} /\ expired = {} /\ plan = {} /\ pool = {} /\ edge = {} /\ tracked = {}
    /\ \A th \in Thread \ {"client"} : pc[th] = "idle"

\* A thread that carries a task on: refusals and submissions do not.
Carries(th, t) ==
  line[th].task = t /\ line[th].type \notin {"task_submitted", "task_rejected"}
InPool(t) == \E n \in Node : <<t, n>> \in pool
IsTracked(t) == \E n \in Node : <<t, n>> \in tracked

\* The thread has yet to write its line.
ToWrite(th) == pc[th] \notin {"flush", "track"}

\* A task is in one place at a time.
OneAtATime(t) ==
  /\ t \in queue => t \notin expired
  /\ t \in queue \cup expired => ~InPool(t)
  /\ t \in queue \cup expired \/ InPool(t) => \A th \in Thread : ~Carries(th, t)
  /\ IsTracked(t) => /\ t \notin queue \cup expired /\ ~InPool(t)
                     /\ \A th \in Thread : ~Carries(th, t)
  /\ \A n, m \in Node : <<t, n>> \in pool /\ <<t, m>> \in pool => n = m
  /\ \A n, m \in Node : <<t, n>> \in tracked /\ <<t, m>> \in tracked => n = m
  /\ \A n, m \in Node : <<t, n>> \in plan /\ <<t, m>> \in plan => n = m
  /\ \A th, u \in Thread : Carries(th, t) /\ Carries(u, t) => th = u
  /\ \A n \in Node : <<t, n>> \in plan => t \in queue

\* Nothing is told of a task before its eviction or dispatch is.
ToldNothingYet(t) ==
  (\/ t \in queue \cup expired \/ InPool(t)
   \/ \E th \in Thread : /\ Carries(th, t) /\ ToWrite(th)
                         /\ line[th].type \in {"task_evicted", "task_dispatched"})
    => Told(t) = {}

\* From its dispatch until its completion is written, only the dispatch is told.
ToldDispatchOnly(t) ==
  \A n \in Node :
    (\/ <<t, n>> \in tracked
     \/ \E th \in Thread : \/ line[th] = Dispatched(t, n) /\ ~ToWrite(th)
                           \/ line[th] = Completed(t, n) /\ ToWrite(th))
      => \E i \in Told(t) : Told(t) = {i} /\ log[i] = Dispatched(t, n)

\* A refusal that reaches the log has brought disorder.
NoRefusalTold(t) ==
  \A th \in Thread :
    line[th].type = "task_rejected" /\ line[th].task = t => pc[th] \in {"callback", "update"}

SubmissionTold(t) == \E i \in 1..Len(log) : log[i] = Submitted(t)

\* One submission is written at most, and a task not submitted is nowhere.
OneSubmission(t) ==
  /\ t \notin sent => /\ t \notin queue \cup expired \cup todo /\ ~InPool(t) /\ ~IsTracked(t)
                      /\ \A th \in Thread : line[th].task # t
                      /\ ~SubmissionTold(t) /\ Told(t) = {}
  /\ t \in todo => ~SubmissionTold(t) /\ \A th \in Thread : line[th] # Submitted(t)
  /\ \A th \in Thread : line[th] = Submitted(t) /\ ToWrite(th) => ~SubmissionTold(t)
  /\ \A th, u \in Thread : line[th] = Submitted(t) /\ line[u] = Submitted(t) => th = u

InPipeline(t) ==
  /\ OneAtATime(t) /\ ToldNothingYet(t) /\ ToldDispatchOnly(t)
  /\ NoRefusalTold(t) /\ OneSubmission(t)

\* The lines and the client, whatever the trial; and the tasks of a clean trial.
CallInv == LinesInCalls /\ OpenInTrial /\ BatchInHand /\ QuietStart

LivesInv ==
  clean => \A t \in Task \ disorder : OneLife(t) /\ (file = "open" => InPipeline(t))

LifeInv == RecorderInv /\ CallInv /\ LivesInv

LEMMA LineParts ==
  /\ NoLine.task = Nothing
  /\ \A type : Line(type, Nothing, Nothing).task = Nothing
  /\ \A t : Submitted(t).task = t /\ Submitted(t).type = "task_submitted"
  /\ \A t : Evicted(t).task = t /\ Evicted(t).type = "task_evicted"
  /\ \A t, n : Dispatched(t, n).task = t /\ Dispatched(t, n).node = n
               /\ Dispatched(t, n).type = "task_dispatched"
  /\ \A t, n : Rejected(t, n).task = t /\ Rejected(t, n).type = "task_rejected"
  /\ \A t, n : Completed(t, n).task = t /\ Completed(t, n).node = n
               /\ Completed(t, n).type = "task_completed"
BY DEF NoLine, Submitted, Evicted, Dispatched, Rejected, Completed, Line, Noted

\* The line of a task is one of five.
LEMMA LineIs ==
  ASSUME NEW t \in Task, NEW l \in TaskLine \cup SilentLine, l.task = t
  PROVE  \/ l = Submitted(t) \/ l = Evicted(t)
         \/ \E n \in Node : l \in {Dispatched(t, n), Rejected(t, n), Completed(t, n)}
<1>1. l \in TaskLine
  BY AboutTask, RecorderAssumption
<1>2. QED
  BY <1>1, LineParts DEF TaskLine

\* One thread moves, and has a line about a task only if it goes into a call.
LEMMA LinesMove ==
  ASSUME Types, LinesInCalls, NEW th \in Thread, NEW to,
         pc' = [pc EXCEPT ![th] = to],
         \/ line' = line /\ line[th].task = Nothing
         \/ line' = line /\ to \in {"callback", "update", "emit", "write", "flush", "track"}
         \/ \E l : /\ line' = [line EXCEPT ![th] = l]
                   /\ \/ l.task = Nothing
                      \/ to \in {"callback", "update", "emit", "write", "flush", "track"}
  PROVE  LinesInCalls'
<1>1. pc'[th] = to /\ \A u \in Thread \ {th} : pc'[u] = pc[u] /\ line'[u] = line[u]
  BY DEF Types, RecorderTypes
<1>2. line'[th].task # Nothing => to \in {"callback", "update", "emit", "write", "flush", "track"}
  BY DEF Types, RecorderTypes
<1>3. QED
  BY <1>1, <1>2 DEF LinesInCalls

LEMMA LinesClient ==
  ASSUME Types, LinesInCalls, ClientNext
  PROVE  LinesInCalls'
<1> USE DEF Moves, Goes, Call
<1>0. "client" \in Thread
  BY NamedThreads
<1>a. pc["client"] \notin {"callback", "update", "emit", "write", "flush", "track"}
        => line["client"].task = Nothing
  BY <1>0 DEF LinesInCalls
<1>1. ASSUME NEW t \in Task, SubmitTask(t) PROVE LinesInCalls'
  BY <1>0, <1>1, LinesMove DEF SubmitTask
<1>2. ASSUME NEW S \in SUBSET Task, SubmitBatch(S) PROVE LinesInCalls'
  BY <1>0, <1>a, <1>2, LinesMove DEF SubmitBatch
<1>3. CASE Start
  BY <1>0, <1>a, <1>3, LinesMove DEF Start
<1>4. CASE End
  BY <1>0, <1>4, LinesMove DEF End
<1>5. CASE Reset
  <2>1. line' = [line EXCEPT !["client"] = Line("reset", Nothing, Nothing)]
    BY <1>5 DEF Reset
  <2>2. PICK to : pc' = [pc EXCEPT !["client"] = to]
    BY <1>5 DEF Reset
  <2>3. PICK l : l.task = Nothing /\ line' = [line EXCEPT !["client"] = l]
    BY <2>1, LineParts
  <2>4. QED
    BY <1>0, <2>2, <2>3, LinesMove
<1>6. CASE BatchNext
  <2>1. CASE UNCHANGED <<pc, line>>
    BY <2>1 DEF LinesInCalls
  <2>2. CASE pc' = [pc EXCEPT !["client"] = "idle"] /\ line' = line
    BY <1>0, <1>a, <1>6, <2>2, LinesMove DEF BatchNext
  <2>3. ASSUME NEW t, Call("client", Submitted(t)) PROVE LinesInCalls'
    BY <1>0, <2>3, LinesMove
  <2>4. QED
    BY <1>6, <2>1, <2>2, <2>3 DEF BatchNext
<1>7. CASE Activate
  BY <1>0, <1>7, LinesMove DEF Activate
<1>8. CASE AppendRow \/ Close \/ Forget
  BY <1>0, <1>a, <1>8, LinesMove DEF AppendRow, Close, Forget
<1>9. CASE Deactivate
  BY <1>0, <1>a, <1>9, LinesMove DEF Deactivate
<1>10. CASE ClearQueue \/ ClearTracked
  BY <1>0, <1>a, <1>10, LinesMove DEF ClearQueue, ClearTracked
<1>11. CASE ResetNodes
  BY <1>0, <1>11, LinesMove, LineParts DEF ResetNodes
<1>12. QED
  BY <1>1, <1>2, <1>3, <1>4, <1>5, <1>6, <1>7, <1>8, <1>9, <1>10, <1>11
     DEF ClientNext, ClientStep

LEMMA LinesOthers ==
  ASSUME Types, LinesInCalls, TickNext \/ NodeNext
  PROVE  LinesInCalls'
<1> USE DEF Moves, Goes, Call
<1>0. /\ "tick" \in Thread /\ "poller" \in Thread /\ "sampler" \in Thread
      /\ Worker \subseteq Thread
  BY NamedThreads
<1>a. \A th \in Thread : pc[th] \notin {"callback", "update", "emit", "write", "flush", "track"}
                           => line[th].task = Nothing
  BY DEF LinesInCalls
<1>1. CASE TickNext
  <2>1. ASSUME NEW S \in SUBSET Task, Evict(S) PROVE LinesInCalls'
    BY <2>1 DEF Evict, LinesInCalls
  <2>2. ASSUME NEW t \in Task, EvictNext(t) PROVE LinesInCalls'
    BY <1>0, <2>2, LinesMove DEF EvictNext
  <2>3. ASSUME NEW p \in Plans, Decide(p) PROVE LinesInCalls'
    BY <1>0, <2>3, LinesMove DEF Decide
  <2>4. ASSUME NEW t \in Task, NEW n \in Node, Take(<<t, n>>) PROVE LinesInCalls'
    BY <2>4 DEF Take, LinesInCalls
  <2>5. QED
    BY <1>1, <2>1, <2>2, <2>3, <2>4 DEF TickNext
<1>2. CASE NodeNext
  <2>1. ASSUME NEW t \in Task, NEW n \in Node, NEW w \in Worker,
               Admitted(w, <<t, n>>) \/ Refused(w, <<t, n>>)
        PROVE  LinesInCalls'
    BY <1>0, <2>1, LinesMove DEF Admitted, Refused
  <2>2. ASSUME NEW w \in Worker, Callback(w) PROVE LinesInCalls'
    <3>1. CASE active
      <4>1. pc' = [pc EXCEPT ![w] = "update"] /\ line' = line
        BY <2>2, <3>1 DEF Callback, Types, RecorderTypes
      <4>2. QED
        BY <1>0, <4>1, LinesMove
    <3>2. CASE ~active
      <4>1. pc' = [pc EXCEPT ![w] = "idle"] /\ line' = [line EXCEPT ![w] = NoLine]
        BY <2>2, <3>2 DEF Callback
      <4>2. QED
        BY <1>0, <4>1, LinesMove, LineParts
    <3>3. QED
      BY <3>1, <3>2
  <2>3. ASSUME NEW w \in Worker, Track(w) PROVE LinesInCalls'
    BY <1>0, <2>3, LinesMove, LineParts DEF Track
  <2>4. ASSUME NEW t \in Task, NEW n \in Node, Finish(<<t, n>>) PROVE LinesInCalls'
    BY <2>4 DEF Finish, LinesInCalls
  <2>5. ASSUME NEW n \in Node, Poll(n) PROVE LinesInCalls'
    BY <1>0, <1>a, <2>5, LinesMove DEF Poll
  <2>6. CASE Observe
    <3>1. CASE UNCHANGED <<pc, line>>
      BY <3>1 DEF LinesInCalls
    <3>2. CASE pc' = [pc EXCEPT !["poller"] = "idle"] /\ line' = line
      BY <1>0, <1>a, <2>6, <3>2, LinesMove DEF Observe
    <3>3. ASSUME NEW a, Call("poller", Completed(a[1], a[2])) PROVE LinesInCalls'
      BY <1>0, <3>3, LinesMove
    <3>4. QED
      BY <2>6, <3>1, <3>2, <3>3 DEF Observe
  <2>7. CASE Sample
    BY <1>0, <2>7, LinesMove DEF Sample
  <2>8. QED
    BY <1>2, <2>1, <2>2, <2>3, <2>4, <2>5, <2>6, <2>7 DEF NodeNext
<1>3. QED
  BY <1>1, <1>2

LEMMA LinesReturn ==
  ASSUME Types, LinesInCalls, NEW th \in Thread, Return(th)
  PROVE  LinesInCalls'
<1>1. CASE line[th].type = "task_dispatched"
  <2>1. pc' = [pc EXCEPT ![th] = "track"] /\ line' = line
    BY <1>1 DEF Return, Moves, AfterCall
  <2>2. QED
    BY <2>1, LinesMove
<1>2. CASE line[th].type # "task_dispatched"
  <2>1. pc' = [pc EXCEPT ![th] = AfterCall(th)] /\ line' = [line EXCEPT ![th] = NoLine]
    BY <1>2 DEF Return, Moves
  <2>2. QED
    BY <2>1, LinesMove, LineParts
<1>3. QED
  BY <1>1, <1>2

LEMMA LinesCalls ==
  ASSUME Types, LinesInCalls, NEW th \in Thread, RecordStep(th)
  PROVE  LinesInCalls'
<1>1. CASE Return(th)
  BY <1>1, LinesReturn
<1>2. CASE /\ line' = line
           /\ \E to \in {"emit", "write", "flush"} : pc' = [pc EXCEPT ![th] = to]
  BY <1>2, LinesMove
<1>3. CASE pc' = [pc EXCEPT ![th] = "idle"] /\ line' = [line EXCEPT ![th] = NoLine]
  BY <1>3, LinesMove, LineParts
<1>4. QED
  BY <1>1, <1>2, <1>3
     DEF RecordStep, Update, Emit, Write, Flush, Raise, Abandon, Moves

\* Only the client moves the client.
ClientStays == pc'["client"] = pc["client"] /\ line'["client"] = line["client"]

LEMMA ClientNotMoved ==
  ASSUME Types, NEW th \in Thread, th # "client",
         pc' = pc \/ \E to : pc' = [pc EXCEPT ![th] = to],
         line' = line \/ \E l : line' = [line EXCEPT ![th] = l]
  PROVE  ClientStays
<1>1. pc \in [Thread -> Sections] /\ line \in [Thread -> TaskLine \cup SilentLine]
  BY DEF Types, RecorderTypes
<1>2. pc'["client"] = pc["client"]
  BY <1>1, NamedThreads
<1>3. line'["client"] = line["client"]
  BY <1>1, NamedThreads
<1>4. QED
  BY <1>2, <1>3 DEF ClientStays

LEMMA ClientUntouched ==
  ASSUME Types, TickNext \/ NodeNext
  PROVE  /\ pc'["client"] = pc["client"] /\ line'["client"] = line["client"]
         /\ UNCHANGED <<active, file, todo, sent, clean, disorder>>
<1>0. /\ \A w \in Worker : w \in Thread /\ w # "client"
      /\ "tick" \in Thread /\ "poller" \in Thread /\ "sampler" \in Thread
  BY RecorderAssumption, NamedThreads
<1>1. ClientStays
  <2> USE DEF Moves, Goes, Call
  <2>1. CASE TickNext
    BY <1>0, <2>1, ClientNotMoved DEF TickNext, Evict, EvictNext, Decide, Take
  <2>2. ASSUME NEW t \in Task, NEW n \in Node, NEW w \in Worker,
               Admitted(w, <<t, n>>) \/ Refused(w, <<t, n>>)
        PROVE  ClientStays
    BY <1>0, <2>2, ClientNotMoved DEF Admitted, Refused
  <2>3. ASSUME NEW w \in Worker, Callback(w) \/ Track(w) PROVE ClientStays
    BY <1>0, <2>3, ClientNotMoved DEF Callback, Track
  <2>4. CASE \E t \in Task, n \in Node : Finish(<<t, n>>)
    BY <1>0, <2>4, ClientNotMoved DEF Finish
  <2>5. CASE \E n \in Node : Poll(n)
    BY <1>0, <2>5, ClientNotMoved DEF Poll
  <2>6. CASE Observe
    BY <1>0, <2>6, ClientNotMoved DEF Observe
  <2>7. CASE Sample
    BY <1>0, <2>7, ClientNotMoved DEF Sample
  <2>8. QED
    BY <2>1, <2>2, <2>3, <2>4, <2>5, <2>6, <2>7 DEF NodeNext
<1>2. UNCHANGED <<active, file, todo, sent, clean, disorder>>
  <2> USE DEF trialVars, outVars, clientVars, tickVars, nodeVars, ghostVars
  <2>1. CASE TickNext
    BY <2>1 DEF TickNext, Evict, EvictNext, Decide, Take
  <2>2. CASE NodeNext
    <3>1. ASSUME NEW t \in Task, NEW n \in Node, NEW w \in Worker,
                 Admitted(w, <<t, n>>) \/ Refused(w, <<t, n>>)
          PROVE  UNCHANGED <<active, file, todo, sent, clean, disorder>>
      BY <3>1 DEF Admitted, Refused
    <3>2. ASSUME NEW w \in Worker, Callback(w) \/ Track(w)
          PROVE  UNCHANGED <<active, file, todo, sent, clean, disorder>>
      BY <3>2 DEF Callback, Track
    <3>3. ASSUME NEW t \in Task, NEW n \in Node, Finish(<<t, n>>)
          PROVE  UNCHANGED <<active, file, todo, sent, clean, disorder>>
      BY <3>3 DEF Finish
    <3>4. ASSUME NEW n \in Node, Poll(n)
          PROVE  UNCHANGED <<active, file, todo, sent, clean, disorder>>
      BY <3>4 DEF Poll
    <3>5. CASE Observe
      BY <3>5 DEF Observe
    <3>6. CASE Sample
      BY <3>6 DEF Sample
    <3>7. QED
      BY <2>2, <3>1, <3>2, <3>3, <3>4, <3>5, <3>6 DEF NodeNext
  <2>3. QED
    BY <2>1, <2>2
<1>3. QED
  BY <1>1, <1>2 DEF ClientStays

\* What a call does to the client: it goes on in the call, or returns, or raises.
LEMMA CallOfClient ==
  ASSUME Types, NEW th \in Thread, RecordStep(th)
  PROVE  /\ UNCHANGED <<active, file, clean, sent>>
         /\ th # "client" =>
              /\ pc'["client"] = pc["client"] /\ line'["client"] = line["client"]
              /\ todo' = todo
         /\ th = "client" =>
              /\ pc["client"] \in {"update", "emit", "write", "flush"}
              /\ \/ todo' = todo /\ line' = line /\ pc'["client"] \in {"emit", "write", "flush"}
                 \/ todo' = todo /\ pc'["client"] = AfterCall("client")
                 \/ todo' = {} /\ pc'["client"] = "idle"
<1> USE DEF Moves, trialVars, outVars, clientVars, tickVars, nodeVars, ghostVars,
            Types, RecorderTypes
<1>0. "client" \in Thread
  BY NamedThreads
<1>1. CASE Return(th) /\ UNCHANGED <<active, file, clean, sent, todo>>
  BY <1>0, <1>1 DEF Return, RecordStep, Update, Emit, Write, Flush
<1>2. CASE /\ line' = line /\ UNCHANGED <<active, file, clean, sent, todo>>
           /\ \E to \in {"emit", "write", "flush"} : pc' = [pc EXCEPT ![th] = to]
  BY <1>0, <1>2 DEF RecordStep, Update, Emit, Write, Flush
<1>3. CASE Abandon(th) /\ UNCHANGED <<active, file>>
  BY <1>0, <1>3 DEF Abandon, RecordStep, Update, Emit, Write, Flush
<1>4. QED
  BY <1>1, <1>2, <1>3 DEF RecordStep, Update, Emit, Write, Flush, Raise

\* Between the file of a clean trial and the trial there is one step to take.
LEMMA OnlyActivate ==
  ASSUME Types, OpenInTrial, QuietStart, clean, file = "open", ~active, Next
  PROVE  Activate
<1> USE DEF Goes
<1>1. /\ queue = {} /\ expired = {} /\ plan = {} /\ pool = {} /\ edge = {} /\ tracked = {}
      /\ finished = {}
      /\ \A th \in Thread \ {"client"} : pc[th] = "idle"
      /\ pc["client"] = "activate"
  BY DEF QuietStart, OpenInTrial, Types, PipelineTypes
<1>2. ASSUME NEW th \in Thread, RecordStep(th) PROVE FALSE
  BY <1>1, <1>2 DEF RecordStep, Update, Emit, Write, Flush
<1>3. CASE ClientNext
  BY <1>1, <1>3 DEF ClientNext, SubmitTask, SubmitBatch, Start, End, Reset, ClientStep, BatchNext,
          AppendRow, Close, Forget, Deactivate, ClearQueue, ClearTracked, ResetNodes
<1>4. CASE TickNext
  BY <1>1, <1>4 DEF TickNext, Evict, EvictNext, Decide, Take
<1>5. CASE NodeNext
  <2>1. \A w \in Worker : pc[w] = "idle"
    BY <1>1, NamedThreads, RecorderAssumption
  <2>2. ~Observe
    BY <1>1, NamedThreads DEF Observe
  <2>3. ~Sample
    BY DEF Sample
  <2>4. QED
    BY <1>1, <1>5, <2>1, <2>2, <2>3 DEF NodeNext, Admitted, Refused, Callback, Track, Finish, Poll
<1>6. QED
  BY <1>2, <1>3, <1>4, <1>5, NextSplit DEF OutsideNext

LEMMA OpenStep ==
  ASSUME Types, OpenInTrial, ActivatedOnce, Next
  PROVE  OpenInTrial'
<1> USE DEF Moves, Goes, Call, OpenInTrial, trialVars
<1>0. "client" \in Thread /\ pc \in [Thread -> Sections]
  BY NamedThreads DEF Types, RecorderTypes
<1>1. CASE TickNext \/ NodeNext
  BY <1>1, ClientUntouched
<1>2. ASSUME NEW th \in Thread, RecordStep(th) PROVE OpenInTrial'
  <2>1. AfterCall("client") \notin {"activate", "forget", "deactivate", "clear", "untrack", "reset"}
    BY DEF AfterCall
  <2>2. QED
    BY <1>2, <2>1, CallOfClient
<1>3. CASE ClientNext
  <2>1. CASE \/ \E t \in Task : SubmitTask(t)
             \/ \E S \in SUBSET Task : SubmitBatch(S)
    BY <1>0, <2>1 DEF SubmitTask, SubmitBatch
  <2>2. CASE BatchNext
    BY <1>0, <2>2 DEF BatchNext
  <2>3. CASE Start \/ End \/ Reset
    BY <1>0, <2>3 DEF Start, End, Reset
  <2>4. CASE Activate \/ AppendRow \/ Close \/ Forget
    BY <1>0, <2>4 DEF Activate, AppendRow, Close, Forget
  <2>5. CASE Deactivate
    BY <1>0, <2>5 DEF Deactivate
  <2>6. CASE ClearQueue \/ ClearTracked \/ ResetNodes
    BY <1>0, <2>6 DEF ClearQueue, ClearTracked, ResetNodes
  <2>7. QED
    BY <1>3, <2>1, <2>2, <2>3, <2>4, <2>5, <2>6 DEF ClientNext, ClientStep
<1>4. QED
  BY <1>1, <1>2, <1>3, NextSplit DEF OutsideNext

LEMMA BatchStep ==
  ASSUME Types, BatchInHand, Next
  PROVE  BatchInHand'
<1> USE DEF Moves, Goes, Call, BatchInHand, clientVars
<1>0. "client" \in Thread /\ pc \in [Thread -> Sections] /\ line \in [Thread -> TaskLine \cup SilentLine]
  BY NamedThreads DEF Types, RecorderTypes
<1>1. CASE TickNext \/ NodeNext
  BY <1>1, ClientUntouched
<1>2. ASSUME NEW th \in Thread, RecordStep(th) PROVE BatchInHand'
  <2>1. line["client"].type = "task_submitted" => AfterCall("client") = "batch"
    BY DEF AfterCall
  <2>2. QED
    BY <1>2, <2>1, CallOfClient
<1>3. CASE ClientNext
  <2>1. CASE \/ \E t \in Task : SubmitTask(t)
             \/ \E S \in SUBSET Task : SubmitBatch(S)
    BY <1>0, <2>1 DEF SubmitTask, SubmitBatch
  <2>2. CASE BatchNext
    BY <1>0, <2>2, LineParts DEF BatchNext
  <2>3. CASE Start \/ End \/ Reset
    BY <1>0, <2>3 DEF Start, End, Reset
  <2>4. CASE Activate \/ AppendRow \/ Close \/ Forget \/ Deactivate
    BY <1>0, <2>4 DEF Activate, AppendRow, Close, Forget, Deactivate
  <2>5. CASE ClearQueue \/ ClearTracked \/ ResetNodes
    BY <1>0, <2>5 DEF ClearQueue, ClearTracked, ResetNodes
  <2>6. QED
    BY <1>3, <2>1, <2>2, <2>3, <2>4, <2>5 DEF ClientNext, ClientStep
<1>4. QED
  BY <1>1, <1>2, <1>3, NextSplit DEF OutsideNext

LEMMA QuietStep ==
  ASSUME Types, OpenInTrial, QuietStart, Next
  PROVE  QuietStart'
<1>1. CASE clean /\ file = "open" /\ ~active
  BY <1>1, OnlyActivate DEF Activate, QuietStart
<1>2. CASE Start
  <2>1. \A th \in Thread \ {"client"} : pc'[th] = pc[th]
    BY <1>2 DEF Start, Goes, Moves, Types, RecorderTypes
  <2>2. QED
    BY <1>2, <2>1, NamedThreads DEF Start, Settled, QuietStart, tickVars
<1>3. CASE ~Start /\ ~(clean /\ file = "open" /\ ~active)
  <2>1. ~(clean /\ file = "open" /\ ~active)'
    <3>1. CASE TickNext \/ NodeNext
      BY <1>3, <3>1, ClientUntouched
    <3>2. ASSUME NEW th \in Thread, RecordStep(th)
          PROVE  ~(clean /\ file = "open" /\ ~active)'
      BY <1>3, <3>2, CallOfClient
    <3>3. CASE ClientNext
      BY <1>3, <3>3
         DEF ClientNext, SubmitTask, SubmitBatch, End, Reset, ClientStep, BatchNext, Activate,
             AppendRow, Close, Forget, Deactivate, ClearQueue, ClearTracked, ResetNodes,
             trialVars, ghostVars, Goes, OpenInTrial
    <3>4. QED
      BY <3>1, <3>2, <3>3, NextSplit DEF OutsideNext
  <2>2. QED
    BY <2>1 DEF QuietStart
<1>4. QED
  BY <1>1, <1>2, <1>3

-----------------------------------------------------------------------------
\* Steps that take nothing about a task further

\* The log has the same lines about the task.
SameLog(t) ==
  /\ \A i \in 1..Len(log') : log'[i].task = t => i \in 1..Len(log) /\ log'[i] = log[i]
  /\ \A i \in 1..Len(log) : log[i].task = t => i \in 1..Len(log') /\ log'[i] = log[i]

LEMMA ToldTheSame ==
  ASSUME NEW t \in Task, SameLog(t)
  PROVE  /\ Told(t)' = Told(t) /\ \A i \in Told(t) : log'[i] = log[i]
         /\ SubmissionTold(t)' <=> SubmissionTold(t)
         /\ OneLife(t) => OneLife(t)'
<1>1. Told(t)' = Told(t) /\ \A i \in Told(t) : log'[i] = log[i]
  BY DEF SameLog, Told
<1>2. \A i : i \in 1..Len(log') /\ log'[i] = Submitted(t)
               <=> i \in 1..Len(log) /\ log[i] = Submitted(t)
  BY LineParts DEF SameLog
<1>3. ASSUME OneLife(t) PROVE OneLife(t)'
  <2>1. \A i, j \in Told(t) : Ends(t, j, i)' <=> Ends(t, j, i)
    BY <1>1 DEF Ends
  <2>2. QED
    BY <1>1, <1>2, <1>3, <2>1 DEF OneLife
<1>4. QED
  BY <1>1, <1>2, <1>3 DEF SubmissionTold

\* A thread drops its line about the task, or keeps it on the same side of the write.
ThreadsKeep(t) ==
  \A u \in Thread :
    line'[u].task = t => /\ line'[u] = line[u] /\ (ToWrite(u)' <=> ToWrite(u))
                         /\ line[u].type = "task_rejected" => pc'[u] \in {"callback", "update"}

\* The task comes to no new place.
PlacesKeep(t) ==
  /\ t \in queue' => t \in queue
  /\ t \in expired' => t \in expired
  /\ t \in todo' => t \in todo
  /\ t \in sent => t \in sent'
  /\ \A n \in Node : /\ <<t, n>> \in pool' => <<t, n>> \in pool
                     /\ <<t, n>> \in tracked' => <<t, n>> \in tracked
                     /\ <<t, n>> \in plan' => <<t, n>> \in plan /\ t \in queue'

LEMMA PipelineKept ==
  ASSUME NEW t \in Task, InPipeline(t), SameLog(t), ThreadsKeep(t), PlacesKeep(t)
  PROVE  InPipeline(t)'
<1>1. /\ InPool(t)' => InPool(t)
      /\ IsTracked(t)' => IsTracked(t)
  BY DEF InPool, IsTracked, PlacesKeep
<1>2. \A u \in Thread : Carries(u, t)' => Carries(u, t) /\ (ToWrite(u)' <=> ToWrite(u))
  BY DEF Carries, ThreadsKeep
<1>3. /\ Told(t)' = Told(t) /\ \A i \in Told(t) : log'[i] = log[i]
      /\ SubmissionTold(t)' <=> SubmissionTold(t)
  BY ToldTheSame
<1>4. OneAtATime(t)'
  BY <1>1, <1>2 DEF InPipeline, OneAtATime, PlacesKeep
<1>5. ToldNothingYet(t)'
  BY <1>1, <1>2, <1>3 DEF InPipeline, ToldNothingYet, PlacesKeep, ThreadsKeep, Carries
<1>6. ToldDispatchOnly(t)'
  <2>1. ASSUME NEW n \in Node, NEW u \in Thread, line'[u] \in {Dispatched(t, n), Completed(t, n)}
        PROVE  line'[u] = line[u] /\ (ToWrite(u)' <=> ToWrite(u))
    BY <2>1, LineParts DEF ThreadsKeep
  <2>2. QED
    BY <1>3, <2>1 DEF InPipeline, ToldDispatchOnly, PlacesKeep
<1>7. NoRefusalTold(t)'
  BY DEF ThreadsKeep, NoRefusalTold
<1>8. OneSubmission(t)'
  <2>1. ASSUME NEW u \in Thread, line'[u] = Submitted(t)
        PROVE  line[u] = Submitted(t) /\ (ToWrite(u)' <=> ToWrite(u))
    BY <2>1, LineParts DEF ThreadsKeep
  <2>2. \A u \in Thread : line'[u].task = t => line[u].task = t
    BY DEF ThreadsKeep
  <2>3. QED
    BY <1>1, <1>3, <2>1, <2>2 DEF InPipeline, OneSubmission, PlacesKeep
<1>9. QED
  BY <1>4, <1>5, <1>6, <1>7, <1>8 DEF InPipeline

-----------------------------------------------------------------------------
\* Steps that take a task from one place to the next

SameThreads(th) == \A u \in Thread \ {th} : pc'[u] = pc[u] /\ line'[u] = line[u]

LEMMA TakesUp ==
  ASSUME Types, LinesInCalls, NEW th \in Thread, pc[th] \in {"idle", "batch", "observe"},
         NEW to, NEW l, pc' = [pc EXCEPT ![th] = to], line' = [line EXCEPT ![th] = l]
  PROVE  /\ SameThreads(th) /\ pc'[th] = to /\ line'[th] = l
         /\ \A t \in Task : line[th].task # t
<1>1. line[th].task = Nothing
  BY DEF LinesInCalls
<1>2. QED
  BY <1>1, RecorderAssumption DEF SameThreads, Types, RecorderTypes

LEMMA LogUnchanged == ASSUME NEW t \in Task, log' = log PROVE SameLog(t)
BY DEF SameLog

\* A task the client has not submitted is nowhere.
LEMMA NotSubmitted ==
  ASSUME NEW t \in Task, InPipeline(t), t \notin sent
  PROVE  /\ t \notin queue \cup expired \cup todo /\ ~InPool(t) /\ ~IsTracked(t)
         /\ \A n \in Node : <<t, n>> \notin plan
         /\ \A th \in Thread : line[th].task # t
         /\ ~SubmissionTold(t) /\ Told(t) = {}
BY DEF InPipeline, OneSubmission, OneAtATime

LEMMA SubmittedMoves ==
  ASSUME Types, LinesInCalls, NEW t \in Task, InPipeline(t), SubmitTask(t)
  PROVE  InPipeline(t)'
<1>1. /\ t \notin sent /\ sent' = sent \cup {t} /\ queue' = queue \cup {t}
      /\ UNCHANGED <<log, todo, expired, plan, pool, tracked>>
  BY DEF SubmitTask, outVars, nodeVars
<1>2. /\ SameThreads("client") /\ pc'["client"] = "update" /\ line'["client"] = Submitted(t)
      /\ "client" \in Thread
  BY NamedThreads, TakesUp DEF SubmitTask, Call
<1>3. \A u \in Thread : line'[u].task = t => u = "client"
  BY <1>1, <1>2, NotSubmitted DEF SameThreads
<1>4. /\ Told(t)' = {} /\ ~SubmissionTold(t)' /\ ~InPool(t)' /\ ~IsTracked(t)'
      /\ t \notin expired' \cup todo' /\ \A n \in Node : <<t, n>> \notin plan'
  BY <1>1, NotSubmitted, ToldTheSame, LogUnchanged DEF InPool, IsTracked
<1>5. \A u \in Thread : ~Carries(u, t)'
  BY <1>2, <1>3, LineParts DEF Carries
<1>6. OneAtATime(t)'
  BY <1>4, <1>5 DEF OneAtATime, InPool, IsTracked
<1>7. ToldNothingYet(t)'
  BY <1>4 DEF ToldNothingYet
<1>8. ToldDispatchOnly(t)'
  BY <1>2, <1>3, <1>4, LineParts DEF ToldDispatchOnly, IsTracked
<1>9. NoRefusalTold(t)'
  BY <1>2, <1>3 DEF NoRefusalTold
<1>10. OneSubmission(t)'
  BY <1>1, <1>3, <1>4, LineParts DEF OneSubmission
<1>11. QED
  BY <1>6, <1>7, <1>8, <1>9, <1>10 DEF InPipeline

LEMMA BatchMoves ==
  ASSUME NEW t \in Task, InPipeline(t), NEW S \in SUBSET Task, t \in S, SubmitBatch(S)
  PROVE  InPipeline(t)'
<1>1. /\ t \notin sent /\ sent' = sent \cup S /\ queue' = queue \cup S /\ todo' = S
      /\ UNCHANGED <<log, line, expired, plan, pool, tracked>>
  BY DEF SubmitBatch, outVars, nodeVars
<1>2. /\ Told(t)' = {} /\ ~SubmissionTold(t)' /\ ~InPool(t)' /\ ~IsTracked(t)'
      /\ t \notin expired' /\ \A n \in Node : <<t, n>> \notin plan'
  BY <1>1, NotSubmitted, ToldTheSame, LogUnchanged DEF InPool, IsTracked
<1>3. \A u \in Thread : line'[u].task # t
  BY <1>1, NotSubmitted
<1>4. OneAtATime(t)'
  BY <1>2, <1>3 DEF OneAtATime, InPool, IsTracked, Carries
<1>5. ToldNothingYet(t)' /\ NoRefusalTold(t)'
  BY <1>2, <1>3 DEF ToldNothingYet, NoRefusalTold
<1>6. ToldDispatchOnly(t)'
  BY <1>2, <1>3, LineParts DEF ToldDispatchOnly, IsTracked
<1>7. OneSubmission(t)'
  BY <1>1, <1>2, <1>3, LineParts DEF OneSubmission
<1>8. QED
  BY <1>4, <1>5, <1>6, <1>7 DEF InPipeline

\* The client takes the next task of its batch.
LEMMA BatchNextMoves ==
  ASSUME Types, LinesInCalls, NEW t \in Task, InPipeline(t), t \in todo, pc["client"] = "batch",
         todo' = todo \ {t}, Call("client", Submitted(t)),
         UNCHANGED <<log, sent, queue, expired, plan, pool, tracked>>
  PROVE  InPipeline(t)'
<1>1. /\ SameThreads("client") /\ pc'["client"] = "update" /\ line'["client"] = Submitted(t)
      /\ "client" \in Thread
  BY NamedThreads, TakesUp DEF Call
<1>2. /\ Told(t)' = Told(t) /\ \A i \in Told(t) : log'[i] = log[i]
      /\ ~SubmissionTold(t)' /\ \A u \in Thread : line[u] # Submitted(t)
  BY ToldTheSame, LogUnchanged DEF InPipeline, OneSubmission
<1>3. \A u \in Thread : Carries(u, t)' => Carries(u, t) /\ pc'[u] = pc[u] /\ line'[u] = line[u]
  BY <1>1, LineParts DEF Carries, SameThreads
<1>4. (InPool(t)' <=> InPool(t)) /\ (IsTracked(t)' <=> IsTracked(t))
  BY DEF InPool, IsTracked
<1>5. OneAtATime(t)'
  BY <1>3, <1>4 DEF InPipeline, OneAtATime
<1>6. ToldNothingYet(t)'
  BY <1>2, <1>3, <1>4 DEF InPipeline, ToldNothingYet, ToWrite, Carries
<1>7. ToldDispatchOnly(t)'
  <2>1. ASSUME NEW n \in Node, NEW u \in Thread, line'[u] \in {Dispatched(t, n), Completed(t, n)}
        PROVE  line'[u] = line[u] /\ (ToWrite(u)' <=> ToWrite(u))
    BY <1>1, <2>1, LineParts DEF SameThreads, ToWrite
  <2>2. QED
    BY <1>2, <2>1 DEF InPipeline, ToldDispatchOnly
<1>8. NoRefusalTold(t)'
  BY <1>1, LineParts DEF InPipeline, NoRefusalTold, SameThreads
<1>9. OneSubmission(t)'
  <2>1. t \in sent'
    BY DEF InPipeline, OneSubmission
  <2>2. \A u \in Thread : line'[u] = Submitted(t) => u = "client"
    BY <1>1, <1>2 DEF SameThreads
  <2>3. QED
    BY <1>2, <2>1, <2>2 DEF OneSubmission
<1>10. QED
  BY <1>5, <1>6, <1>7, <1>8, <1>9 DEF InPipeline

\* The facts about a task's log that a step keeps which does not write.
LEMMA LogKept ==
  ASSUME NEW t \in Task, log' = log
  PROVE  /\ Told(t)' = Told(t) /\ \A i \in Told(t) : log'[i] = log[i]
         /\ SubmissionTold(t)' <=> SubmissionTold(t)
BY ToldTheSame, LogUnchanged

\* The parts of the invariant about submissions and refusals, if no thread takes
\* up such a line.
LEMMA NoNewSubmission ==
  ASSUME NEW t \in Task, InPipeline(t), log' = log, t \in sent, sent' = sent, todo' = todo,
         \A u \in Thread : line'[u].task = t /\ line'[u].type = "task_submitted"
                             => line'[u] = line[u] /\ pc'[u] = pc[u]
  PROVE  OneSubmission(t)'
<1>1. \A u \in Thread : line'[u] = Submitted(t) => line[u] = Submitted(t) /\ pc'[u] = pc[u]
  BY LineParts
<1>2. QED
  BY <1>1, LogKept DEF InPipeline, OneSubmission, ToWrite

LEMMA EvictedMoves ==
  ASSUME NEW t \in Task, InPipeline(t), NEW S \in SUBSET Task, t \in S, Evict(S)
  PROVE  InPipeline(t)'
<1>1. /\ t \in queue /\ queue' = queue \ S /\ expired' = S /\ plan = {}
      /\ UNCHANGED <<pc, line, log, sent, todo, plan, pool, tracked>>
  BY DEF Evict, outVars, clientVars, nodeVars
<1>2. t \in sent /\ ~InPool(t) /\ ~IsTracked(t) /\ Told(t) = {}
      /\ \A u \in Thread : ~Carries(u, t)
  BY <1>1 DEF InPipeline, OneSubmission, OneAtATime, ToldNothingYet
<1>3. /\ ~InPool(t)' /\ ~IsTracked(t)' /\ \A u \in Thread : ~Carries(u, t)'
  BY <1>1, <1>2 DEF InPool, IsTracked, Carries
<1>4. OneAtATime(t)'
  BY <1>1, <1>3 DEF OneAtATime, InPool, IsTracked
<1>5. ToldNothingYet(t)'
  BY <1>1, <1>2, LogKept DEF ToldNothingYet
<1>6. ToldDispatchOnly(t)' /\ NoRefusalTold(t)'
  BY <1>1, LogKept DEF InPipeline, ToldDispatchOnly, NoRefusalTold, ToWrite
<1>7. OneSubmission(t)'
  BY <1>1, <1>2, NoNewSubmission
<1>8. QED
  BY <1>4, <1>5, <1>6, <1>7 DEF InPipeline

LEMMA EvictionMoves ==
  ASSUME Types, LinesInCalls, NEW t \in Task, InPipeline(t), EvictNext(t)
  PROVE  InPipeline(t)'
<1>1. /\ t \in expired /\ expired' = expired \ {t}
      /\ UNCHANGED <<log, sent, todo, queue, plan, pool, tracked>>
  BY DEF EvictNext, outVars, clientVars, nodeVars
<1>2. /\ SameThreads("tick") /\ pc'["tick"] = "update" /\ line'["tick"] = Evicted(t)
      /\ "tick" \in Thread
  BY NamedThreads, TakesUp DEF EvictNext, Call
<1>3. /\ t \in sent /\ t \notin queue /\ ~InPool(t) /\ ~IsTracked(t) /\ Told(t) = {}
      /\ \A u \in Thread : ~Carries(u, t)
  BY <1>1 DEF InPipeline, OneSubmission, OneAtATime, ToldNothingYet
<1>4. /\ ~InPool(t)' /\ ~IsTracked(t)' /\ \A u \in Thread : Carries(u, t)' => u = "tick"
  BY <1>1, <1>2, <1>3 DEF InPool, IsTracked, Carries, SameThreads
<1>5. OneAtATime(t)'
  BY <1>1, <1>3, <1>4 DEF InPipeline, OneAtATime, InPool, IsTracked
<1>6. ToldNothingYet(t)'
  BY <1>1, <1>3, LogKept DEF ToldNothingYet
<1>7. ToldDispatchOnly(t)'
  <2>1. ASSUME NEW n \in Node, NEW u \in Thread, line'[u] \in {Dispatched(t, n), Completed(t, n)}
        PROVE  FALSE
    BY <1>2, <1>4, <2>1, LineParts DEF Carries
  <2>2. QED
    BY <1>4, <2>1 DEF ToldDispatchOnly, IsTracked
<1>8. NoRefusalTold(t)'
  BY <1>2, LineParts DEF InPipeline, NoRefusalTold, SameThreads
<1>9. OneSubmission(t)'
  BY <1>1, <1>2, <1>3, LineParts, NoNewSubmission DEF SameThreads
<1>10. QED
  BY <1>5, <1>6, <1>7, <1>8, <1>9 DEF InPipeline

\* A plan assigns the pending tasks only, and each to one node.
LEMMA PlansAssign ==
  ASSUME NEW p \in Plans
  PROVE  \A t, n, m : /\ <<t, n>> \in p => t \in queue
                      /\ <<t, n>> \in p /\ <<t, m>> \in p => n = m
<1>1. PICK S \in SUBSET queue : \E f \in [S -> Node] : p = {<<t, f[t]>> : t \in S}
  BY DEF Plans
<1>2. PICK f \in [S -> Node] : p = {<<t, f[t]>> : t \in S}
  BY <1>1
<1>3. QED
  BY <1>2

LEMMA DecisionMoves ==
  ASSUME Types, LinesInCalls, NEW t \in Task, InPipeline(t), NEW p \in Plans, Decide(p)
  PROVE  InPipeline(t)'
<1>1. /\ plan' = p
      /\ UNCHANGED <<log, sent, todo, queue, expired, pool, tracked>>
  BY DEF Decide, outVars, clientVars, nodeVars
<1>2. /\ SameThreads("tick") /\ line'["tick"].task = Nothing /\ "tick" \in Thread
      /\ line["tick"].task # t
  <2>1. /\ "tick" \in Thread /\ pc["tick"] = "idle" /\ pc' = [pc EXCEPT !["tick"] = "update"]
        /\ line' = [line EXCEPT !["tick"] = Line("scheduling_decision", Nothing, Nothing)]
    BY NamedThreads DEF Decide, Call
  <2>2. /\ SameThreads("tick") /\ line["tick"].task # t
        /\ line'["tick"] = Line("scheduling_decision", Nothing, Nothing)
    BY <2>1, TakesUp
  <2>3. QED
    BY <2>1, <2>2, LineParts
<1>3. \A u \in Thread : line'[u].task = t => line'[u] = line[u] /\ pc'[u] = pc[u]
  BY <1>2, RecorderAssumption DEF SameThreads
<1>4. \A u \in Thread : Carries(u, t)' <=> Carries(u, t)
  BY <1>2, <1>3, RecorderAssumption DEF Carries, SameThreads
<1>5. OneAtATime(t)'
  <2>1. /\ \A n, m \in Node : <<t, n>> \in plan' /\ <<t, m>> \in plan' => n = m
        /\ \A n \in Node : <<t, n>> \in plan' => t \in queue'
    BY <1>1, PlansAssign
  <2>2. (InPool(t)' <=> InPool(t)) /\ (IsTracked(t)' <=> IsTracked(t))
    BY <1>1 DEF InPool, IsTracked
  <2>3. QED
    BY <1>1, <1>4, <2>1, <2>2 DEF InPipeline, OneAtATime
<1>6. ToldNothingYet(t)'
  BY <1>1, <1>3, LogKept DEF InPipeline, ToldNothingYet, InPool, Carries, ToWrite
<1>7. ToldDispatchOnly(t)'
  <2>1. ASSUME NEW n \in Node, NEW u \in Thread, line'[u] \in {Dispatched(t, n), Completed(t, n)}
        PROVE  line'[u] = line[u] /\ pc'[u] = pc[u]
    BY <1>3, <2>1, LineParts
  <2>2. QED
    BY <1>1, <2>1, LogKept DEF InPipeline, ToldDispatchOnly, ToWrite
<1>8. NoRefusalTold(t)'
  BY <1>3 DEF InPipeline, NoRefusalTold
<1>9. OneSubmission(t)'
  <2>1. \A u \in Thread : line'[u] = Submitted(t) => line[u] = Submitted(t) /\ pc'[u] = pc[u]
    BY <1>3, LineParts
  <2>2. QED
    BY <1>1, <1>3, <2>1, LogKept DEF InPipeline, OneSubmission, ToWrite, InPool, IsTracked
<1>10. QED
  BY <1>5, <1>6, <1>7, <1>8, <1>9 DEF InPipeline

LEMMA TakenMoves ==
  ASSUME NEW t \in Task, NEW n \in Node, InPipeline(t), Take(<<t, n>>)
  PROVE  InPipeline(t)'
<1>1. /\ <<t, n>> \in plan /\ plan' = plan \ {<<t, n>>} /\ queue' = queue \ {t}
      /\ pool' = pool \cup {<<t, n>>}
      /\ UNCHANGED <<pc, line, log, sent, todo, expired, tracked>>
  BY DEF Take, outVars, clientVars
<1>2. /\ t \in queue /\ t \in sent /\ t \notin expired /\ ~InPool(t) /\ ~IsTracked(t) /\ Told(t) = {}
      /\ \A u \in Thread : ~Carries(u, t)
  BY <1>1 DEF InPipeline, OneSubmission, OneAtATime, ToldNothingYet
<1>3. /\ ~IsTracked(t)' /\ \A u \in Thread : ~Carries(u, t)'
      /\ \A m \in Node : <<t, m>> \in pool' <=> m = n
      /\ \A m \in Node : <<t, m>> \notin plan'
  BY <1>1, <1>2 DEF InPool, IsTracked, Carries, InPipeline, OneAtATime
<1>4. OneAtATime(t)'
  BY <1>1, <1>2, <1>3 DEF OneAtATime, IsTracked
<1>5. ToldNothingYet(t)'
  BY <1>1, <1>2, LogKept DEF ToldNothingYet
<1>6. ToldDispatchOnly(t)' /\ NoRefusalTold(t)'
  BY <1>1, LogKept DEF InPipeline, ToldDispatchOnly, NoRefusalTold, ToWrite
<1>7. OneSubmission(t)'
  BY <1>1, <1>2, NoNewSubmission
<1>8. QED
  BY <1>4, <1>5, <1>6, <1>7 DEF InPipeline

\* A worker takes a task from the pool and has a line about it.
LEMMA DispatchMoves ==
  ASSUME Types, LinesInCalls, NEW t \in Task, NEW n \in Node, NEW w \in Worker,
         InPipeline(t), Admitted(w, <<t, n>>)
  PROVE  InPipeline(t)'
<1>1. /\ <<t, n>> \in pool /\ pool' = pool \ {<<t, n>>}
      /\ UNCHANGED <<log, sent, todo, queue, expired, plan, tracked>>
  BY DEF Admitted, outVars, clientVars, tickVars
<1>2. /\ SameThreads(w) /\ pc'[w] = "callback" /\ line'[w] = Dispatched(t, n)
      /\ w \in Thread
  BY NamedThreads, TakesUp DEF Admitted
<1>3. /\ t \in sent /\ t \notin queue \cup expired /\ ~IsTracked(t) /\ Told(t) = {}
      /\ \A u \in Thread : ~Carries(u, t)
      /\ \A m \in Node : <<t, m>> \notin plan /\ (<<t, m>> \in pool => m = n)
  BY <1>1 DEF InPipeline, OneSubmission, OneAtATime, ToldNothingYet, InPool
<1>4. /\ ~InPool(t)' /\ ~IsTracked(t)' /\ \A u \in Thread : Carries(u, t)' => u = w
  BY <1>1, <1>2, <1>3 DEF InPool, IsTracked, Carries, SameThreads
<1>5. OneAtATime(t)'
  BY <1>1, <1>3, <1>4 DEF OneAtATime, InPool, IsTracked
<1>6. ToldNothingYet(t)'
  BY <1>1, <1>3, LogKept DEF ToldNothingYet
<1>7. ToldDispatchOnly(t)'
  <2>1. ASSUME NEW m \in Node, NEW u \in Thread, line'[u] \in {Dispatched(t, m), Completed(t, m)}
        PROVE  line'[u] # Completed(t, m) /\ ToWrite(u)'
    <3>1. Carries(u, t)'
      BY <2>1, LineParts DEF Carries
    <3>2. line'[u].type = "task_dispatched" /\ pc'[u] = "callback"
      BY <1>2, <1>4, <3>1, LineParts
    <3>3. QED
      BY <3>2, LineParts DEF ToWrite
  <2>2. QED
    BY <1>4, <2>1 DEF ToldDispatchOnly, IsTracked
<1>8. NoRefusalTold(t)'
  BY <1>2, LineParts DEF InPipeline, NoRefusalTold, SameThreads
<1>9. OneSubmission(t)'
  BY <1>1, <1>2, <1>3, LineParts, NoNewSubmission DEF SameThreads
<1>10. QED
  BY <1>5, <1>6, <1>7, <1>8, <1>9 DEF InPipeline

LEMMA RefusalMoves ==
  ASSUME Types, LinesInCalls, NEW t \in Task, NEW n \in Node, NEW w \in Worker,
         InPipeline(t), Refused(w, <<t, n>>)
  PROVE  InPipeline(t)'
<1>1. /\ <<t, n>> \in pool /\ pool' = pool \ {<<t, n>>} /\ queue' = queue \cup {t}
      /\ UNCHANGED <<log, sent, todo, expired, plan, tracked>>
  BY DEF Refused, outVars, clientVars
<1>2. /\ SameThreads(w) /\ pc'[w] = "callback" /\ line'[w] = Rejected(t, n)
      /\ w \in Thread
  BY NamedThreads, TakesUp DEF Refused
<1>3. /\ t \in sent /\ t \notin queue \cup expired /\ ~IsTracked(t) /\ Told(t) = {}
      /\ \A u \in Thread : ~Carries(u, t)
      /\ \A m \in Node : <<t, m>> \notin plan /\ (<<t, m>> \in pool => m = n)
  BY <1>1 DEF InPipeline, OneSubmission, OneAtATime, ToldNothingYet, InPool
<1>4. /\ ~InPool(t)' /\ ~IsTracked(t)' /\ \A u \in Thread : ~Carries(u, t)'
  BY <1>1, <1>2, <1>3, LineParts DEF InPool, IsTracked, Carries, SameThreads
<1>5. OneAtATime(t)'
  BY <1>1, <1>3, <1>4 DEF OneAtATime, InPool, IsTracked
<1>6. ToldNothingYet(t)'
  BY <1>1, <1>3, LogKept DEF ToldNothingYet
<1>7. ToldDispatchOnly(t)'
  <2>1. ASSUME NEW m \in Node, NEW u \in Thread, line'[u] \in {Dispatched(t, m), Completed(t, m)}
        PROVE  FALSE
    BY <1>4, <2>1, LineParts DEF Carries
  <2>2. QED
    BY <1>4, <2>1 DEF ToldDispatchOnly, IsTracked
<1>8. NoRefusalTold(t)'
  BY <1>2 DEF InPipeline, NoRefusalTold, SameThreads
<1>9. OneSubmission(t)'
  BY <1>1, <1>2, <1>3, LineParts, NoNewSubmission DEF SameThreads
<1>10. QED
  BY <1>5, <1>6, <1>7, <1>8, <1>9 DEF InPipeline

\* A worker that has recorded the dispatch has the task tracked.
LEMMA TrackMoves ==
  ASSUME Types, NEW t \in Task, NEW n \in Node, NEW w \in Worker, InPipeline(t),
         Track(w), line[w] = Dispatched(t, n)
  PROVE  InPipeline(t)'
<1>1. /\ pc[w] = "track" /\ tracked' = tracked \cup {<<t, n>>}
      /\ UNCHANGED <<log, sent, todo, queue, expired, plan, pool>>
  BY LineParts DEF Track, Goes, outVars, clientVars, tickVars
<1>2. SameThreads(w) /\ line'[w] = NoLine /\ w \in Thread
  <2>1. pc' = [pc EXCEPT ![w] = "idle"] /\ line' = [line EXCEPT ![w] = NoLine] /\ w \in Thread
    BY NamedThreads DEF Track, Goes, Moves
  <2>2. QED
    BY <2>1 DEF SameThreads, Types, RecorderTypes
<1>3. Carries(w, t)
  BY LineParts DEF Carries
<1>4. /\ t \in sent /\ t \notin queue \cup expired /\ ~InPool(t) /\ ~IsTracked(t)
      /\ \A u \in Thread : Carries(u, t) => u = w
      /\ \A m \in Node : <<t, m>> \notin plan
  BY <1>2, <1>3 DEF InPipeline, OneSubmission, OneAtATime, Carries
<1>5. \E i \in Told(t) : Told(t) = {i} /\ log[i] = Dispatched(t, n)
  BY <1>1, <1>2 DEF InPipeline, ToldDispatchOnly, ToWrite
<1>6. /\ ~InPool(t)' /\ \A u \in Thread : ~Carries(u, t)'
      /\ \A m \in Node : <<t, m>> \in tracked' <=> m = n
  BY <1>1, <1>2, <1>4, LineParts, RecorderAssumption DEF InPool, IsTracked, Carries, SameThreads
<1>7. OneAtATime(t)'
  BY <1>1, <1>4, <1>6 DEF OneAtATime, InPool
<1>8. ToldNothingYet(t)'
  BY <1>1, <1>4, <1>6 DEF ToldNothingYet
<1>9. ToldDispatchOnly(t)'
  <2>1. ASSUME NEW m \in Node, NEW u \in Thread, line'[u] \in {Dispatched(t, m), Completed(t, m)}
        PROVE  FALSE
    BY <1>6, <2>1, LineParts DEF Carries
  <2>2. QED
    BY <1>1, <1>5, <1>6, <2>1, LogKept DEF ToldDispatchOnly
<1>10. NoRefusalTold(t)'
  BY <1>2, LineParts, RecorderAssumption DEF InPipeline, NoRefusalTold, SameThreads
<1>11. OneSubmission(t)'
  BY <1>1, <1>2, <1>4, LineParts, RecorderAssumption, NoNewSubmission DEF SameThreads
<1>12. QED
  BY <1>7, <1>8, <1>9, <1>10, <1>11 DEF InPipeline

\* The poller observes the completion of a tracked task.
LEMMA CompletionMoves ==
  ASSUME Types, LinesInCalls, NEW t \in Task, NEW n \in Node, InPipeline(t),
         <<t, n>> \in tracked, tracked' = tracked \ {<<t, n>>}, pc["poller"] = "observe",
         Call("poller", Completed(t, n)),
         UNCHANGED <<log, sent, todo, queue, expired, plan, pool>>
  PROVE  InPipeline(t)'
<1>1. /\ SameThreads("poller") /\ pc'["poller"] = "update" /\ line'["poller"] = Completed(t, n)
      /\ "poller" \in Thread
  BY NamedThreads, TakesUp DEF Call
<1>2. IsTracked(t)
  BY DEF IsTracked
<1>3. /\ t \in sent /\ t \notin queue \cup expired /\ ~InPool(t)
      /\ \A u \in Thread : ~Carries(u, t)
      /\ \A m \in Node : <<t, m>> \notin plan /\ (<<t, m>> \in tracked => m = n)
      /\ \E i \in Told(t) : Told(t) = {i} /\ log[i] = Dispatched(t, n)
  BY <1>2 DEF InPipeline, OneSubmission, OneAtATime, ToldDispatchOnly
<1>4. /\ ~InPool(t)' /\ ~IsTracked(t)' /\ \A u \in Thread : Carries(u, t)' => u = "poller"
  BY <1>1, <1>3 DEF InPool, IsTracked, Carries, SameThreads
<1>5. OneAtATime(t)'
  BY <1>3, <1>4 DEF OneAtATime, InPool, IsTracked
<1>6. ToldNothingYet(t)'
  BY <1>1, <1>3, <1>4, LineParts DEF ToldNothingYet
<1>7. ToldDispatchOnly(t)'
  <2>1. ASSUME NEW m \in Node, NEW u \in Thread, line'[u] \in {Dispatched(t, m), Completed(t, m)}
        PROVE  m = n
    <3>1. Carries(u, t)'
      BY <2>1, LineParts DEF Carries
    <3>2. line'[u] = Completed(t, n)
      BY <1>1, <1>4, <3>1
    <3>3. QED
      BY <2>1, <3>2, LineParts
  <2>2. \E i \in Told(t)' : Told(t)' = {i} /\ log'[i] = Dispatched(t, n)
    BY <1>3, LogKept
  <2>3. QED
    BY <1>4, <2>1, <2>2 DEF ToldDispatchOnly, IsTracked
<1>8. NoRefusalTold(t)'
  BY <1>1, LineParts DEF InPipeline, NoRefusalTold, SameThreads
<1>9. OneSubmission(t)'
  BY <1>1, <1>3, LineParts, NoNewSubmission DEF SameThreads
<1>10. QED
  BY <1>5, <1>6, <1>7, <1>8, <1>9 DEF InPipeline

-----------------------------------------------------------------------------
\* A line is written

\* A line about another task, or about none.
LEMMA OthersLine ==
  ASSUME Types, NEW t \in Task, NEW l, l.task # t,
         log' = log \/ log' = Append(log, l)
  PROVE  SameLog(t)
<1>1. log \in Seq(TaskLine)
  BY DEF Types, RecorderTypes
<1>2. QED
  BY <1>1 DEF SameLog

\* Places and threads stay as they are, but for the writer that goes on to flush.
Writing(th, t) ==
  /\ pc[th] = "write" /\ line[th].task = t
  /\ SameThreads(th) /\ pc'[th] = "flush" /\ line'[th] = line[th]
  /\ log' = Append(log, line[th])
  /\ UNCHANGED <<sent, todo, queue, expired, plan, pool, tracked>>

LEMMA LineAppended ==
  ASSUME Types, NEW th \in Thread, NEW t \in Task, Writing(th, t)
  PROVE  /\ Len(log') = Len(log) + 1 /\ log'[Len(log) + 1] = line[th]
         /\ \A i \in 1..Len(log) : log'[i] = log[i] /\ i # Len(log) + 1
         /\ 1..Len(log') = (1..Len(log)) \cup {Len(log) + 1}
         /\ Told(t)' = IF line[th].type = "task_submitted" THEN Told(t)
                         ELSE Told(t) \cup {Len(log) + 1}
<1>1. log \in Seq(TaskLine)
  BY DEF Types, RecorderTypes
<1>2. /\ Len(log') = Len(log) + 1 /\ log'[Len(log) + 1] = line[th]
      /\ \A i \in 1..Len(log) : log'[i] = log[i] /\ i # Len(log) + 1
      /\ 1..Len(log') = (1..Len(log)) \cup {Len(log) + 1}
  BY <1>1 DEF Writing
<1>3. line[th].task = t
  BY DEF Writing
<1>4. QED
  BY <1>2, <1>3 DEF Told

\* What does not depend on the kind of line.
LEMMA WritingKeeps ==
  ASSUME Types, NEW th \in Thread, NEW t \in Task, InPipeline(t), Writing(th, t)
  PROVE  /\ OneAtATime(t)' /\ NoRefusalTold(t)'
         /\ line[th].type # "task_rejected"
         /\ t \in sent'
<1>1. \A u \in Thread : line'[u] = line[u] /\ (Carries(u, t)' <=> Carries(u, t))
  BY DEF Writing, SameThreads, Carries
<1>2. (InPool(t)' <=> InPool(t)) /\ (IsTracked(t)' <=> IsTracked(t))
  BY DEF Writing, InPool, IsTracked
<1>3. OneAtATime(t)'
  BY <1>1, <1>2 DEF Writing, InPipeline, OneAtATime
<1>4. line[th].type # "task_rejected"
  BY DEF Writing, InPipeline, NoRefusalTold
<1>5. NoRefusalTold(t)'
  BY <1>1, <1>4 DEF Writing, SameThreads, InPipeline, NoRefusalTold
<1>6. t \in sent'
  BY DEF Writing, InPipeline, OneSubmission
<1>7. QED
  BY <1>3, <1>4, <1>5, <1>6

LEMMA SubmissionWritten ==
  ASSUME Types, NEW th \in Thread, NEW t \in Task, InPipeline(t), OneLife(t), Writing(th, t),
         line[th] = Submitted(t)
  PROVE  InPipeline(t)' /\ OneLife(t)'
<1>1. /\ Told(t)' = Told(t) /\ \A i \in Told(t) : log'[i] = log[i]
      /\ \A i \in 1..Len(log') : log'[i] = Submitted(t) => i = Len(log) + 1
  BY LineAppended, LineParts DEF Told, Writing, InPipeline, OneSubmission, ToWrite, SubmissionTold
<1>2. \A u \in Thread : line'[u] = line[u] /\ (u # th => pc'[u] = pc[u])
  BY DEF Writing, SameThreads
<1>3. \A u \in Thread : line[u] = Submitted(t) => u = th
  BY DEF InPipeline, OneSubmission
<1>4. ToldNothingYet(t)'
  <2>1. \A u \in Thread : Carries(u, t)' => Carries(u, t) /\ (ToWrite(u)' <=> ToWrite(u))
    BY <1>2, LineParts DEF Carries, ToWrite
  <2>2. QED
    BY <1>1, <1>2, <2>1 DEF Writing, InPipeline, ToldNothingYet, InPool
<1>5. ToldDispatchOnly(t)'
  <2>1. ASSUME NEW n \in Node, NEW u \in Thread, line'[u] \in {Dispatched(t, n), Completed(t, n)}
        PROVE  line'[u] = line[u] /\ (ToWrite(u)' <=> ToWrite(u))
    BY <1>2, <2>1, LineParts DEF ToWrite
  <2>2. QED
    BY <1>1, <2>1 DEF Writing, InPipeline, ToldDispatchOnly
<1>6. OneSubmission(t)'
  <2>1. t \notin todo'
    BY DEF Writing, InPipeline, OneSubmission
  <2>2. \A u \in Thread : line'[u] = Submitted(t) => u = th /\ ~ToWrite(u)'
    BY <1>2, <1>3 DEF ToWrite, Writing
  <2>3. QED
    BY <2>1, <2>2, WritingKeeps DEF OneSubmission
<1>7. OneLife(t)'
  <2>1. \A i, j \in Told(t) : Ends(t, j, i)' <=> Ends(t, j, i)
    BY <1>1 DEF Ends
  <2>2. QED
    BY <1>1, <2>1 DEF OneLife
<1>8. QED
  BY <1>4, <1>5, <1>6, <1>7, WritingKeeps DEF InPipeline

\* The writer carries the task: nobody else has it.
LEMMA WriterCarries ==
  ASSUME Types, NEW th \in Thread, NEW t \in Task, InPipeline(t), Writing(th, t),
         line[th].type # "task_submitted"
  PROVE  /\ t \notin queue' \cup expired' /\ ~InPool(t)' /\ ~IsTracked(t)'
         /\ \A u \in Thread : Carries(u, t)' => u = th
         /\ ToWrite(th) /\ ~ToWrite(th)' /\ Carries(th, t)
         /\ OneSubmission(t)'
<1>1. Carries(th, t)
  BY WritingKeeps DEF Carries, Writing
<1>2. \A u \in Thread : line'[u] = line[u] /\ (u # th => pc'[u] = pc[u])
  BY DEF Writing, SameThreads
<1>3. /\ t \notin queue' \cup expired' /\ ~InPool(t)' /\ ~IsTracked(t)'
      /\ \A u \in Thread : Carries(u, t)' => u = th
  BY <1>1, <1>2 DEF Writing, InPipeline, OneAtATime, Carries, InPool, IsTracked
<1>4. SubmissionTold(t)' <=> SubmissionTold(t)
  <2>1. line[th] # Submitted(t)
    BY LineParts
  <2>2. QED
    BY <2>1, LineAppended DEF SubmissionTold
<1>5. OneSubmission(t)'
  <2>1. \A u \in Thread : line'[u] = Submitted(t)
                            => line[u] = Submitted(t) /\ (ToWrite(u)' <=> ToWrite(u))
    BY <1>2, LineParts DEF ToWrite
  <2>2. \A u \in Thread : line'[u] # Submitted(t) => line[u] # Submitted(t)
    BY <1>2
  <2>3. todo' = todo
    BY DEF Writing
  <2>4. QED
    BY <1>4, <2>1, <2>2, <2>3, WritingKeeps DEF InPipeline, OneSubmission
<1>6. ToWrite(th) /\ ~ToWrite(th)'
  BY DEF Writing, ToWrite
<1>7. QED
  BY <1>1, <1>3, <1>5, <1>6

\* No line of the task's submission comes with another kind of line.
LEMMA SubmissionsKept ==
  ASSUME Types, NEW th \in Thread, NEW t \in Task, OneLife(t), Writing(th, t),
         line[th] # Submitted(t)
  PROVE  \A i, j \in 1..Len(log') : log'[i] = Submitted(t) /\ log'[j] = Submitted(t) => i = j
BY LineAppended DEF OneLife

\* The first line after the submission: an eviction or a dispatch.
LEMMA FirstWritten ==
  ASSUME Types, NEW th \in Thread, NEW t \in Task, InPipeline(t), OneLife(t), Writing(th, t),
         line[th] = Evicted(t) \/ \E n \in Node : line[th] = Dispatched(t, n)
  PROVE  InPipeline(t)' /\ OneLife(t)'
<1>1. line[th].type \in {"task_evicted", "task_dispatched"}
  BY LineParts
<1>2. Told(t) = {}
  BY <1>1, WriterCarries DEF InPipeline, ToldNothingYet
<1>3. Told(t)' = {Len(log) + 1} /\ log'[Len(log) + 1] = line[th]
  BY <1>1, <1>2, LineAppended
<1>4. ToldNothingYet(t)'
  BY <1>1, WriterCarries DEF ToldNothingYet
<1>5. ToldDispatchOnly(t)'
  <2>1. ASSUME NEW n \in Node, NEW u \in Thread, line'[u] \in {Dispatched(t, n), Completed(t, n)}
        PROVE  line[th] = Dispatched(t, n)
    <3>1. u = th
      BY <1>1, <2>1, LineParts, WriterCarries DEF Carries
    <3>2. line'[u] = line[th]
      BY <3>1 DEF Writing
    <3>3. QED
      BY <1>1, <2>1, <3>2, LineParts
  <2>2. ~IsTracked(t)'
    BY <1>1, WriterCarries
  <2>3. QED
    BY <1>3, <2>1, <2>2 DEF ToldDispatchOnly, IsTracked
<1>6. OneLife(t)'
  BY <1>1, <1>3, LineParts, SubmissionsKept DEF OneLife
<1>7. QED
  BY <1>1, <1>4, <1>5, <1>6, WritingKeeps, WriterCarries DEF InPipeline

\* The second one: a completion on the node of the dispatch.
LEMMA CompletionWritten ==
  ASSUME Types, NEW th \in Thread, NEW t \in Task, NEW n \in Node, InPipeline(t), OneLife(t),
         Writing(th, t), line[th] = Completed(t, n)
  PROVE  InPipeline(t)' /\ OneLife(t)'
<1>1. line[th].type = "task_completed"
  BY LineParts
<1>2. PICK i \in Told(t) : Told(t) = {i} /\ log[i] = Dispatched(t, n)
  BY <1>1, WriterCarries DEF InPipeline, ToldDispatchOnly
<1>3. PICK k \in Nat : /\ Told(t)' = {i, k} /\ log'[k] = Completed(t, n)
                       /\ log'[i] = Dispatched(t, n) /\ i \in Nat /\ i < k
  <2>1. i \in 1..Len(log) /\ Len(log) \in Nat
    BY DEF Told, Types, RecorderTypes
  <2>2. i \in Nat /\ i < Len(log) + 1 /\ Len(log) + 1 \in Nat
    BY <2>1
  <2>3. QED
    BY <1>1, <1>2, <2>1, <2>2, LineAppended
<1>4. ToldNothingYet(t)'
  BY <1>1, WriterCarries DEF ToldNothingYet
<1>5. ToldDispatchOnly(t)'
  <2>1. ASSUME NEW m \in Node, NEW u \in Thread, line'[u] \in {Dispatched(t, m), Completed(t, m)}
        PROVE  line'[u] # Dispatched(t, m) /\ ~ToWrite(u)'
    <3>1. u = th
      BY <1>1, <2>1, LineParts, WriterCarries DEF Carries
    <3>2. line'[u].type = "task_completed"
      BY <1>1, <3>1 DEF Writing
    <3>3. QED
      BY <1>1, <3>1, <3>2, LineParts, WriterCarries
  <2>2. ~IsTracked(t)'
    BY <1>1, WriterCarries
  <2>3. QED
    BY <2>1, <2>2 DEF ToldDispatchOnly, IsTracked
<1>6. OneLife(t)'
  <2>1. Ends(t, i, k)'
    BY <1>3 DEF Ends
  <2>2. ~(k < i) /\ ~(k < k) /\ ~(i < i)
    BY <1>3
  <2>3. \A j \in Told(t)' :
          \/ \E m \in Node : log'[j] = Dispatched(t, m)
          \/ \E m \in Told(t)' : Ends(t, m, j)'
    BY <1>3, <2>1
  <2>4. \A j, m \in Told(t)' : m < j => Ends(t, m, j)'
    BY <1>3, <2>1, <2>2
  <2>5. line[th] # Submitted(t)
    BY <1>1, LineParts
  <2>6. QED
    BY <2>3, <2>4, <2>5, SubmissionsKept DEF OneLife
<1>7. QED
  BY <1>1, <1>4, <1>5, <1>6, WritingKeeps, WriterCarries DEF InPipeline

-----------------------------------------------------------------------------
\* Every step of a trial keeps what the pipeline does with a task

LEMMA PlacesUnchanged ==
  ASSUME NEW t \in Task, InPipeline(t),
         UNCHANGED <<sent, todo, queue, expired, plan, pool, tracked>>
  PROVE  PlacesKeep(t)
BY DEF PlacesKeep, InPipeline, OneAtATime

LEMMA ThreadsUnchanged ==
  ASSUME NEW t \in Task, InPipeline(t), UNCHANGED <<pc, line>>
  PROVE  ThreadsKeep(t)
BY DEF ThreadsKeep, InPipeline, NoRefusalTold, ToWrite

\* One thread goes on, with nothing about the task in its hands afterwards.
LEMMA ThreadElsewhere ==
  ASSUME Types, LinesInCalls, NEW t \in Task, InPipeline(t), NEW th \in Thread,
         SameThreads(th), line'[th].task # t
  PROVE  ThreadsKeep(t)
BY DEF ThreadsKeep, SameThreads, InPipeline, NoRefusalTold, ToWrite

LEMMA ThreadTakesLine ==
  ASSUME Types, LinesInCalls, NEW t \in Task, InPipeline(t), NEW th \in Thread, NEW to, NEW l,
         pc' = [pc EXCEPT ![th] = to], line' = [line EXCEPT ![th] = l], l.task # t
  PROVE  ThreadsKeep(t)
<1>1. SameThreads(th) /\ line'[th] = l
  BY DEF Types, RecorderTypes, SameThreads
<1>2. QED
  BY <1>1, ThreadElsewhere

LEMMA ThreadWithoutLine ==
  ASSUME Types, LinesInCalls, NEW t \in Task, InPipeline(t), NEW th \in Thread, NEW to,
         pc' = [pc EXCEPT ![th] = to], line' = line,
         pc[th] \in {"idle", "batch", "observe", "activate", "append", "close"}
  PROVE  ThreadsKeep(t)
<1>1. SameThreads(th) /\ line[th].task = Nothing
  BY DEF Types, RecorderTypes, SameThreads, LinesInCalls
<1>2. QED
  BY <1>1, ThreadElsewhere, RecorderAssumption

LEMMA SilentParts ==
  ASSUME NEW t \in Task, NEW type
  PROVE  Line(type, Nothing, Nothing).task # t /\ NoLine.task # t
BY LineParts, RecorderAssumption

LEMMA PipelineClient ==
  ASSUME Types, LinesInCalls, OpenInTrial, NEW t \in Task, InPipeline(t),
         active, file = "open", file' = "open", ClientNext
  PROVE  InPipeline(t)' /\ log' = log
<1>0. "client" \in Thread
  BY NamedThreads
<1>1. log' = log
  BY DEF ClientNext, SubmitTask, SubmitBatch, Start, End, Reset, ClientStep, BatchNext, Activate,
         AppendRow, Close, Forget, Deactivate, ClearQueue, ClearTracked, ResetNodes, outVars
<1>2. SameLog(t)
  BY <1>1, LogUnchanged
<1>3. ASSUME NEW t2 \in Task, SubmitTask(t2) PROVE InPipeline(t)'
  <2>1. CASE t2 = t
    BY <1>3, <2>1, SubmittedMoves
  <2>2. CASE t2 # t
    <3>1. ThreadsKeep(t)
      <4>1. Submitted(t2).task # t
        BY <2>2, LineParts
      <4>2. QED
        BY <1>0, <1>3, <4>1, ThreadTakesLine DEF SubmitTask, Call
    <3>2. PlacesKeep(t)
      BY <1>3, <2>2 DEF SubmitTask, PlacesKeep, nodeVars, InPipeline, OneAtATime
    <3>3. QED
      BY <1>2, <3>1, <3>2, PipelineKept
  <2>3. QED
    BY <2>1, <2>2
<1>4. ASSUME NEW S \in SUBSET Task, SubmitBatch(S) PROVE InPipeline(t)'
  <2>1. CASE t \in S
    BY <1>4, <2>1, BatchMoves
  <2>2. CASE t \notin S
    <3>1. ThreadsKeep(t)
      BY <1>0, <1>4, ThreadWithoutLine DEF SubmitBatch, Goes, Moves
    <3>2. PlacesKeep(t)
      BY <1>4, <2>2 DEF SubmitBatch, PlacesKeep, nodeVars, InPipeline, OneAtATime
    <3>3. QED
      BY <1>2, <3>1, <3>2, PipelineKept
  <2>3. QED
    BY <2>1, <2>2
<1>5. CASE BatchNext
  <2>1. /\ UNCHANGED <<log, sent, queue, expired, plan, pool, tracked>>
        /\ pc["client"] = "batch"
    BY <1>5 DEF BatchNext, outVars, tickVars, nodeVars
  <2>2. CASE todo' = todo /\ line' = line /\ pc' = [pc EXCEPT !["client"] = "idle"]
    <3>1. ThreadsKeep(t)
      BY <1>0, <2>1, <2>2, ThreadWithoutLine
    <3>2. QED
      BY <1>2, <2>1, <2>2, <3>1, PlacesUnchanged, PipelineKept
  <2>3. ASSUME NEW t2 \in todo, todo' = todo \ {t2},
               UNCHANGED <<pc, line>> \/ Call("client", Submitted(t2))
        PROVE  InPipeline(t)'
    <3>1. PlacesKeep(t)
      BY <2>1, <2>3 DEF PlacesKeep, InPipeline, OneAtATime
    <3>2. CASE UNCHANGED <<pc, line>>
      BY <1>2, <3>1, <3>2, ThreadsUnchanged, PipelineKept
    <3>3. CASE t2 = t /\ Call("client", Submitted(t2))
      BY <2>1, <2>3, <3>3, BatchNextMoves
    <3>4. CASE t2 # t /\ Call("client", Submitted(t2))
      <4>1. Submitted(t2).task # t
        BY <3>4, LineParts
      <4>2. ThreadsKeep(t)
        BY <1>0, <3>4, <4>1, ThreadTakesLine DEF Call
      <4>3. QED
        BY <1>2, <3>1, <4>2, PipelineKept
    <3>5. QED
      BY <2>3, <3>2, <3>3, <3>4
  <2>4. \/ todo' = todo /\ line' = line /\ pc' = [pc EXCEPT !["client"] = "idle"]
        \/ \E t2 \in todo : /\ todo' = todo \ {t2}
                            /\ UNCHANGED <<pc, line>> \/ Call("client", Submitted(t2))
    BY <1>5 DEF BatchNext, Moves
  <2>5. InPipeline(t)'
    BY <2>2, <2>3, <2>4 DEF Call
  <2>6. QED
    BY <1>1, <2>5
<1>6. CASE Activate \/ End \/ Reset \/ AppendRow
  <2>1. PlacesKeep(t)
    BY <1>6, PlacesUnchanged
       DEF Activate, End, Reset, AppendRow, clientVars, tickVars, nodeVars
  <2>2. PICK to : pc' = [pc EXCEPT !["client"] = to]
    BY <1>6 DEF Activate, End, Reset, AppendRow, Goes, Moves
  <2>3. CASE AppendRow
    BY <1>0, <1>2, <2>1, <2>2, <2>3, ThreadWithoutLine, PipelineKept DEF AppendRow, Goes
  <2>4. CASE Activate \/ End \/ Reset
    <3>1. PICK type : line' = [line EXCEPT !["client"] = Line(type, Nothing, Nothing)]
      BY <2>4 DEF Activate, End, Reset
    <3>2. ThreadsKeep(t)
      BY <1>0, <2>2, <3>1, SilentParts, ThreadTakesLine
    <3>3. QED
      BY <1>1, <1>2, <2>1, <3>2, PipelineKept
  <2>5. QED
    BY <1>6, <2>3, <2>4
<1>7. CASE Start
  BY <1>7 DEF Start
<1>8. CASE Close \/ Forget
  BY <1>8 DEF Close, Forget
<1>9. CASE Deactivate \/ ClearQueue \/ ClearTracked \/ ResetNodes
  BY <1>9 DEF Deactivate, ClearQueue, ClearTracked, ResetNodes, Goes, OpenInTrial
<1>10. QED
  BY <1>1, <1>3, <1>4, <1>5, <1>6, <1>7, <1>8, <1>9 DEF ClientNext, ClientStep

LEMMA PipelineTick ==
  ASSUME Types, LinesInCalls, NEW t \in Task, InPipeline(t), TickNext
  PROVE  InPipeline(t)' /\ log' = log
<1>0. "tick" \in Thread
  BY NamedThreads
<1>1. log' = log
  BY DEF TickNext, Evict, EvictNext, Decide, Take, outVars
<1>2. SameLog(t)
  BY <1>1, LogUnchanged
<1>3. ASSUME NEW S \in SUBSET Task, Evict(S) PROVE InPipeline(t)'
  <2>1. CASE t \in S
    BY <1>3, <2>1, EvictedMoves
  <2>2. CASE t \notin S
    <3>1. ThreadsKeep(t)
      BY <1>3, ThreadsUnchanged DEF Evict
    <3>2. PlacesKeep(t)
      BY <1>3, <2>2 DEF Evict, PlacesKeep, clientVars, nodeVars
    <3>3. QED
      BY <1>2, <3>1, <3>2, PipelineKept
  <2>3. QED
    BY <2>1, <2>2
<1>4. ASSUME NEW t2 \in Task, EvictNext(t2) PROVE InPipeline(t)'
  <2>1. CASE t2 = t
    BY <1>4, <2>1, EvictionMoves
  <2>2. CASE t2 # t
    <3>1. ThreadsKeep(t)
      <4>1. Evicted(t2).task # t
        BY <2>2, LineParts
      <4>2. QED
        BY <1>0, <1>4, <4>1, ThreadTakesLine DEF EvictNext, Call
    <3>2. PlacesKeep(t)
      BY <1>4 DEF EvictNext, PlacesKeep, clientVars, nodeVars, InPipeline, OneAtATime
    <3>3. QED
      BY <1>2, <3>1, <3>2, PipelineKept
  <2>3. QED
    BY <2>1, <2>2
<1>5. ASSUME NEW p \in Plans, Decide(p) PROVE InPipeline(t)'
  BY <1>5, DecisionMoves
<1>6. ASSUME NEW t2 \in Task, NEW n \in Node, Take(<<t2, n>>) PROVE InPipeline(t)'
  <2>1. CASE t2 = t
    BY <1>6, <2>1, TakenMoves
  <2>2. CASE t2 # t
    <3>1. ThreadsKeep(t)
      BY <1>6, ThreadsUnchanged DEF Take
    <3>2. PlacesKeep(t)
      BY <1>6, <2>2 DEF Take, PlacesKeep, clientVars, InPipeline, OneAtATime
    <3>3. QED
      BY <1>2, <3>1, <3>2, PipelineKept
  <2>3. QED
    BY <2>1, <2>2
<1>7. QED
  BY <1>1, <1>3, <1>4, <1>5, <1>6 DEF TickNext

LEMMA PipelineNode ==
  ASSUME Types, LinesInCalls, NEW t \in Task, InPipeline(t), active, NodeNext
  PROVE  InPipeline(t)' /\ log' = log
<1>0. "poller" \in Thread /\ "sampler" \in Thread /\ \A w \in Worker : w \in Thread
  BY NamedThreads
<1>1. log' = log
  BY DEF NodeNext, Admitted, Refused, Callback, Track, Finish, Poll, Observe, Sample, outVars
<1>2. SameLog(t)
  BY <1>1, LogUnchanged
<1>3. ASSUME NEW t2 \in Task, NEW n \in Node, NEW w \in Worker, Admitted(w, <<t2, n>>)
      PROVE  InPipeline(t)'
  <2>1. CASE t2 = t
    BY <1>3, <2>1, DispatchMoves
  <2>2. CASE t2 # t
    <3>1. Dispatched(t2, n).task # t
      BY <2>2, LineParts
    <3>2. ThreadsKeep(t)
      BY <1>0, <1>3, <3>1, ThreadTakesLine DEF Admitted
    <3>3. PlacesKeep(t)
      BY <1>3 DEF Admitted, PlacesKeep, clientVars, tickVars, InPipeline, OneAtATime
    <3>4. QED
      BY <1>2, <3>2, <3>3, PipelineKept
  <2>3. QED
    BY <2>1, <2>2
<1>4. ASSUME NEW t2 \in Task, NEW n \in Node, NEW w \in Worker, Refused(w, <<t2, n>>)
      PROVE  InPipeline(t)'
  <2>1. CASE t2 = t
    BY <1>4, <2>1, RefusalMoves
  <2>2. CASE t2 # t
    <3>1. Rejected(t2, n).task # t
      BY <2>2, LineParts
    <3>2. ThreadsKeep(t)
      BY <1>0, <1>4, <3>1, ThreadTakesLine DEF Refused
    <3>3. PlacesKeep(t)
      BY <1>4, <2>2 DEF Refused, PlacesKeep, clientVars, InPipeline, OneAtATime
    <3>4. QED
      BY <1>2, <3>2, <3>3, PipelineKept
  <2>3. QED
    BY <2>1, <2>2
<1>5. ASSUME NEW w \in Worker, Callback(w) PROVE InPipeline(t)'
  <2>1. pc[w] = "callback" /\ pc' = [pc EXCEPT ![w] = "update"] /\ line' = line
    BY <1>5 DEF Callback, Moves, Types, RecorderTypes
  <2>2. ThreadsKeep(t)
    BY <1>0, <2>1
       DEF Types, RecorderTypes, ThreadsKeep, InPipeline, NoRefusalTold, ToWrite
  <2>3. PlacesKeep(t)
    BY <1>5, PlacesUnchanged DEF Callback, clientVars, tickVars, nodeVars
  <2>4. QED
    BY <1>2, <2>2, <2>3, PipelineKept
<1>6. ASSUME NEW w \in Worker, Track(w) PROVE InPipeline(t)'
  <2>1. PICK t2 \in Task, n \in Node : line[w] = Dispatched(t2, n)
    BY <1>0, <1>6 DEF Track, Goes, Types, TracksDispatched
  <2>2. CASE t2 = t
    BY <1>6, <2>1, <2>2, TrackMoves
  <2>3. CASE t2 # t
    <3>1. NoLine.task # t
      BY SilentParts
    <3>2. ThreadsKeep(t)
      BY <1>0, <1>6, <3>1, ThreadTakesLine DEF Track, Goes, Moves
    <3>3. tracked' = tracked \cup {<<t2, n>>} /\ UNCHANGED <<sent, todo, queue, expired, plan, pool>>
      BY <1>6, <2>1, LineParts DEF Track, clientVars, tickVars
    <3>4. PlacesKeep(t)
      BY <2>3, <3>3 DEF PlacesKeep, InPipeline, OneAtATime
    <3>5. QED
      BY <1>2, <3>2, <3>4, PipelineKept
  <2>4. QED
    BY <2>2, <2>3
<1>7. ASSUME NEW t2 \in Task, NEW n \in Node, Finish(<<t2, n>>) PROVE InPipeline(t)'
  <2>1. ThreadsKeep(t)
    BY <1>7, ThreadsUnchanged DEF Finish
  <2>2. PlacesKeep(t)
    BY <1>7, PlacesUnchanged DEF Finish, clientVars, tickVars
  <2>3. QED
    BY <1>2, <2>1, <2>2, PipelineKept
<1>8. ASSUME NEW n \in Node, Poll(n) PROVE InPipeline(t)'
  <2>1. ThreadsKeep(t)
    BY <1>0, <1>8, ThreadWithoutLine DEF Poll, Goes, Moves
  <2>2. PlacesKeep(t)
    BY <1>8, PlacesUnchanged DEF Poll, clientVars, tickVars
  <2>3. QED
    BY <1>2, <2>1, <2>2, PipelineKept
<1>9. CASE Observe
  <2>1. /\ UNCHANGED <<log, sent, todo, queue, expired, plan, pool>>
        /\ pc["poller"] = "observe"
    BY <1>9 DEF Observe, outVars, clientVars, tickVars
  <2>2. CASE tracked' = tracked /\ line' = line /\ pc' = [pc EXCEPT !["poller"] = "idle"]
    <3>1. ThreadsKeep(t)
      BY <1>0, <2>1, <2>2, ThreadWithoutLine
    <3>2. QED
      BY <1>1, <1>2, <2>1, <2>2, <3>1, PlacesUnchanged, PipelineKept
  <2>3. ASSUME NEW a \in report, tracked' = tracked \ {a},
               IF a \in tracked THEN Call("poller", Completed(a[1], a[2])) ELSE UNCHANGED <<pc, line>>
        PROVE  InPipeline(t)'
    <3>1. PICK t2 \in Task, n \in Node : a = <<t2, n>>
      BY DEF Types, PipelineTypes
    <3>2. PlacesKeep(t)
      BY <2>1, <2>3 DEF PlacesKeep, InPipeline, OneAtATime
    <3>3. CASE a \notin tracked
      BY <1>2, <2>3, <3>2, <3>3, ThreadsUnchanged, PipelineKept
    <3>4. CASE a \in tracked
      <4>1. Call("poller", Completed(t2, n))
        BY <2>3, <3>1, <3>4
      <4>2. CASE t2 = t
        BY <2>1, <2>3, <3>1, <3>4, <4>1, <4>2, CompletionMoves
      <4>3. CASE t2 # t
        <5>1. Completed(t2, n).task # t
          BY <4>3, LineParts
        <5>2. ThreadsKeep(t)
          BY <1>0, <4>1, <5>1, ThreadTakesLine DEF Call
        <5>3. QED
          BY <1>2, <3>2, <5>2, PipelineKept
      <4>4. QED
        BY <4>2, <4>3
    <3>5. QED
      BY <3>3, <3>4
  <2>4. \/ tracked' = tracked /\ line' = line /\ pc' = [pc EXCEPT !["poller"] = "idle"]
        \/ \E a \in report :
             /\ tracked' = tracked \ {a}
             /\ IF a \in tracked THEN Call("poller", Completed(a[1], a[2]))
                                 ELSE UNCHANGED <<pc, line>>
    BY <1>9 DEF Observe, Moves
  <2>5. QED
    BY <1>1, <2>2, <2>3, <2>4
<1>10. CASE Sample
  <2>1. ThreadsKeep(t)
    BY <1>0, <1>10, SilentParts, ThreadTakesLine DEF Sample, Call
  <2>2. PlacesKeep(t)
    BY <1>10, PlacesUnchanged DEF Sample, clientVars, tickVars, nodeVars
  <2>3. QED
    BY <1>1, <1>2, <2>1, <2>2, PipelineKept
<1>11. QED
  BY <1>1, <1>3, <1>4, <1>5, <1>6, <1>7, <1>8, <1>9, <1>10 DEF NodeNext

\* A thread goes on in its call, on the same side of the write.
LEMMA ThreadGoesOn ==
  ASSUME Types, NEW t \in Task, InPipeline(t), NEW th \in Thread, NEW to, line' = line,
         pc' = [pc EXCEPT ![th] = to],
         line[th].task = t => /\ pc[th] \in {"flush", "track"} <=> to \in {"flush", "track"}
                              /\ line[th].type # "task_rejected"
  PROVE  ThreadsKeep(t)
<1>1. pc'[th] = to /\ \A u \in Thread \ {th} : pc'[u] = pc[u]
  BY DEF Types, RecorderTypes
<1>2. QED
  BY <1>1 DEF ThreadsKeep, InPipeline, NoRefusalTold, ToWrite

\* The calls, while the trial is active and its file open.
LEMMA PipelineCall ==
  ASSUME Types, LinesInCalls, NEW t \in Task, InPipeline(t), OneLife(t), active, file = "open",
         t \notin disorder', NEW th \in Thread, RecordStep(th)
  PROVE  InPipeline(t)' /\ OneLife(t)'
<1> USE DEF clientVars, tickVars, nodeVars, Moves
<1>1. CASE Update(th)
  <2>1. /\ pc[th] = "update" /\ pc' = [pc EXCEPT ![th] = "emit"] /\ line' = line /\ log' = log
        /\ line[th].task = t => line[th].type # "task_rejected"
    BY <1>1, RecorderAssumption DEF Update, Overtakes, outVars
  <2>2. ThreadsKeep(t)
    BY <2>1, ThreadGoesOn
  <2>3. PlacesKeep(t)
    BY <1>1, PlacesUnchanged DEF Update
  <2>4. SameLog(t)
    BY <2>1, LogUnchanged
  <2>5. QED
    BY <2>2, <2>3, <2>4, PipelineKept, ToldTheSame
<1>2. CASE Emit(th)
  <2>1. /\ pc[th] = "emit" /\ pc' = [pc EXCEPT ![th] = "write"] /\ line' = line /\ log' = log
        /\ line[th].task = t => line[th].type # "task_rejected"
    BY <1>2 DEF Emit, outVars, InPipeline, NoRefusalTold
  <2>2. ThreadsKeep(t)
    BY <2>1, ThreadGoesOn
  <2>3. PlacesKeep(t)
    BY <1>2, PlacesUnchanged DEF Emit
  <2>4. SameLog(t)
    BY <2>1, LogUnchanged
  <2>5. QED
    BY <2>2, <2>3, <2>4, PipelineKept, ToldTheSame
<1>3. CASE Write(th)
  <2>1. /\ pc[th] = "write" /\ pc' = [pc EXCEPT ![th] = "flush"] /\ line' = line
        /\ log' = IF line[th].task = Nothing THEN log ELSE Append(log, line[th])
        /\ UNCHANGED <<sent, todo, queue, expired, plan, pool, tracked>>
    BY <1>3 DEF Write
  <2>2. CASE line[th].task = t
    <3>1. Writing(th, t)
      BY <2>1, <2>2, RecorderAssumption DEF Writing, SameThreads, Types, RecorderTypes
    <3>2. line[th] \in TaskLine \cup SilentLine /\ line[th].type # "task_rejected"
      BY <3>1, WritingKeeps DEF Types, RecorderTypes
    <3>3. \/ line[th] = Submitted(t) \/ line[th] = Evicted(t)
          \/ \E n \in Node : line[th] \in {Dispatched(t, n), Completed(t, n)}
      BY <2>2, <3>2, LineIs, LineParts
    <3>4. QED
      BY <3>1, <3>3, SubmissionWritten, FirstWritten, CompletionWritten
  <2>3. CASE line[th].task # t
    <3>1. SameLog(t)
      BY <2>1, <2>3, OthersLine
    <3>2. ThreadsKeep(t)
      BY <2>1, <2>3, ThreadGoesOn
    <3>3. PlacesKeep(t)
      BY <2>1, PlacesUnchanged
    <3>4. QED
      BY <3>1, <3>2, <3>3, PipelineKept, ToldTheSame
  <2>4. QED
    BY <2>2, <2>3
<1>4. CASE Flush(th)
  <2>1. pc[th] = "flush" /\ Return(th) /\ log' = log
    BY <1>4 DEF Flush, outVars
  <2>2. PlacesKeep(t)
    BY <1>4, PlacesUnchanged DEF Flush
  <2>3. ThreadsKeep(t)
    <3>1. CASE line[th].type = "task_dispatched"
      BY <2>1, <3>1, ThreadGoesOn DEF Return, AfterCall
    <3>2. CASE line[th].type # "task_dispatched"
      BY <2>1, <3>2, SilentParts, ThreadTakesLine DEF Return
    <3>3. QED
      BY <3>1, <3>2
  <2>4. SameLog(t)
    BY <2>1, LogUnchanged
  <2>5. QED
    BY <2>2, <2>3, <2>4, PipelineKept, ToldTheSame
<1>5. QED
  BY <1>1, <1>2, <1>3, <1>4 DEF RecordStep

-----------------------------------------------------------------------------
\* The invariant of the lives

LEMMA CallStep ==
  ASSUME RecorderInv, CallInv, Next
  PROVE  CallInv'
<1>1. Types /\ ActivatedOnce /\ LinesInCalls /\ OpenInTrial /\ BatchInHand /\ QuietStart
  BY DEF RecorderInv, CallInv
<1>2. LinesInCalls'
  BY <1>1, LinesClient, LinesOthers, LinesCalls, NextSplit DEF OutsideNext
<1>3. OpenInTrial' /\ BatchInHand' /\ QuietStart'
  BY <1>1, OpenStep, BatchStep, QuietStep
<1>4. QED
  BY <1>2, <1>3 DEF CallInv

\* A clean trial starts with an empty pipeline and an empty log.
LEMMA StartMoves ==
  ASSUME Types, LinesInCalls, BatchInHand, NEW t \in Task, Start, clean'
  PROVE  InPipeline(t)' /\ OneLife(t)'
<1>1. /\ queue' = {} /\ expired' = {} /\ plan' = {} /\ pool' = {} /\ tracked' = {}
      /\ todo' = {} /\ sent' = {} /\ log' = <<>>
  BY DEF Start, Settled, Goes, BatchInHand, tickVars
<1>2. \A th \in Thread : line'[th].task # t
  <2>1. \A th \in Thread : pc[th] = "idle" /\ line'[th] = line[th]
    BY DEF Start, Settled, Goes
  <2>2. QED
    BY <2>1, RecorderAssumption DEF LinesInCalls
<1>3. Told(t)' = {} /\ ~SubmissionTold(t)' /\ ~InPool(t)' /\ ~IsTracked(t)'
  BY <1>1 DEF Told, SubmissionTold, InPool, IsTracked
<1>4. OneAtATime(t)' /\ ToldNothingYet(t)' /\ NoRefusalTold(t)'
  BY <1>1, <1>2, <1>3
     DEF OneAtATime, ToldNothingYet, NoRefusalTold, Carries, InPool, IsTracked
<1>5. ToldDispatchOnly(t)'
  BY <1>1, <1>2, LineParts DEF ToldDispatchOnly
<1>6. OneSubmission(t)'
  BY <1>1, <1>2, <1>3, LineParts DEF OneSubmission
<1>7. OneLife(t)'
  BY <1>1, <1>3 DEF OneLife
<1>8. QED
  BY <1>4, <1>5, <1>6, <1>7 DEF InPipeline

LEMMA ActivateMoves ==
  ASSUME Types, LinesInCalls, NEW t \in Task, InPipeline(t), Activate
  PROVE  InPipeline(t)' /\ log' = log
<1>1. ThreadsKeep(t)
  BY NamedThreads, SilentParts, ThreadTakesLine DEF Activate, Goes, Moves
<1>2. PlacesKeep(t)
  BY PlacesUnchanged DEF Activate, clientVars, tickVars, nodeVars
<1>3. log' = log
  BY DEF Activate, outVars
<1>4. QED
  BY <1>1, <1>2, <1>3, LogUnchanged, PipelineKept

\* What happens to the file, the ghosts and the log in a step that starts no trial.
LEMMA NoStart ==
  ASSUME Types, Next, ~Start
  PROVE  /\ clean' = clean /\ disorder \subseteq disorder'
         /\ file' = "open" => file = "open"
         /\ file # "open" => log' = log
         /\ file' # "open" => log' = log
<1>1. CASE TickNext \/ NodeNext
  <2>1. log' = log
    BY <1>1 DEF TickNext, Evict, EvictNext, Decide, Take, NodeNext, Admitted, Refused, Callback,
                Track, Finish, Poll, Observe, Sample, outVars
  <2>2. QED
    BY <1>1, <2>1, ClientUntouched
<1>2. ASSUME NEW th \in Thread, RecordStep(th)
      PROVE  /\ clean' = clean /\ disorder \subseteq disorder' /\ file' = file
             /\ file # "open" => log' = log
  <2>1. clean' = clean /\ file' = file
    BY <1>2, CallOfClient
  <2>2. disorder \subseteq disorder'
    BY <1>2 DEF RecordStep, Update, Emit, Write, Flush, Raise, Abandon, ghostVars
  <2>3. file # "open" => log' = log
    BY <1>2 DEF RecordStep, Update, Emit, Write, Flush, outVars
  <2>4. QED
    BY <2>1, <2>2, <2>3
<1>3. CASE ClientNext
  BY <1>3 DEF ClientNext, SubmitTask, SubmitBatch, End, Reset, ClientStep, BatchNext, Activate,
              AppendRow, Close, Forget, Deactivate, ClearQueue, ClearTracked, ResetNodes,
              trialVars, outVars, ghostVars
<1>4. QED
  BY <1>1, <1>2, <1>3, NextSplit DEF OutsideNext

LEMMA LivesStep ==
  ASSUME RecorderInv, CallInv, LivesInv, Next
  PROVE  LivesInv'
<1>1. Types /\ LinesInCalls /\ OpenInTrial /\ BatchInHand /\ QuietStart
  BY DEF RecorderInv, CallInv
<1>2. SUFFICES ASSUME clean', NEW t \in Task, t \notin disorder'
               PROVE  OneLife(t)' /\ (file' = "open" => InPipeline(t)')
  BY DEF LivesInv
<1>3. CASE Start
  BY <1>1, <1>2, <1>3, StartMoves
<1>4. CASE ~Start
  <2>1. /\ clean /\ t \notin disorder
        /\ file' = "open" => file = "open"
        /\ file # "open" \/ file' # "open" => log' = log
    BY <1>1, <1>2, <1>4, NoStart
  <2>2. OneLife(t) /\ (file = "open" => InPipeline(t))
    BY <2>1 DEF LivesInv
  <2>3. log' = log => OneLife(t)'
    BY <2>2, LogUnchanged, ToldTheSame
  <2>4. CASE file' # "open"
    BY <2>1, <2>3, <2>4
  <2>5. CASE file' = "open" /\ ~active
    <3>1. Activate
      BY <1>1, <2>1, <2>5, OnlyActivate
    <3>2. QED
      BY <1>1, <2>1, <2>2, <2>3, <2>5, <3>1, ActivateMoves
  <2>6. CASE file' = "open" /\ active
    <3>1. file = "open" /\ InPipeline(t)
      BY <2>1, <2>2, <2>6
    <3>2. CASE ClientNext
      BY <1>1, <2>3, <2>6, <3>1, <3>2, PipelineClient
    <3>3. CASE TickNext
      BY <1>1, <2>3, <3>1, <3>3, PipelineTick
    <3>4. CASE NodeNext
      BY <1>1, <2>3, <2>6, <3>1, <3>4, PipelineNode
    <3>5. ASSUME NEW th \in Thread, RecordStep(th)
          PROVE  InPipeline(t)' /\ OneLife(t)'
      BY <1>1, <1>2, <2>2, <2>6, <3>1, <3>5, PipelineCall
    <3>6. QED
      BY <3>2, <3>3, <3>4, <3>5, NextSplit DEF OutsideNext
  <2>7. QED
    BY <2>4, <2>5, <2>6
<1>5. QED
  BY <1>3, <1>4

LEMMA LifeStep == LifeInv /\ [Next]_vars => LifeInv'
<1> SUFFICES ASSUME LifeInv, [Next]_vars PROVE LifeInv'
  OBVIOUS
<1>1. RecorderInv'
  BY RecorderStep DEF LifeInv
<1>2. CASE Next
  BY <1>1, <1>2, CallStep, LivesStep DEF LifeInv
<1>3. CASE UNCHANGED vars
  <2>1. UNCHANGED <<active, file, log, pc, line, sent, todo, queue, expired, plan, pool, edge,
                    tracked, disorder, clean>>
    BY <1>3 DEF vars, trialVars, outVars, clientVars, tickVars, nodeVars, ghostVars
  <2>2. CallInv'
    BY <2>1 DEF LifeInv, CallInv, LinesInCalls, OpenInTrial, BatchInHand, QuietStart
  <2>3. ASSUME NEW t \in Task, InPipeline(t) PROVE InPipeline(t)'
    BY <2>1, <2>3, LogUnchanged, ThreadsUnchanged, PlacesUnchanged, PipelineKept
  <2>4. ASSUME NEW t \in Task, OneLife(t) PROVE OneLife(t)'
    BY <2>1, <2>4, LogUnchanged, ToldTheSame
  <2>5. LivesInv'
    BY <2>1, <2>3, <2>4 DEF LifeInv, LivesInv
  <2>6. QED
    BY <1>1, <2>2, <2>5 DEF LifeInv
<1>4. QED
  BY <1>2, <1>3

LEMMA LifeInit == Init => LifeInv
<1> SUFFICES ASSUME Init PROVE LifeInv
  OBVIOUS
<1>1. RecorderInv
  BY RecorderInit
<1>2. CallInv
  BY NamedThreads, LineParts
     DEF Init, CallInv, LinesInCalls, OpenInTrial, BatchInHand, QuietStart
<1>3. LivesInv
  BY DEF Init, LivesInv, OneLife, Told
<1>4. QED
  BY <1>1, <1>2, <1>3 DEF LifeInv

LEMMA LivesInOrder == LifeInv => Lifecycle
BY DEF LifeInv, LivesInv, Lifecycle, InOrder

\* Whatever the threads do in whichever order, the log of a trial that started with
\* the pipeline at rest tells one life of every task whose calls did not overtake
\* each other: nothing twice, no completion without its dispatch or before it.
THEOREM OneLifeEach == Spec => []Lifecycle
BY LifeInit, LifeStep, LivesInOrder, PTL DEF Spec

-----------------------------------------------------------------------------
\* What a replay computes, by induction over the lines

\* The records after i lines, from those after i - 1.
RecordsAt(f, h, i) ==
  IF i = 0 THEN [t \in Task |-> NoRecord]
  ELSE [t \in Task |->
         IF h[i].task = t THEN Absorb(f[i - 1][t], h[i], i) ELSE f[i - 1][t]]

Records(f, h, n) == f = [i \in 0..n |-> RecordsAt(f, h, i)]

LEMMA RecordsExist == ASSUME NEW h, NEW n \in Nat PROVE \E f : Records(f, h, n)
<1> DEFINE S == {m \in Nat : ~\E f : Records(f, h, m)}
<1>1. SUFFICES ASSUME S # {} PROVE FALSE
  OBVIOUS
<1>2. PICK m \in S : \A k \in S : ~(k < m)
  BY <1>1, LeastMember
<1>3. m \in Nat /\ ~\E f : Records(f, h, m)
  BY <1>2
<1>4. CASE m = 0
  <2> DEFINE f == [i \in 0..0 |-> [t \in Task |-> NoRecord]]
  <2>1. Records(f, h, 0)
    BY DEF Records, RecordsAt
  <2>2. QED
    BY <1>3, <1>4, <2>1
<1>5. CASE m # 0
  <2>1. m - 1 \in Nat /\ m - 1 < m
    BY <1>3, <1>5
  <2>2. PICK g : Records(g, h, m - 1)
    BY <1>2, <2>1
  <2> DEFINE f == [i \in 0..m |-> IF i = m THEN RecordsAt(g, h, m) ELSE g[i]]
  <2>3. \A i \in 0..m - 1 : f[i] = g[i] /\ g[i] = RecordsAt(g, h, i)
    BY <1>3, <2>1, <2>2 DEF Records
  <2>4. \A i \in 0..m : i # 0 => i - 1 \in 0..m - 1
    BY <1>3
  <2>5. \A i \in 0..m : RecordsAt(g, h, i) = RecordsAt(f, h, i)
    <3> HIDE DEF f
    <3>1. QED
      BY <2>3, <2>4 DEF RecordsAt
  <2>6. \A i \in 0..m : i # m => i \in 0..m - 1
    BY <1>3
  <2>7. \A i \in 0..m : f[i] = RecordsAt(f, h, i)
    <3>1. \A i \in 0..m : f[i] = RecordsAt(g, h, i)
      <4>1. f[m] = RecordsAt(g, h, m)
        BY <1>3
      <4>2. QED
        BY <2>3, <2>6, <4>1
    <3> HIDE DEF f
    <3>2. QED
      BY <2>5, <3>1
  <2>8. Records(f, h, m)
    <3>1. f = [i \in 0..m |-> f[i]]
      OBVIOUS
    <3> HIDE DEF f
    <3>2. QED
      BY <2>7, <3>1 DEF Records
  <2>9. QED
    BY <1>3, <2>8
<1>6. QED
  BY <1>4, <1>5

\* They are the same for a log and for a longer one.
LEMMA RecordsAgree ==
  ASSUME NEW h, NEW hh, NEW n \in Nat, NEW m \in Nat, n <= m, \A i \in 1..n : h[i] = hh[i],
         NEW f, NEW g, Records(f, h, n), Records(g, hh, m)
  PROVE  \A i \in 0..n : f[i] = g[i]
<1> DEFINE S == {i \in 0..n : f[i] # g[i]}
<1>1. SUFFICES ASSUME S # {} PROVE FALSE
  OBVIOUS
<1>2. PICK i \in S : \A k \in S : ~(k < i)
  <2>1. S \in SUBSET Nat
    OBVIOUS
  <2> HIDE DEF S
  <2>2. QED
    BY <1>1, <2>1, LeastMember
<1>3. i \in 0..n /\ f[i] # g[i]
  BY <1>2
<1>4. f[i] = RecordsAt(f, h, i) /\ g[i] = RecordsAt(g, hh, i)
  <2>1. i \in 0..n /\ i \in 0..m
    BY <1>3
  <2>2. f[i] = RecordsAt(f, h, i)
    BY <2>1 DEF Records
  <2>3. g[i] = RecordsAt(g, hh, i)
    BY <2>1 DEF Records
  <2>4. QED
    BY <2>2, <2>3
<1>5. CASE i = 0
  BY <1>3, <1>4, <1>5 DEF RecordsAt
<1>6. CASE i # 0
  <2>1. i - 1 \in 0..n /\ i - 1 < i /\ i \in 1..n
    BY <1>3, <1>6
  <2>2. f[i - 1] = g[i - 1] /\ h[i] = hh[i]
    BY <1>2, <2>1
  <2>3. RecordsAt(f, h, i) = RecordsAt(g, hh, i)
    BY <1>6, <2>2 DEF RecordsAt
  <2>4. QED
    BY <1>3, <1>4, <2>3
<1>7. QED
  BY <1>5, <1>6

LEMMA ReplayIs ==
  ASSUME NEW h, Len(h) \in Nat
  PROVE  \E f : Records(f, h, Len(h)) /\ Replay(h) = f[Len(h)]
<1>1. Replay(h) = (CHOOSE f : Records(f, h, Len(h)))[Len(h)]
  BY DEF Replay, Records, RecordsAt
<1>2. \E f : Records(f, h, Len(h))
  BY RecordsExist
<1>3. QED
  BY <1>1, <1>2

LEMMA ReplayNothing == Replay(<<>>) = [t \in Task |-> NoRecord]
<1>1. PICK f : Records(f, <<>>, 0) /\ Replay(<<>>) = f[0]
  BY ReplayIs
<1>2. QED
  BY <1>1 DEF Records, RecordsAt

\* The replay of one more line.
LEMMA ReplayAppend ==
  ASSUME NEW h \in Seq(TaskLine), NEW l \in TaskLine, NEW t \in Task
  PROVE  Replay(Append(h, l))[t] =
           IF l.task = t THEN Absorb(Replay(h)[t], l, Len(h) + 1) ELSE Replay(h)[t]
<1> DEFINE hh == Append(h, l)
           n == Len(h)
<1>1. n \in Nat /\ Len(hh) = n + 1 /\ hh[n + 1] = l /\ \A i \in 1..n : h[i] = hh[i]
  OBVIOUS
<1>2. PICK f : Records(f, h, n) /\ Replay(h) = f[n]
  BY <1>1, ReplayIs
<1>3. PICK g : Records(g, hh, n + 1) /\ Replay(hh) = g[n + 1]
  <2>1. Len(hh) \in Nat
    BY <1>1
  <2> HIDE DEF hh
  <2>2. PICK g : Records(g, hh, Len(hh)) /\ Replay(hh) = g[Len(hh)]
    BY <2>1, ReplayIs
  <2>3. QED
    BY <1>1, <2>2
<1> HIDE DEF n, hh
<1>4. f[n] = g[n]
  BY <1>1, <1>2, <1>3, RecordsAgree
<1>5. g[n + 1] = RecordsAt(g, hh, n + 1)
  BY <1>1, <1>3 DEF Records
<1>6. g[n + 1][t] = IF l.task = t THEN Absorb(g[n][t], l, n + 1) ELSE g[n][t]
  <2>1. (n + 1) - 1 = n /\ n + 1 # 0
    BY <1>1
  <2>2. QED
    BY <1>1, <1>5, <2>1 DEF RecordsAt
<1>7. QED
  BY <1>2, <1>3, <1>4, <1>6 DEF n, hh

-----------------------------------------------------------------------------
\* What the lines about a task say of it

LogLines(t) == {l \in {log[i] : i \in 1..Len(log)} : l.task = t}

\* The record of a task that the lines tell, in whichever order.
Says(rec, lines, t) ==
  /\ \A n \in Node : Completed(t, n) \in lines => rec.status = "completed" /\ rec.node = n
  /\ \A n \in Node :
       Dispatched(t, n) \in lines /\ (\A m \in Node : Completed(t, m) \notin lines)
         => rec.status = "dispatched" /\ rec.node = n
  /\ Evicted(t) \in lines => rec.status = "rejected" /\ rec.node = Nothing
  /\ lines = {Submitted(t)} => rec.status = "pending" /\ rec.node = Nothing
  /\ lines = {} => rec = NoRecord

\* A submission of the task is still to be recorded: there is no record unless another
\* call about the task has overtaken it.
ToSubmit(t) ==
  \/ t \notin sent \/ t \in todo
  \/ \E th \in Thread : line[th] = Submitted(t) /\ pc[th] \notin {"emit", "write", "flush"}

SubmittedFirst(t) == ToSubmit(t) => record[t] = NoRecord

ReplayTyped == \A t \in Task : Replay(log)[t] \in TaskRecord

\* The replay is what the log says; the record is what the log and the lines about
\* to be written say.
ReplaySays(t) == Says(Replay(log)[t], LogLines(t), t)
RecordSays(t) == Says(record[t], LinesOf(t), t) /\ SubmittedFirst(t)

ReplayInv ==
  clean => \A t \in Task \ disorder : ReplaySays(t) /\ (file = "open" => RecordSays(t))

\* Lines of different kinds are different.
LEMMA KindsDiffer ==
  ASSUME NEW t, NEW n, NEW m
  PROVE  /\ Submitted(t) # Evicted(t) /\ Submitted(t) # Dispatched(t, n)
         /\ Submitted(t) # Completed(t, n) /\ Evicted(t) # Dispatched(t, n)
         /\ Evicted(t) # Completed(t, n) /\ Dispatched(t, n) # Completed(t, m)
         /\ Dispatched(t, n) = Dispatched(t, m) => n = m
         /\ Completed(t, n) = Completed(t, m) => n = m
BY LineParts

\* What each kind of line is absorbed into.
LEMMA AbsorbFields ==
  ASSUME NEW rec \in TaskRecord, NEW i \in Nat, NEW t \in Task, NEW n \in Node
  PROVE  /\ /\ Absorb(rec, Submitted(t), i).status = IF rec.status = Nothing THEN "pending" ELSE rec.status
            /\ Absorb(rec, Submitted(t), i).node = rec.node
            /\ Absorb(rec, Submitted(t), i) \in TaskRecord
         /\ /\ Absorb(rec, Evicted(t), i).status = "rejected"
            /\ Absorb(rec, Evicted(t), i).node = rec.node
            /\ Absorb(rec, Evicted(t), i) \in TaskRecord
         /\ /\ Absorb(rec, Dispatched(t, n), i).status = "dispatched"
            /\ Absorb(rec, Dispatched(t, n), i).node = n
            /\ Absorb(rec, Dispatched(t, n), i) \in TaskRecord
         /\ /\ Absorb(rec, Completed(t, n), i).status = "completed"
            /\ Absorb(rec, Completed(t, n), i).node = IF rec.node = Nothing THEN n ELSE rec.node
            /\ Absorb(rec, Completed(t, n), i) \in TaskRecord
         /\ Absorb(rec, Rejected(t, n), i) \in TaskRecord
<1>1. Absorb(rec, Submitted(t), i) = AbsorbSubmitted(rec)
  BY LineParts DEF Absorb
<1>2. Absorb(rec, Evicted(t), i) = AbsorbRejected(rec, Nothing)
  BY LineParts DEF Absorb, Evicted, Line, Noted
<1>3. Absorb(rec, Dispatched(t, n), i) = AbsorbDispatched(rec, n, i)
  BY LineParts DEF Absorb
<1>4. Absorb(rec, Completed(t, n), i) = AbsorbCompleted(rec, n)
  BY LineParts DEF Absorb
<1>5. Absorb(rec, Rejected(t, n), i) = AbsorbRejected(rec, n)
  BY LineParts DEF Absorb, Rejected, Line, Noted
<1>6. /\ AbsorbSubmitted(rec) \in TaskRecord /\ AbsorbSubmitted(rec).node = rec.node
      /\ AbsorbSubmitted(rec).status = IF rec.status = Nothing THEN "pending" ELSE rec.status
  BY DEF AbsorbSubmitted, TaskRecord
<1>7. /\ AbsorbRejected(rec, Nothing) \in TaskRecord /\ AbsorbRejected(rec, Nothing).node = rec.node
      /\ AbsorbRejected(rec, Nothing).status = "rejected" /\ AbsorbRejected(rec, n) \in TaskRecord
  BY DEF AbsorbRejected, TaskRecord
<1>8. /\ AbsorbDispatched(rec, n, i) \in TaskRecord /\ AbsorbDispatched(rec, n, i).node = n
      /\ AbsorbDispatched(rec, n, i).status = "dispatched"
  BY DEF AbsorbDispatched, TaskRecord
<1>9. /\ AbsorbCompleted(rec, n) \in TaskRecord
      /\ AbsorbCompleted(rec, n).node = IF rec.node = Nothing THEN n ELSE rec.node
      /\ AbsorbCompleted(rec, n).status = "completed"
  BY DEF AbsorbCompleted, TaskRecord
<1>10. QED
  BY <1>1, <1>2, <1>3, <1>4, <1>5, <1>6, <1>7, <1>8, <1>9

\* A submission is told once, before or after the other lines.
LEMMA SubmissionSays ==
  ASSUME NEW rec \in TaskRecord, NEW new, NEW lines, NEW t \in Task, Says(rec, lines, t),
         \A l \in lines : l = Evicted(t) \/ \E n \in Node : l \in {Dispatched(t, n), Completed(t, n)},
         new.status = IF rec.status = Nothing THEN "pending" ELSE rec.status,
         new.node = rec.node
  PROVE  Says(new, lines \cup {Submitted(t)}, t)
<1>1. NoRecord.status = Nothing /\ NoRecord.node = Nothing
  BY DEF NoRecord
<1>2. "pending" # Nothing /\ "rejected" # Nothing /\ "dispatched" # Nothing /\ "completed" # Nothing
  BY RecorderAssumption
<1>3. QED
  BY <1>1, <1>2, KindsDiffer DEF Says

\* An eviction or a dispatch is told after at most the submission.
LEMMA EvictionSays ==
  ASSUME NEW rec, NEW new, NEW lines, NEW t \in Task, Says(rec, lines, t),
         lines \subseteq {Submitted(t)}, new.status = "rejected", new.node = rec.node
  PROVE  Says(new, lines \cup {Evicted(t)}, t)
<1>1. rec.node = Nothing
  <2>1. lines = {} \/ lines = {Submitted(t)}
    OBVIOUS
  <2>2. QED
    BY <2>1 DEF Says, NoRecord
<1>2. QED
  BY <1>1, KindsDiffer DEF Says

LEMMA DispatchSays ==
  ASSUME NEW new, NEW lines, NEW t \in Task, NEW n \in Node,
         lines \subseteq {Submitted(t)}, new.status = "dispatched", new.node = n
  PROVE  Says(new, lines \cup {Dispatched(t, n)}, t)
BY KindsDiffer DEF Says

\* A completion is told after the dispatch.
LEMMA CompletionSays ==
  ASSUME NEW rec, NEW new, NEW lines, NEW t \in Task, NEW n \in Node, Says(rec, lines, t),
         lines \subseteq {Submitted(t), Dispatched(t, n)}, Dispatched(t, n) \in lines,
         new.status = "completed", new.node = IF rec.node = Nothing THEN n ELSE rec.node
  PROVE  Says(new, lines \cup {Completed(t, n)}, t)
<1>1. rec.node = n
  BY KindsDiffer DEF Says
<1>2. QED
  BY <1>1, KindsDiffer DEF Says

\* The lines of the log about a task, and those about to be written.
LEMMA LogLinesAre ==
  ASSUME Types, NEW t \in Task
  PROVE  /\ LogLines(t) = {log[i] : i \in Told(t)}
                            \cup (IF SubmissionTold(t) THEN {Submitted(t)} ELSE {})
         /\ \A l \in LogLines(t) : l \in TaskLine /\ l.task = t
         /\ LogLines(t) \subseteq LinesOf(t)
<1>1. \A i \in 1..Len(log) : log[i] \in TaskLine
  BY DEF Types, RecorderTypes
<1>2. \A i \in 1..Len(log) : log[i].task = t /\ log[i].type = "task_submitted"
                               => log[i] = Submitted(t)
  BY <1>1, LineIs, LineParts
<1>3. QED
  BY <1>1, <1>2, LineParts DEF LogLines, LinesOf, Told, SubmissionTold

\* While nothing but the submission is told of a task that a thread carries to be
\* recorded, there is no other line about it.
LEMMA CarriedLines ==
  ASSUME Types, NEW t \in Task, InPipeline(t), NEW th \in Thread, pc[th] = "update",
         Carries(th, t)
  PROVE  LinesOf(t) \subseteq {log[i] : i \in Told(t)} \cup {Submitted(t)}
<1>1. ASSUME NEW u \in Thread, pc[u] \in {"emit", "write"}, line[u].task = t
      PROVE  line[u] = Submitted(t)
  <2>1. u # th /\ ~Carries(u, t)
    BY <1>1 DEF InPipeline, OneAtATime
  <2>2. line[u].type = "task_submitted"
    BY <1>1, <2>1 DEF Carries, InPipeline, NoRefusalTold
  <2>3. line[u] \in TaskLine \cup SilentLine
    BY DEF Types, RecorderTypes
  <2>4. QED
    BY <1>1, <2>2, <2>3, LineIs, LineParts
<1>2. LinesOf(t) = LogLines(t)
                     \cup {line[u] : u \in {v \in Thread : pc[v] \in {"emit", "write"} /\ line[v].task = t}}
  BY DEF LinesOf, LogLines
<1>3. QED
  BY <1>1, <1>2, LogLinesAre

\* The lines about a task whose calls do not overtake each other.
LEMMA OrderedKinds ==
  ASSUME Types, NEW t \in Task, OneLife(t), NEW l \in LogLines(t)
  PROVE  l \in {Submitted(t), Evicted(t)} \/ \E n \in Node : l \in {Dispatched(t, n), Completed(t, n)}
BY LogLinesAre DEF OneLife, Ends

-----------------------------------------------------------------------------
\* A line is written: the replay

LEMMA ReplayWritten ==
  ASSUME Types, ReplayTyped, NEW th \in Thread, NEW t \in Task, Writing(th, t)
  PROVE  /\ line[th] \in TaskLine /\ line[th].task = t /\ Len(log) + 1 \in Nat
         /\ Replay(log')[t] = Absorb(Replay(log)[t], line[th], Len(log) + 1)
         /\ Replay(log)[t] \in TaskRecord
         /\ LogLines(t)' = LogLines(t) \cup {line[th]}
<1>1. line[th] \in TaskLine /\ line[th].task = t /\ log' = Append(log, line[th]) /\ log \in Seq(TaskLine)
  BY AboutTask, RecorderAssumption DEF Writing, Types, RecorderTypes
<1>2. Replay(log')[t] = Absorb(Replay(log)[t], line[th], Len(log) + 1)
  BY <1>1, ReplayAppend
<1>3. LogLines(t)' = LogLines(t) \cup {line[th]}
  BY <1>1, LineAppended DEF LogLines
<1>4. QED
  BY <1>1, <1>2, <1>3 DEF ReplayTyped

LEMMA ReplaySaysWritten ==
  ASSUME Types, ReplayTyped, NEW th \in Thread, NEW t \in Task, InPipeline(t), OneLife(t),
         Writing(th, t), ReplaySays(t)
  PROVE  ReplaySays(t)'
<1>1. /\ line[th].task = t /\ Len(log) + 1 \in Nat
      /\ Replay(log')[t] = Absorb(Replay(log)[t], line[th], Len(log) + 1)
      /\ Replay(log)[t] \in TaskRecord
      /\ LogLines(t)' = LogLines(t) \cup {line[th]}
  BY ReplayWritten
<1>2. PICK rec, new, i :
        /\ rec = Replay(log)[t] /\ rec \in TaskRecord /\ new = Replay(log')[t]
        /\ new = Absorb(rec, line[th], i) /\ i \in Nat
  <2>1. PICK i : i = Len(log) + 1
    OBVIOUS
  <2>2. QED
    BY <1>1, <2>1
<1>3. PICK lines : lines = LogLines(t)
  OBVIOUS
<1>4. SUFFICES Says(new, lines \cup {line[th]}, t)
  BY <1>1, <1>2, <1>3 DEF ReplaySays
<1>5. Says(rec, lines, t)
  BY <1>2, <1>3 DEF ReplaySays
<1>6. CASE line[th] = Submitted(t)
  <2>1. \A l \in lines : l = Evicted(t) \/ \E n \in Node : l \in {Dispatched(t, n), Completed(t, n)}
    <3>1. ~SubmissionTold(t)
      BY <1>6 DEF Writing, InPipeline, OneSubmission, ToWrite
    <3>2. Submitted(t) \notin lines
      BY <1>3, <3>1 DEF LogLines, SubmissionTold
    <3>3. QED
      BY <1>3, <3>2, OrderedKinds
  <2>2. new.status = (IF rec.status = Nothing THEN "pending" ELSE rec.status) /\ new.node = rec.node
    <3>1. new = Absorb(rec, Submitted(t), i)
      BY <1>2, <1>6
    <3>2. new = AbsorbSubmitted(rec)
      BY <3>1, LineParts DEF Absorb
    <3>3. QED
      BY <1>2, <3>2 DEF AbsorbSubmitted, TaskRecord
  <2>3. QED
    BY <1>2, <1>5, <1>6, <2>1, <2>2, SubmissionSays
<1>7. ASSUME line[th].type \in {"task_evicted", "task_dispatched"} PROVE lines \subseteq {Submitted(t)}
  <2>1. Told(t) = {}
    BY <1>7, WriterCarries DEF InPipeline, ToldNothingYet
  <2>2. QED
    BY <1>3, <2>1, LogLinesAre
<1>8. CASE line[th] = Evicted(t)
  <2>1. lines \subseteq {Submitted(t)}
    BY <1>7, <1>8, LineParts
  <2>2. new.status = "rejected" /\ new.node = rec.node
    <3>1. new = Absorb(rec, Evicted(t), i)
      BY <1>2, <1>8
    <3>2. new = AbsorbRejected(rec, Nothing)
      BY <3>1, LineParts DEF Absorb, Evicted, Line, Noted
    <3>3. QED
      BY <1>2, <3>2 DEF AbsorbRejected, TaskRecord
  <2>3. QED
    BY <1>5, <1>8, <2>1, <2>2, EvictionSays
<1>9. ASSUME NEW n \in Node, line[th] = Dispatched(t, n) PROVE Says(new, lines \cup {line[th]}, t)
  <2>1. lines \subseteq {Submitted(t)}
    BY <1>7, <1>9, LineParts
  <2>2. new.status = "dispatched" /\ new.node = n
    <3>1. new = Absorb(rec, Dispatched(t, n), i) /\ rec \in TaskRecord /\ i \in Nat
      BY <1>2, <1>9
    <3>2. QED
      BY <3>1, AbsorbFields
  <2>3. QED
    BY <1>9, <2>1, <2>2, DispatchSays
<1>10. ASSUME NEW n \in Node, line[th] = Completed(t, n) PROVE Says(new, lines \cup {line[th]}, t)
  <2>1. \E j \in Told(t) : Told(t) = {j} /\ log[j] = Dispatched(t, n)
    <3>1. line[th].type # "task_submitted"
      BY <1>10, LineParts
    <3>2. ToWrite(th)
      BY <3>1, WriterCarries
    <3>3. QED
      BY <1>10, <3>2 DEF InPipeline, ToldDispatchOnly
  <2>2. lines \subseteq {Submitted(t), Dispatched(t, n)} /\ Dispatched(t, n) \in lines
    BY <1>3, <2>1, LogLinesAre
  <2>3. new.status = "completed" /\ new.node = IF rec.node = Nothing THEN n ELSE rec.node
    <3>1. new = Absorb(rec, Completed(t, n), i) /\ rec \in TaskRecord /\ i \in Nat
      BY <1>2, <1>10
    <3>2. QED
      BY <3>1, AbsorbFields
  <2>4. QED
    BY <1>5, <1>10, <2>2, <2>3, CompletionSays
<1>11. \/ line[th] = Submitted(t) \/ line[th] = Evicted(t)
       \/ \E n \in Node : line[th] \in {Dispatched(t, n), Completed(t, n)}
  <2>1. line[th] \in TaskLine \cup SilentLine /\ line[th].type # "task_rejected"
    BY WritingKeeps DEF Types, RecorderTypes
  <2>2. QED
    BY <1>1, <2>1, LineIs, LineParts
<1>12. QED
  BY <1>6, <1>8, <1>9, <1>10, <1>11

LEMMA ReplayTypedStep ==
  ASSUME Types, ReplayTyped, NEW l \in TaskLine, log' = Append(log, l)
  PROVE  ReplayTyped'
<1>1. log \in Seq(TaskLine) /\ Len(log) + 1 \in Nat
  BY DEF Types, RecorderTypes
<1>2. SUFFICES ASSUME NEW t \in Task PROVE Replay(log')[t] \in TaskRecord
  BY DEF ReplayTyped
<1>3. Replay(log')[t] = IF l.task = t THEN Absorb(Replay(log)[t], l, Len(log) + 1) ELSE Replay(log)[t]
  BY <1>1, ReplayAppend
<1>4. PICK rec \in TaskRecord, i \in Nat : rec = Replay(log)[t] /\ i = Len(log) + 1
  BY <1>1 DEF ReplayTyped
<1>5. CASE l.task # t
  BY <1>3, <1>4, <1>5
<1>6. CASE l.task = t
  <2>1. \/ l = Submitted(t) \/ l = Evicted(t)
        \/ \E n \in Node : l \in {Dispatched(t, n), Rejected(t, n), Completed(t, n)}
    BY <1>6, LineIs
  <2>2. Absorb(rec, l, i) \in TaskRecord
    <3>1. CASE l = Submitted(t)
      BY <1>4, <3>1, LineParts DEF Absorb, AbsorbSubmitted, TaskRecord
    <3>2. CASE l = Evicted(t)
      BY <1>4, <3>2, LineParts DEF Absorb, AbsorbRejected, TaskRecord, Evicted, Line, Noted
    <3>3. CASE \E n \in Node : l \in {Dispatched(t, n), Rejected(t, n), Completed(t, n)}
      BY <3>3, AbsorbFields
    <3>4. QED
      BY <2>1, <3>1, <3>2, <3>3
  <2>3. QED
    BY <1>3, <1>4, <1>6, <2>2
<1>7. QED
  BY <1>5, <1>6

-----------------------------------------------------------------------------
\* A call updates the record: the lines about to be written say what it says

LEMMA LineKinds ==
  ASSUME Types, NEW t \in Task, InPipeline(t), OneLife(t), NEW l \in LinesOf(t)
  PROVE  l \in {Submitted(t), Evicted(t)} \/ \E n \in Node : l \in {Dispatched(t, n), Completed(t, n)}
<1>1. CASE l \in LogLines(t)
  BY <1>1, OrderedKinds
<1>2. CASE l \notin LogLines(t)
  <2>1. PICK u \in Thread : pc[u] \in {"emit", "write"} /\ line[u].task = t /\ l = line[u]
    BY <1>2 DEF LinesOf, LogLines
  <2>2. l \in TaskLine \cup SilentLine /\ l.type # "task_rejected" /\ l.task = t
    BY <2>1 DEF Types, RecorderTypes, InPipeline, NoRefusalTold
  <2>3. QED
    BY <2>2, LineIs, LineParts
<1>3. QED
  BY <1>1, <1>2

\* What a call makes of the record it finds.
LEMMA RecordedIs ==
  ASSUME NEW rec \in TaskRecord, NEW t \in Task
  PROVE  /\ rec = NoRecord => /\ Recorded(rec, Submitted(t)).status = "pending"
                              /\ Recorded(rec, Submitted(t)).node = Nothing
         /\ rec # NoRecord => /\ Recorded(rec, Evicted(t)).status = "rejected"
                              /\ Recorded(rec, Evicted(t)).node = rec.node
         /\ \A n \in Node :
              /\ Recorded(rec, Dispatched(t, n)).status = "dispatched"
              /\ Recorded(rec, Dispatched(t, n)).node = n
              /\ rec # NoRecord =>
                   /\ Recorded(rec, Completed(t, n)).status = "completed"
                   /\ Recorded(rec, Completed(t, n)).node = IF rec.node = Nothing THEN n ELSE rec.node
<1>1. Recorded(rec, Submitted(t)) = [NoRecord EXCEPT !.status = "pending", !.known = TRUE]
  BY LineParts DEF Recorded
<1>2. rec # NoRecord => Recorded(rec, Evicted(t)) = AbsorbRejected(rec, Nothing)
  BY LineParts DEF Recorded, Absorb, Evicted, Line, Noted
<1>3. ASSUME NEW n \in Node
      PROVE  /\ Recorded(rec, Dispatched(t, n)).status = "dispatched"
             /\ Recorded(rec, Dispatched(t, n)).node = n
             /\ rec # NoRecord =>
                  /\ Recorded(rec, Completed(t, n)).status = "completed"
                  /\ Recorded(rec, Completed(t, n)).node = IF rec.node = Nothing THEN n ELSE rec.node
  <2>1. Recorded(rec, Dispatched(t, n)) = [AbsorbDispatched(rec, n, 0) EXCEPT !.known = TRUE]
    <3>1. PICK l : l = Dispatched(t, n)
      OBVIOUS
    <3>2. l.type = "task_dispatched" /\ l.node = n
      BY <3>1, LineParts
    <3>3. Recorded(rec, l) = [AbsorbDispatched(rec, l.node, 0) EXCEPT !.known = TRUE]
      BY <3>2 DEF Recorded
    <3>4. QED
      BY <3>1, <3>2, <3>3
  <2>2. rec # NoRecord => Recorded(rec, Completed(t, n)) = AbsorbCompleted(rec, n)
    BY LineParts DEF Recorded, Absorb
  <2>3. QED
    BY <2>1, <2>2 DEF AbsorbDispatched, AbsorbCompleted, TaskRecord
<1>4. QED
  BY <1>1, <1>2, <1>3 DEF NoRecord, AbsorbRejected, TaskRecord

\* A task without a record has no line.
LEMMA NothingSaid ==
  ASSUME Types, NEW t \in Task, InPipeline(t), OneLife(t), Says(record[t], LinesOf(t), t),
         record[t] = NoRecord
  PROVE  LinesOf(t) = {}
<1>1. record[t].status = Nothing
  BY DEF NoRecord
<1>2. "pending" # Nothing /\ "rejected" # Nothing /\ "dispatched" # Nothing /\ "completed" # Nothing
  BY RecorderAssumption
<1>3. PICK lines : lines = LinesOf(t)
  OBVIOUS
<1>4. \A l \in lines : l = Submitted(t)
  BY <1>1, <1>2, <1>3, LineKinds DEF Says
<1>5. QED
  BY <1>1, <1>2, <1>3, <1>4 DEF Says

\* A call about the task makes a record of it.
Updating(th, t) ==
  /\ pc[th] = "update" /\ line[th].task = t
  /\ record'[t] = Recorded(record[t], line[th])
  /\ LinesOf(t)' = LinesOf(t) \cup {line[th]}
  /\ line[th].type # "task_submitted" => line[th].type # "task_rejected" /\ record[t] # NoRecord

LEMMA RecordSaysUpdated ==
  ASSUME Types, NEW th \in Thread, NEW t \in Task, InPipeline(t), OneLife(t), Updating(th, t),
         SubmittedFirst(t), Says(record[t], LinesOf(t), t)
  PROVE  Says(record'[t], LinesOf(t)', t)
<1>1. PICK rec, new, lines :
        /\ rec = record[t] /\ new = record'[t] /\ lines = LinesOf(t)
        /\ new = Recorded(rec, line[th]) /\ LinesOf(t)' = lines \cup {line[th]}
  BY DEF Updating
<1>2. rec \in TaskRecord
  BY <1>1 DEF Types, RecorderTypes
<1>3. SUFFICES Says(new, lines \cup {line[th]}, t)
  BY <1>1
<1>4. Says(rec, lines, t)
  BY <1>1
<1>5. CASE line[th] = Submitted(t)
  <2>1. rec = NoRecord
    BY <1>1, <1>5 DEF SubmittedFirst, ToSubmit, Updating
  <2>2. lines = {}
    BY <1>1, <2>1, NothingSaid
  <2>3. new.status = "pending" /\ new.node = Nothing
    BY <1>1, <1>2, <1>5, <2>1, RecordedIs
  <2>4. QED
    BY <1>5, <2>2, <2>3, KindsDiffer DEF Says
<1>6. ASSUME line[th].type \in {"task_evicted", "task_dispatched", "task_completed"}
      PROVE  /\ Carries(th, t) /\ ToWrite(th) /\ rec # NoRecord
             /\ lines \subseteq {log[i] : i \in Told(t)} \cup {Submitted(t)}
  <2>1. Carries(th, t) /\ ToWrite(th) /\ pc[th] = "update" /\ rec # NoRecord
    BY <1>1, <1>6 DEF Carries, ToWrite, Updating
  <2>2. QED
    BY <1>1, <2>1, CarriedLines
<1>7. ASSUME line[th].type \in {"task_evicted", "task_dispatched"} PROVE lines \subseteq {Submitted(t)}
  <2>1. Told(t) = {}
    BY <1>6, <1>7 DEF InPipeline, ToldNothingYet
  <2>2. QED
    BY <1>6, <1>7, <2>1
<1>8. CASE line[th] = Evicted(t)
  <2>1. lines \subseteq {Submitted(t)} /\ rec # NoRecord
    BY <1>6, <1>7, <1>8, LineParts
  <2>2. new.status = "rejected" /\ new.node = rec.node
    BY <1>1, <1>2, <1>8, <2>1, RecordedIs
  <2>3. QED
    BY <1>4, <1>8, <2>1, <2>2, EvictionSays
<1>9. ASSUME NEW n \in Node, line[th] = Dispatched(t, n) PROVE Says(new, lines \cup {line[th]}, t)
  <2>1. lines \subseteq {Submitted(t)}
    BY <1>7, <1>9, LineParts
  <2>2. new.status = "dispatched" /\ new.node = n
    BY <1>1, <1>2, <1>9, RecordedIs
  <2>3. QED
    BY <1>9, <2>1, <2>2, DispatchSays
<1>10. ASSUME NEW n \in Node, line[th] = Completed(t, n) PROVE Says(new, lines \cup {line[th]}, t)
  <2>1. /\ ToWrite(th) /\ rec # NoRecord
        /\ lines \subseteq {log[i] : i \in Told(t)} \cup {Submitted(t)}
    BY <1>6, <1>10, LineParts
  <2>2. PICK i \in Told(t) : Told(t) = {i} /\ log[i] = Dispatched(t, n)
    BY <1>10, <2>1 DEF InPipeline, ToldDispatchOnly
  <2>3. Dispatched(t, n) \in lines
    BY <1>1, <2>2, LogLinesAre
  <2>4. lines \subseteq {Submitted(t), Dispatched(t, n)}
    BY <2>1, <2>2
  <2>5. new.status = "completed" /\ new.node = IF rec.node = Nothing THEN n ELSE rec.node
    BY <1>1, <1>2, <1>10, <2>1, RecordedIs
  <2>6. QED
    BY <1>4, <1>10, <2>3, <2>4, <2>5, CompletionSays
<1>11. \/ line[th] = Submitted(t) \/ line[th] = Evicted(t)
       \/ \E n \in Node : line[th] \in {Dispatched(t, n), Completed(t, n)}
  <2>1. line[th] \in TaskLine \cup SilentLine /\ line[th].task = t /\ line[th].type # "task_rejected"
    BY DEF Types, RecorderTypes, Updating
  <2>2. QED
    BY <2>1, LineIs, LineParts
<1>12. QED
  BY <1>5, <1>8, <1>9, <1>10, <1>11

\* The lines about a task in the steps of a call, while the trial is active and its
\* file open.
LEMMA LinesInCall ==
  ASSUME Types, NEW th \in Thread, NEW t \in Task, RecordStep(th), active, file = "open"
  PROVE  LinesOf(t)' = IF pc[th] = "update" /\ line[th].task = t THEN LinesOf(t) \cup {line[th]}
                       ELSE LinesOf(t)
<1>1. CASE Update(th)
  <2>1. pc[th] = "update" /\ pc' = [pc EXCEPT ![th] = "emit"] /\ line' = line /\ log' = log
    BY <1>1 DEF Update, Moves, outVars
  <2>2. \A u \in Thread : pc'[u] = IF u = th THEN "emit" ELSE pc[u]
    BY <2>1 DEF Types, RecorderTypes
  <2>3. QED
    BY <2>1, <2>2 DEF LinesOf
<1>2. CASE Emit(th)
  <2>1. pc[th] = "emit" /\ pc' = [pc EXCEPT ![th] = "write"] /\ line' = line /\ log' = log
    BY <1>2 DEF Emit, Moves, outVars
  <2>2. \A u \in Thread : pc'[u] = IF u = th THEN "write" ELSE pc[u]
    BY <2>1 DEF Types, RecorderTypes
  <2>3. QED
    BY <2>1, <2>2 DEF LinesOf
<1>3. CASE Write(th)
  <2>1. /\ pc[th] = "write" /\ pc' = [pc EXCEPT ![th] = "flush"] /\ line' = line
        /\ log' = IF line[th].task = Nothing THEN log ELSE Append(log, line[th])
    BY <1>3 DEF Write, Moves
  <2>2. \A u \in Thread : pc'[u] = IF u = th THEN "flush" ELSE pc[u]
    BY <2>1 DEF Types, RecorderTypes
  <2>3. CASE line[th].task = t
    <3>1. line[th] \in TaskLine /\ log' = Append(log, line[th]) /\ log \in Seq(TaskLine)
      BY <2>1, <2>3, AboutTask, RecorderAssumption DEF Types, RecorderTypes
    <3>2. {l \in {log'[i] : i \in 1..Len(log')} : l.task = t}
            = {l \in {log[i] : i \in 1..Len(log)} : l.task = t} \cup {line[th]}
      BY <2>3, <3>1
    <3>3. QED
      BY <2>1, <2>2, <2>3, <3>2 DEF LinesOf
  <2>4. CASE line[th].task # t
    <3>1. SameLog(t)
      BY <2>1, <2>4, OthersLine
    <3>2. {l \in {log'[i] : i \in 1..Len(log')} : l.task = t}
            = {l \in {log[i] : i \in 1..Len(log)} : l.task = t}
      BY <3>1 DEF SameLog
    <3>3. QED
      BY <2>1, <2>2, <2>4, <3>2 DEF LinesOf
  <2>5. QED
    BY <2>3, <2>4
<1>4. CASE Flush(th)
  <2>1. pc[th] = "flush" /\ Return(th) /\ log' = log
    BY <1>4 DEF Flush, outVars
  <2>2. AfterCall(th) \notin {"emit", "write"}
    BY AfterCallSection
  <2>3. \A u \in Thread : /\ pc[u] \in {"emit", "write"} <=> pc'[u] \in {"emit", "write"}
                          /\ pc[u] \in {"emit", "write"} => line'[u] = line[u]
    BY <2>1, <2>2 DEF Return, Moves, Types, RecorderTypes
  <2>4. QED
    BY <2>1, <2>3 DEF LinesOf
<1>5. QED
  BY <1>1, <1>2, <1>3, <1>4 DEF RecordStep

\* Outside of the calls only the start and the end of a trial bring a thread to where
\* it writes, with lines that are about no task.
NobodyEmits == \A u \in Thread : pc'[u] = "emit" => pc[u] = "emit"

ClientAnnounces ==
  line'["client"].task = Nothing /\ \A u \in Thread \ {"client"} : pc'[u] = pc[u]

LEMMA EmitsSilently ==
  ASSUME Types, OutsideNext
  PROVE  NobodyEmits \/ ClientAnnounces
<1> USE DEF Moves, Goes, Call, Types, RecorderTypes, trialVars, outVars, clientVars, tickVars,
            nodeVars, ghostVars
<1>1. CASE End \/ Activate
  <2>1. \E type, to : /\ line' = [line EXCEPT !["client"] = Line(type, Nothing, Nothing)]
                      /\ pc' = [pc EXCEPT !["client"] = to]
    BY <1>1 DEF End, Activate
  <2>2. QED
    BY <2>1, NamedThreads, LineParts DEF ClientAnnounces
<1>2. CASE ClientNext /\ ~(End \/ Activate)
  <2>1. ASSUME NEW t \in Task, SubmitTask(t) PROVE NobodyEmits
    BY <2>1 DEF SubmitTask, NobodyEmits
  <2>2. ASSUME NEW S \in SUBSET Task, SubmitBatch(S) PROVE NobodyEmits
    BY <2>2 DEF SubmitBatch, NobodyEmits
  <2>3. CASE Start \/ Reset
    BY <2>3 DEF Start, Reset, NobodyEmits
  <2>4. CASE BatchNext
    BY <2>4 DEF BatchNext, NobodyEmits
  <2>5. CASE AppendRow \/ Close \/ Forget \/ Deactivate
    BY <2>5 DEF AppendRow, Close, Forget, Deactivate, NobodyEmits
  <2>6. CASE ClearQueue \/ ClearTracked \/ ResetNodes
    BY <2>6 DEF ClearQueue, ClearTracked, ResetNodes, NobodyEmits
  <2>7. QED
    BY <1>2, <2>1, <2>2, <2>3, <2>4, <2>5, <2>6 DEF ClientNext, ClientStep
<1>3. CASE TickNext
  <2>1. pc' = pc \/ \E to : pc' = [pc EXCEPT !["tick"] = to] /\ to # "emit"
    BY <1>3 DEF TickNext, Evict, EvictNext, Decide, Take
  <2>2. QED
    BY <2>1 DEF NobodyEmits
<1>4. CASE NodeNext
  <2>1. ASSUME NEW t \in Task, NEW n \in Node, NEW w \in Worker,
               Admitted(w, <<t, n>>) \/ Refused(w, <<t, n>>)
        PROVE  NobodyEmits
    BY <2>1 DEF Admitted, Refused, NobodyEmits
  <2>2. ASSUME NEW w \in Worker, Callback(w) \/ Track(w) PROVE NobodyEmits
    BY <2>2 DEF Callback, Track, NobodyEmits
  <2>3. ASSUME NEW t \in Task, NEW n \in Node, Finish(<<t, n>>) PROVE NobodyEmits
    BY <2>3 DEF Finish, NobodyEmits
  <2>4. ASSUME NEW n \in Node, Poll(n) PROVE NobodyEmits
    BY <2>4 DEF Poll, NobodyEmits
  <2>5. CASE Observe
    BY <2>5 DEF Observe, NobodyEmits
  <2>6. CASE Sample
    BY <2>6 DEF Sample, NobodyEmits
  <2>7. QED
    BY <1>4, <2>1, <2>2, <2>3, <2>4, <2>5, <2>6 DEF NodeNext
<1>5. QED
  BY <1>1, <1>2, <1>3, <1>4 DEF OutsideNext

LEMMA LinesOutside ==
  ASSUME Types, OutsideNext, ~Start, log' = log, NEW t \in Task
  PROVE  LinesOf(t)' = LinesOf(t)
<1>1. OneProceeds /\ (NobodyEmits \/ ClientAnnounces)
  BY EmitsSilently, ClientProceeds, TickProceeds, NodeProceeds DEF OutsideNext
<1>2. LinesOf(t) \subseteq LinesOf(t)'
  BY <1>1, LinesKept
<1>3. ASSUME NEW u \in Thread, pc'[u] \in {"emit", "write"}, line'[u].task = t
      PROVE  pc[u] = pc'[u] /\ line[u] = line'[u]
  <2>1. CASE UNCHANGED <<pc, line>>
    BY <2>1
  <2>2. ASSUME NEW th \in Thread, Proceeds(th) PROVE pc[u] = pc'[u] /\ line[u] = line'[u]
    <3>1. u = th => pc'[u] = "emit" /\ pc[u] # "emit"
      BY <1>3, <2>2 DEF Proceeds, Types, RecorderTypes
    <3>2. u # th
      BY <1>1, <1>3, <3>1, RecorderAssumption DEF NobodyEmits, ClientAnnounces
    <3>3. QED
      BY <2>2, <3>2 DEF Proceeds, Types, RecorderTypes
  <2>3. QED
    BY <1>1, <2>1, <2>2 DEF OneProceeds
<1>4. LinesOf(t)' \subseteq LinesOf(t)
  <2>1. SUFFICES ASSUME NEW u \in Thread, pc'[u] \in {"emit", "write"}, line'[u].task = t
                 PROVE  line'[u] \in LinesOf(t)
    BY DEF LinesOf
  <2>2. QED
    BY <1>3, <2>1 DEF LinesOf
<1>5. QED
  BY <1>2, <1>4

\* Only the client takes a submission up, of a task that was still to be submitted.
LEMMA SubmissionsTakenUp ==
  ASSUME Types, OutsideNext, ~Start, NEW t \in Task
  PROVE  /\ sent \subseteq sent' /\ (t \in todo' => t \in todo \/ t \notin sent)
         /\ \A u \in Thread :
              line'[u] = Submitted(t) => line[u] = Submitted(t) \/ t \in todo \/ t \notin sent
<1> USE DEF Moves, Goes, Call, Types, RecorderTypes, trialVars, outVars, clientVars, tickVars,
            nodeVars, ghostVars
<1> DEFINE goal ==
      \A u \in Thread :
        line'[u] = Submitted(t) => line[u] = Submitted(t) \/ t \in todo \/ t \notin sent
<1>0. /\ \A u, n : /\ Evicted(u) # Submitted(t) /\ Dispatched(u, n) # Submitted(t)
                   /\ Rejected(u, n) # Submitted(t) /\ Completed(u, n) # Submitted(t)
      /\ \A u : Submitted(u) = Submitted(t) => u = t
      /\ \A type : Line(type, Nothing, Nothing) # Submitted(t)
      /\ NoLine # Submitted(t)
  <2>1. Nothing # t
    BY RecorderAssumption
  <2>2. QED
    BY <2>1, LineParts
<1>1. CASE ClientNext
  <2>1. goal
    <3>1. ASSUME NEW u \in Task, SubmitTask(u) PROVE goal
      BY <1>0, <3>1 DEF SubmitTask
    <3>2. ASSUME NEW S \in SUBSET Task, SubmitBatch(S) PROVE goal
      BY <3>2 DEF SubmitBatch
    <3>3. CASE End \/ Reset \/ Activate
      BY <1>0, <3>3 DEF End, Reset, Activate
    <3>4. CASE BatchNext
      BY <1>0, <3>4 DEF BatchNext
    <3>5. CASE AppendRow \/ Close \/ Forget \/ Deactivate
      BY <3>5 DEF AppendRow, Close, Forget, Deactivate
    <3>6. CASE ClearQueue \/ ClearTracked \/ ResetNodes
      BY <1>0, <3>6 DEF ClearQueue, ClearTracked, ResetNodes
    <3>7. QED
      BY <1>1, <3>1, <3>2, <3>3, <3>4, <3>5, <3>6 DEF ClientNext, ClientStep
  <2>2. sent \subseteq sent' /\ (t \in todo' => t \in todo \/ t \notin sent)
    BY <1>1 DEF ClientNext, SubmitTask, SubmitBatch, End, Reset, ClientStep, BatchNext, Activate,
                AppendRow, Close, Forget, Deactivate, ClearQueue, ClearTracked, ResetNodes
  <2>3. QED
    BY <2>1, <2>2
<1>2. CASE TickNext
  <2>1. ASSUME NEW u \in Task, EvictNext(u) PROVE goal
    BY <1>0, <2>1 DEF EvictNext
  <2>2. ASSUME NEW p \in Plans, Decide(p) PROVE goal
    BY <1>0, <2>2 DEF Decide
  <2>3. ASSUME NEW S \in SUBSET Task, Evict(S) PROVE goal
    BY <2>3 DEF Evict
  <2>4. ASSUME NEW u \in Task, NEW n \in Node, Take(<<u, n>>) PROVE goal
    BY <2>4 DEF Take
  <2>5. QED
    BY <1>2, <2>1, <2>2, <2>3, <2>4, ClientUntouched DEF TickNext
<1>3. CASE NodeNext
  <2>1. ASSUME NEW u \in Task, NEW n \in Node, NEW w \in Worker,
               Admitted(w, <<u, n>>) \/ Refused(w, <<u, n>>)
        PROVE  goal
    BY <1>0, <2>1 DEF Admitted, Refused
  <2>2. ASSUME NEW w \in Worker, Callback(w) \/ Track(w) PROVE goal
    BY <1>0, <2>2 DEF Callback, Track
  <2>3. ASSUME NEW u \in Task, NEW n \in Node, Finish(<<u, n>>) PROVE goal
    BY <2>3 DEF Finish
  <2>4. ASSUME NEW n \in Node, Poll(n) PROVE goal
    BY <2>4 DEF Poll
  <2>5. CASE Observe
    BY <1>0, <2>5 DEF Observe
  <2>6. CASE Sample
    BY <1>0, <2>6 DEF Sample
  <2>7. QED
    BY <1>3, <2>1, <2>2, <2>3, <2>4, <2>5, <2>6, ClientUntouched DEF NodeNext
<1>4. QED
  BY <1>1, <1>2, <1>3 DEF OutsideNext

LEMMA ToSubmitOutside ==
  ASSUME Types, OutsideNext, ~Start, NEW t \in Task, ToSubmit(t)'
  PROVE  ToSubmit(t)
<1>1. OneProceeds
  BY ClientProceeds, TickProceeds, NodeProceeds DEF OutsideNext
<1>2. \A u \in Thread : pc'[u] # pc[u] => pc[u] \notin {"update", "emit", "write", "flush"}
  BY <1>1 DEF OneProceeds, Proceeds, Types, RecorderTypes
<1>3. QED
  BY <1>2, SubmissionsTakenUp DEF ToSubmit

LEMMA ToSubmitInCall ==
  ASSUME Types, NEW th \in Thread, NEW t \in Task, RecordStep(th), active, file = "open", ToSubmit(t)'
  PROVE  ToSubmit(t)
<1>1. sent' = sent /\ todo' = todo
  BY DEF RecordStep, Update, Emit, Write, Flush, clientVars
<1>2. \A u \in Thread \ {th} : pc'[u] = pc[u] /\ line'[u] = line[u]
  BY DEF RecordStep, Update, Emit, Write, Flush, Return, Moves, Types, RecorderTypes
<1>3. line'[th] = Submitted(t) => pc'[th] \in {"emit", "write", "flush"}
  <2>1. NoLine # Submitted(t)
    BY LineParts, RecorderAssumption
  <2>2. \/ Return(th)
        \/ \E to \in {"emit", "write", "flush"} : pc' = [pc EXCEPT ![th] = to]
    BY DEF RecordStep, Update, Emit, Write, Flush, Moves
  <2>3. QED
    BY <2>1, <2>2, LineParts DEF Return, Types, RecorderTypes
<1>4. QED
  BY <1>1, <1>2, <1>3 DEF ToSubmit

-----------------------------------------------------------------------------
\* The log and the record tell the same

LEMMA RecordOutside ==
  ASSUME Types, OutsideNext, ~Start, active, file = "open", OpenInTrial
  PROVE  UNCHANGED <<record, log>>
<1>1. CASE UNCHANGED <<active, record, file, log>>
  BY <1>1
<1>2. CASE Activate \/ Close
  BY <1>2 DEF Activate, Close, outVars
<1>3. ~(Forget \/ Deactivate)
  BY DEF Forget, Deactivate, Goes, OpenInTrial
<1>4. QED
  BY <1>1, <1>2, <1>3, OutsideKeeps

\* What a call does to the record of a task whose calls do not overtake each other.
LEMMA RecordInCall ==
  ASSUME Types, NEW th \in Thread, NEW t \in Task, RecordStep(th), active, file = "open",
         t \notin disorder'
  PROVE  \/ Updating(th, t)
         \/ record'[t] = record[t] /\ LinesOf(t)' = LinesOf(t)
<1>1. LinesOf(t)' = IF pc[th] = "update" /\ line[th].task = t THEN LinesOf(t) \cup {line[th]}
                    ELSE LinesOf(t)
  BY LinesInCall
<1>2. CASE pc[th] # "update"
  <2>1. record' = record
    BY <1>2 DEF RecordStep, Update, Emit, Write, Flush, trialVars
  <2>2. QED
    BY <1>1, <1>2, <2>1
<1>3. CASE pc[th] = "update"
  <2>1. /\ record' = IF line[th].task = Nothing THEN record
                       ELSE [record EXCEPT ![line[th].task] = Recorded(@, line[th])]
        /\ disorder' = IF Overtakes(line[th]) THEN disorder \cup {line[th].task} ELSE disorder
    BY <1>3 DEF RecordStep, Update, Emit, Write, Flush
  <2>2. CASE line[th].task # t
    BY <1>1, <2>1, <2>2 DEF Types, RecorderTypes
  <2>3. CASE line[th].task = t
    <3>1. record'[t] = Recorded(record[t], line[th])
      BY <2>1, <2>3, RecorderAssumption DEF Types, RecorderTypes
    <3>2. ~Overtakes(line[th])
      BY <2>1, <2>3
    <3>3. line[th].type # "task_submitted" => line[th].type # "task_rejected" /\ record[t] # NoRecord
      BY <2>3, <3>2, RecorderAssumption DEF Overtakes
    <3>4. QED
      BY <1>1, <1>3, <2>3, <3>1, <3>3 DEF Updating
  <2>4. QED
    BY <2>2, <2>3
<1>4. QED
  BY <1>2, <1>3

LEMMA RecordSaysKept ==
  ASSUME NEW t \in Task, RecordSays(t), record'[t] = record[t], LinesOf(t)' = LinesOf(t),
         ToSubmit(t)' => ToSubmit(t)
  PROVE  RecordSays(t)'
BY DEF RecordSays, SubmittedFirst

LEMMA RecordSaysStep ==
  ASSUME Types, OpenInTrial, NEW t \in Task, InPipeline(t), OneLife(t), RecordSays(t), active,
         file = "open", t \notin disorder', Next, ~Start
  PROVE  RecordSays(t)'
<1>1. CASE OutsideNext
  BY <1>1, RecordOutside, LinesOutside, ToSubmitOutside, RecordSaysKept
<1>2. ASSUME NEW th \in Thread, RecordStep(th) PROVE RecordSays(t)'
  <2>1. ToSubmit(t)' => ToSubmit(t)
    BY <1>2, ToSubmitInCall
  <2>2. CASE record'[t] = record[t] /\ LinesOf(t)' = LinesOf(t)
    BY <2>1, <2>2, RecordSaysKept
  <2>3. CASE Updating(th, t)
    <3>1. Says(record'[t], LinesOf(t)', t)
      BY <2>3, RecordSaysUpdated DEF RecordSays
    <3>2. ~ToSubmit(t)'
      <4>1. CASE line[th].type # "task_submitted"
        BY <2>1, <2>3, <4>1 DEF RecordSays, SubmittedFirst, Updating
      <4>2. CASE line[th].type = "task_submitted"
        <5>1. line[th] = Submitted(t)
          <6>1. line[th] \in TaskLine \cup SilentLine /\ line[th].task = t
            BY <2>3 DEF Types, RecorderTypes, Updating
          <6>2. QED
            BY <4>2, <6>1, LineIs, LineParts
        <5>2. /\ pc[th] = "update" /\ pc' = [pc EXCEPT ![th] = "emit"] /\ line' = line
              /\ sent' = sent /\ todo' = todo
          BY <1>2, <2>3 DEF RecordStep, Update, Emit, Write, Flush, Updating, Moves, clientVars
        <5>3. t \in sent /\ t \notin todo /\ \A u \in Thread : line[u] = Submitted(t) => u = th
          BY <5>1, LineParts DEF InPipeline, OneSubmission
        <5>4. QED
          BY <5>2, <5>3 DEF ToSubmit, Types, RecorderTypes
      <4>3. QED
        BY <4>1, <4>2
    <3>3. QED
      BY <3>1, <3>2 DEF RecordSays, SubmittedFirst
  <2>4. QED
    BY <1>2, <2>2, <2>3, RecordInCall
<1>3. QED
  BY <1>1, <1>2, NextSplit

-----------------------------------------------------------------------------
\* The invariant of the replay

LEMMA LogSteps ==
  ASSUME Types, Next
  PROVE  \/ log' = log
         \/ Start
         \/ \E th \in Thread : /\ Write(th) /\ line[th] \in TaskLine
                               /\ log' = Append(log, line[th])
<1>1. CASE OutsideNext
  BY <1>1, OutsideKeeps DEF Activate, Close, Forget, Deactivate, outVars
<1>2. ASSUME NEW th \in Thread, RecordStep(th), log' # log
      PROVE  Write(th) /\ line[th] \in TaskLine /\ log' = Append(log, line[th])
  <2>1. Write(th)
    BY <1>2 DEF RecordStep, Update, Emit, Flush, outVars
  <2>2. log' = Append(log, line[th]) /\ line[th].task # Nothing
    BY <1>2, <2>1 DEF Write
  <2>3. line[th] \in TaskLine
    BY <2>2, AboutTask DEF Types, RecorderTypes
  <2>4. QED
    BY <2>1, <2>2, <2>3
<1>3. QED
  BY <1>1, <1>2, NextSplit

LEMMA ReplayTypedKept ==
  ASSUME Types, ReplayTyped, Next
  PROVE  ReplayTyped'
<1>1. CASE log' = log
  BY <1>1 DEF ReplayTyped
<1>2. CASE Start
  <2>1. log' = <<>> /\ NoRecord \in TaskRecord
    BY <1>2 DEF Start, NoRecord, TaskRecord
  <2>2. QED
    BY <2>1, ReplayNothing DEF ReplayTyped
<1>3. ASSUME NEW l \in TaskLine, log' = Append(log, l) PROVE ReplayTyped'
  BY <1>3, ReplayTypedStep
<1>4. QED
  BY <1>1, <1>2, <1>3, LogSteps

LEMMA ReplaySaysStep ==
  ASSUME Types, ReplayTyped, NEW t \in Task, InPipeline(t), OneLife(t), ReplaySays(t), Next, ~Start
  PROVE  ReplaySays(t)'
<1>1. CASE log' = log
  BY <1>1 DEF ReplaySays, LogLines
<1>2. ASSUME NEW th \in Thread, Write(th), line[th] \in TaskLine, log' = Append(log, line[th])
      PROVE  ReplaySays(t)'
  <2>1. log \in Seq(TaskLine)
    BY DEF Types, RecorderTypes
  <2>2. CASE line[th].task = t
    <3>1. log' # log
      BY <1>2, <2>1
    <3>2. /\ pc[th] = "write" /\ pc' = [pc EXCEPT ![th] = "flush"] /\ line' = line
          /\ UNCHANGED <<sent, todo, queue, expired, plan, pool, tracked>>
      BY <1>2, <3>1 DEF Write, Moves, clientVars, tickVars, nodeVars
    <3>3. Writing(th, t)
      BY <1>2, <2>2, <3>2 DEF Writing, SameThreads, Types, RecorderTypes
    <3>4. QED
      BY <3>3, ReplaySaysWritten
  <2>3. CASE line[th].task # t
    <3>1. Replay(log')[t] = Replay(log)[t]
      BY <1>2, <2>1, <2>3, ReplayAppend
    <3>2. SameLog(t)
      BY <1>2, <2>3, OthersLine
    <3>3. LogLines(t)' = LogLines(t)
      BY <3>2 DEF SameLog, LogLines
    <3>4. QED
      BY <3>1, <3>3 DEF ReplaySays
  <2>4. QED
    BY <2>2, <2>3
<1>3. QED
  BY <1>1, <1>2, LogSteps

LEMMA NothingSays == ASSUME NEW t PROVE Says(NoRecord, {}, t)
BY DEF Says

LEMMA ReplayStarts ==
  ASSUME LifeInv, NEW t \in Task, Start, clean'
  PROVE  ReplaySays(t)' /\ RecordSays(t)'
<1>1. log' = <<>> /\ record'[t] = NoRecord
  BY DEF Start, LifeInv, RecorderInv, EmptyUnlessActive
<1>2. Replay(log')[t] = NoRecord
  BY <1>1, ReplayNothing
<1>3. LogLines(t)' = {}
  BY <1>1 DEF LogLines
<1>4. LinesOf(t)' = {}
  <2>1. \A th \in Thread : pc'[th] \notin {"emit", "write"}
    BY DEF Start, Goes, Moves, Settled, LifeInv, RecorderInv, Types, RecorderTypes
  <2>2. QED
    BY <1>1, <2>1 DEF LinesOf
<1>5. QED
  BY <1>1, <1>2, <1>3, <1>4, NothingSays DEF ReplaySays, RecordSays, SubmittedFirst

AgreeInv == LifeInv /\ ReplayTyped /\ ReplayInv

LEMMA ReplayStep ==
  ASSUME AgreeInv, Next
  PROVE  ReplayTyped' /\ ReplayInv'
<1>1. /\ Types /\ OpenInTrial /\ QuietStart /\ LifeInv /\ ReplayTyped
  BY DEF AgreeInv, LifeInv, RecorderInv, CallInv
<1>2. ReplayTyped'
  BY <1>1, ReplayTypedKept
<1>3. ASSUME clean', NEW t \in Task, t \notin disorder'
      PROVE  ReplaySays(t)' /\ (file' = "open" => RecordSays(t)')
  <2>1. CASE Start
    BY <1>1, <1>3, <2>1, ReplayStarts
  <2>2. CASE ~Start
    <3>1. /\ clean /\ t \notin disorder
          /\ file' = "open" => file = "open"
          /\ file # "open" \/ file' # "open" => log' = log
      BY <1>1, <1>3, <2>2, NoStart
    <3>2. ReplaySays(t) /\ OneLife(t) /\ (file = "open" => InPipeline(t) /\ RecordSays(t))
      BY <3>1 DEF AgreeInv, ReplayInv, LifeInv, LivesInv
    <3>3. ReplaySays(t)'
      <4>1. log' = log => ReplaySays(t)'
        BY <3>2 DEF ReplaySays, LogLines
      <4>2. QED
        BY <1>1, <2>2, <3>1, <3>2, <4>1, ReplaySaysStep
    <3>4. ASSUME file' = "open" PROVE RecordSays(t)'
      <4>1. CASE active
        BY <1>1, <1>3, <2>2, <3>1, <3>2, <3>4, <4>1, RecordSaysStep
      <4>2. CASE ~active
        <5>1. Activate
          BY <1>1, <3>1, <3>4, <4>2, OnlyActivate
        <5>2. record' = record /\ log' = log /\ OutsideNext
          BY <5>1 DEF Activate, outVars, OutsideNext, ClientNext, ClientStep
        <5>3. QED
          BY <1>1, <2>2, <3>1, <3>2, <3>4, <5>2, LinesOutside, ToSubmitOutside, RecordSaysKept
      <4>3. QED
        BY <4>1, <4>2
    <3>5. QED
      BY <3>3, <3>4
  <2>3. QED
    BY <2>1, <2>2
<1>4. QED
  BY <1>2, <1>3 DEF ReplayInv

LEMMA AgreeStep == AgreeInv /\ [Next]_vars => AgreeInv'
<1> SUFFICES ASSUME AgreeInv, [Next]_vars PROVE AgreeInv'
  OBVIOUS
<1>1. LifeInv'
  BY LifeStep DEF AgreeInv
<1>2. CASE Next
  BY <1>1, <1>2, ReplayStep DEF AgreeInv
<1>3. CASE UNCHANGED vars
  <2>1. UNCHANGED <<record, file, log, pc, line, sent, todo, disorder, clean>>
    BY <1>3 DEF vars, trialVars, outVars, clientVars, ghostVars
  <2>2. ASSUME NEW t \in Task
        PROVE  (ReplaySays(t)' <=> ReplaySays(t)) /\ (RecordSays(t)' <=> RecordSays(t))
    BY <2>1 DEF ReplaySays, RecordSays, LogLines, LinesOf, SubmittedFirst, ToSubmit
  <2>3. ReplayTyped' /\ ReplayInv'
    BY <2>1, <2>2 DEF AgreeInv, ReplayTyped, ReplayInv
  <2>4. QED
    BY <1>1, <2>3 DEF AgreeInv
<1>4. QED
  BY <1>2, <1>3

LEMMA AgreeInit == Init => AgreeInv
<1> SUFFICES ASSUME Init PROVE AgreeInv
  OBVIOUS
<1>1. log = <<>> /\ file # "open" /\ NoRecord \in TaskRecord
  BY DEF Init, NoRecord, TaskRecord
<1>2. \A t \in Task : Replay(log)[t] = NoRecord /\ LogLines(t) = {}
  BY <1>1, ReplayNothing DEF LogLines
<1>3. ReplayTyped /\ ReplayInv
  BY <1>1, <1>2, NothingSays DEF ReplayTyped, ReplayInv, ReplaySays
<1>4. QED
  BY <1>3, LifeInit DEF AgreeInv

\* The same lines, told in one life, leave one status and one node.
LEMMA SaidOnce ==
  ASSUME NEW a \in TaskRecord, NEW b \in TaskRecord, NEW lines, NEW t \in Task,
         Says(a, lines, t), Says(b, lines, t),
         \A l \in lines : l \in {Submitted(t), Evicted(t)}
                            \/ \E n \in Node : l \in {Dispatched(t, n), Completed(t, n)}
  PROVE  a.status = b.status /\ a.node = b.node
<1>1. CASE lines = {}
  BY <1>1 DEF Says
<1>2. ASSUME NEW n \in Node, Completed(t, n) \in lines PROVE a.status = b.status /\ a.node = b.node
  BY <1>2 DEF Says
<1>3. CASE Evicted(t) \in lines
  BY <1>3 DEF Says
<1>4. ASSUME NEW n \in Node, Dispatched(t, n) \in lines, \A m \in Node : Completed(t, m) \notin lines
      PROVE  a.status = b.status /\ a.node = b.node
  BY <1>4 DEF Says
<1>5. CASE lines = {Submitted(t)}
  BY <1>5 DEF Says
<1>6. QED
  BY <1>1, <1>2, <1>3, <1>4, <1>5

LEMMA AgreeGivesReplay == AgreeInv => ReplayAgrees
<1> SUFFICES ASSUME AgreeInv, active, file = "open", NEW t \in Task, InOrder(t), ~HalfRecorded(t)
             PROVE  Replay(log)[t].status = record[t].status /\ Replay(log)[t].node = record[t].node
  BY DEF ReplayAgrees
<1>1. LinesOf(t) = LogLines(t)
  BY DEF LinesOf, LogLines, HalfRecorded
<1>2. Types /\ OneLife(t) /\ ReplaySays(t) /\ RecordSays(t)
  BY DEF InOrder, AgreeInv, ReplayInv, LifeInv, LivesInv, RecorderInv
<1>3. Replay(log)[t] \in TaskRecord /\ record[t] \in TaskRecord
  BY <1>2 DEF AgreeInv, ReplayTyped, Types, RecorderTypes
<1>4. Says(Replay(log)[t], LogLines(t), t) /\ Says(record[t], LogLines(t), t)
  BY <1>1, <1>2 DEF ReplaySays, RecordSays
<1>5. QED
  BY <1>2, <1>3, <1>4, OrderedKinds, SaidOnce

\* Whenever no call about a task is between the two locks, replaying the log gives the
\* status and the node the live record has, for every task whose calls did not overtake
\* each other, in whatever order the threads recorded and wrote.
THEOREM ReplayMatchesRecord == Spec => []ReplayAgrees
BY AgreeInit, AgreeStep, AgreeGivesReplay, PTL DEF Spec

-----------------------------------------------------------------------------
\* A run that is ended when everything has settled

\* The file is open throughout a trial, but for the moment it is taken down.
ActiveOpen ==
  /\ active => file = "open" \/ pc["client"] \in {"forget", "deactivate"}
  /\ pc["client"] = "activate" => file = "open"

SamplerSilent == line["sampler"].task = Nothing

\* A submitted task that is neither completed nor rejected is somewhere: nobody but
\* the end of a trial makes it disappear.
HeldBy(th, t) ==
  /\ line[th].task = t
  /\ \/ line[th].type = "task_dispatched"
     \/ line[th].type \in {"task_evicted", "task_completed"} /\ pc[th] = "update"

InHand(t) ==
  t \in queue \cup expired \/ InPool(t) \/ IsTracked(t) \/ \E th \in Thread : HeldBy(th, t)

IsOver(rec) == rec.status \in {"completed", "rejected"}

Held(t) == t \in sent /\ ~IsOver(record[t]) => InHand(t)

HeldInv == (clean /\ file = "open") => \A t \in Task \ disorder : Held(t)

\* Where the client is when it has a result in hand, and when it has written the row.
Ended ==
  /\ result # Nothing =>
       /\ active /\ file = "open"
       /\ \/ pc["client"] = "append"
          \/ pc["client"] \in {"emit", "write", "flush"} /\ line["client"].type = "trial_end"
  /\ row # Nothing =>
       /\ pc["client"] \in {"idle", "close", "forget", "deactivate", "clear", "untrack", "reset"}
       /\ active => pc["client"] \in {"close", "forget", "deactivate"}

AtRest ==
  /\ queue = {} /\ expired = {} /\ plan = {} /\ pool = {} /\ edge = {} /\ tracked = {}
  /\ \A th \in Thread \ {"client", "sampler"} : pc[th] = "idle"

RestAfterwards == Grace /\ (result # Nothing \/ row # Nothing) => AtRest

\* A row counts the tasks of a replay.
Counts(r, told) ==
  LET Count(s) == Cardinality({t \in Task : told[t].status = s})
  IN  /\ r.completed = Count("completed") /\ r.rejected = Count("rejected")
      /\ r.total = r.completed + r.rejected
      /\ \A n \in Node :
           r.perNode[n] =
             Cardinality({t \in Task : told[t].status = "completed" /\ told[t].node = n})

RowTells ==
  (Grace /\ \A t \in Task : InOrder(t)) =>
    /\ result # Nothing => Counts(result, Replay(log))
    /\ row # Nothing => Counts(row, Replay(log))

RowParts == ActiveOpen /\ SamplerSilent /\ HeldInv /\ Ended /\ RestAfterwards

RowInv == AgreeInv /\ RowParts /\ RowTells

LEMMA TrialUntouched ==
  ASSUME TickNext \/ NodeNext
  PROVE  UNCHANGED <<active, record, file, result, log, row>>
<1> USE DEF trialVars, outVars
<1>1. CASE TickNext
  BY <1>1 DEF TickNext, Evict, EvictNext, Decide, Take
<1>2. CASE NodeNext
  <2>1. ASSUME NEW t \in Task, NEW n \in Node, NEW w \in Worker,
               Admitted(w, <<t, n>>) \/ Refused(w, <<t, n>>)
        PROVE  UNCHANGED <<active, record, file, result, log, row>>
    BY <2>1 DEF Admitted, Refused
  <2>2. ASSUME NEW w \in Worker, Callback(w) \/ Track(w)
        PROVE  UNCHANGED <<active, record, file, result, log, row>>
    BY <2>2 DEF Callback, Track
  <2>3. ASSUME NEW t \in Task, NEW n \in Node, Finish(<<t, n>>)
        PROVE  UNCHANGED <<active, record, file, result, log, row>>
    BY <2>3 DEF Finish
  <2>4. ASSUME NEW n \in Node, Poll(n)
        PROVE  UNCHANGED <<active, record, file, result, log, row>>
    BY <2>4 DEF Poll
  <2>5. CASE Observe
    BY <2>5 DEF Observe
  <2>6. CASE Sample
    BY <2>6 DEF Sample
  <2>7. QED
    BY <1>2, <2>1, <2>2, <2>3, <2>4, <2>5, <2>6 DEF NodeNext
<1>3. QED
  BY <1>1, <1>2

LEMMA CallKeepsRow ==
  ASSUME NEW th \in Thread, RecordStep(th)
  PROVE  UNCHANGED <<active, file, result, row, clean>> /\ disorder \subseteq disorder'
BY DEF RecordStep, Update, Emit, Write, Flush, Raise, Abandon, trialVars, outVars, ghostVars

LEMMA ActiveOpenStep ==
  ASSUME Types, ActiveOpen, Next
  PROVE  ActiveOpen'
<1> USE DEF Moves, Goes, Call, ActiveOpen, trialVars
<1>0. "client" \in Thread /\ pc \in [Thread -> Sections]
  BY NamedThreads DEF Types, RecorderTypes
<1>1. CASE TickNext \/ NodeNext
  BY <1>1, ClientUntouched
<1>2. ASSUME NEW th \in Thread, RecordStep(th) PROVE ActiveOpen'
  <2>1. AfterCall("client") \notin {"activate", "forget", "deactivate"}
    BY DEF AfterCall
  <2>2. QED
    BY <1>2, <2>1, CallOfClient
<1>3. CASE ClientNext
  <2>1. CASE \/ \E t \in Task : SubmitTask(t)
             \/ \E S \in SUBSET Task : SubmitBatch(S)
    BY <1>0, <2>1 DEF SubmitTask, SubmitBatch
  <2>2. CASE BatchNext
    BY <1>0, <2>2 DEF BatchNext
  <2>3. CASE Start \/ End \/ Reset
    BY <1>0, <2>3 DEF Start, End, Reset
  <2>4. CASE Activate \/ AppendRow \/ Close \/ Forget
    BY <1>0, <2>4 DEF Activate, AppendRow, Close, Forget
  <2>5. CASE Deactivate
    BY <1>0, <2>5 DEF Deactivate
  <2>6. CASE ClearQueue \/ ClearTracked \/ ResetNodes
    BY <1>0, <2>6 DEF ClearQueue, ClearTracked, ResetNodes
  <2>7. QED
    BY <1>3, <2>1, <2>2, <2>3, <2>4, <2>5, <2>6 DEF ClientNext, ClientStep
<1>4. QED
  BY <1>1, <1>2, <1>3, NextSplit DEF OutsideNext

LEMMA SamplerStep ==
  ASSUME Types, SamplerSilent, Next
  PROVE  SamplerSilent'
<1> USE DEF Moves, Goes, Call, SamplerSilent
<1>0. /\ "sampler" \in Thread /\ line \in [Thread -> TaskLine \cup SilentLine]
      /\ \A w \in Worker : w # "sampler"
  BY NamedThreads, RecorderAssumption DEF Types, RecorderTypes
<1>1. CASE ClientNext
  BY <1>0, <1>1 DEF ClientNext, SubmitTask, SubmitBatch, Start, End, Reset, ClientStep, BatchNext,
          Activate, AppendRow, Close, Forget, Deactivate, ClearQueue, ClearTracked, ResetNodes
<1>2. CASE TickNext
  BY <1>0, <1>2 DEF TickNext, Evict, EvictNext, Decide, Take
<1>3. CASE NodeNext
  <2>1. ASSUME NEW t \in Task, NEW n \in Node, NEW w \in Worker,
               Admitted(w, <<t, n>>) \/ Refused(w, <<t, n>>)
        PROVE  SamplerSilent'
    BY <1>0, <2>1 DEF Admitted, Refused
  <2>2. ASSUME NEW w \in Worker, Callback(w) \/ Track(w) PROVE SamplerSilent'
    BY <1>0, <2>2 DEF Callback, Track
  <2>3. ASSUME NEW t \in Task, NEW n \in Node, Finish(<<t, n>>) PROVE SamplerSilent'
    BY <2>3 DEF Finish
  <2>4. ASSUME NEW n \in Node, Poll(n) PROVE SamplerSilent'
    BY <2>4 DEF Poll
  <2>5. CASE Observe
    BY <1>0, <2>5 DEF Observe
  <2>6. CASE Sample
    BY <1>0, <2>6, LineParts DEF Sample
  <2>7. QED
    BY <1>3, <2>1, <2>2, <2>3, <2>4, <2>5, <2>6 DEF NodeNext
<1>4. ASSUME NEW th \in Thread, RecordStep(th) PROVE SamplerSilent'
  <2>1. line' = line \/ line' = [line EXCEPT ![th] = NoLine]
    BY <1>4 DEF RecordStep, Update, Emit, Write, Flush, Return, Raise, Abandon
  <2>2. QED
    BY <1>0, <2>1, LineParts
<1>5. QED
  BY <1>1, <1>2, <1>3, <1>4, NextSplit DEF OutsideNext

\* The client has a result in hand until it has appended the row, and makes no other
\* request until the trial is down.
LEMMA EndedStep ==
  ASSUME Types, ActiveOpen, Ended, Next
  PROVE  Ended'
<1> USE DEF Moves, Goes, Call, Ended, trialVars, outVars
<1>0. "client" \in Thread /\ pc \in [Thread -> Sections] /\ line \in [Thread -> TaskLine \cup SilentLine]
  BY NamedThreads DEF Types, RecorderTypes
<1>1. CASE TickNext \/ NodeNext
  BY <1>1, ClientUntouched, TrialUntouched
<1>2. ASSUME NEW th \in Thread, RecordStep(th) PROVE Ended'
  <2>1. UNCHANGED <<active, file, result, row>>
    BY <1>2, CallKeepsRow
  <2>2. CASE th # "client"
    BY <1>2, <2>1, <2>2, CallOfClient
  <2>3. CASE th = "client"
    <3>1. row = Nothing
      BY <1>2, <2>3, CallOfClient
    <3>2. ASSUME result # Nothing
          PROVE  \/ pc'["client"] = "append"
                 \/ pc'["client"] \in {"emit", "write", "flush"} /\ line'["client"].type = "trial_end"
      <4>1. /\ active /\ file = "open" /\ line["client"].type = "trial_end"
            /\ pc["client"] \in {"emit", "write", "flush"}
        BY <1>2, <2>3, <3>2 DEF RecordStep, Update, Emit, Write, Flush
      <4>2. AfterCall("client") = "append"
        BY <4>1 DEF AfterCall
      <4>3. CASE pc["client"] \in {"emit", "write"}
        BY <1>0, <1>2, <2>3, <4>1, <4>3 DEF RecordStep, Update, Emit, Write, Flush
      <4>4. CASE pc["client"] = "flush"
        BY <1>0, <1>2, <2>3, <4>1, <4>2, <4>4 DEF RecordStep, Update, Emit, Write, Flush, Return
      <4>5. QED
        BY <4>1, <4>3, <4>4
    <3>3. QED
      BY <2>1, <3>1, <3>2
  <2>4. QED
    BY <2>2, <2>3
<1>3. CASE ClientNext
  <2>1. CASE \/ \E t \in Task : SubmitTask(t)
             \/ \E S \in SUBSET Task : SubmitBatch(S)
    BY <1>0, <2>1 DEF SubmitTask, SubmitBatch
  <2>2. CASE BatchNext
    BY <1>0, <2>2 DEF BatchNext
  <2>3. CASE Start \/ Reset
    BY <1>0, <2>3 DEF Start, Reset
  <2>4. CASE End
    <3>1. /\ active' = active /\ file' = file /\ row' = row /\ pc'["client"] = "emit"
          /\ line'["client"] = Line("trial_end", Nothing, Nothing)
      BY <1>0, <2>4 DEF End
    <3>2. active /\ file = "open" /\ row = Nothing
      BY <2>4 DEF End, ActiveOpen
    <3>3. line'["client"].type = "trial_end"
      BY <3>1 DEF Line, Noted
    <3>4. QED
      BY <3>1, <3>2, <3>3
  <2>5. CASE Activate \/ Close \/ Forget \/ Deactivate
    BY <1>0, <2>5 DEF Activate, Close, Forget, Deactivate
  <2>6. CASE AppendRow
    BY <1>0, <2>6 DEF AppendRow
  <2>7. CASE ClearQueue \/ ClearTracked \/ ResetNodes
    BY <1>0, <2>7 DEF ClearQueue, ClearTracked, ResetNodes
  <2>8. QED
    BY <1>3, <2>1, <2>2, <2>3, <2>4, <2>5, <2>6, <2>7 DEF ClientNext, ClientStep
<1>4. QED
  BY <1>1, <1>2, <1>3, NextSplit DEF OutsideNext

\* While the pipeline is at rest and the client submits nothing, it stays at rest.
LEMMA AtRestSteps ==
  ASSUME Types, AtRest, Next, ~Start,
         pc["client"] # "batch", active => pc["client"] # "idle"
  PROVE  /\ AtRest'
         /\ \A th \in Thread : RecordStep(th) => th \in {"client", "sampler"}
<1> USE DEF Moves, Goes, Call, trialVars, outVars, clientVars, tickVars, nodeVars, ghostVars
<1>0. /\ "client" \in Thread /\ pc \in [Thread -> Sections]
      /\ \A th \in Thread \ {"client", "sampler"} : pc[th] = "idle"
      /\ queue = {} /\ expired = {} /\ plan = {} /\ pool = {} /\ edge = {} /\ tracked = {}
      /\ finished = {}
  BY NamedThreads DEF AtRest, Types, RecorderTypes, PipelineTypes
<1>1. ~TickNext
  <2>1. pc["tick"] = "idle"
    BY <1>0, NamedThreads
  <2>2. QED
    BY <1>0, <2>1 DEF TickNext, Evict, EvictNext, Decide, Take
<1>2. NodeNext => Sample
  <2>1. /\ \A w \in Worker : pc[w] = "idle"
        /\ pc["poller"] = "idle"
    BY <1>0, NamedThreads, RecorderAssumption
  <2>2. ~Observe
    BY <2>1 DEF Observe
  <2>3. QED
    BY <1>0, <2>1, <2>2 DEF NodeNext, Admitted, Refused, Callback, Track, Finish, Poll
<1>3. \A th \in Thread : RecordStep(th) => th \in {"client", "sampler"}
  BY <1>0 DEF RecordStep, Update, Emit, Write, Flush
<1>4. CASE Sample
  <2>1. /\ \A u \in Thread \ {"client", "sampler"} : pc'[u] = pc[u]
        /\ UNCHANGED <<queue, expired, plan, pool, edge, tracked>>
    BY <1>0, <1>4 DEF Sample
  <2>2. QED
    BY <1>0, <1>3, <2>1 DEF AtRest
<1>5. ASSUME NEW th \in Thread, RecordStep(th) PROVE AtRest'
  <2>1. /\ queue' = queue /\ pool' = pool /\ edge' = edge /\ tracked' = tracked
        /\ expired' \subseteq expired /\ plan' \subseteq plan
    BY <1>5 DEF RecordStep, Update, Emit, Write, Flush, Raise, Abandon
  <2>2. \A u \in Thread \ {th} : pc'[u] = pc[u]
    BY <1>0, <1>5 DEF RecordStep, Update, Emit, Write, Flush, Return, Raise, Abandon
  <2>3. QED
    BY <1>0, <1>3, <1>5, <2>1, <2>2 DEF AtRest
<1>6. CASE ClientNext
  <2>1. ~BatchNext /\ ~End /\ (\A t \in Task : ~SubmitTask(t)) /\ (\A S \in SUBSET Task : ~SubmitBatch(S))
    BY DEF BatchNext, End, SubmitTask, SubmitBatch
  <2>2. CASE Reset \/ Activate \/ AppendRow \/ Close \/ Forget \/ Deactivate
    <3>1. UNCHANGED <<queue, expired, plan, pool, edge, tracked>>
      BY <2>2 DEF Reset, Activate, AppendRow, Close, Forget, Deactivate
    <3>2. \A u \in Thread \ {"client"} : pc'[u] = pc[u]
      BY <1>0, <2>2 DEF Reset, Activate, AppendRow, Close, Forget, Deactivate
    <3>3. QED
      BY <1>0, <1>3, <3>1, <3>2 DEF AtRest
  <2>3. CASE ClearQueue \/ ClearTracked \/ ResetNodes
    <3>1. /\ queue' \subseteq queue /\ edge' \subseteq edge /\ tracked' \subseteq tracked
          /\ UNCHANGED <<expired, plan, pool>>
      BY <2>3 DEF ClearQueue, ClearTracked, ResetNodes
    <3>2. \A u \in Thread \ {"client"} : pc'[u] = pc[u]
      BY <1>0, <2>3 DEF ClearQueue, ClearTracked, ResetNodes
    <3>3. QED
      BY <1>0, <1>3, <3>1, <3>2 DEF AtRest
  <2>4. QED
    BY <1>6, <2>1, <2>2, <2>3 DEF ClientNext, ClientStep
<1>7. QED
  BY <1>1, <1>2, <1>3, <1>4, <1>5, <1>6, NextSplit DEF OutsideNext

\* A result is computed by End only, and becomes the row.
LEMMA ResultSteps ==
  ASSUME Types, Ended, Next, ~End, result' # Nothing \/ row' # Nothing
  PROVE  /\ ~Start /\ (result # Nothing \/ row # Nothing)
         /\ pc["client"] # "batch" /\ (active => pc["client"] # "idle")
         /\ result' # Nothing => result' = result
         /\ row' # Nothing => \/ row' = row
                              \/ row' = result /\ result # Nothing
<1> USE DEF trialVars, outVars
<1>1. ~Start
  BY DEF Start, Ended
<1>2. (result' = result /\ row' = row) \/ AppendRow
  <2>1. CASE TickNext \/ NodeNext
    BY <2>1, TrialUntouched
  <2>2. CASE \E th \in Thread : RecordStep(th)
    BY <2>2, CallKeepsRow
  <2>3. CASE ClientNext
    BY <1>1, <2>3 DEF ClientNext, SubmitTask, SubmitBatch, Reset, ClientStep, BatchNext, Activate,
                Close, Forget, Deactivate, ClearQueue, ClearTracked, ResetNodes
  <2>4. QED
    BY <2>1, <2>2, <2>3, NextSplit DEF OutsideNext
<1>3. AppendRow => row' = result /\ result' = Nothing
  BY DEF AppendRow
<1>4. result # Nothing \/ row # Nothing
  BY <1>2, <1>3
<1>5. pc["client"] # "batch" /\ (active => pc["client"] # "idle")
  BY <1>4 DEF Ended
<1>6. /\ result' # Nothing => result' = result
      /\ row' # Nothing => row' = row \/ (row' = result /\ result # Nothing)
  BY <1>2, <1>3
<1>7. QED
  BY <1>1, <1>4, <1>5, <1>6

LEMMA RestStep ==
  ASSUME Types, Ended, RestAfterwards, Next
  PROVE  RestAfterwards'
<1>1. SUFFICES ASSUME Grace, result' # Nothing \/ row' # Nothing PROVE AtRest'
  BY DEF RestAfterwards
<1>2. CASE End
  BY <1>1, <1>2, NamedThreads
     DEF End, Goes, Moves, Settled, AtRest, Types, RecorderTypes, clientVars, tickVars, nodeVars
<1>3. CASE ~End
  <2>1. AtRest
    BY <1>1, <1>3, ResultSteps DEF RestAfterwards
  <2>2. QED
    BY <1>1, <1>3, <2>1, ResultSteps, AtRestSteps
<1>4. QED
  BY <1>2, <1>3

\* From the end of such a trial to the next one nothing about a task is written.
LEMMA LogAtRest ==
  ASSUME Types, Ended, SamplerSilent, RestAfterwards, Grace, Next, ~End,
         result' # Nothing \/ row' # Nothing
  PROVE  log' = log
<1>1. /\ ~Start /\ (result # Nothing \/ row # Nothing)
      /\ pc["client"] # "batch" /\ (active => pc["client"] # "idle")
  BY ResultSteps
<1>2. AtRest
  BY <1>1 DEF RestAfterwards
<1>3. ASSUME NEW th \in Thread, Write(th), line[th] \in TaskLine PROVE FALSE
  <2>1. th \in {"client", "sampler"} /\ pc[th] = "write"
    BY <1>1, <1>2, <1>3, AtRestSteps DEF RecordStep, Write
  <2>2. line[th].task # Nothing /\ line[th].type # "trial_end"
    BY <1>3, LineFields, RecorderAssumption
  <2>3. th = "client"
    BY <2>1, <2>2 DEF SamplerSilent
  <2>4. QED
    BY <1>1, <2>1, <2>2, <2>3 DEF Ended
<1>4. QED
  BY <1>1, <1>3, LogSteps

-----------------------------------------------------------------------------
\* Nothing gets lost

LEMMA HoldersStay ==
  ASSUME LinesInCalls, NEW t \in Task, NEW th \in Thread, SameThreads(th),
         pc[th] \notin {"callback", "update", "emit", "write", "flush", "track"}
  PROVE  \A u \in Thread : HeldBy(u, t) => HeldBy(u, t)'
<1>1. line[th].task # t
  BY RecorderAssumption DEF LinesInCalls
<1>2. QED
  BY <1>1 DEF HeldBy, SameThreads

LEMMA StaysInHand ==
  ASSUME NEW t \in Task, InHand(t),
         t \in queue \cup expired => InHand(t)',
         \A n \in Node : /\ <<t, n>> \in pool => InHand(t)'
                         /\ <<t, n>> \in tracked => InHand(t)',
         \A u \in Thread : HeldBy(u, t) => InHand(t)'
  PROVE  InHand(t)'
BY DEF InHand, InPool, IsTracked

\* The places do not lose the task.
LEMMA PlacesHold ==
  ASSUME NEW t \in Task, InHand(t),
         queue \cup expired \subseteq queue' \cup expired', pool \subseteq pool',
         tracked \subseteq tracked', \A u \in Thread : HeldBy(u, t) => HeldBy(u, t)'
  PROVE  InHand(t)'
BY DEF InHand, InPool, IsTracked

LEMMA OneGoes ==
  ASSUME Types, NEW th \in Thread, NEW to, pc' = [pc EXCEPT ![th] = to],
         line' = line \/ \E l : line' = [line EXCEPT ![th] = l]
  PROVE  SameThreads(th)
BY DEF SameThreads, Types, RecorderTypes

LEMMA HeldClient ==
  ASSUME Types, LinesInCalls, OpenInTrial, NEW t \in Task, active, file = "open", file' = "open",
         ClientNext
  PROVE  /\ InHand(t) => InHand(t)'
         /\ t \in sent' => t \in sent \/ InHand(t)'
<1> USE DEF Moves, Goes, Call, clientVars, tickVars, nodeVars
<1>0. "client" \in Thread
  BY NamedThreads
<1>1. queue \subseteq queue' /\ expired' = expired /\ pool' = pool /\ tracked' = tracked
      /\ (t \in sent' => t \in sent \/ t \in queue')
  BY DEF ClientNext, SubmitTask, SubmitBatch, Start, End, Reset, ClientStep, BatchNext, Activate,
         AppendRow, Close, Forget, Deactivate, ClearQueue, ClearTracked, ResetNodes, OpenInTrial
<1>2. \A u \in Thread : HeldBy(u, t) => HeldBy(u, t)'
  <2>1. CASE UNCHANGED <<pc, line>>
    BY <2>1 DEF HeldBy
  <2>2. CASE pc["client"] \in {"idle", "batch", "activate", "append", "close"} /\ SameThreads("client")
    BY <1>0, <2>2, HoldersStay
  <2>3. ~Start /\ ~Close /\ ~Forget /\ ~Deactivate /\ ~ClearQueue /\ ~ClearTracked /\ ~ResetNodes
    BY DEF Start, Close, Forget, Deactivate, ClearQueue, ClearTracked, ResetNodes, OpenInTrial
  <2>4. ASSUME NEW u \in Task, SubmitTask(u)
        PROVE  pc["client"] = "idle" /\ SameThreads("client")
    BY <1>0, <2>4, OneGoes DEF SubmitTask
  <2>5. ASSUME NEW S \in SUBSET Task, SubmitBatch(S)
        PROVE  pc["client"] = "idle" /\ SameThreads("client")
    BY <1>0, <2>5, OneGoes DEF SubmitBatch
  <2>6. ASSUME End \/ Reset \/ Activate \/ AppendRow
        PROVE  pc["client"] \in {"idle", "activate", "append"} /\ SameThreads("client")
    BY <1>0, <2>6, OneGoes DEF End, Reset, Activate, AppendRow
  <2>7. ASSUME BatchNext
        PROVE  UNCHANGED <<pc, line>> \/ (pc["client"] = "batch" /\ SameThreads("client"))
    BY <1>0, <2>7, OneGoes DEF BatchNext
  <2>8. QED
    BY <2>1, <2>2, <2>3, <2>4, <2>5, <2>6, <2>7 DEF ClientNext, ClientStep
<1>3. InHand(t) => InHand(t)'
  BY <1>1, <1>2, PlacesHold
<1>4. QED
  BY <1>1, <1>3 DEF InHand

LEMMA HeldTick ==
  ASSUME Types, LinesInCalls, NEW t \in Task, InHand(t), TickNext
  PROVE  InHand(t)'
<1> USE DEF Moves, Goes, Call, nodeVars
<1>0. "tick" \in Thread
  BY NamedThreads
<1>1. ASSUME NEW S \in SUBSET Task, Evict(S) PROVE InHand(t)'
  <2>1. \A u \in Thread : HeldBy(u, t) => HeldBy(u, t)'
    BY <1>1 DEF Evict, HeldBy
  <2>2. /\ queue \cup expired \subseteq queue' \cup expired'
        /\ pool' = pool /\ tracked' = tracked
    BY <1>1 DEF Evict
  <2>3. QED
    BY <2>1, <2>2, PlacesHold
<1>2. ASSUME NEW v \in Task, EvictNext(v) PROVE InHand(t)'
  <2>1. pc["tick"] = "idle" /\ SameThreads("tick")
    BY <1>0, <1>2, OneGoes DEF EvictNext
  <2>2. \A u \in Thread : HeldBy(u, t) => HeldBy(u, t)'
    BY <1>0, <2>1, HoldersStay
  <2>3. /\ queue' = queue /\ expired' = expired \ {v} /\ pool' = pool /\ tracked' = tracked
    BY <1>2 DEF EvictNext
  <2>4. v = t => HeldBy("tick", t)'
    BY <1>0, <1>2, LineParts DEF EvictNext, HeldBy, Types, RecorderTypes
  <2>5. CASE v = t
    BY <1>0, <2>4, <2>5 DEF InHand
  <2>6. CASE v # t
    BY <2>2, <2>3, <2>6 DEF InHand, InPool, IsTracked
  <2>7. QED
    BY <2>5, <2>6
<1>3. ASSUME NEW p \in Plans, Decide(p) PROVE InHand(t)'
  <2>1. pc["tick"] = "idle" /\ SameThreads("tick")
    BY <1>0, <1>3, OneGoes DEF Decide
  <2>2. \A u \in Thread : HeldBy(u, t) => HeldBy(u, t)'
    BY <1>0, <2>1, HoldersStay
  <2>3. UNCHANGED <<queue, expired, pool, tracked>>
    BY <1>3 DEF Decide
  <2>4. QED
    BY <2>2, <2>3, PlacesHold
<1>4. ASSUME NEW v \in Task, NEW n \in Node, Take(<<v, n>>) PROVE InHand(t)'
  <2>1. \A u \in Thread : HeldBy(u, t) => HeldBy(u, t)'
    BY <1>4 DEF Take, HeldBy
  <2>2. /\ queue' = queue \ {v} /\ expired' = expired /\ pool' = pool \cup {<<v, n>>}
        /\ tracked' = tracked
    BY <1>4 DEF Take
  <2>3. CASE v = t
    BY <2>2, <2>3 DEF InHand, InPool
  <2>4. CASE v # t
    BY <2>1, <2>2, <2>4 DEF InHand, InPool, IsTracked
  <2>5. QED
    BY <2>3, <2>4
<1>5. QED
  BY <1>1, <1>2, <1>3, <1>4 DEF TickNext

LEMMA HeldNode ==
  ASSUME Types, LinesInCalls, NEW t \in Task, InHand(t), active, NodeNext
  PROVE  InHand(t)'
<1> USE DEF Moves, Goes, Call, tickVars
<1>0. "poller" \in Thread /\ "sampler" \in Thread /\ Worker \subseteq Thread
  BY NamedThreads
<1>1. ASSUME NEW v \in Task, NEW n \in Node, NEW w \in Worker,
             Admitted(w, <<v, n>>) \/ Refused(w, <<v, n>>)
      PROVE  InHand(t)'
  <2>1. pc[w] = "idle" /\ SameThreads(w)
    BY <1>0, <1>1, OneGoes DEF Admitted, Refused
  <2>2. \A u \in Thread : HeldBy(u, t) => HeldBy(u, t)'
    BY <1>0, <2>1, HoldersStay
  <2>3. /\ queue \subseteq queue' /\ expired' = expired /\ pool' = pool \ {<<v, n>>}
        /\ tracked' = tracked
    BY <1>1 DEF Admitted, Refused
  <2>4. CASE v = t
    <3>1. CASE Admitted(w, <<v, n>>)
      <4>1. line'[w] = Dispatched(t, n)
        BY <1>0, <2>4, <3>1 DEF Admitted, Types, RecorderTypes
      <4>2. HeldBy(w, t)'
        BY <4>1, LineParts DEF HeldBy
      <4>3. QED
        BY <1>0, <4>2 DEF InHand
    <3>2. CASE Refused(w, <<v, n>>)
      BY <2>4, <3>2 DEF Refused, InHand
    <3>3. QED
      BY <1>1, <3>1, <3>2
  <2>5. CASE v # t
    BY <2>2, <2>3, <2>5 DEF InHand, InPool, IsTracked
  <2>6. QED
    BY <2>4, <2>5
<1>2. ASSUME NEW w \in Worker, Callback(w) PROVE InHand(t)'
  <2>1. pc[w] = "callback" /\ pc' = [pc EXCEPT ![w] = "update"] /\ line' = line
    BY <1>2 DEF Callback, Types, RecorderTypes
  <2>2. \A u \in Thread : HeldBy(u, t) => HeldBy(u, t)'
    BY <1>0, <2>1 DEF HeldBy, Types, RecorderTypes
  <2>3. UNCHANGED <<queue, expired, pool, tracked>>
    BY <1>2 DEF Callback, nodeVars
  <2>4. QED
    BY <2>2, <2>3, PlacesHold
<1>3. ASSUME NEW w \in Worker, Track(w) PROVE InHand(t)'
  <2>1. SameThreads(w) /\ w \in Thread
    BY <1>0, <1>3, OneGoes DEF Track
  <2>2. /\ UNCHANGED <<queue, expired, pool>>
        /\ tracked' = tracked \cup {<<line[w].task, line[w].node>>}
    BY <1>3 DEF Track
  <2>3. PICK v \in Task, n \in Node : line[w] = Dispatched(v, n)
    BY <1>3, <2>1 DEF Types, TracksDispatched, Track
  <2>4. <<v, n>> \in tracked'
    BY <2>2, <2>3, LineParts
  <2>5. CASE v = t
    BY <2>4, <2>5 DEF InHand, IsTracked
  <2>6. CASE v # t
    <3>1. ~HeldBy(w, t)
      BY <2>3, <2>6, LineParts DEF HeldBy
    <3>2. \A u \in Thread : HeldBy(u, t) => HeldBy(u, t)'
      BY <2>1, <3>1 DEF SameThreads, HeldBy
    <3>3. QED
      BY <2>2, <3>2, PlacesHold
  <2>7. QED
    BY <2>5, <2>6
<1>4. ASSUME NEW v \in Task, NEW n \in Node, Finish(<<v, n>>) PROVE InHand(t)'
  <2>1. \A u \in Thread : HeldBy(u, t) => HeldBy(u, t)'
    BY <1>4 DEF Finish, HeldBy
  <2>2. UNCHANGED <<queue, expired, pool, tracked>>
    BY <1>4 DEF Finish
  <2>3. QED
    BY <2>1, <2>2, PlacesHold
<1>5. ASSUME NEW n \in Node, Poll(n) PROVE InHand(t)'
  <2>1. pc["poller"] = "idle" /\ SameThreads("poller")
    BY <1>0, <1>5, OneGoes DEF Poll
  <2>2. \A u \in Thread : HeldBy(u, t) => HeldBy(u, t)'
    BY <1>0, <2>1, HoldersStay
  <2>3. UNCHANGED <<queue, expired, pool, tracked>>
    BY <1>5 DEF Poll
  <2>4. QED
    BY <2>2, <2>3, PlacesHold
<1>6. CASE Observe
  <2>1. pc["poller"] = "observe" /\ UNCHANGED <<queue, expired, pool>>
    BY <1>6 DEF Observe
  <2>2. (pc' = pc /\ line' = line) \/ SameThreads("poller")
    BY <1>0, <1>6, OneGoes DEF Observe
  <2>3. \A u \in Thread : HeldBy(u, t) => HeldBy(u, t)'
    <3>1. CASE pc' = pc /\ line' = line
      BY <3>1 DEF HeldBy
    <3>2. CASE SameThreads("poller")
      BY <1>0, <2>1, <3>2, HoldersStay
    <3>3. QED
      BY <2>2, <3>1, <3>2
  <2>4. CASE tracked' = tracked
    BY <2>1, <2>3, <2>4, PlacesHold
  <2>5. ASSUME NEW v \in Task, NEW n \in Node, tracked' = tracked \ {<<v, n>>}, <<v, n>> \in tracked,
               Call("poller", Completed(v, n))
        PROVE  InHand(t)'
    <3>1. CASE v = t
      <4>1. pc'["poller"] = "update" /\ line'["poller"] = Completed(t, n)
        BY <1>0, <2>5, <3>1 DEF Types, RecorderTypes
      <4>2. HeldBy("poller", t)'
        BY <4>1, LineParts DEF HeldBy
      <4>3. QED
        BY <1>0, <4>2 DEF InHand
    <3>2. CASE v # t
      BY <2>1, <2>3, <2>5, <3>2 DEF InHand, InPool, IsTracked
    <3>3. QED
      BY <3>1, <3>2
  <2>6. CASE tracked' # tracked
    <3>1. PICK a \in report : /\ tracked' = tracked \ {a} /\ a \in tracked
                              /\ Call("poller", Completed(a[1], a[2]))
      BY <1>6, <2>6 DEF Observe
    <3>2. a \in Task \X Node
      BY DEF Types, PipelineTypes
    <3>3. PICK v \in Task, n \in Node : a = <<v, n>>
      BY <3>2
    <3>4. QED
      BY <2>5, <3>1, <3>3
  <2>7. QED
    BY <2>4, <2>6
<1>7. CASE Sample
  <2>1. pc["sampler"] = "idle" /\ SameThreads("sampler")
    BY <1>0, <1>7, OneGoes DEF Sample
  <2>2. \A u \in Thread : HeldBy(u, t) => HeldBy(u, t)'
    BY <1>0, <2>1, HoldersStay
  <2>3. UNCHANGED <<queue, expired, pool, tracked>>
    BY <1>7 DEF Sample, nodeVars
  <2>4. QED
    BY <2>2, <2>3, PlacesHold
<1>8. QED
  BY <1>1, <1>2, <1>3, <1>4, <1>5, <1>6, <1>7 DEF NodeNext

\* A call leaves the task where it is, or has it completed or rejected.
LEMMA HeldCall ==
  ASSUME Types, LinesInCalls, NEW t \in Task, active, file = "open", t \notin disorder',
         SubmittedFirst(t), Held(t), NEW th \in Thread, RecordStep(th)
  PROVE  Held(t)'
<1>1. UNCHANGED <<sent, queue, expired, pool, tracked>>
  BY DEF RecordStep, Update, Emit, Write, Flush, clientVars, tickVars, nodeVars
<1>2. SameThreads(th)
  BY DEF RecordStep, Update, Emit, Write, Flush, Return, Moves, SameThreads, Types, RecorderTypes
<1>3. line[th].type = "task_dispatched" => line'[th] = line[th]
  BY DEF RecordStep, Update, Emit, Write, Flush, Return
<1>4. \A u \in Thread : HeldBy(u, t) =>
        \/ HeldBy(u, t)'
        \/ u = th /\ pc[th] = "update" /\ line[th].type \in {"task_evicted", "task_completed"}
  BY <1>2, <1>3 DEF HeldBy, SameThreads
<1>5. \/ InHand(t) => InHand(t)'
      \/ /\ pc[th] = "update" /\ line[th].type \in {"task_evicted", "task_completed"}
         /\ line[th].task = t
  BY <1>1, <1>4 DEF InHand, InPool, IsTracked, HeldBy
<1>6. CASE ~Updating(th, t)
  <2>1. record'[t] = record[t] /\ ~(pc[th] = "update" /\ line[th].task = t)
    <3>1. record'[t] = record[t] /\ LinesOf(t)' = LinesOf(t)
      BY <1>6, RecordInCall
    <3>2. ASSUME pc[th] = "update", line[th].task = t PROVE Updating(th, t)
      <4>1. LinesOf(t)' = LinesOf(t) \cup {line[th]}
        BY <3>2, LinesInCall
      <4>2. /\ record' = [record EXCEPT ![t] = Recorded(@, line[th])]
            /\ disorder' = IF Overtakes(line[th]) THEN disorder \cup {t} ELSE disorder
        BY <3>2, RecorderAssumption DEF RecordStep, Update, Emit, Write, Flush
      <4>3. record'[t] = Recorded(record[t], line[th])
        BY <4>2 DEF Types, RecorderTypes
      <4>4. ~Overtakes(line[th])
        BY <4>2
      <4>5. QED
        BY <3>2, <4>1, <4>3, <4>4, RecorderAssumption DEF Updating, Overtakes
    <3>3. QED
      BY <1>6, <3>1, <3>2
  <2>2. QED
    BY <1>1, <1>5, <2>1 DEF Held, IsOver
<1>7. CASE Updating(th, t)
  <2>1. PICK rec, new : rec = record[t] /\ new = record'[t] /\ new = Recorded(rec, line[th])
    BY <1>7 DEF Updating
  <2>2. rec \in TaskRecord
    BY <2>1 DEF Types, RecorderTypes
  <2>3. CASE line[th].type \in {"task_evicted", "task_completed"}
    <3>1. line[th] = Evicted(t) \/ \E n \in Node : line[th] = Completed(t, n)
      <4>1. line[th] \in TaskLine \cup SilentLine /\ line[th].task = t
        BY <1>7 DEF Updating, Types, RecorderTypes
      <4>2. QED
        BY <2>3, <4>1, LineIs, LineParts
    <3>2. rec # NoRecord
      BY <1>7, <2>1, <2>3 DEF Updating
    <3>3. new.status \in {"rejected", "completed"}
      BY <2>1, <2>2, <3>1, <3>2, RecordedIs
    <3>4. QED
      BY <2>1, <3>3 DEF Held, IsOver
  <2>4. CASE line[th].type = "task_submitted"
    <3>1. ToSubmit(t)
      <4>1. line[th] \in TaskLine \cup SilentLine /\ line[th].task = t /\ pc[th] = "update"
        BY <1>7 DEF Updating, Types, RecorderTypes
      <4>2. line[th] = Submitted(t)
        BY <2>4, <4>1, LineIs, LineParts
      <4>3. QED
        BY <4>1, <4>2 DEF ToSubmit
    <3>2. ~IsOver(record[t])
      BY <3>1, RecorderAssumption DEF SubmittedFirst, NoRecord, IsOver
    <3>3. QED
      BY <1>1, <1>5, <2>4, <3>2 DEF Held
  <2>5. CASE line[th].type = "task_dispatched"
    <3>1. HeldBy(th, t)'
      BY <1>3, <1>7, <2>5 DEF HeldBy, Updating
    <3>2. QED
      BY <3>1 DEF Held, InHand
  <2>6. line[th].type \in {"task_submitted", "task_dispatched", "task_evicted", "task_completed"}
    <3>1. line[th] \in TaskLine \cup SilentLine /\ line[th].task = t /\ line[th].type # "task_rejected"
      BY <1>7 DEF Updating, Types, RecorderTypes
    <3>2. QED
      BY <3>1, LineIs, LineParts
  <2>7. QED
    BY <2>3, <2>4, <2>5, <2>6
<1>8. QED
  BY <1>6, <1>7

LEMMA HeldStep ==
  ASSUME AgreeInv, HeldInv, Next
  PROVE  HeldInv'
<1>1. Types /\ LinesInCalls /\ OpenInTrial /\ QuietStart /\ LifeInv
  BY DEF AgreeInv, LifeInv, RecorderInv, CallInv
<1>2. SUFFICES ASSUME clean', file' = "open", NEW t \in Task, t \notin disorder'
               PROVE  Held(t)'
  BY DEF HeldInv
<1>3. CASE Start
  BY <1>3 DEF Start, Held
<1>4. CASE ~Start
  <2>1. clean /\ t \notin disorder /\ file = "open"
    BY <1>1, <1>2, <1>4, NoStart
  <2>2. Held(t) /\ SubmittedFirst(t)
    BY <2>1 DEF HeldInv, AgreeInv, ReplayInv, RecordSays
  <2>3. CASE ~active
    <3>1. Activate
      BY <1>1, <2>1, <2>3, OnlyActivate
    <3>2. /\ pc["client"] = "activate" /\ SameThreads("client")
          /\ UNCHANGED <<record, sent, queue, expired, pool, tracked>>
      BY <1>1, <3>1, NamedThreads, OneGoes
         DEF Activate, Goes, Moves, clientVars, tickVars, nodeVars
    <3>3. InHand(t) => InHand(t)'
      BY <1>1, <3>2, NamedThreads, HoldersStay, PlacesHold
    <3>4. QED
      BY <2>2, <3>2, <3>3 DEF Held
  <2>4. CASE active /\ OutsideNext
    <3>1. record' = record
      BY <1>1, <1>4, <2>1, <2>4, RecordOutside
    <3>2. /\ InHand(t) => InHand(t)'
          /\ t \in sent' => t \in sent \/ InHand(t)'
      BY <1>1, <1>2, <2>1, <2>4, HeldClient, HeldTick, HeldNode, ClientUntouched DEF OutsideNext
    <3>3. QED
      BY <2>2, <3>1, <3>2 DEF Held
  <2>5. ASSUME active, NEW th \in Thread, RecordStep(th) PROVE Held(t)'
    BY <1>1, <1>2, <2>1, <2>2, <2>5, HeldCall
  <2>6. QED
    BY <2>3, <2>4, <2>5, NextSplit
<1>5. QED
  BY <1>3, <1>4

\* When everything has settled, the record is what the replay gives, and every task
\* in it is completed or rejected.
LEMMA SettledIsOver ==
  ASSUME AgreeInv, ActiveOpen, SamplerSilent, HeldInv, End, Grace, NEW t \in Task, InOrder(t)
  PROVE  /\ Replay(log)[t].status = record[t].status /\ Replay(log)[t].node = record[t].node
         /\ record[t] # NoRecord <=> record[t].status \in {"completed", "rejected"}
         /\ record[t].status # "dispatched"
<1>1. active /\ file = "open" /\ Settled /\ clean /\ t \notin disorder
  BY DEF End, Goes, ActiveOpen, InOrder
<1>2. Types /\ LinesInCalls
  BY DEF AgreeInv, LifeInv, RecorderInv, CallInv
<1>3. \A th \in Thread : line[th].task # t
  <2>1. \A th \in Thread \ {"sampler"} : pc[th] = "idle"
    BY <1>1 DEF Settled
  <2>2. QED
    BY <1>2, <2>1, RecorderAssumption DEF LinesInCalls, SamplerSilent
<1>4. Replay(log)[t].status = record[t].status /\ Replay(log)[t].node = record[t].node
  BY <1>1, <1>3, AgreeGivesReplay DEF ReplayAgrees, HalfRecorded
<1>5. ~InHand(t)
  BY <1>1, <1>3 DEF InHand, InPool, IsTracked, HeldBy, Settled
<1>6. t \in sent => IsOver(record[t])
  BY <1>1, <1>5 DEF HeldInv, Held
<1>7. t \notin sent => record[t] = NoRecord
  BY <1>1 DEF AgreeInv, ReplayInv, RecordSays, SubmittedFirst, ToSubmit
<1>8. NoRecord.status \notin {"completed", "rejected", "dispatched"}
  BY RecorderAssumption DEF NoRecord
<1>9. QED
  BY <1>4, <1>6, <1>7, <1>8 DEF IsOver

LEMMA ResultCounts ==
  ASSUME AgreeInv, ActiveOpen, SamplerSilent, HeldInv, End, Grace, \A t \in Task : InOrder(t)
  PROVE  Counts(Result, Replay(log))
<1> DEFINE C == {t \in Task : record[t].status = "completed"}
           R == {t \in Task : record[t].status = "rejected"}
<1>1. \A t \in Task :
        /\ Replay(log)[t].status = record[t].status /\ Replay(log)[t].node = record[t].node
        /\ record[t] # NoRecord <=> record[t].status \in {"completed", "rejected"}
        /\ record[t].status # "dispatched"
  BY SettledIsOver
<1>2. /\ C = {t \in Task : Replay(log)[t].status = "completed"}
      /\ R = {t \in Task : Replay(log)[t].status = "rejected"}
      /\ C = WithStatus({"completed"}) /\ R = WithStatus({"rejected"})
      /\ {t \in Task : record[t] # NoRecord} = C \cup R
  BY <1>1 DEF WithStatus
<1>3. \A n \in Node :
        {t \in WithStatus({"completed", "dispatched"}) : record[t].node = n}
          = {t \in Task : Replay(log)[t].status = "completed" /\ Replay(log)[t].node = n}
  BY <1>1 DEF WithStatus
<1>4. Cardinality(C \cup R) = Cardinality(C) + Cardinality(R)
  <2>1. IsFiniteSet(C) /\ IsFiniteSet(R)
    BY RecorderAssumption, FS_Subset
  <2>2. C \cap R = {}
    OBVIOUS
  <2> HIDE DEF C, R
  <2>3. Cardinality(C \cup R) = Cardinality(C) + Cardinality(R) - Cardinality({})
    BY <2>1, <2>2, FS_Union
  <2>4. Cardinality({}) = 0 /\ Cardinality(C) \in Nat /\ Cardinality(R) \in Nat
    BY <2>1, FS_EmptySet, FS_CardinalityType
  <2>5. QED
    BY <2>3, <2>4
<1> HIDE DEF C, R
<1>5. /\ Result.completed = Cardinality(C) /\ Result.rejected = Cardinality(R)
      /\ Result.total = Cardinality(C \cup R)
      /\ \A n \in Node :
           Result.perNode[n] = Cardinality({t \in WithStatus({"completed", "dispatched"}) : record[t].node = n})
  BY <1>2 DEF Result
<1>6. QED
  BY <1>2, <1>3, <1>4, <1>5 DEF Counts

LEMMA RowTellsStep ==
  ASSUME RowInv, Next
  PROVE  RowTells'
<1>1. /\ Types /\ AgreeInv /\ ActiveOpen /\ SamplerSilent /\ HeldInv /\ Ended /\ RestAfterwards
      /\ RowTells
  BY DEF RowInv, RowParts, AgreeInv, LifeInv, RecorderInv
<1>2. SUFFICES ASSUME Grace, \A t \in Task : InOrder(t)', result' # Nothing \/ row' # Nothing
               PROVE  /\ result' # Nothing => Counts(result', Replay(log'))
                      /\ row' # Nothing => Counts(row', Replay(log'))
  BY DEF RowTells
<1>3. CASE End
  <2>1. /\ result' = Result /\ log' = log /\ row' = row /\ \A t \in Task : InOrder(t)
        /\ active /\ pc["client"] = "idle"
    BY <1>2, <1>3 DEF End, Goes, InOrder, outVars, ghostVars
  <2>2. row = Nothing
    BY <1>1, <2>1 DEF Ended
  <2>3. Counts(Result, Replay(log))
    BY <1>1, <1>2, <1>3, <2>1, ResultCounts
  <2>4. QED
    BY <2>1, <2>2, <2>3
<1>4. CASE ~End
  <2>1. /\ ~Start
        /\ result' # Nothing => result' = result
        /\ row' # Nothing => \/ row' = row
                             \/ row' = result /\ result # Nothing
    BY <1>1, <1>2, <1>4, ResultSteps
  <2>2. log' = log
    BY <1>1, <1>2, <1>4, LogAtRest
  <2>3. \A t \in Task : InOrder(t)
    BY <1>1, <1>2, <2>1, NoStart DEF InOrder
  <2>4. /\ result # Nothing => Counts(result, Replay(log))
        /\ row # Nothing => Counts(row, Replay(log))
    BY <1>1, <1>2, <2>3 DEF RowTells
  <2>5. QED
    BY <2>1, <2>2, <2>4
<1>5. QED
  BY <1>3, <1>4

LEMMA RowStep == RowInv /\ [Next]_vars => RowInv'
<1> SUFFICES ASSUME RowInv, [Next]_vars PROVE RowInv'
  OBVIOUS
<1>1. AgreeInv'
  BY AgreeStep DEF RowInv
<1>2. CASE Next
  <2>1. Types
    BY DEF RowInv, AgreeInv, LifeInv, RecorderInv
  <2>2. RowParts'
    BY <1>2, <2>1, ActiveOpenStep, SamplerStep, HeldStep, EndedStep, RestStep DEF RowInv, RowParts
  <2>3. QED
    BY <1>1, <1>2, <2>2, RowTellsStep DEF RowInv
<1>3. CASE UNCHANGED vars
  <2>1. /\ UNCHANGED <<active, record, file, log, result, row, pc, line>>
        /\ UNCHANGED <<sent, queue, expired, plan, pool, edge, tracked, disorder, clean>>
    BY <1>3 DEF vars, trialVars, outVars, clientVars, tickVars, nodeVars, ghostVars
  <2>2. \A t \in Task : Held(t)' <=> Held(t)
    BY <2>1 DEF Held, InHand, InPool, IsTracked, HeldBy
  <2>3. ActiveOpen' /\ SamplerSilent' /\ Ended' /\ HeldInv'
    BY <2>1, <2>2 DEF RowInv, RowParts, ActiveOpen, SamplerSilent, Ended, HeldInv
  <2>4. RestAfterwards'
    BY <2>1 DEF RowInv, RowParts, RestAfterwards, AtRest
  <2>5. RowTells'
    BY <2>1 DEF RowInv, RowTells, InOrder
  <2>6. QED
    BY <1>1, <2>3, <2>4, <2>5 DEF RowInv, RowParts
<1>4. QED
  BY <1>2, <1>3

LEMMA RowInit == Init => RowInv
BY AgreeInit, NamedThreads, LineParts
   DEF Init, RowInv, RowParts, ActiveOpen, SamplerSilent, HeldInv, Ended, RestAfterwards, RowTells

LEMMA RowTellsLog == RowInv => RowAgreesWithLog
BY DEF RowInv, RowTells, RowAgreesWithLog, Counts

\* The row of a run that is ended when everything has settled counts what the log of
\* the run tells, and every task in it is completed or rejected: nothing the client
\* submitted got lost on its way.
THEOREM RowCountsLog == Spec => []RowAgreesWithLog
BY RowInit, RowStep, RowTellsLog, PTL DEF Spec
=============================================================================
