--------------------------- MODULE AnalysisProofs ---------------------------
(***************************************************************************)
(* What is made of the trials: what the replay of an event log makes of a   *)
(* task, said of the lines of the log (RecTells, by induction over the      *)
(* lines), and from it what the assertions of a verification test amount    *)
(* to; the counts of the verification report; the ranks of the paired       *)
(* test; the curves of the plots; the columns of a trial's row; and the     *)
(* timeline that the trials are run from (Good, by induction over the       *)
(* entries of a scenario).                                                  *)
(***************************************************************************)
EXTENDS Analysis, LoadTheorems

-----------------------------------------------------------------------------
\* The replay

\* The records after i lines, from those after i - 1.
RecordsAfter(f, h, i) ==
  IF i = 0 THEN [t \in Task |-> NoRecord]
  ELSE [t \in Task |->
         IF h[i].task = t THEN Absorb(f[i - 1][t], h[i], i) ELSE f[i - 1][t]]

Replays(f, h, n) == f = [i \in 0..n |-> RecordsAfter(f, h, i)]

LEMMA ReplaysExist == ASSUME NEW h, NEW n \in Nat PROVE \E f : Replays(f, h, n)
<1> DEFINE S == {m \in Nat : ~\E f : Replays(f, h, m)}
<1>1. SUFFICES ASSUME S # {} PROVE FALSE
  OBVIOUS
<1>2. PICK m \in S : \A k \in S : ~(k < m)
  BY <1>1, LeastMember
<1>3. m \in Nat /\ ~\E f : Replays(f, h, m)
  BY <1>2
<1>4. CASE m = 0
  <2>1. Replays([i \in 0..0 |-> [t \in Task |-> NoRecord]], h, 0)
    BY DEF Replays, RecordsAfter
  <2>2. QED
    BY <1>3, <1>4, <2>1
<1>5. CASE m # 0
  <2>1. m - 1 \in Nat /\ m - 1 < m
    BY <1>3, <1>5
  <2>2. PICK g : Replays(g, h, m - 1)
    BY <1>2, <2>1
  <2> DEFINE f == [i \in 0..m |-> IF i = m THEN RecordsAfter(g, h, m) ELSE g[i]]
  <2>3. \A i \in 0..m - 1 : f[i] = g[i] /\ g[i] = RecordsAfter(g, h, i)
    BY <1>3, <2>1, <2>2 DEF Replays
  <2>4. \A i \in 0..m : (i # 0 => i - 1 \in 0..m - 1) /\ (i # m => i \in 0..m - 1)
    BY <1>3
  <2>5. f[m] = RecordsAfter(g, h, m) /\ f = [i \in 0..m |-> f[i]]
    BY <1>3
  <2> HIDE DEF f
  <2>6. \A i \in 0..m : RecordsAfter(g, h, i) = RecordsAfter(f, h, i)
    BY <2>3, <2>4 DEF RecordsAfter
  <2>7. \A i \in 0..m : f[i] = RecordsAfter(f, h, i)
    BY <2>3, <2>4, <2>5, <2>6
  <2>8. Replays(f, h, m)
    BY <2>5, <2>7 DEF Replays
  <2>9. QED
    BY <1>3, <2>8
<1>6. QED
  BY <1>4, <1>5

LEMMA ReplayIs ==
  ASSUME NEW h, Len(h) \in Nat
  PROVE  \E f : Replays(f, h, Len(h)) /\ Replay(h) = f[Len(h)]
<1>1. Replay(h) = (CHOOSE f : Replays(f, h, Len(h)))[Len(h)]
  BY DEF Replay, Replays, RecordsAfter
<1>2. QED
  BY <1>1, ReplaysExist

-----------------------------------------------------------------------------
\* Lines

\* The lines that are about a task, and those a log has besides.
AboutTasks == TaskLine \cup NodeErrors

IsLog(log) ==
  \E other : /\ \A entry \in other : entry.task = Nothing
             /\ log \in Seq(AboutTasks \cup other)

LEMMA LogShape ==
  ASSUME NEW log, IsLog(log)
  PROVE  /\ Len(log) \in Nat /\ DOMAIN log = 1..Len(log)
         /\ \A i \in 1..Len(log) : log[i] \in AboutTasks \/ log[i].task = Nothing
BY DEF IsLog

TaskRecord ==
  [status : {"pending", "dispatched", "completed", "rejected", Nothing},
   node : Node \cup {Nothing}, known : BOOLEAN, since : Nat]

LEMMA NothingIsNoName ==
  /\ Nothing \notin Task /\ Nothing \notin Node /\ Nothing \notin Classes
  /\ Nothing \notin {"pending", "dispatched", "completed", "rejected"}
BY VerificationAssumption DEF Terminal

\* What a line about a task is absorbed into.
Becomes(rec, new, entry, t, i) ==
  \/ /\ entry = Submitted(t) /\ entry.type = "task_submitted"
     /\ new = [rec EXCEPT !.known = TRUE,
                          !.status = IF rec.status = Nothing THEN "pending" ELSE rec.status]
  \/ /\ entry.type = "task_evicted"
     /\ new = [rec EXCEPT !.status = "rejected"]
  \/ /\ entry.type = "task_dispatched" /\ entry.node \in Node
     /\ new = [rec EXCEPT !.since = i, !.node = entry.node, !.status = "dispatched"]
  \/ /\ entry.type = "task_rejected" /\ entry.node \in Node
     /\ new = [rec EXCEPT !.status = "rejected", !.node = entry.node]
  \/ /\ entry.type = "task_completed" /\ entry.node \in Node
     /\ new = [rec EXCEPT !.status = "completed",
                          !.node = IF rec.node = Nothing THEN entry.node ELSE rec.node]

LEMMA LineBecomes ==
  ASSUME NEW rec \in TaskRecord, NEW i \in Nat, NEW entry \in AboutTasks, NEW t \in Task, entry.task = t
  PROVE  Becomes(rec, Absorb(rec, entry, i), entry, t, i)
<1> USE NothingIsNoName
<1>1. CASE entry = Submitted(t)
  <2>1. entry.type = "task_submitted"
    BY <1>1 DEF Submitted, Line, Noted
  <2>2. Absorb(rec, entry, i) = AbsorbSubmitted(rec)
    BY <2>1 DEF Absorb
  <2>3. QED
    BY <1>1, <2>1, <2>2 DEF Becomes, AbsorbSubmitted, TaskRecord
<1>2. CASE entry = Evicted(t)
  <2>1. entry.type = "task_evicted" /\ entry.node = Nothing
    BY <1>2 DEF Evicted, Line, Noted
  <2>2. Absorb(rec, entry, i) = AbsorbRejected(rec, Nothing)
    BY <2>1 DEF Absorb
  <2>3. AbsorbRejected(rec, Nothing) = [rec EXCEPT !.status = "rejected"]
    BY DEF AbsorbRejected, TaskRecord
  <2>4. QED
    BY <2>1, <2>2, <2>3 DEF Becomes
<1>3. ASSUME NEW n \in Node, entry = Dispatched(t, n) PROVE Becomes(rec, Absorb(rec, entry, i), entry, t, i)
  <2>1. entry.type = "task_dispatched" /\ entry.node = n
    BY <1>3 DEF Dispatched, Line, Noted
  <2>2. Absorb(rec, entry, i) = AbsorbDispatched(rec, n, i)
    BY <2>1 DEF Absorb
  <2>3. QED
    BY <2>1, <2>2 DEF Becomes, AbsorbDispatched
<1>4. ASSUME NEW n \in Node, entry \in {Rejected(t, n), NodeError(t, n)}
      PROVE  Becomes(rec, Absorb(rec, entry, i), entry, t, i)
  <2>1. entry.type = "task_rejected" /\ entry.node = n
    BY <1>4 DEF Rejected, NodeError, Line, Noted
  <2>2. Absorb(rec, entry, i) = AbsorbRejected(rec, n)
    BY <2>1 DEF Absorb
  <2>3. AbsorbRejected(rec, n) = [rec EXCEPT !.status = "rejected", !.node = n]
    BY DEF AbsorbRejected, TaskRecord
  <2>4. QED
    BY <2>1, <2>2, <2>3 DEF Becomes
<1>5. ASSUME NEW n \in Node, entry = Completed(t, n) PROVE Becomes(rec, Absorb(rec, entry, i), entry, t, i)
  <2>1. entry.type = "task_completed" /\ entry.node = n
    BY <1>5 DEF Completed, Line, Noted
  <2>2. Absorb(rec, entry, i) = AbsorbCompleted(rec, n)
    BY <2>1 DEF Absorb
  <2>3. AbsorbCompleted(rec, n) =
          [rec EXCEPT !.status = "completed", !.node = IF rec.node = Nothing THEN n ELSE rec.node]
    BY DEF AbsorbCompleted, TaskRecord
  <2>4. QED
    BY <2>1, <2>2, <2>3 DEF Becomes
<1>6. \/ entry = Submitted(t) \/ entry = Evicted(t)
      \/ \E n \in Node : entry \in {Dispatched(t, n), Rejected(t, n), NodeError(t, n), Completed(t, n)}
  <2>1. /\ \A u : Submitted(u).task = u /\ Evicted(u).task = u
        /\ \A u, n : /\ Dispatched(u, n).task = u /\ Rejected(u, n).task = u
                     /\ NodeError(u, n).task = u /\ Completed(u, n).task = u
    BY DEF Submitted, Evicted, Dispatched, Rejected, NodeError, Completed, Line, Noted
  <2>2. QED
    BY <2>1 DEF AboutTasks, TaskLine, NodeErrors
<1>7. QED
  BY <1>1, <1>2, <1>3, <1>4, <1>5, <1>6

LEMMA BecomesTyped ==
  ASSUME NEW rec \in TaskRecord, NEW i \in Nat, NEW entry, NEW t, NEW new, Becomes(rec, new, entry, t, i)
  PROVE  new \in TaskRecord
BY DEF Becomes, TaskRecord

-----------------------------------------------------------------------------
\* What a record tells of the lines so far

\* The lines about a task among the first i.
Upto(log, i, t, kinds) == {j \in 1..i : log[j].task = t /\ log[j].type \in kinds}

IsLast(j, S) == j \in S /\ \A k \in S : k <= j
IsFirst(j, S) == j \in S /\ \A k \in S : j <= k

StatusAfter(type) ==
  IF type = "task_dispatched" THEN "dispatched"
  ELSE IF type = "task_completed" THEN "completed" ELSE "rejected"

SinceTells(rec, sent) == IF sent = {} THEN rec.since = 0 ELSE IsLast(rec.since, sent)

NodeTells(rec, log, asked, told) ==
  IF asked # {} THEN \E j : IsLast(j, asked) /\ rec.node = log[j].node /\ rec.node \in Node
  ELSE IF told # {} THEN \E j : IsFirst(j, told) /\ rec.node = log[j].node /\ rec.node \in Node
  ELSE rec.node = Nothing

StatusTells(rec, log, said) ==
  IF said = {} THEN rec.status \in {"pending", Nothing}
  ELSE \E j : IsLast(j, said) /\ rec.status = StatusAfter(log[j].type)

RecTells(rec, log, i, t) ==
  /\ rec \in TaskRecord
  /\ IF \E j \in 1..i : log[j].task = t THEN rec.status # Nothing ELSE rec = NoRecord
  /\ rec.known <=> \E j \in 1..i : log[j] = Submitted(t)
  /\ SinceTells(rec, Upto(log, i, t, {"task_dispatched"}))
  /\ NodeTells(rec, log, Upto(log, i, t, Placed), Upto(log, i, t, {"task_completed"}))
  /\ StatusTells(rec, log, Upto(log, i, t, Ended \cup {"task_dispatched"}))

\* One line more.
LEMMA UptoNext ==
  ASSUME NEW log, NEW i \in Nat \ {0}, NEW t, NEW kinds
  PROVE  /\ Upto(log, i, t, kinds) =
              IF log[i].task = t /\ log[i].type \in kinds
              THEN Upto(log, i - 1, t, kinds) \cup {i} ELSE Upto(log, i - 1, t, kinds)
         /\ Upto(log, i - 1, t, kinds) \subseteq 1..i - 1
<1>1. 1..i = (1..i - 1) \cup {i}
  OBVIOUS
<1>2. QED
  BY <1>1 DEF Upto

LEMMA LastNext ==
  ASSUME NEW i \in Nat \ {0}, NEW S \in SUBSET (1..i - 1)
  PROVE  /\ IsLast(i, S \cup {i})
         /\ S = {} => IsFirst(i, S \cup {i})
         /\ \A j : IsFirst(j, S) => IsFirst(j, S \cup {i})
<1>1. \A k \in S : k \in Int /\ k <= i
  OBVIOUS
<1>2. IsLast(i, S \cup {i})
  BY <1>1 DEF IsLast
<1>3. S = {} => IsFirst(i, S \cup {i})
  BY DEF IsFirst
<1>4. ASSUME NEW j, IsFirst(j, S) PROVE IsFirst(j, S \cup {i})
  BY <1>1, <1>4 DEF IsFirst
<1>5. QED
  BY <1>2, <1>3, <1>4

\* A line about another task, or about none.
LEMMA AnotherTask ==
  ASSUME NEW log, NEW i \in Nat \ {0}, NEW t, NEW rec, RecTells(rec, log, i - 1, t), log[i].task # t
  PROVE  RecTells(rec, log, i, t)
<1>1. \A kinds : Upto(log, i, t, kinds) = Upto(log, i - 1, t, kinds)
  BY UptoNext
<1>2. 1..i = (1..i - 1) \cup {i} /\ Submitted(t).task = t
  BY DEF Submitted, Line, Noted
<1>3. /\ (\E j \in 1..i : log[j].task = t) <=> (\E j \in 1..i - 1 : log[j].task = t)
      /\ (\E j \in 1..i : log[j] = Submitted(t)) <=> (\E j \in 1..i - 1 : log[j] = Submitted(t))
  BY <1>2
<1>4. QED
  BY <1>1, <1>3 DEF RecTells

LEMMA ThisTask ==
  ASSUME NEW log, NEW i \in Nat \ {0}, NEW t \in Task, NEW rec, NEW new,
         RecTells(rec, log, i - 1, t), log[i].task = t, Becomes(rec, new, log[i], t, i)
  PROVE  RecTells(new, log, i, t)
<1> DEFINE U(kinds) == Upto(log, i - 1, t, kinds)
           V(kinds) == Upto(log, i, t, kinds)
           type == log[i].type
<1>1. \A kinds : /\ U(kinds) \in SUBSET (1..i - 1)
                 /\ V(kinds) = IF type \in kinds THEN U(kinds) \cup {i} ELSE U(kinds)
  BY UptoNext
<1>2. rec \in TaskRecord /\ new \in TaskRecord
  BY BecomesTyped DEF RecTells
<1>3. /\ Placed = {"task_dispatched", "task_rejected"}
      /\ Ended = {"task_completed", "task_rejected", "task_evicted"}
  BY DEF Placed, Ended
<1> HIDE DEF U, V
<1>4. SinceTells(new, V({"task_dispatched"}))
  <2>1. SinceTells(rec, U({"task_dispatched"}))
    BY DEF RecTells, U
  <2>2. CASE type = "task_dispatched"
    <3>1. new.since = i
      BY <1>2, <2>2 DEF Becomes, TaskRecord
    <3>2. V({"task_dispatched"}) = U({"task_dispatched"}) \cup {i}
      BY <1>1, <2>2
    <3>3. QED
      BY <1>1, <3>1, <3>2, LastNext DEF SinceTells
  <2>3. CASE type # "task_dispatched"
    <3>1. new.since = rec.since
      BY <1>2, <2>3 DEF Becomes, TaskRecord
    <3>2. V({"task_dispatched"}) = U({"task_dispatched"})
      BY <1>1, <2>3
    <3>3. QED
      BY <2>1, <3>1, <3>2 DEF SinceTells
  <2>4. QED
    BY <2>2, <2>3
<1>5. NodeTells(new, log, V(Placed), V({"task_completed"}))
  <2>1. NodeTells(rec, log, U(Placed), U({"task_completed"}))
    BY DEF RecTells, U
  <2>2. CASE type \in Placed
    <3>1. new.node = log[i].node /\ new.node \in Node
      BY <1>2, <1>3, <2>2 DEF Becomes, TaskRecord
    <3>2. V(Placed) = U(Placed) \cup {i}
      BY <1>1, <2>2
    <3>3. QED
      BY <1>1, <3>1, <3>2, LastNext, ZenonT(40) DEF NodeTells
  <2>3. CASE type = "task_completed"
    <3>1. log[i].node \in Node /\ new.node = IF rec.node = Nothing THEN log[i].node ELSE rec.node
      BY <1>2, <2>3 DEF Becomes, TaskRecord
    <3>2. V(Placed) = U(Placed) /\ V({"task_completed"}) = U({"task_completed"}) \cup {i}
      BY <1>1, <1>3, <2>3
    <3>3. CASE rec.node = Nothing
      <4>1. U(Placed) = {} /\ U({"task_completed"}) = {}
        BY <2>1, <3>3, NothingIsNoName DEF NodeTells
      <4>2. QED
        BY <1>1, <3>1, <3>2, <3>3, <4>1, LastNext DEF NodeTells
    <3>4. CASE rec.node # Nothing
      <4>1. U(Placed) # {} \/ U({"task_completed"}) # {}
        BY <2>1, <3>4 DEF NodeTells
      <4>2. QED
        BY <1>1, <2>1, <3>1, <3>2, <3>4, <4>1, LastNext DEF NodeTells
    <3>5. QED
      BY <3>3, <3>4
  <2>4. CASE type \notin Placed \cup {"task_completed"}
    <3>1. new.node = rec.node
      BY <1>2, <1>3, <2>4 DEF Becomes, TaskRecord
    <3>2. V(Placed) = U(Placed) /\ V({"task_completed"}) = U({"task_completed"})
      BY <1>1, <2>4
    <3>3. QED
      BY <2>1, <3>1, <3>2 DEF NodeTells
  <2>5. QED
    BY <2>2, <2>3, <2>4
<1>6. StatusTells(new, log, V(Ended \cup {"task_dispatched"}))
  <2> DEFINE said == Ended \cup {"task_dispatched"}
  <2>1. StatusTells(rec, log, U(said))
    BY DEF RecTells, U
  <2>2. CASE type \in said
    <3>1. new.status = StatusAfter(type)
      BY <1>2, <1>3, <2>2 DEF Becomes, TaskRecord, StatusAfter
    <3>2. V(said) = U(said) \cup {i}
      BY <1>1, <2>2
    <3>3. QED
      BY <1>1, <3>1, <3>2, LastNext DEF StatusTells
  <2>3. CASE type \notin said
    <3>1. new.status = IF rec.status = Nothing THEN "pending" ELSE rec.status
      BY <1>2, <1>3, <2>3 DEF Becomes, TaskRecord
    <3>2. V(said) = U(said)
      BY <1>1, <2>3
    <3>3. CASE U(said) = {}
      BY <2>1, <3>1, <3>2, <3>3 DEF StatusTells
    <3>4. CASE U(said) # {}
      <4>1. rec.status # Nothing
        BY <2>1, <3>4, NothingIsNoName DEF StatusTells, StatusAfter
      <4>2. QED
        BY <2>1, <3>1, <3>2, <4>1 DEF StatusTells
    <3>5. QED
      BY <3>3, <3>4
  <2>4. QED
    BY <2>2, <2>3
<1>7. i \in 1..i /\ 1..i = (1..i - 1) \cup {i}
  OBVIOUS
<1>8. new.known <=> \E j \in 1..i : log[j] = Submitted(t)
  <2>1. rec.known <=> \E j \in 1..i - 1 : log[j] = Submitted(t)
    BY DEF RecTells
  <2>2. Submitted(t).type = "task_submitted"
    BY DEF Submitted, Line, Noted
  <2>3. CASE log[i] = Submitted(t)
    <3>1. new.known = TRUE
      BY <1>2, <2>2, <2>3 DEF Becomes, TaskRecord
    <3>2. QED
      BY <1>7, <2>3, <3>1
  <2>4. CASE log[i] # Submitted(t)
    <3>1. new.known = rec.known
      BY <1>2, <2>4 DEF Becomes, TaskRecord
    <3>2. QED
      BY <1>7, <2>1, <2>4, <3>1
  <2>5. QED
    BY <2>3, <2>4
<1>9. new.status # Nothing
  BY <1>2, NothingIsNoName DEF Becomes, TaskRecord
<1>10. QED
  BY <1>2, <1>4, <1>5, <1>6, <1>7, <1>8, <1>9 DEF RecTells, U, V

\* After every line of a log the records tell what has been said.
LEMMA ReplayTells ==
  ASSUME NEW log, IsLog(log)
  PROVE  \A t \in Task : RecTells(Replay(log)[t], log, Len(log), t)
<1> DEFINE L == Len(log)
<1>1. PICK f : Replays(f, log, L) /\ Replay(log) = f[L]
  BY LogShape, ReplayIs
<1>2. L \in Nat /\ \A i \in 1..L : log[i] \in AboutTasks \/ log[i].task = Nothing
  BY LogShape
<1>3. \A i \in 0..L : f[i] = RecordsAfter(f, log, i)
  BY <1>1, <1>2 DEF Replays
<1> HIDE DEF L
<1> SUFFICES ASSUME NEW t \in Task PROVE RecTells(f[L][t], log, L, t)
  BY <1>1 DEF L
<1> DEFINE S == {i \in 0..L : ~RecTells(f[i][t], log, i, t)}
<1>4. SUFFICES ASSUME S # {} PROVE FALSE
  BY <1>2
<1>5. PICK i \in S : \A m \in S : ~(m < i)
  <2>1. S \in SUBSET Nat
    OBVIOUS
  <2> HIDE DEF S
  <2>2. QED
    BY <1>4, <2>1, LeastMember
<1>6. i \in 0..L /\ ~RecTells(f[i][t], log, i, t)
  BY <1>5
<1>7. CASE i = 0
  <2>1. f[0][t] = NoRecord
    BY <1>3, <1>6, <1>7 DEF RecordsAfter
  <2>2. \A kinds : Upto(log, 0, t, kinds) = {}
    BY DEF Upto
  <2>3. NoRecord \in TaskRecord /\ NoRecord.since = 0 /\ NoRecord.node = Nothing
        /\ NoRecord.status = Nothing /\ NoRecord.known = FALSE
    BY DEF NoRecord, TaskRecord
  <2>4. RecTells(NoRecord, log, 0, t)
    BY <2>2, <2>3 DEF RecTells, SinceTells, NodeTells, StatusTells
  <2>5. QED
    BY <1>6, <1>7, <2>1, <2>4
<1>8. CASE i # 0
  <2>1. i \in Nat \ {0} /\ i \in 1..L /\ i - 1 \in 0..L /\ i - 1 < i
    BY <1>2, <1>6, <1>8
  <2>2. RecTells(f[i - 1][t], log, i - 1, t)
    BY <1>5, <2>1
  <2>3. f[i][t] = IF log[i].task = t THEN Absorb(f[i - 1][t], log[i], i) ELSE f[i - 1][t]
    BY <1>3, <1>6, <1>8 DEF RecordsAfter
  <2>4. CASE log[i].task # t
    BY <1>6, <2>1, <2>2, <2>3, <2>4, AnotherTask
  <2>5. CASE log[i].task = t
    <3>1. log[i] \in AboutTasks /\ i \in Nat
      BY <1>2, <2>1, <2>5, NothingIsNoName
    <3>2. Becomes(f[i - 1][t], f[i][t], log[i], t, i)
      BY <2>2, <2>3, <2>5, <3>1, LineBecomes DEF RecTells
    <3>3. QED
      BY <1>6, <2>1, <2>2, <2>5, <3>2, ThisTask
  <2>6. QED
    BY <2>4, <2>5
<1>9. QED
  BY <1>7, <1>8

-----------------------------------------------------------------------------
\* What the log says of a task, read from its end

Mentions(log, t) == \E i \in DOMAIN log : log[i].task = t

LEMMA LastIs ==
  ASSUME NEW log, NEW S \in SUBSET Nat, NEW j, IsLast(j, S)
  PROVE  LastOf(log, S) = log[j]
<1>1. \A k : IsLast(k, S) => k = j
  BY DEF IsLast
<1>2. LastOf(log, S) = log[CHOOSE k \in S : \A m \in S : m <= k]
  BY DEF LastOf
<1>3. (CHOOSE k \in S : \A m \in S : m <= k) = j
  BY <1>1 DEF IsLast
<1>4. QED
  BY <1>2, <1>3

LEMMA AboutIs ==
  ASSUME NEW log, IsLog(log), NEW t, NEW kinds
  PROVE  /\ About(log, t, kinds) = Upto(log, Len(log), t, kinds)
         /\ About(log, t, kinds) \in SUBSET Nat
BY LogShape DEF About, Upto

LEMMA RecordMentions ==
  ASSUME NEW log, IsLog(log), NEW t \in Task
  PROVE  /\ t \in Records(Replay(log)) <=> Mentions(log, t)
         /\ Replay(log)[t] \in TaskRecord
         /\ Replay(log)[t].status # Nothing <=> Mentions(log, t)
         /\ Replay(log)[t].node # Nothing => Mentions(log, t)
<1>1. RecTells(Replay(log)[t], log, Len(log), t)
  BY ReplayTells
<1>2. IF Mentions(log, t) THEN Replay(log)[t].status # Nothing ELSE Replay(log)[t] = NoRecord
  BY <1>1, LogShape DEF RecTells, Mentions
<1>3. NoRecord.status = Nothing /\ NoRecord.node = Nothing
  BY DEF NoRecord
<1>4. QED
  BY <1>1, <1>2, <1>3 DEF Records, RecTells

LEMMA RecordKnows ==
  ASSUME NEW log, IsLog(log), NEW t \in Task
  PROVE  /\ Replay(log)[t].known <=> Told(log, t)
         /\ ClassIn(Replay(log), t) = IF Told(log, t) THEN ClassOf[t] ELSE Nothing
         /\ MemoryIn(Replay(log), t) = IF Told(log, t) THEN MemoryOf[t] ELSE 0
<1>1. Replay(log)[t].known <=> Told(log, t)
  BY ReplayTells DEF RecTells, Told, Contains
<1>2. QED
  BY <1>1 DEF ClassIn, MemoryIn

LEMMA RecordEnds ==
  ASSUME NEW log, IsLog(log), NEW t \in Task
  PROVE  Replay(log)[t].status \in Terminal <=> LastWordIsAnEnd(log, t)
<1> DEFINE rec == Replay(log)[t]
           said == About(log, t, Ended \cup {"task_dispatched"})
<1>1. StatusTells(rec, log, said) /\ said \in SUBSET Nat
  <2>1. said = Upto(log, Len(log), t, Ended \cup {"task_dispatched"}) /\ said \in SUBSET Nat
    BY AboutIs
  <2>2. RecTells(rec, log, Len(log), t)
    BY ReplayTells
  <2>3. QED
    BY <2>1, <2>2 DEF RecTells
<1>2. CASE said = {}
  <2>1. rec.status \notin Terminal
    BY <1>1, <1>2, VerificationAssumption DEF StatusTells, Terminal
  <2>2. QED
    BY <1>2, <2>1 DEF LastWordIsAnEnd
<1>3. CASE said # {}
  <2>1. PICK j : IsLast(j, said) /\ rec.status = StatusAfter(log[j].type)
    BY <1>1, <1>3 DEF StatusTells
  <2>2. LastOf(log, said) = log[j] /\ log[j].type \in Ended \cup {"task_dispatched"}
    BY <1>1, <2>1, LastIs DEF IsLast, About
  <2>3. rec.status \in Terminal <=> log[j].type \in Ended
    BY <2>1, <2>2 DEF StatusAfter, Ended, Terminal
  <2>4. QED
    BY <1>3, <2>2, <2>3 DEF LastWordIsAnEnd
<1>4. QED
  BY <1>2, <1>3

LEMMA RecordLocates ==
  ASSUME NEW log, IsLog(log), NEW t \in Task
  PROVE  /\ Replay(log)[t].node = Whereabouts(log, t)
         /\ About(log, t, Placed) # {} => Whereabouts(log, t) \in Node
<1> DEFINE rec == Replay(log)[t]
           asked == About(log, t, Placed)
           told == About(log, t, {"task_completed"})
<1>1. NodeTells(rec, log, asked, told) /\ asked \in SUBSET Nat /\ told \in SUBSET Nat
  BY ReplayTells, AboutIs DEF RecTells
<1> HIDE DEF rec
<1>2. CASE asked # {}
  <2>1. PICK j : IsLast(j, asked) /\ rec.node = log[j].node /\ rec.node \in Node
    BY <1>1, <1>2 DEF NodeTells
  <2>2. LastOf(log, asked) = log[j]
    BY <1>1, <2>1, LastIs
  <2>3. Whereabouts(log, t) = log[j].node
    BY <1>2, <2>2 DEF Whereabouts
  <2>4. QED
    BY <2>1, <2>3 DEF rec
<1>3. CASE asked = {} /\ told # {}
  <2>1. PICK j : IsFirst(j, told) /\ rec.node = log[j].node
    BY <1>1, <1>3 DEF NodeTells
  <2>2. \A k : IsFirst(k, told) => k = j
    BY <1>1, <2>1 DEF IsFirst
  <2>3. (CHOOSE i \in told : \A k \in told : i <= k) = j
    BY <2>1, <2>2 DEF IsFirst
  <2>4. Whereabouts(log, t) = log[j].node
    BY <1>3, <2>3 DEF Whereabouts
  <2>5. QED
    BY <1>3, <2>1, <2>4 DEF rec
<1>4. CASE asked = {} /\ told = {}
  <2>1. Whereabouts(log, t) = Nothing
    BY <1>4 DEF Whereabouts
  <2>2. rec.node = Nothing
    BY <1>1, <1>4 DEF NodeTells
  <2>3. QED
    BY <1>4, <2>1, <2>2 DEF rec
<1>5. QED
  BY <1>2, <1>3, <1>4

\* Whoever has a node by its lines is located at one.
LEMMA RecordLogged ==
  ASSUME NEW log, IsLog(log), NEW t \in Task
  PROVE  /\ About(log, t, {"task_dispatched", "task_completed"}) # {} => Whereabouts(log, t) \in Node
         /\ Replay(log)[t].status \in {"dispatched", "completed"} => Replay(log)[t].node # Nothing
<1> DEFINE rec == Replay(log)[t]
           asked == About(log, t, Placed)
           told == About(log, t, {"task_completed"})
           said == About(log, t, Ended \cup {"task_dispatched"})
           sent == About(log, t, {"task_dispatched", "task_completed"})
<1>1. NodeTells(rec, log, asked, told) /\ rec.node = Whereabouts(log, t)
  BY ReplayTells, AboutIs, RecordLocates DEF RecTells
<1>2. sent # {} => asked # {} \/ told # {}
  BY DEF About, Placed
<1>3. asked # {} \/ told # {} => rec.node \in Node
  BY <1>1 DEF NodeTells
<1>4. rec.status \in {"dispatched", "completed"} => sent # {}
  <2> SUFFICES ASSUME rec.status \in {"dispatched", "completed"} PROVE sent # {}
    OBVIOUS
  <2>1. StatusTells(rec, log, said)
    <3>1. said = Upto(log, Len(log), t, Ended \cup {"task_dispatched"})
      BY AboutIs
    <3>2. RecTells(rec, log, Len(log), t)
      BY ReplayTells
    <3>3. QED
      BY <3>1, <3>2 DEF RecTells
  <2>2. PICK j \in said : rec.status = StatusAfter(log[j].type)
    BY <2>1, NothingIsNoName DEF StatusTells, IsLast
  <2>3. j \in sent
    BY <2>2 DEF StatusAfter, About
  <2>4. QED
    BY <2>3
<1>5. QED
  BY <1>1, <1>2, <1>3, <1>4, NothingIsNoName

\* dispatched_at_rel lies after the saturation when some dispatch does.
LEMMA RecordDispatched ==
  ASSUME NEW log, IsLog(log), NEW t \in Task
  PROVE  SaturatedBefore(log, Replay(log)[t]) <=> Saturated(log, Sent(log, t)) # {}
<1> DEFINE rec == Replay(log)[t]
           sent == Sent(log, t)
           high == HighSamples(log, Edge2)
<1>1. SinceTells(rec, sent) /\ sent \in SUBSET Nat
  BY ReplayTells, AboutIs DEF RecTells, Sent
<1>2. high \in SUBSET (Nat \ {0})
  BY LogShape DEF HighSamples
<1>3. /\ SaturatedBefore(log, rec) <=> \E h \in high : h < rec.since
      /\ Saturated(log, sent) # {} <=> \E i \in sent : \E h \in high : h < i
  BY DEF SaturatedBefore, Saturated
<1> HIDE DEF rec, sent, high
<1>4. CASE sent = {}
  <2>1. rec.since = 0
    BY <1>1, <1>4 DEF SinceTells
  <2>2. QED
    BY <1>2, <1>3, <1>4, <2>1 DEF rec, sent
<1>5. CASE sent # {}
  <2>1. rec.since \in sent /\ \A i \in sent : i <= rec.since
    BY <1>1, <1>5 DEF SinceTells, IsLast
  <2>2. ASSUME NEW i \in sent, NEW h \in high, h < i PROVE h < rec.since
    <3>1. i \in Nat /\ h \in Nat /\ rec.since \in Nat /\ i <= rec.since
      BY <1>1, <1>2, <2>1
    <3>2. QED
      BY <2>2, <3>1
  <2>3. QED
    BY <1>3, <2>1, <2>2 DEF rec, sent
<1>6. QED
  BY <1>4, <1>5

LEMMA RecordPlaced ==
  ASSUME NEW log, IsLog(log), PlacedOnce(log), NEW t \in Task, NEW i \in Sent(log, t)
  PROVE  log[i].node = Whereabouts(log, t) /\ Whereabouts(log, t) \in Node
<1>1. i \in About(log, t, Placed)
  BY DEF Sent, About, Placed
<1>2. NodeTells(Replay(log)[t], log, About(log, t, Placed), About(log, t, {"task_completed"}))
  BY ReplayTells, AboutIs DEF RecTells
<1>3. PICK j \in About(log, t, Placed) : Replay(log)[t].node = log[j].node
  BY <1>1, <1>2 DEF NodeTells, IsLast
<1>4. log[i].node = log[j].node
  BY <1>1 DEF PlacedOnce
<1>5. QED
  BY <1>1, <1>3, <1>4, RecordLocates

-----------------------------------------------------------------------------
\* What the assertions amount to

\* Where a record has a node, somebody has spoken of the task.
LEMMA AssignedIsMentioned ==
  ASSUME NEW log, IsLog(log), NEW t \in Task
  PROVE  /\ t \in Assignments(Replay(log)) <=> Whereabouts(log, t) # Nothing
         /\ Whereabouts(log, t) # Nothing => Mentions(log, t)
         /\ Whereabouts(log, t) \in Node \cup {Nothing}
         /\ Replay(log)[t].node = Whereabouts(log, t)
<1>1. Replay(log)[t].node \in Node \cup {Nothing}
  BY RecordMentions DEF TaskRecord
<1>2. QED
  BY <1>1, RecordMentions, RecordLocates DEF Assignments

\* A test passes each of nine assertions on exactly the logs that tell what its docstring
\* asks for (library.py), however long the log is, in whichever order the threads wrote
\* their lines, and whichever lines are missing from it; of the two on edge2's saturation
\* where no task was placed on one node after another, and of adaptive_trigger_activated
\* where moreover none waited in the queue while edge2 became saturated.
THEOREM AssertionsMeanIt == \A log : IsLog(log) => ExactOn(log)
<1> SUFFICES ASSUME NEW log, IsLog(log) PROVE ExactOn(log)
  OBVIOUS
<1> DEFINE recs == Replay(log)
           Mentioned == {t \in Task : \E i \in DOMAIN log : log[i].task = t}
           At(t) == Whereabouts(log, t)
           Large == {t \in Mentioned : Told(log, t) /\ ClassOf[t] \in ModeratePlus}
           Exact(name) == Outcome(name, log, TRUE) <=> Meaning(log, name)
<1>1. /\ Mentioned \subseteq Task /\ Records(recs) = Mentioned
      /\ \A t \in Task : t \in Mentioned <=> Mentions(log, t)
  BY RecordMentions DEF Mentions, Records
<1>2. \A t \in Task :
        /\ t \in Assignments(recs) <=> At(t) # Nothing
        /\ At(t) # Nothing => t \in Mentioned
        /\ At(t) \in Node \cup {Nothing} /\ recs[t].node = At(t)
  BY <1>1, AssignedIsMentioned
<1>3. \A t \in Task :
        /\ ClassIn(recs, t) = IF Told(log, t) THEN ClassOf[t] ELSE Nothing
        /\ MemoryIn(recs, t) = IF Told(log, t) THEN MemoryOf[t] ELSE 0
  BY RecordKnows
<1>4. \A t \in Task :
        /\ SaturatedBefore(log, recs[t]) <=> Saturated(log, Sent(log, t)) # {}
        /\ t \in Mentioned => (ClassIn(recs, t) \in ModeratePlus <=> t \in Large)
  BY <1>3, RecordDispatched, NothingIsNoName DEF ModeratePlus, Classes
<1>5. Assignments(recs) \subseteq Task
  BY DEF Assignments
<1> HIDE DEF recs, At, Mentioned, Large
<1>6. ASSUME NEW name \in {"all_tasks_have_terminal_status", "no_task_skipped"} PROVE Exact(name)
  <2>1. Outcome(name, log, TRUE) <=> all_tasks_have_terminal_status(recs)
    BY DEF Outcome, recs, no_task_skipped
  <2>2. Meaning(log, name) <=> \A t \in Mentioned : LastWordIsAnEnd(log, t)
    BY DEF Meaning, Mentioned
  <2>3. \A t \in Task : recs[t].status \in Terminal <=> LastWordIsAnEnd(log, t)
    BY RecordEnds DEF recs
  <2>4. QED
    BY <1>1, <2>1, <2>2, <2>3 DEF all_tasks_have_terminal_status
<1>7. Exact("no_unsupported_allocations")
  <2>1. Outcome("no_unsupported_allocations", log, TRUE) <=> no_unsupported_allocations(recs)
    BY DEF Outcome, recs
  <2>2. Meaning(log, "no_unsupported_allocations") <=>
          \A t \in Mentioned :
            At(t) \in DOMAIN AcceptsOf => Told(log, t) /\ ClassOf[t] \in AcceptsOf[At(t)]
    BY DEF Meaning, Mentioned, At
  <2>3. \A n \in DOMAIN AcceptsOf : n # Nothing /\ Nothing \notin AcceptsOf[n]
    BY VerificationAssumption, NothingIsNoName
  <2>4. QED
    BY <1>1, <1>2, <1>3, <1>5, <2>1, <2>2, <2>3 DEF no_unsupported_allocations
<1>8. Exact("sufficient_memory_for_each_assignment")
  <2>1. Outcome("sufficient_memory_for_each_assignment", log, TRUE) <=> sufficient_memory_for_each_assignment(recs)
    BY DEF Outcome, recs
  <2>2. Meaning(log, "sufficient_memory_for_each_assignment") <=>
          \A t \in Mentioned :
            (Told(log, t) /\ At(t) \in DOMAIN UsableOf) => MemoryOf[t] <= UsableOf[At(t)]
    BY DEF Meaning, Mentioned, At
  <2>3. \A n \in DOMAIN UsableOf : n # Nothing /\ 0 <= UsableOf[n]
    BY VerificationAssumption, NothingIsNoName
  <2>4. QED
    BY <1>1, <1>2, <1>3, <1>5, <2>1, <2>2, <2>3 DEF sufficient_memory_for_each_assignment
<1>9. Exact("edge1_only_lightweight")
  <2>1. Outcome("edge1_only_lightweight", log, TRUE) <=> edge1_only_lightweight(recs)
    BY DEF Outcome, recs
  <2>2. Meaning(log, "edge1_only_lightweight") <=>
          \A t \in Mentioned : At(t) = Edge1 => Told(log, t) /\ ClassOf[t] = "lightweight"
    BY DEF Meaning, Mentioned, At
  <2>3. Edge1 # Nothing /\ Nothing # "lightweight"
    BY VerificationAssumption, NothingIsNoName DEF Classes
  <2>4. QED
    BY <1>1, <1>2, <1>3, <1>5, <2>1, <2>2, <2>3 DEF edge1_only_lightweight
<1>10. Exact("very_heavy_only_on_edge3_or_edge4")
  <2>1. Outcome("very_heavy_only_on_edge3_or_edge4", log, TRUE) <=> very_heavy_only_on_edge3_or_edge4(recs)
    BY DEF Outcome, recs
  <2>2. Meaning(log, "very_heavy_only_on_edge3_or_edge4") <=>
          \A t \in Mentioned :
            (Told(log, t) /\ ClassOf[t] = "very_heavy") => At(t) \in Edge34 \cup {Nothing}
    BY DEF Meaning, Mentioned, At
  <2>3. Nothing # "very_heavy" /\ Nothing \notin Edge34
    BY VerificationAssumption, NothingIsNoName DEF Classes
  <2>4. \A t \in Task :
          /\ ClassIn(recs, t) = "very_heavy" <=> Told(log, t) /\ ClassOf[t] = "very_heavy"
          /\ recs[t].node \in Edge34 <=> At(t) \in Edge34
          /\ At(t) \in Edge34 \cup {Nothing} <=> At(t) \in Edge34 \/ t \notin Assignments(recs)
    BY <1>2, <1>3, <2>3
  <2>5. QED
    BY <1>1, <1>2, <1>5, <2>1, <2>2, <2>4 DEF very_heavy_only_on_edge3_or_edge4
<1>11. Exact("all_assignments_logged")
  <2>1. \A t \in Task :
          /\ recs[t].status \in {"dispatched", "completed"} => recs[t].node # Nothing
          /\ About(log, t, {"task_dispatched", "task_completed"}) # {} => Whereabouts(log, t) \in Node
    BY RecordLogged DEF recs
  <2>2. Outcome("all_assignments_logged", log, TRUE)
    BY <1>1, <2>1 DEF Outcome, recs, all_assignments_logged
  <2>3. Meaning(log, "all_assignments_logged")
    BY <2>1 DEF Meaning
  <2>4. QED
    BY <2>2, <2>3
<1>12. ASSUME PlacedOnce(log) PROVE Exact("moderate_plus_redirected_after_saturation")
  <2>1. Outcome("moderate_plus_redirected_after_saturation", log, TRUE)
          <=> moderate_plus_redirected_after_saturation(log, recs)
    BY DEF Outcome, recs
  <2>2. Meaning(log, "moderate_plus_redirected_after_saturation") <=>
          /\ HighSamples(log, Edge2) # {}
          /\ \A t \in Large : \A i \in Saturated(log, Sent(log, t)) : log[i].node # Edge2
    BY DEF Meaning, Mentioned, Large
  <2>3. Edge2 # Nothing /\ Edge2 \in Node
    BY VerificationAssumption, NothingIsNoName
  <2>4. \A t \in Task : \A i \in Saturated(log, Sent(log, t)) : log[i].node = At(t)
    BY <1>12, RecordPlaced DEF Saturated, At
  <2>5. \A t \in Task :
          (t \in Large /\ \E i \in Saturated(log, Sent(log, t)) : log[i].node = Edge2)
            <=> /\ t \in Assignments(recs) /\ SaturatedBefore(log, recs[t])
                /\ recs[t].node = Edge2 /\ ClassIn(recs, t) \in ModeratePlus
    <3> TAKE t \in Task
    <3>1. (\E i \in Saturated(log, Sent(log, t)) : log[i].node = Edge2)
            <=> SaturatedBefore(log, recs[t]) /\ At(t) = Edge2
      BY <1>4, <2>4
    <3>2. At(t) = Edge2 => t \in Assignments(recs) /\ t \in Mentioned /\ recs[t].node = At(t)
      BY <1>2, <2>3
    <3>3. QED
      BY <1>2, <1>4, <3>1, <3>2
  <2>6. QED
    BY <1>1, <1>5, <2>1, <2>2, <2>5 DEF moderate_plus_redirected_after_saturation, Large
<1>13. ASSUME PlacedOnce(log), NoneWaited(log) PROVE Exact("adaptive_trigger_activated")
  <2>1. Outcome("adaptive_trigger_activated", log, TRUE) <=> adaptive_trigger_activated(log, recs)
    BY DEF Outcome, recs
  <2>2. Meaning(log, "adaptive_trigger_activated") <=>
          \E t \in Large :
            Saturated(log, Asked(log, t)) # {} /\ \E i \in Sent(log, t) : log[i].node # Edge2
    BY DEF Meaning, Mentioned, Large
  <2>3. \A t \in Task : \A i \in Sent(log, t) :
          log[i].node = At(t) /\ t \in Assignments(recs) /\ recs[t].node = At(t)
    BY <1>2, <1>13, RecordPlaced, NothingIsNoName DEF At
  <2>4. \A t \in Task : \A I : Saturated(log, I) \subseteq I
    BY DEF Saturated
  <2>5. \A t \in Large : \E i : i \in Asked(log, t)
    BY DEF Large, Told, Contains, Asked, About, Submitted, Line, Noted
  <2>6. ASSUME adaptive_trigger_activated(log, recs)
        PROVE  Meaning(log, "adaptive_trigger_activated")
    <3>1. PICK t \in Assignments(recs) :
            /\ SaturatedBefore(log, recs[t]) /\ ClassIn(recs, t) \in ModeratePlus
            /\ recs[t].node # Edge2
      BY <2>6 DEF adaptive_trigger_activated
    <3>2. t \in Large
      BY <1>2, <1>4, <1>5, <3>1 DEF Assignments
    <3>3. PICK j : j \in Saturated(log, Sent(log, t))
      BY <1>4, <1>5, <3>1
    <3>4. j \in Sent(log, t) /\ log[j].node # Edge2
      BY <1>5, <2>3, <2>4, <3>1, <3>3
    <3>5. PICK i : i \in Asked(log, t)
      BY <2>5, <3>2
    <3>6. i \in Saturated(log, Asked(log, t))
      BY <1>5, <1>13, <3>3, <3>4, <3>5 DEF NoneWaited
    <3>7. QED
      BY <2>2, <3>2, <3>4, <3>6
  <2>7. ASSUME Meaning(log, "adaptive_trigger_activated")
        PROVE  adaptive_trigger_activated(log, recs)
    <3>1. PICK t \in Large :
            Saturated(log, Asked(log, t)) # {} /\ \E j \in Sent(log, t) : log[j].node # Edge2
      BY <2>2, <2>7
    <3>2. PICK i : i \in Saturated(log, Asked(log, t))
      BY <3>1
    <3>3. PICK j \in Sent(log, t) : log[j].node # Edge2
      BY <3>1
    <3>4. t \in Task /\ t \in Mentioned
      BY <1>1 DEF Large
    <3>5. j \in Saturated(log, Sent(log, t))
      BY <1>13, <2>4, <3>4, <3>2, <3>3 DEF NoneWaited
    <3>6. /\ t \in Assignments(recs) /\ recs[t].node # Edge2
          /\ SaturatedBefore(log, recs[t]) /\ ClassIn(recs, t) \in ModeratePlus
      BY <1>4, <2>3, <3>1, <3>4, <3>5, <3>3
    <3>7. QED
      BY <3>6 DEF adaptive_trigger_activated
  <2>8. QED
    BY <2>1, <2>6, <2>7
<1>14. QED
  <2>1. \A name \in Meant : Exact(name)
    BY <1>6, <1>7, <1>8, <1>9, <1>10, <1>11 DEF Meant
  <2>2. QED
    BY <1>12, <1>13, <2>1 DEF ExactOn

-----------------------------------------------------------------------------
\* The verification report

\* Every verdict is under the line of its type, test, sub-run and algorithm, and no
\* other verdict brings in another line.
LinesFor(verdicts) ==
  [i \in DOMAIN verdicts |-> line(verdicts, verdicts[i].test_type, Key(verdicts[i]))]

LEMMA ReportLines ==
  ASSUME NEW Verdict, NEW verdicts \in Seq(Verdict)
  PROVE  report(verdicts).lines = {LinesFor(verdicts)[i] : i \in DOMAIN verdicts}
<1>1. types(verdicts) = {v.test_type : v \in ToSet(verdicts)}
  BY DEF types, types_known
<1>2. types(verdicts) = {verdicts[i].test_type : i \in DOMAIN verdicts}
  BY <1>1 DEF ToSet
<1>3. report(verdicts).lines = UNION {section(verdicts, type) : type \in types(verdicts)}
  BY DEF report
<1>4. \A type : section(verdicts, type) = {LinesFor(verdicts)[i] : i \in OfType(verdicts, type)}
  BY DEF section, LinesFor, OfType
<1>5. ASSUME NEW l \in report(verdicts).lines PROVE \E i \in DOMAIN verdicts : l = LinesFor(verdicts)[i]
  <2>1. PICK type \in types(verdicts) : l \in section(verdicts, type)
    BY <1>3
  <2>2. QED
    BY <1>4, <2>1 DEF OfType
<1>6. ASSUME NEW i \in DOMAIN verdicts PROVE LinesFor(verdicts)[i] \in report(verdicts).lines
  <2>1. verdicts[i].test_type \in types(verdicts) /\ i \in OfType(verdicts, verdicts[i].test_type)
    BY <1>2 DEF OfType
  <2>2. LinesFor(verdicts)[i] \in section(verdicts, verdicts[i].test_type)
    BY <1>4, <2>1
  <2>3. QED
    BY <1>3, <2>1, <2>2
<1>7. QED
  BY <1>5, <1>6

LEMMA UnderLine ==
  ASSUME NEW Verdict, NEW verdicts \in Seq(Verdict), NEW i \in DOMAIN verdicts,
         NEW I, I \in {DOMAIN verdicts, Passing(verdicts)}
  PROVE  Part(I, LinesFor(verdicts), LinesFor(verdicts)[i]) =
           I \cap Under(verdicts, verdicts[i].test_type, Key(verdicts[i]))
<1> DEFINE of(j) == LinesFor(verdicts)[j]
<1>1. \A j \in DOMAIN verdicts : of(j) = line(verdicts, verdicts[j].test_type, Key(verdicts[j]))
  BY DEF LinesFor
<1>2. \A type, key : line(verdicts, type, key).type = type /\ line(verdicts, type, key).key = key
  BY DEF line
<1>3. \A j \in DOMAIN verdicts :
        of(j) = of(i) <=> /\ verdicts[j].test_type = verdicts[i].test_type
                          /\ Key(verdicts[j]) = Key(verdicts[i])
  <2> SUFFICES ASSUME NEW j \in DOMAIN verdicts
               PROVE  of(j) = of(i) <=> /\ verdicts[j].test_type = verdicts[i].test_type
                                        /\ Key(verdicts[j]) = Key(verdicts[i])
    BY Zenon
  <2>1. /\ of(j) = line(verdicts, verdicts[j].test_type, Key(verdicts[j]))
        /\ of(i) = line(verdicts, verdicts[i].test_type, Key(verdicts[i]))
    BY <1>1, Zenon
  <2>2. /\ of(j).type = verdicts[j].test_type /\ of(j).key = Key(verdicts[j])
        /\ of(i).type = verdicts[i].test_type /\ of(i).key = Key(verdicts[i])
    BY <1>2, <2>1
  <2> HIDE DEF of
  <2>3. QED
    BY <2>1, <2>2, Zenon
<1>4. I \subseteq DOMAIN verdicts
  BY DEF Passing
<1>5. QED
  BY <1>3, <1>4 DEF Part, Under, OfType

\* The report counts every verdict once and hides no failure (render_report), whatever
\* the tests, types, sub-runs and algorithms are called, and however many there are.
THEOREM ReportCountsVerdicts == \A Verdict : \A verdicts \in Seq(Verdict) : VerdictsAddUp(verdicts)
<1> SUFFICES ASSUME NEW Verdict, NEW verdicts \in Seq(Verdict) PROVE VerdictsAddUp(verdicts)
  OBVIOUS
<1> DEFINE V == DOMAIN verdicts
           P == Passing(verdicts)
           r == report(verdicts)
           of == LinesFor(verdicts)
           under(i) == Under(verdicts, verdicts[i].test_type, Key(verdicts[i]))
           totals == [l \in r.lines |-> l.total]
           passes == [l \in r.lines |-> l.passed]
<1>1. Len(verdicts) \in Nat /\ V = 1..Len(verdicts)
  OBVIOUS
<1>2. IsFiniteSet(V) /\ Cardinality(V) = Len(verdicts) /\ P \subseteq V
  <2>1. \A n \in Nat : IsFiniteSet(1..n) /\ Cardinality(1..n) = n
    BY FS_Interval
  <2>2. IsFiniteSet(V) /\ Cardinality(V) = Len(verdicts)
    BY <1>1, <2>1, Zenon
  <2>3. QED
    BY <2>2 DEF Passing
<1>3. IsFiniteSet(P)
  BY <1>2, FS_Subset
<1>4. r.lines = {of[i] : i \in V}
  BY ReportLines
<1>5. ASSUME NEW i \in V
      PROVE  /\ of[i].type = verdicts[i].test_type /\ of[i].key = Key(verdicts[i])
             /\ of[i].total = Cardinality(under(i)) /\ of[i].passed = Cardinality(under(i) \cap P)
             /\ of[i].test_icon = (OfTest(verdicts, verdicts[i].test_type, Key(verdicts[i])[1]) \subseteq P)
  BY DEF LinesFor, line
<1>6. ASSUME NEW i \in V PROVE under(i) \subseteq V /\ i \in under(i)
  BY DEF Under, OfType
<1>7. r.failures = V \ P /\ (r.overall <=> P = V)
  BY DEF report
<1> HIDE DEF r, of, P
<1>8. LoadOf(r.lines, totals) = Len(verdicts)
  <2>1. ASSUME NEW l \in r.lines PROVE totals[l] = Cardinality(Part(V, of, l))
    <3>1. PICK i \in V : l = of[i]
      BY <1>4
    <3>2. Part(V, of, l) = under(i)
      BY <1>6, <3>1, UnderLine DEF of
    <3>3. QED
      BY <1>5, <3>1, <3>2
  <2>2. \A i \in V : of[i] \in r.lines
    BY <1>4
  <2> HIDE DEF totals, V
  <2>3. QED
    BY <1>2, <2>1, <2>2, CountByKey
<1>9. LoadOf(r.lines, passes) = Cardinality(P)
  <2>1. ASSUME NEW l \in r.lines PROVE passes[l] = Cardinality(Part(P, of, l))
    <3>1. PICK i \in V : l = of[i]
      BY <1>4
    <3>2. Part(P, of, l) = under(i) \cap P
      BY <3>1, UnderLine DEF of, P
    <3>3. QED
      BY <1>5, <3>1, <3>2
  <2>2. \A i \in P : of[i] \in r.lines
    BY <1>2, <1>4
  <2> HIDE DEF passes, V
  <2>3. QED
    BY <1>3, <2>1, <2>2, CountByKey
<1>10. LoadOf(r.lines, passes) + Cardinality(r.failures) = Len(verdicts)
  <2>1. Cardinality(V \ P) = Cardinality(V) - Cardinality(V \cap P)
    BY <1>2, FS_Difference
  <2>2. V \cap P = P
    BY <1>2
  <2>3. Cardinality(P) \in Nat
    BY <1>3, FS_CardinalityType
  <2>4. /\ Cardinality(r.failures) = Len(verdicts) - Cardinality(P)
        /\ LoadOf(r.lines, passes) = Cardinality(P) /\ Len(verdicts) \in Nat
    BY <1>1, <1>2, <1>7, <1>9, <2>1, <2>2
  <2> HIDE DEF passes
  <2>5. QED
    BY <2>3, <2>4
<1>11. ASSUME NEW i \in V
       PROVE  /\ of[i].passed \in Nat /\ of[i].total \in Nat /\ of[i].passed <= of[i].total
              /\ of[i].passed = of[i].total => under(i) \subseteq P
  <2>1. IsFiniteSet(under(i)) /\ under(i) \cap P \subseteq under(i)
    BY <1>2, <1>6, FS_Subset
  <2>2. /\ IsFiniteSet(under(i) \cap P) /\ Cardinality(under(i) \cap P) <= Cardinality(under(i))
        /\ Cardinality(under(i)) = Cardinality(under(i) \cap P) => under(i) = under(i) \cap P
    BY <2>1, FS_Subset
  <2>3. Cardinality(under(i)) \in Nat /\ Cardinality(under(i) \cap P) \in Nat
    BY <2>1, <2>2, FS_CardinalityType
  <2>4. QED
    BY <1>5, <2>2, <2>3
<1>12. r.overall <=> \A l \in r.lines : l.passed = l.total
  <2>1. ASSUME P = V, NEW l \in r.lines PROVE l.passed = l.total
    <3>1. PICK i \in V : l = of[i]
      BY <1>4
    <3>2. under(i) \cap P = under(i)
      BY <1>6, <2>1
    <3>3. QED
      BY <1>5, <3>1, <3>2
  <2>2. ASSUME \A l \in r.lines : l.passed = l.total PROVE P = V
    <3>1. ASSUME NEW i \in V PROVE i \in P
      <4>1. of[i] \in r.lines
        BY <1>4
      <4>2. QED
        BY <1>6, <1>11, <2>2, <4>1
    <3>2. QED
      BY <1>2, <3>1
  <2>3. QED
    BY <1>7, <2>1, <2>2
<1>13. ASSUME NEW i \in r.failures
       PROVE  \E l \in r.lines : /\ l.type = verdicts[i].test_type /\ l.key = Key(verdicts[i])
                                 /\ ~l.test_icon /\ l.passed < l.total
  <2>1. i \in V /\ i \notin P /\ of[i] \in r.lines
    BY <1>4, <1>7
  <2>2. i \in OfTest(verdicts, verdicts[i].test_type, Key(verdicts[i])[1])
    BY <2>1 DEF OfTest, OfType, Key
  <2>3. ~of[i].test_icon
    BY <1>5, <2>1, <2>2
  <2>4. of[i].passed < of[i].total
    BY <1>6, <1>11, <2>1
  <2>5. QED
    BY <1>5, <2>1, <2>3, <2>4
<1>14. QED
  BY <1>8, <1>10, <1>12, <1>13 DEF VerdictsAddUp, r

-----------------------------------------------------------------------------
\* Fractions

Fraction == Nat \X (Nat \ {0})

LEMMA TimesMonotone ==
  ASSUME NEW m \in Nat, NEW n \in Nat, NEW c \in Nat
  PROVE  /\ m <= n => m * c <= n * c
         /\ c # 0 /\ m * c <= n * c => m <= n
<1>1. ASSUME m <= n PROVE m * c <= n * c
  <2>1. PICK d \in Nat : n = m + d
    BY <1>1
  <2>2. n * c = m * c + d * c /\ m * c \in Nat /\ d * c \in Nat
    BY <2>1
  <2>3. QED
    BY <2>2
<1>2. ASSUME c # 0, n < m PROVE n * c < m * c
  <2>1. PICK d \in Nat : m = n + d + 1
    BY <1>2
  <2>2. m * c = n * c + d * c + c /\ n * c \in Nat /\ d * c \in Nat
    BY <2>1
  <2>3. QED
    BY <1>2, <2>2
<1>3. m * c \in Nat /\ n * c \in Nat
  OBVIOUS
<1>4. QED
  BY <1>1, <1>2, <1>3

LEMMA CrossMultiply ==
  ASSUME NEW a \in Nat, NEW b \in Nat, NEW c \in Nat, NEW d \in Nat \ {0}, NEW e \in Nat, NEW f \in Nat,
         a * d <= c * b, c * f <= e * d
  PROVE  a * f <= e * b
<1>1. a * d \in Nat /\ c * b \in Nat /\ c * f \in Nat /\ e * d \in Nat /\ a * f \in Nat /\ e * b \in Nat
  OBVIOUS
<1>2. (a * d) * f <= (c * b) * f /\ (c * f) * b <= (e * d) * b
  BY <1>1, TimesMonotone
<1>3. (a * d) * f = (a * f) * d /\ (c * b) * f = (c * f) * b /\ (e * d) * b = (e * b) * d
  OBVIOUS
<1>4. (a * f) * d <= (e * b) * d
  <2>1. (a * f) * d \in Nat /\ (c * f) * b \in Nat /\ (e * b) * d \in Nat
    BY <1>1
  <2>2. QED
    BY <1>2, <1>3, <2>1
<1>5. QED
  BY <1>1, <1>4, TimesMonotone

LEMMA FractionsOrdered ==
  /\ \A x, y \in Fraction : LessEq(x, y) \/ LessEq(y, x)
  /\ \A x, y, z \in Fraction : LessEq(x, y) /\ LessEq(y, z) => LessEq(x, z)
<1>1. ASSUME NEW x \in Fraction, NEW y \in Fraction PROVE LessEq(x, y) \/ LessEq(y, x)
  <2>1. x[1] * y[2] \in Nat /\ y[1] * x[2] \in Nat
    BY DEF Fraction
  <2>2. QED
    BY <2>1 DEF LessEq
<1>2. ASSUME NEW x \in Fraction, NEW y \in Fraction, NEW z \in Fraction, LessEq(x, y), LessEq(y, z)
      PROVE  LessEq(x, z)
  <2>1. /\ x[1] \in Nat /\ x[2] \in Nat /\ y[1] \in Nat /\ y[2] \in Nat \ {0}
        /\ z[1] \in Nat /\ z[2] \in Nat
    BY DEF Fraction
  <2>2. x[1] * y[2] <= y[1] * x[2] /\ y[1] * z[2] <= z[1] * y[2]
    BY <1>2 DEF LessEq
  <2>3. x[1] * z[2] <= z[1] * x[2]
    BY <2>1, <2>2, CrossMultiply
  <2>4. QED
    BY <2>3 DEF LessEq
<1>3. QED
  BY <1>1, <1>2

-----------------------------------------------------------------------------
\* The ranks of a block

\* What is below a in the block, and what is not above it.
Below(A, mean, a) == {c \in A : ~LessEq(mean[a], mean[c])}
UpToTie(A, mean, a) == {c \in A : LessEq(mean[c], mean[a])}
Tied(A, mean, a) == {c \in A : Same(mean[a], mean[c])}
RankOf(A, mean, a) == 2 * Cardinality(Below(A, mean, a)) + Cardinality(Tied(A, mean, a)) + 1

LEMMA RankCounts ==
  ASSUME NEW A, IsFiniteSet(A), NEW mean \in [A -> Fraction], NEW a \in A
  PROVE  /\ Cardinality(Below(A, mean, a)) \in Nat /\ Cardinality(UpToTie(A, mean, a)) \in Nat
         /\ Cardinality(Tied(A, mean, a)) \in Nat
         /\ IsFiniteSet(Below(A, mean, a)) /\ IsFiniteSet(UpToTie(A, mean, a)) /\ IsFiniteSet(Tied(A, mean, a))
         /\ RankOf(A, mean, a) \in Nat
         /\ RankOf(A, mean, a) = Cardinality(Below(A, mean, a)) + Cardinality(UpToTie(A, mean, a)) + 1
<1> DEFINE B == Below(A, mean, a)
           U == UpToTie(A, mean, a)
           T == Tied(A, mean, a)
<1>1. U = B \cup T /\ B \cap T = {}
  BY FractionsOrdered DEF Below, UpToTie, Tied, Same
<1>2. IsFiniteSet(B) /\ IsFiniteSet(U) /\ IsFiniteSet(T)
  BY FS_Subset DEF Below, UpToTie, Tied
<1>3. Cardinality(B) \in Nat /\ Cardinality(U) \in Nat /\ Cardinality(T) \in Nat
  BY <1>2, FS_CardinalityType
<1>4. Cardinality(U) = Cardinality(B) + Cardinality(T) - Cardinality(B \cap T)
  BY <1>1, <1>2, FS_Union
<1>5. Cardinality(B \cap T) = 0
  BY <1>1, FS_EmptySet
<1> HIDE DEF B, U, T
<1>6. Cardinality(U) = Cardinality(B) + Cardinality(T)
  BY <1>3, <1>4, <1>5
<1>7. RankOf(A, mean, a) = 2 * Cardinality(B) + Cardinality(T) + 1
  BY DEF RankOf, B, T
<1>8. /\ RankOf(A, mean, a) \in Nat
      /\ RankOf(A, mean, a) = Cardinality(B) + Cardinality(U) + 1
  BY <1>3, <1>6, <1>7
<1>9. QED
  BY <1>2, <1>3, <1>8 DEF B, U, T

\* The smaller mean has the smaller rank.
LEMMA RankFollowsMean ==
  ASSUME NEW A, IsFiniteSet(A), NEW mean \in [A -> Fraction], NEW a \in A, NEW c \in A,
         LessEq(mean[a], mean[c])
  PROVE  /\ RankOf(A, mean, a) <= RankOf(A, mean, c)
         /\ ~LessEq(mean[c], mean[a]) => RankOf(A, mean, a) < RankOf(A, mean, c)
<1>1. \A x, y \in A : LessEq(mean[x], mean[y]) \/ LessEq(mean[y], mean[x])
  BY FractionsOrdered
<1>2. \A x, y, z \in A : LessEq(mean[x], mean[y]) /\ LessEq(mean[y], mean[z]) => LessEq(mean[x], mean[z])
  BY FractionsOrdered
<1>3. Below(A, mean, a) \subseteq Below(A, mean, c)
  BY <1>1, <1>2 DEF Below
<1>4. UpToTie(A, mean, a) \subseteq UpToTie(A, mean, c)
  BY <1>2 DEF UpToTie
<1>5. /\ Cardinality(Below(A, mean, a)) <= Cardinality(Below(A, mean, c))
      /\ Cardinality(Below(A, mean, c)) = Cardinality(Below(A, mean, a)) =>
           Below(A, mean, c) = Below(A, mean, a)
      /\ Cardinality(UpToTie(A, mean, a)) <= Cardinality(UpToTie(A, mean, c))
  BY <1>3, <1>4, RankCounts, FS_Subset
<1>6. ~LessEq(mean[c], mean[a]) => Below(A, mean, c) # Below(A, mean, a)
  <2>1. a \notin Below(A, mean, a)
    BY <1>1 DEF Below
  <2>2. ~LessEq(mean[c], mean[a]) => a \in Below(A, mean, c)
    BY DEF Below
  <2>3. QED
    BY <2>1, <2>2
<1>7. /\ RankOf(A, mean, a) = Cardinality(Below(A, mean, a)) + Cardinality(UpToTie(A, mean, a)) + 1
      /\ RankOf(A, mean, c) = Cardinality(Below(A, mean, c)) + Cardinality(UpToTie(A, mean, c)) + 1
      /\ Cardinality(Below(A, mean, a)) \in Nat /\ Cardinality(UpToTie(A, mean, a)) \in Nat
      /\ Cardinality(Below(A, mean, c)) \in Nat /\ Cardinality(UpToTie(A, mean, c)) \in Nat
  BY RankCounts
<1>8. QED
  BY <1>5, <1>6, <1>7

\* The ranks of a block add up to those of a block without ties: of a pair of
\* algorithms one is below the other, or they share.
LEMMA RanksAddUp ==
  ASSUME NEW A, IsFiniteSet(A), NEW mean \in [A -> Fraction]
  PROVE  LoadOf(A, [a \in A |-> RankOf(A, mean, a)]) = Cardinality(A) * (Cardinality(A) + 1)
<1> DEFINE k == Cardinality(A)
           less == {p \in A \X A : ~LessEq(mean[p[1]], mean[p[2]])}
           more == {p \in A \X A : ~LessEq(mean[p[2]], mean[p[1]])}
           same == {p \in A \X A : Same(mean[p[1]], mean[p[2]])}
           belows == [a \in A |-> Cardinality(Below(A, mean, a))]
           ties == [a \in A |-> Cardinality(Tied(A, mean, a))]
           firsts(P) == [p \in P |-> p[1]]
<1>1. IsFiniteSet(A \X A) /\ Cardinality(A \X A) = k * k /\ k \in Nat
  BY FS_Product, FS_CardinalityType
<1>2. IsFiniteSet(less) /\ IsFiniteSet(more) /\ IsFiniteSet(same)
  BY <1>1, FS_Subset
<1>3. /\ A \X A = (less \cup more) \cup same
      /\ less \cap more = {} /\ (less \cup more) \cap same = {}
  <2>1. \A p \in A \X A : p[1] \in A /\ p[2] \in A /\ mean[p[1]] \in Fraction /\ mean[p[2]] \in Fraction
    OBVIOUS
  <2>2. QED
    BY <2>1, FractionsOrdered DEF Same
<1>4. Cardinality(more) = Cardinality(less)
  <2> DEFINE swap == [p \in less |-> <<p[2], p[1]>>]
  <2>1. \A p \in less : p = <<p[1], p[2]>> /\ swap[p] = <<p[2], p[1]>> /\ swap[p] \in more
    OBVIOUS
  <2>2. \A p \in more : p = <<p[1], p[2]>> /\ <<p[2], p[1]>> \in less /\ swap[<<p[2], p[1]>>] = <<p[1], p[2]>>
    OBVIOUS
  <2>3. swap \in [less -> more]
    BY <2>1
  <2> HIDE DEF swap, less, more
  <2>4. \A p, q \in less : swap[p] = swap[q] => p = q
    BY <2>1
  <2>5. \A p \in more : \E q \in less : swap[q] = p
    BY <2>2, Zenon
  <2>6. swap \in Bijection(less, more)
    BY <2>3, <2>4, <2>5, Fun_IsBij
  <2>7. QED
    BY <1>2, <2>6, FS_Bijection DEF ExistsBijection
<1>5. k * k = 2 * Cardinality(less) + Cardinality(same) /\ Cardinality(less) \in Nat /\ Cardinality(same) \in Nat
  <2>1. Cardinality(less) \in Nat /\ Cardinality(same) \in Nat /\ Cardinality({}) = 0
    BY <1>2, FS_CardinalityType, FS_EmptySet
  <2>2. /\ IsFiniteSet(less \cup more)
        /\ Cardinality(less \cup more) = Cardinality(less) + Cardinality(more) - Cardinality({})
    BY <1>2, <1>3, FS_Union
  <2>3. Cardinality(A \X A) = Cardinality(less \cup more) + Cardinality(same) - Cardinality({})
    BY <1>2, <1>3, <2>2, FS_Union
  <2> HIDE DEF less, more, same
  <2>4. QED
    BY <1>1, <1>4, <2>1, <2>2, <2>3
<1>6. ASSUME NEW P \in SUBSET (A \X A), NEW part, \A a \in A : part[a] = {c \in A : <<a, c>> \in P}
      PROVE  LoadOf(A, [a \in A |-> Cardinality(part[a])]) = Cardinality(P)
  <2> DEFINE size == [a \in A |-> Cardinality(part[a])]
  <2>1. IsFiniteSet(P)
    BY <1>1, FS_Subset
  <2>2. ASSUME NEW a \in A PROVE size[a] = Cardinality(Part(P, firsts(P), a))
    <3>1. Part(P, firsts(P), a) = {a} \X part[a]
      BY <1>6 DEF Part
    <3>2. IsFiniteSet(part[a]) /\ IsFiniteSet({a}) /\ Cardinality({a}) = 1
      BY <1>6, FS_Subset, FS_Singleton
    <3>3. Cardinality({a} \X part[a]) = 1 * Cardinality(part[a]) /\ Cardinality(part[a]) \in Nat
      BY <3>2, FS_Product, FS_CardinalityType
    <3>4. Cardinality({a} \X part[a]) = Cardinality(part[a])
      BY <3>3
    <3>5. QED
      BY <3>1, <3>4, Zenon
  <2>3. \A p \in P : firsts(P)[p] \in A
    OBVIOUS
  <2> HIDE DEF size, firsts
  <2>4. LoadOf(A, size) = Cardinality(P)
    BY <2>1, <2>2, <2>3, CountByKey
  <2>5. QED
    BY <2>4 DEF size
<1>7. LoadOf(A, belows) = Cardinality(less)
  <2> DEFINE part == [a \in A |-> Below(A, mean, a)]
  <2>1. \A a \in A : part[a] = {c \in A : <<a, c>> \in less}
    BY DEF Below
  <2>2. belows = [a \in A |-> Cardinality(part[a])]
    OBVIOUS
  <2> HIDE DEF part, less, belows
  <2>3. less \in SUBSET (A \X A)
    BY DEF less
  <2>4. QED
    BY <1>6, <2>1, <2>2, <2>3
<1>8. LoadOf(A, ties) = Cardinality(same)
  <2> DEFINE part == [a \in A |-> Tied(A, mean, a)]
  <2>1. \A a \in A : part[a] = {c \in A : <<a, c>> \in same}
    BY DEF Tied
  <2>2. ties = [a \in A |-> Cardinality(part[a])]
    OBVIOUS
  <2> HIDE DEF part, same, ties
  <2>3. same \in SUBSET (A \X A)
    BY DEF same
  <2>4. QED
    BY <1>6, <2>1, <2>2, <2>3
<1> DEFINE twice == [a \in A |-> 2 * belows[a]]
           shared == [a \in A |-> twice[a] + ties[a]]
           ones == [a \in A |-> 1]
           ranks == [a \in A |-> RankOf(A, mean, a)]
<1>9. \A a \in A : belows[a] \in Nat /\ ties[a] \in Nat /\ ranks[a] = 2 * belows[a] + ties[a] + 1
  BY RankCounts DEF RankOf
<1> HIDE DEF belows, ties, less, same, ranks, k
<1>10. LoadOf(A, twice) = LoadOf(A, belows) + LoadOf(A, belows)
  BY <1>9, LoadsAdd
<1>11. LoadOf(A, shared) = LoadOf(A, twice) + LoadOf(A, ties)
  BY <1>9, LoadsAdd
<1>12. LoadOf(A, ones) = k * 1
  BY LoadConstant DEF k
<1>13. LoadOf(A, ranks) = LoadOf(A, shared) + LoadOf(A, ones)
  BY <1>9, LoadsAdd
<1>14. LoadOf(A, ranks) = 2 * Cardinality(less) + Cardinality(same) + k
  BY <1>1, <1>5, <1>7, <1>8, <1>10, <1>11, <1>12, <1>13
<1>15. LoadOf(A, ranks) = k * k + k
  BY <1>5, <1>14
<1>16. k * k + k = k * (k + 1)
  BY <1>1
<1>17. QED
  BY <1>15, <1>16 DEF ranks, k

-----------------------------------------------------------------------------
\* The paired test

\* Rows are numbered, and no metric is negative.
IsTable(rows) == IsFiniteSet(DOMAIN rows) /\ \A i \in DOMAIN rows : rows[i].value \in Nat

Means(rows, b) == [a \in Algorithms(rows) |-> pivot_table(rows, b, a)]

LEMMA TableFinite ==
  ASSUME NEW rows, IsTable(rows)
  PROVE  /\ IsFiniteSet(Algorithms(rows)) /\ IsFiniteSet(Blocks(rows)) /\ IsFiniteSet(dropna(rows))
         /\ dropna(rows) \subseteq Blocks(rows)
<1>1. [i \in DOMAIN rows |-> rows[i].algorithm] \in Surjection(DOMAIN rows, Algorithms(rows))
  BY DEF Surjection, Algorithms
<1>2. [i \in DOMAIN rows |-> rows[i].comparison_id] \in Surjection(DOMAIN rows, Blocks(rows))
  BY DEF Surjection, Blocks
<1>3. IsFiniteSet(Algorithms(rows)) /\ IsFiniteSet(Blocks(rows))
  BY <1>1, <1>2, FS_Surjection DEF IsTable
<1>4. dropna(rows) \subseteq Blocks(rows)
  BY DEF dropna
<1>5. QED
  BY <1>3, <1>4, FS_Subset

\* In a complete block every algorithm has a mean.
LEMMA CompleteBlockHasMeans ==
  ASSUME NEW rows, IsTable(rows), NEW b \in dropna(rows)
  PROVE  Means(rows, b) \in [Algorithms(rows) -> Fraction]
<1> SUFFICES ASSUME NEW a \in Algorithms(rows) PROVE pivot_table(rows, b, a) \in Fraction
  BY DEF Means
<1> DEFINE cell == Cell(rows, b, a)
           values == [i \in cell |-> rows[i].value]
<1>1. cell # {} /\ cell \subseteq DOMAIN rows
  BY DEF dropna, Cell
<1>2. IsFiniteSet(cell)
  BY <1>1, FS_Subset DEF IsTable
<1>3. Cardinality(cell) \in Nat \ {0}
  BY <1>1, <1>2, FS_EmptySet, FS_CardinalityType
<1>4. \A i \in cell : values[i] \in Nat
  BY <1>1 DEF IsTable
<1>5. LoadOf(cell, values) \in Nat
  BY <1>2, <1>4, LoadIsNat
<1>6. pivot_table(rows, b, a) = <<LoadOf(cell, values), Cardinality(cell)>>
  BY DEF pivot_table
<1> HIDE DEF cell, values
<1>7. QED
  BY <1>3, <1>5, <1>6 DEF Fraction

LEMMA RankIs ==
  ASSUME NEW rows, NEW b, NEW a \in Algorithms(rows)
  PROVE  rank(rows, b, a) = RankOf(Algorithms(rows), Means(rows, b), a)
<1>1. \A c \in Algorithms(rows) : Means(rows, b)[c] = pivot_table(rows, b, c)
  BY DEF Means
<1>2. Below(Algorithms(rows), Means(rows, b), a) =
        {c \in Algorithms(rows) : ~LessEq(pivot_table(rows, b, a), pivot_table(rows, b, c))}
  BY <1>1 DEF Below
<1>3. Tied(Algorithms(rows), Means(rows, b), a) =
        {c \in Algorithms(rows) : Same(pivot_table(rows, b, a), pivot_table(rows, b, c))}
  BY <1>1 DEF Tied
<1>4. QED
  BY <1>2, <1>3 DEF rank, RankOf

\* What the result of a test consists of.
LEMMA TestResult ==
  ASSUME NEW rows, IsTable(rows), test_one_metric(rows) # NoResult
  PROVE  /\ test_one_metric(rows).n_blocks = Cardinality(dropna(rows))
         /\ test_one_metric(rows).mean_rank =
              [a \in Algorithms(rows) |-> LoadOf(dropna(rows), [b \in dropna(rows) |-> rank(rows, b, a)])]
<1>1. ~(Cardinality(dropna(rows)) < 2)
  BY DEF test_one_metric
<1>2. dropna(rows) # {}
  BY <1>1, FS_EmptySet
<1>3. QED
  BY <1>2 DEF test_one_metric

\* The ranks are shared out in full and follow the means (_test_one_metric), for every
\* table of trials.
LEMMA RanksFair == ASSUME NEW rows, IsTable(rows) PROVE RanksAreFair(rows)
<1> DEFINE A == Algorithms(rows)
           D == dropna(rows)
           k == Cardinality(A)
           n == Cardinality(D)
           ranks(a) == [b \in D |-> rank(rows, b, a)]
           sums == [a \in A |-> LoadOf(D, ranks(a))]
           no_worse(a, c) == \A b \in D : LessEq(pivot_table(rows, b, a), pivot_table(rows, b, c))
<1>1. /\ IsFiniteSet(A) /\ IsFiniteSet(D) /\ k \in Nat /\ n \in Nat
  BY TableFinite, FS_CardinalityType
<1>2. ASSUME NEW b \in D
      PROVE  /\ Means(rows, b) \in [A -> Fraction]
             /\ \A a \in A : /\ rank(rows, b, a) = RankOf(A, Means(rows, b), a) /\ rank(rows, b, a) \in Nat
                             /\ Means(rows, b)[a] = pivot_table(rows, b, a)
  <2>1. Means(rows, b) \in [A -> Fraction]
    BY CompleteBlockHasMeans
  <2>2. QED
    BY <1>1, <2>1, RankIs, RankCounts DEF Means
<1>3. LoadOf(A, sums) = n * (k * (k + 1))
  <2> DEFINE r == [p \in A \X D |-> rank(rows, p[2], p[1])]
             columns == [b \in D |-> ColumnSum(A, r, b)]
  <2>1. \A a \in A, b \in D : r[<<a, b>>] = rank(rows, b, a)
    OBVIOUS
  <2>2. \A p \in A \X D : r[p] \in Nat
    BY <1>2
  <2> HIDE DEF r
  <2>3. ASSUME NEW a \in A PROVE sums[a] = RowSum(D, r, a)
    <3>1. ranks(a) = [b \in D |-> r[<<a, b>>]]
      BY <2>1
    <3>2. QED
      BY <3>1 DEF RowSum
  <2>4. ASSUME NEW b \in D PROVE columns[b] = k * (k + 1)
    <3>1. [a \in A |-> r[<<a, b>>]] = [a \in A |-> RankOf(A, Means(rows, b), a)]
      BY <1>2, <2>1
    <3>2. LoadOf(A, [a \in A |-> RankOf(A, Means(rows, b), a)]) = k * (k + 1)
      BY <1>1, <1>2, RanksAddUp
    <3>3. QED
      BY <3>1, <3>2 DEF ColumnSum
  <2>5. \A b \in D : columns[b] = ColumnSum(A, r, b)
    OBVIOUS
  <2> HIDE DEF sums, columns, A, D, k, n
  <2>6. LoadOf(A, sums) = LoadOf(A \X D, r)
    BY <1>1, <2>2, <2>3, TableByRows
  <2>7. LoadOf(D, columns) = LoadOf(A \X D, r)
    BY <1>1, <2>2, <2>5, TableByColumns
  <2>8. k * (k + 1) \in Nat
    BY <1>1
  <2>9. LoadOf(D, columns) = n * (k * (k + 1))
    BY <1>1, <2>4, <2>8, LoadConstant DEF n
  <2>10. QED
    BY <2>6, <2>7, <2>9
<1>4. ASSUME NEW a \in A, NEW c \in A, no_worse(a, c), ~no_worse(c, a) PROVE sums[a] < sums[c]
  <2>1. PICK z \in D : ~LessEq(pivot_table(rows, z, c), pivot_table(rows, z, a))
    BY <1>4
  <2>2. ASSUME NEW b \in D
        PROVE  /\ ranks(a)[b] \in Nat /\ ranks(c)[b] \in Nat /\ ranks(a)[b] <= ranks(c)[b]
               /\ ~LessEq(pivot_table(rows, b, c), pivot_table(rows, b, a)) => ranks(a)[b] < ranks(c)[b]
    <3>1. LessEq(Means(rows, b)[a], Means(rows, b)[c])
      BY <1>2, <1>4
    <3>2. /\ RankOf(A, Means(rows, b), a) <= RankOf(A, Means(rows, b), c)
          /\ ~LessEq(Means(rows, b)[c], Means(rows, b)[a]) =>
               RankOf(A, Means(rows, b), a) < RankOf(A, Means(rows, b), c)
      BY <1>1, <1>2, <3>1, RankFollowsMean
    <3>3. QED
      BY <1>2, <3>2
  <2>3. ranks(a)[z] < ranks(c)[z]
    BY <2>1, <2>2
  <2> HIDE DEF ranks, D
  <2>4. LoadOf(D, ranks(a)) < LoadOf(D, ranks(c))
    BY <1>1, <2>2, <2>3, LoadStrict
  <2>5. QED
    BY <2>4
<1>5. SUFFICES ASSUME test_one_metric(rows) # NoResult
               PROVE  /\ LoadOf(A, test_one_metric(rows).mean_rank) = test_one_metric(rows).n_blocks * k * (k + 1)
                      /\ \A a, c \in A : no_worse(a, c) /\ ~no_worse(c, a) =>
                           test_one_metric(rows).mean_rank[a] < test_one_metric(rows).mean_rank[c]
  BY DEF RanksAreFair
<1>6. test_one_metric(rows).n_blocks = n /\ test_one_metric(rows).mean_rank = sums
  BY <1>5, TestResult
<1>7. n * (k * (k + 1)) = n * k * (k + 1)
  BY <1>1
<1> HIDE DEF sums, n, k, no_worse
<1>8. QED
  BY <1>3, <1>4, <1>6, <1>7

\* A block that is not complete has no say.
LEMMA IncompleteIgnored == ASSUME NEW rows, IsTable(rows) PROVE IncompleteBlocksIgnored(rows)
<1> DEFINE A == Algorithms(rows)
           D == dropna(rows)
           kept == [i \in {j \in DOMAIN rows : rows[j].comparison_id \in D} |-> rows[i]]
<1>1. SUFFICES ASSUME Algorithms(kept) = A PROVE test_one_metric(kept) = test_one_metric(rows)
  BY DEF IncompleteBlocksIgnored
<1>2. \A a : \A b \in D : Cell(kept, b, a) = Cell(rows, b, a)
  BY DEF Cell
<1>3. \A a : \A b \in D : pivot_table(kept, b, a) = pivot_table(rows, b, a)
  <2> SUFFICES ASSUME NEW b \in D, NEW a PROVE pivot_table(kept, b, a) = pivot_table(rows, b, a)
    OBVIOUS
  <2>1. Cell(kept, b, a) = Cell(rows, b, a) /\ Cell(rows, b, a) \subseteq DOMAIN kept
    BY <1>2 DEF Cell
  <2>2. [i \in Cell(kept, b, a) |-> kept[i].value] = [i \in Cell(rows, b, a) |-> rows[i].value]
    BY <2>1
  <2>3. QED
    BY <2>1, <2>2 DEF pivot_table
<1>4. Blocks(kept) = D
  BY DEF Blocks, dropna
<1>5. dropna(kept) = D
  BY <1>1, <1>2, <1>4 DEF dropna
<1> HIDE DEF kept
<1>6. \A b \in D, a \in A : rank(kept, b, a) = rank(rows, b, a)
  <2> SUFFICES ASSUME NEW b \in D, NEW a \in A PROVE rank(kept, b, a) = rank(rows, b, a)
    OBVIOUS
  <2>1. Means(kept, b) = Means(rows, b)
    BY <1>1, <1>3 DEF Means
  <2>2. QED
    BY <1>1, <2>1, RankIs
<1>7. \A a \in A : [b \in D |-> rank(kept, b, a)] = [b \in D |-> rank(rows, b, a)]
  BY <1>6
<1>8. [a \in A |-> LoadOf(D, [b \in D |-> rank(kept, b, a)])] =
        [a \in A |-> LoadOf(D, [b \in D |-> rank(rows, b, a)])]
  BY <1>7
<1>9. (\E b \in D, a \in A, c \in A : ~Same(pivot_table(kept, b, a), pivot_table(kept, b, c))) <=>
        (\E b \in D, a \in A, c \in A : ~Same(pivot_table(rows, b, a), pivot_table(rows, b, c)))
  BY <1>3
<1>10. CASE D = {}
  <2>1. Cardinality(D) < 2
    BY <1>10, FS_EmptySet
  <2>2. QED
    BY <1>5, <2>1 DEF test_one_metric
<1>11. CASE D # {}
  <2> DEFINE differ(t) == \E b \in D, a \in A, c \in A : ~Same(pivot_table(t, b, a), pivot_table(t, b, c))
             mean_rank(t) == [a \in A |-> LoadOf(D, [b \in D |-> rank(t, b, a)])]
             result(t) == IF \/ Cardinality(A) < 2
                             \/ Cardinality(D) < 2
                             \/ Cardinality(A) = 2 /\ ~differ(t)
                          THEN NoResult
                          ELSE [test_name |-> IF Cardinality(A) = 2 THEN "wilcoxon_signed_rank" ELSE "friedman",
                                df |-> IF Cardinality(A) = 2 THEN 0 ELSE Cardinality(A) - 1,
                                n_blocks |-> Cardinality(D),
                                mean_rank |-> mean_rank(t)]
  <2>1. ASSUME NEW t, dropna(t) = D, Algorithms(t) = A
        PROVE  test_one_metric(t) = result(t)
    <3> HIDE DEF A, D
    <3>1. (IF D = {} THEN {} ELSE A) = A
      BY <1>11
    <3>2. QED
      BY <2>1, <3>1, Zenon DEF test_one_metric
  <2>2. mean_rank(kept) = mean_rank(rows) /\ (differ(kept) <=> differ(rows))
    BY <1>8, <1>9
  <2> HIDE DEF mean_rank, differ, A, D
  <2>3. result(kept) = result(rows)
    BY <2>2
  <2> HIDE DEF result
  <2>4. test_one_metric(kept) = result(kept) /\ test_one_metric(rows) = result(rows)
    BY <1>1, <1>5, <2>1 DEF A, D
  <2>5. QED
    BY <2>3, <2>4
<1>12. QED
  BY <1>10, <1>11

\* Of a comparison there are trials of one scenario only (run_loaded_scenario names it
\* after the scenario and the trial).
OneScenario(rows) ==
  \A i, j \in DOMAIN rows :
    rows[i].comparison_id = rows[j].comparison_id => rows[i].scenario = rows[j].scenario

LEMMA SingleContributes ==
  ASSUME NEW rows, IsTable(rows), OneScenario(rows)
  PROVE  SingleContributesNothing(rows)
<1> DEFINE A == Algorithms(rows)
           of(s) == {rows[i].algorithm : i \in {j \in DOMAIN rows : rows[j].scenario = s}}
<1>1. SUFFICES ASSUME Cardinality(A) >= 2, NEW i \in DOMAIN rows,
                      rows[i].scenario \in single(rows), rows[i].comparison_id \in dropna(rows)
               PROVE  FALSE
  BY DEF SingleContributesNothing
<1>2. Cardinality(of(rows[i].scenario)) < 2
  BY <1>1 DEF single
<1>3. ASSUME NEW a \in A PROVE a \in of(rows[i].scenario)
  <2>1. PICK j \in Cell(rows, rows[i].comparison_id, a) : TRUE
    BY <1>1 DEF dropna
  <2>2. QED
    BY <2>1 DEF Cell, OneScenario
<1>4. of(rows[i].scenario) = A
  BY <1>3 DEF Algorithms
<1>5. Cardinality(A) \in Nat
  BY TableFinite, FS_CardinalityType
<1>6. QED
  BY <1>1, <1>2, <1>4, <1>5

-----------------------------------------------------------------------------
\* The bands of the plots

\* The samples of a node in a trial, at different times.
IsSeries(series) ==
  /\ IsFiniteSet(series)
  /\ \A s \in series : s[1] \in Nat /\ s[2] \in Nat
  /\ \A s, r \in series : s[1] = r[1] => s = r

LEMMA TimesOf ==
  ASSUME NEW series, IsSeries(series)
  PROVE  {s[1] : s \in series} \subseteq Nat /\ IsFiniteSet({s[1] : s \in series})
<1> DEFINE time == [s \in series |-> s[1]]
<1>1. time \in Surjection(series, {s[1] : s \in series})
  BY DEF Surjection
<1>2. IsFiniteSet({s[1] : s \in series})
  BY <1>1, FS_Surjection DEF IsSeries
<1>3. QED
  BY <1>2 DEF IsSeries

LEMMA LatestIs ==
  ASSUME NEW series, IsSeries(series), series # {}
  PROVE  Latest(series) \in series /\ \A r \in series : r[1] <= Latest(series)[1]
<1> DEFINE times == {s[1] : s \in series}
<1>1. PICK m \in times : \A x \in times : x <= m
  BY TimesOf, GreatestMember
<1>2. \E s \in series : \A r \in series : r[1] <= s[1]
  BY <1>1
<1>3. QED
  BY <1>2 DEF Latest

LEMMA EarliestIs ==
  ASSUME NEW series, IsSeries(series), series # {}
  PROVE  Earliest(series) \in series /\ \A r \in series : r[1] >= Earliest(series)[1]
<1> DEFINE times == {s[1] : s \in series}
<1>1. PICK m \in times : \A x \in times : ~(x < m)
  <2>1. times \in SUBSET Nat /\ times # {}
    BY TimesOf
  <2>2. QED
    BY <2>1, LeastMember
<1>2. \E s \in series : \A r \in series : r[1] >= s[1]
  <2>1. PICK s \in series : m = s[1]
    BY <1>1
  <2>2. ASSUME NEW r \in series PROVE r[1] >= s[1]
    <3>1. r[1] \in Nat /\ s[1] \in Nat /\ ~(r[1] < s[1])
      BY <1>1, <2>1 DEF IsSeries
    <3>2. QED
      BY <3>1
  <2>3. QED
    BY <2>2
<1>3. QED
  BY <1>2 DEF Earliest

\* What is at least a times d is at least a when divided by d.
LEMMA DivideAbove ==
  ASSUME NEW d \in Nat \ {0}, NEW x \in Int, NEW a \in Int, a * d <= x
  PROVE  x \div d \in Int /\ a <= x \div d
<1>1. x \div d \in Int /\ x = d * (x \div d) + (x % d) /\ 0 <= x % d /\ x % d < d /\ x % d \in Int
  OBVIOUS
<1>2. ASSUME x \div d < a PROVE FALSE
  <2>1. d * (x \div d) <= d * (a - 1)
    BY <1>1, <1>2
  <2>2. QED
    BY <1>1, <2>1
<1>3. QED
  BY <1>1, <1>2

\* The line between two samples is nowhere negative.
LEMMA LineAboveZero ==
  ASSUME NEW l \in Nat, NEW r \in Nat, NEW k \in Nat, NEW d \in Nat, k <= d, NEW c \in Nat
  PROVE  (0 - c * l) * d <= (r - l) * k * c
<1>1. l * k <= l * d
  BY TimesMonotone
<1>2. 0 <= r * k + (l * d - l * k)
  BY <1>1
<1>3. 0 * c <= (r * k + (l * d - l * k)) * c
  BY <1>2, TimesMonotone
<1>4. (r * k + (l * d - l * k)) * c = (r - l) * k * c - (0 - c * l) * d
  OBVIOUS
<1>5. QED
  BY <1>3, <1>4

LEMMA InterpIs ==
  ASSUME NEW series, IsSeries(series), NEW g \in Nat, After(series, g) # {}
  PROVE  /\ interp(series, g) \in Nat
         /\ \A s \in series : s[1] = g => interp(series, g) = Scale * s[2]
<1>1. /\ IsSeries(Before(series, g)) /\ IsSeries(After(series, g))
      /\ Before(series, g) \subseteq series /\ After(series, g) \subseteq series
  <2>1. Before(series, g) \subseteq series /\ After(series, g) \subseteq series
    BY DEF Before, After
  <2>2. QED
    BY <2>1, FS_Subset DEF IsSeries
<1>2. \A s \in series : s[1] = g => s \in Before(series, g) /\ s \in After(series, g)
  BY DEF Before, After
<1>3. CASE Before(series, g) = {}
  <2>1. Earliest(series) \in series
    BY EarliestIs DEF After
  <2>2. QED
    BY <1>2, <1>3, <2>1, StatisticsAssumption DEF interp, IsSeries
<1>4. CASE Before(series, g) # {}
  <2> DEFINE l == Latest(Before(series, g))
             r == Earliest(After(series, g))
  <2>1. /\ l \in Before(series, g) /\ r \in After(series, g)
        /\ \A s \in Before(series, g) : s[1] <= l[1]
        /\ \A s \in After(series, g) : s[1] >= r[1]
    BY <1>1, <1>4, LatestIs, EarliestIs
  <2>2. /\ l \in series /\ r \in series /\ l[1] <= g /\ g <= r[1]
        /\ l[1] \in Nat /\ l[2] \in Nat /\ r[1] \in Nat /\ r[2] \in Nat
    BY <2>1 DEF Before, After, IsSeries
  <2>3. interp(series, g) = IF l = r THEN Scale * l[2]
                            ELSE Scale * l[2] + ((r[2] - l[2]) * (g - l[1]) * Scale) \div (r[1] - l[1])
    BY <1>4 DEF interp
  <2> HIDE DEF l, r
  <2>4. ASSUME NEW s \in series, s[1] = g PROVE l = r /\ s = l
    <3>1. s[1] <= l[1] /\ s[1] >= r[1]
      BY <1>2, <2>1, <2>4
    <3>2. l[1] = g /\ r[1] = g
      BY <2>2, <2>4, <3>1
    <3>3. QED
      BY <2>2, <2>4, <3>2 DEF IsSeries
  <2>5. CASE l = r
    <3>1. interp(series, g) = Scale * l[2]
      BY <2>3, <2>5
    <3>2. QED
      BY <2>2, <2>4, <3>1, StatisticsAssumption
  <2>6. CASE l # r
    <3> DEFINE d == r[1] - l[1]
               x == (r[2] - l[2]) * (g - l[1]) * Scale
    <3>1. l[1] # r[1]
      BY <2>2, <2>6 DEF IsSeries
    <3>2. d \in Nat \ {0} /\ g - l[1] \in Nat /\ g - l[1] <= d /\ Scale \in Nat
      BY <2>2, <3>1, StatisticsAssumption
    <3>3. (0 - Scale * l[2]) * d <= x
      BY <2>2, <3>2, LineAboveZero
    <3>4. x \in Int /\ 0 - Scale * l[2] \in Int
      BY <2>2, <3>2
    <3>5. x \div d \in Int /\ 0 - Scale * l[2] <= x \div d
      BY <3>2, <3>3, <3>4, DivideAbove
    <3>6. interp(series, g) = Scale * l[2] + x \div d
      BY <2>3, <2>6
    <3> HIDE DEF x, d
    <3>7. interp(series, g) \in Nat
      BY <2>2, <3>2, <3>5, <3>6
    <3>8. QED
      BY <2>4, <2>6, <3>7
  <2>7. QED
    BY <2>5, <2>6
<1>5. QED
  BY <1>3, <1>4

LEMMA ResampleIs ==
  ASSUME NEW series, IsSeries(series), NEW g \in Nat
  PROVE  /\ After(series, g) = {} => resample(series, g) = NaN
         /\ After(series, g) # {} => resample(series, g) \in Nat /\ resample(series, g) = interp(series, g)
<1>1. series = {} => After(series, g) = {}
  BY DEF After
<1>2. QED
  BY <1>1, InterpIs DEF resample

\* The mean of some numbers is between the least and the greatest.
LEMMA MeanBetween ==
  ASSUME NEW I, IsFiniteSet(I), I # {}, NEW f, \A i \in I : f[i] \in Nat
  PROVE  /\ Min({f[i] : i \in I}) \in Nat /\ Max({f[i] : i \in I}) \in Nat
         /\ \A j \in I : Min({f[i] : i \in I}) <= f[j] /\ f[j] <= Max({f[i] : i \in I})
         /\ LessEq(<<Min({f[i] : i \in I}), 1>>, <<LoadOf(I, f), Cardinality(I)>>)
         /\ LessEq(<<LoadOf(I, f), Cardinality(I)>>, <<Max({f[i] : i \in I}), 1>>)
<1> DEFINE T == {f[i] : i \in I}
           lo == [i \in I |-> Min(T)]
           hi == [i \in I |-> Max(T)]
<1>1. T \subseteq Nat /\ T # {}
  OBVIOUS
<1>2. IsFiniteSet(T)
  <2>1. [i \in I |-> f[i]] \in Surjection(I, T)
    BY DEF Surjection
  <2>2. QED
    BY <2>1, FS_Surjection
<1>3. Min(T) \in T /\ \A y \in T : Min(T) <= y
  <2>1. PICK m \in T : \A y \in T : ~(y < m)
    BY <1>1, LeastMember
  <2>2. \A y \in T : m \in Nat /\ y \in Nat /\ ~(y < m)
    BY <1>1, <2>1
  <2>3. \A y \in T : m <= y
    BY <2>2
  <2>4. QED
    BY <2>3 DEF Min
<1>4. Max(T) \in T /\ \A y \in T : Max(T) >= y
  <2>1. PICK m \in T : \A y \in T : y <= m
    BY <1>1, <1>2, GreatestMember
  <2>2. \A y \in T : m >= y
    BY <1>1, <2>1
  <2>3. QED
    BY <2>2 DEF Max
<1>5. \A i \in I : f[i] \in T /\ Min(T) <= f[i] /\ f[i] <= Max(T) /\ Min(T) \in Nat /\ Max(T) \in Nat
  BY <1>1, <1>3, <1>4
<1>6. Min(T) \in Nat /\ Max(T) \in Nat /\ Cardinality(I) \in Nat /\ LoadOf(I, f) \in Nat
  BY <1>1, <1>3, <1>4, LoadIsNat, FS_CardinalityType
<1> HIDE DEF T
<1>7. LoadOf(I, lo) = Cardinality(I) * Min(T) /\ LoadOf(I, hi) = Cardinality(I) * Max(T)
  BY <1>6, LoadConstant
<1>8. LoadOf(I, lo) <= LoadOf(I, f) /\ LoadOf(I, f) <= LoadOf(I, hi)
  <2>1. \A i \in I : lo[i] = Min(T) /\ hi[i] = Max(T)
    OBVIOUS
  <2> HIDE DEF lo, hi
  <2>2. \A i \in I : /\ lo[i] \in Nat /\ hi[i] \in Nat /\ f[i] \in Nat
                     /\ lo[i] <= f[i] /\ f[i] <= hi[i]
    BY <1>5, <2>1
  <2>3. QED
    BY <2>2, LoadOrdered
<1> HIDE DEF lo, hi
<1>9. QED
  BY <1>5, <1>6, <1>7, <1>8 DEF LessEq, T

LEMMA BandsHold ==
  ASSUME NEW trials, IsFiniteSet(DOMAIN trials), \A i \in DOMAIN trials : IsSeries(trials[i]),
         NEW grid, grid \subseteq Nat
  PROVE  BandHoldsSamples(trials, grid)
<1> SUFFICES ASSUME NEW g \in grid
             PROVE  LET band == aggregate(trials, g)
                        going == {i \in DOMAIN trials : After(trials[i], g) # {}}
                    IN  /\ band.mean = NaN <=> going = {}
                        /\ going # {} =>
                             /\ band.mean[2] = Cardinality(going)
                             /\ LessEq(<<band.lo, 1>>, band.mean) /\ LessEq(band.mean, <<band.hi, 1>>)
                             /\ \A i \in going : \A s \in trials[i] :
                                  s[1] = g => band.lo <= Scale * s[2] /\ Scale * s[2] <= band.hi
  BY DEF BandHoldsSamples
<1> DEFINE band == aggregate(trials, g)
           going == {i \in DOMAIN trials : After(trials[i], g) # {}}
           values == [i \in DOMAIN trials |-> resample(trials[i], g)]
           there == {i \in DOMAIN values : values[i] # NaN}
           seen == {values[i] : i \in going}
<1>1. g \in Nat
  OBVIOUS
<1>2. \A i \in going : values[i] \in Nat /\ values[i] = interp(trials[i], g)
  BY <1>1, ResampleIs
<1>3. \A i \in DOMAIN trials : i \notin going => values[i] = NaN
  BY <1>1, ResampleIs
<1>4. there = going
  BY <1>2, <1>3, StatisticsAssumption, ReportsAssumption
<1>5. IsFiniteSet(going)
  BY FS_Subset
<1>6. ASSUME NEW i \in going, NEW s \in trials[i], s[1] = g PROVE values[i] = Scale * s[2]
  BY <1>1, <1>2, <1>6, InterpIs
<1>7. aggregate(trials, g) =
        IF there = {} THEN [mean |-> NaN, lo |-> NaN, hi |-> NaN]
        ELSE [mean |-> <<LoadOf(there, values), Cardinality(there)>>,
              lo |-> Min({values[i] : i \in there}), hi |-> Max({values[i] : i \in there})]
  BY DEF aggregate
<1>8. CASE going = {}
  <2>1. aggregate(trials, g) = [mean |-> NaN, lo |-> NaN, hi |-> NaN]
    BY <1>4, <1>7, <1>8
  <2>2. aggregate(trials, g).mean = NaN
    BY <2>1
  <2>3. band.mean = NaN
    BY <2>2
  <2> HIDE DEF band, going
  <2>4. QED
    BY <1>8, <2>3 DEF band, going
<1>9. CASE going # {}
  <2> HIDE DEF going, values, there
  <2>1. /\ band.mean = <<LoadOf(going, values), Cardinality(going)>>
        /\ band.lo = Min(seen) /\ band.hi = Max(seen)
    BY <1>4, <1>7, <1>9
  <2> HIDE DEF band
  <2>2. /\ \A i \in going : Min(seen) <= values[i] /\ values[i] <= Max(seen)
        /\ LessEq(<<Min(seen), 1>>, <<LoadOf(going, values), Cardinality(going)>>)
        /\ LessEq(<<LoadOf(going, values), Cardinality(going)>>, <<Max(seen), 1>>)
    BY <1>2, <1>5, <1>9, MeanBetween
  <2>3. band.mean # NaN
    <3>1. LoadOf(going, values) \in Int /\ Cardinality(going) \in Int
      BY <1>2, <1>5, LoadIsNat, FS_CardinalityType
    <3>2. QED
      BY <2>1, <3>1, StatisticsAssumption, ReportsAssumption
  <2>4. band.mean[2] = Cardinality(going)
    BY <2>1
  <2>5. LessEq(<<band.lo, 1>>, band.mean) /\ LessEq(band.mean, <<band.hi, 1>>)
    BY <2>1, <2>2
  <2>6. \A i \in going : \A s \in trials[i] :
          s[1] = g => band.lo <= Scale * s[2] /\ Scale * s[2] <= band.hi
    BY <1>6, <2>1, <2>2
  <2>7. QED
    BY <1>9, <2>3, <2>4, <2>5, <2>6 DEF going, band
<1>10. QED
  BY <1>8, <1>9

-----------------------------------------------------------------------------
\* The index of the plots

\* A name that goes on begins as it began.
LEMMA NameGoesOn ==
  ASSUME NEW s, IsName(s), NEW W, NEW t \in Seq(W)
  PROVE  /\ s \o t \in Seq(ToSet(s) \cup W) /\ s \o t # <<>>
         /\ Head(s \o t) = Head(s) /\ IsPrefix(s, s \o t)
<1> DEFINE V == ToSet(s) \cup W
<1>1. s \in Seq(V) /\ t \in Seq(V) /\ s # <<>>
  BY DEF IsName
<1> HIDE DEF V
<1>2. s \o t \in Seq(V) /\ Len(s \o t) = Len(s) + Len(t) /\ \A k \in 1..Len(s) : (s \o t)[k] = s[k]
  BY <1>1
<1>3. s \o t # <<>> /\ Head(s \o t) = Head(s) /\ Len(s) <= Len(s \o t)
  BY <1>1, <1>2
<1>4. SubSeq(s, 1, Len(s)) = SubSeq(s \o t, 1, Len(s))
  BY <1>1, <1>2, <1>3
<1>5. QED
  BY <1>2, <1>3, <1>4 DEF IsPrefix, V

LEMMA PrefixHead ==
  ASSUME NEW s, IsName(s), NEW W, NEW p \in Seq(W), IsPrefix(s, p)
  PROVE  Head(p) = Head(s)
<1> DEFINE V == ToSet(s) \cup W
<1>1. s \in Seq(V) /\ p \in Seq(V) /\ Len(s) >= 1 /\ Len(s) <= Len(p)
  BY DEF IsName, IsPrefix
<1> HIDE DEF V
<1>2. SubSeq(s, 1, Len(s))[1] = s[1] /\ SubSeq(p, 1, Len(s))[1] = p[1]
  BY <1>1
<1>3. s[1] = p[1]
  BY <1>2 DEF IsPrefix
<1>4. QED
  BY <1>1, <1>3

\* Every plot is named after a scenario.
LEMMA PlotsNamed ==
  ASSUME NEW rows, \A i \in DOMAIN rows : IsName(rows[i].scenario) /\ IsName(rows[i].algorithm),
         NEW p \in plots(rows)
  PROVE  \E W : p \in Seq(W)
<1>1. CASE p \in trial_plots(rows)
  <2>1. PICK i \in DOMAIN rows, k \in {"memory.png", "cpu.png", "distribution.png"} :
          p = plot_name(rows[i]) \o <<k>>
    BY <1>1 DEF trial_plots
  <2>2. IsName(rows[i].scenario) /\ rows[i].algorithm \in Seq(ToSet(rows[i].algorithm))
    BY DEF IsName
  <2>3. plot_name(rows[i]) \in Seq(ToSet(rows[i].scenario) \cup ToSet(rows[i].algorithm))
    BY <2>2, NameGoesOn DEF plot_name
  <2>4. <<k>> \in Seq({k})
    OBVIOUS
  <2>5. p \in Seq(ToSet(rows[i].scenario) \cup ToSet(rows[i].algorithm) \cup {k})
    BY <2>1, <2>3, <2>4
  <2>6. QED
    BY <2>5
<1>2. CASE p \in overlays(rows)
  <2>1. PICK i \in DOMAIN rows : p \in overlays_of(rows, i)
    BY <1>2 DEF overlays
  <2>2. PICK n, k : p = overlay_name(rows[i], n, k)
    BY <2>1 DEF overlays_of
  <2>3. <<n, k, "overlay.png">> \in Seq({n, k, "overlay.png"})
    OBVIOUS
  <2>4. p \in Seq(ToSet(rows[i].scenario) \cup {n, k, "overlay.png"})
    BY <2>2, <2>3, NameGoesOn DEF overlay_name
  <2>5. QED
    BY <2>4
<1>3. QED
  BY <1>1, <1>2 DEF plots

LEMMA PlotsTogether ==
  ASSUME NEW rows, \A i \in DOMAIN rows : IsName(rows[i].scenario) /\ IsName(rows[i].algorithm)
  PROVE  PlotsOfAScenarioTogether(rows)
<1> SUFFICES ASSUME NEW i \in DOMAIN rows, rows[i].nodes # {}
             PROVE  \E h \in {heading(p) : p \in plots(rows)} :
                      /\ IsPrefix(h, rows[i].scenario)
                      /\ \A p \in plots(rows) : IsPrefix(rows[i].scenario, p) => heading(p) = h
  BY DEF PlotsOfAScenarioTogether
<1> DEFINE s == rows[i].scenario
           h == <<Head(s)>>
           file == plot_name(rows[i]) \o <<"memory.png">>
<1>1. IsName(s) /\ rows[i].algorithm \in Seq(ToSet(rows[i].algorithm))
  BY DEF IsName
<1>2. file \in plots(rows)
  BY DEF plots, trial_plots
<1>3. ASSUME NEW p \in plots(rows), IsPrefix(s, p) PROVE heading(p) = h
  <2>1. PICK W : p \in Seq(W)
    BY PlotsNamed
  <2>2. Head(p) = Head(s)
    BY <1>1, <1>3, <2>1, PrefixHead
  <2>3. QED
    BY <2>2 DEF heading
<1>4. heading(file) = h
  <2> DEFINE n == plot_name(rows[i])
             V == ToSet(s) \cup ToSet(rows[i].algorithm)
  <2>1. n \in Seq(V) /\ n # <<>> /\ Head(n) = Head(s)
    BY <1>1, NameGoesOn DEF plot_name
  <2>2. n \in Seq(V \cup {"memory.png"}) /\ <<"memory.png">> \in Seq(V \cup {"memory.png"})
    BY <2>1
  <2> HIDE DEF n, V
  <2>3. Head(n \o <<"memory.png">>) = Head(n)
    BY <2>1, <2>2
  <2>4. QED
    BY <2>1, <2>3 DEF heading, n
<1>5. IsPrefix(h, s)
  <2>1. s \in Seq(ToSet(s)) /\ Len(s) >= 1 /\ Head(s) \in ToSet(s)
    BY <1>1 DEF IsName
  <2>2. h \in Seq(ToSet(s)) /\ Len(h) = 1 /\ h[1] = s[1]
    BY <2>1
  <2>3. SubSeq(h, 1, 1) = SubSeq(s, 1, 1)
    BY <2>1, <2>2
  <2>4. QED
    BY <2>1, <2>2, <2>3 DEF IsPrefix
<1>6. QED
  BY <1>2, <1>3, <1>4, <1>5

-----------------------------------------------------------------------------
\* Values and their order

\* The greatest of finitely many numbers.
LEMMA MaxOf ==
  ASSUME NEW T, T \subseteq Nat, IsFiniteSet(T), T # {}
  PROVE  Max(T) \in T /\ Max(T) \in Nat /\ \A y \in T : y <= Max(T)
<1>1. PICK m \in T : \A y \in T : y <= m
  BY GreatestMember
<1>2. \A y \in T : m >= y
  BY <1>1
<1>3. Max(T) \in T /\ \A y \in T : Max(T) >= y
  BY <1>2 DEF Max
<1>4. QED
  BY <1>3

IsValues(values) == IsFiniteSet(DOMAIN values) /\ \A i \in DOMAIN values : values[i] \in Nat

\* Finitely many values, all of them numbers.
LEMMA ValuesFinite ==
  ASSUME NEW values, IsValues(values)
  PROVE  /\ IsFiniteSet(Range(values)) /\ Range(values) \subseteq Nat
         /\ Count(values) \in Nat /\ (Count(values) = 0 <=> DOMAIN values = {})
         /\ DOMAIN values # {} => Range(values) # {}
<1>1. [i \in DOMAIN values |-> values[i]] \in Surjection(DOMAIN values, Range(values))
  BY DEF Surjection, Range
<1>2. IsFiniteSet(Range(values))
  BY <1>1, FS_Surjection DEF IsValues
<1>3. Count(values) \in Nat /\ (Count(values) = 0 <=> DOMAIN values = {})
  BY FS_CardinalityType, FS_EmptySet DEF Count, IsValues
<1>4. QED
  BY <1>2, <1>3 DEF IsValues, Range

\* How many are below one value is compared with how many are up to another.
LEMMA Counted ==
  ASSUME NEW values, IsValues(values), NEW v, NEW w
  PROVE  /\ IsFiniteSet(Smaller(values, v)) /\ IsFiniteSet(NoLarger(values, v))
         /\ Cardinality(Smaller(values, v)) \in Nat /\ Cardinality(NoLarger(values, v)) \in Nat
         /\ NoLarger(values, v) \subseteq Smaller(values, w) =>
              Cardinality(NoLarger(values, v)) <= Cardinality(Smaller(values, w))
         /\ Smaller(values, v) \subseteq NoLarger(values, w) =>
              Cardinality(Smaller(values, v)) <= Cardinality(NoLarger(values, w))
<1>1. IsFiniteSet(Smaller(values, v)) /\ IsFiniteSet(NoLarger(values, v))
      /\ IsFiniteSet(Smaller(values, w)) /\ IsFiniteSet(NoLarger(values, w))
  BY FS_Subset DEF Smaller, NoLarger, IsValues
<1>2. QED
  BY <1>1, FS_Subset, FS_CardinalityType

\* There is a k-th value.
LEMMA SortedIs ==
  ASSUME NEW values, IsValues(values), NEW k \in 1..Count(values)
  PROVE  /\ sorted(values)[k] \in Range(values) /\ sorted(values)[k] \in Nat
         /\ Cardinality(Smaller(values, sorted(values)[k])) < k
         /\ k <= Cardinality(NoLarger(values, sorted(values)[k]))
<1> DEFINE enough == {v \in Range(values) : k <= Cardinality(NoLarger(values, v))}
<1>1. Range(values) # {} /\ Range(values) \subseteq Nat /\ IsFiniteSet(Range(values))
      /\ Count(values) \in Nat
  <2>1. Count(values) \in Nat /\ Count(values) # 0
    BY ValuesFinite
  <2>2. QED
    BY <2>1, ValuesFinite
<1>2. Max(Range(values)) \in Range(values) /\ \A y \in Range(values) : y <= Max(Range(values))
  BY <1>1, MaxOf
<1>3. Max(Range(values)) \in enough
  <2>1. NoLarger(values, Max(Range(values))) = DOMAIN values
    BY <1>2 DEF NoLarger, Range
  <2>2. k <= Cardinality(DOMAIN values)
    BY <1>1 DEF Count
  <2>3. QED
    BY <1>2, <2>1, <2>2
<1>4. PICK v \in enough : \A w \in enough : ~(w < v)
  <2>1. enough \in SUBSET Nat /\ enough # {}
    BY <1>1, <1>3
  <2> HIDE DEF enough
  <2>2. QED
    BY <2>1, LeastMember
<1>5. Cardinality(Smaller(values, v)) < k
  <2> SUFFICES ASSUME k <= Cardinality(Smaller(values, v)) PROVE FALSE
    BY Counted
  <2> DEFINE T == {values[i] : i \in Smaller(values, v)}
  <2>1. Smaller(values, v) # {} /\ Smaller(values, v) \subseteq DOMAIN values
    BY FS_EmptySet DEF Smaller
  <2>2. T \subseteq Range(values) /\ T # {} /\ T \subseteq Nat /\ IsFiniteSet(T)
    BY <1>1, <2>1, FS_Subset DEF Range
  <2>3. Max(T) \in T /\ \A y \in T : y <= Max(T)
    BY <2>2, MaxOf
  <2>4. Max(T) < v
    BY <2>3 DEF Smaller
  <2>5. Smaller(values, v) \subseteq NoLarger(values, Max(T))
    BY <2>3 DEF Smaller, NoLarger
  <2>6. Cardinality(Smaller(values, v)) <= Cardinality(NoLarger(values, Max(T)))
    BY <2>5, Counted
  <2>7. Max(T) \in enough
    <3>1. Cardinality(Smaller(values, v)) \in Nat /\ Cardinality(NoLarger(values, Max(T))) \in Nat
      BY Counted
    <3>2. QED
      BY <2>2, <2>3, <2>6, <3>1
  <2>8. QED
    BY <1>4, <2>4, <2>7
<1>6. \E u \in Range(values) :
        Cardinality(Smaller(values, u)) < k /\ k <= Cardinality(NoLarger(values, u))
  BY <1>4, <1>5
<1>7. sorted(values)[k] = CHOOSE u \in Range(values) :
        Cardinality(Smaller(values, u)) < k /\ k <= Cardinality(NoLarger(values, u))
  BY DEF sorted
<1>8. QED
  BY <1>1, <1>6, <1>7

\* Sorting sorts.
LEMMA SortedGrows ==
  ASSUME NEW values, IsValues(values), NEW j \in 1..Count(values), NEW k \in 1..Count(values), j <= k
  PROVE  sorted(values)[j] <= sorted(values)[k]
<1> DEFINE v == sorted(values)[k]
           w == sorted(values)[j]
<1>1. /\ v \in Nat /\ w \in Nat
      /\ k <= Cardinality(NoLarger(values, v)) /\ Cardinality(Smaller(values, w)) < j
  BY SortedIs
<1> HIDE DEF v, w
<1>2. ASSUME v < w PROVE FALSE
  <2>1. NoLarger(values, v) \subseteq Smaller(values, w)
    BY <1>1, <1>2 DEF NoLarger, Smaller, IsValues
  <2>2. Cardinality(NoLarger(values, v)) <= Cardinality(Smaller(values, w))
    BY <2>1, Counted
  <2>3. Cardinality(NoLarger(values, v)) \in Nat /\ Cardinality(Smaller(values, w)) \in Nat /\ Count(values) \in Nat
    BY Counted, ValuesFinite
  <2>4. QED
    BY <1>1, <2>2, <2>3
<1>3. QED
  BY <1>1, <1>2 DEF v, w

\* The place of a percentile: between the ranks lo and hi, rest hundredths of the way.
Between(values, pct, lo, hi, rest) ==
  /\ lo \in 0..Count(values) - 1 /\ hi \in 0..Count(values) - 1 /\ rest \in 0..99
  /\ lo <= hi /\ (rest > 0 => hi = lo + 1)
  /\ pct * (Count(values) - 1) = 100 * lo + rest
  /\ percentile(values, pct) = 100 * sorted(values)[lo + 1]
                                + (sorted(values)[hi + 1] - sorted(values)[lo + 1]) * rest

LEMMA PercentilePlace ==
  ASSUME NEW values, IsValues(values), DOMAIN values # {}, NEW pct \in 0..100
  PROVE  \E lo, hi, rest : Between(values, pct, lo, hi, rest)
<1> DEFINE s == sorted(values)
           n == Count(values)
           pos == pct * (n - 1)
           lo == pos \div 100
           hi == IF lo + 1 < n THEN lo + 1 ELSE n - 1
           rest == pos % 100
<1>1. n \in Nat \ {0}
  BY ValuesFinite
<1>2. pos \in Nat /\ pos <= 100 * (n - 1)
  BY <1>1, TimesMonotone
<1>3. lo \in Nat /\ rest \in 0..99 /\ pos = 100 * lo + rest
  <2> HIDE DEF pos
  <2>1. QED
    BY <1>2
<1>4. percentile(values, pct) = 100 * s[lo + 1] + (s[hi + 1] - s[lo + 1]) * rest
  BY <1>1 DEF percentile
<1> HIDE DEF s, n, pos, lo, rest
<1>5. lo <= n - 1 /\ (rest > 0 => lo + 1 < n)
  BY <1>1, <1>2, <1>3
<1>6. hi \in 0..n - 1 /\ lo \in 0..n - 1 /\ lo <= hi /\ (rest > 0 => hi = lo + 1)
  BY <1>1, <1>3, <1>5
<1> HIDE DEF hi
<1>7. Between(values, pct, lo, hi, rest)
  BY <1>3, <1>4, <1>6 DEF Between, n, s, pos
<1>8. QED
  BY <1>7

LEMMA PercentileBetween ==
  ASSUME NEW values, IsValues(values), DOMAIN values # {},
         NEW pct, NEW lo, NEW hi, NEW rest, Between(values, pct, lo, hi, rest)
  PROVE  /\ percentile(values, pct) \in Nat
         /\ 100 * sorted(values)[lo + 1] <= percentile(values, pct)
         /\ percentile(values, pct) <= 100 * sorted(values)[hi + 1]
         /\ rest = 0 => percentile(values, pct) = 100 * sorted(values)[lo + 1]
<1> DEFINE u == sorted(values)[lo + 1]
           v == sorted(values)[hi + 1]
<1>1. /\ Count(values) \in Nat /\ lo + 1 \in 1..Count(values) /\ hi + 1 \in 1..Count(values) /\ lo + 1 <= hi + 1
      /\ rest \in 0..99 /\ percentile(values, pct) = 100 * u + (v - u) * rest
  BY ValuesFinite DEF Between
<1>2. u \in Nat /\ v \in Nat /\ u <= v
  BY <1>1, SortedIs, SortedGrows
<1> HIDE DEF u, v
<1>3. PICK d \in Nat : v = u + d
  BY <1>2
<1>4. d * rest \in Nat /\ d * rest <= 100 * d /\ (rest = 0 => d * rest = 0)
  <2>1. rest \in Nat /\ rest <= 100
    BY <1>1
  <2>2. rest * d <= 100 * d
    BY <2>1, TimesMonotone
  <2>3. d * rest = rest * d
    BY <2>1
  <2>4. QED
    BY <2>1, <2>2, <2>3
<1>5. percentile(values, pct) = 100 * u + d * rest
  <2>1. v - u = d
    BY <1>2, <1>3
  <2>2. QED
    BY <1>1, <2>1
<1>6. QED
  BY <1>2, <1>3, <1>4, <1>5 DEF u, v

\* No percentile is above all values.
LEMMA PercentileAtMost ==
  ASSUME NEW values, IsValues(values), NEW pct \in 0..100, NEW m \in Nat,
         \A i \in DOMAIN values : values[i] <= m
  PROVE  percentile(values, pct) \in Nat /\ percentile(values, pct) <= 100 * m
<1>1. CASE DOMAIN values = {}
  <2>1. Count(values) = 0
    BY <1>1, ValuesFinite
  <2>2. percentile(values, pct) = 0
    BY <2>1 DEF percentile
  <2>3. QED
    BY <2>2
<1>2. CASE DOMAIN values # {}
  <2>1. PICK lo, hi, rest : Between(values, pct, lo, hi, rest)
    BY <1>2, PercentilePlace
  <2>2. percentile(values, pct) \in Nat /\ percentile(values, pct) <= 100 * sorted(values)[hi + 1]
    BY <1>2, <2>1, PercentileBetween
  <2>3. hi + 1 \in 1..Count(values)
    BY <2>1, ValuesFinite DEF Between
  <2>4. sorted(values)[hi + 1] \in Nat /\ sorted(values)[hi + 1] \in Range(values)
    BY <2>3, SortedIs
  <2>5. sorted(values)[hi + 1] <= m
    BY <2>4 DEF Range
  <2> HIDE DEF IsValues
  <2>6. QED
    BY <2>2, <2>4, <2>5
<1>3. QED
  BY <1>1, <1>2

LEMMA MedianIs ==
  ASSUME NEW values, IsValues(values), DOMAIN values # {}
  PROVE  2 * percentile(values, 50) = 100 * median(values)
<1> DEFINE n == Count(values)
           s == sorted(values)
<1>1. PICK lo, hi, rest : Between(values, 50, lo, hi, rest)
  BY PercentilePlace
<1>2. n \in Nat \ {0}
  BY ValuesFinite
<1>3. /\ lo \in 0..n - 1 /\ hi \in 0..n - 1 /\ rest \in 0..99 /\ (rest > 0 => hi = lo + 1)
      /\ 50 * (n - 1) = 100 * lo + rest
      /\ percentile(values, 50) = 100 * s[lo + 1] + (s[hi + 1] - s[lo + 1]) * rest
  BY <1>1 DEF Between
<1>4. s[lo + 1] \in Nat /\ s[hi + 1] \in Nat
  BY <1>2, <1>3, SortedIs
<1>5. median(values) = s[(n + 1) \div 2] + s[(n + 2) \div 2]
  BY DEF median
<1> HIDE DEF n, s
<1>6. rest = 0 \/ rest = 50
  BY <1>2, <1>3
<1>7. CASE rest = 0
  <2>1. n = 2 * lo + 1
    BY <1>2, <1>3, <1>7
  <2>2. (n + 1) \div 2 = lo + 1 /\ (n + 2) \div 2 = lo + 1
    BY <1>3, <2>1
  <2>3. median(values) = s[lo + 1] + s[lo + 1]
    BY <1>5, <2>2
  <2>4. percentile(values, 50) = 100 * s[lo + 1]
    BY <1>3, <1>4, <1>7
  <2>5. QED
    BY <1>4, <2>3, <2>4
<1>8. CASE rest = 50
  <2>1. n = 2 * lo + 2 /\ hi = lo + 1
    BY <1>2, <1>3, <1>8
  <2>2. (n + 1) \div 2 = lo + 1 /\ (n + 2) \div 2 = hi + 1
    BY <1>3, <2>1
  <2>3. median(values) = s[lo + 1] + s[hi + 1]
    BY <1>5, <2>2
  <2>4. QED
    BY <1>3, <1>4, <1>8, <2>3
<1>9. QED
  BY <1>6, <1>7, <1>8

LEMMA OrderStatistic ==
  ASSUME NEW values, IsValues(values)
  PROVE  PercentileIsOrderStatistic(values)
<1> SUFFICES ASSUME DOMAIN values # {}, NEW p \in {0, 25, 50, 75, 95, 100}
             PROVE  LET x == percentile(values, p)
                        below == Cardinality({i \in DOMAIN values : 100 * values[i] < x})
                        above == Cardinality({i \in DOMAIN values : 100 * values[i] > x})
                    IN  /\ 100 * (below - 1) < p * (Count(values) - 1) \/ below = 0
                        /\ 100 * (above - 1) < (100 - p) * (Count(values) - 1) \/ above = 0
                        /\ x <= percentile(values, 100)
  BY MedianIs, Zenon DEF PercentileIsOrderStatistic
<1> DEFINE n == Count(values)
           s == sorted(values)
           x == percentile(values, p)
           B == {i \in DOMAIN values : 100 * values[i] < x}
           A == {i \in DOMAIN values : 100 * values[i] > x}
<1>1. PICK lo, hi, rest : Between(values, p, lo, hi, rest)
  BY PercentilePlace
<1>2. n \in Nat \ {0} /\ IsFiniteSet(DOMAIN values) /\ Cardinality(DOMAIN values) = n
  BY ValuesFinite DEF IsValues, Count
<1>3. /\ lo \in 0..n - 1 /\ hi \in 0..n - 1 /\ rest \in 0..99 /\ (rest > 0 => hi = lo + 1)
      /\ p * (n - 1) = 100 * lo + rest
  BY <1>1 DEF Between
<1>4. /\ x \in Nat /\ 100 * s[lo + 1] <= x /\ x <= 100 * s[hi + 1]
      /\ rest = 0 => x = 100 * s[lo + 1]
  BY <1>1, PercentileBetween
<1>5. /\ lo + 1 \in 1..n /\ hi + 1 \in 1..n /\ n \in 1..n
      /\ s[lo + 1] \in Nat /\ s[hi + 1] \in Nat /\ s[n] \in Nat /\ s[hi + 1] <= s[n]
  BY <1>2, <1>3, SortedIs, SortedGrows
<1>6. /\ Cardinality(Smaller(values, s[lo + 1])) < lo + 1
      /\ Cardinality(Smaller(values, s[hi + 1])) < hi + 1
      /\ lo + 1 <= Cardinality(NoLarger(values, s[lo + 1]))
  BY <1>5, SortedIs
<1>7. /\ IsFiniteSet(Smaller(values, s[lo + 1])) /\ IsFiniteSet(Smaller(values, s[hi + 1]))
      /\ IsFiniteSet(NoLarger(values, s[lo + 1]))
      /\ Cardinality(Smaller(values, s[lo + 1])) \in Nat /\ Cardinality(Smaller(values, s[hi + 1])) \in Nat
      /\ Cardinality(NoLarger(values, s[lo + 1])) \in Nat
  BY Counted
<1>8. IsFiniteSet(B) /\ IsFiniteSet(A) /\ Cardinality(B) \in Nat /\ Cardinality(A) \in Nat
  <2>1. IsFiniteSet(B) /\ IsFiniteSet(A)
    BY <1>2, FS_Subset
  <2>2. QED
    BY <2>1, FS_CardinalityType
<1>9. \A i \in DOMAIN values : values[i] \in Nat
  BY DEF IsValues
<1> HIDE DEF n, s, x
<1>10. Cardinality(B) <= lo + (IF rest = 0 THEN 0 ELSE 1)
  <2>1. CASE rest = 0
    <3>1. B \subseteq Smaller(values, s[lo + 1])
      BY <1>4, <1>5, <1>9, <2>1 DEF Smaller
    <3>2. Cardinality(B) <= Cardinality(Smaller(values, s[lo + 1]))
      BY <1>7, <3>1, FS_Subset
    <3> HIDE DEF B
    <3>3. QED
      BY <1>3, <1>6, <1>7, <1>8, <2>1, <3>2
  <2>2. CASE rest # 0
    <3>1. B \subseteq Smaller(values, s[hi + 1])
      BY <1>4, <1>5, <1>9 DEF Smaller
    <3>2. Cardinality(B) <= Cardinality(Smaller(values, s[hi + 1]))
      BY <1>7, <3>1, FS_Subset
    <3> HIDE DEF B
    <3>3. QED
      BY <1>3, <1>6, <1>7, <1>8, <2>2, <3>2
  <2>3. QED
    BY <2>1, <2>2
<1>11. Cardinality(A) <= n - (lo + 1)
  <2> DEFINE N == NoLarger(values, s[lo + 1])
  <2>1. A \subseteq DOMAIN values \ N
    BY <1>4, <1>5, <1>9 DEF NoLarger
  <2>2. N \subseteq DOMAIN values /\ DOMAIN values \cap N = N
    BY DEF NoLarger
  <2>3. Cardinality(DOMAIN values \ N) = n - Cardinality(N) /\ IsFiniteSet(DOMAIN values \ N)
    BY <1>2, <1>7, <2>2, FS_Difference
  <2>4. Cardinality(A) <= Cardinality(DOMAIN values \ N)
    BY <2>1, <2>3, FS_Subset
  <2> HIDE DEF A, N
  <2>5. QED
    BY <1>2, <1>3, <1>6, <1>7, <1>8, <2>3, <2>4 DEF N
<1>12. x <= percentile(values, 100)
  <2>1. PICK l, h, r : Between(values, 100, l, h, r)
    BY PercentilePlace
  <2>2. l \in 0..n - 1 /\ r \in 0..99 /\ 100 * (n - 1) = 100 * l + r
    BY <2>1 DEF Between, n
  <2>3. l + 1 = n /\ r = 0
    BY <1>2, <2>2
  <2>4. percentile(values, 100) = 100 * s[n]
    BY <2>1, <2>3, PercentileBetween DEF s
  <2>5. QED
    BY <1>4, <1>5, <2>4
<1> HIDE DEF A, B
<1>13. 100 * (Cardinality(B) - 1) < p * (n - 1)
  BY <1>2, <1>3, <1>8, <1>10
<1>14. 100 * (Cardinality(A) - 1) < (100 - p) * (n - 1)
  <2>1. (100 - p) * (n - 1) = 100 * (n - 1) - p * (n - 1)
    BY <1>2
  <2>2. QED
    BY <1>2, <1>3, <1>8, <1>11, <2>1
<1>15. QED
  BY <1>12, <1>13, <1>14 DEF A, B, n, x


\* A quotient is at most what it is compared with, times the divisor.
LEMMA DivideAtMost ==
  ASSUME NEW x \in Nat, NEW d \in Nat \ {0}, NEW q \in Nat, x <= d * q
  PROVE  x \div d \in Nat /\ x \div d <= q
<1>1. x = d * (x \div d) + (x % d) /\ x \div d \in Nat /\ x % d \in Nat
  OBVIOUS
<1>2. (x \div d) * d <= q * d
  <2>1. d * (x \div d) = (x \div d) * d /\ d * q = q * d /\ d * (x \div d) \in Nat
    BY <1>1
  <2>2. QED
    BY <1>1, <2>1
<1>3. QED
  BY <1>1, <1>2, TimesMonotone

\* Each node's samples.
IsSampled(samples) == IsFiniteSet(DOMAIN samples) /\ \A n \in DOMAIN samples : IsValues(samples[n])

LEMMA PeakMeets ==
  ASSUME NEW samples, IsSampled(samples), NEW sat \in Nat \ {0}
  PROVE  PeakMeetsTimeAbove(samples, sat)
<1> DEFINE seen == {n \in DOMAIN samples : DOMAIN samples[n] # {}}
           tops == {Max(Range(samples[n])) : n \in seen}
           u == aggregate_utilization(samples, sat)
           avgs == [n \in seen |-> node_avg(samples[n])]
           highs == [n \in seen |-> percentile(samples[n], 95)]
           times == [n \in seen |-> seconds_above(samples[n], sat)]
<1>1. IsFiniteSet(seen) /\ Cardinality(seen) \in Nat
  BY FS_Subset, FS_CardinalityType DEF IsSampled
<1>2. CASE seen = {}
  <2>1. u = [avg |-> <<0, 1>>, peak |-> 0, p95 |-> <<0, 1>>, above |-> 0]
    BY <1>2 DEF aggregate_utilization
  <2>2. u.peak = 0 /\ u.above = 0 /\ u.avg = <<0, 1>> /\ u.p95 = <<0, 1>>
    BY <2>1
  <2> HIDE DEF u
  <2>3. QED
    BY <2>2 DEF PeakMeetsTimeAbove, LessEq, u
<1>3. CASE seen # {}
  <2>1. ASSUME NEW n \in seen
        PROVE  /\ IsValues(samples[n])
               /\ Max(Range(samples[n])) \in Nat /\ Max(Range(samples[n])) \in Range(samples[n])
               /\ \A i \in DOMAIN samples[n] : samples[n][i] <= Max(Range(samples[n]))
    <3>1. IsValues(samples[n])
      BY DEF IsSampled
    <3>2. IsFiniteSet(Range(samples[n])) /\ Range(samples[n]) \subseteq Nat /\ Range(samples[n]) # {}
      BY <3>1, ValuesFinite
    <3>3. QED
      BY <3>1, <3>2, MaxOf DEF Range
  <2>2. Max(tops) \in tops /\ Max(tops) \in Nat /\ \A y \in tops : y <= Max(tops)
    <3>1. tops \subseteq Nat /\ tops # {}
      BY <1>3, <2>1
    <3>2. IsFiniteSet(tops)
      <4>1. [n \in seen |-> Max(Range(samples[n]))] \in Surjection(seen, tops)
        BY DEF Surjection
      <4>2. QED
        BY <1>1, <4>1, FS_Surjection
    <3> HIDE DEF tops
    <3>3. QED
      BY <3>1, <3>2, MaxOf
  <2>3. u = [avg |-> <<LoadOf(seen, avgs), Scale * Cardinality(seen)>>, peak |-> Max(tops),
             p95 |-> <<LoadOf(seen, highs), 100 * Cardinality(seen)>>, above |-> LoadOf(seen, times)]
    BY <1>3, Zenon DEF aggregate_utilization
  <2>4. /\ u.avg = <<LoadOf(seen, avgs), Scale * Cardinality(seen)>> /\ u.peak = Max(tops)
        /\ u.p95 = <<LoadOf(seen, highs), 100 * Cardinality(seen)>> /\ u.above = LoadOf(seen, times)
    <3> HIDE DEF avgs, highs, times, tops, u
    <3>1. QED
      BY <2>3
  <2>5. ASSUME NEW n \in seen, NEW i \in DOMAIN samples[n] PROVE samples[n][i] <= Max(tops)
    <3>1. Max(Range(samples[n])) \in tops
      OBVIOUS
    <3>2. Max(Range(samples[n])) <= Max(tops) /\ samples[n][i] <= Max(Range(samples[n]))
      BY <2>1, <2>2, <3>1
    <3>3. samples[n][i] \in Nat /\ Max(Range(samples[n])) \in Nat
      BY <2>1 DEF IsValues
    <3>4. QED
      BY <2>2, <3>2, <3>3
  <2>6. \E n \in seen : \E i \in DOMAIN samples[n] : samples[n][i] = Max(tops)
    BY <2>1, <2>2 DEF Range
  <2> DEFINE top == Max(tops)
  <2> HIDE DEF tops, u
  <2>7. ASSUME NEW n \in seen
        PROVE  times[n] \in Nat /\ (times[n] > 0 <=> \E i \in DOMAIN samples[n] : samples[n][i] >= sat)
    <3> DEFINE over == {i \in DOMAIN samples[n] : saturated(samples[n][i], sat)}
    <3>1. times[n] = Cardinality(over)
      BY DEF seconds_above
    <3>2. IsFiniteSet(over)
      BY <2>1, FS_Subset DEF IsValues
    <3>3. Cardinality(over) \in Nat /\ (Cardinality(over) = 0 <=> over = {})
      BY <3>2, FS_CardinalityType, FS_EmptySet
    <3>4. over # {} <=> \E i \in DOMAIN samples[n] : samples[n][i] >= sat
      BY DEF saturated
    <3> HIDE DEF over, times
    <3>5. QED
      BY <3>1, <3>3, <3>4
  <2>8. top >= sat <=> LoadOf(seen, times) > 0
    <3>1. LoadOf(seen, times) > 0 <=> \E n \in seen : times[n] > 0
      BY <1>1, <2>7, LoadPositive
    <3>2. top >= sat <=> \E n \in seen : \E i \in DOMAIN samples[n] : samples[n][i] >= sat
      <4>1. \A n \in seen : \A i \in DOMAIN samples[n] : samples[n][i] \in Nat
        BY <2>1 DEF IsValues
      <4>2. top \in Nat /\ sat \in Nat
        BY <2>2
      <4> HIDE DEF seen
      <4>3. QED
        BY <2>5, <2>6, <4>1, <4>2
    <3> HIDE DEF times, seen, top
    <3>3. QED
      BY <2>7, <3>1, <3>2, Zenon
  <2>9. LessEq(<<LoadOf(seen, avgs), Scale * Cardinality(seen)>>, <<top, 1>>)
    <3>1. ASSUME NEW n \in seen PROVE avgs[n] \in Nat /\ avgs[n] <= Scale * top
      <4> DEFINE c == Count(samples[n])
                 w == Total(samples[n])
      <4>1. c \in Nat \ {0} /\ avgs[n] = (Scale * w) \div c
        BY <2>1, ValuesFinite DEF node_avg
      <4>2. w \in Nat /\ w <= c * top
        BY <2>1, <2>2, <2>5, LoadAtMost DEF Total, Count, IsValues
      <4> HIDE DEF c, w, avgs, top
      <4>3. Scale \in Nat /\ top \in Nat
        BY <2>2, StatisticsAssumption DEF top
      <4>4. w * Scale <= (c * top) * Scale
        BY <4>1, <4>2, <4>3, TimesMonotone
      <4>5. w * Scale = Scale * w /\ (c * top) * Scale = c * (Scale * top)
        BY <4>1, <4>2, <4>3
      <4>6. Scale * w <= c * (Scale * top) /\ Scale * w \in Nat /\ Scale * top \in Nat
        BY <4>1, <4>2, <4>3, <4>4, <4>5
      <4> DEFINE x == Scale * w
                 q == Scale * top
      <4> HIDE DEF x, q
      <4>7. x \in Nat /\ q \in Nat /\ x <= c * q
        BY <4>6 DEF x, q
      <4>8. x \div c \in Nat /\ x \div c <= q
        BY <4>1, <4>7, DivideAtMost
      <4>9. QED
        BY <4>1, <4>8 DEF x, q
    <3>2. Scale * top \in Nat /\ Scale \in Nat /\ top \in Nat
      BY <2>2, StatisticsAssumption
    <3> HIDE DEF avgs, top
    <3>3. LoadOf(seen, avgs) \in Nat /\ LoadOf(seen, avgs) <= Cardinality(seen) * (Scale * top)
      BY <1>1, <3>1, <3>2, LoadAtMost
    <3>4. Cardinality(seen) * (Scale * top) = top * (Scale * Cardinality(seen))
      BY <1>1, <3>2
    <3> HIDE DEF seen
    <3>5. QED
      BY <1>1, <3>2, <3>3, <3>4 DEF LessEq
  <2>10. LessEq(<<LoadOf(seen, highs), 100 * Cardinality(seen)>>, <<top, 1>>)
    <3>1. ASSUME NEW n \in seen PROVE highs[n] \in Nat /\ highs[n] <= 100 * top
      BY <2>1, <2>2, <2>5, PercentileAtMost
    <3>2. 100 * top \in Nat /\ top \in Nat
      BY <2>2
    <3> HIDE DEF highs, top
    <3>3. LoadOf(seen, highs) \in Nat /\ LoadOf(seen, highs) <= Cardinality(seen) * (100 * top)
      BY <1>1, <3>1, <3>2, LoadAtMost
    <3>4. Cardinality(seen) * (100 * top) = top * (100 * Cardinality(seen))
      BY <1>1, <3>2
    <3> HIDE DEF seen
    <3>5. QED
      BY <1>1, <3>2, <3>3, <3>4 DEF LessEq
  <2>11. QED
    BY <2>4, <2>8, <2>9, <2>10, Zenon DEF PeakMeetsTimeAbove, u, top
<1>4. QED
  BY <1>2, <1>3

-----------------------------------------------------------------------------
\* The records of a trial.
IsTrial(tasks) ==
  /\ Len(tasks) \in Nat /\ DOMAIN tasks = 1..Len(tasks)
  /\ \A i \in DOMAIN tasks : IsTaskRecord(tasks[i])

LEMMA ResponseIs ==
  ASSUME NEW tasks, IsTrial(tasks), NEW I \in SUBSET completed_tasks(tasks)
  PROVE  /\ IsFiniteSet(I) /\ Cardinality(I) \in Nat /\ I \subseteq DOMAIN tasks
         /\ IsValues(response_times(tasks, I)) /\ DOMAIN response_times(tasks, I) = I
         /\ \A i \in I : response_times(tasks, I)[i] = tasks[i].completed - tasks[i].submitted
<1>1. IsFiniteSet(DOMAIN tasks) /\ I \subseteq DOMAIN tasks
  BY FS_Interval DEF IsTrial, completed_tasks, With
<1>2. IsFiniteSet(I) /\ Cardinality(I) \in Nat
  BY <1>1, FS_Subset, FS_CardinalityType
<1>3. \A i \in I : tasks[i].completed - tasks[i].submitted \in Nat
  BY <1>1 DEF completed_tasks, IsTrial, IsTaskRecord
<1>4. QED
  BY <1>1, <1>2, <1>3 DEF IsValues, response_times

\* The trial lasts longer than any of its tasks.
LEMMA MakespanHolds ==
  ASSUME NEW tasks, IsTrial(tasks)
  PROVE  /\ makespan(tasks) \in Nat
         /\ \A i \in completed_tasks(tasks) : tasks[i].completed - tasks[i].submitted <= makespan(tasks)
<1> DEFINE done == completed_tasks(tasks)
           ends == {tasks[i].completed : i \in done}
           starts == {tasks[i].submitted : i \in DOMAIN tasks}
<1>1. IsFiniteSet(done) /\ done \subseteq DOMAIN tasks
  BY ResponseIs
<1>2. \A i \in DOMAIN tasks : /\ tasks[i].completed \in Nat /\ tasks[i].submitted \in Nat
                              /\ (i \in done => tasks[i].submitted <= tasks[i].completed)
  BY DEF IsTrial, IsTaskRecord, completed_tasks
<1>3. CASE done = {}
  BY <1>3 DEF makespan
<1>4. CASE done # {}
  <2>1. ends \subseteq Nat /\ IsFiniteSet(ends) /\ ends # {}
    <3>1. [i \in done |-> tasks[i].completed] \in Surjection(done, ends)
      BY DEF Surjection
    <3>2. ends \subseteq Nat /\ ends # {}
      BY <1>1, <1>2, <1>4
    <3>3. QED
      BY <1>1, <3>1, <3>2, FS_Surjection
  <2>2. Max(ends) \in Nat /\ \A i \in done : tasks[i].completed <= Max(ends)
    <3>1. Max(ends) \in Nat /\ \A y \in ends : y <= Max(ends)
      <4> HIDE DEF ends
      <4>1. QED
        BY <2>1, MaxOf
    <3>2. QED
      BY <3>1
  <2>3. PICK low \in starts : \A y \in starts : ~(y < low)
    <3>1. starts \in SUBSET Nat /\ starts # {}
      BY <1>1, <1>2, <1>4
    <3> HIDE DEF starts
    <3>2. QED
      BY <3>1, LeastMember
  <2>4. \A y \in starts : low <= y
    BY <1>2, <2>3
  <2>5. Min(starts) \in starts /\ \A y \in starts : Min(starts) <= y
    BY <2>4 DEF Min
  <2>6. Min(starts) \in Nat /\ \A i \in DOMAIN tasks : Min(starts) <= tasks[i].submitted
    BY <1>2, <2>5
  <2>7. makespan(tasks) = Max(ends) - Min(starts)
    BY <1>4 DEF makespan, first_submission
  <2> HIDE DEF ends, starts
  <2>8. \A i \in done : tasks[i].completed - tasks[i].submitted <= makespan(tasks)
    BY <1>1, <1>2, <2>2, <2>6, <2>7
  <2>9. PICK i \in done : TRUE
    BY <1>4
  <2>10. makespan(tasks) \in Nat
    <3>1. tasks[i].completed <= Max(ends) /\ Min(starts) <= tasks[i].submitted
          /\ tasks[i].submitted <= tasks[i].completed
          /\ tasks[i].completed \in Nat /\ tasks[i].submitted \in Nat
      BY <1>1, <1>2, <2>2, <2>6, <2>9
    <3>2. QED
      BY <2>2, <2>6, <2>7, <3>1
  <2>11. QED
    BY <2>8, <2>10
<1>5. QED
  BY <1>3, <1>4

LEMMA RowAdds ==
  ASSUME NEW tasks, IsTrial(tasks)
  PROVE  RowAddsUp(tasks, Class)
<1> DEFINE done == completed_tasks(tasks)
           rejected == With(tasks, "rejected")
           failed == With(tasks, "failed")
           response == response_times(tasks, done)
           row == compute_trial_result(tasks, Class)
           done_of == [c \in Class |-> Cardinality(OfClass(tasks, done, c))]
           rejected_of == [c \in Class |-> Cardinality(OfClass(tasks, rejected, c))]
           mean_of == [c \in Class |-> fmean(response_times(tasks, OfClass(tasks, done, c)))]
<1>1. /\ row.makespan = makespan(tasks) /\ row.avg_rt = fmean(response)
      /\ row.p50 = (IF done = {} THEN 0 ELSE median(response)) /\ row.p95 = percentile(response, 95)
      /\ row.total = Len(tasks) /\ row.completed = Cardinality(done)
      /\ row.rejected = Cardinality(rejected) /\ row.failed = Cardinality(failed)
      /\ row.completed_by_class = done_of /\ row.rejected_by_class = rejected_of
      /\ row.avg_rt_by_class = mean_of
  BY DEF compute_trial_result
<1> HIDE DEF row
<1>2. /\ IsFiniteSet(done) /\ Cardinality(done) \in Nat /\ done \subseteq DOMAIN tasks
      /\ IsValues(response) /\ DOMAIN response = done
      /\ \A i \in done : response[i] = tasks[i].completed - tasks[i].submitted
  BY ResponseIs
<1>3. makespan(tasks) \in Nat /\ \A i \in done : response[i] <= makespan(tasks)
  BY <1>2, MakespanHolds
<1>4. ASSUME NEW i \in DOMAIN tasks, tasks[i].status = "completed"
      PROVE  tasks[i].completed - tasks[i].submitted <= row.makespan
  <2>1. tasks[i].completed \in Nat /\ tasks[i].submitted \in Nat
    BY DEF IsTrial, IsTaskRecord
  <2>2. CASE tasks[i].completed = 0
    BY <1>1, <1>3, <2>1, <2>2
  <2>3. CASE tasks[i].completed # 0
    <3>1. i \in done
      BY <1>4, <2>3 DEF completed_tasks, With
    <3>2. QED
      BY <1>1, <3>1, MakespanHolds
  <2>4. QED
    BY <2>2, <2>3
<1>5. row.p95 <= 100 * row.makespan
  BY <1>1, <1>2, <1>3, PercentileAtMost
<1>6. row.p50 <= 2 * row.makespan
  <2>1. CASE done = {}
    BY <1>1, <1>3, <2>1
  <2>2. CASE done # {}
    <3>1. 2 * percentile(response, 50) = 100 * median(response)
      BY <1>2, <2>2, MedianIs
    <3>2. percentile(response, 50) \in Nat /\ percentile(response, 50) <= 100 * makespan(tasks)
      BY <1>2, <1>3, PercentileAtMost
    <3>3. median(response) \in Int
      <4> DEFINE n == Count(response)
      <4>1. n \in Nat \ {0}
        BY <1>2, <2>2, ValuesFinite
      <4>2. (n + 1) \div 2 \in 1..n /\ (n + 2) \div 2 \in 1..n
        <5> HIDE DEF n
        <5>1. QED
          BY <4>1
      <4>3. sorted(response)[(n + 1) \div 2] \in Nat /\ sorted(response)[(n + 2) \div 2] \in Nat
        BY <1>2, <4>2, SortedIs
      <4>4. QED
        BY <4>3 DEF median
    <3> HIDE DEF response, done
    <3>4. QED
      BY <1>1, <1>3, <2>2, <3>1, <3>2, <3>3
  <2>3. QED
    BY <2>1, <2>2
<1>7. IsFiniteSet(DOMAIN tasks) /\ Cardinality(DOMAIN tasks) = Len(tasks)
  BY FS_Interval DEF IsTrial
<1>8. /\ IsFiniteSet(rejected) /\ IsFiniteSet(failed)
      /\ Cardinality(rejected) \in Nat /\ Cardinality(failed) \in Nat
  <2>1. rejected \subseteq DOMAIN tasks /\ failed \subseteq DOMAIN tasks
    BY DEF With
  <2>2. QED
    BY <1>7, <2>1, FS_Subset, FS_CardinalityType
<1>9. row.completed + row.rejected + row.failed <= row.total
  <2>1. done \cap rejected = {} /\ (done \cup rejected) \cap failed = {}
        /\ (done \cup rejected) \cup failed \subseteq DOMAIN tasks
    BY DEF completed_tasks, With
  <2>2. Cardinality({}) = 0
    BY FS_EmptySet
  <2>3. /\ IsFiniteSet(done \cup rejected)
        /\ Cardinality(done \cup rejected) = Cardinality(done) + Cardinality(rejected) - Cardinality({})
    BY <1>2, <1>8, <2>1, FS_Union
  <2>4. Cardinality((done \cup rejected) \cup failed)
          = Cardinality(done \cup rejected) + Cardinality(failed) - Cardinality({})
    BY <1>8, <2>1, <2>3, FS_Union
  <2>5. Cardinality((done \cup rejected) \cup failed) <= Len(tasks)
    BY <1>7, <2>1, FS_Subset
  <2> HIDE DEF done, rejected, failed
  <2>6. QED
    BY <1>1, <1>2, <1>8, <2>2, <2>3, <2>4, <2>5
<1> DEFINE class == [i \in DOMAIN tasks |-> tasks[i].class]
<1>10. \A i \in DOMAIN tasks : class[i] \in Class
  BY DEF IsTrial, IsTaskRecord
<1>11. ASSUME NEW I \in SUBSET DOMAIN tasks, NEW c
       PROVE  OfClass(tasks, I, c) = Part(I, class, c)
  BY DEF OfClass, Part
<1>12. LoadOf(Class, done_of) = Cardinality(done)
  <2>1. \A c \in Class : done_of[c] = Cardinality(Part(done, class, c))
    BY <1>2, <1>11
  <2> HIDE DEF done, done_of, class
  <2>2. QED
    BY <1>2, <1>10, <2>1, CountByKey
<1>13. LoadOf(Class, rejected_of) = Cardinality(rejected)
  <2>1. rejected \subseteq DOMAIN tasks
    BY DEF With
  <2>2. \A c \in Class : rejected_of[c] = Cardinality(Part(rejected, class, c))
    BY <1>11, <2>1
  <2> HIDE DEF rejected, rejected_of, class
  <2>3. QED
    BY <1>8, <1>10, <2>1, <2>2, CountByKey
<1>14. LoadOf(Class, [c \in Class |-> mean_of[c][1]]) = fmean(response)[1]
  <2> DEFINE first == [c \in Class |-> mean_of[c][1]]
  <2>1. ASSUME NEW I \in SUBSET done
        PROVE  fmean(response_times(tasks, I))[1] = LoadOf(I, response)
    <3> DEFINE r == response_times(tasks, I)
    <3>1. DOMAIN r = I /\ \A i \in I : r[i] = response[i]
      BY <1>2, ResponseIs
    <3> HIDE DEF r, response
    <3>2. LoadOf(I, r) = LoadOf(I, response)
      BY <3>1, LoadCongruent
    <3>3. CASE I = {}
      <4>1. LoadOf(I, r) = 0
        BY <3>3, FS_EmptySet DEF LoadOf, Cells
      <4>2. fmean(r)[1] = 0
        BY <3>1, <3>3 DEF fmean
      <4>3. QED
        BY <3>2, <4>1, <4>2 DEF r
    <3>4. CASE I # {}
      BY <3>1, <3>2, <3>4 DEF fmean, Total, r
    <3>5. QED
      BY <3>3, <3>4
  <2>2. ASSUME NEW c \in Class PROVE first[c] = LoadOf(Part(done, class, c), response)
    <3>1. OfClass(tasks, done, c) = Part(done, class, c) /\ OfClass(tasks, done, c) \subseteq done
      BY <1>2, <1>11 DEF OfClass
    <3>2. first[c] = fmean(response_times(tasks, OfClass(tasks, done, c)))[1]
      OBVIOUS
    <3> HIDE DEF first, class, done, response
    <3>3. QED
      BY <2>1, <3>1, <3>2
  <2>3. fmean(response)[1] = LoadOf(done, response)
    BY <2>1
  <2>4. \A i \in done : response[i] \in Nat /\ class[i] \in Class
    BY <1>2, <1>10 DEF IsValues
  <2> HIDE DEF first, class, done, response, mean_of
  <2>5. LoadOf(Class, first) = LoadOf(done, response)
    BY <1>2, <2>2, <2>4, LoadByKey
  <2>6. QED
    BY <2>3, <2>5 DEF first
<1> HIDE DEF done, rejected, failed, response, done_of, rejected_of, mean_of
<1>15. QED
  BY <1>1, <1>4, <1>5, <1>6, <1>9, <1>12, <1>13, <1>14 DEF RowAddsUp, row

-----------------------------------------------------------------------------
\* The timeline of a scenario

\* A class mix says how many tasks of each class are wanted.
IsMix(mix) == mix \in [Class -> Nat]

\* The running sums of a class mix never fall; two neighbours differ by the class between them.
LEMMA UpToIs ==
  ASSUME NEW mix, IsMix(mix)
  PROVE  /\ \A c \in 0..NumClasses : UpTo(mix, c) \in Nat
         /\ UpTo(mix, 0) = 0
         /\ \A c \in Class : UpTo(mix, c) = UpTo(mix, c - 1) + mix[c]
         /\ \A b, c \in 0..NumClasses : b <= c => UpTo(mix, b) <= UpTo(mix, c)
<1>1. ASSUME NEW c \in 0..NumClasses
      PROVE  IsFiniteSet(1..c) /\ \A d \in 1..c : d \in Class /\ mix[d] \in Nat
  <2>1. c \in Int /\ \A d \in 1..c : d \in Class
    BY WorkloadAssumption DEF Class
  <2>2. IsFiniteSet(1..c)
    BY <2>1, FS_Interval
  <2>3. \A d \in Class : mix[d] \in Nat
    BY DEF IsMix
  <2>4. QED
    BY <2>1, <2>2, <2>3
<1>2. ASSUME NEW c \in 0..NumClasses PROVE UpTo(mix, c) \in Nat
  BY <1>1, LoadIsNat DEF UpTo
<1>3. UpTo(mix, 0) = 0
  <2>1. Cells(1..0, mix) = {}
    BY DEF Cells
  <2>2. QED
    BY <2>1, FS_EmptySet DEF UpTo, LoadOf
<1>4. ASSUME NEW c \in Class PROVE UpTo(mix, c) = UpTo(mix, c - 1) + mix[c]
  <2>1. c \in 0..NumClasses /\ c - 1 \in 0..NumClasses /\ c \notin 1..(c - 1) /\ 1..c = (1..(c - 1)) \cup {c}
    BY WorkloadAssumption DEF Class
  <2>2. IsFiniteSet(1..(c - 1)) /\ \A d \in (1..(c - 1)) \cup {c} : mix[d] \in Nat
    BY <1>1, <2>1
  <2>3. QED
    BY <2>1, <2>2, LoadAddsSize DEF UpTo
<1>5. ASSUME NEW b \in 0..NumClasses, NEW c \in 0..NumClasses, b <= c PROVE UpTo(mix, b) <= UpTo(mix, c)
  <2>1. 1..b \in SUBSET (1..c)
    BY <1>5
  <2>2. QED
    BY <1>1, <2>1, LoadMonotone DEF UpTo
<1>6. QED
  BY <1>2, <1>3, <1>4, <1>5

\* Of a batch, mix[c] tasks are of class c, and they are numbered on.
TaskData == [seq : Nat, class : Class]

\* A batch holds the tasks its mix asks for, numbered one by one from the first.
LEMMA NumberedIs ==
  ASSUME NEW mix, IsMix(mix), NEW first \in Nat
  PROVE  LET batch == Numbered(mix, first)
             total == UpTo(mix, NumClasses)
         IN  /\ total \in Nat /\ batch.seq = first + total
             /\ batch.tasks \in Seq(TaskData) /\ Len(batch.tasks) = total
             /\ \A i \in 1..total : batch.tasks[i].seq = first + i - 1
             /\ \A c \in Class : Cardinality({i \in 1..total : batch.tasks[i].class = c}) = mix[c]
<1> DEFINE total == UpTo(mix, NumClasses)
           class == [i \in 1..total |-> CHOOSE c \in Class : UpTo(mix, c - 1) < i /\ i <= UpTo(mix, c)]
           tasks == [i \in 1..total |-> [seq |-> first + i - 1, class |-> class[i]]]
<1>1. Numbered(mix, first) = [tasks |-> tasks, seq |-> first + total]
  BY DEF Numbered
<1>2. total \in Nat /\ NumClasses \in Nat \ {0}
  BY UpToIs, WorkloadAssumption
<1>3. \A c \in Class : /\ c \in Nat /\ c \in 0..NumClasses /\ c - 1 \in 0..NumClasses
                       /\ UpTo(mix, c) \in Nat /\ UpTo(mix, c - 1) \in Nat
                       /\ UpTo(mix, c) = UpTo(mix, c - 1) + mix[c] /\ UpTo(mix, c) <= total
  <2>1. \A c \in Class : c \in Nat /\ c \in 0..NumClasses /\ c - 1 \in 0..NumClasses /\ c <= NumClasses
    BY <1>2 DEF Class
  <2>2. NumClasses \in 0..NumClasses
    BY <1>2
  <2>3. QED
    BY <2>1, <2>2, UpToIs
<1>4. ASSUME NEW i \in 1..total
      PROVE  \E c \in Class : UpTo(mix, c - 1) < i /\ i <= UpTo(mix, c)
  <2> DEFINE high == {c \in Class : i <= UpTo(mix, c)}
  <2>1. NumClasses \in high
    BY <1>2 DEF Class
  <2>2. high \in SUBSET Nat
    BY <1>3
  <2>3. PICK c \in high : \A d \in high : ~(d < c)
    <3> HIDE DEF high
    <3>1. QED
      BY <2>1, <2>2, LeastMember
  <2>4. UpTo(mix, c - 1) < i
    <3>1. CASE c = 1
      BY <3>1, UpToIs
    <3>2. CASE c # 1
      <4>1. c - 1 \in Class /\ c - 1 < c
        BY <1>2, <2>3, <3>2 DEF Class
      <4>2. ~(i <= UpTo(mix, c - 1))
        BY <2>3, <4>1
      <4>3. QED
        BY <1>2, <1>3, <2>3, <4>2
    <3>3. QED
      BY <3>1, <3>2
  <2>5. QED
    BY <2>3, <2>4
<1>5. ASSUME NEW i \in 1..total
      PROVE  class[i] \in Class /\ UpTo(mix, class[i] - 1) < i /\ i <= UpTo(mix, class[i])
  BY <1>4
<1>6. ASSUME NEW i \in 1..total, NEW c \in Class, UpTo(mix, c - 1) < i, i <= UpTo(mix, c)
      PROVE  class[i] = c
  <2> DEFINE d == class[i]
  <2>1. d \in Class /\ UpTo(mix, d - 1) < i /\ i <= UpTo(mix, d)
    BY <1>5
  <2> HIDE DEF d
  <2>2. ASSUME NEW a \in Class, NEW b \in Class, a < b, UpTo(mix, b - 1) < i, i <= UpTo(mix, a) PROVE FALSE
    <3>1. a \in 0..NumClasses /\ b - 1 \in 0..NumClasses /\ a <= b - 1
      BY <1>3, <2>2
    <3>2. UpTo(mix, a) <= UpTo(mix, b - 1)
      BY <3>1, UpToIs
    <3>3. QED
      BY <1>2, <1>3, <2>2, <3>2
  <2>3. d = c
    BY <1>3, <1>6, <2>1, <2>2
  <2>4. QED
    BY <2>3 DEF d
<1>7. ASSUME NEW c \in Class PROVE Cardinality({i \in 1..total : class[i] = c}) = mix[c]
  <2>1. {i \in 1..total : class[i] = c} = (UpTo(mix, c - 1) + 1)..UpTo(mix, c)
    <3>1. \A i \in 1..total : class[i] = c <=> UpTo(mix, c - 1) < i /\ i <= UpTo(mix, c)
      BY <1>5, <1>6
    <3> HIDE DEF class
    <3>2. QED
      BY <1>2, <1>3, <3>1
  <2>2. mix[c] \in Nat
    BY DEF IsMix
  <2>3. Cardinality((UpTo(mix, c - 1) + 1)..UpTo(mix, c)) = mix[c]
    <3> DEFINE a == UpTo(mix, c - 1)
               b == UpTo(mix, c)
    <3>1. a \in Nat /\ b \in Nat /\ b = a + mix[c]
      BY <1>3
    <3> HIDE DEF a, b
    <3>2. a + 1 \in Int /\ b \in Int
      BY <3>1
    <3>3. Cardinality((a + 1)..b) = IF a + 1 > b THEN 0 ELSE b - (a + 1) + 1
      BY <3>2, FS_Interval
    <3>4. (IF a + 1 > b THEN 0 ELSE b - (a + 1) + 1) = mix[c]
      BY <2>2, <3>1
    <3>5. QED
      BY <3>3, <3>4 DEF a, b
  <2>4. QED
    BY <2>1, <2>3
<1>8. tasks \in Seq(TaskData) /\ Len(tasks) = total
  <2>1. \A i \in 1..total : [seq |-> first + i - 1, class |-> class[i]] \in TaskData
    <3>1. \A i \in 1..total : first + i - 1 \in Nat /\ class[i] \in Class
      BY <1>2, <1>5
    <3> HIDE DEF class
    <3>2. QED
      BY <3>1 DEF TaskData
  <2> HIDE DEF class, total
  <2>2. QED
    BY <1>2, <2>1
<1>9. \A i \in 1..total : tasks[i].seq = first + i - 1 /\ tasks[i].class = class[i]
  OBVIOUS
<1> HIDE DEF tasks, class, total
<1>10. \A c \in Class : {i \in 1..total : tasks[i].class = c} = {i \in 1..total : class[i] = c}
  BY <1>9
<1>11. Numbered(mix, first).tasks = tasks /\ Numbered(mix, first).seq = first + total
  BY <1>1
<1>12. \A c \in Class : Cardinality({i \in 1..total : tasks[i].class = c}) = mix[c]
  BY <1>7, <1>10
<1>13. \A i \in 1..total : tasks[i].seq = first + i - 1
  BY <1>9
<1>14. QED
  BY <1>2, <1>8, <1>11, <1>12, <1>13, Zenon DEF total

-----------------------------------------------------------------------------
\* The events made

\* An event of the timeline, and the places of the tasks its events hold.
EventData == [at : Int, kind : {"submit_tasks", "inject_memory"}, tasks : Seq(TaskData)]

IsPlace(ev, k, i) == k \in DOMAIN ev /\ i \in 1..Len(ev[k].tasks)
OfClassAt(ev, c) == {p \in Places(ev) : TaskAt(ev, p).class = c}

\* A place is an event's number and a place in its list of tasks.
LEMMA PlaceIs ==
  ASSUME NEW ev
  PROVE  /\ \A p : p \in Places(ev) <=> \E k, i : IsPlace(ev, k, i) /\ p = <<k, i>>
         /\ \A k, i : <<k, i>> \in Places(ev) <=> IsPlace(ev, k, i)
         /\ \A k, i : TaskAt(ev, <<k, i>>) = ev[k].tasks[i]
<1>1. \A p : p \in Places(ev) <=> \E k, i : IsPlace(ev, k, i) /\ p = <<k, i>>
  BY DEF Places, Cells, IsPlace
<1>2. \A k, i : TaskAt(ev, <<k, i>>) = ev[k].tasks[i]
  BY DEF TaskAt
<1>3. QED
  BY <1>1, <1>2

\* What is true of the events made so far, with have[c] tasks of class c among them:
\* their tasks are numbered without a gap, in the order of the events.
Good(made, have) ==
  /\ made \in [seq : Nat, events : Seq(EventData)] /\ have \in [Class -> Nat]
  /\ IsFiniteSet(Places(made.events)) /\ Cardinality(Places(made.events)) = made.seq
  /\ \A p \in Places(made.events) : TaskAt(made.events, p).seq < made.seq
  /\ \A s \in 0..(made.seq - 1) : \E p \in Places(made.events) : TaskAt(made.events, p).seq = s
  /\ \A k, m, i, j : IsPlace(made.events, k, i) /\ IsPlace(made.events, m, j) /\ k < m =>
                       made.events[k].tasks[i].seq < made.events[m].tasks[j].seq
  /\ \A c \in Class : Cardinality(OfClassAt(made.events, c)) = have[c]

\* An event with the next tasks in its order keeps the numbers of a timeline.
LEMMA AppendGood ==
  ASSUME NEW made, NEW have, Good(made, have), NEW mix, IsMix(mix),
         NEW at \in Int, NEW kind \in {"submit_tasks", "inject_memory"}, NEW tasks \in Seq(TaskData),
         \A i \in 1..Len(tasks) : tasks[i].seq = made.seq + i - 1,
         \A c \in Class : Cardinality({i \in 1..Len(tasks) : tasks[i].class = c}) = mix[c]
  PROVE  Good([seq |-> made.seq + Len(tasks),
               events |-> Append(made.events, [at |-> at, kind |-> kind, tasks |-> tasks])],
              [c \in Class |-> have[c] + mix[c]])
<1> DEFINE ev == made.events
           e == [at |-> at, kind |-> kind, tasks |-> tasks]
           evs == Append(ev, e)
           n == Len(ev)
           size == Len(tasks)
           new == [seq |-> made.seq + size, events |-> evs]
           sum == [c \in Class |-> have[c] + mix[c]]
           own == {n + 1} \X (1..size)
<1>1. /\ made.seq \in Nat /\ ev \in Seq(EventData) /\ have \in [Class -> Nat] /\ mix \in [Class -> Nat]
      /\ n \in Nat /\ size \in Nat /\ e \in EventData
  BY DEF Good, IsMix, EventData
<1>2. /\ evs \in Seq(EventData) /\ Len(evs) = n + 1 /\ DOMAIN evs = 1..(n + 1) /\ DOMAIN ev = 1..n
      /\ evs[n + 1] = e /\ \A k \in 1..n : evs[k] = ev[k]
  <2> HIDE DEF e
  <2>1. QED
    BY <1>1
<1>3. e.tasks = tasks /\ n + 1 \notin 1..n
  BY <1>1
<1> HIDE DEF evs, e
<1>4. \A k, i : IsPlace(evs, k, i) <=> IsPlace(ev, k, i) \/ (k = n + 1 /\ i \in 1..size)
  <2>1. ASSUME NEW k, NEW i PROVE IsPlace(evs, k, i) <=> IsPlace(ev, k, i) \/ (k = n + 1 /\ i \in 1..size)
    <3>1. k \in DOMAIN evs <=> k \in 1..n \/ k = n + 1
      BY <1>1, <1>2
    <3>2. CASE k \in 1..n
      <4>1. k # n + 1 /\ evs[k] = ev[k]
        BY <1>2, <1>3, <3>2
      <4>2. QED
        BY <1>2, <3>1, <3>2, <4>1 DEF IsPlace
    <3>3. CASE k = n + 1
      BY <1>2, <1>3, <3>1, <3>3 DEF IsPlace
    <3>4. CASE k \notin 1..n /\ k # n + 1
      BY <1>2, <3>1, <3>4 DEF IsPlace
    <3>5. QED
      BY <3>2, <3>3, <3>4
  <2>2. QED
    BY <2>1
<1>5. \A k, i : IsPlace(ev, k, i) => evs[k].tasks[i] = ev[k].tasks[i]
  BY <1>2 DEF IsPlace
<1>6. \A i : evs[n + 1].tasks[i] = tasks[i]
  BY <1>2, <1>3
<1>7. \A p \in own : \E i \in 1..size : p = <<n + 1, i>>
  BY <1>1
<1>8. Places(evs) = Places(ev) \cup own /\ Places(ev) \cap own = {}
  <2>1. ASSUME NEW p PROVE p \in Places(evs) <=> p \in Places(ev) \cup own
    <3>1. p \in Places(evs) <=> \E k, i : (IsPlace(ev, k, i) \/ (k = n + 1 /\ i \in 1..size)) /\ p = <<k, i>>
      BY <1>4, PlaceIs
    <3>2. p \in Places(ev) <=> \E k, i : IsPlace(ev, k, i) /\ p = <<k, i>>
      BY PlaceIs
    <3>3. p \in own <=> \E k, i : k = n + 1 /\ i \in 1..size /\ p = <<k, i>>
      BY <1>1
    <3> HIDE DEF own
    <3>4. QED
      BY <3>1, <3>2, <3>3
  <2>2. ASSUME NEW p \in Places(ev), p \in own PROVE FALSE
    <3>1. PICK k, i : IsPlace(ev, k, i) /\ p = <<k, i>>
      BY PlaceIs
    <3>2. k \in 1..n /\ k = n + 1
      BY <1>2, <1>7, <2>2, <3>1 DEF IsPlace
    <3>3. QED
      BY <1>3, <3>2
  <2> HIDE DEF own
  <2>3. QED
    BY <2>1, <2>2
<1>9. /\ \A p \in Places(ev) : TaskAt(evs, p) = TaskAt(ev, p)
      /\ \A i \in 1..size : <<n + 1, i>> \in own /\ TaskAt(evs, <<n + 1, i>>) = tasks[i]
  <2>1. ASSUME NEW p \in Places(ev) PROVE TaskAt(evs, p) = TaskAt(ev, p)
    <3>1. PICK k, i : IsPlace(ev, k, i) /\ p = <<k, i>>
      BY PlaceIs
    <3>2. QED
      BY <1>5, <3>1, PlaceIs
  <2>2. ASSUME NEW i \in 1..size PROVE TaskAt(evs, <<n + 1, i>>) = tasks[i]
    BY <1>6, PlaceIs
  <2>3. QED
    BY <2>1, <2>2
<1>11. IsFiniteSet(1..size) /\ Cardinality(1..size) = size
  BY <1>1, CountTo, Zenon
<1>12. IsFiniteSet(own) /\ Cardinality(own) = size
  BY <1>11, CountWith, Zenon
<1>13. IsFiniteSet(Places(ev)) /\ Cardinality(Places(ev)) = made.seq
  BY DEF Good
<1>14. IsFiniteSet(Places(evs)) /\ Cardinality(Places(evs)) = made.seq + size
  <2> HIDE DEF own
  <2>1. /\ IsFiniteSet(Places(ev) \cup own)
        /\ Cardinality(Places(ev) \cup own) = Cardinality(Places(ev)) + Cardinality(own) - Cardinality({})
    <3> HIDE DEF ev, size
    <3>1. IsFiniteSet(Places(ev)) /\ IsFiniteSet(own) /\ Places(ev) \cap own = {}
      BY <1>8, <1>12, <1>13
    <3>2. QED
      BY <3>1, FS_Union
  <2>2. Cardinality({}) = 0
    BY FS_EmptySet
  <2>3. QED
    BY <1>1, <1>8, <1>12, <1>13, <2>1, <2>2
<1>15. ASSUME NEW p \in Places(evs) PROVE TaskAt(evs, p).seq < made.seq + size
  <2>1. CASE p \in Places(ev)
    <3>1. TaskAt(ev, p).seq < made.seq
      BY <2>1 DEF Good
    <3>2. PICK k, i : IsPlace(ev, k, i) /\ p = <<k, i>>
      BY <2>1, PlaceIs
    <3>3. TaskAt(ev, p) \in TaskData
      <4>1. k \in 1..n /\ i \in 1..Len(ev[k].tasks) /\ ev[k] \in EventData
        BY <1>1, <1>2, <3>2 DEF IsPlace
      <4>2. ev[k].tasks[i] \in TaskData
        BY <4>1 DEF EventData
      <4>3. QED
        BY <3>2, <4>2, PlaceIs
    <3>4. TaskAt(ev, p).seq \in Nat
      BY <3>3 DEF TaskData
    <3>5. QED
      BY <1>1, <1>9, <2>1, <3>1, <3>4
  <2>2. CASE p \in own
    <3>1. PICK i \in 1..size : p = <<n + 1, i>>
      BY <1>7, <2>2
    <3>2. TaskAt(evs, p).seq = made.seq + i - 1
      BY <1>9, <3>1
    <3>3. QED
      BY <1>1, <3>2
  <2>3. QED
    BY <1>8, <2>1, <2>2
<1>16. ASSUME NEW s \in 0..(made.seq + size - 1) PROVE \E p \in Places(evs) : TaskAt(evs, p).seq = s
  <2>1. CASE s < made.seq
    <3>1. s \in 0..(made.seq - 1)
      BY <1>1, <2>1
    <3>2. PICK p \in Places(ev) : TaskAt(ev, p).seq = s
      BY <3>1 DEF Good
    <3>3. QED
      BY <1>8, <1>9, <3>2
  <2>2. CASE ~(s < made.seq)
    <3>1. s - made.seq + 1 \in 1..size /\ made.seq + (s - made.seq + 1) - 1 = s
      <4> DEFINE b == made.seq
      <4>1. b \in Nat /\ size \in Nat /\ s \in 0..(b + size - 1) /\ ~(s < b)
        BY <1>1, <2>2
      <4> HIDE DEF b, size
      <4>2. s - b + 1 \in 1..size /\ b + (s - b + 1) - 1 = s
        BY <4>1
      <4>3. QED
        BY <4>2 DEF b
    <3> DEFINE i == s - made.seq + 1
    <3> HIDE DEF i
    <3>2. i \in 1..size /\ tasks[i].seq = s
      BY <3>1 DEF i
    <3>3. QED
      BY <1>8, <1>9, <3>2
  <2>3. QED
    BY <2>1, <2>2
<1>17. ASSUME NEW k, NEW m, NEW i, NEW j, IsPlace(evs, k, i), IsPlace(evs, m, j), k < m
       PROVE  evs[k].tasks[i].seq < evs[m].tasks[j].seq
  <2>1. k \in 1..(n + 1) /\ m \in 1..(n + 1)
    BY <1>2, <1>17 DEF IsPlace
  <2>2. k # n + 1
    BY <1>1, <1>17, <2>1
  <2>3. IsPlace(ev, k, i)
    BY <1>4, <1>17, <2>2
  <2>4. CASE IsPlace(ev, m, j)
    <3>1. ev[k].tasks[i].seq < ev[m].tasks[j].seq
      BY <1>17, <2>3, <2>4, Zenon DEF Good
    <3>2. QED
      BY <1>5, <2>3, <2>4, <3>1
  <2>5. CASE m = n + 1 /\ j \in 1..size
    <3>1. TaskAt(ev, <<k, i>>).seq < made.seq
      BY <2>3, PlaceIs DEF Good
    <3>2. evs[k].tasks[i].seq < made.seq
      BY <1>5, <2>3, <3>1, PlaceIs
    <3>3. evs[m].tasks[j].seq = made.seq + j - 1
      BY <1>6, <2>5
    <3>4. evs[k].tasks[i].seq \in Nat
      <4>1. ev[k] \in EventData /\ i \in 1..Len(ev[k].tasks)
        BY <1>1, <1>2, <2>3 DEF IsPlace
      <4>2. ev[k].tasks[i] \in TaskData
        BY <4>1 DEF EventData
      <4>3. QED
        BY <1>5, <2>3, <4>2 DEF TaskData
    <3>5. QED
      BY <1>1, <2>5, <3>2, <3>3, <3>4
  <2>6. QED
    BY <1>4, <1>17, <2>4, <2>5
<1>18. ASSUME NEW c \in Class PROVE Cardinality(OfClassAt(evs, c)) = sum[c]
  <2> DEFINE those == {i \in 1..size : tasks[i].class = c}
             fresh == {n + 1} \X those
             old == OfClassAt(ev, c)
  <2>1. OfClassAt(evs, c) = old \cup fresh
    <3>1. \A p \in Places(ev) : p \in OfClassAt(evs, c) <=> p \in old
      BY <1>8, <1>9 DEF OfClassAt
    <3>2. \A i \in 1..size : <<n + 1, i>> \in OfClassAt(evs, c) <=> i \in those
      BY <1>8, <1>9 DEF OfClassAt
    <3>3. OfClassAt(evs, c) \subseteq Places(ev) \cup own /\ old \subseteq Places(ev)
      BY <1>8 DEF OfClassAt
    <3>4. \A p \in fresh : \E i \in those : p = <<n + 1, i>>
      OBVIOUS
    <3>5. \A i \in those : <<n + 1, i>> \in fresh
      OBVIOUS
    <3>6. those \subseteq 1..size
      OBVIOUS
    <3> HIDE DEF those, fresh, old, own
    <3>7. OfClassAt(evs, c) \subseteq old \cup fresh
      <4> SUFFICES ASSUME NEW p \in OfClassAt(evs, c), p \notin Places(ev) PROVE p \in fresh
        BY <3>1
      <4>1. PICK i \in 1..size : p = <<n + 1, i>>
        BY <1>7, <3>3
      <4>2. QED
        BY <3>2, <3>5, <4>1
    <3>8. old \cup fresh \subseteq OfClassAt(evs, c)
      BY <3>1, <3>2, <3>3, <3>4, <3>6
    <3>9. QED
      BY <3>7, <3>8
  <2>2. old \cap fresh = {}
    <3>1. old \subseteq Places(ev) /\ fresh \subseteq own
      BY DEF OfClassAt
    <3> HIDE DEF old, fresh, own
    <3>2. QED
      BY <1>8, <3>1
  <2>3. IsFiniteSet(those) /\ Cardinality(those) = mix[c] /\ mix[c] \in Nat
    <3>1. IsFiniteSet(those)
      BY <1>11, FS_Subset
    <3>2. QED
      BY <1>1, <3>1
  <2>4. IsFiniteSet(fresh) /\ Cardinality(fresh) = mix[c]
    <3> HIDE DEF those
    <3>1. QED
      BY <2>3, CountWith, Zenon
  <2>5. IsFiniteSet(old) /\ Cardinality(old) = have[c] /\ have[c] \in Nat
    <3>1. IsFiniteSet(old)
      BY <1>13, FS_Subset DEF OfClassAt
    <3>2. QED
      BY <1>1, <3>1 DEF Good
  <2> HIDE DEF old, fresh
  <2>6. Cardinality(old \cup fresh) = Cardinality(old) + Cardinality(fresh) - Cardinality({})
    BY <2>2, <2>4, <2>5, FS_Union
  <2>7. Cardinality({}) = 0
    BY FS_EmptySet
  <2>8. QED
    BY <2>1, <2>3, <2>4, <2>5, <2>6, <2>7
<1>19. sum \in [Class -> Nat]
  BY <1>1
<1>20. new.seq = made.seq + size /\ new.events = evs /\ new \in [seq : Nat, events : Seq(EventData)]
  BY <1>1, <1>2
<1> HIDE DEF new, sum
<1>21. Good(new, sum)
  <2> HIDE DEF size, ev
  <2>1. IsFiniteSet(Places(evs)) /\ Cardinality(Places(evs)) = new.seq
    BY <1>14, <1>20
  <2>2. \A p \in Places(evs) : TaskAt(evs, p).seq < new.seq
    BY <1>15, <1>20
  <2>3. \A s \in 0..(new.seq - 1) : \E p \in Places(evs) : TaskAt(evs, p).seq = s
    <3> SUFFICES ASSUME NEW s \in 0..(new.seq - 1) PROVE \E p \in Places(evs) : TaskAt(evs, p).seq = s
      OBVIOUS
    <3>1. s \in 0..(made.seq + size - 1)
      BY <1>1, <1>20
    <3>2. QED
      BY <1>16, <3>1
  <2>4. \A k, m, i, j : IsPlace(evs, k, i) /\ IsPlace(evs, m, j) /\ k < m =>
                          evs[k].tasks[i].seq < evs[m].tasks[j].seq
    BY <1>17, Zenon
  <2>5. QED
    BY <1>18, <1>19, <1>20, <2>1, <2>2, <2>3, <2>4, Zenon DEF Good
<1>22. QED
  BY <1>21 DEF new, sum, evs, e

\* So does a batch submitted (arrival.py:262, 288), and so does an injection of memory.
LEMMA SubmitGood ==
  ASSUME NEW made, NEW have, Good(made, have), NEW mix, IsMix(mix), NEW at \in Int
  PROVE  Good(Submit(made, at, mix), [c \in Class |-> have[c] + mix[c]])
<1> DEFINE batch == generate_batch(mix, made.seq)
           total == UpTo(mix, NumClasses)
           tasks == batch.tasks
           e == [at |-> at, kind |-> "submit_tasks", tasks |-> tasks]
           sum == [c \in Class |-> have[c] + mix[c]]
<1>1. made.seq \in Nat /\ made.events \in Seq(EventData) /\ made = [seq |-> made.seq, events |-> made.events]
      /\ have \in [Class -> Nat]
  BY DEF Good
<1>2. /\ total \in Nat /\ batch.seq = made.seq + total
      /\ tasks \in Seq(TaskData) /\ Len(tasks) = total
      /\ \A i \in 1..total : tasks[i].seq = made.seq + i - 1
      /\ \A c \in Class : Cardinality({i \in 1..total : tasks[i].class = c}) = mix[c]
  BY <1>1, NumberedIs DEF generate_batch
<1>3. Submit(made, at, mix) =
        [seq |-> batch.seq, events |-> IF tasks = <<>> THEN made.events ELSE Append(made.events, e)]
  BY DEF Submit
<1> HIDE DEF batch, total, e
<1>4. CASE tasks = <<>>
  <2>1. total = 0
    BY <1>2, <1>4
  <2>2. Submit(made, at, mix) = made
    BY <1>1, <1>2, <1>3, <1>4, <2>1
  <2>3. \A c \in Class : mix[c] = 0
    <3>1. ASSUME NEW c \in Class PROVE mix[c] = 0
      <4>1. {i \in 1..total : tasks[i].class = c} = {}
        BY <2>1
      <4>2. QED
        BY <1>2, <4>1, FS_EmptySet
    <3>2. QED
      BY <3>1
  <2>4. sum = have
    BY <1>1, <2>3
  <2>5. QED
    BY <2>2, <2>4
<1>5. CASE tasks # <<>>
  <2>1. Submit(made, at, mix) = [seq |-> made.seq + Len(tasks), events |-> Append(made.events, e)]
    BY <1>2, <1>3, <1>5
  <2>2. Good([seq |-> made.seq + Len(tasks),
              events |-> Append(made.events, [at |-> at, kind |-> "submit_tasks", tasks |-> tasks])], sum)
    BY <1>2, AppendGood
  <2>3. QED
    BY <2>1, <2>2 DEF e
<1>6. QED
  BY <1>4, <1>5

\* An injection of memory holds no task and takes no number.
LEMMA InjectGood ==
  ASSUME NEW made, NEW have, Good(made, have), NEW at \in Int
  PROVE  Good(Inject(made, at), have)
<1> DEFINE none == [c \in Class |-> 0]
           e == [at |-> at, kind |-> "inject_memory", tasks |-> <<>>]
           sum == [c \in Class |-> have[c] + none[c]]
<1>1. made.seq \in Nat /\ made = [seq |-> made.seq, events |-> made.events] /\ have \in [Class -> Nat]
  BY DEF Good
<1>2. IsMix(none)
  BY DEF IsMix
<1>3. <<>> \in Seq(TaskData) /\ Len(<<>>) = 0
  OBVIOUS
<1>4. \A c \in Class : Cardinality({i \in 1..Len(<<>>) : <<>>[i].class = c}) = none[c]
  <2>1. \A c \in Class : {i \in 1..Len(<<>>) : <<>>[i].class = c} = {}
    BY <1>3
  <2>2. QED
    BY <2>1, FS_EmptySet
<1> HIDE DEF none
<1>5. Good([seq |-> made.seq + Len(<<>>), events |-> Append(made.events, e)], sum)
  <2>1. \A i \in 1..Len(<<>>) : <<>>[i].seq = made.seq + i - 1
    BY <1>3
  <2>2. QED
    BY <1>2, <1>3, <1>4, <2>1, AppendGood
<1>6. sum = have
  BY <1>1 DEF none
<1>7. Inject(made, at) = [seq |-> made.seq + Len(<<>>), events |-> Append(made.events, e)]
  <2>1. Inject(made, at) = [made EXCEPT !.events = Append(@, e)]
    BY DEF Inject
  <2> HIDE DEF e
  <2>2. made.seq + Len(<<>>) = made.seq
    BY <1>1, <1>3
  <2>3. QED
    BY <1>1, <2>1, <2>2
<1>8. QED
  BY <1>5, <1>6, <1>7

-----------------------------------------------------------------------------
\* Generators

\* The slots share out the whole mix.
LEMMA ApportionAdds ==
  ASSUME NEW mix, IsMix(mix), NEW slots \in Nat \ {0}, NEW c \in Class
  PROVE  /\ \A i \in 1..slots : apportion(mix, slots)[i] \in [Class -> Nat]
         /\ LoadOf(1..slots, [i \in 1..slots |-> apportion(mix, slots)[i][c]]) = mix[c]
<1> DEFINE base == mix[c] \div slots
           extra == mix[c] % slots
           even == [i \in 1..slots |-> base]
           one == [i \in 1..slots |-> IF i <= extra THEN 1 ELSE 0]
           share == [i \in 1..slots |-> apportion(mix, slots)[i][c]]
<1>1. \A d \in Class : mix[d] \in Nat
  BY DEF IsMix
<1>2. ASSUME NEW d \in Nat
      PROVE  /\ d \div slots \in Nat /\ d % slots \in 0..(slots - 1)
             /\ d = slots * (d \div slots) + (d % slots)
  OBVIOUS
<1>3. \A i \in 1..slots : apportion(mix, slots)[i] \in [Class -> Nat]
  <2> SUFFICES ASSUME NEW i \in 1..slots, NEW d \in Class
               PROVE  (mix[d] \div slots) + (IF i <= mix[d] % slots THEN 1 ELSE 0) \in Nat
    BY DEF apportion
  <2>1. mix[d] \div slots \in Nat
    BY <1>1, <1>2
  <2>2. QED
    BY <2>1
<1>4. mix[c] \in Nat /\ base \in Nat /\ extra \in 0..(slots - 1) /\ mix[c] = slots * base + extra
  BY <1>1, <1>2
<1>5. \A i \in 1..slots : share[i] = even[i] + one[i] /\ even[i] = base /\ one[i] = IF i <= extra THEN 1 ELSE 0
  BY DEF apportion
<1> HIDE DEF base, extra, even, one, share
<1>6. IsFiniteSet(1..slots) /\ Cardinality(1..slots) = slots
  BY CountTo
<1>7. LoadOf(1..slots, even) = slots * base
  BY <1>4, <1>5, <1>6, LoadConstant, ZenonT(40)
<1>8. LoadOf(1..slots, one) = extra
  <2>1. \A i \in 1..slots : one[i] \in {0, 1}
    BY <1>5
  <2>2. {i \in 1..slots : one[i] = 1} = 1..extra
    BY <1>4, <1>5
  <2>3. Cardinality(1..extra) = extra
    BY <1>4, CountTo
  <2>4. QED
    BY <1>6, <2>1, <2>2, <2>3, LoadIndicator, ZenonT(40)
<1>9. \A i \in 1..slots : even[i] \in Nat /\ one[i] \in Nat /\ share[i] = even[i] + one[i]
  BY <1>4, <1>5
<1>10. LoadOf(1..slots, share) = slots * base + extra
  BY <1>6, <1>7, <1>8, <1>9, LoadsAdd
<1>11. QED
  BY <1>3, <1>4, <1>10 DEF share

\* The slots of a generator share a class evenly: no two of them differ by more than one.
LEMMA SharesEven ==
  ASSUME NEW mix, IsMix(mix), NEW slots \in Int
  PROVE  EvenShares(mix, slots)
<1> DEFINE share == apportion(mix, slots)
<1> SUFFICES ASSUME NEW i \in 1..slots, NEW j \in 1..slots, NEW c \in Class, i < j
             PROVE  share[j][c] \in {share[i][c], share[i][c] - 1}
  BY DEF EvenShares
<1> DEFINE base == mix[c] \div slots
           extra == mix[c] % slots
<1>1. base \in Int /\ extra \in Int
  BY DEF IsMix
<1>2. share[i][c] = base + (IF i <= extra THEN 1 ELSE 0) /\ share[j][c] = base + (IF j <= extra THEN 1 ELSE 0)
  BY DEF apportion
<1> HIDE DEF base, extra, share
<1>3. QED
  BY <1>1, <1>2

\* The events after i slots, from those after i - 1.
SlotsAfter(f, made, entry, i) ==
  IF i = 0 THEN made
  ELSE Submit(f[i - 1], entry.at + (i - 1) * entry.interval, apportion(entry.mix, entry.count)[i])
\* f holds what is made before every slot of a generator, up to the n-th.
Slotted(f, made, entry, n) == f = [i \in 0..n |-> SlotsAfter(f, made, entry, i)]

\* SubmitSlots is what its last slot makes.
LEMMA SlotsExist ==
  ASSUME NEW made, NEW entry, NEW n \in Nat
  PROVE  \E f : Slotted(f, made, entry, n)
<1> DEFINE S == {m \in Nat : ~\E f : Slotted(f, made, entry, m)}
<1>1. SUFFICES ASSUME S # {} PROVE FALSE
  OBVIOUS
<1>2. PICK m \in S : \A k \in S : ~(k < m)
  BY <1>1, LeastMember
<1>3. m \in Nat /\ ~\E f : Slotted(f, made, entry, m)
  BY <1>2
<1>4. CASE m = 0
  <2>1. Slotted([i \in 0..0 |-> made], made, entry, 0)
    BY DEF Slotted, SlotsAfter
  <2>2. QED
    BY <1>3, <1>4, <2>1
<1>5. CASE m # 0
  <2>1. m - 1 \in Nat /\ m - 1 < m
    BY <1>3, <1>5
  <2>2. PICK g : Slotted(g, made, entry, m - 1)
    BY <1>2, <2>1
  <2> DEFINE f == [i \in 0..m |-> IF i = m THEN SlotsAfter(g, made, entry, m) ELSE g[i]]
  <2>3. \A i \in 0..m - 1 : f[i] = g[i] /\ g[i] = SlotsAfter(g, made, entry, i)
    BY <1>3, <2>1, <2>2 DEF Slotted
  <2>4. \A i \in 0..m : (i # 0 => i - 1 \in 0..m - 1) /\ (i # m => i \in 0..m - 1)
    BY <1>3
  <2>5. f[m] = SlotsAfter(g, made, entry, m) /\ f = [i \in 0..m |-> f[i]]
    BY <1>3
  <2> HIDE DEF f
  <2>6. \A i \in 0..m : SlotsAfter(g, made, entry, i) = SlotsAfter(f, made, entry, i)
    BY <2>3, <2>4 DEF SlotsAfter
  <2>7. \A i \in 0..m : f[i] = SlotsAfter(f, made, entry, i)
    BY <2>3, <2>4, <2>5, <2>6
  <2>8. Slotted(f, made, entry, m)
    BY <2>5, <2>7 DEF Slotted
  <2>9. QED
    BY <1>3, <2>8
<1>6. QED
  BY <1>4, <1>5

\* A generator submits its mix in all.
LEMMA SlotsGood ==
  ASSUME NEW made, NEW have, Good(made, have),
         NEW entry, IsEntry(entry), entry.kind = "generator", entry.count > 0
  PROVE  Good(SubmitSlots(made, entry), [c \in Class |-> have[c] + entry.mix[c]])
<1> DEFINE n == entry.count
           slot == apportion(entry.mix, n)
           column == [c \in Class |-> [i \in 1..n |-> slot[i][c]]]
           upto(i) == [c \in Class |-> have[c] + LoadOf(1..i, column[c])]
<1>1. n \in Nat \ {0} /\ entry.at \in Int /\ entry.interval \in Int /\ IsMix(entry.mix)
  BY DEF IsEntry, IsMix
<1>2. SubmitSlots(made, entry) = (CHOOSE f : Slotted(f, made, entry, n))[n]
  BY DEF SubmitSlots, Slotted, SlotsAfter
<1>3. PICK f : Slotted(f, made, entry, n) /\ SubmitSlots(made, entry) = f[n]
  BY <1>1, <1>2, SlotsExist
<1>4. \A i \in 1..n : slot[i] \in [Class -> Nat] /\ IsMix(slot[i])
  <2>1. 1 \in Class
    BY WorkloadAssumption DEF Class
  <2> HIDE DEF n
  <2>2. \A i \in 1..n : slot[i] \in [Class -> Nat]
    BY <1>1, <2>1, ApportionAdds
  <2>3. QED
    BY <2>2 DEF IsMix
<1>5. have \in [Class -> Nat]
  BY DEF Good
<1>6. f[0] = made /\ \A i \in 1..n : f[i] = Submit(f[i - 1], entry.at + (i - 1) * entry.interval, slot[i])
  <2> HIDE DEF n
  <2>1. f = [i \in 0..n |-> SlotsAfter(f, made, entry, i)]
    BY <1>3 DEF Slotted
  <2>2. 0 \in 0..n /\ \A i \in 1..n : i \in 0..n /\ i # 0
    BY <1>1
  <2>3. f[0] = SlotsAfter(f, made, entry, 0) /\ \A i \in 1..n : f[i] = SlotsAfter(f, made, entry, i)
    BY <2>1, <2>2
  <2>4. QED
    BY <2>2, <2>3 DEF SlotsAfter, n
<1>7. \A c \in Class : \A i \in 1..n : column[c][i] = slot[i][c] /\ column[c][i] \in Nat
  BY <1>4
<1> HIDE DEF n, slot, column
<1> DEFINE bad == {i \in 0..n : ~Good(f[i], upto(i))}
<1>8. bad = {}
  <2>1. SUFFICES ASSUME bad # {} PROVE FALSE
    OBVIOUS
  <2>2. PICK i \in bad : \A j \in bad : ~(j < i)
    <3>1. bad \in SUBSET Nat
      BY <1>1
    <3> HIDE DEF bad
    <3>2. QED
      BY <2>1, <3>1, LeastMember
  <2>3. i \in 0..n /\ ~Good(f[i], upto(i))
    BY <2>2
  <2>4. CASE i = 0
    <3>1. \A c \in Class : LoadOf(1..0, column[c]) = 0
      <4>1. 1..0 = {}
        OBVIOUS
      <4>2. QED
        BY <4>1, LoadOfNone
    <3>2. \A c \in Class : have[c] \in Nat /\ have[c] + LoadOf(1..0, column[c]) = have[c]
      BY <1>5, <3>1
    <3>3. upto(0) = have
      BY <1>5, <3>2
    <3>4. QED
      BY <1>6, <2>3, <2>4, <3>3
  <2>5. CASE i # 0
    <3>1. i \in 1..n /\ i - 1 \in 0..n /\ i - 1 < i
      BY <1>1, <2>3, <2>5
    <3>2. Good(f[i - 1], upto(i - 1))
      BY <2>2, <3>1
    <3>3. entry.at + (i - 1) * entry.interval \in Int
      BY <1>1, <3>1
    <3> DEFINE next == [c \in Class |-> upto(i - 1)[c] + slot[i][c]]
    <3>4. Good(f[i], next)
      <4> HIDE DEF upto
      <4>1. QED
        BY <1>4, <1>6, <3>1, <3>2, <3>3, SubmitGood
    <3>5. \A c \in Class : LoadOf(1..i, column[c]) = LoadOf(1..(i - 1), column[c]) + slot[i][c]
      <4>1. ASSUME NEW c \in Class
            PROVE  LoadOf(1..i, column[c]) = LoadOf(1..(i - 1), column[c]) + slot[i][c]
        <5>1. 1..i = (1..(i - 1)) \cup {i} /\ i \notin 1..(i - 1) /\ i - 1 \in Nat
          BY <1>1, <3>1
        <5>2. \A j \in (1..(i - 1)) \cup {i} : j \in 1..n
          BY <1>1, <3>1
        <5>3. IsFiniteSet(1..(i - 1)) /\ \A j \in (1..(i - 1)) \cup {i} : column[c][j] \in Nat
          BY <1>7, <5>1, <5>2, CountTo
        <5>4. LoadOf((1..(i - 1)) \cup {i}, column[c]) = LoadOf(1..(i - 1), column[c]) + column[c][i]
          BY <5>1, <5>3, LoadAddsSize
        <5>5. QED
          BY <1>7, <3>1, <5>1, <5>4
      <4>2. QED
        BY <4>1
    <3>6. next = upto(i)
      <4>1. ASSUME NEW c \in Class PROVE next[c] = upto(i)[c]
        <5>1. LoadOf(1..(i - 1), column[c]) \in Nat /\ slot[i][c] \in Nat /\ have[c] \in Nat
          <6>1. i - 1 \in Nat /\ \A j \in 1..(i - 1) : j \in 1..n
            BY <1>1, <3>1
          <6>2. IsFiniteSet(1..(i - 1)) /\ \A j \in 1..(i - 1) : column[c][j] \in Nat
            BY <1>7, <6>1, CountTo
          <6>3. QED
            BY <1>4, <1>5, <3>1, <6>2, LoadIsNat
        <5>2. QED
          BY <3>5, <5>1
      <4>2. QED
        BY <4>1
    <3>7. QED
      BY <2>3, <3>4, <3>6
  <2>6. QED
    BY <2>4, <2>5
<1>9. Good(f[n], upto(n))
  BY <1>1, <1>8
<1>10. \A c \in Class : LoadOf(1..n, column[c]) = entry.mix[c]
  BY <1>1, ApportionAdds DEF column, slot
<1>11. upto(n) = [c \in Class |-> have[c] + entry.mix[c]]
  BY <1>10
<1>12. QED
  BY <1>3, <1>9, <1>11

-----------------------------------------------------------------------------
\* The timeline

\* An entry, whatever its kind, keeps the numbers and adds the tasks it declares.
LEMMA ProcessGood ==
  ASSUME NEW made, NEW have, Good(made, have), NEW entry, IsEntry(entry)
  PROVE  Good(Process(made, entry), [c \in Class |-> have[c] + Declared(entry, c)])
<1> DEFINE sum == [c \in Class |-> have[c] + Declared(entry, c)]
<1>1. have \in [Class -> Nat]
  BY DEF Good
<1>2. ASSUME \A c \in Class : Declared(entry, c) = 0 PROVE sum = have
  <2>1. \A c \in Class : have[c] \in Nat /\ sum[c] = have[c]
    BY <1>1, <1>2
  <2>2. QED
    BY <1>1, <2>1
<1>3. CASE entry.kind = "arrival"
  <2>1. Process(made, entry) = Submit(made, entry.at, entry.mix)
    BY <1>3 DEF Process
  <2>2. IsMix(entry.mix) /\ entry.at \in Int
    BY <1>3 DEF IsEntry, IsMix
  <2>3. sum = [c \in Class |-> have[c] + entry.mix[c]]
    BY <1>3 DEF Declared
  <2>4. QED
    BY <2>1, <2>2, <2>3, SubmitGood
<1>4. CASE entry.kind = "generator"
  <2>1. Process(made, entry) = IF entry.count <= 0 THEN made ELSE SubmitSlots(made, entry)
    BY <1>4 DEF Process
  <2>2. CASE entry.count <= 0
    <3>1. \A c \in Class : Declared(entry, c) = 0
      BY <1>4, <2>2 DEF Declared
    <3>2. QED
      BY <1>2, <2>1, <2>2, <3>1
  <2>3. CASE ~(entry.count <= 0)
    <3>1. entry.count > 0
      BY <1>4, <2>3 DEF IsEntry
    <3>2. sum = [c \in Class |-> have[c] + entry.mix[c]]
      BY <1>4, <2>3 DEF Declared
    <3>3. QED
      BY <1>4, <2>1, <2>3, <3>1, <3>2, SlotsGood
  <2>4. QED
    BY <2>2, <2>3
<1>5. CASE entry.kind = "inject_memory"
  <2>1. Process(made, entry) = Inject(made, entry.at)
    BY <1>5 DEF Process
  <2>2. \A c \in Class : Declared(entry, c) = 0
    BY <1>5 DEF Declared
  <2>3. entry.at \in Int
    BY DEF IsEntry
  <2>4. QED
    BY <1>2, <2>1, <2>2, <2>3, InjectGood
<1>6. QED
  BY <1>3, <1>4, <1>5 DEF IsEntry

\* The events after k entries, from those after k - 1.
EntriesAfter(f, made, entries, k) == IF k = 0 THEN made ELSE Process(f[k - 1], entries[k])
\* f holds what is made before every entry, up to the n-th.
Processed(f, made, entries, n) == f = [k \in 0..n |-> EntriesAfter(f, made, entries, k)]

\* ProcessAll is what its last entry makes.
LEMMA EntriesExist ==
  ASSUME NEW made, NEW entries, NEW n \in Nat
  PROVE  \E f : Processed(f, made, entries, n)
<1> DEFINE S == {m \in Nat : ~\E f : Processed(f, made, entries, m)}
<1>1. SUFFICES ASSUME S # {} PROVE FALSE
  OBVIOUS
<1>2. PICK m \in S : \A k \in S : ~(k < m)
  BY <1>1, LeastMember
<1>3. m \in Nat /\ ~\E f : Processed(f, made, entries, m)
  BY <1>2
<1>4. CASE m = 0
  <2>1. Processed([k \in 0..0 |-> made], made, entries, 0)
    BY DEF Processed, EntriesAfter
  <2>2. QED
    BY <1>3, <1>4, <2>1
<1>5. CASE m # 0
  <2>1. m - 1 \in Nat /\ m - 1 < m
    BY <1>3, <1>5
  <2>2. PICK g : Processed(g, made, entries, m - 1)
    BY <1>2, <2>1
  <2> DEFINE f == [k \in 0..m |-> IF k = m THEN EntriesAfter(g, made, entries, m) ELSE g[k]]
  <2>3. \A k \in 0..m - 1 : f[k] = g[k] /\ g[k] = EntriesAfter(g, made, entries, k)
    BY <1>3, <2>1, <2>2 DEF Processed
  <2>4. \A k \in 0..m : (k # 0 => k - 1 \in 0..m - 1) /\ (k # m => k \in 0..m - 1)
    BY <1>3
  <2>5. f[m] = EntriesAfter(g, made, entries, m) /\ f = [k \in 0..m |-> f[k]]
    BY <1>3
  <2> HIDE DEF f
  <2>6. \A k \in 0..m : EntriesAfter(g, made, entries, k) = EntriesAfter(f, made, entries, k)
    BY <2>3, <2>4 DEF EntriesAfter
  <2>7. \A k \in 0..m : f[k] = EntriesAfter(f, made, entries, k)
    BY <2>3, <2>4, <2>5, <2>6
  <2>8. Processed(f, made, entries, m)
    BY <2>5, <2>7 DEF Processed
  <2>9. QED
    BY <1>3, <2>8
<1>6. QED
  BY <1>4, <1>5

\* The entries of a scenario, each as the parser makes it.
IsEntries(entries) ==
  /\ Len(entries) \in Nat /\ DOMAIN entries = 1..Len(entries)
  /\ \A k \in DOMAIN entries : IsEntry(entries[k])

\* An entry declares a number of tasks of each class: none where its count is not positive.
LEMMA DeclaredIsNat ==
  ASSUME NEW entry, IsEntry(entry), NEW c \in Class
  PROVE  Declared(entry, c) \in Nat
BY DEF IsEntry, Declared

\* The entries of a scenario keep the numbers and add the tasks they declare.
LEMMA ProcessAllGood ==
  ASSUME NEW made, NEW have, Good(made, have), NEW entries, IsEntries(entries)
  PROVE  Good(ProcessAll(made, entries), [c \in Class |-> have[c] + AllDeclared(entries, c)])
<1> DEFINE n == Len(entries)
           of == [c \in Class |-> [k \in 1..n |-> Declared(entries[k], c)]]
           upto(k) == [c \in Class |-> have[c] + LoadOf(1..k, of[c])]
<1>1. n \in Nat /\ DOMAIN entries = 1..n /\ \A k \in 1..n : IsEntry(entries[k])
  BY DEF IsEntries
<1>2. ProcessAll(made, entries) = (CHOOSE f : Processed(f, made, entries, n))[n]
  BY DEF ProcessAll, Processed, EntriesAfter
<1>3. PICK f : Processed(f, made, entries, n) /\ ProcessAll(made, entries) = f[n]
  BY <1>1, <1>2, EntriesExist
<1>4. have \in [Class -> Nat]
  BY DEF Good
<1> HIDE DEF n
<1>5. f[0] = made /\ \A k \in 1..n : f[k] = Process(f[k - 1], entries[k])
  <2>1. f = [k \in 0..n |-> EntriesAfter(f, made, entries, k)]
    BY <1>3 DEF Processed
  <2>2. 0 \in 0..n /\ \A k \in 1..n : k \in 0..n /\ k # 0
    BY <1>1
  <2>3. f[0] = EntriesAfter(f, made, entries, 0) /\ \A k \in 1..n : f[k] = EntriesAfter(f, made, entries, k)
    BY <2>1, <2>2
  <2>4. QED
    BY <2>2, <2>3 DEF EntriesAfter
<1>6. \A c \in Class : \A k \in 1..n : of[c][k] = Declared(entries[k], c) /\ of[c][k] \in Nat
  BY <1>1, DeclaredIsNat
<1>7. \A c \in Class : AllDeclared(entries, c) = LoadOf(1..n, of[c])
  BY <1>1 DEF AllDeclared
<1> HIDE DEF of
<1> DEFINE bad == {k \in 0..n : ~Good(f[k], upto(k))}
<1>8. bad = {}
  <2>1. SUFFICES ASSUME bad # {} PROVE FALSE
    OBVIOUS
  <2>2. PICK k \in bad : \A j \in bad : ~(j < k)
    <3>1. bad \in SUBSET Nat
      BY <1>1
    <3> HIDE DEF bad
    <3>2. QED
      BY <2>1, <3>1, LeastMember
  <2>3. k \in 0..n /\ ~Good(f[k], upto(k))
    BY <2>2
  <2>4. CASE k = 0
    <3>1. 1..0 = {}
      OBVIOUS
    <3>2. \A c \in Class : have[c] \in Nat /\ have[c] + LoadOf(1..0, of[c]) = have[c]
      BY <1>4, <3>1, LoadOfNone
    <3>3. upto(0) = have
      BY <1>4, <3>2
    <3>4. QED
      BY <1>5, <2>3, <2>4, <3>3
  <2>5. CASE k # 0
    <3>1. k \in 1..n /\ k - 1 \in 0..n /\ k - 1 < k
      BY <1>1, <2>3, <2>5
    <3>2. Good(f[k - 1], upto(k - 1))
      BY <2>2, <3>1
    <3> DEFINE next == [c \in Class |-> upto(k - 1)[c] + Declared(entries[k], c)]
    <3>3. Good(f[k], next)
      <4> HIDE DEF upto
      <4>1. QED
        BY <1>1, <1>5, <3>1, <3>2, ProcessGood
    <3>4. ASSUME NEW c \in Class PROVE next[c] = upto(k)[c]
      <4>1. 1..k = (1..(k - 1)) \cup {k} /\ k \notin 1..(k - 1) /\ k - 1 \in Nat
        BY <1>1, <3>1
      <4>2. \A j \in (1..(k - 1)) \cup {k} : j \in 1..n
        BY <1>1, <3>1
      <4>3. IsFiniteSet(1..(k - 1)) /\ \A j \in (1..(k - 1)) \cup {k} : of[c][j] \in Nat
        BY <1>6, <4>1, <4>2, CountTo
      <4>4. LoadOf((1..(k - 1)) \cup {k}, of[c]) = LoadOf(1..(k - 1), of[c]) + of[c][k]
        BY <4>1, <4>3, LoadAddsSize
      <4>5. LoadOf(1..k, of[c]) = LoadOf(1..(k - 1), of[c]) + Declared(entries[k], c)
        BY <1>6, <3>1, <4>1, <4>4
      <4>6. LoadOf(1..(k - 1), of[c]) \in Nat /\ Declared(entries[k], c) \in Nat /\ have[c] \in Nat
        BY <1>1, <1>4, <3>1, <4>3, LoadIsNat, DeclaredIsNat
      <4>7. QED
        BY <4>5, <4>6
    <3>5. next = upto(k)
      BY <3>4
    <3>6. QED
      BY <2>3, <3>3, <3>5
  <2>6. QED
    BY <2>4, <2>5
<1>9. Good(f[n], upto(n))
  <2>1. n \in 0..n
    BY <1>1
  <2> HIDE DEF upto
  <2>2. QED
    BY <1>8, <2>1
<1>10. upto(n) = [c \in Class |-> have[c] + AllDeclared(entries, c)]
  BY <1>7
<1>11. QED
  BY <1>3, <1>9, <1>10

\* The sort puts the events in the one order in which each precedes the next.
LEMMA SortIs ==
  ASSUME NEW ev \in Seq(EventData)
  PROVE  \E order : /\ order \in Bijection(DOMAIN ev, DOMAIN ev)
                    /\ by_time(ev) = [k \in DOMAIN ev |-> ev[order[k]]]
                    /\ \A k, m \in DOMAIN ev : k < m => Precedes(ev, order[k], order[m])
<1> DEFINE n == Len(ev)
           D == 1..n
           place == [i \in D |-> Cardinality(Earlier(ev, i)) + 1]
           order == [k \in D |-> CHOOSE i \in D : Cardinality(Earlier(ev, i)) = k - 1]
<1>1. n \in Nat /\ DOMAIN ev = D /\ \A i \in D : ev[i].at \in Int /\ i \in Nat
  <2>1. n \in Nat /\ DOMAIN ev = D /\ \A i \in D : ev[i] \in EventData
    OBVIOUS
  <2>2. \A e \in EventData : e.at \in Int
    BY DEF EventData
  <2> HIDE DEF n
  <2>3. QED
    BY <2>1, <2>2
<1> HIDE DEF n
<1>2. /\ \A i \in D : ~Precedes(ev, i, i)
      /\ \A i, j \in D : i # j => Precedes(ev, i, j) \/ Precedes(ev, j, i)
      /\ \A i, j \in D : Precedes(ev, i, j) => ~Precedes(ev, j, i)
      /\ \A h, i, j \in D : Precedes(ev, h, i) /\ Precedes(ev, i, j) => Precedes(ev, h, j)
  <2> HIDE DEF D
  <2>1. QED
    BY <1>1 DEF Precedes
<1>3. IsFiniteSet(D) /\ Cardinality(D) = n
  BY <1>1, CountTo
<1>4. ASSUME NEW i \in D
      PROVE  IsFiniteSet(Earlier(ev, i)) /\ Cardinality(Earlier(ev, i)) \in Nat /\ place[i] \in D
  <2>1. Earlier(ev, i) \subseteq D /\ i \notin Earlier(ev, i)
    BY <1>1, <1>2 DEF Earlier
  <2>2. /\ IsFiniteSet(Earlier(ev, i)) /\ Cardinality(Earlier(ev, i)) <= Cardinality(D)
        /\ (Cardinality(D) = Cardinality(Earlier(ev, i)) => D = Earlier(ev, i))
    BY <1>3, <2>1, FS_Subset
  <2>3. Cardinality(Earlier(ev, i)) \in Nat
    BY <2>2, FS_CardinalityType
  <2>4. Cardinality(Earlier(ev, i)) < n
    BY <1>1, <1>3, <2>1, <2>2, <2>3
  <2>5. QED
    BY <1>1, <2>2, <2>3, <2>4
<1>5. ASSUME NEW i \in D, NEW j \in D, Precedes(ev, i, j) PROVE place[i] < place[j]
  <2>1. Earlier(ev, i) \subseteq Earlier(ev, j) /\ i \in Earlier(ev, j) /\ i \notin Earlier(ev, i)
    BY <1>1, <1>2, <1>5 DEF Earlier
  <2>2. /\ Cardinality(Earlier(ev, i)) <= Cardinality(Earlier(ev, j))
        /\ Cardinality(Earlier(ev, i)) # Cardinality(Earlier(ev, j))
    BY <1>4, <2>1, FS_Subset
  <2>3. QED
    BY <1>4, <2>2
<1>6. ASSUME NEW i \in D, NEW j \in D, place[i] = place[j] PROVE i = j
  <2>1. place[i] \in Nat /\ place[j] \in Nat
    BY <1>1, <1>4
  <2> HIDE DEF place, D
  <2>2. ~(place[i] < place[j]) /\ ~(place[j] < place[i])
    BY <1>6, <2>1
  <2>3. QED
    BY <1>2, <1>5, <2>2
<1>7. place \in [D -> D]
  BY <1>4
<1>8. place \in Injection(D, D)
  BY <1>6, <1>7 DEF Injection, IsInjective
<1>9. place \in Surjection(D, D)
  BY <1>3, <1>8, FS_Injection
<1>10. ASSUME NEW k \in D PROVE order[k] \in D /\ place[order[k]] = k
  <2>1. PICK i \in D : place[i] = k
    BY <1>9 DEF Surjection
  <2>2. k \in Nat
    BY <1>1
  <2>3. \A j \in D : place[j] = k <=> Cardinality(Earlier(ev, j)) = k - 1
    <3>1. \A j \in D : place[j] = Cardinality(Earlier(ev, j)) + 1 /\ Cardinality(Earlier(ev, j)) \in Nat
      BY <1>4
    <3> HIDE DEF place, D
    <3>2. QED
      BY <2>2, <3>1
  <2>4. \E j \in D : Cardinality(Earlier(ev, j)) = k - 1
    BY <2>1, <2>3
  <2>5. order[k] \in D /\ Cardinality(Earlier(ev, order[k])) = k - 1
    BY <2>4
  <2> HIDE DEF order, place
  <2>6. QED
    BY <2>3, <2>5
<1>11. order \in Bijection(D, D)
  <2>1. \A k, m \in D : order[k] = order[m] => k = m
    BY <1>10
  <2>2. ASSUME NEW i \in D PROVE \E k \in D : order[k] = i
    <3>1. place[i] \in D
      BY <1>7
    <3>2. order[place[i]] \in D /\ place[order[place[i]]] = place[i]
      BY <1>10, <3>1
    <3> HIDE DEF order, place, D
    <3>3. order[place[i]] = i
      BY <1>6, <3>2
    <3>4. QED
      BY <3>1, <3>3
  <2>3. order \in [D -> D]
    BY <1>10
  <2> HIDE DEF order
  <2>4. QED
    BY <2>1, <2>2, <2>3, Fun_IsBij
<1>12. by_time(ev) = [k \in D |-> ev[order[k]]]
  BY <1>1 DEF by_time
<1>13. ASSUME NEW k \in D, NEW m \in D, k < m PROVE Precedes(ev, order[k], order[m])
  <2>1. /\ order[k] \in D /\ order[m] \in D
        /\ place[order[k]] = k /\ place[order[m]] = m /\ k \in Nat /\ m \in Nat
    BY <1>1, <1>10
  <2> HIDE DEF order, place, D
  <2>2. ~Precedes(ev, order[m], order[k])
    <3>1. ~(place[order[m]] < place[order[k]])
      BY <1>13, <2>1
    <3>2. QED
      BY <1>5, <2>1, <3>1
  <2>3. order[k] # order[m]
    BY <1>13, <2>1
  <2>4. QED
    BY <1>2, <2>1, <2>2, <2>3
<1> HIDE DEF order, D
<1>14. QED
  BY <1>1, <1>11, <1>12, <1>13

\* What was made, sorted: the same tasks at other places.
LEMMA TimelineGood ==
  ASSUME NEW made, NEW have, Good(made, have)
  PROVE  LET timeline == by_time(made.events)
         IN  /\ \A c \in Class : Cardinality(OfClassAt(timeline, c)) = have[c]
             /\ {TaskAt(timeline, p).seq : p \in Places(timeline)} = 0..(Cardinality(Places(timeline)) - 1)
             /\ \A k, m \in DOMAIN timeline :
                  k < m => /\ timeline[k].at <= timeline[m].at
                           /\ timeline[k].at = timeline[m].at =>
                                \A i, j : IsPlace(timeline, k, i) /\ IsPlace(timeline, m, j) =>
                                            timeline[k].tasks[i].seq < timeline[m].tasks[j].seq
             /\ \A k \in DOMAIN timeline : timeline[k].tasks \in Seq(TaskData)
<1> DEFINE ev == made.events
           D == DOMAIN ev
           timeline == by_time(ev)
<1>1. ev \in Seq(EventData) /\ made.seq \in Nat
  BY DEF Good
<1>2. PICK order : /\ order \in Bijection(D, D)
                   /\ timeline = [k \in D |-> ev[order[k]]]
                   /\ \A k, m \in D : k < m => Precedes(ev, order[k], order[m])
  BY <1>1, SortIs
<1>3. \A k \in D : ev[k].at \in Int /\ ev[k].tasks \in Seq(TaskData) /\ k \in Nat
  <2>1. \A k \in D : ev[k] \in EventData /\ k \in Nat
    BY <1>1
  <2>2. \A e \in EventData : e.at \in Int /\ e.tasks \in Seq(TaskData)
    BY DEF EventData
  <2> HIDE DEF D, ev
  <2>3. QED
    BY <2>1, <2>2
<1>4. /\ \A k \in D : order[k] \in D
      /\ \A k, m \in D : order[k] = order[m] => k = m
      /\ \A i \in D : \E k \in D : order[k] = i
  BY <1>2 DEF Bijection, Injection, Surjection, IsInjective
<1>5. DOMAIN timeline = D /\ \A k \in D : timeline[k] = ev[order[k]]
  BY <1>2
<1> HIDE DEF timeline, D, ev
<1> DEFINE from(p) == <<order[p[1]], p[2]>>
<1>6. \A k, i : IsPlace(timeline, k, i) <=> k \in D /\ IsPlace(ev, order[k], i)
  BY <1>4, <1>5 DEF IsPlace, D
<1>7. ASSUME NEW p \in Places(timeline)
      PROVE  from(p) \in Places(ev) /\ TaskAt(timeline, p) = TaskAt(ev, from(p)) /\ p[1] \in D /\ p = <<p[1], p[2]>>
  <2>1. PICK k, i : IsPlace(timeline, k, i) /\ p = <<k, i>>
    BY PlaceIs
  <2>2. k \in D /\ IsPlace(ev, order[k], i) /\ from(p) = <<order[k], i>>
    BY <1>6, <2>1
  <2>3. TaskAt(timeline, p) = timeline[k].tasks[i] /\ TaskAt(ev, from(p)) = ev[order[k]].tasks[i]
    BY <2>1, <2>2, PlaceIs
  <2>4. from(p) \in Places(ev)
    BY <2>2, PlaceIs
  <2> HIDE DEF from
  <2>5. QED
    BY <1>5, <2>1, <2>2, <2>3, <2>4
<1>8. ASSUME NEW q \in Places(ev) PROVE \E p \in Places(timeline) : from(p) = q
  <2>1. PICK m, i : IsPlace(ev, m, i) /\ q = <<m, i>>
    BY PlaceIs
  <2>2. m \in D
    BY <2>1 DEF IsPlace, D
  <2>3. PICK k \in D : order[k] = m
    BY <1>4, <2>2
  <2>4. <<k, i>> \in Places(timeline)
    BY <1>6, <2>1, <2>3, PlaceIs
  <2>5. from(<<k, i>>) = q
    BY <2>1, <2>3
  <2>6. QED
    BY <2>4, <2>5
<1>9. ASSUME NEW p \in Places(timeline), NEW q \in Places(timeline), from(p) = from(q) PROVE p = q
  <2>1. order[p[1]] = order[q[1]] /\ p[2] = q[2]
    BY <1>9
  <2>2. p[1] = q[1]
    BY <1>4, <1>7, <2>1
  <2>3. QED
    BY <1>7, <2>1, <2>2
<1>10. ASSUME NEW Q \in SUBSET Places(ev),
              NEW P \in SUBSET Places(timeline), \A p \in Places(timeline) : p \in P <=> from(p) \in Q
       PROVE  Cardinality(P) = Cardinality(Q)
  <2> DEFINE f == [p \in P |-> from(p)]
  <2>1. \A p \in P : f[p] = from(p)
    OBVIOUS
  <2>2. f \in [P -> Q]
    <3>1. \A p \in P : from(p) \in Q
      BY <1>10
    <3> HIDE DEF from
    <3>2. QED
      BY <3>1
  <2> HIDE DEF f, from
  <2>3. \A p, q \in P : f[p] = f[q] => p = q
    BY <1>9, <2>1
  <2>4. \A q \in Q : \E p \in P : f[p] = q
    BY <1>8, <1>10, <2>1
  <2>5. f \in Bijection(P, Q)
    BY <2>2, <2>3, <2>4, Fun_IsBij
  <2>6. IsFiniteSet(Q)
    BY FS_Subset DEF Good, ev
  <2>7. Inverse(f, P, Q) \in Bijection(Q, P)
    BY <2>5, Fun_BijInverse
  <2>8. QED
    BY <2>6, <2>7, FS_Bijection DEF ExistsBijection
<1> HIDE DEF from
<1>11. ASSUME NEW c \in Class PROVE Cardinality(OfClassAt(timeline, c)) = have[c]
  <2>1. \A p \in Places(timeline) : p \in OfClassAt(timeline, c) <=> from(p) \in OfClassAt(ev, c)
    BY <1>7 DEF OfClassAt
  <2>2. OfClassAt(timeline, c) \in SUBSET Places(timeline) /\ OfClassAt(ev, c) \in SUBSET Places(ev)
    BY DEF OfClassAt
  <2>3. Cardinality(OfClassAt(timeline, c)) = Cardinality(OfClassAt(ev, c))
    BY <1>10, <2>1, <2>2
  <2>4. QED
    BY <2>3 DEF Good, ev
<1>12. Cardinality(Places(timeline)) = made.seq
  <2>1. Cardinality(Places(timeline)) = Cardinality(Places(ev))
    BY <1>7, <1>10
  <2>2. QED
    BY <2>1 DEF Good, ev
<1>13. {TaskAt(timeline, p).seq : p \in Places(timeline)} = 0..(made.seq - 1)
  <2>1. ASSUME NEW p \in Places(timeline) PROVE TaskAt(timeline, p).seq \in 0..(made.seq - 1)
    <3>1. TaskAt(ev, from(p)).seq < made.seq
      BY <1>7 DEF Good, ev
    <3>2. PICK k, i : IsPlace(ev, k, i) /\ from(p) = <<k, i>>
      BY <1>7, PlaceIs
    <3>3. ev[k].tasks[i] \in TaskData
      BY <1>3, <3>2 DEF IsPlace, D
    <3>4. TaskAt(ev, from(p)).seq \in Nat
      BY <3>2, <3>3, PlaceIs DEF TaskData
    <3>5. QED
      BY <1>1, <1>7, <3>1, <3>4
  <2>2. ASSUME NEW s \in 0..(made.seq - 1) PROVE \E p \in Places(timeline) : TaskAt(timeline, p).seq = s
    <3>1. PICK q \in Places(ev) : TaskAt(ev, q).seq = s
      BY DEF Good, ev
    <3>2. QED
      BY <1>7, <1>8, <3>1
  <2>3. QED
    BY <2>1, <2>2
<1>14. ASSUME NEW k \in D, NEW m \in D, k < m
       PROVE  /\ timeline[k].at <= timeline[m].at
              /\ timeline[k].at = timeline[m].at =>
                   \A i, j : IsPlace(timeline, k, i) /\ IsPlace(timeline, m, j) =>
                               timeline[k].tasks[i].seq < timeline[m].tasks[j].seq
  <2>1. Precedes(ev, order[k], order[m])
    BY <1>2, <1>14
  <2>2. timeline[k] = ev[order[k]] /\ timeline[m] = ev[order[m]] /\ order[k] \in D /\ order[m] \in D
    BY <1>4, <1>5
  <2>3. timeline[k].at <= timeline[m].at
    BY <1>3, <2>1, <2>2 DEF Precedes
  <2>4. ASSUME timeline[k].at = timeline[m].at, NEW i, NEW j, IsPlace(timeline, k, i), IsPlace(timeline, m, j)
        PROVE  timeline[k].tasks[i].seq < timeline[m].tasks[j].seq
    <3>1. order[k] < order[m]
      BY <1>3, <2>1, <2>2, <2>4 DEF Precedes
    <3>2. IsPlace(ev, order[k], i) /\ IsPlace(ev, order[m], j)
      BY <1>6, <2>4
    <3>3. ev[order[k]].tasks[i].seq < ev[order[m]].tasks[j].seq
      BY <3>1, <3>2, Zenon DEF Good, ev
    <3>4. QED
      BY <2>2, <3>3
  <2>5. QED
    BY <2>3, <2>4
<1>15. \A k \in D : timeline[k].tasks \in Seq(TaskData)
  BY <1>3, <1>4, <1>5
<1>16. QED
  BY <1>5, <1>11, <1>12, <1>13, <1>14, <1>15 DEF timeline, ev

\* Before the first entry nothing is made.
LEMMA NothingMade == Good([seq |-> 0, events |-> <<>>], [c \in Class |-> 0])
<1> DEFINE made == [seq |-> 0, events |-> <<>>]
           none == [c \in Class |-> 0]
<1>1. made.seq = 0 /\ made.events = <<>> /\ <<>> \in Seq(EventData)
  OBVIOUS
<1>2. made \in [seq : Nat, events : Seq(EventData)] /\ none \in [Class -> Nat] /\ \A c \in Class : none[c] = 0
  OBVIOUS
<1>3. \A k, i : ~IsPlace(<<>>, k, i)
  BY DEF IsPlace
<1>4. Places(<<>>) = {}
  BY <1>3, PlaceIs
<1>5. \A c \in Class : OfClassAt(<<>>, c) = {}
  BY <1>4 DEF OfClassAt
<1>6. IsFiniteSet({}) /\ Cardinality({}) = 0
  BY FS_EmptySet
<1>7. 0..(0 - 1) = {}
  OBVIOUS
<1> HIDE DEF made, none
<1>8. Good(made, none)
  BY <1>1, <1>2, <1>3, <1>4, <1>5, <1>6, <1>7 DEF Good
<1>9. QED
  BY <1>8 DEF made, none

\* The timeline of any arrivals and events loses nothing and is in time.
LEMMA Timelines ==
  ASSUME NEW arrivals, IsEntries(arrivals), NEW events, IsEntries(events)
  PROVE  NothingLost(arrivals, events) /\ InTime(arrivals, events)
<1> DEFINE zero == [c \in Class |-> 0]
           first == ProcessAll([seq |-> 0, events |-> <<>>], arrivals)
           some == [c \in Class |-> zero[c] + AllDeclared(arrivals, c)]
           made == ProcessAll(first, events)
           have == [c \in Class |-> some[c] + AllDeclared(events, c)]
           timeline == by_time(made.events)
<1>1. Good(first, some)
  <2> HIDE DEF zero
  <2>1. Good([seq |-> 0, events |-> <<>>], zero)
    BY NothingMade DEF zero
  <2>2. QED
    BY <2>1, ProcessAllGood
<1>2. Good(made, have)
  <2> HIDE DEF first, some
  <2>1. QED
    BY <1>1, ProcessAllGood
<1>3. build_task_timeline(arrivals, events) = timeline
  BY DEF build_task_timeline
<1>4. \A c \in Class : have[c] = AllDeclared(arrivals, c) + AllDeclared(events, c)
  <2>1. \A c \in Class : some[c] \in Nat /\ some[c] = 0 + AllDeclared(arrivals, c)
    BY <1>1 DEF Good
  <2>2. ASSUME NEW entries, IsEntries(entries), NEW c \in Class PROVE AllDeclared(entries, c) \in Nat
    <3>1. IsFiniteSet(DOMAIN entries)
      BY <2>2, CountTo DEF IsEntries
    <3>2. \A k \in DOMAIN entries : Declared(entries[k], c) \in Nat
      BY <2>2, DeclaredIsNat DEF IsEntries
    <3>3. QED
      BY <3>1, <3>2, LoadIsNat DEF AllDeclared
  <2>3. \A c \in Class : AllDeclared(arrivals, c) \in Nat
    BY <2>2
  <2>4. QED
    BY <2>1, <2>3
<1> HIDE DEF made, have
<1>5. /\ \A c \in Class : Cardinality(OfClassAt(timeline, c)) = have[c]
      /\ {TaskAt(timeline, p).seq : p \in Places(timeline)} = 0..(Cardinality(Places(timeline)) - 1)
      /\ \A k, m \in DOMAIN timeline :
           k < m => /\ timeline[k].at <= timeline[m].at
                    /\ timeline[k].at = timeline[m].at =>
                         \A i, j : IsPlace(timeline, k, i) /\ IsPlace(timeline, m, j) =>
                                     timeline[k].tasks[i].seq < timeline[m].tasks[j].seq
      /\ \A k \in DOMAIN timeline : timeline[k].tasks \in Seq(TaskData)
  BY <1>2, TimelineGood
<1> HIDE DEF timeline
<1>6. NothingLost(arrivals, events)
  BY <1>3, <1>4, <1>5 DEF NothingLost, OfClassAt
<1>7. ASSUME NEW k \in DOMAIN timeline, NEW m \in DOMAIN timeline, k < m,
             timeline[k].at = timeline[m].at, timeline[k].tasks # <<>>, timeline[m].tasks # <<>>
      PROVE  Last(timeline[k].tasks).seq < Head(timeline[m].tasks).seq
  <2> DEFINE a == timeline[k].tasks
             b == timeline[m].tasks
  <2>1. a \in Seq(TaskData) /\ b \in Seq(TaskData) /\ a # <<>> /\ b # <<>>
    BY <1>5, <1>7
  <2>2. IsPlace(timeline, k, Len(a)) /\ IsPlace(timeline, m, 1)
    <3>1. Len(a) \in 1..Len(a) /\ 1 \in 1..Len(b)
      <4> HIDE DEF a, b
      <4>1. QED
        BY <2>1
    <3>2. QED
      BY <3>1 DEF IsPlace
  <2>3. a[Len(a)].seq < b[1].seq
    BY <1>5, <1>7, <2>2
  <2>4. Last(a) = a[Len(a)] /\ Head(b) = b[1]
    <3> HIDE DEF a, b
    <3>1. QED
      BY <2>1 DEF Last
  <2>5. QED
    BY <2>3, <2>4
<1>8. InTime(arrivals, events)
  BY <1>3, <1>5, <1>7 DEF InTime
<1>9. QED
  BY <1>6, <1>8

-----------------------------------------------------------------------------
\* The inputs

\* An input is a sequence of items of its kind.
InputTyped ==
  /\ input.kind \in DOMAIN Items
  /\ input.items \in Seq({Items[input.kind][i] : i \in DOMAIN Items[input.kind]})

LEMMA InputsTyped == Spec => []InputTyped
<1>1. Init => InputTyped
  <2> SUFFICES ASSUME NEW k \in DOMAIN Items, input = [kind |-> k, items |-> <<>>, last |-> 0] PROVE InputTyped
    BY DEF Init
  <2>1. input.kind = k /\ input.items = <<>>
    OBVIOUS
  <2>2. QED
    BY <2>1 DEF InputTyped
<1>2. InputTyped /\ [Next]_input => InputTyped'
  <2> SUFFICES ASSUME InputTyped, [Next]_input PROVE InputTyped'
    OBVIOUS
  <2>1. CASE UNCHANGED input
    BY <2>1 DEF InputTyped
  <2>2. ASSUME NEW i \in DOMAIN Items[input.kind], Extend(i, Items[input.kind][i]) PROVE InputTyped'
    <3>1. input' = [input EXCEPT !.items = Append(@, Items[input.kind][i]), !.last = i]
      BY <2>2 DEF Extend
    <3>2. input'.kind = input.kind /\ input'.items = Append(input.items, Items[input.kind][i])
      BY <3>1
    <3>3. QED
      BY <3>2 DEF InputTyped
  <2>3. QED
    BY <2>1, <2>2 DEF Next
<1>3. QED
  BY <1>1, <1>2, PTL DEF Spec

\* The items of an input, whatever is true of all of this kind.
LEMMA ReadOfKind ==
  ASSUME InputTyped, NEW k, input.kind = k
  PROVE  /\ Len(Read) \in Nat /\ DOMAIN Read = 1..Len(Read)
         /\ \A i \in DOMAIN Read : \E j \in DOMAIN Items[k] : Read[i] = Items[k][j]
<1>1. Read \in Seq({Items[k][i] : i \in DOMAIN Items[k]})
  BY DEF InputTyped, Read
<1>2. QED
  BY <1>1

\* A test passes an assertion on exactly the logs that tell what its docstring asks for
\* (library.py), in whichever order the threads wrote the lines of the test's tasks.
THEOREM AssertionsAreExact == Spec => []AssertionsExact
<1>1. InputTyped => AssertionsExact
  <2> SUFFICES ASSUME InputTyped, NEW k \in {"light", "heavy"}, input.kind = k PROVE ExactOn(Read)
    BY DEF AssertionsExact, Is
  <2> DEFINE other == {entry \in {Read[i] : i \in DOMAIN Read} : entry.task = Nothing}
  <2>1. \A i \in DOMAIN Read : Read[i] \in AboutTasks \cup other
    BY ReadOfKind, AnalysisAssumption DEF AboutTasks
  <2>2. Read \in Seq({Read[i] : i \in DOMAIN Read})
    BY DEF InputTyped, Read
  <2> HIDE DEF other
  <2>3. Read \in Seq(AboutTasks \cup other)
    BY <2>1, <2>2, ReadOfKind
  <2>4. IsLog(Read)
    BY <2>3 DEF IsLog, other
  <2>5. QED
    BY <2>4, AssertionsMeanIt
<1>2. QED
  BY <1>1, InputsTyped, PTL

\* The paired test compares all algorithms on the same trials (friedman.py): of any runs.csv
\* its ranks are shared out in full, an algorithm that is never worse and once better has
\* the lower mean rank, incomplete blocks have no say, and a scenario with one algorithm
\* contributes nothing, as the summary says (report.py).
THEOREM TestIsFair == Spec => []TestFair
<1>1. InputTyped => TestFair
  <2> SUFFICES ASSUME InputTyped, input.kind = "rows"
               PROVE  RanksAreFair(Read) /\ IncompleteBlocksIgnored(Read) /\ SingleContributesNothing(Read)
    BY DEF TestFair, Is
  <2>1. /\ DOMAIN Read = 1..Len(Read) /\ Len(Read) \in Nat
        /\ \A i \in DOMAIN Read : \E j \in DOMAIN Items["rows"] : Read[i] = Items["rows"][j]
    BY ReadOfKind
  <2>2. IsTable(Read)
    <3>1. IsFiniteSet(DOMAIN Read)
      BY <2>1, FS_Interval
    <3>2. QED
      BY <2>1, <3>1, AnalysisAssumption DEF IsTable
  <2>3. OneScenario(Read)
    BY <2>1, AnalysisAssumption DEF OneScenario
  <2>4. QED
    BY <2>2, <2>3, RanksFair, IncompleteIgnored, SingleContributes
<1>2. QED
  BY <1>1, InputsTyped, PTL

\* The verification report counts every verdict it is given in one line, and shows every
\* failure at the top, at its test, in the count of its line and in the detail
\* (verification/report.py).
THEOREM ReportTellsEverything == Spec => []ReportTellsAll
<1>1. InputTyped => ReportTellsAll
  BY ReportCountsVerdicts DEF ReportTellsAll, Is, InputTyped, Read
<1>2. QED
  BY <1>1, InputsTyped, PTL
\* The bands of the plots are about the trials that were still running (timeseries.py), and
\* the index keeps the plots of a scenario together (report.py), for any number of
\* trials, samples and names.
THEOREM PlotsAreFaithful == Spec => []PlotsFaithful
<1>1. InputTyped => PlotsFaithful
  <2> SUFFICES ASSUME InputTyped PROVE PlotsFaithful
    OBVIOUS
  <2> DEFINE of(k) == {i \in DOMAIN Read : Read[i].trial = k}
             series == [k \in Trials |-> {<<Read[i].t, Read[i].value>> : i \in of(k)}]
             one_value == \A i, j \in DOMAIN Read :
                            i # j => <<Read[i].trial, Read[i].t>> # <<Read[j].trial, Read[j].t>>
  <2>1. ASSUME input.kind = "samples", one_value PROVE BandHoldsSamples(series, Offsets)
    <3>1. /\ DOMAIN Read = 1..Len(Read) /\ Len(Read) \in Nat
          /\ \A i \in DOMAIN Read : Read[i].t \in Nat /\ Read[i].value \in Nat
      BY <2>1, ReadOfKind, AnalysisAssumption
    <3>2. ASSUME NEW k \in Trials PROVE IsSeries(series[k])
      <4> DEFINE sample == [i \in of(k) |-> <<Read[i].t, Read[i].value>>]
      <4>1. IsFiniteSet(of(k))
        <5>1. IsFiniteSet(DOMAIN Read) /\ of(k) \subseteq DOMAIN Read
          BY <3>1, FS_Interval
        <5>2. QED
          BY <5>1, FS_Subset
      <4>2. sample \in Surjection(of(k), series[k])
        BY DEF Surjection
      <4>3. IsFiniteSet(series[k])
        BY <4>1, <4>2, FS_Surjection
      <4>4. \A s \in series[k] : \E i \in of(k) : s = <<Read[i].t, Read[i].value>>
        OBVIOUS
      <4>5. \A i, j \in of(k) : Read[i].t = Read[j].t => i = j
        BY <2>1
      <4> HIDE DEF series
      <4>6. ASSUME NEW s \in series[k] PROVE s[1] \in Nat /\ s[2] \in Nat
        BY <3>1, <4>4
      <4>7. ASSUME NEW s \in series[k], NEW r \in series[k], s[1] = r[1] PROVE s = r
        <5>1. PICK i \in of(k) : s = <<Read[i].t, Read[i].value>>
          BY <4>4
        <5>2. PICK j \in of(k) : r = <<Read[j].t, Read[j].value>>
          BY <4>4
        <5>3. i = j
          BY <4>5, <4>7, <5>1, <5>2
        <5>4. QED
          BY <5>1, <5>2, <5>3
      <4>8. QED
        BY <4>3, <4>6, <4>7 DEF IsSeries
    <3>3. DOMAIN series = Trials
      OBVIOUS
    <3> HIDE DEF series
    <3>4. QED
      BY <3>2, <3>3, BandsHold, AnalysisAssumption
  <2>2. ASSUME input.kind = "rows" PROVE PlotsOfAScenarioTogether(Read)
    <3>1. \A i \in DOMAIN Read : IsName(Read[i].scenario) /\ IsName(Read[i].algorithm)
      BY <2>2, ReadOfKind, AnalysisAssumption
    <3>2. QED
      BY <3>1, PlotsTogether
  <2>3. QED
    BY <2>1, <2>2 DEF PlotsFaithful, Is
<1>2. QED
  BY <1>1, InputsTyped, PTL

\* The columns of a trial's row agree with one another (trial_recorder.py), for any number
\* of tasks, nodes and samples: no task took longer than the trial, the columns by class
\* add up, percentiles are order statistics, and the peak of a resource reaches
\* saturation exactly if time was spent there.
THEOREM RowIsConsistent == Spec => []RowConsistent
<1>1. InputTyped => RowConsistent
  <2> SUFFICES ASSUME InputTyped PROVE RowConsistent
    OBVIOUS
  <2>1. ASSUME input.kind = "tasks" PROVE RowAddsUp(Read, Class)
    <3>1. IsTrial(Read)
      BY <2>1, ReadOfKind, AnalysisAssumption DEF IsTrial
    <3>2. QED
      BY <3>1, RowAdds
  <2>2. ASSUME input.kind = "pcts"
        PROVE  /\ PeakMeetsTimeAbove(SamplesByNode, Saturation)
               /\ PercentileIsOrderStatistic([i \in DOMAIN Read |-> Read[i].pct])
    <3>1. /\ DOMAIN Read = 1..Len(Read) /\ Len(Read) \in Nat
          /\ \A i \in DOMAIN Read : Read[i].pct \in Nat
      BY <2>2, ReadOfKind, AnalysisAssumption
    <3>2. IsFiniteSet(DOMAIN Read)
      BY <3>1, FS_Interval
    <3>3. IsValues([i \in DOMAIN Read |-> Read[i].pct])
      BY <3>1, <3>2 DEF IsValues
    <3>4. IsSampled(SamplesByNode)
      <4> DEFINE nodes == {Read[i].node : i \in DOMAIN Read}
                 of(n) == {j \in DOMAIN Read : Read[j].node = n}
      <4>1. SamplesByNode = [n \in nodes |-> [i \in of(n) |-> Read[i].pct]]
        BY DEF SamplesByNode
      <4>2. IsFiniteSet(nodes)
        <5>1. [i \in DOMAIN Read |-> Read[i].node] \in Surjection(DOMAIN Read, nodes)
          BY DEF Surjection
        <5>2. QED
          BY <3>2, <5>1, FS_Surjection
      <4>3. \A n \in nodes : IsFiniteSet(of(n)) /\ \A i \in of(n) : Read[i].pct \in Nat
        BY <3>1, <3>2, FS_Subset
      <4> HIDE DEF nodes, of
      <4>4. \A n \in nodes : IsValues([i \in of(n) |-> Read[i].pct])
        BY <4>3 DEF IsValues
      <4>5. QED
        BY <4>1, <4>2, <4>4 DEF IsSampled
    <3>5. QED
      BY <3>3, <3>4, PeakMeets, OrderStatistic, AnalysisAssumption
  <2>3. QED
    BY <2>1, <2>2 DEF RowConsistent, Is
<1>2. QED
  BY <1>1, InputsTyped, PTL

\* What is left of a sequence behind its first n members.
LEMMA RestIs ==
  ASSUME NEW S, NEW s \in Seq(S), NEW n \in Nat, n =< Len(s)
  PROVE  /\ SubSeq(s, n + 1, Len(s)) \in Seq(S)
         /\ Len(SubSeq(s, n + 1, Len(s))) = Len(s) - n
         /\ \A j \in 1..(Len(s) - n) : SubSeq(s, n + 1, Len(s))[j] = s[n + j]
<1>1. SubSeq(s, n + 1, Len(s)) \in Seq(S)
  OBVIOUS
<1>2. Len(SubSeq(s, n + 1, Len(s))) = Len(s) - n
  OBVIOUS
<1>3. ASSUME NEW j \in 1..(Len(s) - n) PROVE SubSeq(s, n + 1, Len(s))[j] = s[n + j]
  OBVIOUS
<1>4. QED
  BY <1>1, <1>2, <1>3

\* The timeline of a scenario submits what the scenario declares, each task once and under
\* a number of its own, in order of time, then of declaration (arrival.py, generator.py),
\* whatever is declared: any number of arrivals, generators and events, at any times.
THEOREM TimelineIsFaithful == Spec => []TimelineFaithful
<1>1. InputTyped => TimelineFaithful
  <2> SUFFICES ASSUME InputTyped, input.kind = "entries" PROVE TimelineFaithful
    BY DEF TimelineFaithful, Is
  <2>1. /\ DOMAIN Read = 1..Len(Read) /\ Len(Read) \in Nat
        /\ \A i \in DOMAIN Read : IsEntry(Read[i])
    BY ReadOfKind, AnalysisAssumption
  <2>2. Read \in Seq({Read[i] : i \in DOMAIN Read})
    BY DEF InputTyped, Read
  <2>3. ASSUME NEW n \in 0..Len(Read) PROVE IsEntries(Arrivals(n)) /\ IsEntries(Explicit(n))
    <3>1. \A i \in 1..n : i \in DOMAIN Read /\ \A j \in 1..(Len(Read) - n) : n + j \in DOMAIN Read
      BY <2>1
    <3>2. Arrivals(n) = [i \in 1..n |-> Read[i]] /\ Len(Arrivals(n)) = n
      BY <2>1, <2>2 DEF Arrivals
    <3>3. /\ DOMAIN Explicit(n) = 1..Len(Explicit(n)) /\ Len(Explicit(n)) \in Nat
          /\ \A j \in DOMAIN Explicit(n) : n + j \in DOMAIN Read /\ Explicit(n)[j] = Read[n + j]
      <4>1. n \in Nat /\ Len(Read) \in Nat /\ n =< Len(Read)
        BY <2>1
      <4>2. /\ Explicit(n) \in Seq({Read[k] : k \in DOMAIN Read})
            /\ Len(Explicit(n)) = Len(Read) - n
            /\ \A j \in 1..(Len(Read) - n) : Explicit(n)[j] = Read[n + j]
        BY <2>2, <4>1, RestIs DEF Explicit
      <4>3. \A j \in 1..(Len(Read) - n) : n + j \in 1..Len(Read)
        BY <4>1
      <4>4. DOMAIN Explicit(n) = 1..(Len(Read) - n) /\ Len(Read) - n \in Nat
        BY <4>1, <4>2
      <4>5. QED
        BY <2>1, <4>2, <4>3, <4>4
    <3>4. QED
      BY <2>1, <3>1, <3>2, <3>3 DEF IsEntries
  <2>4. ASSUME NEW i \in DOMAIN Read, Read[i].kind = "generator" PROVE EvenShares(Read[i].mix, Read[i].count)
    <3>1. IsMix(Read[i].mix) /\ Read[i].count \in Int
      BY <2>1, <2>4 DEF IsEntry, IsMix
    <3>2. QED
      BY <3>1, SharesEven
  <2>5. QED
    BY <2>3, <2>4, Timelines DEF TimelineFaithful
<1>2. QED
  BY <1>1, InputsTyped, PTL
=============================================================================
