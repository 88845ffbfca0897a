------------------------------ MODULE Workload ------------------------------
(***************************************************************************)
(* The workload of a trial: workload/generator.py and                      *)
(* workload/arrival.py turn the arrivals and events of a scenario into the  *)
(* timeline that is replayed against every algorithm.                       *)
(*                                                                         *)
(* A mix is a count per class, the classes numbered as TaskClass declares   *)
(* them.  Of a task there are its class and its sequence number, which      *)
(* makes its id and, with the seed, determines its draws.                   *)
(***************************************************************************)
EXTENDS SequencesExt, Integers, Load

CONSTANTS NumClasses

ASSUME WorkloadAssumption == NumClasses \in Nat \ {0}

Class == 1..NumClasses

\* How many tasks of the classes 1 to c a mix holds.
UpTo(mix, c) == LoadOf(1..c, mix)

-----------------------------------------------------------------------------
\* The tasks of a batch, class after class, and the number after them.
Numbered(mix, first) ==
  [tasks |-> [i \in 1..UpTo(mix, NumClasses) |->
                [seq |-> first + i - 1,
                 class |-> CHOOSE c \in Class : UpTo(mix, c - 1) < i /\ i <= UpTo(mix, c)]],
   seq |-> first + UpTo(mix, NumClasses)]

\* Mutant of generate_batch: the numbering starts again with every batch.
batch_from_zero(mix, next_seq) == Numbered(mix, 0)

generate_batch(mix, next_seq) == Numbered(mix, next_seq)

\* _apportion_mix_round_robin: no slots, no arrivals.
apportion(mix, slots) ==
  [i \in 1..slots |-> [c \in Class |->
     (mix[c] \div slots) + IF i <= mix[c] % slots THEN 1 ELSE 0]]

-----------------------------------------------------------------------------
\* What a scenario declares: an arrival (or a submit_tasks event), a generator of
\* arrivals, an injection of memory.
ArrivalSpec(at, mix) == [kind |-> "arrival", at |-> at, mix |-> mix]
GeneratorArrivalSpec(start, interval, count, mix) ==
  [kind |-> "generator", at |-> start, interval |-> interval, count |-> count, mix |-> mix]
InjectMemory(at) == [kind |-> "inject_memory", at |-> at]

\* The next event is added to those there are; a batch without a task makes none.
Submit(made, at, mix) ==
  LET batch == generate_batch(mix, made.seq)
  IN  [seq |-> batch.seq,
       events |-> IF batch.tasks = <<>> THEN made.events
                  ELSE Append(made.events, [at |-> at, kind |-> "submit_tasks", tasks |-> batch.tasks])]

Inject(made, at) ==
  [made EXCEPT !.events = Append(@, [at |-> at, kind |-> "inject_memory", tasks |-> <<>>])]

\* The slots of a generator, one interval after the other.
SubmitSlots(made, entry) ==
  LET slot == apportion(entry.mix, entry.count)
      after[i \in 0..entry.count] ==
        IF i = 0 THEN made
        ELSE Submit(after[i - 1], entry.at + (i - 1) * entry.interval, slot[i])
  IN  after[entry.count]

Process(made, entry) ==
  CASE entry.kind = "arrival" -> Submit(made, entry.at, entry.mix)
    [] entry.kind = "generator" -> IF entry.count <= 0 THEN made ELSE SubmitSlots(made, entry)
    [] entry.kind = "inject_memory" -> Inject(made, entry.at)

ProcessAll(made, entries) ==
  LET after[k \in 0..Len(entries)] == IF k = 0 THEN made ELSE Process(after[k - 1], entries[k])
  IN  after[Len(entries)]

\* Python's sort keeps events of the same time in the order they were generated.
Precedes(events, i, j) == events[i].at < events[j].at \/ (events[i].at = events[j].at /\ i < j)
Earlier(events, i) == {j \in DOMAIN events : Precedes(events, j, i)}
by_time(events) ==
  [k \in DOMAIN events |->
     events[CHOOSE i \in DOMAIN events : Cardinality(Earlier(events, i)) = k - 1]]

\* The arrivals first, then the explicit events, then the sort.
build_task_timeline(arrivals, events) ==
  by_time(ProcessAll(ProcessAll([seq |-> 0, events |-> <<>>], arrivals), events).events)

-----------------------------------------------------------------------------
\* The tasks of a timeline: the i-th task of event k is at place <<k, i>>.
Places(timeline) == Cells(DOMAIN timeline, [k \in DOMAIN timeline |-> Len(timeline[k].tasks)])
TaskAt(timeline, place) == timeline[place[1]].tasks[place[2]]

\* How many tasks of class c an entry declares.
Declared(entry, c) ==
  IF entry.kind = "inject_memory" \/ (entry.kind = "generator" /\ entry.count <= 0)
    THEN 0 ELSE entry.mix[c]
AllDeclared(entries, c) == LoadOf(DOMAIN entries, [k \in DOMAIN entries |-> Declared(entries[k], c)])

\* The whole mix is submitted and nothing else, class by class, however it is
\* apportioned; and every task of the trial has a number of its own, so an id of
\* its own: the scheduler takes two tasks of one id for the same one.
NothingLost(arrivals, events) ==
  LET timeline == build_task_timeline(arrivals, events)
      places == Places(timeline)
  IN  /\ \A c \in Class : Cardinality({p \in places : TaskAt(timeline, p).class = c}) =
                            AllDeclared(arrivals, c) + AllDeclared(events, c)
      /\ {TaskAt(timeline, p).seq : p \in places} = 0..(Cardinality(places) - 1)

\* The runner waits for one event after the other, so no event may come before an
\* earlier one; and of the batches of one time the one declared first is submitted
\* first, which the arrival order of tasks rests on.
InTime(arrivals, events) ==
  LET timeline == build_task_timeline(arrivals, events)
  IN  \A k, m \in DOMAIN timeline :
        k < m => /\ timeline[k].at <= timeline[m].at
                 /\ (/\ timeline[k].at = timeline[m].at
                     /\ timeline[k].tasks # <<>> /\ timeline[m].tasks # <<>>) =>
                      Last(timeline[k].tasks).seq < Head(timeline[m].tasks).seq

\* The arrivals of a generator get its mix in equal shares: two of them differ by at
\* most one task of each class, the earlier one having the larger share.
EvenShares(mix, slots) ==
  LET share == apportion(mix, slots)
  IN  \A i, j \in 1..slots : \A c \in Class :
        i < j => share[j][c] \in {share[i][c], share[i][c] - 1}
=============================================================================
