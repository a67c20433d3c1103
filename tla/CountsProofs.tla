---------------------------- MODULE CountsProofs ----------------------------
(* Proofs about the deferred counts, for every set of answers and of       *)
(* visitors and every number of crashes.                                   *)
(*                                                                         *)
(* A count is settled once its add has been answered: it stands in the     *)
(* image, or its add failed.  A visitor that has gone past its mark came   *)
(* behind every add queued before it, so the counts before it are settled; *)
(* and a settled count is not pending any more, so no add that lands later *)
(* is one of them.  The exception is an add whose reply was lost, which    *)
(* the fence of the next job on the rail keeps out of the way (Fenced).    *)
EXTENDS Counts, SequenceTheorems, TLAPS

\* The counts whose add has been answered.
Answered == shown.days \cup failed

\* Every count stands where it was put: in the store only what was counted,
\* in the image nothing the store lacks, and what the image lacks has failed.
Ordered ==
    /\ shown.days \subseteq row.days /\ row.days \subseteq Answered
    /\ row.total \subseteq row.days
    /\ row.days \subseteq counted /\ failed \subseteq counted
    /\ \A v \in Visitors : before[v] \subseteq counted

\* A count is settled, or its add is in the lane or with the worker, once.
Pending ==
    /\ \A i \in 1 .. Len(lane) : lane[i].kind = "add" =>
        /\ lane[i].of \in counted \ Answered
        /\ current # lane[i]
        /\ \A k \in 1 .. Len(lane) : lane[k] = lane[i] => k = i
    /\ current # Nothing /\ current.kind = "add" => current.of \in counted \ Answered
    /\ \A a \in counted :
        a \in Answered \/ current = Add(a) \/ \E i \in 1 .. Len(lane) : lane[i] = Add(a)
    /\ ~open => lane = <<>> /\ current = Nothing

\* A mark stands behind the adds of what was counted before it.
Marks ==
    /\ \A i \in 1 .. Len(lane) : lane[i].kind = "mark" =>
        /\ pc[lane[i].of] # "idle"
        /\ \A a \in before[lane[i].of] :
            a \in Answered \/ current = Add(a) \/ \E k \in 1 .. i - 1 : lane[k] = Add(a)
    /\ current # Nothing /\ current.kind = "mark" =>
        pc[current.of] # "idle" /\ before[current.of] \subseteq Answered

\* Who has gone past the lane finds what was counted before it settled.
Past ==
    /\ \A v \in Visitors : pc[v] = "go" => before[v] \subseteq Answered
    /\ \A v \in reset : pc[v] = "done" /\ before[v] \subseteq Answered

\* The job at the server is an add that was answered with an error, of nothing
\* counted before a reset that landed, or a reset whose visitor waited.
Lost ==
    limbo # Nothing =>
        /\ limbo.kind = "add" =>
            limbo.of \in failed /\ \A v \in reset : limbo.of \notin before[v]
        /\ limbo.kind = "reset" =>
            pc[limbo.of] = "done" /\ before[limbo.of] \subseteq Answered

\* The invariant behind ReadsSeeCounts and NoneAfterReset.
Inv ==
    /\ TypeOK /\ Ordered /\ Pending /\ Marks /\ Past /\ Lost
    /\ ReadsSeeCounts /\ NoneAfterReset

-----------------------------------------------------------------------------
(* Works, jobs and what a job leaves.                                      *)

LEMMA AddFields ==
  \A a \in Answers : /\ Add(a) \in Works /\ Add(a) \in Jobs /\ Add(a) # Nothing
                     /\ Add(a).kind = "add" /\ Add(a).of = a
<1> TAKE a \in Answers
<1>1. Add(a) \in Works /\ Add(a) \in Jobs
  BY DEF Works, Jobs
<1>2. Add(a).kind = "add" /\ Add(a).of = a
  BY DEF Add
<1>3. QED
  BY <1>1, <1>2, NothingAssumption

LEMMA MarkFields ==
  \A v \in Visitors : Mark(v) \in Works /\ Mark(v).kind = "mark" /\ Mark(v).of = v
BY DEF Mark, Works

LEMMA ResetFields ==
  \A v \in Visitors : /\ Reset(v) \in Jobs /\ Reset(v) # Nothing
                      /\ Reset(v).kind = "reset" /\ Reset(v).of = v
<1> TAKE v \in Visitors
<1>1. Reset(v) \in Jobs
  BY DEF Jobs
<1>2. Reset(v).kind = "reset" /\ Reset(v).of = v
  BY DEF Reset
<1>3. QED
  BY <1>1, <1>2, NothingAssumption

LEMMA WorkFields ==
  ASSUME NEW w \in Works
  PROVE  /\ w # Nothing
         /\ \/ w.kind = "add" /\ w.of \in Answers /\ w = Add(w.of) /\ w \in Jobs
            \/ w.kind = "mark" /\ w.of \in Visitors /\ w = Mark(w.of)
<1>1. w # Nothing
  BY NothingAssumption
<1>2. (\E a \in Answers : w = Add(a)) \/ (\E v \in Visitors : w = Mark(v))
  BY DEF Works
<1>3. QED
  BY <1>1, <1>2, AddFields, MarkFields

LEMMA JobFields ==
  ASSUME NEW j \in Jobs
  PROVE  /\ j # Nothing
         /\ \/ j.kind = "add" /\ j.of \in Answers /\ j = Add(j.of)
            \/ j.kind = "reset" /\ j.of \in Visitors /\ j = Reset(j.of)
<1>1. j # Nothing
  BY NothingAssumption
<1>2. (\E a \in Answers : j = Add(a)) \/ (\E v \in Visitors : j = Reset(v))
  BY DEF Jobs
<1>3. QED
  BY <1>1, <1>2, AddFields, ResetFields

LEMMA LandedFields ==
  ASSUME NEW job \in Jobs, NEW r \in Row
  PROVE  /\ Landed(job, r) \in Row
         /\ job.kind = "add" =>
              Landed(job, r).total = r.total \cup {job.of}
              /\ Landed(job, r).days = r.days \cup {job.of}
         /\ job.kind = "reset" => Landed(job, r).total = {} /\ Landed(job, r).days = r.days
<1>1. CASE job.kind = "add"
  <2>1. job.of \in Answers
    BY <1>1, JobFields
  <2>2. QED
    BY <1>1, <2>1 DEF Landed, Row
<1>2. CASE job.kind = "reset"
  BY <1>2 DEF Landed, Row
<1>3. QED
  BY <1>1, <1>2, JobFields

\* A job lands and the image follows, leaves the store, or stays at the server.
Lands(job) ==
  /\ limbo = Nothing /\ limbo' = Nothing
  /\ row' = Landed(job, row) /\ shown' = row' /\ reset' = reset \cup Resets(job)
Leaves == row' = row /\ shown' \in {row, shown} /\ reset' = reset /\ limbo' = limbo
Stays(job) ==
  limbo = Nothing /\ limbo' = job /\ row' = row /\ shown' = row /\ reset' = reset

\* The outcomes of a job that is answered ok, and of one that is not.
LEMMA JobEnds ==
  ASSUME NEW job
  PROVE  /\ Commits(job) => Lands(job)
         /\ Fails(job) => Lands(job) \/ Leaves \/ Stays(job)
         /\ Commits(job) \/ Fails(job) => uncertain' \in {FALSE, TRUE, uncertain}
<1>1. Commits(job) => Lands(job)
  BY DEF Commits, Lands, Fenced
<1>2. Fails(job) => Lands(job) \/ Leaves \/ Stays(job)
  BY DEF Fails, Refuses, NotStarted, ReplyLost, Lands, Leaves, Stays, Fenced, store
<1>3. Commits(job) \/ Fails(job) => uncertain' \in {FALSE, TRUE, uncertain}
  BY DEF Commits, Fails, Refuses, NotStarted, ReplyLost, store
<1>4. QED
  BY <1>1, <1>2, <1>3

-----------------------------------------------------------------------------
(* The types, one group of variables at a time.                            *)

FlagsTyped == open \in BOOLEAN /\ uncertain \in BOOLEAN
LaneTyped == lane \in Seq(Works) /\ current \in Works \cup {Nothing}
StoreTyped == row \in Row /\ shown \in Row /\ limbo \in Jobs \cup {Nothing}
VisitorsTyped ==
  /\ pc \in [Visitors -> {"idle", "settling", "go", "done", "cut"}]
  /\ wants \in [Visitors -> {"read", "reset", "stop"}]
  /\ saw \in [Visitors -> SUBSET Answers] /\ before \in [Visitors -> SUBSET Answers]
  /\ counted \subseteq Answers /\ failed \subseteq Answers /\ reset \subseteq Visitors
  /\ crashes \in 0 .. MaxCrashes

LEMMA TypeParts == TypeOK <=> FlagsTyped /\ LaneTyped /\ StoreTyped /\ VisitorsTyped
BY DEF TypeOK, FlagsTyped, LaneTyped, StoreTyped, VisitorsTyped

LEMMA FlagsStep == TypeOK /\ [Next]_vars => FlagsTyped'
<1> SUFFICES ASSUME TypeOK, [Next]_vars PROVE FlagsTyped'
  OBVIOUS
<1>1. open' \in {FALSE, TRUE, open} /\ uncertain' \in {FALSE, TRUE, uncertain}
  BY JobEnds
  DEF Next, Runtime, Count, Settle, Take, Settled, Apply, ReadCounts, ResetServed, Stop, Cut,
      ServerResolves, Crash, Down, store, vars
<1>2. open \in BOOLEAN /\ uncertain \in BOOLEAN
  BY DEF TypeOK
<1>3. QED
  BY <1>1, <1>2, Zenon DEF FlagsTyped

\* What every step's proof takes from the invariant.
LEMMA Parts ==
  Inv => /\ FlagsTyped /\ LaneTyped /\ StoreTyped /\ VisitorsTyped
         /\ Ordered /\ Pending /\ Marks /\ Past /\ Lost
BY TypeParts DEF Inv

\* The add at the worker ends: its count is answered, once.
LEMMA ApplyMoves ==
  ASSUME Inv, Apply
  PROVE  /\ current = Add(current.of) /\ current \in Jobs /\ current.kind = "add"
         /\ current.of \in counted \ Answered
         /\ Answered' = Answered \cup {current.of}
         /\ failed \subseteq failed' /\ failed' \subseteq failed \cup {current.of}
         /\ \/ Lands(current)
            \/ (Leaves \/ Stays(current)) /\ failed' = failed \cup {current.of}
<1>1. /\ current \in Works /\ current # Nothing /\ current.kind = "add"
      /\ current.of \in counted \ Answered
  BY Parts DEF Apply, LaneTyped, Pending
<1>2. /\ current = Add(current.of) /\ current \in Jobs
  BY <1>1, WorkFields
<1>3. /\ failed' \in {failed, failed \cup {current.of}}
      /\ \/ Lands(current)
         \/ (Leaves \/ Stays(current)) /\ failed' = failed \cup {current.of}
  BY JobEnds DEF Apply
<1>4. row \in Row /\ shown \in Row /\ shown.days \subseteq row.days /\ row.days \subseteq Answered
  BY Parts DEF StoreTyped, Ordered
<1>5. Answered' = Answered \cup {current.of}
  <2>1. CASE Lands(current)
    <3>1. shown'.days = row.days \cup {current.of}
      BY <1>1, <1>2, <1>4, <2>1, LandedFields DEF Lands
    <3>2. QED
      BY <1>3, <1>4, <3>1 DEF Answered
  <2>2. CASE (Leaves \/ Stays(current)) /\ failed' = failed \cup {current.of}
    BY <1>4, <2>2 DEF Leaves, Stays, Answered
  <2>3. QED
    BY <1>3, <2>1, <2>2
<1>6. QED
  BY <1>1, <1>2, <1>3, <1>5

\* A reset moves no count.
LEMMA ResetMoves ==
  ASSUME Inv, NEW v \in Visitors, ResetServed(v)
  PROVE  /\ pc[v] = "go" /\ wants[v] = "reset"
         /\ Answered' = Answered /\ failed' = failed
         /\ Lands(Reset(v)) \/ Leaves \/ Stays(Reset(v))
<1>1. /\ pc[v] = "go" /\ wants[v] = "reset" /\ failed' = failed
      /\ Lands(Reset(v)) \/ Leaves \/ Stays(Reset(v))
  BY JobEnds DEF ResetServed, Waited
<1>2. row \in Row /\ shown \in Row /\ shown.days \subseteq row.days /\ row.days \subseteq Answered
  BY Parts DEF StoreTyped, Ordered
<1>3. Answered' = Answered
  <2>1. CASE Lands(Reset(v))
    <3>1. shown'.days = row.days
      BY <1>2, <2>1, ResetFields, LandedFields DEF Lands
    <3>2. QED
      BY <1>1, <1>2, <3>1 DEF Answered
  <2>2. CASE Leaves \/ Stays(Reset(v))
    BY <1>1, <1>2, <2>2 DEF Leaves, Stays, Answered
  <2>3. QED
    BY <1>1, <2>1, <2>2
<1>4. QED
  BY <1>1, <1>3

\* The end of the process gives up every count that has not landed.
LEMMA DownMoves ==
  ASSUME Inv, Down
  PROVE  Answered' = counted /\ counted' = counted
BY Parts DEF Down, Ordered, Answered

\* The statement at the server ends.
LEMMA ServerMoves ==
  ASSUME Inv, ServerResolves
  PROVE  /\ limbo \in Jobs /\ limbo' = Nothing /\ Answered' = Answered
         /\ \/ row' = Landed(limbo, row) /\ reset' = reset \cup Resets(limbo)
            \/ row' = row /\ reset' = reset
BY Parts DEF ServerResolves, StoreTyped, Answered

\* The lane keeps its type.
LEMMA LaneStep == Inv /\ [Next]_vars => LaneTyped'
<1> SUFFICES ASSUME Inv, [Next]_vars PROVE LaneTyped'
  OBVIOUS
<1>a. /\ FlagsTyped /\ LaneTyped /\ StoreTyped /\ VisitorsTyped
      /\ Ordered /\ Pending /\ Marks /\ Past /\ Lost
  BY Parts
<1> USE <1>a DEF LaneTyped, store, visitors
<1>1. CASE \E a \in Answers : Count(a)
  BY <1>1, AddFields DEF Count
<1>2. CASE \E v \in Visitors, what \in {"read", "reset", "stop"} : Settle(v, what)
  BY <1>2, MarkFields DEF Settle
<1>3. CASE Take
  BY <1>3 DEF Take
<1>4. CASE Settled
  BY <1>4 DEF Settled
<1>5. CASE Apply
  BY <1>5 DEF Apply
<1>6. CASE \E v \in Visitors : ReadCounts(v)
  BY <1>6 DEF ReadCounts, Waited
<1>7. CASE \E v \in Visitors : ResetServed(v)
  BY <1>7 DEF ResetServed, Waited
<1>8. CASE \E v \in Visitors : Stop(v)
  BY <1>8 DEF Stop, Waited, Down
<1>9. CASE \E v \in Visitors : Cut(v)
  BY <1>9 DEF Cut
<1>10. CASE ServerResolves
  BY <1>10 DEF ServerResolves
<1>11. CASE Crash
  BY <1>11 DEF Crash, Down
<1>12. CASE UNCHANGED vars
  BY <1>12 DEF vars
<1>13. QED
  BY <1>1, <1>2, <1>3, <1>4, <1>5, <1>6,
     <1>7, <1>8, <1>9, <1>10, <1>11, <1>12
  DEF Next, Runtime

\* The store and the image keep their type.
LEMMA StoreStep == Inv /\ [Next]_vars => StoreTyped'
<1> SUFFICES ASSUME Inv, [Next]_vars PROVE StoreTyped'
  OBVIOUS
<1>a. /\ FlagsTyped /\ LaneTyped /\ StoreTyped /\ VisitorsTyped
      /\ Ordered /\ Pending /\ Marks /\ Past /\ Lost
  BY Parts
<1> USE <1>a DEF StoreTyped, store, visitors
<1>1. CASE \E a \in Answers : Count(a)
  BY <1>1 DEF Count
<1>2. CASE \E v \in Visitors, what \in {"read", "reset", "stop"} : Settle(v, what)
  BY <1>2 DEF Settle
<1>3. CASE Take
  BY <1>3 DEF Take
<1>4. CASE Settled
  BY <1>4 DEF Settled
<1>5. CASE Apply
  BY <1>5, ApplyMoves, LandedFields DEF Lands, Leaves, Stays
<1>6. CASE \E v \in Visitors : ReadCounts(v)
  BY <1>6 DEF ReadCounts, Waited
<1>7. CASE \E v \in Visitors : ResetServed(v)
  BY <1>7, ResetMoves, ResetFields, LandedFields DEF Lands, Leaves, Stays
<1>8. CASE \E v \in Visitors : Stop(v)
  BY <1>8 DEF Stop, Waited, Down
<1>9. CASE \E v \in Visitors : Cut(v)
  BY <1>9 DEF Cut
<1>10. CASE ServerResolves
  BY <1>10, ServerMoves, LandedFields DEF ServerResolves
<1>11. CASE Crash
  BY <1>11 DEF Crash, Down
<1>12. CASE UNCHANGED vars
  BY <1>12 DEF vars
<1>13. QED
  BY <1>1, <1>2, <1>3, <1>4, <1>5, <1>6,
     <1>7, <1>8, <1>9, <1>10, <1>11, <1>12
  DEF Next, Runtime

\* The visitors keep their type.
LEMMA VisitorsStep == Inv /\ [Next]_vars => VisitorsTyped'
<1> SUFFICES ASSUME Inv, [Next]_vars PROVE VisitorsTyped'
  OBVIOUS
<1>a. /\ FlagsTyped /\ LaneTyped /\ StoreTyped /\ VisitorsTyped
      /\ Ordered /\ Pending /\ Marks /\ Past /\ Lost
  BY Parts
<1> USE <1>a DEF VisitorsTyped, store, visitors
<1>1. CASE \E a \in Answers : Count(a)
  BY <1>1 DEF Count
<1>2. CASE \E v \in Visitors, what \in {"read", "reset", "stop"} : Settle(v, what)
  BY <1>2 DEF Settle
<1>3. CASE Take
  BY <1>3 DEF Take
<1>4. CASE Settled
  BY <1>4 DEF Settled
<1>5. CASE Apply
  <2>1. failed' \subseteq Answers
    BY <1>5, ApplyMoves
  <2>2. reset' \subseteq Visitors
    BY <1>5, ApplyMoves DEF Lands, Leaves, Stays, Resets
  <2>3. QED
    BY <1>5, <2>1, <2>2 DEF Apply
<1>6. CASE \E v \in Visitors : ReadCounts(v)
  BY <1>6 DEF ReadCounts, StoreTyped, Row
<1>7. CASE \E v \in Visitors : ResetServed(v)
  <2>1. PICK v \in Visitors : ResetServed(v)
    BY <1>7
  <2>2. reset' \subseteq Visitors /\ failed' = failed
    BY <2>1, ResetMoves, ResetFields DEF Lands, Leaves, Stays, Resets
  <2>3. QED
    BY <2>1, <2>2 DEF ResetServed
<1>8. CASE \E v \in Visitors : Stop(v)
  BY <1>8 DEF Stop, Down, StoreTyped, Row
<1>9. CASE \E v \in Visitors : Cut(v)
  BY <1>9 DEF Cut
<1>10. CASE ServerResolves
  <2>1. reset' \subseteq Visitors
    BY <1>10, ServerMoves, JobFields DEF Resets
  <2>2. QED
    BY <1>10, <2>1 DEF ServerResolves
<1>11. CASE Crash
  BY <1>11, CountsAssumption DEF Crash, Down
<1>12. CASE UNCHANGED vars
  BY <1>12 DEF vars
<1>13. QED
  BY <1>1, <1>2, <1>3, <1>4, <1>5, <1>6,
     <1>7, <1>8, <1>9, <1>10, <1>11, <1>12
  DEF Next, Runtime

\* Every step keeps the store between the answered counts and the counted.
LEMMA OrderedStep == Inv /\ [Next]_vars => Ordered'
<1> SUFFICES ASSUME Inv, [Next]_vars PROVE Ordered'
  OBVIOUS
<1>a. /\ FlagsTyped /\ LaneTyped /\ StoreTyped /\ VisitorsTyped
      /\ Ordered /\ Pending /\ Marks /\ Past /\ Lost
  BY Parts
<1> USE <1>a DEF Ordered, store, visitors
<1>1. CASE \E a \in Answers : Count(a)
  BY <1>1 DEF Count, Answered
<1>2. CASE \E v \in Visitors, what \in {"read", "reset", "stop"} : Settle(v, what)
  BY <1>2 DEF Settle, VisitorsTyped, Answered
<1>3. CASE Take
  BY <1>3 DEF Take, Answered
<1>4. CASE Settled
  BY <1>4 DEF Settled, Answered
<1>5. CASE Apply
  <2>1. /\ Answered' = Answered \cup {current.of} /\ current.of \in counted
        /\ failed' \subseteq failed \cup {current.of}
        /\ current \in Jobs /\ current.kind = "add"
        /\ \/ Lands(current)
           \/ (Leaves \/ Stays(current)) /\ failed' = failed \cup {current.of}
    BY <1>5, ApplyMoves
  <2>2. CASE Lands(current)
    BY <1>5, <2>1, <2>2, LandedFields DEF Lands, Apply, StoreTyped
  <2>3. CASE (Leaves \/ Stays(current)) /\ failed' = failed \cup {current.of}
    BY <1>5, <2>1, <2>3 DEF Leaves, Stays, Apply
  <2>4. QED
    BY <2>1, <2>2, <2>3
<1>6. CASE \E v \in Visitors : ReadCounts(v)
  BY <1>6 DEF ReadCounts, Answered
<1>7. CASE \E v \in Visitors : ResetServed(v)
  <2>1. PICK v \in Visitors : ResetServed(v)
    BY <1>7
  <2>2. Answered' = Answered /\ failed' = failed
    BY <2>1, ResetMoves
  <2>3. CASE Lands(Reset(v))
    BY <2>1, <2>2, <2>3, ResetFields, LandedFields DEF Lands, ResetServed, StoreTyped
  <2>4. CASE Leaves \/ Stays(Reset(v))
    BY <2>1, <2>2, <2>4 DEF Leaves, Stays, ResetServed
  <2>5. QED
    BY <2>1, <2>3, <2>4, ResetMoves
<1>8. CASE \E v \in Visitors : Stop(v)
  BY <1>8, DownMoves DEF Stop, Down, VisitorsTyped
<1>9. CASE \E v \in Visitors : Cut(v)
  BY <1>9 DEF Cut, Answered
<1>10. CASE ServerResolves
  <2>1. /\ \/ row'.days = row.days
           \/ row'.days = row.days \cup {limbo.of} /\ limbo.of \in failed
        /\ row'.total \subseteq row'.days
    BY <1>10, ServerMoves, LandedFields, JobFields DEF StoreTyped, Lost
  <2>2. QED
    BY <1>10, <2>1, ServerMoves DEF ServerResolves, Answered
<1>11. CASE Crash
  BY <1>11, DownMoves DEF Crash, Down
<1>12. CASE UNCHANGED vars
  BY <1>12 DEF vars, Answered
<1>13. QED
  BY <1>1, <1>2, <1>3, <1>4, <1>5, <1>6,
     <1>7, <1>8, <1>9, <1>10, <1>11, <1>12
  DEF Next, Runtime

-----------------------------------------------------------------------------
(* The lane.                                                               *)

LEMMA Appends ==
  ASSUME LaneTyped, NEW w \in Works, lane' = Append(lane, w)
  PROVE  /\ Len(lane) \in Nat /\ Len(lane') = Len(lane) + 1
         /\ lane'[Len(lane) + 1] = w
         /\ \A i \in 1 .. Len(lane) : lane'[i] = lane[i] /\ lane[i] \in Works
BY AppendProperties DEF LaneTyped

LEMMA Takes ==
  ASSUME LaneTyped, Take
  PROVE  /\ Len(lane) \in Nat /\ 1 \in 1 .. Len(lane) /\ Len(lane') = Len(lane) - 1
         /\ current = Nothing /\ current' = lane[1]
         /\ \A i \in 1 .. Len(lane') : i + 1 \in 1 .. Len(lane) /\ lane'[i] = lane[i + 1]
         /\ \A i \in 1 .. Len(lane) : lane[i] \in Works
<1>1. lane \in Seq(Works) /\ lane # <<>>
  BY DEF LaneTyped, Take
<1>2. QED
  BY <1>1, HeadTailProperties DEF Take

\* Where a count stands that is not answered.
Waiting(a) == current = Add(a) \/ \E i \in 1 .. Len(lane) : lane[i] = Add(a)

\* The steps that move neither the lane nor an answer.
LEMMA LaneStays ==
  ASSUME TypeOK, UNCHANGED <<open, lane, current, counted>>, Answered' = Answered, Pending
  PROVE  Pending'
BY DEF Pending

\* The end of the process empties the lane.
LEMMA DownPending ==
  ASSUME Inv, Down
  PROVE  Pending'
<1>1. lane' = <<>> /\ current' = Nothing /\ Answered' = counted' /\ counted' = counted
  BY DownMoves DEF Down
<1>2. Len(lane') = 0
  BY <1>1
<1>3. QED
  BY <1>1, <1>2 DEF Pending


\* Every step keeps an unanswered count in the lane, once.
LEMMA PendingStep == Inv /\ [Next]_vars => Pending'
<1> SUFFICES ASSUME Inv, [Next]_vars PROVE Pending'
  OBVIOUS
<1>a. /\ FlagsTyped /\ LaneTyped /\ StoreTyped /\ VisitorsTyped
      /\ Ordered /\ Pending /\ Marks /\ Past /\ Lost
  BY Parts
<1> USE <1>a DEF store
<1>1. CASE \E a \in Answers : Count(a)
  <2>1. PICK a \in Answers : Count(a)
    BY <1>1
  <2>2. /\ Len(lane) \in Nat /\ Len(lane') = Len(lane) + 1 /\ lane'[Len(lane) + 1] = Add(a)
        /\ \A i \in 1 .. Len(lane) : lane'[i] = lane[i] /\ lane[i] \in Works
    BY <2>1, Appends, AddFields DEF Count
  <2>3. /\ Answered' = Answered /\ counted' = counted \cup {a} /\ a \notin counted
        /\ current' = current /\ open'
    BY <2>1 DEF Count, Answered, store
  <2>4. a \notin Answered /\ current # Add(a)
        /\ \A i \in 1 .. Len(lane) : lane[i] # Add(a)
    BY <2>3, AddFields DEF Pending, Ordered, Answered
  <2>5. \A i \in 1 .. Len(lane') : lane'[i].kind = "add" =>
          /\ lane'[i].of \in counted' \ Answered'
          /\ current' # lane'[i]
          /\ \A k \in 1 .. Len(lane') : lane'[k] = lane'[i] => k = i
    <3> SUFFICES ASSUME NEW i \in 1 .. Len(lane'), lane'[i].kind = "add"
                 PROVE  /\ lane'[i].of \in counted' \ Answered'
                        /\ current' # lane'[i]
                        /\ \A k \in 1 .. Len(lane') : lane'[k] = lane'[i] => k = i
      OBVIOUS
    <3>1. CASE i = Len(lane) + 1
      BY <2>2, <2>3, <2>4, <3>1, AddFields
    <3>2. CASE i \in 1 .. Len(lane)
      BY <2>2, <2>3, <2>4, <3>2 DEF Pending
    <3>3. QED
      BY <2>2, <3>1, <3>2
  <2>6. current' # Nothing /\ current'.kind = "add" => current'.of \in counted' \ Answered'
    BY <2>3 DEF Pending
  <2>7. \A b \in counted' :
          b \in Answered' \/ current' = Add(b) \/ \E i \in 1 .. Len(lane') : lane'[i] = Add(b)
    <3>1. \A b \in counted :
            b \in Answered' \/ current' = Add(b) \/ \E i \in 1 .. Len(lane') : lane'[i] = Add(b)
      BY <2>2, <2>3 DEF Pending
    <3>2. \E i \in 1 .. Len(lane') : lane'[i] = Add(a)
      BY <2>2
    <3>3. QED
      BY <2>3, <3>1, <3>2
  <2>8. QED
    BY <2>3, <2>5, <2>6, <2>7 DEF Pending
<1>2. CASE \E v \in Visitors, what \in {"read", "reset", "stop"} : Settle(v, what)
  <2>1. PICK v \in Visitors, what \in {"read", "reset", "stop"} : Settle(v, what)
    BY <1>2
  <2>2. /\ UNCHANGED <<open, current, counted>> /\ Answered' = Answered
    BY <2>1 DEF Settle, Answered, store
  <2>3. CASE ~open
    BY <2>1, <2>2, <2>3, LaneStays, TypeParts DEF Settle
  <2>4. CASE open
    <3>1. /\ Len(lane) \in Nat /\ Len(lane') = Len(lane) + 1 /\ lane'[Len(lane) + 1] = Mark(v)
          /\ \A i \in 1 .. Len(lane) : lane'[i] = lane[i] /\ lane[i] \in Works
      BY <2>1, <2>4, Appends, MarkFields DEF Settle
    <3>2. \A i \in 1 .. Len(lane') : lane'[i].kind = "add" => i \in 1 .. Len(lane)
      BY <3>1, MarkFields
    <3>3. \A i \in 1 .. Len(lane') : lane'[i].kind = "add" =>
            /\ lane'[i].of \in counted' \ Answered'
            /\ current' # lane'[i]
            /\ \A k \in 1 .. Len(lane') : lane'[k] = lane'[i] => k = i
      BY <2>2, <3>1, <3>2 DEF Pending
    <3>4. \A b \in counted' :
            b \in Answered' \/ current' = Add(b) \/ \E i \in 1 .. Len(lane') : lane'[i] = Add(b)
      BY <2>2, <3>1 DEF Pending
    <3>5. QED
      BY <2>2, <2>4, <3>3, <3>4 DEF Pending
  <2>5. QED
    BY <2>3, <2>4
<1>3. CASE Take
  <2>1. /\ Len(lane) \in Nat /\ 1 \in 1 .. Len(lane) /\ Len(lane') = Len(lane) - 1
        /\ current = Nothing /\ current' = lane[1]
        /\ \A i \in 1 .. Len(lane') : i + 1 \in 1 .. Len(lane) /\ lane'[i] = lane[i + 1]
        /\ \A i \in 1 .. Len(lane) : lane[i] \in Works
    BY <1>3, Takes
  <2>2. open' = open /\ counted' = counted /\ Answered' = Answered /\ lane # <<>>
    BY <1>3 DEF Take, Answered, store
  <2>3. \A i \in 1 .. Len(lane') : lane'[i].kind = "add" =>
          /\ lane'[i].of \in counted' \ Answered'
          /\ current' # lane'[i]
          /\ \A k \in 1 .. Len(lane') : lane'[k] = lane'[i] => k = i
    BY <2>1, <2>2 DEF Pending
  <2>4. \A b \in counted' :
          b \in Answered' \/ current' = Add(b) \/ \E i \in 1 .. Len(lane') : lane'[i] = Add(b)
    <3> SUFFICES ASSUME NEW b \in counted', b \notin Answered'
                 PROVE  current' = Add(b) \/ \E i \in 1 .. Len(lane') : lane'[i] = Add(b)
      OBVIOUS
    <3>1. Add(b) # Nothing
      BY <2>2, AddFields DEF VisitorsTyped
    <3>2. PICK i \in 1 .. Len(lane) : lane[i] = Add(b)
      BY <2>1, <2>2, <3>1 DEF Pending
    <3>3. CASE i = 1
      BY <2>1, <3>2, <3>3
    <3>4. CASE i # 1
      <4>1. i - 1 \in 1 .. Len(lane') /\ lane'[i - 1] = lane[i]
        BY <2>1, <3>4
      <4>2. QED
        BY <3>2, <4>1
    <3>5. QED
      BY <3>3, <3>4
  <2>5. current'.kind = "add" => current'.of \in counted' \ Answered'
    BY <2>1, <2>2 DEF Pending
  <2>6. QED
    BY <2>2, <2>3, <2>4, <2>5 DEF Pending
<1>4. CASE Settled
  <2>1. /\ current # Nothing /\ current.kind = "mark" /\ current' = Nothing
        /\ UNCHANGED <<open, lane, counted>> /\ Answered' = Answered
    BY <1>4 DEF Settled, Answered, store
  <2>2. \A b \in counted : current # Add(b)
    BY <2>1, AddFields DEF VisitorsTyped
  <2>3. \A i \in 1 .. Len(lane) : lane[i] \in Works /\ lane[i] # Nothing
    BY WorkFields DEF LaneTyped
  <2>4. QED
    BY <2>1, <2>2, <2>3 DEF Pending
<1>5. CASE Apply
  <2>1. /\ current = Add(current.of) /\ current.of \in counted \ Answered
        /\ current.kind = "add" /\ Answered' = Answered \cup {current.of}
    BY <1>5, ApplyMoves
  <2>2. current # Nothing /\ current' = Nothing /\ UNCHANGED <<open, lane, counted>>
    BY <1>5 DEF Apply
  <2>3. \A i \in 1 .. Len(lane) : lane[i] \in Works /\ lane[i] # Nothing
    BY WorkFields DEF LaneTyped
  <2>4. \A i \in 1 .. Len(lane) : lane[i].kind = "add" => lane[i].of # current.of
    BY <2>1, <2>3, WorkFields DEF Pending
  <2>5. \A b \in counted' :
          b \in Answered' \/ \E i \in 1 .. Len(lane') : lane'[i] = Add(b)
    <3>1. \A b \in counted : current = Add(b) => b = current.of
      BY AddFields DEF VisitorsTyped
    <3>2. QED
      BY <2>1, <2>2, <3>1 DEF Pending
  <2>6. QED
    BY <2>1, <2>2, <2>3, <2>4, <2>5 DEF Pending
<1>6. CASE \E v \in Visitors : ReadCounts(v)
  BY <1>6, LaneStays, TypeParts DEF ReadCounts, Answered
<1>7. CASE \E v \in Visitors : ResetServed(v)
  BY <1>7, ResetMoves, LaneStays, TypeParts DEF ResetServed
<1>8. CASE \E v \in Visitors : Stop(v)
  BY <1>8, DownPending DEF Stop
<1>9. CASE \E v \in Visitors : Cut(v)
  BY <1>9, LaneStays, TypeParts DEF Cut, Answered
<1>10. CASE ServerResolves
  BY <1>10, ServerMoves, LaneStays, TypeParts DEF ServerResolves
<1>11. CASE Crash
  BY <1>11, DownPending DEF Crash
<1>12. CASE UNCHANGED vars
  BY <1>12, LaneStays, TypeParts DEF vars, Answered
<1>13. QED
  BY <1>1, <1>2, <1>3, <1>4, <1>5, <1>6,
     <1>7, <1>8, <1>9, <1>10, <1>11, <1>12
  DEF Next, Runtime

\* The steps that move neither the lane, nor a wait, nor an answer back.
LEMMA MarksStay ==
  ASSUME LaneTyped, VisitorsTyped, UNCHANGED <<lane, current, before>>, Answered \subseteq Answered', Marks,
         \A v \in Visitors : pc[v] # "idle" => pc'[v] # "idle"
  PROVE  Marks'
<1>1. \A i \in 1 .. Len(lane) : lane[i] \in Works
  BY DEF LaneTyped
<1>2. \A i \in 1 .. Len(lane) : lane[i].kind = "mark" => lane[i].of \in Visitors
  BY <1>1, WorkFields
<1>3. current # Nothing /\ current.kind = "mark" => current.of \in Visitors
  BY WorkFields DEF LaneTyped
<1>4. QED
  BY <1>2, <1>3 DEF Marks

\* The end of the process empties the lane.
LEMMA DownMarks ==
  ASSUME Down
  PROVE  Marks'
<1>1. lane' = <<>> /\ current' = Nothing
  BY DEF Down
<1>2. Len(lane') = 0
  BY <1>1
<1>3. QED
  BY <1>1, <1>2 DEF Marks

\* Every step keeps a mark behind the adds counted before it.
LEMMA MarksStep == Inv /\ [Next]_vars => Marks'
<1> SUFFICES ASSUME Inv, [Next]_vars PROVE Marks'
  OBVIOUS
<1>a. /\ FlagsTyped /\ LaneTyped /\ StoreTyped /\ VisitorsTyped
      /\ Ordered /\ Pending /\ Marks /\ Past /\ Lost
  BY Parts
<1> USE <1>a DEF store, visitors
<1>1. CASE \E a \in Answers : Count(a)
  <2>1. PICK a \in Answers : Count(a)
    BY <1>1
  <2>2. /\ Len(lane) \in Nat /\ Len(lane') = Len(lane) + 1 /\ lane'[Len(lane) + 1] = Add(a)
        /\ \A i \in 1 .. Len(lane) : lane'[i] = lane[i] /\ lane[i] \in Works
    BY <2>1, Appends, AddFields DEF Count
  <2>3. Answered' = Answered /\ current' = current /\ before' = before /\ pc' = pc
    BY <2>1 DEF Count, Answered
  <2>4. \A i \in 1 .. Len(lane') : lane'[i].kind = "mark" => i \in 1 .. Len(lane)
    BY <2>2, AddFields
  <2>5. QED
    BY <2>2, <2>3, <2>4 DEF Marks
<1>2. CASE \E v \in Visitors, what \in {"read", "reset", "stop"} : Settle(v, what)
  <2>1. PICK v \in Visitors, what \in {"read", "reset", "stop"} : Settle(v, what)
    BY <1>2
  <2>2. /\ current' = current /\ Answered' = Answered /\ pc[v] = "idle"
        /\ before' = [before EXCEPT ![v] = counted]
        /\ pc' = [pc EXCEPT ![v] = IF open THEN "settling" ELSE "go"]
    BY <2>1 DEF Settle, Answered
  <2>3. /\ Len(lane) \in Nat
        /\ \A i \in 1 .. Len(lane) :
             /\ lane[i] \in Works
             /\ lane[i].kind = "mark" => lane[i].of \in Visitors \ {v}
    <3>1. Len(lane) \in Nat /\ \A i \in 1 .. Len(lane) : lane[i] \in Works
      BY DEF LaneTyped
    <3>2. QED
      BY <2>2, <3>1, WorkFields DEF Marks
  <2>4. current # Nothing /\ current.kind = "mark" => current.of \in Visitors \ {v}
    BY <2>2, WorkFields DEF Marks, LaneTyped
  <2>5. \A w \in Visitors \ {v} : before'[w] = before[w] /\ pc'[w] = pc[w]
    BY <2>2 DEF VisitorsTyped
  <2>6. /\ before'[v] = counted /\ pc'[v] # "idle"
    BY <2>2 DEF VisitorsTyped
  <2>7. CASE ~open
    BY <2>1, <2>2, <2>3, <2>4, <2>5, <2>7 DEF Settle, Marks
  <2>8. CASE open
    <3>1. /\ Len(lane') = Len(lane) + 1 /\ lane'[Len(lane) + 1] = Mark(v)
          /\ \A i \in 1 .. Len(lane) : lane'[i] = lane[i]
      BY <2>1, <2>8, Appends, MarkFields DEF Settle
    <3>2. \A i \in 1 .. Len(lane') : lane'[i].kind = "mark" =>
            /\ pc'[lane'[i].of] # "idle"
            /\ \A a \in before'[lane'[i].of] :
                 a \in Answered' \/ current' = Add(a) \/ \E k \in 1 .. i - 1 : lane'[k] = Add(a)
      <4> SUFFICES ASSUME NEW i \in 1 .. Len(lane'), lane'[i].kind = "mark"
                   PROVE  /\ pc'[lane'[i].of] # "idle"
                          /\ \A a \in before'[lane'[i].of] :
                               \/ a \in Answered' \/ current' = Add(a)
                               \/ \E k \in 1 .. i - 1 : lane'[k] = Add(a)
        OBVIOUS
      <4>1. CASE i = Len(lane) + 1
        <5>1. lane'[i].of = v
          BY <3>1, <4>1, MarkFields
        <5>2. \A a \in counted : a \in Answered' \/ current' = Add(a)
                                 \/ \E k \in 1 .. i - 1 : lane'[k] = Add(a)
          BY <2>2, <2>3, <3>1, <4>1 DEF Pending
        <5>3. QED
          BY <2>6, <5>1, <5>2
      <4>2. CASE i \in 1 .. Len(lane)
        <5>1. lane'[i] = lane[i] /\ lane[i].of \in Visitors \ {v}
          BY <2>3, <3>1, <4>2
        <5>2. /\ pc'[lane[i].of] # "idle" /\ before'[lane[i].of] = before[lane[i].of]
          BY <2>5, <4>2, <5>1 DEF Marks
        <5>3. \A k \in 1 .. i - 1 : lane'[k] = lane[k]
          BY <2>3, <3>1, <4>2
        <5>4. QED
          BY <2>2, <4>2, <5>1, <5>2, <5>3 DEF Marks
      <4>3. QED
        BY <2>3, <3>1, <4>1, <4>2
    <3>3. current' # Nothing /\ current'.kind = "mark" =>
            pc'[current'.of] # "idle" /\ before'[current'.of] \subseteq Answered'
      BY <2>2, <2>4, <2>5 DEF Marks
    <3>4. QED
      BY <3>2, <3>3 DEF Marks
  <2>9. QED
    BY <2>7, <2>8
<1>3. CASE Take
  <2>1. /\ Len(lane) \in Nat /\ 1 \in 1 .. Len(lane) /\ Len(lane') = Len(lane) - 1
        /\ current = Nothing /\ current' = lane[1]
        /\ \A i \in 1 .. Len(lane') : i + 1 \in 1 .. Len(lane) /\ lane'[i] = lane[i + 1]
        /\ \A i \in 1 .. Len(lane) : lane[i] \in Works
    BY <1>3, Takes
  <2>2. pc' = pc /\ before' = before /\ Answered' = Answered
    BY <1>3 DEF Take, Answered
  <2>3. \A v \in Visitors : \A a \in before[v] : Add(a) # Nothing
    BY AddFields DEF VisitorsTyped
  <2>4. ASSUME NEW i \in 1 .. Len(lane'), lane'[i].kind = "mark"
        PROVE  /\ pc'[lane'[i].of] # "idle"
               /\ \A a \in before'[lane'[i].of] :
                    \/ a \in Answered' \/ current' = Add(a)
                    \/ \E k \in 1 .. i - 1 : lane'[k] = Add(a)
    <3>1. lane'[i] = lane[i + 1] /\ i + 1 \in 1 .. Len(lane) /\ lane[i + 1].of \in Visitors
      BY <2>1, <2>4, WorkFields
    <3>2. pc[lane[i + 1].of] # "idle"
      BY <2>4, <3>1 DEF Marks
    <3>3. ASSUME NEW a \in before[lane[i + 1].of], a \notin Answered
          PROVE  current' = Add(a) \/ \E k \in 1 .. i - 1 : lane'[k] = Add(a)
      <4>1. PICK k \in 1 .. (i + 1) - 1 : lane[k] = Add(a)
        BY <2>1, <2>3, <2>4, <3>1, <3>3 DEF Marks
      <4>2. CASE k = 1
        BY <2>1, <4>1, <4>2
      <4>3. CASE k # 1
        <5>1. k - 1 \in 1 .. i - 1 /\ k - 1 \in 1 .. Len(lane') /\ (k - 1) + 1 = k
          BY <2>1, <4>3
        <5>2. lane'[k - 1] = lane[k]
          BY <2>1, <5>1
        <5>3. QED
          BY <4>1, <5>1, <5>2
      <4>4. QED
        BY <4>2, <4>3
    <3>4. QED
      BY <2>2, <3>1, <3>2, <3>3
  <2>5. ASSUME current'.kind = "mark"
        PROVE  pc'[current'.of] # "idle" /\ before'[current'.of] \subseteq Answered'
    <3>1. lane[1].of \in Visitors
      BY <2>1, <2>5, WorkFields
    <3>2. \A a \in before[lane[1].of] : a \in Answered \/ \E k \in 1 .. 1 - 1 : lane[k] = Add(a)
      BY <2>1, <2>3, <2>5, <3>1 DEF Marks
    <3>3. \A a \in before[lane[1].of] : a \in Answered
      BY <3>2
    <3>4. QED
      BY <2>1, <2>2, <2>5, <3>3 DEF Marks
  <2>6. QED
    BY <2>4, <2>5 DEF Marks
<1>4. CASE Settled
  <2>1. /\ current # Nothing /\ current.kind = "mark" /\ current' = Nothing
        /\ lane' = lane /\ before' = before /\ Answered' = Answered
        /\ pc' = [pc EXCEPT ![current.of] = IF pc[current.of] = "settling" THEN "go" ELSE pc[current.of]]
    BY <1>4 DEF Settled, Answered
  <2>2. \A i \in 1 .. Len(lane) : lane[i] \in Works
    BY DEF LaneTyped
  <2>3. \A i \in 1 .. Len(lane) : lane[i].kind = "mark" => lane[i].of \in Visitors
    BY <2>2, WorkFields
  <2>4. \A v \in Visitors : pc[v] # "idle" => pc'[v] # "idle"
    BY <2>1 DEF VisitorsTyped
  <2>5. \A v \in Visitors : \A a \in before[v] : current # Add(a)
    BY <2>1, AddFields DEF VisitorsTyped
  <2>6. QED
    BY <2>1, <2>3, <2>4, <2>5 DEF Marks
<1>5. CASE Apply
  <2>1. /\ current = Add(current.of) /\ Answered' = Answered \cup {current.of}
    BY <1>5, ApplyMoves
  <2>2. /\ current' = Nothing /\ lane' = lane /\ before' = before /\ pc' = pc
    BY <1>5 DEF Apply
  <2>3. \A i \in 1 .. Len(lane) : lane[i] \in Works
    BY DEF LaneTyped
  <2>4. \A i \in 1 .. Len(lane) : lane[i].kind = "mark" => lane[i].of \in Visitors
    BY <2>3, WorkFields
  <2>5. \A v \in Visitors : \A a \in before[v] : current = Add(a) => a \in Answered'
    BY <2>1, AddFields DEF VisitorsTyped
  <2>6. QED
    BY <2>1, <2>2, <2>4, <2>5 DEF Marks
<1>6. CASE \E v \in Visitors : ReadCounts(v)
  BY <1>6, MarksStay DEF ReadCounts, Answered, VisitorsTyped
<1>7. CASE \E v \in Visitors : ResetServed(v)
  <2>1. PICK v \in Visitors : ResetServed(v)
    BY <1>7
  <2>2. Answered' = Answered /\ UNCHANGED <<lane, current, before>>
        /\ pc' = [pc EXCEPT ![v] = "done"]
    BY <2>1, ResetMoves DEF ResetServed
  <2>3. \A w \in Visitors : pc[w] # "idle" => pc'[w] # "idle"
    BY <2>2 DEF VisitorsTyped
  <2>4. QED
    BY <2>2, <2>3, MarksStay
<1>8. CASE \E v \in Visitors : Stop(v)
  BY <1>8, DownMarks DEF Stop
<1>9. CASE \E v \in Visitors : Cut(v)
  BY <1>9, MarksStay DEF Cut, Answered, VisitorsTyped
<1>10. CASE ServerResolves
  BY <1>10, ServerMoves, MarksStay DEF ServerResolves
<1>11. CASE Crash
  BY <1>11, DownMarks DEF Crash
<1>12. CASE UNCHANGED vars
  BY <1>12, MarksStay DEF vars, Answered
<1>13. QED
  BY <1>1, <1>2, <1>3, <1>4, <1>5, <1>6,
     <1>7, <1>8, <1>9, <1>10, <1>11, <1>12
  DEF Next, Runtime

-----------------------------------------------------------------------------
(* What the visitors find.                                                 *)

\* Answers are not taken back.
LEMMA AnsweredGrows ==
  ASSUME Inv, [Next]_vars
  PROVE  Answered \subseteq Answered' /\ failed \subseteq failed'
<1>p. Answered \subseteq counted
  BY Parts DEF Ordered, Answered
<1>q. ASSUME Down PROVE Answered \subseteq Answered' /\ failed \subseteq failed'
  BY <1>p, <1>q, DownMoves DEF Down
<1>r. ASSUME UNCHANGED <<shown, failed>> PROVE Answered \subseteq Answered' /\ failed \subseteq failed'
  BY <1>r DEF Answered
<1> USE DEF store
<1>1. CASE \E a \in Answers : Count(a)
  BY <1>1, <1>r DEF Count
<1>2. CASE \E v \in Visitors, what \in {"read", "reset", "stop"} : Settle(v, what)
  BY <1>2, <1>r DEF Settle
<1>3. CASE Take
  BY <1>3, <1>r DEF Take
<1>4. CASE Settled
  BY <1>4, <1>r DEF Settled
<1>5. CASE Apply
  BY <1>5, ApplyMoves
<1>6. CASE \E v \in Visitors : ReadCounts(v)
  BY <1>6, <1>r DEF ReadCounts
<1>7. CASE \E v \in Visitors : ResetServed(v)
  BY <1>7, ResetMoves
<1>8. CASE \E v \in Visitors : Stop(v)
  BY <1>8, <1>q DEF Stop
<1>9. CASE \E v \in Visitors : Cut(v)
  BY <1>9, <1>r DEF Cut
<1>10. CASE ServerResolves
  BY <1>10, <1>r DEF ServerResolves
<1>11. CASE Crash
  BY <1>11, <1>q DEF Crash
<1>12. CASE UNCHANGED vars
  BY <1>12, <1>r DEF vars
<1>13. QED
  BY <1>1, <1>2, <1>3, <1>4, <1>5, <1>6,
     <1>7, <1>8, <1>9, <1>10, <1>11, <1>12
  DEF Next, Runtime

\* Who goes past the lane finds what was counted before answered.
LEMMA PastStep == Inv /\ [Next]_vars => Past'
<1> SUFFICES ASSUME Inv, [Next]_vars PROVE Past'
  OBVIOUS
<1>a. /\ FlagsTyped /\ LaneTyped /\ StoreTyped /\ VisitorsTyped
      /\ Ordered /\ Pending /\ Marks /\ Past /\ Lost
  BY Parts
<1> USE <1>a, AnsweredGrows DEF store, visitors
<1>1. CASE \E a \in Answers : Count(a)
  BY <1>1 DEF Count, Past
<1>2. CASE \E v \in Visitors, what \in {"read", "reset", "stop"} : Settle(v, what)
  <2>1. PICK v \in Visitors, what \in {"read", "reset", "stop"} : Settle(v, what)
    BY <1>2
  <2>2. ~open => counted \subseteq Answered
    <3>1. ASSUME ~open PROVE lane = <<>> /\ current = Nothing
      BY <3>1 DEF Pending
    <3>2. ASSUME ~open PROVE Len(lane) = 0
      BY <3>1, <3>2
    <3>3. QED
      BY <3>1, <3>2, AddFields DEF Pending, VisitorsTyped
  <2>3. pc[v] = "idle" /\ v \notin reset
    BY <2>1 DEF Settle, Past
  <2>4. \A w \in Visitors \ {v} : before'[w] = before[w] /\ pc'[w] = pc[w]
    BY <2>1 DEF Settle, VisitorsTyped
  <2>5. before'[v] = counted /\ pc'[v] \in {"settling", "go"} /\ (pc'[v] = "go" => ~open)
    BY <2>1 DEF Settle, VisitorsTyped
  <2>6. reset' = reset /\ Answered' = Answered
    BY <2>1 DEF Settle, Answered
  <2>7. QED
    BY <2>2, <2>3, <2>4, <2>5, <2>6 DEF VisitorsTyped, Past
<1>3. CASE Take
  BY <1>3 DEF Take, Past
<1>4. CASE Settled
  <2>1. current # Nothing /\ current.kind = "mark" /\ current.of \in Visitors
        /\ before[current.of] \subseteq Answered
    BY <1>4, WorkFields DEF Settled, Marks, LaneTyped
  <2>2. QED
    BY <1>4, <2>1 DEF Settled, VisitorsTyped, Past
<1>5. CASE Apply
  <2>1. reset' = reset
    BY <1>5, ApplyMoves DEF Lands, Leaves, Stays, Resets
  <2>2. QED
    BY <1>5, <2>1 DEF Apply, Past
<1>6. CASE \E v \in Visitors : ReadCounts(v)
  BY <1>6 DEF ReadCounts, Past, VisitorsTyped
<1>7. CASE \E v \in Visitors : ResetServed(v)
  <2>1. PICK v \in Visitors : ResetServed(v)
    BY <1>7
  <2>2. reset' \subseteq reset \cup {v} /\ before[v] \subseteq Answered
    BY <2>1, ResetMoves, ResetFields DEF Lands, Leaves, Stays, Resets, Past
  <2>3. QED
    BY <2>1, <2>2 DEF ResetServed, VisitorsTyped, Past
<1>8. CASE \E v \in Visitors : Stop(v)
  <2>1. PICK v \in Visitors : Stop(v)
    BY <1>8
  <2>2. \A w \in Visitors : pc'[w] \in {"idle", "done", "cut"} /\ (pc[w] = "done" => pc'[w] = "done")
    BY <2>1 DEF Stop
  <2>3. before' = before /\ reset' = reset
    BY <2>1 DEF Stop, Down
  <2>4. QED
    BY <2>2, <2>3 DEF VisitorsTyped, Past
<1>9. CASE \E v \in Visitors : Cut(v)
  BY <1>9 DEF Cut, Past, VisitorsTyped
<1>10. CASE ServerResolves
  <2>1. \A v \in reset' : pc[v] = "done" /\ before[v] \subseteq Answered
    BY <1>10, ServerMoves, JobFields DEF Lost, Resets, Past
  <2>2. QED
    BY <1>10, <2>1 DEF ServerResolves, Past
<1>11. CASE Crash
  <2>2. \A w \in Visitors : pc'[w] \notin {"go"} /\ (pc[w] = "done" => pc'[w] = "done")
    BY <1>11 DEF Crash
  <2>3. before' = before /\ reset' = reset
    BY <1>11 DEF Crash, Down
  <2>4. QED
    BY <2>2, <2>3 DEF VisitorsTyped, Past
<1>12. CASE UNCHANGED vars
  BY <1>12 DEF vars, Past
<1>13. QED
  BY <1>1, <1>2, <1>3, <1>4, <1>5, <1>6,
     <1>7, <1>8, <1>9, <1>10, <1>11, <1>12
  DEF Next, Runtime

\* A visitor that is done stays as it is.
StaysDone(v) == pc'[v] = "done" /\ before'[v] = before[v] /\ wants'[v] = wants[v] /\ saw'[v] = saw[v]

LEMMA DoneStays ==
  ASSUME Inv, [Next]_vars, NEW x \in Visitors, pc[x] = "done"
  PROVE  StaysDone(x)
<1>a. VisitorsTyped
  BY Parts
<1> USE <1>a DEF VisitorsTyped, StaysDone, store, visitors
<1>1. CASE \E a \in Answers : Count(a)
  BY <1>1 DEF Count
<1>2. CASE \E v \in Visitors, what \in {"read", "reset", "stop"} : Settle(v, what)
  BY <1>2 DEF Settle
<1>3. CASE Take
  BY <1>3 DEF Take
<1>4. CASE Settled
  BY <1>4 DEF Settled
<1>5. CASE Apply
  BY <1>5 DEF Apply
<1>6. CASE \E v \in Visitors : ReadCounts(v)
  BY <1>6 DEF ReadCounts, Waited
<1>7. CASE \E v \in Visitors : ResetServed(v)
  BY <1>7 DEF ResetServed, Waited
<1>8. CASE \E v \in Visitors : Stop(v)
  BY <1>8 DEF Stop, Waited, Down
<1>9. CASE \E v \in Visitors : Cut(v)
  BY <1>9 DEF Cut
<1>10. CASE ServerResolves
  BY <1>10 DEF ServerResolves
<1>11. CASE Crash
  BY <1>11 DEF Crash, Down
<1>12. CASE UNCHANGED vars
  BY <1>12 DEF vars
<1>13. QED
  BY <1>1, <1>2, <1>3, <1>4, <1>5, <1>6,
     <1>7, <1>8, <1>9, <1>10, <1>11, <1>12
  DEF Next, Runtime

\* Every step keeps the job at the server out of the way of the resets.
LEMMA LostStep == Inv /\ [Next]_vars => Lost'
<1> SUFFICES ASSUME Inv, [Next]_vars PROVE Lost'
  OBVIOUS
<1>a. /\ StoreTyped /\ VisitorsTyped /\ Past /\ Lost
      /\ Answered \subseteq Answered' /\ failed \subseteq failed'
  BY Parts, AnsweredGrows
<1>b. \A v \in Visitors : pc[v] = "done" => pc'[v] = "done" /\ before'[v] = before[v]
  BY DoneStays DEF StaysDone
<1>c. ASSUME limbo' = limbo, reset' = reset PROVE Lost'
  <2>1. \A v \in reset : before'[v] = before[v]
    BY <1>a, <1>b DEF Past, VisitorsTyped
  <2>2. limbo # Nothing /\ limbo.kind = "reset" => limbo.of \in Visitors
    BY <1>a, JobFields DEF StoreTyped
  <2>3. QED
    BY <1>a, <1>b, <1>c, <2>1, <2>2 DEF Lost
<1>d. ASSUME limbo' = Nothing PROVE Lost'
  BY <1>d DEF Lost
<1> USE DEF store
<1>1. CASE \E a \in Answers : Count(a)
  BY <1>1, <1>c DEF Count
<1>2. CASE \E v \in Visitors, what \in {"read", "reset", "stop"} : Settle(v, what)
  BY <1>2, <1>c DEF Settle
<1>3. CASE Take
  BY <1>3, <1>c DEF Take
<1>4. CASE Settled
  BY <1>4, <1>c DEF Settled
<1>5. CASE Apply
  <2>1. /\ current.kind = "add" /\ current.of \in counted \ Answered
        /\ Lands(current) \/ Leaves \/ (Stays(current) /\ failed' = failed \cup {current.of})
    BY <1>5, ApplyMoves
  <2>2. CASE Stays(current) /\ failed' = failed \cup {current.of}
    <3>1. limbo' = current /\ reset' = reset /\ before' = before
      BY <1>5, <2>2 DEF Stays, Apply, visitors
    <3>2. \A v \in reset : current.of \notin before[v]
      BY <1>a, <2>1 DEF Past
    <3>3. QED
      BY <2>1, <2>2, <3>1, <3>2 DEF Lost
  <2>3. QED
    BY <1>c, <1>d, <2>1, <2>2 DEF Lands, Leaves
<1>6. CASE \E v \in Visitors : ReadCounts(v)
  BY <1>6, <1>c DEF ReadCounts
<1>7. CASE \E v \in Visitors : ResetServed(v)
  <2>1. PICK v \in Visitors : ResetServed(v)
    BY <1>7
  <2>2. pc[v] = "go" /\ (Lands(Reset(v)) \/ Leaves \/ Stays(Reset(v)))
    BY <2>1, ResetMoves
  <2>3. CASE Stays(Reset(v))
    <3>1. limbo' = Reset(v) /\ pc'[v] = "done" /\ before'[v] = before[v]
      BY <1>a, <2>1, <2>3 DEF Stays, ResetServed, VisitorsTyped
    <3>2. before[v] \subseteq Answered'
      BY <1>a, <2>2 DEF Past
    <3>3. QED
      BY <3>1, <3>2, ResetFields DEF Lost
  <2>4. QED
    BY <1>c, <1>d, <2>2, <2>3 DEF Lands, Leaves
<1>8. CASE \E v \in Visitors : Stop(v)
  BY <1>8, <1>c DEF Stop, Down
<1>9. CASE \E v \in Visitors : Cut(v)
  BY <1>9, <1>c DEF Cut
<1>10. CASE ServerResolves
  BY <1>10, <1>d DEF ServerResolves
<1>11. CASE Crash
  BY <1>11, <1>c DEF Crash, Down
<1>12. CASE UNCHANGED vars
  BY <1>12, <1>c DEF vars
<1>13. QED
  BY <1>1, <1>2, <1>3, <1>4, <1>5, <1>6,
     <1>7, <1>8, <1>9, <1>10, <1>11, <1>12
  DEF Next, Runtime

\* A visitor that ends its read or its stop saw every answered count that did
\* not fail, and its own are answered.
LEMMA ReadsStep == Inv /\ [Next]_vars => ReadsSeeCounts'
<1> SUFFICES ASSUME Inv, [Next]_vars, NEW x \in Visitors, pc'[x] = "done", wants'[x] # "reset"
             PROVE  before'[x] \ failed' \subseteq saw'[x]
  BY DEF ReadsSeeCounts
<1>a. /\ VisitorsTyped /\ Past /\ ReadsSeeCounts /\ failed \subseteq failed' /\ Ordered
  BY Parts, AnsweredGrows DEF Inv
<1>b. CASE pc[x] = "done"
  BY <1>a, <1>b, DoneStays DEF StaysDone, ReadsSeeCounts
<1>c. CASE pc'[x] = pc[x]
  BY <1>b, <1>c
<1>d. ASSUME before' = before, pc[x] = "go", saw'[x] \in {shown.days, row.days}
      PROVE  before'[x] \ failed' \subseteq saw'[x]
  BY <1>a, <1>d DEF Past, Ordered, Answered
<1> USE <1>a, <1>b, <1>c, <1>d DEF VisitorsTyped, store, visitors
<1>1. CASE \E a \in Answers : Count(a)
  BY <1>1 DEF Count
<1>2. CASE \E v \in Visitors, what \in {"read", "reset", "stop"} : Settle(v, what)
  BY <1>2 DEF Settle
<1>3. CASE Take
  BY <1>3 DEF Take
<1>4. CASE Settled
  BY <1>4 DEF Settled
<1>5. CASE Apply
  BY <1>5 DEF Apply
<1>6. CASE \E v \in Visitors : ReadCounts(v)
  <2>1. PICK w \in Visitors : ReadCounts(w)
    BY <1>6
  <2>2. CASE w = x
    BY <2>1, <2>2 DEF ReadCounts, Waited
  <2>3. CASE w # x
    BY <2>1, <2>3 DEF ReadCounts
  <2>4. QED
    BY <2>2, <2>3
<1>7. CASE \E v \in Visitors : ResetServed(v)
  <2>1. PICK w \in Visitors : ResetServed(w)
    BY <1>7
  <2>2. CASE w = x
    BY <2>1, <2>2 DEF ResetServed, Waited
  <2>3. CASE w # x
    BY <2>1, <2>3 DEF ResetServed
  <2>4. QED
    BY <2>2, <2>3
<1>8. CASE \E v \in Visitors : Stop(v)
  <2>1. PICK w \in Visitors : Stop(w)
    BY <1>8
  <2>2. CASE w = x
    BY <2>1, <2>2 DEF Stop, Waited, Down
  <2>3. CASE w # x
    BY <2>1, <2>3 DEF Stop
  <2>4. QED
    BY <2>2, <2>3
<1>9. CASE \E v \in Visitors : Cut(v)
  BY <1>9 DEF Cut
<1>10. CASE ServerResolves
  BY <1>10 DEF ServerResolves
<1>11. CASE Crash
  BY <1>11 DEF Crash
<1>12. CASE UNCHANGED vars
  BY <1>12 DEF vars
<1>13. QED
  BY <1>1, <1>2, <1>3, <1>4, <1>5, <1>6,
     <1>7, <1>8, <1>9, <1>10, <1>11, <1>12
  DEF Next, Runtime

\* No add that lands after a reset is of a count before it.
LEMMA NoneStep == Inv /\ [Next]_vars => NoneAfterReset'
<1> SUFFICES ASSUME Inv, [Next]_vars PROVE NoneAfterReset'
  OBVIOUS
<1>a. StoreTyped /\ VisitorsTyped /\ Past /\ Lost /\ NoneAfterReset
  BY Parts DEF Inv
<1>b. \A v \in reset : v \in Visitors /\ before'[v] = before[v] /\ before[v] \subseteq Answered
  BY <1>a, DoneStays DEF Past, StaysDone, VisitorsTyped
<1>c. ASSUME row' = row, reset' = reset PROVE NoneAfterReset'
  BY <1>a, <1>b, <1>c DEF NoneAfterReset
<1>d. ASSUME row'.total = {} PROVE NoneAfterReset'
  BY <1>d DEF NoneAfterReset
<1> USE DEF store
<1>1. CASE \E a \in Answers : Count(a)
  BY <1>1, <1>c DEF Count
<1>2. CASE \E v \in Visitors, what \in {"read", "reset", "stop"} : Settle(v, what)
  BY <1>2, <1>c DEF Settle
<1>3. CASE Take
  BY <1>3, <1>c DEF Take
<1>4. CASE Settled
  BY <1>4, <1>c DEF Settled
<1>5. CASE Apply
  <2>1. /\ current \in Jobs /\ current.kind = "add" /\ current.of \in counted \ Answered
        /\ Lands(current) \/ Leaves \/ Stays(current)
    BY <1>5, ApplyMoves
  <2>2. CASE Lands(current)
    <3>1. row'.total = row.total \cup {current.of} /\ reset' = reset
      BY <1>a, <2>1, <2>2, LandedFields DEF Lands, Resets, StoreTyped
    <3>2. QED
      BY <1>a, <1>b, <2>1, <3>1 DEF NoneAfterReset
  <2>3. QED
    BY <1>c, <2>1, <2>2 DEF Leaves, Stays
<1>6. CASE \E v \in Visitors : ReadCounts(v)
  BY <1>6, <1>c DEF ReadCounts
<1>7. CASE \E v \in Visitors : ResetServed(v)
  <2>1. PICK v \in Visitors : ResetServed(v)
    BY <1>7
  <2>2. Lands(Reset(v)) \/ Leaves \/ Stays(Reset(v))
    BY <2>1, ResetMoves
  <2>3. CASE Lands(Reset(v))
    <3>1. row'.total = {}
      BY <1>a, <2>3, LandedFields, ResetFields DEF Lands, StoreTyped
    <3>2. QED
      BY <1>d, <3>1
  <2>4. QED
    BY <1>c, <2>2, <2>3 DEF Leaves, Stays
<1>8. CASE \E v \in Visitors : Stop(v)
  BY <1>8, <1>c DEF Stop, Down
<1>9. CASE \E v \in Visitors : Cut(v)
  BY <1>9, <1>c DEF Cut
<1>10. CASE ServerResolves
  <2>1. /\ limbo \in Jobs
        /\ \/ row' = Landed(limbo, row) /\ reset' = reset \cup Resets(limbo)
           \/ row' = row /\ reset' = reset
    BY <1>10, ServerMoves
  <2>2. CASE row' = Landed(limbo, row) /\ limbo.kind = "add" /\ reset' = reset \cup Resets(limbo)
    <3>1. row'.total = row.total \cup {limbo.of} /\ reset' = reset
      BY <1>a, <2>1, <2>2, LandedFields DEF Resets, StoreTyped
    <3>2. \A v \in reset : limbo.of \notin before[v]
      BY <1>a, <2>1, <2>2, JobFields DEF Lost
    <3>3. QED
      BY <1>a, <1>b, <3>1, <3>2 DEF NoneAfterReset
  <2>3. CASE row' = Landed(limbo, row) /\ limbo.kind = "reset"
    BY <1>a, <1>d, <2>1, <2>3, LandedFields DEF StoreTyped
  <2>4. QED
    BY <1>c, <2>1, <2>2, <2>3, JobFields
<1>11. CASE Crash
  BY <1>11, <1>c DEF Crash, Down
<1>12. CASE UNCHANGED vars
  BY <1>12, <1>c DEF vars
<1>13. QED
  BY <1>1, <1>2, <1>3, <1>4, <1>5, <1>6,
     <1>7, <1>8, <1>9, <1>10, <1>11, <1>12
  DEF Next, Runtime

-----------------------------------------------------------------------------
(* The theorems.                                                           *)

\* The invariant, for every set of answers and visitors.
THEOREM Invariance == Spec => []Inv
<1>1. Init => Inv
  <2> SUFFICES ASSUME Init PROVE Inv
    OBVIOUS
  <2>1. open = FALSE /\ uncertain = FALSE
    BY DEF Init
  <2>2. FlagsTyped
    BY <2>1, Zenon DEF FlagsTyped
  <2>3. LaneTyped /\ StoreTyped /\ VisitorsTyped
    BY CountsAssumption DEF Init, LaneTyped, StoreTyped, VisitorsTyped, Row, Empty
  <2>4. /\ lane = <<>> /\ Len(lane) = 0 /\ current = Nothing /\ limbo = Nothing
        /\ counted = {} /\ failed = {} /\ reset = {} /\ row = Empty /\ shown = Empty
        /\ \A v \in Visitors : pc[v] = "idle" /\ before[v] = {}
    BY DEF Init
  <2>5. Ordered /\ Pending /\ Marks /\ Past /\ Lost
    BY <2>4 DEF Ordered, Pending, Marks, Past, Lost, Answered, Empty
  <2>6. ReadsSeeCounts /\ NoneAfterReset
    BY <2>4 DEF ReadsSeeCounts, NoneAfterReset
  <2>7. QED
    BY <2>2, <2>3, <2>5, <2>6, TypeParts DEF Inv
<1>2. Inv /\ [Next]_vars => Inv'
  <2> SUFFICES ASSUME Inv, [Next]_vars PROVE Inv'
    OBVIOUS
  <2>1. FlagsTyped' /\ LaneTyped' /\ StoreTyped' /\ VisitorsTyped'
    BY FlagsStep, LaneStep, StoreStep, VisitorsStep DEF Inv
  <2>2. TypeOK'
    BY <2>1 DEF TypeOK, FlagsTyped, LaneTyped, StoreTyped, VisitorsTyped
  <2>3. QED
    BY <2>2, OrderedStep, PendingStep, MarksStep, PastStep, LostStep, ReadsStep, NoneStep
    DEF Inv
<1>3. QED
  BY <1>1, <1>2, PTL DEF Spec

\* The lane, the store and the visitors keep their types.
THEOREM TypeCorrect == Spec => []TypeOK
<1>1. Inv => TypeOK
  BY DEF Inv
<1>2. QED
  BY <1>1, Invariance, PTL

\* A read of the counts, and a stop, leaves out no count queued before it that
\* the store took, whatever fails, is lost or is cut off beside it.
THEOREM ReadsAreWhole == Spec => []ReadsSeeCounts
<1>1. Inv => ReadsSeeCounts
  BY DEF Inv
<1>2. QED
  BY <1>1, Invariance, PTL

\* An answer counted before a reset never lands after it.
THEOREM ResetsHold == Spec => []NoneAfterReset
<1>1. Inv => NoneAfterReset
  BY DEF Inv
<1>2. QED
  BY <1>1, Invariance, PTL
=============================================================================
