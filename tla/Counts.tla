------------------------------- MODULE Counts -------------------------------
(* The bookkeeping of calls, taken off the path of their answers.          *)
(*                                                                         *)
(* An answer's size is queued on one lane and the call is answered.  A     *)
(* worker takes the lane's works in order, each add a job of the owner of  *)
(* writes.  A read of the counts, the reset of a run's total and the stop  *)
(* of the process queue a mark behind the adds and wait for it.            *)
(*                                                                         *)
(* From module Writer this module takes what it proves of a rail: a        *)
(* certain image is the store, an uncertain rail keeps the image it last   *)
(* published, and a job on it first fences the statement whose reply was   *)
(* lost.  The owner's queue is an order of submissions, so here any        *)
(* submitted job may be the next.                                          *)
EXTENDS Naturals, Sequences, SequencesExt, FiniteSets

CONSTANTS
    Answers,     \* what is counted: each answer once
    Visitors,    \* reads of the counts, resets and the stop: each once
    MaxCrashes,  \* bound
    Nothing      \* no work, no job

ASSUME CountsAssumption == MaxCrashes \in Nat

VARIABLES
    open,       \* the lane: opened by the first count of the process
    lane,       \* the works queued, oldest first
    current,    \* the work the worker is at
    row,        \* the store: total since the reset, days, totals reset
    shown,      \* the image of the runs
    uncertain,  \* the rail of the runs
    limbo,      \* the job whose commit is unresolved at the server
    pc, wants,  \* where each visitor is, and what for
    saw,        \* the days a visitor read
    counted, before,  \* history: answers counted; and before a visitor asked
    failed,     \* history: answers whose add was answered with an error
    reset,      \* history: visitors whose reset landed
    crashes

store == <<row, shown, uncertain, limbo>>
visitors == <<pc, wants, saw, before>>
vars == <<open, lane, current, store, visitors, counted, failed, reset, crashes>>

Add(a) == [kind |-> "add", of |-> a]
Mark(v) == [kind |-> "mark", of |-> v]
Reset(v) == [kind |-> "reset", of |-> v]
Row == [total : SUBSET Answers, days : SUBSET Answers, resets : SUBSET Answers]
Empty == [total |-> {}, days |-> {}, resets |-> {}]
Works == {Add(a) : a \in Answers} \cup {Mark(v) : v \in Visitors}
Jobs == {Add(a) : a \in Answers} \cup {Reset(v) : v \in Visitors}

ASSUME NothingAssumption == Nothing \notin Works \cup Jobs

TypeOK ==
    /\ open \in BOOLEAN /\ uncertain \in BOOLEAN
    /\ lane \in Seq(Works)
    /\ current \in Works \cup {Nothing}
    /\ row \in Row /\ shown \in Row
    /\ limbo \in Jobs \cup {Nothing}
    /\ pc \in [Visitors -> {"idle", "settling", "go", "done", "cut"}]
    /\ wants \in [Visitors -> {"read", "reset", "stop"}]
    /\ saw \in [Visitors -> SUBSET Answers] /\ before \in [Visitors -> SUBSET Answers]
    /\ counted \subseteq Answers /\ failed \subseteq Answers /\ reset \subseteq Visitors
    /\ crashes \in 0 .. MaxCrashes

Init ==
    /\ open = FALSE /\ lane = <<>> /\ current = Nothing
    /\ row = Empty /\ shown = Empty /\ uncertain = FALSE /\ limbo = Nothing
    /\ pc = [v \in Visitors |-> "idle"] /\ wants = [v \in Visitors |-> "read"]
    /\ saw = [v \in Visitors |-> {}] /\ before = [v \in Visitors |-> {}]
    /\ counted = {} /\ failed = {} /\ reset = {} /\ crashes = 0

-----------------------------------------------------------------------------
\* The lane.

\* The counting call does not wait.
Count(a) ==
    /\ a \notin counted
    /\ open' = TRUE
    /\ lane' = Append(lane, Add(a))
    /\ counted' = counted \cup {a}
    /\ UNCHANGED <<current, store, visitors, failed, reset, crashes>>

\* Mutant: a lane nobody opened is waited for.
SettleUnopened(v, what) ==
    /\ pc[v] = "idle"
    /\ wants' = [wants EXCEPT ![v] = what]
    /\ before' = [before EXCEPT ![v] = counted]
    /\ pc' = [pc EXCEPT ![v] = "settling"]
    /\ lane' = IF open THEN Append(lane, Mark(v)) ELSE lane
    /\ UNCHANGED <<open, current, store, saw, counted, failed, reset, crashes>>

\* A lane nobody opened has nothing to wait for.
Settle(v, what) ==
    /\ pc[v] = "idle"
    /\ wants' = [wants EXCEPT ![v] = what]
    /\ before' = [before EXCEPT ![v] = counted]
    /\ pc' = [pc EXCEPT ![v] = IF open THEN "settling" ELSE "go"]
    /\ lane' = IF open THEN Append(lane, Mark(v)) ELSE lane
    /\ UNCHANGED <<open, current, store, saw, counted, failed, reset, crashes>>

\* Mutant: the worker looks for a mark before it takes the next add.
TakeMarkFirst ==
    /\ current = Nothing /\ lane # <<>>
    /\ LET marks == {i \in DOMAIN lane : lane[i].kind = "mark"}
           at    == IF marks = {} THEN 1 ELSE CHOOSE i \in marks : \A j \in marks : i <= j
       IN  current' = lane[at] /\ lane' = RemoveAt(lane, at)
    /\ UNCHANGED <<open, store, visitors, counted, failed, reset, crashes>>

Take ==
    /\ current = Nothing /\ lane # <<>>
    /\ current' = Head(lane) /\ lane' = Tail(lane)
    /\ UNCHANGED <<open, store, visitors, counted, failed, reset, crashes>>

\* A visitor that has gone away is told nothing.
Settled ==
    /\ current # Nothing /\ current.kind = "mark"
    /\ current' = Nothing
    /\ pc' = [pc EXCEPT ![current.of] = IF @ = "settling" THEN "go" ELSE @]
    /\ UNCHANGED <<open, lane, store, wants, saw, before, counted, failed, reset, crashes>>

-----------------------------------------------------------------------------
\* A job of the owner on the rail of the runs.

\* What the transaction of a job leaves in the store.
Landed(job, r) ==
    IF job.kind = "add"
    THEN [r EXCEPT !.total = @ \cup {job.of}, !.days = @ \cup {job.of}]
    ELSE [r EXCEPT !.resets = @ \cup r.total, !.total = {}]
Resets(job) == IF job.kind = "reset" THEN {job.of} ELSE {}

\* An uncertain rail is recovered first: its fence waits for the statement.
Fenced == limbo = Nothing

\* The commit is answered, and the image follows it.
Commits(job) ==
    /\ Fenced
    /\ row' = Landed(job, row) /\ shown' = row'
    /\ reset' = reset \cup Resets(job)
    /\ uncertain' = FALSE /\ UNCHANGED limbo

\* The job fails, or panics, before its commit.
Refuses ==
    /\ Fenced
    /\ shown' = row /\ uncertain' = FALSE
    /\ UNCHANGED <<row, limbo, reset>>

\* The rail stays uncertain: the job is not started.
NotStarted ==
    /\ uncertain
    /\ UNCHANGED <<store, reset>>

\* The reply of the commit is lost, and the recovery that follows fails, or
\* waits until the statement has landed or has not.
ReplyLost(job) ==
    /\ Fenced
    /\ \/ /\ limbo' = job /\ uncertain' = TRUE /\ shown' = row
          /\ UNCHANGED <<row, reset>>
       \/ /\ row' = Landed(job, row) /\ shown' = row'
          /\ reset' = reset \cup Resets(job)
          /\ uncertain' = FALSE /\ UNCHANGED limbo
       \/ Refuses

Fails(job) == Refuses \/ NotStarted \/ ReplyLost(job)

\* The worker logs an add that failed, or panicked, and goes on.
Apply ==
    /\ current # Nothing /\ current.kind = "add"
    /\ \/ Commits(current) /\ UNCHANGED failed
       \/ Fails(current) /\ failed' = failed \cup {current.of}
    /\ current' = Nothing
    /\ UNCHANGED <<open, lane, visitors, counted, crashes>>

\* Mutant: nobody waits for the lane.
AtOnce(v, what) == pc[v] \in {"settling", "go"} /\ wants[v] = what
Waited(v, what) == pc[v] = "go" /\ wants[v] = what

ResetServed(v) ==
    /\ Waited(v, "reset")
    /\ Commits(Reset(v)) \/ Fails(Reset(v))
    /\ pc' = [pc EXCEPT ![v] = "done"]
    /\ UNCHANGED <<open, lane, current, wants, saw, before, counted, failed, crashes>>

\* A certain image is the store; an uncertain rail answers from the image kept.
ReadCounts(v) ==
    /\ Waited(v, "read")
    /\ saw' = [saw EXCEPT ![v] = shown.days]
    /\ pc' = [pc EXCEPT ![v] = "done"]
    /\ UNCHANGED <<open, lane, current, store, wants, before, counted, failed, reset, crashes>>

\* The caller goes away.
Cut(v) ==
    /\ pc[v] \in {"settling", "go"}
    /\ pc' = [pc EXCEPT ![v] = "cut"]
    /\ UNCHANGED <<open, lane, current, store, wants, saw, before, counted, failed, reset, crashes>>

ServerResolves ==
    /\ limbo # Nothing
    /\ \/ row' = Landed(limbo, row) /\ reset' = reset \cup Resets(limbo)
       \/ UNCHANGED <<row, reset>>
    /\ limbo' = Nothing
    /\ UNCHANGED <<open, lane, current, shown, uncertain, visitors, counted, failed, crashes>>

\* What is in memory is gone, and the next start reads the image again.
Down ==
    /\ limbo = Nothing
    /\ open' = FALSE /\ lane' = <<>> /\ current' = Nothing
    /\ shown' = row /\ uncertain' = FALSE
    /\ failed' = failed \cup (counted \ row.days)
    /\ UNCHANGED <<row, limbo, wants, before, counted, reset>>

\* The stop waits for the counts of the calls just answered; a mark that is
\* late is not waited for, which is a crash.
Stop(v) ==
    /\ Waited(v, "stop")
    /\ saw' = [saw EXCEPT ![v] = row.days]
    /\ pc' = [w \in Visitors |-> IF w = v THEN "done"
                                 ELSE IF pc[w] = "idle" THEN "idle"
                                 ELSE IF pc[w] = "done" THEN "done" ELSE "cut"]
    /\ Down /\ UNCHANGED crashes

Crash ==
    /\ crashes < MaxCrashes /\ crashes' = crashes + 1
    /\ pc' = [w \in Visitors |-> IF pc[w] \in {"settling", "go"} THEN "cut" ELSE pc[w]]
    /\ Down /\ UNCHANGED saw

Runtime ==
    \/ Take \/ Settled \/ Apply
    \/ \E v \in Visitors : ReadCounts(v) \/ ResetServed(v) \/ Stop(v)

Next ==
    \/ \E a \in Answers : Count(a)
    \/ \E v \in Visitors, what \in {"read", "reset", "stop"} : Settle(v, what)
    \/ Runtime
    \/ \E v \in Visitors : Cut(v)
    \/ ServerResolves \/ Crash

Spec == Init /\ [][Next]_vars

\* The worker is a spawned task, the owner ends every job, and the server ends
\* a statement whose connection is gone.
FairSpec == Spec /\ WF_vars(Take \/ Settled \/ Apply) /\ WF_vars(ServerResolves)

-----------------------------------------------------------------------------
\* A read of the counts, and a stop, leaves out no count queued before it that
\* the store took: "a count is never read before it lands", adds that fail,
\* panic or lose their reply beside it included (DeferredCounts::settle).
ReadsSeeCounts ==
    \A v \in Visitors :
        pc[v] = "done" /\ wants[v] # "reset" => before[v] \ failed \subseteq saw[v]

\* "An answer counted before a reset never lands after it": not from the lane,
\* and not from a statement whose reply was lost (reset_served).
NoneAfterReset == \A v \in reset : before[v] \cap row.total = {}

\* Whoever waits for the lane is answered, whatever the adds before it do: no
\* add holds the lane for ever (DeferredCounts::queue).
SettlesEnd == \A v \in Visitors : pc[v] = "settling" ~> pc[v] # "settling"
=============================================================================
