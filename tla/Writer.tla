------------------------------- MODULE Writer -------------------------------
(***************************************************************************)
(* The one owner of every write (jojobot-adapters/src/writer.rs), its      *)
(* recovery of an ambiguous commit (writer/recovery.rs, writer/fence.rs,   *)
(* writer/sql.rs) and the serving images it keeps equal to the store       *)
(* (fold.rs, fold/mail.rs, fold/sessions.rs, fold/teachings.rs).           *)
(*                                                                         *)
(* A job is one accepted write.  A rail is one serving image ("memory",    *)
(* "mail", "runs", "teachings"); a job of NoRail is an owned write with no *)
(* image (a request receipt, an outbox row).  The content of a write is    *)
(* the job itself: the store is the set of jobs that committed, an image   *)
(* the set of jobs its readers see.                                        *)
(***************************************************************************)
EXTENDS Naturals, Sequences, FiniteSets

CONSTANTS
  Rails,    \* the serving images
  Jobs,     \* the writes callers submit, each once
  RailOf,   \* the rail a job writes on, or NoRail
  Landed,   \* the rails whose verbs can answer FoldBehind
  NoRail,   \* the rail of an owned write that no image follows
  NoImage,  \* the `None` of an image slot
  NoJob     \* the absence of a job

ASSUME RailAssumption ==
  /\ NoRail \notin Rails
  /\ Landed \subseteq Rails
  /\ RailOf \in [Jobs -> Rails \cup {NoRail}]
ASSUME NoJobAssumption == NoJob \notin Jobs
ASSUME NoImageAssumption == \A held \in SUBSET Jobs : held # NoImage

VARIABLES
  store,      \* the writes the database has committed
  inflight,   \* the write the database received and has not resolved
  holder,     \* which connection holds the advisory lock
  sql,        \* Driver.sql: no session, a session that never connected, or one that did
  uncertain,  \* Driver.uncertain: the rails whose image may miss a commit
  image,      \* the image slot of each rail
  wanted,     \* whether the rail's boot rebuild has run
  queue,      \* the accepted jobs the owner has not taken
  caller,     \* what each job's caller knows
  pc,         \* where the owner is in the current job
  cur,        \* the current job
  phase,      \* Native.phase of the current job
  goal,       \* why the owner is recovering
  result      \* what the current job will answer

server == <<store, inflight, holder>>
rails  == <<uncertain, image, wanted>>
vars   == <<store, inflight, holder, sql, uncertain, image, wanted, queue,
            caller, pc, cur, phase, goal, result>>

Holders == {"free", "writer", "old", "fence"}
Steps   == {"idle", "write", "commit", "follow", "fence", "lock", "load",
            "deliver", "answer"}
Phases  == {"InProcess", "BeforeCommit", "Unknown", "InFlight", "Committed"}
Goals   == {"none", "before", "after", "close"}
Answers == {"ok", "behind", "failed", "refused", "indeterminate"}

Committed(r) == {j \in store : RailOf[j] = r}

\* Mutant: a rail without an image reads as empty.
ReadsEmpty(r) == IF image[r] # NoImage THEN image[r] ELSE {}

\* What a read of the rail sees: the image, else the store, and nothing at
\* all (NoImage) when the rail is uncertain and holds no image.
Reads(r) ==
  IF image[r] # NoImage THEN image[r]
  ELSE IF r \in uncertain THEN NoImage
  ELSE Committed(r)

Init ==
  /\ store = {} /\ inflight = NoJob /\ holder = "free" /\ sql = "none"
  /\ uncertain = {}
  /\ image = [r \in Rails |-> NoImage]
  /\ wanted = [r \in Rails |-> FALSE]
  /\ queue = <<>>
  /\ caller = [j \in Jobs |-> "idle"]
  /\ pc = "idle" /\ cur = NoJob /\ phase = "InProcess"
  /\ goal = "none" /\ result = "none"

-----------------------------------------------------------------------------
(* Callers: Writer::run.  A caller submits a job and waits for its answer; *)
(* it may stop waiting at any time, and the job stays accepted.            *)

Submit(j) ==
  /\ caller[j] = "idle"
  /\ RailOf[j] # NoRail => wanted[RailOf[j]]
  /\ caller' = [caller EXCEPT ![j] = "waiting"]
  /\ queue' = Append(queue, j)
  /\ UNCHANGED <<server, rails, sql, pc, cur, phase, goal, result>>

StopWaiting(j) ==
  /\ caller[j] = "waiting"
  /\ caller' = [caller EXCEPT ![j] = "gone"]
  /\ UNCHANGED <<server, rails, sql, queue, pc, cur, phase, goal, result>>

-----------------------------------------------------------------------------
(* The owner's steps.                                                      *)

\* The job's result is known; its publication is delivered next.
Conclude(answer) ==
  /\ pc' = "deliver"
  /\ result' = answer
  /\ goal' = "none"

\* Mutant: the rail of an ambiguous write is not marked.
AmbiguousUnmarked ==
  /\ pc' = "fence"
  /\ goal' = IF RailOf[cur] = NoRail THEN "close" ELSE "after"
  /\ UNCHANGED <<uncertain, result>>

\* guarded, on an error that does not say whether the write committed: the
\* rail is uncertain from here and is recovered before the job answers.  A
\* job without a rail has `unhandled` set instead, and sql::job closes its
\* connection.
Ambiguous ==
  /\ pc' = "fence"
  /\ IF RailOf[cur] = NoRail
       THEN goal' = "close" /\ UNCHANGED uncertain
       ELSE goal' = "after" /\ uncertain' = uncertain \cup {RailOf[cur]}
  /\ UNCHANGED result

\* The owner takes the next job.  A job on an uncertain rail recovers it first.
Take ==
  /\ pc = "idle"
  /\ queue # <<>>
  /\ cur' = Head(queue)
  /\ queue' = Tail(queue)
  /\ phase' = "InProcess"
  /\ IF RailOf[Head(queue)] \in uncertain
       THEN pc' = "fence" /\ goal' = "before"
       ELSE pc' = "write" /\ goal' = "none"
  /\ UNCHANGED <<server, rails, sql, caller, result>>

\* Pool::begin, Pool::acquire: the dedicated connection is open already, or a
\* new one takes the advisory lock before it may write.
Connect ==
  /\ pc = "write"
  /\ phase = "InProcess"
  /\ holder \in {"writer", "free"}
  /\ holder' = "writer"
  /\ sql' = "opened"
  /\ phase' = "BeforeCommit"
  /\ UNCHANGED <<store, inflight, rails, queue, caller, pc, cur, goal, result>>

\* No connection, or GET_LOCK timed out behind another holder.  A connection
\* that took the lock and failed afterwards leaves it to its teardown.
ConnectFails ==
  /\ pc = "write"
  /\ phase = "InProcess"
  /\ holder' \in IF holder \in {"free", "writer"} THEN {holder, "old"} ELSE {holder}
  /\ sql' = IF sql = "none" THEN "lazy" ELSE sql
  /\ phase' = "BeforeCommit"
  /\ Conclude("failed")
  /\ UNCHANGED <<store, inflight, rails, queue, caller, cur>>

\* A refusal of the domain, a guard that blocks the write, or a statement
\* that fails before the COMMIT: nothing was written and the rail stays certain.
Refuse ==
  /\ pc = "write"
  /\ phase \in {"InProcess", "BeforeCommit"}
  /\ Conclude("failed")
  /\ UNCHANGED <<server, rails, sql, queue, caller, cur, phase>>

\* A store error of a write that never reached the native connection.
FailInProcess ==
  /\ pc = "write"
  /\ phase = "InProcess"
  /\ RailOf[cur] # NoRail
  /\ Ambiguous
  /\ UNCHANGED <<server, image, wanted, sql, queue, caller, cur, phase>>

\* sql::commit sends COMMIT (phase Unknown); Executor::execute sends one
\* autocommitted statement (phase InFlight).
SendCommit(sent) ==
  /\ pc = "write"
  /\ phase = "BeforeCommit"
  /\ holder = "writer"
  /\ phase' = sent
  /\ inflight' = cur
  /\ pc' = "commit"
  /\ UNCHANGED <<store, holder, rails, sql, queue, caller, cur, goal, result>>

CommitOk ==
  /\ pc = "commit"
  /\ store' = store \cup {cur}
  /\ inflight' = NoJob
  /\ phase' = "Committed"
  /\ pc' = "follow"
  /\ UNCHANGED <<holder, rails, sql, queue, caller, cur, goal, result>>

\* The server answers an autocommitted statement with an error code: it did
\* not run (store_error).
StatementRefused ==
  /\ pc = "commit"
  /\ phase = "InFlight"
  /\ inflight' = NoJob
  /\ phase' = "BeforeCommit"
  /\ Conclude("failed")
  /\ UNCHANGED <<store, holder, rails, sql, queue, caller, cur>>

\* The server answers the COMMIT with a serialization conflict or a rule it
\* enforces: an adapter's own `store` reads that code, and the write is known
\* not to have landed.
CommitConflict ==
  /\ pc = "commit"
  /\ phase = "Unknown"
  /\ inflight' = NoJob
  /\ Conclude("failed")
  /\ UNCHANGED <<store, holder, rails, sql, queue, caller, cur, phase>>

\* The server answers the COMMIT with another error code.  store_error does
\* not read the code of a COMMIT: the outcome counts as unknown.
CommitRefused ==
  /\ pc = "commit"
  /\ phase = "Unknown"
  /\ inflight' = NoJob
  /\ Ambiguous
  /\ UNCHANGED <<store, holder, image, wanted, sql, queue, caller, cur, phase>>

\* Mutant: a lost reply is answered as a definite failure.
ReplyLostFails ==
  /\ pc = "commit"
  /\ holder' = "old"
  /\ Conclude("failed")
  /\ UNCHANGED <<store, inflight, rails, sql, queue, caller, cur, phase>>

\* The connection is lost with the statement at the server.
ReplyLost ==
  /\ pc = "commit"
  /\ holder' = "old"
  /\ Ambiguous
  /\ UNCHANGED <<store, inflight, image, wanted, sql, queue, caller, cur, phase>>

\* The verb brings the image up to date with the committed write: by applying
\* the store's answer to a held image, or by reading the rail again.
Follow ==
  /\ pc = "follow"
  /\ RailOf[cur] # NoRail
  /\ wanted[RailOf[cur]]
  /\ \/ /\ image[RailOf[cur]] # NoImage
        /\ image' = [image EXCEPT ![RailOf[cur]] = @ \cup {cur}]
     \/ image' = [image EXCEPT ![RailOf[cur]] = Committed(RailOf[cur])]
  /\ Conclude("ok")
  /\ UNCHANGED <<server, uncertain, wanted, sql, queue, caller, cur, phase>>

\* Mutant: the image the write could not be applied to is kept.
CannotFollowKeeps ==
  /\ pc = "follow"
  /\ RailOf[cur] # NoRail
  /\ Conclude("ok")
  /\ UNCHANGED <<server, rails, sql, queue, caller, cur, phase>>

\* The read that follows the write fails.  The image is dropped; a verb with
\* a Landed answers FoldBehind, the others warn and answer.
CannotFollow ==
  /\ pc = "follow"
  /\ RailOf[cur] # NoRail
  /\ wanted[RailOf[cur]]
  /\ image' = [image EXCEPT ![RailOf[cur]] = NoImage]
  /\ \/ Conclude("ok")
     \/ RailOf[cur] \in Landed /\ Conclude("behind")
  /\ UNCHANGED <<server, uncertain, wanted, sql, queue, caller, cur, phase>>

\* A store error after the commit.
FailAfterCommit ==
  /\ pc = "follow"
  /\ RailOf[cur] # NoRail
  /\ Ambiguous
  /\ UNCHANGED <<server, image, wanted, sql, queue, caller, cur, phase>>

\* An owned write that no image follows.
Unfollowed ==
  /\ pc = "follow"
  /\ RailOf[cur] = NoRail
  /\ Conclude("ok")
  /\ UNCHANGED <<server, rails, sql, queue, caller, cur, phase>>

\* Mutant: the panicked job stays current.
PanicKeepsJob ==
  /\ pc \in {"write", "follow"}
  /\ caller' = [caller EXCEPT ![cur] = IF @ = "waiting" THEN "panicked" ELSE @]
  /\ pc' = "idle"
  /\ UNCHANGED <<server, rails, sql, queue, cur, phase, goal, result>>

\* Mutant: the panic ends the owner's task.
PanicEndsQueue ==
  /\ pc \in {"write", "follow"}
  /\ pc' = "stopped"
  /\ UNCHANGED <<server, rails, sql, queue, caller, cur, phase, goal, result>>

\* A job that panics fails its own caller: Scope::drop leaves its rail
\* uncertain and the queue goes on with the next job.
Panic ==
  /\ pc \in {"write", "follow"}
  /\ uncertain' = IF RailOf[cur] = NoRail THEN uncertain
                  ELSE uncertain \cup {RailOf[cur]}
  /\ caller' = [caller EXCEPT ![cur] = IF @ = "waiting" THEN "panicked" ELSE @]
  /\ pc' = "idle" /\ cur' = NoJob /\ phase' = "InProcess"
  /\ UNCHANGED <<server, image, wanted, sql, queue, goal, result>>

-----------------------------------------------------------------------------
(* Recovery: a fence, then a reload through a fresh reader.                *)

RecoveryFailed ==
  Conclude(IF goal = "before" THEN "refused" ELSE "indeterminate")

\* Mutant: the KILL alone is taken for the end of the old connection.
KillOldUnlocked ==
  /\ pc = "fence"
  /\ sql = "opened"
  /\ holder' = IF holder = "writer" THEN "old" ELSE holder
  /\ pc' = "load"
  /\ UNCHANGED <<store, inflight, rails, sql, queue, caller, cur, phase, goal, result>>

\* Session::take_after_old: connect, and KILL the old connection.
KillOld ==
  /\ pc = "fence"
  /\ sql = "opened"
  /\ holder' = IF holder = "writer" THEN "old" ELSE holder
  /\ pc' = "lock"
  /\ UNCHANGED <<store, inflight, rails, sql, queue, caller, cur, phase, goal, result>>

\* The fence cannot connect, or no connection was ever recorded to be killed.
NoFence ==
  /\ pc = "fence"
  /\ sql # "none"
  /\ RecoveryFailed
  /\ UNCHANGED <<server, rails, sql, queue, caller, cur, phase>>

\* With no native session the end of the owned write is its own fence.
NeedsNoFence ==
  /\ pc = "fence"
  /\ sql = "none"
  /\ pc' = "load"
  /\ UNCHANGED <<server, rails, sql, queue, caller, cur, phase, goal, result>>

\* GET_LOCK answers once the old connection has ended.
TakeLock ==
  /\ pc = "lock"
  /\ holder = "free"
  /\ holder' = "fence"
  /\ pc' = "load"
  /\ UNCHANGED <<store, inflight, rails, sql, queue, caller, cur, phase, goal, result>>

LockTimesOut ==
  /\ pc = "lock"
  /\ RecoveryFailed
  /\ UNCHANGED <<server, rails, sql, queue, caller, cur, phase>>

\* Read::finish closes the fence; the server frees the lock at its teardown.
FinishFence == holder' = IF holder = "fence" THEN "old" ELSE holder

\* The rail is read again and is certain.
Reload ==
  /\ pc = "load"
  /\ goal # "close"
  /\ image' = [image EXCEPT ![RailOf[cur]] = Committed(RailOf[cur])]
  /\ uncertain' = uncertain \ {RailOf[cur]}
  /\ FinishFence
  /\ IF goal = "before"
       THEN /\ pc' = "write" /\ phase' = "InProcess" /\ goal' = "none"
            /\ UNCHANGED result
       ELSE Conclude("indeterminate") /\ UNCHANGED phase
  /\ UNCHANGED <<store, inflight, wanted, sql, queue, caller, cur>>

\* Mutant: a failed reload drops the image of an uncertain rail.
ReloadFailsDrops ==
  /\ pc = "load"
  /\ goal # "close"
  /\ RecoveryFailed
  /\ FinishFence
  /\ image' = [image EXCEPT ![RailOf[cur]] = NoImage]
  /\ UNCHANGED <<store, inflight, uncertain, wanted, sql, queue, caller, cur, phase>>

\* The fresh reader or the read fails: the rail stays uncertain, and keeps the
\* image it last published.
ReloadFails ==
  /\ pc = "load"
  /\ goal # "close"
  /\ RecoveryFailed
  /\ FinishFence
  /\ UNCHANGED <<store, inflight, rails, sql, queue, caller, cur, phase>>

\* sql::job has nothing to reload.
CloseAmbiguous ==
  /\ pc = "load"
  /\ goal = "close"
  /\ Conclude("indeterminate")
  /\ FinishFence
  /\ UNCHANGED <<store, inflight, rails, sql, queue, caller, cur, phase>>

-----------------------------------------------------------------------------
(* The end of a job.                                                       *)

\* Publication::deliver: the subscribers run in the owner's task.
Deliver ==
  /\ pc = "deliver"
  /\ pc' = "answer"
  /\ UNCHANGED <<server, rails, sql, queue, caller, cur, phase, goal, result>>

Answer ==
  /\ pc = "answer"
  /\ caller' = [caller EXCEPT ![cur] = IF @ = "waiting" THEN result ELSE @]
  /\ pc' = "idle" /\ cur' = NoJob /\ phase' = "InProcess" /\ result' = "none"
  /\ UNCHANGED <<server, rails, sql, queue, goal>>

\* The boot rebuild of a rail, a job of its own: refused on an uncertain rail.
Rebuild(r) ==
  /\ pc = "idle"
  /\ r \notin uncertain
  /\ wanted' = [wanted EXCEPT ![r] = TRUE]
  /\ \E read \in {Committed(r), NoImage} : image' = [image EXCEPT ![r] = read]
  /\ UNCHANGED <<server, uncertain, sql, queue, caller, pc, cur, phase, goal, result>>

-----------------------------------------------------------------------------
(* The database server, as the fence relies on it.                         *)

\* The connection dies between two statements of the owner.
ConnectionDies ==
  /\ holder = "writer"
  /\ pc # "commit"
  /\ holder' = "old"
  /\ UNCHANGED <<store, inflight, rails, sql, queue, caller, pc, cur, phase, goal, result>>

\* The server ends the statement of a lost connection, one way or the other.
ServerResolves(outcome) ==
  /\ holder = "old"
  /\ inflight # NoJob
  /\ store' = IF outcome = "commit" THEN store \cup {inflight} ELSE store
  /\ inflight' = NoJob
  /\ UNCHANGED <<holder, rails, sql, queue, caller, pc, cur, phase, goal, result>>

\* Only then does the connection's teardown free the lock.
ServerCloses ==
  /\ holder = "old"
  /\ inflight = NoJob
  /\ holder' = "free"
  /\ UNCHANGED <<store, inflight, rails, sql, queue, caller, pc, cur, phase, goal, result>>

-----------------------------------------------------------------------------
(* The process dies with the database it runs as its child, and starts     *)
(* again: only the store survives.                                         *)

Crash ==
  /\ store' \in {store, store \cup ({inflight} \ {NoJob})}
  /\ inflight' = NoJob /\ holder' = "free" /\ sql' = "none"
  /\ uncertain' = {}
  /\ image' = [r \in Rails |-> NoImage]
  /\ wanted' = [r \in Rails |-> FALSE]
  /\ queue' = <<>>
  /\ caller' = [j \in Jobs |-> IF caller[j] = "waiting" THEN "gone" ELSE caller[j]]
  /\ pc' = "idle" /\ cur' = NoJob /\ phase' = "InProcess"
  /\ goal' = "none" /\ result' = "none"

Calling == \E j \in Jobs : Submit(j) \/ StopWaiting(j)

Writing ==
  \/ Take \/ Connect \/ ConnectFails \/ Refuse \/ FailInProcess \/ Panic
  \/ \E sent \in {"Unknown", "InFlight"} : SendCommit(sent)

Committing ==
  CommitOk \/ StatementRefused \/ CommitConflict \/ CommitRefused \/ ReplyLost

Following == Follow \/ CannotFollow \/ FailAfterCommit \/ Unfollowed

Fencing == KillOld \/ NoFence \/ NeedsNoFence \/ TakeLock \/ LockTimesOut

Reloading == Reload \/ ReloadFails \/ CloseAmbiguous

Finishing == Deliver \/ Answer

Database ==
  \/ ConnectionDies
  \/ \E outcome \in {"commit", "abort"} : ServerResolves(outcome)
  \/ ServerCloses

\* Every step of the owner within a job.
Work == Writing \/ Committing \/ Following \/ Fencing \/ Reloading \/ Finishing

Next ==
  \/ Calling
  \/ Work
  \/ \E r \in Rails : Rebuild(r)
  \/ Database
  \/ Crash

Spec == Init /\ [][Next]_vars

\* The owner is a spawned task whose every await ends: connecting and locking
\* time out, and a statement ends with its reply or its connection.
FairSpec == Spec /\ WF_vars(Work)

-----------------------------------------------------------------------------
(* Correctness.                                                            *)

\* The variables have their types, and a job is current exactly when the
\* owner is not idle (the job loop of Writer::run).
TypeOK ==
  /\ store \in SUBSET Jobs
  /\ inflight \in Jobs \cup {NoJob}
  /\ holder \in Holders
  /\ sql \in {"none", "lazy", "opened"}
  /\ uncertain \in SUBSET Rails
  /\ image \in [Rails -> (SUBSET Jobs) \cup {NoImage}]
  /\ wanted \in [Rails -> BOOLEAN]
  /\ queue \in Seq(Jobs)
  /\ caller \in [Jobs -> {"idle", "waiting", "gone", "panicked"} \cup Answers]
  /\ pc \in Steps
  /\ cur \in Jobs \cup {NoJob}
  /\ phase \in Phases
  /\ goal \in Goals
  /\ result \in Answers \cup {"none"}
  /\ (cur = NoJob) <=> (pc = "idle")

\* A certain rail's image is the store: it misses no committed write and
\* shows no other, except the current write between its commit and the step
\* of the verb that follows it (the promise of fold.rs and recovery.rs).
ImageExact ==
  \A r \in Rails \ uncertain :
    image[r] # NoImage =>
      image[r] = Committed(r) \ (IF pc = "follow" THEN {cur} ELSE {})

\* No commit can still land on a rail that counts as certain: the database
\* holds an unresolved write of a rail only while the owner waits for its
\* reply or the rail is uncertain (the fence of writer/fence.rs).
NoLateCommit ==
  inflight # NoJob =>
    \/ pc = "commit" /\ cur = inflight
    \/ RailOf[inflight] \in uncertain \cup {NoRail}

\* A recovery reads the store only once nothing can commit behind the read:
\* the lock is the fence's own, or no native connection was ever opened.
FencedReload ==
  pc = "load" =>
    /\ inflight = NoJob
    /\ holder = "fence" \/ sql = "none"

\* An answer says what happened to the write, for good: ok and FoldBehind
\* only for a write that is stored; a refusal or a definite failure only for
\* one that is not stored and that the database can no longer commit.
AnswersTrue ==
  \A j \in Jobs :
    /\ caller[j] \in {"ok", "behind"} => j \in store
    /\ caller[j] \in {"failed", "refused"} => j \notin store /\ j # inflight

\* A caller told ok reads its own write from then on, whatever later writes
\* do to the rail, unless the rail refuses to be read.
ReadYourWrites ==
  \A j \in Jobs :
    caller[j] = "ok" /\ RailOf[j] \in Rails /\ Reads(RailOf[j]) # NoImage
      => j \in Reads(RailOf[j])

\* Reads never go back: no step takes a write out of what a rail's reads show,
\* a fall-back to the store, a recovery and a restart included.
ReadsNeverGoBack ==
  [][\A r \in Rails :
       Reads(r) # NoImage /\ Reads(r)' # NoImage => Reads(r) \subseteq Reads(r)']_vars

\* "Reads keep the last published image": while a rail is uncertain, no step
\* takes its image away.
KeepsPublished ==
  [][\A r \in uncertain' : image[r] # NoImage => image'[r] # NoImage]_vars

\* Every caller that waits stops waiting: its job is answered, or panicked,
\* or the process died, whatever happens to the jobs before it in the queue.
EveryCallerAnswered ==
  \A j \in Jobs : caller[j] = "waiting" ~> caller[j] # "waiting"
=============================================================================
