---------------------------- MODULE WriterProofs ----------------------------
(***************************************************************************)
(* Proofs about the owner of the writes, for every set of rails and jobs.  *)
(*                                                                         *)
(* ImageExact is not inductive as it stands.  The invariant that is says,  *)
(* besides: what each step of the owner knows of its rail (StepKnows);     *)
(* that the advisory lock stays with the connection whose statement the    *)
(* database has not resolved (LockKept); that a write which has not been   *)
(* sent is nowhere in the database (SentOnce); that an image only ever     *)
(* shows stored writes (ImageSound); and that the images kept through an   *)
(* uncertainty hold every write answered ok (OkShown).                     *)
(*                                                                         *)
(* The last part is about the mail half of the search index, beside which  *)
(* the same invariant holds.                                               *)
(***************************************************************************)
EXTENDS WriterServing, MailIndex, TLAPS

\* What the owner's step says of the current job and its rail.
StepKnows ==
  /\ pc \in {"write", "commit", "follow"} => RailOf[cur] \notin uncertain
  /\ pc = "follow" => cur \in store
  /\ pc \in {"fence", "lock", "load"} =>
       /\ goal \in {"before", "after", "close"}
       /\ goal = "close" => RailOf[cur] = NoRail
       /\ goal # "close" => RailOf[cur] \in uncertain
  /\ pc \in {"deliver", "answer"} => result \in Answers

\* The lock stays with the connection of an unresolved statement.
LockKept ==
  /\ pc = "commit" => inflight = cur /\ holder = "writer"
  /\ inflight # NoJob => holder = "old" \/ pc = "commit"
  /\ sql = "none" => holder = "free"
  /\ pc = "lock" => sql = "opened"

\* The database has never seen the write.
Unsent(j) == j \notin store /\ j # inflight

\* A write is sent at most once: while it waits, and until its own COMMIT, the
\* database has not seen it; the owner's answer agrees with the database.
SentOnce ==
  /\ \A i \in 1..Len(queue) :
       /\ Unsent(queue[i])
       /\ queue[i] # cur
       /\ caller[queue[i]] \in {"waiting", "gone"}
  /\ \A i, k \in 1..Len(queue) : queue[i] = queue[k] => i = k
  /\ \A j \in Jobs : caller[j] = "idle" => Unsent(j) /\ j # cur
  /\ cur # NoJob => caller[cur] \in {"waiting", "gone"}
  /\ pc = "write" => Unsent(cur)
  /\ pc = "commit" => cur \notin store
  /\ pc \in {"fence", "lock", "load"} /\ goal = "before" => Unsent(cur)
  /\ pc \in {"deliver", "answer"} =>
       /\ result \in {"ok", "behind"} => cur \in store
       /\ result \in {"failed", "refused"} => Unsent(cur)

\* An image shows stored writes of its own rail only.
ImageSound ==
  \A r \in Rails : image[r] # NoImage => image[r] \subseteq Committed(r)

\* Every image, an uncertain rail's too, holds the writes answered ok.
OkShown ==
  \A j \in Jobs :
    (\/ caller[j] = "ok"
     \/ pc \in {"deliver", "answer"} /\ result = "ok" /\ cur = j)
      => (RailOf[j] \in Rails /\ image[RailOf[j]] # NoImage => j \in image[RailOf[j]])

Inv ==
  /\ TypeOK /\ StepKnows /\ LockKept /\ NoLateCommit /\ FencedReload
  /\ SentOnce /\ AnswersTrue /\ ImageExact /\ ImageSound /\ OkShown

-----------------------------------------------------------------------------
\* The types are kept by every step.
LEMMA TypeStep == Inv /\ [Next]_vars => TypeOK'
<1> SUFFICES ASSUME Inv, [Next]_vars PROVE TypeOK'
  OBVIOUS
<1> USE RailAssumption, NoJobAssumption, NoImageAssumption
    DEF Inv, TypeOK, StepKnows, server, rails, Holders, Steps, Phases,
        Goals, Answers, Committed
<1>1. CASE Calling
  <2>1. ASSUME NEW j \in Jobs, Submit(j) PROVE TypeOK'
    BY <2>1 DEF Submit
  <2>2. ASSUME NEW j \in Jobs, StopWaiting(j) PROVE TypeOK'
    BY <2>2 DEF StopWaiting
  <2>3. QED
    BY <1>1, <2>1, <2>2 DEF Calling
<1>2. CASE Writing
  BY <1>2 DEF Writing, Take, Connect, ConnectFails, Refuse, FailInProcess, Panic,
    SendCommit, Ambiguous, Conclude
<1>3. CASE Committing
  BY <1>3 DEF Committing, CommitOk, StatementRefused, CommitConflict, CommitRefused, ReplyLost,
    Ambiguous, Conclude
<1>4. CASE Following
  BY <1>4 DEF Following, Follow, CannotFollow, FailAfterCommit, Unfollowed,
    Ambiguous, Conclude
<1>5. CASE Fencing
  BY <1>5 DEF Fencing, KillOld, NoFence, NeedsNoFence, TakeLock, LockTimesOut,
    RecoveryFailed, Conclude
<1>6. CASE Reloading
  BY <1>6 DEF Reloading, Reload, ReloadFails, CloseAmbiguous, RecoveryFailed,
    FinishFence, Conclude
<1>7. CASE Finishing
  BY <1>7 DEF Finishing, Deliver, Answer
<1>8. CASE \E r \in Rails : Rebuild(r)
  BY <1>8 DEF Rebuild
<1>9. CASE Database
  BY <1>9 DEF Database, ConnectionDies, ServerResolves, ServerCloses
<1>10. CASE Crash
  BY <1>10 DEF Crash
<1>11. CASE UNCHANGED vars
  BY <1>11 DEF vars
<1>12. QED
  BY <1>1, <1>2, <1>3, <1>4, <1>5, <1>6,
     <1>7, <1>8, <1>9, <1>10, <1>11 DEF Next, Work

\* Every step keeps what the owner knows of its rail.
LEMMA KnowsStep == Inv /\ [Next]_vars => StepKnows'
<1> SUFFICES ASSUME Inv, [Next]_vars PROVE StepKnows'
  OBVIOUS
<1> USE RailAssumption, NoJobAssumption, NoImageAssumption
    DEF Inv, TypeOK, StepKnows, LockKept, NoLateCommit, FencedReload,
        server, rails, Holders, Steps, Goals, Answers, Committed
<1>1. CASE Calling
  BY <1>1 DEF Calling, Submit, StopWaiting
<1>2. CASE Writing
  BY <1>2 DEF Writing, Take, Connect, ConnectFails, Refuse, FailInProcess, Panic,
    SendCommit, Ambiguous, Conclude
<1>3. CASE Committing
  BY <1>3 DEF Committing, CommitOk, StatementRefused, CommitConflict, CommitRefused, ReplyLost,
    Ambiguous, Conclude
<1>4. CASE Following
  BY <1>4 DEF Following, Follow, CannotFollow, FailAfterCommit, Unfollowed,
    Ambiguous, Conclude
<1>5. CASE Fencing
  BY <1>5 DEF Fencing, KillOld, NoFence, NeedsNoFence, TakeLock, LockTimesOut,
    RecoveryFailed, Conclude
<1>6. CASE Reloading
  BY <1>6 DEF Reloading, Reload, ReloadFails, CloseAmbiguous, RecoveryFailed,
    FinishFence, Conclude
<1>7. CASE Finishing
  BY <1>7 DEF Finishing, Deliver, Answer
<1>8. CASE \E r \in Rails : Rebuild(r)
  BY <1>8 DEF Rebuild
<1>9. CASE Database
  BY <1>9 DEF Database, ConnectionDies, ServerResolves, ServerCloses
<1>10. CASE Crash
  BY <1>10 DEF Crash
<1>11. CASE UNCHANGED vars
  BY <1>11 DEF vars
<1>12. QED
  BY <1>1, <1>2, <1>3, <1>4, <1>5, <1>6,
     <1>7, <1>8, <1>9, <1>10, <1>11 DEF Next, Work

\* Every step keeps the lock with the unresolved statement.
LEMMA LockStep == Inv /\ [Next]_vars => LockKept'
<1> SUFFICES ASSUME Inv, [Next]_vars PROVE LockKept'
  OBVIOUS
<1> USE RailAssumption, NoJobAssumption, NoImageAssumption
    DEF Inv, TypeOK, StepKnows, LockKept, NoLateCommit, FencedReload,
        server, rails, Holders, Steps, Goals, Answers, Committed
<1>1. CASE Calling
  BY <1>1 DEF Calling, Submit, StopWaiting
<1>2. CASE Writing
  BY <1>2 DEF Writing, Take, Connect, ConnectFails, Refuse, FailInProcess, Panic,
    SendCommit, Ambiguous, Conclude
<1>3. CASE Committing
  BY <1>3 DEF Committing, CommitOk, StatementRefused, CommitConflict, CommitRefused, ReplyLost,
    Ambiguous, Conclude
<1>4. CASE Following
  BY <1>4 DEF Following, Follow, CannotFollow, FailAfterCommit, Unfollowed,
    Ambiguous, Conclude
<1>5. CASE Fencing
  BY <1>5 DEF Fencing, KillOld, NoFence, NeedsNoFence, TakeLock, LockTimesOut,
    RecoveryFailed, Conclude
<1>6. CASE Reloading
  BY <1>6 DEF Reloading, Reload, ReloadFails, CloseAmbiguous, RecoveryFailed,
    FinishFence, Conclude
<1>7. CASE Finishing
  BY <1>7 DEF Finishing, Deliver, Answer
<1>8. CASE \E r \in Rails : Rebuild(r)
  BY <1>8 DEF Rebuild
<1>9. CASE Database
  BY <1>9 DEF Database, ConnectionDies, ServerResolves, ServerCloses
<1>10. CASE Crash
  BY <1>10 DEF Crash
<1>11. CASE UNCHANGED vars
  BY <1>11 DEF vars
<1>12. QED
  BY <1>1, <1>2, <1>3, <1>4, <1>5, <1>6,
     <1>7, <1>8, <1>9, <1>10, <1>11 DEF Next, Work

\* Every step keeps late commits off the certain rails.
LEMMA LateStep == Inv /\ [Next]_vars => NoLateCommit'
<1> SUFFICES ASSUME Inv, [Next]_vars PROVE NoLateCommit'
  OBVIOUS
<1> USE RailAssumption, NoJobAssumption, NoImageAssumption
    DEF Inv, TypeOK, StepKnows, LockKept, NoLateCommit, FencedReload,
        server, rails, Holders, Steps, Goals, Answers, Committed
<1>1. CASE Calling
  BY <1>1 DEF Calling, Submit, StopWaiting
<1>2. CASE Writing
  BY <1>2 DEF Writing, Take, Connect, ConnectFails, Refuse, FailInProcess, Panic,
    SendCommit, Ambiguous, Conclude
<1>3. CASE Committing
  BY <1>3 DEF Committing, CommitOk, StatementRefused, CommitConflict, CommitRefused, ReplyLost,
    Ambiguous, Conclude
<1>4. CASE Following
  BY <1>4 DEF Following, Follow, CannotFollow, FailAfterCommit, Unfollowed,
    Ambiguous, Conclude
<1>5. CASE Fencing
  BY <1>5 DEF Fencing, KillOld, NoFence, NeedsNoFence, TakeLock, LockTimesOut,
    RecoveryFailed, Conclude
<1>6. CASE Reloading
  BY <1>6 DEF Reloading, Reload, ReloadFails, CloseAmbiguous, RecoveryFailed,
    FinishFence, Conclude
<1>7. CASE Finishing
  BY <1>7 DEF Finishing, Deliver, Answer
<1>8. CASE \E r \in Rails : Rebuild(r)
  BY <1>8 DEF Rebuild
<1>9. CASE Database
  BY <1>9 DEF Database, ConnectionDies, ServerResolves, ServerCloses
<1>10. CASE Crash
  BY <1>10 DEF Crash
<1>11. CASE UNCHANGED vars
  BY <1>11 DEF vars
<1>12. QED
  BY <1>1, <1>2, <1>3, <1>4, <1>5, <1>6,
     <1>7, <1>8, <1>9, <1>10, <1>11 DEF Next, Work

\* Every step keeps a reload behind its fence.
LEMMA FencedStep == Inv /\ [Next]_vars => FencedReload'
<1> SUFFICES ASSUME Inv, [Next]_vars PROVE FencedReload'
  OBVIOUS
<1> USE RailAssumption, NoJobAssumption, NoImageAssumption
    DEF Inv, TypeOK, StepKnows, LockKept, NoLateCommit, FencedReload,
        server, rails, Holders, Steps, Goals, Answers, Committed
<1>1. CASE Calling
  BY <1>1 DEF Calling, Submit, StopWaiting
<1>2. CASE Writing
  BY <1>2 DEF Writing, Take, Connect, ConnectFails, Refuse, FailInProcess, Panic,
    SendCommit, Ambiguous, Conclude
<1>3. CASE Committing
  BY <1>3 DEF Committing, CommitOk, StatementRefused, CommitConflict, CommitRefused, ReplyLost,
    Ambiguous, Conclude
<1>4. CASE Following
  BY <1>4 DEF Following, Follow, CannotFollow, FailAfterCommit, Unfollowed,
    Ambiguous, Conclude
<1>5. CASE Fencing
  BY <1>5 DEF Fencing, KillOld, NoFence, NeedsNoFence, TakeLock, LockTimesOut,
    RecoveryFailed, Conclude
<1>6. CASE Reloading
  BY <1>6 DEF Reloading, Reload, ReloadFails, CloseAmbiguous, RecoveryFailed,
    FinishFence, Conclude
<1>7. CASE Finishing
  BY <1>7 DEF Finishing, Deliver, Answer
<1>8. CASE \E r \in Rails : Rebuild(r)
  BY <1>8 DEF Rebuild
<1>9. CASE Database
  BY <1>9 DEF Database, ConnectionDies, ServerResolves, ServerCloses
<1>10. CASE Crash
  BY <1>10 DEF Crash
<1>11. CASE UNCHANGED vars
  BY <1>11 DEF vars
<1>12. QED
  BY <1>1, <1>2, <1>3, <1>4, <1>5, <1>6,
     <1>7, <1>8, <1>9, <1>10, <1>11 DEF Next, Work

\* Every step sends a write at most once.
LEMMA SentStep == Inv /\ [Next]_vars => SentOnce'
<1> SUFFICES ASSUME Inv, [Next]_vars PROVE SentOnce'
  OBVIOUS
<1> USE RailAssumption, NoJobAssumption, NoImageAssumption
    DEF Inv, TypeOK, LockKept, SentOnce, AnswersTrue, StepKnows, Unsent,
        server, rails, Answers, Steps, Goals, Committed
<1>1. CASE Calling
  <2>1. ASSUME NEW j \in Jobs, Submit(j) PROVE SentOnce'
    BY <2>1 DEF Submit
  <2>2. ASSUME NEW j \in Jobs, StopWaiting(j) PROVE SentOnce'
    BY <2>2 DEF StopWaiting
  <2>3. QED
    BY <1>1, <2>1, <2>2 DEF Calling
<1>2. CASE Writing
  <2>1. CASE Take
    BY <2>1 DEF Take
  <2>2. CASE Panic
    BY <2>2 DEF Panic
  <2>3. ASSUME NEW sent \in {"Unknown", "InFlight"}, SendCommit(sent)
        PROVE  SentOnce'
    BY <2>3 DEF SendCommit
  <2>4. CASE Connect \/ ConnectFails \/ Refuse \/ FailInProcess
    BY <2>4 DEF Connect, ConnectFails, Refuse, FailInProcess, Ambiguous, Conclude
  <2>5. QED
    BY <1>2, <2>1, <2>2, <2>3, <2>4 DEF Writing
<1>3. CASE Committing
  BY <1>3 DEF Committing, CommitOk, StatementRefused, CommitConflict, CommitRefused, ReplyLost,
    Ambiguous, Conclude
<1>4. CASE Following
  BY <1>4 DEF Following, Follow, CannotFollow, FailAfterCommit, Unfollowed,
    Ambiguous, Conclude
<1>5. CASE Fencing
  BY <1>5 DEF Fencing, KillOld, NoFence, NeedsNoFence, TakeLock, LockTimesOut,
    RecoveryFailed, Conclude
<1>6. CASE Reloading
  BY <1>6 DEF Reloading, Reload, ReloadFails, CloseAmbiguous, RecoveryFailed,
    FinishFence, Conclude
<1>7. CASE Finishing
  BY <1>7 DEF Finishing, Deliver, Answer
<1>8. CASE \E r \in Rails : Rebuild(r)
  BY <1>8 DEF Rebuild
<1>9. CASE Database
  BY <1>9 DEF Database, ConnectionDies, ServerResolves, ServerCloses
<1>10. CASE Crash
  BY <1>10 DEF Crash
<1>11. CASE UNCHANGED vars
  BY <1>11 DEF vars
<1>12. QED
  BY <1>1, <1>2, <1>3, <1>4, <1>5, <1>6,
     <1>7, <1>8, <1>9, <1>10, <1>11 DEF Next, Work

\* Every step keeps the answers true.
LEMMA AnswersStep == Inv /\ [Next]_vars => AnswersTrue'
<1> SUFFICES ASSUME Inv, [Next]_vars PROVE AnswersTrue'
  OBVIOUS
<1> USE RailAssumption, NoJobAssumption, NoImageAssumption
    DEF Inv, TypeOK, LockKept, SentOnce, AnswersTrue, StepKnows, Unsent,
        server, rails, Answers, Steps, Goals, Committed
<1>1. CASE Calling
  BY <1>1 DEF Calling, Submit, StopWaiting
<1>2. CASE Writing
  BY <1>2 DEF Writing, Take, Connect, ConnectFails, Refuse, FailInProcess, Panic,
    SendCommit, Ambiguous, Conclude
<1>3. CASE Committing
  BY <1>3 DEF Committing, CommitOk, StatementRefused, CommitConflict, CommitRefused, ReplyLost,
    Ambiguous, Conclude
<1>4. CASE Following
  BY <1>4 DEF Following, Follow, CannotFollow, FailAfterCommit, Unfollowed,
    Ambiguous, Conclude
<1>5. CASE Fencing
  BY <1>5 DEF Fencing, KillOld, NoFence, NeedsNoFence, TakeLock, LockTimesOut,
    RecoveryFailed, Conclude
<1>6. CASE Reloading
  BY <1>6 DEF Reloading, Reload, ReloadFails, CloseAmbiguous, RecoveryFailed,
    FinishFence, Conclude
<1>7. CASE Finishing
  BY <1>7 DEF Finishing, Deliver, Answer
<1>8. CASE \E r \in Rails : Rebuild(r)
  BY <1>8 DEF Rebuild
<1>9. CASE Database
  BY <1>9 DEF Database, ConnectionDies, ServerResolves, ServerCloses
<1>10. CASE Crash
  BY <1>10 DEF Crash
<1>11. CASE UNCHANGED vars
  BY <1>11 DEF vars
<1>12. QED
  BY <1>1, <1>2, <1>3, <1>4, <1>5, <1>6,
     <1>7, <1>8, <1>9, <1>10, <1>11 DEF Next, Work

\* Every step keeps a certain rail's image equal to the store.
LEMMA ExactStep == Inv /\ [Next]_vars => ImageExact'
<1> SUFFICES ASSUME Inv, [Next]_vars PROVE ImageExact'
  OBVIOUS
<1> USE RailAssumption, NoJobAssumption, NoImageAssumption
    DEF Inv, TypeOK, LockKept, SentOnce, NoLateCommit, StepKnows,
        ImageExact, Unsent, server, rails, Answers, Steps, Goals,
        Committed
<1>1. CASE Calling
  BY <1>1 DEF Calling, Submit, StopWaiting
<1>2. CASE Writing
  BY <1>2 DEF Writing, Take, Connect, ConnectFails, Refuse, FailInProcess, Panic,
    SendCommit, Ambiguous, Conclude
<1>3. CASE Committing
  BY <1>3 DEF Committing, CommitOk, StatementRefused, CommitConflict, CommitRefused, ReplyLost,
    Ambiguous, Conclude
<1>4. CASE Following
  BY <1>4 DEF Following, Follow, CannotFollow, FailAfterCommit, Unfollowed,
    Ambiguous, Conclude
<1>5. CASE Fencing
  BY <1>5 DEF Fencing, KillOld, NoFence, NeedsNoFence, TakeLock, LockTimesOut,
    RecoveryFailed, Conclude
<1>6. CASE Reloading
  BY <1>6 DEF Reloading, Reload, ReloadFails, CloseAmbiguous, RecoveryFailed,
    FinishFence, Conclude
<1>7. CASE Finishing
  BY <1>7 DEF Finishing, Deliver, Answer
<1>8. CASE \E r \in Rails : Rebuild(r)
  BY <1>8 DEF Rebuild
<1>9. CASE Database
  BY <1>9 DEF Database, ConnectionDies, ServerResolves, ServerCloses
<1>10. CASE Crash
  BY <1>10 DEF Crash
<1>11. CASE UNCHANGED vars
  BY <1>11 DEF vars
<1>12. QED
  BY <1>1, <1>2, <1>3, <1>4, <1>5, <1>6,
     <1>7, <1>8, <1>9, <1>10, <1>11 DEF Next, Work

\* Every step keeps uncommitted writes out of the images.
LEMMA SoundStep == Inv /\ [Next]_vars => ImageSound'
<1> SUFFICES ASSUME Inv, [Next]_vars PROVE ImageSound'
  OBVIOUS
<1> USE RailAssumption, NoJobAssumption, NoImageAssumption
    DEF Inv, TypeOK, LockKept, SentOnce, NoLateCommit, StepKnows,
        ImageExact, Unsent, server, rails, Answers, Steps, Goals,
        Committed, ImageSound
<1>1. CASE Calling
  BY <1>1 DEF Calling, Submit, StopWaiting
<1>2. CASE Writing
  BY <1>2 DEF Writing, Take, Connect, ConnectFails, Refuse, FailInProcess, Panic,
    SendCommit, Ambiguous, Conclude
<1>3. CASE Committing
  BY <1>3 DEF Committing, CommitOk, StatementRefused, CommitConflict, CommitRefused, ReplyLost,
    Ambiguous, Conclude
<1>4. CASE Following
  BY <1>4 DEF Following, Follow, CannotFollow, FailAfterCommit, Unfollowed,
    Ambiguous, Conclude
<1>5. CASE Fencing
  BY <1>5 DEF Fencing, KillOld, NoFence, NeedsNoFence, TakeLock, LockTimesOut,
    RecoveryFailed, Conclude
<1>6. CASE Reloading
  BY <1>6 DEF Reloading, Reload, ReloadFails, CloseAmbiguous, RecoveryFailed,
    FinishFence, Conclude
<1>7. CASE Finishing
  BY <1>7 DEF Finishing, Deliver, Answer
<1>8. CASE \E r \in Rails : Rebuild(r)
  BY <1>8 DEF Rebuild
<1>9. CASE Database
  BY <1>9 DEF Database, ConnectionDies, ServerResolves, ServerCloses
<1>10. CASE Crash
  BY <1>10 DEF Crash
<1>11. CASE UNCHANGED vars
  BY <1>11 DEF vars
<1>12. QED
  BY <1>1, <1>2, <1>3, <1>4, <1>5, <1>6,
     <1>7, <1>8, <1>9, <1>10, <1>11 DEF Next, Work

\* Every step keeps the writes answered ok in the images.
LEMMA ShownStep == Inv /\ [Next]_vars => OkShown'
<1> SUFFICES ASSUME Inv, [Next]_vars PROVE OkShown'
  OBVIOUS
<1> USE RailAssumption, NoJobAssumption, NoImageAssumption
    DEF Inv, TypeOK, SentOnce, StepKnows, AnswersTrue, OkShown, server,
        rails, Answers, Steps, Goals, Committed
<1>1. CASE Calling
  BY <1>1 DEF Calling, Submit, StopWaiting
<1>2. CASE Writing
  BY <1>2 DEF Writing, Take, Connect, ConnectFails, Refuse, FailInProcess, Panic,
    SendCommit, Ambiguous, Conclude
<1>3. CASE Committing
  BY <1>3 DEF Committing, CommitOk, StatementRefused, CommitConflict, CommitRefused, ReplyLost,
    Ambiguous, Conclude
<1>4. CASE Following
  BY <1>4 DEF Following, Follow, CannotFollow, FailAfterCommit, Unfollowed,
    Ambiguous, Conclude
<1>5. CASE Fencing
  BY <1>5 DEF Fencing, KillOld, NoFence, NeedsNoFence, TakeLock, LockTimesOut,
    RecoveryFailed, Conclude
<1>6. CASE Reloading
  BY <1>6 DEF Reloading, Reload, ReloadFails, CloseAmbiguous, RecoveryFailed,
    FinishFence, Conclude
<1>7. CASE Finishing
  BY <1>7 DEF Finishing, Deliver, Answer
<1>8. CASE \E r \in Rails : Rebuild(r)
  BY <1>8 DEF Rebuild
<1>9. CASE Database
  BY <1>9 DEF Database, ConnectionDies, ServerResolves, ServerCloses
<1>10. CASE Crash
  BY <1>10 DEF Crash
<1>11. CASE UNCHANGED vars
  BY <1>11 DEF vars
<1>12. QED
  BY <1>1, <1>2, <1>3, <1>4, <1>5, <1>6,
     <1>7, <1>8, <1>9, <1>10, <1>11 DEF Next, Work

-----------------------------------------------------------------------------
\* The invariant holds in every reachable state.
THEOREM Invariance == Spec => []Inv
<1>1. Init => Inv
  BY RailAssumption, NoJobAssumption, NoImageAssumption
     DEF Init, Inv, TypeOK, StepKnows, LockKept, NoLateCommit, FencedReload,
         SentOnce, Unsent, AnswersTrue, ImageExact, ImageSound, OkShown,
         Holders, Steps, Phases, Goals, Answers, Committed
<1>2. Inv /\ [Next]_vars => Inv'
  <2>1. SUFFICES ASSUME Inv, [Next]_vars PROVE Inv'
    OBVIOUS
  <2>2. TypeOK' /\ StepKnows' /\ LockKept' /\ NoLateCommit' /\ FencedReload'
    BY <2>1, TypeStep, KnowsStep, LockStep, LateStep, FencedStep
  <2>3. SentOnce' /\ AnswersTrue' /\ ImageExact' /\ ImageSound' /\ OkShown'
    BY <2>1, SentStep, AnswersStep, ExactStep, SoundStep, ShownStep
  <2>4. QED
    BY <2>2, <2>3 DEF Inv
<1>3. QED
  BY <1>1, <1>2, PTL DEF Spec

\* The variables have their types in every reachable state of the owner.
THEOREM TypeCorrect == Spec => []TypeOK
<1>1. Inv => TypeOK
  BY DEF Inv
<1>2. QED
  BY <1>1, Invariance, PTL

\* A certain rail's image is the store, whatever commits were ambiguous before.
THEOREM CertainImages == Spec => []ImageExact
<1>1. Inv => ImageExact
  BY DEF Inv
<1>2. QED
  BY <1>1, Invariance, PTL

\* No commit lands on a certain rail behind the owner's back.
THEOREM FenceHolds == Spec => [](NoLateCommit /\ FencedReload)
<1>1. Inv => NoLateCommit /\ FencedReload
  BY DEF Inv
<1>2. QED
  BY <1>1, Invariance, PTL

\* Every answer is true, now and later.
THEOREM TruthfulAnswers == Spec => []AnswersTrue
<1>1. Inv => AnswersTrue
  BY DEF Inv
<1>2. QED
  BY <1>1, Invariance, PTL

\* A caller told ok reads its own write, through uncertainty and recovery.
THEOREM OwnWritesRead == Spec => []ReadYourWrites
<1>1. Inv => ReadYourWrites
  BY DEF Inv, ReadYourWrites, Reads, OkShown, AnswersTrue, Committed
<1>2. QED
  BY <1>1, Invariance, PTL

\* One step never takes a write out of what the reads of a rail show.
LEMMA ReadsStep ==
  Inv /\ [Next]_vars =>
    \A r \in Rails :
      Reads(r) # NoImage /\ Reads(r)' # NoImage => Reads(r) \subseteq Reads(r)'
<1> SUFFICES ASSUME Inv, [Next]_vars, NEW r \in Rails,
                    Reads(r) # NoImage, Reads(r)' # NoImage
             PROVE  Reads(r) \subseteq Reads(r)'
  OBVIOUS
<1>1. store \subseteq store'
  <2> USE RailAssumption, NoJobAssumption, NoImageAssumption
    DEF server, rails
  <2>1. CASE Calling
    BY <2>1 DEF Calling, Submit, StopWaiting
  <2>2. CASE Writing
    BY <2>2 DEF Writing, Take, Connect, ConnectFails, Refuse, FailInProcess, Panic,
      SendCommit, Ambiguous, Conclude
  <2>3. CASE Committing
    BY <2>3 DEF Committing, CommitOk, StatementRefused, CommitConflict, CommitRefused, ReplyLost,
      Ambiguous, Conclude
  <2>4. CASE Following
    BY <2>4 DEF Following, Follow, CannotFollow, FailAfterCommit, Unfollowed,
      Ambiguous, Conclude
  <2>5. CASE Fencing
    BY <2>5 DEF Fencing, KillOld, NoFence, NeedsNoFence, TakeLock, LockTimesOut,
      RecoveryFailed, Conclude
  <2>6. CASE Reloading
    BY <2>6 DEF Reloading, Reload, ReloadFails, CloseAmbiguous, RecoveryFailed,
      FinishFence, Conclude
  <2>7. CASE Finishing
    BY <2>7 DEF Finishing, Deliver, Answer
  <2>8. CASE \E s \in Rails : Rebuild(s)
    BY <2>8 DEF Rebuild
  <2>9. CASE Database
    BY <2>9 DEF Database, ConnectionDies, ServerResolves, ServerCloses
  <2>10. CASE Crash
    BY <2>10 DEF Crash
  <2>11. CASE UNCHANGED vars
    BY <2>11 DEF vars
  <2>12. QED
    BY <2>1, <2>2, <2>3, <2>4, <2>5, <2>6,
       <2>7, <2>8, <2>9, <2>10, <2>11 DEF Next, Work
<1>2. QED
  <2> USE RailAssumption, NoJobAssumption, NoImageAssumption
    DEF Inv, TypeOK, StepKnows, SentOnce, ImageExact, ImageSound, Reads,
        Committed, server, rails
  <2>1. CASE Calling
    BY <2>1 DEF Calling, Submit, StopWaiting
  <2>2. CASE Writing
    BY <2>2 DEF Writing, Take, Connect, ConnectFails, Refuse, FailInProcess, Panic,
      SendCommit, Ambiguous, Conclude
  <2>3. CASE Committing
    BY <2>3 DEF Committing, CommitOk, StatementRefused, CommitConflict, CommitRefused, ReplyLost,
      Ambiguous, Conclude
  <2>4. CASE Following
    BY <2>4 DEF Following, Follow, CannotFollow, FailAfterCommit, Unfollowed,
      Ambiguous, Conclude
  <2>5. CASE Fencing
    BY <2>5 DEF Fencing, KillOld, NoFence, NeedsNoFence, TakeLock, LockTimesOut,
      RecoveryFailed, Conclude
  <2>6. CASE Reloading
    BY <2>6 DEF Reloading, Reload, ReloadFails, CloseAmbiguous, RecoveryFailed,
      FinishFence, Conclude
  <2>7. CASE Finishing
    BY <2>7 DEF Finishing, Deliver, Answer
  <2>8. CASE \E s \in Rails : Rebuild(s)
    BY <2>8 DEF Rebuild
  <2>9. CASE Database
    BY <2>9 DEF Database, ConnectionDies, ServerResolves, ServerCloses
  <2>10. CASE Crash
    BY <2>10 DEF Crash
  <2>11. CASE UNCHANGED vars
    BY <2>11 DEF vars
  <2>12. QED
    BY <2>1, <2>2, <2>3, <2>4, <2>5, <2>6,
       <2>7, <2>8, <2>9, <2>10, <2>11 DEF Next, Work

\* Reads never go back, for every number of rails, jobs, crashes and recoveries.
THEOREM MonotoneReads == Spec => ReadsNeverGoBack
<1>1. Inv /\ [Next]_vars =>
        [\A r \in Rails :
           Reads(r) # NoImage /\ Reads(r)' # NoImage => Reads(r) \subseteq Reads(r)']_vars
  BY ReadsStep
<1>2. QED
  BY <1>1, Invariance, PTL DEF Spec, ReadsNeverGoBack

\* An uncertain rail keeps the image it last published.
THEOREM PublishedKept == Spec => KeepsPublished
<1>1. ASSUME Inv, [Next]_vars, NEW r \in uncertain', image[r] # NoImage
      PROVE  image'[r] # NoImage
  <2> USE <1>1, RailAssumption, NoJobAssumption, NoImageAssumption
    DEF Inv, TypeOK, StepKnows, SentOnce, Committed, server, rails
  <2>1. CASE Calling
    BY <2>1 DEF Calling, Submit, StopWaiting
  <2>2. CASE Writing
    BY <2>2 DEF Writing, Take, Connect, ConnectFails, Refuse, FailInProcess, Panic,
      SendCommit, Ambiguous, Conclude
  <2>3. CASE Committing
    BY <2>3 DEF Committing, CommitOk, StatementRefused, CommitConflict, CommitRefused, ReplyLost,
      Ambiguous, Conclude
  <2>4. CASE Following
    BY <2>4 DEF Following, Follow, CannotFollow, FailAfterCommit, Unfollowed,
      Ambiguous, Conclude
  <2>5. CASE Fencing
    BY <2>5 DEF Fencing, KillOld, NoFence, NeedsNoFence, TakeLock, LockTimesOut,
      RecoveryFailed, Conclude
  <2>6. CASE Reloading
    BY <2>6 DEF Reloading, Reload, ReloadFails, CloseAmbiguous, RecoveryFailed,
      FinishFence, Conclude
  <2>7. CASE Finishing
    BY <2>7 DEF Finishing, Deliver, Answer
  <2>8. CASE \E s \in Rails : Rebuild(s)
    BY <2>8 DEF Rebuild
  <2>9. CASE Database
    BY <2>9 DEF Database, ConnectionDies, ServerResolves, ServerCloses
  <2>10. CASE Crash
    BY <2>10 DEF Crash
  <2>11. CASE UNCHANGED vars
    BY <2>11 DEF vars
  <2>12. QED
    BY <2>1, <2>2, <2>3, <2>4, <2>5, <2>6,
       <2>7, <2>8, <2>9, <2>10, <2>11 DEF Next, Work
<1>2. Inv /\ [Next]_vars =>
        [\A r \in uncertain' : image[r] # NoImage => image'[r] # NoImage]_vars
  BY <1>1
<1>3. QED
  BY <1>2, Invariance, PTL DEF Spec, KeepsPublished

-----------------------------------------------------------------------------
(* The owner implements the promise of module Serving.  Each conjunct of   *)
(* the promise's step is first stated of the writer's own variables.       *)

\* A step stores at most one write, and never one answered as not stored.
LEMMA LandsStep ==
  Inv /\ [Next]_vars =>
    \/ store' = store
    \/ \E j \in Jobs : caller[j] \notin {"failed", "refused"} /\ store' = store \cup {j}
<1> SUFFICES ASSUME Inv, [Next]_vars
             PROVE  \/ store' = store
                    \/ \E j \in Jobs : /\ caller[j] \notin {"failed", "refused"}
                                       /\ store' = store \cup {j}
  OBVIOUS
<1> USE RailAssumption, NoJobAssumption
    DEF Inv, TypeOK, LockKept, SentOnce, AnswersTrue, server, rails
<1>1. CASE Calling
  BY <1>1 DEF Calling, Submit, StopWaiting
<1>2. CASE Writing
  BY <1>2 DEF Writing, Take, Connect, ConnectFails, Refuse, FailInProcess, Panic,
    SendCommit, Ambiguous, Conclude
<1>3. CASE Committing
  BY <1>3 DEF Committing, CommitOk, StatementRefused, CommitConflict, CommitRefused, ReplyLost,
    Ambiguous, Conclude
<1>4. CASE Following
  BY <1>4 DEF Following, Follow, CannotFollow, FailAfterCommit, Unfollowed,
    Ambiguous, Conclude
<1>5. CASE Fencing
  BY <1>5 DEF Fencing, KillOld, NoFence, NeedsNoFence, TakeLock, LockTimesOut,
    RecoveryFailed, Conclude
<1>6. CASE Reloading
  BY <1>6 DEF Reloading, Reload, ReloadFails, CloseAmbiguous, RecoveryFailed,
    FinishFence, Conclude
<1>7. CASE Finishing
  BY <1>7 DEF Finishing, Deliver, Answer
<1>8. CASE \E r \in Rails : Rebuild(r)
  BY <1>8 DEF Rebuild
<1>9. CASE Database
  BY <1>9 DEF Database, ConnectionDies, ServerResolves, ServerCloses
<1>10. CASE Crash
  <2>1. CASE inflight = NoJob
    <3>1. {inflight} \ {NoJob} = {}
      BY <2>1
    <3>2. QED
      BY <1>10, <3>1 DEF Crash
  <2>2. CASE inflight # NoJob
    <3>1. {inflight} \ {NoJob} = {inflight}
      BY <2>2
    <3>2. QED
      BY <1>10, <2>2, <3>1 DEF Crash
  <2>3. QED
    BY <2>1, <2>2
<1>11. CASE UNCHANGED vars
  BY <1>11 DEF vars
<1>12. QED
  BY <1>1, <1>2, <1>3, <1>4, <1>5, <1>6,
     <1>7, <1>8, <1>9, <1>10, <1>11 DEF Next, Work

\* A step leaves a rail's image, drops it or makes it all of what is stored.
LEMMA ImageMoves ==
  Inv /\ [Next]_vars =>
    \A r \in Rails : image'[r] \in {image[r], Committed(r)', NoImage}
<1> SUFFICES ASSUME Inv, [Next]_vars, NEW r \in Rails
             PROVE  image'[r] \in {image[r], Committed(r)', NoImage}
  OBVIOUS
<1> USE RailAssumption, NoJobAssumption, NoImageAssumption
    DEF Inv, TypeOK, StepKnows, ImageExact, Committed, server, rails
<1>1. CASE Calling
  BY <1>1 DEF Calling, Submit, StopWaiting
<1>2. CASE Writing
  BY <1>2 DEF Writing, Take, Connect, ConnectFails, Refuse, FailInProcess, Panic,
    SendCommit, Ambiguous, Conclude
<1>3. CASE Committing
  BY <1>3 DEF Committing, CommitOk, StatementRefused, CommitConflict, CommitRefused, ReplyLost,
    Ambiguous, Conclude
<1>4. CASE Following
  BY <1>4 DEF Following, Follow, CannotFollow, FailAfterCommit, Unfollowed,
    Ambiguous, Conclude
<1>5. CASE Fencing
  BY <1>5 DEF Fencing, KillOld, NoFence, NeedsNoFence, TakeLock, LockTimesOut,
    RecoveryFailed, Conclude
<1>6. CASE Reloading
  BY <1>6 DEF Reloading, Reload, ReloadFails, CloseAmbiguous, RecoveryFailed,
    FinishFence, Conclude
<1>7. CASE Finishing
  BY <1>7 DEF Finishing, Deliver, Answer
<1>8. CASE \E s \in Rails : Rebuild(s)
  BY <1>8 DEF Rebuild
<1>9. CASE Database
  BY <1>9 DEF Database, ConnectionDies, ServerResolves, ServerCloses
<1>10. CASE Crash
  BY <1>10 DEF Crash
<1>11. CASE UNCHANGED vars
  BY <1>11 DEF vars
<1>12. QED
  BY <1>1, <1>2, <1>3, <1>4, <1>5, <1>6,
     <1>7, <1>8, <1>9, <1>10, <1>11 DEF Next, Work

\* What a rail's reads show moves with its image.
LEMMA ShowsStep ==
  Inv /\ [Next]_vars =>
    \A r \in Rails : Reads(r)' \in {Reads(r), Committed(r)', NoImage}
BY ImageMoves DEF Reads, Committed

\* A caller is told once: a step changes only what an unanswered caller knows.
LEMMA TellsStep ==
  Inv /\ [Next]_vars =>
    \A j \in Jobs : caller'[j] = caller[j] \/ caller[j] \in {"idle", "waiting"}
<1> SUFFICES ASSUME Inv, [Next]_vars, NEW j \in Jobs
             PROVE  caller'[j] = caller[j] \/ caller[j] \in {"idle", "waiting"}
  OBVIOUS
<1> USE RailAssumption, NoJobAssumption DEF Inv, TypeOK, server, rails
<1>1. CASE Calling
  BY <1>1 DEF Calling, Submit, StopWaiting
<1>2. CASE Writing
  BY <1>2 DEF Writing, Take, Connect, ConnectFails, Refuse, FailInProcess, Panic,
    SendCommit, Ambiguous, Conclude
<1>3. CASE Committing
  BY <1>3 DEF Committing, CommitOk, StatementRefused, CommitConflict, CommitRefused, ReplyLost,
    Ambiguous, Conclude
<1>4. CASE Following
  BY <1>4 DEF Following, Follow, CannotFollow, FailAfterCommit, Unfollowed,
    Ambiguous, Conclude
<1>5. CASE Fencing
  BY <1>5 DEF Fencing, KillOld, NoFence, NeedsNoFence, TakeLock, LockTimesOut,
    RecoveryFailed, Conclude
<1>6. CASE Reloading
  BY <1>6 DEF Reloading, Reload, ReloadFails, CloseAmbiguous, RecoveryFailed,
    FinishFence, Conclude
<1>7. CASE Finishing
  BY <1>7 DEF Finishing, Deliver, Answer
<1>8. CASE \E r \in Rails : Rebuild(r)
  BY <1>8 DEF Rebuild
<1>9. CASE Database
  BY <1>9 DEF Database, ConnectionDies, ServerResolves, ServerCloses
<1>10. CASE Crash
  BY <1>10 DEF Crash
<1>11. CASE UNCHANGED vars
  BY <1>11 DEF vars
<1>12. QED
  BY <1>1, <1>2, <1>3, <1>4, <1>5, <1>6,
     <1>7, <1>8, <1>9, <1>10, <1>11 DEF Next, Work

\* The writer implements the promise made to its callers: every behaviour of
\* the owner, its recovery and its images is one of module Serving, for every
\* set of rails and jobs.
THEOREM PromiseKept == Spec => KeepsPromise
<1>1. Init => Promise!Init
  <2> SUFFICES ASSUME Init PROVE Promise!Init
    OBVIOUS
  <2>1. \A r \in Rails : Reads(r) = {}
    BY DEF Init, Reads, Committed
  <2>2. \A j \in Jobs : Said(caller[j]) = "nothing"
    BY DEF Init, Said
  <2>3. QED
    BY <2>1, <2>2 DEF Init, Promise!Init
<1>2. ASSUME Inv, Inv', [Next]_vars
      PROVE  Promise!Next
  <2>1. Promise!Lands
    BY <1>2, LandsStep DEF Promise!Lands, Said, Inv, TypeOK, Answers
  <2>2. Promise!Shows
    BY <1>2, ShowsStep DEF Promise!Shows, Promise!OnRail, Committed
  <2>3. ASSUME NEW j \in Jobs
        PROVE  \/ Said(caller'[j]) = Said(caller[j])
               \/ Said(caller[j]) = "nothing" /\ Promise!Truth(j, Said(caller'[j]))
    <3>1. CASE caller'[j] = caller[j]
      BY <3>1
    <3>2. CASE caller[j] \in {"idle", "waiting"}
      <4>1. Said(caller[j]) = "nothing"
        BY <3>2 DEF Said
      <4>2. AnswersTrue' /\ ReadYourWrites'
        BY <1>2 DEF Inv, ReadYourWrites, Reads, OkShown, AnswersTrue, Committed
      <4>3. CASE caller'[j] \in {"idle", "waiting"}
        BY <4>1, <4>3 DEF Said
      <4>4. CASE caller'[j] \notin {"idle", "waiting"}
        BY <4>1, <4>2, <4>4, RailAssumption
        DEF Said, Promise!Truth, AnswersTrue, ReadYourWrites
      <4>5. QED
        BY <4>3, <4>4
    <3>3. QED
      BY <1>2, <3>1, <3>2, TellsStep
  <2>4. Promise!Tells
    BY <2>3 DEF Promise!Tells
  <2>5. QED
    BY <2>1, <2>2, <2>4 DEF Promise!Next
<1>3. Inv /\ Inv' /\ [Next]_vars => [Promise!Next]_(Promise!svars)
  BY <1>2
<1>4. QED
  BY <1>1, <1>3, Invariance, PTL DEF Spec, KeepsPromise, Promise!Spec

-----------------------------------------------------------------------------
(***************************************************************************)
(* The mail half of the search index, for every set of rails, writes and   *)
(* messages.  A step of the index is a step of the owner or leaves it      *)
(* alone, so Inv holds beside it.                                          *)
(*                                                                         *)
(* What a search finds depends on what the index is told between the end   *)
(* of a write and its answer.  The invariant says that the message about   *)
(* to be told can be read (PostedRead); that the index holds nothing the   *)
(* rail's reads do not (IndexShown); that the write that just ended is not *)
(* counted as seen before the index is told (Uncounted); that the count    *)
(* may move for it only if the index held the whole board before           *)
(* (HeldBefore); and that the answer on its way is indexed (OkNext).       *)
(***************************************************************************)

\* The message about to be told to the index shows in the rail's reads.
PostedRead == posted # NoJob => Mail \notin uncertain /\ posted \in Reads(Mail)

\* The index holds stored mail, and none that a held image lacks.
IndexShown ==
  /\ index \subseteq Committed(Mail)
  /\ image[Mail] # NoImage => index \subseteq image[Mail]

\* A mail write that has ended is not yet part of what the index has seen.
Uncounted == pc = "deliver" /\ RailOf[cur] = Mail => seenAt < changes

\* Every mail write answered ok is indexed.
OkIndexed == \A j \in Jobs : caller[j] = "ok" /\ RailOf[j] = Mail => j \in index

\* The count may move for the message only from the write just before it.
HeldBefore == posted # NoJob /\ seenAt = changes - 1 /\ ~behind => OkIndexed

\* The write about to be answered ok is indexed, or a search reads the board.
OkNext == pc = "answer" /\ result = "ok" /\ RailOf[cur] = Mail /\ BoardHeld => cur \in index

MailInv ==
  /\ MailTypeOK /\ PostedRead /\ IndexShown /\ Uncounted
  /\ HeldBefore /\ OkNext /\ FoundOnceAnswered

-----------------------------------------------------------------------------
\* A step of the index is a step of the owner, or leaves the owner alone.
LEMMA OwnerStep == [MailNext]_mailVars => [Next]_vars
BY DEF MailNext, Scoped, Unpublished, Changed, Refresh, Restart, Next, Work,
       Finishing, mailVars

\* The owner's invariant holds beside the index.
LEMMA OwnerHolds == MailSpec => []Inv
<1>1. MailInit => Init
  BY DEF MailInit
<1>2. MailSpec => Spec
  BY <1>1, OwnerStep, PTL DEF MailSpec, Spec
<1>3. QED
  BY <1>2, Invariance

\* What is answered ok in one step was on its way before it.
LEMMA OkComes ==
  ASSUME Inv, [Next]_vars, NEW j \in Jobs, caller'[j] = "ok"
  PROVE  \/ caller[j] = "ok"
         \/ pc = "answer" /\ pc' = "idle" /\ cur = j /\ result = "ok"
<1> USE RailAssumption, NoJobAssumption DEF Inv, TypeOK, server, rails
<1>1. CASE Calling
  BY <1>1 DEF Calling, Submit, StopWaiting
<1>2. CASE Writing
  BY <1>2 DEF Writing, Take, Connect, ConnectFails, Refuse, FailInProcess, Panic,
    SendCommit, Ambiguous, Conclude
<1>3. CASE Committing
  BY <1>3 DEF Committing, CommitOk, StatementRefused, CommitConflict, CommitRefused, ReplyLost,
    Ambiguous, Conclude
<1>4. CASE Following
  BY <1>4 DEF Following, Follow, CannotFollow, FailAfterCommit, Unfollowed,
    Ambiguous, Conclude
<1>5. CASE Fencing
  BY <1>5 DEF Fencing, KillOld, NoFence, NeedsNoFence, TakeLock, LockTimesOut,
    RecoveryFailed, Conclude
<1>6. CASE Reloading
  BY <1>6 DEF Reloading, Reload, ReloadFails, CloseAmbiguous, RecoveryFailed,
    FinishFence, Conclude
<1>7. CASE Deliver
  BY <1>7 DEF Deliver
<1>8. CASE Answer
  BY <1>8 DEF Answer
<1>9. CASE \E r \in Rails : Rebuild(r)
  BY <1>9 DEF Rebuild
<1>10. CASE Database
  BY <1>10 DEF Database, ConnectionDies, ServerResolves, ServerCloses
<1>11. CASE Crash
  BY <1>11 DEF Crash
<1>12. CASE UNCHANGED vars
  BY <1>12 DEF vars
<1>13. QED
  BY <1>1, <1>2, <1>3, <1>4, <1>5, <1>6, <1>7,
     <1>8, <1>9, <1>10, <1>11, <1>12 DEF Next, Work, Finishing

\* How the owner comes to deliver and to answer: the job, its result and the
\* certainty of the rails stand from one to the other.
LEMMA EndsInOrder ==
  ASSUME Inv, [Next]_vars
  PROVE  /\ pc' = "deliver" /\ pc = "deliver" =>
              UNCHANGED <<cur, result, uncertain, image>>
         /\ pc' = "answer" /\ pc # "answer" => Deliver
         /\ pc' = "answer" /\ pc = "answer" => UNCHANGED <<cur, result>>
<1> USE RailAssumption, NoJobAssumption DEF Inv, TypeOK, server, rails
<1>1. CASE Calling
  BY <1>1 DEF Calling, Submit, StopWaiting
<1>2. CASE Writing
  BY <1>2 DEF Writing, Take, Connect, ConnectFails, Refuse, FailInProcess, Panic,
    SendCommit, Ambiguous, Conclude
<1>3. CASE Committing
  BY <1>3 DEF Committing, CommitOk, StatementRefused, CommitConflict, CommitRefused, ReplyLost,
    Ambiguous, Conclude
<1>4. CASE Following
  BY <1>4 DEF Following, Follow, CannotFollow, FailAfterCommit, Unfollowed,
    Ambiguous, Conclude
<1>5. CASE Fencing
  BY <1>5 DEF Fencing, KillOld, NoFence, NeedsNoFence, TakeLock, LockTimesOut,
    RecoveryFailed, Conclude
<1>6. CASE Reloading
  BY <1>6 DEF Reloading, Reload, ReloadFails, CloseAmbiguous, RecoveryFailed,
    FinishFence, Conclude
<1>7. CASE Deliver
  BY <1>7 DEF Deliver
<1>8. CASE Answer
  BY <1>8 DEF Answer
<1>9. CASE \E r \in Rails : Rebuild(r)
  BY <1>9 DEF Rebuild
<1>10. CASE Database
  BY <1>10 DEF Database, ConnectionDies, ServerResolves, ServerCloses
<1>11. CASE Crash
  BY <1>11 DEF Crash
<1>12. CASE UNCHANGED vars
  BY <1>12 DEF vars
<1>13. QED
  BY <1>1, <1>2, <1>3, <1>4, <1>5, <1>6, <1>7,
     <1>8, <1>9, <1>10, <1>11, <1>12 DEF Next, Work, Finishing

\* A message that a followed write published can be read.
LEMMA FollowedReads ==
  ASSUME Inv, Work, pc = "follow", pc' = "deliver", RailOf[cur] = Mail
  PROVE  cur' = cur /\ Mail \notin uncertain' /\ cur \in Reads(Mail)'
<1> USE RailAssumption, NoJobAssumption, NoImageAssumption, MailAssumption
    DEF Inv, TypeOK, StepKnows, Reads, Committed, server, rails
<1>1. cur \in Jobs /\ cur \in store /\ Mail \in Rails /\ Mail # NoRail /\ Mail \notin uncertain
  OBVIOUS
<1>2. CASE Follow
  BY <1>1, <1>2 DEF Follow, Conclude
<1>3. CASE CannotFollow
  BY <1>1, <1>3 DEF CannotFollow, Conclude
<1>4. CASE FailAfterCommit
  BY <1>4 DEF FailAfterCommit, Ambiguous
<1>5. CASE Unfollowed
  BY <1>1, <1>5 DEF Unfollowed
<1>6. CASE Writing
  BY <1>6 DEF Writing, Take, Connect, ConnectFails, Refuse, FailInProcess, Panic, SendCommit
<1>7. CASE Committing
  BY <1>7 DEF Committing, CommitOk, StatementRefused, CommitConflict, CommitRefused, ReplyLost
<1>8. CASE Fencing
  BY <1>8 DEF Fencing, KillOld, NoFence, NeedsNoFence, TakeLock, LockTimesOut
<1>9. CASE Reloading
  BY <1>9 DEF Reloading, Reload, ReloadFails, CloseAmbiguous
<1>10. CASE Finishing
  BY <1>10 DEF Finishing, Deliver, Answer
<1>11. QED
  BY <1>2, <1>3, <1>4, <1>5, <1>6, <1>7, <1>8, <1>9, <1>10 DEF Work, Following

-----------------------------------------------------------------------------
\* The types are kept by every step.
LEMMA MailTypeStep == Inv /\ MailInv /\ [MailNext]_mailVars => MailTypeOK'
<1> SUFFICES ASSUME Inv, MailInv, [MailNext]_mailVars PROVE MailTypeOK'
  OBVIOUS
<1> USE RailAssumption, NoJobAssumption, MailAssumption DEF MailInv, MailTypeOK, indexVars
<1>a. [Next]_vars
  BY OwnerStep
<1>1. CASE Scoped
  <2>1. CASE pc = "follow" /\ cur \in Messages
    BY <1>1, <2>1, FollowedReads DEF Scoped, MailJobEnds
  <2>2. CASE ~(pc = "follow" /\ cur \in Messages)
    BY <1>1, <2>2 DEF Scoped, MailJobEnds
  <2>3. QED
    BY <2>1, <2>2
<1>2. CASE Unpublished
  <2>1. posted # NoJob => pc' = "deliver" /\ cur' = cur
    <3> USE <1>2 DEF Unpublished, MailJobEnds, server, rails
    <3>1. CASE Calling
      BY <3>1 DEF Calling, Submit, StopWaiting
    <3>2. CASE \E r \in Rails : Rebuild(r)
      BY <3>2 DEF Rebuild
    <3>3. CASE Database
      BY <3>3 DEF Database, ConnectionDies, ServerResolves, ServerCloses
    <3>4. QED
      BY <3>1, <3>2, <3>3
  <2>2. QED
    BY <1>2, <2>1 DEF Unpublished
<1>3. CASE Changed
  <2>1. behind' = behind \/ behind' = TRUE
    BY <1>3 DEF Changed, Absorb, AbsorbFails
  <2>2. behind' \in BOOLEAN
    BY <2>1, Zenon DEF MailInv, MailTypeOK
  <2>3. posted' = NoJob /\ changes' = changes
    BY <1>3 DEF Changed
  <2>4. seenAt' \in 0..changes'
    BY <1>3, <2>3 DEF Changed, Absorb, AbsorbFails, Settle
  <2>5. index' \subseteq index \cup ({posted} \ {NoJob})
    BY <1>3 DEF Changed, Absorb, AbsorbFails
  <2>6. index' \subseteq {j \in Jobs : RailOf[j] = Mail}
    BY <2>5
  <2>7. QED
    BY <2>2, <2>3, <2>4, <2>6
<1>4. CASE Refresh
  <2>0. behind' \in BOOLEAN
    <3>1. behind' = TRUE \/ behind' = FALSE
      BY <1>4 DEF Refresh
    <3>2. QED
      BY <3>1, Zenon
  <2>1. Reads(Mail) # NoImage => Reads(Mail) \subseteq {j \in Jobs : RailOf[j] = Mail}
    BY DEF Reads, Committed, Inv, ImageSound, TypeOK
  <2>2. QED
    BY <1>4, <2>0, <2>1 DEF Refresh, vars
<1>5. CASE Restart
  <2>1. behind' \in BOOLEAN
    BY <1>5, Zenon DEF Restart
  <2>2. QED
    BY <1>5, <2>1 DEF Restart
<1>6. CASE UNCHANGED mailVars
  BY <1>6 DEF mailVars, vars
<1>7. QED
  BY <1>1, <1>2, <1>3, <1>4, <1>5, <1>6 DEF MailNext

\* A message that waits to be told stays readable.
LEMMA PostedStep == Inv /\ Inv' /\ MailInv /\ [MailNext]_mailVars => PostedRead'
<1> SUFFICES ASSUME Inv, Inv', MailInv, [MailNext]_mailVars, posted' # NoJob
             PROVE  Mail \notin uncertain' /\ posted' \in Reads(Mail)'
  BY DEF PostedRead
<1>a. [Next]_vars /\ MailTypeOK'
  BY OwnerStep, MailTypeStep
<1>1. CASE Scoped
  BY <1>1, FollowedReads, MailAssumption DEF Scoped, MailJobEnds
<1>2. CASE posted' = posted
  <2>1. pc = "deliver" /\ pc' = "deliver"
    BY <1>a, <1>2 DEF MailInv, MailTypeOK
  <2>2. Mail \notin uncertain /\ Mail \notin uncertain'
    BY <1>a, <1>2, <2>1, EndsInOrder DEF MailInv, PostedRead
  <2>3. Reads(Mail) # NoImage /\ Reads(Mail)' # NoImage
    BY <2>2, NoImageAssumption DEF Inv, TypeOK, Reads, Committed
  <2>4. Reads(Mail) \subseteq Reads(Mail)'
    BY <1>a, <2>3, ReadsStep, MailAssumption
  <2>5. QED
    BY <1>2, <2>2, <2>4 DEF MailInv, PostedRead
<1>3. QED
  BY <1>1, <1>2 DEF MailNext, Unpublished, Changed, Refresh, Restart, indexVars, mailVars

\* The index never gets ahead of what the rail's reads show.
LEMMA IndexStep == Inv /\ Inv' /\ MailInv /\ [MailNext]_mailVars => IndexShown'
<1> SUFFICES ASSUME Inv, Inv', MailInv, [MailNext]_mailVars PROVE IndexShown'
  OBVIOUS
<1> USE MailAssumption
<1>a. [Next]_vars
  BY OwnerStep
<1>b. Committed(Mail) \subseteq Committed(Mail)'
  BY <1>a, LandsStep DEF Committed, Inv, TypeOK
<1>c. image'[Mail] \in {image[Mail], Committed(Mail)', NoImage}
  BY <1>a, ImageMoves
<1>1. CASE index' = index
  BY <1>1, <1>b, <1>c DEF MailInv, IndexShown
<1>2. CASE UNCHANGED <<store, image>> /\ index' = index \cup ({posted} \cap Reads(Mail)) /\ posted # NoJob
  <2>1. posted \in Reads(Mail) /\ Mail \notin uncertain
    BY <1>2 DEF MailInv, PostedRead
  <2>2. posted \in Committed(Mail) /\ (image[Mail] # NoImage => posted \in image[Mail])
    BY <2>1 DEF Reads, Inv, ImageSound
  <2>3. index' \subseteq index \cup {posted}
    BY <1>2
  <2>4. Committed(Mail)' = Committed(Mail)
    BY <1>2 DEF Committed
  <2>5. QED
    BY <1>2, <2>2, <2>3, <2>4 DEF MailInv, IndexShown
<1>3. CASE UNCHANGED <<store, image>> /\ Reads(Mail) # NoImage /\ index' = Reads(Mail)
  <2>1. Committed(Mail)' = Committed(Mail)
    BY <1>3 DEF Committed
  <2>2. QED
    BY <1>3, <2>1 DEF IndexShown, Reads, Inv, ImageSound
<1>4. CASE Restart
  BY <1>4 DEF Restart, IndexShown
<1>5. QED
  BY <1>1, <1>2, <1>3, <1>4
  DEF MailNext, Scoped, Unpublished, Changed, Absorb, AbsorbFails, Refresh, Deliver,
      server, rails, indexVars, mailVars, vars

\* A write that has ended is not counted as seen before the index is told.
LEMMA UncountedStep == Inv /\ MailInv /\ [MailNext]_mailVars => Uncounted'
<1> SUFFICES ASSUME Inv, MailInv, [MailNext]_mailVars, pc' = "deliver", RailOf[cur'] = Mail
             PROVE  seenAt' < changes'
  BY DEF Uncounted
<1>a. [Next]_vars
  BY OwnerStep
<1>1. CASE Scoped
  BY <1>1 DEF Scoped, MailInv, MailTypeOK
<1>2. CASE Unpublished
  <2>1. CASE pc = "deliver"
    BY <1>a, <1>2, <2>1, EndsInOrder DEF Unpublished, MailInv, Uncounted, indexVars
  <2>2. CASE pc # "deliver"
    <3>1. CASE Work
      <4>1. cur' = cur
        <5> USE <1>2, <2>2, <3>1 DEF server, rails
        <5>1. CASE Writing
          BY <5>1 DEF Writing, Take, Connect, ConnectFails, Refuse, FailInProcess, Panic,
            SendCommit, Ambiguous, Conclude
        <5>2. CASE Committing
          BY <5>2 DEF Committing, CommitOk, StatementRefused, CommitConflict, CommitRefused, ReplyLost
        <5>3. CASE Following
          BY <5>3 DEF Following, Follow, CannotFollow, FailAfterCommit, Unfollowed
        <5>4. CASE Fencing
          BY <5>4 DEF Fencing, KillOld, NoFence, NeedsNoFence, TakeLock, LockTimesOut
        <5>5. CASE Reloading
          BY <5>5 DEF Reloading, Reload, ReloadFails, CloseAmbiguous
        <5>6. CASE Finishing
          BY <5>6 DEF Finishing, Deliver, Answer
        <5>7. QED
          BY <3>1, <5>1, <5>2, <5>3, <5>4, <5>5, <5>6 DEF Work
      <4>2. MailJobEnds
        BY <2>2, <4>1 DEF MailJobEnds
      <4>3. QED
        BY <1>2, <2>2, <4>2 DEF Unpublished, Calling, Submit, StopWaiting, Rebuild, Database,
          ConnectionDies, ServerResolves, ServerCloses
    <3>2. CASE ~Work
      BY <1>2, <2>2, <3>2 DEF Unpublished, Calling, Submit, StopWaiting, Rebuild, Database,
        ConnectionDies, ServerResolves, ServerCloses
    <3>3. QED
      BY <3>1, <3>2
  <2>3. QED
    BY <2>1, <2>2
<1>3. CASE Changed
  BY <1>3 DEF Changed, Deliver
<1>4. CASE Refresh
  BY <1>4 DEF Refresh, vars
<1>5. CASE Restart
  BY <1>5 DEF Restart, Crash
<1>6. CASE UNCHANGED mailVars
  BY <1>6 DEF mailVars, indexVars, vars, MailInv, Uncounted
<1>7. QED
  BY <1>1, <1>2, <1>3, <1>4, <1>5, <1>6 DEF MailNext

\* Nobody is told ok by a step that is not the owner's answer.
LEMMA OkStands ==
  ASSUME Inv, [Next]_vars, pc' # "idle", OkIndexed, index \subseteq index'
  PROVE  OkIndexed'
BY OkComes DEF OkIndexed

\* While a message waits, the index held the board before it or does not now.
LEMMA BeforeStep == Inv /\ MailInv /\ [MailNext]_mailVars => HeldBefore'
<1> SUFFICES ASSUME Inv, MailInv, [MailNext]_mailVars, posted' # NoJob, seenAt' = changes' - 1, ~behind'
             PROVE  OkIndexed'
  BY DEF HeldBefore
<1>a. [Next]_vars /\ MailTypeOK'
  BY OwnerStep, MailTypeStep
<1>b. pc' = "deliver"
  BY <1>a DEF MailTypeOK
<1>1. CASE Scoped
  <2>1. BoardHeld
    BY <1>1 DEF Scoped, BoardHeld, MailInv, MailTypeOK
  <2>2. OkIndexed
    BY <2>1 DEF MailInv, FoundOnceAnswered, OkIndexed
  <2>3. QED
    BY <1>1, <1>a, <1>b, <2>2, OkStands DEF Scoped
<1>2. CASE UNCHANGED indexVars
  <2>1. OkIndexed
    BY <1>2 DEF indexVars, MailInv, HeldBefore
  <2>2. QED
    BY <1>2, <1>a, <1>b, <2>1, OkStands DEF indexVars
<1>3. QED
  BY <1>1, <1>2, <1>b
  DEF MailNext, Unpublished, Changed, Refresh, Restart, Crash, vars, mailVars

\* The index is told of a write before it is answered.
LEMMA OkNextStep == Inv /\ Inv' /\ MailInv /\ [MailNext]_mailVars => OkNext'
<1> SUFFICES ASSUME Inv, Inv', MailInv, [MailNext]_mailVars,
                    pc' = "answer", result' = "ok", RailOf[cur'] = Mail, BoardHeld'
             PROVE  cur' \in index'
  BY DEF OkNext
<1>a. [Next]_vars
  BY OwnerStep
<1>1. CASE Changed
  <2>1. pc = "deliver" /\ cur' = cur /\ changes' = changes
    BY <1>1 DEF Changed, Deliver
  <2>2. seenAt < changes
    BY <1>1, <2>1 DEF MailInv, Uncounted, Changed, Deliver
  <2>3. CASE posted = NoJob
    BY <1>1, <2>1, <2>2, <2>3 DEF Changed, BoardHeld, MailInv, MailTypeOK
  <2>4. CASE posted # NoJob
    <3>1. Absorb
      BY <1>1, <2>4 DEF Changed, AbsorbFails, BoardHeld
    <3>2. cur = posted /\ posted \in Reads(Mail)
      BY <2>4 DEF MailInv, MailTypeOK, PostedRead
    <3>3. QED
      BY <2>1, <3>1, <3>2 DEF Absorb
  <2>5. QED
    BY <2>3, <2>4
<1>2. CASE UNCHANGED indexVars
  <2>1. CASE pc = "answer"
    BY <1>a, <1>2, <2>1, EndsInOrder DEF indexVars, MailInv, OkNext, BoardHeld
  <2>2. CASE pc # "answer"
    <3>1. Deliver
      BY <1>a, <2>2, EndsInOrder
    <3>2. pc = "deliver" /\ RailOf[cur] = Mail
      BY <3>1 DEF Deliver
    <3>3. QED
      BY <1>2, <3>2 DEF indexVars, MailInv, MailTypeOK, Uncounted, BoardHeld
  <2>3. QED
    BY <2>1, <2>2
<1>3. QED
  BY <1>1, <1>2 DEF MailNext, Scoped, MailJobEnds, Unpublished, Refresh, Restart, Crash, vars, mailVars

\* A search that takes the board for held finds every mail write answered ok.
LEMMA FoundStep == Inv /\ Inv' /\ MailInv /\ [MailNext]_mailVars => FoundOnceAnswered'
<1> SUFFICES ASSUME Inv, Inv', MailInv, [MailNext]_mailVars, BoardHeld' PROVE OkIndexed'
  BY DEF FoundOnceAnswered, OkIndexed
<1>a. [Next]_vars
  BY OwnerStep
<1>1. CASE Scoped
  BY <1>1 DEF Scoped, BoardHeld, MailInv, MailTypeOK
<1>2. CASE UNCHANGED indexVars
  <2>1. BoardHeld
    BY <1>2 DEF indexVars, BoardHeld
  <2>2. SUFFICES ASSUME NEW j \in Jobs, caller'[j] = "ok", RailOf[j] = Mail PROVE j \in index'
    BY DEF OkIndexed
  <2>3. CASE caller[j] = "ok"
    BY <1>2, <2>1, <2>2, <2>3 DEF MailInv, FoundOnceAnswered, indexVars
  <2>4. CASE pc = "answer" /\ cur = j /\ result = "ok"
    BY <1>2, <2>1, <2>2, <2>4 DEF MailInv, OkNext, indexVars
  <2>5. QED
    BY <1>a, <2>2, <2>3, <2>4, OkComes
<1>3. CASE Changed
  <2>1. pc' # "idle" /\ changes' = changes
    BY <1>3 DEF Changed, Deliver
  <2>2. index \subseteq index'
    BY <1>3 DEF Changed, Absorb, AbsorbFails
  <2>3. OkIndexed
    <3>1. CASE seenAt = changes /\ ~behind
      BY <3>1 DEF MailInv, FoundOnceAnswered, OkIndexed, BoardHeld
    <3>2. CASE posted # NoJob /\ seenAt = changes - 1 /\ ~behind
      BY <3>2 DEF MailInv, HeldBefore
    <3>3. QED
      BY <1>3, <2>1, <3>1, <3>2 DEF Changed, Absorb, AbsorbFails, Settle, BoardHeld
  <2>4. QED
    BY <1>a, <2>1, <2>2, <2>3, OkStands
<1>4. CASE Refresh
  <2>1. Reads(Mail) # NoImage /\ index' = Reads(Mail) /\ UNCHANGED vars
    BY <1>4 DEF Refresh, BoardHeld
  <2>2. ReadYourWrites
    BY DEF Inv, ReadYourWrites, Reads, OkShown, AnswersTrue, Committed
  <2>3. QED
    BY <2>1, <2>2, MailAssumption DEF OkIndexed, ReadYourWrites, vars
<1>5. CASE Restart
  BY <1>5 DEF Restart, BoardHeld
<1>6. QED
  BY <1>1, <1>2, <1>3, <1>4, <1>5 DEF MailNext, Unpublished, mailVars

-----------------------------------------------------------------------------
\* The invariant holds in every reachable state, beside the owner's.
THEOREM MailInvariance == MailSpec => [](Inv /\ MailInv)
<1>1. MailInit => MailInv
  <2>1. MailInit => behind \in BOOLEAN
    BY Zenon DEF MailInit
  <2>2. QED
    BY <2>1, NoJobAssumption, MailAssumption
    DEF MailInit, Init, MailInv, MailTypeOK, PostedRead, IndexShown, Uncounted, OkIndexed,
        HeldBefore, OkNext, FoundOnceAnswered, BoardHeld
<1>2. Inv /\ Inv' /\ MailInv /\ [MailNext]_mailVars => MailInv'
  <2>1. SUFFICES ASSUME Inv, Inv', MailInv, [MailNext]_mailVars PROVE MailInv'
    OBVIOUS
  <2>2. MailTypeOK' /\ PostedRead' /\ IndexShown' /\ Uncounted'
    BY <2>1, MailTypeStep, PostedStep, IndexStep, UncountedStep
  <2>3. HeldBefore' /\ OkNext' /\ FoundOnceAnswered'
    BY <2>1, BeforeStep, OkNextStep, FoundStep
  <2>4. QED
    BY <2>2, <2>3 DEF MailInv
<1>3. QED
  BY <1>1, <1>2, OwnerHolds, PTL DEF MailSpec

\* A mail write answered ok is found by every search that takes the board for
\* held, whatever was lost, refused or recovered before.
THEOREM AnsweredIsFound == MailSpec => []FoundOnceAnswered
<1>1. MailInv => FoundOnceAnswered
  BY DEF MailInv
<1>2. QED
  BY <1>1, MailInvariance, PTL

\* No step of a living process takes mail out of the index.
THEOREM SearchKeeps == MailSpec => SearchNeverGoesBack
<1>1. Inv /\ MailInv /\ [MailNext]_mailVars => [Restart \/ index \subseteq index']_mailVars
  <2> SUFFICES ASSUME Inv, MailInv, MailNext PROVE Restart \/ index \subseteq index'
    OBVIOUS
  <2>1. CASE Refresh
    <3>1. Reads(Mail) # NoImage => index \subseteq Reads(Mail)
      BY DEF MailInv, IndexShown, Reads
    <3>2. QED
      BY <2>1, <3>1 DEF Refresh
  <2>2. CASE Scoped \/ Unpublished \/ Changed
    BY <2>2 DEF Scoped, Unpublished, Changed, Absorb, AbsorbFails, indexVars
  <2>3. QED
    BY <2>1, <2>2 DEF MailNext
<1>2. QED
  BY <1>1, MailInvariance, PTL DEF MailSpec, SearchNeverGoesBack
=============================================================================
