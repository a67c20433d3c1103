--------------------------- MODULE RequestsProofs ---------------------------
(***************************************************************************)
(* Proofs about the request ledger, for every set of calls, every plan of  *)
(* parts, every keep window and every number of crashes.                   *)
(*                                                                         *)
(* A second commit under an id is refused by the row of the first.  What   *)
(* makes that last for the whole keep window is Guarded: every commit      *)
(* still inside the window, as the running job counts it, has a row no     *)
(* older than itself.                                                      *)
(*                                                                         *)
(* What a call is told of its parts is true of its own write only when the *)
(* writes that are sent under one id share no part name (PartsApart): a    *)
(* row of a part is found by its name, and only the oldest row is compared *)
(* with the write that is sent.                                            *)
(***************************************************************************)
EXTENDS Requests, SequenceTheorems, TLAPS

\* The instant the running job counts the window from.
Instant == IF job = NoJob THEN now ELSE job.at

\* The row that holds the key of a commit.
RowOf(name) == IF name = Whole THEN receipt ELSE parts[name]

\* The running job was begun, and only a write is followed.
Begun ==
  job # NoJob =>
    /\ job.at <= now
    /\ job.stage # "queued"
    /\ job.stage = "follow" => job.kind = "write"

\* Every commit that is still kept holds its key.
Guarded ==
  \A i \in 1..Len(log) :
    /\ log[i].at <= Instant
    /\ \/ log[i].at + KeptFor < Instant
       \/ RowOf(log[i].name) # NoRow /\ log[i].at <= RowOf(log[i].name).at

\* The invariant behind NeverTwice and RowStands.
Inv == TypeOK /\ Begun /\ Guarded /\ NeverTwice

-----------------------------------------------------------------------------
(* What the calls are told.                                                *)

Names(d) == {Plan(d)[i] : i \in DOMAIN Plan(d)}

\* No two writes sent under the id share the name of a part.
PartsApart ==
  \A d, e \in Digests : \A n \in PartNames : n \in Names(d) /\ n \in Names(e) => d = e

\* The commit `name` of the write d is among the first n of the log.
LandedIn(d, name, n) == \E k \in 1..n : log[k].digest = d /\ log[k].name = name

\* A row is of a commit that was made.
RowsLanded ==
  /\ \A n \in PartNames :
       parts[n] # NoRow =>
         n \in Names(parts[n].digest) /\ LandedIn(parts[n].digest, n, Len(log))
  /\ receipt # NoRow => LandedBy(receipt.digest, Len(log))

\* What a scope says is done was done.
ScopesTrue ==
  \A c \in Calls :
    /\ \A n \in scope[c].done :
         n \in Names(DigestOf[c]) => LandedIn(DigestOf[c], n, Len(log))
    /\ scope[c].state = "Spent" => LandedBy(DigestOf[c], Len(log))
    /\ scope[c].finished => LandedBy(DigestOf[c], Len(log))

\* A write is of its call's plan, and a receipt is stored for a write that landed.
JobTrue(j) ==
  IF j.kind = "write" THEN j.name \in Names(DigestOf[j.call])
  ELSE LandedBy(DigestOf[j.call], Len(log))

JobsTrue ==
  /\ \A i \in 1..Len(queue) : JobTrue(queue[i])
  /\ job # NoJob => JobTrue(job)

\* A certain image shows every commit but the one the job is about to follow.
Shown ==
  ~uncertain /\ (job = NoJob \/ job.stage # "follow") => seen = Len(log)

\* The invariant behind ToldIsWritten and SettledIsReadable.
TruthInv ==
  /\ Inv /\ RowsLanded /\ ScopesTrue /\ JobsTrue /\ ToldIsWritten /\ Shown
  /\ SettledIsReadable

-----------------------------------------------------------------------------
(* The names of a plan.                                                    *)

\* A plan names parts, or it is the one commit of the whole write.
LEMMA PlanNames ==
  ASSUME NEW d \in Digests, NEW n \in Names(d)
  PROVE  /\ n \in PartNames \cup {Whole}
         /\ n = Whole => Plan(d) = <<Whole>>
<1>1. CASE PartsOf[d] = <<>>
  BY <1>1 DEF Names, Plan
<1>2. CASE PartsOf[d] # <<>>
  <2>1. PartsOf[d] \in Seq(PartNames)
    BY PartAssumption
  <2>2. \A i \in DOMAIN Plan(d) : Plan(d)[i] \in PartNames
    BY <1>2, <2>1 DEF Plan
  <2>3. n \in PartNames /\ n # Whole
    BY <2>2, PartAssumption DEF Names
  <2>4. QED
    BY <2>3
<1>3. QED
  BY <1>1, <1>2

-----------------------------------------------------------------------------
(* The types, one group of variables at a time.                            *)

LogType == [digest : Digests, name : PartNames \cup {Whole}, at : 0..Horizon]
ScopeType == [state : {"Open", "Taken", "Spent"}, done : SUBSET PartNames,
              used : BOOLEAN, finished : BOOLEAN]

LedgerTyped ==
  /\ receipt \in ReceiptType \cup {NoRow}
  /\ parts \in [PartNames -> PartType \cup {NoRow}]
  /\ log \in Seq(LogType)
  /\ told \in [Calls -> Digests \cup {NoRow}]
  /\ now \in 0..Horizon /\ crashes \in 0..MaxCrashes

OwnerTyped == queue \in Seq(JobType) /\ job \in JobType \cup {NoJob}

ImageTyped == seen \in 0..Len(log) /\ uncertain \in BOOLEAN

ScopesTyped == scope \in [Calls -> ScopeType]

\* The turn is held by the one call between begin_request and its end.
TurnsTyped ==
  /\ pc \in [Calls -> Running \cup Ends \cup {"idle"}]
  /\ flight # NoCall => flight \in Calls /\ pc[flight] \in Running \ {"turn"}
  /\ \A c \in Calls : pc[c] \in Running \ {"turn"} => flight = c

LEMMA TypeParts ==
  TypeOK <=> LedgerTyped /\ OwnerTyped /\ ImageTyped /\ ScopesTyped /\ TurnsTyped
BY DEF TypeOK, LedgerTyped, OwnerTyped, ImageTyped, ScopesTyped, TurnsTyped, LogType, ScopeType

\* A commit adds one entry to the log, and writes one row.
LEMMA StoresTyped ==
  ASSUME LedgerTyped, OwnerTyped, Writing, Stores
  PROVE  /\ job \in JobType /\ DigestOf[job.call] \in Digests
         /\ log' = Append(log, [digest |-> DigestOf[job.call], name |-> job.name,
                                at |-> job.at])
         /\ log' \in Seq(LogType) /\ Len(log') = Len(log) + 1
         /\ receipt' \in ReceiptType \cup {NoRow}
         /\ parts' \in [PartNames -> PartType \cup {NoRow}]
<1>1. job \in JobType
  BY DEF OwnerTyped, Writing
<1>2. /\ DigestOf[job.call] \in Digests
      /\ job.name \in PartNames \cup {Whole} /\ job.at \in 0..Horizon
  BY <1>1, CallAssumption DEF JobType
<1>3. [digest |-> DigestOf[job.call], name |-> job.name, at |-> job.at] \in LogType
  BY <1>2 DEF LogType
<1>4. log' = Append(log, [digest |-> DigestOf[job.call], name |-> job.name, at |-> job.at])
  BY DEF Stores
<1>5. log' \in Seq(LogType) /\ Len(log') = Len(log) + 1
  BY <1>3, <1>4 DEF LedgerTyped
<1>6. /\ receipt' \in ReceiptType \cup {NoRow}
      /\ parts' \in [PartNames -> PartType \cup {NoRow}]
  BY <1>2 DEF LedgerTyped, Stores, Prune, ReceiptType, PartType
<1>7. QED
  BY <1>1, <1>2, <1>4, <1>5, <1>6

\* A job as a call submits it.
LEMMA JobTyped ==
  ASSUME NEW c \in Calls, NEW kind \in {"write", "fill", "finish"},
         NEW name \in PartNames \cup {Whole}
  PROVE  Job(c, kind, name) \in JobType
BY TimeAssumption DEF Job, JobType

\* The scopes a call can be left with.
LEMMA FreshTyped == Fresh \in ScopeType
BY DEF Fresh, ScopeType

LEMMA ClaimTyped ==
  ASSUME ScopesTyped, NEW c \in Calls, NEW said \in ScopeType
  PROVE  Claim(c, said) \in [Calls -> ScopeType]
BY DEF ScopesTyped, Claim

LEMMA ScopeFields ==
  ASSUME ScopesTyped, NEW c \in Calls
  PROVE  /\ scope[c] \in ScopeType
         /\ \A s \in {"Open", "Taken", "Spent"} : [scope[c] EXCEPT !.state = s] \in ScopeType
         /\ \A d \in SUBSET PartNames : [scope[c] EXCEPT !.done = d] \in ScopeType
         /\ \A b \in BOOLEAN : [scope[c] EXCEPT !.used = b] \in ScopeType
         /\ \A b \in BOOLEAN : [scope[c] EXCEPT !.finished = b] \in ScopeType
         /\ scope[c].done \in SUBSET PartNames
<1>1. scope[c] \in ScopeType
  BY DEF ScopesTyped
<1>2. QED
  BY <1>1 DEF ScopeType

\* How a call's step moves the turn.
LEMMA GoesOn ==
  ASSUME TurnsTyped, NEW c \in Calls, pc[c] \in Running \ {"turn"},
         NEW step \in Running \ {"turn"}, Goes(c, step)
  PROVE  TurnsTyped'
BY DEF TurnsTyped, Goes, Running, Ends

LEMMA EndsTurn ==
  ASSUME TurnsTyped, NEW c \in Calls, pc[c] \in Running, NEW answer \in Ends,
         EndsWith(c, answer)
  PROVE  TurnsTyped'
BY CallAssumption DEF TurnsTyped, EndsWith, Running, Ends

LEMMA HearsTurn ==
  ASSUME TurnsTyped, NEW c \in Calls, NEW step \in Running \ {"turn"}, Hears(c, step)
  PROVE  TurnsTyped'
<1>1. CASE Waits(c)
  BY <1>1, GoesOn DEF Hears, Waits, Running
<1>2. CASE ~Waits(c)
  BY <1>2 DEF Hears, TurnsTyped
<1>3. QED
  BY <1>1, <1>2

\* The ledger keeps its type.
LEMMA LedgerStep == Inv /\ [Next]_vars => LedgerTyped'
<1> SUFFICES ASSUME Inv, [Next]_vars PROVE LedgerTyped'
  OBVIOUS
<1>a. LedgerTyped /\ OwnerTyped /\ ImageTyped /\ ScopesTyped /\ TurnsTyped /\ Begun
  BY TypeParts DEF Inv
<1> USE <1>a, CallAssumption, PartAssumption, NothingAssumption,
      TimeAssumption DEF LedgerTyped, OwnerTyped, ReceiptType, PartType,
      ledger, image, clock, calls, owner
<1>1. CASE \E c \in Calls : \/ Send(c) \/ TakeTurn(c) \/ FlightBusy(c) \/ Unreadable(c)
                         \/ Stops(c) \/ ProtocolError(c) \/ Cancel(c)
  BY <1>1 DEF Send, TakeTurn, FlightBusy, Unreadable, Stops, ProtocolError, Cancel,
    Goes, EndsWith, Fresh
<1>2. CASE \E c \in Calls : Lookup(c)
  BY <1>2 DEF Lookup, Repeats, Kept
<1>3. CASE \E c \in Calls : ReadParts(c)
  BY <1>3 DEF ReadParts, Goes, EndsWith, Fresh, Written
<1>4. CASE \E c \in Calls : Commit(c)
  BY <1>4 DEF Commit, Job, Goes
<1>5. CASE \E c \in Calls : Finishes(c)
  BY <1>5 DEF Finishes, Goes
<1>6. CASE \E c \in Calls : EndOfParts(c) \/ EndOfSpent(c)
  BY <1>6 DEF EndOfParts, EndOfSpent, Closes, Job, Goes, EndsWith, Fresh
<1>7. CASE \E c \in Calls : EndOfNothing(c)
  BY <1>7 DEF EndOfNothing, Repeats, Kept
<1>8. CASE Begin
  BY <1>8 DEF Begin, Claim
<1>9. CASE RecoveryFails
  BY <1>9 DEF RecoveryFails, Hears, Goes
<1>10. CASE CommitOk
  BY <1>10, StoresTyped DEF CommitOk
<1>11. CASE Follow
  BY <1>11 DEF Follow, Hears, Goes
<1>12. CASE CommitFails
  BY <1>12 DEF CommitFails, Writing, Unclaimed, Claim, Hears, Goes
<1>13. CASE ReplyLost
  <2>1. CASE Stores
    BY <1>13, <2>1, StoresTyped DEF ReplyLost
  <2>2. CASE UNCHANGED ledger
    BY <1>13, <2>2 DEF ReplyLost
  <2>3. QED
    BY <1>13, <2>1, <2>2 DEF ReplyLost
<1>14. CASE Close
  <2>1. job \in JobType /\ DigestOf[job.call] \in Digests /\ job.at \in 0..Horizon
    BY <1>14, CallAssumption DEF Close, JobType
  <2>2. Keeps \in ReceiptType \cup {NoRow}
    BY <2>1 DEF Keeps, ReceiptType
  <2>3. receipt' \in ReceiptType \cup {NoRow}
    BY <1>14, <2>2 DEF Close
  <2>4. told' \in [Calls -> Digests \cup {NoRow}]
    BY <1>14, <2>1 DEF Close
  <2>5. QED
    BY <1>14, <2>3, <2>4 DEF Close
<1>15. CASE Tick
  BY <1>15 DEF Tick
<1>16. CASE Crash
  <2>1. crashes' \in 0..MaxCrashes
    BY <1>16, TimeAssumption DEF Crash
  <2>2. CASE Writing /\ Stores
    BY <1>16, <2>1, <2>2, StoresTyped DEF Crash
  <2>3. CASE UNCHANGED ledger
    BY <1>16, <2>1, <2>3 DEF Crash
  <2>4. QED
    BY <1>16, <2>2, <2>3 DEF Crash
<1>17. CASE UNCHANGED vars
  BY <1>17 DEF vars
<1>18. QED
  BY <1>1, <1>2, <1>3, <1>4, <1>5, <1>6,
     <1>7, <1>8, <1>9, <1>10, <1>11, <1>12,
     <1>13, <1>14, <1>15, <1>16, <1>17
  DEF Next, Step, Work

\* The jobs keep their type.
LEMMA OwnerStep == Inv /\ [Next]_vars => OwnerTyped'
<1> SUFFICES ASSUME Inv, [Next]_vars PROVE OwnerTyped'
  OBVIOUS
<1>a. LedgerTyped /\ OwnerTyped /\ ImageTyped /\ ScopesTyped /\ TurnsTyped /\ Begun
  BY TypeParts DEF Inv
<1> USE <1>a, CallAssumption, PartAssumption, NothingAssumption,
      TimeAssumption DEF OwnerTyped, LedgerTyped, ledger, image, clock, calls,
      owner
<1>1. CASE \E c \in Calls : \/ Send(c) \/ TakeTurn(c) \/ FlightBusy(c) \/ Unreadable(c)
                         \/ Stops(c) \/ ProtocolError(c) \/ Cancel(c)
  BY <1>1 DEF Send, TakeTurn, FlightBusy, Unreadable, Stops, ProtocolError, Cancel,
    Goes, EndsWith, Fresh
<1>2. CASE \E c \in Calls : Lookup(c)
  BY <1>2 DEF Lookup, Repeats, Goes, EndsWith, Fresh
<1>3. CASE \E c \in Calls : ReadParts(c)
  BY <1>3 DEF ReadParts, Goes, EndsWith, Fresh, Written
<1>4. CASE \E c \in Calls : Commit(c)
  <2>0. PICK c \in Calls : Commit(c)
    BY <1>4
  <2>1. PICK i \in Lacks(c) :
          queue' = Append(queue, Job(c, "write", Plan(DigestOf[c])[i]))
    BY <2>0 DEF Commit
  <2>2. Plan(DigestOf[c])[i] \in Names(DigestOf[c]) /\ DigestOf[c] \in Digests
    BY CallAssumption DEF Names, Lacks
  <2>3. Job(c, "write", Plan(DigestOf[c])[i]) \in JobType
    BY <2>2, PlanNames, JobTyped
  <2>4. job' = job
    BY <1>4 DEF Commit
  <2>5. QED
    BY <2>1, <2>3, <2>4
<1>5. CASE \E c \in Calls : Finishes(c)
  BY <1>5 DEF Finishes, Goes
<1>6. CASE \E c \in Calls : EndOfParts(c) \/ EndOfSpent(c)
  <2>1. PICK c \in Calls : EndOfParts(c) \/ EndOfSpent(c)
    BY <1>6
  <2>2. Job(c, "finish", Whole) \in JobType /\ Job(c, "fill", Whole) \in JobType
    BY JobTyped
  <2>3. /\ job' = job
        /\ queue' \in {queue, Append(queue, Job(c, "finish", Whole)),
                      Append(queue, Job(c, "fill", Whole))}
    BY <2>1 DEF EndOfParts, EndOfSpent, Closes
  <2>4. \A j \in JobType : Append(queue, j) \in Seq(JobType)
    OBVIOUS
  <2>5. queue' \in Seq(JobType)
    BY <2>2, <2>3, <2>4
  <2>6. QED
    BY <2>3, <2>5
<1>7. CASE \E c \in Calls : EndOfNothing(c)
  BY <1>7 DEF EndOfNothing, Repeats, Goes, EndsWith, Fresh
<1>8. CASE Begin
  <2>1. queue # <<>> /\ Head(queue) \in JobType /\ Tail(queue) \in Seq(JobType)
    BY <1>8 DEF Begin
  <2>2. [Head(queue) EXCEPT !.stage = "commit", !.at = now] \in JobType
    BY <2>1 DEF JobType, LedgerTyped
  <2>3. QED
    BY <1>8, <2>1, <2>2 DEF Begin
<1>9. CASE RecoveryFails
  BY <1>9 DEF RecoveryFails, Hears, Goes
<1>10. CASE CommitOk
  <2>1. job \in JobType /\ job' = [job EXCEPT !.stage = "follow"]
    BY <1>10 DEF CommitOk, Writing
  <2>2. job' \in JobType
    BY <2>1 DEF JobType
  <2>3. QED
    BY <1>10, <2>2 DEF CommitOk
<1>11. CASE Follow
  BY <1>11 DEF Follow, Hears, Goes
<1>12. CASE CommitFails
  BY <1>12 DEF CommitFails, Writing, Unclaimed, Claim, Hears, Goes
<1>13. CASE ReplyLost
  BY <1>13 DEF ReplyLost, Writing, Stores, Unclaimed, Claim, Hears, Goes, Prune
<1>14. CASE Close
  BY <1>14 DEF Close, Keeps, EndsWith, Fresh
<1>15. CASE Tick
  BY <1>15 DEF Tick
<1>16. CASE Crash
  BY <1>16 DEF Crash, Writing, Stores, Prune, Fresh
<1>17. CASE UNCHANGED vars
  BY <1>17 DEF vars
<1>18. QED
  BY <1>1, <1>2, <1>3, <1>4, <1>5, <1>6,
     <1>7, <1>8, <1>9, <1>10, <1>11, <1>12,
     <1>13, <1>14, <1>15, <1>16, <1>17
  DEF Next, Step, Work

\* The image keeps its type.
LEMMA ImageStep == Inv /\ [Next]_vars => ImageTyped'
<1> SUFFICES ASSUME Inv, [Next]_vars PROVE ImageTyped'
  OBVIOUS
<1>a. LedgerTyped /\ OwnerTyped /\ ImageTyped /\ ScopesTyped /\ TurnsTyped /\ Begun
  BY TypeParts DEF Inv
<1> USE <1>a, CallAssumption, PartAssumption, NothingAssumption,
      TimeAssumption DEF ImageTyped, LedgerTyped, ledger, image, clock, calls,
      owner
<1>1. CASE \E c \in Calls : \/ Send(c) \/ TakeTurn(c) \/ FlightBusy(c) \/ Unreadable(c)
                         \/ Stops(c) \/ ProtocolError(c) \/ Cancel(c)
  BY <1>1 DEF Send, TakeTurn, FlightBusy, Unreadable, Stops, ProtocolError, Cancel,
    Goes, EndsWith, Fresh
<1>2. CASE \E c \in Calls : Lookup(c)
  BY <1>2 DEF Lookup, Repeats, Goes, EndsWith, Fresh
<1>3. CASE \E c \in Calls : ReadParts(c)
  BY <1>3 DEF ReadParts, Goes, EndsWith, Fresh, Written
<1>4. CASE \E c \in Calls : Commit(c)
  BY <1>4 DEF Commit, Job, Goes
<1>5. CASE \E c \in Calls : Finishes(c)
  BY <1>5 DEF Finishes, Goes
<1>6. CASE \E c \in Calls : EndOfParts(c) \/ EndOfSpent(c)
  BY <1>6 DEF EndOfParts, EndOfSpent, Closes, Job, Goes, EndsWith, Fresh
<1>7. CASE \E c \in Calls : EndOfNothing(c)
  BY <1>7 DEF EndOfNothing, Repeats, Goes, EndsWith, Fresh
<1>8. CASE Begin
  <2>1. seen' \in {Len(log), seen} /\ Len(log) \in Nat
    BY <1>8 DEF Begin
  <2>2. uncertain' \in BOOLEAN
    <3>1. uncertain' = FALSE \/ uncertain' = uncertain
      BY <1>8 DEF Begin
    <3>2. QED
      BY <3>1, Zenon
  <2>3. QED
    BY <1>8, <2>1, <2>2 DEF Begin
<1>9. CASE RecoveryFails
  BY <1>9 DEF RecoveryFails, Hears, Goes
<1>10. CASE CommitOk
  BY <1>10, StoresTyped DEF CommitOk
<1>11. CASE Follow
  BY <1>11 DEF Follow, Hears, Goes
<1>12. CASE CommitFails
  BY <1>12 DEF CommitFails, Writing, Unclaimed, Claim, Hears, Goes
<1>13. CASE ReplyLost
  <2>1. Len(log') \in Nat /\ Len(log') >= Len(log) /\ Len(log) \in Nat
    <3>1. CASE Stores
      BY <1>13, <3>1, StoresTyped DEF ReplyLost
    <3>2. CASE UNCHANGED ledger
      BY <3>2
    <3>3. QED
      BY <1>13, <3>1, <3>2 DEF ReplyLost
  <2>2. seen' \in {Len(log'), seen}
    BY <1>13 DEF ReplyLost
  <2>3. uncertain' \in BOOLEAN
    <3>1. uncertain' = FALSE \/ uncertain' = TRUE
      BY <1>13 DEF ReplyLost
    <3>2. QED
      BY <3>1, Zenon
  <2>4. QED
    BY <2>1, <2>2, <2>3
<1>14. CASE Close
  BY <1>14 DEF Close, Keeps, EndsWith, Fresh
<1>15. CASE Tick
  BY <1>15 DEF Tick
<1>16. CASE Crash
  <2>1. Len(log') \in Nat
    <3>1. CASE Writing /\ Stores
      BY <3>1, StoresTyped
    <3>2. CASE UNCHANGED ledger
      BY <3>2
    <3>3. QED
      BY <1>16, <3>1, <3>2 DEF Crash
  <2>2. seen' = Len(log') /\ uncertain' = FALSE
    BY <1>16 DEF Crash
  <2>3. uncertain' \in BOOLEAN
    BY <2>2, Zenon
  <2>4. QED
    BY <2>1, <2>2, <2>3
<1>17. CASE UNCHANGED vars
  BY <1>17 DEF vars
<1>18. QED
  BY <1>1, <1>2, <1>3, <1>4, <1>5, <1>6,
     <1>7, <1>8, <1>9, <1>10, <1>11, <1>12,
     <1>13, <1>14, <1>15, <1>16, <1>17
  DEF Next, Step, Work

\* The scopes keep their type.
LEMMA ScopesStep == Inv /\ [Next]_vars => ScopesTyped'
<1> SUFFICES ASSUME Inv, [Next]_vars PROVE ScopesTyped'
  OBVIOUS
<1>a. LedgerTyped /\ OwnerTyped /\ ImageTyped /\ ScopesTyped /\ TurnsTyped /\ Begun
  BY TypeParts DEF Inv
<1> USE <1>a, CallAssumption, PartAssumption, NothingAssumption,
      TimeAssumption DEF ScopesTyped, OwnerTyped, ledger, image, clock, calls,
      owner
<1>1. CASE \E c \in Calls : \/ Send(c) \/ TakeTurn(c) \/ FlightBusy(c) \/ Unreadable(c)
                         \/ Stops(c) \/ ProtocolError(c) \/ Cancel(c)
  BY <1>1, FreshTyped
  DEF Send, TakeTurn, FlightBusy, Unreadable, Stops, ProtocolError, Cancel, EndsWith
<1>2. CASE \E c \in Calls : Lookup(c)
  BY <1>2, FreshTyped DEF Lookup, Repeats, EndsWith
<1>3. CASE \E c \in Calls : ReadParts(c)
  <2>1. PICK c \in Calls : ReadParts(c)
    BY <1>3
  <2>2. [scope[c] EXCEPT !.done = Written] \in ScopeType
    BY ScopeFields DEF Written
  <2>3. scope' \in {[scope EXCEPT ![c] = [scope[c] EXCEPT !.done = Written]],
                    [scope EXCEPT ![c] = Fresh]}
    BY <2>1 DEF ReadParts, EndsWith, ScopesTyped
  <2>4. QED
    BY <2>2, <2>3, FreshTyped
<1>4. CASE \E c \in Calls : Commit(c)
  BY <1>4 DEF Commit, Job, Goes
<1>5. CASE \E c \in Calls : Finishes(c)
  <2>1. PICK c \in Calls : Finishes(c)
    BY <1>5
  <2>2. [scope[c] EXCEPT !.finished = PartsOf[DigestOf[c]] # <<>>] \in ScopeType
    BY ScopeFields
  <2>3. scope' = [scope EXCEPT ![c] = [scope[c] EXCEPT !.finished = PartsOf[DigestOf[c]] # <<>>]]
    BY <2>1 DEF Finishes
  <2>4. QED
    BY <2>2, <2>3
<1>6. CASE \E c \in Calls : EndOfParts(c) \/ EndOfSpent(c)
  BY <1>6, FreshTyped DEF EndOfParts, EndOfSpent, Closes, EndsWith
<1>7. CASE \E c \in Calls : EndOfNothing(c)
  BY <1>7, FreshTyped DEF EndOfNothing, Repeats, EndsWith
<1>8. CASE Begin
  <2>1. queue # <<>> /\ Head(queue) \in JobType
    BY <1>8 DEF Begin
  <2>2. Head(queue).call \in Calls
    BY <2>1 DEF JobType
  <2>3. \/ scope' = scope
        \/ scope' = Claim(Head(queue).call, [scope[Head(queue).call] EXCEPT !.state = "Taken"])
        \/ scope' = Claim(Head(queue).call, [scope[Head(queue).call] EXCEPT !.used = TRUE])
    BY <1>8 DEF Begin
  <2>4. /\ [scope[Head(queue).call] EXCEPT !.state = "Taken"] \in ScopeType
        /\ [scope[Head(queue).call] EXCEPT !.used = TRUE] \in ScopeType
    BY <2>2, ScopeFields
  <2>5. QED
    BY <2>2, <2>3, <2>4, ClaimTyped DEF ScopesTyped
<1>9. CASE RecoveryFails
  BY <1>9 DEF RecoveryFails, Hears, Goes
<1>10. CASE CommitOk
  <2>1. job.call \in Calls /\ job.name \in PartNames \cup {Whole}
    BY <1>10 DEF CommitOk, Writing, JobType
  <2>2. scope[job.call].done \cup {job.name} \in SUBSET PartNames \/ job.name = Whole
    BY <2>1, ScopeFields
  <2>3. (IF job.name = Whole THEN [scope[job.call] EXCEPT !.state = "Spent"]
         ELSE [scope[job.call] EXCEPT !.done = @ \cup {job.name}]) \in ScopeType
    <3>1. [scope[job.call] EXCEPT !.state = "Spent"] \in ScopeType
      BY <2>1, ScopeFields
    <3>2. job.name # Whole =>
            [scope[job.call] EXCEPT !.done = scope[job.call].done \cup {job.name}] \in ScopeType
      BY <2>1, <2>2, ScopeFields
    <3>3. QED
      BY <3>1, <3>2
  <2>4. QED
    BY <1>10, <2>1, <2>3, ClaimTyped DEF CommitOk, Claimed
<1>11. CASE Follow
  BY <1>11 DEF Follow, Hears, Goes
<1>12. CASE CommitFails
  <2>1. job.call \in Calls
    BY <1>12 DEF CommitFails, Writing, JobType
  <2>2. [scope[job.call] EXCEPT !.state = IF job.name = Whole THEN "Open" ELSE @] \in ScopeType
    <3>1. scope[job.call] \in ScopeType
      BY <2>1, ScopeFields
    <3>2. QED
      BY <3>1 DEF ScopeType
  <2>3. QED
    BY <1>12, <2>1, <2>2, ClaimTyped DEF CommitFails, Unclaimed
<1>13. CASE ReplyLost
  <2>1. job.call \in Calls
    BY <1>13 DEF ReplyLost, Writing, JobType
  <2>2. [scope[job.call] EXCEPT !.state = IF job.name = Whole THEN "Open" ELSE @] \in ScopeType
    <3>1. scope[job.call] \in ScopeType
      BY <2>1, ScopeFields
    <3>2. QED
      BY <3>1 DEF ScopeType
  <2>3. QED
    BY <1>13, <2>1, <2>2, ClaimTyped DEF ReplyLost, Unclaimed
<1>14. CASE Close
  BY <1>14, FreshTyped DEF Close, EndsWith, calls
<1>15. CASE Tick
  BY <1>15 DEF Tick
<1>16. CASE Crash
  BY <1>16, FreshTyped DEF Crash
<1>17. CASE UNCHANGED vars
  BY <1>17 DEF vars
<1>18. QED
  BY <1>1, <1>2, <1>3, <1>4, <1>5, <1>6,
     <1>7, <1>8, <1>9, <1>10, <1>11, <1>12,
     <1>13, <1>14, <1>15, <1>16, <1>17
  DEF Next, Step, Work

\* The turn of the id is held by one call.
LEMMA TurnsStep == Inv /\ [Next]_vars => TurnsTyped'
<1> SUFFICES ASSUME Inv, [Next]_vars PROVE TurnsTyped'
  OBVIOUS
<1>a. LedgerTyped /\ OwnerTyped /\ ImageTyped /\ ScopesTyped /\ TurnsTyped /\ Begun
  BY TypeParts DEF Inv
<1> USE <1>a DEF OwnerTyped, ledger, image, clock, calls, owner
<1>1. CASE \E c \in Calls : \/ Send(c) \/ TakeTurn(c) \/ FlightBusy(c) \/ Unreadable(c)
                         \/ Stops(c) \/ ProtocolError(c) \/ Cancel(c)
  <2>1. PICK c \in Calls :
          \/ Send(c) \/ TakeTurn(c)
          \/ FlightBusy(c) \/ Unreadable(c) \/ ProtocolError(c) \/ Cancel(c)
          \/ Stops(c)
    BY <1>1
  <2>2. CASE Send(c) \/ TakeTurn(c)
    BY <2>2, CallAssumption DEF Send, TakeTurn, Goes, TurnsTyped, Running, Ends
  <2>3. CASE FlightBusy(c) \/ Unreadable(c) \/ ProtocolError(c) \/ Cancel(c)
    BY <2>3, EndsTurn DEF FlightBusy, Unreadable, ProtocolError, Cancel, Running, Ends
  <2>4. CASE Stops(c)
    BY <2>4, GoesOn DEF Stops, Running
  <2>5. QED
    BY <2>1, <2>2, <2>3, <2>4
<1>2. CASE \E c \in Calls : Lookup(c)
  BY <1>2, GoesOn, EndsTurn DEF Lookup, Repeats, Running, Ends
<1>3. CASE \E c \in Calls : ReadParts(c)
  BY <1>3, GoesOn, EndsTurn DEF ReadParts, Running, Ends
<1>4. CASE \E c \in Calls : Commit(c)
  BY <1>4, GoesOn DEF Commit, Running
<1>5. CASE \E c \in Calls : Finishes(c)
  BY <1>5, GoesOn DEF Finishes, Running
<1>6. CASE \E c \in Calls : EndOfParts(c) \/ EndOfSpent(c)
  BY <1>6, GoesOn, EndsTurn DEF EndOfParts, EndOfSpent, Closes, Running, Ends
<1>7. CASE \E c \in Calls : EndOfNothing(c)
  BY <1>7, EndsTurn DEF EndOfNothing, Repeats, Running, Ends
<1>8. CASE Begin
  BY <1>8 DEF Begin, TurnsTyped
<1>9. CASE RecoveryFails
  <2>1. Head(queue) \in JobType
    BY <1>9 DEF RecoveryFails
  <2>2. Head(queue).call \in Calls
    BY <2>1 DEF JobType
  <2>3. QED
    BY <1>9, <2>2, HearsTurn DEF RecoveryFails, Running
<1>10. CASE CommitOk
  BY <1>10 DEF CommitOk, TurnsTyped
<1>11. CASE Follow
  <2>1. job.call \in Calls
    BY <1>11 DEF Follow, JobType
  <2>2. QED
    BY <1>11, <2>1, HearsTurn DEF Follow, Running
<1>12. CASE CommitFails
  <2>1. job.call \in Calls
    BY <1>12 DEF CommitFails, Writing, JobType
  <2>2. QED
    BY <1>12, <2>1, HearsTurn DEF CommitFails, Running
<1>13. CASE ReplyLost
  <2>1. job.call \in Calls
    BY <1>13 DEF ReplyLost, Writing, JobType
  <2>2. QED
    BY <1>13, <2>1, HearsTurn DEF ReplyLost, Running
<1>14. CASE Close
  <2>1. job.call \in Calls
    BY <1>14 DEF Close, JobType
  <2>2. CASE Waits(job.call)
    BY <1>14, <2>1, <2>2, EndsTurn DEF Close, Waits, Running, Ends
  <2>3. CASE ~Waits(job.call)
    BY <1>14, <2>3 DEF Close, TurnsTyped
  <2>4. QED
    BY <2>2, <2>3
<1>15. CASE Tick
  BY <1>15 DEF Tick, TurnsTyped
<1>16. CASE Crash
  BY <1>16 DEF Crash, TurnsTyped, Running, Ends
<1>17. CASE UNCHANGED vars
  BY <1>17 DEF vars, TurnsTyped
<1>18. QED
  BY <1>1, <1>2, <1>3, <1>4, <1>5, <1>6,
     <1>7, <1>8, <1>9, <1>10, <1>11, <1>12,
     <1>13, <1>14, <1>15, <1>16, <1>17
  DEF Next, Step, Work

\* Every step keeps the running job begun.
LEMMA BegunStep == Inv /\ [Next]_vars => Begun'
<1> SUFFICES ASSUME Inv, [Next]_vars PROVE Begun'
  OBVIOUS
<1>a. LedgerTyped /\ OwnerTyped /\ ImageTyped /\ ScopesTyped /\ TurnsTyped /\ Begun
  BY TypeParts DEF Inv
<1> USE <1>a, CallAssumption, PartAssumption, NothingAssumption,
      TimeAssumption DEF OwnerTyped, LedgerTyped, Begun, JobType, ledger,
      image, clock, calls, owner
<1>1. CASE \E c \in Calls : \/ Send(c) \/ TakeTurn(c) \/ FlightBusy(c) \/ Unreadable(c)
                         \/ Stops(c) \/ ProtocolError(c) \/ Cancel(c)
  BY <1>1 DEF Send, TakeTurn, FlightBusy, Unreadable, Stops, ProtocolError, Cancel,
    Goes, EndsWith, Fresh
<1>2. CASE \E c \in Calls : Lookup(c)
  BY <1>2 DEF Lookup, Repeats, Goes, EndsWith, Fresh
<1>3. CASE \E c \in Calls : ReadParts(c)
  BY <1>3 DEF ReadParts, Goes, EndsWith, Fresh, Written
<1>4. CASE \E c \in Calls : Commit(c)
  BY <1>4 DEF Commit, Job, Goes
<1>5. CASE \E c \in Calls : Finishes(c)
  BY <1>5 DEF Finishes, Goes
<1>6. CASE \E c \in Calls : EndOfParts(c) \/ EndOfSpent(c)
  BY <1>6 DEF EndOfParts, EndOfSpent, Closes, Job, Goes, EndsWith, Fresh
<1>7. CASE \E c \in Calls : EndOfNothing(c)
  BY <1>7 DEF EndOfNothing, Repeats, Goes, EndsWith, Fresh
<1>8. CASE Begin
  BY <1>8 DEF Begin, Claim
<1>9. CASE RecoveryFails
  BY <1>9 DEF RecoveryFails, Hears, Goes
<1>10. CASE CommitOk
  BY <1>10 DEF CommitOk, Writing, Stores, Claimed, Claim, Prune
<1>11. CASE Follow
  BY <1>11 DEF Follow, Hears, Goes
<1>12. CASE CommitFails
  BY <1>12 DEF CommitFails, Writing, Unclaimed, Claim, Hears, Goes
<1>13. CASE ReplyLost
  BY <1>13 DEF ReplyLost, Writing, Stores, Unclaimed, Claim, Hears, Goes, Prune
<1>14. CASE Close
  BY <1>14 DEF Close, Keeps, EndsWith, Fresh
<1>15. CASE Tick
  BY <1>15 DEF Tick
<1>16. CASE Crash
  BY <1>16 DEF Crash, Writing, Stores, Prune, Fresh
<1>17. CASE UNCHANGED vars
  BY <1>17 DEF vars
<1>18. QED
  BY <1>1, <1>2, <1>3, <1>4, <1>5, <1>6,
     <1>7, <1>8, <1>9, <1>10, <1>11, <1>12,
     <1>13, <1>14, <1>15, <1>16, <1>17
  DEF Next, Step, Work

-----------------------------------------------------------------------------
(* No write twice.                                                         *)

\* The instants that count, as numbers.
LEMMA Instants ==
  ASSUME LedgerTyped, OwnerTyped
  PROVE  /\ now \in Nat /\ KeptFor \in Nat
         /\ job # NoJob => job.at \in Nat
         /\ Instant \in Nat
         /\ \A i \in 1..Len(log) :
              log[i] \in LogType /\ log[i].at \in Nat /\ log[i].name \in PartNames \cup {Whole}
         /\ \A n \in PartNames : parts[n] # NoRow => parts[n].at \in Nat
         /\ receipt # NoRow => receipt.at \in Nat
<1> USE TimeAssumption DEF LedgerTyped, OwnerTyped
<1>1. now \in Nat /\ KeptFor \in Nat
  OBVIOUS
<1>2. job # NoJob => job.at \in Nat
  BY DEF JobType
<1>3. \A i \in 1..Len(log) :
        log[i] \in LogType /\ log[i].at \in Nat /\ log[i].name \in PartNames \cup {Whole}
  <2> TAKE i \in 1..Len(log)
  <2>1. log[i] \in LogType
    OBVIOUS
  <2>2. QED
    BY <2>1 DEF LogType
<1>4. /\ \A n \in PartNames : parts[n] # NoRow => parts[n].at \in Nat
      /\ receipt # NoRow => receipt.at \in Nat
  BY DEF PartType, ReceiptType
<1>5. QED
  BY <1>1, <1>2, <1>3, <1>4 DEF Instant

\* A step that stores nothing keeps the keys held, as long as time moves on.
LEMMA GuardedKept ==
  ASSUME LedgerTyped, OwnerTyped, Guarded, log' = log, parts' = parts,
         receipt # NoRow => receipt' # NoRow /\ receipt'.at = receipt.at,
         Instant' \in Nat, Instant <= Instant'
  PROVE  Guarded'
<1> SUFFICES ASSUME NEW i \in 1..Len(log)
             PROVE  /\ log[i].at <= Instant'
                    /\ \/ log[i].at + KeptFor < Instant'
                       \/ RowOf(log[i].name)' # NoRow /\ log[i].at <= RowOf(log[i].name)'.at
  BY DEF Guarded, RowOf
<1>1. /\ log[i].at \in Nat /\ KeptFor \in Nat /\ Instant \in Nat
      /\ log[i].at <= Instant
  BY Instants DEF Guarded
<1>2. CASE log[i].at + KeptFor < Instant
  BY <1>1, <1>2
<1>3. CASE RowOf(log[i].name) # NoRow /\ log[i].at <= RowOf(log[i].name).at
  BY <1>1, <1>3 DEF RowOf
<1>4. QED
  BY <1>2, <1>3 DEF Guarded

\* A commit is refused while its key is held, so it is later than every commit
\* of its name by more than the keep window; and it holds the key from then on.
LEMMA StoresGuarded ==
  ASSUME LedgerTyped, OwnerTyped, Begun, Guarded, NeverTwice, Writing, Stores,
         Instant' \in Nat, job.at <= Instant'
  PROVE  NeverTwice' /\ Guarded'
<1> DEFINE d == DigestOf[job.call]
           n == Len(log)
           e == [digest |-> d, name |-> job.name, at |-> job.at]
<1>1. /\ job \in JobType /\ job.at \in Nat /\ KeptFor \in Nat /\ d \in Digests /\ n \in Nat
      /\ Instant = job.at /\ job # NoJob
      /\ job.name \in PartNames \cup {Whole} /\ job.at \in 0..Horizon
  BY StoresTyped, Instants DEF Writing, Instant, LedgerTyped, JobType
<1>2. /\ Len(log') = n + 1
      /\ \A i \in 1..n : log'[i] = log[i]
      /\ log'[n + 1].at = job.at /\ log'[n + 1].name = job.name
  <2>1. log' = Append(log, e) /\ log \in Seq(LogType) /\ e \in LogType
    BY <1>1, StoresTyped DEF LedgerTyped, LogType
  <2>2. Len(log') = n + 1 /\ log'[n + 1] = e /\ \A i \in 1..n : log'[i] = log[i]
    BY <2>1, AppendProperties
  <2>3. QED
    BY <2>2
<1>3. \A i \in 1..n : log[i].at \in Nat /\ log[i].name \in PartNames \cup {Whole}
  BY Instants
<1>4. \A i \in 1..n : log[i].name = job.name => log[i].at + KeptFor < job.at
  BY <1>1, <1>3, Instants DEF Guarded, Stores, KeyHeld, Kept, RowOf
<1>5. NeverTwice'
  <2>1. DOMAIN log = 1..n /\ DOMAIN log' = 1..n + 1
    BY <1>1, <1>2, StoresTyped DEF LedgerTyped
  <2> SUFFICES ASSUME NEW i \in 1..n + 1, NEW k \in 1..n + 1,
                      i < k, log'[i].name = log'[k].name
               PROVE  log'[i].at + KeptFor < log'[k].at
    BY <2>1 DEF NeverTwice
  <2>2. i \in 1..n /\ log'[i] = log[i]
    BY <1>1, <1>2
  <2>3. CASE k = n + 1
    BY <1>2, <1>4, <2>2, <2>3
  <2>4. CASE k \in 1..n
    BY <1>2, <2>1, <2>2, <2>4 DEF NeverTwice
  <2>5. QED
    BY <1>1, <2>3, <2>4
<1>6. ASSUME job.name = Whole PROVE Guarded'
  <2>1. [digest |-> d, at |-> job.at, text |-> NoRow] # NoRow
    BY <1>1, NothingAssumption DEF ReceiptType
  <2>2. receipt' # NoRow /\ receipt'.at = job.at
    BY <1>6, <2>1 DEF Stores
  <2>3. parts' = parts
    BY <1>6 DEF Stores
  <2> SUFFICES ASSUME NEW i \in 1..n + 1
               PROVE  /\ log'[i].at <= Instant'
                      /\ \/ log'[i].at + KeptFor < Instant'
                         \/ RowOf(log[i].name)' # NoRow
                            /\ log'[i].at <= RowOf(log[i].name)'.at
    BY <1>2 DEF Guarded, RowOf
  <2>4. CASE i = n + 1
    BY <1>1, <1>2, <1>6, <2>2, <2>4 DEF RowOf
  <2>5. CASE i \in 1..n /\ log[i].name = job.name
    BY <1>1, <1>2, <1>3, <1>4, <2>5
  <2>6. CASE i \in 1..n /\ log[i].name # job.name
    <3>1. /\ log[i].at <= job.at
          /\ \/ log[i].at + KeptFor < job.at
             \/ parts[log[i].name] # NoRow /\ log[i].at <= parts[log[i].name].at
      BY <1>1, <1>6, <2>6 DEF Guarded, RowOf
    <3>2. QED
      BY <1>1, <1>2, <1>3, <1>6, <2>3, <2>6, <3>1 DEF RowOf
  <2>7. QED
    BY <1>1, <2>4, <2>5, <2>6
<1>7. ASSUME job.name # Whole PROVE Guarded'
  <2>1. [digest |-> d, at |-> job.at] # NoRow
    BY <1>1, NothingAssumption DEF PartType
  <2>2. parts'[job.name] # NoRow /\ parts'[job.name].at = job.at
    BY <1>1, <1>7, <2>1 DEF Stores
  <2>3. /\ receipt' = receipt \/ ~Kept(receipt, job.at)
        /\ \A m \in PartNames \ {job.name} : parts'[m] = parts[m] \/ ~Kept(parts[m], job.at)
    BY <1>7 DEF Stores, Prune
  <2> SUFFICES ASSUME NEW i \in 1..n + 1
               PROVE  /\ log'[i].at <= Instant'
                      /\ \/ log'[i].at + KeptFor < Instant'
                         \/ RowOf(log[i].name)' # NoRow
                            /\ log'[i].at <= RowOf(log[i].name)'.at
    BY <1>2 DEF Guarded, RowOf
  <2>4. CASE i = n + 1
    BY <1>1, <1>2, <1>7, <2>2, <2>4 DEF RowOf
  <2>5. CASE i \in 1..n /\ log[i].name = job.name
    BY <1>1, <1>2, <1>3, <1>4, <2>5
  <2>6. CASE i \in 1..n /\ log[i].name # job.name
    <3>1. /\ log[i].at <= job.at
          /\ \/ log[i].at + KeptFor < job.at
             \/ RowOf(log[i].name) # NoRow /\ log[i].at <= RowOf(log[i].name).at
      BY <1>1, <2>6 DEF Guarded
    <3>2. RowOf(log[i].name) # NoRow => RowOf(log[i].name).at \in Nat
      BY <1>3, <2>6, Instants DEF RowOf
    <3>3. CASE log[i].at + KeptFor < job.at
      BY <1>1, <1>2, <1>3, <2>6, <3>1, <3>3
    <3>4. CASE RowOf(log[i].name) # NoRow /\ log[i].at <= RowOf(log[i].name).at
      <4>1. \/ RowOf(log[i].name)' = RowOf(log[i].name)
            \/ ~Kept(RowOf(log[i].name), job.at)
        BY <1>2, <1>3, <2>3, <2>6 DEF RowOf
      <4>2. CASE RowOf(log[i].name)' = RowOf(log[i].name)
        BY <1>1, <1>2, <1>3, <2>6, <3>1, <3>4, <4>2
      <4>3. CASE ~Kept(RowOf(log[i].name), job.at)
        BY <1>1, <1>2, <1>3, <2>6, <3>1, <3>2, <3>4, <4>3 DEF Kept
      <4>4. QED
        BY <4>1, <4>2, <4>3
    <3>5. QED
      BY <3>1, <3>3, <3>4
  <2>7. QED
    BY <1>1, <2>4, <2>5, <2>6
<1>8. QED
  BY <1>5, <1>6, <1>7

\* What a step that stores nothing may do to the ledger: only the job of a
\* receipt changes it, and leaves the stamp of a row that is there.
LEMMA KeepsStamp ==
  ASSUME LedgerTyped, OwnerTyped, Close
  PROVE  /\ log' = log /\ parts' = parts
         /\ receipt # NoRow => /\ receipt' # NoRow /\ receipt'.at = receipt.at
                               /\ receipt'.digest = receipt.digest
<1>1. job \in JobType /\ DigestOf[job.call] \in Digests /\ job.at \in 0..Horizon
  BY CallAssumption DEF Close, OwnerTyped, JobType
<1>2. CASE receipt # NoRow
  <2>1. receipt \in ReceiptType
    BY <1>2 DEF LedgerTyped
  <2>2. /\ [receipt EXCEPT !.text = DigestOf[job.call]] \in ReceiptType
        /\ [receipt EXCEPT !.text = DigestOf[job.call]].at = receipt.at
        /\ [receipt EXCEPT !.text = DigestOf[job.call]].digest = receipt.digest
    BY <1>1, <2>1 DEF ReceiptType
  <2>3. receipt' \in {receipt, [receipt EXCEPT !.text = DigestOf[job.call]]}
    BY <1>2 DEF Close, Keeps
  <2>4. QED
    BY <2>1, <2>2, <2>3, NothingAssumption DEF Close
<1>3. CASE receipt = NoRow
  BY <1>3 DEF Close
<1>4. QED
  BY <1>2, <1>3

\* A step that does not store leaves the log alone and lets the window move on.
Rests ==
  /\ log' = log /\ parts' = parts
  /\ receipt # NoRow => /\ receipt' # NoRow /\ receipt'.at = receipt.at
                        /\ receipt'.digest = receipt.digest
  /\ Instant' \in Nat /\ Instant <= Instant'

\* Every step stores one commit, the running job's, or rests.
LEMMA StoresOrRests ==
  Inv /\ [Next]_vars =>
    \/ Rests
    \/ Writing /\ Stores /\ Instant' \in Nat /\ job.at <= Instant'
<1> SUFFICES ASSUME Inv, [Next]_vars
             PROVE  \/ Rests
                    \/ Writing /\ Stores /\ Instant' \in Nat /\ job.at <= Instant'
  OBVIOUS
<1>a. LedgerTyped /\ OwnerTyped /\ Begun
  BY TypeParts DEF Inv
<1>b. /\ now \in Nat /\ Instant \in Nat /\ Instant <= now
      /\ job # NoJob => job.at \in Nat /\ job.at <= now /\ Instant = job.at
      /\ job = NoJob => Instant = now
  BY <1>a, Instants DEF Begun, Instant
<1>c. ASSUME UNCHANGED <<ledger, job, now>> PROVE Rests
  BY <1>b, <1>c DEF Rests, ledger, Instant
<1>d. ASSUME UNCHANGED <<ledger, now>>, job' = NoJob PROVE Rests
  BY <1>b, <1>d DEF Rests, ledger, Instant
<1>1. CASE \E c \in Calls : \/ Send(c) \/ TakeTurn(c) \/ FlightBusy(c) \/ Unreadable(c)
                         \/ Stops(c) \/ ProtocolError(c) \/ Cancel(c)
  BY <1>1, <1>c DEF Send, TakeTurn, FlightBusy, Unreadable, Stops, ProtocolError, Cancel,
    clock, owner
<1>2. CASE \E c \in Calls : Lookup(c)
  BY <1>2, <1>c DEF Lookup, clock, owner
<1>3. CASE \E c \in Calls : ReadParts(c)
  BY <1>3, <1>c DEF ReadParts, clock, owner
<1>4. CASE \E c \in Calls : Commit(c)
  BY <1>4, <1>c DEF Commit, clock
<1>5. CASE \E c \in Calls : Finishes(c)
  BY <1>5, <1>c DEF Finishes, clock, owner
<1>6. CASE \E c \in Calls : EndOfParts(c) \/ EndOfSpent(c)
  BY <1>6, <1>c DEF EndOfParts, EndOfSpent, clock
<1>7. CASE \E c \in Calls : EndOfNothing(c)
  BY <1>7, <1>c DEF EndOfNothing, clock, owner
<1>8. CASE Begin
  <2>1. queue # <<>> /\ Head(queue) \in JobType /\ job' = [Head(queue) EXCEPT !.stage = "commit", !.at = now]
    BY <1>8, <1>a DEF Begin, OwnerTyped
  <2>2. job'.at = now /\ job' \in JobType
    BY <1>a, <2>1 DEF JobType, LedgerTyped
  <2>3. Instant' = now
    BY <2>2, NothingAssumption DEF Instant
  <2>4. QED
    BY <1>8, <1>b, <2>3 DEF Begin, Rests, ledger
<1>9. CASE RecoveryFails
  BY <1>9, <1>c DEF RecoveryFails, clock
<1>10. CASE CommitOk
  <2>1. job \in JobType /\ job' = [job EXCEPT !.stage = "follow"] /\ job # NoJob
    BY <1>10, <1>a DEF CommitOk, Writing, OwnerTyped
  <2>2. job' \in JobType /\ job'.at = job.at
    BY <2>1 DEF JobType
  <2>3. Instant' = job.at
    BY <2>2, NothingAssumption DEF Instant
  <2>4. QED
    BY <1>10, <1>b, <2>1, <2>3 DEF CommitOk
<1>11. CASE Follow
  BY <1>11, <1>d DEF Follow, clock
<1>12. CASE CommitFails
  BY <1>12, <1>d DEF CommitFails, clock
<1>13. CASE ReplyLost
  <2>1. Instant' = now /\ Writing /\ job # NoJob
    BY <1>13 DEF ReplyLost, Instant, clock, Writing
  <2>2. CASE UNCHANGED ledger
    BY <1>13, <1>d, <2>2 DEF ReplyLost, clock
  <2>3. CASE Stores
    BY <1>b, <2>1, <2>3
  <2>4. QED
    BY <1>13, <2>2, <2>3 DEF ReplyLost
<1>14. CASE Close
  <2>1. Instant' = now
    BY <1>14 DEF Close, Instant, clock
  <2>2. QED
    BY <1>14, <1>a, <1>b, <2>1, KeepsStamp DEF Rests
<1>15. CASE Tick
  <2>1. Instant' \in Nat /\ Instant <= Instant'
    BY <1>15, <1>b DEF Tick, Instant, owner
  <2>2. QED
    BY <1>15, <2>1 DEF Tick, Rests, ledger
<1>16. CASE Crash
  <2>1. Instant' = now
    BY <1>16 DEF Crash, Instant
  <2>2. CASE Writing /\ Stores
    BY <1>b, <2>1, <2>2 DEF Writing
  <2>3. CASE UNCHANGED ledger
    BY <1>b, <2>1, <2>3 DEF Rests, ledger
  <2>4. QED
    BY <1>16, <2>2, <2>3 DEF Crash
<1>17. CASE UNCHANGED vars
  BY <1>17, <1>c DEF vars, ledger
<1>18. QED
  BY <1>1, <1>2, <1>3, <1>4, <1>5, <1>6,
     <1>7, <1>8, <1>9, <1>10, <1>11, <1>12,
     <1>13, <1>14, <1>15, <1>16, <1>17
  DEF Next, Step, Work

\* Every step keeps the keys of the kept commits held, and commits nothing twice.
LEMMA GuardedStep == Inv /\ [Next]_vars => Guarded' /\ NeverTwice'
<1> SUFFICES ASSUME Inv, [Next]_vars PROVE Guarded' /\ NeverTwice'
  OBVIOUS
<1>a. LedgerTyped /\ OwnerTyped /\ Begun /\ Guarded /\ NeverTwice
  BY TypeParts DEF Inv
<1>1. CASE Rests
  BY <1>a, <1>1, GuardedKept DEF Rests, NeverTwice
<1>2. CASE Writing /\ Stores /\ Instant' \in Nat /\ job.at <= Instant'
  BY <1>a, <1>2, StoresGuarded
<1>3. QED
  BY <1>1, <1>2, StoresOrRests

\* The ledger's invariant, for every set of calls and every plan.
THEOREM Invariance == Spec => []Inv
<1>1. Init => Inv
  <2> SUFFICES ASSUME Init PROVE Inv
    OBVIOUS
  <2>1. LedgerTyped /\ seen \in 0..Len(log)
    BY TimeAssumption DEF Init, LedgerTyped
  <2>6. uncertain \in BOOLEAN
    BY Zenon DEF Init
  <2>2. OwnerTyped
    BY DEF Init, OwnerTyped
  <2>3. ScopesTyped
    BY FreshTyped DEF Init, ScopesTyped
  <2>4. TurnsTyped
    BY DEF Init, TurnsTyped, Running
  <2>5. Begun /\ Guarded /\ NeverTwice
    BY DEF Init, Begun, Guarded, NeverTwice
  <2>7. QED
    BY <2>1, <2>6, <2>2, <2>3, <2>4, <2>5, TypeParts DEF Inv, ImageTyped
<1>2. Inv /\ [Next]_vars => Inv'
  <2> SUFFICES ASSUME Inv, [Next]_vars PROVE Inv'
    OBVIOUS
  <2>1. LedgerTyped' /\ OwnerTyped' /\ ImageTyped' /\ ScopesTyped' /\ TurnsTyped'
    BY LedgerStep, OwnerStep, ImageStep, ScopesStep, TurnsStep
  <2>2. TypeOK'
    BY <2>1 DEF TypeOK, LedgerTyped, OwnerTyped, ImageTyped, ScopesTyped, TurnsTyped,
      LogType, ScopeType
  <2>3. QED
    BY <2>2, BegunStep, GuardedStep DEF Inv
<1>3. QED
  BY <1>1, <1>2, PTL DEF Spec

\* The variables of the ledger, the calls and the owner keep their types.
THEOREM TypeCorrect == Spec => []TypeOK
<1>1. Inv => TypeOK
  BY DEF Inv
<1>2. QED
  BY <1>1, Invariance, PTL

\* A write the network may have dropped the answer to is never made twice
\* inside the keep window, whatever was cancelled, lost, resent or restarted.
THEOREM NoWriteTwice == Spec => []NeverTwice
<1>1. Inv => NeverTwice
  BY DEF Inv
<1>2. QED
  BY <1>1, Invariance, PTL

\* One step leaves a row that is still kept where it stands.
LEMMA StandsStep ==
  Inv /\ [Next]_vars =>
    /\ Kept(receipt, now) =>
         /\ receipt' # NoRow
         /\ receipt'.digest = receipt.digest /\ receipt'.at = receipt.at
    /\ \A p \in PartNames : Kept(parts[p], now) => parts'[p] = parts[p]
<1> SUFFICES ASSUME Inv, [Next]_vars
             PROVE  /\ Kept(receipt, now) =>
                         /\ receipt' # NoRow
                         /\ receipt'.digest = receipt.digest /\ receipt'.at = receipt.at
                    /\ \A p \in PartNames : Kept(parts[p], now) => parts'[p] = parts[p]
  OBVIOUS
<1>a. LedgerTyped /\ OwnerTyped /\ Begun
  BY TypeParts DEF Inv
<1>1. CASE Rests
  BY <1>1 DEF Rests, Kept
<1>2. CASE Writing /\ Stores
  <2>1. /\ now \in Nat /\ KeptFor \in Nat /\ job.at \in Nat /\ job.at <= now
        /\ \A n \in PartNames : parts[n] # NoRow => parts[n].at \in Nat
        /\ receipt # NoRow => receipt.at \in Nat
        /\ \A n \in PartNames : n # Whole
    BY <1>a, <1>2, Instants, PartAssumption DEF Writing, Begun
  <2>2. /\ Kept(receipt, now) => Kept(receipt, job.at)
        /\ \A n \in PartNames : Kept(parts[n], now) => Kept(parts[n], job.at)
    BY <2>1 DEF Kept
  <2>3. QED
    BY <1>2, <2>1, <2>2 DEF Stores, KeyHeld, Prune, Kept
<1>3. QED
  BY <1>1, <1>2, StoresOrRests

\* A spent id stays spent by the same write for the whole keep window.
THEOREM KeptRowsStand == Spec => RowStands
<1>1. Inv /\ [Next]_vars =>
        [/\ Kept(receipt, now) =>
              /\ receipt' # NoRow
              /\ receipt'.digest = receipt.digest /\ receipt'.at = receipt.at
         /\ \A p \in PartNames : Kept(parts[p], now) => parts'[p] = parts[p]]_vars
  BY StandsStep
<1>2. QED
  BY <1>1, Invariance, PTL DEF Spec, RowStands

-----------------------------------------------------------------------------
(* What the calls are told, when the writes of the id share no part.       *)

\* The ledger stands still, is changed by the job of a receipt, or takes a
\* commit in.
LEMMA LedgerMoves == [Next]_vars => UNCHANGED ledger \/ Close \/ (Writing /\ Stores)
<1> SUFFICES ASSUME [Next]_vars PROVE UNCHANGED ledger \/ Close \/ (Writing /\ Stores)
  OBVIOUS
<1>1. CASE \E c \in Calls : \/ Send(c) \/ TakeTurn(c) \/ FlightBusy(c) \/ Unreadable(c)
                         \/ Stops(c) \/ ProtocolError(c) \/ Cancel(c)
  BY <1>1 DEF Send, TakeTurn, FlightBusy, Unreadable, Stops, ProtocolError, Cancel
<1>2. CASE \E c \in Calls : Lookup(c)
  BY <1>2 DEF Lookup
<1>3. CASE \E c \in Calls : ReadParts(c)
  BY <1>3 DEF ReadParts
<1>4. CASE \E c \in Calls : Commit(c)
  BY <1>4 DEF Commit
<1>5. CASE \E c \in Calls : Finishes(c)
  BY <1>5 DEF Finishes
<1>6. CASE \E c \in Calls : EndOfParts(c) \/ EndOfSpent(c)
  BY <1>6 DEF EndOfParts, EndOfSpent
<1>7. CASE \E c \in Calls : EndOfNothing(c)
  BY <1>7 DEF EndOfNothing
<1>8. CASE Begin
  BY <1>8 DEF Begin
<1>9. CASE RecoveryFails
  BY <1>9 DEF RecoveryFails
<1>10. CASE CommitOk
  BY <1>10 DEF CommitOk
<1>11. CASE Follow
  BY <1>11 DEF Follow
<1>12. CASE CommitFails
  BY <1>12 DEF CommitFails
<1>13. CASE ReplyLost
  BY <1>13 DEF ReplyLost
<1>14. CASE Close
  BY <1>14
<1>15. CASE Tick
  BY <1>15 DEF Tick
<1>16. CASE Crash
  BY <1>16 DEF Crash
<1>17. CASE UNCHANGED vars
  BY <1>17 DEF vars, ledger
<1>18. QED
  BY <1>1, <1>2, <1>3, <1>4, <1>5, <1>6,
     <1>7, <1>8, <1>9, <1>10, <1>11, <1>12,
     <1>13, <1>14, <1>15, <1>16, <1>17
  DEF Next, Step, Work

\* The log only grows.
LEMMA LogGrows ==
  ASSUME LedgerTyped, OwnerTyped, [Next]_vars
  PROVE  /\ Len(log) \in Nat /\ Len(log') \in Nat /\ Len(log) <= Len(log')
         /\ \A k \in 1..Len(log) : log'[k] = log[k]
<1>1. Len(log) \in Nat /\ log \in Seq(LogType)
  BY DEF LedgerTyped
<1>2. CASE log' = log
  BY <1>1, <1>2
<1>3. CASE Writing /\ Stores
  <2> DEFINE e == [digest |-> DigestOf[job.call], name |-> job.name, at |-> job.at]
  <2>1. log' = Append(log, e) /\ log' \in Seq(LogType) /\ Len(log') = Len(log) + 1
    BY <1>3, StoresTyped
  <2>2. job.name \in PartNames \cup {Whole} /\ job.at \in 0..Horizon
        /\ DigestOf[job.call] \in Digests
    BY <1>3, StoresTyped DEF JobType
  <2>3. e \in LogType
    BY <2>2 DEF LogType
  <2>4. \A k \in 1..Len(log) : log'[k] = log[k]
    BY <1>1, <2>1, <2>3, AppendProperties
  <2>5. QED
    BY <1>1, <2>1, <2>4
<1>4. QED
  BY <1>2, <1>3, LedgerMoves DEF ledger, Close

\* The same of the log the step ends with.
LandsIn(d, name) == \E k \in 1..Len(log') : log'[k].digest = d /\ log'[k].name = name

LandsBy(d) == \A i \in DOMAIN Plan(d) : LandsIn(d, Plan(d)[i])

\* The commit that a step stores is the last of the log.
LEMMA NewCommit ==
  ASSUME LedgerTyped, OwnerTyped, Writing, Stores
  PROVE  LandsIn(DigestOf[job.call], job.name)
<1> DEFINE e == [digest |-> DigestOf[job.call], name |-> job.name, at |-> job.at]
<1>1. log' = Append(log, e) /\ Len(log') = Len(log) + 1 /\ Len(log) \in Nat
  BY StoresTyped DEF LedgerTyped
<1>2. job.name \in PartNames \cup {Whole} /\ job.at \in 0..Horizon
      /\ DigestOf[job.call] \in Digests /\ log \in Seq(LogType)
  BY StoresTyped DEF JobType, LedgerTyped
<1>3. e \in LogType
  BY <1>2 DEF LogType
<1>4. log'[Len(log) + 1] = e
  BY <1>1, <1>2, <1>3, AppendProperties
<1>5. log'[Len(log) + 1].digest = DigestOf[job.call] /\ log'[Len(log) + 1].name = job.name
  BY <1>4
<1>6. QED
  BY <1>1, <1>5 DEF LandsIn

\* What has landed stays landed.
LEMMA LandedStays ==
  ASSUME LedgerTyped, OwnerTyped, [Next]_vars
  PROVE  /\ \A d, name : LandedIn(d, name, Len(log)) => LandsIn(d, name)
         /\ \A d : LandedBy(d, Len(log)) => LandsBy(d)
<1>1. \A d, name : LandedIn(d, name, Len(log)) => LandsIn(d, name)
  BY LogGrows DEF LandedIn, LandsIn
<1>2. \A d : LandedBy(d, Len(log)) => LandsBy(d)
  BY LogGrows DEF LandedBy, LandsIn, LandsBy
<1>3. QED
  BY <1>1, <1>2

\* What the image shows stays shown.
LEMMA ShownStays ==
  ASSUME LedgerTyped, OwnerTyped, [Next]_vars, NEW d,
         NEW n \in 0..Len(log), NEW m \in 0..Len(log'), n <= m, LandedBy(d, n)
  PROVE  \A i \in DOMAIN Plan(d) :
           \E k \in 1..m : log'[k].digest = d /\ log'[k].name = Plan(d)[i]
BY LogGrows DEF LandedBy

\* A write that commits at once is whole with its one commit.
LEMMA WholeLands ==
  ASSUME NEW d \in Digests, Whole \in Names(d)
  PROVE  /\ \A n : LandedIn(d, Whole, n) => LandedBy(d, n)
         /\ LandsIn(d, Whole) => LandsBy(d)
BY PlanNames DEF LandedBy, LandedIn, LandsIn, LandsBy

\* Every step keeps the rows true.
LEMMA RowsStep ==
  ASSUME Inv, RowsLanded, JobsTrue, [Next]_vars
  PROVE  RowsLanded'
<1>a. LedgerTyped /\ OwnerTyped
  BY TypeParts DEF Inv
<1> SUFFICES /\ \A n \in PartNames : parts'[n] # NoRow =>
                  n \in Names(parts'[n].digest) /\ LandsIn(parts'[n].digest, n)
             /\ receipt' # NoRow => LandsBy(receipt'.digest)
  BY DEF RowsLanded, LandedIn, LandedBy, LandsIn, LandsBy
<1>b. /\ \A n \in PartNames : parts[n] # NoRow =>
           n \in Names(parts[n].digest) /\ LandsIn(parts[n].digest, n)
      /\ receipt # NoRow => LandsBy(receipt.digest)
  BY <1>a, LandedStays DEF RowsLanded
<1>1. CASE UNCHANGED ledger
  BY <1>b, <1>1 DEF ledger
<1>2. CASE Close
  <2>1. parts' = parts /\ (receipt # NoRow => receipt'.digest = receipt.digest)
    BY <1>2, <1>a, KeepsStamp
  <2>2. CASE receipt # NoRow
    BY <1>b, <2>1, <2>2
  <2>3. CASE receipt = NoRow /\ receipt' # NoRow
    <3>1. job # NoJob /\ job.kind # "write" /\ receipt' \in {NoRow, Keeps}
      BY <1>2, <2>3 DEF Close
    <3>2. LandsBy(DigestOf[job.call])
      BY <1>a, <3>1, LandedStays DEF JobsTrue, JobTrue
    <3>3. receipt'.digest = DigestOf[job.call]
      BY <2>3, <3>1 DEF Keeps
    <3>4. QED
      BY <1>b, <2>1, <3>2, <3>3
  <2>4. CASE receipt' = NoRow
    BY <1>b, <2>1, <2>4
  <2>5. QED
    BY <2>2, <2>3, <2>4
<1>3. CASE Writing /\ Stores
  <2>1. /\ DigestOf[job.call] \in Digests
        /\ job.name \in PartNames \cup {Whole}
        /\ job.name \in Names(DigestOf[job.call])
        /\ LandsIn(DigestOf[job.call], job.name)
    BY <1>a, <1>3, StoresTyped, NewCommit DEF JobType, JobsTrue, JobTrue, Writing
  <2>2. CASE job.name = Whole
    <3>1. receipt'.digest = DigestOf[job.call] /\ parts' = parts
      BY <1>3, <2>2 DEF Stores
    <3>2. LandsBy(receipt'.digest)
      BY <2>1, <2>2, <3>1, WholeLands
    <3>3. QED
      BY <1>b, <3>1, <3>2
  <2>3. CASE job.name # Whole
    <3>1. /\ receipt' \in {receipt, NoRow}
          /\ \A n \in PartNames : n # job.name => parts'[n] \in {parts[n], NoRow}
          /\ parts'[job.name].digest = DigestOf[job.call]
      BY <1>3, <2>1, <2>3 DEF Stores, Prune
    <3>2. QED
      BY <1>b, <2>1, <3>1
  <2>4. QED
    BY <2>2, <2>3
<1>4. QED
  BY <1>1, <1>2, <1>3, LedgerMoves

\* A step leaves the call no more to say than it had.
NoMore(x) ==
  /\ scope'[x].done \subseteq scope[x].done
  /\ scope'[x].state = "Spent" => scope[x].state = "Spent"
  /\ scope'[x].finished => scope[x].finished

\* A call opens its scope from the rows, or finishes.
Opens(x) == scope' = [scope EXCEPT ![x].done = Written]
Done(x) ==
  /\ Lacks(x) = {}
  /\ scope' = [scope EXCEPT ![x].finished = PartsOf[DigestOf[x]] # <<>>]

\* What a scope says changes when the call opens it, when the call finishes,
\* and when the job of the call commits.
LEMMA ScopesMove ==
  ASSUME Inv, [Next]_vars, NEW x \in Calls
  PROVE  NoMore(x) \/ Opens(x) \/ Done(x) \/ (CommitOk /\ scope' = Claimed /\ x = job.call)
<1>a. ScopesTyped /\ OwnerTyped
  BY TypeParts DEF Inv
<1>b. /\ scope \in [Calls -> ScopeType]
      /\ scope[x] \in ScopeType /\ scope[x].done \subseteq PartNames
  BY <1>a DEF ScopesTyped, ScopeType
<1>c. ASSUME scope' = scope PROVE NoMore(x)
  BY <1>c DEF NoMore
<1>d. ASSUME scope'[x] = Fresh PROVE NoMore(x)
  BY <1>d DEF NoMore, Fresh
<1>e. ASSUME NEW c \in Calls, scope' = [scope EXCEPT ![c] = Fresh] PROVE NoMore(x)
  BY <1>b, <1>c, <1>d, <1>e DEF NoMore
<1>f. ASSUME NEW c \in Calls, NEW s \in {"Open", "Taken"},
             scope' = Claim(c, [scope[c] EXCEPT !.state = s])
      PROVE  NoMore(x)
  BY <1>b, <1>f, ScopeFields DEF NoMore, Claim, ScopeType
<1>g. ASSUME NEW c \in Calls, scope' = Claim(c, [scope[c] EXCEPT !.used = TRUE])
      PROVE  NoMore(x)
  BY <1>b, <1>g, ScopeFields DEF NoMore, Claim, ScopeType
<1>h. ASSUME Writing, scope' = Unclaimed PROVE NoMore(x)
  <2>1. job.call \in Calls
    BY <1>a, <1>h DEF OwnerTyped, Writing, JobType
  <2>2. CASE job.name = Whole
    BY <1>f, <1>h, <2>1, <2>2 DEF Unclaimed
  <2>3. CASE job.name # Whole
    <3>1. scope' = Claim(job.call, [scope[job.call] EXCEPT !.state = scope[job.call].state])
      BY <1>h, <2>3 DEF Unclaimed
    <3>2. QED
      BY <1>b, <2>1, <3>1 DEF Claim, NoMore, ScopeType
  <2>4. QED
    BY <2>2, <2>3
<1>1. CASE \E c \in Calls : \/ Send(c) \/ TakeTurn(c) \/ FlightBusy(c) \/ Unreadable(c)
                         \/ Stops(c) \/ ProtocolError(c) \/ Cancel(c)
  BY <1>1, <1>c, <1>e DEF Send, TakeTurn, FlightBusy, Unreadable, Stops, ProtocolError, Cancel, EndsWith
<1>2. CASE \E c \in Calls : Lookup(c)
  BY <1>2, <1>c, <1>e DEF Lookup, Repeats, EndsWith
<1>3. CASE \E c \in Calls : ReadParts(c)
  <2>1. PICK c \in Calls : ReadParts(c)
    BY <1>3
  <2>2. CASE scope' = [scope EXCEPT ![c] = Fresh]
    BY <1>e, <2>2
  <2>3. CASE Opens(c)
    BY <1>b, <2>3 DEF Opens, NoMore
  <2>4. QED
    BY <2>1, <2>2, <2>3 DEF ReadParts, EndsWith, Opens
<1>4. CASE \E c \in Calls : Commit(c)
  BY <1>4, <1>c DEF Commit
<1>5. CASE \E c \in Calls : Finishes(c)
  <2>1. PICK c \in Calls : Finishes(c)
    BY <1>5
  <2>2. Done(c)
    BY <2>1 DEF Finishes, Done
  <2>3. CASE x # c
    BY <1>b, <2>2, <2>3 DEF Done, NoMore
  <2>4. QED
    BY <2>2, <2>3
<1>6. CASE \E c \in Calls : EndOfParts(c) \/ EndOfSpent(c)
  BY <1>6, <1>c, <1>e DEF EndOfParts, EndOfSpent, Closes, EndsWith
<1>7. CASE \E c \in Calls : EndOfNothing(c)
  BY <1>7, <1>e DEF EndOfNothing, Repeats, EndsWith
<1>8. CASE Begin
  <2>1. queue # <<>> /\ Head(queue) \in JobType
    BY <1>8, <1>a DEF Begin, OwnerTyped
  <2>2. Head(queue).call \in Calls
    BY <2>1 DEF JobType
  <2>3. QED
    BY <1>8, <1>c, <1>f, <1>g, <2>2 DEF Begin
<1>9. CASE RecoveryFails
  BY <1>9, <1>c DEF RecoveryFails
<1>10. CASE CommitOk
  <2>1. job.call \in Calls /\ scope' = Claimed
    BY <1>10, <1>a DEF CommitOk, Writing, OwnerTyped, JobType
  <2>2. CASE x # job.call
    BY <1>b, <2>1, <2>2 DEF Claimed, Claim, NoMore
  <2>3. QED
    BY <1>10, <2>1, <2>2
<1>11. CASE Follow
  BY <1>11, <1>c DEF Follow
<1>12. CASE CommitFails
  BY <1>12, <1>h DEF CommitFails
<1>13. CASE ReplyLost
  BY <1>13, <1>h DEF ReplyLost
<1>14. CASE Close
  <2>1. job.call \in Calls
    BY <1>14, <1>a DEF Close, OwnerTyped, JobType
  <2>2. QED
    BY <1>14, <1>c, <1>e, <2>1 DEF Close, EndsWith, calls
<1>15. CASE Tick
  BY <1>15, <1>c DEF Tick, calls
<1>16. CASE Crash
  BY <1>16, <1>d DEF Crash
<1>17. CASE UNCHANGED vars
  BY <1>17, <1>c DEF vars
<1>18. QED
  BY <1>1, <1>2, <1>3, <1>4, <1>5, <1>6,
     <1>7, <1>8, <1>9, <1>10, <1>11, <1>12,
     <1>13, <1>14, <1>15, <1>16, <1>17
  DEF Next, Step, Work

\* Every step keeps the scopes true.
LEMMA ScopesStepTrue ==
  ASSUME PartsApart, Inv, RowsLanded, ScopesTrue, JobsTrue, [Next]_vars
  PROVE  ScopesTrue'
<1>a. LedgerTyped /\ OwnerTyped /\ ScopesTyped /\ ScopesTyped'
  BY TypeParts, ScopesStep DEF Inv
<1> SUFFICES ASSUME NEW c \in Calls
             PROVE  /\ \A n \in scope'[c].done :
                         n \in Names(DigestOf[c]) => LandsIn(DigestOf[c], n)
                    /\ scope'[c].state = "Spent" => LandsBy(DigestOf[c])
                    /\ scope'[c].finished => LandsBy(DigestOf[c])
  BY DEF ScopesTrue, LandedIn, LandedBy, LandsIn, LandsBy
<1>b. /\ \A n \in scope[c].done :
           n \in Names(DigestOf[c]) => LandsIn(DigestOf[c], n)
      /\ scope[c].state = "Spent" => LandsBy(DigestOf[c])
      /\ scope[c].finished => LandsBy(DigestOf[c])
  BY <1>a, LandedStays DEF ScopesTrue
<1>c. DigestOf[c] \in Digests /\ scope[c] \in ScopeType
      /\ scope \in [Calls -> ScopeType]
  BY <1>a, CallAssumption DEF ScopesTyped
<1>1. CASE NoMore(c)
  BY <1>b, <1>1 DEF NoMore
<1>2. CASE Opens(c)
  <2>1. /\ scope'[c].done = Written /\ scope'[c].state = scope[c].state
        /\ scope'[c].finished = scope[c].finished
    BY <1>2, <1>c DEF Opens, ScopeType
  <2>2. ASSUME NEW n \in Written, n \in Names(DigestOf[c])
        PROVE  LandsIn(DigestOf[c], n)
    <3>1. n \in PartNames /\ parts[n] \in PartType
      BY <1>a DEF Written, Kept, LedgerTyped
    <3>2. /\ parts[n].digest \in Digests /\ n \in Names(parts[n].digest)
          /\ LandsIn(parts[n].digest, n)
      BY <1>a, <3>1, LandedStays, NothingAssumption DEF RowsLanded, PartType
    <3>3. parts[n].digest = DigestOf[c]
      BY <1>c, <2>2, <3>1, <3>2 DEF PartsApart
    <3>4. QED
      BY <3>2, <3>3
  <2>3. QED
    BY <1>b, <2>1, <2>2
<1>3. CASE Done(c)
  <2>1. /\ scope'[c].done = scope[c].done /\ scope'[c].state = scope[c].state
        /\ scope'[c].finished = (PartsOf[DigestOf[c]] # <<>>)
    BY <1>3, <1>c DEF Done, ScopeType
  <2>2. \A i \in DOMAIN Plan(DigestOf[c]) : Has(c, Plan(DigestOf[c])[i])
    BY <1>3 DEF Done, Lacks
  <2>3. ASSUME NEW i \in DOMAIN Plan(DigestOf[c])
        PROVE  LandsIn(DigestOf[c], Plan(DigestOf[c])[i])
    <3>1. Plan(DigestOf[c])[i] \in Names(DigestOf[c])
      BY DEF Names
    <3>2. CASE Plan(DigestOf[c])[i] = Whole
      BY <1>b, <2>2, <3>2 DEF Has, LandsBy
    <3>3. CASE Plan(DigestOf[c])[i] # Whole
      BY <1>b, <2>2, <3>1, <3>3 DEF Has
    <3>4. QED
      BY <3>2, <3>3
  <2>4. LandsBy(DigestOf[c])
    BY <2>3 DEF LandsBy
  <2>5. QED
    BY <1>b, <2>1, <2>4
<1>4. CASE CommitOk /\ scope' = Claimed /\ c = job.call
  <2>1. /\ Writing /\ Stores
        /\ job.name \in PartNames \cup {Whole} /\ job.name \in Names(DigestOf[c])
        /\ LandsIn(DigestOf[c], job.name)
    BY <1>a, <1>4, NewCommit
    DEF CommitOk, JobsTrue, JobTrue, Writing, OwnerTyped, JobType
  <2>2. CASE job.name = Whole
    <3>1. LandsBy(DigestOf[c])
      BY <1>c, <2>1, <2>2, WholeLands
    <3>2. scope'[c].done = scope[c].done
      BY <1>4, <1>c, <2>2 DEF Claimed, Claim, ScopeType
    <3>3. QED
      BY <1>b, <3>1, <3>2
  <2>3. CASE job.name # Whole
    <3>1. /\ scope'[c].done \subseteq scope[c].done \cup {job.name}
          /\ scope'[c].state = scope[c].state /\ scope'[c].finished = scope[c].finished
      BY <1>4, <1>c, <2>3 DEF Claimed, Claim, ScopeType
    <3>2. QED
      BY <1>b, <2>1, <3>1
  <2>4. QED
    BY <2>2, <2>3
<1>5. QED
  BY <1>1, <1>2, <1>3, <1>4, ScopesMove

\* The same of a job, of the log the step ends with.
JobHolds(j) ==
  IF j.kind = "write" THEN j.name \in Names(DigestOf[j.call]) ELSE LandsBy(DigestOf[j.call])

\* Every step keeps the jobs true.
LEMMA JobsStep ==
  ASSUME Inv, ScopesTrue, JobsTrue, [Next]_vars
  PROVE  JobsTrue'
<1>a. LedgerTyped /\ OwnerTyped /\ ScopesTyped
  BY TypeParts DEF Inv
<1> SUFFICES /\ \A i \in 1..Len(queue') : JobHolds(queue'[i])
             /\ job' # NoJob => JobHolds(job')
  BY DEF JobsTrue, JobTrue, JobHolds, LandedBy, LandsIn, LandsBy
<1>b. /\ \A i \in 1..Len(queue) : JobHolds(queue[i])
      /\ job # NoJob => JobHolds(job)
      /\ queue \in Seq(JobType)
  BY <1>a, LandedStays DEF JobsTrue, JobTrue, JobHolds, OwnerTyped
<1>c. ASSUME queue' = queue, job' = job \/ job' = NoJob
      PROVE  /\ \A i \in 1..Len(queue') : JobHolds(queue'[i])
             /\ job' # NoJob => JobHolds(job')
  BY <1>b, <1>c
<1>d. ASSUME NEW j \in JobType, queue' = Append(queue, j), job' = job, JobHolds(j)
      PROVE  /\ \A i \in 1..Len(queue') : JobHolds(queue'[i])
             /\ job' # NoJob => JobHolds(job')
  <2>1. Len(queue') = Len(queue) + 1 /\ Len(queue) \in Nat /\ queue'[Len(queue) + 1] = j
        /\ \A i \in 1..Len(queue) : queue'[i] = queue[i]
    BY <1>b, <1>d, AppendProperties
  <2>2. QED
    BY <1>b, <1>d, <2>1
<1>e. ASSUME queue # <<>>, queue' = Tail(queue)
      PROVE  \A i \in 1..Len(queue') : JobHolds(queue'[i])
  <2>1. /\ Len(queue') = Len(queue) - 1 /\ Len(queue) \in Nat
        /\ \A i \in 1..Len(queue') : queue'[i] = queue[i + 1]
    BY <1>b, <1>e, HeadTailProperties
  <2>2. QED
    BY <1>b, <2>1
<1>1. CASE \E c \in Calls : \/ Send(c) \/ TakeTurn(c) \/ FlightBusy(c) \/ Unreadable(c)
                         \/ Stops(c) \/ ProtocolError(c) \/ Cancel(c)
  BY <1>1, <1>c DEF Send, TakeTurn, FlightBusy, Unreadable, Stops, ProtocolError, Cancel, owner
<1>2. CASE \E c \in Calls : Lookup(c)
  BY <1>2, <1>c DEF Lookup, owner
<1>3. CASE \E c \in Calls : ReadParts(c)
  BY <1>3, <1>c DEF ReadParts, owner
<1>4. CASE \E c \in Calls : Commit(c)
  <2>1. PICK c \in Calls : Commit(c)
    BY <1>4
  <2>2. PICK i \in Lacks(c) :
          queue' = Append(queue, Job(c, "write", Plan(DigestOf[c])[i]))
    BY <2>1 DEF Commit
  <2>3. Plan(DigestOf[c])[i] \in Names(DigestOf[c]) /\ DigestOf[c] \in Digests
    BY CallAssumption DEF Names, Lacks
  <2>4. Job(c, "write", Plan(DigestOf[c])[i]) \in JobType
    BY <2>3, PlanNames, JobTyped
  <2>5. JobHolds(Job(c, "write", Plan(DigestOf[c])[i]))
    BY <2>3 DEF JobHolds, Job
  <2>6. QED
    BY <1>d, <2>1, <2>2, <2>4, <2>5 DEF Commit
<1>5. CASE \E c \in Calls : Finishes(c)
  BY <1>5, <1>c DEF Finishes, owner
<1>6. CASE \E c \in Calls : EndOfParts(c) \/ EndOfSpent(c)
  <2>1. PICK c \in Calls : EndOfParts(c) \/ EndOfSpent(c)
    BY <1>6
  <2>2. Job(c, "finish", Whole) \in JobType /\ Job(c, "fill", Whole) \in JobType
    BY JobTyped
  <2>3. scope[c].state = "Spent" \/ scope[c].finished => LandsBy(DigestOf[c])
    BY <1>a, LandedStays DEF ScopesTrue
  <2>4. LandsBy(DigestOf[c]) => JobHolds(Job(c, "finish", Whole)) /\ JobHolds(Job(c, "fill", Whole))
    BY DEF JobHolds, Job
  <2>5. QED
    BY <1>c, <1>d, <2>1, <2>2, <2>3, <2>4 DEF EndOfParts, EndOfSpent, Closes
<1>7. CASE \E c \in Calls : EndOfNothing(c)
  BY <1>7, <1>c DEF EndOfNothing, owner
<1>8. CASE Begin
  <2>1. /\ queue # <<>> /\ queue' = Tail(queue) /\ Head(queue) \in JobType
        /\ Head(queue) = queue[1] /\ Len(queue) \in Nat \ {0}
        /\ job' = [Head(queue) EXCEPT !.stage = "commit", !.at = now]
    BY <1>8, <1>b DEF Begin
  <2>2. JobHolds(Head(queue))
    BY <1>b, <2>1
  <2>3. job'.kind = Head(queue).kind /\ job'.name = Head(queue).name
        /\ job'.call = Head(queue).call
    BY <2>1 DEF JobType
  <2>4. QED
    BY <1>e, <2>1, <2>2, <2>3 DEF JobHolds
<1>9. CASE RecoveryFails
  BY <1>9, <1>b, <1>e DEF RecoveryFails
<1>10. CASE CommitOk
  <2>1. job \in JobType /\ job # NoJob /\ job' = [job EXCEPT !.stage = "follow"]
        /\ queue' = queue
    BY <1>10, <1>a DEF CommitOk, Writing, OwnerTyped
  <2>2. job'.kind = job.kind /\ job'.name = job.name /\ job'.call = job.call
    BY <2>1 DEF JobType
  <2>3. QED
    BY <1>b, <2>1, <2>2 DEF JobHolds
<1>11. CASE Follow
  BY <1>11, <1>c DEF Follow
<1>12. CASE CommitFails
  BY <1>12, <1>c DEF CommitFails
<1>13. CASE ReplyLost
  BY <1>13, <1>c DEF ReplyLost
<1>14. CASE Close
  BY <1>14, <1>c DEF Close
<1>15. CASE Tick
  BY <1>15, <1>c DEF Tick, owner
<1>16. CASE Crash
  BY <1>16 DEF Crash
<1>17. CASE UNCHANGED vars
  BY <1>17, <1>c DEF vars
<1>18. QED
  BY <1>1, <1>2, <1>3, <1>4, <1>5, <1>6,
     <1>7, <1>8, <1>9, <1>10, <1>11, <1>12,
     <1>13, <1>14, <1>15, <1>16, <1>17
  DEF Next, Step, Work

\* A call is told of a write that landed: from the row, or from its own job.
LEMMA ToldStep ==
  ASSUME Inv, RowsLanded, JobsTrue, ToldIsWritten, [Next]_vars
  PROVE  ToldIsWritten'
<1>a. LedgerTyped /\ OwnerTyped
  BY TypeParts DEF Inv
<1> SUFFICES ASSUME NEW x \in Calls, told'[x] # NoRow PROVE LandsBy(told'[x])
  BY DEF ToldIsWritten, LandedBy, LandsIn, LandsBy
<1>b. /\ told \in [Calls -> Digests \cup {NoRow}]
      /\ told[x] # NoRow => LandsBy(told[x])
      /\ receipt # NoRow => LandsBy(receipt.digest)
      /\ job # NoJob /\ job.kind # "write" => LandsBy(DigestOf[job.call])
  BY <1>a, LandedStays DEF ToldIsWritten, RowsLanded, JobsTrue, JobTrue, LedgerTyped
<1>c. ASSUME told' = told PROVE LandsBy(told'[x])
  BY <1>b, <1>c
<1>d. ASSUME NEW c \in Calls, Repeats(c) PROVE LandsBy(told'[x])
  BY <1>b, <1>d DEF Repeats, Kept
<1>1. CASE \E c \in Calls : \/ Send(c) \/ TakeTurn(c) \/ FlightBusy(c) \/ Unreadable(c)
                         \/ Stops(c) \/ ProtocolError(c) \/ Cancel(c)
  BY <1>1, <1>c DEF Send, TakeTurn, FlightBusy, Unreadable, Stops, ProtocolError, Cancel
<1>2. CASE \E c \in Calls : Lookup(c)
  BY <1>2, <1>c, <1>d DEF Lookup
<1>3. CASE \E c \in Calls : ReadParts(c)
  BY <1>3, <1>c DEF ReadParts
<1>4. CASE \E c \in Calls : Commit(c)
  BY <1>4, <1>c DEF Commit
<1>5. CASE \E c \in Calls : Finishes(c)
  BY <1>5, <1>c DEF Finishes
<1>6. CASE \E c \in Calls : EndOfParts(c) \/ EndOfSpent(c)
  BY <1>6, <1>c DEF EndOfParts, EndOfSpent
<1>7. CASE \E c \in Calls : EndOfNothing(c)
  BY <1>7, <1>c, <1>d DEF EndOfNothing
<1>8. CASE Begin
  BY <1>8, <1>c DEF Begin
<1>9. CASE RecoveryFails
  BY <1>9, <1>c DEF RecoveryFails
<1>10. CASE CommitOk
  BY <1>10, <1>c DEF CommitOk
<1>11. CASE Follow
  BY <1>11, <1>c DEF Follow
<1>12. CASE CommitFails
  BY <1>12, <1>c DEF CommitFails
<1>13. CASE ReplyLost
  BY <1>13, <1>c DEF ReplyLost
<1>14. CASE Close
  BY <1>14, <1>b, <1>c DEF Close, calls
<1>15. CASE Tick
  BY <1>15, <1>c DEF Tick, calls
<1>16. CASE Crash
  BY <1>16, <1>c DEF Crash
<1>17. CASE UNCHANGED vars
  BY <1>17, <1>c DEF vars
<1>18. QED
  BY <1>1, <1>2, <1>3, <1>4, <1>5, <1>6,
     <1>7, <1>8, <1>9, <1>10, <1>11, <1>12,
     <1>13, <1>14, <1>15, <1>16, <1>17
  DEF Next, Step, Work

\* How the image moves: it falls behind only while a commit waits to be
\* followed or the rail is uncertain, and it never goes back.
ImageMoves ==
  /\ seen <= seen'
  /\ ~uncertain' => ~uncertain \/ seen' = Len(log')

LEMMA ShownStep ==
  ASSUME Inv, Shown, [Next]_vars
  PROVE  Shown' /\ ImageMoves
<1>a. /\ LedgerTyped /\ OwnerTyped /\ Begun
      /\ seen \in 0..Len(log) /\ Len(log) \in Nat
  BY TypeParts DEF Inv, ImageTyped, LedgerTyped
<1>b. Len(log') \in Nat /\ Len(log) <= Len(log')
  BY <1>a, LogGrows
<1>c. ASSUME UNCHANGED <<log, seen, uncertain, job>> PROVE Shown' /\ ImageMoves
  BY <1>a, <1>c DEF Shown, ImageMoves
<1>1. CASE \E c \in Calls : \/ Send(c) \/ TakeTurn(c) \/ FlightBusy(c) \/ Unreadable(c)
                         \/ Stops(c) \/ ProtocolError(c) \/ Cancel(c)
  BY <1>1, <1>c DEF Send, TakeTurn, FlightBusy, Unreadable, Stops, ProtocolError, Cancel, ledger, image, owner
<1>2. CASE \E c \in Calls : Lookup(c)
  BY <1>2, <1>c DEF Lookup, ledger, image, owner
<1>3. CASE \E c \in Calls : ReadParts(c)
  BY <1>3, <1>c DEF ReadParts, ledger, image, owner
<1>4. CASE \E c \in Calls : Commit(c)
  BY <1>4, <1>c DEF Commit, ledger, image
<1>5. CASE \E c \in Calls : Finishes(c)
  BY <1>5, <1>c DEF Finishes, ledger, image, owner
<1>6. CASE \E c \in Calls : EndOfParts(c) \/ EndOfSpent(c)
  BY <1>6, <1>c DEF EndOfParts, EndOfSpent, ledger, image
<1>7. CASE \E c \in Calls : EndOfNothing(c)
  BY <1>7, <1>c DEF EndOfNothing, ledger, image, owner
<1>8. CASE Begin
  <2>1. /\ job = NoJob /\ log' = log
        /\ \/ seen' = (IF uncertain THEN Len(log) ELSE seen)
           \/ seen' = seen /\ uncertain' = uncertain
    BY <1>8 DEF Begin, ledger, image
  <2>2. QED
    BY <1>a, <2>1 DEF Shown, ImageMoves
<1>9. CASE RecoveryFails
  BY <1>9, <1>c DEF RecoveryFails, ledger, image
<1>10. CASE CommitOk
  <2>1. job \in JobType /\ job' = [job EXCEPT !.stage = "follow"]
        /\ seen' = seen /\ uncertain' = uncertain
    BY <1>10, <1>a DEF CommitOk, Writing, OwnerTyped, image
  <2>2. job'.stage = "follow" /\ job' \in JobType
    BY <2>1 DEF JobType
  <2>3. QED
    BY <1>a, <2>1, <2>2, NothingAssumption DEF Shown, ImageMoves
<1>11. CASE Follow
  BY <1>11, <1>a DEF Follow, ledger, Shown, ImageMoves
<1>12. CASE CommitFails
  BY <1>12, <1>a DEF CommitFails, Writing, ledger, image, Shown, ImageMoves
<1>13. CASE ReplyLost
  BY <1>13, <1>a, <1>b DEF ReplyLost, Shown, ImageMoves
<1>14. CASE Close
  BY <1>14, <1>a DEF Close, Begun, image, Shown, ImageMoves
<1>15. CASE Tick
  BY <1>15, <1>c DEF Tick, ledger, image, owner
<1>16. CASE Crash
  BY <1>16, <1>a, <1>b DEF Crash, Shown, ImageMoves
<1>17. CASE UNCHANGED vars
  BY <1>17, <1>c DEF vars
<1>18. QED
  BY <1>1, <1>2, <1>3, <1>4, <1>5, <1>6,
     <1>7, <1>8, <1>9, <1>10, <1>11, <1>12,
     <1>13, <1>14, <1>15, <1>16, <1>17
  DEF Next, Step, Work

\* A receipt that holds its answer is stored once the image has its write.
LEMMA SettledStep ==
  ASSUME Inv, RowsLanded, RowsLanded', Shown, SettledIsReadable, [Next]_vars
  PROVE  SettledIsReadable'
<1>a. /\ LedgerTyped /\ OwnerTyped /\ Begun
      /\ seen \in 0..Len(log) /\ Len(log) \in Nat
      /\ seen' \in 0..Len(log') /\ Len(log') \in Nat /\ seen <= seen'
  BY TypeParts, ImageStep, ShownStep, LogGrows DEF Inv, ImageTyped, LedgerTyped, ImageMoves
<1> SUFFICES ASSUME receipt' # NoRow, receipt'.text # NoRow, ~uncertain'
             PROVE  LandedBy(receipt.digest, seen)'
  BY DEF SettledIsReadable
<1>b. ASSUME seen' = Len(log') PROVE LandedBy(receipt.digest, seen)'
  BY <1>b DEF RowsLanded, LandedBy
<1>c. ASSUME receipt' = receipt, ~uncertain PROVE LandedBy(receipt.digest, seen)'
  <2>1. LandedBy(receipt.digest, seen)
    BY <1>c DEF SettledIsReadable
  <2>2. \A i \in DOMAIN Plan(receipt.digest) :
          \E k \in 1..seen' :
            log'[k].digest = receipt.digest /\ log'[k].name = Plan(receipt.digest)[i]
    BY <1>a, <2>1, ShownStays
  <2>3. QED
    BY <1>c, <2>2 DEF LandedBy
<1>d. ~uncertain \/ seen' = Len(log')
  BY ShownStep DEF ImageMoves
<1>1. CASE UNCHANGED ledger
  BY <1>b, <1>c, <1>d, <1>1 DEF ledger
<1>2. CASE Close
  <2>1. /\ job # NoJob /\ job.stage # "follow" /\ log' = log /\ seen' = seen
        /\ uncertain' = uncertain
    BY <1>2, <1>a DEF Close, Begun, image
  <2>2. QED
    BY <1>b, <2>1 DEF Shown
<1>3. CASE Writing /\ Stores
  <2>1. CASE job.name = Whole
    BY <1>3, <2>1 DEF Stores
  <2>2. CASE job.name # Whole
    BY <1>b, <1>c, <1>d, <1>3, <2>2 DEF Stores, Prune
  <2>3. QED
    BY <2>1, <2>2
<1>4. QED
  BY <1>1, <1>2, <1>3, LedgerMoves

\* What the calls are told is true, when the writes of the id share no part.
LEMMA TruthInvariance == PartsApart => (Spec => []TruthInv)
<1> SUFFICES ASSUME PartsApart PROVE Spec => []TruthInv
  OBVIOUS
<1>1. Init /\ Inv => TruthInv
  <2> SUFFICES ASSUME Init, Inv PROVE TruthInv
    OBVIOUS
  <2>1. RowsLanded /\ JobsTrue /\ ToldIsWritten /\ Shown /\ SettledIsReadable
    BY DEF Init, RowsLanded, JobsTrue, ToldIsWritten, Shown, SettledIsReadable
  <2>2. ScopesTrue
    BY DEF Init, ScopesTrue, Fresh
  <2>3. QED
    BY <2>1, <2>2 DEF TruthInv
<1>2. TruthInv /\ Inv' /\ [Next]_vars => TruthInv'
  <2> SUFFICES ASSUME TruthInv, Inv', [Next]_vars PROVE TruthInv'
    OBVIOUS
  <2>1. RowsLanded' /\ JobsTrue' /\ ToldIsWritten' /\ Shown'
    BY RowsStep, JobsStep, ToldStep, ShownStep DEF TruthInv
  <2>2. ScopesTrue'
    BY ScopesStepTrue DEF TruthInv
  <2>3. SettledIsReadable'
    BY <2>1, SettledStep DEF TruthInv
  <2>4. QED
    BY <2>1, <2>2, <2>3 DEF TruthInv
<1>3. QED
  BY <1>1, <1>2, Invariance, PTL DEF Spec

\* A call answered done, or answered with a receipt, was told of a write that
\* landed whole, whichever call wrote each part: so long as no two writes sent
\* under the id share the name of a part.
THEOREM ToldTheTruth == PartsApart => (Spec => []ToldIsWritten)
<1>1. TruthInv => ToldIsWritten
  BY DEF TruthInv
<1>2. QED
  BY <1>1, TruthInvariance, PTL

\* A receipt that holds its answer is of a write every read already shows,
\* under the same condition.
THEOREM SettledReads == PartsApart => (Spec => []SettledIsReadable)
<1>1. TruthInv => SettledIsReadable
  BY DEF TruthInv
<1>2. QED
  BY <1>1, TruthInvariance, PTL

=============================================================================
