------------------------------ MODULE Requests ------------------------------
(***************************************************************************)
(* Request ids: a write whose answer may be lost can be sent again         *)
(* (jojobot-domain/src/request.rs), the ledger of the ids                  *)
(* (jojobot-adapters/src/dolt/requests.rs) and the dispatch that looks an  *)
(* id up before a verb runs and keeps its answer afterwards                *)
(* (jojobot-mcp/src/request.rs, jojobot-mcp/src/lib.rs).                   *)
(*                                                                         *)
(* One bot, one id.  A call is one send of a write under that id; what it  *)
(* asks for (its verb and its arguments) is its digest, and a digest       *)
(* commits either at once or in the parts PartsOf names.  The commits run  *)
(* on the owner of module Writer, one job at a time, and a job accepted    *)
(* from a call that is gone is still run.                                  *)
(***************************************************************************)
EXTENDS Naturals, Sequences

CONSTANTS
  Calls,       \* the sends
  Digests,     \* what a send can ask for
  DigestOf,    \* what each send asks for
  PartsOf,     \* the parts a digest commits in, none for one commit
  KeptFor,     \* KEPT_FOR, in ticks of the clock
  Horizon,     \* the last instant of the clock
  MaxCrashes,  \* how often the process may die
  Whole,       \* the name of a write that commits at once
  NoRow,       \* no row of the ledger
  NoCall,      \* the turn of the id is free
  NoJob        \* the owner is idle

PartNames == UNION {{PartsOf[d][i] : i \in DOMAIN PartsOf[d]} : d \in Digests}

ASSUME CallAssumption == NoCall \notin Calls /\ DigestOf \in [Calls -> Digests]
ASSUME PartAssumption ==
  /\ PartsOf \in [Digests -> Seq(PartNames)]
  /\ Whole \notin PartNames

\* The rows of the ledger, and the jobs of the owner.
ReceiptType == [digest : Digests, at : 0..Horizon, text : Digests \cup {NoRow}]
PartType == [digest : Digests, at : 0..Horizon]
JobType == [call : Calls, kind : {"write", "fill", "finish"}, name : PartNames \cup {Whole},
            stage : {"queued", "commit", "follow"}, at : 0..Horizon]

ASSUME NothingAssumption ==
  NoRow \notin Digests /\ NoRow \notin ReceiptType /\ NoRow \notin PartType
  /\ NoJob \notin JobType
ASSUME TimeAssumption == KeptFor \in Nat \ {0} /\ Horizon \in Nat /\ MaxCrashes \in Nat

VARIABLES
  receipt,    \* the row of request_receipt
  parts,      \* the rows of request_part
  log,        \* every commit of a write, in order
  seen,       \* how many of them the serving image shows
  uncertain,  \* whether the rail of the writes is marked uncertain
  now,        \* the server's clock
  crashes,    \* how often the process died
  flight,     \* which call holds the turn of the id
  pc,         \* where each call is, and in the end what it was answered
  scope,      \* the Scope each call opened
  told,       \* the write each call was told has landed
  queue,      \* the jobs the owner has not taken
  job         \* the job the owner runs, with the instant it stamped

ledger == <<receipt, parts, log>>
image  == <<seen, uncertain>>
clock  == <<now, crashes>>
calls  == <<flight, pc, scope, told>>
owner  == <<queue, job>>
vars   == <<receipt, parts, log, seen, uncertain, now, crashes, flight, pc,
            scope, told, queue, job>>

Running == {"turn", "lookup", "parts", "verb", "job", "stopped", "ending", "closing"}
Ends    == {"refused", "repeat", "done", "declined", "error", "gone"}

\* The commits a digest is made of.
Plan(d) == IF PartsOf[d] = <<>> THEN <<Whole>> ELSE PartsOf[d]

\* A row the ledger still answers from: written_at >= now - KEPT_FOR.
Kept(row, at) == row # NoRow /\ row.at + KeptFor >= at

\* Mutant: the row on the edge of the window is removed.
PruneEdge(row, at) == IF row # NoRow /\ row.at + KeptFor > at THEN row ELSE NoRow

\* What is left of a row by DELETE ... WHERE written_at < now - KEPT_FOR.
Prune(row, at) == IF Kept(row, at) THEN row ELSE NoRow

\* Scope::new
Fresh == [state |-> "Open", done |-> {}, used |-> FALSE, finished |-> FALSE]

Init ==
  /\ receipt = NoRow
  /\ parts = [p \in PartNames |-> NoRow]
  /\ log = <<>> /\ seen = 0 /\ uncertain = FALSE
  /\ now = 0 /\ crashes = 0
  /\ flight = NoCall
  /\ pc = [c \in Calls |-> "idle"]
  /\ scope = [c \in Calls |-> Fresh]
  /\ told = [c \in Calls |-> NoRow]
  /\ queue = <<>> /\ job = NoJob

-----------------------------------------------------------------------------
(* begin_request: the turn of the id, then the two reads of the ledger.    *)

\* The call goes on to `step` and keeps its turn.
Goes(c, step) == pc' = [pc EXCEPT ![c] = step] /\ UNCHANGED flight

\* The answer leaves, or the call is dropped: Flight::drop gives the turn back,
\* and nobody reads the scope any more.
EndsWith(c, answer) ==
  /\ pc' = [pc EXCEPT ![c] = answer]
  /\ flight' = IF flight = c THEN NoCall ELSE flight
  /\ scope' = [scope EXCEPT ![c] = Fresh]

Send(c) ==
  /\ pc[c] = "idle"
  /\ Goes(c, "turn")
  /\ UNCHANGED <<ledger, image, clock, scope, told, owner>>

TakeTurn(c) ==
  /\ pc[c] = "turn"
  /\ flight = NoCall
  /\ flight' = c
  /\ pc' = [pc EXCEPT ![c] = "lookup"]
  /\ UNCHANGED <<ledger, image, clock, scope, told, owner>>

\* FLIGHT_WAIT ran out.
FlightBusy(c) ==
  /\ pc[c] = "turn"
  /\ flight # NoCall
  /\ EndsWith(c, "refused")
  /\ UNCHANGED <<ledger, image, clock, told, owner>>

\* The ledger could not be read.
Unreadable(c) ==
  /\ pc[c] \in {"lookup", "parts"}
  /\ EndsWith(c, "refused")
  /\ UNCHANGED <<ledger, image, clock, told, owner>>

\* replay: the row's write landed.
Repeats(c) ==
  /\ Kept(receipt, now)
  /\ EndsWith(c, "repeat")
  /\ told' = [told EXCEPT ![c] = receipt.digest]

Lookup(c) ==
  /\ pc[c] = "lookup"
  /\ \/ Repeats(c)
     \/ ~Kept(receipt, now) /\ Goes(c, "parts") /\ UNCHANGED <<scope, told>>
  /\ UNCHANGED <<ledger, image, clock, owner>>

\* The parts an earlier call wrote, and the oldest of them.
Written == {p \in PartNames : Kept(parts[p], now)}
Oldest == {p \in Written : \A q \in Written : parts[p].at <= parts[q].at}

\* The parts are read and the scope opened, unless another call began them.
ReadParts(c) ==
  /\ pc[c] = "parts"
  /\ \/ /\ Written # {} => \E p \in Oldest : parts[p].digest = DigestOf[c]
        /\ Goes(c, "verb")
        /\ scope' = [scope EXCEPT ![c].done = Written]
     \/ /\ \E p \in Oldest : parts[p].digest # DigestOf[c]
        /\ EndsWith(c, "refused")
  /\ UNCHANGED <<ledger, image, clock, told, owner>>

-----------------------------------------------------------------------------
(* The verb: it commits what its plan still lacks, in order.               *)

\* Whether the commit of `name` is this call's to skip or made already.
Has(c, name) == IF name = Whole THEN scope[c].state = "Spent" ELSE name \in scope[c].done

Lacks(c) == {i \in DOMAIN Plan(DigestOf[c]) : ~Has(c, Plan(DigestOf[c])[i])}

Job(c, kind, name) == [call |-> c, kind |-> kind, name |-> name, stage |-> "queued", at |-> 0]

\* part, armed: the next commit goes to the owner.
Commit(c) ==
  /\ pc[c] = "verb"
  /\ \E i \in Lacks(c) :
       /\ \A k \in Lacks(c) : i <= k
       /\ queue' = Append(queue, Job(c, "write", Plan(DigestOf[c])[i]))
  /\ Goes(c, "job")
  /\ UNCHANGED <<ledger, image, clock, scope, told, job>>

\* The verb refuses, or stops because a commit failed, and answers so.
Stops(c) ==
  /\ \/ pc[c] = "verb" /\ Lacks(c) # {}
     \/ pc[c] = "stopped"
  /\ Goes(c, "ending")
  /\ UNCHANGED <<ledger, image, clock, scope, told, owner>>

\* The verb ends in a protocol error, which skips end_request.
ProtocolError(c) ==
  /\ pc[c] \in {"verb", "stopped"}
  /\ EndsWith(c, "error")
  /\ UNCHANGED <<ledger, image, clock, told, owner>>

\* Nothing is left to commit; a write in parts says so with finished().
Finishes(c) ==
  /\ pc[c] = "verb"
  /\ Lacks(c) = {}
  /\ scope' = [scope EXCEPT ![c].finished = PartsOf[DigestOf[c]] # <<>>]
  /\ Goes(c, "ending")
  /\ UNCHANGED <<ledger, image, clock, told, owner>>

-----------------------------------------------------------------------------
(* end_request: the answer becomes the receipt of the id.                  *)

TookParts(c) == scope[c].used \/ scope[c].done # {}

Closes(c, kind) ==
  /\ queue' = Append(queue, Job(c, kind, Whole))
  /\ Goes(c, "closing")
  /\ UNCHANGED scope

\* Mutant: the receipt is stored whether or not every part is written.
EndsUnfinished(c) ==
  /\ pc[c] = "ending"
  /\ TookParts(c) /\ scope[c].state # "Spent"
  /\ Closes(c, "finish")
  /\ UNCHANGED <<ledger, image, clock, told, job>>

EndOfParts(c) ==
  /\ pc[c] = "ending"
  /\ TookParts(c) /\ scope[c].state # "Spent"
  /\ \/ scope[c].finished /\ Closes(c, "finish")
     \/ ~scope[c].finished /\ EndsWith(c, "declined") /\ UNCHANGED queue
  /\ UNCHANGED <<ledger, image, clock, told, job>>

EndOfSpent(c) ==
  /\ pc[c] = "ending"
  /\ scope[c].state = "Spent"
  /\ Closes(c, "fill")
  /\ UNCHANGED <<ledger, image, clock, told, job>>

\* A call that spent nothing looks again: another may have spent the id.
EndOfNothing(c) ==
  /\ pc[c] = "ending"
  /\ ~TookParts(c) /\ scope[c].state # "Spent"
  /\ Repeats(c) \/ (EndsWith(c, "declined") /\ UNCHANGED told)
  /\ UNCHANGED <<ledger, image, clock, owner>>

\* The caller cancels, or its connection ends: the dispatch is dropped.
Cancel(c) ==
  /\ pc[c] \in Running
  /\ EndsWith(c, "gone")
  /\ UNCHANGED <<ledger, image, clock, told, owner>>

-----------------------------------------------------------------------------
(* The owner: one job at a time, accepted jobs of calls that are gone      *)
(* included (request::Context carries the claim onto the owner's task).    *)

Waits(c) == pc[c] \in {"job", "closing"}

\* The call, if it still waits, hears of its job.
Hears(c, step) ==
  IF Waits(c) THEN Goes(c, step) ELSE UNCHANGED <<pc, flight>>

\* What a commit says of its claim, in the scope of a call that still waits.
Claim(c, said) == IF Waits(c) THEN [scope EXCEPT ![c] = said] ELSE scope

\* The owner takes a job; take() hands the claim of a part over.  A write on
\* an uncertain rail recovers the rail first.
Begin ==
  /\ job = NoJob /\ queue # <<>>
  /\ LET j == Head(queue) IN
       /\ job' = [j EXCEPT !.stage = "commit", !.at = now]
       /\ IF j.kind = "write"
            THEN /\ seen' = IF uncertain THEN Len(log) ELSE seen
                 /\ uncertain' = FALSE
                 /\ scope' = Claim(j.call, IF j.name = Whole
                                           THEN [scope[j.call] EXCEPT !.state = "Taken"]
                                           ELSE [scope[j.call] EXCEPT !.used = TRUE])
            ELSE UNCHANGED <<image, scope>>
  /\ queue' = Tail(queue)
  /\ UNCHANGED <<ledger, clock, flight, pc, told>>

\* The recovery of an uncertain rail fails, and the write with it.
RecoveryFails ==
  /\ job = NoJob /\ queue # <<>> /\ uncertain
  /\ Head(queue).kind = "write"
  /\ Hears(Head(queue).call, "stopped")
  /\ queue' = Tail(queue)
  /\ UNCHANGED <<ledger, image, clock, scope, told, job>>

Writing == job # NoJob /\ job.kind = "write" /\ job.stage = "commit"

\* Mutant: nothing in the ledger refuses a second row.
NeverHeld == FALSE

\* The key of the job's row is held by a row the claim did not remove.
KeyHeld ==
  IF job.name = Whole THEN Kept(receipt, job.at) ELSE Kept(parts[job.name], job.at)

\* claim and commit: the write, its row and the removal of rows past the keep
\* window are one transaction.
Stores ==
  LET d == DigestOf[job.call] IN
  /\ ~KeyHeld
  /\ log' = Append(log, [digest |-> d, name |-> job.name, at |-> job.at])
  /\ IF job.name = Whole
       THEN /\ receipt' = [digest |-> d, at |-> job.at, text |-> NoRow]
            /\ UNCHANGED parts
       ELSE /\ receipt' = Prune(receipt, job.at)
            /\ parts' = [p \in PartNames |->
                           IF p = job.name THEN [digest |-> d, at |-> job.at]
                           ELSE Prune(parts[p], job.at)]

\* Reservation::failed
Unclaimed ==
  Claim(job.call, [scope[job.call] EXCEPT !.state = IF job.name = Whole THEN "Open" ELSE @])

\* Reservation::spent, spent_with
Claimed ==
  Claim(job.call, IF job.name = Whole THEN [scope[job.call] EXCEPT !.state = "Spent"]
                  ELSE [scope[job.call] EXCEPT !.done = @ \cup {job.name}])

CommitOk ==
  /\ Writing
  /\ Stores
  /\ scope' = Claimed
  /\ job' = [job EXCEPT !.stage = "follow"]
  /\ UNCHANGED <<image, clock, flight, pc, told, queue>>

\* Mutant: the image does not take the write in.
FollowNothing ==
  /\ job # NoJob /\ job.stage = "follow"
  /\ Hears(job.call, "verb")
  /\ job' = NoJob
  /\ UNCHANGED <<ledger, image, clock, scope, told, queue>>

\* The image takes the write in, and the job answers.
Follow ==
  /\ job # NoJob /\ job.stage = "follow"
  /\ seen' = Len(log)
  /\ Hears(job.call, "verb")
  /\ job' = NoJob
  /\ UNCHANGED <<ledger, uncertain, clock, scope, told, queue>>

\* Mutant: a failed write answers nobody.
FailsSilently ==
  /\ Writing
  /\ scope' = Unclaimed
  /\ job' = NoJob
  /\ UNCHANGED <<ledger, image, clock, flight, pc, told, queue>>

\* The store refuses: the id was spent by another, or anything else.
CommitFails ==
  /\ Writing
  /\ scope' = Unclaimed
  /\ Hears(job.call, "stopped")
  /\ job' = NoJob
  /\ UNCHANGED <<ledger, image, clock, told, queue>>

\* The reply is lost.  The job answers once the write has landed or cannot
\* land any more, with the rail recovered or left uncertain.
ReplyLost ==
  /\ Writing
  /\ Stores \/ UNCHANGED ledger
  /\ scope' = Unclaimed
  /\ Hears(job.call, "stopped")
  /\ \/ seen' = Len(log') /\ uncertain' = FALSE
     \/ uncertain' = TRUE /\ UNCHANGED seen
  /\ job' = NoJob
  /\ UNCHANGED <<clock, told, queue>>

\* fill: UPDATE ... SET receipt.  finish: INSERT ... ON DUPLICATE KEY UPDATE.
Keeps ==
  LET text == DigestOf[job.call] IN
  IF receipt # NoRow THEN [receipt EXCEPT !.text = text]
  ELSE IF job.kind = "finish" THEN [digest |-> text, at |-> job.at, text |-> text]
  ELSE receipt

\* The receipt is stored or not; either way the verb's answer goes out.
Close ==
  /\ job # NoJob /\ job.kind # "write"
  /\ receipt' \in {receipt, Keeps}
  /\ IF Waits(job.call)
       THEN /\ EndsWith(job.call, "done")
            /\ told' = [told EXCEPT ![job.call] = DigestOf[job.call]]
       ELSE UNCHANGED <<calls>>
  /\ job' = NoJob
  /\ UNCHANGED <<parts, log, image, clock, queue>>

-----------------------------------------------------------------------------
(* Time, and the death of the process with the database it runs.           *)

Tick ==
  /\ now < Horizon
  /\ now' = now + 1
  /\ UNCHANGED <<ledger, image, crashes, calls, owner>>

Crash ==
  /\ crashes < MaxCrashes
  /\ crashes' = crashes + 1
  /\ (Writing /\ Stores) \/ UNCHANGED ledger
  /\ seen' = Len(log') /\ uncertain' = FALSE
  /\ flight' = NoCall
  /\ pc' = [c \in Calls |-> IF pc[c] \in Running THEN "gone" ELSE pc[c]]
  /\ scope' = [c \in Calls |-> Fresh]
  /\ queue' = <<>> /\ job' = NoJob
  /\ UNCHANGED <<now, told>>

Step(c) ==
  \/ TakeTurn(c) \/ FlightBusy(c) \/ Lookup(c) \/ ReadParts(c) \/ Unreadable(c)
  \/ Commit(c) \/ Stops(c) \/ ProtocolError(c) \/ Finishes(c)
  \/ EndOfParts(c) \/ EndOfSpent(c) \/ EndOfNothing(c)

Work ==
  \/ Begin \/ RecoveryFails \/ CommitOk \/ Follow \/ CommitFails \/ ReplyLost \/ Close

Next ==
  \/ \E c \in Calls : Send(c) \/ Step(c) \/ Cancel(c)
  \/ Work \/ Tick \/ Crash

Spec == Init /\ [][Next]_vars

Runtime == Work \/ \E c \in Calls : Step(c)

\* The runtime does not idle while the owner or a dispatch can move; nobody
\* has to send, to cancel or to crash.
FairSpec == Spec /\ WF_vars(Runtime)

-----------------------------------------------------------------------------
(* Correctness.                                                            *)

\* The variables have their types; the turn is held by a call between
\* begin_request and its end (Flights).
TypeOK ==
  /\ receipt \in ReceiptType \cup {NoRow}
  /\ parts \in [PartNames -> PartType \cup {NoRow}]
  /\ log \in Seq([digest : Digests, name : PartNames \cup {Whole}, at : 0..Horizon])
  /\ seen \in 0..Len(log) /\ uncertain \in BOOLEAN
  /\ now \in 0..Horizon /\ crashes \in 0..MaxCrashes
  /\ pc \in [Calls -> Running \cup Ends \cup {"idle"}]
  /\ scope \in [Calls -> [state : {"Open", "Taken", "Spent"}, done : SUBSET PartNames,
                          used : BOOLEAN, finished : BOOLEAN]]
  /\ told \in [Calls -> Digests \cup {NoRow}]
  /\ queue \in Seq(JobType) /\ job \in JobType \cup {NoJob}
  /\ flight # NoCall => flight \in Calls /\ pc[flight] \in Running \ {"turn"}
  /\ \A c \in Calls : pc[c] \in Running \ {"turn"} => flight = c

\* "A write the network may have dropped the answer to" is never made twice:
\* two commits of the whole write, or of one part, under the id are more than
\* KEPT_FOR apart, whatever was cancelled, lost, resent or restarted between
\* (claim's insert in the write's own transaction).
NeverTwice ==
  \A i, k \in DOMAIN log :
    i < k /\ log[i].name = log[k].name => log[i].at + KeptFor < log[k].at

\* Every commit of the write stands among the first n of the log.
LandedBy(d, n) ==
  \A i \in DOMAIN Plan(d) :
    \E k \in 1..n : log[k].digest = d /\ log[k].name = Plan(d)[i]

\* A call answered done, or answered with a receipt, was told of a write that
\* landed whole: every part of it, by whichever call wrote each (replay,
\* Scope::was_finished).
ToldIsWritten ==
  \A c \in Calls : told[c] # NoRow => LandedBy(told[c], Len(log))

\* A receipt that holds its answer is of a write every read already shows,
\* unless the rail is uncertain: the answer is stored after the image took
\* the write in (Flights, end_request).
SettledIsReadable ==
  receipt # NoRow /\ receipt.text # NoRow /\ ~uncertain => LandedBy(receipt.digest, seen)

\* A spent id stays spent by the same write for the whole keep window: no
\* step removes, restamps or hands to another write a row that is still kept.
RowStands ==
  [][/\ Kept(receipt, now) =>
          /\ receipt' # NoRow
          /\ receipt'.digest = receipt.digest /\ receipt'.at = receipt.at
     /\ \A p \in PartNames : Kept(parts[p], now) => parts'[p] = parts[p]]_vars

\* Every call that is sent ends: none waits for ever on the turn of its id or
\* on a job of the owner (FLIGHT_WAIT, Writer::run).
CallsEnd == \A c \in Calls : pc[c] = "turn" ~> pc[c] \in Ends

\* "A resend looks the id up only after the first call has installed its
\* change": a call answered as a repeat was told of a write that reads show.
RepeatIsReadable ==
  [][\A c \in Calls :
       pc[c] # "repeat" /\ pc'[c] = "repeat" /\ ~uncertain => LandedBy(receipt.digest, seen)]_vars
=============================================================================
