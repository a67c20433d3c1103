# jojobot: a TLA+ verification of its core

jojobot is a memory and mail server for agents. It serves every read from images
in memory, keeps the truth in a Dolt (MySQL) database, sends every write through
one owner task, and tells a person's phone about mail in their box. What makes
it hard is not any single verb. It is what happens when a commit's reply is
lost, a job panics, a fence times out, a notification is answered late or the
process dies, while other callers go on reading, writing and searching.

This directory models that core. Paths below are under `src/crates/`;
"adapters" is `jojobot-adapters/src`, "domain" is `jojobot-domain/src`.

## The system

| Part | State | Operations | What makes it correct |
|---|---|---|---|
| Owner of writes (adapters `writer.rs`, `writer/`) | job queue, phase of the current native write, uncertain rails, the dedicated connection and its advisory lock | submit, take, commit, recover (fence and reload), publish, answer | an answer says what happened; an image that counts as certain is the store; no commit lands behind a recovery; the queue never ends |
| Serving images (adapters `fold.rs`, `fold/*.rs`) | one image per rail: memory, mail, runs, teachings | rebuild, follow a write, reload, drop | reads never go back and show a caller's own writes |
| Mailboxes (adapters `dolt/mailboxes.rs`, domain `mailbox.rs`) | boxes, messages, deliveries, the account of each message | create, repoint owner, post (with replacement), read a box, read a message, close, quarantine | a withheld message is spoken for; the account explains the state; the image kept by arithmetic equals a full read |
| Mail half of the search index (adapters `search/decorators.rs`) | the index, the count at which it held the whole board, a failure mark | absorb a published message, refresh, rebuild | an answered write is found; a search never loses mail |
| Pushes (domain `push.rs`, `jojobot/src/push.rs`, adapters `dolt/mailboxes/push_rows.rs`, `nudge.rs`) | outbox rows, the wake permit, timers | post with its row, nudge, drain, deliver, record, retry, give up | no wake is lost; a row says what happened and ends once; every push ends |
| Request receipts (adapters `dolt/requests.rs`, domain `request.rs`, `jojobot-mcp/src/request.rs`) | the turn of each id, receipts and parts by id | take the turn, look up, claim in the write's transaction, fill, finish, replay | a repeated id writes nothing twice; a caller is told of a write only when it is whole; a call ends |
| Sessions (domain `session.rs`, adapters `dolt/sessions.rs`, `jojobot-mcp/src/orientation`, `session/`) | runs with their state, window and key; the lease of a role; renewals in flight | boot, resume, claim, journal, renew, wrap, sweep | only a claim takes a role; a fresh lease is lost for a cause; wrapped is final; a newer run ends an older window |
| Deferred counts (adapters `deferred_counts.rs`, `fold/sessions.rs`) | the lane of queued counts, the totals of a run | count, settle, reset, read | a read sees every count queued before it; none lands behind a reset; nobody waits for ever |
| Migrations (adapters `dolt/migrate.rs`) | the ledger, the begun marker, the schema | start, adopt, mark, issue, record, clear | the ledger never claims what the schema lacks; starts complete |
| Memory (domain `memory.rs`, `memory/`, adapters `dolt/memory.rs`, `dolt/memory/`) | things with badges and handles, former handles, forwarded rows, merge events, claims | create, rename, merge, edit, capture, repair at boot | merge walks end; no two claims share an address; served claims stay; a handle goes on answering |

How they interact: a verb of the MCP surface or a web page calls a port; a write
of a port becomes a job of the owner; inside the job the store's adapter writes
and the rail's image follows; the job's publication is delivered to the search
index and to the nudge before the caller is answered; the nudge wakes the push
runner, whose own records are again jobs of the owner. A search refreshes the
index first, as a job of the owner as well. A verb that carries a request id
looks the id up first and has its write's transaction spend it; a verb of a run
renews the lease of the run's role, under the bot's gate or beside it, and its
answer is counted on a lane of its own. Migrations run before any of it.

Where it is hard: a commit whose reply is lost (`writer/sql.rs`), a fence that
must wait for the end of a killed connection (`writer/fence.rs`), an uncertain
rail whose readers keep an old image (`writer/recovery.rs`), arithmetic on an
image instead of a re-read (`fold/mail.rs`), two counters that together say
whether an index is current (`search/decorators.rs`), a runner that sleeps on a
timer and a permit (`jojobot/src/push.rs`), an id whose turn a cancelled call
gives back while its job goes on (`jojobot-mcp/src/request.rs`), three clocks
and a lease renewed outside the gate (`session/journal.rs`), statements that
commit apart from their record (`dolt/migrate.rs`), addresses that merges of
merges give again (`dolt/memory.rs`). `PROJECT.json` lists these hazards
line by line with the property that would catch each going wrong.

## Modules

**`Writer`** models the owner, the recovery and any number of rails. A job is
one write, and its content is its own identity: the store is the set of jobs
that committed (`store`), an image the set of jobs its readers see. `pc` walks
one job through `Writer::run` and `guarded`: `write`, `commit`, `follow`, then
`deliver` and `answer`, with `fence`, `lock` and `load` for a recovery; `goal`
says whether the recovery comes before the write, after it, or only closes the
connection of a write with no rail. `phase` is `Native.phase`. `holder` is who
holds the advisory lock: the writer's connection, an old one that is being torn
down, the fence, or nobody. The database is external: `ServerResolves` may
commit or abort the statement of a lost connection at any time, and only then
does `ServerCloses` free the lock; the fence relies on exactly that. `Crash`
is the death of the process together with the database it runs as its child.

**`WriterProofs`** holds the theorems about `Writer` and about `MailIndex`,
which extends it; `MailboxProofs`, `PushProofs`, `RequestsProofs`,
`SessionsProofs`, `MigrateProofs`, `ThingsProofs` and `CountsProofs` hold those
about the module each is named after.

**`Serving`** is the abstract specification: what a caller and a reader are
promised, without owner, connection, fence or image. Writes land one at a time
and for good; a read shows what the last read showed, or everything that has
landed, or is refused; a caller is told once, and only the truth.
**`WriterServing`** is the refinement mapping: `landed` is the store, `shown`
what the reads of a rail answer, `told` the caller's answer, and `KeepsPromise`
says that `Writer` implements `Serving`. A crash, a reload and a late commit are
all allowed steps or stutters of it.

**`MailIndex`** extends `Writer` with the mail half of the search index:
`changes` is the port's count, `seenAt` is `board_seen_at`, `behind` is the
recorded failure. Its steps are the owner's own, with what each of them does to
the counts and the index added in the same step.

**`Mailbox`** is the detail behind one rail: the tables of boxes, messages and
message events, every verb of the store with its refusals as guards, and beside
them the image with the arithmetic of `Image::put`, `file`, `count`, `uncount`
and `record`. `Loaded` is the reference: what a full read of the store would
make. `Delivery` and `LeftoversOf` are the two ways one delivery is made. A
verb is one step here, because the owner runs one job at a time. The board's sort
is written by rank (`Rank`: a message stands one past the readable messages
before it), the filters of a delivery by the places they keep (`At`), and the
loop that follows a delivery (`TakeEach`) as a recursive function, forms the
proofs can reason about.

**`Push`** models the outbox, the nudge and the runner. It takes from `Writer`
one fact: an owned write may be answered as unknown and then lands, or does not,
before the next owned write (`limbo`). `hidden` is the consequence of an
uncertain rail for `message_by_id`: a message that landed and that the kept
image does not show. `phone` is the truth about the phone, which the notifier's
answer may not tell.

**`Requests`** is one request id: its turn (`flight`), its row and parts in the
ledger, and any number of sends of it, each of which asks for one write
(`DigestOf`) that commits at once or in parts (`PartsOf`). A send takes the
turn, looks the id up, reads the parts a cut call left, runs its commits as jobs
of the owner and closes the id with its receipt. The job goes on when the call
is cancelled. The claim, the pruning of old rows and the write are one
transaction (`Stores`), as in the code.

**`Sessions`** is one bot: its runs, its one role and the clock that lease, wrap
window and abandonment are measured on. Boots, claims, beats and wraps hold the
bot's gate, so each is a step; the writes inside it may be refused one by one,
and what came before a refusal stands. A claim waits outside the gate; a renewal
reads and writes in two steps outside it.

**`Migrate`** is a start of the server over a store that an older build left:
read the ledger, and for each version skip, adopt, mark, issue, record or clear,
each a step the process can die between. `Deploy` starts a newer build on it.

**`Things`** is the naming half of memory: rows with their badge and handle,
former handles, forwarded rows, merge events and claims. Reads are operators
(`Resolve`, `WearerOf`, `SurvivorOf`, `ClaimEnd`, `ServedIds`), writes are one
transaction and so one step each. `MergeOld` is what a build before merge events
left behind, and `Boot` the repair that writes its events.

**`Counts`** is the lane of deferred counts, its worker, and the visitors that
settle first: a reset, a read, the stop. Like `Push` it takes from `Writer` that
an unknown reply is resolved before the next job of its rail.

The `MC*` modules give the constants their small values.

## Runs

| Run | Asks | Bounds |
|---|---|---|
| `MCWriter` | images exact, fence safe, answers true, reads monotone, published images kept, and the whole implements `Serving` | two rails, two jobs on one and one on the other: two writes are what it takes for one ambiguous write to meet a later write of its own rail, and a third on another rail to meet its connection |
| `MCWriterLive` | every waiting caller stops waiting | one rail with two jobs beside a write with no rail, whose lost reply has a recovery of its own (`CloseAmbiguous`) |
| `MCMailIndex` | an answered mail write is found; search never loses mail | two message writes and one box write on the mail rail |
| `MCMailbox` | image against full read, deliveries, replacement chains, account | one box, one sender, three messages (a chain of replacements with one set aside), two instants |
| `MCMailboxMoves` | the image across renames | two boxes, two owners, two senders, two messages |
| `MCPush` | what a row says and when it ends; no lost wake; every published push ends | one message, delays 1 and 2, a window of 2 ticks, so a first, a doubled and a cut retry occur, and 2 ticks past it |
| `MCRequests` | nothing twice, nothing told before it is whole, a receipt with its answer readable, receipts stand, calls end | one id, two sends of a write in two parts and a stranger with another write under the same id, a keep window of one tick in a clock of two, one crash |
| `MCRequestsCut` | a repeat is readable at once (does not hold) | as above |
| `MCSessions` | role taken by claims only, fresh lease lost for cause, wrapped final, newer run ends window | two runs, lease and abandonment of 2 ticks, renewal and window of 1, so lease and abandonment meet at one instant; two claims or renewals in flight |
| `MCMigrate` | the ledger is true; starts complete | seven versions, one of each shape in the list (table, column with index, backfill, key dropped, key added, index if missing, table dropped), over an empty store and one whose second version built no index, four faults |
| `MCThings` | walks end, one claim per address, served claims stay, handles answer | three things (a merge of a survivor), four handles (a handle left, taken and left again), six entity writes, two captures per thing |
| `MCCounts` | a read sees every earlier count, none lands behind a reset, waits end | two counted answers, two visitors, one crash |

Bounds, all named constants: `Horizon` bounds the clocks of `Push`, `Requests`
and `Sessions`; in `Push` a post is made only when its whole window fits, so no
deadline is out of reach. `MaxSpoiled` bounds the counter of spoiled passes,
which only feeds a delay that has long reached its maximum. `MaxCrashes` and
`MaxFaults` bound how often the process dies. `MaxWaiting` and `MaxStories`
bound what is in flight beside a gate and the closing entries of a run; one
renewal and one operator's code are in flight at a time.
`MaxWrites` and `MaxClaims` bound the history of `Things`, where only folded rows
are written again: the walks read no later moment of another row. Everything else is
bounded only by the sets of jobs, messages, sends, runs or things. Symmetry is
used in the mailbox runs, `MCSessions` and `MCThings`, which check safety only
and where no name is special. Deadlock is checked in the writer runs, `MCMailIndex`,
the mailbox runs and `MCPush`; the other runs end when their bounded work is
done.

### What does not hold

* **`RepeatIsReadable`** (`MCRequestsCut`). The comment on `Flights`
  (`jojobot-mcp/src/request.rs:47-50`) says that a call keeps the turn of its id
  until it has left the verb, "so a resend looks the id up only after the first
  call has installed its change". A cancelled call is dropped while the owner
  runs its job, and `Flight::drop` gives the turn back at once. The commit spends
  the id; a resend that looks it up before the job has followed the image is
  answered with an address no read finds yet. What does hold is
  `SettledIsReadable`: a receipt that holds its answer is of a write every read
  shows, unless the rail is uncertain.

Observations made while modelling, which no run is about:

* The comment on `board_seen_at` (`search/decorators.rs:452-454`) says every
  change to mail goes through the port. A recovery changes the image and counts
  nothing: when a write first recovers its rail, the index takes the write in,
  moves its count and is taken for the whole board, without the recovered
  message, until the next change that forces a refresh. A write answered *ok* is
  never missed (`FoundOnceAnswered`).
* `nudge.rs:1-4` says the push is woken "whichever caller posted". A post whose
  reply was lost and that landed is not published: its row waits for the next
  post or restart. Until the rail is recovered `message_by_id` also answers
  "none" for it, so a pass that meets it gives the push up
  (domain `push.rs:255-256` says a failing store is not the message being gone).
* `migrate.rs:975-978` says of an interrupted start "Either way the start
  completes". Every error of a statement counts as "The store refused it": when
  it landed and only its answer was lost, the marker is cleared, and a statement
  that cannot run twice is refused by every later start. `StartsComplete` is
  stated for starts that lose no answer that way.
* The parts of two different writes under one id are told apart by their names
  only: `replay_or_begin` compares the digest of the oldest row
  (`jojobot-mcp/src/request.rs:216-237`) and takes every part row of the id as
  done. Two sends of different writes that both hold a part of that name, both
  cancelled while their jobs are queued, leave rows of both; a repeat of the
  older write is then told that the other's part is its own. A client that gives
  each write an id of its own never meets it. `ToldIsWritten` and
  `SettledIsReadable` are proved for writes whose part names differ
  (`PartsApart`), and the run has such writes; with shared names TLC finds the
  trace in 25 steps.
* A poll renews the lease of a role and adds no beat to its run, so a boot's
  sweep abandons a run that only polls after `ABANDONED_AFTER` and releases its
  fresh lease; `LeaseLostForCause` names that cause.
* `renewals.rs:8-9` says a renewal only moves the lease forward. Two renewals in
  flight may write in the other order, and the later write moves `claimed_at`
  back by less than the wait between them.
* `end_windows` logs a clear that the store refused and goes on, so that window
  stays open beside the newer run; `NewerRunEndsWindow` excepts it (`stuck`).
* `repair.rs:12` says "A repair never guesses". It takes whoever wears the
  handle now as the survivor of an old merge (`repair.rs:66-75`), although another
  thing may have taken the handle since.
* A capture onto the handle of a folded thing is not refused and its claim is
  served by nobody (`dolt/memory.rs:1569`); `wearer_of_handle_at` misplaces a
  forward when the survivor went back to a handle it had worn; `set_prose` on a
  folded row moves the moment its fold is dated by. `HandleAnswers` and
  `ServedStays` are stated for what remains.
* The permit that `notify_one` stores is not what keeps `PendingIsWatched` true
  for a post during a pass. The row is committed before the nudge and `next_due`
  is read at the end of the pass, so either the pass sees the row or the nudge
  comes after it. The permit matters for a nudge between that read and the sleep.

### Fairness

`Writer`: weak fairness of the owner's work. It is a spawned task, its
connects and locks have time limits, and a statement ends with its reply or
with its connection. Nothing is assumed of callers, the server or crashes.

`Push`: weak fairness of the runner, the nudge, the clock and the server
(a lost statement ends); strong fairness of the store's calls of the runner,
that is, the store does not fail for ever; and the process does not die again
and again for ever. Delivery is not assumed: a push whose service is never
reached ends by being given up.

`Requests`: weak fairness of the runtime, that is, of the tasks of the calls and
of the owner; waits for a turn have a time limit (`FLIGHT_WAIT`). Clients may
send and cancel as they like.

`Migrate`: weak fairness of the start. The unit is restarted on failure
(`src/nix/modules/jojobot.nix:378`), and `MaxFaults` ends the faults.

`Counts`: weak fairness of the worker, a spawned task whose jobs the owner always
ends, and of the server, which ends a lost statement.

`Sessions`, `Things`, `Mailbox` and `MailIndex` check safety only.

## Proofs

`WriterProofs` proves, for every set of rails and jobs, from the assumptions
`RailAssumption`, `NoJobAssumption` and `NoImageAssumption` (the special values
are none of the ordinary ones; a job's rail is a rail or `NoRail`):

* `TypeCorrect`: `TypeOK`;
* `CertainImages`: `ImageExact`;
* `FenceHolds`: `NoLateCommit` and `FencedReload`;
* `TruthfulAnswers`: `AnswersTrue`;
* `OwnWritesRead`: `ReadYourWrites`;
* `MonotoneReads` and `PublishedKept`: the action properties `ReadsNeverGoBack`
  and `KeepsPublished`.

* `PromiseKept`: `KeepsPromise`, every step of the owner a step or a stutter of
  `Serving` under the mapping of `WriterServing`.

All but `MonotoneReads`, `PublishedKept` and `PromiseKept` are part of one
inductive invariant, `Inv`, proved in theorem `Invariance`, and those three
follow from it step by step.
None of the properties is inductive alone, and the parts added to them say why
the code is right:

* `StepKnows` ties `pc` to the phase, the goal and the result: a store error is
  judged by the phase of its own write, a recovery knows what it is for;
* `LockKept` is the fence's argument: while a statement is unresolved, the lock is
  held by the writer's connection, or by the old one until its teardown. So a fence that
  got the lock reads a store nothing can change;
* `SentOnce`: a job that has not reached its commit is neither stored nor at the
  server, which is what makes a definite failure true for good;
* `ImageSound`: even an uncertain rail's image shows only committed writes. This
  is what keeps reads monotone when a recovery replaces it;
* `OkShown`: a write answered *ok* is in the image of its rail, or the rail has
  none. An uncertain rail keeps an image from before the ambiguity, and every
  *ok* on that rail came before it.

The other modules are proved the same way: an inductive invariant `Inv` (for
the index `MailInv`, beside the writer's), checked by TLC before it was
proved, theorem `Invariance`, one step per action, and from it the properties.

* **`MailIndex`**, in `WriterProofs`, for every set of rails, writes and messages:
  `AnsweredIsFound` (`FoundOnceAnswered`) and `SearchKeeps`
  (`SearchNeverGoesBack`). A step of the index is a step of the owner or leaves
  it alone (`OwnerHolds`), so the writer's invariant holds beside it. What is
  added follows a message from the end of its write to its answer: it can be read
  when the index is told (`PostedRead`), the index holds nothing the reads lack
  (`IndexShown`), the write is not counted as seen before that (`Uncounted`), the
  count moves for it only if the board was whole before (`HeldBefore`), and so the
  answer on its way is indexed (`OkNext`).
* **`MailboxProofs`**, for every set of names, owners, senders, instants and ids:
  `SpokenFor` (`WithheldIsSpokenFor`), `AccountHolds`
  (`AccountExplainsState`), `ForwardOnly` (`MessagesGoForward`), `ImageFollows`
  (`ImageIsStore`), `DeliveriesAgree` (`DeliveryAgrees`) and `MailboxTyped`
  (`TypeOK`, the unsigned counters of the image among it). Every verb
  does one of four things to the tables (`TablesMove`): it leaves the rows where
  they are and moves some of them one state on, files one, renames a box or makes
  one. A withheld message is spoken for because of the order of filing: of the
  sender's later readable messages in the box, the one filed last cannot have
  been replaced, as its replacement would have been filed later. That needs that
  of two replacements of one message one was set aside (`OneReplacement`), that
  a replacement is in the box of what it replaces through every rename
  (`Replaces`), and that messages are numbered as they are filed (`Filed`).

  The image needs a second invariant, `ImageInv`: no two messages are numbered
  alike (`InTurn`), so `Card::order` is a total order and the board has one line
  (`LineUp`; `BoardSorted` says that ranking is that sort, and `AtPlaces` that
  selecting by places is a filter), and the image is the store's. Both sides are written as one image,
  `ImageOf` the cards, their line, the boxes and the accounts: a full read of the
  store makes that image of the tables (`LoadedIs`), and `PutHolds`, `FileHolds`
  and `RecordTells` say that each operation of the image makes, of the image of
  one board, the image of the board the verb leaves. What is delicate in each is
  the counting: a message that is put or marked as replaced leaves one class of
  its box for another (`CountsMove`), a filed one enters one (`CountsGrow`), and
  none is counted twice or uncounted where it was not. A filed message is
  inserted after the messages of its instant, which is its place by rank because
  its number is the highest (`PostFollowed`); marking what it replaces moves
  nothing else. A delivery is followed message by message, by induction over the
  messages it took (`TakenHold`); that they were untaken (`NewIsUntaken`), which
  the accounts explain, is what lets the image keep the delivered message as the
  row. `DeliveryAgrees` then compares lists over one set of messages (`Lists`):
  the messages owed (`Owed`), which are what the store takes, what makes
  `leftovers_of` give up, and what the image counts as new.
* **`PushProofs`**, for every set of messages, every policy and any number of
  restarts: `TypeCorrect`, `NoWakeLost` (`PendingIsWatched`), `SentIsDelivered`
  (`SentMeansDelivered`), `AbandonedForCause` (`GivenUpForCause`) and
  `EndedRowsStand` (`RowsEndOnce`). What is on its way to the table must be as
  true as a row: the outcome about to be recorded (`OutcomeReal`), the write that
  was lost (`LimboReal`), and both beside the rows (`Truth`, `Causes`). The wake
  needs `Paced`: a retry that lands late lands neither before the row it replaces
  nor later than the retry of a pass that has not seen it, so the timer the
  runner sleeps to is early enough. The doubling of the delays is computed power
  by power up to its cap of 2^32, as the provers do not reason about exponents
  that are not literals.
* **`RequestsProofs`**, for every set of calls, every plan of parts and every keep
  window: `TypeCorrect`, `NoWriteTwice` (`NeverTwice`), `KeptRowsStand`
  (`RowStands`), from `Guarded`: every commit still inside the window, as the
  running job counts it, has a row no older than itself, which refuses the
  second. `ToldTheTruth` (`ToldIsWritten`) and `SettledReads`
  (`SettledIsReadable`) have the hypothesis `PartsApart` (see *What does not
  hold*) and a second invariant, `TruthInv`: rows are of commits that were made,
  what a scope or a job says is done was done, and a certain image shows every
  commit but the one about to be followed (`Shown`).
* **`SessionsProofs`**, for every set of runs and every length of lease, window
  and abandonment: `TypeCorrect`, `ClaimsAlone` (`OnlyClaimsTake`),
  `NewestWindow` (`NewerRunEndsWindow`), `WrappedForGood` (`LastWord`) and
  `FreshLeaseHolds` (`LeaseLostForCause`). A step of the gate makes several
  writes, each of which may be refused; the proofs follow the cards through all
  of them with `Grows` (nothing settled is undone) and `Sound` (a new card has
  ended the older windows, or they are stuck). The lease needs `AsksPast`: a claim
  cannot find a lease due that is fresh when the claim is decided, as it was
  asked for no later than now.
* **`MigrateProofs`**, for every list of migrations and any number of crashes,
  refusals and lost answers: `TypeCorrect` and `LedgerIsTrue`
  (`RecordedStands`). A start issues the first version the ledger lacks, so a
  marker is of that version (`MarkedNext`); a recorded version whose object
  changed again is covered by the version that changed it, which is recorded, lost
  its answer or is marked, and then the marker is not taken off unless that
  version does not stand (`Covered`).
* **`CountsProofs`**, for every set of answers and visitors and any number of
  crashes: `TypeCorrect`, `ReadsAreWhole` (`ReadsSeeCounts`) and `ResetsHold`
  (`NoneAfterReset`). A mark stands behind the adds of what was counted before it
  (`Marks`), so who has gone past the lane finds those counts answered (`Past`),
  and an add that lands late is answered by nobody and kept from the next job by
  the fence (`Lost`).

* **`ThingsProofs`**, for every finite set of things, every set of handles and
  any history: `TypeCorrect`, `WalksAllEnd` (`WalksEnd`), `OneClaim`
  (`OneClaimPerAddress`), `Served` (`ServedStays`) and `Answers`
  (`HandleAnswers`). The walks are recursive functions; the library's induction
  theorem cannot be cited, but `Induction`, stated over a set of numbers and
  proved from the well-foundedness of `<`, can, and with it what one more event
  does to a walk (`MergeEnds`: it ends where it ended, or one step on). Two
  claims at one address are excluded by `Ends` (every walk has come to rest, at
  an id no later one is given) and `Listed` (an event lists only ids the folded
  thing had). That walks end needs an order of the things (`Ranked`). Merges
  extend it; for an old store it is the order in which things were folded, and
  the invariant is that no row means one folded before it (`Points`): none such
  wears the handle it names, each such that once wore it had its present one
  when the row was last written, so an edit dates the fold after it left, and
  another thing was named by it. The repair turns that into the order of its
  events. `Ranked` and each part of `Inv` were invariants of TLC's run before
  they were proved.

The assumptions are the ones named in the modules. They say that the special
values (`NoJob`, `NoRail`, `NoImage`, `NoPush`, `NoCall`, `None`, `Nothing`) are
none of the values they stand beside; that times and bounds are numbers, positive,
and in the order, where the code's constants are; that the things of a store are
finitely many; that no delivery of a box is the absence of one
(`NoDeliveryAssumption`); and, in `Migrate`, what a store left by an older
build can be (`OldStoresAssumption`: its ledger is a prefix of a shipped list and
what it records stands, but where a later version changed it).

### Only model-checked

* Liveness (`EveryCallerAnswered`, `EveryPushEnds`, `CallsEnd`, `SettlesEnd`,
  `StartsComplete`): fairness and `ENABLED` are outside what the proof system is
  used for here.
* `RepeatIsReadable`, which does not hold.

Every other property of the runs is stated by a theorem.

## Not modelled

The map covers a small share of a large repository, and most of the rest is not
state: parsing, wording, layout and rendering of the MCP surface, the web pages,
the query API and the forwarder; text, ranking and snippets of the search; the
tools around the program (exercise, bar, roster). Of the modelled parts:

* `Mailbox` leaves out rows this build cannot read (damage), the boot migrations
  of old mail rows and the screening of near-miss names;
* `MailIndex` leaves out the epoch of names; the memory and session halves of
  the index are not modelled;
* `Sessions` leaves out days, vouchers, the handoff of a desk and what a boot
  answers; one bot and one role stand for all, since a gate is one bot's;
* `Things` leaves out the fields of a fact and their fold, parents, the numbering
  of lists, documents, and the guards on near names, which only refuse;
* teachings are a rail of `Writer` and otherwise data; recurrence and attention
  are pure functions;
* a panic inside an image's closure, which poisons its lock, is not modelled.

## Plan

1. Done: `Writer`, `Serving` and `WriterServing`, `MailIndex`, `Mailbox`, `Push`,
   `Requests`, `Sessions`, `Migrate`, `Things`, `Counts`, and the proofs of every
   safety and action property about each.
2. The memory rail's fold of field writes, and the memory half of the index with
   its epoch of names.
3. A poisoned image lock.
