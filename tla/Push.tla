-------------------------------- MODULE Push --------------------------------
(***************************************************************************)
(* Pushes: a message that lands in a person's box reaches their phone.     *)
(* The intent is a row written with the message (dolt/mailboxes.rs), a     *)
(* post wakes the runner (nudge.rs), the runner drains the outbox          *)
(* (jojobot/src/push.rs) by the policy of jojobot-domain/src/push.rs, and  *)
(* each outcome is an owned write of its own (mailboxes/push_rows.rs).     *)
(*                                                                         *)
(* Owned writes go through the owner of module Writer.  What this module   *)
(* takes from it: a write may be lost, that is answered as unknown, and    *)
(* then lands or does not land at any time before the next owned write.    *)
(***************************************************************************)
EXTENDS Naturals, FiniteSets

CONSTANTS
  Messages,      \* the messages posted into a person's box
  FirstDelay,    \* Policy.first_delay
  LongestDelay,  \* Policy.longest_delay
  Window,        \* Policy.window
  Horizon,       \* the last instant of the clock, after every window
  MaxSpoiled,    \* the spoiled passes after which the delay grows no longer
  NoPush         \* the absence of a message, a push or an unresolved write

ASSUME PolicyAssumption ==
  /\ FirstDelay \in Nat \ {0} /\ LongestDelay \in Nat \ {0}
  /\ Window \in Nat /\ Horizon \in Nat /\ MaxSpoiled \in Nat \ {0}

\* A due push, as the pass lists it.
PushType == [message : Messages, attempts : Nat]

ASSUME NoPushAssumption ==
  NoPush \notin Messages /\ NoPush \notin Nat /\ NoPush \notin PushType

VARIABLES
  now,       \* the clock
  standing,  \* what message_by_id says of each message
  hidden,    \* messages in the store that the image of an uncertain rail misses
  excused,   \* history: messages that at some time asked for no attention
  row,       \* table push_outbox
  limbo,     \* the owned write that was lost and has not resolved
  nudge,     \* the post whose publication is being delivered
  lost,      \* history: messages whose post was lost and landed all the same
  permit,    \* the stored permit of Runner.wake
  pc,        \* where the runner is
  at,        \* the instant the current pass began
  due,       \* the pushes the pass has listed and not settled
  cur,       \* the push being settled
  outcome,   \* the row the current push will be recorded with
  spoiled,   \* a push of this pass could not be recorded
  passes,    \* spoiled_passes
  until,     \* what the runner sleeps until
  phone      \* the messages the phone was told about

mail    == <<standing, hidden, excused>>
outbox  == <<row, limbo, nudge, lost>>
runner  == <<permit, pc, at, due, cur, outcome, spoiled, passes, until>>
pushVars == <<now, mail, outbox, runner, phone>>

Least(a, b) == IF a <= b THEN a ELSE b
Most(a, b)  == IF a <= b THEN b ELSE a

\* Policy::delay_after.
DelayAfter(attempts) ==
  Least(FirstDelay * 2^(IF attempts = 0 THEN 0 ELSE Least(attempts - 1, 32)), LongestDelay)

NoRow == [state |-> "none", enqueued |-> 0, attempts |-> 0, next |-> 0, finished |-> 0]

Pending == {m \in Messages : row[m].state = "pending"}

Deadline(m) == row[m].enqueued + Window

Init ==
  /\ now = 0
  /\ standing = [m \in Messages |-> "unposted"] /\ hidden = {} /\ excused = {}
  /\ row = [m \in Messages |-> NoRow]
  /\ limbo = NoPush /\ nudge = NoPush /\ lost = {}
  /\ permit = TRUE /\ pc = "wait" /\ at = 0 /\ due = {} /\ cur = NoPush
  /\ outcome = NoRow /\ spoiled = FALSE /\ passes = 0 /\ until = 0
  /\ phone = {}

-----------------------------------------------------------------------------
(* The mailboxes.                                                          *)

\* The owner takes its next write only when the last one has ended: its
\* publication delivered, a lost one resolved.
OwnerFree == limbo = NoPush /\ nudge = NoPush

Posted(m) == [state |-> "pending", enqueued |-> now, attempts |-> 0, next |-> now,
              finished |-> 0]

\* post_message: the row is in the message's own transaction.  A write on the
\* rail of an earlier lost one has first recovered its image.
Post(m) ==
  /\ standing[m] = "unposted"
  /\ OwnerFree
  /\ now + Window < Horizon
  /\ standing' = [standing EXCEPT ![m] = "live"]
  /\ row' = [row EXCEPT ![m] = Posted(m)]
  /\ nudge' = m
  /\ hidden' = {}
  /\ UNCHANGED <<now, excused, limbo, lost, runner, phone>>

\* A post whose commit is ambiguous returns before it publishes.
PostLost(m) ==
  /\ standing[m] = "unposted"
  /\ OwnerFree
  /\ now + Window < Horizon
  /\ limbo' = [message |-> m, row |-> Posted(m)]
  /\ hidden' = {}
  /\ UNCHANGED <<now, standing, excused, row, nudge, lost, runner, phone>>

\* NudgeOnPost::changed: notify_one stores a permit.
Nudge ==
  /\ nudge # NoPush
  /\ nudge' = NoPush
  /\ permit' = TRUE
  /\ UNCHANGED <<now, mail, row, limbo, lost, pc, at, due, cur, outcome, spoiled,
                 passes, until, phone>>

\* A replacement, a closing or a quarantine of the message (closed and
\* quarantined ones are over for good), or the quarantine of its replacement
\* (module Mailbox).
Change(m, to) ==
  /\ OwnerFree
  /\ <<standing[m], to>> \in {"live", "replaced"} \X {"live", "replaced", "over"}
  /\ standing' = [standing EXCEPT ![m] = to]
  /\ excused' = IF to = "live" THEN excused ELSE excused \cup {m}
  /\ hidden' = {}
  /\ UNCHANGED <<now, outbox, runner, phone>>

Land ==
  /\ row' = [row EXCEPT ![limbo.message] = limbo.row]
  /\ standing' = [standing EXCEPT ![limbo.message] = IF @ = "unposted" THEN "live" ELSE @]

\* The server ends a lost write.  The image shows a post that landed only if
\* the recovery of its rail came after the landing.
ServerResolves ==
  /\ limbo # NoPush
  /\ limbo' = NoPush
  /\ \/ UNCHANGED <<row, standing, hidden, lost>>
     \/ /\ Land
        /\ IF standing[limbo.message] = "unposted"
           THEN /\ lost' = lost \cup {limbo.message}
                /\ hidden' \in {hidden, hidden \cup {limbo.message}}
           ELSE UNCHANGED <<lost, hidden>>
  /\ UNCHANGED <<now, excused, nudge, runner, phone>>

-----------------------------------------------------------------------------
(* The runner.                                                             *)

\* The outer wait: a pass begins with the wake.
Wake ==
  /\ pc = "wait"
  /\ permit
  /\ permit' = FALSE
  /\ pc' = "pass" /\ until' = 0
  /\ passes' = 0
  /\ UNCHANGED <<now, mail, outbox, at, due, cur, outcome, spoiled, phone>>

\* The sleep between two passes ends with its timer or with a nudge.
WakeEarly ==
  /\ pc = "timer"
  /\ permit
  /\ permit' = FALSE
  /\ pc' = "pass" /\ until' = 0
  /\ UNCHANGED <<now, mail, outbox, at, due, cur, outcome, spoiled, passes, phone>>

TimerFires ==
  /\ pc = "timer"
  /\ now >= until
  /\ pc' = "pass" /\ until' = 0
  /\ UNCHANGED <<now, mail, outbox, permit, at, due, cur, outcome, spoiled, passes, phone>>

StartPass ==
  /\ pc = "pass"
  /\ at' = now
  /\ spoiled' = FALSE
  /\ pc' = "list"
  /\ UNCHANGED <<now, mail, outbox, permit, due, cur, outcome, passes, until, phone>>

\* Outbox::due.
ListDue ==
  /\ pc = "list"
  /\ due' = {[message |-> m, attempts |-> row[m].attempts] :
               m \in {p \in Pending : row[p].next <= at}}
  /\ pc' = "settle"
  /\ UNCHANGED <<now, mail, outbox, permit, at, cur, outcome, spoiled, passes, until, phone>>

\* Sleep to the earliest retry, or to the pace of spoiled passes.
SleepTo(next, isSpoiled) ==
  LET n     == IF isSpoiled THEN Least(passes + 1, MaxSpoiled) ELSE 0
      retry == now + DelayAfter(n)
      when  == IF isSpoiled THEN (IF next = NoPush THEN retry ELSE Most(next, retry)) ELSE next
  IN /\ passes' = n
     /\ at' = 0 /\ due' = {} /\ spoiled' = FALSE
     /\ IF when = NoPush THEN pc' = "wait" /\ UNCHANGED until
        ELSE pc' = "timer" /\ until' = Least(when, Horizon)

\* Mutant: a pass the store spoiled waits for the next nudge.
StoreFailsQuietly ==
  /\ pc = "list" \/ (pc = "settle" /\ due = {})
  /\ pc' = "wait"
  /\ UNCHANGED <<now, mail, outbox, permit, at, due, cur, outcome, spoiled, passes, until, phone>>

\* The store cannot list the due pushes, or the next due moment.
StoreFails ==
  /\ pc = "list" \/ (pc = "settle" /\ due = {})
  /\ SleepTo(NoPush, TRUE)
  /\ UNCHANGED <<now, mail, outbox, permit, cur, outcome, phone>>

\* Outbox::abandoned, and the recording of a row in general, come next.
RecordAs(p, state, attempts, next, finished) ==
  /\ outcome' = [state |-> state, enqueued |-> row[p.message].enqueued,
                 attempts |-> attempts, next |-> next, finished |-> finished]
  /\ pc' = "record"

GiveUp(p) == RecordAs(p, "abandoned", p.attempts, row[p.message].next, at)

\* Pushing::fail: abandoned at the end of the window, else scheduled again,
\* the last try on the end itself.
Fail(p) ==
  IF at >= Deadline(p.message) THEN GiveUp(p)
  ELSE RecordAs(p, "pending", p.attempts + 1,
                Least(at + DelayAfter(p.attempts + 1), Deadline(p.message)), 0)

\* What Mailboxes::message_by_id, which reads the image, says of the message.
AsksAttention(m) == standing[m] = "live" /\ m \notin hidden

\* Mutant: a message store that fails ends the push.
SettleGivesUp(p) ==
  /\ pc = "settle"
  /\ p \in due
  /\ \/ AsksAttention(p.message) /\ pc' = "send" /\ UNCHANGED outcome
     \/ GiveUp(p)
  /\ cur' = p
  /\ due' = due \ {p}
  /\ UNCHANGED <<now, mail, outbox, permit, at, spoiled, passes, until, phone>>

\* Pushing::settle up to the delivery, for the oldest push the pass has left:
\* a push past its window, or one whose message is gone, replaced or finished,
\* is given up; a message store that fails is a failed try.
Settle(p) ==
  /\ pc = "settle"
  /\ p \in due
  /\ \A q \in due : row[p.message].enqueued <= row[q.message].enqueued
  /\ \/ at > Deadline(p.message) /\ GiveUp(p)
     \/ at <= Deadline(p.message) /\ ~AsksAttention(p.message) /\ GiveUp(p)
     \/ at <= Deadline(p.message) /\ Fail(p)
     \/ /\ at <= Deadline(p.message)
        /\ AsksAttention(p.message)
        /\ pc' = "send"
        /\ UNCHANGED outcome
  /\ cur' = p
  /\ due' = due \ {p}
  /\ UNCHANGED <<now, mail, outbox, permit, at, spoiled, passes, until, phone>>

Delivered ==
  /\ pc = "send"
  /\ phone' = phone \cup {cur.message}
  /\ RecordAs(cur, "sent", cur.attempts, row[cur.message].next, at)
  /\ UNCHANGED <<now, mail, outbox, permit, at, due, cur, spoiled, passes, until>>

\* Mutant: a try that failed is recorded as sent.
UndeliveredSent ==
  /\ pc = "send"
  /\ RecordAs(cur, "sent", cur.attempts, row[cur.message].next, at)
  /\ UNCHANGED <<now, mail, outbox, permit, at, due, cur, spoiled, passes, until, phone>>

\* The notifier's service refused, was not reached, or answered too late: the
\* phone may have been told all the same.
Undelivered ==
  /\ pc = "send"
  /\ phone' \in {phone, phone \cup {cur.message}}
  /\ Fail(cur)
  /\ UNCHANGED <<now, mail, outbox, permit, at, due, cur, spoiled, passes, until>>

\* Mutant: the row is ended whatever state it is in.
RecordAnyRow ==
  /\ pc = "record"
  /\ OwnerFree
  /\ row' = [row EXCEPT ![cur.message] = outcome]
  /\ cur' = NoPush /\ outcome' = NoRow /\ pc' = "settle"
  /\ UNCHANGED <<now, mail, limbo, nudge, lost, permit, at, due, spoiled,
                 passes, until, phone>>

\* DoltMailboxes::finish and Outbox::failed change a pending row only.
Record ==
  /\ pc = "record"
  /\ OwnerFree
  /\ row' = IF cur.message \in Pending THEN [row EXCEPT ![cur.message] = outcome] ELSE row
  /\ cur' = NoPush /\ outcome' = NoRow /\ pc' = "settle"
  /\ UNCHANGED <<now, mail, limbo, nudge, lost, permit, at, due, spoiled,
                 passes, until, phone>>

\* The outcome is not recorded, or nobody knows: the pass goes on.
RecordFails ==
  /\ pc = "record"
  /\ spoiled' = TRUE
  /\ cur' = NoPush /\ outcome' = NoRow /\ pc' = "settle"
  /\ \/ UNCHANGED limbo
     \/ /\ OwnerFree
        /\ cur.message \in Pending
        /\ limbo' = [message |-> cur.message, row |-> outcome]
  /\ UNCHANGED <<now, mail, row, nudge, lost, permit, at, due, passes, until, phone>>

\* Outbox::next_due, and the sleep after the pass.
ReadNext ==
  LET moments == {row[m].next : m \in Pending}
  IN /\ pc = "settle" /\ due = {}
     /\ IF moments = {} THEN SleepTo(NoPush, spoiled)
        ELSE \E earliest \in moments :
               /\ \A t \in moments : earliest <= t
               /\ SleepTo(earliest, spoiled)
     /\ UNCHANGED <<now, mail, outbox, permit, cur, outcome, phone>>

-----------------------------------------------------------------------------

Tick ==
  /\ now < Horizon
  /\ now' = now + 1
  /\ UNCHANGED <<mail, outbox, runner, phone>>

\* The process dies and starts again: the rows survive, and Runner::start
\* stores a permit.
Crash ==
  /\ limbo' = NoPush
  /\ \/ limbo # NoPush /\ Land
     \/ UNCHANGED <<row, standing>>
  /\ nudge' = NoPush /\ hidden' = {}
  /\ permit' = TRUE /\ pc' = "wait" /\ due' = {} /\ cur' = NoPush
  /\ at' = 0 /\ outcome' = NoRow /\ spoiled' = FALSE /\ passes' = 0 /\ until' = 0
  /\ UNCHANGED <<now, excused, lost, phone>>

Mailing ==
  \/ \E m \in Messages : Post(m) \/ PostLost(m)
  \/ \E m \in Messages, to \in {"live", "replaced", "over"} : Change(m, to)
  \/ Nudge
  \/ ServerResolves

Running ==
  \/ Wake \/ WakeEarly \/ TimerFires \/ StartPass \/ ListDue \/ StoreFails
  \/ \E p \in due : Settle(p)
  \/ Delivered \/ Undelivered \/ Record \/ RecordFails \/ ReadNext

Next == Mailing \/ Running \/ Tick \/ Crash

Spec == Init /\ [][Next]_pushVars

\* The runner and the owner are spawned tasks, the clock goes on, the server
\* ends every statement, and neither does the store fail for ever nor the
\* process die again and again for ever.
FairSpec ==
  /\ Spec
  /\ WF_pushVars(Running) /\ WF_pushVars(Nudge) /\ WF_pushVars(Tick)
  /\ WF_pushVars(ServerResolves)
  /\ SF_pushVars(ListDue) /\ SF_pushVars(ReadNext)
  /\ \A m \in Messages : SF_pushVars(Record /\ cur.message = m)
  /\ <>[][~Crash]_pushVars

-----------------------------------------------------------------------------
(* Correctness.                                                            *)

RowType == [state : {"none", "pending", "sent", "abandoned"}, enqueued : Nat,
            attempts : Nat, next : Nat, finished : Nat]

\* The variables have their types, and a push is current exactly between its
\* listing and its record (Pushing::drain).
TypeOK ==
  /\ now \in Nat
  /\ standing \in [Messages -> {"unposted", "live", "replaced", "over"}]
  /\ hidden \subseteq Messages /\ excused \subseteq Messages
  /\ row \in [Messages -> RowType]
  /\ limbo \in [message : Messages, row : RowType] \cup {NoPush}
  /\ nudge \in Messages \cup {NoPush}
  /\ lost \subseteq Messages
  /\ permit \in BOOLEAN /\ spoiled \in BOOLEAN
  /\ pc \in {"wait", "timer", "pass", "list", "settle", "send", "record"}
  /\ at \in Nat /\ passes \in Nat /\ until \in Nat
  /\ due \subseteq PushType
  /\ cur \in PushType \cup {NoPush}
  /\ (cur # NoPush) <=> (pc \in {"send", "record"})
  /\ outcome \in RowType
  /\ phone \subseteq Messages

\* The runner is awake, is about to be woken, or sleeps no longer than to the
\* row's next try (or to the pace of spoiled passes).
Watched(m) ==
  m \in Pending =>
    \/ permit \/ nudge = m
    \/ pc \notin {"wait", "timer"}
    \/ pc = "timer" /\ (passes > 0 \/ until <= row[m].next)

\* No wake is lost: every published row that is pending is watched, whatever
\* the order of posts, passes, failed records and restarts (Runner::nudge, run).
PendingIsWatched == \A m \in Messages \ lost : Watched(m)

\* A row marked sent is a message the phone was told about, whatever was lost
\* or repeated on the way.
SentMeansDelivered == \A m \in Messages : row[m].state = "sent" => m \in phone

Cause(m) ==
  row[m].state = "abandoned" /\ m \notin phone =>
    m \in excused \/ row[m].finished >= Deadline(m)

\* A push nobody received was given up for a reason the policy allows: its
\* window had ended, or its message had at some time asked for no attention.
GivenUpForCause == \A m \in Messages \ lost : Cause(m)

\* "A push that was sent is never marked abandoned afterwards": no step
\* changes a row that has ended, a late landing and a second try included.
RowsEndOnce ==
  [][\A m \in Messages : row[m].state \in {"sent", "abandoned"} => row'[m] = row[m]]_pushVars

\* Every published push ends: sent, or given up aloud.
EveryPushEnds ==
  \A m \in Messages : m \in Pending /\ m \notin lost ~> m \notin Pending
=============================================================================
