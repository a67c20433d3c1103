----------------------------- MODULE PushProofs -----------------------------
(***************************************************************************)
(* Proofs about the outbox, its nudge and its runner, for every set of     *)
(* messages, every policy and every number of restarts.                    *)
(*                                                                         *)
(* What the properties need besides themselves is what is still on its way *)
(* to the table: the outcome the runner is about to record and the record  *)
(* that was lost must be as true as a row (OutcomeReal, LimboReal, Truth,  *)
(* Causes), and a retry that lands late must not come before the one the   *)
(* runner sleeps to (Paced).                                               *)
(***************************************************************************)
EXTENDS Push, TLAPS

\* The pushes the pass holds copies of.
Held == due \cup ({cur} \ {NoPush})

\* The end of the retry the current pass would schedule for a push.
Retry(p) == Least(at + DelayAfter(p.attempts + 1), Deadline(p.message))

\* A lost write that is a record of an outcome, not a post.
LostRecord == limbo # NoPush /\ standing[limbo.message] # "unposted"

\* A row is there exactly when its message is, and is retried in its window.
RowsReal ==
  /\ \A m \in Messages : row[m].state = "none" <=> standing[m] = "unposted"
  /\ \A m \in Messages : row[m].state = "pending" => row[m].next <= Deadline(m)
  /\ \A m \in Messages : standing[m] \in {"replaced", "over"} => m \in excused
  /\ hidden \subseteq lost

\* A pass holds at most one copy of a push, of a row that is there.
HeldReal ==
  /\ \A p \in Held : row[p.message].state # "none"
  /\ \A p, q \in Held : p.message = q.message => p = q
  /\ cur # NoPush => cur \notin due

\* A lost write is a post of a new row or a record of a row that is pending.
LimboReal ==
  limbo # NoPush =>
    /\ limbo.row.state # "none"
    /\ limbo.row.state = "pending" => limbo.row.next <= limbo.row.enqueued + Window
    /\ standing[limbo.message] = "unposted" => limbo.row.state = "pending"
    /\ standing[limbo.message] # "unposted" =>
         /\ row[limbo.message].state = "pending"
         /\ limbo.row.enqueued = row[limbo.message].enqueued

\* The outcome about to be recorded is one of its push's own row.
OutcomeReal ==
  pc = "record" =>
    /\ outcome.state # "none"
    /\ outcome.enqueued = row[cur.message].enqueued
    /\ outcome.state = "pending" =>
         outcome.next = Retry(cur) /\ outcome.attempts = cur.attempts + 1

\* Retries move forward only: a record that lands late is never earlier than
\* the row it replaces, nor later than the retry of a pass that has not seen it.
Paced ==
  /\ at <= now
  /\ \A p \in Held :
       row[p.message].state = "pending" =>
         /\ row[p.message].attempts \in p.attempts .. p.attempts + 1
         /\ row[p.message].next <= Retry(p)
  /\ LostRecord /\ limbo.row.state = "pending" =>
       LET m == limbo.message IN
         /\ limbo.row.attempts \in row[m].attempts .. row[m].attempts + 1
         /\ row[m].next <= limbo.row.next
         /\ limbo.row.next <= now + DelayAfter(row[m].attempts + 1)
         /\ pc = "list" => limbo.row.next <= at + DelayAfter(row[m].attempts + 1)
         /\ \A p \in Held :
              p.message = m =>
                limbo.row.attempts <= p.attempts + 1 /\ limbo.row.next <= Retry(p)

\* The same truth of the rows, of the outcome to record and of the lost record.
Truth ==
  /\ SentMeansDelivered
  /\ pc = "record" /\ outcome.state = "sent" => cur.message \in phone
  /\ limbo # NoPush /\ limbo.row.state = "sent" => limbo.message \in phone

Causes ==
  /\ GivenUpForCause
  /\ pc = "record" /\ outcome.state = "abandoned" =>
       \/ cur.message \in phone \cup excused \cup lost
       \/ outcome.finished >= outcome.enqueued + Window
  /\ limbo # NoPush /\ limbo.row.state = "abandoned" =>
       \/ limbo.message \in phone \cup excused \cup lost
       \/ limbo.row.finished >= limbo.row.enqueued + Window

Inv ==
  /\ TypeOK /\ RowsReal /\ HeldReal /\ LimboReal /\ OutcomeReal /\ Paced
  /\ Truth /\ Causes /\ PendingIsWatched

-----------------------------------------------------------------------------
(* The delays of the policy.  The powers are computed one by one, since    *)
(* the provers do not reason about exponents that are not literals.        *)

Power(b, k) == b^k

\* The powers that Policy::delay_after can multiply by.
LEMMA Powers ==
  /\ Power(2, 0) = 1 /\ Power(2, 1) = 2 /\ Power(2, 2) = 4 /\ Power(2, 3) = 8
  /\ Power(2, 4) = 16 /\ Power(2, 5) = 32 /\ Power(2, 6) = 64 /\ Power(2, 7) = 128
  /\ Power(2, 8) = 256 /\ Power(2, 9) = 512 /\ Power(2, 10) = 1024 /\ Power(2, 11) = 2048
  /\ Power(2, 12) = 4096 /\ Power(2, 13) = 8192 /\ Power(2, 14) = 16384 /\ Power(2, 15) = 32768
  /\ Power(2, 16) = 65536 /\ Power(2, 17) = 131072 /\ Power(2, 18) = 262144 /\ Power(2, 19) = 524288
  /\ Power(2, 20) = 1048576 /\ Power(2, 21) = 2097152 /\ Power(2, 22) = 4194304 /\ Power(2, 23) = 8388608
  /\ Power(2, 24) = 16777216 /\ Power(2, 25) = 33554432 /\ Power(2, 26) = 67108864 /\ Power(2, 27) = 134217728
  /\ Power(2, 28) = 268435456 /\ Power(2, 29) = 536870912 /\ Power(2, 30) = 1073741824 /\ Power(2, 31) = 2147483648
  /\ Power(2, 32) = 4294967296
BY DEF Power

\* A later power is no smaller.
LEMMA PowersGrow ==
  \A k \in 0..32 :
    Power(2, k) \in Nat /\ (k < 32 => Power(2, k) <= Power(2, k + 1))
BY Powers

\* Policy::delay_after answers a delay for every number of attempts, and a
\* later attempt waits no less than the one before it.
LEMMA DelayGrows ==
  ASSUME NEW n \in Nat
  PROVE  DelayAfter(n) \in Nat /\ DelayAfter(n) <= DelayAfter(n + 1)
<1> DEFINE d(k) == IF k = 0 THEN 0 ELSE Least(k - 1, 32)
<1>1. /\ d(n) \in 0..32
      /\ (d(n + 1) = d(n)) \/ (d(n) < 32 /\ d(n + 1) = d(n) + 1)
  BY DEF Least
<1> HIDE DEF d
<1>2. /\ Power(2, d(n)) \in Nat /\ Power(2, d(n + 1)) \in Nat
      /\ Power(2, d(n)) <= Power(2, d(n + 1))
  BY <1>1, PowersGrow
<1>3. \A k \in Nat : DelayAfter(k) = Least(FirstDelay * Power(2, d(k)), LongestDelay)
  BY DEF d, DelayAfter, Power
<1>4. \A f, a, b \in Nat : f * a \in Nat /\ f * b \in Nat /\ (a <= b => f * a <= f * b)
  OBVIOUS
<1>5. /\ FirstDelay * Power(2, d(n)) \in Nat
      /\ FirstDelay * Power(2, d(n + 1)) \in Nat
      /\ FirstDelay * Power(2, d(n)) <= FirstDelay * Power(2, d(n + 1))
  BY <1>2, <1>4, PolicyAssumption
<1>6. QED
  BY <1>3, <1>5, PolicyAssumption DEF Least

\* What the runner sleeps to after a pass: the next try if it sleeps on one,
\* the pace of spoiled passes if the pass was spoiled.
LEMMA Sleeps ==
  ASSUME NEW next \in Nat \cup {NoPush}, NEW isSpoiled \in BOOLEAN,
         passes \in Nat, until \in Nat, now \in Nat, SleepTo(next, isSpoiled)
  PROVE  /\ passes' \in Nat /\ until' \in Nat /\ pc' \in {"wait", "timer"}
         /\ at' = 0 /\ due' = {} /\ spoiled' = FALSE
         /\ isSpoiled => pc' = "timer" /\ passes' > 0
         /\ ~isSpoiled /\ next = NoPush => pc' = "wait"
         /\ ~isSpoiled /\ next # NoPush => pc' = "timer" /\ until' <= next
<1> USE PolicyAssumption, NoPushAssumption
<1>1. CASE isSpoiled
  <2> DEFINE n == Least(passes + 1, MaxSpoiled)
             retry == now + DelayAfter(n)
  <2>1. n \in Nat /\ n > 0
    BY DEF Least
  <2>2. retry \in Nat
    BY <2>1, DelayGrows
  <2>3. (IF next = NoPush THEN retry ELSE Most(next, retry)) \in Nat
    BY <2>2 DEF Most
  <2> HIDE DEF retry
  <2>4. QED
    BY <1>1, <2>1, <2>3 DEF SleepTo, Least, retry
<1>2. CASE ~isSpoiled
  BY <1>2 DEF SleepTo, Least
<1>3. QED
  BY <1>1, <1>2

\* A pass that ends leaves the runner asleep, and nothing else changed: to the
\* next post only when no row is pending, else no longer than to any row's next
\* try or to the pace of spoiled passes.
LEMMA EndsPass ==
  ASSUME TypeOK, StoreFails \/ ReadNext
  PROVE  /\ pc \in {"list", "settle"}
         /\ passes' \in Nat /\ until' \in Nat /\ pc' \in {"wait", "timer"}
         /\ at' = 0 /\ due' = {} /\ spoiled' = FALSE
         /\ UNCHANGED <<now, mail, outbox, permit, cur, outcome, phone>>
         /\ pc' = "wait" => Pending = {}
         /\ pc' = "timer" =>
              passes' > 0 \/ \A m \in Pending : until' <= row[m].next
<1> DEFINE Asleep ==
      /\ passes' \in Nat /\ until' \in Nat /\ pc' \in {"wait", "timer"}
      /\ at' = 0 /\ due' = {} /\ spoiled' = FALSE
      /\ pc' = "wait" => Pending = {}
      /\ pc' = "timer" => passes' > 0 \/ \A m \in Pending : until' <= row[m].next
<1>0. passes \in Nat /\ until \in Nat /\ now \in Nat /\ spoiled \in BOOLEAN
  BY DEF TypeOK
<1>1. CASE StoreFails
  <2>1. SleepTo(NoPush, TRUE)
    BY <1>1 DEF StoreFails
  <2>2. Asleep
    BY <1>0, <2>1, Sleeps
  <2>3. QED
    BY <1>1, <2>2 DEF StoreFails
<1>2. CASE ReadNext
  <2> DEFINE moments == {row[m].next : m \in Pending}
  <2>1. moments \subseteq Nat
    BY DEF TypeOK, RowType, Pending
  <2>2. CASE moments = {}
    <3>1. Pending = {} /\ SleepTo(NoPush, spoiled)
      BY <1>2, <2>2 DEF ReadNext
    <3>2. Asleep
      BY <1>0, <3>1, Sleeps
    <3>3. QED
      BY <1>2, <3>2 DEF ReadNext
  <2>3. CASE moments # {}
    <3>1. PICK earliest \in moments :
            (\A t \in moments : earliest <= t) /\ SleepTo(earliest, spoiled)
      BY <1>2, <2>3 DEF ReadNext
    <3>2. \A m \in Pending : earliest <= row[m].next
      BY <3>1
    <3>3. earliest \in Nat /\ earliest # NoPush
      BY <2>1, NoPushAssumption
    <3>4. \/ spoiled' = FALSE /\ at' = 0 /\ due' = {} /\ passes' \in Nat /\ until' \in Nat
             /\ pc' = "timer" /\ passes' > 0
          \/ spoiled' = FALSE /\ at' = 0 /\ due' = {} /\ passes' \in Nat /\ until' \in Nat
             /\ pc' = "timer" /\ until' <= earliest
      <4>1. CASE spoiled = TRUE
        BY <1>0, <3>1, <3>3, <4>1, Sleeps
      <4>2. CASE spoiled = FALSE
        BY <1>0, <3>1, <3>3, <4>2, Sleeps
      <4>3. QED
        BY <1>0, <4>1, <4>2
    <3>5. \A m \in Pending : row[m].next \in Nat
      BY DEF TypeOK, RowType, Pending
    <3>6. Asleep
      BY <3>2, <3>3, <3>4, <3>5
    <3>7. QED
      BY <1>2, <3>6 DEF ReadNext
  <2>4. QED
    BY <2>2, <2>3
<1>3. QED
  BY <1>1, <1>2

-----------------------------------------------------------------------------

\* The types are kept by every step.
LEMMA TypeStep == Inv /\ [Next]_pushVars => TypeOK'
<1> SUFFICES ASSUME Inv, [Next]_pushVars PROVE TypeOK'
  OBVIOUS
<1> USE PolicyAssumption, NoPushAssumption, DelayGrows
    DEF Inv, TypeOK, RowType, PushType, NoRow, mail, outbox, runner, Pending, Deadline,
        RowsReal, LimboReal, Least, Most
<1>1. CASE \E m \in Messages : Post(m)
  BY <1>1 DEF Post, Posted, OwnerFree
<1>2. CASE \E m \in Messages : PostLost(m)
  BY <1>2 DEF PostLost, Posted, OwnerFree
<1>3. CASE \E m \in Messages, to \in {"live", "replaced", "over"} : Change(m, to)
  BY <1>3 DEF Change, OwnerFree
<1>4. CASE Nudge
  BY <1>4 DEF Nudge
<1>5. CASE ServerResolves
  <2>1. CASE UNCHANGED <<row, standing, hidden, lost>>
    BY <1>5, <2>1 DEF ServerResolves
  <2>2. CASE Land /\ limbo # NoPush
    BY <1>5, <2>2 DEF ServerResolves, Land
  <2>3. QED
    BY <1>5, <2>1, <2>2 DEF ServerResolves
<1>6. CASE Wake \/ WakeEarly \/ TimerFires \/ StartPass
  <2>1. CASE Wake
    BY <2>1 DEF Wake
  <2>2. CASE WakeEarly
    BY <2>2 DEF WakeEarly
  <2>3. CASE TimerFires
    BY <2>3 DEF TimerFires
  <2>4. CASE StartPass
    BY <2>4 DEF StartPass
  <2>5. QED
    BY <1>6, <2>1, <2>2, <2>3, <2>4
<1>7. CASE ListDue
  BY <1>7 DEF ListDue
<1>8. CASE StoreFails \/ ReadNext
  <2>1. /\ passes' \in Nat /\ until' \in Nat /\ pc' \in {"wait", "timer"}
        /\ at' = 0 /\ due' = {} /\ spoiled' = FALSE /\ pc \in {"list", "settle"}
        /\ UNCHANGED <<now, mail, outbox, permit, cur, outcome, phone>>
    <3> HIDE DEF TypeOK
    <3> QED
      BY <1>8, EndsPass
  <2>2. QED
    BY <2>1
<1>9. CASE \E p \in due : Settle(p)
  BY <1>9 DEF Settle, Fail, GiveUp, RecordAs, AsksAttention
<1>10. CASE Delivered
  BY <1>10 DEF Delivered, RecordAs
<1>11. CASE Undelivered
  BY <1>11 DEF Undelivered, Fail, GiveUp, RecordAs
<1>12. CASE Record
  BY <1>12 DEF Record, OwnerFree
<1>13. CASE RecordFails
  BY <1>13 DEF RecordFails, OwnerFree
<1>14. CASE Tick
  BY <1>14 DEF Tick
<1>15. CASE Crash
  <2>1. CASE UNCHANGED <<row, standing>>
    BY <1>15, <2>1 DEF Crash
  <2>2. CASE Land /\ limbo # NoPush
    BY <1>15, <2>2 DEF Crash, Land
  <2>3. QED
    BY <1>15, <2>1, <2>2 DEF Crash
<1>16. CASE UNCHANGED pushVars
  BY <1>16 DEF pushVars
<1>17. QED
  BY <1>1, <1>2, <1>3, <1>4, <1>5, <1>6,
     <1>7, <1>8, <1>9, <1>10, <1>11, <1>12,
     <1>13, <1>14, <1>15, <1>16
  DEF Next, Mailing, Running

\* Every step keeps the rows with their messages.
LEMMA RowsStep == Inv /\ [Next]_pushVars => RowsReal'
<1> SUFFICES ASSUME Inv, [Next]_pushVars PROVE RowsReal'
  OBVIOUS
<1> USE PolicyAssumption, NoPushAssumption, DelayGrows
    DEF Inv, TypeOK, RowType, PushType, NoRow, mail, outbox, runner, Pending, RowsReal,
        LimboReal, OutcomeReal, Retry, Least, Deadline
<1>1. CASE \E m \in Messages : Post(m)
  BY <1>1 DEF Post, Posted, OwnerFree
<1>2. CASE \E m \in Messages : PostLost(m)
  BY <1>2 DEF PostLost, Posted, OwnerFree
<1>3. CASE \E m \in Messages, to \in {"live", "replaced", "over"} : Change(m, to)
  BY <1>3 DEF Change, OwnerFree
<1>4. CASE Nudge
  BY <1>4 DEF Nudge
<1>5. CASE ServerResolves
  BY <1>5 DEF ServerResolves, Land
<1>6. CASE Wake \/ WakeEarly \/ TimerFires \/ StartPass
  BY <1>6 DEF Wake, WakeEarly, TimerFires, StartPass
<1>7. CASE ListDue
  BY <1>7 DEF ListDue
<1>8. CASE StoreFails \/ ReadNext
  BY <1>8, EndsPass
<1>9. CASE \E p \in due : Settle(p)
  BY <1>9 DEF Settle, Fail, GiveUp, RecordAs, AsksAttention
<1>10. CASE Delivered
  BY <1>10 DEF Delivered, RecordAs
<1>11. CASE Undelivered
  BY <1>11 DEF Undelivered, Fail, GiveUp, RecordAs
<1>12. CASE Record
  BY <1>12 DEF Record, OwnerFree
<1>13. CASE RecordFails
  BY <1>13 DEF RecordFails, OwnerFree
<1>14. CASE Tick
  BY <1>14 DEF Tick
<1>15. CASE Crash
  <2>1. CASE UNCHANGED <<row, standing>>
    BY <1>15, <2>1 DEF Crash
  <2>2. CASE Land /\ limbo # NoPush
    BY <1>15, <2>2 DEF Crash, Land
  <2>3. QED
    BY <1>15, <2>1, <2>2 DEF Crash
<1>16. CASE UNCHANGED pushVars
  BY <1>16 DEF pushVars
<1>17. QED
  BY <1>1, <1>2, <1>3, <1>4, <1>5, <1>6,
     <1>7, <1>8, <1>9, <1>10, <1>11, <1>12,
     <1>13, <1>14, <1>15, <1>16
  DEF Next, Mailing, Running

\* Every step keeps the copies of a pass apart.
LEMMA HeldStep == Inv /\ [Next]_pushVars => HeldReal'
<1> SUFFICES ASSUME Inv, [Next]_pushVars PROVE HeldReal'
  OBVIOUS
<1> USE PolicyAssumption, NoPushAssumption
    DEF Inv, TypeOK, RowType, PushType, NoRow, mail, outbox, runner, Pending, RowsReal,
        HeldReal, LimboReal, OutcomeReal, Held
<1>1. CASE \E m \in Messages : Post(m)
  BY <1>1 DEF Post, Posted, OwnerFree
<1>2. CASE \E m \in Messages : PostLost(m)
  BY <1>2 DEF PostLost, Posted, OwnerFree
<1>3. CASE \E m \in Messages, to \in {"live", "replaced", "over"} : Change(m, to)
  BY <1>3 DEF Change, OwnerFree
<1>4. CASE Nudge
  BY <1>4 DEF Nudge
<1>5. CASE ServerResolves
  BY <1>5 DEF ServerResolves, Land
<1>6. CASE Wake \/ WakeEarly \/ TimerFires \/ StartPass
  BY <1>6 DEF Wake, WakeEarly, TimerFires, StartPass
<1>7. CASE ListDue
  BY <1>7 DEF ListDue
<1>8. CASE StoreFails \/ ReadNext
  BY <1>8, EndsPass
<1>9. CASE \E p \in due : Settle(p)
  BY <1>9 DEF Settle, Fail, GiveUp, RecordAs, AsksAttention
<1>10. CASE Delivered
  BY <1>10 DEF Delivered, RecordAs
<1>11. CASE Undelivered
  BY <1>11 DEF Undelivered, Fail, GiveUp, RecordAs
<1>12. CASE Record
  BY <1>12 DEF Record, OwnerFree
<1>13. CASE RecordFails
  BY <1>13 DEF RecordFails, OwnerFree
<1>14. CASE Tick
  BY <1>14 DEF Tick
<1>15. CASE Crash
  BY <1>15 DEF Crash, Land
<1>16. CASE UNCHANGED pushVars
  BY <1>16 DEF pushVars
<1>17. QED
  BY <1>1, <1>2, <1>3, <1>4, <1>5, <1>6,
     <1>7, <1>8, <1>9, <1>10, <1>11, <1>12,
     <1>13, <1>14, <1>15, <1>16
  DEF Next, Mailing, Running

\* Every step keeps the lost write true to its row.
LEMMA LimboStep == Inv /\ [Next]_pushVars => LimboReal'
<1> SUFFICES ASSUME Inv, [Next]_pushVars PROVE LimboReal'
  OBVIOUS
<1> USE PolicyAssumption, NoPushAssumption, DelayGrows
    DEF Inv, TypeOK, RowType, PushType, NoRow, mail, outbox, runner, Pending, RowsReal,
        HeldReal, LimboReal, OutcomeReal, Held, Deadline, Retry, Least
<1>1. CASE \E m \in Messages : Post(m)
  BY <1>1 DEF Post, Posted, OwnerFree
<1>2. CASE \E m \in Messages : PostLost(m)
  BY <1>2 DEF PostLost, Posted, OwnerFree
<1>3. CASE \E m \in Messages, to \in {"live", "replaced", "over"} : Change(m, to)
  BY <1>3 DEF Change, OwnerFree
<1>4. CASE Nudge
  BY <1>4 DEF Nudge
<1>5. CASE ServerResolves
  BY <1>5 DEF ServerResolves, Land
<1>6. CASE Wake \/ WakeEarly \/ TimerFires \/ StartPass
  BY <1>6 DEF Wake, WakeEarly, TimerFires, StartPass
<1>7. CASE ListDue
  BY <1>7 DEF ListDue
<1>8. CASE StoreFails \/ ReadNext
  BY <1>8, EndsPass
<1>9. CASE \E p \in due : Settle(p)
  BY <1>9 DEF Settle, Fail, GiveUp, RecordAs, AsksAttention
<1>10. CASE Delivered
  BY <1>10 DEF Delivered, RecordAs
<1>11. CASE Undelivered
  BY <1>11 DEF Undelivered, Fail, GiveUp, RecordAs
<1>12. CASE Record
  BY <1>12 DEF Record, OwnerFree
<1>13. CASE RecordFails
  BY <1>13 DEF RecordFails, OwnerFree
<1>14. CASE Tick
  BY <1>14 DEF Tick
<1>15. CASE Crash
  BY <1>15 DEF Crash, Land
<1>16. CASE UNCHANGED pushVars
  BY <1>16 DEF pushVars
<1>17. QED
  BY <1>1, <1>2, <1>3, <1>4, <1>5, <1>6,
     <1>7, <1>8, <1>9, <1>10, <1>11, <1>12,
     <1>13, <1>14, <1>15, <1>16
  DEF Next, Mailing, Running

\* Every step keeps the outcome true to its row.
LEMMA OutcomeStep == Inv /\ [Next]_pushVars => OutcomeReal'
<1> SUFFICES ASSUME Inv, [Next]_pushVars PROVE OutcomeReal'
  OBVIOUS
<1> USE PolicyAssumption, NoPushAssumption
    DEF Inv, TypeOK, RowType, PushType, NoRow, mail, outbox, runner, Pending, RowsReal,
        HeldReal, LimboReal, OutcomeReal, Held, Deadline, Retry
<1>1. CASE \E m \in Messages : Post(m)
  BY <1>1 DEF Post, Posted, OwnerFree
<1>2. CASE \E m \in Messages : PostLost(m)
  BY <1>2 DEF PostLost, Posted, OwnerFree
<1>3. CASE \E m \in Messages, to \in {"live", "replaced", "over"} : Change(m, to)
  BY <1>3 DEF Change, OwnerFree
<1>4. CASE Nudge
  BY <1>4 DEF Nudge
<1>5. CASE ServerResolves
  BY <1>5 DEF ServerResolves, Land
<1>6. CASE Wake \/ WakeEarly \/ TimerFires \/ StartPass
  BY <1>6 DEF Wake, WakeEarly, TimerFires, StartPass
<1>7. CASE ListDue
  BY <1>7 DEF ListDue
<1>8. CASE StoreFails \/ ReadNext
  BY <1>8, EndsPass
<1>9. CASE \E p \in due : Settle(p)
  BY <1>9 DEF Settle, Fail, GiveUp, RecordAs, AsksAttention
<1>10. CASE Delivered
  BY <1>10 DEF Delivered, RecordAs
<1>11. CASE Undelivered
  BY <1>11 DEF Undelivered, Fail, GiveUp, RecordAs
<1>12. CASE Record
  BY <1>12 DEF Record, OwnerFree
<1>13. CASE RecordFails
  BY <1>13 DEF RecordFails, OwnerFree
<1>14. CASE Tick
  BY <1>14 DEF Tick
<1>15. CASE Crash
  BY <1>15 DEF Crash, Land
<1>16. CASE UNCHANGED pushVars
  BY <1>16 DEF pushVars
<1>17. QED
  BY <1>1, <1>2, <1>3, <1>4, <1>5, <1>6,
     <1>7, <1>8, <1>9, <1>10, <1>11, <1>12,
     <1>13, <1>14, <1>15, <1>16
  DEF Next, Mailing, Running

\* Every step moves the retries forward.
LEMMA PacedStep == Inv /\ [Next]_pushVars => Paced'
<1> SUFFICES ASSUME Inv, [Next]_pushVars PROVE Paced'
  OBVIOUS
<1> USE PolicyAssumption, NoPushAssumption, DelayGrows
    DEF Inv, TypeOK, RowType, PushType, NoRow, mail, outbox, runner, Pending, RowsReal,
        HeldReal, LimboReal, OutcomeReal, LostRecord, Paced, Held, Deadline, Retry, Least
<1>1. CASE \E m \in Messages : Post(m)
  BY <1>1 DEF Post, Posted, OwnerFree
<1>2. CASE \E m \in Messages : PostLost(m)
  BY <1>2 DEF PostLost, Posted, OwnerFree
<1>3. CASE \E m \in Messages, to \in {"live", "replaced", "over"} : Change(m, to)
  BY <1>3 DEF Change, OwnerFree
<1>4. CASE Nudge
  BY <1>4 DEF Nudge
<1>5. CASE ServerResolves
  BY <1>5 DEF ServerResolves, Land
<1>6. CASE Wake \/ WakeEarly \/ TimerFires \/ StartPass
  BY <1>6 DEF Wake, WakeEarly, TimerFires, StartPass
<1>7. CASE ListDue
  BY <1>7 DEF ListDue
<1>8. CASE StoreFails \/ ReadNext
  <2>1. /\ pc' \in {"wait", "timer"} /\ at' = 0 /\ due' = {} /\ cur' = NoPush
        /\ UNCHANGED <<now, row, standing, limbo>>
    BY <1>8, EndsPass
  <2>2. Held' = {}
    BY <2>1
  <2> HIDE DEF Held
  <2>3. QED
    BY <2>1, <2>2
<1>9. CASE \E p \in due : Settle(p)
  BY <1>9 DEF Settle, Fail, GiveUp, RecordAs, AsksAttention
<1>10. CASE Delivered
  BY <1>10 DEF Delivered, RecordAs
<1>11. CASE Undelivered
  BY <1>11 DEF Undelivered, Fail, GiveUp, RecordAs
<1>12. CASE Record
  BY <1>12 DEF Record, OwnerFree
<1>13. CASE RecordFails
  <2>1. /\ Held' \subseteq Held /\ cur \in Held
        /\ \A p \in Held' : p # cur /\ p.message # cur.message
        /\ UNCHANGED <<now, row, standing, at>> /\ pc' = "settle"
    BY <1>13 DEF RecordFails
  <2>2. CASE UNCHANGED limbo
    <3> HIDE DEF Held
    <3>1. QED
      BY <2>1, <2>2
  <2>3. CASE cur.message \in Pending /\ limbo' = [message |-> cur.message, row |-> outcome]
    <3> HIDE DEF Held
    <3>1. cur.message \in Messages /\ cur.attempts \in Nat /\ outcome \in RowType
      BY <1>13 DEF RecordFails
    <3>2. /\ row[cur.message].attempts \in cur.attempts .. cur.attempts + 1
          /\ row[cur.message].next <= Retry(cur)
          /\ row[cur.message].attempts \in Nat /\ row[cur.message].next \in Nat
      BY <2>1, <2>3, <3>1
    <3>3. outcome.state = "pending" =>
            outcome.next = Retry(cur) /\ outcome.attempts = cur.attempts + 1
      BY <1>13 DEF RecordFails
    <3>4. Retry(cur) <= now + DelayAfter(row[cur.message].attempts + 1)
      <4>1. DelayAfter(cur.attempts + 1) <= DelayAfter(row[cur.message].attempts + 1)
        <5>1. DelayAfter(cur.attempts + 1) <= DelayAfter(cur.attempts + 2)
          BY <3>1, DelayGrows
        <5>2. row[cur.message].attempts = cur.attempts \/ row[cur.message].attempts = cur.attempts + 1
          <6>1. \A a, b \in Nat : b \in a .. a + 1 => b = a \/ b = a + 1
            OBVIOUS
          <6>2. QED
            BY <3>1, <3>2, <6>1
        <5>3. DelayAfter(cur.attempts + 1) \in Nat
          BY <3>1, DelayGrows
        <5>4. QED
          BY <3>1, <5>1, <5>2, <5>3
      <4>2. DelayAfter(cur.attempts + 1) \in Nat /\ DelayAfter(row[cur.message].attempts + 1) \in Nat
        BY <3>1, <3>2, DelayGrows
      <4>3. QED
        BY <3>1, <4>1, <4>2
    <3>5. QED
      BY <2>1, <2>3, <3>1, <3>2, <3>3, <3>4
  <2>4. QED
    BY <1>13, <2>2, <2>3 DEF RecordFails
<1>14. CASE Tick
  BY <1>14 DEF Tick
<1>15. CASE Crash
  BY <1>15 DEF Crash, Land
<1>16. CASE UNCHANGED pushVars
  BY <1>16 DEF pushVars
<1>17. QED
  BY <1>1, <1>2, <1>3, <1>4, <1>5, <1>6,
     <1>7, <1>8, <1>9, <1>10, <1>11, <1>12,
     <1>13, <1>14, <1>15, <1>16
  DEF Next, Mailing, Running

\* No step marks a push sent that the phone was not told about.
LEMMA TruthStep == Inv /\ [Next]_pushVars => Truth'
<1> SUFFICES ASSUME Inv, [Next]_pushVars PROVE Truth'
  OBVIOUS
<1> USE PolicyAssumption, NoPushAssumption
    DEF Inv, TypeOK, RowType, PushType, NoRow, mail, outbox, runner, Pending, Truth,
        SentMeansDelivered, LimboReal, OutcomeReal, HeldReal, Held
<1>1. CASE \E m \in Messages : Post(m)
  BY <1>1 DEF Post, Posted, OwnerFree
<1>2. CASE \E m \in Messages : PostLost(m)
  BY <1>2 DEF PostLost, Posted, OwnerFree
<1>3. CASE \E m \in Messages, to \in {"live", "replaced", "over"} : Change(m, to)
  BY <1>3 DEF Change, OwnerFree
<1>4. CASE Nudge
  BY <1>4 DEF Nudge
<1>5. CASE ServerResolves
  BY <1>5 DEF ServerResolves, Land
<1>6. CASE Wake \/ WakeEarly \/ TimerFires \/ StartPass
  BY <1>6 DEF Wake, WakeEarly, TimerFires, StartPass
<1>7. CASE ListDue
  BY <1>7 DEF ListDue
<1>8. CASE StoreFails \/ ReadNext
  BY <1>8, EndsPass
<1>9. CASE \E p \in due : Settle(p)
  BY <1>9 DEF Settle, Fail, GiveUp, RecordAs, AsksAttention
<1>10. CASE Delivered
  BY <1>10 DEF Delivered, RecordAs
<1>11. CASE Undelivered
  BY <1>11 DEF Undelivered, Fail, GiveUp, RecordAs
<1>12. CASE Record
  BY <1>12 DEF Record, OwnerFree
<1>13. CASE RecordFails
  BY <1>13 DEF RecordFails, OwnerFree
<1>14. CASE Tick
  BY <1>14 DEF Tick
<1>15. CASE Crash
  BY <1>15 DEF Crash, Land
<1>16. CASE UNCHANGED pushVars
  BY <1>16 DEF pushVars
<1>17. QED
  BY <1>1, <1>2, <1>3, <1>4, <1>5, <1>6,
     <1>7, <1>8, <1>9, <1>10, <1>11, <1>12,
     <1>13, <1>14, <1>15, <1>16
  DEF Next, Mailing, Running

\* No step gives a push up without a cause.
LEMMA CausesStep == Inv /\ [Next]_pushVars => Causes'
<1> SUFFICES ASSUME Inv, [Next]_pushVars PROVE Causes'
  OBVIOUS
<1> USE PolicyAssumption, NoPushAssumption
    DEF Inv, TypeOK, RowType, PushType, NoRow, mail, outbox, runner, Pending, Causes,
        GivenUpForCause, Cause, Deadline, RowsReal, LimboReal, OutcomeReal, HeldReal, Held
<1>1. CASE \E m \in Messages : Post(m)
  BY <1>1 DEF Post, Posted, OwnerFree
<1>2. CASE \E m \in Messages : PostLost(m)
  BY <1>2 DEF PostLost, Posted, OwnerFree
<1>3. CASE \E m \in Messages, to \in {"live", "replaced", "over"} : Change(m, to)
  BY <1>3 DEF Change, OwnerFree
<1>4. CASE Nudge
  BY <1>4 DEF Nudge
<1>5. CASE ServerResolves
  BY <1>5 DEF ServerResolves, Land
<1>6. CASE Wake \/ WakeEarly \/ TimerFires \/ StartPass
  BY <1>6 DEF Wake, WakeEarly, TimerFires, StartPass
<1>7. CASE ListDue
  BY <1>7 DEF ListDue
<1>8. CASE StoreFails \/ ReadNext
  BY <1>8, EndsPass
<1>9. CASE \E p \in due : Settle(p)
  BY <1>9 DEF Settle, Fail, GiveUp, RecordAs, AsksAttention
<1>10. CASE Delivered
  BY <1>10 DEF Delivered, RecordAs
<1>11. CASE Undelivered
  BY <1>11 DEF Undelivered, Fail, GiveUp, RecordAs
<1>12. CASE Record
  BY <1>12 DEF Record, OwnerFree
<1>13. CASE RecordFails
  BY <1>13 DEF RecordFails, OwnerFree
<1>14. CASE Tick
  BY <1>14 DEF Tick
<1>15. CASE Crash
  BY <1>15 DEF Crash, Land
<1>16. CASE UNCHANGED pushVars
  BY <1>16 DEF pushVars
<1>17. QED
  BY <1>1, <1>2, <1>3, <1>4, <1>5, <1>6,
     <1>7, <1>8, <1>9, <1>10, <1>11, <1>12,
     <1>13, <1>14, <1>15, <1>16
  DEF Next, Mailing, Running

\* No step loses the wake of a pending row.
LEMMA WatchStep == Inv /\ [Next]_pushVars => PendingIsWatched'
<1> SUFFICES ASSUME Inv, [Next]_pushVars PROVE PendingIsWatched'
  OBVIOUS
<1> USE PolicyAssumption, NoPushAssumption, DelayGrows
    DEF Inv, TypeOK, RowType, PushType, NoRow, mail, outbox, runner, Pending, PendingIsWatched,
        Watched, RowsReal, LimboReal, OutcomeReal, Paced, LostRecord
<1>1. CASE \E m \in Messages : Post(m)
  BY <1>1 DEF Post, Posted, OwnerFree
<1>2. CASE \E m \in Messages : PostLost(m)
  BY <1>2 DEF PostLost, Posted, OwnerFree
<1>3. CASE \E m \in Messages, to \in {"live", "replaced", "over"} : Change(m, to)
  BY <1>3 DEF Change, OwnerFree
<1>4. CASE Nudge
  BY <1>4 DEF Nudge
<1>5. CASE ServerResolves
  BY <1>5 DEF ServerResolves, Land
<1>6. CASE Wake \/ WakeEarly \/ TimerFires \/ StartPass
  BY <1>6 DEF Wake, WakeEarly, TimerFires, StartPass
<1>7. CASE ListDue
  BY <1>7 DEF ListDue
<1>8. CASE StoreFails \/ ReadNext
  BY <1>8, EndsPass
<1>9. CASE \E p \in due : Settle(p)
  BY <1>9 DEF Settle, Fail, GiveUp, RecordAs, AsksAttention
<1>10. CASE Delivered
  BY <1>10 DEF Delivered, RecordAs
<1>11. CASE Undelivered
  BY <1>11 DEF Undelivered, Fail, GiveUp, RecordAs
<1>12. CASE Record
  BY <1>12 DEF Record, OwnerFree
<1>13. CASE RecordFails
  BY <1>13 DEF RecordFails, OwnerFree
<1>14. CASE Tick
  BY <1>14 DEF Tick
<1>15. CASE Crash
  BY <1>15 DEF Crash, Land
<1>16. CASE UNCHANGED pushVars
  BY <1>16 DEF pushVars
<1>17. QED
  BY <1>1, <1>2, <1>3, <1>4, <1>5, <1>6,
     <1>7, <1>8, <1>9, <1>10, <1>11, <1>12,
     <1>13, <1>14, <1>15, <1>16
  DEF Next, Mailing, Running

\* The invariant holds in every behaviour, for every set of messages and every
\* policy.
THEOREM Invariance == Spec => []Inv
<1>1. Init => Inv
  <2> SUFFICES ASSUME Init PROVE Inv
    OBVIOUS
  <2>1. TypeOK
    BY PolicyAssumption, NoPushAssumption DEF Init, TypeOK, RowType, PushType, NoRow
  <2>2. Held = {}
    BY DEF Init, Held
  <2>3. RowsReal /\ LimboReal /\ OutcomeReal
    BY DEF Init, NoRow, RowsReal, LimboReal, OutcomeReal
  <2>4. HeldReal
    BY <2>2 DEF Init, HeldReal
  <2>5. Paced
    BY <2>2 DEF Init, Paced, LostRecord
  <2>6. Truth /\ Causes /\ PendingIsWatched
    BY DEF Init, NoRow, Truth, SentMeansDelivered, Causes, GivenUpForCause, Cause,
           PendingIsWatched, Watched, Pending
  <2>7. QED
    BY <2>1, <2>3, <2>4, <2>5, <2>6 DEF Inv
<1>2. Inv /\ [Next]_pushVars => Inv'
  BY TypeStep, RowsStep, HeldStep, LimboStep, OutcomeStep, PacedStep, TruthStep,
     CausesStep, WatchStep DEF Inv
<1>3. QED
  BY <1>1, <1>2, PTL DEF Spec

\* The variables of the outbox and its runner keep their types.
THEOREM TypeCorrect == Spec => []TypeOK
<1>1. Inv => TypeOK
  BY DEF Inv
<1>2. QED
  BY <1>1, Invariance, PTL

\* A row marked sent is a message the phone was told about.
THEOREM SentIsDelivered == Spec => []SentMeansDelivered
<1>1. Inv => SentMeansDelivered
  BY DEF Inv, Truth
<1>2. QED
  BY <1>1, Invariance, PTL

\* A push that nobody received was given up for a cause the policy allows.
THEOREM AbandonedForCause == Spec => []GivenUpForCause
<1>1. Inv => GivenUpForCause
  BY DEF Inv, Causes
<1>2. QED
  BY <1>1, Invariance, PTL

\* No wake is lost: every published row that is pending is watched.
THEOREM NoWakeLost == Spec => []PendingIsWatched
<1>1. Inv => PendingIsWatched
  BY DEF Inv
<1>2. QED
  BY <1>1, Invariance, PTL

\* A step leaves every row that has ended as it is.
LEMMA EndedStep ==
  Inv /\ [Next]_pushVars =>
    \A m \in Messages : row[m].state \in {"sent", "abandoned"} => row'[m] = row[m]
<1> SUFFICES ASSUME Inv, [Next]_pushVars, NEW m \in Messages,
                    row[m].state \in {"sent", "abandoned"}
             PROVE  row'[m] = row[m]
  OBVIOUS
<1> USE DEF Inv, TypeOK, RowType, PushType, RowsReal, LimboReal, OutcomeReal, Pending,
        mail, outbox, runner
<1>1. CASE \E n \in Messages : Post(n)
  BY <1>1 DEF Post, Posted, OwnerFree
<1>2. CASE \E n \in Messages : PostLost(n)
  BY <1>2 DEF PostLost, Posted, OwnerFree
<1>3. CASE \E n \in Messages, to \in {"live", "replaced", "over"} : Change(n, to)
  BY <1>3 DEF Change, OwnerFree
<1>4. CASE Nudge
  BY <1>4 DEF Nudge
<1>5. CASE ServerResolves
  BY <1>5 DEF ServerResolves, Land
<1>6. CASE Wake \/ WakeEarly \/ TimerFires \/ StartPass
  BY <1>6 DEF Wake, WakeEarly, TimerFires, StartPass
<1>7. CASE ListDue
  BY <1>7 DEF ListDue
<1>8. CASE StoreFails \/ ReadNext
  BY <1>8, EndsPass
<1>9. CASE \E p \in due : Settle(p)
  BY <1>9 DEF Settle, Fail, GiveUp, RecordAs, AsksAttention
<1>10. CASE Delivered
  BY <1>10 DEF Delivered, RecordAs
<1>11. CASE Undelivered
  BY <1>11 DEF Undelivered, Fail, GiveUp, RecordAs
<1>12. CASE Record
  BY <1>12 DEF Record, OwnerFree
<1>13. CASE RecordFails
  BY <1>13 DEF RecordFails, OwnerFree
<1>14. CASE Tick
  BY <1>14 DEF Tick
<1>15. CASE Crash
  BY <1>15 DEF Crash, Land
<1>16. CASE UNCHANGED pushVars
  BY <1>16 DEF pushVars
<1>17. QED
  BY <1>1, <1>2, <1>3, <1>4, <1>5, <1>6,
     <1>7, <1>8, <1>9, <1>10, <1>11, <1>12,
     <1>13, <1>14, <1>15, <1>16
  DEF Next, Mailing, Running

\* A row that has ended never changes again, whatever lands late.
THEOREM EndedRowsStand == Spec => RowsEndOnce
<1>1. Inv /\ [Next]_pushVars =>
        [\A m \in Messages : row[m].state \in {"sent", "abandoned"} => row'[m] = row[m]]_pushVars
  BY EndedStep
<1>2. QED
  BY <1>1, Invariance, PTL DEF Spec, RowsEndOnce

=============================================================================
