--------------------------- MODULE MailboxProofs ---------------------------
(***************************************************************************)
(* Proofs about the tables of the mailboxes, the account of each message   *)
(* and the image that follows them, for every set of names, owners,        *)
(* senders, instants and ids.                                              *)
(*                                                                         *)
(* What the verbs do to one message is Stays or Goes: it keeps its state   *)
(* and its account, or it goes one state on and one event tells of it.     *)
(* A withheld message is spoken for because replacements are filed in one  *)
(* order: of the sender's later messages in the box that are readable, the *)
(* one filed last cannot have been replaced.  For that, no message has two *)
(* replacements that stand (OneReplacement), and a replacement is in the   *)
(* box of what it replaces, whatever box was renamed since (Replaces).     *)
(*                                                                         *)
(* The image is ImageOf the cards, the line they stand in, the boxes and   *)
(* the accounts; a full read of the store makes that image of the tables   *)
(* (LoadedIs).  Put, File and Record each make, of the image of one board, *)
(* the image of the board the verb leaves, so a verb followed by them      *)
(* leaves what a full read would make.  A board has one line because no    *)
(* two messages are numbered alike (InTurn).  What a delivery of the store *)
(* takes and what the image counts and answers are lists over one set of   *)
(* messages, whatever their order (Lists).                                 *)
(***************************************************************************)
EXTENDS Mailbox, FiniteSetTheorems, SequenceTheorems, WellFoundedInduction, TLAPS

Kinds == {"read", "processed", "quarantined"}

\* Of two replacements of one message, one was set aside.
OneReplacement ==
  \A s, t \in Readable :
    rows[s].supersedes = rows[t].supersedes /\ rows[s].supersedes # None => s = t

\* A replacement is a later message of the same sender in the same box.
Replaces ==
  \A id \in DOMAIN rows :
    LET target == rows[id].supersedes
    IN target # None => /\ target \in DOMAIN rows
                        /\ rows[target].mailbox = rows[id].mailbox
                        /\ rows[target].sender = rows[id].sender
                        /\ rows[target].ordinal < rows[id].ordinal

\* Messages are numbered as they are filed.
Filed ==
  /\ IsFiniteSet(DOMAIN rows)
  /\ \A id \in DOMAIN rows : rows[id].ordinal \in 1..Cardinality(DOMAIN rows)

\* A message that was not filed has no account.
Unfiled == \A id \in Ids \ DOMAIN rows : events[id] = <<>>

Inv == TablesOK /\ OneReplacement /\ Replaces /\ Filed /\ Unfiled /\ AccountExplainsState

-----------------------------------------------------------------------------
(* What the account of a message holds.                                    *)

LEMMA GreatestOfInterval ==
  ASSUME NEW n \in Nat, n # 0
  PROVE  Max(1..n) = n
<1>1. n \in 1..n /\ \A k \in 1..n : n >= k
  OBVIOUS
<1>2. \A m \in 1..n : (\A k \in 1..n : m >= k) => m = n
  BY <1>1
<1>3. QED
  BY <1>1, <1>2 DEF Max

\* The next event of an account numbered from one is numbered in its turn.
LEMMA NextInTurn ==
  ASSUME NEW held \in Seq(Events), \A i \in 1..Len(held) : held[i].ordinal = i,
         NEW kind \in Kinds, NEW byBox \in Names, NEW prior \in {"new", "read"}
  PROVE  /\ NextEvent(held, kind, byBox, prior) \in Events
         /\ NextEvent(held, kind, byBox, prior).ordinal = Len(held) + 1
         /\ NextEvent(held, kind, byBox, prior).kind = kind
         /\ NextEvent(held, kind, byBox, prior).prior = prior
<1> DEFINE ordinals == {held[i].ordinal : i \in DOMAIN held}
           next     == IF ordinals = {} THEN 1 ELSE Max(ordinals) + 1
<1>1. Len(held) \in Nat /\ DOMAIN held = 1..Len(held)
  BY LenProperties
<1>2. ordinals = 1..Len(held)
  BY <1>1
<1>3. next = Len(held) + 1
  <2>1. CASE Len(held) = 0
    <3>1. ordinals = {}
      BY <1>2, <2>1
    <3>2. QED
      BY <2>1, <3>1
  <2>2. CASE Len(held) # 0
    <3>1. Len(held) \in 1..Len(held)
      BY <1>1, <2>2
    <3>2. Max(1..Len(held)) = Len(held)
      BY <1>1, <2>2, GreatestOfInterval
    <3> HIDE DEF ordinals
    <3>3. QED
      BY <1>2, <3>1, <3>2
  <2>3. QED
    BY <2>1, <2>2
<1>4. NextEvent(held, kind, byBox, prior) =
        [ordinal |-> next, kind |-> kind, byBox |-> byBox, prior |-> prior]
  BY DEF NextEvent
<1> HIDE DEF next, ordinals
<1>5. QED
  BY <1>1, <1>3, <1>4 DEF Events, Kinds

\* A message keeps its state and its account.
Stays(id) ==
  /\ rows'[id].state = rows[id].state
  /\ rows'[id].takenBy = rows[id].takenBy
  /\ events'[id] = events[id]

\* A message goes one state on, and an event of its account tells of it.
Goes(id) ==
  \E kind \in Kinds, by \in Names :
    /\ rows[id].state \in {"new", "read"}
    /\ kind = "read" => rows[id].state = "new"
    /\ rows'[id].state = kind
    /\ IF kind = "read" THEN rows'[id].takenBy \in Taken
       ELSE rows'[id].takenBy = rows[id].takenBy
    /\ events'[id] = Append(events[id], NextEvent(events[id], kind, by, rows[id].state))

\* What a filed message is of does not change.
SameMessage(id) ==
  /\ rows'[id].ordinal = rows[id].ordinal
  /\ rows'[id].sender = rows[id].sender
  /\ rows'[id].supersedes = rows[id].supersedes

\* No row is added, and the boxes of messages stay as they are.
Settled ==
  /\ rows' \in [DOMAIN rows -> Rows]
  /\ events' \in [Ids -> Seq(Events)]
  /\ \A id \in DOMAIN rows :
       (Stays(id) \/ Goes(id)) /\ SameMessage(id) /\ rows'[id].mailbox = rows[id].mailbox
  /\ \A id \in Ids \ DOMAIN rows : events'[id] = events[id]
  /\ boxes' = boxes

LEMMA RowFields ==
  ASSUME TablesOK, NEW id \in DOMAIN rows
  PROVE  /\ id \in Ids /\ rows[id] \in Rows /\ rows[id].mailbox \in DOMAIN boxes
         /\ rows[id].mailbox \in Names /\ rows[id].ordinal \in Nat /\ rows[id].sender \in Senders
         /\ rows[id].sentAt \in Instants /\ rows[id].state \in States
         /\ rows[id].supersedes \in Ids \cup {None} /\ rows[id].takenBy \in Taken \cup {None}
BY DEF TablesOK, Rows

\* One message goes on: the row is written, the event appended.
LEMMA RowGoes ==
  ASSUME TablesOK, AccountExplainsState, NEW id \in DOMAIN rows,
         rows[id].state \in {"new", "read"}, NEW kind \in Kinds, NEW by \in Names
  PROVE  /\ [rows[id] EXCEPT !.state = kind] \in Rows
         /\ \A taking \in Taken : [rows[id] EXCEPT !.state = kind, !.takenBy = taking] \in Rows
         /\ Append(events[id], NextEvent(events[id], kind, by, rows[id].state)) \in Seq(Events)
<1>1. events[id] \in Seq(Events)
  BY RowFields DEF TablesOK
<1>2. \A i \in 1..Len(events[id]) : events[id][i].ordinal = i
  BY DEF AccountExplainsState
<1>3. NextEvent(events[id], kind, by, rows[id].state) \in Events
  BY <1>1, <1>2, NextInTurn
<1>4. QED
  BY <1>1, <1>3, RowFields, AppendProperties DEF Rows, States, Kinds

LEMMA ReadMailboxSettles ==
  Inv => \A name \in Names, taking \in Taken : ReadMailbox(name, taking) => Settled
<1> SUFFICES ASSUME Inv, NEW name \in Names, NEW taking \in Taken, ReadMailbox(name, taking)
             PROVE  Settled
  OBVIOUS
<1>1. /\ TablesOK /\ AccountExplainsState /\ boxes' = boxes
      /\ rows' = [id \in DOMAIN rows |->
                    IF id \in Owed(name) THEN [rows[id] EXCEPT !.state = "read", !.takenBy = taking]
                    ELSE rows[id]]
      /\ events' = [id \in Ids |->
                      IF id \in Owed(name)
                      THEN Append(events[id], NextEvent(events[id], "read", name, "new"))
                      ELSE events[id]]
  BY DEF Inv, ReadMailbox
<1>2. \A id \in Owed(name) : id \in DOMAIN rows /\ id \in Ids /\ rows[id].state = "new"
  BY <1>1, RowFields DEF Owed, Readable
<1>3. ASSUME NEW id \in Owed(name)
      PROVE  /\ rows'[id] \in Rows /\ events'[id] \in Seq(Events)
             /\ Goes(id) /\ SameMessage(id) /\ rows'[id].mailbox = rows[id].mailbox
  <2>1. id \in DOMAIN rows /\ id \in Ids /\ rows[id].state = "new" /\ "read" \in Kinds
    BY <1>2, <1>3 DEF Kinds
  <2>2. /\ rows'[id] = [rows[id] EXCEPT !.state = "read", !.takenBy = taking]
        /\ events'[id] = Append(events[id], NextEvent(events[id], "read", name, "new"))
    BY <1>1, <1>3, <2>1
  <2>3. rows'[id] \in Rows /\ events'[id] \in Seq(Events)
    BY <1>1, <2>1, <2>2, RowGoes
  <2>4. /\ rows'[id].state = "read" /\ rows'[id].takenBy = taking
        /\ rows'[id].mailbox = rows[id].mailbox /\ SameMessage(id)
    BY <1>1, <2>1, <2>2, RowFields DEF Rows, SameMessage
  <2>5. QED
    BY <2>1, <2>2, <2>3, <2>4 DEF Goes
<1>4. ASSUME NEW id \in DOMAIN rows, id \notin Owed(name)
      PROVE  rows'[id] = rows[id] /\ events'[id] = events[id] /\ rows'[id] \in Rows
  BY <1>1, <1>4, RowFields
<1>5. rows' \in [DOMAIN rows -> Rows]
  BY <1>1, <1>3, <1>4
<1>6. events' \in [Ids -> Seq(Events)]
  BY <1>1, <1>3 DEF TablesOK
<1>7. QED
  BY <1>1, <1>2, <1>3, <1>4, <1>5, <1>6 DEF Settled, Stays, SameMessage

\* A step that writes the row of one message and appends to its account.
LEMMA OneSettles ==
  ASSUME Inv, NEW id \in DOMAIN rows, rows[id].state \in {"new", "read"},
         NEW kind \in Kinds, NEW by \in Names, kind = "read" => rows[id].state = "new",
         NEW taking, kind = "read" => taking \in Taken,
         kind # "read" => taking = rows[id].takenBy,
         rows' = [rows EXCEPT ![id] = [rows[id] EXCEPT !.state = kind, !.takenBy = taking]],
         events' = [events EXCEPT ![id] =
                      Append(events[id], NextEvent(events[id], kind, by, rows[id].state))],
         boxes' = boxes
  PROVE  Settled
<1> DEFINE row == [rows[id] EXCEPT !.state = kind, !.takenBy = taking]
<1>1. TablesOK /\ AccountExplainsState
  BY DEF Inv
<1>2. id \in Ids /\ rows[id] \in Rows /\ rows[id].takenBy \in Taken \cup {None}
  BY <1>1, RowFields
<1>3. /\ row \in Rows /\ row.state = kind /\ row.mailbox = rows[id].mailbox
      /\ row.ordinal = rows[id].ordinal /\ row.sender = rows[id].sender
      /\ row.supersedes = rows[id].supersedes
      /\ row.takenBy = taking
  BY <1>2 DEF Rows, Kinds, States
<1> HIDE DEF row
<1>4. Append(events[id], NextEvent(events[id], kind, by, rows[id].state)) \in Seq(Events)
  BY <1>1, RowGoes
<1>5. rows'[id] = row /\ DOMAIN rows' = DOMAIN rows
      /\ \A other \in DOMAIN rows \ {id} : rows'[other] = rows[other]
  BY DEF row
<1>6. events' \in [Ids -> Seq(Events)]
  BY <1>1, <1>2, <1>4 DEF TablesOK
<1>7. /\ events'[id] = Append(events[id], NextEvent(events[id], kind, by, rows[id].state))
      /\ \A other \in Ids \ {id} : events'[other] = events[other]
  BY <1>1, <1>2 DEF TablesOK
<1>8. rows' \in [DOMAIN rows -> Rows]
  <2>1. rows' = [rows EXCEPT ![id] = row]
    BY DEF row
  <2>2. QED
    BY <1>1, <1>3, <2>1 DEF TablesOK
<1>9. Goes(id) /\ SameMessage(id) /\ rows'[id].mailbox = rows[id].mailbox
  BY <1>3, <1>5, <1>7 DEF Goes, SameMessage
<1>10. ASSUME NEW other \in DOMAIN rows \ {id}
       PROVE  Stays(other) /\ SameMessage(other) /\ rows'[other].mailbox = rows[other].mailbox
  BY <1>1, <1>5, <1>7, RowFields DEF Stays, SameMessage
<1>11. QED
  BY <1>2, <1>6, <1>7, <1>8, <1>9, <1>10 DEF Settled

LEMMA UntouchedSettles ==
  TablesOK /\ UNCHANGED <<boxes, rows, events>> => Settled
BY DEF TablesOK, Settled, Stays, SameMessage

LEMMA ReadMessageSettles ==
  Inv => \A id \in DOMAIN rows : ReadMessage(id) => Settled
<1> SUFFICES ASSUME Inv, NEW id \in DOMAIN rows, ReadMessage(id) PROVE Settled
  OBVIOUS
<1>1. TablesOK /\ rows[id] \in Rows /\ rows[id].mailbox \in Names
  BY RowFields DEF Inv
<1>2. CASE rows[id].state = "new"
  <2>1. /\ rows' = [rows EXCEPT ![id].state = "read", ![id].takenBy = "reading"]
        /\ events' = [events EXCEPT ![id] =
                         Append(@, NextEvent(@, "read", rows[id].mailbox, "new"))]
        /\ boxes' = boxes
    BY <1>2 DEF ReadMessage
  <2>2. rows' = [rows EXCEPT ![id] = [rows[id] EXCEPT !.state = "read", !.takenBy = "reading"]]
    BY <1>1, <2>1 DEF TablesOK
  <2>3. "read" \in Kinds /\ "reading" \in Taken
    BY DEF Kinds, Taken
  <2>4. events' = [events EXCEPT ![id] =
                     Append(events[id], NextEvent(events[id], "read", rows[id].mailbox, rows[id].state))]
    BY <1>2, <2>1
  <2>5. boxes' = boxes /\ rows[id].state \in {"new", "read"}
    BY <1>2, <2>1
  <2> DEFINE kind == "read"
             taking == "reading"
             by == rows[id].mailbox
  <2>6. /\ kind \in Kinds /\ (kind = "read" => rows[id].state = "new") /\ by \in Names
        /\ (kind = "read" => taking \in Taken) /\ (kind # "read" => taking = rows[id].takenBy)
        /\ rows' = [rows EXCEPT ![id] = [rows[id] EXCEPT !.state = kind, !.takenBy = taking]]
        /\ events' = [events EXCEPT ![id] =
                         Append(events[id], NextEvent(events[id], kind, by, rows[id].state))]
    BY <1>1, <1>2, <2>2, <2>3, <2>4
  <2> HIDE DEF kind, taking, by
  <2>7. QED
    BY <2>5, <2>6, OneSettles
<1>3. CASE rows[id].state # "new"
  BY <1>1, <1>3, UntouchedSettles DEF ReadMessage
<1>4. QED
  BY <1>2, <1>3

\* A message is closed or set aside: its taking stays.
LEMMA ClosingSettles ==
  ASSUME Inv, NEW id \in DOMAIN rows, rows[id].state \in {"new", "read"},
         NEW kind \in {"processed", "quarantined"}, NEW by \in Names,
         rows' = [rows EXCEPT ![id].state = kind],
         events' = [events EXCEPT ![id] =
                      Append(events[id], NextEvent(events[id], kind, by, rows[id].state))],
         boxes' = boxes
  PROVE  Settled
<1> DEFINE taking == rows[id].takenBy
<1>1. rows[id] \in Rows
  BY RowFields DEF Inv
<1>2. [rows[id] EXCEPT !.state = kind] = [rows[id] EXCEPT !.state = kind, !.takenBy = taking]
  BY <1>1 DEF Rows
<1>3. rows' = [rows EXCEPT ![id] = [rows[id] EXCEPT !.state = kind, !.takenBy = taking]]
  <2>1. rows' = [rows EXCEPT ![id] = [rows[id] EXCEPT !.state = kind]]
    OBVIOUS
  <2>2. QED
    BY <1>2, <2>1
<1>4. kind \in Kinds /\ kind # "read"
  BY DEF Kinds
<1>5. taking = rows[id].takenBy
  OBVIOUS
<1> HIDE DEF taking
<1>6. QED
  BY <1>3, <1>4, <1>5, OneSettles

LEMMA MarkSettles ==
  Inv => \A id \in DOMAIN rows, by \in Names : MarkProcessed(id, by) => Settled
<1> SUFFICES ASSUME Inv, NEW id \in DOMAIN rows, NEW by \in Names, MarkProcessed(id, by)
             PROVE  Settled
  OBVIOUS
<1>1. TablesOK /\ rows[id].state \in States /\ rows[id].state # "quarantined"
  BY RowFields DEF Inv, MarkProcessed, Readable
<1>2. CASE rows[id].state = "processed"
  BY <1>1, <1>2, UntouchedSettles DEF MarkProcessed
<1>3. CASE rows[id].state # "processed"
  <2>1. rows[id].state \in {"new", "read"}
    BY <1>1, <1>3 DEF States
  <2>2. /\ rows' = [rows EXCEPT ![id].state = "processed"]
        /\ events' = [events EXCEPT ![id] =
                         Append(events[id], NextEvent(events[id], "processed", by, rows[id].state))]
        /\ boxes' = boxes
    BY <1>3 DEF MarkProcessed
  <2>3. QED
    BY <2>1, <2>2, ClosingSettles
<1>4. QED
  BY <1>2, <1>3

LEMMA QuarantineSettles ==
  Inv => \A id \in DOMAIN rows, by \in Names : Quarantine(id, by) => Settled
<1> SUFFICES ASSUME Inv, NEW id \in DOMAIN rows, NEW by \in Names, Quarantine(id, by)
             PROVE  Settled
  OBVIOUS
<1>1. rows[id].state \in {"new", "read"}
  BY RowFields DEF Inv, Quarantine, Readable, States
<1>2. /\ rows' = [rows EXCEPT ![id].state = "quarantined"]
      /\ events' = [events EXCEPT ![id] =
                       Append(events[id], NextEvent(events[id], "quarantined", by, rows[id].state))]
      /\ boxes' = boxes
  BY DEF Quarantine
<1>3. QED
  BY <1>1, <1>2, ClosingSettles

\* A message is filed: it is the only new row, and the others stand.
Files ==
  \E id \in Ids \ DOMAIN rows, name \in DOMAIN boxes, sender \in Senders, at \in Instants :
    \E target \in DOMAIN rows \cup {None} :
      /\ target # None => /\ target \in Readable
                          /\ rows[target].sender = sender
                          /\ rows[target].mailbox = name
                          /\ SupersededBy(target) = None
      /\ rows' \in [DOMAIN rows \cup {id} -> Rows]
      /\ rows'[id] = NewRow(name, sender, at, target)
      /\ \A old \in DOMAIN rows : rows'[old] = rows[old]
      /\ UNCHANGED <<boxes, events>>

\* A box is renamed with its messages, or takes its name from nobody.
Renames ==
  \E old \in DOMAIN boxes, new \in Names :
    /\ new = old \/ new \notin DOMAIN boxes
    /\ DOMAIN boxes' = (DOMAIN boxes \ {old}) \cup {new}
    /\ \A name \in DOMAIN boxes' : boxes'[name] \in Owners
    /\ boxes' \in [DOMAIN boxes' -> Owners]
    /\ rows' = [id \in DOMAIN rows |->
                  IF rows[id].mailbox = old THEN [rows[id] EXCEPT !.mailbox = new]
                  ELSE rows[id]]
    /\ events' = events

\* A box is made.
Makes ==
  /\ DOMAIN boxes \subseteq DOMAIN boxes' /\ DOMAIN boxes' \subseteq Names
  /\ boxes' \in [DOMAIN boxes' -> Owners]
  /\ UNCHANGED <<rows, events>>

\* What any step does to the tables.
LEMMA TablesMove == Inv /\ [Next]_mailVars => Settled \/ Files \/ Renames \/ Makes
<1> SUFFICES ASSUME Inv, [Next]_mailVars PROVE Settled \/ Files \/ Renames \/ Makes
  OBVIOUS
<1>0. TablesOK
  BY DEF Inv
<1>1. ASSUME NEW name \in Names, NEW owner \in Owners, CreateMailbox(name, owner)
      PROVE  Makes
  <2>1. /\ name \notin DOMAIN boxes /\ UNCHANGED <<rows, events>>
        /\ boxes' = [n \in DOMAIN boxes \cup {name} |-> IF n = name THEN owner ELSE boxes[n]]
    BY <1>1 DEF CreateMailbox
  <2>2. boxes' \in [DOMAIN boxes \cup {name} -> Owners]
    BY <1>0, <2>1 DEF TablesOK
  <2>3. QED
    BY <1>0, <2>1, <2>2 DEF Makes, TablesOK
<1>2. ASSUME NEW from \in Owners, NEW to \in Owners, RepointOwner(from, to)
      PROVE  Renames
  <2> DEFINE held == {name \in DOMAIN boxes : boxes[name] = from}
             new  == NamedFor[to]
  <2>1. Cardinality(held) = 1 /\ events' = events
    BY <1>2 DEF RepointOwner
  <2>2. held # {}
    BY <2>1, FS_EmptySet
  <2>3. PICK old \in held : TRUE
    BY <2>2
  <2>4. /\ new = old \/ new \notin DOMAIN boxes
        /\ boxes' = [name \in (DOMAIN boxes \ {old}) \cup {new} |->
                       IF name = new THEN to ELSE boxes[name]]
        /\ rows' = [id \in DOMAIN rows |->
                      IF rows[id].mailbox = old THEN [rows[id] EXCEPT !.mailbox = new]
                      ELSE rows[id]]
    BY <1>2, <2>3 DEF RepointOwner
  <2>5. new \in Names /\ old \in DOMAIN boxes
    BY <2>3, NamedForAssumption
  <2>6. boxes' \in [(DOMAIN boxes \ {old}) \cup {new} -> Owners]
    BY <1>0, <2>4 DEF TablesOK
  <2> HIDE DEF new, held
  <2>7. DOMAIN boxes' = (DOMAIN boxes \ {old}) \cup {new}
    BY <2>6
  <2>8. QED
    BY <2>1, <2>4, <2>5, <2>6, <2>7 DEF Renames
<1>3. ASSUME NEW id \in Ids, NEW name \in Names, NEW sender \in Senders, NEW at \in Instants,
             NEW target \in DOMAIN rows \cup {None}, PostMessage(id, name, sender, at, target)
      PROVE  Files
  <2>1. rows' = [m \in DOMAIN rows \cup {id} |->
                   IF m = id THEN NewRow(name, sender, at, target) ELSE rows[m]]
    BY <1>3 DEF PostMessage
  <2>2. /\ id \notin DOMAIN rows /\ name \in DOMAIN boxes /\ UNCHANGED <<boxes, events>>
        /\ target # None => /\ target \in Readable
                            /\ rows[target].sender = sender
                            /\ rows[target].mailbox = name
                            /\ SupersededBy(target) = None
    BY <1>3 DEF PostMessage
  <2>3. /\ rows'[id] = NewRow(name, sender, at, target)
        /\ \A old \in DOMAIN rows : rows'[old] = rows[old]
    BY <2>1, <2>2
  <2>4. NewRow(name, sender, at, target) \in Rows
    <3>1. Cardinality(DOMAIN rows) + 1 \in Nat /\ name \in Names /\ target \in Ids \cup {None}
      BY <1>0, <2>2, FS_CardinalityType DEF Inv, Filed, TablesOK
    <3>2. QED
      BY <3>1 DEF NewRow, Rows, States
  <2>5. rows' \in [DOMAIN rows \cup {id} -> Rows]
    BY <1>0, <2>1, <2>4, RowFields
  <2>6. QED
    BY <2>2, <2>3, <2>5 DEF Files
<1>4. CASE Rebuild \/ UNCHANGED mailVars
  BY <1>0, <1>4, UntouchedSettles DEF Rebuild, mailVars
<1>5. QED
  BY <1>1, <1>2, <1>3, <1>4, ReadMailboxSettles, ReadMessageSettles, MarkSettles, QuarantineSettles
  DEF Next

-----------------------------------------------------------------------------
(* The tables, step by step.                                               *)

\* A message is replaced exactly when a readable message replaces it.
LEMMA Replacement ==
  ASSUME TablesOK, OneReplacement, NEW id \in Ids
  PROVE  (SupersededBy(id) = None) <=> (\A s \in Readable : rows[s].supersedes # id)
<1> DEFINE by == {s \in DOMAIN rows : rows[s].supersedes = id /\ rows[s].state # "quarantined"}
<1>1. by = {s \in Readable : rows[s].supersedes = id}
  BY DEF Readable
<1>2. CASE by = {}
  BY <1>1, <1>2 DEF SupersededBy
<1>3. ASSUME NEW s \in by PROVE SupersededBy(id) # None
  <2>1. id # None /\ s \in Ids /\ s # None /\ rows[s].ordinal \in Nat
    BY <1>1, RowFields, NoneAssumption DEF Readable
  <2>2. \A t \in by : t = s
    BY <1>1, <2>1 DEF OneReplacement
  <2>3. SupersededBy(id) = CHOOSE t \in by : \A u \in by : rows[u].ordinal <= rows[t].ordinal
    BY <1>3 DEF SupersededBy
  <2>4. s \in by /\ \A u \in by : rows[u].ordinal <= rows[s].ordinal
    BY <2>1, <2>2
  <2> HIDE DEF by
  <2>5. SupersededBy(id) \in by
    BY <2>3, <2>4
  <2>6. QED
    BY <2>1, <2>2, <2>5
<1>4. QED
  BY <1>1, <1>2, <1>3

LEMMA SettledKeepsTables ==
  Inv /\ Settled => TablesOK' /\ OneReplacement' /\ Replaces' /\ Filed' /\ Unfiled'
<1> SUFFICES ASSUME Inv, Settled
             PROVE  TablesOK' /\ OneReplacement' /\ Replaces' /\ Filed' /\ Unfiled'
  OBVIOUS
<1>1. DOMAIN rows' = DOMAIN rows /\ DOMAIN rows \subseteq Ids /\ boxes' = boxes
  BY DEF Inv, TablesOK, Settled
<1>2. \A id \in DOMAIN rows : SameMessage(id) /\ rows'[id].mailbox = rows[id].mailbox
  BY DEF Settled
<1>3. TablesOK'
  <2>1. \A id \in DOMAIN rows' : rows'[id].mailbox \in DOMAIN boxes'
    BY <1>1, <1>2, RowFields DEF Inv
  <2>2. /\ rows' \in [DOMAIN rows' -> Rows] /\ events' \in [Ids -> Seq(Events)]
        /\ DOMAIN boxes' \subseteq Names /\ boxes' \in [DOMAIN boxes' -> Owners]
    BY <1>1 DEF Inv, TablesOK, Settled
  <2>3. QED
    BY <1>1, <2>1, <2>2 DEF TablesOK
<1>4. \A id \in DOMAIN rows : rows[id].state = "quarantined" => rows'[id].state = "quarantined"
  BY DEF Settled, Stays, Goes
<1>5. OneReplacement'
  BY <1>1, <1>2, <1>4 DEF Inv, OneReplacement, Readable, SameMessage
<1>6. Replaces'
  <2> SUFFICES ASSUME NEW id \in DOMAIN rows, rows[id].supersedes # None
               PROVE  /\ rows[id].supersedes \in DOMAIN rows
                      /\ rows'[rows[id].supersedes].mailbox = rows'[id].mailbox
                      /\ rows'[rows[id].supersedes].sender = rows'[id].sender
                      /\ rows'[rows[id].supersedes].ordinal < rows'[id].ordinal
    BY <1>1, <1>2 DEF Replaces, SameMessage
  <2>1. /\ rows[id].supersedes \in DOMAIN rows
        /\ rows[rows[id].supersedes].mailbox = rows[id].mailbox
        /\ rows[rows[id].supersedes].sender = rows[id].sender
        /\ rows[rows[id].supersedes].ordinal < rows[id].ordinal
    BY DEF Inv, Replaces
  <2>2. QED
    BY <1>2, <2>1 DEF SameMessage
<1>7. Filed'
  BY <1>1, <1>2 DEF Inv, Filed, SameMessage
<1>8. Unfiled'
  BY <1>1 DEF Inv, Unfiled, Settled
<1>9. QED
  BY <1>3, <1>5, <1>6, <1>7, <1>8

\* The account of one message explains its state.
Explained(id) ==
  LET held == events[id]
      left(i) == IF i = 0 THEN "new" ELSE held[i].kind
  IN /\ \A i \in 1..Len(held) : held[i].ordinal = i /\ held[i].prior = left(i - 1)
     /\ rows[id].state = left(Len(held))
     /\ (rows[id].takenBy # None) <=> \E i \in 1..Len(held) : held[i].kind = "read"

\* A message that nobody moved was not taken.
LEMMA NewIsUntaken ==
  ASSUME TablesOK, AccountExplainsState, NEW id \in DOMAIN rows, rows[id].state = "new"
  PROVE  rows[id].takenBy = None /\ events[id] = <<>>
<1>1. events[id] \in Seq(Events)
  BY RowFields DEF TablesOK
<1>2. Len(events[id]) \in Nat /\ \A i \in 1..Len(events[id]) : events[id][i] \in Events
  BY <1>1, LenProperties, ElementOfSeq
<1>3. rows[id].state = IF Len(events[id]) = 0 THEN "new" ELSE events[id][Len(events[id])].kind
  BY DEF AccountExplainsState
<1>4. Len(events[id]) = 0
  BY <1>2, <1>3 DEF Events
<1>5. QED
  BY <1>1, <1>4, EmptySeq DEF AccountExplainsState

LEMMA GoesExplained ==
  ASSUME TablesOK, AccountExplainsState, NEW id \in DOMAIN rows, Goes(id)
  PROVE  Explained(id)'
<1>1. PICK kind \in Kinds, by \in Names :
        /\ rows[id].state \in {"new", "read"}
        /\ kind = "read" => rows[id].state = "new"
        /\ rows'[id].state = kind
        /\ IF kind = "read" THEN rows'[id].takenBy \in Taken
           ELSE rows'[id].takenBy = rows[id].takenBy
        /\ events'[id] = Append(events[id], NextEvent(events[id], kind, by, rows[id].state))
  BY DEF Goes
<1> DEFINE held == events[id]
           n    == Len(held)
           e    == NextEvent(held, kind, by, rows[id].state)
           left(i) == IF i = 0 THEN "new" ELSE held[i].kind
           next == events'[id]
<1>2. held \in Seq(Events) /\ n \in Nat
  BY RowFields, LenProperties DEF TablesOK
<1>3. /\ \A i \in 1..n : held[i].ordinal = i /\ held[i].prior = left(i - 1)
      /\ rows[id].state = left(n)
      /\ (rows[id].takenBy # None) <=> \E i \in 1..n : held[i].kind = "read"
  BY DEF AccountExplainsState
<1>4. e \in Events /\ e.ordinal = n + 1 /\ e.kind = kind /\ e.prior = rows[id].state
  <2>1. \A i \in 1..Len(held) : held[i].ordinal = i
    BY <1>3
  <2>2. rows[id].state \in {"new", "read"} /\ kind \in Kinds /\ by \in Names
    BY <1>1
  <2> HIDE DEF held, n, left
  <2>3. QED
    BY <1>2, <2>1, <2>2, NextInTurn DEF n
<1>5. next = Append(held, e)
  BY <1>1
<1> HIDE DEF e, next
<1>6. Len(next) = n + 1 /\ next[n + 1] = e /\ \A i \in 1..n : next[i] = held[i]
  BY <1>2, <1>4, <1>5, AppendProperties
<1>7. \A i \in 1..(n + 1) : i \in 1..n \/ i = n + 1
  BY <1>2
<1> DEFINE left2(i) == IF i = 0 THEN "new" ELSE next[i].kind
<1>8. \A i \in 0..n : left2(i) = left(i)
  BY <1>2, <1>6
<1>9. \A i \in 1..(n + 1) : next[i].ordinal = i /\ next[i].prior = left2(i - 1)
  <2>1. ASSUME NEW i \in 1..n PROVE next[i].ordinal = i /\ next[i].prior = left2(i - 1)
    <3>1. i - 1 \in 0..n
      BY <1>2
    <3>2. QED
      BY <1>3, <1>6, <1>8, <3>1
  <2>2. next[n + 1].ordinal = n + 1 /\ next[n + 1].prior = left2(n)
    <3>1. n \in 0..n
      BY <1>2
    <3> HIDE DEF n
    <3>2. QED
      BY <1>3, <1>4, <1>6, <1>8, <3>1
  <2>3. n = (n + 1) - 1
    BY <1>2
  <2> HIDE DEF n, left2
  <2>4. QED
    BY <1>7, <2>1, <2>2, <2>3
<1>10. rows'[id].state = left2(n + 1)
  BY <1>1, <1>2, <1>4, <1>6
<1>11. (rows'[id].takenBy # None) <=> \E i \in 1..(n + 1) : next[i].kind = "read"
  <2>1. (\E i \in 1..(n + 1) : next[i].kind = "read") <=>
          ((\E i \in 1..n : held[i].kind = "read") \/ kind = "read")
    <3>1. n + 1 \in 1..(n + 1) /\ \A i \in 1..n : i \in 1..(n + 1)
      BY <1>2
    <3> HIDE DEF n
    <3>2. QED
      BY <1>4, <1>6, <1>7, <3>1
  <2>2. \A taking \in Taken : taking # None
    BY NoneAssumption
  <2> HIDE DEF n, held
  <2>3. QED
    BY <1>1, <1>3, <2>1, <2>2
<1> HIDE DEF n, held
<1>12. QED
  BY <1>6, <1>9, <1>10, <1>11 DEF Explained, next

LEMMA SettledExplains == Inv /\ Settled => AccountExplainsState'
<1> SUFFICES ASSUME Inv, Settled PROVE AccountExplainsState'
  OBVIOUS
<1>1. ASSUME NEW id \in DOMAIN rows PROVE Explained(id)'
  <2>1. CASE Goes(id)
    BY <2>1, GoesExplained DEF Inv
  <2>2. CASE Stays(id)
    <3>1. Explained(id)
      BY DEF Inv, AccountExplainsState, Explained
    <3>2. QED
      BY <2>2, <3>1 DEF Stays, Explained
  <2>3. QED
    BY <2>1, <2>2 DEF Settled
<1>2. DOMAIN rows' = DOMAIN rows
  BY DEF Settled
<1>3. QED
  BY <1>1, <1>2 DEF AccountExplainsState, Explained
LEMMA FilesKeeps == Inv /\ Files => Inv'
<1> SUFFICES ASSUME Inv, Files PROVE Inv'
  OBVIOUS
<1>1. PICK id \in Ids \ DOMAIN rows, name \in DOMAIN boxes, sender \in Senders, at \in Instants,
           target \in DOMAIN rows \cup {None} :
        /\ target # None => /\ target \in Readable
                            /\ rows[target].sender = sender
                            /\ rows[target].mailbox = name
                            /\ SupersededBy(target) = None
        /\ rows' \in [DOMAIN rows \cup {id} -> Rows]
        /\ rows'[id] = NewRow(name, sender, at, target)
        /\ \A old \in DOMAIN rows : rows'[old] = rows[old]
        /\ UNCHANGED <<boxes, events>>
  BY DEF Files
<1> DEFINE n == Cardinality(DOMAIN rows)
<1>2. TablesOK /\ DOMAIN rows \subseteq Ids /\ IsFiniteSet(DOMAIN rows) /\ n \in Nat
  BY FS_CardinalityType DEF Inv, TablesOK, Filed
<1>3. /\ rows'[id].mailbox = name /\ rows'[id].ordinal = n + 1 /\ rows'[id].sender = sender
      /\ rows'[id].state = "new" /\ rows'[id].supersedes = target /\ rows'[id].takenBy = None
  BY <1>1 DEF NewRow
<1>4. DOMAIN rows' = DOMAIN rows \cup {id} /\ id \notin DOMAIN rows /\ id \in Ids
  BY <1>1
<1>5. \A old \in DOMAIN rows : rows[old].ordinal \in 1..n
  BY DEF Inv, Filed
<1> HIDE DEF n
<1>6. TablesOK'
  <2>1. \A m \in DOMAIN rows' : rows'[m].mailbox \in DOMAIN boxes'
    BY <1>1, <1>2, <1>3, <1>4, RowFields
  <2>2. QED
    BY <1>1, <1>2, <1>4, <2>1 DEF TablesOK
<1>7. OneReplacement'
  <2>1. Readable' = Readable \cup {id}
    BY <1>1, <1>3, <1>4 DEF Readable
  <2>2. target # None => \A s \in Readable : rows[s].supersedes # target
    BY <1>1, <1>2, Replacement DEF Inv
  <2>3. \A s \in Readable : s \in DOMAIN rows
    BY DEF Readable
  <2>4. QED
    BY <1>1, <1>3, <2>1, <2>2, <2>3 DEF Inv, OneReplacement
<1>8. Replaces'
  <2>1. ASSUME NEW m \in DOMAIN rows, rows[m].supersedes # None
        PROVE  LET t == rows[m].supersedes
               IN /\ t \in DOMAIN rows'
                  /\ rows'[t].mailbox = rows'[m].mailbox
                  /\ rows'[t].sender = rows'[m].sender
                  /\ rows'[t].ordinal < rows'[m].ordinal
    BY <1>1, <1>4, <2>1 DEF Inv, Replaces
  <2>2. ASSUME target # None
        PROVE  /\ target \in DOMAIN rows'
               /\ rows'[target].mailbox = rows'[id].mailbox
               /\ rows'[target].sender = rows'[id].sender
               /\ rows'[target].ordinal < rows'[id].ordinal
    <3>1. target \in DOMAIN rows /\ rows[target].ordinal \in 1..n
      BY <1>1, <1>5, <2>2 DEF Readable
    <3>2. QED
      BY <1>1, <1>2, <1>3, <1>4, <2>2, <3>1
  <2>3. QED
    BY <1>1, <1>3, <1>4, <2>1, <2>2 DEF Replaces
<1>9. Filed'
  <2>1. IsFiniteSet(DOMAIN rows') /\ Cardinality(DOMAIN rows') = n + 1
    BY <1>2, <1>4, FS_AddElement DEF n
  <2>2. \A m \in DOMAIN rows' : rows'[m].ordinal \in 1..(n + 1)
    BY <1>1, <1>2, <1>3, <1>4, <1>5
  <2>3. QED
    BY <2>1, <2>2 DEF Filed
<1>10. Unfiled'
  BY <1>1, <1>4 DEF Inv, Unfiled
<1>11. AccountExplainsState'
  <2>1. ASSUME NEW old \in DOMAIN rows PROVE Explained(old)'
    <3>1. Explained(old)
      BY DEF Inv, AccountExplainsState, Explained
    <3>2. QED
      BY <1>1, <3>1 DEF Explained
  <2>2. Explained(id)'
    <3>1. events'[id] = <<>> /\ Len(<<>>) = 0
      BY <1>1 DEF Inv, Unfiled
    <3>2. QED
      BY <1>3, <3>1 DEF Explained
  <2>3. QED
    BY <1>4, <2>1, <2>2 DEF AccountExplainsState, Explained
<1>12. QED
  BY <1>6, <1>7, <1>8, <1>9, <1>10, <1>11 DEF Inv

\* What a row is, its box apart, when the boxes are renamed.
LEMMA RenamesKeeps == Inv /\ Renames => Inv'
<1> SUFFICES ASSUME Inv, Renames PROVE Inv'
  OBVIOUS
<1>1. PICK old \in DOMAIN boxes, new \in Names :
        /\ new = old \/ new \notin DOMAIN boxes
        /\ DOMAIN boxes' = (DOMAIN boxes \ {old}) \cup {new}
        /\ boxes' \in [DOMAIN boxes' -> Owners]
        /\ rows' = [id \in DOMAIN rows |->
                      IF rows[id].mailbox = old THEN [rows[id] EXCEPT !.mailbox = new]
                      ELSE rows[id]]
        /\ events' = events
  BY DEF Renames
<1>2. TablesOK /\ DOMAIN rows' = DOMAIN rows
  BY <1>1 DEF Inv
<1>3. ASSUME NEW id \in DOMAIN rows
      PROVE  /\ rows'[id] \in Rows
             /\ rows'[id].mailbox = IF rows[id].mailbox = old THEN new ELSE rows[id].mailbox
             /\ rows'[id].mailbox \in DOMAIN boxes'
             /\ SameMessage(id) /\ Stays(id)
  <2>1. rows[id] \in Rows /\ rows[id].mailbox \in DOMAIN boxes
    BY <1>2, RowFields
  <2>2. rows'[id] = IF rows[id].mailbox = old THEN [rows[id] EXCEPT !.mailbox = new] ELSE rows[id]
    BY <1>1
  <2>3. QED
    BY <1>1, <2>1, <2>2 DEF Rows, SameMessage, Stays
<1>4. TablesOK'
  <2>1. DOMAIN boxes' \subseteq Names /\ events' \in [Ids -> Seq(Events)] /\ DOMAIN rows' \subseteq Ids
    BY <1>1, <1>2 DEF TablesOK
  <2>2. rows' \in [DOMAIN rows' -> Rows]
    BY <1>1, <1>2, <1>3
  <2>3. QED
    BY <1>1, <1>2, <1>3, <2>1, <2>2 DEF TablesOK
<1>5. OneReplacement'
  BY <1>2, <1>3 DEF Inv, OneReplacement, Readable, SameMessage, Stays
<1>6. Replaces'
  <2> SUFFICES ASSUME NEW id \in DOMAIN rows, rows[id].supersedes # None
               PROVE  /\ rows[id].supersedes \in DOMAIN rows
                      /\ rows'[rows[id].supersedes].mailbox = rows'[id].mailbox
                      /\ rows'[rows[id].supersedes].sender = rows'[id].sender
                      /\ rows'[rows[id].supersedes].ordinal < rows'[id].ordinal
    BY <1>2, <1>3 DEF Replaces, SameMessage
  <2>1. /\ rows[id].supersedes \in DOMAIN rows
        /\ rows[rows[id].supersedes].mailbox = rows[id].mailbox
        /\ rows[rows[id].supersedes].sender = rows[id].sender
        /\ rows[rows[id].supersedes].ordinal < rows[id].ordinal
    BY DEF Inv, Replaces
  <2>2. QED
    BY <1>3, <2>1 DEF SameMessage
<1>7. Filed'
  BY <1>2, <1>3 DEF Inv, Filed, SameMessage
<1>8. Unfiled'
  BY <1>1, <1>2 DEF Inv, Unfiled
<1>9. AccountExplainsState'
  <2>1. ASSUME NEW id \in DOMAIN rows PROVE Explained(id)'
    <3>1. Explained(id) /\ Stays(id)
      BY <1>3 DEF Inv, AccountExplainsState, Explained
    <3>2. QED
      BY <3>1 DEF Explained, Stays
  <2>2. QED
    BY <1>2, <2>1 DEF AccountExplainsState, Explained
<1>10. QED
  BY <1>4, <1>5, <1>6, <1>7, <1>8, <1>9 DEF Inv

LEMMA MakesKeeps == Inv /\ Makes => Inv'
<1> SUFFICES ASSUME Inv, Makes PROVE Inv'
  OBVIOUS
<1>1. rows' = rows /\ events' = events /\ DOMAIN boxes \subseteq DOMAIN boxes'
  BY DEF Makes
<1>2. TablesOK'
  BY DEF Inv, Makes, TablesOK
<1>3. OneReplacement' /\ Replaces' /\ Filed' /\ Unfiled'
  BY <1>1 DEF Inv, OneReplacement, Readable, Replaces, Filed, Unfiled
<1>4. AccountExplainsState'
  BY <1>1 DEF Inv, AccountExplainsState
<1>5. QED
  BY <1>2, <1>3, <1>4 DEF Inv

LEMMA InitHolds == Init => Inv
<1> SUFFICES ASSUME Init PROVE Inv
  OBVIOUS
<1>1. boxes = <<>> /\ rows = <<>> /\ events = [id \in Ids |-> <<>>]
  BY DEF Init
<1>2. DOMAIN boxes = {} /\ DOMAIN rows = {}
  BY <1>1
<1>3. TablesOK
  BY <1>1, <1>2 DEF TablesOK
<1>4. OneReplacement /\ Replaces /\ AccountExplainsState
  BY <1>2 DEF OneReplacement, Readable, Replaces, AccountExplainsState
<1>5. Filed
  BY <1>2, FS_EmptySet DEF Filed
<1>6. Unfiled
  BY <1>1 DEF Unfiled
<1>7. QED
  BY <1>3, <1>4, <1>5, <1>6 DEF Inv

\* Every step of the mailboxes keeps Inv.
THEOREM Invariance == Spec => []Inv
<1>1. Inv /\ [Next]_mailVars => Inv'
  BY TablesMove, SettledKeepsTables, SettledExplains, FilesKeeps, RenamesKeeps, MakesKeeps DEF Inv
<1>2. QED
  BY <1>1, InitHolds, PTL DEF Spec

-----------------------------------------------------------------------------
(* The properties.                                                         *)

\* Some message of a finite set that is numbered was filed last.
LEMMA FiledLast ==
  ASSUME Filed, NEW some \in SUBSET DOMAIN rows, some # {}
  PROVE  \E s \in some : \A t \in some : rows[t].ordinal <= rows[s].ordinal
<1> DEFINE n    == Cardinality(DOMAIN rows)
           left == {n - rows[s].ordinal : s \in some}
<1>1. n \in Nat /\ \A s \in some : rows[s].ordinal \in 1..n
  BY FS_CardinalityType DEF Filed
<1> HIDE DEF n
<1>2. left \subseteq Nat /\ left # {}
  BY <1>1
<1> HIDE DEF left
<1>3. PICK k \in left : \A j \in left : ~ (<<j, k>> \in OpToRel(<, Nat))
  BY <1>2, WFMin, NatLessThanWellFounded
<1>4. \A j \in left : ~ (j < k)
  BY <1>2, <1>3 DEF OpToRel
<1>5. PICK s \in some : k = n - rows[s].ordinal
  BY <1>3 DEF left
<1>6. ASSUME NEW t \in some PROVE rows[t].ordinal <= rows[s].ordinal
  <2>1. n - rows[t].ordinal \in left
    BY DEF left
  <2>2. QED
    BY <1>1, <1>4, <1>5, <2>1
<1>7. QED
  BY <1>6

LEMMA WithheldExplained == Inv => WithheldIsSpokenFor
<1> SUFFICES ASSUME Inv, NEW id \in DOMAIN rows
             PROVE
    /\ Cardinality({s \in Readable : rows[s].supersedes = id}) <= 1
    /\ LET target == rows[id].supersedes
       IN target # None => /\ rows[target].mailbox = rows[id].mailbox
                           /\ rows[target].sender = rows[id].sender
                           /\ rows[target].ordinal < rows[id].ordinal
    /\ id \in Readable /\ Withheld(Message(id)) =>
         \E s \in Readable :
           /\ SupersededBy(s) = None
           /\ rows[s].ordinal > rows[id].ordinal
           /\ rows[s].mailbox = rows[id].mailbox
           /\ rows[s].sender = rows[id].sender
  BY DEF WithheldIsSpokenFor
<1>1. /\ TablesOK /\ OneReplacement /\ Replaces /\ Filed /\ id \in Ids /\ id # None
      /\ Readable \subseteq DOMAIN rows
  BY NoneAssumption DEF Inv, TablesOK, Readable
<1>2. Cardinality({s \in Readable : rows[s].supersedes = id}) <= 1
  <2> DEFINE by == {s \in Readable : rows[s].supersedes = id}
  <2>1. CASE by = {}
    BY <2>1, FS_EmptySet
  <2>2. ASSUME NEW s \in by PROVE Cardinality(by) = 1
    <3>1. by = {s}
      BY <1>1, <2>2 DEF OneReplacement
    <3>2. QED
      BY <3>1, FS_Singleton
  <2> HIDE DEF by
  <2>3. Cardinality(by) <= 1
    <3>1. CASE by = {}
      BY <3>1, FS_EmptySet
    <3>2. CASE by # {}
      BY <2>2, <3>2
    <3>3. QED
      BY <3>1, <3>2
  <2>4. QED
    BY <2>3 DEF by
<1>3. LET target == rows[id].supersedes
      IN target # None => /\ rows[target].mailbox = rows[id].mailbox
                          /\ rows[target].sender = rows[id].sender
                          /\ rows[target].ordinal < rows[id].ordinal
  BY <1>1 DEF Replaces
<1>4. ASSUME id \in Readable, Withheld(Message(id))
      PROVE  \E s \in Readable :
               /\ SupersededBy(s) = None
               /\ rows[s].ordinal > rows[id].ordinal
               /\ rows[s].mailbox = rows[id].mailbox
               /\ rows[s].sender = rows[id].sender
  <2> DEFINE later == {s \in Readable : /\ rows[s].ordinal > rows[id].ordinal
                                        /\ rows[s].mailbox = rows[id].mailbox
                                        /\ rows[s].sender = rows[id].sender}
  <2>1. SupersededBy(id) # None
    BY <1>4 DEF Withheld, Message
  <2>2. PICK s \in Readable : rows[s].supersedes = id
    BY <1>1, <2>1, Replacement
  <2>3. s \in later
    BY <1>1, <2>2, RowFields DEF Replaces
  <2>4. PICK last \in later : \A t \in later : rows[t].ordinal <= rows[last].ordinal
    <3>1. later \in SUBSET DOMAIN rows /\ later # {}
      BY <1>1, <2>3
    <3> HIDE DEF later
    <3>2. QED
      BY <1>1, <3>1, FiledLast
  <2>5. ASSUME NEW t \in Readable, rows[t].supersedes = last PROVE FALSE
    <3>1. last \in Ids /\ last # None /\ t \in DOMAIN rows /\ last \in DOMAIN rows
      BY <1>1, NoneAssumption DEF TablesOK
    <3>2. /\ rows[last].mailbox = rows[t].mailbox /\ rows[last].sender = rows[t].sender
          /\ rows[last].ordinal < rows[t].ordinal
      BY <1>1, <2>5, <3>1 DEF Replaces
    <3>3. rows[id].ordinal \in Nat /\ rows[last].ordinal \in Nat /\ rows[t].ordinal \in Nat
      BY <1>1, <3>1, RowFields
    <3>4. t \in later
      BY <3>2, <3>3
    <3>5. QED
      BY <2>4, <3>2, <3>3, <3>4
  <2>6. SupersededBy(last) = None
    <3>1. last \in Ids
      BY <1>1 DEF TablesOK
    <3>2. \A t \in Readable : rows[t].supersedes # last
      BY <2>5
    <3> HIDE DEF later
    <3>3. QED
      BY <1>1, <3>1, <3>2, Replacement
  <2>7. QED
    BY <2>6
<1>5. QED
  BY <1>2, <1>3, <1>4

\* A withheld message is spoken for by a later message of the same sender that
\* the box still holds and nothing replaced.
THEOREM SpokenFor == Spec => []WithheldIsSpokenFor
BY WithheldExplained, Invariance, PTL

\* The account of every message explains the state of its row.
THEOREM AccountHolds == Spec => []AccountExplainsState
<1>1. Inv => AccountExplainsState
  BY DEF Inv
<1>2. QED
  BY <1>1, Invariance, PTL

LEMMA PrefixOfItself ==
  ASSUME NEW S, NEW s \in Seq(S)
  PROVE  IsPrefix(s, s) /\ \A e \in S : IsPrefix(s, Append(s, e))
<1>1. IsPrefix(s, s)
  BY LenProperties DEF IsPrefix
<1>2. ASSUME NEW e \in S PROVE IsPrefix(s, Append(s, e))
  <2>1. /\ Append(s, e) \in Seq(S) /\ Len(Append(s, e)) = Len(s) + 1 /\ Len(s) \in Nat
        /\ \A i \in 1..Len(s) : Append(s, e)[i] = s[i]
    BY AppendProperties, LenProperties
  <2>2. SubSeq(s, 1, Len(s)) = [i \in 1..Len(s) |-> s[i]]
    BY <2>1
  <2>3. SubSeq(Append(s, e), 1, Len(s)) = [i \in 1..Len(s) |-> Append(s, e)[i]]
    BY <2>1
  <2>4. QED
    BY <2>1, <2>2, <2>3 DEF IsPrefix
<1>3. QED
  BY <1>1, <1>2

\* Messages go forward only: no step loses one, moves one back, or rewrites
\* how it was taken, and the account only grows.
THEOREM ForwardOnly == Spec => MessagesGoForward
<1> DEFINE Forward ==
      \A id \in DOMAIN rows :
        /\ id \in DOMAIN rows'
        /\ rows'[id].state # rows[id].state =>
             <<rows[id].state, rows'[id].state>> \in
               {"new", "read"} \X {"read", "processed", "quarantined"}
        /\ rows[id].takenBy # None => rows'[id].takenBy = rows[id].takenBy
        /\ IsPrefix(events[id], events'[id])
<1>1. Inv /\ [Next]_mailVars => Forward
  <2> SUFFICES ASSUME Inv, [Next]_mailVars, NEW id \in DOMAIN rows
               PROVE  /\ id \in DOMAIN rows'
                      /\ rows'[id].state # rows[id].state =>
                           <<rows[id].state, rows'[id].state>> \in
                             {"new", "read"} \X {"read", "processed", "quarantined"}
                      /\ rows[id].takenBy # None => rows'[id].takenBy = rows[id].takenBy
                      /\ IsPrefix(events[id], events'[id])
    OBVIOUS
  <2>1. TablesOK /\ AccountExplainsState /\ events[id] \in Seq(Events)
    BY RowFields DEF Inv, TablesOK
  <2>2. id \in DOMAIN rows' /\ (Stays(id) \/ Goes(id))
    <3>1. CASE Settled
      BY <3>1 DEF Settled
    <3>2. CASE Files
      BY <3>2 DEF Files, Stays
    <3>3. CASE Renames
      <4>1. PICK old \in DOMAIN boxes, new \in Names :
              /\ rows' = [m \in DOMAIN rows |->
                            IF rows[m].mailbox = old THEN [rows[m] EXCEPT !.mailbox = new]
                            ELSE rows[m]]
              /\ events' = events
        BY <3>3 DEF Renames
      <4>2. rows[id] \in Rows
        BY <2>1, RowFields
      <4>3. QED
        BY <4>1, <4>2 DEF Stays, Rows
    <3>4. CASE Makes
      BY <3>4 DEF Makes, Stays
    <3>5. QED
      BY <3>1, <3>2, <3>3, <3>4, TablesMove
  <2>3. CASE Stays(id)
    BY <2>1, <2>2, <2>3, PrefixOfItself DEF Stays
  <2>4. CASE Goes(id)
    <3>1. PICK kind \in Kinds, by \in Names :
            /\ rows[id].state \in {"new", "read"}
            /\ kind = "read" => rows[id].state = "new"
            /\ rows'[id].state = kind
            /\ IF kind = "read" THEN rows'[id].takenBy \in Taken
               ELSE rows'[id].takenBy = rows[id].takenBy
            /\ events'[id] = Append(events[id], NextEvent(events[id], kind, by, rows[id].state))
      BY <2>4 DEF Goes
    <3>2. NextEvent(events[id], kind, by, rows[id].state) \in Events
      <4>1. \A i \in 1..Len(events[id]) : events[id][i].ordinal = i
        BY <2>1 DEF AccountExplainsState
      <4>2. QED
        BY <2>1, <3>1, <4>1, NextInTurn
    <3>3. rows[id].takenBy # None => kind # "read"
      BY <2>1, <3>1, NewIsUntaken
    <3>4. IsPrefix(events[id], events'[id])
      BY <2>1, <3>1, <3>2, PrefixOfItself
    <3>5. QED
      BY <2>2, <3>1, <3>3, <3>4 DEF Kinds
  <2>5. QED
    BY <2>2, <2>3, <2>4
<1>2. Spec => [][Forward]_mailVars
  BY <1>1, Invariance, PTL DEF Spec
<1>3. QED
  BY <1>2, PTL DEF MessagesGoForward

-----------------------------------------------------------------------------
(* Places: what a sequence holds at some of its places, in order.          *)

\* h numbers the elements of S from one to n.
Numbers(h, n, S) ==
  /\ h \in [1..n -> S]
  /\ \A i, j \in 1..n : h[i] = h[j] => i = j
  /\ \A x \in S : \E i \in 1..n : h[i] = x

\* A rank that no two elements share, no greater than their number, numbers
\* them all.
LEMMA RanksNumber ==
  ASSUME NEW S, IsFiniteSet(S), NEW rank \in [S -> 1..Cardinality(S)],
         \A a, b \in S : rank[a] = rank[b] => a = b
  PROVE  LET h == [i \in 1..Cardinality(S) |-> CHOOSE a \in S : rank[a] = i]
         IN /\ Numbers(h, Cardinality(S), S)
            /\ \A a \in S : h[rank[a]] = a
            /\ \A i \in 1..Cardinality(S) : rank[h[i]] = i
<1> DEFINE n == Cardinality(S)
           h == [i \in 1..n |-> CHOOSE a \in S : rank[a] = i]
<1>1. n \in Nat
  BY FS_CardinalityType
<1>2. IsFiniteSet(1..n) /\ Cardinality(1..n) = n
  BY <1>1, FS_Interval
<1>3. rank \in Injection(S, 1..n)
  BY DEF Injection, IsInjective
<1>4. rank \in Surjection(S, 1..n)
  BY <1>2, <1>3, FS_Injection
<1>5. \A i \in 1..n : \E a \in S : rank[a] = i
  BY <1>4 DEF Surjection
<1>6. \A i \in 1..n : h[i] \in S /\ rank[h[i]] = i
  BY <1>5
<1>7. \A a \in S : rank[a] \in 1..n /\ h[rank[a]] = a
  BY <1>6
<1>8. Numbers(h, n, S)
  BY <1>6, <1>7 DEF Numbers
<1>9. QED
  BY <1>6, <1>7, <1>8

\* A count of a smaller set is smaller.
LEMMA FewerCount ==
  ASSUME NEW S, IsFiniteSet(S), NEW T \in SUBSET S, NEW x \in S, x \notin T
  PROVE  /\ Cardinality(T) \in Nat /\ Cardinality(S) \in Nat
         /\ Cardinality(T) < Cardinality(S)
<1>1. /\ Cardinality(T) \in Nat /\ Cardinality(S) \in Nat
      /\ Cardinality(T) <= Cardinality(S)
      /\ Cardinality(S) = Cardinality(T) => S = T
  BY FS_Subset, FS_CardinalityType
<1>2. QED
  BY <1>1

\* At takes exactly the elements at the places, each once and in their order.
LEMMA AtPlaces ==
  ASSUME NEW n \in Nat, NEW places \in SUBSET (1..n), NEW s
  PROVE  /\ Cardinality(places) \in Nat /\ IsFiniteSet(places)
         /\ At(s, places) = [i \in 1..Cardinality(places) |-> s[Nth(places, i)]]
         /\ Numbers([i \in 1..Cardinality(places) |-> Nth(places, i)], Cardinality(places), places)
         /\ \A i, j \in 1..Cardinality(places) : i < j => Nth(places, i) < Nth(places, j)
<1> DEFINE rank == [p \in places |-> Cardinality({q \in places : q <= p})]
<1>1. IsFiniteSet(places) /\ Cardinality(places) \in Nat
  <2>1. IsFiniteSet(1..n)
    BY FS_Interval
  <2>2. IsFiniteSet(places)
    BY <2>1, FS_Subset
  <2>3. QED
    BY <2>2, FS_CardinalityType
<1>2. ASSUME NEW p \in places
      PROVE  rank[p] \in 1..Cardinality(places)
  <2> DEFINE upTo == {q \in places : q <= p}
  <2>1. upTo \in SUBSET places /\ p \in upTo
    OBVIOUS
  <2>2. IsFiniteSet(upTo) /\ Cardinality(upTo) <= Cardinality(places)
    BY <1>1, <2>1, FS_Subset
  <2>3. Cardinality(upTo) \in Nat /\ Cardinality(upTo) # 0
    BY <2>1, <2>2, FS_CardinalityType, FS_EmptySet
  <2>4. rank[p] = Cardinality(upTo)
    OBVIOUS
  <2> HIDE DEF rank, upTo
  <2>5. QED
    BY <1>1, <2>2, <2>3, <2>4
<1>3. ASSUME NEW a \in places, NEW b \in places, a < b
      PROVE  rank[a] < rank[b]
  <2> DEFINE upTo(p) == {q \in places : q <= p}
  <2>1. upTo(a) \in SUBSET upTo(b) /\ b \in upTo(b) /\ b \notin upTo(a)
    <3>1. \A q \in places : q \in Int
      OBVIOUS
    <3>2. \A q \in places : q <= a => q <= b
      BY <1>3, <3>1
    <3>3. b <= b /\ ~(b <= a)
      BY <1>3, <3>1
    <3>4. QED
      BY <3>2, <3>3
  <2>2. IsFiniteSet(upTo(b))
    BY <1>1, FS_Subset
  <2>3. rank[a] = Cardinality(upTo(a)) /\ rank[b] = Cardinality(upTo(b))
    OBVIOUS
  <2> HIDE DEF rank, upTo
  <2>4. QED
    BY <2>1, <2>2, <2>3, FewerCount
<1>4. \A a, b \in places : rank[a] = rank[b] => a = b
  <2>1. \A a, b \in places : a = b \/ a < b \/ b < a
    OBVIOUS
  <2>2. \A a \in places : rank[a] \in Int
    BY <1>1, <1>2
  <2> HIDE DEF rank
  <2>3. QED
    BY <1>3, <2>1, <2>2
<1>5. rank \in [places -> 1..Cardinality(places)]
  BY <1>2
<1>6. \A i \in 1..Cardinality(places) :
        Nth(places, i) = CHOOSE p \in places : rank[p] = i
  BY DEF Nth
<1> HIDE DEF rank
<1>7. [i \in 1..Cardinality(places) |-> Nth(places, i)] =
        [i \in 1..Cardinality(places) |-> CHOOSE p \in places : rank[p] = i]
  BY <1>6
<1>8. Numbers([i \in 1..Cardinality(places) |-> Nth(places, i)], Cardinality(places), places)
  BY <1>1, <1>4, <1>5, <1>7, RanksNumber
<1>9. \A i \in 1..Cardinality(places) : Nth(places, i) \in places /\ rank[Nth(places, i)] = i
  <2>1. PICK h : h = [i \in 1..Cardinality(places) |-> CHOOSE p \in places : rank[p] = i]
    OBVIOUS
  <2>2. \A i \in 1..Cardinality(places) : h[i] \in places /\ rank[h[i]] = i
    <3>1. Numbers(h, Cardinality(places), places)
      BY <1>7, <1>8, <2>1
    <3>2. \A i \in 1..Cardinality(places) : rank[h[i]] = i
      BY <1>1, <1>4, <1>5, <2>1, RanksNumber
    <3>3. QED
      BY <3>1, <3>2 DEF Numbers
  <2>3. QED
    BY <1>6, <2>1, <2>2
<1>10. ASSUME NEW i \in 1..Cardinality(places), NEW j \in 1..Cardinality(places), i < j
       PROVE  Nth(places, i) < Nth(places, j)
  <2>1. PICK a \in places, b \in places : a = Nth(places, i) /\ b = Nth(places, j)
    BY <1>9
  <2>2. rank[a] = i /\ rank[b] = j /\ a \in Int /\ b \in Int /\ i \in Int /\ j \in Int
    BY <1>1, <1>9, <2>1
  <2>3. b < a => rank[b] < rank[a]
    BY <1>3
  <2>4. a # b
    BY <1>10, <2>2
  <2>5. QED
    BY <1>10, <2>1, <2>2, <2>3, <2>4
<1>11. QED
  BY <1>1, <1>8, <1>10 DEF At

-----------------------------------------------------------------------------
(* The arithmetic of the image, for any board: m is its messages by id and *)
(* line the order they stand in.                                           *)

\* The counter a message is counted by.
Class(m) == IF Withheld(m) THEN "superseded" ELSE m.state

InClass(m, name, class) ==
  {x \in DOMAIN m : m[x].mailbox = name /\ Class(m[x]) = class}

CountsOf(m, name) ==
  [new |-> Cardinality(InClass(m, name, "new")),
   superseded |-> Cardinality(InClass(m, name, "superseded")),
   read |-> Cardinality(InClass(m, name, "read")),
   processed |-> Cardinality(InClass(m, name, "processed"))]

BoxesOf(m, owners, aside) ==
  [name \in DOMAIN owners |->
     [owner |-> owners[name], counts |-> CountsOf(m, name), quarantined |-> aside[name]]]

ImageOf(m, line, owners, aside, told) ==
  [boxes |-> BoxesOf(m, owners, aside),
   messages |-> [i \in DOMAIN line |-> m[line[i]]],
   events |-> told]

\* The messages of a board, by id.
IsBoard(m) ==
  /\ IsFiniteSet(DOMAIN m) /\ DOMAIN m \subseteq Ids
  /\ m \in [DOMAIN m -> Messages]
  /\ \A x \in DOMAIN m : m[x].id = x

LEMMA ClassOfMessage ==
  ASSUME NEW m \in Messages
  PROVE  /\ Class(m) \in {"new", "superseded", "read", "processed"}
         /\ \A counts : /\ Count(counts, m) = [counts EXCEPT ![Class(m)] = @ + 1]
                        /\ Uncount(counts, m) = [counts EXCEPT ![Class(m)] = @ - 1]
BY DEF Messages, States, Class, Count, Uncount, Withheld

LEMMA OneCounts ==
  ASSUME NEW A, IsFiniteSet(A), NEW x
  PROVE  /\ Cardinality(A) \in Nat /\ Cardinality(A \ {x}) \in Nat
         /\ Cardinality(A) = Cardinality(A \ {x}) + (IF x \in A THEN 1 ELSE 0)
<1>1. /\ Cardinality(A) \in Nat
      /\ IsFiniteSet(A \ {x})
      /\ Cardinality(A \ {x}) = IF x \in A THEN Cardinality(A)-1 ELSE Cardinality(A)
  BY FS_CardinalityType, FS_RemoveElement
<1>2. Cardinality(A \ {x}) \in Nat
  BY <1>1, FS_CardinalityType
<1>3. QED
  BY <1>1, <1>2

LEMMA ClassesFinite ==
  ASSUME NEW m, IsFiniteSet(DOMAIN m), NEW name, NEW class
  PROVE  IsFiniteSet(InClass(m, name, class)) /\ Cardinality(InClass(m, name, class)) \in Nat
<1>1. InClass(m, name, class) \in SUBSET DOMAIN m
  BY DEF InClass
<1>2. QED
  BY <1>1, FS_Subset, FS_CardinalityType

\* A message that takes the place of the one of its id is counted in its stead.
LEMMA CountsMove ==
  ASSUME NEW m, IsBoard(m), NEW new \in Messages, new.id \in DOMAIN m,
         m[new.id].mailbox = new.mailbox
  PROVE  LET after == [m EXCEPT ![new.id] = new]
         IN /\ CountsOf(after, new.mailbox) =
                 Count(Uncount(CountsOf(m, new.mailbox), m[new.id]), new)
            /\ \A name : name # new.mailbox => CountsOf(after, name) = CountsOf(m, name)
<1> DEFINE id == new.id
           box == new.mailbox
           after == [m EXCEPT ![id] = new]
           was(c) == Cardinality(InClass(m, box, c))
           is(c) == Cardinality(InClass(after, box, c))
           rest(c) == Cardinality(InClass(m, box, c) \ {id})
<1>1. /\ IsFiniteSet(DOMAIN m) /\ DOMAIN after = DOMAIN m
      /\ after[id] = new /\ \A x \in DOMAIN m \ {id} : after[x] = m[x]
      /\ m[id] \in Messages
  BY DEF IsBoard
<1> HIDE DEF after
<1>2. ASSUME NEW c
      PROVE  /\ rest(c) \in Nat
             /\ was(c) = rest(c) + (IF Class(m[id]) = c THEN 1 ELSE 0)
             /\ is(c) = rest(c) + (IF Class(new) = c THEN 1 ELSE 0)
  <2>1. InClass(after, box, c) \ {id} = InClass(m, box, c) \ {id}
    BY <1>1 DEF InClass
  <2>2. /\ id \in InClass(m, box, c) <=> Class(m[id]) = c
        /\ id \in InClass(after, box, c) <=> Class(new) = c
    BY <1>1 DEF InClass
  <2>3. IsFiniteSet(InClass(m, box, c)) /\ IsFiniteSet(InClass(after, box, c))
    BY <1>1, ClassesFinite
  <2>4. /\ rest(c) \in Nat
        /\ was(c) = rest(c) + (IF id \in InClass(m, box, c) THEN 1 ELSE 0)
    BY <2>3, OneCounts
  <2>5. is(c) = Cardinality(InClass(after, box, c) \ {id})
                  + (IF id \in InClass(after, box, c) THEN 1 ELSE 0)
    BY <2>3, OneCounts
  <2>6. is(c) = rest(c) + (IF id \in InClass(after, box, c) THEN 1 ELSE 0)
    BY <2>1, <2>5
  <2> HIDE DEF rest, was, is
  <2>7. QED
    BY <2>2, <2>4, <2>6
<1>3. /\ CountsOf(m, box) = [new |-> was("new"), superseded |-> was("superseded"),
                             read |-> was("read"), processed |-> was("processed")]
      /\ CountsOf(after, box) = [new |-> is("new"), superseded |-> is("superseded"),
                                 read |-> is("read"), processed |-> is("processed")]
  BY DEF CountsOf
<1>4. ASSUME NEW name, name # box
      PROVE  CountsOf(after, name) = CountsOf(m, name)
  <2>1. \A c : InClass(after, name, c) = InClass(m, name, c)
    BY <1>1, <1>4 DEF InClass
  <2>2. QED
    BY <2>1 DEF CountsOf
<1> HIDE DEF was, is, rest
<1>5. CountsOf(after, box) = Count(Uncount(CountsOf(m, box), m[id]), new)
  <2>1. /\ Class(m[id]) \in {"new", "superseded", "read", "processed"}
        /\ Class(new) \in {"new", "superseded", "read", "processed"}
    BY <1>1, ClassOfMessage
  <2>2. Count(Uncount(CountsOf(m, box), m[id]), new) =
          [[CountsOf(m, box) EXCEPT ![Class(m[id])] = @ - 1] EXCEPT ![Class(new)] = @ + 1]
    BY <1>1, ClassOfMessage
  <2>3. \A c \in {"new", "superseded", "read", "processed"} :
          is(c) = was(c) - (IF Class(m[id]) = c THEN 1 ELSE 0) + (IF Class(new) = c THEN 1 ELSE 0)
    BY <1>2
  <2>4. \A c \in {"new", "superseded", "read", "processed"} : was(c) \in Int /\ is(c) \in Int
    BY <1>2
  <2> HIDE DEF id
  <2>5. QED
    BY <1>3, <2>1, <2>2, <2>3, <2>4
<1>6. QED
  BY <1>4, <1>5 DEF after

\* A message of the board is found where it stands.
LEMMA PlaceFound ==
  ASSUME NEW m, IsBoard(m), NEW n \in Nat, NEW line, Numbers(line, n, DOMAIN m),
         NEW img, img.messages = [i \in DOMAIN line |-> m[line[i]]], NEW id \in DOMAIN m
  PROVE  Place(img, id) \in 1..n /\ line[Place(img, id)] = id
<1> DEFINE places == {i \in 1..Len(img.messages) : img.messages[i].id = id}
<1>1. DOMAIN line = 1..n /\ \A i \in 1..n : line[i] \in DOMAIN m
  BY DEF Numbers
<1>2. Len(img.messages) = n /\ \A i \in 1..n : img.messages[i] = m[line[i]]
  BY <1>1
<1>3. \A i \in 1..n : img.messages[i].id = line[i]
  BY <1>1, <1>2 DEF IsBoard
<1>4. PICK p \in 1..n : line[p] = id
  BY DEF Numbers
<1>5. places = {p}
  BY <1>2, <1>3, <1>4 DEF Numbers
<1>6. Place(img, id) = Min(places)
  <2>1. Place(img, id) = IF places # {} THEN Min(places) ELSE 0
    BY DEF Place, SelectInSeq
  <2>2. QED
    BY <1>5, <2>1
<1>7. Min(places) = p
  BY <1>4, <1>5 DEF Min
<1>8. QED
  BY <1>4, <1>6, <1>7

\* Holding a message in the place of the one of its id makes the image of the
\* board that holds it.
LEMMA PutHolds ==
  ASSUME NEW m, IsBoard(m), NEW n \in Nat, NEW line, Numbers(line, n, DOMAIN m),
         NEW owners, NEW aside, NEW told,
         NEW new \in Messages, new.id \in DOMAIN m, m[new.id].mailbox = new.mailbox,
         NEW img, img \in {ImageOf(m, line, owners, aside, told), NoImage}
  PROVE  Put(img, new) \in {ImageOf([m EXCEPT ![new.id] = new], line, owners, aside, told), NoImage}
<1> DEFINE id == new.id
           box == new.mailbox
           after == [m EXCEPT ![id] = new]
           p == Place(img, id)
           left == [img EXCEPT !.boxes[img.messages[p].mailbox].counts =
                                 Uncount(@, img.messages[p])]
           held == [left EXCEPT !.messages[p] = new, !.boxes[box].counts = Count(@, new)]
<1>1. CASE img = NoImage
  BY <1>1 DEF Put
<1>2. CASE img # NoImage /\ (p = 0 \/ box \notin DOMAIN img.boxes)
  BY <1>2 DEF Put
<1>3. ASSUME img # NoImage, p # 0, box \in DOMAIN img.boxes
      PROVE  Put(img, new) = ImageOf(after, line, owners, aside, told)
  <2>1. img = ImageOf(m, line, owners, aside, told)
    BY <1>3
  <2>2. /\ img.messages = [i \in DOMAIN line |-> m[line[i]]]
        /\ img.boxes = BoxesOf(m, owners, aside) /\ img.events = told
    BY <2>1 DEF ImageOf
  <2>3. p \in 1..n /\ line[p] = id
    BY <2>2, PlaceFound
  <2>4. DOMAIN line = 1..n /\ \A i \in 1..n : line[i] \in DOMAIN m /\ (line[i] = id => i = p)
    BY <2>3 DEF Numbers
  <2>5. img.messages[p] = m[id]
    BY <2>2, <2>3, <2>4
  <2>6. Put(img, new) = held
    BY <1>3 DEF Put
  <2> HIDE DEF p
  <2>7. held = [boxes |-> [[img.boxes EXCEPT ![box].counts = Uncount(@, m[id])]
                             EXCEPT ![box].counts = Count(@, new)],
                messages |-> [img.messages EXCEPT ![p] = new],
                events |-> told]
    <3>1. PICK boxed, sequence : img = [boxes |-> boxed, messages |-> sequence, events |-> told]
      BY <2>1 DEF ImageOf
    <3>2. boxed = img.boxes /\ sequence = img.messages
      BY <3>1
    <3>3. img.messages[p].mailbox = box
      BY <2>5
    <3>4. left = [boxes |-> [boxed EXCEPT ![box].counts = Uncount(@, m[id])],
                  messages |-> sequence, events |-> told]
      BY <2>5, <3>1, <3>3
    <3> HIDE DEF left
    <3>5. PICK uncounted : uncounted = [boxed EXCEPT ![box].counts = Uncount(@, m[id])]
      OBVIOUS
    <3>6. left = [boxes |-> uncounted, messages |-> sequence, events |-> told]
      BY <3>4, <3>5
    <3> DEFINE placed == [left EXCEPT !.messages[p] = new]
    <3>7. placed = [boxes |-> uncounted, messages |-> [sequence EXCEPT ![p] = new],
                    events |-> told]
      BY <3>6
    <3>8. held = [placed EXCEPT !.boxes[box].counts = Count(left.boxes[box].counts, new)]
      OBVIOUS
    <3> HIDE DEF placed
    <3>9. [placed EXCEPT !.boxes[box].counts = Count(left.boxes[box].counts, new)]
            = [boxes |-> [uncounted EXCEPT ![box].counts = Count(@, new)],
               messages |-> [sequence EXCEPT ![p] = new], events |-> told]
      BY <3>6, <3>7
    <3> HIDE DEF held
    <3>10. QED
      BY <3>2, <3>5, <3>8, <3>9
  <2>8. [img.messages EXCEPT ![p] = new] = [i \in DOMAIN line |-> after[line[i]]]
    <3>1. \A i \in 1..n : after[line[i]] = IF i = p THEN new ELSE m[line[i]]
      BY <2>3, <2>4
    <3> HIDE DEF after
    <3>2. QED
      BY <2>2, <2>3, <2>4, <3>1
  <2>9. [[img.boxes EXCEPT ![box].counts = Uncount(@, m[id])] EXCEPT ![box].counts = Count(@, new)]
          = BoxesOf(after, owners, aside)
    <3>1. /\ CountsOf(after, box) = Count(Uncount(CountsOf(m, box), m[id]), new)
          /\ \A name : name # box => CountsOf(after, name) = CountsOf(m, name)
      BY CountsMove
    <3>2. DOMAIN img.boxes = DOMAIN owners
      BY <2>2 DEF BoxesOf
    <3>3. \A name \in DOMAIN owners :
            img.boxes[name] = [owner |-> owners[name], counts |-> CountsOf(m, name),
                               quarantined |-> aside[name]]
      BY <2>2 DEF BoxesOf
    <3> DEFINE once == [img.boxes EXCEPT ![box].counts = Uncount(@, m[id])]
               twice == [once EXCEPT ![box].counts = Count(@, new)]
    <3> HIDE DEF after
    <3>31. once = [img.boxes EXCEPT ![box] =
                     [img.boxes[box] EXCEPT !.counts = Uncount(img.boxes[box].counts, m[id])]]
      OBVIOUS
    <3>32. [img.boxes[box] EXCEPT !.counts = Uncount(img.boxes[box].counts, m[id])]
             = [owner |-> owners[box], counts |-> Uncount(CountsOf(m, box), m[id]),
                quarantined |-> aside[box]]
      <4>1. PICK c : c = CountsOf(m, box)
        OBVIOUS
      <4>2. img.boxes[box] = [owner |-> owners[box], counts |-> c, quarantined |-> aside[box]]
        BY <1>3, <3>2, <3>3, <4>1
      <4>3. QED
        BY <4>1, <4>2
    <3> HIDE DEF once
    <3>4. /\ DOMAIN once = DOMAIN owners
          /\ once[box] = [owner |-> owners[box], counts |-> Uncount(CountsOf(m, box), m[id]),
                          quarantined |-> aside[box]]
          /\ \A name \in DOMAIN owners : name # box => once[name] = img.boxes[name]
      BY <1>3, <3>2, <3>31, <3>32
    <3>51. twice = [once EXCEPT ![box] =
                      [once[box] EXCEPT !.counts = Count(once[box].counts, new)]]
      OBVIOUS
    <3>52. [once[box] EXCEPT !.counts = Count(once[box].counts, new)]
             = [owner |-> owners[box],
                counts |-> Count(Uncount(CountsOf(m, box), m[id]), new),
                quarantined |-> aside[box]]
      <4>1. PICK c : c = Uncount(CountsOf(m, box), m[id])
        OBVIOUS
      <4>2. once[box] = [owner |-> owners[box], counts |-> c, quarantined |-> aside[box]]
        BY <3>4, <4>1
      <4>3. QED
        BY <4>1, <4>2
    <3> HIDE DEF twice
    <3>5. /\ DOMAIN twice = DOMAIN owners
          /\ twice[box] = [owner |-> owners[box],
                           counts |-> Count(Uncount(CountsOf(m, box), m[id]), new),
                           quarantined |-> aside[box]]
          /\ \A name \in DOMAIN owners : name # box => twice[name] = once[name]
      BY <1>3, <3>2, <3>4, <3>51, <3>52
    <3>6. twice = [name \in DOMAIN owners |-> twice[name]]
      BY <3>4, <3>5, <3>51
    <3>60. \A name \in DOMAIN owners :
             twice[name] = [owner |-> owners[name], counts |-> CountsOf(after, name),
                            quarantined |-> aside[name]]
      <4>1. ASSUME NEW name \in DOMAIN owners, name # box
            PROVE  twice[name] = [owner |-> owners[name], counts |-> CountsOf(after, name),
                                  quarantined |-> aside[name]]
        <5>1. twice[name] = img.boxes[name]
          BY <3>4, <3>5, <4>1
        <5>2. CountsOf(after, name) = CountsOf(m, name)
          BY <3>1, <4>1
        <5>3. QED
          BY <3>3, <5>1, <5>2
      <4>2. twice[box] = [owner |-> owners[box], counts |-> CountsOf(after, box),
                          quarantined |-> aside[box]]
        BY <3>1, <3>5
      <4>3. QED
        BY <4>1, <4>2
    <3>7. twice = BoxesOf(after, owners, aside)
      <4>1. twice = [name \in DOMAIN owners |->
                       [owner |-> owners[name], counts |-> CountsOf(after, name),
                        quarantined |-> aside[name]]]
        BY <3>6, <3>60
      <4>2. QED
        BY <4>1 DEF BoxesOf
    <3>8. QED
      BY <3>7 DEF once, twice
  <2> HIDE DEF after, held
  <2>10. QED
    BY <2>6, <2>7, <2>8, <2>9 DEF ImageOf
<1>4. QED
  BY <1>1, <1>2, <1>3

\* A recorded change is told of after the others.
LEMMA RecordTells ==
  ASSUME NEW m, NEW line, NEW owners, NEW aside, NEW told, NEW img, NEW id \in DOMAIN told,
         NEW kind, NEW by, NEW prior,
         img \in {ImageOf(m, line, owners, aside, told), NoImage}
  PROVE  Record(img, id, kind, by, prior) \in
           {ImageOf(m, line, owners, aside,
                    [told EXCEPT ![id] = Append(@, NextEvent(@, kind, by, prior))]), NoImage}
<1>1. CASE img = NoImage
  BY <1>1 DEF Record
<1>2. CASE img # NoImage
  <2>1. PICK boxed, sequence :
          /\ \A t : ImageOf(m, line, owners, aside, t) =
                     [boxes |-> boxed, messages |-> sequence, events |-> t]
    BY DEF ImageOf
  <2>2. img = [boxes |-> boxed, messages |-> sequence, events |-> told]
    BY <1>2, <2>1
  <2>3. Record(img, id, kind, by, prior) =
          [img EXCEPT !.events[id] = Append(@, NextEvent(@, kind, by, prior))]
    BY <1>2 DEF Record
  <2>4. [img EXCEPT !.events[id] = Append(@, NextEvent(@, kind, by, prior))] =
          [boxes |-> boxed, messages |-> sequence,
           events |-> [told EXCEPT ![id] = Append(@, NextEvent(@, kind, by, prior))]]
    BY <2>2
  <2>5. QED
    BY <2>1, <2>3, <2>4
<1>3. QED
  BY <1>1, <1>2

LEMMA InsertedAt ==
  ASSUME NEW S, NEW s \in Seq(S), NEW e \in S, NEW k \in 0..Len(s)
  PROVE  InsertAt(s, k + 1, e) =
           [i \in 1..(Len(s) + 1) |-> IF i <= k THEN s[i] ELSE IF i = k + 1 THEN e ELSE s[i - 1]]
<1> DEFINE n == Len(s)
           front == SubSeq(s, 1, k)
           back == SubSeq(s, k + 1, n)
           most == front \o <<e>>
           all == most \o back
<1>1. n \in Nat /\ k \in Nat /\ k <= n /\ \A i \in 1..n : s[i] \in S
  BY LenProperties
<1>2. /\ front \in Seq(S) /\ Len(front) = k
      /\ \A i \in 1..k : front[i] = s[i]
  <2>1. \A i \in 1..k : s[i] \in S
    BY <1>1
  <2>2. /\ front \in Seq(S) /\ Len(front) = (IF 1 <= k THEN k - 1 + 1 ELSE 0)
        /\ \A i \in 1..(k - 1 + 1) : front[i] = s[1 + i - 1]
    BY <1>1, <2>1, SubSeqProperties
  <2> HIDE DEF front
  <2>3. QED
    BY <1>1, <2>2
<1>3. /\ back \in Seq(S) /\ Len(back) = n - k
      /\ \A i \in 1..(n - k) : back[i] = s[k + i]
  <2>1. \A i \in (k + 1)..n : s[i] \in S
    BY <1>1
  <2>2. /\ back \in Seq(S) /\ Len(back) = (IF k + 1 <= n THEN n - (k + 1) + 1 ELSE 0)
        /\ \A i \in 1..(n - (k + 1) + 1) : back[i] = s[k + 1 + i - 1]
    <3> k + 1 \in Int /\ n \in Int
      BY <1>1
    <3> HIDE DEF n
    <3>1. QED
      BY <2>1, SubSeqProperties
  <2> HIDE DEF back, n
  <2>3. QED
    BY <1>1, <2>2
<1> HIDE DEF front, back, n
<1>4. <<e>> \in Seq(S) /\ Len(<<e>>) = 1 /\ <<e>>[1] = e
  OBVIOUS
<1>5. /\ most \in Seq(S) /\ Len(most) = k + 1
      /\ \A i \in 1..(k + 1) : most[i] = IF i <= k THEN s[i] ELSE e
  <2>1. /\ most \in Seq(S) /\ Len(most) = Len(front) + Len(<<e>>)
        /\ \A i \in 1..(Len(front) + Len(<<e>>)) :
             most[i] = IF i <= Len(front) THEN front[i] ELSE <<e>>[i - Len(front)]
    BY <1>2, <1>4, ConcatProperties
  <2> HIDE DEF most
  <2>2. ASSUME NEW i \in 1..(k + 1)
        PROVE  most[i] = IF i <= k THEN s[i] ELSE e
    <3>1. CASE i <= k
      BY <1>1, <1>2, <1>4, <2>1, <3>1
    <3>2. CASE i = k + 1
      BY <1>1, <1>2, <1>4, <2>1, <3>2
    <3>3. QED
      BY <1>1, <3>1, <3>2
  <2>3. QED
    BY <1>2, <1>4, <2>1, <2>2
<1> HIDE DEF most
<1>6. /\ all \in Seq(S) /\ Len(all) = n + 1
      /\ \A i \in 1..(n + 1) :
           all[i] = IF i <= k THEN s[i] ELSE IF i = k + 1 THEN e ELSE s[i - 1]
  <2>1. /\ all \in Seq(S) /\ Len(all) = Len(most) + Len(back)
        /\ \A i \in 1..(Len(most) + Len(back)) :
             all[i] = IF i <= Len(most) THEN most[i] ELSE back[i - Len(most)]
    BY <1>3, <1>5, ConcatProperties
  <2> HIDE DEF all
  <2>2. ASSUME NEW i \in 1..(n + 1)
        PROVE  all[i] = IF i <= k THEN s[i] ELSE IF i = k + 1 THEN e ELSE s[i - 1]
    <3>1. CASE i <= k + 1
      BY <1>1, <1>3, <1>5, <2>1, <3>1
    <3>2. CASE i > k + 1
      <4>1. i - (k + 1) \in 1..(n - k) /\ k + (i - (k + 1)) = i - 1
        BY <1>1, <3>2
      <4>2. all[i] = back[i - (k + 1)]
        BY <1>1, <1>3, <1>5, <2>1, <3>2
      <4>3. QED
        BY <1>1, <1>3, <3>2, <4>1, <4>2
    <3>3. QED
      BY <1>1, <3>1, <3>2
  <2>3. QED
    BY <1>1, <1>3, <1>5, <2>1, <2>2
<1>7. all = [i \in 1..(n + 1) |-> all[i]]
  BY <1>6, LenProperties
<1>8. InsertAt(s, k + 1, e) = all
  <2>1. PICK j : j = k + 1
    OBVIOUS
  <2>2. InsertAt(s, j, e) = (SubSeq(s, 1, j - 1) \o <<e>>) \o SubSeq(s, j, Len(s))
    BY DEF InsertAt
  <2>3. j - 1 = k
    BY <1>1, <2>1
  <2>4. SubSeq(s, 1, j - 1) = front /\ SubSeq(s, j, Len(s)) = back
    BY <2>1, <2>3 DEF front, back, n
  <2>5. all = (front \o <<e>>) \o back
    BY DEF most
  <2> HIDE DEF all
  <2>6. QED
    BY <2>1, <2>2, <2>4, <2>5
<1> HIDE DEF all
<1>9. QED
  BY <1>6, <1>7, <1>8 DEF n

\* A message that is filed is counted once more.
LEMMA CountsGrow ==
  ASSUME NEW m, IsBoard(m), NEW new \in Messages, new.id \notin DOMAIN m, NEW after,
         after = [x \in DOMAIN m \cup {new.id} |-> IF x = new.id THEN new ELSE m[x]]
  PROVE  /\ CountsOf(after, new.mailbox) = Count(CountsOf(m, new.mailbox), new)
         /\ \A name : name # new.mailbox => CountsOf(after, name) = CountsOf(m, name)
<1> DEFINE id == new.id
           box == new.mailbox
           was(c) == Cardinality(InClass(m, box, c))
           is(c) == Cardinality(InClass(after, box, c))
<1>1. /\ IsFiniteSet(DOMAIN m) /\ DOMAIN after = DOMAIN m \cup {id}
      /\ after[id] = new /\ \A x \in DOMAIN m : after[x] = m[x]
  BY DEF IsBoard
<1>2. ASSUME NEW c
      PROVE  /\ was(c) \in Nat
             /\ is(c) = was(c) + (IF Class(new) = c THEN 1 ELSE 0)
  <2>1. /\ InClass(after, box, c) \ {id} = InClass(m, box, c)
        /\ id \in InClass(after, box, c) <=> Class(new) = c
    BY <1>1 DEF InClass
  <2>2. IsFiniteSet(DOMAIN after)
    BY <1>1, FS_AddElement
  <2>3. IsFiniteSet(InClass(after, box, c))
    BY <2>2, ClassesFinite
  <2>4. /\ Cardinality(InClass(after, box, c) \ {id}) \in Nat
        /\ is(c) = Cardinality(InClass(after, box, c) \ {id})
                     + (IF id \in InClass(after, box, c) THEN 1 ELSE 0)
    BY <2>3, OneCounts
  <2>5. QED
    BY <2>1, <2>4
<1>3. /\ CountsOf(m, box) = [new |-> was("new"), superseded |-> was("superseded"),
                             read |-> was("read"), processed |-> was("processed")]
      /\ CountsOf(after, box) = [new |-> is("new"), superseded |-> is("superseded"),
                                 read |-> is("read"), processed |-> is("processed")]
  BY DEF CountsOf
<1>4. ASSUME NEW name, name # box
      PROVE  CountsOf(after, name) = CountsOf(m, name)
  <2>1. \A c : InClass(after, name, c) = InClass(m, name, c)
    BY <1>1, <1>4 DEF InClass
  <2>2. QED
    BY <2>1 DEF CountsOf
<1> HIDE DEF was, is
<1>5. CountsOf(after, box) = Count(CountsOf(m, box), new)
  <2>1. Class(new) \in {"new", "superseded", "read", "processed"}
    BY ClassOfMessage
  <2>2. Count(CountsOf(m, box), new) = [CountsOf(m, box) EXCEPT ![Class(new)] = @ + 1]
    BY ClassOfMessage
  <2>3. \A c \in {"new", "superseded", "read", "processed"} :
          was(c) \in Nat /\ is(c) = was(c) + (IF Class(new) = c THEN 1 ELSE 0)
    BY <1>2
  <2> HIDE DEF id
  <2>4. QED
    BY <1>3, <2>1, <2>2, <2>3
<1>6. QED
  BY <1>4, <1>5

\* How many of the messages in line were sent no later than a message.
Earlier(m, line, n, new) == Cardinality({i \in 1..n : m[line[i]].sentAt <= new.sentAt})

\* The board with a message filed: what it replaces is replaced.
FiledOn(after, m, new) ==
  /\ DOMAIN after = DOMAIN m \cup {new.id}
  /\ after \in [DOMAIN after -> Messages]
  /\ \A x \in DOMAIN after :
       after[x] = IF x = new.id THEN new
                  ELSE IF x = new.supersedes THEN [m[x] EXCEPT !.supersededBy = new.id]
                  ELSE m[x]

\* The line with an id let in after the first k.
LetIn(longer, line, n, k, id) ==
  /\ DOMAIN longer = 1..(n + 1)
  /\ \A i \in 1..(n + 1) :
       longer[i] = IF i <= k THEN line[i] ELSE IF i = k + 1 THEN id ELSE line[i - 1]

\* Filing a message makes the image of the board that holds it, after the
\* messages of its instant, what it replaces being replaced.
LEMMA FileHolds ==
  ASSUME NEW m, IsBoard(m), NEW n \in Nat, NEW line, Numbers(line, n, DOMAIN m),
         NEW owners, NEW aside, NEW told, NEW new \in Messages, new.id \notin DOMAIN m,
         new.supersedes \in DOMAIN m \cup {None},
         NEW img, img \in {ImageOf(m, line, owners, aside, told), NoImage},
         NEW after, FiledOn(after, m, new),
         NEW longer, LetIn(longer, line, n, Earlier(m, line, n, new), new.id)
  PROVE  File(img, new) \in {ImageOf(after, longer, owners, aside, told), NoImage}
<1> DEFINE id == new.id
           box == new.mailbox
           target == new.supersedes
           replaced == [m[target] EXCEPT !.supersededBy = id]
           before == IF target = None THEN m ELSE [m EXCEPT ![target] = replaced]
           marked == IF img = NoImage \/ target = None THEN img
                     ELSE IF Place(img, target) = 0 THEN NoImage
                     ELSE Put(img, [img.messages[Place(img, target)] EXCEPT !.supersededBy = id])
           earlier == {i \in 1..Len(marked.messages) : marked.messages[i].sentAt <= new.sentAt}
<1>01. PICK k : k = Earlier(m, line, n, new)
  OBVIOUS
<1>02. /\ k = Cardinality({i \in 1..n : m[line[i]].sentAt <= new.sentAt})
       /\ DOMAIN after = DOMAIN m \cup {new.id}
       /\ after \in [DOMAIN after -> Messages]
       /\ \A x \in DOMAIN after :
            after[x] = IF x = new.id THEN new
                       ELSE IF x = new.supersedes THEN [m[x] EXCEPT !.supersededBy = new.id]
                       ELSE m[x]
  BY <1>01 DEF Earlier, FiledOn
<1>03. /\ DOMAIN longer = 1..(n + 1)
       /\ \A i \in 1..(n + 1) :
            longer[i] = IF i <= k THEN line[i] ELSE IF i = k + 1 THEN new.id ELSE line[i - 1]
  BY <1>01 DEF LetIn
<1> USE <1>02, <1>03
<1>0. id \in Ids /\ None \notin DOMAIN m
  BY NoneAssumption DEF Messages, IsBoard
<1>1. DOMAIN line = 1..n /\ \A i \in 1..n : line[i] \in DOMAIN m
  BY DEF Numbers
<1>2. /\ DOMAIN before = DOMAIN m
      /\ \A x \in DOMAIN m :
           before[x] = IF x = target THEN [m[x] EXCEPT !.supersededBy = id] ELSE m[x]
  BY <1>0
<1>3. \A x \in DOMAIN m : /\ before[x] \in Messages /\ before[x].id = x
                          /\ before[x].sentAt = m[x].sentAt
  <2>1. ASSUME NEW x \in DOMAIN m
        PROVE  /\ before[x] \in Messages /\ before[x].id = x
               /\ before[x].sentAt = m[x].sentAt
    <3>1. m[x] \in Messages /\ m[x].id = x
      BY DEF IsBoard
    <3>2. PICK old \in Messages : old = m[x]
      BY <3>1
    <3>3. /\ [old EXCEPT !.supersededBy = id] \in Messages
          /\ [old EXCEPT !.supersededBy = id].id = old.id
          /\ [old EXCEPT !.supersededBy = id].sentAt = old.sentAt
      BY <1>0 DEF Messages
    <3> HIDE DEF before, id
    <3>4. QED
      BY <1>2, <3>1, <3>2, <3>3
  <2>2. QED
    BY <2>1
<1> HIDE DEF before
<1>4. IsBoard(before)
  <2>1. before = [x \in DOMAIN m |-> before[x]]
    BY <1>2 DEF before, IsBoard
  <2>2. QED
    BY <1>2, <1>3, <2>1 DEF IsBoard
<1>5. marked \in {ImageOf(before, line, owners, aside, told), NoImage}
  <2>1. CASE img = NoImage \/ target = None
    BY <2>1 DEF before
  <2>2. CASE img # NoImage /\ target # None
    <3>1. target \in DOMAIN m /\ img = ImageOf(m, line, owners, aside, told)
      BY <2>2
    <3>2. img.messages = [i \in DOMAIN line |-> m[line[i]]]
      BY <3>1 DEF ImageOf
    <3>3. Place(img, target) \in 1..n /\ line[Place(img, target)] = target
      BY <3>1, <3>2, PlaceFound
    <3>4. img.messages[Place(img, target)] = m[target]
      BY <1>1, <3>2, <3>3
    <3>5. marked = Put(img, replaced)
      BY <2>2, <3>3, <3>4
    <3>6. /\ m[target] \in Messages /\ m[target].id = target
      BY <3>1 DEF IsBoard
    <3>7. replaced \in Messages /\ replaced.id = target /\ replaced.mailbox = m[target].mailbox
      BY <1>0, <3>6 DEF Messages
    <3> HIDE DEF replaced, marked
    <3>8. Put(img, replaced) \in
            {ImageOf([m EXCEPT ![replaced.id] = replaced], line, owners, aside, told), NoImage}
      BY <3>1, <3>7, PutHolds
    <3>9. before = [m EXCEPT ![target] = replaced]
      BY <2>2 DEF before, replaced
    <3>10. QED
      BY <3>5, <3>7, <3>8, <3>9
  <2>3. QED
    BY <2>1, <2>2
<1>6. File(img, new) = IF marked = NoImage THEN NoImage
                       ELSE IF box \notin DOMAIN marked.boxes THEN NoImage
                       ELSE [marked EXCEPT !.boxes[box].counts = Count(@, new),
                                           !.messages = InsertAt(@, Cardinality(earlier) + 1, new)]
  BY DEF File
<1> HIDE DEF marked
<1>7. CASE marked = NoImage \/ box \notin DOMAIN marked.boxes
  BY <1>6, <1>7
<1>8. ASSUME marked # NoImage, box \in DOMAIN marked.boxes
      PROVE  File(img, new) = ImageOf(after, longer, owners, aside, told)
  <2> DEFINE sequence == [i \in DOMAIN line |-> before[line[i]]]
             boxed == BoxesOf(before, owners, aside)
             counted == [boxed EXCEPT ![box].counts = Count(@, new)]
             inserted == InsertAt(sequence, k + 1, new)
  <2>1. marked = [boxes |-> boxed, messages |-> sequence, events |-> told]
    BY <1>5, <1>8 DEF ImageOf
  <2>2. /\ Len(sequence) = n /\ sequence \in Seq(Messages)
        /\ \A i \in 1..n : sequence[i] = before[line[i]]
    BY <1>1, <1>3
  <2> HIDE DEF sequence, boxed
  <2>3. marked.messages = sequence /\ marked.boxes = boxed
    BY <2>1
  <2>4. earlier = {i \in 1..n : m[line[i]].sentAt <= new.sentAt}
    BY <1>1, <1>3, <2>2, <2>3
  <2> HIDE DEF earlier
  <2>5. File(img, new) = [marked EXCEPT !.boxes[box].counts = Count(@, new),
                                        !.messages = InsertAt(@, k + 1, new)]
    BY <1>6, <1>8, <2>4
  <2>6. [marked EXCEPT !.boxes[box].counts = Count(@, new),
                       !.messages = InsertAt(@, k + 1, new)]
          = [boxes |-> counted, messages |-> inserted, events |-> told]
    <3> DEFINE first == [marked EXCEPT !.boxes[box].counts = Count(@, new)]
    <3>1. first = [boxes |-> counted, messages |-> sequence, events |-> told]
      BY <2>1
    <3> HIDE DEF counted
    <3>2. [marked EXCEPT !.boxes[box].counts = Count(@, new),
                         !.messages = InsertAt(@, k + 1, new)]
            = [first EXCEPT !.messages = InsertAt(marked.messages, k + 1, new)]
      OBVIOUS
    <3> HIDE DEF first
    <3>3. PICK placed : placed = InsertAt(sequence, k + 1, new)
      OBVIOUS
    <3>4. [first EXCEPT !.messages = placed]
            = [boxes |-> counted, messages |-> placed, events |-> told]
      BY <3>1
    <3>5. QED
      BY <2>3, <3>2, <3>3, <3>4
  <2>7. inserted = [i \in DOMAIN longer |-> after[longer[i]]]
    <3>1. k \in 0..n
      <4> DEFINE places == {i \in 1..n : m[line[i]].sentAt <= new.sentAt}
      <4>0. n \in Int /\ 1 \in Int /\ n - 1 + 1 = n /\ (1 > n => n = 0)
        OBVIOUS
      <4>1. IsFiniteSet(1..n) /\ Cardinality(1..n) = n /\ places \in SUBSET (1..n)
        BY <4>0, FS_Interval
      <4>2. IsFiniteSet(places) /\ Cardinality(places) <= n
        BY <4>1, FS_Subset
      <4>3. Cardinality(places) \in Nat
        BY <4>2, FS_CardinalityType
      <4>4. k = Cardinality(places)
        OBVIOUS
      <4> HIDE DEF places
      <4>5. QED
        BY <4>2, <4>3, <4>4
    <3>2. inserted = [i \in 1..(n + 1) |-> IF i <= k THEN sequence[i]
                                           ELSE IF i = k + 1 THEN new ELSE sequence[i - 1]]
      BY <2>2, <3>1, InsertedAt
    <3>3. \A x \in DOMAIN m : after[x] = before[x]
      BY <1>2
    <3>4. ASSUME NEW i \in 1..(n + 1)
          PROVE  after[longer[i]] = IF i <= k THEN sequence[i]
                                    ELSE IF i = k + 1 THEN new ELSE sequence[i - 1]
      <4>1. CASE i <= k
        BY <1>1, <2>2, <3>1, <3>3, <4>1
      <4>2. CASE i = k + 1
        <5>1. ~(i <= k)
          BY <3>1, <4>2
        <5>2. longer[i] = new.id
          BY <4>2, <5>1
        <5>3. QED
          BY <4>2, <5>1, <5>2
      <4>3. CASE i > k + 1
        <5>1. i - 1 \in 1..n /\ ~(i <= k) /\ i # k + 1
          BY <3>1, <4>3
        <5>2. longer[i] = line[i - 1]
          BY <5>1
        <5>3. QED
          BY <1>1, <2>2, <3>3, <5>1, <5>2
      <4>4. QED
        BY <3>1, <4>1, <4>2, <4>3
    <3> HIDE DEF inserted
    <3>5. QED
      BY <3>2, <3>4
  <2>8. counted = BoxesOf(after, owners, aside)
    <3>1. /\ CountsOf(after, box) = Count(CountsOf(before, box), new)
          /\ \A name : name # box => CountsOf(after, name) = CountsOf(before, name)
      <4>1. after = [x \in DOMAIN before \cup {new.id} |-> IF x = new.id THEN new ELSE before[x]]
        <5>1. after = [x \in DOMAIN after |-> after[x]]
          OBVIOUS
        <5>2. \A x \in DOMAIN after : after[x] = IF x = new.id THEN new ELSE before[x]
          BY <1>2
        <5>3. QED
          BY <1>2, <5>1, <5>2
      <4>2. new.id \notin DOMAIN before
        BY <1>2
      <4> HIDE <1>02, <1>03
      <4>3. QED
        BY <1>4, <4>1, <4>2, CountsGrow
    <3>2. /\ DOMAIN boxed = DOMAIN owners /\ box \in DOMAIN owners
          /\ \A name \in DOMAIN owners :
               boxed[name] = [owner |-> owners[name], counts |-> CountsOf(before, name),
                              quarantined |-> aside[name]]
      BY <1>8, <2>3 DEF boxed, BoxesOf
    <3>3. counted = [boxed EXCEPT ![box] =
                       [boxed[box] EXCEPT !.counts = Count(boxed[box].counts, new)]]
      OBVIOUS
    <3>4. [boxed[box] EXCEPT !.counts = Count(boxed[box].counts, new)]
            = [owner |-> owners[box], counts |-> Count(CountsOf(before, box), new),
               quarantined |-> aside[box]]
      <4>1. PICK c : c = CountsOf(before, box)
        OBVIOUS
      <4>2. boxed[box] = [owner |-> owners[box], counts |-> c, quarantined |-> aside[box]]
        BY <3>2, <4>1
      <4>3. QED
        BY <4>1, <4>2
    <3> HIDE DEF counted
    <3>5. /\ counted = [name \in DOMAIN owners |-> counted[name]]
          /\ counted[box] = [owner |-> owners[box], counts |-> Count(CountsOf(before, box), new),
                             quarantined |-> aside[box]]
          /\ \A name \in DOMAIN owners : name # box => counted[name] = boxed[name]
      <4>1. boxed = [name \in DOMAIN owners |-> boxed[name]]
        BY DEF boxed, BoxesOf
      <4>2. QED
        BY <3>2, <3>3, <3>4, <4>1
    <3>6. ASSUME NEW name \in DOMAIN owners
          PROVE  counted[name] = [owner |-> owners[name], counts |-> CountsOf(after, name),
                                  quarantined |-> aside[name]]
      <4>1. CASE name = box
        BY <3>1, <3>5, <4>1
      <4>2. CASE name # box
        <5>1. counted[name] = boxed[name] /\ CountsOf(after, name) = CountsOf(before, name)
          BY <3>1, <3>5, <4>2
        <5>2. QED
          BY <3>2, <5>1
      <4>3. QED
        BY <4>1, <4>2
    <3>7. counted = [name \in DOMAIN owners |->
                       [owner |-> owners[name], counts |-> CountsOf(after, name),
                        quarantined |-> aside[name]]]
      BY <3>5, <3>6
    <3>8. QED
      BY <3>7 DEF BoxesOf
  <2> HIDE DEF counted, inserted
  <2>9. QED
    BY <2>5, <2>6, <2>7, <2>8 DEF ImageOf
<1>9. QED
  BY <1>7, <1>8

-----------------------------------------------------------------------------
(* The board of the tables.                                                *)

\* No two messages are numbered alike.
InTurn == \A a, b \in DOMAIN rows : rows[a].ordinal = rows[b].ordinal => a = b

Ordered == TablesOK /\ OneReplacement /\ Filed /\ InTurn

Line == [i \in 1..Cardinality(Readable) |-> CHOOSE id \in Readable : Rank(id) = i]

Cards == [id \in Readable |-> Message(id)]

Aside ==
  [name \in DOMAIN boxes |-> {id \in DOMAIN rows \ Readable : rows[id].mailbox = name}]

\* What replaces a message, by name.
ReplacedByName ==
  \A id \in Ids :
    /\ \A s \in Readable : rows[s].supersedes = id => SupersededBy(id) = s
    /\ (\A s \in Readable : rows[s].supersedes # id) => SupersededBy(id) = None

LEMMA NamedReplacement == Ordered => ReplacedByName
<1> SUFFICES ASSUME Ordered, NEW id \in Ids
             PROVE  /\ \A s \in Readable : rows[s].supersedes = id => SupersededBy(id) = s
                    /\ (\A s \in Readable : rows[s].supersedes # id) => SupersededBy(id) = None
  BY DEF ReplacedByName
<1> DEFINE by == {s \in DOMAIN rows : rows[s].supersedes = id /\ rows[s].state # "quarantined"}
<1>1. TablesOK /\ by = {s \in Readable : rows[s].supersedes = id}
  BY DEF Ordered, Readable
<1>2. ASSUME NEW s \in Readable, rows[s].supersedes = id
      PROVE  SupersededBy(id) = s
  <2>1. id # None /\ s \in DOMAIN rows /\ rows[s].ordinal \in Nat
    BY <1>1, RowFields, NoneAssumption DEF Readable
  <2>2. by = {s}
    BY <1>1, <1>2, <2>1 DEF Ordered, OneReplacement
  <2>3. SupersededBy(id) = CHOOSE t \in by : \A u \in by : rows[u].ordinal <= rows[t].ordinal
    BY <2>2 DEF SupersededBy
  <2> HIDE DEF by
  <2>4. \A t \in by : t = s
    BY <2>2
  <2>5. s \in by /\ \A u \in by : rows[u].ordinal <= rows[s].ordinal
    BY <2>1, <2>2
  <2>6. SupersededBy(id) \in by
    BY <2>3, <2>5
  <2>7. QED
    BY <2>4, <2>6
<1>3. ASSUME \A s \in Readable : rows[s].supersedes # id
      PROVE  SupersededBy(id) = None
  BY <1>1, <1>3 DEF SupersededBy
<1>4. QED
  BY <1>2, <1>3

\* The readable messages stand in one line.
LinedUp ==
  /\ IsFiniteSet(Readable) /\ Cardinality(Readable) \in Nat
  /\ Numbers(Line, Cardinality(Readable), Readable)
  /\ \A id \in Readable : Rank(id) \in 1..Cardinality(Readable) /\ Line[Rank(id)] = id
  /\ \A i \in 1..Cardinality(Readable) : Rank(Line[i]) = i
  /\ \A a, b \in Readable : Rank(a) < Rank(b) => Before(a, b)
  /\ \A a, b \in Readable : Rank(a) < Rank(b) => rows[a].sentAt <= rows[b].sentAt

LEMMA LineUp == Ordered => LinedUp
<1> SUFFICES ASSUME Ordered PROVE LinedUp
  OBVIOUS
<1> DEFINE n == Cardinality(Readable)
           upTo(id) == {other \in Readable : ~Before(id, other)}
           rank == [id \in Readable |-> Rank(id)]
<1>1. TablesOK /\ Filed /\ InTurn
  BY DEF Ordered
<1>2. IsFiniteSet(Readable) /\ n \in Nat /\ Readable \subseteq DOMAIN rows
  <2>1. Readable \in SUBSET DOMAIN rows
    BY DEF Readable
  <2>2. IsFiniteSet(Readable)
    BY <1>1, <2>1, FS_Subset DEF Filed
  <2>3. QED
    BY <2>1, <2>2, FS_CardinalityType
<1>3. \A id \in Readable : rows[id].sentAt \in Nat /\ rows[id].ordinal \in Nat
  BY <1>1, <1>2, RowFields, InstantsAssumption
<1>4. ASSUME NEW id \in Readable
      PROVE  /\ IsFiniteSet(upTo(id)) /\ id \in upTo(id)
             /\ Rank(id) = Cardinality(upTo(id)) /\ Rank(id) \in 1..n
  <2>1. upTo(id) \in SUBSET Readable
    OBVIOUS
  <2>2. id \in upTo(id)
    BY <1>3 DEF Before
  <2>3. IsFiniteSet(upTo(id)) /\ Cardinality(upTo(id)) <= n
    BY <1>2, <2>1, FS_Subset
  <2>4. Cardinality(upTo(id)) \in Nat /\ Cardinality(upTo(id)) # 0
    BY <2>2, <2>3, FS_CardinalityType, FS_EmptySet
  <2>5. Rank(id) = Cardinality(upTo(id))
    BY DEF Rank
  <2> HIDE DEF upTo, n
  <2>6. Rank(id) \in 1..n
    BY <1>2, <2>3, <2>4, <2>5
  <2>7. QED
    BY <2>2, <2>3, <2>5, <2>6
<1>5. ASSUME NEW a \in Readable, NEW b \in Readable, Before(a, b)
      PROVE  Rank(a) < Rank(b)
  <2>1. \A o \in Readable : ~Before(a, o) => ~Before(b, o)
    BY <1>3, <1>5 DEF Before
  <2>2. upTo(a) \in SUBSET upTo(b) /\ b \in upTo(b) /\ b \notin upTo(a)
    BY <1>4, <1>5, <2>1
  <2>3. /\ IsFiniteSet(upTo(b)) /\ Rank(a) = Cardinality(upTo(a))
        /\ Rank(b) = Cardinality(upTo(b))
    BY <1>4
  <2> HIDE DEF upTo
  <2>4. QED
    BY <2>2, <2>3, FewerCount
<1>6. \A a, b \in Readable : a = b \/ Before(a, b) \/ Before(b, a)
  <2>1. \A a, b \in Readable : rows[a].ordinal = rows[b].ordinal => a = b
    BY <1>1, <1>2 DEF InTurn
  <2>2. QED
    BY <1>3, <2>1 DEF Before
<1>70. /\ \A id \in Readable : rank[id] = Rank(id) /\ Rank(id) \in Int
       /\ \A a, b \in Readable : Before(a, b) => Rank(a) < Rank(b)
  <2>1. \A id \in Readable : Rank(id) \in Int
    <3>1. \A id \in Readable : Rank(id) \in 1..n
      BY <1>4
    <3> HIDE DEF n
    <3>2. QED
      BY <3>1
  <2>2. QED
    BY <1>5, <2>1
<1>7. \A a, b \in Readable : rank[a] = rank[b] => a = b
  <2> HIDE DEF rank
  <2>1. QED
    BY <1>6, <1>70
<1>71. /\ \A a, b \in Readable : Rank(a) < Rank(b) => Before(a, b)
       /\ \A a, b \in Readable : Rank(a) < Rank(b) => rows[a].sentAt <= rows[b].sentAt
  <2>1. \A a, b \in Readable : Rank(a) < Rank(b) => Before(a, b)
    <3> HIDE DEF rank
    <3>1. QED
      BY <1>6, <1>70
  <2>2. \A a, b \in Readable : Rank(a) < Rank(b) => rows[a].sentAt <= rows[b].sentAt
    BY <1>3, <2>1 DEF Before
  <2>3. QED
    BY <2>1, <2>2
<1>8. rank \in [Readable -> 1..n]
  BY <1>4
<1>9. Line = [i \in 1..n |-> CHOOSE id \in Readable : rank[id] = i]
  <2>1. \A i \in 1..n : (CHOOSE id \in Readable : rank[id] = i) = CHOOSE id \in Readable : Rank(id) = i
    OBVIOUS
  <2>2. QED
    BY <2>1 DEF Line
<1>10. \A id \in Readable : rank[id] = Rank(id)
  OBVIOUS
<1> HIDE DEF rank
<1>11. /\ Numbers(Line, n, Readable)
       /\ \A id \in Readable : Line[rank[id]] = id
       /\ \A i \in 1..n : rank[Line[i]] = i
  BY <1>2, <1>7, <1>8, <1>9, RanksNumber
<1>12. \A i \in 1..n : Line[i] \in Readable
  BY <1>11 DEF Numbers
<1>13. QED
  BY <1>2, <1>4, <1>71, <1>10, <1>11, <1>12 DEF LinedUp

CardsHeld ==
  /\ IsBoard(Cards) /\ DOMAIN Cards = Readable
  /\ \A id \in Readable : Cards[id] = Message(id)

LEMMA CardsHold == Ordered => CardsHeld
<1> SUFFICES ASSUME Ordered PROVE CardsHeld
  OBVIOUS
<1>1. TablesOK /\ ReplacedByName /\ IsFiniteSet(Readable) /\ Readable \subseteq DOMAIN rows
  BY NamedReplacement, LineUp DEF Ordered, LinedUp, Readable
<1>2. DOMAIN Cards = Readable /\ \A id \in Readable : Cards[id] = Message(id)
  BY DEF Cards
<1>3. ASSUME NEW id \in Readable
      PROVE  Message(id) \in Messages /\ Message(id).id = id /\ id \in Ids
  <2>1. /\ id \in Ids /\ rows[id].mailbox \in Names /\ rows[id].sender \in Senders
        /\ rows[id].sentAt \in Instants /\ rows[id].state \in States
        /\ rows[id].supersedes \in Ids \cup {None} /\ rows[id].takenBy \in Taken \cup {None}
    BY <1>1, RowFields
  <2>2. rows[id].state \in {"new", "read", "processed"}
    BY <2>1 DEF Readable, States
  <2>3. SupersededBy(id) \in Ids \cup {None}
    <3>1. \A s \in Readable : s \in Ids
      BY <1>1, RowFields
    <3>2. QED
      BY <1>1, <2>1, <3>1 DEF ReplacedByName
  <2>4. QED
    BY <2>1, <2>2, <2>3 DEF Message, Messages, States
<1>4. QED
  BY <1>1, <1>2, <1>3 DEF CardsHeld, IsBoard, Cards

\* A full read of the store is the image of its cards in their line.
LoadedIsImage == Loaded = ImageOf(Cards, Line, boxes, Aside, events)

LEMMA LoadedIs == Ordered => LoadedIsImage
<1> SUFFICES ASSUME Ordered PROVE LoadedIsImage
  OBVIOUS
<1>1. LinedUp /\ CardsHeld
  BY LineUp, CardsHold
<1>2. Board = [i \in DOMAIN Line |-> Cards[Line[i]]]
  <2>1. /\ DOMAIN Line = 1..Cardinality(Readable)
        /\ \A i \in 1..Cardinality(Readable) :
             /\ Line[i] = CHOOSE id \in Readable : Rank(id) = i
             /\ Line[i] \in Readable
    BY <1>1 DEF Line, LinedUp, Numbers
  <2>2. \A i \in 1..Cardinality(Readable) :
          Message(CHOOSE id \in Readable : Rank(id) = i) = Cards[Line[i]]
    BY <1>1, <2>1 DEF CardsHeld
  <2>3. QED
    BY <2>1, <2>2 DEF Board
<1>3. ASSUME NEW name
      PROVE  Tally(name) = CountsOf(Cards, name)
  <2> DEFINE of(state) == {id \in Readable : rows[id].mailbox = name /\ rows[id].state = state}
             replaced == {id \in of("new") : SupersededBy(id) # None}
  <2>1. Tally(name) = [new |-> Cardinality(of("new")) - Cardinality(replaced),
                       superseded |-> Cardinality(replaced),
                       read |-> Cardinality(of("read")),
                       processed |-> Cardinality(of("processed"))]
    BY DEF Tally
  <2>2. \A id \in Readable : /\ Cards[id].mailbox = rows[id].mailbox
                             /\ Cards[id].state = rows[id].state
                             /\ Cards[id].supersededBy = SupersededBy(id)
    BY <1>1 DEF CardsHeld, Message
  <2>3. /\ replaced = InClass(Cards, name, "superseded")
        /\ of("new") \ replaced = InClass(Cards, name, "new")
        /\ of("read") = InClass(Cards, name, "read")
        /\ of("processed") = InClass(Cards, name, "processed")
    <3>1. \A id \in Readable : rows[id].state \in {"new", "read", "processed"}
      BY <1>1 DEF CardsHeld, IsBoard, Messages, Message, States
    <3>2. \A id \in Readable : Class(Cards[id]) =
            IF rows[id].state = "new" /\ SupersededBy(id) # None THEN "superseded"
            ELSE rows[id].state
      BY <2>2 DEF Class, Withheld
    <3>3. \A c : InClass(Cards, name, c) =
            {id \in Readable : rows[id].mailbox = name /\ Class(Cards[id]) = c}
      BY <1>1, <2>2 DEF InClass, CardsHeld
    <3>4. QED
      BY <3>1, <3>2, <3>3
  <2>4. IsFiniteSet(of("new"))
    <3>1. of("new") \in SUBSET Readable
      OBVIOUS
    <3>2. QED
      BY <1>1, <3>1, FS_Subset DEF LinedUp
  <2>5. Cardinality(of("new") \ replaced) = Cardinality(of("new")) - Cardinality(replaced)
    <3>1. of("new") \cap replaced = replaced
      OBVIOUS
    <3>2. QED
      BY <2>4, <3>1, FS_Difference
  <2> HIDE DEF of, replaced
  <2>6. QED
    BY <2>1, <2>3, <2>5 DEF CountsOf
<1>4. Boxes = BoxesOf(Cards, boxes, Aside)
  BY <1>3 DEF Boxes, BoxesOf, Aside
<1>5. QED
  BY <1>2, <1>4 DEF Loaded, LoadedIsImage, ImageOf

LEMMA NextTables ==
  Ordered' => ReplacedByName' /\ LinedUp' /\ CardsHeld' /\ LoadedIsImage'
<1>1. Ordered => ReplacedByName /\ LinedUp /\ CardsHeld /\ LoadedIsImage
  BY NamedReplacement, LineUp, CardsHold, LoadedIs
<1>2. QED
  BY <1>1, PTL

-----------------------------------------------------------------------------
(* The image follows a verb that files nothing.                            *)

\* Every message stays where it is: only states and takings are written.
Standing ==
  /\ DOMAIN rows' = DOMAIN rows /\ Readable' = Readable /\ boxes' = boxes
  /\ \A id \in DOMAIN rows :
       /\ rows'[id].mailbox = rows[id].mailbox /\ rows'[id].sender = rows[id].sender
       /\ rows'[id].sentAt = rows[id].sentAt /\ rows'[id].ordinal = rows[id].ordinal
       /\ rows'[id].supersedes = rows[id].supersedes

LEMMA StandsInLine ==
  Ordered /\ Ordered' /\ Standing =>
    /\ Line' = Line /\ Aside' = Aside
    /\ \A id \in Readable :
         /\ Cards'[id] = Message(id)'
         /\ Message(id)' = [Cards[id] EXCEPT !.state = rows'[id].state,
                                             !.takenBy = rows'[id].takenBy]
<1> SUFFICES ASSUME Ordered, Ordered', Standing
             PROVE  /\ Line' = Line /\ Aside' = Aside
                    /\ \A id \in Readable :
                         /\ Cards'[id] = Message(id)'
                         /\ Message(id)' = [Cards[id] EXCEPT !.state = rows'[id].state,
                                                             !.takenBy = rows'[id].takenBy]
  OBVIOUS
<1>1. /\ ReplacedByName /\ ReplacedByName' /\ CardsHeld /\ CardsHeld'
      /\ Readable \subseteq DOMAIN rows /\ Readable \subseteq Ids
  <2>1. ReplacedByName /\ CardsHeld
    BY NamedReplacement, CardsHold
  <2>2. ReplacedByName' /\ CardsHeld'
    BY NextTables
  <2>3. Readable \subseteq DOMAIN rows /\ DOMAIN rows \subseteq Ids
    BY DEF Readable, Ordered, TablesOK
  <2>4. QED
    BY <2>1, <2>2, <2>3
<1>2. ASSUME NEW id \in Readable
      PROVE  Rank(id)' = Rank(id)
  <2>1. \A other \in Readable : Before(id, other)' <=> Before(id, other)
    BY <1>1 DEF Standing, Before
  <2>2. {other \in Readable' : ~Before(id, other)'} = {other \in Readable : ~Before(id, other)}
    BY <2>1 DEF Standing
  <2>3. QED
    BY <2>2 DEF Rank
<1>3. Line' = Line
  <2>1. ASSUME NEW i \in 1..Cardinality(Readable)
        PROVE  (CHOOSE id \in Readable : Rank(id)' = i) = CHOOSE id \in Readable : Rank(id) = i
    BY <1>2
  <2>2. Line' = [i \in 1..Cardinality(Readable) |-> CHOOSE id \in Readable : Rank(id)' = i]
    BY DEF Line, Standing
  <2>3. QED
    BY <2>1, <2>2 DEF Line
<1>4. Aside' = Aside
  BY DEF Aside, Standing
<1>5. ASSUME NEW id \in Readable
      PROVE  SupersededBy(id)' = SupersededBy(id)
  <2>1. \A s \in Readable : rows'[s].supersedes = rows[s].supersedes
    BY <1>1 DEF Standing
  <2>2. id \in Ids
    BY <1>1
  <2>3. CASE \A s \in Readable : rows[s].supersedes # id
    <3>1. SupersededBy(id) = None
      BY <1>1, <2>2, <2>3 DEF ReplacedByName
    <3>2. \A s \in Readable' : rows'[s].supersedes # id
      BY <2>1, <2>3 DEF Standing
    <3>3. SupersededBy(id)' = None
      BY <1>1, <2>2, <3>2 DEF ReplacedByName
    <3>4. QED
      BY <3>1, <3>3
  <2>4. ASSUME NEW s \in Readable, rows[s].supersedes = id
        PROVE  SupersededBy(id)' = SupersededBy(id)
    <3>1. SupersededBy(id) = s
      BY <1>1, <2>2, <2>4 DEF ReplacedByName
    <3>2. s \in Readable' /\ rows'[s].supersedes = id
      BY <2>1, <2>4 DEF Standing
    <3>3. SupersededBy(id)' = s
      BY <1>1, <2>2, <3>2 DEF ReplacedByName
    <3>4. QED
      BY <3>1, <3>3
  <2>5. QED
    BY <2>3, <2>4
<1>6. ASSUME NEW id \in Readable
      PROVE  /\ Cards'[id] = Message(id)'
             /\ Message(id)' = [Cards[id] EXCEPT !.state = rows'[id].state,
                                                 !.takenBy = rows'[id].takenBy]
  <2>1. Cards'[id] = Message(id)'
    BY <1>1 DEF CardsHeld, Standing
  <2>2. /\ id \in DOMAIN rows /\ SupersededBy(id)' = SupersededBy(id)
        /\ rows'[id].mailbox = rows[id].mailbox /\ rows'[id].sender = rows[id].sender
        /\ rows'[id].sentAt = rows[id].sentAt /\ rows'[id].supersedes = rows[id].supersedes
    BY <1>1, <1>5 DEF Standing
  <2>3. Message(id)' =
          [id |-> id, mailbox |-> rows[id].mailbox, sender |-> rows[id].sender,
           sentAt |-> rows[id].sentAt, state |-> rows'[id].state,
           supersedes |-> rows[id].supersedes, supersededBy |-> SupersededBy(id),
           takenBy |-> rows'[id].takenBy]
    BY <2>2 DEF Message
  <2>4. Cards[id] =
          [id |-> id, mailbox |-> rows[id].mailbox, sender |-> rows[id].sender,
           sentAt |-> rows[id].sentAt, state |-> rows[id].state,
           supersedes |-> rows[id].supersedes, supersededBy |-> SupersededBy(id),
           takenBy |-> rows[id].takenBy]
    BY <1>1 DEF CardsHeld, Message
  <2>5. PICK state, taking : state = rows'[id].state /\ taking = rows'[id].takenBy
    OBVIOUS
  <2>6. [Cards[id] EXCEPT !.state = state, !.takenBy = taking] =
          [id |-> id, mailbox |-> rows[id].mailbox, sender |-> rows[id].sender,
           sentAt |-> rows[id].sentAt, state |-> state,
           supersedes |-> rows[id].supersedes, supersededBy |-> SupersededBy(id),
           takenBy |-> taking]
    <3>1. PICK box, sender, at, was, target, by, took :
            /\ box = rows[id].mailbox /\ sender = rows[id].sender /\ at = rows[id].sentAt
            /\ was = rows[id].state /\ target = rows[id].supersedes /\ by = SupersededBy(id)
            /\ took = rows[id].takenBy
      OBVIOUS
    <3>2. PICK card : card = Cards[id]
      OBVIOUS
    <3>3. card = [id |-> id, mailbox |-> box, sender |-> sender, sentAt |-> at, state |-> was,
                  supersedes |-> target, supersededBy |-> by, takenBy |-> took]
      BY <2>4, <3>1, <3>2
    <3>4. [card EXCEPT !.state = state, !.takenBy = taking] =
            [id |-> id, mailbox |-> box, sender |-> sender, sentAt |-> at, state |-> state,
             supersedes |-> target, supersededBy |-> by, takenBy |-> taking]
      <4>1. PICK moved : moved = [card EXCEPT !.state = state]
        OBVIOUS
      <4>2. moved = [id |-> id, mailbox |-> box, sender |-> sender, sentAt |-> at,
                     state |-> state, supersedes |-> target, supersededBy |-> by,
                     takenBy |-> took]
        BY <3>3, <4>1
      <4>3. [moved EXCEPT !.takenBy = taking] =
              [id |-> id, mailbox |-> box, sender |-> sender, sentAt |-> at, state |-> state,
               supersedes |-> target, supersededBy |-> by, takenBy |-> taking]
        BY <4>2
      <4>4. [card EXCEPT !.state = state, !.takenBy = taking] = [moved EXCEPT !.takenBy = taking]
        BY <4>1
      <4>5. QED
        BY <4>3, <4>4
    <3>5. QED
      BY <3>1, <3>2, <3>4
  <2>7. QED
    BY <2>1, <2>3, <2>5, <2>6
<1>7. QED
  BY <1>3, <1>4, <1>6

\* One message is held as it is now; nothing else moved.
LEMMA OneFollowed ==
  ASSUME Ordered, Ordered', Standing, NEW id \in Readable,
         \A other \in Readable \ {id} : rows'[other] = rows[other],
         NEW img, img \in {ImageOf(Cards, Line, boxes, Aside, events'), NoImage}
  PROVE  Put(img, Message(id)') \in {Loaded', NoImage}
<1>1. LinedUp /\ CardsHeld /\ CardsHeld' /\ LoadedIsImage'
  BY LineUp, CardsHold, NextTables
<1>2. /\ Line' = Line /\ Aside' = Aside
      /\ \A other \in Readable :
           /\ Cards'[other] = Message(other)'
           /\ Message(other)' = [Cards[other] EXCEPT !.state = rows'[other].state,
                                                     !.takenBy = rows'[other].takenBy]
  BY StandsInLine
<1>3. DOMAIN Cards = Readable /\ DOMAIN Cards' = Readable /\ Readable \subseteq DOMAIN rows
  BY <1>1 DEF CardsHeld, Standing, Readable
<1>4. ASSUME NEW other \in Readable \ {id}
      PROVE  Cards'[other] = Cards[other]
  <2>1. Cards[other].state = rows[other].state /\ Cards[other].takenBy = rows[other].takenBy
    BY <1>1 DEF CardsHeld, Message
  <2>2. Cards[other] \in Messages
    BY <1>1, <1>3 DEF CardsHeld, IsBoard
  <2>3. [Cards[other] EXCEPT !.state = Cards[other].state, !.takenBy = Cards[other].takenBy]
          = Cards[other]
    <3>1. PICK card \in Messages : card = Cards[other]
      BY <2>2
    <3>2. [card EXCEPT !.state = card.state, !.takenBy = card.takenBy] = card
      BY DEF Messages
    <3>3. QED
      BY <3>1, <3>2
  <2>4. rows'[other].state = Cards[other].state /\ rows'[other].takenBy = Cards[other].takenBy
    BY <2>1
  <2>5. Cards'[other] = [Cards[other] EXCEPT !.state = rows'[other].state,
                                             !.takenBy = rows'[other].takenBy]
    BY <1>2
  <2>6. QED
    BY <2>3, <2>4, <2>5
<1>5. /\ Message(id)' \in Messages /\ Message(id)'.id = id
      /\ Message(id)'.mailbox = Cards[id].mailbox
  <2>1. Message(id)' \in Messages /\ Message(id)'.id = id
    <3>1. IsBoard(Cards')
      BY <1>1 DEF CardsHeld
    <3>2. Cards'[id] \in Messages /\ Cards'[id].id = id
      BY <1>3, <3>1 DEF IsBoard
    <3>3. QED
      BY <1>2, <3>2
  <2>2. Cards[id] \in Messages
    BY <1>1, <1>3 DEF CardsHeld, IsBoard
  <2>3. QED
    BY <1>2, <2>1, <2>2 DEF Messages
<1>6. Cards' = [Cards EXCEPT ![id] = Message(id)']
  <2>1. Cards' = [other \in Readable |-> Cards'[other]] /\ Cards = [other \in Readable |-> Cards[other]]
    BY <1>1, <1>3 DEF CardsHeld, IsBoard
  <2>2. QED
    BY <1>2, <1>4, <2>1
<1>7. PICK new : new = Message(id)'
  OBVIOUS
<1>8. Put(img, new) \in {ImageOf([Cards EXCEPT ![new.id] = new], Line, boxes, Aside, events'), NoImage}
  <2>1. IsBoard(Cards) /\ Numbers(Line, Cardinality(Readable), DOMAIN Cards)
        /\ Cardinality(Readable) \in Nat
    BY <1>1 DEF CardsHeld, LinedUp
  <2>2. new \in Messages /\ new.id \in DOMAIN Cards /\ Cards[new.id].mailbox = new.mailbox
    BY <1>3, <1>5, <1>7
  <2>3. QED
    BY <2>1, <2>2, PutHolds
<1>9. Loaded' = ImageOf([Cards EXCEPT ![new.id] = new], Line, boxes, Aside, events')
  <2>1. Loaded' = ImageOf(Cards', Line', boxes', Aside', events')
    BY <1>1 DEF LoadedIsImage
  <2>2. QED
    BY <1>2, <1>5, <1>6, <1>7, <2>1 DEF Standing
<1>10. QED
  BY <1>7, <1>8, <1>9

\* The image is the store's, or there is none.
LEMMA Agreeing ==
  Ordered /\ ImageIsStore => image \in {ImageOf(Cards, Line, boxes, Aside, events), NoImage}
BY LoadedIs DEF LoadedIsImage, ImageIsStore

LEMMA ReadMessageFollowed ==
  ASSUME Ordered, Ordered', ImageIsStore, NEW id \in DOMAIN rows, ReadMessage(id)
  PROVE  ImageIsStore'
<1>1. TablesOK /\ id \in Readable /\ boxes' = boxes /\ id \in Ids
      /\ image \in {ImageOf(Cards, Line, boxes, Aside, events), NoImage}
  BY Agreeing DEF Ordered, ReadMessage, TablesOK
<1>2. ASSUME NEW img, img \in {ImageOf(Cards, Line, boxes, Aside, events'), NoImage}, Standing,
             \A other \in Readable \ {id} : rows'[other] = rows[other],
             Follow(Put(img, Message(id)'))
      PROVE  ImageIsStore'
  <2>1. Put(img, Message(id)') \in {Loaded', NoImage}
    BY <1>1, <1>2, OneFollowed
  <2>2. QED
    BY <1>2, <2>1 DEF Follow, Refill, ImageIsStore
<1>3. CASE rows[id].state = "new"
  <2>1. /\ rows' = [rows EXCEPT ![id].state = "read", ![id].takenBy = "reading"]
        /\ events' = [events EXCEPT ![id] =
                        Append(@, NextEvent(@, "read", rows[id].mailbox, "new"))]
        /\ Follow(Put(Record(image, id, "read", rows[id].mailbox, "new"), Message(id)'))
    BY <1>3 DEF ReadMessage
  <2>2. /\ DOMAIN rows' = DOMAIN rows /\ rows[id] \in Rows
        /\ rows'[id] = [rows[id] EXCEPT !.state = "read", !.takenBy = "reading"]
        /\ \A other \in DOMAIN rows \ {id} : rows'[other] = rows[other]
    BY <1>1, <2>1 DEF TablesOK
  <2>3. /\ rows'[id].state = "read"
        /\ rows'[id].mailbox = rows[id].mailbox /\ rows'[id].sender = rows[id].sender
        /\ rows'[id].sentAt = rows[id].sentAt /\ rows'[id].ordinal = rows[id].ordinal
        /\ rows'[id].supersedes = rows[id].supersedes
    BY <2>2 DEF Rows
  <2>4. Standing
    <3>1. Readable' = Readable
      BY <1>1, <2>2, <2>3 DEF Readable
    <3>2. QED
      BY <1>1, <2>2, <2>3, <3>1 DEF Standing
  <2>5. PICK img : img = Record(image, id, "read", rows[id].mailbox, "new")
    OBVIOUS
  <2>6. img \in {ImageOf(Cards, Line, boxes, Aside, events'), NoImage}
    <3>1. id \in DOMAIN events
      BY <1>1 DEF TablesOK
    <3>2. img \in {ImageOf(Cards, Line, boxes, Aside,
                      [events EXCEPT ![id] = Append(@, NextEvent(@, "read", rows[id].mailbox, "new"))]),
                   NoImage}
      BY <1>1, <2>5, <3>1, RecordTells
    <3>3. QED
      BY <2>1, <3>2
  <2>7. QED
    BY <1>2, <2>1, <2>2, <2>4, <2>5, <2>6 DEF Readable
<1>4. CASE rows[id].state # "new"
  <2>1. rows' = rows /\ events' = events /\ Follow(Put(image, Message(id)'))
    BY <1>4 DEF ReadMessage
  <2>2. Standing
    BY <1>1, <2>1 DEF Standing, Readable
  <2>3. PICK img : img = image
    OBVIOUS
  <2>4. QED
    BY <1>1, <1>2, <2>1, <2>2, <2>3
<1>5. QED
  BY <1>3, <1>4

LEMMA MarkFollowed ==
  ASSUME Ordered, Ordered', ImageIsStore, NEW id \in DOMAIN rows, NEW by \in Names,
         MarkProcessed(id, by)
  PROVE  ImageIsStore'
<1>1. TablesOK /\ id \in Readable /\ boxes' = boxes /\ id \in Ids
      /\ image \in {ImageOf(Cards, Line, boxes, Aside, events), NoImage}
  BY Agreeing DEF Ordered, MarkProcessed, TablesOK
<1>2. CASE rows[id].state = "processed"
  <2>1. rows' = rows /\ events' = events /\ Follow(image)
    BY <1>2 DEF MarkProcessed
  <2>2. Loaded' = Loaded
    BY <1>1, <2>1 DEF Loaded, Boxes, Board, Tally, SupersededBy, Message, Readable, Rank, Before
  <2>3. QED
    BY <2>1, <2>2 DEF Follow, Refill, ImageIsStore
<1>3. CASE rows[id].state # "processed"
  <2>1. /\ rows' = [rows EXCEPT ![id].state = "processed"]
        /\ events' = [events EXCEPT ![id] =
                        Append(@, NextEvent(@, "processed", by, rows[id].state))]
        /\ Follow(Put(Record(image, id, "processed", by, rows[id].state), Message(id)'))
    BY <1>3 DEF MarkProcessed
  <2>2. /\ DOMAIN rows' = DOMAIN rows /\ rows[id] \in Rows
        /\ rows'[id] = [rows[id] EXCEPT !.state = "processed"]
        /\ \A other \in DOMAIN rows \ {id} : rows'[other] = rows[other]
    BY <1>1, <2>1 DEF TablesOK
  <2>3. /\ rows'[id].state = "processed"
        /\ rows'[id].mailbox = rows[id].mailbox /\ rows'[id].sender = rows[id].sender
        /\ rows'[id].sentAt = rows[id].sentAt /\ rows'[id].ordinal = rows[id].ordinal
        /\ rows'[id].supersedes = rows[id].supersedes
    BY <2>2 DEF Rows
  <2>4. Standing
    BY <1>1, <2>2, <2>3 DEF Standing, Readable
  <2>5. PICK img : img = Record(image, id, "processed", by, rows[id].state)
    OBVIOUS
  <2>6. img \in {ImageOf(Cards, Line, boxes, Aside, events'), NoImage}
    <3>1. id \in DOMAIN events
      BY <1>1 DEF TablesOK
    <3>2. img \in {ImageOf(Cards, Line, boxes, Aside,
                      [events EXCEPT ![id] = Append(@, NextEvent(@, "processed", by, rows[id].state))]),
                   NoImage}
      BY <1>1, <2>5, <3>1, RecordTells
    <3>3. QED
      BY <2>1, <3>2
  <2>7. Put(img, Message(id)') \in {Loaded', NoImage}
    BY <1>1, <2>2, <2>4, <2>6, OneFollowed DEF Readable
  <2>8. QED
    BY <2>1, <2>5, <2>7 DEF Follow, Refill, ImageIsStore
<1>4. QED
  BY <1>2, <1>3

LEMMA RefillFollowed == Refill => ImageIsStore'
BY DEF Refill, ImageIsStore

-----------------------------------------------------------------------------
(* The image follows a message that is filed.                              *)

\* Places that hold every place before them are the first ones.
LEMMA FirstPlaces ==
  ASSUME NEW n \in Nat, NEW places \in SUBSET (1..n),
         \A i, j \in 1..n : i < j /\ j \in places => i \in places
  PROVE  Cardinality(places) \in 0..n /\ places = 1..Cardinality(places)
<1> DEFINE k == Cardinality(places)
<1>1. IsFiniteSet(1..n) /\ Cardinality(1..n) = n
  <2>1. n \in Int /\ 1 \in Int /\ n - 1 + 1 = n /\ (1 > n => n = 0)
    OBVIOUS
  <2>2. QED
    BY <2>1, FS_Interval
<1>2. IsFiniteSet(places) /\ k \in Nat /\ k <= n
  BY <1>1, FS_Subset, FS_CardinalityType
<1>3. ASSUME NEW i \in places PROVE i <= k
  <2>1. i \in 1..n
    OBVIOUS
  <2>2. 1..i \in SUBSET places
    <3>1. \A j \in 1..i : j \in 1..n /\ (j < i \/ j = i)
      BY <2>1
    <3>2. QED
      BY <1>3, <2>1, <3>1
  <2>3. Cardinality(1..i) <= k
    BY <1>2, <2>2, FS_Subset
  <2>4. Cardinality(1..i) = i
    <3>1. i \in Int /\ 1 \in Int /\ i - 1 + 1 = i /\ ~(1 > i)
      BY <2>1
    <3>2. QED
      BY <3>1, FS_Interval
  <2>5. QED
    BY <2>3, <2>4
<1>4. IsFiniteSet(1..k) /\ Cardinality(1..k) = k
  <2>1. k \in Int /\ 1 \in Int /\ k - 1 + 1 = k /\ (1 > k => k = 0)
    BY <1>2
  <2> HIDE DEF k
  <2>2. QED
    BY <2>1, FS_Interval
<1>5. places \in SUBSET (1..k)
  <2>1. \A i \in places : i \in 1..n
    OBVIOUS
  <2> HIDE DEF k
  <2>2. QED
    BY <1>2, <1>3, <2>1
<1>6. places = 1..k
  BY <1>4, <1>5, FS_Subset
<1>7. QED
  BY <1>2, <1>6

LEMMA PostFollowed ==
  ASSUME Ordered, Ordered', Replaces, ImageIsStore,
         NEW id \in Ids, NEW name \in Names, NEW sender \in Senders, NEW at \in Instants,
         NEW target \in DOMAIN rows \cup {None}, PostMessage(id, name, sender, at, target)
  PROVE  ImageIsStore'
<1> DEFINE n == Cardinality(Readable)
           places == {i \in 1..n : Cards[Line[i]].sentAt <= at}
           k == Cardinality(places)
<1>1. /\ TablesOK /\ ReplacedByName /\ ReplacedByName' /\ LinedUp /\ LinedUp'
      /\ CardsHeld /\ CardsHeld' /\ LoadedIsImage'
      /\ image \in {ImageOf(Cards, Line, boxes, Aside, events), NoImage}
  BY NamedReplacement, LineUp, CardsHold, NextTables, Agreeing DEF Ordered
<1>2. /\ id \notin DOMAIN rows /\ boxes' = boxes /\ events' = events
      /\ target # None => target \in Readable /\ SupersededBy(target) = None
      /\ rows' = [m \in DOMAIN rows \cup {id} |->
                    IF m = id THEN NewRow(name, sender, at, target) ELSE rows[m]]
      /\ Follow(File(image, Message(id)'))
  BY DEF PostMessage
<1>3. /\ DOMAIN rows' = DOMAIN rows \cup {id} /\ rows'[id] = NewRow(name, sender, at, target)
      /\ \A x \in DOMAIN rows : rows'[x] = rows[x]
  BY <1>2
<1>4. /\ rows'[id].mailbox = name /\ rows'[id].sender = sender /\ rows'[id].sentAt = at
      /\ rows'[id].state = "new" /\ rows'[id].supersedes = target /\ rows'[id].takenBy = None
      /\ rows'[id].ordinal = Cardinality(DOMAIN rows) + 1
  BY <1>3 DEF NewRow
<1>5. /\ Readable' = Readable \cup {id} /\ id \notin Readable /\ Readable \subseteq DOMAIN rows
      /\ Readable \subseteq Ids /\ None \notin Readable /\ id # None
  <2>1. Readable' = Readable \cup {id}
    BY <1>3, <1>4 DEF Readable
  <2>2. QED
    BY <1>1, <1>2, <2>1, NoneAssumption DEF Readable, TablesOK
<1>6. n \in Nat /\ Cardinality(Readable') = n + 1 /\ IsFiniteSet(Readable)
  BY <1>1, <1>5, FS_AddElement DEF LinedUp
<1>7. SupersededBy(id)' = None
  <2>1. \A s \in Readable : rows'[s].supersedes # id
    BY <1>2, <1>3, <1>5 DEF Replaces
  <2>2. \A s \in Readable' : rows'[s].supersedes # id
    BY <1>2, <1>4, <1>5, <2>1
  <2>3. QED
    BY <1>1, <2>2 DEF ReplacedByName
<1>8. ASSUME NEW x \in Readable
      PROVE  SupersededBy(x)' = IF x = target THEN id ELSE SupersededBy(x)
  <2>1. x \in Ids /\ \A s \in Readable : rows'[s].supersedes = rows[s].supersedes
    BY <1>3, <1>5
  <2>2. CASE x = target
    BY <1>1, <1>4, <1>5, <2>1, <2>2 DEF ReplacedByName
  <2>3. CASE x # target /\ \A s \in Readable : rows[s].supersedes # x
    <3>1. SupersededBy(x) = None
      BY <1>1, <2>1, <2>3 DEF ReplacedByName
    <3>2. \A s \in Readable' : rows'[s].supersedes # x
      BY <1>4, <1>5, <2>1, <2>3
    <3>3. SupersededBy(x)' = None
      BY <1>1, <2>1, <3>2 DEF ReplacedByName
    <3>4. QED
      BY <2>3, <3>1, <3>3
  <2>4. ASSUME x # target, NEW s \in Readable, rows[s].supersedes = x
        PROVE  SupersededBy(x)' = SupersededBy(x)
    <3>1. SupersededBy(x) = s
      BY <1>1, <2>1, <2>4 DEF ReplacedByName
    <3>2. s \in Readable' /\ rows'[s].supersedes = x
      BY <1>5, <2>1, <2>4
    <3>3. SupersededBy(x)' = s
      BY <1>1, <2>1, <3>2 DEF ReplacedByName
    <3>4. QED
      BY <3>1, <3>3
  <2>5. QED
    BY <2>2, <2>3, <2>4
<1>9. PICK new : new = Message(id)'
  OBVIOUS
<1>10. /\ new \in Messages /\ new.id = id /\ new.mailbox = name /\ new.sentAt = at
       /\ new.supersedes = target
  <2>1. new = [id |-> id, mailbox |-> name, sender |-> sender, sentAt |-> at, state |-> "new",
               supersedes |-> target, supersededBy |-> None, takenBy |-> None]
    BY <1>4, <1>7, <1>9 DEF Message
  <2>2. target \in Ids \cup {None}
    BY <1>1 DEF TablesOK
  <2>3. new \in Messages
    BY <2>1, <2>2 DEF Messages, States
  <2>4. QED
    BY <2>1, <2>3
<1>11. /\ DOMAIN Cards = Readable /\ DOMAIN Cards' = Readable \cup {id}
       /\ \A x \in Readable \cup {id} :
            Cards'[x] = IF x = id THEN new
                        ELSE IF x = target THEN [Cards[x] EXCEPT !.supersededBy = id]
                        ELSE Cards[x]
  <2>1. DOMAIN Cards = Readable /\ DOMAIN Cards' = Readable \cup {id}
    BY <1>1, <1>5 DEF CardsHeld
  <2>2. Cards'[id] = new
    BY <1>1, <1>5, <1>9 DEF CardsHeld
  <2>3. ASSUME NEW x \in Readable
        PROVE  Cards'[x] = IF x = target THEN [Cards[x] EXCEPT !.supersededBy = id] ELSE Cards[x]
    <3>1. Cards'[x] = Message(x)' /\ Cards[x] = Message(x)
      BY <1>1, <1>5 DEF CardsHeld
    <3>2. PICK row, by : row = rows[x] /\ by = SupersededBy(x)
      OBVIOUS
    <3>3. rows'[x] = row
      BY <1>3, <1>5, <3>2
    <3>4. Cards[x] = [id |-> x, mailbox |-> row.mailbox, sender |-> row.sender,
                      sentAt |-> row.sentAt, state |-> row.state,
                      supersedes |-> row.supersedes, supersededBy |-> by,
                      takenBy |-> row.takenBy]
      BY <3>1, <3>2 DEF Message
    <3>5. Cards'[x] = [id |-> x, mailbox |-> row.mailbox, sender |-> row.sender,
                       sentAt |-> row.sentAt, state |-> row.state,
                       supersedes |-> row.supersedes,
                       supersededBy |-> IF x = target THEN id ELSE by,
                       takenBy |-> row.takenBy]
      BY <1>8, <3>1, <3>2, <3>3 DEF Message
    <3>6. [Cards[x] EXCEPT !.supersededBy = id] =
            [id |-> x, mailbox |-> row.mailbox, sender |-> row.sender,
             sentAt |-> row.sentAt, state |-> row.state,
             supersedes |-> row.supersedes, supersededBy |-> id,
             takenBy |-> row.takenBy]
      BY <3>4
    <3>7. QED
      BY <3>4, <3>5, <3>6
  <2>4. QED
    BY <1>5, <2>1, <2>2, <2>3
<1>12. \A x \in Readable : /\ Cards[x].sentAt = rows[x].sentAt
                           /\ rows[x].sentAt \in Nat /\ rows[x].ordinal \in Nat
                           /\ rows[x].ordinal <= Cardinality(DOMAIN rows)
                           /\ Cardinality(DOMAIN rows) \in Nat
  <2>1. \A x \in Readable : Cards[x].sentAt = rows[x].sentAt
    BY <1>1 DEF CardsHeld, Message
  <2>2. \A x \in Readable : rows[x].sentAt \in Nat /\ rows[x].ordinal \in Nat
    BY <1>1, <1>5, RowFields, InstantsAssumption
  <2>3. Cardinality(DOMAIN rows) \in Nat
    BY FS_CardinalityType DEF Ordered, Filed
  <2>4. \A x \in Readable : rows[x].ordinal <= Cardinality(DOMAIN rows)
    BY <1>5, <2>2, <2>3 DEF Ordered, Filed
  <2>5. QED
    BY <2>1, <2>2, <2>3, <2>4
<1>13. /\ DOMAIN Line = 1..n /\ \A i \in 1..n : Line[i] \in Readable /\ Rank(Line[i]) = i
       /\ \A x \in Readable : Rank(x) \in 1..n /\ Line[Rank(x)] = x
       /\ \A a, b \in Readable : Rank(a) < Rank(b) => rows[a].sentAt <= rows[b].sentAt
  BY <1>1 DEF LinedUp, Numbers
<1>14. at \in Nat
  BY InstantsAssumption
<1>15. k \in 0..n /\ places = 1..k
  <2>1. ASSUME NEW i \in 1..n, NEW j \in 1..n, i < j, j \in places
        PROVE  i \in places
    <3>1. rows[Line[i]].sentAt <= rows[Line[j]].sentAt
      BY <1>13, <2>1
    <3>2. rows[Line[j]].sentAt <= at
      BY <1>12, <1>13, <2>1
    <3>3. rows[Line[i]].sentAt <= at
      BY <1>12, <1>13, <1>14, <3>1, <3>2
    <3>4. QED
      BY <1>12, <1>13, <3>3
  <2>2. places \in SUBSET (1..n)
    OBVIOUS
  <2> HIDE DEF places, n
  <2>3. QED
    BY <1>6, <2>1, <2>2, FirstPlaces
<1>16. \A x \in Readable : rows[x].sentAt <= at <=> Rank(x) <= k
  <2>1. \A x \in Readable : Rank(x) \in places <=> rows[x].sentAt <= at
    BY <1>12, <1>13
  <2> HIDE DEF places, k
  <2>2. QED
    BY <1>13, <1>15, <2>1
<1>17. ASSUME NEW x \in Readable
       PROVE  Rank(x)' = IF Rank(x) <= k THEN Rank(x) ELSE Rank(x) + 1
  <2> DEFINE upTo == {other \in Readable : ~Before(x, other)}
             upToNow == {other \in Readable' : ~Before(x, other)'}
  <2>1. \A other \in Readable : Before(x, other)' <=> Before(x, other)
    BY <1>3, <1>5 DEF Before
  <2>2. Before(x, id)' <=> rows[x].sentAt <= at
    <3>1. rows'[x] = rows[x]
      BY <1>3, <1>5
    <3>2. Before(x, id)' <=> \/ rows[x].sentAt < at
                             \/ rows[x].sentAt = at /\ rows[x].ordinal < Cardinality(DOMAIN rows) + 1
      BY <1>4, <3>1 DEF Before
    <3>3. QED
      BY <1>12, <1>14, <3>2
  <2>3. upToNow = IF rows[x].sentAt <= at THEN upTo ELSE upTo \cup {id}
    BY <1>5, <2>1, <2>2
  <2>4. IsFiniteSet(upTo) /\ id \notin upTo
    <3>1. upTo \in SUBSET Readable
      OBVIOUS
    <3>2. QED
      BY <1>5, <1>6, <3>1, FS_Subset
  <2>5. Rank(x) = Cardinality(upTo) /\ Rank(x)' = Cardinality(upToNow)
    BY DEF Rank
  <2> HIDE DEF upTo, upToNow, k
  <2>6. QED
    BY <1>16, <2>3, <2>4, <2>5, FS_AddElement
<1>18. /\ DOMAIN Line' = 1..(n + 1) /\ \A x \in Readable \cup {id} : Line'[Rank(x)'] = x
       /\ Rank(id)' \in 1..(n + 1)
  BY <1>1, <1>5, <1>6 DEF LinedUp, Numbers
<1> HIDE DEF k, n, places
<1>19. \A i \in 1..k : Line'[i] = Line[i]
  <2>1. ASSUME NEW i \in 1..k PROVE Line'[i] = Line[i]
    <3>1. i \in 1..n /\ Line[i] \in Readable /\ Rank(Line[i]) = i
      BY <1>6, <1>13, <1>15
    <3>2. PICK x \in Readable : x = Line[i]
      BY <3>1
    <3>3. Rank(x)' = i
      BY <1>17, <3>1, <3>2
    <3>4. QED
      BY <1>18, <3>2, <3>3
  <2>2. QED
    BY <2>1
<1>20. \A i \in (k + 2)..(n + 1) : Line'[i] = Line[i - 1] /\ i - 1 \in 1..n
  <2>1. ASSUME NEW i \in (k + 2)..(n + 1) PROVE Line'[i] = Line[i - 1] /\ i - 1 \in 1..n
    <3>1. i - 1 \in 1..n /\ Line[i - 1] \in Readable /\ Rank(Line[i - 1]) = i - 1 /\ ~(i - 1 <= k)
      BY <1>6, <1>13, <1>15
    <3>2. PICK x \in Readable : x = Line[i - 1]
      BY <3>1
    <3>3. Rank(x) = i - 1
      BY <3>1, <3>2
    <3>4. Rank(x)' = i
      <4>1. Rank(x)' = Rank(x) + 1
        BY <1>17, <3>1, <3>3
      <4>2. QED
        BY <1>15, <1>6, <3>3, <4>1
    <3>5. QED
      BY <1>18, <3>1, <3>2, <3>4
  <2>2. QED
    BY <2>1
<1>21. Line'[k + 1] = id
  <2>1. PICK r \in 1..(n + 1) : r = Rank(id)' /\ Line'[r] = id
    BY <1>18
  <2>2. CASE r <= k
    <3>1. r \in 1..k /\ r \in 1..n
      BY <1>6, <1>15, <2>1, <2>2
    <3>2. QED
      BY <1>5, <1>13, <1>19, <2>1, <3>1
  <2>3. CASE r > k + 1
    <3>1. r \in (k + 2)..(n + 1)
      BY <1>6, <1>15, <2>1, <2>3
    <3>2. QED
      BY <1>5, <1>13, <1>20, <2>1, <3>1
  <2>4. QED
    BY <1>6, <1>15, <2>1, <2>2, <2>3
<1>22. Aside' = Aside
  <2>1. DOMAIN rows' \ Readable' = DOMAIN rows \ Readable
    BY <1>2, <1>3, <1>5
  <2>2. QED
    BY <1>2, <1>3, <2>1 DEF Aside
<1>23. PICK after, longer : after = Cards' /\ longer = Line'
  OBVIOUS
<1>24. Loaded' = ImageOf(after, longer, boxes, Aside, events)
  BY <1>1, <1>2, <1>22, <1>23 DEF LoadedIsImage
<1>25. /\ DOMAIN after = DOMAIN Cards \cup {new.id}
       /\ \A x \in DOMAIN after :
            after[x] = IF x = new.id THEN new
                       ELSE IF x = new.supersedes THEN [Cards[x] EXCEPT !.supersededBy = new.id]
                       ELSE Cards[x]
  BY <1>10, <1>11, <1>23
<1>26. after \in [DOMAIN after -> Messages]
  <2>1. IsBoard(Cards')
    BY <1>1 DEF CardsHeld
  <2>2. QED
    BY <1>23, <2>1 DEF IsBoard
<1>27. /\ DOMAIN longer = 1..(n + 1)
       /\ \A i \in 1..(n + 1) :
            longer[i] = IF i <= k THEN Line[i] ELSE IF i = k + 1 THEN new.id ELSE Line[i - 1]
  <2>1. ASSUME NEW i \in 1..(n + 1)
        PROVE  longer[i] = IF i <= k THEN Line[i] ELSE IF i = k + 1 THEN new.id ELSE Line[i - 1]
    <3>1. CASE i <= k
      BY <1>6, <1>15, <1>19, <1>23, <3>1
    <3>2. CASE i = k + 1
      BY <1>6, <1>10, <1>15, <1>21, <1>23, <3>2
    <3>3. CASE i > k + 1
      <4>1. i \in (k + 2)..(n + 1) /\ ~(i <= k) /\ i # k + 1
        BY <1>6, <1>15, <3>3
      <4>2. QED
        BY <1>20, <1>23, <4>1
    <3>4. QED
      BY <1>6, <1>15, <3>1, <3>2, <3>3
  <2>2. QED
    BY <1>18, <1>23, <2>1
<1>28. /\ IsBoard(Cards) /\ n \in Nat /\ Numbers(Line, n, DOMAIN Cards)
       /\ new.id \notin DOMAIN Cards /\ new.supersedes \in DOMAIN Cards \cup {None}
  BY <1>1, <1>2, <1>5, <1>6, <1>10, <1>11 DEF CardsHeld, LinedUp, n
<1>29. k = Cardinality({i \in 1..n : Cards[Line[i]].sentAt <= new.sentAt})
  BY <1>10 DEF k, places
<1>30. File(image, new) \in {ImageOf(after, longer, boxes, Aside, events), NoImage}
  <2>1. PICK m, line, owners, aside, told, img :
          /\ m = Cards /\ line = Line /\ owners = boxes /\ aside = Aside /\ told = events
          /\ img = image
    OBVIOUS
  <2>2. /\ IsBoard(m) /\ n \in Nat /\ Numbers(line, n, DOMAIN m)
        /\ new \in Messages /\ new.id \notin DOMAIN m /\ new.supersedes \in DOMAIN m \cup {None}
        /\ img \in {ImageOf(m, line, owners, aside, told), NoImage}
    BY <1>1, <1>10, <1>28, <2>1
  <2>3. FiledOn(after, m, new)
    BY <1>25, <1>26, <2>1 DEF FiledOn
  <2>4. k = Earlier(m, line, n, new)
    BY <1>29, <2>1 DEF Earlier
  <2>5. LetIn(longer, line, n, Earlier(m, line, n, new), new.id)
    <3>1. LetIn(longer, line, n, k, new.id)
      BY <1>27, <2>1 DEF LetIn
    <3>2. QED
      BY <2>4, <3>1
  <2>6. File(img, new) \in {ImageOf(after, longer, owners, aside, told), NoImage}
    BY <2>2, <2>3, <2>5, FileHolds
  <2>7. QED
    BY <2>1, <2>6
<1>31. QED
  BY <1>2, <1>9, <1>24, <1>30 DEF Follow, Refill, ImageIsStore

-----------------------------------------------------------------------------
(* What a delivery of the store holds.                                     *)

\* A sequence lists a function over a set: each of its values once, in a line.
Lists(s, f, S) ==
  \E n, line : n \in Nat /\ Numbers(line, n, S) /\ s = [i \in 1..n |-> f[line[i]]]

LEMMA ListsShape ==
  ASSUME NEW S, NEW f, NEW s, Lists(s, f, S)
  PROVE  /\ Len(s) \in Nat /\ DOMAIN s = 1..Len(s) /\ s = [i \in 1..Len(s) |-> s[i]]
         /\ \A i \in 1..Len(s) : \E x \in S : s[i] = f[x]
         /\ \A x \in S : \E i \in 1..Len(s) : s[i] = f[x]
         /\ s = <<>> <=> S = {}
         /\ IsFiniteSet(S) /\ Cardinality(S) = Len(s)
<1>1. PICK n, line : n \in Nat /\ Numbers(line, n, S) /\ s = [i \in 1..n |-> f[line[i]]]
  BY DEF Lists
<1>2. /\ line \in [1..n -> S] /\ \A x \in S : \E i \in 1..n : line[i] = x
      /\ \A i, j \in 1..n : line[i] = line[j] => i = j
  BY <1>1 DEF Numbers
<1>3. Len(s) = n /\ DOMAIN s = 1..n /\ \A i \in 1..n : line[i] \in S /\ s[i] = f[line[i]]
  BY <1>1, <1>2
<1>4. s = <<>> <=> S = {}
  <2>1. s = <<>> <=> n = 0
    BY <1>1, <1>3
  <2>2. CASE n = 0
    <3>1. S = {}
      BY <1>2, <2>2
    <3>2. QED
      BY <2>1, <2>2, <3>1
  <2>3. CASE n # 0
    <3>1. 1 \in 1..n
      BY <1>1, <2>3
    <3>2. QED
      BY <1>3, <2>1, <2>3, <3>1
  <2>4. QED
    BY <2>2, <2>3
<1>5. ExistsBijection(1..n, S)
  <2>1. line \in Bijection(1..n, S)
    BY <1>2 DEF Bijection, Injection, Surjection, IsInjective
  <2>2. QED
    BY <2>1 DEF ExistsBijection
<1>6. IsFiniteSet(S) /\ Cardinality(S) = n
  BY <1>1, <1>5, FS_NatBijection, FS_CountingElements
<1>7. s = [i \in 1..n |-> s[i]]
  BY <1>1, <1>3
<1>8. QED
  BY <1>1, <1>2, <1>3, <1>4, <1>6, <1>7

\* What At takes of a list lists the same function over what it takes.
LEMMA AtLists ==
  ASSUME NEW S, NEW f, NEW s, Lists(s, f, S), NEW T \in SUBSET S,
         NEW places \in SUBSET DOMAIN s,
         \A i \in DOMAIN s, x \in S : s[i] = f[x] => (i \in places <=> x \in T)
  PROVE  Lists(At(s, places), f, T)
<1>1. PICK n, line : n \in Nat /\ Numbers(line, n, S) /\ s = [i \in 1..n |-> f[line[i]]]
  BY DEF Lists
<1>2. /\ line \in [1..n -> S] /\ \A x \in S : \E i \in 1..n : line[i] = x
      /\ \A i, j \in 1..n : line[i] = line[j] => i = j
  BY <1>1 DEF Numbers
<1>3. DOMAIN s = 1..n /\ \A i \in 1..n : line[i] \in S /\ s[i] = f[line[i]]
  BY <1>1, <1>2
<1> DEFINE k == Cardinality(places)
           nth == [i \in 1..k |-> Nth(places, i)]
           short == [i \in 1..k |-> line[nth[i]]]
<1>4. /\ k \in Nat /\ Numbers(nth, k, places)
      /\ At(s, places) = [i \in 1..k |-> s[Nth(places, i)]]
  <2>1. n \in Nat /\ places \in SUBSET (1..n)
    BY <1>1, <1>3
  <2>2. QED
    BY <2>1, AtPlaces
<1>5. /\ nth \in [1..k -> places] /\ \A p \in places : \E i \in 1..k : nth[i] = p
      /\ \A i, j \in 1..k : nth[i] = nth[j] => i = j
      /\ \A i \in 1..k : nth[i] = Nth(places, i)
  BY <1>4 DEF Numbers
<1> HIDE DEF nth, k
<1>6. \A i \in 1..k : nth[i] \in places /\ nth[i] \in 1..n /\ line[nth[i]] \in T
  BY <1>3, <1>5
<1>7. Numbers(short, k, T)
  <2>1. short \in [1..k -> T]
    BY <1>6
  <2>2. \A i, j \in 1..k : short[i] = short[j] => i = j
    BY <1>2, <1>5, <1>6
  <2>3. ASSUME NEW x \in T PROVE \E i \in 1..k : short[i] = x
    <3>1. PICK p \in 1..n : line[p] = x
      BY <1>2
    <3>2. p \in places
      BY <1>3, <3>1
    <3>3. QED
      BY <1>5, <3>1, <3>2
  <2>4. QED
    BY <2>1, <2>2, <2>3 DEF Numbers
<1>8. At(s, places) = [i \in 1..k |-> f[short[i]]]
  <2>1. \A i \in 1..k : s[Nth(places, i)] = f[short[i]]
    BY <1>3, <1>5, <1>6
  <2> HIDE DEF short
  <2>2. QED
    BY <1>4, <2>1
<1> HIDE DEF short
<1>9. QED
  BY <1>4, <1>7, <1>8 DEF Lists

\* A list mapped element by element lists the mapped function.
LEMMA MapLists ==
  ASSUME NEW S, NEW f, NEW s, Lists(s, f, S), NEW g, NEW t,
         t = [i \in 1..Len(s) |-> t[i]],
         \A i \in 1..Len(s), x \in S : s[i] = f[x] => t[i] = g[x]
  PROVE  Lists(t, g, S)
<1>1. PICK n, line : n \in Nat /\ Numbers(line, n, S) /\ s = [i \in 1..n |-> f[line[i]]]
  BY DEF Lists
<1>2. Len(s) = n /\ \A i \in 1..n : line[i] \in S /\ s[i] = f[line[i]]
  BY <1>1 DEF Numbers
<1>3. \A i \in 1..n : t[i] = g[line[i]]
  BY <1>2
<1>4. t = [i \in 1..n |-> g[line[i]]]
  BY <1>2, <1>3
<1>5. QED
  BY <1>1, <1>4 DEF Lists

LEMMA BoardLists == Ordered => Lists(Board, Cards, Readable)
<1> SUFFICES ASSUME Ordered PROVE Lists(Board, Cards, Readable)
  OBVIOUS
<1>1. LinedUp /\ LoadedIsImage
  BY LineUp, LoadedIs
<1>2. Board = [i \in DOMAIN Line |-> Cards[Line[i]]]
  <2>1. Board = Loaded.messages
    BY DEF Loaded
  <2>2. Loaded = ImageOf(Cards, Line, boxes, Aside, events)
    BY <1>1 DEF LoadedIsImage
  <2>3. ImageOf(Cards, Line, boxes, Aside, events).messages = [i \in DOMAIN Line |-> Cards[Line[i]]]
    BY DEF ImageOf
  <2>4. QED
    BY <2>1, <2>2, <2>3
<1>3. QED
  BY <1>1, <1>2 DEF LinedUp, Lists, Numbers

\* The messages a delivery of a box hands over, and those it withholds.
Open(name) == {x \in Readable : Cards[x].mailbox = name /\ Cards[x].state # "processed"}
Handed(name) == {x \in Open(name) : ~Withheld(Cards[x])}

\* A message as a delivery hands it over.
HandedOver(taking) ==
  [x \in Readable |->
     [message |-> [Cards[x] EXCEPT !.state = "read",
                                   !.takenBy = IF @ = None THEN taking ELSE @],
      seenBefore |-> Cards[x].state = "read"]]

LEMMA OpenLists ==
  ASSUME Ordered, NEW name
  PROVE  Lists(Unprocessed(Board, name), Cards, Open(name))
<1> DEFINE places == {i \in DOMAIN Board : Board[i].mailbox = name /\ Board[i].state # "processed"}
<1>1. \A i \in DOMAIN Board, x \in Readable : Board[i] = Cards[x] => (i \in places <=> x \in Open(name))
  BY DEF Open
<1>2. Open(name) \in SUBSET Readable /\ places \in SUBSET DOMAIN Board
  BY DEF Open
<1>3. Unprocessed(Board, name) = At(Board, places)
  BY DEF Unprocessed
<1> HIDE DEF places
<1>4. QED
  BY <1>1, <1>2, <1>3, BoardLists, AtLists

LEMMA HandedLists ==
  ASSUME Ordered, NEW name, NEW taking
  PROVE  Lists(Delivery(name, taking).messages, HandedOver(taking), Handed(name))
<1>1. PICK cards : cards = Unprocessed(Board, name)
  OBVIOUS
<1>2. Lists(cards, Cards, Open(name))
  BY <1>1, OpenLists
<1> DEFINE places == {i \in DOMAIN cards : ~Withheld(cards[i])}
           owed == At(cards, places)
           made == [i \in 1..Len(owed) |->
                      [message |-> [owed[i] EXCEPT !.state = "read",
                                                   !.takenBy = IF @ = None THEN taking ELSE @],
                       seenBefore |-> owed[i].state = "read"]]
<1>3. Lists(owed, Cards, Handed(name))
  <2>1. \A i \in DOMAIN cards, x \in Open(name) :
          cards[i] = Cards[x] => (i \in places <=> x \in Handed(name))
    BY DEF Handed
  <2>2. Handed(name) \in SUBSET Open(name) /\ places \in SUBSET DOMAIN cards
    BY DEF Handed
  <2> HIDE DEF places
  <2>3. QED
    BY <1>2, <2>1, <2>2, AtLists
<1>4. Delivery(name, taking).messages = made
  BY <1>1 DEF Delivery
<1> HIDE DEF owed
<1>5. Lists(made, HandedOver(taking), Handed(name))
  <2>1. Handed(name) \subseteq Readable
    BY DEF Handed, Open
  <2>2. ASSUME NEW i \in 1..Len(owed), NEW x \in Handed(name), owed[i] = Cards[x]
        PROVE  made[i] = HandedOver(taking)[x]
    <3>1. made[i] = [message |-> [owed[i] EXCEPT !.state = "read",
                                                 !.takenBy = IF @ = None THEN taking ELSE @],
                     seenBefore |-> owed[i].state = "read"]
      OBVIOUS
    <3>2. HandedOver(taking)[x] =
            [message |-> [Cards[x] EXCEPT !.state = "read",
                                          !.takenBy = IF @ = None THEN taking ELSE @],
             seenBefore |-> Cards[x].state = "read"]
      BY <2>1 DEF HandedOver
    <3>3. QED
      BY <2>2, <3>1, <3>2
  <2>3. made = [i \in 1..Len(owed) |-> made[i]]
    OBVIOUS
  <2> HIDE DEF made
  <2>4. QED
    BY <1>3, <2>2, <2>3, MapLists
<1>6. QED
  BY <1>4, <1>5

LEMMA MovedLists ==
  ASSUME Ordered, NEW name, NEW taking
  PROVE  Lists(Moved(Delivery(name, taking)), HandedOver(taking), Owed(name))
<1>1. PICK made : made = Delivery(name, taking).messages
  OBVIOUS
<1>2. Lists(made, HandedOver(taking), Handed(name))
  BY <1>1, HandedLists
<1> DEFINE places == {i \in DOMAIN made : ~made[i].seenBefore}
<1>3. Moved(Delivery(name, taking)) = At(made, places)
  BY <1>1 DEF Moved
<1>4. \A x \in Readable : /\ Cards[x].mailbox = rows[x].mailbox /\ Cards[x].state = rows[x].state
                          /\ Cards[x].supersededBy = SupersededBy(x)
                          /\ Cards[x].state \in {"new", "read", "processed"}
  BY CardsHold DEF CardsHeld, Message, IsBoard, Messages, States
<1>5. Owed(name) = {x \in Handed(name) : Cards[x].state # "read"}
  BY <1>4 DEF Owed, Handed, Open, Withheld
<1>6. ASSUME NEW i \in DOMAIN made, NEW x \in Handed(name), made[i] = HandedOver(taking)[x]
      PROVE  i \in places <=> x \in Owed(name)
  <2>1. HandedOver(taking)[x].seenBefore = (Cards[x].state = "read")
    BY DEF HandedOver, Handed, Open
  <2>2. QED
    BY <1>5, <1>6, <2>1
<1>7. Owed(name) \in SUBSET Handed(name) /\ places \in SUBSET DOMAIN made
  BY <1>5
<1> HIDE DEF places
<1>8. QED
  BY <1>2, <1>3, <1>6, <1>7, AtLists

-----------------------------------------------------------------------------
(* A delivery's messages are followed one by one.                          *)

\* Induction, over a set of numbers.
LEMMA Induction ==
  ASSUME NEW S, 0 \in S, \A n \in Nat : n \in S => n + 1 \in S
  PROVE  Nat \subseteq S
<1> SUFFICES ASSUME Nat \ S # {} PROVE FALSE
  OBVIOUS
<1>1. PICK m \in Nat \ S : \A n \in Nat \ S : ~ (<<n, m>> \in OpToRel(<, Nat))
  BY WFMin, NatLessThanWellFounded
<1>2. \A n \in Nat \ S : ~ (n < m)
  BY <1>1 DEF OpToRel
<1>3. m # 0 /\ m - 1 \in Nat
  OBVIOUS
<1>4. m - 1 \in S
  BY <1>2, <1>3
<1>5. (m - 1) + 1 \in S
  BY <1>3, <1>4
<1>6. QED
  BY <1>3, <1>5

\* One message of a delivery taken by the image.
TakeOne(img, m, name) == Record(Put(img, m), m.id, "read", name, "new")

\* The images that a delivery passes through, up to its n-th message.
PassesThrough(upTo, n, img, taken, name) ==
  /\ DOMAIN upTo = 0..n
  /\ upTo[0] = img
  /\ \A k \in 1..n : upTo[k] = TakeOne(upTo[k - 1], taken[k].message, name)

LEMMA ImagesPassed ==
  ASSUME NEW img, NEW taken, NEW name
  PROVE  \A n \in Nat : \E upTo : PassesThrough(upTo, n, img, taken, name)
<1> DEFINE S == {n \in Nat : \E upTo : PassesThrough(upTo, n, img, taken, name)}
<1>1. 0 \in S
  <2>1. PassesThrough([k \in 0..0 |-> img], 0, img, taken, name)
    BY DEF PassesThrough
  <2>2. QED
    BY <2>1
<1>2. ASSUME NEW n \in Nat, n \in S
      PROVE  n + 1 \in S
  <2>1. PICK upTo : PassesThrough(upTo, n, img, taken, name)
    BY <1>2
  <2> DEFINE more == [k \in 0..(n + 1) |->
                        IF k = n + 1 THEN TakeOne(upTo[n], taken[n + 1].message, name)
                        ELSE upTo[k]]
  <2>2. /\ DOMAIN more = 0..(n + 1)
        /\ \A k \in 0..n : more[k] = upTo[k]
        /\ more[n + 1] = TakeOne(upTo[n], taken[n + 1].message, name)
    OBVIOUS
  <2> HIDE DEF more
  <2>3. more[0] = img
    BY <2>1, <2>2 DEF PassesThrough
  <2>4. ASSUME NEW k \in 1..(n + 1)
        PROVE  more[k] = TakeOne(more[k - 1], taken[k].message, name)
    <3>1. CASE k = n + 1
      <4>1. k - 1 = n /\ n \in 0..n
        BY <3>1
      <4>2. more[k - 1] = upTo[n]
        BY <2>2, <4>1
      <4>3. QED
        BY <2>2, <3>1, <4>2
    <3>2. CASE k # n + 1
      <4>1. k \in 1..n /\ k \in 0..n /\ k - 1 \in 0..n
        BY <3>2
      <4>2. more[k] = upTo[k] /\ more[k - 1] = upTo[k - 1]
        BY <2>2, <4>1
      <4>3. QED
        BY <2>1, <4>1, <4>2 DEF PassesThrough
    <3>3. QED
      BY <3>1, <3>2
  <2>5. PassesThrough(more, n + 1, img, taken, name)
    BY <2>2, <2>3, <2>4 DEF PassesThrough
  <2>6. QED
    BY <2>5
<1> HIDE DEF S
<1>3. Nat \subseteq S
  BY <1>1, <1>2, Induction
<1>4. QED
  BY <1>3 DEF S

LEMMA TakeEachEnds ==
  ASSUME NEW img, NEW taken, NEW name, Len(taken) \in Nat
  PROVE  \E upTo : /\ PassesThrough(upTo, Len(taken), img, taken, name)
                   /\ TakeEach(img, taken, name) = upTo[Len(taken)]
<1> DEFINE n == Len(taken)
           Fixed(f) == f = [k \in 0..n |->
             IF k = 0 THEN img
             ELSE Record(Put(f[k - 1], taken[k].message), taken[k].message.id, "read", name, "new")]
           all == CHOOSE f : Fixed(f)
<1>1. PICK f : PassesThrough(f, n, img, taken, name)
  BY ImagesPassed
<1>2. PICK g : g = [k \in 0..n |-> f[k]]
  OBVIOUS
<1>3. DOMAIN g = 0..n /\ \A k \in 0..n : g[k] = f[k]
  BY <1>2
<1>4. Fixed(g)
  <2> HIDE DEF n
  <2>0. n \in Nat
    BY DEF n
  <2>1. ASSUME NEW k \in 0..n
        PROVE  g[k] = IF k = 0 THEN img
             ELSE Record(Put(g[k - 1], taken[k].message), taken[k].message.id, "read", name, "new")
    <3>1. CASE k = 0
      BY <1>1, <1>3, <3>1 DEF PassesThrough
    <3>2. CASE k # 0
      <4>1. k \in 1..n /\ k - 1 \in 0..n
        BY <2>0, <3>2
      <4>2. f[k] = TakeOne(f[k - 1], taken[k].message, name)
        BY <1>1, <4>1 DEF PassesThrough
      <4>3. QED
        BY <1>3, <3>2, <4>1, <4>2 DEF TakeOne
    <3>3. QED
      BY <3>1, <3>2
  <2>2. g = [k \in 0..n |-> g[k]]
    BY <1>2, <1>3
  <2>3. QED
    BY <2>1, <2>2
<1>5. Fixed(all)
  <2> HIDE DEF Fixed
  <2>1. QED
    BY <1>4
<1>6. /\ DOMAIN all = 0..n
      /\ \A k \in 0..n : all[k] = IF k = 0 THEN img
             ELSE Record(Put(all[k - 1], taken[k].message), taken[k].message.id, "read", name, "new")
  <2> HIDE DEF all
  <2>1. QED
    BY <1>5
<1>7. PassesThrough(all, n, img, taken, name)
  <2> HIDE DEF all
  <2>1. \A k \in 1..n : k \in 0..n /\ k # 0
    OBVIOUS
  <2>2. 0 \in 0..n
    OBVIOUS
  <2> HIDE DEF n
  <2>3. QED
    BY <1>6, <2>1, <2>2 DEF PassesThrough, TakeOne
<1>8. TakeEach(img, taken, name) = all[n]
  BY DEF TakeEach
<1> HIDE DEF all
<1>9. QED
  BY <1>7, <1>8

\* An account with a taking told in it.
Told(told, name) == Append(told, NextEvent(told, "read", name, "new"))

\* The board and the accounts once some of the messages were taken.
TakenOn(m, after, some) == [x \in DOMAIN m |-> IF x \in some THEN after[x] ELSE m[x]]
ToldOf(told, some, name) ==
  [x \in DOMAIN told |-> IF x \in some THEN Told(told[x], name) ELSE told[x]]

\* One more message of a delivery is held as it is now, its taking recorded.
LEMMA OneMoreTaken ==
  ASSUME NEW m, IsBoard(m), NEW n \in Nat, NEW line, Numbers(line, n, DOMAIN m),
         NEW owners, NEW aside, NEW told, DOMAIN m \subseteq DOMAIN told, NEW name,
         NEW after, IsBoard(after), DOMAIN after = DOMAIN m,
         \A x \in DOMAIN m : after[x].mailbox = m[x].mailbox,
         NEW some \in SUBSET DOMAIN m, NEW id \in DOMAIN m \ some,
         NEW img, img \in {ImageOf(TakenOn(m, after, some), line, owners, aside,
                                   ToldOf(told, some, name)), NoImage}
  PROVE  TakeOne(img, after[id], name) \in
           {ImageOf(TakenOn(m, after, some \cup {id}), line, owners, aside,
                    ToldOf(told, some \cup {id}, name)), NoImage}
<1>1. PICK was : was = TakenOn(m, after, some)
  OBVIOUS
<1>2. PICK heard : heard = ToldOf(told, some, name)
  OBVIOUS
<1>3. PICK new : new = after[id]
  OBVIOUS
<1>4. new \in Messages /\ new.id = id
  BY <1>3 DEF IsBoard
<1>5. /\ DOMAIN was = DOMAIN m /\ was[id] = m[id]
      /\ \A x \in DOMAIN m : was[x] = IF x \in some THEN after[x] ELSE m[x]
  BY <1>1 DEF TakenOn
<1>6. IsBoard(was)
  <2>1. \A x \in DOMAIN m : was[x] \in Messages /\ was[x].id = x
    BY <1>5 DEF IsBoard
  <2>2. was = [x \in DOMAIN was |-> was[x]]
    BY <1>1 DEF TakenOn
  <2>3. QED
    BY <1>5, <2>1, <2>2 DEF IsBoard
<1>7. PICK put : put = Put(img, new)
  OBVIOUS
<1>8. PICK now : now = [was EXCEPT ![id] = new]
  OBVIOUS
<1>9. put \in {ImageOf(now, line, owners, aside, heard), NoImage}
  <2>1. new.id \in DOMAIN was /\ was[new.id].mailbox = new.mailbox
    BY <1>3, <1>4, <1>5
  <2>2. Numbers(line, n, DOMAIN was) /\ img \in {ImageOf(was, line, owners, aside, heard), NoImage}
    BY <1>1, <1>2, <1>5
  <2>3. Put(img, new) \in {ImageOf([was EXCEPT ![new.id] = new], line, owners, aside, heard), NoImage}
    BY <1>4, <1>6, <2>1, <2>2, PutHolds
  <2>4. QED
    BY <1>4, <1>7, <1>8, <2>3
<1>10. DOMAIN heard = DOMAIN told /\ id \in DOMAIN heard
  BY <1>2 DEF ToldOf
<1>11. Record(put, id, "read", name, "new") \in
         {ImageOf(now, line, owners, aside,
                  [heard EXCEPT ![id] = Append(@, NextEvent(@, "read", name, "new"))]), NoImage}
  <2>1. id \in DOMAIN heard
    BY <1>10
  <2>2. QED
    BY <1>9, <2>1, RecordTells
<1>12. now = TakenOn(m, after, some \cup {id})
  BY <1>3, <1>5, <1>8, <1>1 DEF TakenOn
<1>13. [heard EXCEPT ![id] = Append(@, NextEvent(@, "read", name, "new"))]
         = ToldOf(told, some \cup {id}, name)
  <2>1. heard[id] = told[id]
    BY <1>2 DEF ToldOf
  <2>2. [heard EXCEPT ![id] = Append(@, NextEvent(@, "read", name, "new"))]
          = [heard EXCEPT ![id] = Told(told[id], name)]
    BY <2>1 DEF Told
  <2>3. \A x \in DOMAIN told : heard[x] = IF x \in some THEN Told(told[x], name) ELSE told[x]
    BY <1>2 DEF ToldOf
  <2>4. heard = [x \in DOMAIN told |-> heard[x]]
    BY <1>2 DEF ToldOf
  <2>5. [heard EXCEPT ![id] = Told(told[id], name)] = ToldOf(told, some \cup {id}, name)
    BY <1>10, <2>3, <2>4 DEF ToldOf
  <2>6. QED
    BY <2>2, <2>5
<1>14. QED
  BY <1>3, <1>4, <1>7, <1>11, <1>12, <1>13 DEF TakeOne

\* A delivery followed message by message makes the image of the board and the
\* accounts with all of its messages taken.
LEMMA TakenHold ==
  ASSUME NEW m, IsBoard(m), NEW n \in Nat, NEW line, Numbers(line, n, DOMAIN m),
         NEW owners, NEW aside, NEW told, DOMAIN m \subseteq DOMAIN told, NEW name,
         NEW after, IsBoard(after), DOMAIN after = DOMAIN m,
         \A x \in DOMAIN m : after[x].mailbox = m[x].mailbox,
         NEW some \in SUBSET DOMAIN m,
         NEW l \in Nat, NEW order, Numbers(order, l, some),
         NEW taken, Len(taken) = l, \A i \in 1..l : taken[i].message = after[order[i]],
         NEW img, img \in {ImageOf(m, line, owners, aside, told), NoImage},
         told = [x \in DOMAIN told |-> told[x]]
  PROVE  TakeEach(img, taken, name) \in
           {ImageOf(TakenOn(m, after, some), line, owners, aside, ToldOf(told, some, name)),
            NoImage}
<1> DEFINE first(k) == {order[i] : i \in 1..k}
           held(k) == ImageOf(TakenOn(m, after, first(k)), line, owners, aside,
                              ToldOf(told, first(k), name))
<1>1. PICK upTo : /\ PassesThrough(upTo, l, img, taken, name)
                  /\ TakeEach(img, taken, name) = upTo[l]
  BY TakeEachEnds
<1> DEFINE S == {k \in Nat : k <= l => upTo[k] \in {held(k), NoImage}}
<1>2. /\ \A i \in 1..l : order[i] \in some
      /\ \A i, j \in 1..l : order[i] = order[j] => i = j
      /\ \A x \in some : \E i \in 1..l : order[i] = x
  BY DEF Numbers
<1>3. 0 \in S
  <2>1. first(0) = {}
    OBVIOUS
  <2>2. TakenOn(m, after, {}) = m /\ ToldOf(told, {}, name) = told
    BY DEF TakenOn, ToldOf, IsBoard
  <2>3. upTo[0] = img
    BY <1>1 DEF PassesThrough
  <2>4. QED
    BY <2>1, <2>2, <2>3
<1>4. ASSUME NEW k \in Nat, k \in S
      PROVE  k + 1 \in S
  <2>1. SUFFICES ASSUME k + 1 <= l PROVE upTo[k + 1] \in {held(k + 1), NoImage}
    OBVIOUS
  <2>2. k <= l /\ k + 1 \in 1..l /\ (k + 1) - 1 = k
    BY <2>1
  <2>3. upTo[k] \in {held(k), NoImage}
    BY <1>4, <2>2
  <2>4. upTo[k + 1] = TakeOne(upTo[k], after[order[k + 1]], name)
    BY <1>1, <2>2 DEF PassesThrough
  <2>5. order[k + 1] \in DOMAIN m \ first(k)
    <3>1. \A i \in 1..k : i \in 1..l /\ i # k + 1
      BY <2>2
    <3>2. QED
      BY <1>2, <2>2, <3>1
  <2>6. first(k) \in SUBSET DOMAIN m
    <3>1. \A i \in 1..k : i \in 1..l
      BY <2>2
    <3>2. QED
      BY <1>2, <3>1
  <2>7. first(k + 1) = first(k) \cup {order[k + 1]}
    <3>1. 1..(k + 1) = (1..k) \cup {k + 1}
      OBVIOUS
    <3>2. QED
      BY <3>1
  <2>8. PICK some1, id, was : some1 = first(k) /\ id = order[k + 1] /\ was = upTo[k]
    OBVIOUS
  <2> HIDE DEF first
  <2>9. /\ some1 \in SUBSET DOMAIN m /\ id \in DOMAIN m \ some1
        /\ was \in {ImageOf(TakenOn(m, after, some1), line, owners, aside,
                            ToldOf(told, some1, name)), NoImage}
    BY <2>3, <2>5, <2>6, <2>8
  <2>10. TakeOne(was, after[id], name) \in
           {ImageOf(TakenOn(m, after, some1 \cup {id}), line, owners, aside,
                    ToldOf(told, some1 \cup {id}, name)), NoImage}
    BY <2>9, OneMoreTaken
  <2>11. QED
    BY <2>4, <2>7, <2>8, <2>10
<1> HIDE DEF S
<1>5. Nat \subseteq S
  BY <1>3, <1>4, Induction
<1>6. upTo[l] \in {held(l), NoImage}
  BY <1>5 DEF S
<1>7. first(l) = some
  BY <1>2
<1>8. QED
  BY <1>1, <1>6, <1>7

LEMMA ReadMailboxFollowed ==
  ASSUME Ordered, Ordered', ImageIsStore, AccountExplainsState,
         NEW name \in Names, NEW taking \in Taken, ReadMailbox(name, taking)
  PROVE  ImageIsStore'
<1>1. /\ TablesOK /\ boxes' = boxes
      /\ image \in {ImageOf(Cards, Line, boxes, Aside, events), NoImage}
  BY Agreeing DEF Ordered, ReadMailbox
<1>2. PICK some : some = Owed(name)
  OBVIOUS
<1>3. /\ rows' = [id \in DOMAIN rows |->
                    IF id \in some THEN [rows[id] EXCEPT !.state = "read", !.takenBy = taking]
                    ELSE rows[id]]
      /\ events' = [id \in Ids |->
                      IF id \in some
                      THEN Append(events[id], NextEvent(events[id], "read", name, "new"))
                      ELSE events[id]]
      /\ Follow(TakeEach(image, Moved(Delivery(name, taking)), name))
  BY <1>2 DEF ReadMailbox
<1>4. /\ some \in SUBSET Readable /\ Readable \subseteq DOMAIN rows /\ DOMAIN rows \subseteq Ids
      /\ \A id \in some : rows[id].state = "new"
  BY <1>1, <1>2 DEF Owed, Readable, TablesOK
<1>5. ASSUME NEW id \in DOMAIN rows
      PROVE  /\ rows'[id] = IF id \in some THEN [rows[id] EXCEPT !.state = "read", !.takenBy = taking]
                            ELSE rows[id]
             /\ rows[id] \in Rows
             /\ rows'[id].mailbox = rows[id].mailbox /\ rows'[id].sender = rows[id].sender
             /\ rows'[id].sentAt = rows[id].sentAt /\ rows'[id].ordinal = rows[id].ordinal
             /\ rows'[id].supersedes = rows[id].supersedes
             /\ id \in some => rows'[id].state = "read" /\ rows'[id].takenBy = taking
             /\ id \notin some => rows'[id].state = rows[id].state /\ rows'[id].takenBy = rows[id].takenBy
  <2>1. rows[id] \in Rows
    BY <1>1, RowFields
  <2>2. rows'[id] = IF id \in some THEN [rows[id] EXCEPT !.state = "read", !.takenBy = taking]
                    ELSE rows[id]
    BY <1>3
  <2>3. PICK row, row1 : row = rows[id] /\ row1 = rows'[id]
    OBVIOUS
  <2>4. /\ row \in Rows
        /\ row1 = IF id \in some THEN [row EXCEPT !.state = "read", !.takenBy = taking] ELSE row
    BY <2>1, <2>2, <2>3
  <2>5. /\ row1.mailbox = row.mailbox /\ row1.sender = row.sender
        /\ row1.sentAt = row.sentAt /\ row1.ordinal = row.ordinal
        /\ row1.supersedes = row.supersedes
        /\ id \in some => row1.state = "read" /\ row1.takenBy = taking
        /\ id \notin some => row1.state = row.state /\ row1.takenBy = row.takenBy
    BY <2>4 DEF Rows
  <2>6. QED
    BY <2>1, <2>2, <2>3, <2>5
<1>6. DOMAIN rows' = DOMAIN rows
  BY <1>3
<1>7. Standing
  <2>1. Readable' = Readable
    BY <1>4, <1>5, <1>6 DEF Readable
  <2>2. QED
    BY <1>1, <1>5, <1>6, <2>1 DEF Standing
<1>8. /\ Line' = Line /\ Aside' = Aside
      /\ \A id \in Readable :
           /\ Cards'[id] = Message(id)'
           /\ Message(id)' = [Cards[id] EXCEPT !.state = rows'[id].state,
                                               !.takenBy = rows'[id].takenBy]
  BY <1>7, StandsInLine
<1>9. /\ LinedUp /\ CardsHeld /\ CardsHeld' /\ LoadedIsImage'
      /\ DOMAIN Cards = Readable /\ DOMAIN Cards' = Readable
  <2>1. LinedUp /\ CardsHeld /\ CardsHeld' /\ LoadedIsImage'
    BY LineUp, CardsHold, NextTables
  <2>2. QED
    BY <1>7, <2>1 DEF CardsHeld, Standing
<1>10. \A id \in Readable : /\ Cards[id].state = rows[id].state
                            /\ Cards[id].takenBy = rows[id].takenBy
                            /\ Cards[id].mailbox = rows[id].mailbox
                            /\ Cards[id] \in Messages
  BY <1>9 DEF CardsHeld, Message, IsBoard
<1>11. ASSUME NEW id \in some
       PROVE  HandedOver(taking)[id].message = Cards'[id]
  <2>1. rows[id].takenBy = None
    BY <1>1, <1>4, NewIsUntaken
  <2>2. HandedOver(taking)[id].message =
          [Cards[id] EXCEPT !.state = "read", !.takenBy = IF @ = None THEN taking ELSE @]
    BY <1>4 DEF HandedOver
  <2>3. Cards[id].takenBy = None
    BY <1>4, <1>10, <2>1
  <2>4. Cards'[id] = [Cards[id] EXCEPT !.state = "read", !.takenBy = taking]
    <3>1. id \in Readable /\ rows'[id].state = "read" /\ rows'[id].takenBy = taking
      BY <1>4, <1>5
    <3>2. Cards'[id] = [Cards[id] EXCEPT !.state = rows'[id].state, !.takenBy = rows'[id].takenBy]
      BY <1>8, <3>1
    <3>3. QED
      BY <3>1, <3>2
  <2>5. PICK card : card = Cards[id]
    OBVIOUS
  <2>6. card \in Messages /\ card.takenBy = None
    BY <1>4, <1>10, <2>3, <2>5
  <2>7. [card EXCEPT !.state = "read", !.takenBy = IF @ = None THEN taking ELSE @]
          = [card EXCEPT !.state = "read", !.takenBy = taking]
    BY <2>6 DEF Messages
  <2>8. QED
    BY <2>2, <2>4, <2>5, <2>7
<1>12. ASSUME NEW id \in Readable \ some
       PROVE  Cards'[id] = Cards[id]
  <2>1. Cards'[id] = [Cards[id] EXCEPT !.state = Cards[id].state, !.takenBy = Cards[id].takenBy]
    <3>1. rows'[id].state = Cards[id].state /\ rows'[id].takenBy = Cards[id].takenBy
      BY <1>4, <1>5, <1>10
    <3>2. Cards'[id] = [Cards[id] EXCEPT !.state = rows'[id].state, !.takenBy = rows'[id].takenBy]
      BY <1>8
    <3>3. QED
      BY <3>1, <3>2
  <2>2. PICK card \in Messages : card = Cards[id]
    BY <1>10
  <2>3. [card EXCEPT !.state = card.state, !.takenBy = card.takenBy] = card
    BY DEF Messages
  <2>4. QED
    BY <2>1, <2>2, <2>3
<1>13. ASSUME NEW id \in Readable
       PROVE  Cards'[id].mailbox = Cards[id].mailbox
  <2>1. Cards'[id].mailbox = rows'[id].mailbox
    <3>1. Message(id)'.mailbox = rows'[id].mailbox
      BY DEF Message
    <3>2. Cards'[id] = Message(id)'
      BY <1>8
    <3>3. QED
      BY <3>1, <3>2
  <2>2. QED
    BY <1>4, <1>5, <1>10, <2>1
<1>14. PICK after, heard : after = Cards' /\ heard = events'
  OBVIOUS
<1>15. IsBoard(after) /\ DOMAIN after = DOMAIN Cards
  <2>1. IsBoard(Cards')
    BY <1>9 DEF CardsHeld
  <2>2. QED
    BY <1>9, <1>14, <2>1
<1>16. TakenOn(Cards, after, some) = after
  <2>1. \A x \in Readable : after[x] = IF x \in some THEN after[x] ELSE Cards[x]
    BY <1>12, <1>14
  <2>2. after = [x \in DOMAIN after |-> after[x]]
    BY <1>15 DEF IsBoard
  <2>3. QED
    BY <1>9, <1>15, <2>1, <2>2 DEF TakenOn
<1>17. DOMAIN events = Ids /\ events = [x \in DOMAIN events |-> events[x]]
  BY <1>1 DEF TablesOK
<1>18. ToldOf(events, some, name) = heard
  BY <1>3, <1>14, <1>17 DEF ToldOf, Told
<1>19. PICK taken : taken = Moved(Delivery(name, taking))
  OBVIOUS
<1>20. Lists(taken, HandedOver(taking), some)
  BY <1>2, <1>19, MovedLists
<1>21. PICK l, order : /\ l \in Nat /\ Numbers(order, l, some)
                       /\ taken = [i \in 1..l |-> HandedOver(taking)[order[i]]]
  BY <1>20 DEF Lists
<1>22. Len(taken) = l /\ \A i \in 1..l : taken[i].message = after[order[i]]
  <2>1. \A i \in 1..l : order[i] \in some
    BY <1>21 DEF Numbers
  <2>2. QED
    BY <1>11, <1>14, <1>21, <2>1
<1>23. TakeEach(image, taken, name) \in
         {ImageOf(TakenOn(Cards, after, some), Line, boxes, Aside, ToldOf(events, some, name)), NoImage}
  <2>1. PICK m, told, line, img, owners, aside :
          /\ m = Cards /\ told = events /\ line = Line /\ img = image
          /\ owners = boxes /\ aside = Aside
    OBVIOUS
  <2>2. IsBoard(m) /\ Numbers(line, Cardinality(Readable), DOMAIN m)
        /\ Cardinality(Readable) \in Nat
    BY <1>9, <2>1 DEF CardsHeld, LinedUp
  <2>3. /\ DOMAIN m \subseteq DOMAIN told /\ IsBoard(after) /\ DOMAIN after = DOMAIN m
        /\ \A x \in DOMAIN m : after[x].mailbox = m[x].mailbox
        /\ some \in SUBSET DOMAIN m
        /\ img \in {ImageOf(m, line, owners, aside, told), NoImage}
        /\ told = [x \in DOMAIN told |-> told[x]]
    BY <1>1, <1>4, <1>9, <1>13, <1>14, <1>15, <1>17, <2>1
  <2>4. PICK n : n = Cardinality(Readable)
    OBVIOUS
  <2>5. n \in Nat /\ Numbers(line, n, DOMAIN m)
    BY <2>2, <2>4
  <2>6. TakeEach(img, taken, name) \in
         {ImageOf(TakenOn(m, after, some), line, owners, aside, ToldOf(told, some, name)), NoImage}
    BY <1>21, <1>22, <2>2, <2>3, <2>5, TakenHold
  <2>7. QED
    BY <2>1, <2>6
<1>24. TakeEach(image, taken, name) \in {Loaded', NoImage}
  <2>1. Loaded' = ImageOf(Cards', Line', boxes', Aside', events')
    BY <1>9 DEF LoadedIsImage
  <2>2. QED
    BY <1>1, <1>8, <1>14, <1>16, <1>18, <1>23, <2>1
<1>25. QED
  BY <1>3, <1>19, <1>24 DEF Follow, Refill, ImageIsStore

\* Numbers are given once, and kept.
LEMMA InTurnKept ==
  ASSUME Inv, InTurn, Settled \/ Files \/ Renames \/ Makes
  PROVE  InTurn'
<1>1. TablesOK /\ Filed
  BY DEF Inv
<1>2. CASE Settled
  <2>1. DOMAIN rows' = DOMAIN rows /\ \A id \in DOMAIN rows : rows'[id].ordinal = rows[id].ordinal
    BY <1>2 DEF Settled, SameMessage
  <2>2. QED
    BY <2>1 DEF InTurn
<1>3. CASE Files
  <2>1. PICK id \in Ids \ DOMAIN rows, name \in DOMAIN boxes, sender \in Senders, at \in Instants,
             target \in DOMAIN rows \cup {None} :
          /\ DOMAIN rows' = DOMAIN rows \cup {id}
          /\ rows'[id] = NewRow(name, sender, at, target)
          /\ \A old \in DOMAIN rows : rows'[old] = rows[old]
    BY <1>3 DEF Files
  <2>2. rows'[id].ordinal = Cardinality(DOMAIN rows) + 1
    BY <2>1 DEF NewRow
  <2>3. Cardinality(DOMAIN rows) \in Nat
    BY <1>1, FS_CardinalityType DEF Filed
  <2>4. \A old \in DOMAIN rows : rows'[old].ordinal \in 1..Cardinality(DOMAIN rows)
    BY <1>1, <2>1 DEF Filed
  <2>5. \A old \in DOMAIN rows : rows'[old].ordinal # rows'[id].ordinal
    BY <2>2, <2>3, <2>4
  <2>6. QED
    BY <2>1, <2>5 DEF InTurn
<1>4. CASE Renames
  <2>1. PICK old \in DOMAIN boxes, new \in Names :
          rows' = [id \in DOMAIN rows |->
                     IF rows[id].mailbox = old THEN [rows[id] EXCEPT !.mailbox = new]
                     ELSE rows[id]]
    BY <1>4 DEF Renames
  <2>2. \A id \in DOMAIN rows : rows'[id].ordinal = rows[id].ordinal
    <3>1. \A id \in DOMAIN rows : rows[id] \in Rows
      BY <1>1 DEF TablesOK
    <3>2. QED
      BY <2>1, <3>1 DEF Rows
  <2>3. DOMAIN rows' = DOMAIN rows
    BY <2>1
  <2>4. QED
    BY <2>2, <2>3 DEF InTurn
<1>5. CASE Makes
  BY <1>5 DEF Makes, InTurn
<1>6. QED
  BY <1>2, <1>3, <1>4, <1>5

\* The tables keep their rules, no two messages are numbered alike, and the
\* image is the one a full read would make.
ImageInv == Inv /\ InTurn /\ ImageIsStore

LEMMA OrderedKept ==
  Inv /\ InTurn /\ [Next]_mailVars => Inv' /\ InTurn' /\ Ordered /\ Ordered'
<1>1. Inv /\ [Next]_mailVars => Inv'
  BY TablesMove, SettledKeepsTables, SettledExplains, FilesKeeps, RenamesKeeps, MakesKeeps DEF Inv
<1>2. Inv /\ InTurn /\ [Next]_mailVars => InTurn'
  BY TablesMove, InTurnKept
<1>3. QED
  BY <1>1, <1>2 DEF Ordered, Inv

LEMMA ImageFollowed ==
  ImageInv /\ [Next]_mailVars => ImageInv'
<1> SUFFICES ASSUME ImageInv, [Next]_mailVars PROVE ImageIsStore'
  BY OrderedKept DEF ImageInv
<1>1. Ordered /\ Ordered' /\ Inv /\ ImageIsStore
  BY OrderedKept DEF ImageInv
<1>2. Replaces /\ AccountExplainsState
  BY <1>1 DEF Inv
<1>3. ASSUME NEW name \in Names, NEW owner \in Owners, CreateMailbox(name, owner)
      PROVE  ImageIsStore'
  BY <1>3, RefillFollowed DEF CreateMailbox
<1>4. ASSUME NEW from \in Owners, NEW to \in Owners, RepointOwner(from, to)
      PROVE  ImageIsStore'
  BY <1>4, RefillFollowed DEF RepointOwner
<1>5. ASSUME NEW id \in Ids, NEW name \in Names, NEW sender \in Senders, NEW at \in Instants,
             NEW target \in DOMAIN rows \cup {None}, PostMessage(id, name, sender, at, target)
      PROVE  ImageIsStore'
  BY <1>1, <1>2, <1>5, PostFollowed
<1>6. ASSUME NEW name \in Names, NEW taking \in Taken, ReadMailbox(name, taking)
      PROVE  ImageIsStore'
  BY <1>1, <1>2, <1>6, ReadMailboxFollowed
<1>7. ASSUME NEW id \in DOMAIN rows, ReadMessage(id)
      PROVE  ImageIsStore'
  BY <1>1, <1>7, ReadMessageFollowed
<1>8. ASSUME NEW id \in DOMAIN rows, NEW by \in Names, MarkProcessed(id, by)
      PROVE  ImageIsStore'
  BY <1>1, <1>8, MarkFollowed
<1>9. ASSUME NEW id \in DOMAIN rows, NEW by \in Names, Quarantine(id, by)
      PROVE  ImageIsStore'
  BY <1>9, RefillFollowed DEF Quarantine
<1>10. CASE Rebuild
  BY <1>10, RefillFollowed DEF Rebuild
<1>11. CASE UNCHANGED mailVars
  <2>1. boxes' = boxes /\ rows' = rows /\ events' = events /\ image' = image
    BY <1>11 DEF mailVars
  <2>2. Loaded' = Loaded
    BY <2>1 DEF Loaded, Boxes, Board, Tally, SupersededBy, Message, Readable, Rank, Before
  <2>3. QED
    BY <1>1, <2>1, <2>2 DEF ImageIsStore
<1>12. QED
  BY <1>3, <1>4, <1>5, <1>6, <1>7, <1>8, <1>9, <1>10, <1>11 DEF Next

\* Whatever sequence of verbs ran, the rules of the tables hold and the image is
\* none or the one a full read of the tables makes: the induction the two
\* theorems below rest on.
THEOREM ImageInvariance == Spec => []ImageInv
<1>1. Init => ImageInv
  <2>1. Init => InTurn /\ ImageIsStore
    BY DEF Init, InTurn, ImageIsStore
  <2>2. QED
    BY <2>1, InitHolds DEF ImageInv
<1>2. QED
  BY <1>1, ImageFollowed, PTL DEF Spec

\* The image that fold/mail.rs brought up to date by arithmetic after any verbs
\* holds the messages in the order, the counts and the accounts that a fresh
\* read of the store would give.
THEOREM ImageFollows == Spec => []ImageIsStore
<1>1. ImageInv => ImageIsStore
  BY DEF ImageInv
<1>2. QED
  BY <1>1, ImageInvariance, PTL

\* The board is the readable messages, each once, in the order of Card::order.
BoardInOrder ==
  /\ Len(Board) = Cardinality(Readable)
  /\ \A i \in 1..Len(Board) : Board[i].id \in Readable /\ Board[i] = Message(Board[i].id)
  /\ \A id \in Readable : \E i \in 1..Len(Board) : Board[i] = Message(id)
  /\ \A i, j \in 1..Len(Board) : i < j => Before(Board[i].id, Board[j].id)

LEMMA OrderedBoard == Ordered => BoardInOrder
<1> SUFFICES ASSUME Ordered PROVE BoardInOrder
  OBVIOUS
<1>1. LinedUp /\ CardsHeld
  BY LineUp, CardsHold
<1> DEFINE n == Cardinality(Readable)
<1>2. /\ n \in Nat /\ DOMAIN Line = 1..n
      /\ \A i \in 1..n : Line[i] \in Readable /\ Rank(Line[i]) = i
      /\ \A id \in Readable : Rank(id) \in 1..n /\ Line[Rank(id)] = id
      /\ \A a, b \in Readable : Rank(a) < Rank(b) => Before(a, b)
  BY <1>1 DEF LinedUp, Numbers
<1>3. Board = [i \in 1..n |-> Message(Line[i])]
  <2>1. \A i \in 1..n : Line[i] = CHOOSE id \in Readable : Rank(id) = i
    BY DEF Line
  <2>2. \A i \in 1..n : Message(CHOOSE id \in Readable : Rank(id) = i) = Message(Line[i])
    BY <2>1
  <2>3. Board = [i \in 1..n |-> Message(CHOOSE id \in Readable : Rank(id) = i)]
    BY DEF Board
  <2> HIDE DEF n
  <2>4. QED
    BY <2>2, <2>3
<1> HIDE DEF n
<1>4. Len(Board) = n /\ \A i \in 1..n : Board[i] = Message(Line[i])
  BY <1>2, <1>3
<1>5. \A i \in 1..n : Board[i].id = Line[i]
  BY <1>4 DEF Message
<1>6. \A i, j \in 1..n : i < j => Before(Line[i], Line[j])
  BY <1>2
<1>7. QED
  BY <1>2, <1>4, <1>5, <1>6 DEF BoardInOrder, n

\* Numbers are given once, so the sort of the cards by Card::order has a single
\* result, and the board is it: every readable message, each once, none before
\* one that was sent earlier or filed earlier at the same instant.
THEOREM BoardSorted == Spec => []BoardInOrder
<1>1. ImageInv => BoardInOrder
  BY OrderedBoard DEF ImageInv, Inv, Ordered
<1>2. QED
  BY <1>1, ImageInvariance, PTL

LEMMA CountsTyped ==
  ImageInv => TypeOK
<1> SUFFICES ASSUME ImageInv PROVE TypeOK
  OBVIOUS
<1>1. Ordered /\ TablesOK
  BY DEF ImageInv, Inv, Ordered
<1>2. ASSUME image # NoImage, NEW name \in DOMAIN image.boxes
      PROVE  image.boxes[name].counts \in [new : Nat, superseded : Nat, read : Nat, processed : Nat]
  <2>1. CardsHeld /\ image = ImageOf(Cards, Line, boxes, Aside, events)
    BY <1>1, <1>2, CardsHold, LoadedIs DEF ImageInv, ImageIsStore, LoadedIsImage
  <2>2. IsFiniteSet(DOMAIN Cards)
    BY <2>1 DEF CardsHeld, IsBoard
  <2>3. image.boxes = BoxesOf(Cards, boxes, Aside)
    BY <2>1 DEF ImageOf
  <2>4. image.boxes[name].counts = CountsOf(Cards, name)
    BY <1>2, <2>3 DEF BoxesOf
  <2>5. \A class : Cardinality(InClass(Cards, name, class)) \in Nat
    BY <2>2, ClassesFinite
  <2>6. QED
    BY <2>4, <2>5 DEF CountsOf
<1>3. QED
  BY <1>1, <1>2 DEF TypeOK

\* The tables keep their types, every message sits in a box that exists whatever
\* box followed its owner to another name, and no unsigned counter of the image
\* is taken below zero by an uncounted message.
THEOREM MailboxTyped == Spec => []TypeOK
BY CountsTyped, ImageInvariance, PTL

\* A list of members of a set is a sequence of them.
LEMMA ListsTyped ==
  ASSUME NEW S, NEW f, NEW s, Lists(s, f, S), NEW T, \A x \in S : f[x] \in T
  PROVE  s \in Seq(T)
<1>1. PICK n, line : n \in Nat /\ Numbers(line, n, S) /\ s = [i \in 1..n |-> f[line[i]]]
  BY DEF Lists
<1>2. \A i \in 1..n : line[i] \in S
  BY <1>1 DEF Numbers
<1>3. n \in Nat /\ s \in [1..n -> T]
  BY <1>1, <1>2
<1>4. QED
  BY <1>3

\* What the withheld messages of a box are named as: ids, each with another.
LEMMA NamedTyped ==
  ASSUME Ordered, NEW name
  PROVE  Named(Unprocessed(Board, name)) \in Seq([id : Ids, by : Ids])
<1>1. PICK cards : cards = Unprocessed(Board, name)
  OBVIOUS
<1> DEFINE places == {i \in DOMAIN cards : Withheld(cards[i])}
           kept == {x \in Open(name) : Withheld(Cards[x])}
           withheld == At(cards, places)
           named == [i \in 1..Len(withheld) |-> [id |-> withheld[i].id, by |-> withheld[i].supersededBy]]
<1>2. Lists(cards, Cards, Open(name))
  BY <1>1, OpenLists
<1>3. Lists(withheld, Cards, kept)
  <2>1. kept \in SUBSET Open(name) /\ places \in SUBSET DOMAIN cards
    OBVIOUS
  <2>2. \A i \in DOMAIN cards, x \in Open(name) : cards[i] = Cards[x] => (i \in places <=> x \in kept)
    OBVIOUS
  <2> HIDE DEF places, kept
  <2>3. QED
    BY <1>2, <2>1, <2>2, AtLists
<1>4. Named(cards) = named
  BY DEF Named
<1>5. ASSUME NEW x \in kept
      PROVE  Cards[x].id \in Ids /\ Cards[x].supersededBy \in Ids
  <2>1. Cards[x] \in Messages /\ Withheld(Cards[x])
    BY CardsHold DEF CardsHeld, IsBoard, Open
  <2>2. QED
    BY <2>1 DEF Messages, Withheld
<1> HIDE DEF withheld, kept
<1>6. /\ Len(withheld) \in Nat
      /\ \A i \in 1..Len(withheld) : \E x \in kept : withheld[i] = Cards[x]
  BY <1>3, ListsShape
<1>7. \A i \in 1..Len(withheld) : withheld[i].id \in Ids /\ withheld[i].supersededBy \in Ids
  BY <1>5, <1>6
<1>8. named \in [1..Len(withheld) -> [id : Ids, by : Ids]]
  BY <1>7
<1>9. QED
  BY <1>1, <1>4, <1>6, <1>8

\* A delivery the store makes is one.
LEMMA DeliveryTyped ==
  ASSUME Ordered, NEW name, NEW taking \in Taken
  PROVE  Delivery(name, taking) \in Deliveries
<1>1. PICK made : made = Delivery(name, taking)
  OBVIOUS
<1>2. made = [messages |-> made.messages, superseded |-> Named(Unprocessed(Board, name))]
  BY <1>1 DEF Delivery
<1>3. made.messages \in Seq([message : Messages, seenBefore : BOOLEAN])
  <2>1. ASSUME NEW x \in Handed(name)
        PROVE  HandedOver(taking)[x] \in [message : Messages, seenBefore : BOOLEAN]
    <3>1. x \in Readable
      BY DEF Handed, Open
    <3>2. PICK card : card = Cards[x]
      OBVIOUS
    <3>3. card \in Messages
      BY <3>1, <3>2, CardsHold DEF CardsHeld, IsBoard
    <3>4. [card EXCEPT !.state = "read", !.takenBy = IF @ = None THEN taking ELSE @] \in Messages
      BY <3>3 DEF Messages, States
    <3>5. HandedOver(taking)[x] =
            [message |-> [card EXCEPT !.state = "read", !.takenBy = IF @ = None THEN taking ELSE @],
             seenBefore |-> card.state = "read"]
      BY <3>1, <3>2 DEF HandedOver
    <3>6. (card.state = "read") \in BOOLEAN
      OBVIOUS
    <3>7. QED
      BY <3>4, <3>5, <3>6
  <2>2. Lists(made.messages, HandedOver(taking), Handed(name))
    BY <1>1, HandedLists
  <2>3. QED
    BY <2>1, <2>2, ListsTyped
<1>4. PICK handed, named : handed = made.messages /\ named = Named(Unprocessed(Board, name))
  OBVIOUS
<1>5. named \in Seq([id : Ids, by : Ids])
  BY <1>4, NamedTyped
<1>6. [messages |-> handed, superseded |-> named] \in Deliveries
  BY <1>3, <1>4, <1>5 DEF Deliveries
<1>7. QED
  BY <1>1, <1>2, <1>4, <1>6

\* A box that holds nothing new: what is taken of it is the store's delivery.
LEMMA LeftoversMade ==
  ASSUME Ordered, NEW name, NEW taking \in Taken, Owed(name) = {}
  PROVE  LET cards == Unprocessed(Board, name)
             taken == At(cards, {i \in DOMAIN cards : cards[i].state # "new"})
         IN Delivery(name, taking) =
              [messages |-> [i \in 1..Len(taken) |->
                  [message |-> [taken[i] EXCEPT !.takenBy = IF @ = None THEN taking ELSE @],
                   seenBefore |-> TRUE]],
               superseded |-> Named(cards)]
<1>1. PICK cards : cards = Unprocessed(Board, name)
  OBVIOUS
<1> DEFINE places == {i \in DOMAIN cards : ~Withheld(cards[i])}
           places1 == {i \in DOMAIN cards : cards[i].state # "new"}
           owed == At(cards, places)
           taken == At(cards, places1)
<1>2. Lists(cards, Cards, Open(name))
  BY <1>1, OpenLists
<1>3. \A x \in Open(name) :
        /\ Cards[x] \in Messages /\ Cards[x].state \in {"new", "read"}
        /\ Cards[x].state = "new" <=> Withheld(Cards[x])
  <2>1. CardsHeld
    BY CardsHold
  <2>2. ASSUME NEW x \in Open(name)
        PROVE  /\ Cards[x] \in Messages /\ Cards[x].state \in {"new", "read"}
               /\ Cards[x].state = "new" => Cards[x].supersededBy # None
    <3>1. x \in Readable /\ Cards[x].mailbox = name /\ Cards[x].state # "processed"
      BY DEF Open
    <3>2. Cards[x] \in Messages /\ Cards[x] = Message(x)
      BY <2>1, <3>1 DEF CardsHeld, IsBoard
    <3>3. Cards[x].state \in {"new", "read"}
      BY <3>1, <3>2 DEF Messages, States
    <3>4. /\ Cards[x].state = rows[x].state /\ Cards[x].mailbox = rows[x].mailbox
          /\ Cards[x].supersededBy = SupersededBy(x)
      BY <3>2 DEF Message
    <3>5. QED
      BY <3>1, <3>2, <3>3, <3>4 DEF Owed
  <2>3. QED
    BY <2>2 DEF Withheld
<1>4. /\ Len(cards) \in Nat /\ DOMAIN cards = 1..Len(cards)
      /\ \A i \in 1..Len(cards) : \E x \in Open(name) : cards[i] = Cards[x]
  BY <1>2, ListsShape
<1>5. places = places1
  BY <1>3, <1>4
<1>6. owed = taken
  BY <1>5
<1> DEFINE kept == {x \in Open(name) : Cards[x].state # "new"}
<1>7. Lists(taken, Cards, kept)
  <2>1. kept \in SUBSET Open(name) /\ places1 \in SUBSET DOMAIN cards
    OBVIOUS
  <2>2. \A i \in DOMAIN cards, x \in Open(name) : cards[i] = Cards[x] => (i \in places1 <=> x \in kept)
    OBVIOUS
  <2> HIDE DEF places1, kept
  <2>3. QED
    BY <1>2, <2>1, <2>2, AtLists
<1>8. \A i \in 1..Len(taken) : taken[i] \in Messages /\ taken[i].state = "read"
  <2>1. \A x \in kept : Cards[x] \in Messages /\ Cards[x].state = "read"
    BY <1>3
  <2> HIDE DEF taken, kept
  <2>2. \A i \in 1..Len(taken) : \E x \in kept : taken[i] = Cards[x]
    BY <1>7, ListsShape
  <2>3. QED
    BY <2>1, <2>2
<1>9. Delivery(name, taking) =
        [messages |-> [i \in 1..Len(owed) |->
                         [message |-> [owed[i] EXCEPT !.state = "read",
                                                      !.takenBy = IF @ = None THEN taking ELSE @],
                          seenBefore |-> owed[i].state = "read"]],
         superseded |-> Named(cards)]
  BY <1>1 DEF Delivery
<1> HIDE DEF owed, taken
<1>10. ASSUME NEW i \in 1..Len(taken)
       PROVE  [message |-> [owed[i] EXCEPT !.state = "read",
                                           !.takenBy = IF @ = None THEN taking ELSE @],
               seenBefore |-> owed[i].state = "read"]
            = [message |-> [taken[i] EXCEPT !.takenBy = IF @ = None THEN taking ELSE @],
               seenBefore |-> TRUE]
  <2>1. PICK card : card = taken[i]
    OBVIOUS
  <2>2. card \in Messages /\ card.state = "read" /\ owed[i] = card
    BY <1>6, <1>8, <2>1
  <2>3. [card EXCEPT !.state = "read", !.takenBy = IF @ = None THEN taking ELSE @]
          = [card EXCEPT !.takenBy = IF @ = None THEN taking ELSE @]
    BY <2>2 DEF Messages
  <2>4. (card.state = "read") = TRUE
    BY <2>2
  <2>5. QED
    BY <2>1, <2>2, <2>3, <2>4
<1>11. Delivery(name, taking) =
        [messages |-> [i \in 1..Len(taken) |->
                         [message |-> [taken[i] EXCEPT !.takenBy = IF @ = None THEN taking ELSE @],
                          seenBefore |-> TRUE]],
         superseded |-> Named(cards)]
  BY <1>6, <1>9, <1>10
<1>12. QED
  BY <1>1, <1>11 DEF taken

LEMMA OwedFound ==
  ASSUME Ordered, NEW name
  PROVE  LET cards == Unprocessed(Board, name)
         IN (\E i \in 1..Len(cards) : cards[i].state = "new" /\ cards[i].supersededBy = None)
              <=> Owed(name) # {}
<1>1. PICK cards : cards = Unprocessed(Board, name)
  OBVIOUS
<1>2. Lists(cards, Cards, Open(name))
  BY <1>1, OpenLists
<1>3. /\ \A i \in 1..Len(cards) : \E x \in Open(name) : cards[i] = Cards[x]
      /\ \A x \in Open(name) : \E i \in 1..Len(cards) : cards[i] = Cards[x]
  BY <1>2, ListsShape
<1>4. Owed(name) = {x \in Open(name) : Cards[x].state = "new" /\ Cards[x].supersededBy = None}
  <2>1. \A x \in Readable : /\ Cards[x].state = rows[x].state /\ Cards[x].mailbox = rows[x].mailbox
                            /\ Cards[x].supersededBy = SupersededBy(x)
    BY CardsHold DEF CardsHeld, Message
  <2>2. QED
    BY <2>1 DEF Owed, Open
<1>5. (\E i \in 1..Len(cards) : cards[i].state = "new" /\ cards[i].supersededBy = None)
        <=> Owed(name) # {}
  BY <1>3, <1>4
<1>6. QED
  BY <1>1, <1>5

LEMMA Agreed == ImageInv => DeliveryAgrees
<1> SUFFICES ASSUME ImageInv, image # NoImage, NEW name \in DOMAIN boxes, NEW taking \in Taken
             PROVE  /\ (LeftoversOf(name, taking) = None) <=> (Moved(Delivery(name, taking)) # <<>>)
                    /\ LeftoversOf(name, taking) # None =>
                         LeftoversOf(name, taking) = Delivery(name, taking)
                    /\ image.boxes[name].counts.new = Len(Moved(Delivery(name, taking)))
  BY DEF DeliveryAgrees
<1>1. Ordered /\ CardsHeld /\ LoadedIsImage /\ image = Loaded
  BY CardsHold, LoadedIs DEF ImageInv, Inv, Ordered, ImageIsStore
<1>2. image.messages = Board /\ name \in DOMAIN image.boxes
  BY <1>1 DEF Loaded, Boxes
<1>3. PICK cards : cards = Unprocessed(Board, name)
  OBVIOUS
<1> DEFINE taken == At(cards, {i \in DOMAIN cards : cards[i].state # "new"})
           leftovers == [messages |-> [i \in 1..Len(taken) |->
                            [message |-> [taken[i] EXCEPT !.takenBy = IF @ = None THEN taking ELSE @],
                             seenBefore |-> TRUE]],
                         superseded |-> Named(cards)]
<1>4. LeftoversOf(name, taking) =
        IF \E i \in 1..Len(cards) : cards[i].state = "new" /\ cards[i].supersededBy = None
        THEN None ELSE leftovers
  BY <1>2, <1>3 DEF LeftoversOf
<1>5. (\E i \in 1..Len(cards) : cards[i].state = "new" /\ cards[i].supersededBy = None)
        <=> Owed(name) # {}
  BY <1>1, <1>3, OwedFound
<1>6. Lists(Moved(Delivery(name, taking)), HandedOver(taking), Owed(name))
  BY <1>1, MovedLists
<1>7. /\ Moved(Delivery(name, taking)) = <<>> <=> Owed(name) = {}
      /\ Cardinality(Owed(name)) = Len(Moved(Delivery(name, taking)))
  BY <1>6, ListsShape
<1> HIDE DEF leftovers
<1>8. Owed(name) = {} => leftovers = Delivery(name, taking)
  BY <1>1, <1>3, LeftoversMade DEF leftovers
<1>9. Delivery(name, taking) # None
  BY <1>1, DeliveryTyped, NoDeliveryAssumption
<1>10. image.boxes[name].counts.new = Cardinality(Owed(name))
  <2>1. image = ImageOf(Cards, Line, boxes, Aside, events)
    BY <1>1 DEF LoadedIsImage
  <2>2. image.boxes = BoxesOf(Cards, boxes, Aside)
    BY <2>1 DEF ImageOf
  <2>3. image.boxes[name].counts = CountsOf(Cards, name)
    BY <2>2 DEF BoxesOf
  <2>4. image.boxes[name].counts.new = Cardinality(InClass(Cards, name, "new"))
    BY <2>3 DEF CountsOf
  <2>5. DOMAIN Cards = Readable
        /\ \A x \in Readable : /\ Cards[x].state = rows[x].state
                               /\ Cards[x].mailbox = rows[x].mailbox
                               /\ Cards[x].supersededBy = SupersededBy(x)
    BY <1>1 DEF CardsHeld, Message
  <2>6. InClass(Cards, name, "new") = Owed(name)
    BY <2>5 DEF InClass, Class, Withheld, Owed
  <2>7. QED
    BY <2>4, <2>6
<1>11. QED
  BY <1>4, <1>5, <1>7, <1>8, <1>9, <1>10

\* The image answers a delivery exactly when the store's delivery of the box
\* would take nothing, and with that delivery; and it counts as new what a
\* delivery of the store would take.
THEOREM DeliveriesAgree == Spec => []DeliveryAgrees
BY Agreed, ImageInvariance, PTL
=============================================================================
