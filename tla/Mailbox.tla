------------------------------ MODULE Mailbox ------------------------------
(***************************************************************************)
(* The mailboxes: the rules the store applies to boxes and messages        *)
(* (jojobot-adapters/src/dolt/mailboxes.rs, jojobot-domain/src/mailbox.rs) *)
(* and the arithmetic by which the serving image follows each verb instead *)
(* of reading the board again (jojobot-adapters/src/fold/mail.rs).         *)
(*                                                                         *)
(* A verb is one step: the owner of writes runs one job at a time, and     *)
(* module Writer is about what happens when its commit is ambiguous.  A    *)
(* refused verb changes nothing and is no step.  Subjects, bodies, notes,  *)
(* reasons and reply links are kept and never read by these rules, so they *)
(* are left out.  The push row a post may write is in module Push.         *)
(***************************************************************************)
EXTENDS Integers, SequencesExt

CONSTANTS
  Names,     \* the names a box can wear
  Owners,    \* the entities that can own a box
  NamedFor,  \* MailboxName::named_for: the name an owner's box follows it to
  Ids,       \* the message ids the store can mint
  Senders,   \* the senders callers declare
  Instants,  \* the send times callers declare
  None,      \* the absence of a message, of a taking, of a cached delivery
  NoImage    \* the `None` of the image slot

States == {"new", "read", "processed", "quarantined"}
Taken  == {"reading", "posting"}

ASSUME NamedForAssumption == NamedFor \in [Owners -> Names]
ASSUME InstantsAssumption == Instants \subseteq Nat
ASSUME NoneAssumption == None \notin Ids \cup Taken

\* A message as it is answered, and a delivery of a box.
Messages ==
  [id : Ids, mailbox : Names, sender : Senders, sentAt : Instants,
   state : States \ {"quarantined"}, supersedes : Ids \cup {None},
   supersededBy : Ids \cup {None}, takenBy : Taken \cup {None}]

Deliveries ==
  [messages : Seq([message : Messages, seenBefore : BOOLEAN]),
   superseded : Seq([id : Ids, by : Ids])]

ASSUME NoDeliveryAssumption == None \notin Deliveries

VARIABLES
  boxes,   \* table mailbox: the owner of each box
  rows,    \* tables message and message_delivery, by id
  events,  \* table message_event: each message's changes of state, in order
  image    \* the serving image, or NoImage

mailVars == <<boxes, rows, events, image>>

-----------------------------------------------------------------------------
(* What the store answers.                                                 *)

\* The i-th least of a set of places, and what a sequence holds at a set of
\* places, in its order.
Nth(places, i) == CHOOSE p \in places : Cardinality({q \in places : q <= p}) = i
At(s, places) == [i \in 1..Cardinality(places) |-> s[Nth(places, i)]]

\* `superseded_by` of the cards: the last filed message that names this one
\* and was not set aside.
SupersededBy(id) ==
  LET by == {s \in DOMAIN rows : rows[s].supersedes = id /\ rows[s].state # "quarantined"}
  IN IF by = {} THEN None
     ELSE CHOOSE s \in by : \A t \in by : rows[t].ordinal <= rows[s].ordinal

Readable == {id \in DOMAIN rows : rows[id].state # "quarantined"}

Message(id) ==
  [id |-> id, mailbox |-> rows[id].mailbox, sender |-> rows[id].sender,
   sentAt |-> rows[id].sentAt, state |-> rows[id].state,
   supersedes |-> rows[id].supersedes, supersededBy |-> SupersededBy(id),
   takenBy |-> rows[id].takenBy]

\* Card::order: the instant the sender declared, then the order of filing.
Before(a, b) ==
  \/ rows[a].sentAt < rows[b].sentAt
  \/ rows[a].sentAt = rows[b].sentAt /\ rows[a].ordinal < rows[b].ordinal

\* A message's place on the board: one past the readable messages before it.
Rank(id) == Cardinality({other \in Readable : ~Before(id, other)})

\* scan_messages.
Board ==
  [i \in 1..Cardinality(Readable) |-> Message(CHOOSE id \in Readable : Rank(id) = i)]

\* DoltMailboxes::tally: every readable row of the box by its state, the new
\* ones that a later message replaced apart.
Tally(name) ==
  LET of(state) == {id \in Readable : rows[id].mailbox = name /\ rows[id].state = state}
      replaced  == {id \in of("new") : SupersededBy(id) # None}
  IN [new |-> Cardinality(of("new")) - Cardinality(replaced),
      superseded |-> Cardinality(replaced),
      read |-> Cardinality(of("read")),
      processed |-> Cardinality(of("processed"))]

\* list_mailboxes.
Boxes ==
  [name \in DOMAIN boxes |->
     [owner |-> boxes[name], counts |-> Tally(name),
      quarantined |-> {id \in DOMAIN rows \ Readable : rows[id].mailbox = name}]]

\* FoldedMailboxes::fill: the image a full read of the store makes.
Loaded == [boxes |-> Boxes, messages |-> Board, events |-> events]

\* A message nobody has taken that a later one replaced is withheld.
Withheld(m) == m.state = "new" /\ m.supersededBy # None

Unprocessed(messages, name) ==
  At(messages, {i \in DOMAIN messages :
                  messages[i].mailbox = name /\ messages[i].state # "processed"})

Named(messages) ==
  LET withheld == At(messages, {i \in DOMAIN messages : Withheld(messages[i])})
  IN [i \in 1..Len(withheld) |-> [id |-> withheld[i].id, by |-> withheld[i].supersededBy]]

\* The delivery DoltMailboxes::read_mailbox makes: every unprocessed message
\* of the box that is not withheld, the new ones taken now.
Delivery(name, taking) ==
  LET cards == Unprocessed(Board, name)
      owed  == At(cards, {i \in DOMAIN cards : ~Withheld(cards[i])})
  IN [messages |-> [i \in 1..Len(owed) |->
                      [message |-> [owed[i] EXCEPT !.state = "read",
                                                   !.takenBy = IF @ = None THEN taking ELSE @],
                       seenBefore |-> owed[i].state = "read"]],
      superseded |-> Named(cards)]

\* The messages a delivery takes.
Moved(delivery) ==
  At(delivery.messages, {i \in DOMAIN delivery.messages : ~delivery.messages[i].seenBefore})

-----------------------------------------------------------------------------
(* The image's arithmetic.  An image it cannot bring up to date is NoImage. *)

\* Mutant: the store's delivery is taken for cached whatever is new.
LeftoversOfAny(name, taking) ==
  IF name \notin DOMAIN image.boxes THEN None
  ELSE [messages |-> <<>>, superseded |-> Named(Unprocessed(image.messages, name))]

\* Image::leftovers_of: the delivery of a box that holds nothing new, or None
\* when the store has to make it.
LeftoversOf(name, taking) ==
  LET cards == Unprocessed(image.messages, name)
      taken == At(cards, {i \in DOMAIN cards : cards[i].state # "new"})
  IN IF \/ name \notin DOMAIN image.boxes
        \/ \E i \in 1..Len(cards) : cards[i].state = "new" /\ cards[i].supersededBy = None
     THEN None
     ELSE [messages |-> [i \in 1..Len(taken) |->
                           [message |-> [taken[i] EXCEPT !.takenBy = IF @ = None THEN taking ELSE @],
                            seenBefore |-> TRUE]],
           superseded |-> Named(cards)]

Count(counts, m) ==
  IF Withheld(m) THEN [counts EXCEPT !.superseded = @ + 1]
  ELSE [counts EXCEPT ![m.state] = @ + 1]

Uncount(counts, m) ==
  IF Withheld(m) THEN [counts EXCEPT !.superseded = @ - 1]
  ELSE [counts EXCEPT ![m.state] = @ - 1]

\* Image.at.
Place(img, id) == SelectInSeq(img.messages, LAMBDA m : m.id = id)

Put(img, m) ==
  IF img = NoImage THEN NoImage
  ELSE IF Place(img, m.id) = 0 \/ m.mailbox \notin DOMAIN img.boxes THEN NoImage
  ELSE LET old == img.messages[Place(img, m.id)]
           left == [img EXCEPT !.boxes[old.mailbox].counts = Uncount(@, old)]
       IN [left EXCEPT !.messages[Place(img, m.id)] = m,
                       !.boxes[m.mailbox].counts = Count(@, m)]

\* Mutant: the replaced message is left as it was.
FileUnmarked(img, m) ==
  IF img = NoImage THEN NoImage
  ELSE [img EXCEPT !.boxes[m.mailbox].counts = Count(@, m),
                   !.messages = Append(@, m)]

\* The replaced message is replaced from now on, and the new one stands last
\* among the messages of its instant.
File(img, m) ==
  LET marked == IF img = NoImage \/ m.supersedes = None THEN img
                ELSE IF Place(img, m.supersedes) = 0 THEN NoImage
                ELSE Put(img, [img.messages[Place(img, m.supersedes)]
                                 EXCEPT !.supersededBy = m.id])
  IN IF marked = NoImage THEN NoImage
     ELSE IF m.mailbox \notin DOMAIN marked.boxes THEN NoImage
     ELSE LET earlier == {i \in 1..Len(marked.messages) :
                            marked.messages[i].sentAt <= m.sentAt}
          IN [marked EXCEPT !.boxes[m.mailbox].counts = Count(@, m),
                            !.messages = InsertAt(@, Cardinality(earlier) + 1, m)]

\* next_event: a change is numbered one past the highest the message holds.
NextEvent(held, kind, byBox, prior) ==
  LET ordinals == {held[i].ordinal : i \in DOMAIN held}
  IN [ordinal |-> IF ordinals = {} THEN 1 ELSE Max(ordinals) + 1,
      kind |-> kind, byBox |-> byBox, prior |-> prior]

Record(img, id, kind, byBox, prior) ==
  IF img = NoImage THEN NoImage
  ELSE [img EXCEPT !.events[id] = Append(@, NextEvent(@, kind, byBox, prior))]

\* FoldedMailboxes::read_mailbox: every message the delivery took is held as it
\* is now, one by one, and its taking recorded.
TakeEach(img, taken, name) ==
  LET upTo[n \in 0..Len(taken)] ==
        IF n = 0 THEN img
        ELSE Record(Put(upTo[n - 1], taken[n].message), taken[n].message.id, "read", name, "new")
  IN upTo[Len(taken)]

\* FoldedMailboxes::refill: the board is read again, or the image dropped.
Refill == image' \in {Loaded', NoImage}

\* FoldedMailboxes::follow.
Follow(followed) == IF followed # NoImage THEN image' = followed ELSE Refill

-----------------------------------------------------------------------------
(* The verbs.                                                              *)

Init ==
  /\ boxes = <<>>
  /\ rows = <<>>
  /\ events = [id \in Ids |-> <<>>]
  /\ image = Loaded

\* A name another box wears is refused.  A near miss is refused too, unless
\* the caller insists, so every other name can be made.
CreateMailbox(name, owner) ==
  /\ name \notin DOMAIN boxes
  /\ boxes' = [n \in DOMAIN boxes \cup {name} |-> IF n = name THEN owner ELSE boxes[n]]
  /\ UNCHANGED <<rows, events>>
  /\ Refill

\* Mutant: the image is not read again.
RepointOwnerUnfollowed(from, to) ==
  \E old \in {name \in DOMAIN boxes : boxes[name] = from} :
    /\ NamedFor[to] = old
    /\ boxes' = [boxes EXCEPT ![old] = to]
    /\ UNCHANGED <<rows, events, image>>

\* The box follows its owner to the name derived from the new handle, and
\* every message of it, quarantined ones included, follows the name.
RepointOwner(from, to) ==
  LET held == {name \in DOMAIN boxes : boxes[name] = from}
      new  == NamedFor[to]
  IN /\ Cardinality(held) = 1
     /\ \A old \in held :
          /\ new = old \/ new \notin DOMAIN boxes
          /\ boxes' = [name \in (DOMAIN boxes \ {old}) \cup {new} |->
                         IF name = new THEN to ELSE boxes[name]]
          /\ rows' = [id \in DOMAIN rows |->
                        IF rows[id].mailbox = old THEN [rows[id] EXCEPT !.mailbox = new]
                        ELSE rows[id]]
     /\ UNCHANGED events
     /\ Refill

NewRow(name, sender, at, target) ==
  [mailbox |-> name, ordinal |-> Cardinality(DOMAIN rows) + 1, sender |-> sender,
   sentAt |-> at, state |-> "new", supersedes |-> target, takenBy |-> None]

\* Mutant: a message that was already replaced can be replaced again.
PostMessageTwice(id, name, sender, at, target) ==
  /\ id \notin DOMAIN rows
  /\ name \in DOMAIN boxes
  /\ target # None => /\ target \in Readable
                      /\ rows[target].sender = sender
                      /\ rows[target].mailbox = name
  /\ rows' = [m \in DOMAIN rows \cup {id} |->
                IF m = id THEN NewRow(name, sender, at, target) ELSE rows[m]]
  /\ UNCHANGED <<boxes, events>>
  /\ Follow(File(image, Message(id)'))

\* A replacement names a readable message of the same sender in the same box
\* that nothing has replaced.
PostMessage(id, name, sender, at, target) ==
  /\ id \notin DOMAIN rows
  /\ name \in DOMAIN boxes
  /\ target # None => /\ target \in Readable
                      /\ rows[target].sender = sender
                      /\ rows[target].mailbox = name
                      /\ SupersededBy(target) = None
  /\ rows' = [m \in DOMAIN rows \cup {id} |->
                IF m = id THEN NewRow(name, sender, at, target) ELSE rows[m]]
  /\ UNCHANGED <<boxes, events>>
  /\ Follow(File(image, Message(id)'))

\* The messages a delivery of the box takes.
Owed(name) ==
  {id \in Readable : /\ rows[id].mailbox = name
                     /\ rows[id].state = "new"
                     /\ SupersededBy(id) = None}

\* A delivery.  One that would move nothing is answered from a held image.
ReadMailbox(name, taking) ==
  /\ name \in DOMAIN boxes
  /\ image # NoImage => LeftoversOf(name, taking) = None
  /\ rows' = [id \in DOMAIN rows |->
                IF id \in Owed(name) THEN [rows[id] EXCEPT !.state = "read", !.takenBy = taking]
                ELSE rows[id]]
  /\ events' = [id \in Ids |->
                  IF id \in Owed(name)
                  THEN Append(events[id], NextEvent(events[id], "read", name, "new"))
                  ELSE events[id]]
  /\ UNCHANGED boxes
  /\ Follow(TakeEach(image, Moved(Delivery(name, taking)), name))

\* Mutant: reading a message by id writes the taking every time.
ReadMessageAgain(id) ==
  /\ id \in Readable
  /\ rows[id].state # "processed"
  /\ rows' = [rows EXCEPT ![id].state = "read", ![id].takenBy = "reading"]
  /\ UNCHANGED <<boxes, events>>
  /\ Refill

\* One message by id, a replaced one too: only a new one is taken by it.
ReadMessage(id) ==
  LET moves == rows[id].state = "new"
  IN /\ id \in Readable
     /\ rows' = IF moves THEN [rows EXCEPT ![id].state = "read", ![id].takenBy = "reading"]
                ELSE rows
     /\ events' = IF moves
                  THEN [events EXCEPT ![id] =
                          Append(@, NextEvent(@, "read", rows[id].mailbox, "new"))]
                  ELSE events
     /\ UNCHANGED boxes
     /\ LET recorded == IF moves THEN Record(image, id, "read", rows[id].mailbox, "new")
                        ELSE image
        IN Follow(Put(recorded, Message(id)'))

\* Mutant: closing a closed message leaves a second event.
MarkProcessedAgain(id, by) ==
  /\ id \in Readable
  /\ rows[id].mailbox = by
  /\ Len(events[id]) < 4
  /\ rows' = [rows EXCEPT ![id].state = "processed"]
  /\ events' = [events EXCEPT ![id] = Append(@, NextEvent(@, "processed", by, "read"))]
  /\ UNCHANGED boxes
  /\ Refill

\* A message is closed through its own box.  A closed one is left as it is.
MarkProcessed(id, by) ==
  LET prior == rows[id].state
  IN /\ id \in Readable
     /\ rows[id].mailbox = by
     /\ UNCHANGED boxes
     /\ IF prior = "processed"
        THEN UNCHANGED <<rows, events>> /\ Follow(image)
        ELSE /\ rows' = [rows EXCEPT ![id].state = "processed"]
             /\ events' = [events EXCEPT ![id] =
                             Append(@, NextEvent(@, "processed", by, prior))]
             /\ Follow(Put(Record(image, id, "processed", by, prior), Message(id)'))

\* A message is set aside through its own box, for good; a closed one never.
Quarantine(id, by) ==
  /\ id \in Readable
  /\ rows[id].mailbox = by
  /\ rows[id].state # "processed"
  /\ rows' = [rows EXCEPT ![id].state = "quarantined"]
  /\ events' = [events EXCEPT ![id] =
                  Append(@, NextEvent(@, "quarantined", by, rows[id].state))]
  /\ UNCHANGED boxes
  /\ Refill

\* The boot rebuild and the recovery of the rail.
Rebuild ==
  /\ UNCHANGED <<boxes, rows, events>>
  /\ Refill

Next ==
  \/ \E name \in Names, owner \in Owners : CreateMailbox(name, owner)
  \/ \E from, to \in Owners : RepointOwner(from, to)
  \/ \E id \in Ids, name \in Names, sender \in Senders, at \in Instants :
       \E target \in DOMAIN rows \cup {None} : PostMessage(id, name, sender, at, target)
  \/ \E name \in Names, taking \in Taken : ReadMailbox(name, taking)
  \/ \E id \in DOMAIN rows : ReadMessage(id)
  \/ \E id \in DOMAIN rows, by \in Names : MarkProcessed(id, by) \/ Quarantine(id, by)
  \/ Rebuild

Spec == Init /\ [][Next]_mailVars

-----------------------------------------------------------------------------
(* Correctness.                                                            *)

Rows == [mailbox : Names, ordinal : Nat, sender : Senders, sentAt : Instants,
         state : States, supersedes : Ids \cup {None}, takenBy : Taken \cup {None}]

Events == [ordinal : Nat, kind : {"read", "processed", "quarantined"},
           byBox : Names, prior : {"new", "read"}]

\* The tables have their types, and every message sits in a box that exists.
TablesOK ==
  /\ DOMAIN boxes \subseteq Names
  /\ boxes \in [DOMAIN boxes -> Owners]
  /\ DOMAIN rows \subseteq Ids
  /\ rows \in [DOMAIN rows -> Rows]
  /\ \A id \in DOMAIN rows : rows[id].mailbox \in DOMAIN boxes
  /\ events \in [Ids -> Seq(Events)]

\* The tables have their types, and no count of the image went below zero (its
\* counters are unsigned).
TypeOK ==
  /\ TablesOK
  /\ image # NoImage =>
       \A name \in DOMAIN image.boxes :
         image.boxes[name].counts \in [new : Nat, superseded : Nat, read : Nat, processed : Nat]

\* The image that followed any sequence of verbs by arithmetic is the image a
\* full read of the store would make: the same messages in the same order, the
\* same counts, the same account of changes (fold/mail.rs against the store).
ImageIsStore == image # NoImage => image = Loaded

\* The image answers a delivery itself exactly when the store's delivery would
\* move nothing, and then with the store's own delivery; and the count of new
\* mail is what a delivery would hand over (Image::leftovers_of and
\* StateCounts against DoltMailboxes::read_mailbox).
DeliveryAgrees ==
  image # NoImage =>
    \A name \in DOMAIN boxes, taking \in Taken :
      LET made   == Delivery(name, taking)
          cached == LeftoversOf(name, taking)
      IN /\ (cached = None) <=> (Moved(made) # <<>>)
         /\ cached # None => cached = made
         /\ image.boxes[name].counts.new = Len(Moved(made))

\* A message has at most one replacement that still stands, filed after it in
\* the same box by the same sender; and a withheld message is spoken for: the
\* box holds a later message of that sender that nothing replaced
\* (post_message's refusals, quarantine, and repoint_owner's renames together).
WithheldIsSpokenFor ==
  \A id \in DOMAIN rows :
    /\ Cardinality({s \in Readable : rows[s].supersedes = id}) <= 1
    /\ LET target == rows[id].supersedes
       IN target # None => /\ rows[target].mailbox = rows[id].mailbox
                           /\ rows[target].sender = rows[id].sender
                           /\ rows[target].ordinal < rows[id].ordinal
    /\ id \in Readable /\ Withheld(Message(id)) =>
         \E s \in Readable :
           /\ SupersededBy(s) = None
           /\ rows[s].ordinal > rows[id].ordinal
           /\ rows[s].mailbox = rows[id].mailbox
           /\ rows[s].sender = rows[id].sender

\* The account of a message explains its state: its events are numbered from
\* one, each starts from the state the one before it left, the last one left
\* the state the row is in, and a taking is recorded for exactly the messages
\* that were read (append_message_event beside each UPDATE).
AccountExplainsState ==
  \A id \in DOMAIN rows :
    LET held == events[id]
        left(i) == IF i = 0 THEN "new" ELSE held[i].kind
    IN /\ \A i \in 1..Len(held) : held[i].ordinal = i /\ held[i].prior = left(i - 1)
       /\ rows[id].state = left(Len(held))
       /\ (rows[id].takenBy # None) <=> \E i \in 1..Len(held) : held[i].kind = "read"

\* No step takes a message away, moves one back to an earlier state or out of
\* a final one, or rewrites how it was first taken; and the account only grows.
MessagesGoForward ==
  [][\A id \in DOMAIN rows :
       /\ id \in DOMAIN rows'
       /\ rows'[id].state # rows[id].state =>
            <<rows[id].state, rows'[id].state>> \in
              {"new", "read"} \X {"read", "processed", "quarantined"}
       /\ rows[id].takenBy # None => rows'[id].takenBy = rows[id].takenBy
       /\ IsPrefix(events[id], events'[id])]_mailVars
=============================================================================
