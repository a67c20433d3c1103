------------------------------ MODULE MailIndex ------------------------------
(***************************************************************************)
(* The mail half of the search index (search/decorators.rs) beside the     *)
(* owner of the writes: the count of mail writes kept by FoldedMailboxes   *)
(* (fold/mail.rs), the publication of each write (writer/publish.rs) and   *)
(* the count at which the index last held the whole board.                 *)
(*                                                                         *)
(* A mail job of Messages posts or changes one message; any other mail job *)
(* changes a box, and with it which messages the index may hold.  The      *)
(* index holds jobs, as an image does: it holds a message job once it has  *)
(* read its message, and a box job once it has read the board after it.    *)
(* The names epoch of the index is left out: no handle is renamed here.    *)
(***************************************************************************)
EXTENDS Writer

CONSTANTS
  Mail,      \* the mail rail
  Messages   \* the mail jobs that publish a message

ASSUME MailAssumption ==
  /\ Mail \in Rails
  /\ Messages \subseteq {j \in Jobs : RailOf[j] = Mail}

VARIABLES
  changes,  \* FoldedMailboxes.changes
  posted,   \* the message published by the job that just ended
  index,    \* what the full-text index holds of the mail
  seenAt,   \* IndexedMailboxes.board_seen_at, 0 standing for NOT_SEEN
  behind    \* whether a failed index write or board read is on record

indexVars == <<changes, posted, index, seenAt, behind>>
mailVars == <<vars, indexVars>>

\* The counts published are shifted by one, so that 0 can stand for NOT_SEEN.
MailInit ==
  /\ Init
  /\ changes = 1
  /\ posted = NoJob
  /\ index = {}
  /\ seenAt = 0
  /\ behind = FALSE

\* Whether a search takes the index for the whole board and reads nothing.
BoardHeld == ~behind /\ seenAt = changes

\* A mail job ends: guarded has answered, and the publication is next.
MailJobEnds == pc # "deliver" /\ pc' = "deliver" /\ RailOf[cur] = Mail

\* FoldedMailboxes::scoped counts the write whatever it answers.  Only a verb
\* that reached its image published its message before.
Scoped ==
  /\ Work
  /\ MailJobEnds
  /\ changes' = changes + 1
  /\ posted' = IF pc = "follow" /\ cur \in Messages THEN cur ELSE NoJob
  /\ UNCHANGED <<index, seenAt, behind>>

\* The steps that publish nothing.
Unpublished ==
  /\ \/ Calling
     \/ Work /\ pc # "deliver" /\ ~MailJobEnds
     \/ \E r \in Rails : Rebuild(r)
     \/ Database
  /\ UNCHANGED indexVars

\* Mutant: every position moves the count, whatever the index held before.
AbsorbAlways ==
  /\ index' = index \cup {posted}
  /\ seenAt' = changes
  /\ UNCHANGED behind

\* settle: the count moves when the index held the whole board just before
\* the write.
Settle == seenAt' = IF seenAt = changes - 1 THEN changes ELSE seenAt

\* absorb: the message is read from the State and indexed.
Absorb ==
  /\ index' = index \cup ({posted} \cap Reads(Mail))
  /\ Settle
  /\ UNCHANGED behind

\* The message cannot be read or indexed, and the count stays; or reindex
\* cannot list the boxes, which marks the index behind and settles as usual.
AbsorbFails ==
  /\ behind' = TRUE
  /\ UNCHANGED seenAt \/ Settle
  /\ UNCHANGED index

\* The index is told of the ended job, before its caller is answered.
Changed ==
  /\ Deliver
  /\ IF posted = NoJob THEN UNCHANGED <<index, seenAt, behind>>
     ELSE Absorb \/ AbsorbFails
  /\ posted' = NoJob
  /\ UNCHANGED changes

\* A search refreshes the index first, as a job of the owner: unless the board
\* is held, it reads the whole board from the State.
Refresh ==
  /\ pc = "idle"
  /\ ~BoardHeld
  /\ \/ /\ Reads(Mail) # NoImage
        /\ index' = Reads(Mail)
        /\ seenAt' = changes
        /\ behind' = FALSE
     \/ behind' = TRUE /\ UNCHANGED <<index, seenAt>>
  /\ UNCHANGED <<vars, changes, posted>>

\* The process dies: the index and its count are in memory.
Restart ==
  /\ Crash
  /\ changes' = 1
  /\ posted' = NoJob
  /\ index' = {}
  /\ seenAt' = 0
  /\ behind' = FALSE

MailNext == Scoped \/ Unpublished \/ Changed \/ Refresh \/ Restart

MailSpec == MailInit /\ [][MailNext]_mailVars

-----------------------------------------------------------------------------
\* The variables have their types, and only a job that has ended has a
\* publication waiting (FoldedMailboxes, IndexedMailboxes).
MailTypeOK ==
  /\ changes \in Nat \ {0}
  /\ posted \in Messages \cup {NoJob}
  /\ index \subseteq {j \in Jobs : RailOf[j] = Mail}
  /\ seenAt \in 0..changes
  /\ behind \in BOOLEAN
  /\ posted # NoJob => pc = "deliver" /\ cur = posted

\* A mail write answered ok is in the index of every search that takes the
\* board for held: the answer comes after the index was told, or the search
\* reads the board.
FoundOnceAnswered ==
  \A j \in Jobs :
    caller[j] = "ok" /\ RailOf[j] = Mail /\ BoardHeld => j \in index

\* A search never loses a message an earlier search could find, while the
\* process lives: neither a refresh from an image kept through an uncertainty
\* nor a refresh from the store takes mail out of the index.
SearchNeverGoesBack == [][Restart \/ index \subseteq index']_mailVars
=============================================================================
