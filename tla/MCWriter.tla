------------------------------ MODULE MCWriter ------------------------------
(* A small serving process: two writes on one rail and, on the other side  *)
(* of the owner's one connection, either a write on a second rail or an    *)
(* owned write without an image.                                           *)
EXTENDS WriterServing

CONSTANTS memory, mail, m1, m2, other

MCJobs == {m1, m2, other}
MCLanded == {memory}

\* `other` writes on the mail rail.
TwoRails == {memory, mail}
MailOther == [j \in MCJobs |-> IF j = other THEN mail ELSE memory]

\* `other` is a request receipt or an outbox row.
OneRail == {memory}
ReceiptOther == [j \in MCJobs |-> IF j = other THEN NoRail ELSE memory]
=============================================================================
