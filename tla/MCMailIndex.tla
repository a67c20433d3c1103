---------------------------- MODULE MCMailIndex ----------------------------
(* One mail rail; two writes of messages and one write of a box.           *)
EXTENDS MailIndex

CONSTANTS mail, p1, p2, b1

MCRails == {mail}
MCJobs == {p1, p2, b1}
MCRailOf == [j \in MCJobs |-> mail]
MCMessages == {p1, p2}
=============================================================================
