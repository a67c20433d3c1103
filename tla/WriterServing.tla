--------------------------- MODULE WriterServing ---------------------------
(***************************************************************************)
(* The owner of writes, its recovery and its images implement the promise  *)
(* of module Serving: the store is what landed, what a rail's reads answer *)
(* from is what it shows, and an answer is what it says of the write.      *)
(***************************************************************************)
EXTENDS Writer

\* What an answer of the owner tells of the write.
Said(answer) ==
  CASE answer \in {"idle", "waiting"}   -> "nothing"
    [] answer = "ok"                    -> "yes"
    [] answer = "behind"                -> "stored"
    [] answer \in {"failed", "refused"} -> "no"
    [] OTHER                            -> "unknown"

Promise == INSTANCE Serving WITH
  Writes  <- Jobs,
  Refused <- NoImage,
  landed  <- store,
  shown   <- [r \in Rails |-> Reads(r)],
  told    <- [j \in Jobs |-> Said(caller[j])]

\* The whole of the writer keeps the promise: no step of it, a lost reply, a
\* failed recovery, a panic or a restart included, lands a write whose caller
\* was told it failed, shows a part of what landed that reads did not show
\* before, or answers what is not so (writer.rs, recovery.rs, fold.rs).
KeepsPromise == Promise!Spec
=============================================================================
