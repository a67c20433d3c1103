----------------------------- MODULE MCRequests -----------------------------
(* One write in two parts that is sent again, and another write, made in   *)
(* one commit, that a caller sends under the same id.                      *)
EXTENDS Requests, TLC

CONSTANTS first, second, third, batch, single, p, q

MCCalls == {first, second, third}
MCDigests == {batch, single}
OneStranger == [c \in MCCalls |-> IF c = third THEN single ELSE batch]
MCPartsOf == batch :> <<p, q>> @@ single :> <<>>
=============================================================================
