------------------------------- MODULE MCPush -------------------------------
(* One message whose push can fail inside its window and on its end.       *)
EXTENDS Push

CONSTANT m1

OneMessage == {m1}
=============================================================================
