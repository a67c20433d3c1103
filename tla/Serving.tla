------------------------------ MODULE Serving ------------------------------
(***************************************************************************)
(* What the serving process promises its callers, without its owner, its   *)
(* connections, its fence or its images.  Writes land, one at a time and   *)
(* for good.  A read of a rail shows what the last read showed or          *)
(* everything that has landed, or it is refused.  A caller is told once,   *)
(* and what it is told stays true.                                         *)
(***************************************************************************)
CONSTANTS
  Rails,   \* the parts of the store that are read apart
  Writes,  \* the writes callers make
  RailOf,  \* the rail of a write, outside Rails for a write no read shows
  Refused  \* a read that is refused

VARIABLES
  landed,  \* the writes that are stored
  shown,   \* what a read of each rail shows
  told     \* what the caller of each write was told

svars == <<landed, shown, told>>

OnRail(writes, r) == {w \in writes : RailOf[w] = r}

Init ==
  /\ landed = {}
  /\ shown = [r \in Rails |-> {}]
  /\ told = [w \in Writes |-> "nothing"]

\* At most one write lands, and never one whose caller was told it did not.
Lands ==
  \/ landed' = landed
  \/ \E w \in Writes : told[w] # "no" /\ landed' = landed \cup {w}

\* A read shows what it showed, everything that has landed, or nothing at all.
Shows ==
  \A r \in Rails : shown'[r] \in {shown[r], OnRail(landed', r), Refused}

\* "yes" is told of a write that landed and, on a rail, that reads show;
\* "stored" of one that landed; "no" of one that did not; "unknown" promises
\* nothing.
Truth(w, said) ==
  CASE said = "yes"    -> /\ w \in landed'
                          /\ RailOf[w] \in Rails =>
                               shown'[RailOf[w]] = Refused \/ w \in shown'[RailOf[w]]
    [] said = "stored" -> w \in landed'
    [] said = "no"     -> w \notin landed'
    [] OTHER           -> said = "unknown"

Tells ==
  \A w \in Writes :
    \/ told'[w] = told[w]
    \/ told[w] = "nothing" /\ Truth(w, told'[w])

Next == Lands /\ Shows /\ Tells

Spec == Init /\ [][Next]_svars
=============================================================================
