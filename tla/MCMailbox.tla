----------------------------- MODULE MCMailbox -----------------------------
(* One box and three messages, so that a replacement can itself be         *)
(* replaced or set aside; and two boxes, one of whose owners can move to   *)
(* the other's name, with two messages.                                    *)
EXTENDS Mailbox

CONSTANTS bot, renamed, inbox, box, m1, m2, m3, alpha, beta

OneBox == {inbox}
TwoBoxes == {inbox, box}
OneOwner == {bot}
TwoOwners == {bot, renamed}
StaysPut == bot :> inbox
Moves == bot :> inbox @@ renamed :> box
ThreeIds == {m1, m2, m3}
TwoIds == {m1, m2}
OneInstant == {1}
TwoInstants == {1, 2}
SymmetryOfThree == Permutations(ThreeIds)
SymmetryOfTwo == Permutations(TwoIds)
=============================================================================
