------------------------------ MODULE MCThings ------------------------------
(* Three things and one handle to spare.                                    *)
EXTENDS Things, TLC

CONSTANTS t1, t2, t3, h1, h2, h3, h4

MCThing == {t1, t2, t3}
MCHandle == {h1, h2, h3, h4}
Symmetry == Permutations(MCThing) \cup Permutations(MCHandle)
=============================================================================
