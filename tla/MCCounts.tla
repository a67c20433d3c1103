------------------------------ MODULE MCCounts ------------------------------
(* Two answers to count, one of which may be in limbo while the other, a    *)
(* read and a reset go by.                                                  *)
EXTENDS Counts
=============================================================================
