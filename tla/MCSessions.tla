----------------------------- MODULE MCSessions -----------------------------
(* Two runs of one bot that contend for its one role.                      *)
EXTENDS Sessions, TLC

CONSTANTS early, late

MCRuns == {early, late}
MCSymmetry == Permutations(MCRuns)
=============================================================================
