-------------------------- MODULE MCBoardLocations --------------------------
(* BoardLocations for TLC: two crates of one slot with two positions, and  *)
(* three boards, one of them unknown to the database.                      *)
EXTENDS BoardLocations, TLC

CONSTANTS t1, t2, b1, b2, b3

MCThreads == {t1, t2}
MCBoards == {b1, b2, b3}
MCDocumented == {b1, b2}
MCSymmetry == Permutations(MCThreads) \cup Permutations(MCDocumented)
=============================================================================
