---------------------------- MODULE MCArguments ----------------------------
(* Arguments for TLC: set_mtca_thresholds, with an array of fourteen, in   *)
(* one thread, and a command with a flag and a value in another.           *)
EXTENDS Arguments

MCThreads == {1, 2}
MCWords == {1}
A == [dash |-> "none", is |-> 1]
MCLinesOf ==
  [t \in MCThreads |->
     IF t = 1 THEN UNION {[1 .. n -> {TheFlag, Numbered(4), Numbered(7), A}] : n \in 1 .. 3}
              ELSE {<<Other, TheFlag, A>>}]
=============================================================================
