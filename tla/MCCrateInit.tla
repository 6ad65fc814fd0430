--------------------------- MODULE MCCrateInit ---------------------------
(* CrateInit for TLC: two slots, three boards of which one has documents   *)
(* of every test, one of a single test and one of none.                    *)
EXTENDS CrateInit

CONSTANTS b1, b2, b3

MCBoards == {b1, b2, b3}
MCDocuments == ({b1} \X Views) \cup {<<b2, "get_zdisc">>}
MCMenu ==
  {[flags |-> {"x"}, mask |-> Slots], [flags |-> {"A", "t"}, mask |-> Slots],
   [flags |-> {"N"}, mask |-> Slots], [flags |-> {"T", "B"}, mask |-> {0}],
   [flags |-> {"e", "D"}, mask |-> {LastSlot}]}
=============================================================================
