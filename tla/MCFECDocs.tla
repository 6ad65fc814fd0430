---------------------------- MODULE MCFECDocs ----------------------------
(* FECDocs for TLC: two crates of one slot, full and quick ECALs, ones     *)
(* that complete an earlier ECAL with and without masks, and documents for *)
(* all, for chosen and for wrongly chosen slots.                           *)
EXTENDS FECDocs

CONSTANTS e1, e2

MCEcals == {e1, e2}
MCInstalled == {<<0, 0>>}
Both == [c \in Crates |-> Slots]
Nothing == [c \in Crates |-> {}]
NotZero == [c \in Crates |-> IF c = 0 THEN {} ELSE Slots]
Typed(load, crates, slots, tests, q, z) ==
  [load |-> load, crates |-> crates, slots |-> slots, tests |-> tests,
   quick |-> q, detector |-> z]

MCEcalMenu ==
  {Typed(NoEcal, Crates, Both, all_tests, FALSE, FALSE),
   Typed(NoEcal, {0}, Nothing, {}, TRUE, TRUE),
   Typed(e1, {}, Nothing, {"zdisc"}, FALSE, FALSE),
   Typed(e1, Crates, Both, {"set_ttot"}, FALSE, FALSE)}
MCFaulty == {<<"zdisc", <<0, 0>>>>, <<"set_ttot", <<0, 0>>>>, <<"ped_run", <<1, 0>>>>}
MCFecMenu ==
  {[id |-> e1, crates |-> {}, slots |-> Nothing],
   [id |-> e1, crates |-> Crates, slots |-> Both],
   [id |-> e1, crates |-> {1}, slots |-> NotZero]}
=============================================================================
