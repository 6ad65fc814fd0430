-------------------------- MODULE MCOperatorInput --------------------------
(***************************************************************************)
(* OperatorInput with two commands that ask: final_test, which uses        *)
(* GetInput, and dac_sweep, which uses GrabNextInput.                      *)
(***************************************************************************)
EXTENDS OperatorInput

MCAskers == {"final_test", "dac_sweep"}
MCPollers == {"dac_sweep"}
MCBounded == {"dac_sweep"}

\* final_test holds the MTC and its crate, dac_sweep only its crate.
SameCrate == [a \in MCAskers |-> IF a = "final_test" THEN {"mtc", "crate0"} ELSE {"crate0"}]
=============================================================================
