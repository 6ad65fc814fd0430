--------------------------- MODULE MCConnections ---------------------------
(***************************************************************************)
(* Connections with three command lines and two crates.                    *)
(***************************************************************************)
EXTENDS Connections

CONSTANTS t1, t2, t3

MCThreads == {t1, t2, t3}
MCCrates == {0, 1}

INSTANCE CommandTable WITH CrateNums <- MCCrates

\* Any test or board command against a crate command, or one on everything, and
\* any form of sbc_control.
SessionMenu ==
  [t \in MCThreads |->
     IF t = t1 THEN TestCommands
     ELSE IF t = t2 THEN {BoardCommand(0, {0}, {0}), BoardCommand(1, {0, 1}, {-1, 0, 1})}
     ELSE SbcControlCommands]
=============================================================================
