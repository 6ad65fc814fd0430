------------------------- MODULE MCCheckRecvQueues -------------------------
(***************************************************************************)
(* check_recv_queues beside two commands of one crate.                     *)
(***************************************************************************)
EXTENDS CheckRecvQueues

CONSTANTS t1, t2

MCThreads == {t1, t2}
MCCrates == {0}

Table == INSTANCE CommandTable WITH CrateNums <- MCCrates

MCMenu == [t \in MCThreads |-> Table!OnCrate]
=============================================================================
