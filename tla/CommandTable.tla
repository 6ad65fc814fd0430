---------------------------- MODULE CommandTable ----------------------------
(***************************************************************************)
(* The commands of ControllerLink::ProcessCommand that talk to boards: for *)
(* each, what it passes to LockConnections and which boards its body uses. *)
(* Every branch has the same shape: parse the arguments, LockConnections,  *)
(* report and leave when it was refused, the body, UnlockConnections.      *)
(* Connections gives that shape its steps.                                 *)
(***************************************************************************)
EXTENDS Integers

CONSTANT CrateNums   \* the crates a line may name

\* The MTC is board -1, as in Connections.
BoardCommand(sbc, crates, used) ==
  [sbc |-> sbc, xl3List |-> crates, kill |-> FALSE, connect |-> FALSE,
   touches |-> used]

\* LockConnections(0,0x1<<crateNum), for a body that uses that XL3.
OnCrate == {BoardCommand(0, {c}, {c}) : c \in CrateNums}

\* LockConnections(1,0x0), for a body that uses the MTC.
OnMtc == {BoardCommand(1, {}, {-1})}

\* LockConnections(1,0x1<<crateNum), for a body that uses both.
OnBoth == {BoardCommand(1, {c}, {-1, c}) : c \in CrateNums}

\* LockConnections(1,crateMask), for a body that uses the MTC and those crates.
OnMask == {BoardCommand(1, S, {-1} \cup S) : S \in SUBSET CrateNums}

XL3Access == {"xl3_rw", "crate_init", "xr", "xw", "xl3_queue_rw", "sm_reset"}
XL3Control ==
  {"debugging_on", "debugging_off", "change_mode", "set_relays", "get_relays",
   "check_xl3_status", "read_local_voltage", "hv_readback"}
FECAccess ==
  {"set_alarm_level", "set_alarm_dac", "fr", "fw", "load_relays", "read_bundle",
   "setup_chinj", "load_dac"}
MTCAccess ==
  {"mtc_init", "mr", "mw", "mtc_read", "mtc_write", "mtc_delay",
   "set_mtca_thresholds", "set_gt_mask"}
MTCMasks ==
  {"set_gt_crate_mask", "set_ped_crate_mask", "enable_pulser", "disable_pulser",
   "enable_pedestal", "disable_pedestal", "set_pulser_freq", "send_softgt",
   "multi_softgt"}

IdTests == {"board_id", "cald_test"}
ScanTests == {"cgt_test", "orphan_test", "chinj_scan", "crate_cbal", "disc_check"}
FecTests == {"fec_test"}
ValidTests == {"fifo_test", "gtvalid_test", "measure_gtvalids", "mb_stability_test"}
MemTests == {"mem_test"}
PedestalTests ==
  {"ped_run", "all_ped_by_channel", "ped_by_channel", "see_refl", "esum_see_refl"}
TriggerScans == {"trigger_scan"}
TotTests == {"get_ttot", "set_ttot"}
VoltageTests == {"vmon", "local_vmon", "zdisc"}
FinalTests == {"final_test"}
NoiseTests == {"find_noise"}
Sweeps == {"dac_sweep"}

\* run_pedestals and run_pedestals_end: the MTC and the crates of the mask, or one
\* half of it only in the _mtc and _crate variants.
RunPedestals ==
  OnMask \cup OnMtc \cup {BoardCommand(0, S, S) : S \in SUBSET CrateNums}

\* ecal without -l locks the crates of its mask.
Ecal == OnMask

\* ecal -l locks the crates of its -c argument, 0x0 by default, and works on those
\* of the document it loads.
EcalLoaded == {BoardCommand(1, {}, {-1} \cup S) : S \in SUBSET CrateNums}

\* sbc_control -k, -c or -r: LockConnections(2,0x0), SBCControl,
\* UnlockConnections(1,0x0).
SbcControlCommands ==
  {c \in [sbc : {2}, xl3List : {{}}, kill : BOOLEAN, connect : BOOLEAN, touches : {{-1}}] :
     c.kill \/ c.connect}

\* The commands by name.
CommandsNamed(n) ==
  IF n \in XL3Access \cup XL3Control \cup FECAccess \cup IdTests \cup FecTests
           \cup MemTests \cup VoltageTests \cup Sweeps THEN OnCrate
  ELSE IF n \in MTCAccess \cup MTCMasks THEN OnMtc
  ELSE IF n \in ScanTests \cup ValidTests \cup PedestalTests \cup TotTests
                \cup FinalTests THEN OnBoth
  ELSE IF n \in TriggerScans \cup NoiseTests THEN OnMask
  ELSE IF n = "ecal" THEN Ecal
  ELSE RunPedestals

TestNames ==
  XL3Access \cup XL3Control \cup FECAccess \cup MTCAccess \cup MTCMasks \cup IdTests
  \cup ScanTests \cup FecTests \cup ValidTests \cup MemTests \cup PedestalTests
  \cup TriggerScans \cup TotTests \cup VoltageTests \cup FinalTests \cup NoiseTests
  \cup Sweeps \cup {"ecal", "run_pedestals", "run_pedestals_end"}

\* The commands that differ in what they lock and use.
TestCommands == UNION {CommandsNamed(n) : n \in TestNames}
=============================================================================
