CONSTANTS
  CrateBits = {"crate0", "crate1"}
  RunCrates = {"crate0"}
  AtTeststand = FALSE
  Names = {"mtc_init", "run_pedestals_mtc", "run_pedestals_end_mtc",
           "enable_pedestal", "disable_pulser", "mtc_read"}
  MaxCommands = 2
SPECIFICATION FairSpec
INVARIANTS TypeOK LagsByTimeOuts NoStrayBits
PROPERTIES PedestalsEnd RunsAsGivenOrNotAtAll EveryCommandEnds
CHECK_DEADLOCK FALSE
