SPECIFICATION Spec
CONSTANTS
  Crates = {0, 1}
  Slots = {0}
  NoEcal = NoEcal
  e1 = e1
  e2 = e2
  Ecals <- MCEcals
  Installed <- MCInstalled
  EcalMenu <- MCEcalMenu
  FecMenu <- MCFecMenu
  Faulty <- MCFaulty
  Flaky = {1}
  Threads = {1}
  MaxEcals = 2
  MaxJobs = 1
  MaxBad = 1
  MaxFaults = 1
INVARIANTS FecTypeOK PostedIsComplete MostRecentCounts
PROPERTIES TestedWithLatest NoSlotForgotten
CHECK_DEADLOCK FALSE
