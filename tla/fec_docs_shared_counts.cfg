SPECIFICATION Spec
CONSTANTS
  Crates = {0, 1}
  Slots = {0}
  NoEcal = NoEcal
  e1 = e1
  e2 = e2
  Ecals <- MCEcals
  Installed <- MCInstalled
  EcalMenu <- MCEcalMenu
  FecMenu <- MCFecMenu
  Faulty <- MCFaulty
  Flaky = {1}
  Threads = {1, 2}
  MaxEcals = 1
  MaxJobs = 2
  MaxBad = 0
  MaxFaults = 1
INVARIANT PostedIsComplete
CHECK_DEADLOCK FALSE
