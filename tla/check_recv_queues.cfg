CONSTANTS
  t1 = t1
  t2 = t2
  NoThread = NoThread
  Threads <- MCThreads
  Crates <- MCCrates
  Menu <- MCMenu
SPECIFICATION DrainSpec
INVARIANT MutualExclusion
