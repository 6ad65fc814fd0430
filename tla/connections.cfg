CONSTANTS
  t1 = t1
  t2 = t2
  t3 = t3
  NoThread = NoThread
  Threads <- MCThreads
  Crates <- MCCrates
  Menu <- SessionMenu
SPECIFICATION FairSpec
INVARIANTS TypeOK MutualExclusion LocksAccountedFor BoardsStayConnected
PROPERTIES ImplementsAllocator LockCallsReturn
