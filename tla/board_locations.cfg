SPECIFICATION Spec
CONSTANTS
  Crates = {0, 1}
  Slots = {0}
  Positions = {1, 2}
  Empty = Empty
  NoCrate = NoCrate
  t1 = t1
  t2 = t2
  b1 = b1
  b2 = b2
  b3 = b3
  Threads <- MCThreads
  Boards <- MCBoards
  Documented <- MCDocumented
  MaxCommands = 2
  MaxMoves = 1
  MaxFaults = 1
SYMMETRY MCSymmetry
INVARIANTS OnePlaceEach EntriesAreKnown
PROPERTIES ImplementsRegistry
CHECK_DEADLOCK FALSE
