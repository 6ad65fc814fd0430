SPECIFICATION Spec
CONSTANTS
  LastSlot = 1
  NoBoard = NoBoard
  b1 = b1
  b2 = b2
  b3 = b3
  Boards <- MCBoards
  Documents <- MCDocuments
  Menu <- MCMenu
  MaxCommands = 3
  MaxSwaps = 1
  MaxLosses = 1
INVARIANTS TypeOK UpdatedMeansLoaded
PROPERTIES InitUsesOwnRows SettingsBelongToBoard
CHECK_DEADLOCK FALSE
