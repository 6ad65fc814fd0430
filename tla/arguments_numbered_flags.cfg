SPECIFICATION ArgsSpec
CONSTANTS
  Threads <- MCThreads
  Words <- MCWords
  Num = 14
  Numbers = {4, 7}
  LinesOf <- MCLinesOf
  MaxLength = 3
  MaxCalls = 2
INVARIANT EveryNumberIsTaken
CHECK_DEADLOCK FALSE
