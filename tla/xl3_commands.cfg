CONSTANTS
  NumMod = 8
  Window = 3
  MaxTries = 2
  NumReads = 2
  MaxCommands = 3
SPECIFICATION FairSpec
INVARIANTS TypeOK AnswersAreOwn BackInStep LateAnswersAreSkipped
PROPERTIES OwnAcksAreKept EveryCommandEnds
