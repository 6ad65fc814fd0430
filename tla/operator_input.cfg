CONSTANTS
  Askers <- MCAskers
  Pollers <- MCPollers
  Bounded <- MCBounded
  Locks <- SameCrate
  MaxLines = 4
SPECIFICATION FairSpec
INVARIANTS TypeOK LineHasOneUse AnswersAreFresh OpenQuestionHasAsker AnswerIsTheLine
PROPERTY AnswersArrive
CHECK_DEADLOCK FALSE
