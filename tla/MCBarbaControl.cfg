CONSTANTS
  MaxPrograms = 2
  Budgets <- MCBudgets
SPECIFICATION FairSpec
INVARIANTS
  TypeOK
  OneOwner
  ParentNeverBlocks
PROPERTIES
  StopEnds
  SignalIsTaken
CHECK_DEADLOCK FALSE
