CONSTANTS
  MaxPrograms = 2
  Budgets <- MCBudgets
SPECIFICATION Spec
INVARIANT RestartRefusedByProgram
CHECK_DEADLOCK FALSE
