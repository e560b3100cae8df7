SPECIFICATION FairSpec
CONSTANTS
  Procs = {p1}
  Leftovers = {l1}
  BudgetEndsAt = 1
  ExpiresAt = 2
  CancelRetryCap = 4
  Budgets <- LivenessBudgets
CHECK_DEADLOCK FALSE
PROPERTY JobEnds
