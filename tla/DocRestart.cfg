SPECIFICATION Spec
CONSTANTS
  Procs = {p1, p2}
  Leftovers = {}
  BudgetEndsAt = 1
  ExpiresAt = 1
  CancelRetryCap = 4
  Budgets <- RestartBudgets
SYMMETRY Symmetry
CHECK_DEADLOCK FALSE
INVARIANT CleanupIsScheduled
