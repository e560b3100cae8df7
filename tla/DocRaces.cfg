SPECIFICATION Spec
CONSTANTS
  Procs = {p1, p2}
  Leftovers = {l1}
  BudgetEndsAt = 1
  ExpiresAt = 1
  CancelRetryCap = 4
  Budgets <- RaceBudgets
SYMMETRY Symmetry
CHECK_DEADLOCK FALSE
INVARIANT TypeOK
INVARIANT SubmitOnce
INVARIANT EvidenceIsTrue
INVARIANT CompletedResultIsLive
INVARIANT OneCaller
PROPERTY SettledIsFinal
