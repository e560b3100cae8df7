SPECIFICATION FairSpec
CONSTANTS
  Null = Null
  Procs = {p1, p2}
  Tasks = {t1}
  Keys = {}
  Inputs = {i1}
  InputKeys = {}
  TTL = 5
  PollInterval = 2
  CanCancel = FALSE
  CanUpdate = FALSE
  Budgets <- LostCancelBudgets
  CancelRetryCap = 6
CHECK_DEADLOCK FALSE
PROPERTY CancelTakesEffect
