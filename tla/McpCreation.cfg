SPECIFICATION FairSpec
CONSTANTS
  Null = Null
  Procs = {p1, p2}
  Tasks = {t1, t2}
  Keys = {k1}
  Inputs = {i1, i2}
  InputKeys = {}
  TTL = 1
  PollInterval = 2
  CanCancel = FALSE
  CanUpdate = FALSE
  Budgets <- CreationBudgets
  CancelRetryCap = 6
CHECK_DEADLOCK FALSE
INVARIANT OneCreatePerKey
INVARIANT JournalCoversHandle
PROPERTY CreationIsSettled
