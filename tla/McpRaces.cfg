SPECIFICATION Spec
CONSTANTS
  Null = Null
  Procs = {p1, p2}
  Tasks = {t1}
  Keys = {}
  Inputs = {i1}
  InputKeys = {q1, q2}
  TTL = 2
  PollInterval = 1
  CanCancel = TRUE
  CanUpdate = TRUE
  Budgets <- RaceBudgets
  CancelRetryCap = 6
SYMMETRY Symmetry
CHECK_DEADLOCK FALSE
INVARIANT TypeOK
INVARIANT AnswerOnce
INVARIANT SnapshotsAreFenced
 
PROPERTY ImplementsLifecycle
INVARIANT CancelsAreHonest
