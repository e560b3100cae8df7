SPECIFICATION OwnersSpec
CONSTANTS
  i1 = i1
  i2 = i2
  i3 = i3
  c1 = c1
  c2 = c2
  Ids = {i1, i2, i3}
  First <- FirstRow
  Expiries = {2}
  Ops = {"o1", "o2"}
  Kinds <- OpKinds
  Reqs = {"r1"}
  IdemKeys = {"k"}
  Overlap = 1
  TTL = 1
  MaxIdem = 1
  MaxAudit = 1
  Retries = 1
  Faults = 1
  MaxNow = 2
  Owners = {"o1"}
  Credentials = {c1, c2}
  Keys = {"k"}
  JobsNow = 1
  Clients = {"claude"}
  JobOperations = {"create", "cancel", "resume"}
  Results = {"r1"}
  MaxJobs = 2
  MaxUnits = 1
  MaxRecords = 1
  Budgets <- BudgetSet
  Chars = {1, 2}
  MaxBatch = 2
  MaxPartials = 3
  MaxDropped = 1
  PageSizes = {1, 2}
  MaxCrawls = 1
  Hashes = {"h"}
  Engines = {"text", "vlm"}
  AsyncOnly = {"vlm"}
  Limits <- LimitSet
  Needs <- NeedSet
  DocExpiries = {1, 2}
  MaxDocs = 1
  Invocations = {i2, i3}
  Given = i1
  Arguments <- ArgumentSet
  TokenFile <- FileSet
  TokenEnv = {0, 1}
  Now = 1
  MaxOverlap = 2
  MaxLimit = 1
  MaxText = 8
  MaxScopes = 1
  MaxTokenLength = 1
  MaxRestarts = 1
SYMMETRY Symmetry
CHECK_DEADLOCK FALSE
PROPERTY RotationKeepsExpiry
