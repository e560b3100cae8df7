SPECIFICATION Spec
CONSTANTS
  NoContent = NoContent
  Procs = {p1, p2}
  Contents = {c1}
  UploadTTL = 1
  ArtifactTTL = 2
  CleanupDelay = 1
  Calls = {"get_intent", "finalize", "read", "delete"}
  LastCall = 2
  DeleteCap = 4
  MaxNow = 4
  MaxCrashes = 0
SYMMETRY Symmetry
CHECK_DEADLOCK FALSE
INVARIANT BytesAreScheduled
