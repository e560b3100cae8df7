SPECIFICATION StorageSpec
CONSTANTS
  NoContent = NoContent
  Procs = {p1, p2}
  Contents = {c1, c2}
  UploadTTL = 1
  ArtifactTTL = 2
  CleanupDelay = 1
  Calls = {"get_intent", "finalize", "read", "delete"}
  LastCall = 2
  DeleteCap = 4
  MaxNow = 4
  MaxCrashes = 1
  Actors = {"saver", "owner"}
  OutputCalls <- Racing
  SourceEnd = 2
  SaveBy = 0
  MaxIntents = 3
  Bytes = {"x"}
  Callers = {"c1"}
  MinURL = 2
  PageSize = 1
  MaxPages = 3
  MaxPuts = 3
  IntentIds = {"i1", "i2"}
  Declared = {"pdf", "docx"}
  Files <- Sniffed
  Sizes = {1, 2}
  Digests = {"none", "h1"}
  MaxStaging = 1
  ArtifactRefs = {"a1"}
  Intents = {"i1"}
  Orphans = {"x"}
  Window = 1
  Scopes = {"s1", "s2"}
  TTL = 1
  PartsNow = 1
  MaxFaults = 1
SYMMETRY Symmetry
CHECK_DEADLOCK FALSE
INVARIANT StateOK
 
INVARIANT OneVerifiedContent
PROPERTY RevokedForGood
 
PROPERTY ErasedInTime
