SPECIFICATION DerivedSpec
CONSTANTS
  h1 = h1
  h2 = h2
  Actors = {"one", "two"}
  Calls <- Roles
  Sources = {"s1", "s2"}
  Hashes = {h1, h2}
  MaxCalls = 3
  MaxFaults = 1
  MaxNow = 1
  Procs = {"request", "other"}
  CacheCalls <- Requested
  Owned = {"s"}
  Payloads = {h1, h2}
  Enabled = TRUE
  SourceLife = 1
  CleanupAge = 1
  MaxRequests = 3
  MaxCrashes = 1
  Bindings = {"b1"}
  Callers = {"owner", "writer", "reader"}
  MinimumBound = 1
  Parses = {"parse"}
  Revokers = {"revoke"}
  Timeout = 1
  SignLife = 1
  Skews = {0, 1}
  Keys = {"k1", "k2"}
  Identities = {h1, h2}
  MaxEntries = 1
  MaxDepth = 2
  EntriesNow = 2
  MaxRuns = 4
  MaxTTL = 1
SYMMETRY Symmetry
CHECK_DEADLOCK FALSE
INVARIANT StateOK
INVARIANT NoLostUpdate
 
 
INVARIANT OutcomesAreTrue
