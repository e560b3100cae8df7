---------------------------- MODULE DerivedParts ----------------------------
(***************************************************************************)
(* What is derived from documents, side by side: the durable corpora       *)
(* (extended here), the corpus store in memory, its retry guard, the       *)
(* document cache, the bridge to it and the cache in memory.  They share   *)
(* no state, so a behaviour is one of one of them, named by part; the      *)
(* variables of the others stay at 0.                                      *)
(***************************************************************************)
EXTENDS DurableCorpora

CONSTANTS
  Procs, CacheCalls, Owned, Payloads, Enabled, SourceLife, CleanupAge, MaxRequests, MaxCrashes, \* DocumentCache
  Bindings, Callers, MinimumBound, \* CorpusStore
  Parses, Revokers, Timeout, SignLife, Skews, \* CacheBridge
  Keys, Identities, MaxEntries, MaxDepth, EntriesNow, \* MemoryDocumentCache
  MaxRuns, \* RetryGuard
  MaxTTL

VARIABLES
  part,
  clock,
  core, binding, bound, marker, blob, cacheOp, tomb, cacheLate, crashes, requests,
  corpus, enrollments, docs, healthy, revoked, deletion,
  skew, env, cache, bridgeCall, wire, decided,
  entries, stack, stored, barred,
  attempt, returned, runs

\* With what is proved of it.
Cache == INSTANCE DocumentCacheProofs WITH
  Calls <- CacheCalls, Sources <- Owned, index <- bound, op <- cacheOp, late <- cacheLate
Store == INSTANCE CorpusStore WITH now <- clock, state <- corpus
Bridge == INSTANCE CacheBridge WITH now <- clock, call <- bridgeCall
Entries == INSTANCE MemoryDocumentCache WITH Sources <- Identities, MaxNow <- EntriesNow, now <- clock
Guard == INSTANCE RetryGuard

-----------------------------------------------------------------------------
\* The corpus store: the bounds are numbers, and no content is called "none".
StoreNumbers == MinimumBound \in Nat /\ MaxNow \in Nat /\ Store!None \notin Hashes
\* The bridge: times are numbers, and a call either parses or revokes.
BridgeNumbers == Timeout \in Nat /\ MaxNow \in Nat /\ Parses \cap Revokers = {}
\* The cache in memory: a store with place for an entry.
MemoryNumbers == IsFiniteSet(Keys) /\ MaxEntries \in Nat \ {0} /\ MaxTTL \in Nat
\* The guard: the bound is a number.
GuardNumbers == MaxRuns \in Nat

ASSUME PartsAssumption == Cache!Lengths /\ StoreNumbers /\ BridgeNumbers /\ MemoryNumbers /\ GuardNumbers

-----------------------------------------------------------------------------
cacheVars == <<core, binding, bound, marker, blob, cacheOp, tomb, cacheLate, crashes, requests>>
storeVars == <<corpus, enrollments, docs, healthy, revoked, deletion>>
bridgeVars == <<skew, env, cache, bridgeCall, wire, decided>>
entryVars == <<entries, stack, stored, barred>>
guardVars == <<attempt, returned, runs>>
derivedVars == <<vars, part, clock, cacheVars, storeVars, bridgeVars, entryVars, guardVars>>

NoCache ==
  /\ core = 0 /\ binding = 0 /\ bound = 0 /\ marker = 0 /\ blob = 0
  /\ cacheOp = 0 /\ tomb = 0 /\ cacheLate = 0 /\ crashes = 0 /\ requests = 0
NoStore == corpus = 0 /\ enrollments = 0 /\ docs = 0 /\ healthy = 0 /\ revoked = 0 /\ deletion = 0
NoBridge == skew = 0 /\ env = 0 /\ cache = 0 /\ bridgeCall = 0 /\ wire = 0 /\ decided = 0
NoEntries == entries = 0 /\ stack = 0 /\ stored = 0 /\ barred = 0
NoGuard == attempt = 0 /\ returned = 0 /\ runs = 0

DerivedInit ==
  /\ Init
  /\ \/ part = "corpora" /\ clock = 0 /\ NoCache /\ NoStore /\ NoBridge /\ NoEntries /\ NoGuard
     \/ /\ record.state = "active"
        /\ \/ part = "cache" /\ Cache!Init /\ NoStore /\ NoBridge /\ NoEntries /\ NoGuard
           \/ part = "memory" /\ Store!Init /\ NoCache /\ NoBridge /\ NoEntries /\ NoGuard
           \/ part = "bridge" /\ Bridge!Init /\ NoCache /\ NoStore /\ NoEntries /\ NoGuard
           \/ part = "entries" /\ Entries!Init /\ NoCache /\ NoStore /\ NoBridge /\ NoGuard
           \/ part = "guard" /\ Guard!Init /\ clock = 0 /\ NoCache /\ NoStore /\ NoBridge /\ NoEntries
DerivedNext ==
  /\ part' = part
  /\ \/ part = "corpora" /\ Next /\ UNCHANGED <<clock, cacheVars, storeVars, bridgeVars, entryVars, guardVars>>
     \/ part = "cache" /\ Cache!Next /\ UNCHANGED <<vars, storeVars, bridgeVars, entryVars, guardVars>>
     \/ part = "memory" /\ Store!Next /\ UNCHANGED <<vars, cacheVars, bridgeVars, entryVars, guardVars>>
     \/ part = "bridge" /\ Bridge!Next /\ UNCHANGED <<vars, cacheVars, storeVars, entryVars, guardVars>>
     \/ part = "entries" /\ Entries!Next /\ UNCHANGED <<vars, cacheVars, storeVars, bridgeVars, guardVars>>
     \/ part = "guard" /\ Guard!Next /\ UNCHANGED <<vars, clock, cacheVars, storeVars, bridgeVars, entryVars>>
DerivedSpec == DerivedInit /\ [][DerivedNext]_derivedVars

\* The shape of the state of the component that runs.
StateOK ==
  /\ TypeOK
  /\ part = "cache" => Cache!TypeOK
  /\ part = "memory" => Store!TypeOK
  /\ part = "guard" => Guard!TypeOK
  /\ part = "bridge" => Bridge!TypeOK
  /\ part = "entries" => Entries!TypeOK

\* Nothing is searched, read or hit that was revoked, replaced, hidden or over when
\* the call began, though index, bytes and cache lag behind the records that decide.
ServedIsCurrent ==
  /\ NothingServedLate
  /\ part = "cache" => Cache!RevokedNeverHits
  /\ part = "memory" => Store!SearchIsCurrent
  /\ part = "bridge" => Bridge!AcknowledgedRevocation
  /\ part = "entries" => Entries!RevokedStaysRevoked

\* Nothing comes back or is prolonged: no call under way writes a corpus that was
\* deleted meanwhile, a binding of the cache is outlived by the index on which its
\* revocation is recorded, and no change of a source extends its expiry.
EndsAreKept ==
  [][/\ DeletedStep
     /\ part = "cache" => Cache!IndexOutlivesBindings'
     /\ part = "memory" => Store!ExpiryStep]_derivedVars

\* A corpus deletion reported complete left no document and no enrolled source; every
\* run under one idempotency key hands out the same result; a parse fails for no fault
\* of the cache, commits only what the Worker decided, and is stored when told so.
OutcomesAreTrue ==
  /\ part = "memory" => Store!CompleteIsComplete
  /\ part = "guard" => Guard!OneResult
  /\ part = "bridge" => Bridge!CacheNeverFailsAParse /\ Bridge!CommitsAreDecided
  /\ part = "entries" => Entries!StoredIsThere
=============================================================================
