# A TLA+ verification of Groundlane

Groundlane is an MCP server (`src/src/`) that gives agents web search, crawling,
research and document tools.  Most of its tools are stateless calls to third
parties.  What is hard in it is the durable part: tasks, document jobs, uploads and
artifacts that outlive a request, are worked on by several server processes at once,
and start calls that cost money.  This directory models that part and checks it.

## Inventory

| Component | State it keeps | Operations | What is hard |
|---|---|---|---|
| Durable record store (`core/durable-store.ts`, SQLite and D1 adapters) | records with a revision and an expiry | `get`, `createIfAbsent`, `compareAndSwap`, `deleteIfRevision`, `scanExpired` | lost races are results, not errors; a call can commit and still throw |
| Effect journal (`core/durable-effects.ts`) | per task and effect: claimed, inflight, succeeded, uncertain | `claim`, `transition`, `retry` | evidence must be on record before the call it is about, and survives the process |
| MCP task runtime (`core/durable-mcp-tasks.ts`) | task records, idempotency index | `start`, `get`, `update`, `cancel`, `stopWaiting`, `describe` | paid create and at-most-once answers under crashes, races and retries |
| Document jobs (`core/durable-document-jobs.ts`) and executor (`core/durable-document-executor.ts`) | job records | `create`, `get`, `transition`, `cancel`, `revokeSource`, effects | expiry, cancellation and revocation race the executor between any two of its steps |
| Asynchronous document runtime and dispatcher (`core/document-async-*.ts`) | job metadata, dispatch leases, provider handles | submit, poll, publish, cancel; scan, lease, retry | a lease expires while its holder still runs; enqueue is not atomic with create |
| Upload flow (`core/durable-upload-flow.ts`, `core/upload-intent.ts`) | upload intents, staged blobs | create, put, finalize, cleanup | finalize races expiry and the sweep that deletes staged bytes |
| Artifacts and document output (`core/durable-artifacts.ts`, `core/durable-document-output.ts`) | metadata, immutable blobs, tombstones | commit, read, revoke, delete, sweep | blob and metadata are two stores without a common transaction |
| Document admission and source snapshots | admission counters, leases, snapshots | admit, release, stage | counters that must come back after a crash |
| Document cache (`core/durable-document-cache.ts`, its bridge and its in-memory form) | core records, bindings, source indexes, bytes | lookup, commit, revoke, sweep | a commit that began before a revocation; a request the caller has given up |
| Corpora (`core/durable-corpus-runtime.ts`, `core/corpus-runtime.ts`) | manifest, search index, bytes | enrol, update, remove, search, read, delete | index and bytes lag behind the manifest |
| Jobs (`core/async-lifecycle.ts`, `core/crawl-jobs.ts`, `core/document-execution.ts`) | in-memory jobs | create, mark, cancel, page | three kinds of cancel; a completion that comes late |
| Search routing, budget, provider health | counters by day and month, circuits | route, reserve, record | counters shared by concurrent requests |
| Tool calls (`core/limits.ts`, `core/fetch-pipeline.ts`, `tools/`) | slots, queue | acquire, run, release | a deadline or an abort in the turn in which a slot is handed over |
| Managed tokens and authorization (`worker/managed-tokens.ts`, `worker/auth.ts`) | credential rows, caches of an isolate | create, rotate, revoke, expire, verify | lost answers of the database, a credential that ends during its own check |
| Schema extraction, operator command | the call | extract; create, list, rotate, revoke | aborts and lost answers |
| Parsers, provider adapters, entry points | none of their own | - | data transformation, HTTP plumbing |

How they interact: every durable component calls the record store port and nothing
else for metadata; blobs live in a second store.  Runtimes that pay for something
call the effect journal before and after the provider.  The dispatcher calls the
asynchronous document runtime under a lease; the runtime calls the job repository,
the journal, the provider and the artifact store.  Server processes share nothing
but the stores, and any of them may die between two calls.

## Modules

| Module | What it is |
|---|---|
| `DurableStore` | the record contract: revisions, compareAndSwap, the write check; pure operators used inside one atomic step |
| `DurableEffects` | the effect journal over `DurableStore` |
| `DurableMcpTasks` | `DurableMcpTaskRuntime`, one action per `await` |
| `McpTaskLifecycle` | the abstract specification: what a client of MCP Tasks may rely on |
| `McpEndpoints` | the two doors of a task request (edge and container), from headers to answer |
| `DocumentJobs` | the job record of `DurableDocumentJobRepository`: `get` with its lazy expiry, `transition`, `revokeSource` |
| `DocumentAsync` | one asynchronous document job: `DocumentAsyncRuntime`, its dispatcher and their composition at the edge |
| `DocumentExecution` | `DocumentExecutionManager`: synchronous or not, and the in-memory jobs |
| `DocumentOutput` | one output key of `DurableDocumentOutputRuntime` over its artifacts, bytes and indexes |
| `DurableUploads` | one upload of `DurableUploadArtifactService`: intent, source artifact, bytes, sweep |
| `StagedUploads` | the staging bucket: presigned puts, completion, paged cleanup |
| `UploadIntents`, `ArtifactLifecycle` | the in-memory stores of uploads and of artifacts |
| `DocumentCache`, `CacheBridge`, `MemoryDocumentCache` | the durable cache of one key; the signed bridge to it; the in-memory cache |
| `DurableCorpora`, `CorpusStore`, `RetryGuard` | one durable corpus; the in-memory one; the guard of a paid attempt |
| `AsyncJobs`, `CrawlJobs` | the two in-memory job managers |
| `ToolCalls` | tool handlers, the slot queue, deadlines, the fetch pipeline |
| `ProviderRouting` | selection, fallback, budgets and circuits of the routers |
| `SchemaExtraction` | one extraction by a caller's schema |
| `ManagedTokens` | credentials over D1 and a request from the edge to the container |
| `CredentialsCli` | the operator's command against the admin API |
| `MCDurableMcpTasks`, `MCDocumentAsync`, `MCDurableUploads` | instances of one component for TLC |
| `RequestParts`, `OwnerParts`, `StorageParts`, `DerivedParts` | several components that share no state, side by side (see "Bundles") |
| `MCRequests`, `MCOwners`, `MCStorage`, `MCDerived` | the instances of these for TLC |
| `DurableMcpTasksProofs`, `DocumentAsyncProofs`, `DocumentOutputProofs`, `DurableUploadsProofs`, `DocumentCacheProofs`, `DurableCorporaProofs`, `ToolCallsProofs`, `ManagedTokensProofs` | theorems |

`*.cfg` are the instances; `PROJECT.json` lists runs, mutants, the map from every
definition to the source lines it translates, findings, hazards and theorems.

### DurableMcpTasks and the code

`Procs` are server requests, on any number of nodes.  A request takes `nowMs` when it
begins and keeps it, so a slow request carries an old clock; `Tick` advances the
clock.  Every `await` of the runtime is a value of the program counter, so requests
interleave between any two store or provider calls.

* `start()`: `StartWithKey` (createIfAbsent of the idempotency index record),
  `StartWithoutKey`, `CreateTask` (createIfAbsent of the task record),
  `ClaimCreation`, `MarkCreationInflight`, `CallCreate` (the paid call),
  `PersistHandle`, `JournalHandle`, and the catch block `MarkCreationUncertain`,
  `FailUncertain`.
* `get()`: `Get`, `LeasePoll` (the next allowed poll is stored before the provider
  is asked), `CallPoll`, `PersistPollOutcome`.
* `update()`: `Update`, `ClaimUpdate`, `MarkUpdateInflight`, `CallUpdate`,
  `MarkUpdateUncertain`, `MarkUpdateSucceeded`, `SaveAnswers` (at most four attempts).
* `cancel()`: `Cancel`, `SaveCancelled`, `ClaimCancel`, `RetryCancel`,
  `MarkCancelInflight`, `CallCancel`, `MarkCancelUncertain`, `MarkCancelSucceeded`,
  and `markUpstreamCancelled` as `ReadForMark`, `SaveMark`.
* `stopWaiting()`: `StopWaiting`, `SaveStopWaiting`.
* `Crash(p)`: the process is killed, its caller goes away, or a store call outside a
  try block throws.  A store call that commits and then throws is its step followed
  by `Crash`; where the code catches the exception the failing alternative is
  written out (`PersistHandle`, `JournalHandle`, `MarkCreationUncertain`).

Payloads, timestamps shown to users, billing and identity checks decide nothing here
and are left out; the provider's questions are model values, a request fingerprint is
the pair of open and answered keys, and the receipt of an update is the set of keys
it sent.  `creates`, `polls`, `delivered` and `acknowledged` are history variables:
what the provider saw.

### DocumentAsync and the code

The module follows one job.  An actor of `Procs` is a dispatcher consumer or a client
request; each has a program counter and a stack `ret` of the places its subroutines
return to (`effect`, `reconcileCancellation`, `reconcileResultCleanup`,
`revokeSource`).

* `submit`: `Submit` publishes job, metadata and dispatch entry at once, as the
  admission transaction does.
* `guard` in front of every operation: `Guard`, `RevokeJob`, `RevokeMeta`,
  `RevokeSnapshot`.
* `drain`: `Lease`, then `advance` and `status`, then `Release` or `ReleaseFailed`;
  `enqueue` is `Wake`.
* `advance`: `Advance`, `AdvanceRead`, `AdvanceExpire`; a settled job goes through
  cleanup, `AdvanceTerminal`, `AdvanceEnd`; otherwise the attempt is `RunJob`,
  `CheckSource`, the create effect, `SaveHandle`, `Poll`, the write effect,
  `CheckComplete`, `CompleteJob` (or `FailJob`), and its `finally` block.
* `effect`: `Claim`, `RetryEffect`, `RecoverEffect`, `AdoptResult`, `SettleEffect`,
  `MarkInflight`, `Recheck`, the call (`CallCreate`; `ReserveResult` and
  `PublishResult`; `CallCancel`), `SaveEvidence`, `MarkSucceeded`,
  `MarkUnacknowledged`, `MarkUncertain`.
* `reconcileCancellation`: `ReadCancellation` ... `SaveAcknowledged`;
  `reconcileResultCleanup`: `ReadCleanup`, `CheckCleanup`, `RecoverForCleanup`,
  `RevokeResult`, `CleanupDone`.
* `cancel`: `Cancel`, `CancelDispatch`, `CancelJob`, `CancelUpstream`, `Status`.

Abstractions, and why they lose nothing the properties are about:

* A repository call reads the job and swaps it on the revision it read.  A swap that
  succeeds wrote over the very record that was read and one that fails changes
  nothing, so the call is one step.  `update` of the metadata repeats its swap until it
  succeeds and is one step.
* Consecutive checks that can only go from true to false are one step, taken at the
  last of them.
* The clock counts epochs that are long against a lease, a poll interval and a
  backoff: within an epoch a lease may lapse at any moment, which is the worst case.
* The revision of the dispatch entry is represented by its last lessee.
* An attempt that times out is rejected by `withinDeadline` and its code runs on:
  `Abandon` hands the rest of the attempt to one of `Leftovers`, whose checks of the
  abort signal fail from then on.
* The output store is its reservation (`none`, `reserved`, `published`, `revoked`);
  its own retention is longer than the job here.  Store calls fail as crashes of the
  caller, except where the code catches the exception and goes on.

### DurableUploads and the code

One upload intent, and for each content a client may send the artifact record and the
bytes it would become.  A record's `due` is its expiry in the store (0: never swept),
`ends` the one in its value.  `revoked` says that the revocation port was called.

* `createIntent`, `getIntent`: `CreateIntent`, `GetIntent`.
* `finalize`: `Finalize`, `ClaimFinalization` (binds the content), `PutBlob`,
  `CreateArtifact`, `SaveFinalized`.
* `readArtifact`: `ReadArtifact`, `GetBlob`, `ServeRead` or `RefuseRead`.
* `deleteArtifact`: `DeleteArtifact`, `MarkDeleted`, `RevokeSource`, `EraseBlob`,
  `SettleDeleted`.
* `cleanupExpiredPage`: `SweepArtifact`, `ExpireArtifact`, `RevokeSource`,
  `ClaimCleanup`, `EraseBlob`, `SettleCleanup` for an artifact; `SweepIntent`,
  `ExpireIntent`, `EraseBlob`, `SettleIntent` for an intent.

A read whose only consequence is one compareAndSwap is one step with it.  Exceptions of
a store are crashes of the call: the sweep's `catch` also gives the record up.
Identities, sizes, MIME types and digests only reject calls and are left out; the
revocation port is configured, as it is wherever artifacts are cached.

### DocumentOutput and the code

One output key: its reservation, the source and canonical artifacts it names, their
bytes, the index that ties it to an external source.  `save()` is `Save`, `Reserve`,
`PutBlob`, `PutRecord` for each artifact, `RegisterExternalOutput`, `Recheck`,
`PublishIntent` and the catch block; a delete is a list of things to do (`ByIntent`,
`ByRecord`), as the code's loop is; `read()` is verify, bytes, latest, answer; both
sweeps follow.  `port` is what `DocumentAsync` sees of it: none, reserved, published,
revoked.  `KeyStep` is what `DocumentAsync` assumes of that port; the run `storage` checks
it and `KeyForward` proves it.

### Caches and corpora

* `DocumentCache`: `Lookup`, `Load`, `RebindLoad`, `RebindIndex`, `Rebind`; a commit from
  `MarkPayload` to `Unmark`; `RevokeAll`; the sweep of markers, cores and sources.
* `CacheBridge`: one signed request for each of lookup, commit and revoke, executed or
  not when the Container gives up, with a clock on each side.
* `MemoryDocumentCache`: calls nest, because the execution a call pays for is a
  callback; `stack` holds the calls under way.
* `DurableCorpora`: each operation computes its manifest when it begins and writes it in
  `Commit` on the revision it read; `RevokeCache`, `Collect`, `Index`, `Erase`, `Settle`
  are what follows the commit; `Search` and `Read` check again at the end.
* `CorpusStore`, `RetryGuard`: synchronous, one action per method.

### Requests

* `ToolCalls`: a tool is the list of what it awaits, `Acquire`/`Release` are the limiter,
  `OpNext` starts the next await, `Stop` is a deadline or the client's signal, `Returns`
  an answer.  `WebFetch` follows `core/fetch-pipeline.ts` with its budgets.
* `ProviderRouting`: `Select` orders the candidates, `Fallback` and `Batch` spend the
  budget and call, `Succeeds` and `Fails` report to the circuit, `EndBatch` merges.
* `McpEndpoints`: `Receive`, `AtEdge`, `AtContainer`, then the task handlers, each public
  change of the task in one step.
* `SchemaExtraction`: checks, resolution of the URL, the schema, one provider, and the
  validation of each field.

### Owners

* `ManagedTokens`: each D1 statement is a step whose answer may be lost (`Outcomes`);
  a request is `HandleWorkerRequest`, `LookUp`, `AuthenticateManagedToken`,
  `MintInternalContext`, `VerifyContainerAuth`.
* `CredentialsCli`: an invocation from `Main` to its exit code; the API may handle the
  request after its sender gave up, and may forget its idempotency keys.
* `AsyncJobs`, `CrawlJobs`, `DocumentExecution`, `UploadIntents`, `ArtifactLifecycle`:
  synchronous managers, one action per method.

### Budgets

`DurableMcpTasks` and `DocumentAsync` have a variable `budget`, chosen at the start from
the constant `Budgets` and spent by what the environment does: calls clients make, crashes,
attempts that are abandoned, the last reading of the clock.  A run names several budgets
and so covers several scenarios on one instance.  The theorems hold for every set of
budgets.

### Bundles

`RequestParts`, `OwnerParts`, `StorageParts` and `DerivedParts` each put several
components side by side.  These share no state in the code, so a behaviour is one of one
component, named by `part` when it starts; the other variables stay as they are.  The
number of states is the sum of the components' and not their product.  A property of the
bundle is a conjunction of `part = "x" => X!Property`.

| Bundle | Extends | Beside it |
|---|---|---|
| `RequestParts` | `ToolCalls` | `McpEndpoints`, `ProviderRouting`, `SchemaExtraction` |
| `OwnerParts` | `ManagedTokens` | `AsyncJobs`, `CrawlJobs`, `DocumentExecution`, `CredentialsCli` |
| `StorageParts` | `DurableUploads` | `DocumentOutput`, `StagedUploads`, `UploadIntents`, `ArtifactLifecycle` |
| `DerivedParts` | `DurableCorpora` | `DocumentCache`, `CorpusStore`, `RetryGuard`, `CacheBridge`, `MemoryDocumentCache` |

The bundles are as general as the components: every bound is a CONSTANT, and what the
theorems need of the constants is one named `ASSUME PartsAssumption`, so TLC evaluates it
in each run.  Only the `MC` modules and the `.cfg`s choose values.  `StorageParts` and
`DerivedParts` instantiate `DocumentOutputProofs` and `DocumentCacheProofs`, the
components together with what is proved of them; the other instances are proved about
in the theorem module that extends the bundle.

## What the runs show

| Run | Instance | Result |
|---|---|---|
| `mcp_creation` | 2 requests, 2 tasks, 1 key, 2 inputs, expiry, 2 crashes, fair | `provider.create` is called once per key; the journal never claims a handle that is not stored; no task stays in creation until it expires |
| `mcp_races` | 2 requests, lagging clocks, 2 questions, 1 crash; once with time, once with cancels | answers are delivered once; polls that wait for the same answers are an interval apart; a current revision means a current record; no cancellation is invented and no two are open; the runtime implements `McpTaskLifecycle` |
| `mcp_lost_cancel` | 2 requests | *violation*: a `cancel()` that loses its swap to a poll lease returns success and changes nothing |
| `doc_races` | 2 dispatchers or clients, 1 overlapping attempt, 1 crash, four budgets | one paid submission; receipts have evidence; outcomes are final; a completed job has its result; no two actors in one external call |
| `doc_liveness` | 1 dispatcher, 1 overlapping attempt, 1 crash, fair | every submitted job is settled |
| `doc_restart` | 2 actors, 1 crash | *violation*: cleanup owed by a cancellation can lose its dispatcher |
| `storage` | uploads: 2 calls, 2 contents, 1 crash; outputs: a saver and an owner, 1 fault; staging: 3 keys, pages of one; in-memory intents and artifacts | what is live has its bytes; one verified content per intent; revocation is final and precedes erasure; no read outlives it; no early erasure and no object skipped by a clean sweep |
| `uploads_orphan` | 2 calls, 1 content | *violation*: bytes stored by an overlapping finalize after the owner's delete are erased by nobody |
| `derived` | corpora: 2 callers, 2 sources, 3 calls, 1 fault; cache: 2 requests, 1 crash; bridge: a parse and a revocation, skewed clocks; in-memory cache nested twice, corpus, retry guard | no manifest change is lost; nothing is served that was given up before; deleted stays deleted and expiries only shrink; what callers are told is true |
| `requests` | tools: 3 calls, 2 slots, a queue of one; routing: 2 requests, 3 providers, a change of day; endpoints: 2 clients; an extraction | slots are accounted for and none idles while somebody waits; no work begins for a client that is gone; caps hold; routing is justified; answers are exact |
| `owners` | tokens: 2 operations, 3 ids, 1 request, 1 lost answer; async and crawl jobs; document jobs; the command | issued tokens work; what has ended is refused and stays ended; jobs and commands report the truth; paging a crawl loses and repeats nothing |
| `rotate_expired` | the same credentials | *violation*: an expire between the read and the batch of a rotate does not stop the successor from taking the old expiry |

The four violations are disagreements between a comment or document and the code;
`PROJECT.json` quotes both sides.  `update()` of an MCP task also makes the next poll
due at once, so the five seconds of `docs/configuration.md` hold between updates:
`PollsSpaced` is stated for polls that wait for the same answers.

Bounds.  Two requests exhibit every race of two awaits; a request that ends begins
again, so two are many.  The leftover attempt in `doc_races`, and the third call in
`requests`, let somebody interfere while two others are at the same place.  One crash
suffices to leave any prefix of an operation behind, two to do so in the recovery as
well.  Clocks run past an interval, a budget, an expiry and a retry delay.
`CancelRetryCap` ends the otherwise unbounded retries of a cancellation after at least
one repeat, `DeleteCap` does so for deletes; `SaveBy` keeps one generation for an output
key, because a document job draws a fresh one.  The other `Max...` constants bound how
many calls, rows, jobs, faults or readings of the clock there are and are explained
where they are declared.  `CHECK_DEADLOCK FALSE`: a finished task, an idle entry, an
erased upload or a settled request needs nobody.

Every property has a mutant: a changed definition, beside the original, under which the
same run fails.

Fairness.  A request that has begun proceeds unless it crashes (an event loop runs
every promise).  For MCP tasks, clients that hold a task id keep asking for it, which
is how the protocol is used.  For documents, the scheduled drain comes round again and
time passes.  Nothing is assumed of providers: an unfair one fails every poll.

## What is proved

Every invariant and every action property that a passing run checks is a theorem, and so
is the refinement of `McpTaskLifecycle`; only the two liveness properties are left to TLC.
Eight modules hold the theorems, each for every value of the constants: any number of
requests, tasks, sources, ids and so on, any clock, any number of crashes and faults.
They assume only the `ASSUME`s of the modules, which TLC evaluates in every run: limits,
intervals and hours are natural numbers, a null value is none of the values.  The
assumptions that say more than this are:

* `OneSaver`, `OneEnd` (outputs): one save of one key is under way at a time and all
  belong to one hour; see "Outputs" below.
* `SyncLimits` (executions): the configured limits allow no engine at once that
  `ASYNC_ONLY_ENGINES` names.  The code does not compare the two lists.
* `RequestsSound` (endpoints): a request that names no task or no tool does not parse.
* `ExtractionShapes`: providers return JSON values, whose lists the code does not
  enter twice; the registry is a list; the deployment limits the length of strings.
* `RoutingNumbers`: no circuit is open before the first call.
* `LifeNumbers`: an id names an artifact, an upload or an orphan.

The main theorems by module; each module also has the types and the inductive
invariant of every component in it.

| Module | Component | Theorems |
|---|---|---|
| `DurableMcpTasksProofs` | MCP tasks | `TypeCorrect`, `Fencing`, `CreateAtMostOnce`, `Refinement`, `Invariance`, `JournalIsTrue`, `AnsweredOnce`, `CancelsHonest`, `PollsApart` |
| `DocumentAsyncProofs` | asynchronous documents | `TypeCorrect`, `SubmittedOnce`, `EvidenceHolds`, `ResultLives`, `CallersApart`, `FinalOutcome` |
| `DocumentOutputProofs` | outputs | `PublishedWhole`, `NeverLate`, `KeyForward` |
| `DocumentCacheProofs` | cache | `RevokedMisses`, `IndexOutlives` |
| `DurableUploadsProofs` | uploads | `LiveHaveBytes`, `OneBoundContent`, `RevokedBeforeErased`, `ServedInTime`, `RevokedIsFinal` |
| | in-memory intents and artifacts, staged objects | `OneReferenceEach`, `ReferencesVerified`; `RevokedInMemory`, `ErasedWhenDue`; `StagedIsKept`, `CleanupIsComplete` |
| | `StorageParts` | `StateHolds`, `LiveWhole`, `OneContentEach`, `RevokedStays`, `ServedLive`, `ErasedDue` |
| `DurableCorporaProofs` | corpora | `UpdatesKept`, `ServedInTime`, `DeletedForGood` |
| | in-memory corpus, retry guard | `DeletedLeavesNothing`, `ExpiriesShrink`, `SearchesAreCurrent`; `OneResultPerKey` |
| | bridge, in-memory cache | `CacheNeverFails`, `DecidedBefore`, `RevocationHolds`; `MemoryRevocationHolds`, `MemoryHoldsStored` |
| | `DerivedParts` | `StateHolds`, `ServedCurrent`, `EndsKept`, `OutcomesTrue` |
| `ToolCallsProofs` | slots | `Slots`, `NoIdle`, `Leftovers` |
| | endpoints, routing | `AnswersTrue`, `HeadersAgree`; `RoutingWithinCaps`, `GivesUpLast`, `SkipsAreEarned` |
| | extraction | `ExtractionsExact`, `NamedIsCalled`, `AbortedAsksNoOne` |
| | `RequestParts` | `StateHolds`, `CapsHold`, `RoutingJustified`, `AnswersExact`, `NothingForTheGone` |
| `ManagedTokensProofs` | credentials | `TokensWork`, `NeverServed`, `EndedForGood` |
| | jobs, executions | `OneJobForAKey`, `UpstreamIsEvidenced`, `JobsStayEnded`; `ExecutionsHonest`, `ExecutionsStayEnded` |
| | command, crawls | `SecretShownOnce`, `ExitsAreTrue`, `OneSuccessor`; `CrawlsWithinBudget`, `PagesReadOnce`, `CrawlsStayEnded` |
| | `OwnerParts` | `StateHolds`, `HonestJobs`, `EndedStays`, `ExactCrawls` |

The arguments:

* **MCP task runtime.**  `OneCreatePerKey` is not inductive: that nobody else creates
  depends on what each request knows at each await and on what the journal says.
  `IInv` adds `SnapshotsAreFenced`, `AbsentIsEmpty` (a record that does not exist is the
  empty one), `LocalsOK` and `RecordsOK` (what a program counter value implies for the
  request and its record), `CreatorIsAlone` (at most one request is between claiming the
  creation and recording its outcome, and then nobody has created) and `KeyIsBound` (an
  index record names one task for good).  The step lemma splits a step into what it does
  to the task record, the request, the index and the create counter.  For the
  refinement every edit of a task record is shown to be an action of the abstract life
  cycle or a stutter.
* **What it does to its provider.**  Four more invariants, one per effect:
  `CreationOK`, `CancelOK`, `AnswersOK`, `PollsOK`.  Each says who owns the effect's
  revision and what has, or has not yet, reached the provider at each await.  Two facts
  about every step keep the proofs apart: where its request goes (`EveryMove`) and what
  it may write to the record (`EveryEdit`).
* **Asynchronous documents.**  `IInv` is `Base /\ JournalOK /\ ResultOK`.  `Base` has the
  types and `ControlOK`: which stacks of callers each place in the code can have, so that
  a subroutine is known to return where its caller waits, with that caller's lease or
  effect.  `JournalOK` says that an actor past `Claim` owns its effect's revision and
  what has not been called before it calls.  `ResultOK` says what an actor knows of the
  result it is about to adopt, settle or revoke, and that whoever is about to revoke does
  so to a result that is doomed (its job ended without it, or its source is gone).  World
  facts only grow, and are stated as constant-level operators, so that what an actor
  learned stays true under the steps of the others.
* **Corpora.**  A call whose view has the record's revision has the record itself; so
  what it writes differs from the record only at its own source, and a read that finds
  the revision unmoved found the manifest unmoved.
* **Uploads.**  Two facts carry it.  A call whose copy of a record has the record's
  revision has the record itself.  And what the intent once bound, its content and the
  end of its artifact, it never unbinds (`IntentStep`), although its status goes on to
  expired; so a late finalize and a late sweep mean the same artifact and agree on when
  its life is over, and bytes that a sweep takes between the put and the creation of the
  artifact are bytes of a life that has ended.  `StoreStep` says what any step does to
  the stores; under it what a call knows stays true (`OthersStay`), and each action is
  then shown to make only such a step.
* **Outputs.**  Everything a key stands for ends at one hour (`End`).  Before it nothing
  is marked, erased or dropped unless the reservation was revoked first (`KeyOK`); a saver
  that has put its bytes and records finds them there at its next await, or finds the
  revocation (`CallOK`); so what is published is whole, and a reader that compares the
  reservation and the source index once more before it answers is never late.  Two
  hypotheses say what the caller guarantees, and without them the argument fails:
  `OneSaver`, because two saves of one key that overlap may see one of them fail and erase
  bytes the other publishes, and `OneEnd`, because a second save at a later hour would
  have records that outlive the reservation.  The job's `artifact_write` effect is claimed
  once and never repeated, so a key has one save.
* **Cache.**  A source's index carries both arguments: until its end it only grows and never
  loses its revocation (`Kept`).  So it remembers a revocation as long as it promised to,
  a lookup that begins meanwhile cannot get on the way to a hit, and every binding that
  can still be hit is covered by an index that ends no earlier (`SourceOK`), although
  commits and rebindings write with the clock of their request.
* **Slots.**  Every step is one of five things to the limiter: take a free slot, take a
  place in the queue, leave it, hand the slot over or give it back, nothing.  The queue
  holds every waiting call once and is empty unless all slots are taken.
* **Credentials.**  Every D1 statement edits one row in one of the few ways of `RowEdit`;
  no such edit gives a secret another holder or brings a row back into use.  A request of
  an ended credential never gets past the reading of the clock.
* **Endpoints.**  `EndpointInv` ties each call to its place: whoever has a door had its
  headers judged, nobody has done or seen anything before its handler runs.  A terminal
  status that was shown is still the status when the answer arrives, because no step
  leaves one.
* **Routing.**  `RoutingInv` has three parts.  `BudgetInv`: no period has more dispatches
  than its cap, and those of the current one are counted, so that the next reservation is
  refused in time; periods only grow.  `HealthInv`: a circuit counts no failure that did
  not happen since the provider's last success.  `CallsInv`: a call that is over has tried
  whatever it selected, or found it over its budget.
* **Extraction.**  The result is built once, from what was parsed and what came back;
  `ExtractionInv` keeps that what was handed out is `Exact` for these.  The digest is
  taken of the set of fields, which no order of the schema changes.  `Told` adds that an
  extraction which is over, or aborted, was told why.
* **Jobs, executions, crawls.**  A call edits one job in the ways of `JobEdit`, `DocEdit`
  or `CrawlEdit`; none leaves a status that is final or changes owner or key.
  `OneJobPerKey` also needs that ids are given out in order (`InOrder`).  For crawls,
  `CrawlFits` holds each batch against what is left of the budgets, and `ReaderSound` says
  that a reader has read a prefix of what is kept: pages are only appended.
* **The command.**  Rows only grow (`RowsGrow`: a secret and a successor stay), and
  `CliOK` says what each phase of an invocation may know; an answer that comes after the
  command gave up changes rows, never its exit code.
* **In-memory uploads and artifacts.**  A reference is `ReferenceSound` when it is made,
  and no edit of its intent (`IntentEdit`) unmakes that, although late PUTs and failures
  overwrite the status.  A record of an artifact is edited by `LifeEdit` only, which takes
  no revocation back, and what a cleanup drops was marked a window ago.
* **Staged objects.**  A cleanup promises something about the keys it has not seen yet:
  `SweepTrack` says that all that was due when it began is gone, PUT again, still ahead of
  its cursor, or was a failure; `SweepSound` that what it saw as over is over.
* **In-memory corpus, retry guard.**  `IndexSound`: every enrolled source has an entry in
  the index, and no entry of an enrolled source has another hash than the manifest.  A
  result that the guard has kept is the only one it has returned.
* **Bridge.**  `RequestOK` says for each place of a call what may be on the wire: a parse
  that goes on to execute was told what the Worker decided or met a fault, and a commit
  carries that decision (`ParseOK`); once a revoker was told "revoked" the source is, and
  what begins later is answered nothing else (`RevokerOK`, `LateOK`).
* **In-memory cache.**  Calls nest.  Only the innermost call can be one that nothing
  interrupted, and what such a call read of its entry is still so (`StackSound`,
  `ReadHolds`); every source that was revoked in an entry is still bound to it, revoked
  (`BarredIn`), until a refresh of its own.
* **Side by side.**  Per part there is one lemma (`RoutingRuns`, `CrawlsRun`, ...): a
  behaviour of the bundle is a behaviour of that component, or `part` is never its name.
  Each theorem of a bundle follows from these and the components' theorems.  For an action
  property the others must be shown to leave the component's variables alone.

Each strengthened invariant was first checked with TLC on the instance of its run.

What is not proved, and why:

* `CreationIsSettled`, `JobEnds`: liveness rests on fairness and `ENABLED`, which are out
  of the prover's reach.
* What a fold computes for every input (`CrawlJobs`' totals, the cursor of
  `SchemaExtraction`'s scan): this needs an induction whose theorem takes an operator as a
  parameter.  The proofs treat such a fold as a value and use only where the code
  compares it; TLC evaluates it.

## What the models reach and no property claims

These are outcomes the models exhibit that no document or comment of the repository
rules out; a reader of a property should know of them.

* Corpora: a deletion that overlaps an enrolment leaves entries in the index (search
  filters them); under the retry guard a paid call whose outcome is unknown is made
  again.
* Cache: a core record may name bytes that are gone (a lookup misses); a commit that
  outlives its marker leaks bytes.  In memory, a revocation that comes during a source's
  first execution is lost, and a nested call may be told "stored" over a binding that was
  revoked.  Over the bridge, a commit may be answered unstored although it is stored.
* In-memory artifacts that failed or were cancelled keep their bytes.  Two saves of one
  output key that overlapped could publish an output whose bytes a failed put of the other
  erased; the job's effect journal excludes them.  A second
  generation of one output key can meet the sweep of the first.  Jobs that have expired
  are reused by key, and still count against the limit of a manager.
* MCP tasks: the cancel of a lost race (`mcp_lost_cancel`); the cancel tool may answer an
  error after a cancel that took effect; `working` may be shown with
  `groundlanePollingCancelled`; a repeated start of an ended task is refused for a client
  with the tasks capability, because `groundlaneCreateTaskResultSchema` is strict.
* Documents: an upstream cancel that fails after the entry went idle is not repeated; a
  cancellation whose effect is stuck in flight reschedules for ever.
* Routing: aborts count as failures of the provider; concurrent fetches may pass a
  backend's cap together; the choice between a synchronous and an asynchronous execution
  does not look at memory.
* Credentials: a rotate whose answer was lost is answered as a conflict after the isolate
  has forgotten its key.

## Plan

Written so far: everything in the module table.  Next: that `DocumentOutput` implements
the port of `DocumentAsync` as a refinement; so far `KeyForward` proves of the one what the
other assumes.  Models still to write: the D1 and SQLite adapters
as implementations of `DurableStore`, the executor over `DocumentJobs`, the admission
transaction that `Submit` takes as one step.

## Not modelled

Document admission and source snapshots (taken as one step by `Submit` and `Guard`),
parsing and normalization, provider adapters, the arena and the scripts beside
the operator command.  Partly modelled: the record store (its contract, not its adapters),
document jobs (not the executor), the dispatcher (one entry, not the cursor over pages),
artifacts, crawl jobs, tool handlers and entry points (what they do to shared state, not
their wiring and formats).  Identity checks, encodings and limits on sizes guard inputs
and are left out of the state machines.  `PROJECT.json` lists every component with its
status and the hazards that no property covers yet.
