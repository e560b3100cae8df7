----------------------------- MODULE OwnerParts -----------------------------
(***************************************************************************)
(* What the service keeps for its owners, side by side: the managed        *)
(* credentials (extended here), the asynchronous jobs, the crawl jobs, the *)
(* in-memory jobs of documents and the operator's command.  They share no  *)
(* state, so a behaviour is one of one of them, named by part; the         *)
(* variables of the others stay at 0.                                      *)
(***************************************************************************)
EXTENDS ManagedTokens

CONSTANTS
  Owners, Credentials, Keys, JobsNow, \* AsyncJobs and CrawlJobs
  Clients, JobOperations, Results, MaxJobs, MaxUnits, MaxRecords,
  Budgets, Chars, MaxBatch, MaxPartials, MaxDropped, PageSizes, MaxCrawls,
  Hashes, Engines, AsyncOnly, Limits, Needs, DocExpiries, MaxDocs, \* DocumentExecution
  Invocations, Given, Arguments, TokenFile, TokenEnv, Now, \* CredentialsCli
  MaxOverlap, MaxLimit, MaxText, MaxScopes, MaxTokenLength, MaxRestarts

VARIABLES
  part,
  clock, jobs, evidence, reader, docs, sync,
  cli, kept, remembered, restarts

Jobs == INSTANCE AsyncJobs WITH now <- clock, MaxNow <- JobsNow, Operations <- JobOperations
Crawls == INSTANCE CrawlJobs WITH now <- clock, MaxNow <- JobsNow, MaxJobs <- MaxCrawls
Documents == INSTANCE DocumentExecution WITH now <- clock, Expiries <- DocExpiries, MaxJobs <- MaxDocs
Cli == INSTANCE CredentialsCli WITH rows <- kept, idem <- remembered

-----------------------------------------------------------------------------
\* Jobs: the bounds are numbers.
JobNumbers == MaxJobs \in Nat /\ TTL \in Nat /\ MaxUnits \in Nat /\ JobsNow \in Nat
\* Crawls: the bounds and the budgets are numbers.
CrawlNumbers ==
  /\ Budgets \subseteq [pages: Nat, bytes: Nat, chars: Nat] /\ MaxPartials \in Nat /\ MaxBatch \in Nat
  /\ Chars \subseteq Nat /\ PageSizes \subseteq Nat \ {0} /\ MaxCrawls \in Nat /\ TTL \in Nat /\ JobsNow \in Nat
\* Executions: times and the store's limit are numbers; and no engine is allowed at once
\* that is ASYNC_ONLY_ENGINES, which the code leaves to whoever configures the limits.
ExecutionNumbers == MaxDocs \in Nat /\ MaxNow \in Nat /\ DocExpiries \subseteq Nat
SyncLimits == Limits.engines \cap AsyncOnly = {}
\* The command: no invocation is called "none".
CliNames == Cli!None \notin Invocations

ASSUME PartsAssumption == JobNumbers /\ CrawlNumbers /\ ExecutionNumbers /\ SyncLimits /\ CliNames

-----------------------------------------------------------------------------
jobVars == <<clock, jobs, evidence>>
crawlVars == <<clock, jobs, reader>>
docVars == <<clock, docs, sync>>
cliVars == <<cli, kept, remembered, restarts>>
ownersVars == <<vars, part, jobVars, reader, docs, sync, cliVars>>

NoJobs == jobs = 0 /\ evidence = 0
NoReader == reader = 0
NoDocs == docs = 0 /\ sync = 0
NoCli == cli = 0 /\ kept = 0 /\ remembered = 0 /\ restarts = 0

OwnersInit ==
  /\ Init
  /\ \/ part = "tokens" /\ clock = 0 /\ NoJobs /\ NoReader /\ NoDocs /\ NoCli
     \/ part = "jobs" /\ Jobs!Init /\ NoReader /\ NoDocs /\ NoCli
     \/ part = "crawls" /\ Crawls!Init /\ evidence = 0 /\ NoDocs /\ NoCli
     \/ part = "documents" /\ Documents!Init /\ NoJobs /\ NoReader /\ NoCli
     \/ part = "cli" /\ Cli!Init /\ clock = 0 /\ NoJobs /\ NoReader /\ NoDocs
OwnersNext ==
  /\ part' = part
  /\ \/ part = "tokens" /\ Next /\ UNCHANGED <<jobVars, reader, docs, sync, cliVars>>
     \/ part = "jobs" /\ Jobs!Next /\ UNCHANGED <<vars, reader, docs, sync, cliVars>>
     \/ part = "crawls" /\ Crawls!Next /\ UNCHANGED <<vars, evidence, docs, sync, cliVars>>
     \/ part = "documents" /\ Documents!Next /\ UNCHANGED <<vars, jobs, evidence, reader, cliVars>>
     \/ part = "cli" /\ Cli!Next /\ UNCHANGED <<vars, jobVars, reader, docs, sync>>
OwnersSpec == OwnersInit /\ [][OwnersNext]_ownersVars

\* The shape of the state of the component that runs.
StateOK ==
  /\ TypeOK
  /\ (part = "jobs" => Jobs!TypeOK) /\ (part = "crawls" => Crawls!TypeOK)
  /\ (part = "documents" => Documents!TypeOK) /\ (part = "cli" => Cli!TypeOK)
\* One idempotency key of an owner names one job for ever, whichever credential
\* repeats the create, and a job is cancelled upstream exactly when the provider
\* acknowledged it; a document's job does not go on against its cancels or without
\* its source, and is run at once only when it may be; and the operator's command
\* shows a secret once and exits with a code that is true, though its request is
\* handled after it gave up.
JobsAreHonest ==
  /\ part = "jobs" => Jobs!OneJobPerKey /\ Jobs!UpstreamNeedsEvidence
  /\ part = "documents" => Documents!JobsAreHonest
  /\ part = "cli" => Cli!ShownOnce /\ Cli!ExitIsTrue
\* What has ended stays so: a credential out of use, the status and result of a job,
\* the pages of a crawl and the successor of a credential, whatever rotation,
\* completion, cancel or repeated command comes late.
EndedStaysEnded ==
  [][/\ EndedStep
     /\ part = "jobs" => Jobs!EndedStep
     /\ part = "crawls" => Crawls!EndedStep
     /\ part = "documents" => Documents!EndedStep
     /\ part = "cli" => Cli!SuccessorStep]_ownersVars
\* A crawl never keeps more than its budgets over all its batches, and a reader that
\* follows the cursors reads every kept page once and in order, also when batches
\* arrive between two of its pages.
CrawlIsExact == [][part = "crawls" => Crawls!KeptWithinBudget' /\ Crawls!PagingStep]_ownersVars
=============================================================================
