------------------------------ MODULE CrawlJobs -----------------------------
(***************************************************************************)
(* CrawlJobManager (core/crawl-jobs.ts) over its in-memory store: a job    *)
(* pulls batches of pages from a provider within its budgets while a       *)
(* reader pages through what has been kept so far. Every operation is      *)
(* synchronous, so it is one step; the provider is a port whose answer is  *)
(* any batch of up to MaxBatch pages.                                      *)
(***************************************************************************)
EXTENDS Naturals, Sequences, FiniteSets, SequencesExt

CONSTANTS
  Owners, Credentials, Keys,
  Budgets,      \* records [pages, bytes, chars] that validateBudgets() accepts
  Chars,        \* contentChars of the pages of the provider
  MaxBatch,     \* bound: pages of one batch
  MaxPartials,  \* MAX_CRAWL_PARTIALS
  MaxDropped,   \* bound: pages dropped
  PageSizes,    \* page sizes a reader may ask for
  MaxJobs, TTL,
  MaxNow        \* bound: the last reading of the clock

None == "none"
JobIds == 1..MaxJobs

VARIABLES
  now, jobs,    \* jobs[id]: InternalCrawlJobState
  reader        \* one caller of result(): the job, the offset in its cursor, what it read

vars == <<now, jobs, reader>>

Cancelled == {"cancelled_by_caller", "cancelled_by_groundlane", "cancelled_by_upstream"}
Terminal == {"completed", "failed"} \cup Cancelled
NoJob == [status |-> None, owner |-> None, cred |-> None, key |-> None, ends |-> 0, budgets |-> None,
          partials |-> <<>>, dropped |-> 0, asked |-> FALSE, ack |-> FALSE, billed |-> FALSE]
NoReader == [job |-> 0, offset |-> 0, read |-> <<>>, done |-> FALSE]
Stored == {i \in JobIds : jobs[i].status # None}

\* The shape of the state: a job that ended with the work done or refused has
\* a billing time, a cancelled one has none.
TypeOK ==
  /\ now \in 0..MaxNow
  /\ reader.job \in JobIds \cup {0} /\ reader.offset \in Nat
  /\ \A i \in Stored :
       /\ jobs[i].status \in {"created", "crawling"} \cup Terminal
       /\ jobs[i].owner \in Owners /\ jobs[i].cred \in Credentials /\ jobs[i].budgets \in Budgets
       /\ jobs[i].billed <=> jobs[i].status \in {"completed", "failed"}

Init == now = 0 /\ jobs = [i \in JobIds |-> NoJob] /\ reader = NoReader

-----------------------------------------------------------------------------
\* validateCrawlStatusTransition() and CRAWL_STATUS_ORDER.
Order(s) == IF s \in Terminal THEN 2 ELSE IF s = "created" THEN 0 ELSE 1
ValidTransition(from, to) == from # to /\ from \notin Terminal /\ Order(to) >= Order(from)

\* buildCrawlIdempotencyKey() and the index of InMemoryCrawlJobStore.
ByIdempotencyKey(owner, key) == {i \in Stored : key # None /\ jobs[i].owner = owner /\ jobs[i].key = key}

\* resolve(): owner, credential and expiry.
Resolves(i, owner, cred) ==
  i \in Stored /\ jobs[i].owner = owner /\ jobs[i].cred = cred /\ jobs[i].ends > now
Set(i, job) == jobs' = [jobs EXCEPT ![i] = job] /\ UNCHANGED now

\* totalsOf(): bytes and output characters are the same sum.
TotalChars(partials) ==
  LET sum[n \in 0..Len(partials)] == IF n = 0 THEN 0 ELSE sum[n - 1] + partials[n] IN sum[Len(partials)]
\* validateCrawlBudgets(), over what earlier batches used.
WithinBudget(budgets, kept, batch) ==
  LET total == TotalChars(kept \o batch) IN
  Len(kept \o batch) <= budgets.pages /\ total <= budgets.bytes /\ total <= budgets.chars

\* create(): a key already used gives the job there is, whoever asks.
Create(owner, cred, key, budgets) ==
  /\ ByIdempotencyKey(owner, key) = {} /\ Cardinality(Stored) < MaxJobs
  /\ Set(Cardinality(Stored) + 1,
         [NoJob EXCEPT !.status = "created", !.owner = owner, !.cred = cred, !.key = key,
                       !.ends = now + TTL, !.budgets = budgets])
  /\ UNCHANGED reader

\* fail(): what was kept before stays, the batch is not added.
Fail(i, dropped) == Set(i, [jobs[i] EXCEPT !.status = "failed", !.dropped = dropped, !.billed = TRUE])

\* ingestUpstream() when fetchUpstreamPages() throws.
IngestFails(i) == jobs[i].status \notin Terminal /\ Fail(i, jobs[i].dropped) /\ UNCHANGED reader

\* ingestUpstream() of one batch: "bad" of its pages, whose url or contentChars is
\* refused, are dropped; the rest, "kept", is added whole or not at all; an empty
\* batch without a cursor completes the job.
IngestUpstream(i, kept, bad, more) ==
  LET dropped == jobs[i].dropped + bad
      drained == kept = <<>> /\ bad = 0 /\ ~more
      status == IF drained THEN "completed" ELSE "crawling" IN
  /\ jobs[i].status \notin Terminal /\ dropped <= MaxDropped
  /\ IF \/ Len(jobs[i].partials \o kept) > MaxPartials
        \/ ~WithinBudget(jobs[i].budgets, jobs[i].partials, kept)
     THEN Fail(i, dropped)
     ELSE /\ status = jobs[i].status \/ ValidTransition(jobs[i].status, status)
          /\ Set(i, [jobs[i] EXCEPT !.status = status, !.partials = @ \o kept, !.dropped = dropped,
                                    !.billed = @ \/ drained])
  /\ UNCHANGED reader

\* cancelCallerWait() and cancelGroundlanePolling().
Cancel(i, kind) ==
  ValidTransition(jobs[i].status, kind) /\ Set(i, [jobs[i] EXCEPT !.status = kind]) /\ UNCHANGED reader

\* requestUpstreamCancel(): without an acknowledgment only the wish is kept.
RequestUpstreamCancel(i, ack) ==
  /\ jobs[i].status \notin Terminal
  /\ Set(i, [jobs[i] EXCEPT !.asked = TRUE, !.ack = ack, !.status = IF ack THEN "cancelled_by_upstream" ELSE @])
  /\ UNCHANGED reader

\* result(): one page from the reader's cursor; and one that ends a page too
\* late. The next cursor is an offset, and none when the page reaches the end
\* of what has been kept so far.
LongItems(partials, offset, size) == SubSeq(partials, offset + 1, Min({offset + size + 1, Len(partials)}))
Items(partials, offset, size) == SubSeq(partials, offset + 1, Min({offset + size, Len(partials)}))
Result(i, size) ==
  /\ reader.job \in {0, i} /\ ~reader.done
  /\ reader' = [job |-> i, offset |-> reader.offset + size,
                read |-> reader.read \o Items(jobs[i].partials, reader.offset, size),
                done |-> reader.offset + size >= Len(jobs[i].partials)]
  /\ UNCHANGED <<now, jobs>>

Tick == now < MaxNow /\ now' = now + 1 /\ UNCHANGED <<jobs, reader>>

Next ==
  \/ \E owner \in Owners, cred \in Credentials, key \in Keys \cup {None}, budgets \in Budgets :
       Create(owner, cred, key, budgets)
  \/ \E i \in JobIds, owner \in Owners, cred \in Credentials :
       /\ Resolves(i, owner, cred)
       /\ \/ IngestFails(i)
          \/ \E kept \in BoundedSeq(Chars, MaxBatch), bad \in 0..MaxBatch, more \in BOOLEAN :
               Len(kept) + bad <= MaxBatch /\ IngestUpstream(i, kept, bad, more)
          \/ \E kind \in {"cancelled_by_caller", "cancelled_by_groundlane"} : Cancel(i, kind)
          \/ \E ack \in BOOLEAN : RequestUpstreamCancel(i, ack)
          \/ \E size \in PageSizes : Result(i, size)
  \/ Tick

Spec == Init /\ [][Next]_vars

-----------------------------------------------------------------------------
\* What a job has kept never exceeds its budgets or the cap on partial
\* results, over all its batches and after it failed.
KeptWithinBudget ==
  \A i \in Stored : LET kept == jobs[i].partials IN
    /\ Len(kept) <= Min({MaxPartials, jobs[i].budgets.pages})
    /\ TotalChars(kept) <= Min({jobs[i].budgets.bytes, jobs[i].budgets.chars})

\* A reader that follows the cursors reads every kept page once and in order,
\* also when batches arrive between two of its pages; when it is told there is
\* no more, it has read all that was kept at that moment.
PagingStep ==
  /\ reader'.job # 0 => IsPrefix(reader'.read, jobs'[reader'.job].partials)
  /\ reader'.done /\ ~reader.done => reader'.read = jobs[reader'.job].partials

\* A job that has ended keeps its status and its pages, whatever batch or
\* cancel comes late; it is cancelled upstream only with an acknowledgment.
EndedStep ==
  \A i \in Stored : /\ jobs[i].status \in Terminal =>
                       jobs'[i].status = jobs[i].status /\ jobs'[i].partials = jobs[i].partials
                    /\ jobs'[i].ack <=> jobs'[i].status = "cancelled_by_upstream"
=============================================================================
