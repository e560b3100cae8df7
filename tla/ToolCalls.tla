------------------------------ MODULE ToolCalls ------------------------------
(***************************************************************************)
(* The tool calls of one container process: the handlers under tools/, the *)
(* ConcurrencyLimiter and withinDeadline() of core/limits.ts they share,   *)
(* and the fetch pipeline (core/fetch-pipeline.ts) with the budgets of its *)
(* hosted reader and browser.                                              *)
(*                                                                         *)
(* A handler checks its input, waits for a slot, runs its operation and    *)
(* releases the slot. Most race the operation against the deadline and the *)
(* client's signal: when one of those wins, the handler answers and frees  *)
(* the slot while the operation is still out. An operation is the list of  *)
(* what it awaits; the process has one thread, so what runs between two    *)
(* awaits is one step.                                                     *)
(***************************************************************************)
EXTENDS Naturals, Sequences, FiniteSets, SequencesExt

CONSTANTS
  Calls,    \* calls that clients make
  Limit,    \* ConcurrencyLimiter.limit
  MaxQueue, \* ConcurrencyLimiter.maxQueue
  Cap       \* Cap[b]: requests of backend b that its budget allows in the period

VARIABLES
  active, queue, \* ConcurrencyLimiter.activeCount and queue
  call,          \* call[c]: the handler and its operation
  used           \* used[b]: what the budget tracker has counted

vars == <<active, queue, call, used>>
limiter == <<active, queue>>

None == "none"
Backends == {"jina", "browserless"}

ASSUME CallsAssumption == IsFiniteSet(Calls)
ASSUME LimitsAssumption == Limit \in Nat \ {0} /\ MaxQueue \in Nat /\ Cap \in [Backends -> Nat]

\* The request of fetch(): render, whether the hosted reader and the source-aware
\* documentation resolver may serve it, and whether it names a wait condition.
NoFetch == [render |-> None, reader |-> FALSE, docs |-> FALSE, waits |-> FALSE]
NoCall == [phase |-> "idle", raced |-> FALSE, plan |-> <<>>, await |-> None, fetch |-> NoFetch, gone |-> FALSE]
\* A call that has been answered, with or without an error; nothing is left of it.
Answered == [NoCall EXCEPT !.phase = "done"]
Waiting == {c \in Calls : call[c].phase = "queued"}
Holding == {c \in Calls : call[c].phase \in {"granted", "running"}}

\* The shape of the state; the queue holds each waiting call once.
TypeOK ==
  /\ active \in Nat /\ Len(queue) <= MaxQueue
  /\ ToSet(queue) = Waiting /\ Len(queue) = Cardinality(Waiting)
  /\ \A b \in Backends : used[b] \in 0..Cap[b]
  /\ \A c \in Calls : call[c].phase \in {"idle", "queued", "granted", "running", "done"}

Init ==
  /\ active = 0 /\ queue = <<>>
  /\ call = [c \in Calls |-> NoCall]
  /\ used = [b \in Backends |-> 0]

-----------------------------------------------------------------------------
\* acquire(): a slot, a place in the queue, or a refusal of a client that has
\* cancelled already or finds the queue full.
Acquire(c, q) ==
  \/ /\ active < Limit
     /\ active' = active + 1 /\ UNCHANGED queue
     /\ call' = [call EXCEPT ![c] = [q EXCEPT !.phase = "granted"]]
  \/ /\ active >= Limit /\ Len(queue) < MaxQueue
     /\ queue' = Append(queue, c) /\ UNCHANGED active
     /\ call' = [call EXCEPT ![c] = [q EXCEPT !.phase = "queued"]]
  \/ call' = [call EXCEPT ![c] = Answered] /\ UNCHANGED limiter

\* A release that always counts its slot as free.
ReleaseAndCount(ended) ==
  IF queue = <<>>
  THEN active' = active - 1 /\ call' = ended /\ UNCHANGED queue
  ELSE /\ active' = active - 1 /\ queue' = Tail(queue)
       /\ call' = [ended EXCEPT ![Head(queue)].phase = "granted"]
\* A release that leaves the slot free for the next call to arrive.
ReleaseOnly(ended) == active' = active - 1 /\ call' = ended /\ UNCHANGED queue
\* The release of a slot: the head of the queue takes it over.
Release(ended) ==
  IF queue = <<>>
  THEN active' = active - 1 /\ call' = ended /\ UNCHANGED queue
  ELSE /\ active' = active /\ queue' = Tail(queue)
       /\ call' = [ended EXCEPT ![Head(queue)].phase = "granted"]

\* withConcurrency()'s finally; q is what is left of the operation.
Finish(c, q) == Release([call EXCEPT ![c] = q])

\* The operation is over: its handler answers, unless it already has.
OpEnds(c, q) ==
  IF q.phase = "running"
  THEN Finish(c, Answered)
  ELSE call' = [call EXCEPT ![c] = Answered] /\ UNCHANGED limiter

Awaits(c, q, stage) == call' = [call EXCEPT ![c] = [q EXCEPT !.await = stage]] /\ UNCHANGED limiter

\* The operation goes on whatever its signal says.
OpGoesOn(c, q) ==
  \/ q.plan = <<>> /\ OpEnds(c, q)
  \/ q.plan # <<>> /\ Awaits(c, [q EXCEPT !.plan = Tail(@)], Head(q.plan))
\* What the operation does next: the end of its plan answers (an answer over the
\* output limit is cut or an error), and an aborted signal stops it before it
\* awaits again (throwIfAborted, or the adapter it calls).
OpNext(c, q) ==
  \/ (q.plan = <<>> \/ q.gone) /\ OpEnds(c, q)
  \/ q.plan # <<>> /\ ~q.gone /\ Awaits(c, [q EXCEPT !.plan = Tail(@)], Head(q.plan))

-----------------------------------------------------------------------------
\* The handlers.
Enter(c, q) ==
  /\ call[c].phase = "idle"
  /\ Acquire(c, q)
  /\ UNCHANGED used
Refuse(c) ==
  /\ call[c].phase = "idle"
  /\ call' = [call EXCEPT ![c] = Answered]
  /\ UNCHANGED <<limiter, used>>
Raced(plan) == [NoCall EXCEPT !.raced = TRUE, !.plan = plan]

WebSearch(c) == Enter(c, Raced(<<"router">>))
WebAnswer(c) == Enter(c, Raced(<<"router">>))
WebResearch(c) == Enter(c, Raced(<<"router">>))
WebContent(c) == Refuse(c) \/ Enter(c, Raced(<<"router">>))
WebMap(c) == Enter(c, Raced(<<"router">>))
WebCrawl(c) == Enter(c, Raced(<<"router">>))
WebNews(c) == Enter(c, Raced(<<"router">>))
WebImages(c) == Enter(c, Raced(<<"router">>))
PaperSearch(c) == Enter(c, Raced(<<"router">>))
WebExtractSchema(c) == Enter(c, Raced(<<"router">>))
\* The errors of each checker become an "unknown" of the answer.
ProviderBalance(c) == Enter(c, Raced(<<"balances">>))
ProviderQuota(c) == Enter(c, Raced(<<"balances">>))
\* The document tools refuse input that is no base64, too long or of no known type.
DocumentOcr(c) == Refuse(c) \/ Enter(c, Raced(<<"ocr">>))
DocumentTranscribe(c) == Refuse(c) \/ Enter(c, Raced(<<"ocr">>))
DocumentTableExtract(c) == Refuse(c) \/ Enter(c, Raced(<<"parse">>))
DocumentToc(c) == Refuse(c) \/ Enter(c, Raced(<<"parse">>))
DocumentChunk(c) == Refuse(c) \/ Enter(c, Raced(<<"parse">>))
DocumentCompare(c) == Refuse(c) \/ Enter(c, Raced(<<"parse", "parse">>))
DocumentEmailExtract(c) == Refuse(c) \/ Enter(c, Raced(<<"parse", "parse">>))
DocumentArchiveExtract(c) == Refuse(c) \/ Enter(c, Raced(<<"parse", "parse">>))
DocumentResult(c) == Enter(c, Raced(<<"store">>))
\* Markdown is converted locally, without a race against the deadline.
DocumentConvert(c) ==
  \/ Refuse(c)
  \/ Enter(c, [NoCall EXCEPT !.plan = <<"parse">>])
  \/ Enter(c, Raced(<<"ocr">>))
\* A route is detected (a PDF's pages are read), then executed.
DocumentSmartParse(c) == Refuse(c) \/ \E route \in {"parse", "ocr"} : Enter(c, Raced(<<"parse", route>>))
\* The source, the parse, and an upgrade to OCR or to a model.
Upgrades == {<<"parse">>, <<"parse", "ocr">>}
DocumentParse(c) ==
  \/ \E plan \in Upgrades : Enter(c, Raced(plan))
  \/ \E plan \in Upgrades : Enter(c, Raced(<<"store">> \o plan))
  \/ \E plan \in Upgrades, docs \in BOOLEAN :
       Enter(c, [Raced(plan) EXCEPT !.fetch = [NoFetch EXCEPT !.render = "never", !.docs = docs]])

\* web_fetch, web_extract and parse hold their slot until the pipeline ends.
Renders == {"auto", "never", "always"}
Fetches(f) == [NoCall EXCEPT !.fetch = f]
WebFetch(c) ==
  \E render \in Renders, reader, docs, waits \in BOOLEAN :
    /\ waits => ~reader /\ ~docs
    /\ Enter(c, Fetches([render |-> render, reader |-> reader, docs |-> docs, waits |-> waits]))
WebExtract(c) == \E render \in Renders, waits \in BOOLEAN : Enter(c, Fetches([NoFetch EXCEPT !.render = render, !.waits = waits]))
Parse(c) ==
  \/ \E render \in Renders, waits \in BOOLEAN : Enter(c, Fetches([NoFetch EXCEPT !.render = render, !.waits = waits]))
  \/ Enter(c, NoCall)

-----------------------------------------------------------------------------
\* remaining(b) # 0, and tryConsume(b), which counts no further than the cap.
Room(b) == used[b] < Cap[b]
ConsumeAlways(b) == used' = [used EXCEPT ![b] = @ + 1]
Consume(b) == used' = [used EXCEPT ![b] = IF Room(b) THEN @ + 1 ELSE @]

\* A fetch of the pipeline over HTTP; a fetcher refuses an aborted signal at once.
HttpGets(c, q, stage) == (q.gone /\ OpEnds(c, q)) \/ (~q.gone /\ Awaits(c, q, stage))

\* browserFetch() up to its await; a backend refuses an aborted signal at once.
BrowserFetch(c, q) ==
  \/ ~Room("browserless") /\ OpEnds(c, q) /\ UNCHANGED used
  \/ Room("browserless") /\ q.gone /\ OpEnds(c, q) /\ UNCHANGED used
  \/ Room("browserless") /\ ~q.gone /\ Awaits(c, q, "browser") /\ UNCHANGED used
\* readerFetch() where canUseReader(), browserFetch() otherwise.
Hosted(c, q) ==
  \/ (~q.fetch.reader \/ ~Room("jina")) /\ BrowserFetch(c, q)
  \/ q.fetch.reader /\ Room("jina") /\ q.gone /\ OpEnds(c, q) /\ UNCHANGED used
  \/ q.fetch.reader /\ Room("jina") /\ ~q.gone /\ Awaits(c, q, "reader") /\ UNCHANGED used

\* The slot is there. withinDeadline() first looks at the time that is left.
Start(c) ==
  LET q == [call[c] EXCEPT !.phase = "running"] IN
  /\ call[c].phase = "granted"
  /\ \/ q.raced /\ Finish(c, Answered) /\ UNCHANGED used
     \/ q.fetch = NoFetch /\ OpNext(c, q) /\ UNCHANGED used
     \/ q.fetch.render = "always" /\ BrowserFetch(c, q)
     \/ /\ q.fetch.render \in {"auto", "never"} /\ UNCHANGED used
        /\ \E stage \in {"http"} \cup (IF q.fetch.docs THEN {"source"} ELSE {}) : HttpGets(c, q, stage)

Out(c, stage) == call[c].await = stage

\* resolveProactively(), and the resolver after a page over the byte limit.
SourceReturns(c, r) ==
  /\ Out(c, "source")
  /\ \/ r = "ok" /\ OpNext(c, call[c])
     \/ r = "nothing" /\ HttpGets(c, call[c], "http")
     \/ r = "error" /\ OpEnds(c, call[c])
  /\ UNCHANGED used
ManifestsReturn(c, r) ==
  /\ Out(c, "manifests")
  /\ \/ r = "ok" /\ OpNext(c, call[c])
     \/ r \in {"nothing", "error"} /\ OpEnds(c, call[c])
  /\ UNCHANGED used

\* The plain HTTP fetch and what follows it: a page, one that needs a browser, one
\* without the selected part, one over the limit, or a failure.
HttpReturns(c, r) ==
  LET q == call[c] IN
  LET auto == q.fetch.render = "auto" IN
  /\ Out(c, "http")
  /\ \/ r = "ok" /\ ~(auto /\ q.fetch.waits) /\ OpNext(c, q) /\ UNCHANGED used
     \/ r = "ok" /\ auto /\ q.fetch.waits /\ Hosted(c, q)
     \/ r = "thin" /\ auto /\ Hosted(c, q)
     \/ r = "thin" /\ ~auto /\ OpNext(c, q) /\ UNCHANGED used
     \/ r = "unselected" /\ auto /\ BrowserFetch(c, q)
     \/ r = "limit" /\ q.fetch.docs /\ HttpGets(c, q, "manifests") /\ UNCHANGED used
     \/ r = "retryable" /\ auto /\ Hosted(c, q)
     \/ /\ \/ r = "error" \/ (r \in {"unselected", "retryable"} /\ ~auto) \/ (r = "limit" /\ ~q.fetch.docs)
        /\ OpEnds(c, q) /\ UNCHANGED used

ReaderReturns(c, r) ==
  /\ Out(c, "reader")
  /\ \/ r = "ok" /\ OpNext(c, call[c]) /\ Consume("jina")
     \/ r = "retryable" /\ BrowserFetch(c, call[c])
     \/ r = "error" /\ OpEnds(c, call[c]) /\ UNCHANGED used
BrowserReturns(c, r) ==
  /\ Out(c, "browser")
  /\ \/ r = "ok" /\ OpNext(c, call[c]) /\ Consume("browserless")
     \/ r \in {"retryable", "error"} /\ OpEnds(c, call[c]) /\ UNCHANGED used

\* Any other await; the balance checks never fail.
OtherReturns(c, r) ==
  /\ call[c].await \in {"router", "balances", "parse", "ocr", "store"}
  /\ \/ r = "ok" /\ OpNext(c, call[c])
     \/ r = "error" /\ ~Out(c, "balances") /\ OpEnds(c, call[c])
  /\ UNCHANGED used

-----------------------------------------------------------------------------
\* The client's signal or the deadline's timer: a waiting call leaves the queue,
\* a raced one answers at once, any other only passes it on.
Stop(c) ==
  /\ call[c].phase \in {"queued", "running"} /\ ~call[c].gone
  /\ \/ /\ call[c].phase = "queued"
        /\ \E i \in DOMAIN queue : queue[i] = c /\ queue' = RemoveAt(queue, i)
        /\ UNCHANGED active
        /\ call' = [call EXCEPT ![c] = Answered]
     \/ /\ call[c].phase = "running" /\ call[c].raced
        /\ Finish(c, [call[c] EXCEPT !.phase = "done", !.gone = TRUE])
     \/ /\ call[c].phase = "running" /\ ~call[c].raced
        /\ call' = [call EXCEPT ![c].gone = TRUE] /\ UNCHANGED limiter
  /\ UNCHANGED used

Handlers(c) ==
  \/ WebSearch(c) \/ WebAnswer(c) \/ WebResearch(c) \/ WebContent(c) \/ WebMap(c) \/ WebCrawl(c) \/ WebNews(c)
  \/ WebImages(c) \/ PaperSearch(c) \/ WebExtractSchema(c) \/ ProviderBalance(c) \/ ProviderQuota(c)
  \/ DocumentOcr(c) \/ DocumentTranscribe(c) \/ DocumentTableExtract(c) \/ DocumentToc(c) \/ DocumentChunk(c)
  \/ DocumentCompare(c) \/ DocumentEmailExtract(c) \/ DocumentArchiveExtract(c) \/ DocumentResult(c)
  \/ DocumentConvert(c) \/ DocumentSmartParse(c) \/ DocumentParse(c) \/ WebFetch(c) \/ WebExtract(c) \/ Parse(c)
Results == {"ok", "thin", "unselected", "limit", "nothing", "retryable", "error"}
Returns(c) ==
  \E r \in Results : \/ SourceReturns(c, r) \/ ManifestsReturn(c, r) \/ HttpReturns(c, r)
                     \/ ReaderReturns(c, r) \/ BrowserReturns(c, r) \/ OtherReturns(c, r)

Next == \E c \in Calls : Handlers(c) \/ Start(c) \/ Returns(c) \/ Stop(c)

Spec == Init /\ [][Next]_vars

-----------------------------------------------------------------------------
\* However answers, cancellations and timeouts interleave, every slot that is
\* counted is held by one call, and there are never more than Limit.
SlotsAccounted == active = Cardinality(Holding) /\ active <= Limit

\* Nobody waits behind a free slot.
NoIdleSlot == queue # <<>> => active = Limit

\* Once its client has been answered, an operation that is still out begins no
\* further request of its own.
LeftoverStep ==
  \A c \in Calls : call[c].phase = "done" => call'[c].await \in {call[c].await, None}
=============================================================================
