--------------------------- MODULE ProviderRouting ---------------------------
(***************************************************************************)
(* The provider-backed tools of one process: SearchRouter                  *)
(* (core/search-router.ts), the answer, research, content, map, crawl,     *)
(* news and images routers, the attempt budgets they share                 *)
(* (core/search-budget.ts) and the circuit breaker of search               *)
(* (core/provider-health.ts).                                              *)
(*                                                                         *)
(* The process has one thread: what a request does between two awaits is   *)
(* one step. Providers answer in any order, and a caller may abort.        *)
(***************************************************************************)
EXTENDS Integers, Sequences, FiniteSets, FiniteSetsExt, Functions

CONSTANTS
  Providers,  \* provider ids
  Family,     \* Family[p]: its retrieval family
  Order,      \* the configured order
  Tool,       \* Tool[t]: the providers that router t knows and that support the request
  Monthly, Daily, Minute, \* caps; a provider outside the domain has none
  DayTicks, MonthTicks, Window, Cooldown, \* lengths, in ticks of the clock
  Threshold,  \* circuitThreshold: failures in a row that open the circuit
  Before,     \* Before[p]: failures in a row, below Threshold, of calls made earlier
  Requests,   \* calls of a tool
  Kinds,      \* Kinds[r]: the tools that call r may be of
  MaxNow      \* bound: the last reading of the clock

VARIABLES
  now,
  monthly, daily, \* [period, used]: the counters of one calendar period
  stamps,         \* stamps[p]: the last attempts, each with its time and its place in log
  circuit,        \* circuit[p]: consecutive failures, and until when it is open
  req,            \* req[r]: what each call is doing
  log,            \* history: log[p], the times at which p was dispatched
  errors          \* history: errors[p], failures of p since its last success

vars == <<now, monthly, daily, stamps, circuit, req, log, errors>>
budgets == <<monthly, daily, stamps, log>>
health == <<circuit, errors>>

None == "none"
Searches == {"fallback", "balanced", "deep"}
NoRequest == [kind |-> None, explicit |-> FALSE, selected |-> {}, list |-> {}, wait |-> {}, late |-> {},
              attempted |-> {}, over |-> {}, ok |-> {}, aborted |-> FALSE, one |-> FALSE, end |-> None]

\* The shape of the state; a call waits only for providers it has dispatched.
TypeOK ==
  /\ now \in 0..MaxNow
  /\ \A b \in {monthly, daily} : b.period \in Nat /\ b.used \in [Providers -> Nat]
  /\ \A p \in Providers : stamps[p] \subseteq (0..MaxNow) \X Nat /\ circuit[p] \in [n: Nat, until: Nat]
  /\ \A r \in Requests : req[r].wait \subseteq req[r].attempted /\ req[r].ok \subseteq req[r].attempted \ req[r].wait

Init ==
  /\ now = 0 /\ monthly = [period |-> 0, used |-> [p \in Providers |-> 0]] /\ daily = monthly
  /\ stamps = [p \in Providers |-> {}] /\ log = [p \in Providers |-> <<>>]
  /\ circuit = [p \in Providers |-> [n |-> Before[p], until |-> 0]]
  /\ errors = Before
  /\ req = [r \in Requests |-> NoRequest]

-----------------------------------------------------------------------------
\* resetIfNeeded(): a counter of an earlier period counts nothing.
Used(b, period, p) == IF b.period = period THEN b.used[p] ELSE 0
Month == now \div MonthTicks
Day == now \div DayTicks
\* prune(): the stamps inside the window.
Recent(p) == {s \in stamps[p] : s[1] > now - Window}

\* CompositeSearchBudget.remaining(): every tracker that limits p has some left.
Available(p) ==
  /\ p \in DOMAIN Monthly => Used(monthly, Month, p) < Monthly[p]
  /\ p \in DOMAIN Daily => Used(daily, Day, p) < Daily[p]
  /\ p \in DOMAIN Minute => Cardinality(Recent(p)) < Minute[p]

Counted(b, period, ps, caps) ==
  [period |-> period, used |-> [p \in Providers |-> Used(b, period, p) + (IF p \in ps \cap DOMAIN caps THEN 1 ELSE 0)]]

\* tryConsume() of a composite that stops at its first tracker.
ConsumeFirst(ps) ==
  /\ monthly' = Counted(monthly, Month, ps, Monthly) /\ UNCHANGED <<daily, stamps>>
  /\ log' = [p \in Providers |-> IF p \in ps THEN Append(log[p], now) ELSE log[p]]
\* tryConsume() by each of ps, in every tracker.
Consume(ps) ==
  /\ monthly' = Counted(monthly, Month, ps, Monthly)
  /\ daily' = Counted(daily, Day, ps, Daily)
  /\ stamps' = [p \in Providers |-> IF p \in ps \cap DOMAIN Minute THEN Recent(p) \cup {<<now, Len(log[p]) + 1>>} ELSE stamps[p]]
  /\ log' = [p \in Providers |-> IF p \in ps THEN Append(log[p], now) ELSE log[p]]

-----------------------------------------------------------------------------
\* isHealthy().
Healthy(p) == circuit[p].n < Threshold \/ now >= circuit[p].until

RecordSuccess(p) ==
  /\ circuit' = [circuit EXCEPT ![p] = [n |-> 0, until |-> 0]]
  /\ errors' = [errors EXCEPT ![p] = 0]
\* recordFailure(): a circuit whose cooldown is over opens again at once. The
\* count is only compared with the threshold, so it stops there.
RecordFailure(p) ==
  LET again == circuit[p].until > 0 /\ now >= circuit[p].until
      n == IF again THEN Threshold ELSE Min({circuit[p].n + 1, Threshold})
  IN /\ circuit' = [circuit EXCEPT ![p] = [n |-> n, until |-> IF n >= Threshold THEN now + Cooldown ELSE @.until]]
     /\ errors' = [errors EXCEPT ![p] = Min({@ + 1, Threshold})]

-----------------------------------------------------------------------------
\* The candidates of a request are kept as a set, in the order of Order.
Pos(p) == CHOOSE i \in DOMAIN Order : Order[i] = p
\* selectSearchProviders(): at most limit, one of each family before a second.
Select(list, limit) ==
  LET first(p) == \A o \in list : Pos(o) < Pos(p) => Family[o] # Family[p]
      before(o, p) == (first(o) /\ ~first(p)) \/ (first(o) = first(p) /\ Pos(o) < Pos(p))
  IN {p \in list : Cardinality({o \in list : before(o, p)}) < limit}

\* The for loop of the routers' fallbacks, up to its next await: providers over
\* their budget are passed over, the first other one is dispatched.
Fallback(r, q, list) ==
  LET turns == {p \in list : Available(p)} IN
  IF turns = {}
  THEN /\ req' = [req EXCEPT ![r] = [q EXCEPT !.list = {}, !.over = q.over \cup list,
                                             !.end = IF q.one /\ list # {} THEN "exhausted" ELSE "unavailable"]]
       /\ UNCHANGED budgets
  ELSE LET turn == CHOOSE p \in turns : \A o \in turns \ {p} : Pos(p) <= Pos(o)
           passed == {p \in list : Pos(p) < Pos(turn)}
       IN  /\ Consume({turn})
           /\ req' = [req EXCEPT ![r] = [q EXCEPT !.list = list \ (passed \cup {turn}), !.wait = {turn},
                                                 !.late = IF q.aborted THEN {turn} ELSE {},
                                                 !.attempted = q.attempted \cup {turn}, !.over = q.over \cup passed]]

\* One Promise.all: every member that its budget allows is dispatched.
Batch(r, q, batch) ==
  LET sent == {p \in batch : Available(p)} IN
  /\ Consume(sent)
  /\ req' = [req EXCEPT ![r] = [q EXCEPT !.list = q.list \ batch, !.wait = sent,
                                         !.late = IF q.aborted THEN sent ELSE {},
                                         !.attempted = q.attempted \cup sent, !.over = q.over \cup (batch \ sent)]]

BatchLimit(kind) == IF kind = "balanced" THEN 2 ELSE 3

\* search(): the candidates that are known, healthy and within budget.
Search(r, kind, candidates, explicit) ==
  LET list == {p \in candidates : Healthy(p) /\ Available(p) /\ p \in Tool["search"]}
      q == [NoRequest EXCEPT !.kind = IF explicit THEN "fallback" ELSE kind, !.explicit = explicit, !.list = list,
                             !.selected = list, !.one = Cardinality(list) = 1]
  IN /\ req[r].kind = None /\ "search" \in Kinds[r]
     /\ \/ /\ list = {}
           /\ req' = [req EXCEPT ![r] = [q EXCEPT !.end = IF explicit /\ \A p \in candidates : ~Available(p)
                                                         THEN "exhausted" ELSE "unavailable"]]
           /\ UNCHANGED budgets
        \/ list # {} /\ q.kind = "fallback" /\ Fallback(r, q, list)
        \/ list # {} /\ q.kind # "fallback" /\ Batch(r, q, Select(list, BatchLimit(kind)))
     /\ UNCHANGED <<now, health>>

\* The other routers: no health, and every provider at once unless the request
\* asks for a fallback or names its provider.
Route(r, tool, parallel, candidates) ==
  LET list == candidates \cap Tool[tool]
      q == [NoRequest EXCEPT !.kind = IF parallel THEN "parallel" ELSE "sequence", !.list = list,
                             !.selected = list, !.one = Cardinality(list) = 1]
  IN /\ req[r].kind = None /\ tool \in Kinds[r]
     /\ \/ list = {} /\ req' = [req EXCEPT ![r] = [q EXCEPT !.end = "unavailable"]] /\ UNCHANGED budgets
        \/ list # {} /\ parallel /\ Batch(r, q, list)
        \/ list # {} /\ ~parallel /\ Fallback(r, q, list)
     /\ UNCHANGED <<now, health>>
Answer(r, parallel, candidates) == Route(r, "web_answer", parallel, candidates)
Research(r, parallel, candidates) == Route(r, "web_research", parallel, candidates)
FetchContent(r, parallel, candidates) == Route(r, "web_content", parallel, candidates)
MapSite(r, parallel, candidates) == Route(r, "web_map", parallel, candidates)
Crawl(r, parallel, candidates) == Route(r, "web_crawl", parallel, candidates)
News(r, parallel, candidates) == Route(r, "web_news", parallel, candidates)
Images(r, parallel, candidates) == Route(r, "web_images", parallel, candidates)

-----------------------------------------------------------------------------
IsBatch(q) == q.kind \in {"balanced", "deep", "parallel"}
Running(r) == req[r].kind # None /\ req[r].end = None

\* The provider answers. An error of a fallback ends the call or moves it on.
Succeeds(r, p) ==
  /\ Running(r) /\ p \in req[r].wait \ req[r].late
  /\ req' = [req EXCEPT ![r].wait = @ \ {p}, ![r].ok = @ \cup {p},
                        ![r].end = IF IsBatch(req[r]) THEN None ELSE "ok"]
  /\ IF req[r].kind \in Searches THEN RecordSuccess(p) ELSE UNCHANGED health
  /\ UNCHANGED <<now, budgets>>
Fails(r, p, retryable) ==
  LET q == [req[r] EXCEPT !.wait = @ \ {p}]
      throws == \/ q.kind = "fallback" /\ (q.explicit \/ (q.one /\ ~retryable))
                \/ q.kind = "sequence" /\ (q.one \/ ~retryable)
  IN /\ Running(r) /\ p \in req[r].wait
     /\ \/ IsBatch(q) /\ req' = [req EXCEPT ![r] = q] /\ UNCHANGED budgets
        \/ ~IsBatch(q) /\ throws /\ req' = [req EXCEPT ![r] = [q EXCEPT !.end = "error"]] /\ UNCHANGED budgets
        \/ ~IsBatch(q) /\ ~throws /\ Fallback(r, q, q.list)
     /\ IF q.kind \in Searches THEN RecordFailure(p) ELSE UNCHANGED health
     /\ UNCHANGED now

\* An EndBatch that gives up with the first batch.
EndFirstBatch(r) ==
  LET q == req[r] IN
  /\ Running(r) /\ IsBatch(q) /\ q.wait = {}
  /\ req' = [req EXCEPT ![r].end = IF q.aborted THEN "cancelled" ELSE IF q.ok # {} THEN "ok" ELSE "unavailable"]
  /\ UNCHANGED <<now, budgets, health>>
\* After the Promise.all: an abort wins, then any success; a search without one
\* goes on to its next batch.
EndBatch(r) ==
  LET q == req[r]
      ends(end) == req' = [req EXCEPT ![r].end = end] /\ UNCHANGED budgets
  IN /\ Running(r) /\ IsBatch(q) /\ q.wait = {}
     /\ \/ q.aborted /\ ends("cancelled")
        \/ ~q.aborted /\ q.ok # {} /\ ends("ok")
        \/ ~q.aborted /\ q.ok = {} /\ q.list = {} /\ ends("unavailable")
        \/ ~q.aborted /\ q.ok = {} /\ q.list # {} /\ Batch(r, q, Select(q.list, BatchLimit(q.kind)))
     /\ UNCHANGED <<now, health>>

\* The caller's signal, or the request's deadline.
Abort(r) ==
  /\ Running(r) /\ ~req[r].aborted
  /\ req' = [req EXCEPT ![r].aborted = TRUE]
  /\ UNCHANGED <<now, budgets, health>>

Tick == now < MaxNow /\ now' = now + 1 /\ UNCHANGED <<monthly, daily, stamps, circuit, req, log, errors>>

\* An explicit provider, or the configured order.
Candidates == {Range(Order)} \cup {{p} : p \in Providers}
RouteAny(r) ==
  \E candidates \in Candidates, parallel \in BOOLEAN :
    /\ Cardinality(candidates) = 1 => ~parallel
    /\ \/ Answer(r, parallel, candidates) \/ Research(r, parallel, candidates) \/ FetchContent(r, parallel, candidates)
       \/ MapSite(r, parallel, candidates) \/ Crawl(r, parallel, candidates) \/ News(r, parallel, candidates)
       \/ Images(r, parallel, candidates)

Next ==
  \/ \E r \in Requests :
       \/ \E kind \in Searches : Search(r, kind, Range(Order), FALSE)
       \/ \E p \in Providers : Search(r, "fallback", {p}, TRUE)
       \/ RouteAny(r) \/ EndBatch(r) \/ Abort(r)
       \/ \E p \in Providers : Succeeds(r, p) \/ \E retryable \in BOOLEAN : Fails(r, p, retryable)
  \/ Tick

Spec == Init /\ [][Next]_vars

-----------------------------------------------------------------------------
\* However calls interleave and periods change under them, no provider is
\* dispatched more often than its caps allow, in any calendar period and in any
\* window of a minute.
Dispatched(p, times) == Cardinality({i \in DOMAIN log[p] : log[p][i] \in times})
WithinCaps ==
  \A p \in Providers :
    /\ p \in DOMAIN Monthly => \A m \in 0..Month : Dispatched(p, {t \in 0..now : t \div MonthTicks = m}) <= Monthly[p]
    /\ p \in DOMAIN Daily => \A d \in 0..Day : Dispatched(p, {t \in 0..now : t \div DayTicks = d}) <= Daily[p]
    /\ p \in DOMAIN Minute => \A t \in 0..now : Dispatched(p, t..(t + Window - 1)) <= Minute[p]

\* A call that ends because no provider was available has tried each one it
\* selected, or found it over its budget when its turn came.
GaveUpAfterAll ==
  \A r \in Requests : req[r].end \in {"unavailable", "exhausted"} =>
    req[r].selected = req[r].attempted \cup req[r].over /\ req[r].ok = {}

\* A provider that is being skipped has failed at least Threshold times since it
\* last succeeded, though calls begun before the circuit opened still report.
OpenHasFailures == \A p \in Providers : ~Healthy(p) => errors[p] >= Threshold
=============================================================================
