---------------------------- MODULE MCRequests ------------------------------
(***************************************************************************)
(* An instance for TLC of what a request to the server runs through.       *)
(***************************************************************************)
EXTENDS RequestParts, TLC

\* Three calls for two slots and one place in the queue.
Symmetry == Permutations(Calls)
Caps == [b \in Backends |-> 1]

\* Well-formed requests to the research tasks, modern and legacy, and such as depart
\* from them in one point.
Body(m, n) ==
  [method |-> m, name |-> n, methodHeader |-> m, nameHeader |-> n, version |-> "modern",
   meta |-> {"_meta", "version", "capabilities", "tasks"}, id |-> TRUE, json |-> TRUE, large |-> FALSE, shape |-> TRUE]
Legacy(q) == [q EXCEPT !.methodHeader = "none", !.nameHeader = "none", !.version = "none", !.meta = {}]
WellFormed ==
  {Body(m, "task") : m \in {"tasks/get", "tasks/update", "tasks/cancel"}}
    \cup {Body("tools/call", n) : n \in {"web_research_start", "web_research_status", "web_research_cancel"}}
    \cup {Legacy(Body("tools/call", n)) : n \in {"web_research_start", "web_research_result"}}
Departing(q) ==
  {[q EXCEPT !.nameHeader = n] : n \in {"none", "other"}} \cup {[q EXCEPT !.methodHeader = m] : m \in {"none", "tools/list"}}
    \cup {[q EXCEPT !.version = v] : v \in {"none", "legacy"}}
    \cup {[q EXCEPT !.meta = m] : m \in {{"_meta"}, {"_meta", "version"}, {"_meta", "version", "capabilities"}}}
    \cup {[q EXCEPT !.id = FALSE], [q EXCEPT !.json = FALSE], [q EXCEPT !.large = TRUE], [q EXCEPT !.shape = FALSE]}
    \cup {Legacy(q), [Legacy(q) EXCEPT !.shape = FALSE], [Legacy(q) EXCEPT !.meta = {"_meta", "capabilities", "tasks"}]}
Others == {Body("tasks/get", "other"), Legacy(Body("initialize", "none")), [Legacy(Body("initialize", "none")) EXCEPT !.version = "modern"]}
RequestSets ==
  <<WellFormed \cup Departing(Body("tasks/get", "task")) \cup Departing(Body("tools/call", "web_research_start")) \cup Others, WellFormed>>
Deployed(edge, runtime, mode) == [edge |-> edge, runtime |-> runtime, mode |-> mode]
DeploymentSet ==
  {Deployed(TRUE, FALSE, "dual"), Deployed(FALSE, TRUE, "dual"), Deployed(FALSE, TRUE, "modern-only"), Deployed(FALSE, FALSE, "legacy-only")}

\* Three providers, two of one family; one has daily and monthly caps and has
\* just failed, another a cap by the minute.
Tools == {"search", "web_answer", "web_research", "web_content", "web_map", "web_crawl", "web_news", "web_images"}
Families == [p \in Providers |-> IF p = "brave" THEN "own" ELSE "google"]
ListedOrder == <<"serper", "serpapi", "brave">>
Supporting == [t \in Tools |-> IF t = "web_crawl" THEN {} ELSE Providers]
MonthlyCaps == [p \in {"serper"} |-> 3]
DailyCaps == [p \in {"serper"} |-> 2]
MinuteCaps == [p \in {"brave"} |-> 1]
FailedBefore == [p \in Providers |-> IF p = "serper" THEN 1 ELSE 0]
KindsAsked == [r \in Asks |-> IF r = 1 THEN {"search"} ELSE Tools]

\* Schemas of two and three fields, and such as are refused each for one reason.
Def(n, t, q, i) == [name |-> n, type |-> t, required |-> q, items |-> i]
Defs(n) ==
  {Def(n, "string", "none", "none"), Def(n, "number", "yes", "none"), Def(n, "url", "none", "none"), Def(n, "date", "none", "none"),
   Def(n, "array", "none", "string")}
WrongDefs ==
  {Def(0, "string", "none", "none"), Def(1, "object", "none", "none"), Def(1, "string", "bad", "none"),
   Def(1, "array", "none", "array"), Def(1, "array", "none", "none")}
Raw(object, ref, properties) == [object |-> object, ref |-> ref, properties |-> properties]
SchemaSet ==
  {Raw(TRUE, FALSE, <<d>>) : d \in WrongDefs} \cup {Raw(TRUE, FALSE, <<>>), Raw(FALSE, FALSE, <<>>), Raw(TRUE, TRUE, <<Def(1, "string", "none", "none")>>)}
    \cup {Raw(TRUE, FALSE, <<d, e>>) : d \in Defs(2), e \in Defs(1)}
    \cup {Raw(TRUE, FALSE, <<d, e, f>>) : d \in Defs(3), e \in Defs(2), f \in Defs(1)}
\* What a provider may return for a field: texts of one and of two units a character.
Word(n, wide, form) == [kind |-> "string", chars |-> n, wide |-> wide, form |-> form]
List(items) == [kind |-> "array", items |-> items]
Short == Word(1, FALSE, "plain")
ValueSet ==
  {[kind |-> "null"], [kind |-> "number"], Word(1, FALSE, "url"), Word(1, TRUE, "date"), Word(2, TRUE, "url"), Word(3, FALSE, "date"),
   List(<<Short, Word(2, FALSE, "plain")>>), List(<<[kind |-> "number"]>>), List(<<Short, Short, Short>>)}
LimitSet == [fields |-> 2, depth |-> 4, properties |-> 9, items |-> 2, string |-> 2, output |-> 6, warnings |-> 1, warningChars |-> 1]
CeilingSet == [LimitSet EXCEPT !.fields = 3]
OverrideSet == {<<>>, [fields |-> 0], [fields |-> 4]}
Entry(repeatability, accuracy) == [repeatability |-> repeatability, accuracy |-> accuracy, latency |-> 1]
Report(entries) == [exists |-> TRUE, entries |-> entries]
ReportSet ==
  {[exists |-> FALSE], Report(<<>>), Report(<<Entry(11, 9)>>), Report(<<Entry(9, 9)>>), Report(<<Entry(9, 9), Entry(9, 8)>>),
   Report(<<Entry(9, 9), Entry(9, 9)>>)}
ThresholdSet == [entries |-> 2, repeatability |-> 9, accuracy |-> 9, latency |-> 1]
ProviderList == <<[id |-> "a", configured |-> TRUE], [id |-> "b", configured |-> FALSE]>>
ExtractionSet ==
  {[providerBacked |-> o, timeoutOK |-> t, provider |-> p, caps |-> c] : o \in BOOLEAN, t \in BOOLEAN, p \in {"none", "a", "b", "c"},
     c \in {[given |-> FALSE], [given |-> TRUE, output |-> 6, string |-> 1], [given |-> TRUE, output |-> 7, string |-> 1]}}
BillingSet == {-1, 0, 1}
WarningSet == {<<>>, <<[kind |-> "number"], Word(0, FALSE, "plain"), Word(2, FALSE, "plain"), Short>>}
=============================================================================
