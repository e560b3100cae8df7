---------------------------- MODULE McpEndpoints ----------------------------
(***************************************************************************)
(* The way of an MCP request to the research tasks: the checks of the      *)
(* Worker and its task handler at the edge (worker/tasks-runtime.ts), the  *)
(* checks of the Container's server (mcp/server.ts) and its task handlers  *)
(* (tools/async-research.ts), and what they answer from the task runtime   *)
(* with Linkup as its provider.                                            *)
(*                                                                         *)
(* One task is considered, that of one idempotency key.  A call of         *)
(* DurableMcpTaskRuntime changes its public state once, which is the       *)
(* subject of DurableMcpTasks, and is one step here; between two calls of  *)
(* one request anything may happen to the task.  A request is what its     *)
(* headers and its body say, each as "none" where nothing is said.         *)
(***************************************************************************)
EXTENDS Naturals

CONSTANTS
  Calls,           \* client calls
  Requests,        \* Requests[c]: what call c may send
  Deployments      \* edge: the Worker has D1 and a Linkup key; runtime: the Container has
                   \* a task runtime; mode: GROUNDLANE_MCP_PROTOCOL_MODE

VARIABLES
  deploy,   \* the deployment
  status,   \* the status of the task; "none" before a start
  kept,     \* the task's record has not expired
  call      \* call[c]: a client call

vars == <<deploy, status, kept, call>>

None == "none"
TaskMethods == {"tasks/get", "tasks/update", "tasks/cancel"}
FallbackTools == {"web_research_start", "web_research_status", "web_research_result", "web_research_cancel"}
Terminal == {"completed", "failed", "cancelled"}
NoRequest == [method |-> None]
\* shown and flag: the status and groundlanePollingCancelled that are answered;
\* did: the call changed the task, which only the properties read.
NoCall == [phase |-> "idle", q |-> NoRequest, door |-> None, step |-> 0, code |-> None, shown |-> None, flag |-> FALSE, did |-> FALSE]

\* The shape of the state: a call that is over was answered or abandoned.
TypeOK ==
  /\ deploy \in Deployments
  /\ status \in {None, "creating", "working"} \cup Terminal /\ kept \in BOOLEAN
  /\ \A c \in Calls :
       /\ call[c].phase \in {"idle", "edge", "container", "runtime", "creating", "describe", "over"}
       /\ call[c].phase = "over" <=> call[c].code # None
       /\ call[c].phase \in {"runtime", "creating", "describe"} => call[c].door # None

\* The task is yet to be started, or was started before.
Init == deploy \in Deployments /\ status \in {None, "working"} /\ kept = TRUE /\ call = [c \in Calls |-> NoCall]

-----------------------------------------------------------------------------
\* The SDK's classification: modern if _meta claims the version, a mismatch if the
\* headers say something else than the body.
ClassifyInboundRequest(q) ==
  IF "version" \notin q.meta THEN IF q.version = "modern" THEN "mismatch" ELSE "legacy"
  ELSE IF q.version = "legacy" \/ q.methodHeader \notin {None, q.method} THEN "mismatch"
  ELSE IF q.id THEN "modern" ELSE "notification"
\* missingRequestMetaVersion(): the handshake of legacy clients stays on the ladder.
MissingRequestMetaVersion(q) == q.version # None /\ q.id /\ q.method # "initialize" /\ "version" \notin q.meta
\* missingMetaCapabilities().
MissingMetaCapabilities(q) == q.id /\ "_meta" \in q.meta /\ "capabilities" \notin q.meta
\* Headers that are compared where both sides have them.
RoutingHeadersPresent(q) == ClassifyInboundRequest(q) # "mismatch" /\ q.nameHeader \in {None, q.name}
\* validateMcpRoutingHeaders(): a modern request repeats its method, and the tool or
\* the task it names, in its headers.
ValidateMcpRoutingHeaders(q) ==
  LET kind == ClassifyInboundRequest(q) IN
  /\ kind # "mismatch"
  /\ kind = "modern" => /\ q.version # None /\ q.methodHeader # None
                        /\ q.method \in TaskMethods \cup {"tools/call"} /\ q.name # None => q.nameHeader = q.name

-----------------------------------------------------------------------------
Over(c, code) == [call[c] EXCEPT !.phase = "over", !.code = code]
Answer(c, code) == call' = [call EXCEPT ![c] = Over(c, code)]
Run(c, door) == call' = [call EXCEPT ![c].phase = "runtime", ![c].door = door]

\* taskCapability() and hasTasksCapabilityInBody().
Capable(q) == "tasks" \in q.meta
\* The request schemas of the extension, and the pattern of its task ids.
RequestOK(q) == q.id /\ q.name # "other" /\ q.shape
\* A method of the extension, at either door.
TaskMethod(c, q, door) ==
  IF ~Capable(q) THEN Answer(c, "MissingRequiredClientCapability")
  ELSE IF ~RequestOK(q) THEN Answer(c, "InvalidParams") ELSE Run(c, door)

Receive(c, q) ==
  /\ call[c].phase = "idle"
  /\ call' = [call EXCEPT ![c].phase = "edge", ![c].q = q] /\ UNCHANGED <<deploy, status, kept>>

\* maybeHandleEdgeTasks(): which requests the edge handles.
EdgeTakes(q) == deploy.edge /\ (q.method \in TaskMethods \/ (q.method = "tools/call" /\ q.name \in FallbackTools))
\* validateMcpEdgeRequest(), and then the handler: what is no JSON is left to the
\* Container.
AtEdge(c) ==
  LET q == call[c].q IN
  /\ call[c].phase = "edge"
  /\ IF q.large THEN Answer(c, "InvalidRequest")
     ELSE IF q.json /\ ~ValidateMcpRoutingHeaders(q)
          THEN Answer(c, IF MissingRequestMetaVersion(q) THEN "InvalidParams" ELSE "HeaderMismatch")
     ELSE IF ~q.json \/ ~EdgeTakes(q) THEN call' = [call EXCEPT ![c].phase = "container"]
     ELSE IF q.method \in TaskMethods THEN TaskMethod(c, q, "edge")
     ELSE IF ~q.shape THEN Answer(c, "INVALID_INPUT") ELSE Run(c, "edge")
  /\ UNCHANGED <<deploy, status, kept>>

\* A tool that the SDK serves; its input schema is checked before its handler runs.
ServedTool(c, q) ==
  IF ~q.id \/ q.method \notin TaskMethods \cup {"tools/call"} THEN Answer(c, "served")
  ELSE IF q.method \in TaskMethods THEN Answer(c, "MethodNotFound")
  ELSE IF ~q.shape THEN Answer(c, "InvalidParams")
  ELSE IF ~deploy.runtime THEN Answer(c, "PROVIDER_UNAVAILABLE") ELSE Run(c, "tool")
\* createMcpHttpHandler(): the checks of the edge again, and by which handler the
\* request is served.
AtContainer(c) ==
  LET q == call[c].q
      legacy == ClassifyInboundRequest(q) = "legacy"
      start == q.method = "tools/call" /\ q.name = "web_research_start" /\ Capable(q)
  IN  /\ call[c].phase = "container"
      /\ IF ~q.json THEN Answer(c, "ParseError")
         ELSE IF legacy /\ deploy.mode # "modern-only" THEN ServedTool(c, q)
         ELSE IF legacy \/ deploy.mode = "legacy-only" THEN Answer(c, "UnsupportedProtocolVersion")
         ELSE IF MissingRequestMetaVersion(q) THEN Answer(c, "InvalidParams")
         ELSE IF ~ValidateMcpRoutingHeaders(q) THEN Answer(c, "HeaderMismatch")
         ELSE IF MissingMetaCapabilities(q) THEN Answer(c, "InvalidParams")
         ELSE IF deploy.runtime /\ q.method \in TaskMethods THEN TaskMethod(c, q, "extension")
         ELSE IF deploy.runtime /\ start THEN IF q.shape THEN Run(c, "extension") ELSE Answer(c, "InvalidParams")
         ELSE ServedTool(c, q)
      /\ UNCHANGED <<deploy, status, kept>>

-----------------------------------------------------------------------------
\* What a failure is answered with: the extension withholds all but a wrong input,
\* a tool answers the code.
Fails(c, code) ==
  IF call[c].q.method \notin TaskMethods /\ call[c].door # "extension" THEN Answer(c, code)
  ELSE Answer(c, IF code \in {"INVALID_INPUT", "DEADLINE_EXCEEDED"} THEN "InvalidParams" ELSE "InternalError")
Live == status # None /\ kept
\* toDetailed().
Public(s) == IF s = "creating" THEN "working" ELSE s
Task(s) == status' = s /\ UNCHANGED <<deploy, kept>>

\* LinkupResearchProvider.pollTask(), wrapped by createLinkupResearchTaskProvider():
\* a completed research without an output or a report is malformed.
PollTask(raw) ==
  CASE raw = "failed" -> "failed" [] raw \in {"malformed", "unreachable"} -> "failed"
    [] raw = "completed" -> "completed" [] OTHER -> "working"
Raws == {"failed", "malformed", "unreachable", "completed", "running"}

\* runtime.get(): the status it returns. A task is polled when that is due.
Get(s) ==
  /\ Live
  /\ \/ status \in Terminal /\ s = status
     \/ status = "creating" /\ s = "failed"
     \/ status = "working" /\ \E raw \in Raws \cup {"not due"} : s = PollTask(raw)
  /\ Task(s)
\* It fails: the task is unknown, the client aborts the poll, or the result is too
\* large to be kept.
GetFails(c) ==
  /\ \/ ~Live /\ Fails(c, "INVALID_INPUT")
     \/ Live /\ status = "working" /\ \E code \in {"CANCELLED", "DEADLINE_EXCEEDED", "INVALID_INPUT"} : Fails(c, code)
  /\ UNCHANGED <<deploy, status, kept>>

Op(c) == IF call[c].q.method \in TaskMethods THEN call[c].q.method ELSE call[c].q.name
TasksGet(c) ==
  /\ call[c].phase = "runtime" /\ Op(c) = "tasks/get"
  /\ \/ \E s \in {"working"} \cup Terminal :
          Get(s) /\ call' = [call EXCEPT ![c] = [Over(c, "ok") EXCEPT !.shown = s, !.did = s # status]]
     \/ GetFails(c)

\* runtime.describe(): the task first and then its flags, in two reads.
DescribeFlagsFirst == <<"read", "get">>
Describe == <<"get", "read">>
\* Its two halves, for the tools that answer the status, the result or a cancel.
DescribeStep(c) ==
  LET k == call[c].step
      next(d) == IF k = 1 THEN [d EXCEPT !.step = 2] ELSE [d EXCEPT !.phase = "over", !.code = "ok"]
  IN  /\ call[c].phase = "describe"
      /\ \/ /\ Describe[k] = "get"
            /\ \/ \E s \in {"working"} \cup Terminal :
                    Get(s) /\ call' = [call EXCEPT ![c] = next([call[c] EXCEPT !.shown = s, !.did = call[c].did \/ s # status])]
               \/ GetFails(c)
         \/ /\ Describe[k] = "read"
            /\ IF Live THEN call' = [call EXCEPT ![c] = next([@ EXCEPT !.flag = (status = "cancelled")])]
               ELSE Fails(c, "INVALID_INPUT")
            /\ UNCHANGED <<deploy, status, kept>>
ToDescribe(c) == [call[c] EXCEPT !.phase = "describe", !.step = 1]
StatusOrResult(c) ==
  /\ call[c].phase = "runtime" /\ Op(c) \in {"web_research_status", "web_research_result"}
  /\ call' = [call EXCEPT ![c] = ToDescribe(c)] /\ UNCHANGED <<deploy, status, kept>>

\* runtime.update(): Linkup asks nothing, so no task waits for input.
TasksUpdate(c) ==
  /\ call[c].phase = "runtime" /\ Op(c) = "tasks/update"
  /\ Fails(c, "INVALID_INPUT") /\ UNCHANGED <<deploy, status, kept>>

\* runtime.cancel(): it takes effect, or loses to another write and says nothing.
\* The tool then describes the task.
Cancel(c, wins) ==
  /\ call[c].phase = "runtime" /\ Op(c) \in {"tasks/cancel", "web_research_cancel"}
  /\ IF ~Live \/ status \in Terminal \ {"cancelled"} THEN Fails(c, "INVALID_INPUT") /\ UNCHANGED <<deploy, status, kept>>
     ELSE /\ Task(IF wins THEN "cancelled" ELSE status)
          /\ LET d == IF Op(c) = "tasks/cancel" THEN Over(c, "ok") ELSE ToDescribe(c)
             IN  call' = [call EXCEPT ![c] = [d EXCEPT !.did = wins /\ status # "cancelled"]]

\* The answer to a start: a client of the extension gets a task handle, whose schema
\* has no place for the result or the error of a task that has ended.
Started(c, s, did) ==
  LET d == [Over(c, "ok") EXCEPT !.shown = Public(s), !.did = did] IN
  call' = [call EXCEPT ![c] =
    IF Capable(call[c].q) /\ s \in {"completed", "failed"} /\ call[c].door \in {"edge", "extension"}
    THEN [d EXCEPT !.shown = None, !.code = IF call[c].door = "edge" THEN "INVALID_INPUT" ELSE "InvalidParams"] ELSE d]
\* runtime.start(): a task that is there is shown, one that is still being created is
\* failed. After the task has expired a start begins another, which is not considered.
Start(c) ==
  /\ call[c].phase = "runtime" /\ Op(c) = "web_research_start"
  /\ kept
  /\ IF status = None THEN Task("creating") /\ call' = [call EXCEPT ![c].phase = "creating", ![c].did = TRUE]
     ELSE LET s == IF status = "creating" THEN "failed" ELSE status
          IN  Task(s) /\ Started(c, s, s # status)
\* LinkupResearchProvider.createTask() answers a task id, or something malformed, or
\* fails; the task is worked on unless it was failed or cancelled meanwhile.
CreateTask(c, ok) ==
  /\ call[c].phase = "creating"
  /\ IF ~kept THEN Fails(c, "INVALID_INPUT") /\ UNCHANGED <<deploy, status, kept>>
     ELSE LET s == IF status # "creating" THEN status ELSE IF ok THEN "working" ELSE "failed"
          IN  Task(s) /\ Started(c, s, TRUE)

\* The record expires; a process ends, and with it what it was doing for a call.
Expire == status # None /\ kept /\ kept' = FALSE /\ UNCHANGED <<deploy, status, call>>
Abandon(c) == call[c].phase \notin {"idle", "over"} /\ Answer(c, "abandoned") /\ UNCHANGED <<deploy, status, kept>>

Next ==
  \/ \E c \in Calls :
       \/ \E q \in Requests[c] : Receive(c, q)
       \/ AtEdge(c) \/ AtContainer(c) \/ Abandon(c)
       \/ TasksGet(c) \/ StatusOrResult(c) \/ DescribeStep(c) \/ TasksUpdate(c)
       \/ \E wins \in BOOLEAN : Cancel(c, wins)
       \/ Start(c) \/ \E ok \in BOOLEAN : CreateTask(c, ok)
  \/ Expire

Spec == Init /\ [][Next]_vars

-----------------------------------------------------------------------------
\* What is answered is true when it arrives, though a status and its flags are read
\* apart and other calls act between them: an ended status that was shown stays the
\* task's; one shown as cancelled comes with the flag that says polling stopped; and
\* a method of the extension that is answered InvalidParams changed nothing.
AnswersAreTrue ==
  \A c \in Calls :
    LET a == call[c] IN
    /\ a.shown \in Terminal => status = a.shown
    /\ a.code = "ok" /\ a.shown = "cancelled" /\ a.step > 0 => a.flag
    /\ a.code = "InvalidParams" /\ a.q.method \in TaskMethods => ~a.did

\* A request that claims the modern protocol reaches a task, by whichever door, only
\* if its headers name the method and the target its body names, by which the edge
\* and what stands before it have judged it.
TargetsAgree ==
  \A c \in Calls :
    LET q == call[c].q IN
    call[c].door # None /\ ClassifyInboundRequest(q) = "modern" =>
      q.methodHeader = q.method /\ q.nameHeader = q.name /\ q.version = "modern"
=============================================================================
