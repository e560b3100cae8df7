---------------------------- MODULE RequestParts ----------------------------
(***************************************************************************)
(* What a request to the server runs through, side by side: the tool       *)
(* handlers with their slots and deadlines (extended here), the doors of   *)
(* the MCP endpoint, the routers that choose providers and the extraction  *)
(* by a schema.  They share no state, so a behaviour is one of one of      *)
(* them, named by part; the variables of the others stay at 0.             *)
(***************************************************************************)
EXTENDS ToolCalls

CONSTANTS
  Clients, Requests, Deployments,  \* McpEndpoints
  Providers, Family, Order, Tool, Monthly, Daily, Minute, \* ProviderRouting
  DayTicks, MonthTicks, Window, Cooldown, Threshold, Before, Asks, Kinds, MaxNow,
  Defaults, Ceilings, Overrides, Reports, Thresholds, Registered, DefaultProvider, \* SchemaExtraction
  Extractions, Schemas, Values, Billings, Warnings, MaxScanNodes, MaxUrlUnits, MaxDateUnits, MaxToolOutput

VARIABLES
  part,
  deploy, status, kept, asked,
  now, monthly, daily, stamps, circuit, req, log, errors,
  reached, stopped, wanted, parsed, envelope, told

Endpoints == INSTANCE McpEndpoints WITH Calls <- Clients, call <- asked
Routing == INSTANCE ProviderRouting WITH Requests <- Asks
Schema == INSTANCE SchemaExtraction WITH
  Providers <- Registered, Requests <- Extractions,
  stage <- reached, signal <- stopped, req <- wanted, plan <- parsed, answer <- envelope, result <- told

-----------------------------------------------------------------------------
\* Requests: the version is one of two or not given, and a body that names no task and
\* no tool has not the shape that the schemas of the task methods and of a tool call
\* ask for.
Sent == UNION {Requests[c] : c \in Clients}
RequestsSound ==
  \A q \in Sent :
    /\ q.version \in {Endpoints!None, "modern", "legacy"}
    /\ q.name = Endpoints!None /\ q.method \in Endpoints!TaskMethods \cup {"tools/call"} => ~q.shape

\* Routing: the lengths of the periods and the caps are numbers, an open circuit needs a
\* failure, and no provider has failed so often before the first call.
RoutingNumbers ==
  /\ DayTicks \in Nat \ {0} /\ MonthTicks \in Nat \ {0} /\ Window \in Nat
  /\ Cooldown \in Nat /\ Threshold \in Nat /\ MaxNow \in Nat
  /\ \A p \in DOMAIN Monthly : Monthly[p] \in Nat
  /\ \A p \in DOMAIN Daily : Daily[p] \in Nat
  /\ \A p \in DOMAIN Minute : Minute[p] \in Nat
  /\ Before \in [Providers -> Nat] /\ \A p \in Providers : Before[p] < Threshold
  /\ Order \in Seq(Providers)

\* What a provider may return for a field: a text, a value of another type, or a list of
\* such values. Lists within a list are refused unseen.
Text == [kind : {"string"}, chars : Nat, wide : BOOLEAN, form : {"plain", "url", "date"}]
Items == Text \cup [kind : {"null", "number", "boolean", "object", "array"}]
Lists == [kind : {"array"}, items : Seq(Items)]
Returned == Text \cup [kind : {"null", "number", "boolean", "object"}] \cup Lists

\* Extraction: the deployment limits the length of texts, the registered providers are a
\* list, schemas are lists of fields, and providers return such values.
ExtractionShapes ==
  /\ "string" \in DOMAIN Defaults
  /\ Len(Registered) \in Nat /\ DOMAIN Registered = 1..Len(Registered)
  /\ \A raw \in Schemas : raw.properties \in Seq(Schema!ToSet(raw.properties))
  /\ Values \in SUBSET Returned

ASSUME PartsAssumption == RequestsSound /\ RoutingNumbers /\ ExtractionShapes

-----------------------------------------------------------------------------
endpointVars == <<deploy, status, kept, asked>>
routingVars == <<now, monthly, daily, stamps, circuit, req, log, errors>>
schemaVars == <<reached, stopped, wanted, parsed, envelope, told>>
all == <<vars, part, endpointVars, routingVars, schemaVars>>

NoEndpoints == deploy = 0 /\ status = 0 /\ kept = 0 /\ asked = 0
NoRouting == now = 0 /\ monthly = 0 /\ daily = 0 /\ stamps = 0 /\ circuit = 0 /\ req = 0 /\ log = 0 /\ errors = 0
NoSchema == reached = 0 /\ stopped = 0 /\ wanted = 0 /\ parsed = 0 /\ envelope = 0 /\ told = 0

RequestsInit ==
  /\ Init
  /\ \/ part = "tools" /\ NoEndpoints /\ NoRouting /\ NoSchema
     \/ part = "endpoints" /\ Endpoints!Init /\ NoRouting /\ NoSchema
     \/ part = "routing" /\ Routing!Init /\ NoEndpoints /\ NoSchema
     \/ part = "schema" /\ Schema!Init /\ NoEndpoints /\ NoRouting
RequestsNext ==
  /\ part' = part
  /\ \/ part = "tools" /\ Next /\ UNCHANGED <<endpointVars, routingVars, schemaVars>>
     \/ part = "endpoints" /\ Endpoints!Next /\ UNCHANGED <<vars, routingVars, schemaVars>>
     \/ part = "routing" /\ Routing!Next /\ UNCHANGED <<vars, endpointVars, schemaVars>>
     \/ part = "schema" /\ Schema!Next /\ UNCHANGED <<vars, endpointVars, routingVars>>
RequestsSpec == RequestsInit /\ [][RequestsNext]_all

\* The shape of the state of the component that runs.
StateOK ==
  /\ TypeOK /\ (part = "routing" => Routing!TypeOK)
  /\ (part = "endpoints" => Endpoints!TypeOK) /\ (part = "schema" => Schema!TypeOK)
\* Once its client has been answered, or is gone, an operation that is still out
\* begins no further request of its own: a tool handler asks no one, and an
\* extraction calls no provider and answers nothing else.
NoWorkForTheGone == [][LeftoverStep /\ (part = "schema" => Schema!AbortedStep)]_all
\* However searches interleave and periods change under them, no provider is
\* dispatched more often than its daily, monthly and minute caps allow.
WithinCaps == part = "routing" => Routing!WithinCaps
\* A search that ends because no provider was available has tried each one it
\* selected, or found it over its budget when its turn came; a circuit is open only
\* after Threshold failures since the last success, though calls begun before it
\* opened still report; an extraction calls no provider but the one its request
\* names; and a modern request reaches a task only under the name its headers give.
RoutingIsJustified ==
  /\ part = "routing" => Routing!GaveUpAfterAll /\ Routing!OpenHasFailures
  /\ part = "schema" => Schema!NamedProviderOnly
  /\ part = "endpoints" => Endpoints!TargetsAgree
\* What a client is told is exact: an extraction has every field once, within the
\* caps, and says whether one was shortened, under a digest that no order of the
\* schema changes; and the status, the flags and the refusals of a task are true
\* when they arrive, though they were read apart.
AnswersAreExact ==
  /\ part = "schema" => Schema!ResultIsExact /\ Schema!DigestIgnoresOrder
  /\ part = "endpoints" => Endpoints!AnswersAreTrue
=============================================================================
