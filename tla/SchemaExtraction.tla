-------------------------- MODULE SchemaExtraction --------------------------
(***************************************************************************)
(* web_extract_schema: one provider-backed extraction of the fields of a   *)
(* caller's schema from one URL (core/schema-extraction-runtime.ts, its    *)
(* contract and its tool). The call checks its options and the benchmark   *)
(* gate, resolves the URL, parses the schema, calls one provider under a   *)
(* deadline and validates what it returned field by field.                 *)
(*                                                                         *)
(* A text is its length in characters, whether its characters take two     *)
(* UTF-16 units, and what it reads as; a name is a natural number, in the  *)
(* order of names, 0 one that FIELD_NAME_RE refuses.                       *)
(***************************************************************************)
EXTENDS Integers, Sequences, SequencesExt, FiniteSetsExt

CONSTANTS
  Defaults, Ceilings,           \* the limits of a deployment, and the most they may be
  Overrides,                    \* options.limits of the deployments considered
  Reports, Thresholds,          \* benchmark reports, and what they must reach
  Providers, DefaultProvider,   \* the registered providers, and options.defaultProvider
  Requests,                     \* what a caller may ask, but for the schema
  Schemas,                      \* schemas a caller may send
  Values, Billings, Warnings,   \* what providers may return
  MaxScanNodes, MaxUrlUnits, MaxDateUnits,
  MaxToolOutput                 \* what the tool hands out at most, whatever the request's caps

VARIABLES
  stage,   \* what runSchemaExtraction() awaits
  signal,  \* why the call was aborted, if it was
  req,     \* the request and the limits in force
  plan,    \* the parsed schema and the provider that is called for it
  answer,  \* the envelope the provider returned
  result   \* what the tool answered

vars == <<stage, signal, req, plan, answer, result>>

None == "none"
Scalars == {"string", "number", "boolean", "url", "date"}
FieldTypes == Scalars \cup {"array"}
Error(code) == [error |-> code]
NoReq == [limits |-> Defaults, provider |-> None]
NoPlan == [schema |-> <<>>, provider |-> None]
NoProvider == [id |-> None, configured |-> FALSE]
NoAnswer == [object |-> FALSE]
NoResult == Error(None)
NoReport == [exists |-> FALSE]
Null == [kind |-> "null"]

\* The shape of the state: an answer is waited for only by a call with a plan.
TypeOK ==
  /\ stage \in {"idle", "resolving", "extracting", "ended"}
  /\ signal \in {None, "CANCELLED", "DEADLINE_EXCEEDED"}
  /\ stage = "extracting" => plan # NoPlan
  /\ stage = "ended" => result # NoResult

Init == stage = "idle" /\ signal = None /\ req = NoReq /\ plan = NoPlan /\ answer = NoAnswer /\ result = NoResult

-----------------------------------------------------------------------------
\* resolveSchemaExtractionLimits(): the defaults overridden, each within its ceiling.
Resolved(overrides) ==
  [key \in DOMAIN Defaults \cup DOMAIN overrides |-> IF key \in DOMAIN overrides THEN overrides[key] ELSE Defaults[key]]
LimitsOK(limits) == \A key \in DOMAIN limits : limits[key] \in 1..Ceilings[key]
\* A request may lower two of the limits, and never raise them.
CapsOK(r, limits) ==
  r.caps.given => /\ r.caps.output \in 1..limits.output /\ r.caps.string \in 1..limits.string

\* validateBenchmarkReport() throws on a report it cannot read.
ReportOK(report) == report.entries # <<>> /\ \A e \in ToSet(report.entries) : e.repeatability \in 0..10 /\ e.accuracy \in 0..10
\* checkBenchmarkGate(): a report, long enough, every entry of which reaches the
\* thresholds; a provider that is available is not enough.
CheckBenchmarkGate(report) ==
  /\ Len(report.entries) >= Thresholds.entries
  /\ \A e \in ToSet(report.entries) :
       /\ e.repeatability >= Thresholds.repeatability
       /\ e.accuracy >= Thresholds.accuracy
       /\ e.latency <= Thresholds.latency

-----------------------------------------------------------------------------
\* What a raw schema counts: the keys of all its objects, and how deep they nest.
Keys(d) == 2 + (IF d.required = None THEN 0 ELSE 1) + (IF d.items = None THEN 0 ELSE 2)
CountProperties(raw) == 2 + FoldSeq(LAMBDA d, n : Keys(d) + n, 0, raw.properties)
MeasureDepth(raw) ==
  IF raw.properties = <<>> THEN 1 ELSE IF \E d \in ToSet(raw.properties) : d.items # None THEN 4 ELSE 3
\* rejectRefKeys(): no $ref anywhere, in a schema that can be scanned.
NoRefs(raw) == ~raw.ref /\ CountProperties(raw) < MaxScanNodes
\* validateExtractionSchema().
ValidateExtractionSchema(raw, limits) ==
  /\ MeasureDepth(raw) <= limits.depth /\ CountProperties(raw) <= limits.properties
\* One field: a flat type, or a list of scalars.
FieldOK(d) ==
  /\ d.name > 0 /\ d.type \in FieldTypes /\ d.required # "bad"
  /\ d.type = "array" => d.items \in Scalars
\* parseBoundedSchema().
ParseBoundedSchema(raw, limits) ==
  /\ raw.object /\ NoRefs(raw)
  /\ Len(raw.properties) \in 1..limits.fields
  /\ \A d \in ToSet(raw.properties) : FieldOK(d)
  /\ ValidateExtractionSchema(raw, limits)

\* resolveProvider(): the provider asked for, else the default, else the first; one
\* that is named and not registered is never replaced by another.
ResolveProvider(requested) ==
  LET named == IF requested # None THEN requested ELSE DefaultProvider
      found == {i \in DOMAIN Providers : named \in {None, Providers[i].id}}
  IN  IF found = {} THEN NoProvider ELSE Providers[Min(found)]

-----------------------------------------------------------------------------
Units(text) == IF text.wide THEN 2 * text.chars ELSE text.chars
\* truncateBoundedString(): cut by characters, and only when the units are too many.
Truncate(text, max) == IF Units(text) <= max THEN text ELSE [text EXCEPT !.chars = Min({max, text.chars})]
Ok(value) == [ok |-> TRUE, value |-> value]
Bad(value) == [ok |-> FALSE, value |-> value]
\* checkScalar(): the value a field takes, or what is shown of one it cannot take.
CheckScalar(type, raw, limits) ==
  LET text == raw.kind = "string"
      cut == Truncate(raw, limits.string)
  IN  CASE type \in {"number", "boolean"} -> IF raw.kind = type THEN Ok(raw) ELSE Bad(Null)
        [] type = "string" -> IF text THEN Ok(cut) ELSE Bad(Null)
        [] type = "url" -> IF ~text \/ Units(raw) > MaxUrlUnits THEN Bad(Null) ELSE IF raw.form = "url" THEN Ok(cut) ELSE Bad(cut)
        [] type = "date" -> IF ~text THEN Bad(Null) ELSE IF Units(raw) <= MaxDateUnits /\ raw.form = "date" THEN Ok(cut) ELSE Bad(cut)
\* checkFieldValue(): a list is taken whole or not at all.
CheckFieldValue(d, raw, limits) ==
  IF d.type # "array" THEN CheckScalar(d.type, raw, limits)
  ELSE IF raw.kind # "array" THEN Bad(Null)
  ELSE IF Len(raw.items) > limits.items THEN Bad(Null)
  ELSE LET checked == [i \in 1..Len(raw.items) |-> CheckScalar(d.items, raw.items[i], limits)]
       IN  IF \A i \in DOMAIN checked : checked[i].ok
           THEN Ok([raw EXCEPT !.items = [i \in DOMAIN checked |-> checked[i].value]]) ELSE Bad(Null)

\* The result for one field of the schema.
FieldResult(d, raw, limits) ==
  IF raw = Null THEN [name |-> d.name, status |-> "missing", value |-> Null]
  ELSE LET checked == CheckFieldValue(d, raw, limits)
       IN  [name |-> d.name, status |-> IF checked.ok THEN "present" ELSE "invalid", value |-> checked.value]
FieldResults(values, schema, limits) == [i \in 1..Len(schema) |-> FieldResult(schema[i], values[schema[i].name], limits)]
\* A flag that looks at texts and not at lists of them.
AnyTextTruncated(fields, values) ==
  \E f \in ToSet(fields) : f.status = "present" /\ f.value.kind = "string" /\ f.value # values[f.name]
\* Whether a value that is present is shorter than what the provider sent.
AnyTruncated(fields, values) == \E f \in ToSet(fields) : f.status = "present" /\ f.value # values[f.name]

\* The size of a value in the output.
Size(value) ==
  CASE value.kind = "string" -> value.chars
    [] value.kind = "array" -> FoldSeq(LAMBDA v, n : n + 1 + (IF v.kind = "string" THEN v.chars ELSE 0), 0, value.items)
    [] OTHER -> 0
OutputSize(fields) == FoldSeq(LAMBDA f, n : n + 1 + Size(f.value), 0, fields)

\* digestExtractionFields(): what is hashed is the fields sorted by name.
SortedByName(set) == SetToSortSeq(set, LAMBDA f, g : f.name < g.name)
DigestExtractionFields(fields) == SortedByName(ToSet(fields))
\* sanitizeWarnings(): the texts among them, not empty, so many and so long.
SanitizeWarnings(warnings, limits) ==
  LET texts == SelectSeq(warnings, LAMBDA w : w.kind = "string" /\ w.chars > 0)
  IN  [i \in 1..Min({limits.warnings, Len(texts)}) |-> Truncate(texts[i], limits.warningChars)]

-----------------------------------------------------------------------------
End(code) == stage' = "ended" /\ result' = Error(code)
\* The checks a call runs before it awaits anything.
RunSchemaExtraction(r, overrides, report) ==
  LET base == Resolved(overrides)
      limits == IF ~r.caps.given THEN base ELSE [base EXCEPT !.output = r.caps.output, !.string = r.caps.string]
  IN  /\ stage = "idle"
      /\ \/ /\ ~r.providerBacked \/ ~LimitsOK(base) \/ ~r.timeoutOK \/ ~CapsOK(r, base)
            /\ End("INVALID_INPUT") /\ UNCHANGED req
         \/ /\ r.providerBacked /\ LimitsOK(base) /\ r.timeoutOK /\ CapsOK(r, base)
            /\ \/ report = NoReport /\ End("PROVIDER_UNAVAILABLE") /\ UNCHANGED req
               \/ report # NoReport /\ ~ReportOK(report) /\ End("UPSTREAM_ERROR") /\ UNCHANGED req
               \/ /\ report # NoReport /\ ReportOK(report)
                  /\ IF CheckBenchmarkGate(report)
                     THEN stage' = "resolving" /\ req' = [limits |-> limits, provider |-> r.provider] /\ UNCHANGED result
                     ELSE End("PROVIDER_UNAVAILABLE") /\ UNCHANGED req
      /\ UNCHANGED <<signal, plan, answer>>

\* The URL is resolved or refused; then the schema is parsed, the provider chosen and
\* asked whether it can serve it, and called. A call that was aborted meanwhile ends.
ResolvePublicUrl(address, raw, supported) ==
  /\ stage = "resolving"
  /\ LET provider == ResolveProvider(req.provider)
     IN  IF signal # None THEN stage' = "ended" /\ UNCHANGED <<result, plan>>
         ELSE IF address # "public" THEN End(IF address = "unresolved" THEN "UPSTREAM_ERROR" ELSE "URL_BLOCKED") /\ UNCHANGED plan
         ELSE IF ~ParseBoundedSchema(raw, req.limits) THEN End("INVALID_INPUT") /\ UNCHANGED plan
         ELSE IF provider = NoProvider THEN End("PROVIDER_UNAVAILABLE") /\ UNCHANGED plan
         ELSE IF ~supported THEN End("PROVIDER_UNAVAILABLE") /\ UNCHANGED plan
         ELSE IF ~provider.configured THEN End("INVALID_INPUT") /\ UNCHANGED plan
         ELSE /\ stage' = "extracting" /\ plan' = [schema |-> raw.properties, provider |-> provider.id]
              /\ UNCHANGED result
  /\ UNCHANGED <<signal, req, answer>>

\* The client goes or a deadline passes: the tool answers at once, and what was
\* begun runs on until it comes back.
Abort(cause) ==
  /\ stage \in {"resolving", "extracting"} /\ signal = None
  /\ signal' = cause /\ result' = Error(cause)
  /\ UNCHANGED <<stage, req, plan, answer>>

\* The provider fails, with an error of its own or one that is withheld.
ProviderFails ==
  /\ stage = "extracting" /\ stage' = "ended"
  /\ result' = IF signal # None THEN result ELSE Error("UPSTREAM_ERROR")
  /\ UNCHANGED <<signal, req, plan, answer>>

\* The provider answers: the envelope and its billing are checked, the fields are
\* validated, and the result is handed out unless it is too large for the tool or
\* nobody waits for it.
ProviderAnswers(e) ==
  /\ stage = "extracting" /\ stage' = "ended"
  /\ IF signal # None THEN UNCHANGED <<answer, result>>
     ELSE LET fields == FieldResults(e.values, plan.schema, req.limits)
              warnings == SanitizeWarnings(e.warnings, req.limits)
              keys == e.extra + Cardinality({n \in DOMAIN e.values : e.values[n] # Null})
          IN  /\ answer' = e
              /\ result' =
                   IF e.billed < 0 \/ ~e.object THEN Error("UPSTREAM_ERROR")
                   ELSE IF keys > req.limits.properties + Len(plan.schema) THEN Error("OUTPUT_LIMIT")
                   ELSE IF OutputSize(fields) > req.limits.output THEN Error("OUTPUT_LIMIT")
                   ELSE IF OutputSize(fields) + Len(warnings) > MaxToolOutput THEN Error("UPSTREAM_ERROR")
                   ELSE [fields |-> fields, provider |-> plan.provider, billed |-> e.billed,
                         warnings |-> warnings,
                         truncated |-> AnyTruncated(fields, e.values), digest |-> DigestExtractionFields(fields)]
  /\ UNCHANGED <<signal, req, plan>>

Envelopes ==
  {[object |-> TRUE, billed |-> b, extra |-> x, warnings |-> <<>>, values |-> v] :
     b \in {1}, x \in {0}, v \in [{d.name : d \in ToSet(plan.schema)} -> Values]}
    \cup {[object |-> o, billed |-> b, extra |-> x, warnings |-> w, values |-> [n \in {d.name : d \in ToSet(plan.schema)} |-> Null]] :
     o \in BOOLEAN, b \in Billings, x \in {0, req.limits.properties + Len(plan.schema) + 1}, w \in Warnings}

Next ==
  \/ \E r \in Requests, o \in Overrides, b \in Reports : RunSchemaExtraction(r, o, b)
  \/ \E a \in {"public", "private", "unresolved"}, raw \in Schemas, s \in BOOLEAN : ResolvePublicUrl(a, raw, s)
  \/ \E cause \in {"CANCELLED", "DEADLINE_EXCEEDED"} : Abort(cause)
  \/ ProviderFails
  \/ \E e \in Envelopes : ProviderAnswers(e)

Spec == Init /\ [][Next]_vars

-----------------------------------------------------------------------------
Handed == "fields" \in DOMAIN result
TextsIn(value) == IF value.kind = "array" THEN ToSet(value.items) ELSE {value}
Longer(value, max) == \E t \in TextsIn(value) : t.kind = "string" /\ t.chars > max

\* What is handed out has every field of the schema once and in its order, a value
\* that is present is within the caps of this request, and the flag says exactly
\* whether one of them was shortened, in a list too.
ResultIsExact ==
  Handed =>
    /\ [i \in DOMAIN result.fields |-> result.fields[i].name] = [i \in DOMAIN plan.schema |-> plan.schema[i].name]
    /\ \A f \in ToSet(result.fields) : f.status = "present" => ~Longer(f.value, req.limits.string)
    /\ result.truncated <=> \E f \in ToSet(result.fields) : f.status = "present" /\ Longer(answer.values[f.name], req.limits.string)

\* The digest by which repeated runs are compared does not depend on the order in
\* which the caller's schema lists its fields.
DigestIgnoresOrder ==
  Handed => DigestExtractionFields(FieldResults(answer.values, Reverse(plan.schema), req.limits)) = result.digest

\* A provider is never called for a request that names another.
NamedProviderOnly == plan.provider # None /\ req.provider # None => plan.provider = req.provider

\* A call that was aborted calls no provider any more, and is not answered twice.
AbortedStep == signal # None => plan' = plan /\ result' = result
=============================================================================
