---------------------------- MODULE CacheBridge -----------------------------
(***************************************************************************)
(* The document cache across the Container and the Worker: a parse in the  *)
(* Container (tools/document-parse.ts) looks up, executes and commits      *)
(* through RemoteDocumentCacheRuntime, and each of the two, and a          *)
(* revocation, is one signed request to the Worker's outbound handler.     *)
(* Nothing is retried; a request the Container gave up may still be        *)
(* executed; each side reads its own clock.  The repository is one source  *)
(* of one key, atomic here (DocumentCache has its steps).                  *)
(***************************************************************************)
EXTENDS Integers

CONSTANTS
  Parses, Revokers, \* calls of one Container
  Timeout,          \* from the start of a call to its deadlineAt
  SignLife,         \* INTERNAL_DEFAULT_TTL_MS of the signed context
  Skews,            \* by how much the Worker's clock may be ahead
  MaxNow            \* bound: the last reading of the Container's clock

Requests == Parses \cup Revokers

VARIABLES
  now, skew,
  env,    \* what the Worker was deployed with
  cache,  \* the source in the repository
  call, wire,
  decided \* history: what the Worker's repository said to each lookup

vars == <<now, skew, env, cache, call, wire, decided>>

-----------------------------------------------------------------------------
\* The dispositions of DocumentCacheLookupMiss; a "fault" is an ordinary miss that
\* carries a cacheError.
Misses == {"ordinary", "revoked", "refresh", "bypass", "disabled", "fault"}
Idle == [pc |-> "idle", mode |-> "use", deadline |-> 0, aborted |-> FALSE, late |-> FALSE, told |-> "none"]
NoWire == [op |-> "none", at |-> "none", sent |-> 0, decision |-> "none", answer |-> "none"]

TypeOK ==
  /\ now \in 0..MaxNow /\ skew \in Skews /\ env \in {"ok", "disabled", "broken"}
  /\ cache \in {"empty", "stored", "revoked"}
  /\ call \in [Requests -> [pc: {"idle", "lookup", "execute", "commit", "revoke", "ended", "failed"},
                         mode: {"use", "refresh", "bypass"}, deadline: Nat, aborted: BOOLEAN, late: BOOLEAN,
                         told: Misses \cup {"none", "hit", "stored", "unstored", "missing"}]]
  /\ wire \in [Requests -> [op: {"none", "lookup", "commit", "revoke"}, at: {"none", "sent", "done", "back"},
                         sent: Nat, decision: Misses \cup {"none"},
                         answer: Misses \cup {"none", "hit", "stored", "unstored", "missing", "refused"}]]
  /\ decided \in [Requests -> Misses \cup {"none", "hit"}]

Init ==
  /\ now = 0 /\ skew \in Skews /\ env \in {"ok", "disabled", "broken"} /\ cache = "empty"
  /\ call = [c \in Requests |-> Idle] /\ wire = [c \in Requests |-> NoWire]
  /\ decided = [c \in Requests |-> "none"]

-----------------------------------------------------------------------------
\* The repository, as the Worker runs it.
LookupResult(mode) ==
  CASE mode = "bypass" -> "bypass"
    [] mode # "bypass" /\ env = "disabled" -> "disabled"
    [] mode = "refresh" /\ env # "disabled" -> "refresh"
    [] mode = "use" /\ env # "disabled" ->
         IF cache = "stored" THEN "hit" ELSE IF cache = "revoked" THEN "revoked" ELSE "ordinary"

\* validateCommitDisposition(): the decision is one the present configuration can make.
Compatible(mode, decision) ==
  IF LookupResult(mode) \in {"bypass", "disabled", "refresh"} THEN decision = LookupResult(mode)
  ELSE decision \in {"ordinary", "revoked", "fault"}

-----------------------------------------------------------------------------
\* The Container.
Others == UNCHANGED <<now, skew, env, cache>>
Ended(c) == call[c].pc \in {"idle", "ended", "failed"}
Send(c, op, decision) ==
  wire' = [wire EXCEPT ![c] = [NoWire EXCEPT !.op = op, !.at = "sent", !.sent = now, !.decision = decision]]
To(c, pc, told) == call' = [call EXCEPT ![c].pc = pc, ![c].told = told]
Read(c) == wire' = IF wire[c].at = "back" THEN [wire EXCEPT ![c] = NoWire] ELSE wire

\* throwIfCancelledOrExpired().
Over(c) == call[c].aborted \/ now >= call[c].deadline

Start(c, op, mode) ==
  /\ call[c].pc = "idle"
  /\ call' = [call EXCEPT ![c] = [Idle EXCEPT !.pc = op, !.mode = mode, !.deadline = now + Timeout,
                 !.late = \E r \in Revokers : call[r].told = "revoked"]]
  /\ Send(c, op, "none") /\ UNCHANGED decided /\ Others
StartLookup(c) == \E mode \in {"use", "refresh", "bypass"} : Start(c, "lookup", mode)
\* revokeAllSourceBindings(), of an owner's own source.
StartRevoke(c) == Start(c, "revoke", "use")

\* The client goes away, or the timeout of a revocation fires.
Abort(c) ==
  /\ ~Ended(c) /\ ~call[c].aborted
  /\ call' = [call EXCEPT ![c].aborted = TRUE] /\ UNCHANGED <<wire, decided>> /\ Others

\* What came back, as the Container reads it: no response, one that is not ok, one
\* that does not decode and data that validateData() rejects are all unusable.
Readings(c) == {"unusable"} \cup (IF wire[c].at = "back" THEN {wire[c].answer} \ {"refused"} ELSE {})

\* A lookup that went wrong, taken for an ordinary miss.
LookedUpAs(reading) == IF reading = "unusable" THEN "ordinary" ELSE reading

\* lookup(): it went wrong, so the miss carries a cacheError.
LookedUp(reading) == IF reading = "unusable" THEN "fault" ELSE reading

\* A lookup that fails its caller.
LookupOrFail(c, reading) ==
  IF Over(c) \/ reading = "unusable" THEN To(c, "failed", "none")
  ELSE IF reading = "hit" THEN To(c, "ended", "hit") ELSE To(c, "execute", reading)

\* lookup() after the call: only its own cancellation and deadline fail the parse.
LookupReturns(c, reading) ==
  IF Over(c) THEN To(c, "failed", "none")
  ELSE IF reading = "hit" THEN To(c, "ended", "hit") ELSE To(c, "execute", LookedUp(reading))
ReceiveLookup(c) ==
  /\ call[c].pc = "lookup"
  /\ \E reading \in Readings(c) : LookupReturns(c, reading)
  /\ Read(c) /\ UNCHANGED decided /\ Others

\* commit(), once the document is parsed: nothing is sent after a fault, and a body
\* over the bridge's limit is not sent either.
Commit(c) ==
  /\ call[c].pc = "execute"
  /\ \/ call[c].told = "fault" /\ To(c, "ended", "unstored") /\ UNCHANGED wire
     \/ call[c].told # "fault" /\ Over(c) /\ To(c, "failed", "none") /\ UNCHANGED wire
     \/ call[c].told # "fault" /\ ~Over(c) /\ To(c, "commit", call[c].told) /\ Send(c, "commit", call[c].told)
     \/ call[c].told # "fault" /\ ~Over(c) /\ To(c, "ended", "unstored") /\ UNCHANGED wire
  /\ UNCHANGED decided /\ Others

ReceiveCommit(c) ==
  /\ call[c].pc = "commit"
  /\ \E reading \in Readings(c) :
       IF Over(c) THEN To(c, "failed", "none")
       ELSE To(c, "ended", IF reading = "stored" THEN "stored" ELSE "unstored")
  /\ Read(c) /\ UNCHANGED decided /\ Others

\* The revoker's caller keeps what it wants deleted when this throws.
ReceiveRevoke(c) ==
  /\ call[c].pc = "revoke"
  /\ \E reading \in Readings(c) :
       IF reading = "unusable" THEN To(c, "failed", "none") ELSE To(c, "ended", reading)
  /\ Read(c) /\ UNCHANGED decided /\ Others

-----------------------------------------------------------------------------
\* The Worker.
WorkerNow == now + skew
\* verifyDocumentCacheBridgeRequest(), of a request the Container built.
Verified(c) == wire[c].sent <= WorkerNow /\ WorkerNow < wire[c].sent + SignLife
\* deadlineExceeded(); an abort may reach the Worker or not.
DeadlineExceeded(c) == WorkerNow >= call[c].deadline
Answer(c, at, answer) == wire' = [wire EXCEPT ![c].at = at, ![c].answer = answer]

\* A secret, a database or a bucket is missing, or the TTLs do not parse.
Admitted(c) == env # "broken" /\ Verified(c) /\ ~DeadlineExceeded(c)

Refuse(c) ==
  /\ wire[c].at = "sent" /\ (~Admitted(c) \/ call[c].aborted)
  /\ Answer(c, "back", "refused") /\ UNCHANGED <<call, decided>> /\ Others

Execute(c, result, kept) ==
  /\ wire[c].at = "sent" /\ Admitted(c)
  /\ Answer(c, "done", result) /\ cache' = kept
  /\ UNCHANGED <<now, skew, env, call>>

\* runtime.lookup(): a store that throws is answered, as an ordinary miss with a fault.
ExecuteLookup(c) ==
  /\ wire[c].op = "lookup"
  /\ \E result \in {LookupResult(call[c].mode)} \cup (IF LookupResult(call[c].mode) \in {"hit", "ordinary"} THEN {"fault"} ELSE {}) :
       Execute(c, result, cache) /\ decided' = [decided EXCEPT ![c] = result]

\* runtime.commit(): an ordinary commit is fenced on the binding its lookup saw, so
\* over another's it is refused, or stored already when the two agree.
ExecuteCommit(c) ==
  LET decision == wire[c].decision
      mode == call[c].mode
  IN /\ wire[c].op = "commit" /\ UNCHANGED decided
     /\ \/ ~Compatible(mode, decision) /\ Execute(c, "refused", cache)
        \/ Compatible(mode, decision) /\ Execute(c, "unstored", cache)
        \/ /\ Compatible(mode, decision) /\ decision \in {"ordinary", "refresh"} /\ cache # "revoked"
           /\ Execute(c, "stored", "stored")

\* runtime.revokeAllSourceBindings(), or a store that throws.
ExecuteRevoke(c) ==
  /\ wire[c].op = "revoke" /\ UNCHANGED decided
  /\ \/ cache = "empty" /\ Execute(c, "missing", cache)
     \/ cache # "empty" /\ Execute(c, "revoked", "revoked")
     \/ \E kept \in {cache} \cup (IF cache = "stored" THEN {"revoked"} ELSE {}) : Execute(c, "refused", kept)

\* The deadline is looked at again before the answer leaves.
Respond(c) ==
  /\ wire[c].at = "done"
  /\ \E answer \in (IF DeadlineExceeded(c) THEN {"refused"}
                    ELSE {wire[c].answer} \cup (IF call[c].aborted THEN {"refused"} ELSE {})) :
       Answer(c, "back", answer)
  /\ UNCHANGED <<call, decided>> /\ Others

-----------------------------------------------------------------------------
\* A deployment between two requests.
Redeploy == env' \in {"ok", "disabled", "broken"} \ {env} /\ UNCHANGED <<now, skew, cache, call, wire, decided>>
\* What is stored runs out; another Container's parse is stored.
Elsewhere ==
  /\ cache # "revoked" /\ cache' = (IF cache = "stored" THEN "empty" ELSE "stored")
  /\ UNCHANGED <<now, skew, env, call, wire, decided>>
Tick == now < MaxNow /\ now' = now + 1 /\ UNCHANGED <<skew, env, cache, call, wire, decided>>

Next ==
  \/ \E c \in Parses : StartLookup(c) \/ ReceiveLookup(c) \/ Commit(c) \/ ReceiveCommit(c)
                       \/ ExecuteLookup(c) \/ ExecuteCommit(c)
  \/ \E c \in Revokers : StartRevoke(c) \/ ReceiveRevoke(c) \/ ExecuteRevoke(c)
  \/ \E c \in Requests : Abort(c) \/ Refuse(c) \/ Respond(c)
  \/ Redeploy \/ Elsewhere \/ Tick

Spec == Init /\ [][Next]_vars

-----------------------------------------------------------------------------
\* A parse fails for its own cancellation or deadline, whatever the Worker does.
CacheNeverFailsAParse == \A c \in Parses : call[c].pc = "failed" => Over(c)

\* What is sent to be stored carries the decision the Worker made for this call: a
\* lookup nobody heard of is not followed by a commit.
CommitsAreDecided ==
  \A c \in Parses : wire[c].op = "commit" => wire[c].decision = decided[c] /\ decided[c] # "fault"

\* After a revocation that was acknowledged as one, the source stays revoked and a
\* parse that begins is given nothing of it.
AcknowledgedRevocation ==
  /\ \A r \in Revokers : call[r].told = "revoked" => cache = "revoked"
  /\ \A c \in Parses : call[c].late => call[c].told \notin {"hit", "stored"}
=============================================================================
