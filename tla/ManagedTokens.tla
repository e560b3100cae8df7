----------------------------- MODULE ManagedTokens -----------------------------
(***************************************************************************)
(* Access to the service: the managed credentials (worker/managed-tokens.ts *)
(* over worker/d1-managed-store.ts), the admin API that changes them       *)
(* (worker/admin-credentials.ts), and the way of a request through the     *)
(* Worker (worker/handler.ts, worker/auth.ts, worker/oauth.ts) and the     *)
(* signed context (worker/internal-context.ts) into the Container          *)
(* (container/app.ts).                                                     *)
(*                                                                         *)
(* The rows are shared by every isolate of the Worker; the idempotency map *)
(* and the audit log belong to one isolate and die with it. A statement of *)
(* D1 may fail, and its answer may be lost after it has been applied.      *)
(***************************************************************************)
EXTENDS Naturals, Sequences, FiniteSets

CONSTANTS
  Ids,        \* public credential ids
  First,      \* First[id]: the expiry of a credential that was created before
  Expiries,   \* expiries that an admin asks for
  Ops,        \* admin operations
  Kinds,      \* Kinds[o]: what operation o may be
  Reqs,       \* requests of clients
  IdemKeys,   \* idempotency keys of a rotate
  Overlap,    \* overlapSeconds, in ticks
  TTL,        \* INTERNAL_DEFAULT_TTL_MS, in ticks
  MaxIdem,    \* MAX_IDEMPOTENCY_KEYS
  MaxAudit,   \* MAX_AUDIT_RECORDS
  Retries,    \* ID_COLLISION_RETRY_MAX
  Faults,     \* bound: statements that fail or whose answer is lost
  MaxNow      \* bound: the last reading of the clock

VARIABLES
  now,
  rows,    \* rows[id]: the row of managed_credentials
  idem,    \* the isolate's RotateIdempotencyStore, oldest entry first
  audit,   \* the isolate's BoundedAuditLog
  op,      \* op[o]: an admin operation
  req,     \* req[r]: a request of a client
  faults,
  issued   \* history: the tokens (id, secret) that an answer carried

vars == <<now, rows, idem, audit, op, req, faults, issued>>

None == "none"

ASSUME IdsAssumption == None \notin Ids \cup Ops
ASSUME ExpiriesAssumption ==
  DOMAIN First \subseteq Ids /\ (\A id \in DOMAIN First : First[id] \in Nat) /\ Expiries \subseteq Nat
ASSUME LimitsAssumption == {Overlap, TTL, MaxIdem, MaxAudit, Retries, Faults, MaxNow} \subseteq Nat

NoRow == [status |-> None, expires |-> 0, until |-> 0, to |-> None, from |-> None, secret |-> None]
NoOp == [kind |-> None, pc |-> "idle", id |-> None, new |-> None, given |-> FALSE, key |-> None, expires |-> 0,
         at |-> 0, row |-> NoRow, tries |-> 0]
\* ended is history: whether the credential was out of use when the request came.
NoReq == [pc |-> "idle", id |-> None, secret |-> None, row |-> NoRow, minted |-> 0, ended |-> FALSE]

\* A credential, whose secret is named after the operation that drew it.
NewRow(o, expires, from) == [NoRow EXCEPT !.status = "active", !.expires = expires, !.from = from, !.secret = o]
Exists(id) == rows[id] # NoRow
\* A request that was answered.
Done(q, pc) == [NoReq EXCEPT !.pc = pc, !.ended = q.ended]

\* The shape of the state; a lineage is one to one, and both of its ends agree.
TypeOK ==
  /\ now \in 0..MaxNow /\ Len(idem) <= MaxIdem /\ Len(audit) <= MaxAudit
  /\ \A id \in Ids : rows[id].status \in {None, "active", "rotating", "revoked"}
  /\ \A a, b \in Ids : rows[a].to = b <=> rows[b].from = a
  /\ \A o \in Ops : op[o].tries \in 0..Retries

Init ==
  /\ now = 0 /\ idem = <<>> /\ audit = <<>>
  /\ rows = [id \in Ids |-> IF id \in DOMAIN First THEN NewRow(id, First[id], None) ELSE NoRow]
  /\ op = [o \in Ops |-> NoOp] /\ req = [r \in Reqs |-> NoReq]
  /\ faults = 0 /\ issued = {<<id, id>> : id \in DOMAIN First}

-----------------------------------------------------------------------------
\* getEffectiveStatus(): whether a credential may be used at time t.
Usable(row, t) ==
  \/ row.status = "active" /\ t < row.expires
  \/ row.status = "rotating" /\ t < row.until /\ t < row.expires

\* A statement of D1: it is applied and answered, applied without an answer, or fails.
Outcomes == {"ok", "lost", "down"}
Counts(outcome) == faults' = faults + (IF outcome = "ok" THEN 0 ELSE 1) /\ faults' <= Faults

\* The answer of an operation and its audit record.
Logged(result) ==
  LET all == Append(audit, result) IN IF Len(all) > MaxAudit THEN Tail(all) ELSE all
Answer(o, result) ==
  /\ op' = [op EXCEPT ![o] = [NoOp EXCEPT !.kind = op[o].kind, !.pc = result]]
  /\ audit' = Logged(result)
Moves(o, q) == op' = [op EXCEPT ![o] = q] /\ UNCHANGED audit

-----------------------------------------------------------------------------
\* createManagedCredential(): an expiry in the future, an id of the admin's or a random one.
CreateManagedCredential(o, id, given, expires) ==
  /\ op[o] = NoOp /\ "create" \in Kinds[o] /\ expires > now
  /\ Moves(o, [NoOp EXCEPT !.kind = "create", !.pc = "insert", !.new = id, !.given = given, !.expires = expires, !.at = now])
  /\ UNCHANGED <<now, rows, idem, req, faults, issued>>

\* insert(): the primary key refuses an id in use, which looks like any failure.
Insert(o, outcome) ==
  LET id == op[o].new IN
  /\ op[o].pc = "insert" /\ Counts(outcome)
  /\ rows' = IF outcome # "down" /\ ~Exists(id) THEN [rows EXCEPT ![id] = NewRow(o, op[o].expires, None)] ELSE rows
  /\ \/ outcome = "ok" /\ ~Exists(id) /\ Answer(o, "ok") /\ issued' = issued \cup {<<id, o>>}
     \/ (outcome # "ok" \/ Exists(id)) /\ Moves(o, [op[o] EXCEPT !.pc = "reread"]) /\ UNCHANGED issued
  /\ UNCHANGED <<now, idem, req>>

\* The retry of both loops, with another random id.
Collided(o, again) ==
  \/ (op[o].given \/ op[o].tries = Retries) /\ Answer(o, "conflict")
  \/ ~op[o].given /\ op[o].tries < Retries
     /\ \E id \in Ids : Moves(o, [op[o] EXCEPT !.pc = again, !.new = id, !.tries = @ + 1])

\* A re-read that takes the row it finds for its own.
RereadAccepts(o, outcome) ==
  /\ op[o].pc = "reread" /\ Counts(outcome)
  /\ \/ outcome # "ok" /\ Answer(o, "unavailable") /\ UNCHANGED issued
     \/ outcome = "ok" /\ Exists(op[o].new) /\ Answer(o, "ok") /\ issued' = issued \cup {<<op[o].new, o>>}
     \/ outcome = "ok" /\ ~Exists(op[o].new) /\ Answer(o, "unavailable") /\ UNCHANGED issued
  /\ UNCHANGED <<now, rows, idem, req>>
\* The re-read after a failed insert() tells a collision from an outage.
Reread(o, outcome) ==
  /\ op[o].pc = "reread" /\ Counts(outcome)
  /\ \/ outcome # "ok" /\ Answer(o, "unavailable")
     \/ outcome = "ok" /\ Exists(op[o].new) /\ Collided(o, "insert")
     \/ outcome = "ok" /\ ~Exists(op[o].new) /\ Answer(o, "unavailable")
  /\ UNCHANGED <<now, rows, idem, req, issued>>

-----------------------------------------------------------------------------
Replays(id, key) == {i \in DOMAIN idem : idem[i].id = id /\ idem[i].key = key}

\* rotateManagedCredential(): a key that was seen is answered with its successor,
\* without the secret; otherwise the time is taken and the old row read.
RotateManagedCredential(o, id, key, new, given) ==
  LET q == [NoOp EXCEPT !.kind = "rotate", !.id = id, !.key = key, !.new = new, !.given = given, !.at = now] IN
  /\ op[o] = NoOp /\ "rotate" \in Kinds[o]
  /\ Moves(o, [q EXCEPT !.pc = IF Replays(id, key) # {} THEN "replay" ELSE "readOld"])
  /\ UNCHANGED <<now, rows, idem, req, faults, issued>>
Replay(o, outcome) ==
  /\ op[o].pc = "replay" /\ Counts(outcome)
  /\ Answer(o, IF outcome = "ok" THEN "replayed" ELSE "unavailable")
  /\ UNCHANGED <<now, rows, idem, req, issued>>
ReadOld(o, outcome) ==
  LET row == rows[op[o].id] IN
  /\ op[o].pc = "readOld" /\ Counts(outcome)
  /\ \/ outcome # "ok" /\ Answer(o, "unavailable")
     \/ outcome = "ok" /\ row = NoRow /\ Answer(o, "not_found")
     \/ outcome = "ok" /\ row # NoRow /\ (row.status # "active" \/ row.to # None \/ op[o].at >= row.expires) /\ Answer(o, "conflict")
     \/ /\ outcome = "ok" /\ row.status = "active" /\ row.to = None /\ op[o].at < row.expires
        /\ Moves(o, [op[o] EXCEPT !.pc = "rotate", !.row = row])
  /\ UNCHANGED <<now, rows, idem, req, issued>>

\* A RotateIdempotencyStore that forgets nothing.
RememberedAll(o) ==
  IF op[o].key = None THEN idem ELSE Append(idem, [id |-> op[o].id, key |-> op[o].key])
\* RotateIdempotencyStore.set(): the oldest entry makes room.
Remembered(o) ==
  LET all == Append(idem, [id |-> op[o].id, key |-> op[o].key]) IN
  IF op[o].key = None THEN idem ELSE IF Len(idem) >= MaxIdem THEN Tail(all) ELSE all

\* The guard of both statements of the batch.
Eligible(id) == rows[id].status = "active" /\ rows[id].to = None

\* tryRotate(): one transaction inserts the successor and links the old row. The
\* successor has the expiry of the row that was read.
TryRotate(o, outcome) ==
  LET old == op[o].id
      new == op[o].new
      applies == outcome # "down" /\ Eligible(old) /\ ~Exists(new)
  IN /\ op[o].pc = "rotate" /\ Counts(outcome) /\ new # old
     /\ rows' = IF ~applies THEN rows
                ELSE [rows EXCEPT ![new] = NewRow(o, op[o].row.expires, old),
                                  ![old] = [@ EXCEPT !.status = "rotating", !.until = op[o].at + Overlap, !.to = new]]
     /\ \/ outcome = "ok" /\ applies /\ Answer(o, "ok") /\ idem' = Remembered(o) /\ issued' = issued \cup {<<new, o>>}
        \/ /\ outcome = "ok" /\ ~Eligible(old)
           /\ Moves(o, [op[o] EXCEPT !.pc = "lostRace"]) /\ UNCHANGED <<idem, issued>>
        \/ /\ outcome # "ok" \/ (Eligible(old) /\ Exists(new))
           /\ Moves(o, [op[o] EXCEPT !.pc = "aborted"]) /\ UNCHANGED <<idem, issued>>
     /\ UNCHANGED <<now, req>>
\* A random successor id that is the old one is drawn again.
RedrawId(o) ==
  /\ op[o].pc = "rotate" /\ op[o].new = op[o].id
  /\ Collided(o, "rotate")
  /\ UNCHANGED <<now, rows, idem, req, faults, issued>>
\* The re-reads that name the conflict.
LostRace(o, outcome) ==
  /\ op[o].pc = "lostRace" /\ Counts(outcome)
  /\ Answer(o, IF outcome = "ok" THEN "conflict" ELSE "unavailable")
  /\ UNCHANGED <<now, rows, idem, req, issued>>
Aborted(o, outcome) ==
  /\ op[o].pc = "aborted" /\ Counts(outcome)
  /\ \/ outcome # "ok" /\ Answer(o, "unavailable")
     \/ outcome = "ok" /\ Exists(op[o].new) /\ Collided(o, "rotate")
     \/ outcome = "ok" /\ ~Exists(op[o].new) /\ Answer(o, IF Eligible(op[o].id) THEN "unavailable" ELSE "conflict")
  /\ UNCHANGED <<now, rows, idem, req, issued>>

-----------------------------------------------------------------------------
\* revokeById() and expireById(): one update, then a read for the answer.
Begin(o, kind, id) ==
  /\ op[o] = NoOp /\ kind \in Kinds[o]
  /\ Moves(o, [NoOp EXCEPT !.kind = kind, !.pc = "update", !.id = id, !.at = now])
  /\ UNCHANGED <<now, rows, idem, req, faults, issued>>
Revoked(row, at) == [row EXCEPT !.status = "revoked"]
Expired(row, at) == [row EXCEPT !.expires = IF @ > at THEN at ELSE @]
Update(o, outcome) ==
  LET id == op[o].id
      row == IF op[o].kind = "revoke" THEN Revoked(rows[id], op[o].at) ELSE Expired(rows[id], op[o].at)
  IN /\ op[o].pc = "update" /\ Counts(outcome)
     /\ rows' = IF outcome # "down" /\ Exists(id) THEN [rows EXCEPT ![id] = row] ELSE rows
     /\ \/ outcome = "ok" /\ Moves(o, [op[o] EXCEPT !.pc = "readBack"])
        \/ outcome # "ok" /\ Answer(o, "unavailable")
     /\ UNCHANGED <<now, idem, req, issued>>
ReadBack(o, outcome) ==
  /\ op[o].pc = "readBack" /\ Counts(outcome)
  /\ Answer(o, IF outcome # "ok" THEN "unavailable" ELSE IF Exists(op[o].id) THEN "ok" ELSE "not_found")
  /\ UNCHANGED <<now, rows, idem, req, issued>>

-----------------------------------------------------------------------------
\* handleWorkerRequest(): the admin token opens no route of a client; the static
\* token and a grant of OAuth go on to the Container, a managed token is looked up.
HandleWorkerRequest(r, q) ==
  /\ req[r] = NoReq
  /\ req' = [req EXCEPT ![r] = q]
  /\ UNCHANGED <<now, rows, idem, audit, op, faults, issued>>
AdminRequest(r) == HandleWorkerRequest(r, Done(NoReq, "refused"))
StaticRequest(r) == HandleWorkerRequest(r, Done(NoReq, "proxy"))
OAuthRequest(r) == HandleWorkerRequest(r, Done(NoReq, "proxy"))
ManagedRequest(r, token) ==
  HandleWorkerRequest(r, [NoReq EXCEPT !.pc = "lookup", !.id = token[1], !.secret = token[2],
                                       !.ended = ~Usable(rows[token[1]], now)])
\* authenticateManagedToken() reads the row and compares the verifiers; it reads
\* the clock after the digests.
LookUp(r, outcome) ==
  LET row == rows[req[r].id] IN
  /\ req[r].pc = "lookup" /\ Counts(outcome)
  /\ req' = [req EXCEPT ![r] = IF outcome = "ok" /\ row.status \in {"active", "rotating"} /\ row.secret = @.secret
                               THEN [@ EXCEPT !.pc = "clock", !.row = row] ELSE Done(@, "refused")]
  /\ UNCHANGED <<now, rows, idem, audit, op, issued>>
\* An authentication that leaves the end of the overlap to the stored status.
AuthenticateByStatus(r) ==
  /\ req[r].pc = "clock"
  /\ req' = [req EXCEPT ![r] = Done(@, IF now < @.row.expires THEN "proxy" ELSE "refused")]
  /\ UNCHANGED <<now, rows, idem, audit, op, faults, issued>>
AuthenticateManagedToken(r) ==
  /\ req[r].pc = "clock"
  /\ req' = [req EXCEPT ![r] = Done(@, IF Usable(@.row, now) THEN "proxy" ELSE "refused")]
  /\ UNCHANGED <<now, rows, idem, audit, op, faults, issued>>
\* proxyDataPlane(): the caller's credential is replaced by a signed context.
MintInternalContext(r) ==
  /\ req[r].pc = "proxy"
  /\ req' = [req EXCEPT ![r].pc = "sent", ![r].minted = now]
  /\ UNCHANGED <<now, rows, idem, audit, op, faults, issued>>
\* verifyInternalContext(): a context is good for its TTL.
Verified(q) == q.minted <= now /\ now < q.minted + TTL
\* The Container's listener, once it has started; or it never starts.
VerifyContainerAuth(r, starts) ==
  /\ req[r].pc = "sent"
  /\ req' = [req EXCEPT ![r] = Done(@, IF starts /\ Verified(@) THEN "served" ELSE "refused")]
  /\ UNCHANGED <<now, rows, idem, audit, op, faults, issued>>

-----------------------------------------------------------------------------
Tick == now < MaxNow /\ now' = now + 1 /\ UNCHANGED <<rows, idem, audit, op, req, faults, issued>>
Answers == {"ok", "replayed", "conflict", "not_found", "unavailable", "gone"}
\* The isolate ends: its maps and the operations it was running are gone.
Restart ==
  /\ faults < Faults /\ faults' = faults + 1
  /\ idem' = <<>> /\ audit' = <<>>
  /\ op' = [o \in Ops |-> IF op[o].pc \in Answers \cup {"idle"} THEN op[o] ELSE [NoOp EXCEPT !.kind = op[o].kind, !.pc = "gone"]]
  /\ UNCHANGED <<now, rows, req, issued>>

AdminStep(o) ==
  \/ \E id \in Ids, given \in BOOLEAN, e \in Expiries : CreateManagedCredential(o, id, given, e)
  \/ \E id, new \in Ids, key \in IdemKeys \cup {None}, given \in BOOLEAN :
       (given => new # id) /\ RotateManagedCredential(o, id, key, new, given)
  \/ RedrawId(o)
  \/ \E kind \in {"revoke", "expire"}, id \in Ids : Begin(o, kind, id)
  \/ \E outcome \in Outcomes :
       \/ Insert(o, outcome) \/ TryRotate(o, outcome) \/ Update(o, outcome)
       \/ outcome # "lost" /\ (Reread(o, outcome) \/ Replay(o, outcome) \/ ReadOld(o, outcome) \/ LostRace(o, outcome)
                               \/ Aborted(o, outcome) \/ ReadBack(o, outcome))
RequestStep(r) ==
  \/ \E token \in issued : ManagedRequest(r, token)
  \/ AdminRequest(r) \/ StaticRequest(r) \/ OAuthRequest(r)
  \/ \E outcome \in {"ok", "down"} : LookUp(r, outcome)
  \/ AuthenticateManagedToken(r) \/ MintInternalContext(r)
  \/ \E starts \in BOOLEAN : VerifyContainerAuth(r, starts)

Next == (\E o \in Ops : AdminStep(o)) \/ (\E r \in Reqs : RequestStep(r)) \/ Tick \/ Restart

Spec == Init /\ [][Next]_vars

-----------------------------------------------------------------------------
\* A token that an answer carried is the token of its row: its holder can use it
\* whatever collided, failed or was retried on the way.
IssuedTokensWork == \A t \in issued : rows[t[1]].secret = t[2]

\* A request that comes after its credential was revoked, expired or ended its
\* overlap is not served, however long its lookup and its Container take.
EndedIsRefused == \A r \in Reqs : req[r].ended => req[r].pc # "served"

\* A credential out of use never comes back into use: no rotation that was under
\* way revives a row that was revoked or expired meanwhile.
EndedStep == \A id \in Ids : Exists(id) /\ ~Usable(rows[id], now) => ~Usable(rows'[id], now')

\* "rotate cannot widen the privilege or extend the expiry": a successor ends no
\* later than the row it replaces, as that row is when it is replaced.
SuccessorStep ==
  \A id \in Ids : ~Exists(id) /\ rows'[id].from # None => rows'[id].expires <= rows[rows'[id].from].expires
RotationKeepsExpiry == [][SuccessorStep]_vars
=============================================================================
