--------------------------- MODULE CredentialsCli ---------------------------
(***************************************************************************)
(* The operator's `groundlane credentials` command against the admin API:  *)
(* scripts/groundlane-credentials.mts and worker/admin-credentials.ts.     *)
(*                                                                         *)
(* An invocation parses its arguments, reads the admin token, sends one    *)
(* request and waits for the answer until a timeout; it never retries, so  *)
(* the operator may invoke it again, with the same idempotency key or with *)
(* the fresh one that a rotate without a key draws. The API may handle a   *)
(* request after its sender has given up, and its isolate, with the keys   *)
(* it remembers, may end between two requests. What runs inside one        *)
(* request of the API is the subject of ManagedTokens.                     *)
(***************************************************************************)
EXTENDS Integers, FiniteSets

CONSTANTS
  Invocations,                     \* invocations of the operator, also naming fresh keys, ids and secrets
  Given,                           \* the credential that is there from the start
  Arguments,                       \* argument lists of an invocation, parsed into flags
  TokenFile, TokenEnv,             \* what --token-file and the environment may hold
  Now,                             \* the time; an expiry is in the future or not
  MaxOverlap, MaxLimit, MaxText, MaxScopes, MaxTokenLength,
  MaxRestarts                      \* bound: ends of the isolate

VARIABLES
  cli,      \* cli[i]: an invocation
  rows,     \* the credentials, as the API keeps them
  idem,     \* the idempotency keys that the isolate remembers, with the successors
  restarts

vars == <<cli, rows, idem, restarts>>

None == "none"
Operations == {"create", "list", "rotate", "revoke"}
CredentialIds == {Given} \cup Invocations
NoRow == [status |-> None, to |-> None, secret |-> None]
NoRequest == [op |-> None, id |-> None, key |-> None, auth |-> TRUE, expires |-> 0, given |-> FALSE]
\* status: of the answer; carries: the secret in its body; did: what the request
\* changed, which only the properties read; shown: the secret on stdout.
NoCli == [phase |-> "idle", req |-> NoRequest, status |-> 0, carries |-> None, did |-> FALSE, shown |-> None, exit |-> -1]
EXIT_SUCCESS == 0
EXIT_USAGE == 2
EXIT_AUTH == 3
EXIT_SERVER == 4

\* The shape of the state: an invocation that has ended has an exit code.
TypeOK ==
  /\ \A i \in Invocations :
       /\ cli[i].phase \in {"idle", "sent", "answered", "over"} /\ cli[i].exit \in {-1, 0, 2, 3, 4}
       /\ cli[i].exit # -1 => cli[i].phase \in {"sent", "over"}
  /\ \A id \in CredentialIds : rows[id].status \in {None, "active", "rotating", "revoked"} /\ rows[id].to \in CredentialIds \cup {None}

Init ==
  /\ cli = [i \in Invocations |-> NoCli]
  /\ rows = [id \in CredentialIds |-> IF id = Given THEN [NoRow EXCEPT !.status = "active", !.secret = Given] ELSE NoRow]
  /\ idem = {} /\ restarts = 0

-----------------------------------------------------------------------------
GlobalFlags == {"--endpoint", "--token-file", "--dry-run", "--help"}
Flags(op) ==
  CASE op = "create" -> {"--label", "--scopes", "--expires-at", "--id"}
    [] op = "list" -> {"--limit", "--cursor"}
    [] op = "rotate" -> {"--id", "--overlap-seconds", "--idempotency-key", "--new-id"}
    [] op = "revoke" -> {"--id"}
    [] OTHER -> {}
\* The value of one flag: a number, or the length of a text and whether its characters
\* are ones the flag allows. A flag without a value is refused by takeValue().
TakeValue(flag, v) ==
  CASE flag = "--overlap-seconds" -> v.n \in 0..MaxOverlap
    [] flag = "--limit" -> v.n \in 1..MaxLimit
    [] flag = "--expires-at" -> v.n > 0
    [] flag = "--label" -> v.n <= MaxText
    [] flag = "--cursor" -> v.n \in 1..MaxText
    [] flag = "--scopes" -> v.n \in 1..MaxScopes /\ v.legal
    [] flag \in {"--id", "--new-id", "--idempotency-key"} -> v.n \in 1..MaxText /\ v.legal
    [] flag \in {"--endpoint", "--token-file"} -> v.legal
    [] OTHER -> TRUE
Has(args, flag) == flag \in DOMAIN args.flags
\* parseCredentialsArgs(): an operation, its own flags and the global ones, each with
\* a value it takes, and the id that rotate and revoke need.
ParseCredentialsArgs(args) ==
  /\ args.op \in Operations
  /\ \A flag \in DOMAIN args.flags : flag \in GlobalFlags \cup Flags(args.op) /\ TakeValue(flag, args.flags[flag])
  /\ args.op \in {"rotate", "revoke"} => Has(args, "--id") \/ Has(args, "--help")

\* readAdminToken(): a file that is named wins, and must hold one short line.
ReadAdminToken(args, file, env) ==
  IF Has(args, "--token-file")
  THEN IF file.readable /\ file.lines = 1 /\ file.length \in 1..MaxTokenLength THEN EXIT_SUCCESS ELSE EXIT_USAGE
  ELSE IF env = 0 THEN EXIT_AUTH ELSE EXIT_SUCCESS

\* buildCredentialsHttpRequest(): a rotate has the operator's key or a fresh one.
BuildCredentialsHttpRequest(i, args, id) ==
  [op |-> args.op, id |-> id, auth |-> args.auth, given |-> Has(args, "--id"),
   expires |-> IF Has(args, "--expires-at") THEN args.flags["--expires-at"].n ELSE 0,
   key |-> IF args.op # "rotate" THEN None ELSE IF Has(args, "--idempotency-key") THEN args.key ELSE i]

Ends(i, code) == cli' = [cli EXCEPT ![i].phase = "over", ![i].exit = code]
\* main(): help and a dry run need no token and send nothing.
Main(i, args, file, env, id) ==
  LET token == ReadAdminToken(args, file, env) IN
  /\ cli[i] = NoCli
  /\ IF ~ParseCredentialsArgs(args) THEN Ends(i, EXIT_USAGE)
     ELSE IF Has(args, "--help") \/ Has(args, "--dry-run") THEN Ends(i, EXIT_SUCCESS)
     ELSE IF token # EXIT_SUCCESS THEN Ends(i, token)
     ELSE cli' = [cli EXCEPT ![i].phase = "sent", ![i].req = BuildCredentialsHttpRequest(i, args, id)]
  /\ UNCHANGED <<rows, idem, restarts>>

-----------------------------------------------------------------------------
\* An answer of the API, to an invocation that may have given up waiting.
Answers(i, status, carries, did) ==
  cli' = [cli EXCEPT ![i].phase = IF cli[i].exit = -1 THEN "answered" ELSE "over",
                     ![i].status = status, ![i].carries = carries, ![i].did = did]
Refuses(i, status) == Answers(i, status, None, FALSE) /\ UNCHANGED <<rows, idem>>

\* handleAdminCredentialsRequest(): the admin token first, then the route.
\* answered is false when storage was changed and its answer did not come back.
HandleCreate(i, answered) ==
  /\ cli[i].req.op = "create"
  /\ IF cli[i].req.expires <= Now THEN Refuses(i, 400)
     ELSE IF rows[cli[i].req.id].status # None THEN Refuses(i, 409)
     ELSE /\ rows' = [rows EXCEPT ![cli[i].req.id] = [status |-> "active", to |-> None, secret |-> i]]
          /\ answered \/ cli[i].req.given
          /\ Answers(i, IF answered THEN 201 ELSE 409, IF answered THEN i ELSE None, TRUE) /\ UNCHANGED idem
HandleList(i) == cli[i].req.op = "list" /\ Answers(i, 200, None, FALSE) /\ UNCHANGED <<rows, idem>>
\* A rotate that checks its key against the keys only, whatever was rotated.
HandleRotateByKey(i, answered) ==
  LET q == cli[i].req IN
  /\ q.op = "rotate"
  /\ IF \E e \in idem : e.id = q.id /\ e.key = q.key THEN Answers(i, 200, None, FALSE) /\ UNCHANGED <<rows, idem>>
     ELSE IF rows[q.id].status = None THEN Refuses(i, 404)
     ELSE /\ rows' = [rows EXCEPT ![q.id] = [@ EXCEPT !.status = "rotating", !.to = i],
                                  ![i] = [status |-> "active", to |-> None, secret |-> i]]
          /\ idem' = IF answered THEN idem \cup {[id |-> q.id, key |-> q.key]} ELSE idem
          /\ Answers(i, IF answered THEN 200 ELSE 409, IF answered THEN i ELSE None, TRUE)
\* A key that is remembered is answered without the secret; a row that was rotated or
\* revoked is a conflict.
HandleRotate(i, answered) ==
  LET q == cli[i].req IN
  /\ q.op = "rotate"
  /\ IF \E e \in idem : e.id = q.id /\ e.key = q.key THEN Answers(i, 200, None, FALSE) /\ UNCHANGED <<rows, idem>>
     ELSE IF rows[q.id].status = None THEN Refuses(i, 404)
     ELSE IF rows[q.id].status # "active" \/ rows[q.id].to # None \/ rows[i].status # None THEN Refuses(i, 409)
     ELSE /\ rows' = [rows EXCEPT ![q.id] = [@ EXCEPT !.status = "rotating", !.to = i],
                                  ![i] = [status |-> "active", to |-> None, secret |-> i]]
          /\ idem' = IF answered THEN idem \cup {[id |-> q.id, key |-> q.key]} ELSE idem
          /\ Answers(i, IF answered THEN 200 ELSE 409, IF answered THEN i ELSE None, TRUE)
HandleRevoke(i, answered) ==
  LET q == cli[i].req IN
  /\ q.op = "revoke"
  /\ IF rows[q.id].status = None THEN Refuses(i, 404)
     ELSE /\ rows' = [rows EXCEPT ![q.id].status = "revoked"]
          /\ Answers(i, IF answered THEN 200 ELSE 503, None, TRUE) /\ UNCHANGED idem
HandleAdminCredentialsRequest(i, answered) ==
  /\ cli[i].phase = "sent"
  /\ IF ~cli[i].req.auth THEN Refuses(i, 403)
     ELSE HandleCreate(i, answered) \/ HandleList(i) \/ HandleRotate(i, answered) \/ HandleRevoke(i, answered)
  /\ UNCHANGED restarts
\* The API is not configured, or its storage fails and nothing was changed.
Unavailable(i) == cli[i].phase = "sent" /\ Refuses(i, 503) /\ UNCHANGED restarts

\* The isolate ends, and with it what it remembers.
IsolateEnds == restarts < MaxRestarts /\ restarts' = restarts + 1 /\ idem' = {} /\ UNCHANGED <<cli, rows>>

-----------------------------------------------------------------------------
\* An exit code that takes a conflict for a wrong use.
SanitizeConflictAsUsage(status) == IF status \in {400, 409, 422} THEN EXIT_USAGE ELSE IF status \in {401, 403} THEN EXIT_AUTH ELSE EXIT_SERVER
\* sanitizeCredentialsError(): the exit code of an answer that is no success.
SanitizeCredentialsError(status) ==
  IF status \in {400, 422} THEN EXIT_USAGE ELSE IF status \in {401, 403} THEN EXIT_AUTH ELSE EXIT_SERVER

\* The connection breaks or the timeout passes: the request may be under way, lost,
\* or handled with its answer on the way back.
FetchFails(i) ==
  /\ cli[i].phase \in {"sent", "answered"} /\ cli[i].exit = -1
  /\ cli' = [cli EXCEPT ![i].exit = EXIT_SERVER, ![i].phase = IF @ = "sent" THEN "sent" ELSE "over"]
  /\ UNCHANGED <<rows, idem, restarts>>
RequestLost(i) ==
  /\ cli[i].phase = "sent" /\ cli[i].exit # -1
  /\ cli' = [cli EXCEPT ![i].phase = "over"] /\ UNCHANGED <<rows, idem, restarts>>

\* formatCredentialsSuccess(): a secret is shown by create and rotate alone.
FormatCredentialsSuccess(i) == IF cli[i].req.op \in {"create", "rotate"} THEN cli[i].carries ELSE None
\* executeCredentialsCommand() on the answer: a body that cannot be read, is too long
\* or is not JSON, a status that is no success, or the payload.
ExecuteCredentialsCommand(i, body) ==
  LET ok == cli[i].status \in 200..299 IN
  /\ cli[i].phase = "answered"
  /\ cli' = [cli EXCEPT ![i].phase = "over",
                        ![i].shown = IF ok /\ body = "json" THEN FormatCredentialsSuccess(i) ELSE None,
                        ![i].exit = IF body = "oversized" THEN EXIT_SERVER
                                    ELSE IF body = "unreadable" \/ ~ok THEN SanitizeCredentialsError(cli[i].status)
                                    ELSE IF body = "malformed" THEN EXIT_SERVER ELSE EXIT_SUCCESS]
  /\ UNCHANGED <<rows, idem, restarts>>

Next ==
  \/ \E i \in Invocations :
       \/ \E args \in Arguments, file \in TokenFile, env \in TokenEnv, id \in {Given} \cup {j \in Invocations : rows[j].status # None} :
            Main(i, args, file, env, IF args.op = "create" THEN i ELSE id)
       \/ (\E answered \in BOOLEAN : HandleAdminCredentialsRequest(i, answered)) \/ Unavailable(i)
       \/ FetchFails(i) \/ RequestLost(i)
       \/ \E body \in {"json", "oversized", "unreadable", "malformed"} : ExecuteCredentialsCommand(i, body)
  \/ IsolateEnds

Spec == Init /\ [][Next]_vars

-----------------------------------------------------------------------------
\* However often the operator rotates a credential again after an answer was lost,
\* with the same key or another, before or after the isolate has forgotten the keys,
\* it has one successor: a link that was made never changes.
SuccessorStep == \A id \in CredentialIds : rows[id].to # None => rows'[id].to = rows[id].to

\* A secret is on the operator's screen at most once, and is then the one of its row.
ShownOnce ==
  \A i, j \in Invocations :
    /\ cli[i].shown # None /\ cli[i].shown = cli[j].shown => i = j
    /\ cli[i].shown # None => \E id \in CredentialIds : rows[id].secret = cli[i].shown

\* An exit code tells the truth though requests are handled late and answers lost:
\* success after the change was made, a wrong use or a refused token only if nothing
\* was, then and later; what failed otherwise may have been done.
ExitIsTrue ==
  \A i \in Invocations :
    /\ cli[i].exit \in {EXIT_USAGE, EXIT_AUTH} => ~cli[i].did
    /\ cli[i].exit = EXIT_SUCCESS /\ cli[i].req.op \in {"create", "revoke"} => cli[i].did
    /\ cli[i].exit = EXIT_SUCCESS /\ cli[i].req.op = "rotate" => cli[i].did \/ rows[cli[i].req.id].to # None
=============================================================================
