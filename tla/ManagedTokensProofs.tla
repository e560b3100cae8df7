------------------------- MODULE ManagedTokensProofs -------------------------
(***************************************************************************)
(* What holds of the managed credentials for every set of ids, operations, *)
(* requests and faults.  The argument is about one row at a time: RowEdit   *)
(* says what a statement of D1 may do to a row, every step of the          *)
(* specification makes such edits only (RowsStep), and an edit neither     *)
(* gives a secret another holder nor brings a row back into use.           *)
(*                                                                         *)
(* The other things kept for owners (OwnerParts) follow, each for any      *)
(* values of its constants: the asynchronous jobs, the executions of       *)
(* documents, the operator's command and the crawls.  At the end they      *)
(* stand side by side.                                                     *)
(***************************************************************************)
EXTENDS OwnerParts, FiniteSetsExt, SequenceTheorems, FiniteSetTheorems, TLAPS

Status == {None, "active", "rotating", "revoked"}
Secrets == Ids \cup Ops
Row == [status: Status, expires: Nat, until: Nat, to: Ids \cup {None}, from: Ids \cup {None},
        secret: Secrets \cup {None}]
OpPC == {"idle", "insert", "reread", "replay", "readOld", "rotate", "lostRace", "aborted", "update", "readBack"} \cup Answers
Op == [kind: {None, "create", "rotate", "revoke", "expire"}, pc: OpPC, id: Ids \cup {None}, new: Ids \cup {None}, given: BOOLEAN,
       key: IdemKeys \cup {None}, expires: Nat, at: Nat, row: Row, tries: 0..Retries]
ReqPC == {"idle", "lookup", "clock", "proxy", "sent", "served", "refused"}
Req == [pc: ReqPC, id: Ids \cup {None}, secret: Secrets \cup {None}, row: Row, minted: Nat, ended: BOOLEAN]

\* An operation that is under way names the rows that its statements are about.
NamesRows(q) ==
  /\ q.pc \in {"insert", "reread", "replay", "readOld", "rotate", "lostRace", "aborted"} => q.new \in Ids
  /\ q.pc \in {"replay", "readOld", "rotate", "lostRace", "aborted", "update", "readBack"} => q.id \in Ids

\* A request whose credential had ended when it came never gets past the clock.
Refusable(q, table, t) ==
  /\ q.pc = "lookup" => q.id \in Ids /\ table[q.id] # NoRow
  /\ q.ended => /\ q.pc \in {"lookup", "clock", "refused"}
                /\ q.pc = "lookup" => ~Usable(table[q.id], t)
                /\ q.pc = "clock" => ~Usable(q.row, t)

AuditOK == audit \in Seq(Answers) /\ Len(audit) <= MaxAudit
OpsOK == op \in [Ops -> Op] /\ \A o \in Ops : NamesRows(op[o])
IdemOK == idem \in Seq([id: Ids \cup {None}, key: IdemKeys \cup {None}]) /\ Len(idem) <= MaxIdem
RowsOK == rows \in [Ids -> Row] /\ \A id \in Ids : rows[id] # NoRow => rows[id].status # None
Lineage == \A a, b \in Ids : rows[a].to = b <=> rows[b].from = a
IssuedOK == issued \in SUBSET (Ids \X Secrets) /\ \A t \in issued : rows[t[1]] # NoRow /\ rows[t[1]].secret = t[2]
RequestsOK == req \in [Reqs -> Req] /\ \A r \in Reqs : Refusable(req[r], rows, now)

\* The inductive invariant.
IInv == now \in 0..MaxNow /\ AuditOK /\ OpsOK /\ IdemOK /\ RowsOK /\ Lineage /\ IssuedOK /\ RequestsOK

\* What a statement may make of a row b that was a: it keeps the secret and the
\* place in the table, its expiry comes no later, and its status moves towards its end.
RowEdit(a, b) ==
  \/ a = NoRow
  \/ /\ b.secret = a.secret /\ b.status # None /\ b.expires <= a.expires
     /\ \/ b.status = "revoked"
        \/ b.status = a.status /\ b.until = a.until
        \/ a.status = "active" /\ b.status = "rotating"
RowsStep == \A id \in Ids : RowEdit(rows[id], rows'[id])
\* Only tokens of rows that are there are handed out.
IssuedStep == \A t \in issued' : t \in issued \/ (t \in Ids \X Secrets /\ rows'[t[1]] # NoRow /\ rows'[t[1]].secret = t[2])

USE DEF None, Status, Secrets

-----------------------------------------------------------------------------
\* An edited row that was out of use is out of use at every later time.
LEMMA EditEnds ==
  ASSUME NEW a \in Row, NEW b \in Row, a # NoRow, RowEdit(a, b), NEW t \in Nat, NEW u \in Nat, t <= u, ~Usable(a, t)
  PROVE  ~Usable(b, u)
BY DEF RowEdit, Usable, Row

\* The constants of the state are of their types.
LEMMA Blanks == NoRow \in Row /\ NoOp \in Op /\ NoReq \in Req
<1>1. NoRow \in Row BY DEF NoRow, Row
<1>2. NoOp \in Op BY <1>1, LimitsAssumption DEF NoOp, Op, OpPC, Answers
<1>3. NoReq \in Req BY <1>1 DEF NoReq, Req, ReqPC
<1> QED BY <1>1, <1>2, <1>3

\* A new row is a row that is there, with the secret it was given.
LEMMA NewRowFacts ==
  ASSUME NEW o \in Secrets, NEW expires \in Nat, NEW from \in Ids \cup {None}
  PROVE  /\ NewRow(o, expires, from) \in Row /\ NewRow(o, expires, from) # NoRow
         /\ NewRow(o, expires, from).status = "active" /\ NewRow(o, expires, from).secret = o
         /\ NewRow(o, expires, from).to = None /\ NewRow(o, expires, from).from = from
         /\ NewRow(o, expires, from).expires = expires
BY DEF NewRow, NoRow, Row

\* The audit log keeps its bound when a record is added.
LEMMA LoggedType ==
  ASSUME AuditOK, NEW result \in Answers
  PROVE  Logged(result) \in Seq(Answers) /\ Len(Logged(result)) <= MaxAudit
<1> DEFINE all == Append(audit, result)
<1>1. all \in Seq(Answers) /\ Len(all) = Len(audit) + 1 BY DEF AuditOK
<1>2. Len(all) > MaxAudit => Tail(all) \in Seq(Answers) /\ Len(Tail(all)) = Len(all) - 1
  BY <1>1, LimitsAssumption
<1>3. Len(audit) \in Nat BY DEF AuditOK
<1> QED BY <1>1, <1>2, <1>3, LimitsAssumption DEF Logged, AuditOK

\* An answer ends an operation.
LEMMA AnswerType ==
  ASSUME AuditOK, OpsOK, NEW o \in Ops, NEW result \in Answers, Answer(o, result)
  PROVE  AuditOK' /\ OpsOK'
<1>1. result \in OpPC BY DEF OpPC
<1>2. AuditOK' BY <1>1, LoggedType DEF Answer, AuditOK
<1> DEFINE q == [NoOp EXCEPT !.kind = op[o].kind, !.pc = result]
<1>3. op[o] \in Op BY DEF OpsOK
<1>4. q \in Op /\ q.pc = result BY <1>1, <1>3, Blanks DEF Op, NoOp
<1>5. NamesRows(q) BY <1>4 DEF NamesRows, Answers
<1>6. op' = [op EXCEPT ![o] = q] BY DEF Answer
<1> HIDE DEF q
<1>7. OpsOK' BY <1>4, <1>5, <1>6 DEF OpsOK
<1> QED BY <1>2, <1>7

\* A move takes an operation to its next statement.
LEMMA MovesType ==
  ASSUME AuditOK, OpsOK, NEW o \in Ops, NEW q \in Op, NamesRows(q), Moves(o, q)
  PROVE  AuditOK' /\ OpsOK'
<1>1. AuditOK' BY DEF Moves, AuditOK
<1>2. OpsOK' BY DEF Moves, OpsOK
<1> QED BY <1>1, <1>2

\* The retry with another random id.
LEMMA CollidedType ==
  ASSUME AuditOK, OpsOK, NEW o \in Ops, NEW again \in {"insert", "rotate"}, Collided(o, again),
         again = "rotate" => op[o].id \in Ids
  PROVE  AuditOK' /\ OpsOK'
<1>1. CASE Answer(o, "conflict") BY <1>1, AnswerType DEF Answers
<1>2. ASSUME NEW id \in Ids, op[o].tries < Retries,
             Moves(o, [op[o] EXCEPT !.pc = again, !.new = id, !.tries = @ + 1])
      PROVE  AuditOK' /\ OpsOK'
  <2> DEFINE q == [op[o] EXCEPT !.pc = again, !.new = id, !.tries = @ + 1]
  <2>1. op[o] \in Op BY DEF OpsOK
  <2>a. op[o].tries \in 0..Retries BY <2>1 DEF Op
  <2>b. op[o].tries + 1 \in 0..Retries BY <1>2, <2>a, LimitsAssumption
  <2>2. q \in Op /\ q.pc = again /\ q.new = id /\ q.id = op[o].id BY <2>1, <2>b DEF Op, OpPC
  <2>3. NamesRows(q) BY <2>2 DEF NamesRows
  <2> HIDE DEF q
  <2>4. Moves(o, q) BY <1>2 DEF q
  <2> QED BY <2>2, <2>3, <2>4, MovesType
<1> QED BY <1>1, <1>2 DEF Collided

\* What an operation of each kind holds at its statements.
LEMMA OpFacts ==
  ASSUME OpsOK, NEW o \in Ops
  PROVE  /\ op[o] \in Op /\ NamesRows(op[o])
         /\ op[o].at \in Nat /\ op[o].expires \in Nat /\ op[o].row \in Row
         /\ op[o].tries \in 0..Retries
BY DEF OpsOK, Op

-----------------------------------------------------------------------------
\* The steps that leave every row alone.
LEMMA SameRows ==
  ASSUME RowsOK, Lineage, UNCHANGED rows
  PROVE  RowsOK' /\ Lineage' /\ RowsStep
<1>1. RowsOK' BY DEF RowsOK
<1>2. Lineage' BY DEF Lineage
<1>3. RowsStep BY DEF RowsStep, RowEdit, RowsOK, Row
<1> QED BY <1>1, <1>2, <1>3
\* A step that answers no create or rotate hands no token out.
LEMMA SameIssued == UNCHANGED issued => IssuedStep
BY DEF IssuedStep

\* A row whose id was free is inserted.
LEMMA InsertedRow ==
  ASSUME RowsOK, Lineage, NEW id \in Ids, rows[id] = NoRow, NEW o \in Ops, NEW e \in Nat,
         rows' = [rows EXCEPT ![id] = NewRow(o, e, None)]
  PROVE  RowsOK' /\ Lineage' /\ RowsStep /\ rows'[id] # NoRow /\ rows'[id].secret = o
<1> DEFINE n == NewRow(o, e, None)
<1>1. n \in Row /\ n # NoRow /\ n.status = "active" /\ n.secret = o /\ n.to = None /\ n.from = None
  BY NewRowFacts
<1>2. NoRow.to = None /\ NoRow.from = None BY DEF NoRow
<1> HIDE DEF n
<1>3. rows' = [rows EXCEPT ![id] = n] BY DEF n
<1>4. RowsOK' BY <1>1, <1>3 DEF RowsOK
<1>5. Lineage' BY <1>1, <1>2, <1>3, IdsAssumption DEF Lineage, RowsOK
<1>6. RowsStep BY <1>3 DEF RowsStep, RowEdit, RowsOK, Row
<1> QED BY <1>1, <1>3, <1>4, <1>5, <1>6 DEF RowsOK

\* An update of a row that is there: its links and its secret stay.
LEMMA UpdatedRow ==
  ASSUME RowsOK, Lineage, NEW id \in Ids, rows[id] # NoRow, NEW row \in Row,
         row.to = rows[id].to, row.from = rows[id].from, RowEdit(rows[id], row),
         rows' = [rows EXCEPT ![id] = row]
  PROVE  RowsOK' /\ Lineage' /\ RowsStep
<1>1. row.status # None BY DEF RowEdit
<1>2. RowsOK' BY <1>1 DEF RowsOK
<1>3. Lineage' BY DEF Lineage, RowsOK
<1>4. RowsStep BY DEF RowsStep, RowEdit, RowsOK, Row
<1> QED BY <1>2, <1>3, <1>4

\* The two statements of a rotation, in one transaction.
LEMMA RotatedRows ==
  ASSUME RowsOK, Lineage, NEW old \in Ids, NEW new \in Ids, new # old, NEW o \in Ops, NEW e \in Nat, NEW u \in Nat,
         Eligible(old), ~Exists(new),
         rows' = [rows EXCEPT ![new] = NewRow(o, e, old),
                              ![old] = [@ EXCEPT !.status = "rotating", !.until = u, !.to = new]]
  PROVE  RowsOK' /\ Lineage' /\ RowsStep /\ rows'[new] # NoRow /\ rows'[new].secret = o
<1> DEFINE n == NewRow(o, e, old)
           r == [rows[old] EXCEPT !.status = "rotating", !.until = u, !.to = new]
<1>1. n \in Row /\ n # NoRow /\ n.status = "active" /\ n.secret = o /\ n.to = None /\ n.from = old
  BY NewRowFacts
<1>2. rows[old] \in Row /\ rows[new] = NoRow BY DEF RowsOK, Exists
<1>3. r \in Row /\ r.status = "rotating" /\ r.to = new /\ r.from = rows[old].from /\ r.secret = rows[old].secret
      /\ r.expires = rows[old].expires
  BY <1>2 DEF Row
<1>4. NoRow.to = None /\ NoRow.from = None BY DEF NoRow
<1>5. rows[old].status = "active" /\ rows[old].to = None BY DEF Eligible
<1>6. rows' = [rows EXCEPT ![new] = n, ![old] = r] BY DEF RowsOK
<1> HIDE DEF n, r
<1>7. rows'[new] = n /\ rows'[old] = r /\ \A id \in Ids \ {old, new} : rows'[id] = rows[id]
  BY <1>6 DEF RowsOK
<1>8. RowsOK'
  <2>1. rows' \in [Ids -> Row] BY <1>1, <1>3, <1>6 DEF RowsOK
  <2>2. \A id \in Ids : rows'[id] # NoRow => rows'[id].status # None BY <1>1, <1>3, <1>7 DEF RowsOK
  <2> QED BY <2>1, <2>2 DEF RowsOK
<1>9. Lineage'
  <2> SUFFICES ASSUME NEW a \in Ids, NEW b \in Ids PROVE rows'[a].to = b <=> rows'[b].from = a
    BY DEF Lineage
  <2>1. \A x \in Ids : (rows[old].to = x <=> rows[x].from = old) /\ (rows[x].to = new <=> rows[new].from = x)
    BY DEF Lineage
  <2>2. \A x \in Ids : rows[x].from # old /\ rows[x].to # new BY <2>1, <1>2, <1>4, <1>5, IdsAssumption
  <2>3. rows[a].to = b <=> rows[b].from = a BY DEF Lineage
  <2>4. /\ a = old => rows'[a].to = new
        /\ a = new => rows'[a].to = None
        /\ a \notin {old, new} => rows'[a].to = rows[a].to
    BY <1>1, <1>3, <1>7, Zenon
  <2>5. /\ b = old => rows'[b].from = rows[b].from
        /\ b = new => rows'[b].from = old
        /\ b \notin {old, new} => rows'[b].from = rows[b].from
    BY <1>1, <1>3, <1>7, Zenon
  <2>6. rows[new].to = None /\ rows[new].from = None BY <1>2, <1>4
  <2> QED BY <2>2, <2>3, <2>4, <2>5, <2>6, IdsAssumption
<1>10. RowsStep
  <2> SUFFICES ASSUME NEW id \in Ids PROVE RowEdit(rows[id], rows'[id]) BY DEF RowsStep
  <2>1. CASE id = new BY <2>1, <1>2 DEF RowEdit
  <2>2. CASE id = old BY <2>2, <1>2, <1>3, <1>5, <1>7 DEF RowEdit, Row
  <2>3. CASE id \notin {old, new} BY <2>3, <1>7 DEF RowEdit, RowsOK, Row
  <2> QED BY <2>1, <2>2, <2>3
<1> QED BY <1>1, <1>7, <1>8, <1>9, <1>10

\* The two updates of one row.
LEMMA UpdateFacts ==
  ASSUME NEW r \in Row, r # NoRow => r.status # None, r # NoRow, NEW at \in Nat
  PROVE  /\ Revoked(r, at) \in Row /\ Revoked(r, at).to = r.to /\ Revoked(r, at).from = r.from
         /\ RowEdit(r, Revoked(r, at))
         /\ Expired(r, at) \in Row /\ Expired(r, at).to = r.to /\ Expired(r, at).from = r.from
         /\ RowEdit(r, Expired(r, at))
<1>1. /\ Revoked(r, at) \in Row /\ Revoked(r, at).to = r.to /\ Revoked(r, at).from = r.from
      /\ RowEdit(r, Revoked(r, at))
  BY DEF Revoked, RowEdit, Row
<1> DEFINE e == IF r.expires > at THEN at ELSE r.expires
<1>2. e \in Nat /\ e <= r.expires BY DEF Row
<1>3. Expired(r, at) = [r EXCEPT !.expires = e] BY DEF Expired, Row
<1> HIDE DEF e
<1>4. /\ Expired(r, at) \in Row /\ Expired(r, at).to = r.to /\ Expired(r, at).from = r.from
      /\ RowEdit(r, Expired(r, at))
  BY <1>2, <1>3 DEF RowEdit, Row
<1> QED BY <1>1, <1>4

-----------------------------------------------------------------------------
\* What an admin operation's step does to the state that the operations share.
Admin == AuditOK /\ OpsOK /\ IdemOK /\ RowsOK /\ Lineage
AdminEffect == AuditOK' /\ OpsOK' /\ IdemOK' /\ RowsOK' /\ Lineage' /\ RowsStep /\ IssuedStep /\ UNCHANGED <<now, req>>

\* A step that only moves or answers an operation.
LEMMA QuietEffect ==
  ASSUME Admin, AuditOK', OpsOK', UNCHANGED <<now, rows, idem, req, issued>>
  PROVE  AdminEffect
<1>1. IdemOK' BY DEF Admin, IdemOK
<1> QED BY <1>1, SameRows, SameIssued DEF Admin, AdminEffect

\* createManagedCredential(), rotateManagedCredential(), revokeById(), expireById().
LEMMA BeginEffect ==
  ASSUME Admin, NEW o \in Ops, now \in 0..MaxNow
  PROVE  /\ \A id \in Ids, given \in BOOLEAN, e \in Expiries : CreateManagedCredential(o, id, given, e) => AdminEffect
         /\ \A id \in Ids, new \in Ids, key \in IdemKeys \cup {None}, given \in BOOLEAN :
              RotateManagedCredential(o, id, key, new, given) => AdminEffect
         /\ \A kind \in {"revoke", "expire"}, id \in Ids : Begin(o, kind, id) => AdminEffect
<1>0. now \in Nat BY LimitsAssumption
<1>1. ASSUME NEW id \in Ids, NEW given \in BOOLEAN, NEW e \in Expiries, CreateManagedCredential(o, id, given, e)
      PROVE AdminEffect
  <2> DEFINE q == [NoOp EXCEPT !.kind = "create", !.pc = "insert", !.new = id, !.given = given, !.expires = e, !.at = now]
  <2>0. e \in Nat BY ExpiriesAssumption
  <2>1. q \in Op /\ q.pc = "insert" /\ q.new = id BY <1>0, <2>0, Blanks DEF Op, NoOp, OpPC
  <2>2. NamesRows(q) BY <2>1 DEF NamesRows
  <2>3. Moves(o, q) BY <1>1 DEF CreateManagedCredential
  <2> HIDE DEF q
  <2>4. AuditOK' /\ OpsOK' BY <2>1, <2>2, <2>3, MovesType DEF Admin
  <2> QED BY <1>1, <2>4, QuietEffect DEF CreateManagedCredential
<1>2. ASSUME NEW id \in Ids, NEW new \in Ids, NEW key \in IdemKeys \cup {None}, NEW given \in BOOLEAN,
             RotateManagedCredential(o, id, key, new, given)
      PROVE AdminEffect
  <2> DEFINE q == [NoOp EXCEPT !.kind = "rotate", !.id = id, !.key = key, !.new = new, !.given = given, !.at = now]
             pc == IF Replays(id, key) # {} THEN "replay" ELSE "readOld"
             p == [q EXCEPT !.pc = pc]
  <2>1. q \in Op /\ q.new = new /\ q.id = id BY <1>0, Blanks DEF Op, NoOp, OpPC
  <2>2. pc \in {"replay", "readOld"} OBVIOUS
  <2>3. Moves(o, p) BY <1>2 DEF RotateManagedCredential
  <2> HIDE DEF q, pc
  <2>4. p \in Op /\ p.pc = pc /\ p.id = id /\ p.new = new BY <2>1, <2>2 DEF Op, OpPC
  <2> HIDE DEF p
  <2>5. NamesRows(p) BY <2>2, <2>4 DEF NamesRows
  <2>6. AuditOK' /\ OpsOK' BY <2>3, <2>4, <2>5, MovesType DEF Admin
  <2> QED BY <1>2, <2>6, QuietEffect DEF RotateManagedCredential
<1>3. ASSUME NEW kind \in {"revoke", "expire"}, NEW id \in Ids, Begin(o, kind, id)
      PROVE AdminEffect
  <2> DEFINE q == [NoOp EXCEPT !.kind = kind, !.pc = "update", !.id = id, !.at = now]
  <2>1. q \in Op /\ q.pc = "update" /\ q.id = id BY <1>0, Blanks DEF Op, NoOp, OpPC
  <2>2. NamesRows(q) BY <2>1 DEF NamesRows
  <2>3. Moves(o, q) BY <1>3 DEF Begin
  <2> HIDE DEF q
  <2>4. AuditOK' /\ OpsOK' BY <2>1, <2>2, <2>3, MovesType DEF Admin
  <2> QED BY <1>3, <2>4, QuietEffect DEF Begin
<1> QED BY <1>1, <1>2, <1>3

\* The statements of an operation that only read.
LEMMA ReadEffect ==
  ASSUME Admin, NEW o \in Ops, NEW outcome \in Outcomes,
         \/ Reread(o, outcome) \/ Replay(o, outcome) \/ ReadOld(o, outcome) \/ LostRace(o, outcome)
         \/ Aborted(o, outcome) \/ ReadBack(o, outcome) \/ RedrawId(o)
  PROVE  AdminEffect
<1>1. UNCHANGED <<now, rows, idem, req, issued>>
  BY DEF Reread, Replay, ReadOld, LostRace, Aborted, ReadBack, RedrawId
<1>2. op[o] \in Op /\ NamesRows(op[o]) BY OpFacts DEF Admin
<1>3. ASSUME NEW result \in Answers, Answer(o, result) PROVE AuditOK' /\ OpsOK'
  BY <1>3, AnswerType DEF Admin
<1>4. CASE Reread(o, outcome)
  <2>1. Answer(o, "unavailable") \/ Collided(o, "insert") BY <1>4 DEF Reread
  <2>2. "unavailable" \in Answers BY DEF Answers
  <2>3. AuditOK' /\ OpsOK' BY <1>3, <2>1, <2>2, CollidedType DEF Admin
  <2> QED BY <1>1, <2>3, QuietEffect
<1>5. CASE Replay(o, outcome)
  <2>1. \E result \in Answers : Answer(o, result) BY <1>5 DEF Replay, Answers
  <2> QED BY <1>1, <1>3, <2>1, QuietEffect
<1>6. CASE ReadOld(o, outcome)
  <2>1. ASSUME op[o].pc = "readOld", Moves(o, [op[o] EXCEPT !.pc = "rotate", !.row = rows[op[o].id]]), op[o].id \in Ids,
               op[o].new \in Ids
        PROVE AuditOK' /\ OpsOK'
    <3> DEFINE q == [op[o] EXCEPT !.pc = "rotate", !.row = rows[op[o].id]]
    <3>1. rows[op[o].id] \in Row BY <2>1 DEF Admin, RowsOK
    <3>2. q \in Op /\ q.id = op[o].id /\ q.new = op[o].new BY <1>2, <3>1 DEF Op, OpPC
    <3>3. NamesRows(q) BY <2>1, <3>2 DEF NamesRows
    <3> QED BY <2>1, <3>2, <3>3, MovesType DEF Admin
  <2>2. (\E result \in Answers : Answer(o, result)) \/ Moves(o, [op[o] EXCEPT !.pc = "rotate", !.row = rows[op[o].id]])
    BY <1>6 DEF ReadOld, Answers
  <2>3. op[o].pc = "readOld" BY <1>6 DEF ReadOld
  <2>4. op[o].id \in Ids BY <1>2, <2>3 DEF NamesRows
  <2>5. op[o].new \in Ids BY <1>2, <2>3 DEF NamesRows
  <2> QED BY <1>1, <1>3, <2>1, <2>2, <2>3, <2>4, <2>5, QuietEffect
<1>7. CASE LostRace(o, outcome)
  <2>1. \E result \in Answers : Answer(o, result) BY <1>7 DEF LostRace, Answers
  <2> QED BY <1>1, <1>3, <2>1, QuietEffect
<1>8. CASE Aborted(o, outcome)
  <2>1. (\E result \in Answers : Answer(o, result)) \/ Collided(o, "rotate") BY <1>8 DEF Aborted, Answers
  <2>2. op[o].id \in Ids BY <1>2, <1>8 DEF Aborted, NamesRows
  <2>3. AuditOK' /\ OpsOK' BY <1>3, <2>1, <2>2, CollidedType DEF Admin
  <2> QED BY <1>1, <2>3, QuietEffect
<1>9. CASE ReadBack(o, outcome)
  <2>1. \E result \in Answers : Answer(o, result) BY <1>9 DEF ReadBack, Answers
  <2> QED BY <1>1, <1>3, <2>1, QuietEffect
<1>10. CASE RedrawId(o)
  <2>1. Collided(o, "rotate") /\ op[o].id \in Ids BY <1>2, <1>10 DEF RedrawId, NamesRows
  <2>2. AuditOK' /\ OpsOK' BY <2>1, CollidedType DEF Admin
  <2> QED BY <1>1, <2>2, QuietEffect
<1> QED BY <1>4, <1>5, <1>6, <1>7, <1>8, <1>9, <1>10

\* insert(): it applies to an id that is free, and answers only when it applied.
LEMMA InsertEffect ==
  ASSUME Admin, NEW o \in Ops, NEW outcome \in Outcomes, Insert(o, outcome)
  PROVE  AdminEffect
<1> DEFINE id == op[o].new
           q == [op[o] EXCEPT !.pc = "reread"]
<1>1. op[o] \in Op /\ NamesRows(op[o]) /\ op[o].expires \in Nat BY OpFacts DEF Admin
<1>2. id \in Ids BY <1>1 DEF Insert, NamesRows
<1>3. q \in Op /\ q.pc = "reread" /\ q.new = id BY <1>1 DEF Op, OpPC
<1>4. NamesRows(q) BY <1>2, <1>3 DEF NamesRows
<1>5. AuditOK' /\ OpsOK'
  <2>1. Answer(o, "ok") \/ Moves(o, q) BY DEF Insert
  <2>2. "ok" \in Answers BY DEF Answers
  <2> HIDE DEF q
  <2> QED BY <1>3, <1>4, <2>1, <2>2, AnswerType, MovesType DEF Admin
<1>6. IdemOK' /\ UNCHANGED <<now, req>> BY DEF Insert, Admin, IdemOK
<1>7. RowsOK' /\ Lineage' /\ RowsStep /\ (outcome # "down" /\ ~Exists(id) => rows'[id] # NoRow /\ rows'[id].secret = o)
  <2>1. CASE outcome # "down" /\ ~Exists(id)
    <3>1. rows' = [rows EXCEPT ![id] = NewRow(o, op[o].expires, None)] BY <2>1 DEF Insert
    <3> QED BY <3>1, <2>1, <1>1, <1>2, InsertedRow DEF Admin, Exists
  <2>2. CASE ~(outcome # "down" /\ ~Exists(id))
    <3>1. rows' = rows BY <2>2 DEF Insert
    <3> QED BY <2>2, <3>1, SameRows DEF Admin
  <2> QED BY <2>1, <2>2
<1>8. IssuedStep
  <2>1. CASE UNCHANGED issued BY <2>1, SameIssued
  <2>2. CASE outcome = "ok" /\ ~Exists(id) /\ issued' = issued \cup {<<id, o>>}
    <3>1. <<id, o>> \in Ids \X Secrets BY <1>2
    <3>2. rows'[id] # NoRow /\ rows'[id].secret = o BY <1>7, <2>2
    <3> QED BY <2>2, <3>1, <3>2 DEF IssuedStep
  <2> QED BY <2>1, <2>2 DEF Insert
<1> QED BY <1>5, <1>6, <1>7, <1>8 DEF AdminEffect

\* The idempotency store keeps its bound.
LEMMA RememberedType ==
  ASSUME IdemOK, NEW o \in Ops, op[o] \in Op
  PROVE  /\ Remembered(o) \in Seq([id: Ids \cup {None}, key: IdemKeys \cup {None}])
         /\ Len(Remembered(o)) <= MaxIdem
<1> DEFINE S == [id: Ids \cup {None}, key: IdemKeys \cup {None}]
           e == [id |-> op[o].id, key |-> op[o].key]
           all == Append(idem, e)
<1>1. e \in S BY DEF Op
<1> HIDE DEF e, S
<1>2. idem \in Seq(S) /\ Len(idem) \in Nat /\ Len(idem) <= MaxIdem BY DEF IdemOK, S
<1>3. all \in Seq(S) /\ Len(all) = Len(idem) + 1 BY <1>1, <1>2
<1>4. Tail(all) \in Seq(S) /\ Len(Tail(all)) = Len(idem) BY <1>2, <1>3
<1>5. Remembered(o) = IF op[o].key = None THEN idem ELSE IF Len(idem) >= MaxIdem THEN Tail(all) ELSE all
  BY DEF Remembered, e
<1> HIDE DEF all
<1>6. Remembered(o) \in Seq(S) /\ Len(Remembered(o)) <= MaxIdem
  BY <1>2, <1>3, <1>4, <1>5, LimitsAssumption
<1> QED BY <1>6 DEF S

\* tryRotate(): both statements or none.
LEMMA TryRotateEffect ==
  ASSUME Admin, NEW o \in Ops, NEW outcome \in Outcomes, TryRotate(o, outcome)
  PROVE  AdminEffect
<1> DEFINE old == op[o].id
           new == op[o].new
           applies == outcome # "down" /\ Eligible(old) /\ ~Exists(new)
<1>1. op[o] \in Op /\ NamesRows(op[o]) /\ op[o].row \in Row /\ op[o].at \in Nat BY OpFacts DEF Admin
<1>2. old \in Ids /\ new \in Ids /\ new # old BY <1>1 DEF TryRotate, NamesRows
<1>3. op[o].row.expires \in Nat /\ op[o].at + Overlap \in Nat BY <1>1, LimitsAssumption DEF Row
<1>4. ASSUME NEW pc \in {"lostRace", "aborted"}, Moves(o, [op[o] EXCEPT !.pc = pc]) PROVE AuditOK' /\ OpsOK'
  <2> DEFINE q == [op[o] EXCEPT !.pc = pc]
  <2>1. q \in Op /\ q.id = old /\ q.new = new BY <1>1 DEF Op, OpPC
  <2>2. NamesRows(q) BY <1>2, <2>1 DEF NamesRows
  <2> QED BY <1>4, <2>1, <2>2, MovesType DEF Admin
<1>5. AuditOK' /\ OpsOK'
  <2>1. "ok" \in Answers BY DEF Answers
  <2> QED BY <1>4, <2>1, AnswerType DEF TryRotate, Admin
<1>6. IdemOK'
  <2>1. idem' = idem \/ idem' = Remembered(o) BY DEF TryRotate
  <2> QED BY <1>1, <2>1, RememberedType DEF Admin, IdemOK
<1>7. RowsOK' /\ Lineage' /\ RowsStep /\ (applies => rows'[new] # NoRow /\ rows'[new].secret = o)
  <2>1. CASE applies
    <3>1. rows' = [rows EXCEPT ![new] = NewRow(o, op[o].row.expires, old),
                               ![old] = [@ EXCEPT !.status = "rotating", !.until = op[o].at + Overlap, !.to = new]]
      BY <2>1 DEF TryRotate
    <3> QED BY <3>1, <2>1, <1>2, <1>3, RotatedRows DEF Admin
  <2>2. CASE ~applies
    <3>1. rows' = rows BY <2>2 DEF TryRotate
    <3> QED BY <2>2, <3>1, SameRows DEF Admin
  <2> QED BY <2>1, <2>2
<1>8. IssuedStep
  <2>1. CASE UNCHANGED issued BY <2>1, SameIssued
  <2>2. CASE applies /\ issued' = issued \cup {<<new, o>>}
    <3>1. <<new, o>> \in Ids \X Secrets BY <1>2
    <3>2. rows'[new] # NoRow /\ rows'[new].secret = o BY <1>7, <2>2
    <3> QED BY <2>2, <3>1, <3>2 DEF IssuedStep
  <2> QED BY <2>1, <2>2 DEF TryRotate
<1>9. UNCHANGED <<now, req>> BY DEF TryRotate
<1> QED BY <1>5, <1>6, <1>7, <1>8, <1>9 DEF AdminEffect

\* revokeById() and expireById().
LEMMA UpdateEffect ==
  ASSUME Admin, NEW o \in Ops, NEW outcome \in Outcomes, Update(o, outcome)
  PROVE  AdminEffect
<1> DEFINE id == op[o].id
           row == IF op[o].kind = "revoke" THEN Revoked(rows[id], op[o].at) ELSE Expired(rows[id], op[o].at)
           q == [op[o] EXCEPT !.pc = "readBack"]
<1>1. op[o] \in Op /\ NamesRows(op[o]) /\ op[o].at \in Nat BY OpFacts DEF Admin
<1>2. id \in Ids BY <1>1 DEF Update, NamesRows
<1>3. AuditOK' /\ OpsOK'
  <2>1. q \in Op /\ q.id = id /\ q.pc = "readBack" BY <1>1 DEF Op, OpPC
  <2>2. NamesRows(q) BY <1>2, <2>1 DEF NamesRows
  <2>3. Answer(o, "unavailable") \/ Moves(o, q) BY DEF Update
  <2>4. "unavailable" \in Answers BY DEF Answers
  <2> HIDE DEF q
  <2> QED BY <2>1, <2>2, <2>3, <2>4, AnswerType, MovesType DEF Admin
<1>4. RowsOK' /\ Lineage' /\ RowsStep
  <2>1. CASE outcome # "down" /\ Exists(id)
    <3>1. rows' = [rows EXCEPT ![id] = row] BY <2>1 DEF Update
    <3>2. rows[id] \in Row /\ rows[id] # NoRow /\ rows[id].status # None BY <1>2, <2>1 DEF Admin, RowsOK, Exists
    <3>3. row \in Row /\ row.to = rows[id].to /\ row.from = rows[id].from /\ RowEdit(rows[id], row)
      BY <1>1, <3>2, UpdateFacts
    <3> HIDE DEF row
    <3> QED BY <1>2, <3>1, <3>2, <3>3, UpdatedRow DEF Admin
  <2>2. CASE ~(outcome # "down" /\ Exists(id))
    <3>1. rows' = rows BY <2>2 DEF Update
    <3> QED BY <3>1, SameRows DEF Admin
  <2> QED BY <2>1, <2>2
<1>5. UNCHANGED <<now, req, idem, issued>> BY DEF Update
<1>6. IdemOK' BY <1>5 DEF Admin, IdemOK
<1> QED BY <1>3, <1>4, <1>5, <1>6, SameIssued DEF AdminEffect

\* Every step of an admin operation.
LEMMA AdminStepEffect ==
  ASSUME Admin, now \in 0..MaxNow, NEW o \in Ops, AdminStep(o)
  PROVE  AdminEffect
<1>1. CASE RedrawId(o)
  <2>1. "ok" \in Outcomes BY DEF Outcomes
  <2> QED BY <1>1, <2>1, ReadEffect
<1>2. ASSUME NEW outcome \in Outcomes, Insert(o, outcome) \/ TryRotate(o, outcome) \/ Update(o, outcome) PROVE AdminEffect
  BY <1>2, InsertEffect, TryRotateEffect, UpdateEffect
<1>3. ASSUME NEW outcome \in Outcomes,
             \/ Reread(o, outcome) \/ Replay(o, outcome) \/ ReadOld(o, outcome) \/ LostRace(o, outcome)
             \/ Aborted(o, outcome) \/ ReadBack(o, outcome)
      PROVE AdminEffect
  BY <1>3, ReadEffect
<1>4. CASE \/ \E id \in Ids, given \in BOOLEAN, e \in Expiries : CreateManagedCredential(o, id, given, e)
           \/ \E id, new \in Ids, key \in IdemKeys \cup {None}, given \in BOOLEAN :
                (given => new # id) /\ RotateManagedCredential(o, id, key, new, given)
           \/ \E kind \in {"revoke", "expire"}, id \in Ids : Begin(o, kind, id)
  BY <1>4, BeginEffect
<1> QED BY <1>1, <1>2, <1>3, <1>4 DEF AdminStep

-----------------------------------------------------------------------------
\* A request that is under way stays refusable when rows are edited and time passes.
LEMMA RefusableStays ==
  ASSUME RowsOK, RowsOK', RowsStep, now \in Nat, now' \in Nat, now <= now', NEW q \in Req, Refusable(q, rows, now)
  PROVE  Refusable(q, rows', now')
<1>2. q.row \in Row BY DEF Req
<1>3. CASE q.pc = "lookup"
  <2>1. q.id \in Ids /\ rows[q.id] # NoRow BY <1>3 DEF Refusable
  <2>2. rows[q.id] \in Row /\ rows'[q.id] \in Row /\ RowEdit(rows[q.id], rows'[q.id]) BY <2>1 DEF RowsOK, RowsStep
  <2>3. rows'[q.id] # NoRow BY <2>1, <2>2 DEF RowEdit, NoRow
  <2>4. q.ended => ~Usable(rows'[q.id], now') BY <1>3, <2>1, <2>2, EditEnds DEF Refusable
  <2> QED BY <1>3, <2>1, <2>3, <2>4 DEF Refusable
<1>4. CASE q.pc = "clock"
  <2>1. q.ended => ~Usable(q.row, now') BY <1>2, <1>4 DEF Refusable, Usable, Row
  <2> QED BY <1>4, <2>1 DEF Refusable
<1>5. CASE q.pc \notin {"lookup", "clock"} BY <1>5 DEF Refusable
<1> QED BY <1>3, <1>4, <1>5

\* A token stays the token of its row, and so does every request refusable.
LEMMA EditsKeep ==
  ASSUME IInv, RowsOK', RowsStep, IssuedStep, UNCHANGED req, now' \in 0..MaxNow, now <= now'
  PROVE  IssuedOK' /\ RequestsOK'
<1>1. now \in Nat /\ now' \in Nat BY LimitsAssumption DEF IInv
<1>2. ASSUME NEW t \in issued' PROVE t \in Ids \X Secrets /\ rows'[t[1]] # NoRow /\ rows'[t[1]].secret = t[2]
  <2>1. CASE t \in issued
    <3>1. t \in Ids \X Secrets /\ rows[t[1]] # NoRow /\ rows[t[1]].secret = t[2] BY <2>1 DEF IInv, IssuedOK
    <3>2. RowEdit(rows[t[1]], rows'[t[1]]) BY <3>1 DEF RowsStep
    <3>3. rows'[t[1]].secret = rows[t[1]].secret /\ rows'[t[1]].status # None BY <3>1, <3>2 DEF RowEdit
    <3> QED BY <3>1, <3>3 DEF NoRow
  <2>2. CASE t \notin issued BY <2>2 DEF IssuedStep
  <2> QED BY <2>1, <2>2
<1>3. IssuedOK' BY <1>2 DEF IssuedOK
<1>4. ASSUME NEW r \in Reqs PROVE Refusable(req[r], rows', now')
  <2>1. req[r] \in Req /\ Refusable(req[r], rows, now) BY DEF IInv, RequestsOK
  <2> QED BY <1>1, <2>1, RefusableStays DEF IInv
<1>5. RequestsOK' BY <1>4 DEF IInv, RequestsOK
<1> QED BY <1>3, <1>5

-----------------------------------------------------------------------------
\* An answered request keeps what it knew when it came.
LEMMA DoneFacts ==
  ASSUME NEW q \in Req, NEW pc \in ReqPC
  PROVE  Done(q, pc) \in Req /\ Done(q, pc).pc = pc /\ Done(q, pc).ended = q.ended
BY Blanks DEF Done, NoReq, Req

\* A step of a request leaves the credentials alone and keeps the request refusable.
RequestEffect(r) ==
  /\ UNCHANGED <<now, rows, idem, audit, op, issued>>
  /\ \E q \in Req : Refusable(q, rows, now) /\ req' = [req EXCEPT ![r] = q]

\* A request at the edge reads rows and writes only what it carries itself.
LEMMA RequestStepEffect ==
  ASSUME IInv, NEW r \in Reqs, RequestStep(r)
  PROVE  RequestEffect(r)
<1> DEFINE was == req[r]
<1>0. was \in Req /\ Refusable(was, rows, now) /\ now \in Nat BY LimitsAssumption DEF IInv, RequestsOK
<1>1. ASSUME NEW pc \in ReqPC, NEW q \in Req, q.ended => pc = "refused", pc # "lookup" , pc # "clock"
      PROVE  Done(q, pc) \in Req /\ Refusable(Done(q, pc), rows, now)
  BY <1>1, DoneFacts DEF Refusable
<1>2. ASSUME NEW token \in issued, ManagedRequest(r, token) PROVE RequestEffect(r)
  <2> DEFINE q == [NoReq EXCEPT !.pc = "lookup", !.id = token[1], !.secret = token[2],
                                !.ended = ~Usable(rows[token[1]], now)]
  <2>1. token[1] \in Ids /\ token[2] \in Secrets /\ rows[token[1]] # NoRow BY DEF IInv, IssuedOK
  <2>2. (~Usable(rows[token[1]], now)) \in BOOLEAN OBVIOUS
  <2>3. q \in Req /\ q.pc = "lookup" /\ q.id = token[1] /\ q.ended = ~Usable(rows[token[1]], now)
    BY <2>1, <2>2, Blanks DEF Req, NoReq, ReqPC
  <2>4. req' = [req EXCEPT ![r] = q] /\ UNCHANGED <<now, rows, idem, audit, op, issued>>
    BY <1>2 DEF ManagedRequest, HandleWorkerRequest
  <2> HIDE DEF q
  <2>5. Refusable(q, rows, now) BY <2>1, <2>3 DEF Refusable
  <2> QED BY <2>3, <2>4, <2>5 DEF RequestEffect
<1>3. CASE AdminRequest(r) \/ StaticRequest(r) \/ OAuthRequest(r)
  <2>1. PICK pc \in {"refused", "proxy"} : HandleWorkerRequest(r, Done(NoReq, pc))
    BY <1>3 DEF AdminRequest, StaticRequest, OAuthRequest
  <2>2. ~NoReq.ended BY DEF NoReq
  <2>3. Done(NoReq, pc) \in Req /\ Refusable(Done(NoReq, pc), rows, now) BY <1>1, <2>2, Blanks DEF ReqPC
  <2> QED BY <2>1, <2>3 DEF HandleWorkerRequest, RequestEffect
<1>4. ASSUME NEW outcome \in {"ok", "down"}, LookUp(r, outcome) PROVE RequestEffect(r)
  <2> DEFINE row == rows[was.id]
             q == [was EXCEPT !.pc = "clock", !.row = row]
  <2>1. was.pc = "lookup" /\ UNCHANGED <<now, rows, idem, audit, op, issued>> BY <1>4 DEF LookUp
  <2>2. row \in Row BY <1>0, <2>1 DEF Refusable, IInv, RowsOK
  <2>3. q \in Req /\ q.pc = "clock" /\ q.row = row /\ q.ended = was.ended BY <1>0, <2>2 DEF Req, ReqPC
  <2>4. Refusable(q, rows, now) BY <1>0, <2>1, <2>3 DEF Refusable
  <2>5. Done(was, "refused") \in Req /\ Refusable(Done(was, "refused"), rows, now) BY <1>0, <1>1 DEF ReqPC
  <2>6. req' = [req EXCEPT ![r] = q] \/ req' = [req EXCEPT ![r] = Done(was, "refused")] BY <1>4 DEF LookUp
  <2> HIDE DEF q, was
  <2> QED BY <2>1, <2>3, <2>4, <2>5, <2>6 DEF RequestEffect
<1>5. CASE AuthenticateManagedToken(r)
  <2> DEFINE pc == IF Usable(was.row, now) THEN "proxy" ELSE "refused"
  <2>1. was.pc = "clock" /\ UNCHANGED <<now, rows, idem, audit, op, issued>> BY <1>5 DEF AuthenticateManagedToken
  <2>2. req' = [req EXCEPT ![r] = Done(was, pc)] BY <1>5 DEF AuthenticateManagedToken
  <2>3. was.ended => pc = "refused" BY <1>0, <2>1 DEF Refusable
  <2>4. pc \in {"proxy", "refused"} OBVIOUS
  <2> HIDE DEF pc, was
  <2>5. Done(was, pc) \in Req /\ Refusable(Done(was, pc), rows, now) BY <1>0, <1>1, <2>3, <2>4 DEF ReqPC
  <2> QED BY <2>1, <2>2, <2>5 DEF RequestEffect
<1>6. CASE MintInternalContext(r)
  <2> DEFINE q == [was EXCEPT !.pc = "sent", !.minted = now]
  <2>1. was.pc = "proxy" /\ UNCHANGED <<now, rows, idem, audit, op, issued>> BY <1>6 DEF MintInternalContext
  <2>2. q \in Req /\ q.pc = "sent" /\ q.ended = was.ended BY <1>0 DEF Req, ReqPC
  <2>3. ~was.ended BY <1>0, <2>1 DEF Refusable
  <2>4. Refusable(q, rows, now) BY <2>2, <2>3 DEF Refusable
  <2>5. req' = [req EXCEPT ![r] = q] BY <1>6 DEF MintInternalContext, IInv, RequestsOK
  <2> QED BY <2>1, <2>2, <2>4, <2>5 DEF RequestEffect
<1>7. ASSUME NEW starts \in BOOLEAN, VerifyContainerAuth(r, starts) PROVE RequestEffect(r)
  <2>1. was.pc = "sent" /\ UNCHANGED <<now, rows, idem, audit, op, issued>> BY <1>7 DEF VerifyContainerAuth
  <2>2. PICK pc \in {"served", "refused"} : req' = [req EXCEPT ![r] = Done(was, pc)] BY <1>7 DEF VerifyContainerAuth
  <2>3. ~was.ended BY <1>0, <2>1 DEF Refusable
  <2>4. Done(was, pc) \in Req /\ Refusable(Done(was, pc), rows, now) BY <1>0, <1>1, <2>3 DEF ReqPC
  <2> QED BY <2>1, <2>2, <2>4 DEF RequestEffect
<1> QED BY <1>2, <1>3, <1>4, <1>5, <1>6, <1>7 DEF RequestStep

\* A step of a request keeps IInv.
LEMMA RequestKeeps ==
  ASSUME IInv, NEW r \in Reqs, RequestEffect(r)
  PROVE  IInv'
<1>1. UNCHANGED <<now, rows, idem, audit, op, issued>> BY DEF RequestEffect
<1>2. RequestsOK' BY DEF RequestEffect, IInv, RequestsOK
<1>3. AuditOK' /\ OpsOK' /\ IdemOK' BY <1>1 DEF IInv, AuditOK, OpsOK, IdemOK
<1>4. RowsOK' /\ Lineage' /\ IssuedOK' BY <1>1 DEF IInv, RowsOK, Lineage, IssuedOK
<1> QED BY <1>1, <1>2, <1>3, <1>4 DEF IInv

\* A restart of the isolate ends its operations and empties its maps.
LEMMA RestartKeeps ==
  ASSUME IInv, Restart
  PROVE  IInv'
<1>1. UNCHANGED <<now, rows, req, issued>> /\ idem' = <<>> /\ audit' = <<>> BY DEF Restart
<1>2. AuditOK' /\ IdemOK' BY <1>1, LimitsAssumption DEF AuditOK, IdemOK
<1>3. RowsOK' /\ Lineage' /\ IssuedOK' BY <1>1 DEF IInv, RowsOK, Lineage, IssuedOK
<1>4. RequestsOK' BY <1>1 DEF IInv, RequestsOK
<1>5. ASSUME NEW o \in Ops PROVE op'[o] \in Op /\ NamesRows(op'[o])
  <2> DEFINE q == [NoOp EXCEPT !.kind = op[o].kind, !.pc = "gone"]
  <2>1. op[o] \in Op /\ NamesRows(op[o]) BY DEF IInv, OpsOK
  <2>2. q \in Op /\ q.pc = "gone" BY ZenonT(60), <2>1, Blanks DEF Op, NoOp, OpPC, Answers
  <2>3. NamesRows(q) BY <2>2 DEF NamesRows
  <2>4. op'[o] = op[o] \/ op'[o] = q BY DEF Restart
  <2> HIDE DEF q
  <2> QED BY <2>1, <2>2, <2>3, <2>4
<1>6. op' \in [Ops -> Op]
  <2>1. op' = [o \in Ops |-> op'[o]] BY DEF Restart
  <2> QED BY <1>5, <2>1
<1>7. OpsOK' BY <1>5, <1>6 DEF OpsOK
<1> QED BY <1>1, <1>2, <1>3, <1>4, <1>7 DEF IInv

\* No credential, no call, no request.
LEMMA InitInvariant == Init => IInv
<1> SUFFICES ASSUME Init PROVE IInv OBVIOUS
<1>1. now \in 0..MaxNow /\ AuditOK /\ IdemOK BY LimitsAssumption DEF Init, AuditOK, IdemOK
<1>2. OpsOK
  <2>1. NamesRows(NoOp) BY DEF NamesRows, NoOp
  <2> QED BY <2>1, Blanks DEF Init, OpsOK
<1>3. RequestsOK
  <2>1. Refusable(NoReq, rows, now) BY DEF Refusable, NoReq
  <2> QED BY <2>1, Blanks DEF Init, RequestsOK
<1>4. ASSUME NEW id \in Ids
      PROVE  /\ rows[id] \in Row /\ rows[id].to = None /\ rows[id].from = None
             /\ rows[id] # NoRow => rows[id].status # None
             /\ id \in DOMAIN First => rows[id] # NoRow /\ rows[id].secret = id
  <2>1. CASE id \in DOMAIN First
    <3>1. rows[id] = NewRow(id, First[id], None) /\ First[id] \in Nat BY <2>1, ExpiriesAssumption DEF Init
    <3> QED BY <3>1, NewRowFacts
  <2>2. CASE id \notin DOMAIN First
    <3>1. rows[id] = NoRow BY <2>2 DEF Init
    <3>2. NoRow.to = None /\ NoRow.from = None BY DEF NoRow
    <3> QED BY <2>2, <3>1, <3>2, Blanks
  <2> QED BY <2>1, <2>2
<1>5. RowsOK
  <2>1. rows = [id \in Ids |-> rows[id]] BY DEF Init
  <2> QED BY <1>4, <2>1 DEF RowsOK
<1>6. Lineage BY <1>4, IdsAssumption DEF Lineage
<1>7. IssuedOK
  <2>1. ASSUME NEW t \in issued PROVE t \in Ids \X Secrets /\ rows[t[1]] # NoRow /\ rows[t[1]].secret = t[2]
    <3>1. PICK id \in DOMAIN First : t = <<id, id>> BY <2>1 DEF Init
    <3>2. id \in Ids BY ExpiriesAssumption
    <3> QED BY <1>4, <3>1, <3>2
  <2> QED BY <2>1 DEF IssuedOK
<1> QED BY <1>1, <1>2, <1>3, <1>5, <1>6, <1>7 DEF IInv

-----------------------------------------------------------------------------
\* Every step of the specification, as the theorems use it.
LEMMA EveryStep ==
  ASSUME IInv, [Next]_vars
  PROVE  IInv' /\ RowsStep /\ now <= now'
<1>0. now \in Nat BY LimitsAssumption DEF IInv
<1>1. ASSUME NEW o \in Ops, AdminStep(o) PROVE IInv' /\ RowsStep /\ now <= now'
  <2>1. AdminEffect BY <1>1, AdminStepEffect DEF IInv, Admin
  <2>2. IssuedOK' /\ RequestsOK' BY <1>0, <2>1, EditsKeep DEF AdminEffect, IInv
  <2> QED BY <1>0, <2>1, <2>2 DEF AdminEffect, IInv
<1>2. ASSUME NEW r \in Reqs, RequestStep(r) PROVE IInv' /\ RowsStep /\ now <= now'
  <2>1. RequestEffect(r) BY <1>2, RequestStepEffect
  <2>2. UNCHANGED <<now, rows>> BY <2>1 DEF RequestEffect
  <2> QED BY <1>0, <2>1, <2>2, RequestKeeps, SameRows DEF IInv
<1>3. CASE Tick
  <2>1. UNCHANGED <<rows, idem, audit, op, req, issued>> /\ now' \in 0..MaxNow /\ now <= now'
    BY <1>0, <1>3, LimitsAssumption DEF Tick, IInv
  <2>2. RowsOK' /\ Lineage' /\ RowsStep BY <2>1, SameRows DEF IInv
  <2>3. IssuedOK' /\ RequestsOK' BY <2>1, <2>2, EditsKeep, SameIssued
  <2>4. AuditOK' /\ OpsOK' /\ IdemOK' BY <2>1 DEF IInv, AuditOK, OpsOK, IdemOK
  <2> QED BY <2>1, <2>2, <2>3, <2>4 DEF IInv
<1>4. CASE Restart
  <2>1. UNCHANGED <<now, rows>> BY <1>4 DEF Restart
  <2> QED BY <1>0, <1>4, <2>1, RestartKeeps, SameRows DEF IInv
<1>5. CASE UNCHANGED vars
  <2>1. UNCHANGED <<now, rows, idem, audit, op, req, issued>> BY <1>5 DEF vars
  <2>2. RowsOK' /\ Lineage' /\ RowsStep BY <2>1, SameRows DEF IInv
  <2>3. AuditOK' /\ OpsOK' /\ IdemOK' BY <2>1 DEF IInv, AuditOK, OpsOK, IdemOK
  <2>4. IssuedOK' /\ RequestsOK' BY <2>1 DEF IInv, IssuedOK, RequestsOK
  <2> QED BY <1>0, <2>1, <2>2, <2>3, <2>4 DEF IInv
<1> QED BY <1>1, <1>2, <1>3, <1>4, <1>5 DEF Next

\* IInv holds in every reachable state of the credential store, its admin calls and the edge's requests.
THEOREM Invariance == Spec => []IInv
<1>1. Init => IInv BY InitInvariant
<1>2. IInv /\ [Next]_vars => IInv' BY EveryStep
<1> QED BY <1>1, <1>2, PTL DEF Spec

\* The rows, the lineage of the rotations, the bounded idempotency map and the
\* bounded audit log keep their shape (worker/managed-tokens.ts,
\* worker/d1-managed-store.ts).
THEOREM TypeCorrect == Spec => []TypeOK
<1>1. IInv => TypeOK
  <2> SUFFICES ASSUME IInv PROVE TypeOK OBVIOUS
  <2>1. \A id \in Ids : rows[id].status \in Status BY DEF IInv, RowsOK, Row
  <2>2. \A o \in Ops : op[o].tries \in 0..Retries BY OpFacts DEF IInv
  <2> QED BY <2>1, <2>2 DEF IInv, TypeOK, AuditOK, IdemOK, Lineage
<1> QED BY <1>1, Invariance, PTL

\* Whatever collides, fails, is lost or is retried, a token that an answer of
\* createManagedCredential() or rotateManagedCredential() carried is the token of
\* its row.
THEOREM TokensWork == Spec => []IssuedTokensWork
<1>1. IInv => IssuedTokensWork BY DEF IInv, IssuedOK, IssuedTokensWork
<1> QED BY <1>1, Invariance, PTL

\* authenticateManagedToken() and the Container serve no request that came when
\* its credential was revoked, expired or past its overlap.
THEOREM NeverServed == Spec => []EndedIsRefused
<1>1. IInv => EndedIsRefused BY DEF IInv, RequestsOK, Refusable, EndedIsRefused
<1> QED BY <1>1, Invariance, PTL

\* No statement of tryRotate(), revokeById() or expireById(), and no passing of
\* time, brings a credential back into use.
THEOREM EndedForGood == Spec => [][EndedStep]_vars
<1>1. IInv /\ [Next]_vars => [EndedStep]_vars
  <2> SUFFICES ASSUME IInv, [Next]_vars PROVE EndedStep OBVIOUS
  <2>1. IInv' /\ RowsStep /\ now <= now' BY EveryStep
  <2>2. now \in Nat /\ now' \in Nat BY <2>1, LimitsAssumption DEF IInv
  <2> SUFFICES ASSUME NEW id \in Ids, Exists(id), ~Usable(rows[id], now) PROVE ~Usable(rows'[id], now')
    BY DEF EndedStep
  <2>3. rows[id] \in Row /\ rows'[id] \in Row /\ RowEdit(rows[id], rows'[id]) BY <2>1 DEF IInv, RowsOK, RowsStep
  <2> QED BY <2>1, <2>2, <2>3, EditEnds DEF Exists
<1> QED BY <1>1, Invariance, PTL DEF Spec

-----------------------------------------------------------------------------
\* The asynchronous jobs of an owner, for any number of owners, credentials,
\* keys and clients (AsyncJobs).
\* Cardinality is the same function in the instance.
LEMMA JobsCardinality == \A S : Jobs!Cardinality(S) = Cardinality(S)
BY Zenon DEF Jobs!Cardinality, Cardinality

JobStatus == {Jobs!None, "pending", "running", "input_required"} \cup Jobs!Terminal
JobRecord == [status: JobStatus, owner: Owners \cup {Jobs!None}, cred: Credentials \cup {Jobs!None},
              key: Keys \cup {Jobs!None}, ends: Nat, result: {Jobs!None, "questions", "answer"},
              handle: {"deferred", "attached"}, units: Nat, paid: BOOLEAN,
              written: Results \cup {Jobs!None}, asked: BOOLEAN, ack: BOOLEAN]

\* A record of the store: who it belongs to, and that it was cancelled upstream
\* exactly when the provider said so.
JobSound(i, j) ==
  /\ IF j.status = Jobs!None THEN j = Jobs!NoJob ELSE j.owner \in Owners /\ j.cred \in Credentials
  /\ j.ack <=> j.status = "cancelled_by_upstream"

\* Ids are given out in order, so the next one is free.
InOrder == \E n \in 0..MaxJobs : Jobs!Stored = 1..n

JobsInv ==
  /\ clock \in 0..JobsNow /\ evidence \subseteq Clients \X JobOperations
  /\ jobs \in [Jobs!JobIds -> JobRecord]
  /\ \A i \in Jobs!JobIds : JobSound(i, jobs[i])
  /\ InOrder
  /\ Jobs!OneJobPerKey

\* What a step may do to a job that is there.
JobEdit(o, j) ==
  /\ j.status # Jobs!None /\ j.owner = o.owner /\ j.cred = o.cred /\ j.key = o.key
  /\ j.ack <=> j.status = "cancelled_by_upstream"
  /\ o.status \in Jobs!Terminal => j.status = o.status /\ j.result = o.result

\* A blank record.
LEMMA BlankJob == /\ Jobs!NoJob \in JobRecord /\ Jobs!NoJob.status = Jobs!None /\ Jobs!NoJob.ack = FALSE
                  /\ Jobs!NoJob.owner = Jobs!None /\ Jobs!NoJob.cred = Jobs!None
BY DEF Jobs!NoJob, JobRecord, JobStatus

\* A job that is edited is the same one in every index.
LEMMA EditKeeps ==
  ASSUME JobNumbers, JobsInv, NEW i \in Jobs!JobIds, jobs[i].status # Jobs!None,
         NEW j \in JobRecord, JobEdit(jobs[i], j), Jobs!Set(i, j)
  PROVE  JobsInv' /\ Jobs!EndedStep
PROOF
<1>1. /\ jobs \in [Jobs!JobIds -> JobRecord] /\ jobs' = [jobs EXCEPT ![i] = j] /\ clock' = clock /\ evidence' = evidence
      /\ JobSound(i, jobs[i])
  BY DEF JobsInv, Jobs!Set
<1>2. jobs' \in [Jobs!JobIds -> JobRecord] /\ jobs'[i] = j /\ \A x \in Jobs!JobIds \ {i} : jobs'[x] = jobs[x]
  BY <1>1
<1>3. JobSound(i, j)
  BY <1>1 DEF JobSound, JobEdit
<1>4. Jobs!Stored' = Jobs!Stored
  BY <1>2 DEF Jobs!Stored, JobEdit
<1>5. \A x \in Jobs!JobIds : jobs'[x].key = jobs[x].key /\ jobs'[x].owner = jobs[x].owner
  BY <1>2 DEF JobEdit
<1>6. Jobs!OneJobPerKey'
  BY <1>4, <1>5 DEF JobsInv, Jobs!OneJobPerKey, Jobs!Stored
<1>7. InOrder'
  BY <1>4 DEF JobsInv, InOrder
<1>8. \A x \in Jobs!JobIds : JobSound(x, jobs'[x])
  BY <1>2, <1>3 DEF JobsInv, JobSound
<1>9. JobsInv'
  BY <1>1, <1>2, <1>6, <1>7, <1>8 DEF JobsInv, Jobs!JobIds
<1>10. Jobs!EndedStep
  BY <1>2 DEF Jobs!EndedStep, JobEdit
<1>. QED BY <1>9, <1>10

\* verifiedCreate(): the new job is the only one of its key.
LEMMA CreateKeeps ==
  ASSUME JobNumbers, JobsInv, NEW c, NEW owner \in Owners, NEW cred \in Credentials,
         NEW key \in Keys \cup {Jobs!None}, Jobs!Create(c, owner, cred, key)
  PROVE  JobsInv' /\ Jobs!EndedStep
PROOF
<1>. DEFINE j == [Jobs!NoJob EXCEPT !.status = "pending", !.owner = owner, !.cred = cred, !.key = key, !.ends = clock + TTL]
<1>1. PICK n \in 0..MaxJobs : Jobs!Stored = 1..n
  BY DEF JobsInv, InOrder
<1>2. Cardinality(Jobs!Stored) = n
  BY <1>1, FS_Interval DEF JobNumbers
<1>3. n < MaxJobs /\ n + 1 \in Jobs!JobIds /\ n + 1 \notin Jobs!Stored
  BY <1>1, <1>2, JobsCardinality DEF Jobs!Create, Jobs!JobIds, JobNumbers
<1>4. /\ jobs' = [jobs EXCEPT ![n + 1] = j] /\ clock' = clock /\ evidence' = evidence
      /\ Jobs!ByIdempotencyKey(owner, cred, key) = {} /\ jobs \in [Jobs!JobIds -> JobRecord]
  BY <1>2, JobsCardinality DEF Jobs!Create, Jobs!Set, JobsInv
<1>5. clock + TTL \in Nat
  BY DEF JobsInv, JobNumbers
<1>6. j \in JobRecord /\ j.status = "pending" /\ j.owner = owner /\ j.cred = cred /\ j.key = key /\ j.ack = FALSE
  BY <1>5 DEF Jobs!NoJob, JobRecord, JobStatus
<1>. HIDE DEF j
<1>7. jobs' \in [Jobs!JobIds -> JobRecord] /\ jobs'[n + 1] = j /\ \A x \in Jobs!JobIds \ {n + 1} : jobs'[x] = jobs[x]
  BY <1>3, <1>4, <1>6
<1>8. \A x \in Jobs!JobIds : JobSound(x, jobs'[x])
  BY <1>6, <1>7 DEF JobsInv, JobSound, Jobs!None
<1>9. Jobs!Stored' = Jobs!Stored \cup {n + 1}
  BY <1>3, <1>6, <1>7 DEF Jobs!Stored, Jobs!None
<1>10. Jobs!Stored' = 1..(n + 1) /\ n + 1 \in 0..MaxJobs
  BY <1>1, <1>3, <1>9 DEF JobNumbers
<1>11. \A x \in Jobs!Stored : key = Jobs!None \/ jobs[x].owner # owner \/ jobs[x].key # key
  BY <1>4 DEF Jobs!ByIdempotencyKey
<1>12. \A x \in Jobs!Stored : x # n + 1 /\ jobs'[x] = jobs[x]
  BY <1>3, <1>7 DEF Jobs!Stored
<1>13. Jobs!OneJobPerKey'
  BY <1>6, <1>7, <1>9, <1>11, <1>12 DEF Jobs!OneJobPerKey, JobsInv
<1>14. JobsInv'
  BY <1>4, <1>7, <1>8, <1>10, <1>13 DEF JobsInv, InOrder, Jobs!JobIds
<1>15. Jobs!EndedStep
  <2>1. jobs[n + 1].status \notin Jobs!Terminal
    BY <1>3 DEF Jobs!Stored, Jobs!None, Jobs!Terminal, Jobs!Cancelled
  <2>. QED BY <1>7, <2>1 DEF Jobs!EndedStep
<1>. QED BY <1>14, <1>15

\* Every operation on a job that resolve() found is an edit of it.
LEMMA OperationKeeps ==
  ASSUME JobNumbers, JobsInv, NEW i \in Jobs!JobIds, NEW owner, NEW cred, Jobs!Resolves(i, owner, cred),
         \/ \E status \in {"running", "input_required", "completed", "failed"}, units \in 0..MaxUnits :
              Jobs!Mark(i, status, units)
         \/ Jobs!AttachProviderTask(i)
         \/ \E units \in 1..MaxUnits : Jobs!RecordPaidCall(i, units)
         \/ \E result \in Results : Jobs!RecordArtifactWrite(i, result)
         \/ \E ack \in BOOLEAN : Jobs!CancelTask(i, ack) \/ \E c \in Clients : Jobs!CancelUpstream(c, i, ack)
         \/ \E c \in Clients, kind \in {"cancelled_by_caller", "cancelled_by_groundlane"} : Jobs!CancelWait(c, i, kind)
  PROVE  JobsInv' /\ Jobs!EndedStep
PROOF
<1>. DEFINE o == jobs[i]
<1>1. o.status # Jobs!None /\ o \in JobRecord /\ (o.ack <=> o.status = "cancelled_by_upstream")
  BY DEF Jobs!Resolves, Jobs!Stored, JobsInv, JobSound
<1>. HIDE DEF o
<1>2. CASE \E status \in {"running", "input_required", "completed", "failed"}, units \in 0..MaxUnits : Jobs!Mark(i, status, units)
  <2>1. PICK status \in {"running", "input_required", "completed", "failed"}, units \in 0..MaxUnits : Jobs!Mark(i, status, units)
    BY <1>2
  <2>. DEFINE result == CASE status = "input_required" -> "questions" [] status = "completed" -> "answer" [] OTHER -> o.result
              total == IF status = "completed" /\ units > 0 THEN units ELSE o.units
              j == [o EXCEPT !.status = status, !.result = result, !.units = total]
  <2>2. Jobs!ValidTransition(o.status, status) /\ Jobs!Set(i, j)
    BY <1>1, <2>1 DEF Jobs!Mark, Jobs!To, o, JobRecord
  <2>3. result \in {Jobs!None, "questions", "answer"} /\ total \in Nat
    BY <1>1 DEF JobRecord, JobNumbers
  <2>. HIDE DEF result, total
  <2>4. j \in JobRecord
    BY ZenonT(60), <1>1, <2>3 DEF JobRecord, JobStatus, Jobs!Terminal
  <2>5. JobEdit(o, j)
    BY <1>1, <2>2 DEF JobEdit, JobRecord, Jobs!ValidTransition, Jobs!Terminal, Jobs!Cancelled, Jobs!None
  <2>. HIDE DEF j
  <2>. QED BY <1>1, <2>2, <2>4, <2>5, EditKeeps DEF o
<1>3. CASE Jobs!AttachProviderTask(i)
  <2>. DEFINE j == [o EXCEPT !.handle = "attached"]
  <2>1. Jobs!Set(i, j) /\ j \in JobRecord /\ JobEdit(o, j)
    BY <1>1, <1>3 DEF Jobs!AttachProviderTask, JobRecord, JobEdit, o
  <2>. HIDE DEF j
  <2>. QED BY <1>1, <2>1, EditKeeps DEF o
<1>4. CASE \E units \in 1..MaxUnits : Jobs!RecordPaidCall(i, units)
  <2>1. PICK units \in 1..MaxUnits : Jobs!RecordPaidCall(i, units)
    BY <1>4
  <2>. DEFINE total == o.units + units
              j == [o EXCEPT !.paid = TRUE, !.units = total]
  <2>2. Jobs!Set(i, j)
    BY <1>1, <2>1 DEF Jobs!RecordPaidCall, o, JobRecord
  <2>3. total \in Nat
    BY <1>1, <2>1 DEF JobRecord, JobNumbers
  <2>. HIDE DEF total
  <2>4. j \in JobRecord /\ JobEdit(o, j)
    BY <1>1, <2>3 DEF JobRecord, JobEdit
  <2>. HIDE DEF j
  <2>. QED BY <1>1, <2>2, <2>4, EditKeeps DEF o
<1>5. CASE \E result \in Results : Jobs!RecordArtifactWrite(i, result)
  <2>1. PICK result \in Results : Jobs!RecordArtifactWrite(i, result)
    BY <1>5
  <2>. DEFINE j == [o EXCEPT !.written = result]
  <2>2. Jobs!Set(i, j) /\ j \in JobRecord /\ JobEdit(o, j)
    BY <1>1, <2>1 DEF Jobs!RecordArtifactWrite, JobRecord, JobEdit, o
  <2>. HIDE DEF j
  <2>. QED BY <1>1, <2>2, EditKeeps DEF o
<1>6. CASE \E ack \in BOOLEAN : Jobs!CancelTask(i, ack)
  <2>1. PICK ack \in BOOLEAN : Jobs!CancelTask(i, ack)
    BY <1>6
  <2>. DEFINE status == IF ack THEN "cancelled_by_upstream" ELSE "cancelled_by_caller"
              j == [o EXCEPT !.status = status, !.asked = TRUE, !.ack = ack]
  <2>2. Jobs!ValidTransition(o.status, status) /\ Jobs!Set(i, j)
    BY <1>1, <2>1 DEF Jobs!CancelTask, Jobs!To, o, JobRecord
  <2>3. j \in JobRecord
    BY ZenonT(60), <1>1 DEF JobRecord, JobStatus, Jobs!Terminal, Jobs!Cancelled
  <2>4. JobEdit(o, j)
    BY <1>1, <2>2 DEF JobEdit, JobRecord, Jobs!ValidTransition, Jobs!None
  <2>. HIDE DEF j
  <2>. QED BY <1>1, <2>2, <2>3, <2>4, EditKeeps DEF o
<1>7. CASE \E ack \in BOOLEAN, c \in Clients : Jobs!CancelUpstream(c, i, ack)
  <2>1. PICK ack \in BOOLEAN, c \in Clients : Jobs!CancelUpstream(c, i, ack)
    BY <1>7
  <2>2. o.status \notin Jobs!Terminal
    BY <2>1 DEF Jobs!CancelUpstream, o
  <2>3. CASE ack
    <3>. DEFINE j == [o EXCEPT !.status = "cancelled_by_upstream", !.asked = TRUE, !.ack = TRUE]
    <3>1. Jobs!Set(i, j)
      BY <1>1, <2>1, <2>3 DEF Jobs!CancelUpstream, Jobs!To, o, JobRecord
    <3>2. j \in JobRecord /\ JobEdit(o, j)
      BY <1>1, <2>2 DEF JobRecord, JobStatus, Jobs!Terminal, Jobs!Cancelled, JobEdit, Jobs!None
    <3>. HIDE DEF j
    <3>. QED BY <1>1, <3>1, <3>2, EditKeeps DEF o
  <2>4. CASE ~ack
    <3>. DEFINE j == [o EXCEPT !.asked = TRUE]
    <3>1. Jobs!Set(i, j)
      BY <1>1, <2>1, <2>4 DEF Jobs!CancelUpstream, o
    <3>2. j \in JobRecord /\ JobEdit(o, j)
      BY <1>1, <2>2 DEF JobRecord, JobEdit
    <3>. HIDE DEF j
    <3>. QED BY <1>1, <3>1, <3>2, EditKeeps DEF o
  <2>. QED BY <2>3, <2>4
<1>8. CASE \E c \in Clients, kind \in {"cancelled_by_caller", "cancelled_by_groundlane"} : Jobs!CancelWait(c, i, kind)
  <2>1. PICK c \in Clients, kind \in {"cancelled_by_caller", "cancelled_by_groundlane"} : Jobs!CancelWait(c, i, kind)
    BY <1>8
  <2>. DEFINE j == [o EXCEPT !.status = kind]
  <2>2. Jobs!ValidTransition(o.status, kind) /\ Jobs!Set(i, j)
    BY <2>1 DEF Jobs!CancelWait, Jobs!To, o
  <2>3. j \in JobRecord
    BY <1>1 DEF JobRecord, JobStatus, Jobs!Terminal, Jobs!Cancelled
  <2>4. JobEdit(o, j)
    BY <1>1, <2>2 DEF JobEdit, JobRecord, Jobs!ValidTransition, Jobs!Terminal, Jobs!Cancelled, Jobs!None
  <2>. HIDE DEF j
  <2>. QED BY <1>1, <2>2, <2>3, <2>4, EditKeeps DEF o
<1>. QED BY <1>2, <1>3, <1>4, <1>5, <1>6, <1>7, <1>8

\* What touches no job.
LEMMA NoJobTouched ==
  ASSUME JobNumbers, JobsInv, jobs' = jobs, clock' \in 0..JobsNow, evidence' \subseteq Clients \X JobOperations
  PROVE  JobsInv' /\ Jobs!EndedStep
PROOF
<1>1. Jobs!Stored' = Jobs!Stored
  BY DEF Jobs!Stored
<1>. QED BY <1>1 DEF JobsInv, Jobs!JobIds, InOrder, Jobs!OneJobPerKey, Jobs!EndedStep

\* No job was made at first.
LEMMA JobsInit == JobNumbers /\ Jobs!Init => JobsInv
PROOF
<1>. SUFFICES ASSUME JobNumbers, Jobs!Init PROVE JobsInv
  OBVIOUS
<1>1. clock = 0 /\ 0 \in 0..JobsNow /\ evidence = {} /\ jobs = [i \in Jobs!JobIds |-> Jobs!NoJob]
  BY DEF Jobs!Init, JobNumbers
<1>2. Jobs!NoJob \in JobRecord /\ Jobs!NoJob.status = Jobs!None /\ Jobs!NoJob.ack = FALSE
  BY BlankJob
<1>3. JobSound(1, Jobs!NoJob)
  BY <1>2 DEF JobSound, Jobs!None
<1>4. \A i \in Jobs!JobIds : JobSound(i, jobs[i])
  BY <1>1, <1>3 DEF JobSound
<1>. HIDE DEF Jobs!NoJob
<1>5. Jobs!Stored = {}
  BY <1>1, <1>2 DEF Jobs!Stored
<1>6. Jobs!Stored = 1..0 /\ 0 \in 0..MaxJobs
  BY <1>5 DEF JobNumbers
<1>. QED BY <1>1, <1>2, <1>4, <1>5, <1>6 DEF JobsInv, InOrder, Jobs!OneJobPerKey

\* Every step keeps the jobs' invariant and what has ended.
LEMMA JobsNext == JobNumbers /\ JobsInv /\ [Jobs!Next]_(Jobs!vars) => JobsInv' /\ [Jobs!EndedStep]_(Jobs!vars)
PROOF
<1>. SUFFICES ASSUME JobNumbers, JobsInv, [Jobs!Next]_(Jobs!vars) PROVE JobsInv' /\ Jobs!EndedStep
  OBVIOUS
<1>1. CASE UNCHANGED Jobs!vars
  BY <1>1, NoJobTouched DEF Jobs!vars, JobsInv
<1>2. ASSUME NEW c \in Clients, NEW operation \in JobOperations, Jobs!RecordEvidence(c, operation)
      PROVE  JobsInv' /\ Jobs!EndedStep
  BY <1>2, NoJobTouched DEF Jobs!RecordEvidence, JobsInv
<1>3. CASE Jobs!Tick
  BY <1>3, NoJobTouched DEF Jobs!Tick, JobsInv, JobNumbers
<1>4. ASSUME NEW c \in Clients, NEW i \in Jobs!JobIds, Jobs!Resume(c, i)
      PROVE  JobsInv' /\ Jobs!EndedStep
  BY <1>4, <1>1 DEF Jobs!Resume
<1>. QED BY <1>1, <1>2, <1>3, <1>4, CreateKeeps, OperationKeeps DEF Jobs!Next

\* What the job manager keeps, in every state.
THEOREM JobsInvariance == ASSUME JobNumbers PROVE Jobs!Spec => []JobsInv
PROOF
<1>1. Jobs!Init => JobsInv
  BY JobsInit
<1>2. JobsInv /\ [Jobs!Next]_(Jobs!vars) => JobsInv'
  BY JobsNext
<1>. QED BY <1>1, <1>2, PTL DEF Jobs!Spec

\* A record of the job manager has an owner and a credential once there is a job, and
\* is empty before (AsyncJobManager).
THEOREM JobsTyped == ASSUME JobNumbers PROVE Jobs!Spec => []Jobs!TypeOK
PROOF
<1>1. JobsInv => Jobs!TypeOK
  BY DEF JobsInv, JobSound, JobRecord, JobStatus, Jobs!TypeOK
<1>. QED BY <1>1, JobsInvariance, PTL

\* An idempotency key names one job for ever, whichever credential repeats create
\* (buildAsyncIdempotencyKey).
THEOREM OneJobForAKey == ASSUME JobNumbers PROVE Jobs!Spec => []Jobs!OneJobPerKey
PROOF
<1>1. JobsInv => Jobs!OneJobPerKey
  BY DEF JobsInv
<1>. QED BY <1>1, JobsInvariance, PTL

\* A job is cancelled upstream exactly when the provider acknowledged it
\* (requestUpstreamCancel and cancelTask).
THEOREM UpstreamIsEvidenced == ASSUME JobNumbers PROVE Jobs!Spec => []Jobs!UpstreamNeedsEvidence
PROOF
<1>1. JobsInv => Jobs!UpstreamNeedsEvidence
  BY DEF JobsInv, JobSound, Jobs!UpstreamNeedsEvidence
<1>. QED BY <1>1, JobsInvariance, PTL

\* A job that has ended keeps its status and result (validateStatusTransition).
THEOREM JobsStayEnded == ASSUME JobNumbers PROVE Jobs!Spec => [][Jobs!EndedStep]_(Jobs!vars)
PROOF
<1>1. JobsInv /\ [Jobs!Next]_(Jobs!vars) => [Jobs!EndedStep]_(Jobs!vars)
  BY JobsNext
<1>. QED BY <1>1, JobsInvariance, PTL DEF Jobs!Spec

-----------------------------------------------------------------------------
\* The in-memory executions of documents, for any limits, engines and requests
\* (DocumentExecution).
\* Cardinality and Min are the same functions in the instance.
LEMMA DocumentsCardinality == \A S : Documents!Cardinality(S) = Cardinality(S)
BY Zenon DEF Documents!Cardinality, Cardinality
LEMMA DocumentsMin == \A S : Documents!Min(S) = Min(S)
BY Zenon DEF Documents!Min, Min

DocStatus == {Documents!None} \cup DOMAIN Documents!Order
DocRecord == [status: DocStatus, ends: Nat, source: Nat, revoked: BOOLEAN, wait: BOOLEAN, dispatch: BOOLEAN,
              asked: BOOLEAN, ack: BOOLEAN]

\* A job does not go on against its cancels or without its source.
DocSound(j) ==
  /\ j.revoked \/ j.dispatch \/ j.ack => j.status \in Documents!Terminal
  /\ j.ack => j.asked
  /\ j.source <= j.ends

ExecutionInv ==
  /\ clock \in 0..MaxNow
  /\ docs \in [Documents!DocIds -> DocRecord]
  /\ \A id \in Documents!DocIds : DocSound(docs[id])
  /\ IsFiniteSet(Documents!Stored) /\ Cardinality(Documents!Stored) <= MaxDocs
  /\ sync.track \in {Documents!None, "sync", "async", "ASYNC_REQUIRED"}

SyncIsSync == sync.track = "sync" => Documents!SyncExecutable(sync.need, sync.engine)

\* What a step may do to a job that is there.
DocEdit(o, j) ==
  /\ j.status # Documents!None /\ DocSound(j)
  /\ o.status \in Documents!Terminal => j.status = o.status
  /\ o.revoked => j.revoked
  /\ o.ack => j.ack

\* The statuses of a job, one by one.
LEMMA Statuses ==
  /\ DOMAIN Documents!Order = {"created", "pending", "running", "completed", "failed", "cancelled", "deleted", "expired"}
  /\ Documents!None \notin DOMAIN Documents!Order
BY DEF Documents!Order, Documents!None

\* A blank record.
LEMMA BlankDoc ==
  /\ Documents!NoJob \in DocRecord /\ Documents!NoJob.status = Documents!None /\ DocSound(Documents!NoJob)
  /\ ~Documents!NoJob.revoked /\ ~Documents!NoJob.ack
BY DEF Documents!NoJob, DocRecord, DocStatus, DocSound

\* The first of three times.
LEMMA FirstOfThree ==
  ASSUME NEW a \in Nat, NEW b \in Nat, NEW c \in Nat
  PROVE  Min({a, b, c}) \in Nat /\ Min({a, b, c}) <= b
PROOF
<1>1. \E x \in {a, b, c} : \A y \in {a, b, c} : x <= y
  <2>1. CASE a <= b /\ a <= c
    BY <2>1
  <2>2. CASE b <= a /\ b <= c
    BY <2>2
  <2>3. CASE c <= a /\ c <= b
    BY <2>3
  <2>. QED BY <2>1, <2>2, <2>3
<1>. QED BY <1>1 DEF Min

\* No execution is answered by this step.
LEMMA NoSyncOK == Documents!NoSync.track = Documents!None /\ Documents!None # "sync"
BY DEF Documents!NoSync, Documents!None

\* A step on a job that is there keeps its place in the store.
LEMMA DocEditKeeps ==
  ASSUME ExecutionNumbers, ExecutionInv, NEW id \in Documents!DocIds, docs[id].status # Documents!None,
         NEW j \in DocRecord, DocEdit(docs[id], j), Documents!Put(id, j)
  PROVE  ExecutionInv' /\ SyncIsSync' /\ Documents!EndedStep
PROOF
<1>1. docs \in [Documents!DocIds -> DocRecord] /\ docs' = [docs EXCEPT ![id] = j] /\ sync' = Documents!NoSync /\ clock' = clock
  BY DEF ExecutionInv, Documents!Put
<1>2. docs' \in [Documents!DocIds -> DocRecord] /\ docs'[id] = j /\ \A x \in Documents!DocIds \ {id} : docs'[x] = docs[x]
  BY <1>1
<1>3. Documents!Stored' = Documents!Stored
  BY <1>2 DEF Documents!Stored, DocEdit
<1>4. \A x \in Documents!DocIds : DocSound(docs'[x])
  BY <1>2 DEF ExecutionInv, DocEdit
<1>5. sync'.track = Documents!None /\ SyncIsSync'
  BY <1>1, NoSyncOK DEF SyncIsSync
<1>6. ExecutionInv'
  BY <1>1, <1>2, <1>3, <1>4, <1>5 DEF ExecutionInv
<1>7. Documents!EndedStep
  BY <1>2 DEF Documents!EndedStep, DocEdit
<1>. QED BY <1>5, <1>6, <1>7

\* What touches no job.
LEMMA NoDocTouched ==
  ASSUME ExecutionInv, docs' = docs, clock' \in 0..MaxNow, sync'.track \in {Documents!None, "sync", "async", "ASYNC_REQUIRED"}
  PROVE  ExecutionInv' /\ Documents!EndedStep
PROOF
<1>1. Documents!Stored' = Documents!Stored
  BY DEF Documents!Stored
<1>. QED BY <1>1 DEF ExecutionInv, Documents!EndedStep

\* Execute: the track that is taken at once is one an explicit request could take.
LEMMA ExecuteKeepsDocs ==
  ASSUME ExecutionInv, NEW mode \in {"sync", "auto"}, NEW need, NEW engine, Documents!Execute(mode, need, engine)
  PROVE  ExecutionInv' /\ Documents!EndedStep /\ (SyncLimits => SyncIsSync')
PROOF
<1>. DEFINE track == IF mode = "auto" THEN Documents!SelectExecutionTrack(need, engine)
                     ELSE IF Documents!SyncExecutable(need, engine) THEN "sync" ELSE "ASYNC_REQUIRED"
<1>1. sync' = [track |-> track, mode |-> mode, need |-> need, engine |-> engine] /\ clock' = clock /\ docs' = docs
  BY DEF Documents!Execute
<1>2. /\ track \in {"sync", "async", "ASYNC_REQUIRED"}
      /\ SyncLimits => (track = "sync" => Documents!SyncExecutable(need, engine))
  BY DEF Documents!SelectExecutionTrack, Documents!SyncExecutable, SyncLimits
<1>. HIDE DEF track
<1>3. sync'.track = track /\ sync'.need = need /\ sync'.engine = engine
  BY <1>1
<1>4. SyncLimits => SyncIsSync'
  BY <1>2, <1>3 DEF SyncIsSync, Documents!SyncExecutable
<1>5. ExecutionInv' /\ Documents!EndedStep
  BY <1>1, <1>2, <1>3, NoDocTouched DEF ExecutionInv
<1>. QED BY <1>4, <1>5

\* create(): a new job takes a free place, and its snapshot ends no later.
LEMMA CreateKeepsDocs ==
  ASSUME ExecutionNumbers, ExecutionInv, NEW id \in Documents!DocIds, NEW source \in DocExpiries, NEW ends \in DocExpiries,
         NEW policy \in DocExpiries, Documents!Create(id, source, ends, policy)
  PROVE  ExecutionInv' /\ SyncIsSync' /\ Documents!EndedStep
PROOF
<1>. DEFINE first == Documents!ResolveSnapshotExpiry(source, ends, policy)
            j == [Documents!NoJob EXCEPT !.status = "created", !.ends = ends, !.source = first]
<1>1. /\ docs \in [Documents!DocIds -> DocRecord] /\ docs' = [docs EXCEPT ![id] = j] /\ sync' = Documents!NoSync /\ clock' = clock
      /\ docs[id] = Documents!NoJob /\ Cardinality(Documents!Stored) < MaxDocs
  BY DocumentsCardinality DEF ExecutionInv, Documents!Create
<1>2. source \in Nat /\ ends \in Nat /\ policy \in Nat
  BY DEF ExecutionNumbers
<1>3. first \in Nat /\ first <= ends
  BY <1>2, FirstOfThree, DocumentsMin DEF Documents!ResolveSnapshotExpiry
<1>. HIDE DEF first
<1>4. j \in DocRecord /\ j.status = "created" /\ DocSound(j)
  BY <1>2, <1>3, Statuses DEF Documents!NoJob, DocRecord, DocStatus, DocSound
<1>. HIDE DEF j
<1>5. docs' \in [Documents!DocIds -> DocRecord] /\ docs'[id] = j /\ \A x \in Documents!DocIds \ {id} : docs'[x] = docs[x]
  BY <1>1, <1>4
<1>6. id \notin Documents!Stored /\ Documents!Stored' = Documents!Stored \cup {id}
  BY <1>1, <1>4, <1>5, BlankDoc DEF Documents!Stored, Documents!None
<1>7. /\ IsFiniteSet(Documents!Stored') /\ Cardinality(Documents!Stored') = Cardinality(Documents!Stored) + 1
      /\ Cardinality(Documents!Stored) \in Nat
  BY <1>6, FS_AddElement, FS_CardinalityType DEF ExecutionInv
<1>8. \A x \in Documents!DocIds : DocSound(docs'[x])
  BY <1>4, <1>5 DEF ExecutionInv
<1>9. sync'.track = Documents!None /\ SyncIsSync'
  BY <1>1, NoSyncOK DEF SyncIsSync
<1>10. ExecutionInv'
  BY <1>1, <1>5, <1>7, <1>8, <1>9 DEF ExecutionInv, ExecutionNumbers
<1>11. docs[id].status \notin Documents!Terminal /\ ~docs[id].revoked /\ ~docs[id].ack
  BY <1>1, BlankDoc DEF Documents!Terminal, Documents!None
<1>12. Documents!EndedStep
  BY <1>5, <1>11 DEF Documents!EndedStep
<1>. QED BY <1>9, <1>10, <1>12

\* The operations on a job that resolve() finds.
LEMMA OperationKeepsDocs ==
  ASSUME ExecutionNumbers, ExecutionInv, NEW id \in Documents!DocIds,
         \/ \E to \in DOMAIN Documents!Order : Documents!Transition(id, to)
         \/ Documents!RevokeSource(id) \/ Documents!CancelCallerWait(id) \/ Documents!CancelGroundlaneDispatch(id)
         \/ \E ack \in BOOLEAN : Documents!RequestUpstreamCancel(id, ack)
  PROVE  ExecutionInv' /\ SyncIsSync' /\ Documents!EndedStep
PROOF
<1>. DEFINE o == docs[id]
<1>1. o \in DocRecord /\ DocSound(o) /\ o.status # Documents!None
  BY DEF ExecutionInv, Documents!Transition, Documents!RevokeSource, Documents!CancelCallerWait, Documents!CancelGroundlaneDispatch,
         Documents!RequestUpstreamCancel, Documents!Resolve
<1>. HIDE DEF o
<1>2. CASE \E to \in DOMAIN Documents!Order : Documents!Transition(id, to)
  <2>1. PICK to \in DOMAIN Documents!Order : Documents!Transition(id, to)
    BY <1>2
  <2>. DEFINE j == [o EXCEPT !.status = to]
  <2>2. Documents!Put(id, j) /\ o.status \notin Documents!Terminal
    BY <2>1 DEF Documents!Transition, Documents!ValidTransition, o
  <2>3. to \in DocStatus /\ to # Documents!None
    BY Statuses DEF DocStatus
  <2>4. j \in DocRecord /\ DocEdit(o, j)
    BY <1>1, <2>2, <2>3 DEF DocRecord, DocEdit, DocSound
  <2>. HIDE DEF j
  <2>. QED BY <1>1, <2>2, <2>4, DocEditKeeps DEF o
<1>3. CASE Documents!RevokeSource(id)
  <2>. DEFINE status == IF o.status \in Documents!Terminal THEN o.status ELSE "cancelled"
              j == [o EXCEPT !.revoked = TRUE, !.status = status]
  <2>1. Documents!Put(id, j)
    BY <1>1, <1>3 DEF Documents!RevokeSource, DocRecord, o
  <2>2. status \in DocStatus \cap Documents!Terminal /\ status # Documents!None
    BY <1>1, Statuses DEF DocStatus, DocRecord, Documents!Terminal
  <2>3. o.status \in Documents!Terminal => status = o.status
    OBVIOUS
  <2>. HIDE DEF status
  <2>4. j \in DocRecord /\ DocEdit(o, j)
    BY <1>1, <2>2, <2>3 DEF DocRecord, DocEdit, DocSound
  <2>. HIDE DEF j
  <2>. QED BY <1>1, <2>1, <2>4, DocEditKeeps DEF o
<1>4. CASE Documents!CancelCallerWait(id)
  <2>. DEFINE j == [o EXCEPT !.wait = TRUE]
  <2>1. Documents!Put(id, j)
    BY <1>4 DEF Documents!CancelCallerWait, o
  <2>2. j \in DocRecord /\ DocEdit(o, j)
    BY <1>1 DEF DocRecord, DocEdit, DocSound
  <2>. HIDE DEF j
  <2>. QED BY <1>1, <2>1, <2>2, DocEditKeeps DEF o
<1>5. CASE Documents!CancelGroundlaneDispatch(id)
  <2>. DEFINE j == [o EXCEPT !.status = "cancelled", !.dispatch = TRUE]
  <2>1. Documents!Put(id, j) /\ o.status \notin Documents!Terminal
    BY <1>5 DEF Documents!CancelGroundlaneDispatch, o
  <2>2. "cancelled" \in DocStatus /\ "cancelled" \in Documents!Terminal /\ "cancelled" # Documents!None
    BY Statuses DEF DocStatus, Documents!Terminal, Documents!None
  <2>3. j \in DocRecord /\ DocEdit(o, j)
    BY <1>1, <2>1, <2>2 DEF DocRecord, DocEdit, DocSound
  <2>. HIDE DEF j
  <2>. QED BY <1>1, <2>1, <2>3, DocEditKeeps DEF o
<1>6. CASE \E ack \in BOOLEAN : Documents!RequestUpstreamCancel(id, ack)
  <2>1. PICK ack \in BOOLEAN : Documents!RequestUpstreamCancel(id, ack)
    BY <1>6
  <2>. DEFINE status == IF ack THEN "cancelled" ELSE o.status
              j == [o EXCEPT !.asked = TRUE, !.ack = ack, !.status = status]
  <2>2. Documents!Put(id, j) /\ o.status \notin Documents!Terminal
    BY <1>1, <2>1 DEF Documents!RequestUpstreamCancel, DocRecord, o
  <2>3. status \in DocStatus /\ status # Documents!None /\ (ack => status \in Documents!Terminal) /\ (~ack => status = o.status)
    BY <1>1, Statuses DEF DocStatus, DocRecord, Documents!Terminal
  <2>. HIDE DEF status
  <2>4. j \in DocRecord /\ DocEdit(o, j)
    BY <1>1, <2>2, <2>3 DEF DocRecord, DocEdit, DocSound
  <2>. HIDE DEF j
  <2>. QED BY <1>1, <2>2, <2>4, DocEditKeeps DEF o
<1>. QED BY <1>2, <1>3, <1>4, <1>5, <1>6

\* Nothing was executed at first.
LEMMA ExecutionInit == ExecutionNumbers /\ Documents!Init => ExecutionInv /\ SyncIsSync
PROOF
<1>. SUFFICES ASSUME ExecutionNumbers, Documents!Init PROVE ExecutionInv /\ SyncIsSync
  OBVIOUS
<1>1. clock = 0 /\ 0 \in 0..MaxNow /\ docs = [id \in Documents!DocIds |-> Documents!NoJob] /\ sync = Documents!NoSync
  BY DEF Documents!Init, ExecutionNumbers
<1>2. Documents!Stored = {}
  BY <1>1, BlankDoc DEF Documents!Stored
<1>3. IsFiniteSet(Documents!Stored) /\ Cardinality(Documents!Stored) = 0 /\ 0 <= MaxDocs
  BY <1>2, FS_EmptySet DEF ExecutionNumbers
<1>4. docs \in [Documents!DocIds -> DocRecord] /\ \A id \in Documents!DocIds : DocSound(docs[id])
  BY <1>1, BlankDoc
<1>5. sync.track = Documents!None /\ SyncIsSync
  BY <1>1, NoSyncOK DEF SyncIsSync
<1>. QED BY <1>1, <1>3, <1>4, <1>5 DEF ExecutionInv

\* Every step keeps the executions' invariant and what has ended.
LEMMA ExecutionNext ==
  ASSUME ExecutionNumbers, ExecutionInv, [Documents!Next]_(Documents!vars)
  PROVE  ExecutionInv' /\ Documents!EndedStep /\ (SyncLimits /\ SyncIsSync => SyncIsSync')
PROOF
<1>1. CASE UNCHANGED Documents!vars
  BY <1>1, NoDocTouched DEF Documents!vars, ExecutionInv, SyncIsSync, Documents!SyncExecutable
<1>2. CASE Documents!Tick
  <2>1. docs' = docs /\ clock' \in 0..MaxNow /\ sync' = Documents!NoSync
    BY <1>2 DEF Documents!Tick, ExecutionInv, ExecutionNumbers
  <2>. QED BY <2>1, NoDocTouched, NoSyncOK DEF SyncIsSync
<1>. QED BY <1>1, <1>2, ExecuteKeepsDocs, CreateKeepsDocs, OperationKeepsDocs DEF Documents!Next

\* What the execution manager keeps, in every state.
THEOREM ExecutionInvariance == ASSUME ExecutionNumbers PROVE Documents!Spec => []ExecutionInv
PROOF
<1>1. Documents!Init => ExecutionInv
  BY ExecutionInit
<1>2. ExecutionInv /\ [Documents!Next]_(Documents!vars) => ExecutionInv'
  BY ExecutionNext
<1>. QED BY <1>1, <1>2, PTL DEF Documents!Spec

\* The store of document jobs never outgrows its limit, and the routing of a request
\* ends in one of its outcomes (DocumentExecutionManager, InMemoryDocumentJobStore).
THEOREM ExecutionsTyped == ASSUME ExecutionNumbers PROVE Documents!Spec => []Documents!TypeOK
PROOF
<1>1. ExecutionInv => Documents!TypeOK
  BY DocumentsCardinality DEF ExecutionInv, DocRecord, DocStatus, Documents!TypeOK
<1>. QED BY <1>1, ExecutionInvariance, PTL

\* No job goes on without its source or against its cancels, and what is routed to run
\* at once may, if the limits allow no engine that is asynchronous only.
THEOREM ExecutionsHonest == ASSUME ExecutionNumbers, SyncLimits PROVE Documents!Spec => []Documents!JobsAreHonest
PROOF
<1>1. Documents!Init => ExecutionInv /\ SyncIsSync
  BY ExecutionInit
<1>2. ExecutionInv /\ SyncIsSync /\ [Documents!Next]_(Documents!vars) => ExecutionInv' /\ SyncIsSync'
  BY ExecutionNext
<1>3. ExecutionInv /\ SyncIsSync => Documents!JobsAreHonest
  BY DEF ExecutionInv, SyncIsSync, DocSound, Documents!JobsAreHonest
<1>. QED BY <1>1, <1>2, <1>3, PTL DEF Documents!Spec

\* A document's job that has ended keeps its status, and no revocation or
\* acknowledgment is taken back (validateDocumentJobStatusTransition).
THEOREM ExecutionsStayEnded == ASSUME ExecutionNumbers PROVE Documents!Spec => [][Documents!EndedStep]_(Documents!vars)
PROOF
<1>1. ExecutionInv /\ [Documents!Next]_(Documents!vars) => [Documents!EndedStep]_(Documents!vars)
  BY ExecutionNext
<1>. QED BY <1>1, ExecutionInvariance, PTL DEF Documents!Spec

-----------------------------------------------------------------------------
\* The operator's command against the admin API, for any arguments and any number of
\* invocations (CredentialsCli).
\* What an invocation may hold; keys, tokens and expiries are those of its arguments.
CliKeys == {Cli!None} \cup Invocations \cup {a.key : a \in Arguments}
CliAuths == {TRUE} \cup {a.auth : a \in Arguments}
CliTimes == {0} \cup {a.flags["--expires-at"].n : a \in Arguments}
CliGivens == {FALSE} \cup {Cli!Has(a, "--id") : a \in Arguments}
CliRequest == [op: Cli!Operations \cup {Cli!None}, id: Cli!CredentialIds \cup {Cli!None}, key: CliKeys, auth: CliAuths, expires: CliTimes, given: CliGivens]
CliCall == [phase: {"idle", "sent", "answered", "over"}, req: CliRequest, status: Nat,
            carries: Invocations \cup {Cli!None}, did: BOOLEAN, shown: Invocations \cup {Cli!None}, exit: {-1, 0, 2, 3, 4}]
CliRow == [status: {Cli!None, "active", "rotating", "revoked"}, to: Invocations \cup {Cli!None}, secret: Cli!CredentialIds \cup {Cli!None}]

\* An invocation q, called i: it is handled once, its answer says what was done, and
\* it has an exit code that it will keep as soon as it is over.
CliOK(i, q) ==
  /\ q.exit # -1 => q.phase \in {"sent", "over"}
  /\ q.exit \in {0, 2, 3} => q.phase = "over"
  /\ q.phase \in {"sent", "answered"} => q.req.op \in Cli!Operations /\ q.req.id \in Cli!CredentialIds
  /\ q.req.op = "create" => q.req.id = i
  /\ q.req.op \in Cli!Operations => q.req.id \in Cli!CredentialIds
  /\ q.phase = "sent" => ~q.did /\ q.status = 0 /\ q.carries = Cli!None
  /\ q.carries \in {Cli!None, i} /\ q.shown \in {Cli!None, q.carries}
  /\ q.did => q.status \in {200, 201, 409, 503}
  /\ q.status \in 200..299 /\ q.req.op \in {"create", "revoke"} => q.did
  /\ q.exit = 0 /\ q.req.op # Cli!None => q.status \in 200..299
  /\ q.exit \in {2, 3} => ~q.did

\* What the credentials say of it: the secret it carries is that of a row, and a
\* rotate that was answered has a successor.
CliHas(r, i, q) ==
  /\ q.carries # Cli!None => r[i].status # Cli!None /\ r[i].secret = i
  /\ q.status \in 200..299 /\ q.req.op = "rotate" => q.did \/ r[q.req.id].to # Cli!None

\* A credential that is not there has no successor, and a key that is remembered has one.
RowsInv(r, m) ==
  /\ r \in [Cli!CredentialIds -> CliRow]
  /\ \A id \in Cli!CredentialIds : r[id].status = Cli!None => r[id].to = Cli!None
  /\ \A e \in m : e.id \in Cli!CredentialIds /\ r[e.id].to # Cli!None

CliInv ==
  /\ cli \in [Invocations -> CliCall]
  /\ \A i \in Invocations : CliOK(i, cli[i]) /\ CliHas(kept, i, cli[i])
  /\ RowsInv(kept, remembered)

\* What a request may do to the credentials: none loses its secret or its successor.
RowsGrow(r, s) ==
  \A id \in Cli!CredentialIds :
    /\ r[id].to # Cli!None => s[id].to = r[id].to
    /\ r[id].status # Cli!None => s[id].status # Cli!None /\ s[id].secret = r[id].secret

\* A step that edits one invocation, and credentials by growth only.
LEMMA CliEdit ==
  ASSUME CliInv, NEW i \in Invocations, NEW q \in CliCall, cli' = [cli EXCEPT ![i] = q], CliOK(i, q),
         RowsInv(kept', remembered'), RowsGrow(kept, kept'), CliHas(kept', i, q)
  PROVE  CliInv' /\ Cli!SuccessorStep
PROOF
<1>1. cli' \in [Invocations -> CliCall] /\ cli'[i] = q /\ \A j \in Invocations \ {i} : cli'[j] = cli[j]
  BY DEF CliInv
<1>2. ASSUME NEW j \in Invocations, j # i PROVE CliOK(j, cli[j]) /\ CliHas(kept', j, cli[j])
  <2>1. CliOK(j, cli[j]) /\ CliHas(kept, j, cli[j]) /\ cli[j] \in CliCall
    BY DEF CliInv
  <2>2. cli[j].req \in CliRequest
    BY <2>1 DEF CliCall
  <2>3. cli[j].req.op = "rotate" => cli[j].req.id \in Cli!CredentialIds
    BY <2>1 DEF CliOK, Cli!Operations
  <2>4. j \in Cli!CredentialIds
    BY DEF Cli!CredentialIds
  <2>5. CliHas(kept', j, cli[j])
    BY <2>1, <2>3, <2>4 DEF CliHas, RowsGrow
  <2>. QED BY <2>1, <2>5
<1>3. \A j \in Invocations : CliOK(j, cli'[j]) /\ CliHas(kept', j, cli'[j])
  BY <1>1, <1>2
<1>4. Cli!SuccessorStep
  BY DEF RowsGrow, Cli!SuccessorStep
<1>. QED BY <1>1, <1>3, <1>4 DEF CliInv

\* What the invocations were before the step.
LEMMA CliTyped ==
  ASSUME CliInv, NEW i \in Invocations
  PROVE  /\ cli[i] \in CliCall /\ cli[i].req \in CliRequest /\ CliOK(i, cli[i]) /\ CliHas(kept, i, cli[i])
         /\ i \in Cli!CredentialIds /\ RowsInv(kept, remembered) /\ RowsGrow(kept, kept)
BY DEF CliInv, CliCall, Cli!CredentialIds, RowsGrow

\* parseCredentialsArgs() and readAdminToken() refuse before anything is sent.
LEMMA MainKeeps ==
  ASSUME CliInv, NEW i \in Invocations, NEW args \in Arguments, NEW file, NEW env, NEW id \in Cli!CredentialIds,
         args.op = "create" => id = i, Cli!Main(i, args, file, env, id)
  PROVE  CliInv' /\ Cli!SuccessorStep
PROOF
<1>. DEFINE r == Cli!BuildCredentialsHttpRequest(i, args, id)
<1>0. cli[i] \in CliCall /\ cli[i] = Cli!NoCli /\ Cli!NoCli.req = Cli!NoRequest /\ RowsInv(kept, remembered) /\ RowsGrow(kept, kept) /\ UNCHANGED <<kept, remembered>>
  BY CliTyped DEF Cli!Main, Cli!NoCli
<1>1. ASSUME NEW code \in {0, 2, 3}, Cli!Ends(i, code) PROVE CliInv' /\ Cli!SuccessorStep
  <2>. DEFINE q == [cli[i] EXCEPT !.phase = "over", !.exit = code]
  <2>1. cli' = [cli EXCEPT ![i] = q]
    BY <1>1 DEF Cli!Ends, CliInv
  <2>2. q = [Cli!NoCli EXCEPT !.phase = "over", !.exit = code]
    BY <1>0
  <2>3. q \in CliCall
    BY <1>0 DEF CliCall
  <2>4. /\ q.phase = "over" /\ q.req = Cli!NoRequest /\ q.status = 0 /\ q.carries = Cli!None /\ q.did = FALSE
        /\ q.shown = Cli!None /\ q.exit = code
    BY <2>2 DEF Cli!NoCli
  <2>. HIDE DEF q
  <2>5. Cli!NoRequest.op = "none"
    BY DEF Cli!NoRequest, Cli!None
  <2>6. CliOK(i, q) /\ CliHas(kept, i, q)
    BY <2>4, <2>5 DEF CliOK, CliHas, Cli!Operations, Cli!None
  <2>. QED BY <1>0, <2>1, <2>3, <2>6, CliEdit
<1>2. ASSUME Cli!ParseCredentialsArgs(args), cli' = [cli EXCEPT ![i].phase = "sent", ![i].req = r]
      PROVE  CliInv' /\ Cli!SuccessorStep
  <2>. DEFINE q == [cli[i] EXCEPT !.phase = "sent", !.req = r]
  <2>1. cli' = [cli EXCEPT ![i] = q]
    BY <1>2 DEF CliInv
  <2>2. r \in CliRequest /\ r.op \in Cli!Operations /\ r.id = id /\ r.op = args.op
    <3>1. /\ (IF args.op # "rotate" THEN Cli!None ELSE IF Cli!Has(args, "--idempotency-key") THEN args.key ELSE i) \in CliKeys
          /\ (IF Cli!Has(args, "--expires-at") THEN args.flags["--expires-at"].n ELSE 0) \in CliTimes
          /\ args.auth \in CliAuths /\ args.op \in Cli!Operations
      BY <1>2 DEF CliKeys, CliTimes, CliAuths, Cli!ParseCredentialsArgs
    <3>2. Cli!Has(args, "--id") \in CliGivens
      BY DEF CliGivens
    <3>. QED BY <3>1, <3>2 DEF Cli!BuildCredentialsHttpRequest, CliRequest
  <2>. HIDE DEF r
  <2>3. q = [Cli!NoCli EXCEPT !.phase = "sent", !.req = r]
    BY <1>0
  <2>4. q \in CliCall
    BY <1>0, <2>2 DEF CliCall
  <2>5. /\ q.phase = "sent" /\ q.req = r /\ q.status = 0 /\ q.carries = Cli!None /\ q.did = FALSE
        /\ q.shown = Cli!None /\ q.exit = -1
    BY <2>3 DEF Cli!NoCli
  <2>. HIDE DEF q
  <2>6. CliOK(i, q) /\ CliHas(kept, i, q)
    BY <2>2, <2>5 DEF CliOK, CliHas
  <2>. QED BY <1>0, <2>1, <2>4, <2>6, CliEdit
<1>3. Cli!ReadAdminToken(args, file, env) \in {0, 2, 3}
  BY DEF Cli!ReadAdminToken, Cli!EXIT_SUCCESS, Cli!EXIT_USAGE, Cli!EXIT_AUTH
<1>. QED BY <1>1, <1>2, <1>3 DEF Cli!Main, Cli!EXIT_SUCCESS, Cli!EXIT_USAGE

\* An answer to a request that is under way.
LEMMA AnswerKeeps ==
  ASSUME CliInv, NEW i \in Invocations, cli[i].phase = "sent", NEW status \in Nat, NEW carries, carries \in {Cli!None, i}, NEW did \in BOOLEAN,
         Cli!Answers(i, status, carries, did), RowsInv(kept', remembered'), RowsGrow(kept, kept'),
         did => status \in {200, 201, 409, 503},
         status \in 200..299 /\ cli[i].req.op \in {"create", "revoke"} => did,
         carries # Cli!None => kept'[i].status # Cli!None /\ kept'[i].secret = i,
         status \in 200..299 /\ cli[i].req.op = "rotate" => did \/ kept'[cli[i].req.id].to # Cli!None
  PROVE  CliInv' /\ Cli!SuccessorStep
PROOF
<1>. DEFINE p == IF cli[i].exit = -1 THEN "answered" ELSE "over"
            q == [cli[i] EXCEPT !.phase = p, !.status = status, !.carries = carries, !.did = did]
<1>1. cli' = [cli EXCEPT ![i] = q]
  BY DEF Cli!Answers, CliInv
<1>2. cli[i] \in CliCall /\ cli[i].req \in CliRequest /\ CliOK(i, cli[i])
  BY CliTyped
<1>3. /\ q \in CliCall /\ q.phase = p /\ q.status = status /\ q.carries = carries /\ q.did = did
      /\ q.req = cli[i].req /\ q.shown = cli[i].shown /\ q.exit = cli[i].exit
  <2>1. p \in {"idle", "sent", "answered", "over"} /\ carries \in Invocations \cup {Cli!None}
    OBVIOUS
  <2>. HIDE DEF p
  <2>2. q \in CliCall
    <3>1. [cli[i] EXCEPT !.phase = p] \in CliCall
      BY <1>2, <2>1 DEF CliCall
    <3>2. [[cli[i] EXCEPT !.phase = p] EXCEPT !.status = status, !.carries = carries, !.did = did] \in CliCall
      BY ZenonT(60), <2>1, <3>1 DEF CliCall
    <3>. QED BY <1>2, <3>2 DEF CliCall
  <2>3. q.phase = p /\ q.status = status /\ q.carries = carries /\ q.did = did
    BY <1>2 DEF CliCall
  <2>4. q.req = cli[i].req /\ q.shown = cli[i].shown /\ q.exit = cli[i].exit
    BY <1>2 DEF CliCall
  <2>. QED BY <2>2, <2>3, <2>4
<1>. HIDE DEF q
<1>4. cli[i].exit \notin {0, 2, 3} /\ cli[i].shown = Cli!None
  BY <1>2 DEF CliOK
<1>5. CliOK(i, q) /\ CliHas(kept', i, q)
  BY <1>2, <1>3, <1>4 DEF CliOK, CliHas
<1>. QED BY <1>1, <1>3, <1>5, CliEdit

\* A request that is refused changes nothing.
LEMMA RefusalKeeps ==
  ASSUME CliInv, NEW i \in Invocations, cli[i].phase = "sent", NEW status \in {400, 403, 404, 409, 503}, Cli!Refuses(i, status)
  PROVE  CliInv' /\ Cli!SuccessorStep
PROOF
<1>1. Cli!Answers(i, status, Cli!None, FALSE) /\ kept' = kept /\ remembered' = remembered
  BY DEF Cli!Refuses
<1>3. status \in Nat /\ status \notin 200..299
  OBVIOUS
<1>2. RowsInv(kept, remembered) /\ RowsGrow(kept, kept)
  BY CliTyped
<1>. QED BY ZenonT(60), <1>1, <1>2, <1>3, AnswerKeeps

\* Its answer comes back from the route of a create.
LEMMA CliCreateKeeps ==
  ASSUME CliInv, NEW i \in Invocations, cli[i].phase = "sent", NEW answered \in BOOLEAN, Cli!HandleCreate(i, answered)
  PROVE  CliInv' /\ Cli!SuccessorStep
PROOF
<1>1. cli[i].req.op = "create" /\ cli[i].req.id = i /\ i \in Cli!CredentialIds
  BY CliTyped DEF Cli!HandleCreate, CliOK
<1>2. RowsInv(kept, remembered)
  BY CliTyped
<1>3. CASE Cli!Refuses(i, 400) \/ Cli!Refuses(i, 409)
  BY <1>3, RefusalKeeps
<1>4. CASE ~(Cli!Refuses(i, 400) \/ Cli!Refuses(i, 409))
  <2>. DEFINE new == [status |-> "active", to |-> Cli!None, secret |-> i]
              status == IF answered THEN 201 ELSE 409
              carries == IF answered THEN i ELSE Cli!None
  <2>1. /\ kept[i].status = Cli!None /\ kept' = [kept EXCEPT ![i] = new] /\ remembered' = remembered
        /\ Cli!Answers(i, status, carries, TRUE)
    BY <1>1, <1>4 DEF Cli!HandleCreate
  <2>2. new \in CliRow /\ new.status # Cli!None /\ new.secret = i
    BY <1>1 DEF CliRow, Cli!None
  <2>. HIDE DEF new
  <2>3. RowsInv(kept', remembered') /\ RowsGrow(kept, kept') /\ kept'[i].status # Cli!None /\ kept'[i].secret = i
    BY <1>1, <1>2, <2>1, <2>2 DEF RowsInv, RowsGrow
  <2>4. CASE answered
    <3>1. Cli!Answers(i, 201, i, TRUE)
      BY <2>1, <2>4
    <3>2. /\ 201 \in Nat /\ i \in {Cli!None, i} /\ TRUE \in BOOLEAN /\ 201 \in {200, 201, 409, 503}
          /\ i # Cli!None => kept'[i].status # Cli!None /\ kept'[i].secret = i
      BY <2>3
    <3>. QED BY ZenonT(60), <2>3, <3>1, <3>2, AnswerKeeps
  <2>5. CASE ~answered
    <3>1. Cli!Answers(i, 409, Cli!None, TRUE)
      BY <2>1, <2>5
    <3>2. 409 \in Nat /\ Cli!None \in {Cli!None, i} /\ TRUE \in BOOLEAN /\ 409 \in {200, 201, 409, 503} /\ 409 \notin 200..299
      OBVIOUS
    <3>. QED BY ZenonT(60), <2>3, <3>1, <3>2, AnswerKeeps
  <2>. QED BY <2>4, <2>5
<1>. QED BY <1>3, <1>4

\* A rotate: of a key that is remembered, of a row that cannot be rotated, or one that
\* makes a successor.
LEMMA RotateKeeps ==
  ASSUME CliNames, CliInv, NEW i \in Invocations, cli[i].phase = "sent", NEW answered \in BOOLEAN, Cli!HandleRotate(i, answered)
  PROVE  CliInv' /\ Cli!SuccessorStep
PROOF
<1>. DEFINE x == cli[i].req.id
            known == \E e \in remembered : e.id = x /\ e.key = cli[i].req.key
            busy == kept[x].status # "active" \/ kept[x].to # Cli!None \/ kept[i].status # Cli!None
<1>1. cli[i].req.op = "rotate" /\ x \in Cli!CredentialIds /\ i \in Cli!CredentialIds /\ i # Cli!None
  BY CliTyped DEF Cli!HandleRotate, CliOK, Cli!Operations, CliNames
<1>2. RowsInv(kept, remembered) /\ RowsGrow(kept, kept)
  BY CliTyped
<1>3. CASE known
  <2>1. Cli!Answers(i, 200, Cli!None, FALSE) /\ kept' = kept /\ remembered' = remembered
    BY <1>3 DEF Cli!HandleRotate
  <2>2. kept[x].to # Cli!None
    BY <1>2, <1>3 DEF RowsInv
  <2>. QED BY ZenonT(60), <1>1, <1>2, <2>1, <2>2, AnswerKeeps
<1>4. CASE ~known /\ kept[x].status = Cli!None
  <2>1. Cli!Refuses(i, 404)
    BY <1>4 DEF Cli!HandleRotate
  <2>. QED BY <2>1, RefusalKeeps
<1>5. CASE ~known /\ kept[x].status # Cli!None /\ busy
  <2>1. Cli!Refuses(i, 409)
    BY <1>5 DEF Cli!HandleRotate
  <2>. QED BY <2>1, RefusalKeeps
<1>6. CASE ~known /\ kept[x].status # Cli!None /\ ~busy
  <2>. DEFINE new == [status |-> "active", to |-> Cli!None, secret |-> i]
              old == [kept[x] EXCEPT !.status = "rotating", !.to = i]
              status == IF answered THEN 200 ELSE 409
              carries == IF answered THEN i ELSE Cli!None
  <2>1. kept \in [Cli!CredentialIds -> CliRow] /\ kept[x] \in CliRow /\ x # i /\ kept[x].to = Cli!None
    BY <1>1, <1>2, <1>6 DEF RowsInv
  <2>2. /\ kept' = [kept EXCEPT ![x] = old, ![i] = new] /\ Cli!Answers(i, status, carries, TRUE)
        /\ \A e \in remembered' : e \in remembered \/ e.id = x
    <3>1. /\ kept' = [kept EXCEPT ![x] = [@ EXCEPT !.status = "rotating", !.to = i], ![i] = new]
          /\ Cli!Answers(i, status, carries, TRUE)
          /\ remembered' = IF answered THEN remembered \cup {[id |-> x, key |-> cli[i].req.key]} ELSE remembered
      BY <1>6, Zenon DEF Cli!HandleRotate
    <3>2. \A e \in remembered' : e \in remembered \/ e.id = x
      BY <3>1
    <3>. QED BY <2>1, <3>1, <3>2
  <2>3. new \in CliRow /\ new.status # Cli!None /\ new.secret = i
    BY <1>1 DEF CliRow, Cli!None
  <2>4. old \in CliRow /\ old.status # Cli!None /\ old.to = i /\ old.secret = kept[x].secret
    BY <1>1, <2>1 DEF CliRow, Cli!None
  <2>. HIDE DEF new, old
  <2>5. /\ kept' \in [Cli!CredentialIds -> CliRow] /\ kept'[x] = old /\ kept'[i] = new
        /\ \A y \in Cli!CredentialIds \ {x, i} : kept'[y] = kept[y]
    BY <1>1, <2>1, <2>2, <2>3, <2>4
  <2>6. kept[i].status = Cli!None /\ kept[i].to = Cli!None
    BY <1>1, <1>2, <1>6 DEF RowsInv
  <2>7. RowsInv(kept', remembered')
    <3>1. \A id \in Cli!CredentialIds : kept'[id].status = Cli!None => kept'[id].to = Cli!None
      BY <1>2, <2>3, <2>4, <2>5 DEF RowsInv
    <3>2. \A id \in Cli!CredentialIds : kept[id].to # Cli!None => kept'[id].to # Cli!None
      BY <1>1, <2>1, <2>4, <2>5, <2>6
    <3>3. kept'[x].to # Cli!None
      BY <1>1, <2>4, <2>5
    <3>4. \A e \in remembered' : e.id \in Cli!CredentialIds /\ kept'[e.id].to # Cli!None
      BY <1>1, <1>2, <2>2, <3>2, <3>3 DEF RowsInv
    <3>. QED BY <2>5, <3>1, <3>4 DEF RowsInv
  <2>8. RowsGrow(kept, kept')
    BY <1>1, <2>1, <2>4, <2>5, <2>6 DEF RowsGrow
  <2>9. kept'[i].status # Cli!None /\ kept'[i].secret = i
    BY <2>3, <2>5
  <2>10. CASE answered
    <3>1. Cli!Answers(i, 200, i, TRUE)
      BY <2>2, <2>10
    <3>2. /\ 200 \in Nat /\ i \in {Cli!None, i} /\ TRUE \in BOOLEAN /\ 200 \in {200, 201, 409, 503}
          /\ i # Cli!None => kept'[i].status # Cli!None /\ kept'[i].secret = i
      BY <2>7, <2>8, <2>9
    <3>. QED BY <2>7, <2>8, <2>9, <3>1, <3>2, AnswerKeeps
  <2>11. CASE ~answered
    <3>1. Cli!Answers(i, 409, Cli!None, TRUE)
      BY <2>2, <2>11
    <3>2. 409 \in Nat /\ Cli!None \in {Cli!None, i} /\ TRUE \in BOOLEAN /\ 409 \in {200, 201, 409, 503} /\ 409 \notin 200..299
      OBVIOUS
    <3>. QED BY ZenonT(60), <2>7, <2>8, <2>9, <3>1, <3>2, AnswerKeeps
  <2>. QED BY <2>10, <2>11
<1>. QED BY <1>3, <1>4, <1>5, <1>6

\* A revoke keeps the secret and the successor of its row.
LEMMA RevokeKeeps ==
  ASSUME CliInv, NEW i \in Invocations, cli[i].phase = "sent", NEW answered \in BOOLEAN, Cli!HandleRevoke(i, answered)
  PROVE  CliInv' /\ Cli!SuccessorStep
PROOF
<1>. DEFINE x == cli[i].req.id
<1>1. cli[i].req.op = "revoke" /\ x \in Cli!CredentialIds
  BY CliTyped DEF Cli!HandleRevoke, CliOK, Cli!Operations
<1>2. RowsInv(kept, remembered)
  BY CliTyped
<1>3. CASE kept[x].status = Cli!None
  BY <1>3, RefusalKeeps DEF Cli!HandleRevoke
<1>4. CASE kept[x].status # Cli!None
  <2>. DEFINE new == [kept[x] EXCEPT !.status = "revoked"]
              status == IF answered THEN 200 ELSE 503
  <2>1. Cli!Answers(i, status, Cli!None, TRUE) /\ kept' = [kept EXCEPT ![x].status = "revoked"] /\ remembered' = remembered
    BY <1>4 DEF Cli!HandleRevoke
  <2>2. kept \in [Cli!CredentialIds -> CliRow] /\ kept[x] \in CliRow
    BY <1>1, <1>2 DEF RowsInv
  <2>3. kept' = [kept EXCEPT ![x] = new]
    BY <2>1, <2>2
  <2>4. new \in CliRow /\ new.status # Cli!None /\ new.to = kept[x].to /\ new.secret = kept[x].secret
    BY <2>2 DEF CliRow, Cli!None
  <2>. HIDE DEF new
  <2>7. kept' \in [Cli!CredentialIds -> CliRow] /\ kept'[x] = new /\ \A y \in Cli!CredentialIds \ {x} : kept'[y] = kept[y]
    BY <1>1, <2>2, <2>3, <2>4
  <2>8. \A y \in Cli!CredentialIds : kept'[y].to = kept[y].to /\ kept'[y].secret = kept[y].secret
                               /\ (kept[y].status # Cli!None <=> kept'[y].status # Cli!None)
    BY <1>4, <2>4, <2>7
  <2>5. RowsInv(kept', remembered') /\ RowsGrow(kept, kept')
    BY SMTT(30), <1>2, <2>1, <2>7, <2>8 DEF RowsInv, RowsGrow
  <2>6. status \in Nat /\ status \in {200, 201, 409, 503}
    OBVIOUS
  <2>. HIDE DEF status
  <2>. QED BY ZenonT(60), <1>1, <2>1, <2>5, <2>6, AnswerKeeps
<1>. QED BY <1>3, <1>4

\* handleAdminCredentialsRequest(), or an API that is not there.
LEMMA HandleKeeps ==
  ASSUME CliNames, CliInv, NEW i \in Invocations,
         (\E answered \in BOOLEAN : Cli!HandleAdminCredentialsRequest(i, answered)) \/ Cli!Unavailable(i)
  PROVE  CliInv' /\ Cli!SuccessorStep
PROOF
<1>1. cli[i].phase = "sent"
  BY DEF Cli!HandleAdminCredentialsRequest, Cli!Unavailable
<1>2. CASE Cli!Refuses(i, 403) \/ Cli!Refuses(i, 503)
  BY <1>1, <1>2, RefusalKeeps
<1>3. CASE \E answered \in BOOLEAN : Cli!HandleCreate(i, answered) \/ Cli!HandleList(i) \/ Cli!HandleRotate(i, answered) \/ Cli!HandleRevoke(i, answered)
  <2>1. CASE Cli!HandleList(i)
    <3>1. cli[i].req.op = "list" /\ Cli!Answers(i, 200, Cli!None, FALSE) /\ kept' = kept /\ remembered' = remembered
      BY <2>1 DEF Cli!HandleList
    <3>2. RowsInv(kept, remembered) /\ RowsGrow(kept, kept)
      BY CliTyped
    <3>. QED BY ZenonT(60), <1>1, <3>1, <3>2, AnswerKeeps
  <2>. QED BY <1>1, <1>3, <2>1, CliCreateKeeps, RotateKeeps, RevokeKeeps
<1>. QED BY <1>2, <1>3 DEF Cli!HandleAdminCredentialsRequest, Cli!Unavailable

\* The sender gives up, or the request it gave up is lost.
LEMMA GiveUpKeeps ==
  ASSUME CliInv, NEW i \in Invocations, Cli!FetchFails(i) \/ Cli!RequestLost(i)
  PROVE  CliInv' /\ Cli!SuccessorStep
PROOF
<1>. DEFINE failed == [cli[i] EXCEPT !.exit = Cli!EXIT_SERVER, !.phase = IF @ = "sent" THEN "sent" ELSE "over"]
            lost == [cli[i] EXCEPT !.phase = "over"]
<1>1. cli[i] \in CliCall /\ CliOK(i, cli[i]) /\ CliHas(kept, i, cli[i]) /\ RowsInv(kept, remembered) /\ RowsGrow(kept, kept)
  BY CliTyped
<1>2. kept' = kept /\ remembered' = remembered
  BY DEF Cli!FetchFails, Cli!RequestLost
<1>3. CASE Cli!FetchFails(i)
  <2>1. cli' = [cli EXCEPT ![i] = failed] /\ cli[i].phase \in {"sent", "answered"} /\ cli[i].exit = -1
    BY <1>3 DEF Cli!FetchFails, CliInv
  <2>2. failed \in CliCall
    BY <1>1 DEF CliCall, Cli!EXIT_SERVER
  <2>3. CliOK(i, failed) /\ CliHas(kept, i, failed)
    BY <1>1, <2>1 DEF CliOK, CliHas, CliCall, Cli!EXIT_SERVER
  <2>. HIDE DEF failed
  <2>. QED BY <1>1, <1>2, <2>1, <2>2, <2>3, CliEdit
<1>4. CASE Cli!RequestLost(i)
  <2>1. cli' = [cli EXCEPT ![i] = lost] /\ cli[i].phase = "sent" /\ cli[i].exit # -1
    BY <1>4 DEF Cli!RequestLost, CliInv
  <2>2. lost \in CliCall
    BY <1>1 DEF CliCall
  <2>3. CliOK(i, lost) /\ CliHas(kept, i, lost)
    BY <1>1, <2>1 DEF CliOK, CliHas, CliCall
  <2>. HIDE DEF lost
  <2>. QED BY <1>1, <1>2, <2>1, <2>2, <2>3, CliEdit
<1>. QED BY <1>3, <1>4

\* executeCredentialsCommand(): the exit code of an answer is the one its status allows.
LEMMA ExecuteKeeps ==
  ASSUME CliInv, NEW i \in Invocations, NEW body \in {"json", "oversized", "unreadable", "malformed"}, Cli!ExecuteCredentialsCommand(i, body)
  PROVE  CliInv' /\ Cli!SuccessorStep
PROOF
<1>. DEFINE ok == cli[i].status \in 200..299
            shown == IF ok /\ body = "json" THEN Cli!FormatCredentialsSuccess(i) ELSE Cli!None
            code == IF body = "oversized" THEN Cli!EXIT_SERVER
                    ELSE IF body = "unreadable" \/ ~ok THEN Cli!SanitizeCredentialsError(cli[i].status)
                    ELSE IF body = "malformed" THEN Cli!EXIT_SERVER ELSE Cli!EXIT_SUCCESS
            q == [cli[i] EXCEPT !.phase = "over", !.shown = shown, !.exit = code]
<1>1. cli[i] \in CliCall /\ CliOK(i, cli[i]) /\ CliHas(kept, i, cli[i]) /\ RowsInv(kept, remembered) /\ RowsGrow(kept, kept)
  BY CliTyped
<1>2. cli[i].phase = "answered" /\ cli' = [cli EXCEPT ![i] = q] /\ kept' = kept /\ remembered' = remembered
  BY ZenonT(60) DEF Cli!ExecuteCredentialsCommand, CliInv
<1>3. shown \in {Cli!None, cli[i].carries} /\ shown \in Invocations \cup {Cli!None}
  BY <1>1 DEF Cli!FormatCredentialsSuccess, CliCall
<1>4. /\ code \in {0, 2, 3, 4} /\ (code = 0 => ok) /\ (code \in {2, 3} => cli[i].status \in {400, 401, 403, 422})
  BY <1>1 DEF Cli!SanitizeCredentialsError, Cli!EXIT_SERVER, Cli!EXIT_SUCCESS, Cli!EXIT_USAGE, Cli!EXIT_AUTH, CliCall
<1>. HIDE DEF shown, code
<1>5. /\ q \in CliCall /\ q.phase = "over" /\ q.shown = shown /\ q.exit = code
      /\ q.req = cli[i].req /\ q.status = cli[i].status /\ q.carries = cli[i].carries /\ q.did = cli[i].did
  <2>1. code \in {-1, 0, 2, 3, 4}
    BY <1>4
  <2>. QED BY <1>1, <1>3, <2>1 DEF CliCall
<1>. HIDE DEF q
<1>6. CliOK(i, q) /\ CliHas(kept, i, q)
  BY SMTT(30), <1>1, <1>2, <1>3, <1>4, <1>5 DEF CliOK, CliHas, CliCall
<1>. QED BY <1>1, <1>2, <1>5, <1>6, CliEdit

\* Every step keeps the command's invariant, and no successor changes.
LEMMA CliNext == ASSUME CliNames, CliInv, [Cli!Next]_(Cli!vars) PROVE CliInv' /\ (Cli!SuccessorStep \/ UNCHANGED Cli!vars)
PROOF
<1>1. CASE UNCHANGED Cli!vars
  BY <1>1 DEF Cli!vars, CliInv
<1>2. CASE Cli!IsolateEnds
  <2>1. cli' = cli /\ kept' = kept /\ remembered' = {}
    BY <1>2 DEF Cli!IsolateEnds
  <2>. QED BY <2>1 DEF CliInv, RowsInv, Cli!SuccessorStep
<1>3. ASSUME NEW i \in Invocations, NEW args \in Arguments, NEW file \in TokenFile, NEW env \in TokenEnv,
             NEW id \in {Given} \cup {j \in Invocations : kept[j].status # Cli!None},
             Cli!Main(i, args, file, env, IF args.op = "create" THEN i ELSE id)
      PROVE  CliInv' /\ Cli!SuccessorStep
  <2>. DEFINE x == IF args.op = "create" THEN i ELSE id
  <2>1. x \in Cli!CredentialIds /\ (args.op = "create" => x = i) /\ Cli!Main(i, args, file, env, x)
    BY <1>3 DEF Cli!CredentialIds
  <2>. HIDE DEF x
  <2>. QED BY <2>1, MainKeeps
<1>. QED BY <1>1, <1>2, <1>3, HandleKeeps, GiveUpKeeps, ExecuteKeeps DEF Cli!Next

LEMMA CliInit == Cli!Init => CliInv
PROOF
<1>. SUFFICES ASSUME Cli!Init PROVE CliInv
  OBVIOUS
<1>1. Cli!NoRequest \in CliRequest
  BY DEF Cli!NoRequest, CliRequest, CliKeys, CliAuths, CliTimes, CliGivens
<1>2. Cli!NoCli \in CliCall /\ \A i \in Invocations : CliOK(i, Cli!NoCli) /\ CliHas(kept, i, Cli!NoCli)
  BY <1>1 DEF Cli!NoCli, CliCall, CliOK, CliHas, Cli!NoRequest, Cli!Operations, Cli!None
<1>3. RowsInv(kept, remembered)
  <2>1. Given \in Cli!CredentialIds /\ Cli!NoRow \in CliRow /\ [Cli!NoRow EXCEPT !.status = "active", !.secret = Given] \in CliRow
    BY DEF Cli!NoRow, CliRow, Cli!CredentialIds
  <2>. QED BY <2>1 DEF Cli!Init, RowsInv, Cli!NoRow
<1>. QED BY <1>2, <1>3 DEF Cli!Init, CliInv

\* What the command keeps, in every state.
THEOREM CliInvariance == ASSUME CliNames PROVE Cli!Spec => []CliInv
PROOF
<1>. QED BY CliInit, CliNext, PTL DEF Cli!Spec

\* The command has no exit code before it sent its request, and one of the documented
\* codes after (groundlane-credentials).
THEOREM CommandsTyped == ASSUME CliNames PROVE Cli!Spec => []Cli!TypeOK
PROOF
<1>1. ASSUME CliInv PROVE Cli!TypeOK
  <2>1. ASSUME NEW i \in Invocations
        PROVE  /\ cli[i].phase \in {"idle", "sent", "answered", "over"} /\ cli[i].exit \in {-1, 0, 2, 3, 4}
               /\ cli[i].exit # -1 => cli[i].phase \in {"sent", "over"}
    <3>1. cli[i] \in CliCall /\ CliOK(i, cli[i])
      BY <1>1 DEF CliInv
    <3>. QED BY <3>1 DEF CliCall, CliOK
  <2>2. ASSUME NEW id \in Cli!CredentialIds
        PROVE  kept[id].status \in {Cli!None, "active", "rotating", "revoked"} /\ kept[id].to \in Cli!CredentialIds \cup {Cli!None}
    <3>1. kept[id] \in CliRow
      BY <1>1 DEF CliInv, RowsInv
    <3>. QED BY <3>1 DEF CliRow, Cli!CredentialIds
  <2>. QED BY <2>1, <2>2 DEF Cli!TypeOK
<1>. QED BY <1>1, CliInvariance, PTL

\* A secret is on the operator's screen at most once, and is the one of its row
\* (formatCredentialsSuccess).
THEOREM SecretShownOnce == ASSUME CliNames PROVE Cli!Spec => []Cli!ShownOnce
PROOF
<1>1. CliInv => Cli!ShownOnce
  BY DEF CliInv, CliOK, CliHas, Cli!ShownOnce, Cli!CredentialIds
<1>. QED BY <1>1, CliInvariance, PTL

\* The exit code of the command is true, however late its request is handled
\* (executeCredentialsCommand, sanitizeCredentialsError).
THEOREM ExitsAreTrue == ASSUME CliNames PROVE Cli!Spec => []Cli!ExitIsTrue
PROOF
<1>1. CliInv => Cli!ExitIsTrue
  BY DEF CliInv, CliOK, CliHas, Cli!ExitIsTrue, Cli!EXIT_USAGE, Cli!EXIT_AUTH, Cli!EXIT_SUCCESS, Cli!Operations, Cli!None
<1>. QED BY <1>1, CliInvariance, PTL

\* A successor that a rotate gave a credential never changes (rotateCredential).
THEOREM OneSuccessor == ASSUME CliNames PROVE Cli!Spec => [][Cli!SuccessorStep]_(Cli!vars)
PROOF
<1>. QED BY CliInvariance, CliNext, PTL DEF Cli!Spec

-----------------------------------------------------------------------------
\* The crawl jobs of an owner, for any budgets, pages and caps (CrawlJobs).
\* These operators are the same in the instance.
LEMMA CrawlsCardinality == \A S : Crawls!Cardinality(S) = Cardinality(S)
BY Zenon DEF Crawls!Cardinality, Cardinality

CrawlStatus == {Crawls!None, "created", "crawling"} \cup Crawls!Terminal
CrawlRecord == [status: CrawlStatus, owner: Owners \cup {Crawls!None}, cred: Credentials \cup {Crawls!None},
                key: Keys \cup {Crawls!None}, ends: Nat, budgets: Budgets \cup {Crawls!None}, partials: Seq(Chars),
                dropped: Nat, asked: BOOLEAN, ack: BOOLEAN, billed: BOOLEAN]

\* What a job has kept, against its budgets.
CrawlFits(j) ==
  /\ Len(j.partials) <= MaxPartials /\ Len(j.partials) <= j.budgets.pages
  /\ Crawls!TotalChars(j.partials) <= j.budgets.bytes /\ Crawls!TotalChars(j.partials) <= j.budgets.chars

\* A job of the store belongs to someone, fits its budgets, is billed when it ended with
\* the work done or refused and is cancelled upstream exactly with an acknowledgment.
CrawlSound(j) ==
  /\ j.ack <=> j.status = "cancelled_by_upstream"
  /\ j.status # Crawls!None =>
       /\ j.owner \in Owners /\ j.cred \in Credentials /\ j.budgets \in Budgets
       /\ j.billed <=> j.status \in {"completed", "failed"}
       /\ CrawlFits(j)

\* A reader under way has read what its offset says, and one that was told there is no
\* more has read a prefix of what is there now.
ReaderAt(r, partials) ==
  IF r.done THEN r.read \in Seq(Chars) /\ Len(r.read) <= Len(partials) /\ r.read = SubSeq(partials, 1, Len(r.read))
  ELSE r.offset < Len(partials) /\ r.read = SubSeq(partials, 1, r.offset)
ReaderSound ==
  /\ reader \in [job: Crawls!JobIds \cup {0}, offset: Nat, read: Seq(Chars), done: BOOLEAN]
  /\ IF reader.job = 0 THEN reader = Crawls!NoReader
     ELSE jobs[reader.job].status # Crawls!None /\ ReaderAt(reader, jobs[reader.job].partials)

CrawlsInOrder == \E n \in 0..MaxCrawls : Crawls!Stored = 1..n

CrawlInv ==
  /\ clock \in 0..JobsNow
  /\ jobs \in [Crawls!JobIds -> CrawlRecord]
  /\ \A i \in Crawls!JobIds : CrawlSound(jobs[i])
  /\ CrawlsInOrder
  /\ ReaderSound

\* What a step may do to a job that is there.
CrawlEdit(o, j) ==
  /\ j.status # Crawls!None /\ j.owner = o.owner /\ j.cred = o.cred /\ j.budgets = o.budgets
  /\ \E more \in Seq(Chars) : j.partials = o.partials \o more
  /\ o.status \in Crawls!Terminal => j.status = o.status /\ j.partials = o.partials

\* What no step changes.
CrawlSame(o, j) == j.owner = o.owner /\ j.cred = o.cred /\ j.budgets = o.budgets

\* What paging and cancellation promise of a step.
CrawlSteps == Crawls!PagingStep /\ Crawls!EndedStep

\* The lesser of two numbers.
LEMMA LesserOfTwo ==
  ASSUME NEW a \in Nat, NEW b \in Nat
  PROVE  (a <= b => Crawls!Min({a, b}) = a) /\ (a >= b => Crawls!Min({a, b}) = b)
PROOF
<1>. DEFINE m == Crawls!Min({a, b})
<1>1. \E x \in {a, b} : \A y \in {a, b} : x <= y
  BY SMT
<1>2. m \in {a, b} /\ \A y \in {a, b} : m <= y
  BY <1>1 DEF Crawls!Min
<1>. HIDE DEF m
<1>3. (m = a \/ m = b) /\ m <= a /\ m <= b
  BY <1>2
<1>4. (a <= b => m = a) /\ (a >= b => m = b)
  BY <1>3
<1>. QED BY <1>4 DEF m

\* What is at most two numbers is at most the lesser.
LEMMA LesserBound ==
  ASSUME NEW a \in Nat, NEW b \in Nat, NEW n, n <= a, n <= b
  PROVE  n <= Crawls!Min({a, b})
BY LesserOfTwo

\* Nothing kept has no characters.
LEMMA NoChars == Crawls!TotalChars(<<>>) = 0
PROOF
<1>. DEFINE f == [n \in 0..0 |-> 0]
            F(g) == [n \in 0..0 |-> IF n = 0 THEN 0 ELSE g[n - 1] + <<>>[n]]
<1>1. f = F(f)
  OBVIOUS
<1>2. \A g : g = F(g) => g[0] = 0
  OBVIOUS
<1>3. Crawls!TotalChars(<<>>) = (CHOOSE g : g = F(g))[0]
  BY DEF Crawls!TotalChars
<1>4. (CHOOSE g : g = F(g)) = F(CHOOSE g : g = F(g))
  BY <1>1
<1>. QED BY <1>2, <1>3, <1>4

\* Adding no page is adding pages.
LEMMA KeepsNone == \A p \in Seq(Chars) : \E more \in Seq(Chars) : p = p \o more
PROOF
<1>1. \A p \in Seq(Chars) : p = p \o <<>>
  OBVIOUS
<1>2. <<>> \in Seq(Chars)
  OBVIOUS
<1>. QED BY <1>1, <1>2

\* A reader's position outlives pages that are added behind it.
LEMMA ReaderKeeps ==
  ASSUME NEW p \in Seq(Chars), NEW more \in Seq(Chars), NEW r \in [job: Crawls!JobIds \cup {0}, offset: Nat, read: Seq(Chars), done: BOOLEAN],
         ReaderAt(r, p)
  PROVE  ReaderAt(r, p \o more)
PROOF
<1>1. Len(p \o more) = Len(p) + Len(more) /\ p \o more \in Seq(Chars)
  BY ConcatProperties
<1>2. \A n \in 0..Len(p) : SubSeq(p \o more, 1, n) = SubSeq(p, 1, n)
  BY SubSeqOfConcat1
<1>3. CASE r.done
  <2>1. Len(r.read) \in 0..Len(p)
    BY <1>3 DEF ReaderAt
  <2>. QED BY <1>1, <1>2, <1>3, <2>1 DEF ReaderAt
<1>4. CASE ~r.done
  <2>1. r.offset \in 0..Len(p) /\ r.offset < Len(p \o more)
    BY <1>1, <1>4 DEF ReaderAt
  <2>. QED BY <1>1, <1>2, <1>4, <2>1 DEF ReaderAt
<1>. QED BY <1>3, <1>4

\* What a reader has read is a prefix of what there is.
LEMMA ReaderPrefix ==
  ASSUME NEW p \in Seq(Chars), NEW r \in [job: Crawls!JobIds \cup {0}, offset: Nat, read: Seq(Chars), done: BOOLEAN], ReaderAt(r, p)
  PROVE  Crawls!IsPrefix(r.read, p)
PROOF
<1>1. r.read \in Seq(Chars) /\ Len(r.read) \in Nat /\ SubSeq(r.read, 1, Len(r.read)) = r.read
  BY SubSeqFull
<1>2. CASE r.done
  BY <1>1, <1>2 DEF ReaderAt, Crawls!IsPrefix
<1>3. CASE ~r.done
  <2>1. r.offset \in 0..Len(p) /\ r.read = SubSeq(p, 1, r.offset)
    BY <1>3 DEF ReaderAt
  <2>2. Len(r.read) = r.offset
    BY <2>1, SubSeqProperties
  <2>. QED BY <1>1, <2>1, <2>2 DEF Crawls!IsPrefix
<1>. QED BY <1>2, <1>3

\* One page of result(): the reader moves by it, and is told there is no more only when
\* it has read all there is.
LEMMA ResultMoves ==
  ASSUME CrawlNumbers, CrawlInv, NEW i \in Crawls!Stored, NEW size \in PageSizes, Crawls!Result(i, size)
  PROVE  /\ jobs' = jobs /\ clock' = clock /\ ReaderSound'
         /\ reader'.done => reader'.read = jobs[i].partials
         /\ reader'.job = i
PROOF
<1>. DEFINE p == jobs[i].partials
            off == reader.offset
            rd == reader.read
<1>1. i \in Crawls!JobIds /\ p \in Seq(Chars) /\ Len(p) \in Nat
  BY DEF Crawls!Stored, CrawlInv, CrawlRecord
<1>2. reader \in [job: Crawls!JobIds \cup {0}, offset: Nat, read: Seq(Chars), done: BOOLEAN] /\ ~reader.done /\ reader.job \in {0, i}
  BY DEF CrawlInv, ReaderSound, Crawls!Result
<1>3. off \in 0..Len(p) /\ rd = SubSeq(p, 1, off)
  <2>1. CASE reader.job = 0
    <3>1. off = 0 /\ rd = <<>>
      BY <2>1 DEF CrawlInv, ReaderSound, Crawls!NoReader
    <3>2. SubSeq(p, 1, 0) = <<>>
      BY <1>1, SubSeqEmpty
    <3>. QED BY <1>1, <3>1, <3>2
  <2>2. CASE reader.job = i
    <3>1. i # 0
      BY <1>1 DEF Crawls!JobIds
    <3>. QED BY <1>1, <1>2, <2>2, <3>1 DEF CrawlInv, ReaderSound, ReaderAt
  <2>. QED BY <1>2, <2>1, <2>2
<1>4. size \in Nat \ {0}
  BY DEF CrawlNumbers
<1>. DEFINE last == Crawls!Min({off + size, Len(p)})
<1>5. /\ off + size <= Len(p) => last = off + size
      /\ off + size >= Len(p) => last = Len(p)
  <2>. DEFINE a == off + size
              b == Len(p)
  <2>1. a \in Nat /\ b \in Nat
    BY <1>1, <1>3, <1>4
  <2>2. last = Crawls!Min({a, b})
    OBVIOUS
  <2>. HIDE DEF a, b, last
  <2>3. (a <= b => last = a) /\ (a >= b => last = b)
    BY <2>1, <2>2, LesserOfTwo
  <2>. QED BY <2>3 DEF a, b
<1>. DEFINE got == rd \o Crawls!Items(p, off, size)
<1>6. got = SubSeq(p, 1, last)
  <2>1. Crawls!Items(p, off, size) = SubSeq(p, off + 1, last)
    BY DEF Crawls!Items
  <2>2. last \in off..Len(p)
    BY <1>1, <1>3, <1>4, <1>5
  <2>. HIDE DEF last
  <2>3. SubSeq(p, 1, off) \o SubSeq(p, off + 1, last) = SubSeq(p, 1, last)
    <3>. DEFINE k == off
                l == last
    <3>1. k \in 0..Len(p) /\ l \in k..Len(p)
      BY <1>3, <2>2
    <3>. HIDE DEF k, l, p
    <3>2. SubSeq(p, 1, k) \o SubSeq(p, k + 1, l) = SubSeq(p, 1, l)
      BY <1>1, <3>1, ConcatAdjacentSubSeq
    <3>. QED BY <3>2 DEF k, l
  <2>. QED BY <1>3, <2>1, <2>3
<1>7. got \in Seq(Chars) /\ Len(got) = last
  <2>1. last \in 0..Len(p)
    BY <1>1, <1>3, <1>4, <1>5
  <2>. HIDE DEF last, got
  <2>. QED BY <1>1, <1>6, <2>1, SubSeqProperties
<1>8. /\ reader' = [job |-> i, offset |-> off + size, read |-> got, done |-> off + size >= Len(p)]
      /\ jobs' = jobs /\ clock' = clock
  BY DEF Crawls!Result
<1>. HIDE DEF got, last
<1>9. /\ reader'.job = i /\ reader'.offset = off + size /\ reader'.read = got
      /\ (reader'.done <=> off + size >= Len(p))
      /\ reader' \in [job: Crawls!JobIds \cup {0}, offset: Nat, read: Seq(Chars), done: BOOLEAN]
  <2>1. (off + size >= Len(p)) \in BOOLEAN /\ off + size \in Nat
    BY <1>1, <1>3, <1>4
  <2>. QED BY <1>1, <1>7, <1>8, <2>1
<1>10. reader'.done => got = p
  BY <1>1, <1>3, <1>4, <1>5, <1>6, <1>9, SubSeqFull
<1>11. ReaderAt(reader', p)
  <2>1. CASE reader'.done
    <3>1. SubSeq(p, 1, Len(p)) = p
      BY <1>1, SubSeqFull
    <3>. QED BY <1>1, <1>7, <1>9, <1>10, <2>1, <3>1 DEF ReaderAt
  <2>2. CASE ~reader'.done
    <3>1. off + size < Len(p) /\ last = off + size
      BY <1>1, <1>3, <1>4, <1>5, <1>9, <2>2
    <3>. QED BY <1>6, <1>9, <2>2, <3>1 DEF ReaderAt
  <2>. QED BY <2>1, <2>2
<1>12. i # 0
  BY <1>1 DEF Crawls!JobIds
<1>13. ReaderSound'
  BY <1>8, <1>9, <1>11, <1>12 DEF ReaderSound, Crawls!JobIds, Crawls!Stored
<1>. QED BY <1>8, <1>9, <1>10, <1>13

\* A step that leaves the jobs, and one that leaves the reader.
LEMMA NoCrawlTouched ==
  ASSUME CrawlNumbers, CrawlInv, jobs' = jobs, clock' \in 0..JobsNow, ReaderSound',
         reader'.done /\ ~reader.done => reader'.read = jobs[reader'.job].partials
  PROVE  CrawlInv' /\ CrawlSteps
PROOF
<1>1. Crawls!Stored' = Crawls!Stored
  BY DEF Crawls!Stored
<1>2. CrawlInv'
  BY <1>1 DEF CrawlInv, Crawls!JobIds, CrawlsInOrder
<1>3. Crawls!EndedStep
  BY DEF Crawls!EndedStep, CrawlInv, CrawlSound, Crawls!Stored
<1>4. Crawls!PagingStep
  <2>1. ASSUME reader'.job # 0 PROVE Crawls!IsPrefix(reader'.read, jobs'[reader'.job].partials)
    <3>1. reader'.job \in Crawls!JobIds /\ reader' \in [job: Crawls!JobIds \cup {0}, offset: Nat, read: Seq(Chars), done: BOOLEAN]
      BY <2>1 DEF ReaderSound, Crawls!JobIds
    <3>2. jobs'[reader'.job].partials \in Seq(Chars)
      BY <3>1 DEF CrawlInv, CrawlRecord
    <3>. QED BY <2>1, <3>1, <3>2, ReaderPrefix DEF ReaderSound
  <2>. QED BY <2>1 DEF Crawls!PagingStep
<1>. QED BY <1>2, <1>3, <1>4 DEF CrawlSteps

\* A job that is edited: a reader of it goes on where it was.
LEMMA CrawlEditKeeps ==
  ASSUME CrawlNumbers, CrawlInv, NEW i \in Crawls!JobIds, jobs[i].status # Crawls!None,
         NEW j \in CrawlRecord, CrawlEdit(jobs[i], j), CrawlSound(j), Crawls!Set(i, j), reader' = reader
  PROVE  CrawlInv' /\ CrawlSteps
PROOF
<1>1. jobs \in [Crawls!JobIds -> CrawlRecord] /\ jobs' = [jobs EXCEPT ![i] = j] /\ clock' = clock /\ CrawlSound(jobs[i])
  BY DEF CrawlInv, Crawls!Set
<1>2. jobs' \in [Crawls!JobIds -> CrawlRecord] /\ jobs'[i] = j /\ \A x \in Crawls!JobIds \ {i} : jobs'[x] = jobs[x]
  BY <1>1
<1>3. Crawls!Stored' = Crawls!Stored
  BY <1>2 DEF Crawls!Stored, CrawlEdit
<1>4. \A x \in Crawls!JobIds : CrawlSound(jobs'[x])
  BY <1>2 DEF CrawlInv
<1>5. PICK more \in Seq(Chars) : j.partials = jobs[i].partials \o more
  BY DEF CrawlEdit
<1>6. ReaderSound'
  <2>1. CASE reader.job = 0
    BY <2>1 DEF CrawlInv, ReaderSound, Crawls!JobIds
  <2>2. CASE reader.job # 0
    <3>1. reader.job \in Crawls!JobIds /\ ReaderAt(reader, jobs[reader.job].partials)
          /\ reader \in [job: Crawls!JobIds \cup {0}, offset: Nat, read: Seq(Chars), done: BOOLEAN]
          /\ jobs'[reader.job].status # Crawls!None
      BY <1>2, <2>2 DEF CrawlInv, ReaderSound, CrawlEdit
    <3>2. ReaderAt(reader, jobs'[reader.job].partials)
      <4>1. CASE reader.job = i
        <5>1. jobs[i].partials \in Seq(Chars)
          BY <1>1 DEF CrawlRecord
        <5>. QED BY <1>2, <1>5, <3>1, <4>1, <5>1, ReaderKeeps
      <4>2. CASE reader.job # i
        BY <1>2, <3>1, <4>2
      <4>. QED BY <4>1, <4>2
    <3>. QED BY <2>2, <3>1, <3>2 DEF ReaderSound, Crawls!JobIds
  <2>. QED BY <2>1, <2>2
<1>7. CrawlInv'
  BY <1>1, <1>2, <1>3, <1>4, <1>6 DEF CrawlInv, CrawlsInOrder, Crawls!JobIds
<1>8. Crawls!PagingStep
  <2>1. ASSUME reader'.job # 0 PROVE Crawls!IsPrefix(reader'.read, jobs'[reader'.job].partials)
    <3>1. reader'.job \in Crawls!JobIds /\ reader' \in [job: Crawls!JobIds \cup {0}, offset: Nat, read: Seq(Chars), done: BOOLEAN]
      BY <1>6, <2>1 DEF ReaderSound, Crawls!JobIds
    <3>2. jobs'[reader'.job].partials \in Seq(Chars)
      BY <1>2, <3>1 DEF CrawlRecord
    <3>. QED BY <1>6, <2>1, <3>1, <3>2, ReaderPrefix DEF ReaderSound
  <2>. QED BY <2>1 DEF Crawls!PagingStep
<1>9. Crawls!EndedStep
  <2>1. CrawlSound(j) /\ (jobs[i].status \in Crawls!Terminal => j.status = jobs[i].status /\ j.partials = jobs[i].partials)
    BY DEF CrawlEdit
  <2>. QED BY <1>2, <1>4, <2>1 DEF Crawls!EndedStep, CrawlSound, Crawls!Stored
<1>. QED BY <1>7, <1>8, <1>9 DEF CrawlSteps

\* fail(): what was kept stays.
LEMMA FailKeeps ==
  ASSUME CrawlNumbers, CrawlInv, NEW i \in Crawls!Stored, NEW dropped \in Nat, jobs[i].status \notin Crawls!Terminal,
         Crawls!Fail(i, dropped), reader' = reader
  PROVE  CrawlInv' /\ CrawlSteps
PROOF
<1>. DEFINE o == jobs[i]
            j == [o EXCEPT !.status = "failed", !.dropped = dropped, !.billed = TRUE]
<1>1. i \in Crawls!JobIds /\ o.status # Crawls!None /\ o \in CrawlRecord /\ CrawlSound(o)
  BY DEF Crawls!Stored, CrawlInv
<1>2. Crawls!Set(i, j)
  BY DEF Crawls!Fail
<1>3. j \in CrawlRecord /\ CrawlSame(o, j) /\ j.status = "failed" /\ j.billed = TRUE /\ j.partials = o.partials /\ j.ack = o.ack
  BY <1>1 DEF CrawlRecord, CrawlStatus, Crawls!Terminal, CrawlSame
<1>. HIDE DEF j
<1>4. o.status # "cancelled_by_upstream"
  BY DEF Crawls!Terminal, Crawls!Cancelled
<1>5. CrawlSound(j)
  BY <1>1, <1>3, <1>4 DEF CrawlSound, CrawlFits, CrawlSame
<1>6. CrawlEdit(o, j)
  BY <1>1, <1>3, KeepsNone DEF CrawlEdit, CrawlSame, CrawlRecord, Crawls!None
<1>. QED BY <1>1, <1>2, <1>3, <1>5, <1>6, CrawlEditKeeps

\* ingestUpstream(): the batch is within the budgets, or it is not kept.
LEMMA IngestKeeps ==
  ASSUME CrawlNumbers, CrawlInv, NEW i \in Crawls!Stored, NEW batch \in Crawls!BoundedSeq(Chars, MaxBatch), NEW bad \in Nat,
         NEW more \in BOOLEAN, Crawls!IngestUpstream(i, batch, bad, more)
  PROVE  CrawlInv' /\ CrawlSteps
PROOF
<1>. DEFINE o == jobs[i]
            dropped == o.dropped + bad
            drained == batch = <<>> /\ bad = 0 /\ ~more
            status == IF drained THEN "completed" ELSE "crawling"
            all == o.partials \o batch
            billed == o.billed \/ drained
            j == [o EXCEPT !.status = status, !.partials = all, !.dropped = dropped, !.billed = billed]
<1>1. i \in Crawls!JobIds /\ o.status # Crawls!None /\ o \in CrawlRecord /\ CrawlSound(o) /\ o.status \notin Crawls!Terminal
  BY DEF Crawls!Stored, CrawlInv, Crawls!IngestUpstream
<1>2. dropped \in Nat
  BY <1>1 DEF CrawlRecord
<1>3. CASE Crawls!Fail(i, dropped) /\ reader' = reader
  <2>. HIDE DEF dropped
  <2>. QED BY <1>1, <1>2, <1>3, FailKeeps
<1>4. CASE ~(Crawls!Fail(i, dropped) /\ reader' = reader)
  <2>1. /\ Crawls!Set(i, j) /\ reader' = reader
        /\ ~(Len(all) > MaxPartials) /\ Crawls!WithinBudget(o.budgets, o.partials, batch)
    BY <1>1, <1>4 DEF Crawls!IngestUpstream, CrawlRecord
  <2>2. batch \in Seq(Chars) /\ o.partials \in Seq(Chars)
    BY <1>1 DEF Crawls!BoundedSeq, Crawls!SeqOf, CrawlRecord
  <2>3. all \in Seq(Chars) /\ Len(all) \in Nat
    BY <2>2
  <2>4. status \in {"completed", "crawling"} /\ billed \in BOOLEAN /\ (billed <=> status = "completed")
    <3>1. o.billed \in BOOLEAN /\ ~o.billed
      BY <1>1 DEF CrawlSound, CrawlRecord, Crawls!Terminal
    <3>2. drained \in BOOLEAN
      OBVIOUS
    <3>. HIDE DEF drained
    <3>. QED BY <3>1, <3>2
  <2>5. /\ Len(all) <= MaxPartials /\ Len(all) <= o.budgets.pages
        /\ Crawls!TotalChars(all) <= o.budgets.bytes /\ Crawls!TotalChars(all) <= o.budgets.chars
    BY <2>1, <2>3 DEF CrawlNumbers, Crawls!WithinBudget
  <2>. HIDE DEF status, billed, all, dropped
  <2>6. /\ j \in CrawlRecord /\ j.status = status /\ j.partials = all /\ j.billed = billed /\ j.ack = o.ack
        /\ CrawlSame(o, j)
    BY <1>1, <1>2, <2>3, <2>4 DEF CrawlRecord, CrawlStatus, Crawls!Terminal, CrawlSame
  <2>. HIDE DEF j
  <2>7. o.status # "cancelled_by_upstream"
    BY <1>1 DEF Crawls!Terminal, Crawls!Cancelled
  <2>8. CrawlSound(j)
    BY <1>1, <2>4, <2>5, <2>6, <2>7 DEF CrawlSound, CrawlFits, CrawlSame
  <2>9. CrawlEdit(o, j)
    BY <1>1, <2>2, <2>4, <2>6 DEF CrawlEdit, CrawlSame, Crawls!None, all
  <2>. QED BY <1>1, <2>1, <2>6, <2>8, <2>9, CrawlEditKeeps
<1>. QED BY <1>3, <1>4

\* The three ways to cancel.
LEMMA CancelKeeps ==
  ASSUME CrawlNumbers, CrawlInv, NEW i \in Crawls!Stored,
         \/ \E kind \in {"cancelled_by_caller", "cancelled_by_groundlane"} : Crawls!Cancel(i, kind)
         \/ \E ack \in BOOLEAN : Crawls!RequestUpstreamCancel(i, ack)
  PROVE  CrawlInv' /\ CrawlSteps
PROOF
<1>. DEFINE o == jobs[i]
<1>1. i \in Crawls!JobIds /\ o.status # Crawls!None /\ o \in CrawlRecord /\ CrawlSound(o)
  BY DEF Crawls!Stored, CrawlInv
<1>2. CASE \E kind \in {"cancelled_by_caller", "cancelled_by_groundlane"} : Crawls!Cancel(i, kind)
  <2>1. PICK kind \in {"cancelled_by_caller", "cancelled_by_groundlane"} : Crawls!Cancel(i, kind)
    BY <1>2
  <2>. DEFINE j == [o EXCEPT !.status = kind]
  <2>2. Crawls!Set(i, j) /\ reader' = reader /\ o.status \notin Crawls!Terminal
    BY <2>1 DEF Crawls!Cancel, Crawls!ValidTransition
  <2>3. j \in CrawlRecord /\ CrawlSame(o, j) /\ j.status = kind /\ j.partials = o.partials /\ j.ack = o.ack /\ j.billed = o.billed
    BY <1>1 DEF CrawlRecord, CrawlStatus, Crawls!Terminal, Crawls!Cancelled, CrawlSame
  <2>. HIDE DEF j
  <2>4. o.status \notin {"cancelled_by_upstream", "completed", "failed"}
    BY <2>2 DEF Crawls!Terminal, Crawls!Cancelled
  <2>5. CrawlSound(j)
    BY <1>1, <2>3, <2>4 DEF CrawlSound, CrawlFits, CrawlSame
  <2>6. CrawlEdit(o, j)
    BY <1>1, <2>2, <2>3, KeepsNone DEF CrawlEdit, CrawlSame, CrawlRecord, Crawls!None
  <2>. QED BY <1>1, <2>2, <2>3, <2>5, <2>6, CrawlEditKeeps
<1>3. CASE \E ack \in BOOLEAN : Crawls!RequestUpstreamCancel(i, ack)
  <2>1. PICK ack \in BOOLEAN : Crawls!RequestUpstreamCancel(i, ack)
    BY <1>3
  <2>. DEFINE status == IF ack THEN "cancelled_by_upstream" ELSE o.status
              j == [o EXCEPT !.asked = TRUE, !.ack = ack, !.status = status]
  <2>2. Crawls!Set(i, j) /\ reader' = reader /\ o.status \notin Crawls!Terminal
    BY <1>1, <2>1 DEF Crawls!RequestUpstreamCancel, CrawlRecord
  <2>3. status \in CrawlStatus /\ status # Crawls!None
    BY <1>1 DEF CrawlRecord, CrawlStatus, Crawls!Terminal, Crawls!Cancelled, Crawls!None
  <2>4. o.status \notin {"cancelled_by_upstream", "completed", "failed"}
    BY <2>2 DEF Crawls!Terminal, Crawls!Cancelled
  <2>5. (ack <=> status = "cancelled_by_upstream") /\ status \notin {"completed", "failed"}
    BY <2>4
  <2>. HIDE DEF status
  <2>6. j \in CrawlRecord /\ CrawlSame(o, j) /\ j.status = status /\ j.partials = o.partials /\ j.ack = ack /\ j.billed = o.billed
    BY <1>1, <2>3 DEF CrawlRecord, CrawlSame
  <2>. HIDE DEF j
  <2>7. CrawlSound(j)
    BY <1>1, <2>4, <2>5, <2>6 DEF CrawlSound, CrawlFits, CrawlSame
  <2>8. CrawlEdit(o, j)
    BY <1>1, <2>2, <2>3, <2>6, KeepsNone DEF CrawlEdit, CrawlSame, CrawlRecord
  <2>. QED BY <1>1, <2>2, <2>6, <2>7, <2>8, CrawlEditKeeps
<1>. QED BY <1>2, <1>3

\* create(): the new job has kept nothing.
LEMMA CrawlCreateKeeps ==
  ASSUME CrawlNumbers, CrawlInv, NEW owner \in Owners, NEW cred \in Credentials, NEW key \in Keys \cup {Crawls!None},
         NEW budgets \in Budgets, Crawls!Create(owner, cred, key, budgets)
  PROVE  CrawlInv' /\ CrawlSteps
PROOF
<1>. DEFINE j == [Crawls!NoJob EXCEPT !.status = "created", !.owner = owner, !.cred = cred, !.key = key,
                               !.ends = clock + TTL, !.budgets = budgets]
<1>1. PICK n \in 0..MaxCrawls : Crawls!Stored = 1..n
  BY DEF CrawlInv, CrawlsInOrder
<1>2. Crawls!Cardinality(Crawls!Stored) = n
  BY <1>1, FS_Interval, CrawlsCardinality DEF CrawlNumbers
<1>3. n < MaxCrawls /\ n + 1 \in Crawls!JobIds /\ n + 1 \notin Crawls!Stored
  BY <1>1, <1>2 DEF Crawls!Create, Crawls!JobIds, CrawlNumbers
<1>4. jobs' = [jobs EXCEPT ![n + 1] = j] /\ clock' = clock /\ reader' = reader /\ jobs \in [Crawls!JobIds -> CrawlRecord]
  BY <1>2 DEF Crawls!Create, Crawls!Set, CrawlInv
<1>5. clock + TTL \in Nat
  BY DEF CrawlInv, CrawlNumbers
<1>6. /\ j \in CrawlRecord /\ j.status = "created" /\ j.owner = owner /\ j.cred = cred /\ j.budgets = budgets
      /\ j.partials = <<>> /\ j.ack = FALSE /\ j.billed = FALSE
  <2>1. <<>> \in Seq(Chars)
    OBVIOUS
  <2>. QED BY <1>5, <2>1 DEF Crawls!NoJob, CrawlRecord, CrawlStatus
<1>. HIDE DEF j
<1>7. CrawlFits(j)
  <2>1. budgets.pages \in Nat /\ budgets.bytes \in Nat /\ budgets.chars \in Nat /\ MaxPartials \in Nat
    BY DEF CrawlNumbers
  <2>2. Len(<<>>) = 0
    OBVIOUS
  <2>. QED BY <1>6, <2>1, <2>2, NoChars DEF CrawlFits
<1>8. CrawlSound(j)
  BY <1>6, <1>7 DEF CrawlSound, Crawls!None
<1>9. jobs' \in [Crawls!JobIds -> CrawlRecord] /\ jobs'[n + 1] = j /\ \A x \in Crawls!JobIds \ {n + 1} : jobs'[x] = jobs[x]
  BY <1>3, <1>4, <1>6
<1>10. \A x \in Crawls!JobIds : CrawlSound(jobs'[x])
  BY <1>8, <1>9 DEF CrawlInv
<1>11. jobs[n + 1].status = Crawls!None
  BY <1>3 DEF Crawls!Stored
<1>12. Crawls!Stored' = Crawls!Stored \cup {n + 1}
  BY <1>3, <1>6, <1>9 DEF Crawls!Stored, Crawls!None
<1>13. Crawls!Stored' = 1..(n + 1) /\ n + 1 \in 0..MaxCrawls
  BY <1>1, <1>3, <1>12 DEF CrawlNumbers
<1>14. reader.job # 0 => /\ reader.job \in Crawls!JobIds /\ jobs'[reader.job].partials = jobs[reader.job].partials
                         /\ jobs'[reader.job].status # Crawls!None
  <2>1. reader \in [job: Crawls!JobIds \cup {0}, offset: Nat, read: Seq(Chars), done: BOOLEAN]
    BY DEF CrawlInv, ReaderSound
  <2>2. reader.job # 0 /\ reader.job # n + 1 => reader.job \in Crawls!JobIds /\ jobs'[reader.job] = jobs[reader.job]
    BY <1>9, <2>1
  <2>3. reader.job # 0 => reader.job # n + 1 /\ jobs[reader.job].status # Crawls!None
    BY <1>11 DEF CrawlInv, ReaderSound
  <2>. QED BY <2>2, <2>3
<1>15. ReaderSound'
  BY <1>4, <1>14 DEF CrawlInv, ReaderSound, Crawls!JobIds
<1>16. CrawlInv'
  BY <1>4, <1>9, <1>10, <1>13, <1>15 DEF CrawlInv, CrawlsInOrder, Crawls!JobIds
<1>17. Crawls!EndedStep
  BY <1>3, <1>9, <1>10 DEF Crawls!EndedStep, CrawlSound, Crawls!Stored
<1>18. Crawls!PagingStep
  <2>1. ASSUME reader'.job # 0 PROVE Crawls!IsPrefix(reader'.read, jobs'[reader'.job].partials)
    <3>1. reader'.job \in Crawls!JobIds /\ reader' \in [job: Crawls!JobIds \cup {0}, offset: Nat, read: Seq(Chars), done: BOOLEAN]
      BY <1>15, <2>1 DEF ReaderSound, Crawls!JobIds
    <3>2. jobs'[reader'.job].partials \in Seq(Chars)
      BY <1>9, <3>1 DEF CrawlRecord
    <3>. QED BY <1>15, <2>1, <3>1, <3>2, ReaderPrefix DEF ReaderSound
  <2>. QED BY <1>4, <2>1 DEF Crawls!PagingStep
<1>. QED BY <1>16, <1>17, <1>18 DEF CrawlSteps

\* No crawl was made at first.
LEMMA CrawlInit == CrawlNumbers /\ Crawls!Init => CrawlInv
PROOF
<1>. SUFFICES ASSUME CrawlNumbers, Crawls!Init PROVE CrawlInv
  OBVIOUS
<1>1. clock = 0 /\ 0 \in 0..JobsNow /\ jobs = [i \in Crawls!JobIds |-> Crawls!NoJob] /\ reader = Crawls!NoReader
  BY DEF Crawls!Init, CrawlNumbers
<1>2. <<>> \in Seq(Chars)
  OBVIOUS
<1>3. Crawls!NoJob \in CrawlRecord /\ Crawls!NoJob.status = Crawls!None /\ Crawls!NoJob.ack = FALSE
  BY <1>2 DEF Crawls!NoJob, CrawlRecord, CrawlStatus
<1>4. CrawlSound(Crawls!NoJob)
  BY <1>3 DEF CrawlSound, Crawls!None
<1>5. Crawls!NoReader \in [job: Crawls!JobIds \cup {0}, offset: Nat, read: Seq(Chars), done: BOOLEAN] /\ Crawls!NoReader.job = 0
  BY <1>2 DEF Crawls!NoReader
<1>. HIDE DEF Crawls!NoJob, Crawls!NoReader
<1>6. ReaderSound
  BY <1>1, <1>5 DEF ReaderSound
<1>7. Crawls!Stored = {}
  BY <1>1, <1>3 DEF Crawls!Stored
<1>8. Crawls!Stored = 1..0 /\ 0 \in 0..MaxCrawls
  BY <1>7 DEF CrawlNumbers
<1>. QED BY <1>1, <1>3, <1>4, <1>6, <1>8 DEF CrawlInv, CrawlsInOrder

\* Every step keeps the crawls' invariant, a reader's place and what has ended.
LEMMA CrawlNext == CrawlNumbers /\ CrawlInv /\ [Crawls!Next]_(Crawls!vars) => CrawlInv' /\ [CrawlSteps]_(Crawls!vars)
PROOF
<1>. SUFFICES ASSUME CrawlNumbers, CrawlInv, [Crawls!Next]_(Crawls!vars) PROVE CrawlInv' /\ CrawlSteps
  OBVIOUS
<1>1. CASE UNCHANGED Crawls!vars
  <2>1. jobs' = jobs /\ clock' = clock /\ reader' = reader
    BY <1>1 DEF Crawls!vars
  <2>2. ReaderSound'
    BY <2>1 DEF CrawlInv, ReaderSound, Crawls!JobIds
  <2>. QED BY <2>1, <2>2, NoCrawlTouched DEF CrawlInv
<1>2. CASE Crawls!Tick
  <2>1. jobs' = jobs /\ reader' = reader /\ clock' \in 0..JobsNow
    BY <1>2 DEF Crawls!Tick, CrawlInv, CrawlNumbers
  <2>2. ReaderSound'
    BY <2>1 DEF CrawlInv, ReaderSound, Crawls!JobIds
  <2>. QED BY <2>1, <2>2, NoCrawlTouched
<1>3. ASSUME NEW i \in Crawls!JobIds, NEW owner, NEW cred, Crawls!Resolves(i, owner, cred), Crawls!IngestFails(i)
      PROVE  CrawlInv' /\ CrawlSteps
  <2>1. i \in Crawls!Stored /\ jobs[i].dropped \in Nat
    BY <1>3 DEF Crawls!Resolves, CrawlInv, CrawlRecord
  <2>. QED BY <1>3, <2>1, FailKeeps DEF Crawls!IngestFails
<1>4. ASSUME NEW i \in Crawls!JobIds, NEW owner, NEW cred, Crawls!Resolves(i, owner, cred), NEW size \in PageSizes, Crawls!Result(i, size)
      PROVE  CrawlInv' /\ CrawlSteps
  <2>1. i \in Crawls!Stored
    BY <1>4 DEF Crawls!Resolves
  <2>2. jobs' = jobs /\ clock' = clock /\ ReaderSound' /\ (reader'.done => reader'.read = jobs[i].partials) /\ reader'.job = i
    BY <1>4, <2>1, ResultMoves
  <2>. QED BY <2>2, NoCrawlTouched DEF CrawlInv
<1>5. ASSUME NEW i \in Crawls!JobIds, NEW owner, NEW cred, Crawls!Resolves(i, owner, cred), NEW batch \in Crawls!BoundedSeq(Chars, MaxBatch),
             NEW bad \in 0..MaxBatch, NEW more \in BOOLEAN, Crawls!IngestUpstream(i, batch, bad, more)
      PROVE  CrawlInv' /\ CrawlSteps
  <2>1. i \in Crawls!Stored /\ bad \in Nat
    BY <1>5 DEF Crawls!Resolves, CrawlNumbers
  <2>. QED BY <1>5, <2>1, IngestKeeps
<1>6. ASSUME NEW i \in Crawls!JobIds, NEW owner, NEW cred, Crawls!Resolves(i, owner, cred),
             \/ \E kind \in {"cancelled_by_caller", "cancelled_by_groundlane"} : Crawls!Cancel(i, kind)
             \/ \E ack \in BOOLEAN : Crawls!RequestUpstreamCancel(i, ack)
      PROVE  CrawlInv' /\ CrawlSteps
  <2>1. i \in Crawls!Stored
    BY <1>6 DEF Crawls!Resolves
  <2>. QED BY <1>6, <2>1, CancelKeeps
<1>. QED BY <1>1, <1>2, <1>3, <1>4, <1>5, <1>6, CrawlCreateKeeps DEF Crawls!Next

\* What the crawl manager keeps, in every state.
THEOREM CrawlInvariance == ASSUME CrawlNumbers PROVE Crawls!Spec => []CrawlInv
PROOF
<1>1. Crawls!Init => CrawlInv
  BY CrawlInit
<1>2. CrawlInv /\ [Crawls!Next]_(Crawls!vars) => CrawlInv'
  BY CrawlNext
<1>. QED BY <1>1, <1>2, PTL DEF Crawls!Spec

\* A crawl that was created has its owner, credential and budgets, and is billed exactly
\* when it ran to its end (CrawlJobManager).
THEOREM CrawlsTyped == ASSUME CrawlNumbers PROVE Crawls!Spec => []Crawls!TypeOK
PROOF
<1>1. CrawlInv => Crawls!TypeOK
  BY DEF CrawlInv, CrawlSound, ReaderSound, CrawlRecord, CrawlStatus, Crawls!Stored, Crawls!TypeOK
<1>. QED BY <1>1, CrawlInvariance, PTL

\* A crawl never keeps more than its budgets or the cap on partial results, over all its
\* batches and after it failed (validateCrawlBudgets and MAX_CRAWL_PARTIALS in ingestUpstream).
THEOREM CrawlsWithinBudget == ASSUME CrawlNumbers PROVE Crawls!Spec => []Crawls!KeptWithinBudget
PROOF
<1>1. ASSUME CrawlInv, NEW i \in Crawls!Stored
      PROVE  /\ Len(jobs[i].partials) <= Crawls!Min({MaxPartials, jobs[i].budgets.pages})
             /\ Crawls!TotalChars(jobs[i].partials) <= Crawls!Min({jobs[i].budgets.bytes, jobs[i].budgets.chars})
  <2>1. CrawlFits(jobs[i]) /\ jobs[i].budgets \in Budgets
    BY <1>1 DEF CrawlInv, CrawlSound, Crawls!Stored
  <2>2. MaxPartials \in Nat /\ jobs[i].budgets.pages \in Nat /\ jobs[i].budgets.bytes \in Nat /\ jobs[i].budgets.chars \in Nat
    BY <2>1 DEF CrawlNumbers
  <2>3. Len(jobs[i].partials) <= Crawls!Min({MaxPartials, jobs[i].budgets.pages})
    BY <2>1, <2>2, LesserBound DEF CrawlFits
  <2>4. Crawls!TotalChars(jobs[i].partials) <= Crawls!Min({jobs[i].budgets.bytes, jobs[i].budgets.chars})
    BY <2>1, <2>2, LesserBound DEF CrawlFits
  <2>. QED BY <2>3, <2>4
<1>2. CrawlInv => Crawls!KeptWithinBudget
  BY <1>1 DEF Crawls!KeptWithinBudget
<1>. QED BY <1>2, CrawlInvariance, PTL

\* A reader that follows the cursors of result() reads every kept page once and in order,
\* also when batches arrive between two of its pages.
THEOREM PagesReadOnce == ASSUME CrawlNumbers PROVE Crawls!Spec => [][Crawls!PagingStep]_(Crawls!vars)
PROOF
<1>1. CrawlInv /\ [Crawls!Next]_(Crawls!vars) => [Crawls!PagingStep]_(Crawls!vars)
  BY CrawlNext DEF CrawlSteps
<1>. QED BY <1>1, CrawlInvariance, PTL DEF Crawls!Spec

\* A crawl that has ended keeps its status and its pages, and is cancelled upstream only
\* with an acknowledgment (validateCrawlStatusTransition, requestUpstreamCancel).
THEOREM CrawlsStayEnded == ASSUME CrawlNumbers PROVE Crawls!Spec => [][Crawls!EndedStep]_(Crawls!vars)
PROOF
<1>1. CrawlInv /\ [Crawls!Next]_(Crawls!vars) => [Crawls!EndedStep]_(Crawls!vars)
  BY CrawlNext DEF CrawlSteps
<1>. QED BY <1>1, CrawlInvariance, PTL DEF Crawls!Spec

-----------------------------------------------------------------------------
\* What is kept for owners, side by side (OwnerParts). A behaviour is one of one part, and
\* the others do nothing in it, so what was proved of each holds of them together.
LEMMA TokensRun == OwnersSpec => Spec
PROOF
<1>1. OwnersInit => Init
  BY DEF OwnersInit
<1>2. [OwnersNext]_ownersVars => [Next]_vars
  BY DEF OwnersNext, ownersVars
<1>. QED BY <1>1, <1>2, PTL DEF OwnersSpec, Spec

LEMMA JobsRun == OwnersSpec => (Jobs!Spec /\ [](part = "jobs")) \/ []~(part = "jobs")
PROOF
<1>1. OwnersInit /\ part = "jobs" => Jobs!Init
  BY DEF OwnersInit
<1>2. [OwnersNext]_ownersVars /\ part = "jobs" => [Jobs!Next]_(Jobs!vars) /\ (part = "jobs")'
  BY DEF OwnersNext, ownersVars, jobVars, Jobs!vars
<1>3. [OwnersNext]_ownersVars /\ ~(part = "jobs") => ~(part = "jobs")'
  BY DEF OwnersNext, ownersVars
<1>. QED BY <1>1, <1>2, <1>3, PTL DEF OwnersSpec, Jobs!Spec

LEMMA CrawlsRun == OwnersSpec => (Crawls!Spec /\ [](part = "crawls")) \/ []~(part = "crawls")
PROOF
<1>1. OwnersInit /\ part = "crawls" => Crawls!Init
  BY DEF OwnersInit
<1>2. [OwnersNext]_ownersVars /\ part = "crawls" => [Crawls!Next]_(Crawls!vars) /\ (part = "crawls")'
  BY DEF OwnersNext, ownersVars, jobVars, crawlVars, Crawls!vars
<1>3. [OwnersNext]_ownersVars /\ ~(part = "crawls") => ~(part = "crawls")'
  BY DEF OwnersNext, ownersVars
<1>. QED BY <1>1, <1>2, <1>3, PTL DEF OwnersSpec, Crawls!Spec

LEMMA DocumentsRun == OwnersSpec => (Documents!Spec /\ [](part = "documents")) \/ []~(part = "documents")
PROOF
<1>1. OwnersInit /\ part = "documents" => Documents!Init
  BY DEF OwnersInit
<1>2. [OwnersNext]_ownersVars /\ part = "documents" => [Documents!Next]_(Documents!vars) /\ (part = "documents")'
  BY DEF OwnersNext, ownersVars, jobVars, docVars, Documents!vars
<1>3. [OwnersNext]_ownersVars /\ ~(part = "documents") => ~(part = "documents")'
  BY DEF OwnersNext, ownersVars
<1>. QED BY <1>1, <1>2, <1>3, PTL DEF OwnersSpec, Documents!Spec

LEMMA CommandsRun == OwnersSpec => (Cli!Spec /\ [](part = "cli")) \/ []~(part = "cli")
PROOF
<1>1. OwnersInit /\ part = "cli" => Cli!Init
  BY DEF OwnersInit
<1>2. [OwnersNext]_ownersVars /\ part = "cli" => [Cli!Next]_(Cli!vars) /\ (part = "cli")'
  BY DEF OwnersNext, ownersVars, cliVars, Cli!vars
<1>3. [OwnersNext]_ownersVars /\ ~(part = "cli") => ~(part = "cli")'
  BY DEF OwnersNext, ownersVars
<1>. QED BY <1>1, <1>2, <1>3, PTL DEF OwnersSpec, Cli!Spec

\* The state of every part of an owner has its shape.
THEOREM StateHolds == OwnersSpec => []StateOK
PROOF
<1>1. OwnersSpec => []TypeOK
  BY TokensRun, TypeCorrect, PTL
<1>2. OwnersSpec => [](part = "jobs" => Jobs!TypeOK)
  BY JobsRun, JobsTyped, PartsAssumption, PTL
<1>3. OwnersSpec => [](part = "crawls" => Crawls!TypeOK)
  BY CrawlsRun, CrawlsTyped, PartsAssumption, PTL
<1>4. OwnersSpec => [](part = "documents" => Documents!TypeOK)
  BY DocumentsRun, ExecutionsTyped, PartsAssumption, PTL
<1>5. OwnersSpec => [](part = "cli" => Cli!TypeOK)
  BY CommandsRun, CommandsTyped, PartsAssumption, PTL
<1>. QED BY <1>1, <1>2, <1>3, <1>4, <1>5, PTL DEF StateOK

\* Jobs, executions and commands are honest: one job for a key, no upstream cancel without
\* an acknowledgment, no execution against its cancels, a secret shown once, a true exit.
THEOREM HonestJobs == OwnersSpec => []JobsAreHonest
PROOF
<1>1. OwnersSpec => [](part = "jobs" => Jobs!OneJobPerKey /\ Jobs!UpstreamNeedsEvidence)
  BY JobsRun, OneJobForAKey, UpstreamIsEvidenced, PartsAssumption, PTL
<1>2. OwnersSpec => [](part = "documents" => Documents!JobsAreHonest)
  BY DocumentsRun, ExecutionsHonest, PartsAssumption, PTL
<1>3. OwnersSpec => [](part = "cli" => Cli!ShownOnce /\ Cli!ExitIsTrue)
  BY CommandsRun, SecretShownOnce, ExitsAreTrue, PartsAssumption, PTL
<1>. QED BY <1>1, <1>2, <1>3, PTL DEF JobsAreHonest

\* While the crawls run, nothing changes that is not of them.
LEMMA CrawlsRest == part = "crawls" /\ [OwnersNext]_ownersVars /\ UNCHANGED Crawls!vars => UNCHANGED ownersVars
BY DEF OwnersNext, ownersVars, Crawls!vars, crawlVars, jobVars, cliVars

\* What has ended stays so: a credential, a job, a crawl, an execution and the successor
\* that a rotate gave, whatever comes late.
THEOREM EndedStays == OwnersSpec => EndedStaysEnded
PROOF
<1>1. [EndedStep]_vars => [EndedStep]_ownersVars
  BY DEF EndedStep, vars
<1>2. part = "jobs" /\ [Jobs!EndedStep]_(Jobs!vars) => [part = "jobs" => Jobs!EndedStep]_ownersVars
  BY DEF Jobs!EndedStep, Jobs!vars
<1>3. part = "crawls" /\ [OwnersNext]_ownersVars /\ [Crawls!EndedStep]_(Crawls!vars)
        => [part = "crawls" => Crawls!EndedStep]_ownersVars
  BY CrawlsRest
<1>4. part = "documents" /\ [Documents!EndedStep]_(Documents!vars) => [part = "documents" => Documents!EndedStep]_ownersVars
  BY DEF Documents!EndedStep, Documents!vars
<1>5. part = "cli" /\ [Cli!SuccessorStep]_(Cli!vars) => [part = "cli" => Cli!SuccessorStep]_ownersVars
  BY DEF Cli!SuccessorStep, Cli!vars
<1>6. /\ ~(part = "jobs") => [part = "jobs" => Jobs!EndedStep]_ownersVars
      /\ ~(part = "crawls") => [part = "crawls" => Crawls!EndedStep]_ownersVars
      /\ ~(part = "documents") => [part = "documents" => Documents!EndedStep]_ownersVars
      /\ ~(part = "cli") => [part = "cli" => Cli!SuccessorStep]_ownersVars
  OBVIOUS
<1>. QED BY <1>1, <1>2, <1>3, <1>4, <1>5, <1>6, TokensRun, EndedForGood, JobsRun, JobsStayEnded, CrawlsRun, CrawlsStayEnded,
            DocumentsRun, ExecutionsStayEnded, CommandsRun, OneSuccessor, PartsAssumption, PTL DEF EndedStaysEnded, OwnersSpec

\* A crawl keeps no more than its budgets, and paging it loses and repeats nothing.
THEOREM ExactCrawls == OwnersSpec => CrawlIsExact
PROOF
<1>1. part = "crawls" /\ [OwnersNext]_ownersVars /\ Crawls!KeptWithinBudget' /\ [Crawls!PagingStep]_(Crawls!vars)
        => [part = "crawls" => Crawls!KeptWithinBudget' /\ Crawls!PagingStep]_ownersVars
  BY CrawlsRest
<1>2. ~(part = "crawls") => [part = "crawls" => Crawls!KeptWithinBudget' /\ Crawls!PagingStep]_ownersVars
  OBVIOUS
<1>. QED BY <1>1, <1>2, CrawlsRun, CrawlsWithinBudget, PagesReadOnce, PartsAssumption, PTL DEF CrawlIsExact, OwnersSpec
=============================================================================
