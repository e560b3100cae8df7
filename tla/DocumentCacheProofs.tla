------------------------- MODULE DocumentCacheProofs -------------------------
(***************************************************************************)
(* One cache key under any number of lookups, commits, revocations and     *)
(* sweeps, for any number of sources, with calls that keep the hour of     *)
(* their request however long they take.  A source's index carries both    *)
(* arguments: while it lasts it only grows and never loses its revocation, *)
(* so it remembers a revocation as long as it promised to, and it is there *)
(* for every binding that can still be hit.                                *)
(***************************************************************************)
EXTENDS DocumentCache, TLAPS

\* What the theorems assume of the constants: lengths of time are numbers, and no
\* payload is the absent one.
Lengths ==
  /\ MaxTTL \in Nat /\ SourceLife \in Nat /\ CleanupAge \in Nat
  /\ None \notin Payloads

-----------------------------------------------------------------------------
\* The inductive invariant.

Rebinding == {"rebind_load", "rebind_index", "rebind"}
Committing == {"mark", "put", "core", "unused", "index", "bind", "recheck", "unmark"}
\* What a call still writes to, by its place: the source, the payload.
OfSource == {"load", "execute", "unbind", "revoke_binding"} \cup Rebinding \cup Committing
OfPayload == {"load", "rebind_load", "sweep_erase", "sweep_marker"} \cup Committing

\* A call names the source and the payload it works on; one that may answer from
\* the cache began under no remembered revocation; one about to bind has an index
\* that ends no earlier, unless what it binds is over.
CallOK(o, t, ix) ==
  /\ o.pc \in OfSource => o.s \in Sources
  /\ o.pc \in OfPayload => o.payload \in Payloads
  /\ o.pc = "unused" => o.unused \in Payloads
  /\ o.pc \in {"load"} \cup Rebinding => ~o.begun
  /\ o.pc \in {"bind", "rebind"} /\ o.ends > t => ix[o.s].rev # 0 /\ ix[o.s].ends >= o.ends

\* What is remembered of a source is on its index, and its live binding is listed
\* there.
SourceOK(b, x, until, t) ==
  /\ b \in SourceRecord /\ x \in SourceRecord /\ until \in Nat
  /\ until > t => x.rev # 0 /\ x.revoked /\ x.ends >= until
  /\ b.rev # 0 /\ ~b.revoked /\ b.ends > t => x.rev # 0 /\ x.ends >= b.ends
  /\ x.rev = 0 => ~x.revoked

StoreInv ==
  /\ clock \in Nat /\ crashes \in Nat /\ requests \in Nat /\ tomb \in [Sources -> Nat] /\ ~late /\ late \in BOOLEAN
  /\ core \in CoreRecord /\ (core.payload # None <=> Exists(core))
  /\ binding \in [Sources -> SourceRecord] /\ index \in [Sources -> SourceRecord]
  /\ marker \in [Payloads -> Nat] /\ blob \in [Payloads -> BOOLEAN]
  /\ \A s \in Sources : SourceOK(binding[s], index[s], tomb[s], clock)

IInv ==
  /\ StoreInv
  /\ op \in [Procs -> Call]
  /\ \A p \in Procs : CallOK(op[p], clock, index)

-----------------------------------------------------------------------------
\* Facts about the definitions.

Pcs == {"idle", "load", "rebind_load", "rebind_index", "rebind", "execute", "mark", "put",
        "core", "unused", "index", "bind", "recheck", "unbind", "unmark",
        "revoke_binding", "sweep_erase", "sweep_core", "sweep_marker"}

\* The type of a call, by its parts.
LEMMA CallType ==
  Call = [pc: Pcs, s: Sources \cup {None}, now: Nat, mode: {"use", "refresh"}, ttl: Nat, fence: Nat,
          payload: Payloads \cup {None}, unused: Payloads \cup {None}, ends: Nat, begun: BOOLEAN]
BY DEF Call, Pcs

\* A call that has ended is sound.
LEMMA IdleOK == Idle \in Call /\ Idle.pc = "idle" /\ \A t, ix : CallOK(Idle, t, ix)
BY DEF Idle, Call, CallOK, OfSource, OfPayload, Rebinding, Committing

\* An index that is not over stays, ends no earlier and forgets no revocation.
Kept(x, y, t) ==
  x.rev # 0 /\ x.ends > t => y.rev # 0 /\ y.ends >= x.ends /\ (x.revoked => y.revoked)

\* What a step leaves to the other calls.
Steady ==
  /\ clock' \in Nat /\ clock' >= clock
  /\ \A s \in Sources : index'[s] \in SourceRecord /\ Kept(index[s], index'[s], clock)

\* A call that does not move stays sound.
LEMMA CallStays ==
  ASSUME IInv, Steady, NEW p \in Procs, op'[p] = op[p]
  PROVE  CallOK(op'[p], clock', index')
PROOF
<1>1. CallOK(op[p], clock, index) /\ op[p] \in Call /\ clock \in Nat /\ op[p].ends \in Nat
  BY DEF IInv, StoreInv, Call
<1>. SUFFICES ASSUME op[p].pc \in {"bind", "rebind"}, op[p].ends > clock'
              PROVE  index'[op[p].s].rev # 0 /\ index'[op[p].s].ends >= op[p].ends
  BY <1>1 DEF CallOK
<1>2. op[p].s \in Sources
  BY <1>1 DEF CallOK, OfSource, Rebinding, Committing
<1>3. op[p].ends > clock
  BY <1>1 DEF Steady
<1>4. index[op[p].s].rev # 0 /\ index[op[p].s].ends >= op[p].ends
  BY <1>1, <1>3 DEF CallOK
<1>5. index[op[p].s].ends \in Nat /\ index'[op[p].s].ends \in Nat
  BY <1>2 DEF IInv, StoreInv, Steady, SourceRecord
<1>6. index'[op[p].s].rev # 0 /\ index'[op[p].s].ends >= index[op[p].s].ends
  BY <1>1, <1>2, <1>3, <1>4, <1>5 DEF Steady, Kept
<1>. QED BY <1>1, <1>4, <1>5, <1>6

\* A step of one call keeps the invariant when it keeps the records' part and
\* its own.
LEMMA StepKeeps ==
  ASSUME IInv, NEW p \in Procs, StoreInv', Steady,
         op' \in [Procs -> Call], \A q \in Procs \ {p} : op'[q] = op[q],
         CallOK(op'[p], clock', index')
  PROVE  IInv'
PROOF
<1>1. \A q \in Procs \ {p} : CallOK(op'[q], clock', index')
  BY CallStays
<1>. QED BY <1>1 DEF IInv

\* What a call's own step makes of it.
LEMMA CallStep ==
  ASSUME IInv, NEW p \in Procs, NEW q \in Call, op' = [op EXCEPT ![p] = q]
  PROVE  op' \in [Procs -> Call] /\ op'[p] = q /\ \A r \in Procs \ {p} : op'[r] = op[r]
BY DEF IInv

\* A step that leaves the sources and the clock alone is steady.
LEMMA SteadyStep ==
  ASSUME IInv, clock' = clock, index' = index
  PROVE  Steady
PROOF
<1>1. clock \in Nat /\ \A s \in Sources : index[s] \in SourceRecord
  BY DEF IInv, StoreInv
<1>. QED BY <1>1 DEF Steady, Kept, SourceRecord

\* A step of a call to q that leaves the records of the sources alone.
LEMMA QuietStep ==
  ASSUME IInv, NEW p \in Procs, NEW q \in Call, op' = [op EXCEPT ![p] = q],
         CallOK(q, clock, index),
         clock' = clock, tomb' = tomb, binding' = binding, index' = index,
         ~late', late' \in BOOLEAN, crashes' \in Nat, requests' \in Nat,
         core' \in CoreRecord, core'.payload # None <=> Exists(core'),
         marker' \in [Payloads -> Nat], blob' \in [Payloads -> BOOLEAN]
  PROVE  IInv'
PROOF
<1>1. op' \in [Procs -> Call] /\ op'[p] = q /\ \A r \in Procs \ {p} : op'[r] = op[r]
  BY CallStep
<1>2. Steady
  BY SteadyStep
<1>3. /\ clock \in Nat /\ tomb \in [Sources -> Nat]
      /\ binding \in [Sources -> SourceRecord] /\ index \in [Sources -> SourceRecord]
      /\ \A s \in Sources : SourceOK(binding[s], index[s], tomb[s], clock)
  BY DEF IInv, StoreInv
<1>4. StoreInv'
  BY <1>3 DEF StoreInv
<1>. QED BY <1>1, <1>2, <1>4, StepKeeps

\* The parts of the invariant that do not concern the sources.
LEMMA Parts ==
  ASSUME IInv
  PROVE  /\ ~late /\ late \in BOOLEAN /\ crashes \in Nat /\ requests \in Nat /\ clock \in Nat
         /\ core \in CoreRecord /\ (core.payload # None <=> Exists(core))
         /\ marker \in [Payloads -> Nat] /\ blob \in [Payloads -> BOOLEAN]
BY DEF IInv, StoreInv

\* A call as the invariant knows it.
LEMMA OneCall ==
  ASSUME IInv, NEW p \in Procs
  PROVE  op[p] \in Call /\ CallOK(op[p], clock, index)
BY DEF IInv

\* A source as the invariant knows it.
LEMMA OneSource ==
  ASSUME IInv, NEW s \in Sources
  PROVE  /\ SourceOK(binding[s], index[s], tomb[s], clock)
         /\ binding[s] \in SourceRecord /\ index[s] \in SourceRecord /\ tomb[s] \in Nat /\ clock \in Nat
BY DEF IInv, StoreInv

\* A call that ends, or moves, with the records left alone.
LEMMA Moves ==
  ASSUME IInv, NEW p \in Procs, NEW q \in Call, op' = [op EXCEPT ![p] = q],
         CallOK(q, clock, index), UNCHANGED records, Aside
  PROVE  IInv'
PROOF
<1>1. /\ clock' = clock /\ tomb' = tomb /\ binding' = binding /\ index' = index /\ late' = late
      /\ crashes' = crashes /\ requests' = requests
      /\ core' = core /\ marker' = marker /\ blob' = blob
  BY DEF records, Aside
<1>. QED BY <1>1, Parts, QuietStep

-----------------------------------------------------------------------------
\* Every action keeps the invariant.

\* Go(p, pc) where what the new place needs of the call is known.
LEMMA GoStep ==
  ASSUME IInv, NEW p \in Procs, NEW pc \in Pcs, Go(p, pc)
  PROVE  LET q == [op[p] EXCEPT !.pc = pc]
         IN /\ q \in Call /\ op' = [op EXCEPT ![p] = q]
            /\ q.pc = pc /\ q.s = op[p].s /\ q.payload = op[p].payload /\ q.unused = op[p].unused
            /\ q.ends = op[p].ends /\ q.begun = op[p].begun
PROOF
<1>. DEFINE q == [op[p] EXCEPT !.pc = pc]
<1>1. op[p] \in Call
  BY DEF IInv
<1>2. q \in Call
  BY <1>1, CallType
<1>3. /\ q.pc = pc /\ q.s = op[p].s /\ q.payload = op[p].payload /\ q.unused = op[p].unused
      /\ q.ends = op[p].ends /\ q.begun = op[p].begun
  BY <1>1 DEF Call
<1>4. op' = [op EXCEPT ![p] = q]
  BY DEF Go
<1>. QED BY <1>2, <1>3, <1>4

\* A call that goes to pc and reads nothing of the sources there.
LEMMA GoesOn ==
  ASSUME IInv, NEW p \in Procs, NEW pc \in Pcs, Go(p, pc),
         pc \in OfSource => op[p].s \in Sources,
         pc \in OfPayload => op[p].payload \in Payloads,
         pc = "unused" => op[p].unused \in Payloads,
         pc \in {"load"} \cup Rebinding => ~op[p].begun,
         pc \in {"bind", "rebind"} /\ op[p].ends > clock =>
           index'[op[p].s].rev # 0 /\ index'[op[p].s].ends >= op[p].ends
  PROVE  \E q \in Call : op' = [op EXCEPT ![p] = q] /\ CallOK(q, clock, index')
PROOF
<1>. DEFINE q == [op[p] EXCEPT !.pc = pc]
<1>1. /\ q \in Call /\ op' = [op EXCEPT ![p] = q]
      /\ q.pc = pc /\ q.s = op[p].s /\ q.payload = op[p].payload /\ q.unused = op[p].unused
      /\ q.ends = op[p].ends /\ q.begun = op[p].begun
  BY GoStep
<1>. HIDE DEF q
<1>2. CallOK(q, clock, index')
  BY <1>1 DEF CallOK
<1>. QED BY <1>1, <1>2

\* A call that ends.
LEMMA Finishes ==
  ASSUME NEW p \in Procs, Finish(p)
  PROVE  Idle \in Call /\ op' = [op EXCEPT ![p] = Idle] /\ \A t, ix : CallOK(Idle, t, ix)
BY IdleOK DEF Finish

\* RebindLoad: a call goes on to its index, or ends.
LEMMA RebindLoadKeeps ==
  ASSUME IInv, NEW p \in Procs, RebindLoad(p)
  PROVE  IInv'
PROOF
<1>1. op[p].pc = "rebind_load" /\ UNCHANGED records /\ Aside /\ (Go(p, "rebind_index") \/ Finish(p))
  BY DEF RebindLoad
<1>2. index' = index
  BY <1>1 DEF records
<1>3. CASE Go(p, "rebind_index")
  <2>1. op[p].s \in Sources /\ op[p].payload \in Payloads /\ ~op[p].begun
    BY <1>1, OneCall DEF CallOK, OfSource, OfPayload, Rebinding
  <2>2. "rebind_index" \in Pcs
    BY DEF Pcs
  <2>3. \E q \in Call : op' = [op EXCEPT ![p] = q] /\ CallOK(q, clock, index')
    BY <1>3, <2>1, <2>2, GoesOn
  <2>. QED BY <1>1, <1>2, <2>3, Moves
<1>4. CASE Finish(p)
  BY <1>1, <1>4, Finishes, Moves
<1>. QED BY <1>1, <1>3, <1>4

\* Load: a call that began under a remembered revocation does not get here.
LEMMA LoadKeeps ==
  ASSUME IInv, NEW p \in Procs, Load(p)
  PROVE  IInv'
PROOF
<1>1. op[p].pc = "load" /\ Finish(p) /\ UNCHANGED records /\ UNCHANGED <<clock, tomb, crashes, requests>>
  BY DEF Load
<1>2. ~op[p].begun
  BY <1>1, OneCall DEF CallOK
<1>3. ~late' /\ late' \in BOOLEAN
  BY <1>2, Parts DEF Load
<1>4. /\ clock' = clock /\ tomb' = tomb /\ crashes' = crashes /\ requests' = requests
      /\ binding' = binding /\ index' = index /\ core' = core /\ marker' = marker /\ blob' = blob
  BY <1>1 DEF records
<1>5. /\ crashes' \in Nat /\ requests' \in Nat
      /\ core' \in CoreRecord /\ (core'.payload # None <=> Exists(core'))
      /\ marker' \in [Payloads -> Nat] /\ blob' \in [Payloads -> BOOLEAN]
  BY <1>4, Parts
<1>. QED BY <1>1, <1>3, <1>4, <1>5, Finishes, QuietStep

\* Crash: the call ends, the records stay.
LEMMA CrashKeeps ==
  ASSUME IInv, NEW p \in Procs, Crash(p)
  PROVE  IInv'
PROOF
<1>1. Finish(p) /\ crashes' = crashes + 1 /\ UNCHANGED records /\ UNCHANGED <<clock, tomb, late, requests>>
  BY DEF Crash
<1>2. /\ clock' = clock /\ tomb' = tomb /\ late' = late /\ requests' = requests
      /\ binding' = binding /\ index' = index /\ core' = core /\ marker' = marker /\ blob' = blob
  BY <1>1 DEF records
<1>3. /\ ~late' /\ late' \in BOOLEAN /\ crashes' \in Nat /\ requests' \in Nat
      /\ core' \in CoreRecord /\ (core'.payload # None <=> Exists(core'))
      /\ marker' \in [Payloads -> Nat] /\ blob' \in [Payloads -> BOOLEAN]
  BY <1>1, <1>2, Parts
<1>. QED BY <1>1, <1>2, <1>3, Finishes, QuietStep

\* A step of a call to q on the core, the markers or the bytes.
LEMMA BytesStep ==
  ASSUME IInv, NEW p \in Procs, NEW q \in Call, op' = [op EXCEPT ![p] = q],
         CallOK(q, clock, index), binding' = binding, index' = index, Aside,
         core' \in CoreRecord, core'.payload # None <=> Exists(core'),
         marker' \in [Payloads -> Nat], blob' \in [Payloads -> BOOLEAN]
  PROVE  IInv'
PROOF
<1>1. clock' = clock /\ tomb' = tomb /\ late' = late /\ crashes' = crashes /\ requests' = requests
  BY DEF Aside
<1>2. ~late' /\ late' \in BOOLEAN /\ crashes' \in Nat /\ requests' \in Nat
  BY <1>1, Parts
<1>. QED BY <1>1, <1>2, QuietStep

\* Execute: a commit begins with the payload the parser made, or nothing is kept.
LEMMA ExecuteKeeps ==
  ASSUME IInv, NEW p \in Procs, NEW v \in Payloads, Execute(p, v)
  PROVE  IInv'
PROOF
<1>. DEFINE q == [op[p] EXCEPT !.pc = "mark", !.payload = v]
<1>1. op[p].pc = "execute" /\ UNCHANGED records /\ Aside
  BY DEF Execute
<1>2. op[p] \in Call /\ op[p].s \in Sources
  BY <1>1, OneCall DEF CallOK, OfSource
<1>3. Finish(p) \/ op' = [op EXCEPT ![p] = q]
  BY DEF Execute
<1>4. CASE Finish(p)
  BY <1>1, <1>4, Finishes, Moves
<1>5. CASE op' = [op EXCEPT ![p] = q]
  <2>1. q \in Call
    BY <1>2, CallType DEF Pcs
  <2>2. q.pc = "mark" /\ q.s = op[p].s /\ q.payload = v
    BY <1>2 DEF Call
  <2>. HIDE DEF q
  <2>3. CallOK(q, clock, index)
    BY <1>2, <2>2 DEF CallOK, Rebinding
  <2>. QED BY <1>1, <1>5, <2>1, <2>3, Moves
<1>. QED BY <1>3, <1>4, <1>5

\* What a committing call works on.
LEMMA Commits ==
  ASSUME IInv, NEW p \in Procs, op[p].pc \in Committing
  PROVE  op[p] \in Call /\ op[p].s \in Sources /\ op[p].payload \in Payloads
BY OneCall DEF CallOK, OfSource, OfPayload

\* MarkPayload: the marker is due at a later hour.
LEMMA MarkPayloadKeeps ==
  ASSUME Lengths, IInv, NEW p \in Procs, MarkPayload(p)
  PROVE  IInv'
PROOF
<1>1. op[p].pc = "mark" /\ Go(p, "put") /\ UNCHANGED <<core, binding, index, blob>> /\ Aside
  BY DEF MarkPayload
<1>2. op[p] \in Call /\ op[p].s \in Sources /\ op[p].payload \in Payloads
  BY <1>1, Commits DEF Committing
<1>3. \E q \in Call : op' = [op EXCEPT ![p] = q] /\ CallOK(q, clock, index')
  BY <1>1, <1>2, GoesOn DEF Pcs, Rebinding
<1>4. op[p].now + CleanupAge \in Nat
  BY <1>2 DEF Lengths, Call
<1>5. marker' \in [Payloads -> Nat]
  BY <1>2, <1>4, Parts DEF MarkPayload
<1>6. /\ core' \in CoreRecord /\ (core'.payload # None <=> Exists(core')) /\ blob' \in [Payloads -> BOOLEAN]
      /\ binding' = binding /\ index' = index
  BY <1>1, Parts
<1>. QED BY <1>1, <1>3, <1>5, <1>6, BytesStep

\* PutPayload: the bytes are there.
LEMMA PutPayloadKeeps ==
  ASSUME IInv, NEW p \in Procs, PutPayload(p)
  PROVE  IInv'
PROOF
<1>1. op[p].pc = "put" /\ Go(p, "core") /\ UNCHANGED <<core, binding, index, marker>> /\ Aside
  BY DEF PutPayload
<1>2. op[p] \in Call /\ op[p].s \in Sources /\ op[p].payload \in Payloads
  BY <1>1, Commits DEF Committing
<1>3. \E q \in Call : op' = [op EXCEPT ![p] = q] /\ CallOK(q, clock, index')
  BY <1>1, <1>2, GoesOn DEF Pcs, Rebinding
<1>4. blob' \in [Payloads -> BOOLEAN]
  BY Parts DEF PutPayload
<1>5. /\ core' \in CoreRecord /\ (core'.payload # None <=> Exists(core')) /\ marker' \in [Payloads -> Nat]
      /\ binding' = binding /\ index' = index
  BY <1>1, Parts
<1>. QED BY <1>1, <1>3, <1>4, <1>5, BytesStep

\* A core written anew names its payload.
LEMMA NewCore ==
  ASSUME Lengths, IInv, NEW v \in Payloads, NEW ends \in Nat,
         core' = Written(core, [rev |-> 0, payload |-> v, ends |-> ends])
  PROVE  core' \in CoreRecord /\ core'.payload # None /\ Exists(core')
PROOF
<1>. DEFINE n == core.rev + 1
<1>1. n \in Nat /\ n > 0
  BY Parts DEF CoreRecord
<1>2. core' = [[rev |-> 0, payload |-> v, ends |-> ends] EXCEPT !.rev = n]
  BY DEF Written
<1>. HIDE DEF n
<1>3. core' \in CoreRecord /\ core'.payload = v /\ core'.rev = n
  BY <1>1, <1>2 DEF CoreRecord
<1>. QED BY <1>1, <1>3 DEF Exists, Lengths

\* WriteCore: the core is kept or replaced, and the payload that lost is known.
LEMMA WriteCoreKeeps ==
  ASSUME Lengths, IInv, NEW p \in Procs, WriteCore(p)
  PROVE  IInv'
PROOF
<1>. DEFINE v == op[p].payload
            ends == op[p].now + op[p].ttl
            keep == op[p].mode = "use" /\ Exists(core) /\ core.ends > op[p].now
            loser == IF keep THEN v ELSE core.payload
            unused == IF loser = (IF keep THEN core.payload ELSE v) THEN None ELSE loser
            until == IF keep THEN Lesser(core.ends, ends) ELSE ends
            pc == IF unused = None THEN "index" ELSE "unused"
            q == [op[p] EXCEPT !.ends = until, !.unused = unused, !.pc = pc]
<1>1. op[p].pc = "core" /\ UNCHANGED <<binding, index, marker, blob>> /\ Aside
  BY DEF WriteCore
<1>2. op[p] \in Call /\ op[p].s \in Sources /\ op[p].payload \in Payloads
  BY <1>1, Commits DEF Committing
<1>3. ends \in Nat /\ core.ends \in Nat /\ core.payload \in Payloads \cup {None}
  BY <1>2, Parts DEF Call, CoreRecord
<1>4. until \in Nat
  BY <1>3 DEF Lesser
<1>5. unused \in Payloads \cup {None} /\ pc \in {"index", "unused"} /\ (pc = "unused" => unused # None)
  BY <1>2, <1>3
<1>6. /\ core' = IF keep THEN core ELSE Written(core, [rev |-> 0, payload |-> v, ends |-> ends])
      /\ op' = [op EXCEPT ![p] = q]
  BY DEF WriteCore
<1>7. core' \in CoreRecord /\ (core'.payload # None <=> Exists(core'))
  BY <1>2, <1>3, <1>6, Parts, NewCore
<1>. HIDE DEF until, unused, pc, keep, loser
<1>8. q \in Call
  BY <1>2, <1>4, <1>5, CallType DEF Pcs
<1>9. q.pc = pc /\ q.s = op[p].s /\ q.payload = op[p].payload /\ q.unused = unused
  BY <1>2 DEF Call
<1>. HIDE DEF q
<1>10. CallOK(q, clock, index)
  BY <1>2, <1>5, <1>9 DEF CallOK, Rebinding
<1>11. marker' \in [Payloads -> Nat] /\ blob' \in [Payloads -> BOOLEAN] /\ binding' = binding /\ index' = index
  BY <1>1, Parts
<1>. QED BY <1>1, <1>6, <1>7, <1>8, <1>10, <1>11, BytesStep

\* EraseUnused: the bytes that lost go, and the commit goes on.
LEMMA EraseUnusedKeeps ==
  ASSUME IInv, NEW p \in Procs, EraseUnused(p)
  PROVE  IInv'
PROOF
<1>. DEFINE q == [op[p] EXCEPT !.pc = "index", !.unused = None]
<1>1. op[p].pc = "unused" /\ op' = [op EXCEPT ![p] = q] /\ UNCHANGED <<core, binding, index, marker>> /\ Aside
  BY DEF EraseUnused
<1>2. op[p] \in Call /\ op[p].s \in Sources /\ op[p].payload \in Payloads
  BY <1>1, Commits DEF Committing
<1>3. q \in Call
  BY <1>2, CallType DEF Pcs
<1>4. q.pc = "index" /\ q.s = op[p].s /\ q.payload = op[p].payload
  BY <1>2 DEF Call
<1>. HIDE DEF q
<1>5. CallOK(q, clock, index)
  BY <1>2, <1>4 DEF CallOK, Rebinding
<1>6. blob' \in [Payloads -> BOOLEAN]
  BY Parts DEF EraseUnused
<1>7. /\ core' \in CoreRecord /\ (core'.payload # None <=> Exists(core')) /\ marker' \in [Payloads -> Nat]
      /\ binding' = binding /\ index' = index
  BY <1>1, Parts
<1>. QED BY <1>1, <1>3, <1>5, <1>6, <1>7, BytesStep

\* Recheck: on to take the binding back, or to the end of the commit.
LEMMA RecheckKeeps ==
  ASSUME IInv, NEW p \in Procs, Recheck(p)
  PROVE  IInv'
PROOF
<1>1. op[p].pc = "recheck" /\ UNCHANGED records /\ Aside /\ (Go(p, "unbind") \/ Go(p, "unmark"))
  BY DEF Recheck
<1>2. op[p] \in Call /\ op[p].s \in Sources /\ op[p].payload \in Payloads
  BY <1>1, Commits DEF Committing
<1>3. index' = index
  BY <1>1 DEF records
<1>4. ASSUME NEW pc \in {"unbind", "unmark"}, Go(p, pc)
      PROVE  IInv'
  <2>1. \E q \in Call : op' = [op EXCEPT ![p] = q] /\ CallOK(q, clock, index')
    BY <1>2, <1>4, GoesOn DEF Pcs, Rebinding
  <2>. QED BY <1>1, <1>3, <2>1, Moves
<1>. QED BY <1>1, <1>4

\* A marker goes, and its call with it: Unmark and DropMarker.
LEMMA MarkerGoes ==
  ASSUME IInv, NEW p \in Procs, Finish(p), marker' = [marker EXCEPT ![op[p].payload] = 0],
         UNCHANGED <<core, binding, index, blob>>, Aside
  PROVE  IInv'
PROOF
<1>1. marker' \in [Payloads -> Nat]
  BY Parts
<1>2. /\ core' \in CoreRecord /\ (core'.payload # None <=> Exists(core')) /\ blob' \in [Payloads -> BOOLEAN]
      /\ binding' = binding /\ index' = index
  BY Parts
<1>. QED BY <1>1, <1>2, Finishes, BytesStep

\* DropCore: the core goes if it is the one the sweep saw.
LEMMA DropCoreKeeps ==
  ASSUME IInv, NEW p \in Procs, DropCore(p)
  PROVE  IInv'
PROOF
<1>1. Finish(p) /\ UNCHANGED <<binding, index, marker, blob>> /\ Aside
  BY DEF DropCore
<1>2. NoCore \in CoreRecord /\ NoCore.payload = None /\ ~Exists(NoCore)
  BY DEF NoCore, CoreRecord, Exists
<1>3. core' \in {core, NoCore}
  BY DEF DropCore
<1>. HIDE DEF NoCore
<1>4. core' \in CoreRecord /\ (core'.payload # None <=> Exists(core'))
  BY <1>2, <1>3, Parts
<1>5. marker' \in [Payloads -> Nat] /\ blob' \in [Payloads -> BOOLEAN] /\ binding' = binding /\ index' = index
  BY <1>1, Parts
<1>. QED BY <1>1, <1>4, <1>5, Finishes, BytesStep

\* SweepErase: the bytes go before the record that names them.
LEMMA SweepEraseKeeps ==
  ASSUME IInv, NEW p \in Procs, SweepErase(p)
  PROVE  IInv'
PROOF
<1>1. op[p].pc = "sweep_erase" /\ UNCHANGED <<core, binding, index, marker>> /\ Aside
  BY DEF SweepErase
<1>2. op[p].payload \in Payloads
  BY <1>1, OneCall DEF CallOK, OfPayload
<1>3. PICK pc \in {"sweep_marker", "sweep_core"} : Go(p, pc)
  BY DEF SweepErase
<1>4. \E q \in Call : op' = [op EXCEPT ![p] = q] /\ CallOK(q, clock, index')
  BY <1>2, <1>3, GoesOn DEF Pcs, OfSource, Rebinding, Committing
<1>5. blob' \in [Payloads -> BOOLEAN]
  BY Parts DEF SweepErase
<1>6. /\ core' \in CoreRecord /\ (core'.payload # None <=> Exists(core')) /\ marker' \in [Payloads -> Nat]
      /\ binding' = binding /\ index' = index
  BY <1>1, Parts
<1>. QED BY <1>1, <1>4, <1>5, <1>6, BytesStep

\* A sweep works on a payload of the key.
LEMMA SweepsPayload ==
  ASSUME NEW q, q.pc \in {"sweep_marker", "sweep_erase"}, q.payload \in Payloads
  PROVE  \A t, ix : CallOK(q, t, ix)
BY DEF CallOK, OfSource, Rebinding, Committing

\* SweepMarker: a sweep finds a marker that is due.
LEMMA SweepMarkerKeeps ==
  ASSUME IInv, NEW p \in Procs, NEW v \in Payloads, SweepMarker(p, v)
  PROVE  IInv'
PROOF
<1>. DEFINE pc == IF core.payload = v THEN "sweep_marker" ELSE "sweep_erase"
            q == [Idle EXCEPT !.payload = v, !.pc = pc]
<1>1. UNCHANGED records /\ Aside /\ op' = [op EXCEPT ![p] = q]
  BY DEF SweepMarker
<1>2. pc \in {"sweep_marker", "sweep_erase"}
  OBVIOUS
<1>. HIDE DEF pc
<1>3. q \in Call
  BY <1>2, IdleOK, CallType DEF Pcs
<1>4. q.pc = pc /\ q.payload = v
  BY DEF Idle
<1>. HIDE DEF q
<1>5. CallOK(q, clock, index)
  BY <1>2, <1>4, SweepsPayload
<1>. QED BY <1>1, <1>3, <1>5, Moves

\* SweepCore: a sweep finds the core due.
LEMMA SweepCoreKeeps ==
  ASSUME IInv, NEW p \in Procs, SweepCore(p)
  PROVE  IInv'
PROOF
<1>. DEFINE q == [Idle EXCEPT !.pc = "sweep_erase", !.payload = core.payload, !.fence = core.rev]
<1>1. UNCHANGED records /\ Aside /\ Exists(core) /\ op' = [op EXCEPT ![p] = q]
  BY DEF SweepCore
<1>2. core.payload \in Payloads /\ core.rev \in Nat
  BY <1>1, Parts DEF CoreRecord
<1>3. q \in Call
  BY <1>2, IdleOK, CallType DEF Pcs
<1>4. q.pc = "sweep_erase" /\ q.payload = core.payload
  BY DEF Idle
<1>. HIDE DEF q
<1>5. CallOK(q, clock, index)
  BY <1>2, <1>4, SweepsPayload
<1>. QED BY <1>1, <1>3, <1>5, Moves

-----------------------------------------------------------------------------
\* The records of a source.

\* A step of a call on the records of one source.
LEMMA SourceStep ==
  ASSUME IInv, NEW p \in Procs, NEW s \in Sources,
         op' \in [Procs -> Call], \A q \in Procs \ {p} : op'[q] = op[q], CallOK(op'[p], clock, index'),
         tomb' \in [Sources -> Nat], binding' \in [Sources -> SourceRecord], index' \in [Sources -> SourceRecord],
         \A r \in Sources \ {s} : tomb'[r] = tomb[r] /\ binding'[r] = binding[r] /\ index'[r] = index[r],
         Kept(index[s], index'[s], clock), SourceOK(binding'[s], index'[s], tomb'[s], clock),
         clock' = clock, core' = core, marker' = marker, blob' = blob,
         ~late', late' \in BOOLEAN, crashes' \in Nat, requests' \in Nat
  PROVE  IInv'
PROOF
<1>1. clock \in Nat /\ \A r \in Sources : index[r] \in SourceRecord /\ SourceOK(binding[r], index[r], tomb[r], clock)
  BY OneSource, Parts
<1>2. \A r \in Sources : Kept(index[r], index'[r], clock)
  BY <1>1 DEF Kept, SourceRecord
<1>3. Steady
  BY <1>1, <1>2 DEF Steady
<1>4. \A r \in Sources : SourceOK(binding'[r], index'[r], tomb'[r], clock')
  BY <1>1
<1>5. StoreInv'
  BY <1>1, <1>4, Parts DEF StoreInv
<1>6. CallOK(op'[p], clock', index')
  OBVIOUS
<1>. QED BY <1>3, <1>5, <1>6, StepKeeps

\* A record of a source written anew.
LEMMA NewRecord ==
  ASSUME NEW x \in SourceRecord, NEW v \in SourceRecord
  PROVE  LET y == Written(x, v)
         IN y \in SourceRecord /\ y.rev # 0 /\ y.revoked = v.revoked /\ y.ends = v.ends
PROOF
<1>. DEFINE n == x.rev + 1
            y == [v EXCEPT !.rev = n]
<1>1. n \in Nat /\ n # 0
  BY DEF SourceRecord
<1>2. Written(x, v) = y
  BY DEF Written
<1>. HIDE DEF n
<1>3. y \in SourceRecord /\ y.rev = n /\ y.revoked = v.revoked /\ y.ends = v.ends
  BY <1>1 DEF SourceRecord
<1>. HIDE DEF y
<1>. QED BY <1>1, <1>2, <1>3

\* An index or a binding that is live: the record of ends.
LEMMA LiveRecord ==
  ASSUME NEW x \in SourceRecord, NEW ends \in Nat
  PROVE  LET y == Written(x, [NoSource EXCEPT !.ends = ends])
         IN y \in SourceRecord /\ y.rev # 0 /\ ~y.revoked /\ y.ends = ends
PROOF
<1>. DEFINE v == [NoSource EXCEPT !.ends = ends]
<1>1. v \in SourceRecord /\ ~v.revoked /\ v.ends = ends
  BY DEF NoSource, SourceRecord
<1>. HIDE DEF v
<1>2. LET y == Written(x, v)
      IN y \in SourceRecord /\ y.rev # 0 /\ y.revoked = v.revoked /\ y.ends = v.ends
  BY <1>1, NewRecord
<1>. QED BY <1>1, <1>2 DEF v

\* ensureSourceIndex(): the index it leaves lasts as long as the old one and as asked.
LEMMA IndexForOK ==
  ASSUME NEW s \in Sources, index[s] \in SourceRecord, ~index[s].revoked, NEW ends \in Nat
  PROVE  LET x == IndexFor(s, ends)
         IN x \in SourceRecord /\ x.rev # 0 /\ ~x.revoked /\ x.ends >= ends /\ Kept(index[s], x, clock)
            /\ (index[s].rev # 0 => x.ends >= index[s].ends)
PROOF
<1>. DEFINE x == IndexFor(s, ends)
            y == Written(index[s], [NoSource EXCEPT !.ends = ends])
<1>1. index[s].rev \in Nat /\ index[s].ends \in Nat
  BY DEF SourceRecord
<1>2. y \in SourceRecord /\ y.rev # 0 /\ ~y.revoked /\ y.ends = ends
  BY LiveRecord
<1>3. x = IF index[s].rev > 0 /\ index[s].ends >= ends THEN index[s] ELSE y
  BY DEF IndexFor, Exists
<1>. HIDE DEF x, y
<1>4. x \in SourceRecord /\ x.rev # 0 /\ ~x.revoked /\ x.ends >= ends
  BY <1>1, <1>2, <1>3
<1>5. index[s].rev # 0 => x.ends >= index[s].ends
  BY <1>1, <1>2, <1>3
<1>6. Kept(index[s], x, clock)
  BY <1>4, <1>5 DEF Kept
<1>. QED BY <1>4, <1>5, <1>6 DEF x

\* A call that makes sure of its index and goes on to pc.
LEMMA IndexStep ==
  ASSUME IInv, NEW p \in Procs, NEW s \in Sources, s = op[p].s, ~index[s].revoked,
         SetIndex(s, IndexFor(s, op[p].ends)), NEW pc \in {"bind", "rebind"}, Go(p, pc),
         pc = "rebind" => ~op[p].begun, pc = "bind" => op[p].payload \in Payloads,
         UNCHANGED <<core, binding, marker, blob>>, Aside
  PROVE  IInv'
PROOF
<1>. DEFINE x == IndexFor(s, op[p].ends)
<1>1. op[p].ends \in Nat
  BY OneCall DEF Call
<1>2. /\ SourceOK(binding[s], index[s], tomb[s], clock)
      /\ binding[s] \in SourceRecord /\ index[s] \in SourceRecord /\ tomb[s] \in Nat /\ clock \in Nat
  BY OneSource
<1>3. /\ x \in SourceRecord /\ x.rev # 0 /\ ~x.revoked /\ x.ends >= op[p].ends /\ Kept(index[s], x, clock)
      /\ (index[s].rev # 0 => x.ends >= index[s].ends)
  BY <1>1, <1>2, IndexForOK
<1>4. index' = [index EXCEPT ![s] = x]
  BY DEF SetIndex
<1>. HIDE DEF x
<1>5. /\ index \in [Sources -> SourceRecord] /\ tomb \in [Sources -> Nat]
      /\ binding \in [Sources -> SourceRecord]
  BY DEF IInv, StoreInv
<1>6. index' \in [Sources -> SourceRecord] /\ index'[s] = x /\ \A r \in Sources \ {s} : index'[r] = index[r]
  BY <1>3, <1>4, <1>5
<1>7. SourceOK(binding[s], x, tomb[s], clock)
  BY <1>2, <1>3 DEF SourceOK, SourceRecord
<1>8. \E q \in Call : op' = [op EXCEPT ![p] = q] /\ CallOK(q, clock, index')
  BY <1>3, <1>6, GoesOn DEF Pcs, Rebinding, OfPayload, Committing
<1>9. op' \in [Procs -> Call] /\ (\A q \in Procs \ {p} : op'[q] = op[q]) /\ CallOK(op'[p], clock, index')
  BY <1>8, CallStep
<1>10. /\ clock' = clock /\ tomb' = tomb /\ binding' = binding /\ late' = late
       /\ crashes' = crashes /\ requests' = requests
       /\ core' = core /\ marker' = marker /\ blob' = blob
  BY DEF Aside
<1>. QED BY <1>3, <1>5, <1>6, <1>7, <1>9, <1>10, Parts, SourceStep

\* RebindIndex and CommitIndex: a revoked index ends the call, any other is made
\* to last.
LEMMA RebindIndexKeeps ==
  ASSUME IInv, NEW p \in Procs, RebindIndex(p)
  PROVE  IInv'
PROOF
<1>1. op[p].pc = "rebind_index" /\ UNCHANGED <<core, binding, marker, blob>> /\ Aside
  BY DEF RebindIndex
<1>2. op[p].s \in Sources /\ ~op[p].begun
  BY <1>1, OneCall DEF CallOK, OfSource, Rebinding
<1>3. CASE Finish(p) /\ UNCHANGED index
  BY <1>1, <1>3, Finishes, Moves DEF records
<1>4. CASE ~index[op[p].s].revoked /\ SetIndex(op[p].s, IndexFor(op[p].s, op[p].ends)) /\ Go(p, "rebind")
  BY <1>1, <1>2, <1>4, IndexStep
<1>. QED BY <1>3, <1>4 DEF RebindIndex

\* CommitIndex: likewise.
LEMMA CommitIndexKeeps ==
  ASSUME IInv, NEW p \in Procs, CommitIndex(p)
  PROVE  IInv'
PROOF
<1>1. op[p].pc = "index" /\ UNCHANGED <<core, binding, marker, blob>> /\ Aside
  BY DEF CommitIndex
<1>2. op[p].s \in Sources /\ op[p].payload \in Payloads
  BY <1>1, Commits DEF Committing
<1>3. CASE Finish(p) /\ UNCHANGED index
  BY <1>1, <1>3, Finishes, Moves DEF records
<1>4. CASE ~index[op[p].s].revoked /\ SetIndex(op[p].s, IndexFor(op[p].s, op[p].ends)) /\ Go(p, "bind")
  BY <1>1, <1>2, <1>4, IndexStep
<1>. QED BY <1>3, <1>4 DEF CommitIndex

\* A step of a call that writes the binding of one source.
LEMMA BindingStep ==
  ASSUME IInv, NEW p \in Procs, NEW s \in Sources, NEW b \in SourceRecord, SetBinding(s, b),
         b.rev # 0 /\ ~b.revoked /\ b.ends > clock => index[s].rev # 0 /\ index[s].ends >= b.ends,
         op' \in [Procs -> Call], \A q \in Procs \ {p} : op'[q] = op[q], CallOK(op'[p], clock, index),
         ~late', late' \in BOOLEAN,
         UNCHANGED <<core, index, marker, blob, clock, tomb, crashes, requests>>
  PROVE  IInv'
PROOF
<1>1. /\ clock' = clock /\ tomb' = tomb /\ index' = index /\ crashes' = crashes /\ requests' = requests
      /\ core' = core /\ marker' = marker /\ blob' = blob
  OBVIOUS
<1>2. binding' = [binding EXCEPT ![s] = b]
  BY DEF SetBinding
<1>3. /\ index \in [Sources -> SourceRecord] /\ tomb \in [Sources -> Nat]
      /\ binding \in [Sources -> SourceRecord]
  BY DEF IInv, StoreInv
<1>4. binding' \in [Sources -> SourceRecord] /\ binding'[s] = b /\ \A r \in Sources \ {s} : binding'[r] = binding[r]
  BY <1>2, <1>3
<1>5. SourceOK(binding[s], index[s], tomb[s], clock)
  BY OneSource
<1>6. SourceOK(b, index[s], tomb[s], clock)
  BY <1>5 DEF SourceOK
<1>7. Kept(index[s], index'[s], clock)
  BY <1>1, <1>3 DEF Kept, SourceRecord
<1>8. index' \in [Sources -> SourceRecord] /\ tomb' \in [Sources -> Nat]
      /\ \A r \in Sources \ {s} : tomb'[r] = tomb[r] /\ binding'[r] = binding[r] /\ index'[r] = index[r]
  BY <1>1, <1>3, <1>4
<1>9. SourceOK(binding'[s], index'[s], tomb'[s], clock) /\ CallOK(op'[p], clock, index')
  BY <1>1, <1>4, <1>6
<1>10. crashes' \in Nat /\ requests' \in Nat
  BY <1>1, Parts
<1>. QED BY <1>1, <1>4, <1>7, <1>8, <1>9, <1>10, SourceStep

\* The live binding a call writes: its index is there for it.
LEMMA LiveBindingOK ==
  ASSUME IInv, NEW p \in Procs, op[p].pc \in {"bind", "rebind"}, NEW s \in Sources, s = op[p].s
  PROVE  /\ LiveBinding(p) \in SourceRecord
         /\ LiveBinding(p).rev # 0 /\ ~LiveBinding(p).revoked /\ LiveBinding(p).ends = op[p].ends
         /\ LiveBinding(p).ends > clock => index[s].rev # 0 /\ index[s].ends >= LiveBinding(p).ends
PROOF
<1>1. op[p].ends \in Nat /\ CallOK(op[p], clock, index) /\ binding[s] \in SourceRecord
  BY OneCall, OneSource DEF Call
<1>2. /\ LiveBinding(p) \in SourceRecord
      /\ LiveBinding(p).rev # 0 /\ ~LiveBinding(p).revoked /\ LiveBinding(p).ends = op[p].ends
  BY <1>1, LiveRecord DEF LiveBinding
<1>. QED BY <1>1, <1>2 DEF CallOK

\* Rebind: a hit, of a call that began under no remembered revocation.
LEMMA RebindKeeps ==
  ASSUME IInv, NEW p \in Procs, Rebind(p)
  PROVE  IInv'
PROOF
<1>1. /\ op[p].pc = "rebind" /\ SetBinding(op[p].s, LiveBinding(p)) /\ Finish(p)
      /\ UNCHANGED <<core, index, marker, blob, clock, tomb, crashes, requests>>
  BY DEF Rebind
<1>2. op[p].s \in Sources /\ ~op[p].begun
  BY <1>1, OneCall DEF CallOK, OfSource, Rebinding
<1>3. ~late' /\ late' \in BOOLEAN
  BY <1>2, Parts DEF Rebind
<1>4. op' \in [Procs -> Call] /\ (\A q \in Procs \ {p} : op'[q] = op[q]) /\ CallOK(op'[p], clock, index)
  BY <1>1, Finishes, CallStep
<1>. QED BY <1>1, <1>2, <1>3, <1>4, LiveBindingOK, BindingStep

\* CommitBinding: the binding is written, or an equivalent live one stands.
LEMMA CommitBindingKeeps ==
  ASSUME IInv, NEW p \in Procs, CommitBinding(p)
  PROVE  IInv'
PROOF
<1>1. op[p].pc = "bind" /\ UNCHANGED <<core, index, marker, blob>> /\ Aside
  BY DEF CommitBinding
<1>2. op[p].s \in Sources /\ op[p].payload \in Payloads
  BY <1>1, Commits DEF Committing
<1>3. \/ SetBinding(op[p].s, LiveBinding(p)) /\ Go(p, "recheck")
      \/ UNCHANGED binding /\ (Go(p, "recheck") \/ Finish(p))
  BY DEF CommitBinding
<1>4. index' = index /\ ~late' /\ late' \in BOOLEAN
      /\ UNCHANGED <<core, index, marker, blob, clock, tomb, crashes, requests>>
  BY <1>1, Parts DEF Aside
<1>5. CASE Go(p, "recheck")
  <2>1. \E q \in Call : op' = [op EXCEPT ![p] = q] /\ CallOK(q, clock, index')
    BY <1>2, <1>5, GoesOn DEF Pcs, Rebinding
  <2>2. CASE UNCHANGED binding
    BY <1>1, <1>4, <2>1, <2>2, Moves DEF records
  <2>3. CASE SetBinding(op[p].s, LiveBinding(p))
    <3>1. op' \in [Procs -> Call] /\ (\A q \in Procs \ {p} : op'[q] = op[q]) /\ CallOK(op'[p], clock, index)
      BY <1>4, <2>1, CallStep
    <3>. QED BY <1>1, <1>2, <1>4, <2>3, <3>1, LiveBindingOK, BindingStep
  <2>. QED BY <1>3, <2>2, <2>3
<1>6. CASE Finish(p) /\ UNCHANGED binding
  BY <1>1, <1>6, Finishes, Moves DEF records
<1>. QED BY <1>3, <1>5, <1>6

\* Unbind: a binding that is revoked serves nothing.
LEMMA UnbindKeeps ==
  ASSUME IInv, NEW p \in Procs, Unbind(p)
  PROVE  IInv'
PROOF
<1>. DEFINE s == op[p].s
            ends == Greater(binding[s].ends, op[p].now + 1)
            v == [rev |-> 0, revoked |-> TRUE, ends |-> ends]
            b == RevokedBinding(s, op[p].now)
<1>1. /\ op[p].pc \in {"unbind", "revoke_binding"} /\ SetBinding(s, b) /\ Finish(p)
      /\ UNCHANGED <<core, index, marker, blob>> /\ Aside
  BY DEF Unbind
<1>2. s \in Sources /\ op[p].now \in Nat
  BY <1>1, OneCall DEF CallOK, OfSource, Call
<1>3. binding[s] \in SourceRecord /\ SourceOK(binding[s], index[s], tomb[s], clock)
  BY <1>2, OneSource
<1>4. ends \in Nat
  BY <1>2, <1>3 DEF Greater, SourceRecord
<1>5. b \in {binding[s], Written(binding[s], v)}
  BY DEF RevokedBinding
<1>. HIDE DEF b, ends
<1>6. v \in SourceRecord /\ v.revoked = TRUE
  BY <1>4 DEF SourceRecord
<1>. HIDE DEF v
<1>7. Written(binding[s], v) \in SourceRecord /\ Written(binding[s], v).revoked = TRUE
  BY <1>3, <1>6, NewRecord
<1>8. b \in SourceRecord
      /\ (b.rev # 0 /\ ~b.revoked /\ b.ends > clock => index[s].rev # 0 /\ index[s].ends >= b.ends)
  BY <1>3, <1>5, <1>7 DEF SourceOK
<1>9. op' \in [Procs -> Call] /\ (\A q \in Procs \ {p} : op'[q] = op[q]) /\ CallOK(op'[p], clock, index)
  BY <1>1, Finishes, CallStep
<1>10. ~late' /\ late' \in BOOLEAN /\ UNCHANGED <<core, index, marker, blob, clock, tomb, crashes, requests>>
  BY <1>1, Parts DEF Aside
<1>. QED BY <1>1, <1>2, <1>8, <1>9, <1>10, BindingStep

\* RevokeAll: the index keeps the revocation until the end it promises.
LEMMA RevokeAllKeeps ==
  ASSUME IInv, NEW p \in Procs, NEW s \in Sources, RevokeAll(p, s)
  PROVE  IInv'
PROOF
<1>. DEFINE ends == Greater(index[s].ends, clock + 1)
            v == [rev |-> 0, revoked |-> TRUE, ends |-> ends]
            q == [Idle EXCEPT !.pc = "revoke_binding", !.s = s, !.now = clock]
            known == Exists(index[s])
            x == IF known /\ ~index[s].revoked THEN Written(index[s], v) ELSE index[s]
            u == IF known THEN x.ends ELSE tomb[s]
<1>1. /\ requests' = requests + 1 /\ op' = [op EXCEPT ![p] = q]
      /\ UNCHANGED <<clock, core, binding, marker, blob, late, crashes>>
  BY DEF RevokeAll
<1>2. /\ SourceOK(binding[s], index[s], tomb[s], clock)
      /\ binding[s] \in SourceRecord /\ index[s] \in SourceRecord /\ tomb[s] \in Nat /\ clock \in Nat
      /\ index[s].rev \in Nat /\ index[s].ends \in Nat
  BY OneSource DEF SourceRecord
<1>3. /\ index \in [Sources -> SourceRecord] /\ tomb \in [Sources -> Nat] /\ binding \in [Sources -> SourceRecord]
  BY DEF IInv, StoreInv
<1>4. ends \in Nat /\ ends >= index[s].ends
  BY <1>2 DEF Greater
<1>5. v \in SourceRecord /\ v.revoked = TRUE /\ v.ends = ends
  BY <1>4 DEF SourceRecord
<1>6. index' = [index EXCEPT ![s] = x]
  <2>1. CASE known /\ ~index[s].revoked
    BY <2>1 DEF RevokeAll
  <2>2. CASE ~(known /\ ~index[s].revoked)
    <3>1. index' = index /\ x = index[s]
      BY <2>2 DEF RevokeAll
    <3>. QED BY <1>3, <3>1
  <2>. QED BY <2>1, <2>2
<1>. HIDE DEF v, ends, x
<1>7. LET y == Written(index[s], v)
      IN y \in SourceRecord /\ y.rev # 0 /\ y.revoked = v.revoked /\ y.ends = v.ends
  BY <1>2, <1>5, NewRecord
<1>8. known <=> index[s].rev # 0
  BY <1>2 DEF Exists
<1>. HIDE DEF known
<1>9. /\ x \in SourceRecord /\ (known <=> x.rev # 0) /\ (known => x.revoked) /\ (~known => x = index[s])
      /\ x.ends >= index[s].ends /\ x.ends \in Nat
  BY <1>2, <1>4, <1>5, <1>7, <1>8 DEF x, SourceRecord
<1>10. index' \in [Sources -> SourceRecord] /\ index'[s] = x /\ \A r \in Sources \ {s} : index'[r] = index[r]
  BY <1>3, <1>6, <1>9
<1>11. tomb' = [tomb EXCEPT ![s] = u]
  <2>1. CASE known
    BY <1>10, <2>1 DEF RevokeAll, known
  <2>2. CASE ~known
    <3>1. tomb' = tomb /\ u = tomb[s]
      BY <2>2 DEF RevokeAll, known
    <3>. QED BY <1>3, <3>1
  <2>. QED BY <2>1, <2>2
<1>12. u \in Nat /\ (known => u = x.ends) /\ (~known => u = tomb[s])
  BY <1>2, <1>9
<1>. HIDE DEF u
<1>13. tomb' \in [Sources -> Nat] /\ tomb'[s] = u /\ \A r \in Sources \ {s} : tomb'[r] = tomb[r]
  BY <1>3, <1>11, <1>12
<1>14. Kept(index[s], x, clock)
  BY <1>8, <1>9 DEF Kept
<1>15. SourceOK(binding[s], x, u, clock)
  <2>1. CASE known
    BY <1>2, <1>8, <1>9, <1>12, <2>1 DEF SourceOK, SourceRecord
  <2>2. CASE ~known
    BY <1>2, <1>9, <1>12, <2>2
  <2>. QED BY <2>1, <2>2
<1>16. q \in Call
  BY <1>2, IdleOK, CallType DEF Pcs
<1>17. q.pc = "revoke_binding" /\ q.s = s
  BY DEF Idle
<1>. HIDE DEF q
<1>18. CallOK(q, clock, index')
  BY <1>17 DEF CallOK, OfPayload, Rebinding, Committing
<1>19. op' \in [Procs -> Call] /\ (\A r \in Procs \ {p} : op'[r] = op[r]) /\ CallOK(op'[p], clock, index')
  BY <1>1, <1>16, <1>18, CallStep
<1>20. /\ clock' = clock /\ core' = core /\ marker' = marker /\ blob' = blob /\ binding' = binding
       /\ ~late' /\ late' \in BOOLEAN /\ crashes' \in Nat /\ requests' \in Nat
  BY <1>1, Parts
<1>21. /\ Kept(index[s], index'[s], clock) /\ SourceOK(binding'[s], index'[s], tomb'[s], clock)
       /\ binding' \in [Sources -> SourceRecord]
       /\ \A r \in Sources \ {s} : tomb'[r] = tomb[r] /\ binding'[r] = binding[r] /\ index'[r] = index[r]
  BY <1>3, <1>10, <1>13, <1>14, <1>15, <1>20
<1>. QED BY <1>10, <1>13, <1>19, <1>20, <1>21, SourceStep

\* SweepSource: a binding may go at any time, an index only when it is over.
LEMMA SweepSourceKeeps ==
  ASSUME IInv, NEW p \in Procs, NEW s \in Sources, SweepSource(p, s)
  PROVE  IInv'
PROOF
<1>1. UNCHANGED <<core, marker, blob, op>> /\ Aside
  BY DEF SweepSource
<1>2. /\ clock' = clock /\ tomb' = tomb /\ crashes' = crashes /\ requests' = requests /\ late' = late
      /\ core' = core /\ marker' = marker /\ blob' = blob /\ op' = op
  BY <1>1 DEF Aside
<1>3. NoSource \in SourceRecord /\ NoSource.rev = 0 /\ ~NoSource.revoked
  BY DEF NoSource, SourceRecord
<1>4. /\ SourceOK(binding[s], index[s], tomb[s], clock)
      /\ binding[s] \in SourceRecord /\ index[s] \in SourceRecord /\ tomb[s] \in Nat /\ clock \in Nat
  BY OneSource
<1>5. \/ binding' = [binding EXCEPT ![s] = NoSource] /\ index' = index
      \/ index[s].ends <= clock /\ index' = [index EXCEPT ![s] = NoSource] /\ binding' = binding
  BY DEF SweepSource, SetBinding, SetIndex
<1>. HIDE DEF NoSource
<1>6. /\ index \in [Sources -> SourceRecord] /\ tomb \in [Sources -> Nat] /\ binding \in [Sources -> SourceRecord]
      /\ op \in [Procs -> Call]
  BY DEF IInv, StoreInv
<1>7. /\ binding' \in [Sources -> SourceRecord] /\ index' \in [Sources -> SourceRecord] /\ tomb' \in [Sources -> Nat]
      /\ \A r \in Sources \ {s} : tomb'[r] = tomb[r] /\ binding'[r] = binding[r] /\ index'[r] = index[r]
      /\ \/ binding'[s] = NoSource /\ index'[s] = index[s]
         \/ index[s].ends <= clock /\ index'[s] = NoSource /\ binding'[s] = binding[s]
  BY <1>2, <1>3, <1>5, <1>6
<1>8. Kept(index[s], index'[s], clock)
  BY <1>4, <1>7 DEF Kept, SourceRecord
<1>9. SourceOK(binding'[s], index'[s], tomb[s], clock)
  BY <1>3, <1>4, <1>7 DEF SourceOK, SourceRecord
<1>10. SourceOK(binding'[s], index'[s], tomb'[s], clock)
  BY <1>2, <1>9
<1>11. \A r \in Sources : index'[r] \in SourceRecord /\ Kept(index[r], index'[r], clock)
  BY <1>6, <1>7, <1>8 DEF Kept, SourceRecord
<1>12. Steady
  BY <1>2, <1>4, <1>11 DEF Steady
<1>13. CallOK(op'[p], clock', index')
  BY <1>2, <1>12, CallStays
<1>14. CallOK(op'[p], clock, index')
  BY <1>2, <1>13
<1>15. /\ ~late' /\ late' \in BOOLEAN /\ crashes' \in Nat /\ requests' \in Nat
       /\ op' \in [Procs -> Call] /\ \A q \in Procs \ {p} : op'[q] = op[q]
  BY <1>2, <1>6, Parts
<1>. QED BY <1>2, <1>7, <1>8, <1>10, <1>14, <1>15, SourceStep

\* Tick: what was over stays over.
LEMMA TickKeeps ==
  ASSUME IInv, Tick
  PROVE  IInv'
PROOF
<1>1. /\ clock' = clock + 1 /\ binding' = binding /\ index' = index /\ core' = core /\ marker' = marker
      /\ blob' = blob /\ op' = op /\ tomb' = tomb /\ late' = late /\ crashes' = crashes /\ requests' = requests
  BY DEF Tick, records
<1>2. clock \in Nat /\ clock' \in Nat /\ clock' > clock
  BY <1>1, Parts
<1>3. \A s \in Sources : SourceOK(binding[s], index[s], tomb[s], clock')
  <2>. SUFFICES ASSUME NEW s \in Sources PROVE SourceOK(binding[s], index[s], tomb[s], clock')
    OBVIOUS
  <2>1. /\ SourceOK(binding[s], index[s], tomb[s], clock)
        /\ binding[s].ends \in Nat /\ tomb[s] \in Nat
    BY OneSource DEF SourceRecord
  <2>. QED BY <1>2, <2>1 DEF SourceOK
<1>4. StoreInv'
  BY <1>1, <1>2, <1>3 DEF IInv, StoreInv
<1>5. Steady
  <2>1. \A s \in Sources : index[s] \in SourceRecord /\ index[s].ends \in Nat
    BY OneSource DEF SourceRecord
  <2>. QED BY <1>1, <1>2, <2>1 DEF Steady, Kept
<1>6. \A p \in Procs : CallOK(op'[p], clock', index')
  BY <1>1, <1>5, CallStays
<1>. QED BY <1>1, <1>4, <1>6 DEF IInv

\* What a lookup leaves in its call.
Begun(s, now, mode, ttl, pc, ends) ==
  [Idle EXCEPT !.pc = pc, !.s = s, !.now = now, !.mode = mode, !.ttl = ttl, !.fence = binding[s].rev,
               !.payload = core.payload, !.ends = ends, !.begun = tomb[s] > clock]

\* A lookup begins: on its way to a hit, only when no revocation is remembered.
LEMMA BegunOK ==
  ASSUME IInv, NEW s \in Sources, NEW mode \in {"use", "refresh"}, NEW ttl \in Nat, NEW ends \in Nat,
         NEW pc \in {"load", "rebind_load", "execute"},
         pc # "execute" => Exists(core) /\ ~(tomb[s] > clock)
  PROVE  /\ Begun(s, clock, mode, ttl, pc, ends) \in Call
         /\ CallOK(Begun(s, clock, mode, ttl, pc, ends), clock, index)
PROOF
<1>. DEFINE q == Begun(s, clock, mode, ttl, pc, ends)
            fence == binding[s].rev
            payload == core.payload
            begun == tomb[s] > clock
<1>1. clock \in Nat /\ fence \in Nat /\ payload \in Payloads \cup {None} /\ begun \in BOOLEAN
      /\ (Exists(core) => payload \in Payloads)
  BY OneSource, Parts DEF SourceRecord, CoreRecord
<1>2. q = [Idle EXCEPT !.pc = pc, !.s = s, !.now = clock, !.mode = mode, !.ttl = ttl, !.fence = fence,
                       !.payload = payload, !.ends = ends, !.begun = begun]
  BY DEF Begun
<1>3. pc # "execute" => payload \in Payloads /\ ~begun
  BY <1>1
<1>. HIDE DEF q, fence, payload, begun
<1>4. q \in Call
  BY ZenonT(60), <1>1, <1>2, IdleOK, CallType DEF Pcs
<1>5. q.pc = pc /\ q.s = s /\ q.payload = payload /\ q.begun = begun
  BY <1>2 DEF Idle
<1>6. CallOK(q, clock, index)
  BY <1>3, <1>5 DEF CallOK, Rebinding, Committing, OfPayload
<1>. QED BY <1>4, <1>6 DEF q

\* A source that is not revoked has no revocation to remember.
LEMMA Forgotten ==
  ASSUME IInv, NEW s \in Sources, ~index[s].revoked
  PROVE  ~(tomb[s] > clock)
BY OneSource DEF SourceOK

\* Lookup.
LEMMA LookupKeeps ==
  ASSUME Lengths, IInv, NEW p \in Procs, NEW s \in Sources, NEW mode \in {"use", "refresh"}, NEW tool,
         NEW requested \in Nat, Lookup(p, s, mode, tool, requested)
  PROVE  IInv'
PROOF
<1>. DEFINE ttl == EffectiveTtl(requested)
<1>1. requests' = requests + 1 /\ UNCHANGED records /\ UNCHANGED <<clock, tomb, late, crashes>>
  BY DEF Lookup
<1>2. ttl \in Nat /\ core.ends \in Nat /\ clock \in Nat
  BY Parts DEF EffectiveTtl, Lesser, Lengths, CoreRecord
<1>3. \/ Hit(s, clock) /\ op' = [op EXCEPT ![p] = Begun(s, clock, mode, ttl, "load", core.ends)]
      \/ /\ Rebindable(s, clock)
         /\ op' = [op EXCEPT ![p] = Begun(s, clock, mode, ttl, "rebind_load", Lesser(core.ends, clock + ttl))]
      \/ op' = [op EXCEPT ![p] = Begun(s, clock, mode, ttl, "execute", 0)]
  BY DEF Lookup, Begun
<1>. HIDE DEF ttl
<1>4. Lesser(core.ends, clock + ttl) \in Nat
  BY <1>2 DEF Lesser
<1>5. PICK pc \in {"load", "rebind_load", "execute"}, ends \in Nat :
        /\ pc # "execute" => Exists(core) /\ ~index[s].revoked
        /\ op' = [op EXCEPT ![p] = Begun(s, clock, mode, ttl, pc, ends)]
  <2>1. CASE Hit(s, clock) /\ op' = [op EXCEPT ![p] = Begun(s, clock, mode, ttl, "load", core.ends)]
    BY <1>2, <2>1 DEF Hit
  <2>2. CASE /\ Rebindable(s, clock)
             /\ op' = [op EXCEPT ![p] = Begun(s, clock, mode, ttl, "rebind_load", Lesser(core.ends, clock + ttl))]
    BY <1>4, <2>2 DEF Rebindable
  <2>3. CASE op' = [op EXCEPT ![p] = Begun(s, clock, mode, ttl, "execute", 0)]
    BY <2>3
  <2>. QED BY <1>3, <2>1, <2>2, <2>3
<1>6. /\ Begun(s, clock, mode, ttl, pc, ends) \in Call
      /\ CallOK(Begun(s, clock, mode, ttl, pc, ends), clock, index)
  BY <1>2, <1>5, Forgotten, BegunOK
<1>7. /\ clock' = clock /\ tomb' = tomb /\ late' = late /\ crashes' = crashes
      /\ binding' = binding /\ index' = index /\ core' = core /\ marker' = marker /\ blob' = blob
  BY <1>1 DEF records
<1>8. /\ ~late' /\ late' \in BOOLEAN /\ crashes' \in Nat /\ requests' \in Nat
      /\ core' \in CoreRecord /\ (core'.payload # None <=> Exists(core'))
      /\ marker' \in [Payloads -> Nat] /\ blob' \in [Payloads -> BOOLEAN]
  BY <1>1, <1>7, Parts
<1>. QED BY <1>5, <1>6, <1>7, <1>8, QuietStep

-----------------------------------------------------------------------------
\* The invariant, and what follows from it.

\* Nothing is cached at first.
LEMMA InitInv == Init => IInv
PROOF
<1>. SUFFICES ASSUME Init PROVE IInv
  OBVIOUS
<1>1. NoSource \in SourceRecord /\ NoSource.rev = 0 /\ ~NoSource.revoked
  BY DEF NoSource, SourceRecord
<1>2. NoCore \in CoreRecord /\ NoCore.payload = None /\ ~Exists(NoCore)
  BY DEF NoCore, CoreRecord, Exists
<1>3. /\ clock = 0 /\ crashes = 0 /\ requests = 0 /\ late = FALSE /\ tomb = [s \in Sources |-> 0]
      /\ core = NoCore
      /\ binding = [s \in Sources |-> NoSource] /\ index = [s \in Sources |-> NoSource]
      /\ marker = [v \in Payloads |-> 0] /\ blob = [v \in Payloads |-> FALSE]
      /\ op = [p \in Procs |-> Idle]
  BY DEF Init
<1>. HIDE DEF NoSource, NoCore
<1>4. \A s \in Sources : SourceOK(binding[s], index[s], tomb[s], clock)
  BY <1>1, <1>3 DEF SourceOK
<1>5. StoreInv
  BY <1>1, <1>2, <1>3, <1>4 DEF StoreInv
<1>6. op \in [Procs -> Call] /\ \A p \in Procs : CallOK(op[p], clock, index)
  BY <1>3, IdleOK
<1>. QED BY <1>5, <1>6 DEF IInv

\* Every step of the key keeps the invariant.
LEMMA NextKeeps == Lengths /\ IInv /\ [Next]_vars => IInv'
PROOF
<1>. SUFFICES ASSUME Lengths, IInv, [Next]_vars PROVE IInv'
  OBVIOUS
<1>1. ASSUME NEW p \in Procs, LookupStep(p) PROVE IInv'
  <2>1. 1..MaxTTL \subseteq Nat
    BY DEF Lengths
  <2>2. ASSUME NEW s \in Sources, NEW mode \in {"use", "refresh"}, NEW tool \in {"document_parse", "parse"},
               NEW requested \in 1..MaxTTL, Lookup(p, s, mode, tool, requested)
        PROVE  IInv'
    BY <2>1, <2>2, LookupKeeps
  <2>. QED BY <1>1, <2>2, LoadKeeps, RebindLoadKeeps, RebindIndexKeeps, RebindKeeps DEF LookupStep
<1>2. ASSUME NEW p \in Procs, CommitStep(p) PROVE IInv'
  <2>1. CASE Unmark(p)
    BY <2>1, MarkerGoes DEF Unmark
  <2>. QED BY <1>2, <2>1, ExecuteKeeps, MarkPayloadKeeps, PutPayloadKeeps, WriteCoreKeeps, EraseUnusedKeeps,
              CommitIndexKeeps, CommitBindingKeeps, RecheckKeeps, UnbindKeeps DEF CommitStep
<1>3. ASSUME NEW p \in Procs, SweepStep(p) PROVE IInv'
  <2>1. CASE DropMarker(p)
    BY <2>1, MarkerGoes DEF DropMarker
  <2>. QED BY <1>3, <2>1, SweepMarkerKeeps, SweepCoreKeeps, SweepEraseKeeps, DropCoreKeeps, SweepSourceKeeps
           DEF SweepStep
<1>4. CASE UNCHANGED vars
  BY <1>4 DEF vars, IInv, StoreInv
<1>. QED BY <1>1, <1>2, <1>3, <1>4, CrashKeeps, RevokeAllKeeps, TickKeeps DEF Next

\* The invariant holds in every state of the key.
THEOREM Invariance == ASSUME Lengths PROVE Spec => []IInv
PROOF
<1>1. Init => IInv
  BY InitInv
<1>2. IInv /\ [Next]_vars => IInv'
  BY NextKeeps
<1>. QED BY <1>1, <1>2, PTL DEF Spec

\* Every variable keeps its type, and a core names bytes exactly while it exists
\* (what decodeCore rejects).
THEOREM TypeCorrect == ASSUME Lengths PROVE Spec => []TypeOK
PROOF
<1>1. IInv => TypeOK
  BY DEF IInv, StoreInv, TypeOK
<1>. QED BY <1>1, Invariance, PTL

\* A lookup that begins while a revocation of its source is remembered is never
\* a hit: lookup() reads the index beside the binding.
THEOREM RevokedMisses == ASSUME Lengths PROVE Spec => []RevokedNeverHits
PROOF
<1>1. IInv => RevokedNeverHits
  BY DEF IInv, StoreInv, RevokedNeverHits
<1>. QED BY <1>1, Invariance, PTL

\* While a binding could serve a hit there is an index on which a revocation can
\* be recorded: ensureSourceIndex() runs before the binding is written.
THEOREM IndexOutlives == ASSUME Lengths PROVE Spec => []IndexOutlivesBindings
PROOF
<1>1. IInv => IndexOutlivesBindings
  <2>. SUFFICES ASSUME IInv, NEW s \in Sources, Exists(binding[s]), ~binding[s].revoked, binding[s].ends > clock
                PROVE  Exists(index[s]) /\ index[s].ends >= binding[s].ends
    BY DEF IndexOutlivesBindings
  <2>1. SourceOK(binding[s], index[s], tomb[s], clock) /\ index[s].rev \in Nat
    BY OneSource DEF SourceRecord
  <2>. QED BY <2>1 DEF SourceOK, Exists
<1>. QED BY <1>1, Invariance, PTL
=============================================================================
