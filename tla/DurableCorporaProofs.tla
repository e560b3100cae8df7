------------------------ MODULE DurableCorporaProofs ------------------------
(***************************************************************************)
(* One corpus under any number of callers, sources, calls and faults.  The *)
(* argument rests on the revision: a call whose view has the record's      *)
(* revision has the record itself (ViewOK), so what it writes differs from *)
(* the record only at its own source, and a read that finds the revision   *)
(* unmoved found the manifest unmoved.                                     *)
(*                                                                         *)
(* The other things derived from documents (DerivedParts) follow, each     *)
(* for any values of its constants: the corpora in memory, the retry       *)
(* guard, the bridge and the cache in memory.  At the end they stand side  *)
(* by side with the durable cache, which has proofs of its own.            *)
(***************************************************************************)
EXTENDS DerivedParts, FiniteSetTheorems, SequenceTheorems, WellFoundedInduction, TLAPS

Manifest == [Sources -> Entry]
PC == {"idle", "put", "commit", "cache", "index", "erase", "collect", "settle", "search", "read", "recheck"}
OnSource == {"enroll", "update", "acl", "remove", "read"}
Op == [pc: PC, call: OnSource \cup {None, "rebuild", "delete", "search"}, s: Sources \cup {None},
       hash: Hashes \cup {None}, old: Hashes \cup {None}, ok: BOOLEAN, dropped: BOOLEAN, at: Nat,
       todo: SUBSET Sources, view: Record \cup {None}, next: Manifest \cup {None}]

\* A call about a source names it, with the content it brings.
NamesSource(q) ==
  /\ q.call \in OnSource => q.s \in Sources
  /\ q.call \in {"enroll", "update"} => q.hash \in Hashes
  /\ q.call = "delete" => q.s = None
  /\ q.pc = "put" => q.call \in {"enroll", "update"}
  /\ q.pc = "commit" => q.call \in {"enroll", "update", "acl", "remove", "delete"}
  /\ q.pc \in {"read", "recheck"} => q.call = "read"
\* The view of a call under way: of a corpus that was not deleted, and the record
\* itself if the revision is still the same.
ViewOK(q, r) ==
  q.pc # "idle" => /\ q.view \in Record /\ q.view.state # "deleted"
                   /\ q.view.rev <= r.rev
                   /\ q.view.rev = r.rev => q.view = r
\* The manifest that a call is about to commit changes its own source only.
NextOK(q) ==
  q.pc \in {"put", "commit"} =>
    /\ q.next \in Manifest
    /\ \A s \in Sources : s # q.s => q.next[s] = q.view.manifest[s]
\* A read under way found its source visible.
ReadOK(q) == q.pc \in {"read", "recheck"} => q.view.manifest[q.s].open

OpOK(q, r) == q \in Op /\ NamesSource(q) /\ ViewOK(q, r) /\ NextOK(q) /\ ReadOK(q)
OpsOK == op = [a \in Actors |-> op[a]] /\ \A a \in Actors : OpOK(op[a], record)

RecordOK == record \in Record /\ (record.state = "deleted" => record.indexDeleted /\ record.bytesDeleted)
CountsOK == now \in 0..MaxNow /\ begun \in 0..MaxCalls /\ faults \in 0..MaxFaults
DerivedOK == index \in [Sources -> Hashes \cup {None}] /\ bytes \subseteq Sources \X Hashes
EntryOK == entry \in Manifest /\ \A s \in Sources : record.manifest[s] = entry[s]

\* The inductive invariant.
IInv == CountsOK /\ RecordOK /\ DerivedOK /\ EntryOK /\ OpsOK /\ late = FALSE

\* Every write of the record takes a new revision.
RecordStep == record' = record \/ record'.rev = record.rev + 1

USE DEF None, Manifest

-----------------------------------------------------------------------------
\* The blanks of the state, and the bounds as numbers.
LEMMA Blanks == NoEntry \in Entry /\ Idle \in Op
<1>1. NoEntry \in Entry BY DEF NoEntry, Entry
<1>2. Idle \in Op BY DEF Idle, Op, PC, OnSource
<1> QED BY <1>1, <1>2
\* An idle actor carries nothing, whatever the record is.
LEMMA IdleOK == ASSUME NEW r PROVE OpOK(Idle, r)
BY Blanks DEF Idle, OpOK, NamesSource, ViewOK, NextOK, ReadOK, OnSource
\* The bounds are numbers.
LEMMA Bounds == MaxCalls \in Nat /\ MaxFaults \in Nat /\ MaxNow \in Nat
BY BoundsAssumption

\* What a call under way may rely on.
LEMMA OpFacts ==
  ASSUME IInv, NEW a \in Actors
  PROVE  op[a] \in Op /\ OpOK(op[a], record)
BY DEF IInv, OpsOK, OpOK

\* A call stays what it is when another call writes the record.
LEMMA OthersStay ==
  ASSUME record \in Record, RecordStep, NEW q, OpOK(q, record)
  PROVE  OpOK(q, record')
<1>1. CASE record' = record BY <1>1
<1>2. CASE record'.rev = record.rev + 1
  <2>1. ViewOK(q, record') BY <1>2 DEF OpOK, ViewOK, Record
  <2> QED BY <2>1 DEF OpOK
<1> QED BY <1>1, <1>2 DEF RecordStep

\* A step that moves one actor and writes the record as RecordStep allows keeps what every actor carries well formed.
LEMMA OpStep ==
  ASSUME IInv, RecordStep, NEW a \in Actors, NEW q, op' = [op EXCEPT ![a] = q], OpOK(q, record')
  PROVE  OpsOK'
<1>1. ASSUME NEW b \in Actors PROVE OpOK(op'[b], record')
  <2>1. CASE b = a BY <2>1 DEF IInv, OpsOK
  <2>2. CASE b # a
    <3>1. op'[b] = op[b] /\ OpOK(op[b], record) BY <2>2 DEF IInv, OpsOK
    <3> QED BY <3>1, OthersStay DEF IInv, RecordOK
  <2> QED BY <2>1, <2>2
<1>2. op' = [b \in Actors |-> op'[b]] BY DEF IInv, OpsOK
<1> QED BY <1>1, <1>2 DEF OpsOK

\* The steps that leave the record alone.
LEMMA Quiet ==
  ASSUME IInv, NEW a \in Actors, NEW q, op' = [op EXCEPT ![a] = q], OpOK(q, record),
         UNCHANGED <<record, entry>>, CountsOK', DerivedOK', late' = FALSE
  PROVE  IInv'
<1>1. RecordStep BY DEF RecordStep
<1>2. RecordOK' /\ EntryOK' BY DEF IInv, RecordOK, EntryOK
<1>3. OpOK(q, record') OBVIOUS
<1>4. OpsOK' BY <1>1, <1>3, OpStep
<1> QED BY <1>2, <1>4 DEF IInv

\* The steps that write it.
LEMMA Writes ==
  ASSUME IInv, NEW a \in Actors, NEW q, op' = [op EXCEPT ![a] = q], OpOK(q, record'),
         record'.rev = record.rev + 1, RecordOK', EntryOK', CountsOK', DerivedOK', late' = FALSE
  PROVE  IInv'
<1>1. RecordStep BY DEF RecordStep
<1>2. OpsOK' BY <1>1, OpStep
<1> QED BY <1>2 DEF IInv

\* A call that only goes on: to where its source and its view still suffice.
LEMMA GoesOn ==
  ASSUME IInv, NEW a \in Actors, op[a].pc # "idle", NEW q \in Op,
         q.pc \in {"cache", "index", "erase", "collect", "settle"},
         q.call = op[a].call, q.s = op[a].s, q.hash = op[a].hash, q.view = op[a].view
  PROVE  OpOK(q, record)
<1>1. OpOK(op[a], record) BY OpFacts
<1>2. NamesSource(q) BY <1>1 DEF OpOK, NamesSource
<1>3. ViewOK(q, record) BY <1>1 DEF OpOK, ViewOK
<1>4. NextOK(q) /\ ReadOK(q) BY DEF NextOK, ReadOK
<1> QED BY <1>2, <1>3, <1>4 DEF OpOK

\* A step that begins no call, counts no fault and moves no clock keeps the counters.
LEMMA SameCounts == ASSUME CountsOK, UNCHANGED <<now, begun, faults>> PROVE CountsOK'
BY DEF CountsOK
\* A step that touches neither index nor bytes keeps their types.
LEMMA SameDerived == ASSUME DerivedOK, UNCHANGED <<index, bytes>> PROVE DerivedOK'
BY DEF DerivedOK

\* A call that stops or dies.
LEMMA StopKeeps ==
  ASSUME IInv, NEW a \in Actors, Stop(a), UNCHANGED <<record, entry>>, CountsOK', DerivedOK', late' = FALSE
  PROVE  IInv'
BY IdleOK, Quiet DEF Stop

-----------------------------------------------------------------------------
\* A call begins with the record as its view.
LEMMA BeginKeeps ==
  ASSUME IInv, NEW a \in Actors, NEW q \in Op, op' = [op EXCEPT ![a] = q], q.view = record, record.state # "deleted",
         NamesSource(q), NextOK(q), ReadOK(q), begun < MaxCalls, begun' = begun + 1,
         UNCHANGED <<now, record, index, bytes, entry, late, faults>>
  PROVE  IInv'
<1>1. CountsOK' BY Bounds DEF IInv, CountsOK
<1>2. DerivedOK' BY DEF IInv, DerivedOK
<1>3. ViewOK(q, record) BY DEF ViewOK, IInv, RecordOK, Record
<1>4. OpOK(q, record) BY <1>3 DEF OpOK
<1> QED BY <1>1, <1>2, <1>4, Quiet DEF IInv

\* The manifest's fields are of their types.
LEMMA ManifestFacts ==
  ASSUME IInv
  PROVE  /\ record \in Record /\ record.manifest \in Manifest
         /\ \A s \in Sources : record.manifest[s] \in Entry /\ record.manifest[s].hash \in Hashes \cup {None}
         /\ now \in Nat
BY Bounds DEF IInv, RecordOK, Record, Entry, CountsOK

\* Start(): the blank call with its source, content and next manifest.
LEMMA StartFacts ==
  ASSUME IInv, NEW a \in Actors, NEW call \in {"enroll", "update", "acl", "remove"},
         NEW pc \in {"put", "commit", "cache"}, NEW s \in Sources, NEW h \in Hashes \cup {None}, NEW next \in Manifest,
         Start(a, call, pc, s, h, next), Accessible, begun < MaxCalls, begun' = begun + 1,
         call \in {"enroll", "update"} => h \in Hashes,
         pc = "put" => call \in {"enroll", "update"},
         \A x \in Sources : x # s => next[x] = record.manifest[x],
         UNCHANGED <<now, record, index, bytes, entry, late, faults>>
  PROVE  IInv'
<1> DEFINE q == [Idle EXCEPT !.pc = pc, !.call = call, !.s = s, !.hash = h, !.at = now,
                   !.old = record.manifest[s].hash, !.view = record, !.next = next]
<1>1. op' = [op EXCEPT ![a] = q] BY DEF Start
<1>2. record.manifest[s].hash \in Hashes \cup {None} /\ record \in Record /\ now \in Nat BY ManifestFacts
<1>3. q \in Op
  <2> HIDE DEF Manifest
  <2>1. {pc} \subseteq PC /\ {call} \subseteq OnSource BY DEF PC, OnSource
  <2> QED BY <1>2, <2>1, Blanks DEF Op
<1>4. q.pc = pc /\ q.call = call /\ q.s = s /\ q.hash = h /\ q.view = record /\ q.next = next BY Blanks DEF Op
<1> HIDE DEF q
<1>5. NamesSource(q) BY <1>4 DEF NamesSource, OnSource
<1>6. NextOK(q) /\ ReadOK(q) BY <1>4 DEF NextOK, ReadOK
<1>7. record.state # "deleted" BY DEF Accessible
<1> QED BY <1>1, <1>3, <1>4, <1>5, <1>6, <1>7, BeginKeeps

\* Every public call starts from the record it read (fence()/inspect() of durable-corpus-runtime.ts) with a well-formed next manifest.
LEMMA BeginStep ==
  ASSUME IInv, NEW a \in Actors, Begin(a)
  PROVE  IInv'
<1> DEFINE m == record.manifest
<1>0. m \in Manifest /\ record \in Record /\ now \in Nat BY ManifestFacts
<1>1. ASSUME NEW s \in Sources, NEW h \in Hashes, NEW ends \in 1..MaxNow + 1, Enroll(a, s, h, ends) PROVE IInv'
  <2> DEFINE e == [hash |-> h, open |-> TRUE, ends |-> SourceExpiry(ends), revoked |-> FALSE]
             next == [m EXCEPT ![s] = e]
  <2>1. e \in Entry BY Bounds DEF Entry, SourceExpiry
  <2> HIDE DEF e
  <2>2. next \in Manifest /\ \A x \in Sources : x # s => next[x] = m[x] BY <1>0, <2>1
  <2>3. Start(a, "enroll", "put", s, h, next) /\ Accessible /\ begun < MaxCalls /\ begun' = begun + 1
        /\ UNCHANGED <<now, record, index, bytes, entry, late, faults>>
    BY <1>1 DEF Enroll, Begins, e
  <2> HIDE DEF next
  <2> QED BY <2>2, <2>3, StartFacts
<1>2. ASSUME NEW s \in Sources, NEW h \in Hashes, Update(a, s, h) PROVE IInv'
  <2>1. Accessible /\ begun < MaxCalls /\ begun' = begun + 1 /\ UNCHANGED <<now, record, index, bytes, entry, late, faults>>
    BY <1>2 DEF Update, Begins
  <2>2. CASE Start(a, "update", "put", s, h, [m EXCEPT ![s].hash = h])
    <3> DEFINE next == [m EXCEPT ![s].hash = h]
    <3>1. next \in Manifest /\ \A x \in Sources : x # s => next[x] = m[x] BY <1>0 DEF Entry
    <3> HIDE DEF next
    <3>2. Start(a, "update", "put", s, h, next) BY <2>2 DEF next
    <3> QED BY <2>1, <3>1, <3>2, StartFacts
  <2>3. CASE Start(a, "acl", "commit", s, h, [m EXCEPT ![s].open = ~@])
    <3> DEFINE o == ~m[s].open
               next == [m EXCEPT ![s].open = o]
    <3>1. o \in BOOLEAN OBVIOUS
    <3>2. Start(a, "acl", "commit", s, h, next) BY <2>3
    <3> HIDE DEF o
    <3>3. next \in Manifest /\ \A x \in Sources : x # s => next[x] = m[x] BY <1>0, <3>1 DEF Entry
    <3> HIDE DEF next
    <3> QED BY <2>1, <3>2, <3>3, StartFacts
  <2> QED BY <1>2, <2>2, <2>3 DEF Update
<1>3. ASSUME NEW s \in Sources, Remove(a, s) PROVE IInv'
  <2> DEFINE next == [m EXCEPT ![s].revoked = TRUE]
             pc == IF m[s].revoked THEN "cache" ELSE "commit"
  <2>1. next \in Manifest /\ \A x \in Sources : x # s => next[x] = m[x] BY <1>0 DEF Entry
  <2>2. Start(a, "remove", pc, s, None, next) /\ Accessible /\ begun < MaxCalls /\ begun' = begun + 1
        /\ UNCHANGED <<now, record, index, bytes, entry, late, faults>>
    BY <1>3 DEF Remove, Begins
  <2>3. pc \in {"cache", "commit"} OBVIOUS
  <2> HIDE DEF next, pc
  <2> QED BY <2>1, <2>2, <2>3, StartFacts
<1>4. ASSUME NEW s \in Sources, Read(a, s) PROVE IInv'
  <2> DEFINE q == [Idle EXCEPT !.pc = "read", !.call = "read", !.s = s, !.at = now, !.view = record]
  <2>2. q \in Op BY ZenonT(60), <1>0, Blanks DEF Op, PC, OnSource
  <2>3. q.pc = "read" /\ q.call = "read" /\ q.s = s /\ q.view = record BY Blanks DEF Op
  <2>4. op' = [op EXCEPT ![a] = q] /\ Accessible /\ begun < MaxCalls /\ begun' = begun + 1 /\ m[s].open
        /\ UNCHANGED <<now, record, index, bytes, entry, late, faults>>
    BY <1>4 DEF Read, Begins, Visible
  <2> HIDE DEF q
  <2>5. NamesSource(q) BY <2>3 DEF NamesSource, OnSource
  <2>6. NextOK(q) /\ ReadOK(q) BY <2>3, <2>4 DEF NextOK, ReadOK
  <2>7. record.state # "deleted" BY <2>4 DEF Accessible
  <2> QED BY <2>2, <2>3, <2>4, <2>5, <2>6, <2>7, BeginKeeps
<1>5. CASE Rebuild(a) \/ Search(a)
  <2>1. PICK pc \in {"collect", "search"}, call \in {"rebuild", "search"}, todo \in SUBSET Sources :
          op' = [op EXCEPT ![a] = [Idle EXCEPT !.pc = pc, !.call = call, !.at = now, !.view = record, !.todo = todo]]
    <3>1. CASE Rebuild(a)
      <4> DEFINE todo == {s \in Sources : Active(m, s, now)}
      <4>1. op' = [op EXCEPT ![a] = [Idle EXCEPT !.pc = "collect", !.call = "rebuild", !.at = now,
                                        !.view = record, !.todo = todo]]
        BY <3>1 DEF Rebuild
      <4>2. todo \in SUBSET Sources OBVIOUS
      <4> HIDE DEF todo
      <4> QED BY <4>1, <4>2
    <3>2. CASE Search(a)
      <4> DEFINE q == [Idle EXCEPT !.pc = "search", !.call = "search", !.at = now, !.view = record]
      <4>1. op' = [op EXCEPT ![a] = q] BY <3>2 DEF Search
      <4>2. q \in Op /\ Idle.todo = {} BY <1>0, Blanks DEF Op, PC, OnSource, Idle
      <4>3. q = [Idle EXCEPT !.pc = "search", !.call = "search", !.at = now, !.view = record, !.todo = {}]
        BY ZenonT(60), <4>2, Blanks DEF Op
      <4> QED BY <4>1, <4>3
    <3> QED BY <1>5, <3>1, <3>2
  <2> DEFINE q == [Idle EXCEPT !.pc = pc, !.call = call, !.at = now, !.view = record, !.todo = todo]
  <2>2. q \in Op BY ZenonT(60), <1>0, Blanks DEF Op, PC, OnSource
  <2>3. q.pc = pc /\ q.call = call /\ q.view = record BY Blanks DEF Op
  <2>4. op' = [op EXCEPT ![a] = q] BY <2>1
  <2>5. Accessible /\ begun < MaxCalls /\ begun' = begun + 1 /\ UNCHANGED <<now, record, index, bytes, entry, late, faults>>
    BY <1>5 DEF Rebuild, Search, Begins
  <2> HIDE DEF q
  <2>6. NamesSource(q) BY <2>3 DEF NamesSource, OnSource
  <2>7. NextOK(q) /\ ReadOK(q) BY <2>3 DEF NextOK, ReadOK
  <2>8. record.state # "deleted" BY <2>5 DEF Accessible
  <2> QED BY <2>2, <2>3, <2>4, <2>5, <2>6, <2>7, <2>8, BeginKeeps
<1>6. CASE Delete(a)
  <2> DEFINE pc == IF record.state = "deleting" THEN "index" ELSE "commit"
             q == [Idle EXCEPT !.call = "delete", !.at = now, !.view = record, !.next = m, !.pc = pc]
  <2>1. op' = [op EXCEPT ![a] = q] /\ record.state # "deleted" /\ begun < MaxCalls /\ begun' = begun + 1
        /\ UNCHANGED <<now, record, index, bytes, entry, late, faults>>
    BY <1>6 DEF Delete, Begins
  <2>2. pc \in {"index", "commit"} OBVIOUS
  <2> HIDE DEF pc
  <2>3. q \in Op BY ZenonT(60), <1>0, <2>2, Blanks DEF Op, PC, OnSource
  <2>4. q.pc = pc /\ q.call = "delete" /\ q.s = None /\ q.view = record /\ q.next = m BY Blanks DEF Op, Idle
  <2> HIDE DEF q
  <2>5. NamesSource(q) BY <2>2, <2>4 DEF NamesSource, OnSource
  <2>6. NextOK(q) /\ ReadOK(q) BY <1>0, <2>2, <2>4 DEF NextOK, ReadOK
  <2> QED BY <2>1, <2>3, <2>4, <2>5, <2>6, BeginKeeps
<1> QED BY <1>1, <1>2, <1>3, <1>4, <1>5, <1>6 DEF Begin

-----------------------------------------------------------------------------
\* Steps of a call that leave the record alone.
LEMMA PutStep == ASSUME IInv, NEW a \in Actors, Put(a) PROVE IInv'
<1> DEFINE q == [op[a] EXCEPT !.pc = "commit"]
<1>1. op[a] \in Op /\ OpOK(op[a], record) BY OpFacts
<1>2. op[a].pc = "put" /\ op[a].call \in {"enroll", "update"} /\ op[a].s \in Sources /\ op[a].hash \in Hashes
  BY <1>1 DEF Put, OpOK, NamesSource, OnSource
<1>3. op' = [op EXCEPT ![a] = q] BY DEF Put, Go
<1>4. q \in Op /\ q.pc = "commit" /\ q.call = op[a].call /\ q.s = op[a].s /\ q.hash = op[a].hash
      /\ q.view = op[a].view /\ q.next = op[a].next
  BY <1>1 DEF Op, PC
<1> HIDE DEF q
<1>5. NamesSource(q) BY <1>2, <1>4 DEF NamesSource, OnSource
<1>6. ViewOK(q, record) BY <1>1, <1>2, <1>4 DEF OpOK, ViewOK
<1>7. NextOK(q) /\ ReadOK(q) BY <1>1, <1>2, <1>4 DEF OpOK, NextOK, ReadOK
<1>8. OpOK(q, record) BY <1>4, <1>5, <1>6, <1>7 DEF OpOK
<1>9. DerivedOK' BY <1>2 DEF Put, IInv, DerivedOK
<1>10. CountsOK' /\ UNCHANGED <<record, entry, late>> BY SameCounts DEF Put, Still, IInv
<1> QED BY <1>3, <1>8, <1>9, <1>10, Quiet DEF IInv

\* rebuildDerivedIndex() reads the bytes of one source after the other.
LEMMA CollectStep == ASSUME IInv, NEW a \in Actors, Collect(a) PROVE IInv'
<1>1. op[a] \in Op /\ op[a].pc = "collect" BY OpFacts DEF Collect
<1>2. CountsOK' /\ DerivedOK' /\ UNCHANGED <<record, entry, late>> BY SameCounts, SameDerived DEF Collect, Still, IInv
<1>3. ASSUME NEW q \in Op, q.pc \in {"index", "collect", "settle"}, q.call = op[a].call, q.s = op[a].s,
             q.hash = op[a].hash, q.view = op[a].view, op' = [op EXCEPT ![a] = q]
      PROVE  IInv'
  <2>1. OpOK(q, record) BY <1>1, <1>3, GoesOn
  <2> QED BY <1>2, <1>3, <2>1, Quiet DEF IInv
<1>4. CASE op[a].todo = {}
  <2> DEFINE q == [op[a] EXCEPT !.pc = "index"]
  <2>1. op' = [op EXCEPT ![a] = q] BY <1>4 DEF Collect, Go
  <2>2. q \in Op /\ q.pc = "index" /\ q.call = op[a].call /\ q.s = op[a].s /\ q.hash = op[a].hash /\ q.view = op[a].view
    BY <1>1 DEF Op, PC
  <2> HIDE DEF q
  <2> QED BY <1>3, <2>1, <2>2
<1>5. CASE op[a].todo # {}
  <2>1. PICK s \in op[a].todo :
          op' = [op EXCEPT ![a] = IF <<s, op[a].view.manifest[s].hash>> \in bytes
                                  THEN [op[a] EXCEPT !.todo = op[a].todo \ {s}]
                                  ELSE [op[a] EXCEPT !.ok = FALSE, !.pc = "settle"]]
    BY <1>5 DEF Collect
  <2> DEFINE more == [op[a] EXCEPT !.todo = op[a].todo \ {s}]
             ends == [op[a] EXCEPT !.ok = FALSE, !.pc = "settle"]
  <2>2. op[a].todo \ {s} \in SUBSET Sources BY <1>1 DEF Op
  <2>3. more \in Op /\ more.pc = "collect" /\ more.call = op[a].call /\ more.s = op[a].s /\ more.hash = op[a].hash
        /\ more.view = op[a].view
    BY <1>1, <2>2 DEF Op
  <2>4. ends \in Op /\ ends.pc = "settle" /\ ends.call = op[a].call /\ ends.s = op[a].s /\ ends.hash = op[a].hash
        /\ ends.view = op[a].view
    BY ZenonT(60), <1>1 DEF Op, PC
  <2>5. op' = [op EXCEPT ![a] = more] \/ op' = [op EXCEPT ![a] = ends] BY <2>1
  <2> HIDE DEF more, ends
  <2> QED BY <1>3, <2>3, <2>4, <2>5
<1> QED BY <1>4, <1>5

\* A port that throws is counted.
LEMMA Counted ==
  ASSUME IInv, NEW fails \in BOOLEAN, Throws(fails), Count(fails), UNCHANGED <<now, begun>>
  PROVE  CountsOK'
BY Bounds DEF IInv, CountsOK, Throws, Count

\* Revoking the cache entries of a source, which may throw, keeps IInv.
LEMMA RevokeCacheStep ==
  ASSUME IInv, NEW a \in Actors, NEW fails \in BOOLEAN, RevokeCache(a, fails) PROVE IInv'
<1> DEFINE pc == IF op[a].call = "acl" \/ (fails /\ op[a].call = "remove") THEN "settle" ELSE "index"
           ok == op[a].ok /\ ~fails
           q == [op[a] EXCEPT !.ok = ok, !.pc = pc]
<1>1. op[a] \in Op /\ op[a].pc = "cache" BY OpFacts DEF RevokeCache
<1>2. op' = [op EXCEPT ![a] = q] BY <1>1 DEF RevokeCache, Op
<1>3. pc \in {"settle", "index"} /\ ok \in BOOLEAN OBVIOUS
<1> HIDE DEF pc, ok
<1>4. q \in Op /\ q.pc = pc /\ q.call = op[a].call /\ q.s = op[a].s /\ q.hash = op[a].hash /\ q.view = op[a].view
  BY ZenonT(60), <1>1, <1>3 DEF Op, PC
<1> HIDE DEF q
<1>5. OpOK(q, record) BY <1>1, <1>3, <1>4, GoesOn
<1>6. CountsOK' /\ DerivedOK' /\ UNCHANGED <<record, entry, late>> BY Counted, SameDerived DEF RevokeCache, IInv
<1> QED BY <1>2, <1>5, <1>6, Quiet DEF IInv

\* The index holds contents whatever the call writes into it.
LEMMA IndexedType ==
  ASSUME IInv, NEW a \in Actors, op[a].pc # "idle"
  PROVE  Indexed(a) \in [Sources -> Hashes \cup {None}]
<1> DEFINE m == op[a].view.manifest
<1>1. op[a] \in Op /\ OpOK(op[a], record) BY OpFacts
<1>2. \A s \in Sources : m[s].hash \in Hashes \cup {None} BY <1>1 DEF OpOK, ViewOK, Record, Entry
<1>3. index \in [Sources -> Hashes \cup {None}] BY DEF IInv, DerivedOK
<1>4. op[a].call \in {"enroll", "update"} => op[a].s \in Sources /\ op[a].hash \in Hashes
  BY <1>1 DEF OpOK, NamesSource, OnSource
<1> QED BY <1>2, <1>3, <1>4 DEF Indexed

\* The index is written from what the actor carries, or the call throws.
LEMMA IndexStep ==
  ASSUME IInv, NEW a \in Actors, NEW fails \in BOOLEAN, Index(a, fails) PROVE IInv'
<1> DEFINE call == op[a].call
           m == op[a].view.manifest
           erases == \/ call = "remove" /\ ~fails
                     \/ call = "update" /\ ~fails /\ op[a].old # op[a].hash
                     \/ call = "delete" /\ ~op[a].view.bytesDeleted
           pc == IF erases THEN "erase" ELSE "settle"
           ok == op[a].ok /\ (call = "delete" \/ ~fails)
           dropped == ~fails
           todo == IF call = "delete" THEN {s \in Sources : Listed(m, s)} ELSE {}
           q == [op[a] EXCEPT !.ok = ok, !.pc = pc, !.dropped = dropped, !.todo = todo]
<1>1. op[a] \in Op /\ op[a].pc = "index" BY OpFacts DEF Index
<1>2. op' = [op EXCEPT ![a] = q] BY <1>1 DEF Index, Op
<1>3. pc \in {"settle", "erase"} /\ ok \in BOOLEAN /\ dropped \in BOOLEAN /\ todo \in SUBSET Sources OBVIOUS
<1> HIDE DEF pc, ok, dropped, todo
<1>4. q \in Op /\ q.pc = pc /\ q.call = op[a].call /\ q.s = op[a].s /\ q.hash = op[a].hash /\ q.view = op[a].view
  <2> HIDE DEF Manifest
  <2>1. pc \in PC BY <1>3 DEF PC
  <2>2. q \in Op BY <1>1, <1>3, <2>1 DEF Op
  <2>3. q.pc = pc /\ q.call = op[a].call /\ q.s = op[a].s BY <1>1 DEF Op
  <2>4. q.hash = op[a].hash /\ q.view = op[a].view BY <1>1 DEF Op
  <2> QED BY <2>2, <2>3, <2>4
<1> HIDE DEF q
<1>5. OpOK(q, record) BY <1>1, <1>3, <1>4, GoesOn
<1>6. CountsOK' /\ UNCHANGED <<record, entry, late>> BY Counted DEF Index, IInv
<1>7. DerivedOK'
  <2>1. index' = index \/ index' = Indexed(a) BY DEF Index
  <2>2. bytes' = bytes BY DEF Index
  <2> QED BY <1>1, <2>1, <2>2, IndexedType DEF IInv, DerivedOK
<1> QED BY <1>2, <1>5, <1>6, <1>7, Quiet DEF IInv

\* The bytes of a replaced, removed or deleted source are erased, or the port throws.
LEMMA EraseStep ==
  ASSUME IInv, NEW a \in Actors, NEW fails \in BOOLEAN, Erase(a, fails) PROVE IInv'
<1>1. op[a] \in Op /\ op[a].pc = "erase" BY OpFacts DEF Erase
<1>2. CountsOK' /\ UNCHANGED <<record, entry, late>> BY Counted DEF Erase, IInv
<1>3. DerivedOK'
  <2>1. bytes' \subseteq bytes /\ index' = index BY DEF Erase
  <2> QED BY <2>1 DEF IInv, DerivedOK
<1>4. ASSUME NEW q \in Op, q.pc \in {"erase", "settle"}, q.call = op[a].call, q.s = op[a].s,
             q.hash = op[a].hash, q.view = op[a].view, op' = [op EXCEPT ![a] = q]
      PROVE  IInv'
  <2>1. OpOK(q, record) BY <1>1, <1>4, GoesOn
  <2> QED BY <1>2, <1>3, <1>4, <2>1, Quiet DEF IInv
<1> DEFINE ok == op[a].ok /\ ~fails
<1>5. ok \in BOOLEAN OBVIOUS
<1>6. CASE op' = [op EXCEPT ![a].ok = @ /\ ~fails, ![a].pc = "settle"]
  <2> DEFINE q == [op[a] EXCEPT !.ok = ok, !.pc = "settle"]
  <2>1. op' = [op EXCEPT ![a] = q] BY <1>1, <1>6 DEF Op
  <2> HIDE DEF ok
  <2>2. q \in Op /\ q.pc = "settle" /\ q.call = op[a].call /\ q.s = op[a].s /\ q.hash = op[a].hash /\ q.view = op[a].view
    BY ZenonT(60), <1>1, <1>5 DEF Op, PC
  <2> HIDE DEF q
  <2> QED BY <1>4, <2>1, <2>2
<1>7. ASSUME NEW s \in op[a].todo, op' = [op EXCEPT ![a].ok = @ /\ ~fails, ![a].todo = @ \ {s}] PROVE IInv'
  <2> DEFINE q == [op[a] EXCEPT !.ok = ok, !.todo = op[a].todo \ {s}]
  <2>1. op' = [op EXCEPT ![a] = q] BY <1>1, <1>7 DEF Op
  <2>2. op[a].todo \ {s} \in SUBSET Sources BY <1>1 DEF Op
  <2> HIDE DEF ok
  <2>3. q \in Op /\ q.pc = "erase" /\ q.call = op[a].call /\ q.s = op[a].s /\ q.hash = op[a].hash /\ q.view = op[a].view
    BY ZenonT(60), <1>1, <1>5, <2>2 DEF Op, PC
  <2> HIDE DEF q
  <2> QED BY <1>4, <2>1, <2>3
<1>8. CASE Go(a, "settle")
  <2> DEFINE q == [op[a] EXCEPT !.pc = "settle"]
  <2>1. op' = [op EXCEPT ![a] = q] BY <1>8 DEF Go
  <2>2. q \in Op /\ q.pc = "settle" /\ q.call = op[a].call /\ q.s = op[a].s /\ q.hash = op[a].hash /\ q.view = op[a].view
    BY <1>1 DEF Op, PC
  <2> HIDE DEF q
  <2> QED BY <1>4, <2>1, <2>2
<1> QED BY <1>6, <1>7, <1>8 DEF Erase

\* Reads and searches: what is handed out is what the manifest lists.
LEMMA ReadingStep ==
  ASSUME IInv, NEW a \in Actors, AnswerSearch(a) \/ ReadBytes(a) \/ Recheck(a) PROVE IInv'
<1>1. op[a] \in Op /\ OpOK(op[a], record) BY OpFacts
<1>2. CASE AnswerSearch(a)
  <2>1. \A s \in Hits(a) : Visible(op[a].view.manifest, s, op[a].at) BY DEF Hits
  <2>2. late' = FALSE BY <1>2, <2>1 DEF AnswerSearch, IInv
  <2>3. CountsOK' /\ DerivedOK' BY <1>2, SameCounts, SameDerived DEF AnswerSearch, IInv
  <2> QED BY <1>2, <2>2, <2>3, StopKeeps DEF AnswerSearch
<1>3. CASE ReadBytes(a)
  <2>1. CountsOK' /\ DerivedOK' /\ UNCHANGED <<record, entry, late>>
    BY <1>3, SameCounts, SameDerived DEF ReadBytes, Still, IInv
  <2>2. CASE Stop(a) BY <2>1, <2>2, StopKeeps DEF IInv
  <2>3. CASE Go(a, "recheck")
    <3> DEFINE q == [op[a] EXCEPT !.pc = "recheck"]
    <3>1. op' = [op EXCEPT ![a] = q] BY <2>3 DEF Go
    <3>2. q \in Op /\ q.pc = "recheck" /\ q.call = op[a].call /\ q.s = op[a].s /\ q.hash = op[a].hash
          /\ q.view = op[a].view /\ op[a].pc = "read"
      BY <1>1, <1>3 DEF Op, PC, ReadBytes
    <3> HIDE DEF q
    <3>3. NamesSource(q) BY <1>1, <3>2 DEF OpOK, NamesSource, OnSource
    <3>4. ViewOK(q, record) BY <1>1, <3>2 DEF OpOK, ViewOK
    <3>5. NextOK(q) /\ ReadOK(q) BY <1>1, <3>2 DEF OpOK, NextOK, ReadOK
    <3>6. OpOK(q, record) BY <3>2, <3>3, <3>4, <3>5 DEF OpOK
    <3> QED BY <2>1, <3>1, <3>6, Quiet DEF IInv
  <2> QED BY <1>3, <2>2, <2>3 DEF ReadBytes
<1>4. CASE Recheck(a)
  <2>1. op[a].pc = "recheck" BY <1>4 DEF Recheck
  <2>2. op[a].view.manifest[op[a].s].open BY <1>1, <2>1 DEF OpOK, ReadOK
  <2>3. Current(a) => op[a].view = record BY <1>1, <2>1 DEF OpOK, ViewOK, Current
  <2>4. Unchanged(a) => Accessible /\ Visible(record.manifest, op[a].s, now)
                        /\ record.manifest[op[a].s].hash = op[a].view.manifest[op[a].s].hash
    BY <2>2, <2>3 DEF Unchanged, Visible
  <2>5. late' = FALSE BY <1>4, <2>4 DEF Recheck, IInv
  <2>6. CountsOK' /\ DerivedOK' BY <1>4, SameCounts, SameDerived DEF Recheck, IInv
  <2> QED BY <1>4, <2>5, <2>6, StopKeeps DEF Recheck
<1> QED BY <1>2, <1>3, <1>4

-----------------------------------------------------------------------------
\* What a write leaves: the value under the next revision.
LEMMA WrittenFacts ==
  ASSUME NEW r \in Record, NEW v \in Record
  PROVE  /\ Written(r, v) \in Record /\ Written(r, v).rev = r.rev + 1
         /\ Written(r, v).state = v.state /\ Written(r, v).manifest = v.manifest
         /\ Written(r, v).indexDeleted = v.indexDeleted /\ Written(r, v).bytesDeleted = v.bytesDeleted
BY DEF Written, Record

\* repository.update(): the manifest changes at the call's own source, as entry does.
LEMMA CommitStep == ASSUME IInv, NEW a \in Actors, Commit(a) PROVE IInv'
<1> DEFINE call == op[a].call
           s == op[a].s
           state == CASE call = "delete" -> "deleting" [] call = "acl" -> record.state [] OTHER -> "syncing"
           new == [record EXCEPT !.manifest = op[a].next, !.state = state]
           revokes == call = "remove" \/ (call # "enroll" /\ op[a].next[s] # op[a].view.manifest[s])
           ok == call \in {"remove", "delete"} \/ op[a].view.state # "degraded"
           pc == CASE call \in {"enroll", "delete"} -> "index"
                   [] revokes -> "cache"
                   [] OTHER -> IF call = "acl" THEN "settle" ELSE "index"
           written == Swapped(new)
           q == [op[a] EXCEPT !.view = written, !.ok = ok, !.pc = pc]
<1>1. op[a] \in Op /\ OpOK(op[a], record) /\ op[a].pc = "commit" BY OpFacts DEF Commit
<1>2. CountsOK' /\ DerivedOK' /\ UNCHANGED late BY SameCounts, SameDerived DEF Commit, IInv
<1>3. CASE ~Current(a)
  <2>1. Stop(a) /\ UNCHANGED <<record, entry>> BY <1>3 DEF Commit
  <2> QED BY <1>2, <2>1, StopKeeps DEF IInv
<1>4. CASE Current(a)
  <2>1. op[a].view = record BY <1>1, <1>4 DEF OpOK, ViewOK, Current
  <2>2. record \in Record /\ record.state # "deleted" BY <1>1, <2>1 DEF OpOK, ViewOK
  <2>3. op[a].next \in Manifest /\ \A x \in Sources : x # s => op[a].next[x] = record.manifest[x]
    BY <1>1, <2>1 DEF OpOK, NextOK
  <2>4. call \in {"enroll", "update", "acl", "remove", "delete"} /\ (call # "delete" => s \in Sources)
        /\ (call = "delete" => s = None)
        /\ (call \in {"enroll", "update"} => op[a].hash \in Hashes)
    BY <1>1 DEF OpOK, NamesSource, OnSource
  <2>5. state \in {"active", "syncing", "degraded", "deleting"} BY <2>2 DEF Record
  <2>6. pc \in {"index", "cache", "settle"} /\ ok \in BOOLEAN OBVIOUS
  <2>7. /\ record' = written
        /\ op' = [op EXCEPT ![a] = q]
        /\ entry' = IF call = "delete" THEN entry ELSE [entry EXCEPT ![s] = op[a].next[s]]
    BY <1>1, <1>4 DEF Commit, Op
  <2> HIDE DEF state, ok, pc
  <2>8. new \in Record /\ new.manifest = op[a].next /\ new.state = state BY <2>2, <2>3, <2>5 DEF Record
  <2> HIDE DEF new
  <2>9. /\ written \in Record /\ written.rev = record.rev + 1
        /\ written.state = state /\ written.manifest = op[a].next
    BY <2>2, <2>8, WrittenFacts DEF Swapped
  <2> HIDE DEF written
  <2>10. RecordOK' BY <2>5, <2>7, <2>9 DEF RecordOK
  <2>11. EntryOK'
    <3>0. entry \in Manifest /\ \A x \in Sources : record.manifest[x] = entry[x] BY DEF IInv, EntryOK
    <3>1. CASE call = "delete"
      <4>1. \A x \in Sources : op[a].next[x] = record.manifest[x] BY <2>3, <2>4, <3>1, NamesAssumption
      <4> QED BY <2>7, <2>9, <3>0, <3>1, <4>1 DEF EntryOK
    <3>2. CASE call # "delete" BY <2>3, <2>4, <2>7, <2>9, <3>0, <3>2 DEF EntryOK
    <3> QED BY <3>1, <3>2
  <2>12. OpOK(q, record')
    <3>1. pc \in PC BY <2>6 DEF PC
    <3>2. q \in Op BY <1>1, <2>6, <2>9, <3>1 DEF Op
    <3>3. q.pc = pc /\ q.call = call /\ q.s = s /\ q.hash = op[a].hash /\ q.view = written BY <1>1 DEF Op
    <3> HIDE DEF q
    <3>4. NamesSource(q) BY <2>4, <2>6, <3>3 DEF NamesSource, OnSource
    <3>5. ViewOK(q, record') BY <2>5, <2>7, <2>9, <3>3 DEF ViewOK, Record
    <3>6. NextOK(q) /\ ReadOK(q) BY <2>6, <3>3 DEF NextOK, ReadOK
    <3> QED BY <3>2, <3>4, <3>5, <3>6 DEF OpOK
  <2>13. record'.rev = record.rev + 1 BY <2>7, <2>9
  <2> QED BY <1>2, <2>7, <2>10, <2>11, <2>12, <2>13, Writes DEF IInv
<1> QED BY <1>3, <1>4

\* The end of a call: setState(), removeSource() or deleteCorpus().
LEMMA SettleStep == ASSUME IInv, NEW a \in Actors, Settle(a) PROVE IInv'
<1> DEFINE gone == op[a].call = "remove" /\ op[a].ok
           value == [Settled(a) EXCEPT !.manifest = IF gone THEN @ ELSE op[a].view.manifest]
<1>1. op[a] \in Op /\ OpOK(op[a], record) /\ op[a].pc = "settle" BY OpFacts DEF Settle
<1>2. CountsOK' /\ DerivedOK' /\ UNCHANGED late /\ Stop(a) BY SameCounts, SameDerived DEF Settle, IInv
<1>3. CASE ~Current(a)
  <2>1. UNCHANGED <<record, entry>> BY <1>3 DEF Settle
  <2> QED BY <1>2, <2>1, StopKeeps DEF IInv
<1>4. CASE Current(a)
  <2>1. op[a].view = record BY <1>1, <1>4 DEF OpOK, ViewOK, Current
  <2>2. record \in Record /\ record.state # "deleted" BY <1>1, <2>1 DEF OpOK, ViewOK
  <2>3. record' = Written(record, value) /\ entry' = IF gone THEN [entry EXCEPT ![op[a].s] = NoEntry] ELSE entry
    BY <1>4 DEF Settle, Swapped
  <2>4. /\ value \in Record
        /\ value.state = "deleted" => value.indexDeleted /\ value.bytesDeleted
        /\ value.manifest = IF gone THEN [record.manifest EXCEPT ![op[a].s] = NoEntry] ELSE record.manifest
    <3>0. op[a].ok \in BOOLEAN /\ op[a].dropped \in BOOLEAN BY <1>1 DEF Op
    <3>1. CASE op[a].call = "delete"
      <4> DEFINE i == op[a].view.indexDeleted \/ op[a].dropped
                 b == op[a].ok \/ op[a].view.bytesDeleted
                 st == IF i /\ b THEN "deleted" ELSE "deleting"
                 v == [record EXCEPT !.indexDeleted = i, !.bytesDeleted = b, !.state = st]
      <4>1. Settled(a) = v BY <3>1 DEF Settled
      <4>2. i \in BOOLEAN /\ b \in BOOLEAN /\ st \in {"deleted", "deleting"} /\ (st = "deleted" => i /\ b) OBVIOUS
      <4> HIDE DEF i, b, st
      <4>3. v \in Record /\ v.manifest = record.manifest /\ v.state = st /\ v.indexDeleted = i /\ v.bytesDeleted = b
        BY <2>2, <4>2 DEF Record
      <4> HIDE DEF v
      <4>4. value = [v EXCEPT !.manifest = record.manifest] BY <2>1, <3>1, <4>1
      <4>5. value \in Record /\ value.manifest = record.manifest /\ value.state = st /\ value.indexDeleted = i
            /\ value.bytesDeleted = b
        BY <2>2, <4>3, <4>4 DEF Record
      <4> QED BY <3>1, <4>2, <4>5
    <3>2. CASE gone
      <4> DEFINE m == [record.manifest EXCEPT ![op[a].s] = NoEntry]
                 v == [record EXCEPT !.state = "active", !.manifest = m]
      <4>1. op[a].s \in Sources BY <1>1, <3>2 DEF OpOK, NamesSource, OnSource
      <4>2. Settled(a) = [record EXCEPT !.state = "active", !.manifest[op[a].s] = NoEntry] BY <3>2 DEF Settled
      <4>3. m \in Manifest BY <2>2, Blanks DEF Record
      <4>4. Settled(a) = v BY <2>2, <4>2 DEF Record
      <4> HIDE DEF m
      <4>5. v \in Record /\ v.manifest = m /\ v.state = "active" BY <2>2, <4>3 DEF Record
      <4> HIDE DEF v
      <4>6. value = [v EXCEPT !.manifest = v.manifest] BY <3>2, <4>4
      <4>7. value \in Record /\ value.manifest = m /\ value.state = "active" BY <4>3, <4>5, <4>6 DEF Record
      <4> QED BY <3>2, <4>7 DEF m
    <3>3. CASE op[a].call # "delete" /\ ~gone
      <4> DEFINE st == IF op[a].ok THEN "active" ELSE "degraded"
                 v == [record EXCEPT !.state = st]
      <4>1. Settled(a) = v BY <3>3 DEF Settled
      <4>2. st \in {"active", "degraded"} OBVIOUS
      <4> HIDE DEF st
      <4>3. v \in Record /\ v.manifest = record.manifest /\ v.state = st BY <2>2, <4>2 DEF Record
      <4> HIDE DEF v
      <4>4. value = [v EXCEPT !.manifest = record.manifest] BY <2>1, <3>3, <4>1
      <4>5. value \in Record /\ value.manifest = record.manifest /\ value.state = st BY <2>2, <4>3, <4>4 DEF Record
      <4> QED BY <3>3, <4>2, <4>5
    <3> QED BY <3>1, <3>2, <3>3
  <2> HIDE DEF value
  <2>5. /\ record' \in Record /\ record'.rev = record.rev + 1
        /\ record'.state = value.state /\ record'.manifest = value.manifest
        /\ record'.indexDeleted = value.indexDeleted /\ record'.bytesDeleted = value.bytesDeleted
    BY <2>2, <2>3, <2>4, WrittenFacts
  <2>6. RecordOK' BY <2>4, <2>5 DEF RecordOK
  <2>7. EntryOK'
    <3>1. entry \in Manifest /\ \A x \in Sources : record.manifest[x] = entry[x] BY DEF IInv, EntryOK
    <3>2. record.manifest \in Manifest BY <2>2 DEF Record
    <3>3. gone => op[a].s \in Sources BY <1>1 DEF OpOK, NamesSource, OnSource
    <3> HIDE DEF gone
    <3> QED BY <2>3, <2>4, <2>5, <3>1, <3>2, <3>3, Blanks DEF EntryOK
  <2>8. OpOK(Idle, record') BY IdleOK
  <2> QED BY <1>2, <2>5, <2>6, <2>7, <2>8, Writes DEF Stop, IInv
<1> QED BY <1>3, <1>4

-----------------------------------------------------------------------------
\* No call has begun.
LEMMA InitInvariant == Init => IInv
<1> SUFFICES ASSUME Init PROVE IInv OBVIOUS
<1> DEFINE m == [s \in Sources |-> NoEntry]
<1>1. CountsOK /\ late = FALSE BY Bounds DEF Init, CountsOK
<1>2. m \in Manifest BY Blanks
<1>3. record \in Record /\ record.state # "deleted" /\ record.manifest = m
  <2>1. record \in [rev: {1}, state: {"active", "degraded"}, manifest: {m}, indexDeleted: {FALSE}, bytesDeleted: {FALSE}]
    BY DEF Init
  <2> HIDE DEF m
  <2>2. PICK st \in {"active", "degraded"} :
          record = [rev |-> 1, state |-> st, manifest |-> m, indexDeleted |-> FALSE, bytesDeleted |-> FALSE]
    BY <2>1
  <2> HIDE DEF Manifest
  <2>3. record \in [rev: Nat, state: {"active", "syncing", "degraded", "deleting", "deleted"},
                    manifest: Manifest, indexDeleted: BOOLEAN, bytesDeleted: BOOLEAN]
    BY <1>2, <2>2
  <2>4. record.state # "deleted" /\ record.manifest = m BY <2>2
  <2> QED BY <2>3, <2>4 DEF Record, Manifest
<1>4. RecordOK BY <1>3 DEF RecordOK
<1>5. EntryOK BY <1>2, <1>3 DEF Init, EntryOK
<1>6. DerivedOK BY DEF Init, DerivedOK
<1>7. OpsOK BY IdleOK DEF Init, OpsOK
<1> QED BY <1>1, <1>4, <1>5, <1>6, <1>7 DEF IInv

\* A crash forgets an actor's locals only.
LEMMA CrashStep == ASSUME IInv, NEW a \in Actors, Crash(a) PROVE IInv'
<1>1. CountsOK' BY Bounds DEF Crash, IInv, CountsOK
<1>2. DerivedOK' BY SameDerived DEF Crash, IInv
<1> QED BY <1>1, <1>2, StopKeeps DEF Crash, IInv

\* The inductive step: every action of Next keeps IInv.
LEMMA EveryStep == ASSUME IInv, [Next]_vars PROVE IInv'
<1>1. ASSUME NEW a \in Actors, Step(a) PROVE IInv'
  BY <1>1, PutStep, CommitStep, CollectStep, SettleStep, ReadingStep, RevokeCacheStep, IndexStep, EraseStep DEF Step
<1>2. CASE Tick \/ UNCHANGED vars
  <2>1. UNCHANGED <<record, index, bytes, op, entry, late, begun, faults>> /\ now' \in 0..MaxNow
    BY <1>2, Bounds DEF Tick, vars, IInv, CountsOK
  <2>2. CountsOK' /\ DerivedOK' BY <2>1 DEF IInv, CountsOK, DerivedOK
  <2>3. RecordOK' /\ EntryOK' /\ OpsOK' BY <2>1 DEF IInv, RecordOK, EntryOK, OpsOK
  <2> QED BY <2>1, <2>2, <2>3 DEF IInv
<1> QED BY <1>1, <1>2, BeginStep, CrashStep DEF Next

\* IInv holds in every reachable state of the corpus runtime: the record's revision fences every write (store.compareAndSet).
THEOREM Invariance == Spec => []IInv
<1>1. Init => IInv BY InitInvariant
<1>2. IInv /\ [Next]_vars => IInv' BY EveryStep
<1> QED BY <1>1, <1>2, PTL DEF Spec

\* The record is a valid one (validateRecord() of core/durable-corpora.ts), and
\* index, bytes and calls keep their shape.
THEOREM TypeCorrect == Spec => []TypeOK
<1>1. IInv => TypeOK
  <2> SUFFICES ASSUME IInv PROVE TypeOK OBVIOUS
  <2>1. \A a \in Actors : op[a].pc \in PC BY OpFacts DEF Op
  <2> QED BY <2>1 DEF IInv, TypeOK, CountsOK, RecordOK, DerivedOK, EntryOK, PC
<1> QED BY <1>1, Invariance, PTL

\* Whatever calls overlap, fail or die, the compare-and-swap of repository.update()
\* leaves each source with the entry its last committed call gave it.
THEOREM UpdatesKept == Spec => []NoLostUpdate
<1>1. IInv => NoLostUpdate BY DEF IInv, EntryOK, NoLostUpdate
<1> QED BY <1>1, Invariance, PTL

\* searchCorpus() and readSource() hand out nothing that the manifest had revoked,
\* replaced, hidden or let expire, however far the index and the bytes lag behind.
THEOREM ServedInTime == Spec => []NothingServedLate
<1>1. IInv => NothingServedLate BY DEF IInv, NothingServedLate
<1> QED BY <1>1, Invariance, PTL

\* Once deleteCorpus() has completed, no call that was under way writes the record.
THEOREM DeletedForGood == Spec => [][DeletedStep]_vars
<1>1. IInv /\ [Next]_vars => [DeletedStep]_vars
  <2> SUFFICES ASSUME IInv, Next, record.state = "deleted" PROVE record' = record BY DEF DeletedStep, vars
  <2>1. ASSUME NEW a \in Actors, op[a].pc \in {"commit", "settle"} PROVE ~Current(a)
    <3>1. OpOK(op[a], record) BY OpFacts
    <3> QED BY <2>1, <3>1 DEF OpOK, ViewOK, Current
  <2>2. ASSUME NEW a \in Actors, Step(a) PROVE record' = record
    BY <2>1, <2>2 DEF Step, Put, Commit, Collect, Settle, AnswerSearch, ReadBytes, Recheck, RevokeCache, Index, Erase
  <2>3. ASSUME NEW a \in Actors, Begin(a) \/ Crash(a) PROVE record' = record
    BY <2>3 DEF Begin, Update, Enroll, Remove, Read, Rebuild, Delete, Search, Crash
  <2>4. CASE Tick BY <2>4 DEF Tick
  <2> QED BY <2>2, <2>3, <2>4 DEF Next
<1> QED BY <1>1, Invariance, PTL DEF Spec

-----------------------------------------------------------------------------
\* The corpus store in memory, for any sources, callers and bindings (CorpusStore).
\* Cardinality is the same function in the instance.
LEMMA StoreCardinality == \A S : Store!Cardinality(S) = Cardinality(S)
BY Zenon DEF Store!Cardinality, Cardinality

\* A corpus whose deletion began has no enrolled source, and one whose deletion is
\* reported complete is deleted and has no document in the backend.
CorpusInv ==
  /\ clock \in Nat /\ healthy \in BOOLEAN
  /\ corpus \in {"none", "active", "degraded", "deleting", "deleted"}
  /\ enrollments \in [Sources -> Store!Enrollment]
  /\ deletion \in [derivedIndexDeleted: BOOLEAN, artifactDeleted: BOOLEAN, isComplete: BOOLEAN]
  /\ corpus \in {"deleting", "deleted"} => \A s \in Sources : ~Store!Enrolled(s)
  /\ deletion.isComplete => corpus = "deleted" /\ docs = <<>>

\* A step on a corpus that is not deleted, by which no expiry grows.
LEMMA StoreStep ==
  ASSUME StoreNumbers, CorpusInv, corpus' \in {"none", "active", "degraded"}, ~deletion.isComplete,
         enrollments' \in [Sources -> Store!Enrollment], \A s \in Sources : enrollments'[s].ends <= enrollments[s].ends,
         clock' = clock, healthy' = healthy, deletion' = deletion
  PROVE  CorpusInv' /\ Store!ExpiryStep
BY DEF CorpusInv, Store!ExpiryStep

\* An expiry is a time.
LEMMA EndsAreTimes ==
  ASSUME StoreNumbers, CorpusInv, NEW s \in Sources
  PROVE  enrollments[s] \in Store!Enrollment /\ enrollments[s].ends \in 0..Store!Never /\ enrollments[s].ends <= enrollments[s].ends
PROOF
<1>1. enrollments[s] \in Store!Enrollment
  BY DEF CorpusInv
<1>2. enrollments[s].ends \in 0..Store!Never
  BY <1>1 DEF Store!Enrollment
<1>. QED BY <1>1, <1>2

\* enrollSource(): the expiry is the earlier of the old and the new one.
LEMMA EnrollKeeps ==
  ASSUME StoreNumbers, CorpusInv, NEW c, NEW s \in Sources,
         \E h \in Hashes, acl \in {{}, {"reader"}, {"writer"}},
            asked \in {1, 2, Store!Never}, bindings \in {{b} : b \in Bindings} :
           Store!EnrollSource(c, s, h, acl, asked, bindings)
  PROVE  CorpusInv' /\ Store!ExpiryStep
PROOF
<1>0. PICK h \in Hashes, acl \in {{}, {"reader"}, {"writer"}},
           asked \in {1, 2, Store!Never}, bindings \in {{b} : b \in Bindings} :
             Store!EnrollSource(c, s, h, acl, asked, bindings)
  OBVIOUS
<1>. DEFINE ends == Store!EarliestExpiry(s, Store!ResolveExpiry(asked, Store!Never))
            e == [lifecycle |-> "enrolled", hash |-> h, ends |-> ends, acl |-> acl, bindings |-> bindings]
<1>1. /\ enrollments' = [enrollments EXCEPT ![s] = e] /\ corpus' = Store!MappedState
      /\ clock' = clock /\ healthy' = healthy /\ deletion' = deletion
      /\ corpus \notin {"none", "deleted", "deleting"}
  BY <1>0 DEF Store!EnrollSource, Store!Writable
<1>2. enrollments[s].ends \in 0..Store!Never /\ Store!Never \in Nat /\ Store!Never >= 2
  BY EndsAreTimes DEF StoreNumbers, Store!Never
<1>3. ends \in 0..Store!Never /\ ends <= enrollments[s].ends
  BY <1>2 DEF Store!EarliestExpiry, Store!ResolveExpiry
<1>. HIDE DEF ends
<1>4. e \in Store!Enrollment /\ e.ends = ends
  BY <1>3 DEF Store!Enrollment
<1>. HIDE DEF e
<1>5. /\ enrollments' \in [Sources -> Store!Enrollment] /\ enrollments'[s] = e
      /\ \A x \in Sources \ {s} : enrollments'[x] = enrollments[x]
  BY <1>1, <1>4 DEF CorpusInv
<1>6. \A x \in Sources : enrollments'[x].ends <= enrollments[x].ends
  BY <1>3, <1>4, <1>5, EndsAreTimes
<1>7. corpus' \in {"none", "active", "degraded"}
  BY <1>1 DEF Store!MappedState
<1>8. ~deletion.isComplete
  BY <1>1 DEF CorpusInv
<1>. QED BY <1>1, <1>5, <1>6, <1>7, <1>8, StoreStep

\* updateSource() and removeSource(): the entry keeps its expiry.
LEMMA EntryKeeps ==
  ASSUME StoreNumbers, CorpusInv, NEW c, NEW s \in Sources,
         \/ \E h \in Hashes : Store!UpdateSource(c, s, h)
         \/ \E fails \in BOOLEAN : Store!RemoveSource(c, s, fails)
  PROVE  CorpusInv' /\ Store!ExpiryStep
PROOF
<1>1. corpus' = corpus /\ clock' = clock /\ healthy' = healthy /\ deletion' = deletion /\ corpus \notin {"none", "deleted", "deleting"}
  BY DEF Store!UpdateSource, Store!RemoveSource, Store!Writable
<1>2. corpus' \in {"none", "active", "degraded"} /\ ~deletion.isComplete
  BY <1>1 DEF CorpusInv
<1>3. enrollments \in [Sources -> Store!Enrollment] /\ enrollments[s] \in Store!Enrollment
  BY DEF CorpusInv
<1>4. PICK e \in Store!Enrollment : enrollments' = [enrollments EXCEPT ![s] = e] /\ e.ends = enrollments[s].ends
  <2>1. CASE \E h \in Hashes : Store!UpdateSource(c, s, h)
    <3>1. PICK h \in Hashes : Store!UpdateSource(c, s, h)
      BY <2>1
    <3>. DEFINE e == [enrollments[s] EXCEPT !.hash = h]
    <3>2. enrollments' = [enrollments EXCEPT ![s] = e]
      BY <3>1 DEF Store!UpdateSource
    <3>3. e \in Store!Enrollment /\ e.ends = enrollments[s].ends
      BY <1>3 DEF Store!Enrollment
    <3>. HIDE DEF e
    <3>. QED BY <3>2, <3>3
  <2>2. CASE \E fails \in BOOLEAN : Store!RemoveSource(c, s, fails)
    <3>1. PICK fails \in BOOLEAN : Store!RemoveSource(c, s, fails)
      BY <2>2
    <3>2. CASE fails
      <4>1. enrollments' = [enrollments EXCEPT ![s] = enrollments[s]]
        BY <1>3, <3>1, <3>2 DEF Store!RemoveSource
      <4>. QED BY <1>3, <4>1
    <3>3. CASE ~fails
      <4>. DEFINE e == [enrollments[s] EXCEPT !.lifecycle = "removed", !.bindings = {}]
      <4>1. enrollments' = [enrollments EXCEPT ![s] = e]
        BY <1>3, <3>1, <3>3 DEF Store!RemoveSource
      <4>2. e \in Store!Enrollment /\ e.ends = enrollments[s].ends
        BY <1>3 DEF Store!Enrollment
      <4>. HIDE DEF e
      <4>. QED BY <4>1, <4>2
    <3>. QED BY <3>2, <3>3
  <2>. QED BY <2>1, <2>2
<1>5. /\ enrollments' \in [Sources -> Store!Enrollment] /\ enrollments'[s] = e
      /\ \A x \in Sources \ {s} : enrollments'[x] = enrollments[x]
  BY <1>3, <1>4
<1>6. \A x \in Sources : enrollments'[x].ends <= enrollments[x].ends
  BY <1>4, <1>5, EndsAreTimes
<1>. QED BY <1>1, <1>2, <1>5, <1>6, StoreStep

\* createCorpus() and rebuildDerivedIndex(): the manifest is as it was.
LEMMA ManifestKeeps ==
  ASSUME StoreNumbers, CorpusInv, (\E ends \in 1..Store!Never : Store!CreateCorpus(ends)) \/ \E c \in Callers : Store!Rebuild(c)
  PROVE  CorpusInv' /\ Store!ExpiryStep
PROOF
<1>1. /\ enrollments' = enrollments /\ clock' = clock /\ healthy' = healthy /\ deletion' = deletion
      /\ corpus' \in {"none", "active", "degraded"} /\ corpus \notin {"deleting", "deleted"}
  BY DEF Store!CreateCorpus, Store!Rebuild, Store!Writable, CorpusInv
<1>2. ~deletion.isComplete /\ enrollments \in [Sources -> Store!Enrollment]
  BY <1>1 DEF CorpusInv
<1>3. \A s \in Sources : enrollments'[s].ends <= enrollments[s].ends
  BY <1>1, EndsAreTimes
<1>. QED BY <1>1, <1>2, <1>3, StoreStep

\* deleteCorpus(): every enrollment is revoked before the index goes.
LEMMA DeleteKeeps ==
  ASSUME StoreNumbers, CorpusInv, NEW c, NEW fails \in BOOLEAN, Store!DeleteCorpus(c, fails)
  PROVE  CorpusInv' /\ Store!ExpiryStep
PROOF
<1>. DEFINE d == [derivedIndexDeleted |-> ~fails, artifactDeleted |-> ~fails, isComplete |-> ~fails]
            Dropped(s) == [enrollments[s] EXCEPT !.lifecycle = "deleted", !.bindings = {}]
<1>1. /\ docs' = (IF fails THEN docs ELSE <<>>) /\ deletion' = d /\ clock' = clock /\ healthy' = healthy
      /\ corpus' = (IF fails THEN "deleting" ELSE "deleted")
      /\ IF corpus = "deleting" THEN enrollments' = enrollments
         ELSE enrollments' = [s \in Sources |-> IF Store!Enrolled(s) THEN Dropped(s) ELSE enrollments[s]]
  BY DEF Store!DeleteCorpus
<1>2. d \in [derivedIndexDeleted: BOOLEAN, artifactDeleted: BOOLEAN, isComplete: BOOLEAN] /\ (d.isComplete <=> ~fails)
  OBVIOUS
<1>. HIDE DEF d
<1>3. ASSUME NEW s \in Sources
      PROVE  /\ Dropped(s) \in Store!Enrollment /\ Dropped(s).ends = enrollments[s].ends
             /\ Dropped(s).lifecycle = "deleted"
  BY EndsAreTimes DEF Store!Enrollment
<1>. HIDE DEF Dropped
<1>4. CASE corpus = "deleting"
  <2>1. enrollments' = enrollments /\ \A s \in Sources : ~Store!Enrolled(s)
    BY <1>1, <1>4 DEF CorpusInv
  <2>2. CorpusInv'
    BY <1>1, <1>2, <2>1 DEF CorpusInv, Store!Enrolled
  <2>3. Store!ExpiryStep
    BY <2>1, EndsAreTimes DEF Store!ExpiryStep
  <2>. QED BY <2>2, <2>3
<1>5. CASE corpus # "deleting"
  <2>1. enrollments' = [s \in Sources |-> IF Store!Enrolled(s) THEN Dropped(s) ELSE enrollments[s]]
    BY <1>1, <1>5
  <2>2. enrollments' \in [Sources -> Store!Enrollment]
    BY <1>3, <2>1, EndsAreTimes
  <2>3. \A s \in Sources : enrollments'[s].lifecycle # "enrolled" /\ enrollments'[s].ends = enrollments[s].ends
    BY <1>3, <2>1 DEF Store!Enrolled
  <2>4. CorpusInv'
    BY <1>1, <1>2, <2>2, <2>3 DEF CorpusInv, Store!Enrolled
  <2>5. Store!ExpiryStep
    BY <2>3, EndsAreTimes DEF Store!ExpiryStep
  <2>. QED BY <2>4, <2>5
<1>. QED BY <1>4, <1>5

\* The backend's health and the clock.
LEMMA AroundKeeps ==
  ASSUME StoreNumbers, CorpusInv, clock' \in Nat, healthy' \in BOOLEAN, UNCHANGED <<corpus, enrollments, docs, deletion>>
  PROVE  CorpusInv' /\ Store!ExpiryStep
PROOF
<1>1. CorpusInv'
  BY DEF CorpusInv, Store!Enrolled
<1>. QED BY <1>1, EndsAreTimes DEF Store!ExpiryStep

\* Nothing was enrolled at first.
LEMMA CorpusInit == StoreNumbers /\ Store!Init => CorpusInv
PROOF
<1>. SUFFICES ASSUME StoreNumbers, Store!Init PROVE CorpusInv
  OBVIOUS
<1>1. Store!Never \in Nat
  BY DEF Store!Never, StoreNumbers
<1>2. Store!Absent \in Store!Enrollment
  BY <1>1 DEF Store!Absent, Store!Enrollment
<1>. QED BY <1>2 DEF Store!Init, CorpusInv

\* Every step keeps the store's invariant, and no expiry grows.
LEMMA CorpusNext == ASSUME StoreNumbers, CorpusInv, [Store!Next]_(Store!vars) PROVE CorpusInv' /\ Store!ExpiryStep
PROOF
<1>1. CASE UNCHANGED Store!vars
  BY <1>1, AroundKeeps DEF Store!vars, CorpusInv
<1>2. CASE Store!SetHealthy
  BY <1>2, AroundKeeps DEF Store!SetHealthy, CorpusInv
<1>3. CASE Store!Tick
  BY <1>3, AroundKeeps DEF Store!Tick, CorpusInv
<1>. QED BY <1>1, <1>2, <1>3, EnrollKeeps, EntryKeeps, ManifestKeeps, DeleteKeeps DEF Store!Next

\* What the corpus store keeps, in every state.
THEOREM CorpusInvariance == ASSUME StoreNumbers PROVE Store!Spec => []CorpusInv
PROOF
<1>1. Store!Init => CorpusInv
  BY CorpusInit
<1>2. CorpusInv /\ [Store!Next]_(Store!vars) => CorpusInv'
  BY CorpusNext
<1>. QED BY <1>1, <1>2, PTL DEF Store!Spec

\* A deletion that is reported complete left no document in the backend and no source
\* enrolled, and is shown as deleted (deleteCorpus, corpusStatus).
THEOREM DeletedLeavesNothing == ASSUME StoreNumbers PROVE Store!Spec => []Store!CompleteIsComplete
PROOF
<1>1. CorpusInv => Store!CompleteIsComplete
  BY DEF CorpusInv, Store!CompleteIsComplete, Store!CorpusStatus
<1>. QED BY <1>1, CorpusInvariance, PTL

\* No enrollment, update, removal or deletion moves the expiry of a source to a later
\* time (validateReEnroll, CorpusStore.earliestExpiry).
THEOREM ExpiriesShrink == ASSUME StoreNumbers PROVE Store!Spec => [][Store!ExpiryStep]_(Store!vars)
PROOF
<1>1. CorpusInv /\ [Store!Next]_(Store!vars) => [Store!ExpiryStep]_(Store!vars)
  BY CorpusNext
<1>. QED BY <1>1, CorpusInvariance, PTL DEF Store!Spec

\* An entry of the index: the source and the hash it was indexed with.
Document == [source: Sources, hash: Hashes]

\* The backend's documents and the manifest agree on every enrolled source.
IndexSound(d, e) ==
  /\ d \in Seq(Document)
  /\ \A i \in 1..Len(d) : e[d[i].source].lifecycle = "enrolled" => e[d[i].source].hash = d[i].hash
  /\ \A s \in Sources : e[s].lifecycle = "enrolled" => e[s].hash \in Hashes /\ \E i \in 1..Len(d) : d[i].source = s

\* The documents are of sources.
LEMMA DocumentsAreTyped ==
  ASSUME NEW d, NEW e, IndexSound(d, e)
  PROVE  /\ d \in Seq(Document) /\ Len(d) \in Nat
         /\ \A i \in 1..Len(d) : d[i] \in Document /\ d[i].source \in Sources
PROOF
<1>1. d \in Seq(Document)
  BY DEF IndexSound
<1>2. \A x \in Document : x.source \in Sources
  BY DEF Document
<1>3. Len(d) \in Nat /\ \A i \in 1..Len(d) : d[i] \in Document
  BY <1>1
<1>. QED BY <1>1, <1>2, <1>3

\* InMemoryCorpusBackend.enrollDocument() beside the entry that is enrolled or updated.
LEMMA EnrollDocumentSound ==
  ASSUME IndexSound(docs, enrollments), NEW s \in Sources, NEW h \in Hashes, NEW e, e[s].hash = h,
         \A x \in Sources \ {s} : e[x] = enrollments[x]
  PROVE  IndexSound(Store!EnrollDocument(s, h), e)
PROOF
<1>. DEFINE new == [source |-> s, hash |-> h]
            d == Store!EnrollDocument(s, h)
<1>1. new \in Document /\ new.source = s /\ new.hash = h
  BY DEF Document
<1>2. docs \in Seq(Document) /\ Len(docs) \in Nat /\ \A i \in 1..Len(docs) : docs[i] \in Document /\ docs[i].source \in Sources
  BY DocumentsAreTyped
<1>. HIDE DEF new
<1>3. CASE Store!IndexOf(s) = {}
  <2>1. d = Append(docs, new)
    BY <1>3 DEF Store!EnrollDocument, new
  <2>. HIDE DEF d
  <2>2. d \in Seq(Document) /\ Len(d) = Len(docs) + 1 /\ d[Len(d)] = new /\ \A i \in 1..Len(docs) : d[i] = docs[i]
    BY <1>1, <1>2, <2>1
  <2>3. \A i \in 1..Len(docs) : docs[i].source # s
    BY <1>3 DEF Store!IndexOf
  <2>4. \A i \in 1..Len(d) : i = Len(d) \/ i \in 1..Len(docs)
    BY <1>2, <2>2
  <2>5. \A i \in 1..Len(d) : e[d[i].source].lifecycle = "enrolled" => e[d[i].source].hash = d[i].hash
    BY <1>1, <1>2, <2>2, <2>3, <2>4 DEF IndexSound
  <2>6. ASSUME NEW x \in Sources, e[x].lifecycle = "enrolled"
        PROVE  e[x].hash \in Hashes /\ \E i \in 1..Len(d) : d[i].source = x
    <3>1. CASE x = s
      BY <1>1, <1>2, <2>2, <3>1
    <3>2. CASE x # s
      <4>1. PICK i \in 1..Len(docs) : docs[i].source = x
        BY <2>6, <3>2 DEF IndexSound
      <4>2. i \in 1..Len(d) /\ d[i].source = x
        BY <1>2, <2>2, <4>1
      <4>. QED BY <2>6, <3>2, <4>2 DEF IndexSound
    <3>. QED BY <3>1, <3>2
  <2>7. IndexSound(d, e)
    BY <2>2, <2>5, <2>6 DEF IndexSound
  <2>. QED BY <2>7 DEF d
<1>4. CASE Store!IndexOf(s) # {}
  <2>1. d = [i \in 1..Len(docs) |-> IF i \in Store!IndexOf(s) THEN new ELSE docs[i]]
    BY <1>4 DEF Store!EnrollDocument, new
  <2>. HIDE DEF d
  <2>2. d \in Seq(Document) /\ Len(d) = Len(docs)
    BY <1>1, <1>2, <2>1
  <2>3. \A i \in 1..Len(docs) : IF docs[i].source = s THEN d[i] = new ELSE d[i] = docs[i]
    BY <2>1 DEF Store!IndexOf
  <2>4. \A i \in 1..Len(d) : e[d[i].source].lifecycle = "enrolled" => e[d[i].source].hash = d[i].hash
    BY <1>1, <1>2, <2>2, <2>3 DEF IndexSound
  <2>5. ASSUME NEW x \in Sources, e[x].lifecycle = "enrolled"
        PROVE  e[x].hash \in Hashes /\ \E i \in 1..Len(d) : d[i].source = x
    <3>1. CASE x = s
      <4>1. PICK i \in 1..Len(docs) : docs[i].source = s
        BY <1>4 DEF Store!IndexOf
      <4>. QED BY <1>1, <2>2, <2>3, <3>1, <4>1
    <3>2. CASE x # s
      <4>1. PICK i \in 1..Len(docs) : docs[i].source = x
        BY <2>5, <3>2 DEF IndexSound
      <4>2. i \in 1..Len(d) /\ d[i].source = x
        BY <2>2, <2>3, <3>2, <4>1
      <4>. QED BY <2>5, <3>2, <4>2 DEF IndexSound
    <3>. QED BY <3>1, <3>2
  <2>6. IndexSound(d, e)
    BY <2>2, <2>4, <2>5 DEF IndexSound
  <2>. QED BY <2>6 DEF d
<1>. QED BY <1>3, <1>4

\* A sequence without its element k.
LEMMA Without ==
  ASSUME NEW S, NEW s \in Seq(S), NEW k \in 1..Len(s)
  PROVE  /\ Store!RemoveAt(s, k) \in Seq(S) /\ Len(Store!RemoveAt(s, k)) = Len(s) - 1
         /\ \A i \in 1..(Len(s) - 1) : Store!RemoveAt(s, k)[i] = IF i < k THEN s[i] ELSE s[i + 1]
PROOF
<1>. DEFINE a == SubSeq(s, 1, k - 1)
            b == SubSeq(s, k + 1, Len(s))
<1>1. Len(s) \in Nat /\ \A i \in 1..Len(s) : s[i] \in S
  OBVIOUS
<1>2. a \in Seq(S) /\ Len(a) = k - 1 /\ \A i \in 1..(k - 1) : a[i] = s[i]
  BY <1>1, SubSeqProperties
<1>3. b \in Seq(S) /\ Len(b) = Len(s) - k /\ \A i \in 1..(Len(s) - k) : b[i] = s[k + i]
  BY <1>1, SubSeqProperties
<1>. HIDE DEF a, b
<1>4. /\ a \o b \in Seq(S) /\ Len(a \o b) = Len(s) - 1
      /\ \A i \in 1..(Len(s) - 1) : (a \o b)[i] = IF i <= k - 1 THEN a[i] ELSE b[i - (k - 1)]
  BY <1>1, <1>2, <1>3, ConcatProperties
<1>5. \A i \in 1..(Len(s) - 1) : (a \o b)[i] = IF i < k THEN s[i] ELSE s[i + 1]
  <2>. TAKE i \in 1..(Len(s) - 1)
  <2>1. CASE i < k
    BY <1>1, <1>2, <1>4, <2>1
  <2>2. CASE ~(i < k)
    <3>1. i - (k - 1) \in 1..(Len(s) - k) /\ k + (i - (k - 1)) = i + 1
      BY <1>1, <2>2
    <3>. QED BY <1>1, <1>3, <1>4, <2>2, <3>1
  <2>. QED BY <2>1, <2>2
<1>. QED BY <1>4, <1>5 DEF Store!RemoveAt, a, b

\* InMemoryCorpusBackend.removeDocument() beside the entry that is removed.
LEMMA RemoveDocumentSound ==
  ASSUME IndexSound(docs, enrollments), NEW s \in Sources, NEW e, e[s].lifecycle # "enrolled",
         \A x \in Sources \ {s} : e[x] = enrollments[x]
  PROVE  IndexSound(Store!RemoveDocument(s), e)
PROOF
<1>1. docs \in Seq(Document) /\ Len(docs) \in Nat /\ \A i \in 1..Len(docs) : docs[i] \in Document /\ docs[i].source \in Sources
  BY DocumentsAreTyped
<1>2. CASE Store!IndexOf(s) = {}
  <2>1. Store!RemoveDocument(s) = docs
    BY <1>2 DEF Store!RemoveDocument
  <2>2. IndexSound(docs, e)
    BY <1>1 DEF IndexSound
  <2>. QED BY <2>1, <2>2
<1>3. CASE Store!IndexOf(s) # {}
  <2>. DEFINE k == CHOOSE i \in Store!IndexOf(s) : TRUE
              d == Store!RemoveAt(docs, k)
  <2>1. k \in 1..Len(docs) /\ docs[k].source = s
    BY <1>3 DEF Store!IndexOf
  <2>. HIDE DEF k
  <2>2. /\ d \in Seq(Document) /\ Len(d) = Len(docs) - 1
        /\ \A i \in 1..(Len(docs) - 1) : d[i] = IF i < k THEN docs[i] ELSE docs[i + 1]
    BY <1>1, <2>1, Without
  <2>. HIDE DEF d
  <2>3. \A i \in 1..Len(d) : \E j \in 1..Len(docs) : d[i] = docs[j]
    BY <1>1, <2>1, <2>2
  <2>4. \A i \in 1..Len(d) : e[d[i].source].lifecycle = "enrolled" => e[d[i].source].hash = d[i].hash
    <3>. SUFFICES ASSUME NEW j \in 1..Len(docs), e[docs[j].source].lifecycle = "enrolled"
                  PROVE  e[docs[j].source].hash = docs[j].hash
      BY <2>3
    <3>. QED BY <1>1 DEF IndexSound
  <2>5. ASSUME NEW x \in Sources, e[x].lifecycle = "enrolled"
        PROVE  e[x].hash \in Hashes /\ \E i \in 1..Len(d) : d[i].source = x
    <3>1. PICK i \in 1..Len(docs) : docs[i].source = x
      BY <2>5 DEF IndexSound
    <3>2. i # k
      BY <2>1, <2>5, <3>1
    <3>3. CASE i < k
      BY <1>1, <2>1, <2>2, <2>5, <3>1, <3>3 DEF IndexSound
    <3>4. CASE i > k
      <4>1. i - 1 \in 1..Len(d) /\ ~(i - 1 < k) /\ (i - 1) + 1 = i
        BY <1>1, <2>1, <2>2, <3>4
      <4>2. d[i - 1].source = x
        BY <2>2, <3>1, <4>1
      <4>. QED BY <2>5, <4>1, <4>2 DEF IndexSound
    <3>. QED BY <1>1, <2>1, <3>2, <3>3, <3>4
  <2>6. IndexSound(d, e)
    BY <2>2, <2>4, <2>5 DEF IndexSound
  <2>7. Store!RemoveDocument(s) = d
    BY <1>3 DEF Store!RemoveDocument, d, k
  <2>. QED BY <2>6, <2>7
<1>. QED BY <1>2, <1>3

\* rebuildDerivedIndex() finds nothing to repair while index and manifest agree.
LEMMA RebuildSound ==
  ASSUME IndexSound(docs, enrollments), NEW c, Store!Rebuild(c)
  PROVE  docs' = docs
PROOF
<1>. DEFINE Missing == {s \in Sources : Store!Enrolled(s) /\ Store!IndexOf(s) = {}}
            Again(d) == IF Store!Enrolled(d.source) THEN [d EXCEPT !.hash = enrollments[d.source].hash] ELSE d
            a == [i \in 1..Len(docs) |-> Again(docs[i])]
            b == [i \in 1..Store!Cardinality(Missing) |-> [source |-> Store!SetToSeq(Missing)[i],
                                                     hash |-> enrollments[Store!SetToSeq(Missing)[i]].hash]]
<1>1. docs' = a \o b
  BY DEF Store!Rebuild
<1>2. Missing = {}
  BY DEF IndexSound, Store!IndexOf, Store!Enrolled
<1>3. Store!Cardinality(Missing) = 0
  BY <1>2, FS_EmptySet, StoreCardinality
<1>. HIDE DEF Missing
<1>4. b = <<>>
  BY <1>3
<1>5. ASSUME NEW i \in 1..Len(docs) PROVE Again(docs[i]) = docs[i]
  <2>1. docs[i] \in Document
    BY DocumentsAreTyped
  <2>2. Store!Enrolled(docs[i].source) => enrollments[docs[i].source].hash = docs[i].hash
    BY DEF IndexSound, Store!Enrolled
  <2>. QED BY <2>1, <2>2 DEF Document
<1>. HIDE DEF Again
<1>6. a = docs
  <2>1. docs \in Seq(Document)
    BY DocumentsAreTyped
  <2>2. docs = [i \in 1..Len(docs) |-> docs[i]]
    BY <2>1
  <2>. QED BY <1>5, <2>2
<1>. HIDE DEF a, b
<1>7. docs \o <<>> = docs
  BY DocumentsAreTyped, ConcatEmptySeq
<1>. QED BY <1>1, <1>4, <1>6, <1>7

\* Every step leaves the backend's documents and the manifest in agreement.
LEMMA IndexNext ==
  ASSUME StoreNumbers, CorpusInv, IndexSound(docs, enrollments), [Store!Next]_(Store!vars)
  PROVE  IndexSound(docs, enrollments)'
PROOF
<1>. SUFFICES IndexSound(docs', enrollments')
  BY DEF IndexSound
<1>0. enrollments \in [Sources -> Store!Enrollment]
  BY DEF CorpusInv
<1>1. ASSUME NEW c \in Callers, NEW s \in Sources,
             \E h \in Hashes, acl \in {{}, {"reader"}, {"writer"}},
                asked \in {1, 2, Store!Never}, bindings \in {{b} : b \in Bindings} :
               Store!EnrollSource(c, s, h, acl, asked, bindings)
      PROVE  IndexSound(docs', enrollments')
  <2>1. PICK h \in Hashes, acl \in {{}, {"reader"}, {"writer"}},
             asked \in {1, 2, Store!Never}, bindings \in {{b} : b \in Bindings} :
               Store!EnrollSource(c, s, h, acl, asked, bindings)
    BY <1>1
  <2>. DEFINE x == [lifecycle |-> "enrolled", hash |-> h, ends |-> Store!EarliestExpiry(s, Store!ResolveExpiry(asked, Store!Never)),
                    acl |-> acl, bindings |-> bindings]
  <2>2. docs' = Store!EnrollDocument(s, h) /\ enrollments' = [enrollments EXCEPT ![s] = x]
    BY <2>1 DEF Store!EnrollSource
  <2>3. x.hash = h
    OBVIOUS
  <2>. HIDE DEF x
  <2>4. enrollments'[s].hash = h /\ \A y \in Sources \ {s} : enrollments'[y] = enrollments[y]
    BY <1>0, <2>2, <2>3
  <2>5. docs' = Store!EnrollDocument(s, h) /\ s \in Sources /\ h \in Hashes
    BY <2>1, <2>2
  <2>. QED BY <2>4, <2>5, EnrollDocumentSound
<1>2. ASSUME NEW c \in Callers, NEW s \in Sources, NEW h \in Hashes, Store!UpdateSource(c, s, h)
      PROVE  IndexSound(docs', enrollments')
  <2>1. docs' = Store!EnrollDocument(s, h) /\ enrollments' = [enrollments EXCEPT ![s].hash = h]
    BY <1>2 DEF Store!UpdateSource
  <2>2. enrollments[s] \in Store!Enrollment
    BY <1>0
  <2>3. enrollments'[s].hash = h /\ \A y \in Sources \ {s} : enrollments'[y] = enrollments[y]
    BY <1>0, <2>1, <2>2 DEF Store!Enrollment
  <2>. QED BY <2>1, <2>3, EnrollDocumentSound
<1>3. ASSUME NEW c \in Callers, NEW s \in Sources, NEW fails \in BOOLEAN, Store!RemoveSource(c, s, fails)
      PROVE  IndexSound(docs', enrollments')
  <2>1. CASE fails
    BY <1>3, <2>1 DEF Store!RemoveSource
  <2>2. CASE ~fails
    <3>1. docs' = Store!RemoveDocument(s) /\ enrollments' = [enrollments EXCEPT ![s].lifecycle = "removed", ![s].bindings = {}]
      BY <1>3, <2>2 DEF Store!RemoveSource
    <3>2. enrollments[s] \in Store!Enrollment
      BY <1>0
    <3>3. enrollments'[s].lifecycle = "removed" /\ \A y \in Sources \ {s} : enrollments'[y] = enrollments[y]
      BY <1>0, <3>1, <3>2 DEF Store!Enrollment
    <3>. QED BY <3>1, <3>3, RemoveDocumentSound
  <2>. QED BY <2>1, <2>2
<1>4. ASSUME NEW c \in Callers, NEW fails \in BOOLEAN, Store!DeleteCorpus(c, fails)
      PROVE  IndexSound(docs', enrollments')
  <2>1. CorpusInv' /\ corpus' \in {"deleting", "deleted"} /\ docs' \in {docs, <<>>}
    BY <1>4, DeleteKeeps DEF Store!DeleteCorpus
  <2>2. \A s \in Sources : enrollments'[s].lifecycle # "enrolled"
    BY <2>1 DEF CorpusInv, Store!Enrolled
  <2>3. docs' \in Seq(Document) /\ \A i \in 1..Len(docs') : docs'[i].source \in Sources
    <3>1. CASE docs' = docs
      BY <3>1, DocumentsAreTyped
    <3>2. CASE docs' = <<>>
      BY <3>2
    <3>. QED BY <2>1, <3>1, <3>2
  <2>. QED BY <2>2, <2>3 DEF IndexSound
<1>5. ASSUME NEW c \in Callers, Store!Rebuild(c) PROVE IndexSound(docs', enrollments')
  <2>1. docs' = docs /\ enrollments' = enrollments
    BY <1>5, RebuildSound DEF Store!Rebuild
  <2>. QED BY <2>1
<1>6. CASE (\E ends \in 1..Store!Never : Store!CreateCorpus(ends)) \/ Store!SetHealthy \/ Store!Tick \/ UNCHANGED Store!vars
  <2>1. docs' = docs /\ enrollments' = enrollments
    BY <1>6 DEF Store!CreateCorpus, Store!SetHealthy, Store!Tick, Store!vars
  <2>. QED BY <2>1
<1>. QED BY <1>1, <1>2, <1>3, <1>4, <1>5, <1>6 DEF Store!Next

\* What a search hands out is of the manifest, with the manifest's hash, and no enrolled
\* document is missing from the index (searchCorpus, rebuildDerivedIndex).
THEOREM SearchesAreCurrent == ASSUME StoreNumbers PROVE Store!Spec => []Store!SearchIsCurrent
PROOF
<1>1. Store!Init => IndexSound(docs, enrollments)
  BY DEF Store!Init, IndexSound, Store!Absent
<1>2. IndexSound(docs, enrollments) => Store!SearchIsCurrent
  <2>. SUFFICES ASSUME IndexSound(docs, enrollments) PROVE Store!SearchIsCurrent
    OBVIOUS
  <2>1. \A s \in Sources : Store!Enrolled(s) => Store!IndexOf(s) # {}
    BY DEF IndexSound, Store!Enrolled, Store!IndexOf
  <2>2. ASSUME NEW c \in Callers, NEW limit \in 1..Store!Cardinality(Sources), NEW d \in Store!SearchCorpus(c, limit)
        PROVE  enrollments[d.source].hash = d.hash
    <3>. DEFINE m == IF limit < Len(docs) THEN limit ELSE Len(docs)
                hits == SubSeq(docs, 1, m)
    <3>1. limit \in Int /\ limit >= 1 /\ docs \in Seq(Document) /\ Len(docs) \in Nat
      BY DocumentsAreTyped
    <3>2. m \in Nat /\ m <= Len(docs) /\ m \in Int
      BY <3>1
    <3>. HIDE DEF m
    <3>3. hits \in Seq(Document) /\ Len(hits) = m /\ \A i \in 1..m : hits[i] = docs[i]
      <4>1. \A i \in 1..m : docs[i] \in Document
        BY <3>1, <3>2
      <4>. QED BY <3>2, <4>1, SubSeqProperties
    <3>4. d \in Store!Range(hits) /\ Store!Enrolled(d.source)
      BY DEF Store!SearchCorpus, Store!SearchDocuments, m
    <3>. HIDE DEF hits
    <3>5. PICK i \in 1..m : d = hits[i]
      BY <3>3, <3>4 DEF Store!Range
    <3>6. i \in 1..Len(docs) /\ d = docs[i]
      BY <3>1, <3>2, <3>3, <3>5
    <3>. QED BY <3>4, <3>6 DEF IndexSound, Store!Enrolled
  <2>. QED BY <2>1, <2>2 DEF Store!SearchIsCurrent
<1>. QED BY <1>1, <1>2, CorpusInvariance, IndexNext, PTL DEF Store!Spec

\* An enrolled source has somebody to read it, and what was revoked was a binding.
AclInv ==
  /\ \A s \in Sources : Store!Enrolled(s) => enrollments[s].acl # {}
  /\ revoked \subseteq Bindings

\* assertValidAcl() guards every enrollment; the other calls keep the list.
LEMMA AclNext ==
  ASSUME StoreNumbers, CorpusInv, AclInv, [Store!Next]_(Store!vars)
  PROVE  AclInv'
PROOF
<1>0. enrollments \in [Sources -> Store!Enrollment] /\ \A s \in Sources : enrollments[s].bindings \subseteq Bindings
  BY DEF CorpusInv, Store!Enrollment
<1>1. ASSUME NEW c \in Callers, NEW s \in Sources,
             \E h \in Hashes, acl \in {{}, {"reader"}, {"writer"}},
                asked \in {1, 2, Store!Never}, bindings \in {{b} : b \in Bindings} :
               Store!EnrollSource(c, s, h, acl, asked, bindings)
      PROVE  AclInv'
  <2>1. PICK h \in Hashes, acl \in {{}, {"reader"}, {"writer"}},
             asked \in {1, 2, Store!Never}, bindings \in {{b} : b \in Bindings} :
               Store!EnrollSource(c, s, h, acl, asked, bindings)
    BY <1>1
  <2>. DEFINE x == [lifecycle |-> "enrolled", hash |-> h, ends |-> Store!EarliestExpiry(s, Store!ResolveExpiry(asked, Store!Never)),
                    acl |-> acl, bindings |-> bindings]
  <2>2. enrollments' = [enrollments EXCEPT ![s] = x] /\ acl # {} /\ revoked' = revoked
    BY <2>1 DEF Store!EnrollSource, Store!ValidAcl
  <2>3. x.acl = acl
    OBVIOUS
  <2>. HIDE DEF x
  <2>4. enrollments'[s].acl # {} /\ \A y \in Sources \ {s} : enrollments'[y] = enrollments[y]
    BY <1>0, <2>2, <2>3
  <2>. QED BY <2>2, <2>4 DEF AclInv, Store!Enrolled
<1>2. ASSUME NEW c \in Callers, NEW s \in Sources, NEW h \in Hashes, Store!UpdateSource(c, s, h)
      PROVE  AclInv'
  <2>1. enrollments' = [enrollments EXCEPT ![s].hash = h] /\ revoked' = revoked
    BY <1>2 DEF Store!UpdateSource
  <2>2. enrollments[s] \in Store!Enrollment
    BY <1>0
  <2>3. \A y \in Sources : enrollments'[y].acl = enrollments[y].acl /\ enrollments'[y].lifecycle = enrollments[y].lifecycle
    BY <1>0, <2>1, <2>2 DEF Store!Enrollment
  <2>. QED BY <2>1, <2>3 DEF AclInv, Store!Enrolled
<1>3. ASSUME NEW c \in Callers, NEW s \in Sources, NEW fails \in BOOLEAN, Store!RemoveSource(c, s, fails)
      PROVE  AclInv'
  <2>1. revoked' = revoked \cup enrollments[s].bindings
    BY <1>3 DEF Store!RemoveSource
  <2>2. CASE fails
    BY <1>0, <1>3, <2>1, <2>2 DEF Store!RemoveSource, AclInv, Store!Enrolled
  <2>3. CASE ~fails
    <3>1. enrollments' = [enrollments EXCEPT ![s].lifecycle = "removed", ![s].bindings = {}]
      BY <1>3, <2>3 DEF Store!RemoveSource
    <3>2. enrollments[s] \in Store!Enrollment
      BY <1>0
    <3>3. enrollments'[s].lifecycle = "removed" /\ \A y \in Sources \ {s} : enrollments'[y] = enrollments[y]
      BY <1>0, <3>1, <3>2 DEF Store!Enrollment
    <3>. QED BY <1>0, <2>1, <3>3 DEF AclInv, Store!Enrolled
  <2>. QED BY <2>2, <2>3
<1>4. ASSUME NEW c \in Callers, NEW fails \in BOOLEAN, Store!DeleteCorpus(c, fails) PROVE AclInv'
  <2>1. CorpusInv' /\ corpus' \in {"deleting", "deleted"}
    BY <1>4, DeleteKeeps DEF Store!DeleteCorpus
  <2>2. \A s \in Sources : ~Store!Enrolled(s)'
    BY <2>1 DEF CorpusInv
  <2>3. revoked' \in {revoked, revoked \cup UNION {enrollments[s].bindings : s \in Sources}}
    BY <1>4 DEF Store!DeleteCorpus
  <2>. QED BY <1>0, <2>2, <2>3 DEF AclInv, Store!Enrolled
<1>5. CASE \/ \E c \in Callers : Store!Rebuild(c)
           \/ (\E ends \in 1..Store!Never : Store!CreateCorpus(ends)) \/ Store!SetHealthy \/ Store!Tick \/ UNCHANGED Store!vars
  <2>1. revoked' = revoked /\ enrollments' = enrollments
    BY <1>5 DEF Store!Rebuild, Store!CreateCorpus, Store!SetHealthy, Store!Tick, Store!vars
  <2>. QED BY <2>1 DEF AclInv, Store!Enrolled
<1>. QED BY <1>1, <1>2, <1>3, <1>4, <1>5 DEF Store!Next

\* The manifest never names a document without its hash and its ACL, and the backend
\* holds documents of known sources only (CorpusStore, InMemoryCorpusBackend).
THEOREM CorporaTyped == ASSUME StoreNumbers PROVE Store!Spec => []Store!TypeOK
PROOF
<1>1. Store!Init => IndexSound(docs, enrollments) /\ AclInv
  BY DEF Store!Init, IndexSound, AclInv, Store!Enrolled, Store!Absent
<1>2. CorpusInv /\ IndexSound(docs, enrollments) /\ AclInv => Store!TypeOK
  BY DEF CorpusInv, IndexSound, AclInv, Document, Store!Enrolled, Store!TypeOK, StoreNumbers
<1>3. CorpusInv /\ AclInv /\ [Store!Next]_(Store!vars) => AclInv'
  BY AclNext
<1>. QED BY <1>1, <1>2, <1>3, CorpusInvariance, IndexNext, PTL DEF Store!Spec

-----------------------------------------------------------------------------
\* One key of the retry guard, for any number of attempts (RetryGuard).
\* Cardinality is the same function in the instance.
LEMMA GuardCardinality == \A S : Guard!Cardinality(S) = Cardinality(S)
BY Zenon DEF Guard!Cardinality, Cardinality

\* What was handed out under a key is the result that is kept.
GuardInv ==
  /\ runs \in Nat
  /\ attempt \in [recorded: BOOLEAN, paid: BOOLEAN, result: Nat]
  /\ returned \subseteq {attempt.result}
  /\ attempt.result = 0 => returned = {}

\* A key nobody used has no result.
LEMMA GuardInit == Guard!Init => GuardInv
BY DEF Guard!Init, GuardInv

\* recordUnfinishedAttempt() never follows a kept result.
LEMMA UnfinishedKeeps ==
  ASSUME GuardInv, NEW paying \in BOOLEAN, Guard!RecordUnfinishedAttempt(paying)
  PROVE  GuardInv'
BY DEF GuardInv, Guard!RecordUnfinishedAttempt

\* IdempotencyStore.run(): a result is kept when it is handed out first.
LEMMA RunKeeps ==
  ASSUME GuardInv, NEW paying \in BOOLEAN, Guard!RunEffect(paying)
  PROVE  GuardInv'
PROOF
<1>. attempt.result \in Nat /\ runs \in Nat /\ attempt.paid \in BOOLEAN
  BY DEF GuardInv
<1>1. CASE attempt.result # 0
  <2>1. attempt' = attempt /\ returned' = returned \cup {attempt.result} /\ runs' = runs + 1
    BY <1>1, Zenon DEF Guard!RunEffect
  <2>2. returned' \subseteq {attempt'.result}
    BY <2>1 DEF GuardInv
  <2>3. attempt' \in [recorded: BOOLEAN, paid: BOOLEAN, result: Nat] /\ attempt'.result # 0 /\ runs' \in Nat
    BY <1>1, <2>1 DEF GuardInv
  <2>. QED BY <2>2, <2>3, Zenon DEF GuardInv
<1>2. CASE attempt.result = 0 /\ Guard!Duplicates(paying)
  <2>1. attempt' = attempt /\ returned' = returned /\ runs' = runs + 1
    BY <1>2, Zenon DEF Guard!RunEffect
  <2>. QED BY <2>1 DEF GuardInv
<1>3. CASE attempt.result = 0 /\ ~Guard!Duplicates(paying)
  <2>. DEFINE a == [recorded |-> TRUE, paid |-> attempt.paid \/ paying, result |-> runs']
  <2>1. attempt' = a /\ returned' = returned \cup {runs'} /\ runs' = runs + 1
    BY <1>3, Zenon DEF Guard!RunEffect
  <2>2. (attempt.paid \/ paying) \in BOOLEAN
    BY Zenon
  <2>3. a \in [recorded: BOOLEAN, paid: BOOLEAN, result: Nat] /\ a.result = runs'
    BY <2>1, <2>2
  <2>4. returned = {}
    BY <1>3 DEF GuardInv
  <2>. HIDE DEF a
  <2>. QED BY <2>1, <2>3, <2>4 DEF GuardInv
<1>. QED BY <1>1, <1>2, <1>3

\* What a key of the retry guard keeps, in every state.
THEOREM GuardInvariance == Guard!Spec => []GuardInv
PROOF
<1>1. GuardInv /\ [Guard!Next]_(Guard!vars) => GuardInv'
  <2>1. GuardInv /\ UNCHANGED Guard!vars => GuardInv'
    BY DEF Guard!vars, GuardInv
  <2>. QED BY <2>1, UnfinishedKeeps, RunKeeps DEF Guard!Next
<1>. QED BY <1>1, GuardInit, PTL DEF Guard!Spec

\* A result that is kept under a key is one of its attempts, and was handed out
\* (IdempotencyStore.run, recordUnfinishedAttempt).
THEOREM GuardTyped == ASSUME GuardNumbers PROVE Guard!Spec => []Guard!TypeOK
PROOF
<1>1. Guard!Init => Guard!TypeOK
  BY DEF Guard!Init, Guard!TypeOK, GuardNumbers
<1>2. ASSUME Guard!TypeOK, [Guard!Next]_(Guard!vars) PROVE Guard!TypeOK'
  <2>. DEFINE T == [recorded: BOOLEAN, paid: BOOLEAN, result: 0..MaxRuns]
  <2>1. /\ runs \in 0..MaxRuns /\ returned \subseteq 1..MaxRuns /\ attempt \in T
        /\ attempt.result # 0 => attempt.recorded /\ attempt.result \in returned
    BY <1>2 DEF Guard!TypeOK
  <2>2. CASE UNCHANGED Guard!vars
    BY <1>2, <2>2 DEF Guard!vars, Guard!TypeOK
  <2>3. ASSUME NEW paying \in BOOLEAN, Guard!RecordUnfinishedAttempt(paying) PROVE Guard!TypeOK'
    <3>1. runs' \in 0..MaxRuns /\ returned' = returned
      BY <2>1, <2>3 DEF Guard!RecordUnfinishedAttempt, GuardNumbers
    <3>2. attempt' \in T /\ attempt'.result = 0
      BY <2>3 DEF Guard!RecordUnfinishedAttempt, GuardNumbers
    <3>. QED BY <2>1, <3>1, <3>2 DEF Guard!TypeOK
  <2>4. ASSUME NEW paying \in BOOLEAN, Guard!RunEffect(paying) PROVE Guard!TypeOK'
    <3>1. runs' \in 1..MaxRuns
      BY <2>1, <2>4 DEF Guard!RunEffect, GuardNumbers
    <3>2. CASE UNCHANGED <<attempt, returned>>
      BY <2>1, <3>1, <3>2 DEF Guard!TypeOK
    <3>3. CASE attempt.result # 0 /\ returned' = returned \cup {attempt.result} /\ attempt' = attempt
      <4>1. returned' = returned /\ attempt' = attempt
        BY <2>1, <3>3
      <4>. QED BY <2>1, <3>1, <4>1 DEF Guard!TypeOK
    <3>4. CASE /\ attempt' = [recorded |-> TRUE, paid |-> attempt.paid \/ paying, result |-> runs']
               /\ returned' = returned \cup {runs'}
      <4>1. (attempt.paid \/ paying) \in BOOLEAN
        BY Zenon
      <4>. DEFINE pays == attempt.paid \/ paying
      <4>. HIDE DEF pays
      <4>2. attempt' = [recorded |-> TRUE, paid |-> pays, result |-> runs'] /\ pays \in BOOLEAN
        BY <3>4, <4>1, Zenon DEF pays
      <4>3. attempt' \in T /\ attempt'.recorded /\ attempt'.result = runs'
        BY <3>1, <4>2
      <4>4. returned' \subseteq 1..MaxRuns /\ runs' \in returned'
        BY <2>1, <3>1, <3>4
      <4>. QED BY <3>1, <4>3, <4>4 DEF Guard!TypeOK
    <3>. QED BY <2>4, <3>2, <3>3, <3>4, Zenon DEF Guard!RunEffect
  <2>. QED BY <1>2, <2>2, <2>3, <2>4 DEF Guard!Next
<1>. QED BY <1>1, <1>2, PTL DEF Guard!Spec

\* Every run of one idempotency key hands out the same result (IdempotencyStore.run).
THEOREM OneResultPerKey == Guard!Spec => []Guard!OneResult
PROOF
<1>1. GuardInv => Guard!OneResult
  <2>. SUFFICES ASSUME GuardInv PROVE Cardinality(returned) <= 1
    BY GuardCardinality DEF Guard!OneResult
  <2>1. CASE returned = {}
    BY <2>1, FS_EmptySet
  <2>2. CASE returned # {}
    <3>1. returned = {attempt.result}
      BY <2>2 DEF GuardInv
    <3>2. Cardinality(returned) = 1
      BY <3>1, FS_Singleton, Zenon
    <3>. QED BY <3>2
  <2>. QED BY <2>1, <2>2
<1>. QED BY <1>1, GuardInvariance, PTL

-----------------------------------------------------------------------------
\* The bridge between the Container and the Worker, any number of parses and
\* revokers of it (CacheBridge).
\* A parse fails when it is over; what the Worker answered its lookup is what it
\* decided, and so is what the parse carries to its commit.
ParseOK(o, w, d, t) ==
  /\ w.op \in {"none", "lookup", "commit"}
  /\ o.pc = "lookup" => w.op = "lookup"
  /\ w.op = "lookup" /\ w.at \in {"done", "back"} /\ w.answer # "refused" =>
       w.answer = d /\ d \in Bridge!Misses \cup {"hit"}
  /\ o.pc = "execute" => o.told \in Bridge!Misses /\ (o.told # "fault" => o.told = d /\ w.op = "none")
  /\ w.op = "commit" => w.decision = d /\ d # "fault"
  /\ o.pc = "failed" => o.aborted \/ t >= o.deadline

\* What says "revoked" to a revoker, and what begins after it was said.
RevokerOK(o, w, kept) ==
  /\ w.op \in {"none", "revoke"}
  /\ o.told = "revoked" \/ w.answer = "revoked" => kept = "revoked"
LateOK(o, w, kept) ==
  o.late => kept = "revoked" /\ o.told \notin {"hit", "stored"} /\ w.answer \notin {"hit", "stored"}

RequestOK(c, o, w, d, kept, t) ==
  /\ c \in Parses => ParseOK(o, w, d, t)
  /\ c \in Revokers => RevokerOK(o, w, kept)
  /\ LateOK(o, w, kept)

BridgeInv ==
  /\ Bridge!TypeOK
  /\ \A c \in Bridge!Requests : RequestOK(c, bridgeCall[c], wire[c], decided[c], cache, clock)

BridgeCalls == [pc: {"idle", "lookup", "execute", "commit", "revoke", "ended", "failed"},
          mode: {"use", "refresh", "bypass"}, deadline: Nat, aborted: BOOLEAN, late: BOOLEAN,
          told: Bridge!Misses \cup {"none", "hit", "stored", "unstored", "missing"}]
Wires == [op: {"none", "lookup", "commit", "revoke"}, at: {"none", "sent", "done", "back"},
          sent: Nat, decision: Bridge!Misses \cup {"none"},
          answer: Bridge!Misses \cup {"none", "hit", "stored", "unstored", "missing", "refused"}]

\* The state by its parts.
LEMMA BridgeParts ==
  ASSUME BridgeNumbers, BridgeInv
  PROVE  /\ clock \in 0..MaxNow /\ clock \in Nat /\ skew \in Skews /\ env \in {"ok", "disabled", "broken"}
         /\ cache \in {"empty", "stored", "revoked"}
         /\ bridgeCall \in [Bridge!Requests -> BridgeCalls] /\ wire \in [Bridge!Requests -> Wires]
         /\ decided \in [Bridge!Requests -> Bridge!Misses \cup {"none", "hit"}]
BY DEF BridgeInv, Bridge!TypeOK, BridgeNumbers, BridgeCalls, Wires

\* A step of one request: to the call o, the wire w and the decision d.
LEMMA BridgeStep ==
  ASSUME BridgeNumbers, BridgeInv, NEW c \in Bridge!Requests, NEW o \in BridgeCalls, NEW w \in Wires,
         NEW d \in Bridge!Misses \cup {"none", "hit"},
         bridgeCall' = [bridgeCall EXCEPT ![c] = o], wire' = [wire EXCEPT ![c] = w], decided' = [decided EXCEPT ![c] = d],
         clock' = clock, skew' = skew, env' = env,
         cache' \in {"empty", "stored", "revoked"}, cache = "revoked" => cache' = "revoked",
         RequestOK(c, o, w, d, cache', clock)
  PROVE  BridgeInv'
PROOF
<1>1. /\ clock \in 0..MaxNow /\ skew \in Skews /\ env \in {"ok", "disabled", "broken"}
      /\ bridgeCall \in [Bridge!Requests -> BridgeCalls] /\ wire \in [Bridge!Requests -> Wires]
      /\ decided \in [Bridge!Requests -> Bridge!Misses \cup {"none", "hit"}]
      /\ \A x \in Bridge!Requests : RequestOK(x, bridgeCall[x], wire[x], decided[x], cache, clock)
  BY BridgeParts DEF BridgeInv
<1>2. /\ bridgeCall' \in [Bridge!Requests -> BridgeCalls] /\ wire' \in [Bridge!Requests -> Wires]
      /\ decided' \in [Bridge!Requests -> Bridge!Misses \cup {"none", "hit"}]
      /\ bridgeCall'[c] = o /\ wire'[c] = w /\ decided'[c] = d
      /\ \A x \in Bridge!Requests \ {c} : bridgeCall'[x] = bridgeCall[x] /\ wire'[x] = wire[x] /\ decided'[x] = decided[x]
  BY <1>1
<1>3. Bridge!TypeOK'
  BY <1>1, <1>2 DEF Bridge!TypeOK, BridgeCalls, Wires
<1>4. ASSUME NEW x \in Bridge!Requests \ {c}
      PROVE  RequestOK(x, bridgeCall'[x], wire'[x], decided'[x], cache', clock')
  BY <1>1, <1>2, <1>4 DEF RequestOK, RevokerOK, LateOK
<1>5. RequestOK(c, bridgeCall'[c], wire'[c], decided'[c], cache', clock')
  BY <1>2
<1>. QED BY <1>3, <1>4, <1>5 DEF BridgeInv

BridgePcs == {"idle", "lookup", "execute", "commit", "revoke", "ended", "failed"}
Tolds == Bridge!Misses \cup {"none", "hit", "stored", "unstored", "missing"}
Answers == Bridge!Misses \cup {"none", "hit", "stored", "unstored", "missing", "refused"}

\* One call, one wire and one decision.
LEMMA BridgeCall ==
  ASSUME BridgeNumbers, BridgeInv, NEW c \in Bridge!Requests
  PROVE  /\ bridgeCall[c] \in BridgeCalls /\ wire[c] \in Wires /\ decided[c] \in Bridge!Misses \cup {"none", "hit"}
         /\ RequestOK(c, bridgeCall[c], wire[c], decided[c], cache, clock)
         /\ bridgeCall[c].told \in Tolds /\ wire[c].answer \in Answers /\ wire[c].decision \in Bridge!Misses \cup {"none"}
         /\ bridgeCall[c].deadline \in Nat /\ bridgeCall[c].aborted \in BOOLEAN
         /\ wire' = wire => wire' = [wire EXCEPT ![c] = wire[c]]
         /\ bridgeCall' = bridgeCall => bridgeCall' = [bridgeCall EXCEPT ![c] = bridgeCall[c]]
         /\ decided' = decided => decided' = [decided EXCEPT ![c] = decided[c]]
PROOF
<1>1. /\ bridgeCall \in [Bridge!Requests -> BridgeCalls] /\ wire \in [Bridge!Requests -> Wires]
      /\ decided \in [Bridge!Requests -> Bridge!Misses \cup {"none", "hit"}]
  BY BridgeParts
<1>2. bridgeCall[c] \in BridgeCalls /\ wire[c] \in Wires /\ decided[c] \in Bridge!Misses \cup {"none", "hit"}
  BY <1>1
<1>3. /\ bridgeCall[c].told \in Tolds /\ wire[c].answer \in Answers /\ wire[c].decision \in Bridge!Misses \cup {"none"}
      /\ bridgeCall[c].deadline \in Nat /\ bridgeCall[c].aborted \in BOOLEAN
  BY <1>2 DEF BridgeCalls, Wires, Tolds, Answers
<1>4. /\ wire' = wire => wire' = [wire EXCEPT ![c] = wire[c]]
      /\ bridgeCall' = bridgeCall => bridgeCall' = [bridgeCall EXCEPT ![c] = bridgeCall[c]]
      /\ decided' = decided => decided' = [decided EXCEPT ![c] = decided[c]]
  BY <1>1
<1>. QED BY <1>2, <1>3, <1>4 DEF BridgeInv

\* To: a call goes to a place with what it was told.
LEMMA ToStep ==
  ASSUME BridgeNumbers, BridgeInv, NEW c \in Bridge!Requests, NEW pc \in BridgePcs, NEW told \in Tolds, Bridge!To(c, pc, told)
  PROVE  \E o \in BridgeCalls :
           /\ bridgeCall' = [bridgeCall EXCEPT ![c] = o] /\ o.pc = pc /\ o.told = told /\ o.late = bridgeCall[c].late
           /\ o.aborted = bridgeCall[c].aborted /\ o.deadline = bridgeCall[c].deadline
PROOF
<1>. DEFINE o == [bridgeCall[c] EXCEPT !.pc = pc, !.told = told]
<1>1. bridgeCall[c] \in BridgeCalls
  BY BridgeCall
<1>2. o \in BridgeCalls
  BY <1>1 DEF BridgeCalls, BridgePcs, Tolds
<1>3. /\ o.pc = pc /\ o.told = told /\ o.late = bridgeCall[c].late
      /\ o.aborted = bridgeCall[c].aborted /\ o.deadline = bridgeCall[c].deadline
  BY <1>1 DEF BridgeCalls
<1>4. bridgeCall' = [bridgeCall EXCEPT ![c] = o]
  BY DEF Bridge!To
<1>. QED BY <1>2, <1>3, <1>4

\* Answer: the Worker's part of a wire.
LEMMA AnswerStep ==
  ASSUME BridgeNumbers, BridgeInv, NEW c \in Bridge!Requests, NEW at \in {"done", "back"}, NEW answer \in Answers,
         Bridge!Answer(c, at, answer)
  PROVE  \E w \in Wires :
           /\ wire' = [wire EXCEPT ![c] = w] /\ w.op = wire[c].op /\ w.at = at /\ w.answer = answer
           /\ w.decision = wire[c].decision
PROOF
<1>. DEFINE w == [wire[c] EXCEPT !.at = at, !.answer = answer]
<1>1. wire[c] \in Wires
  BY BridgeCall
<1>2. w \in Wires
  BY <1>1 DEF Wires, Answers
<1>3. w.op = wire[c].op /\ w.at = at /\ w.answer = answer /\ w.decision = wire[c].decision
  BY <1>1 DEF Wires
<1>4. wire' = [wire EXCEPT ![c] = w]
  BY DEF Bridge!Answer
<1>. QED BY <1>2, <1>3, <1>4

\* No wire.
LEMMA NoWireOK == Bridge!NoWire \in Wires /\ Bridge!NoWire.op = "none" /\ Bridge!NoWire.answer = "none" /\ Bridge!NoWire.at = "none"
BY DEF Bridge!NoWire, Wires

\* Read: what came back is taken from the wire.
LEMMA ReadStep ==
  ASSUME BridgeNumbers, BridgeInv, NEW c \in Bridge!Requests, Bridge!Read(c)
  PROVE  \E w \in {wire[c], Bridge!NoWire} :
           /\ w \in Wires /\ wire' = [wire EXCEPT ![c] = w]
           /\ wire[c].at = "back" => w = Bridge!NoWire
BY BridgeCall, NoWireOK DEF Bridge!Read

\* Send: a request on the wire, with the decision it carries.
LEMMA SendStep ==
  ASSUME BridgeNumbers, BridgeInv, NEW c \in Bridge!Requests, NEW kind \in {"lookup", "commit", "revoke"},
         NEW decision \in Bridge!Misses \cup {"none"}, Bridge!Send(c, kind, decision)
  PROVE  \E w \in Wires :
           /\ wire' = [wire EXCEPT ![c] = w] /\ w.op = kind /\ w.at = "sent" /\ w.answer = "none"
           /\ w.decision = decision
PROOF
<1>. DEFINE w == [Bridge!NoWire EXCEPT !.op = kind, !.at = "sent", !.sent = clock, !.decision = decision]
<1>1. w \in Wires
  BY BridgeParts, NoWireOK DEF Wires
<1>2. w.op = kind /\ w.at = "sent" /\ w.answer = "none" /\ w.decision = decision
  BY NoWireOK DEF Bridge!NoWire
<1>3. wire' = [wire EXCEPT ![c] = w]
  BY DEF Bridge!Send
<1>. QED BY <1>1, <1>2, <1>3

\* Start: a call that begins after an acknowledged revocation begins on a
\* revoked source.
LEMMA StartKeeps ==
  ASSUME BridgeNumbers, BridgeInv, NEW c \in Bridge!Requests, NEW kind \in {"lookup", "revoke"},
         NEW mode \in {"use", "refresh", "bypass"}, Bridge!Start(c, kind, mode),
         kind = "lookup" => c \notin Revokers, kind = "revoke" => c \notin Parses
  PROVE  BridgeInv'
PROOF
<1>. DEFINE after == \E r \in Revokers : bridgeCall[r].told = "revoked"
            deadline == clock + Timeout
            o == [Bridge!Idle EXCEPT !.pc = kind, !.mode = mode, !.deadline = deadline, !.late = after]
<1>1. /\ bridgeCall' = [bridgeCall EXCEPT ![c] = o] /\ Bridge!Send(c, kind, "none") /\ decided' = decided
      /\ clock' = clock /\ skew' = skew /\ env' = env /\ cache' = cache
  BY DEF Bridge!Start, Bridge!Others
<1>2. deadline \in Nat /\ after \in BOOLEAN
  BY BridgeParts DEF BridgeNumbers
<1>3. after => cache = "revoked"
  BY BridgeCall DEF RequestOK, RevokerOK, Bridge!Requests
<1>. HIDE DEF deadline, after
<1>4. o \in BridgeCalls
  BY <1>2 DEF Bridge!Idle, BridgeCalls
<1>5. o.pc = kind /\ o.told = "none" /\ o.late = after
  BY DEF Bridge!Idle
<1>. HIDE DEF o
<1>6. PICK w \in Wires :
        wire' = [wire EXCEPT ![c] = w] /\ w.op = kind /\ w.at = "sent" /\ w.answer = "none" /\ w.decision = "none"
  BY <1>1, SendStep
<1>7. RequestOK(c, o, w, decided[c], cache, clock)
  BY <1>3, <1>5, <1>6 DEF RequestOK, ParseOK, RevokerOK, LateOK
<1>8. decided' = [decided EXCEPT ![c] = decided[c]] /\ decided[c] \in Bridge!Misses \cup {"none", "hit"}
  BY <1>1, BridgeCall
<1>9. cache \in {"empty", "stored", "revoked"}
  BY BridgeParts
<1>. QED BY <1>1, <1>4, <1>6, <1>7, <1>8, <1>9, BridgeStep

\* Abort: the call is over.
LEMMA AbortKeeps ==
  ASSUME BridgeNumbers, BridgeInv, NEW c \in Bridge!Requests, Bridge!Abort(c)
  PROVE  BridgeInv'
PROOF
<1>. DEFINE o == [bridgeCall[c] EXCEPT !.aborted = TRUE]
<1>1. /\ wire' = wire /\ decided' = decided
      /\ clock' = clock /\ skew' = skew /\ env' = env /\ cache' = cache
  BY DEF Bridge!Abort, Bridge!Others
<1>2. bridgeCall[c] \in BridgeCalls /\ RequestOK(c, bridgeCall[c], wire[c], decided[c], cache, clock)
  BY BridgeCall
<1>3. o \in BridgeCalls /\ o.aborted
  BY <1>2 DEF BridgeCalls
<1>4. o.pc = bridgeCall[c].pc /\ o.told = bridgeCall[c].told /\ o.late = bridgeCall[c].late
  BY <1>2 DEF BridgeCalls
<1>7. bridgeCall' = [bridgeCall EXCEPT ![c] = o]
  BY DEF Bridge!Abort
<1>. HIDE DEF o
<1>5. RequestOK(c, o, wire[c], decided[c], cache, clock)
  BY <1>2, <1>3, <1>4 DEF RequestOK, ParseOK, RevokerOK, LateOK
<1>6. /\ decided' = [decided EXCEPT ![c] = decided[c]] /\ decided[c] \in Bridge!Misses \cup {"none", "hit"}
      /\ wire' = [wire EXCEPT ![c] = wire[c]] /\ wire[c] \in Wires
  BY <1>1, BridgeCall, BridgeParts
<1>8. /\ clock' = clock /\ skew' = skew /\ env' = env
      /\ cache' \in {"empty", "stored", "revoked"} /\ (cache = "revoked" => cache' = "revoked")
      /\ RequestOK(c, o, wire[c], decided[c], cache', clock)
  BY <1>1, <1>5, BridgeParts
<1>. QED BY <1>3, <1>6, <1>7, <1>8, BridgeStep

\* A call that moves to pc, told so, over the wire w, is sound.
Fits(c, pc, told, w) ==
  \A o \in BridgeCalls : /\ o.pc = pc /\ o.told = told /\ o.late = bridgeCall[c].late
                   /\ o.aborted = bridgeCall[c].aborted /\ o.deadline = bridgeCall[c].deadline
                   => RequestOK(c, o, w, decided[c], cache, clock)

\* A step of the Container that moves a call and its wire.
LEMMA ContainerStep ==
  ASSUME BridgeNumbers, BridgeInv, NEW c \in Bridge!Requests, NEW pc \in BridgePcs, NEW told \in Tolds, Bridge!To(c, pc, told),
         NEW w \in Wires, wire' = [wire EXCEPT ![c] = w], decided' = decided, Bridge!Others,
         Fits(c, pc, told, w)
  PROVE  BridgeInv'
PROOF
<1>1. PICK o \in BridgeCalls :
        /\ bridgeCall' = [bridgeCall EXCEPT ![c] = o] /\ o.pc = pc /\ o.told = told /\ o.late = bridgeCall[c].late
        /\ o.aborted = bridgeCall[c].aborted /\ o.deadline = bridgeCall[c].deadline
  BY ToStep
<1>2. clock' = clock /\ skew' = skew /\ env' = env /\ cache' = cache
  BY DEF Bridge!Others
<1>3. /\ decided' = [decided EXCEPT ![c] = decided[c]] /\ decided[c] \in Bridge!Misses \cup {"none", "hit"}
      /\ cache \in {"empty", "stored", "revoked"}
  BY BridgeCall, BridgeParts
<1>4. RequestOK(c, o, w, decided[c], cache, clock)
  BY <1>1 DEF Fits
<1>. QED BY <1>1, <1>2, <1>3, <1>4, BridgeStep

\* What the Container takes from a wire: nothing usable, or what came back.
LEMMA ReadingOK ==
  ASSUME BridgeNumbers, BridgeInv, NEW c \in Bridge!Requests, NEW reading \in Bridge!Readings(c)
  PROVE  reading = "unusable" \/ (wire[c].at = "back" /\ reading = wire[c].answer /\ reading # "refused" /\ reading \in Tolds)
BY BridgeCall DEF Bridge!Readings, Tolds, Answers

\* ReceiveLookup: a fault is told as one, anything else is what was decided.
LEMMA ReceiveLookupKeeps ==
  ASSUME BridgeNumbers, BridgeInv, NEW c \in Parses, Bridge!ReceiveLookup(c)
  PROVE  BridgeInv'
PROOF
<1>1. c \in Bridge!Requests /\ c \notin Revokers
  BY DEF Bridge!Requests, BridgeNumbers
<1>2. PICK reading \in Bridge!Readings(c) : Bridge!LookupReturns(c, reading)
  BY DEF Bridge!ReceiveLookup
<1>3. bridgeCall[c].pc = "lookup" /\ Bridge!Read(c) /\ decided' = decided /\ Bridge!Others
  BY DEF Bridge!ReceiveLookup
<1>4. /\ ParseOK(bridgeCall[c], wire[c], decided[c], clock) /\ LateOK(bridgeCall[c], wire[c], cache)
      /\ bridgeCall[c].told \in Tolds
  BY <1>1, BridgeCall DEF RequestOK
<1>5. PICK w \in {wire[c], Bridge!NoWire} :
        w \in Wires /\ wire' = [wire EXCEPT ![c] = w] /\ (wire[c].at = "back" => w = Bridge!NoWire)
  BY <1>1, <1>3, ReadStep
<1>6. reading = "unusable" \/ (wire[c].at = "back" /\ reading = wire[c].answer /\ reading # "refused" /\ reading \in Tolds)
  BY <1>1, ReadingOK
<1>7. reading # "unusable" => reading = decided[c] /\ reading \in Bridge!Misses \cup {"hit"} /\ w.op = "none"
  BY <1>3, <1>4, <1>5, <1>6, NoWireOK DEF ParseOK
<1>8. /\ w.op \in {"none", "lookup", "commit"} /\ LateOK(bridgeCall[c], w, cache)
      /\ w.op = "lookup" /\ w.at \in {"done", "back"} /\ w.answer # "refused" =>
           w.answer = decided[c] /\ decided[c] \in Bridge!Misses \cup {"hit"}
      /\ w.op = "commit" => w.decision = decided[c] /\ decided[c] # "fault"
  BY <1>4, <1>5, NoWireOK DEF ParseOK, LateOK
<1>9. reading = "hit" => ~bridgeCall[c].late
  BY <1>4, <1>6 DEF LateOK
<1>10. CASE Bridge!Over(c)
  <2>1. Bridge!To(c, "failed", "none")
    BY <1>2, <1>10 DEF Bridge!LookupReturns
  <2>2. Fits(c, "failed", "none", w)
    BY <1>1, <1>8, <1>10 DEF Fits, RequestOK, ParseOK, LateOK, Bridge!Over
  <2>. QED BY <1>1, <1>3, <1>5, <2>1, <2>2, ContainerStep DEF BridgePcs, Tolds
<1>11. CASE ~Bridge!Over(c) /\ reading = "hit"
  <2>1. Bridge!To(c, "ended", "hit")
    BY <1>2, <1>11 DEF Bridge!LookupReturns
  <2>2. Fits(c, "ended", "hit", w)
    BY <1>1, <1>8, <1>9, <1>11 DEF Fits, RequestOK, ParseOK, LateOK
  <2>. QED BY <1>1, <1>3, <1>5, <2>1, <2>2, ContainerStep DEF BridgePcs, Tolds
<1>12. CASE ~Bridge!Over(c) /\ reading # "hit"
  <2>. DEFINE told == Bridge!LookedUp(reading)
  <2>1. Bridge!To(c, "execute", told)
    BY <1>2, <1>12 DEF Bridge!LookupReturns
  <2>2. told \in Bridge!Misses /\ (told # "fault" => told = decided[c] /\ w.op = "none")
    BY <1>6, <1>7, <1>12 DEF Bridge!LookedUp, Bridge!Misses
  <2>. HIDE DEF told
  <2>3. Fits(c, "execute", told, w)
    BY <1>1, <1>8, <2>2 DEF Fits, RequestOK, ParseOK, LateOK, Bridge!Misses
  <2>. QED BY <1>1, <1>3, <1>5, <2>1, <2>2, <2>3, ContainerStep DEF BridgePcs, Tolds
<1>. QED BY <1>10, <1>11, <1>12

\* Commit: what is sent carries what was decided.
LEMMA CommitKeeps ==
  ASSUME BridgeNumbers, BridgeInv, NEW c \in Parses, Bridge!Commit(c)
  PROVE  BridgeInv'
PROOF
<1>1. c \in Bridge!Requests /\ c \notin Revokers
  BY DEF Bridge!Requests, BridgeNumbers
<1>2. bridgeCall[c].pc = "execute" /\ decided' = decided /\ Bridge!Others
  BY DEF Bridge!Commit
<1>3. /\ ParseOK(bridgeCall[c], wire[c], decided[c], clock) /\ LateOK(bridgeCall[c], wire[c], cache)
      /\ bridgeCall[c].told \in Tolds /\ wire[c] \in Wires
      /\ wire' = wire => wire' = [wire EXCEPT ![c] = wire[c]]
  BY <1>1, BridgeCall DEF RequestOK
<1>4. bridgeCall[c].told \in Bridge!Misses
  BY <1>2, <1>3 DEF ParseOK
<1>5. CASE Bridge!To(c, "ended", "unstored") /\ UNCHANGED wire
  <2>1. Fits(c, "ended", "unstored", wire[c])
    BY <1>1, <1>3 DEF Fits, RequestOK, ParseOK, LateOK
  <2>. QED BY <1>1, <1>2, <1>3, <1>5, <2>1, ContainerStep DEF BridgePcs, Tolds
<1>6. CASE Bridge!Over(c) /\ Bridge!To(c, "failed", "none") /\ UNCHANGED wire
  <2>1. Fits(c, "failed", "none", wire[c])
    BY <1>1, <1>3, <1>6 DEF Fits, RequestOK, ParseOK, LateOK, Bridge!Over
  <2>. QED BY <1>1, <1>2, <1>3, <1>6, <2>1, ContainerStep DEF BridgePcs, Tolds
<1>7. CASE bridgeCall[c].told # "fault" /\ Bridge!To(c, "commit", bridgeCall[c].told) /\ Bridge!Send(c, "commit", bridgeCall[c].told)
  <2>1. PICK w \in Wires :
          /\ wire' = [wire EXCEPT ![c] = w] /\ w.op = "commit" /\ w.at = "sent" /\ w.answer = "none"
          /\ w.decision = bridgeCall[c].told
    BY <1>1, <1>4, <1>7, SendStep
  <2>2. bridgeCall[c].told = decided[c]
    BY <1>2, <1>3, <1>7 DEF ParseOK
  <2>3. Fits(c, "commit", bridgeCall[c].told, w)
    BY <1>1, <1>3, <1>7, <2>1, <2>2 DEF Fits, RequestOK, ParseOK, LateOK
  <2>. QED BY <1>1, <1>2, <1>3, <1>7, <2>1, <2>3, ContainerStep DEF BridgePcs
<1>. QED BY <1>5, <1>6, <1>7 DEF Bridge!Commit

\* ReceiveCommit: only an answer "stored" is told as one.
LEMMA ReceiveCommitKeeps ==
  ASSUME BridgeNumbers, BridgeInv, NEW c \in Parses, Bridge!ReceiveCommit(c)
  PROVE  BridgeInv'
PROOF
<1>1. c \in Bridge!Requests /\ c \notin Revokers
  BY DEF Bridge!Requests, BridgeNumbers
<1>2. bridgeCall[c].pc = "commit" /\ Bridge!Read(c) /\ decided' = decided /\ Bridge!Others
  BY DEF Bridge!ReceiveCommit
<1>3. ParseOK(bridgeCall[c], wire[c], decided[c], clock) /\ LateOK(bridgeCall[c], wire[c], cache)
  BY <1>1, BridgeCall DEF RequestOK
<1>4. PICK w \in {wire[c], Bridge!NoWire} :
        w \in Wires /\ wire' = [wire EXCEPT ![c] = w] /\ (wire[c].at = "back" => w = Bridge!NoWire)
  BY <1>1, <1>2, ReadStep
<1>5. PICK reading \in Bridge!Readings(c) :
        IF Bridge!Over(c) THEN Bridge!To(c, "failed", "none")
        ELSE Bridge!To(c, "ended", IF reading = "stored" THEN "stored" ELSE "unstored")
  BY DEF Bridge!ReceiveCommit
<1>6. reading = "stored" => ~bridgeCall[c].late
  BY <1>1, <1>3, ReadingOK DEF LateOK
<1>7. /\ w.op \in {"none", "lookup", "commit"} /\ LateOK(bridgeCall[c], w, cache)
      /\ w.op = "lookup" /\ w.at \in {"done", "back"} /\ w.answer # "refused" =>
           w.answer = decided[c] /\ decided[c] \in Bridge!Misses \cup {"hit"}
      /\ w.op = "commit" => w.decision = decided[c] /\ decided[c] # "fault"
  BY <1>3, <1>4, NoWireOK DEF ParseOK, LateOK
<1>8. CASE Bridge!Over(c)
  <2>1. Bridge!To(c, "failed", "none")
    BY <1>5, <1>8
  <2>2. Fits(c, "failed", "none", w)
    BY <1>1, <1>7, <1>8 DEF Fits, RequestOK, ParseOK, LateOK, Bridge!Over
  <2>. QED BY <1>1, <1>2, <1>4, <2>1, <2>2, ContainerStep DEF BridgePcs, Tolds
<1>9. CASE ~Bridge!Over(c)
  <2>. DEFINE told == IF reading = "stored" THEN "stored" ELSE "unstored"
  <2>1. Bridge!To(c, "ended", told) /\ told \in {"stored", "unstored"} /\ (told = "stored" => ~bridgeCall[c].late)
    BY <1>5, <1>6, <1>9
  <2>. HIDE DEF told
  <2>2. Fits(c, "ended", told, w)
    BY <1>1, <1>7, <2>1 DEF Fits, RequestOK, ParseOK, LateOK
  <2>. QED BY <1>1, <1>2, <1>4, <2>1, <2>2, ContainerStep DEF BridgePcs, Tolds
<1>. QED BY <1>8, <1>9

\* ReceiveRevoke: the revoker is told what the Worker answered, or fails.
LEMMA ReceiveRevokeKeeps ==
  ASSUME BridgeNumbers, BridgeInv, NEW c \in Revokers, Bridge!ReceiveRevoke(c)
  PROVE  BridgeInv'
PROOF
<1>1. c \in Bridge!Requests /\ c \notin Parses
  BY DEF Bridge!Requests, BridgeNumbers
<1>2. bridgeCall[c].pc = "revoke" /\ Bridge!Read(c) /\ decided' = decided /\ Bridge!Others
  BY DEF Bridge!ReceiveRevoke
<1>3. RevokerOK(bridgeCall[c], wire[c], cache) /\ LateOK(bridgeCall[c], wire[c], cache)
  BY <1>1, BridgeCall DEF RequestOK
<1>4. PICK w \in {wire[c], Bridge!NoWire} :
        w \in Wires /\ wire' = [wire EXCEPT ![c] = w] /\ (wire[c].at = "back" => w = Bridge!NoWire)
  BY <1>1, <1>2, ReadStep
<1>5. PICK reading \in Bridge!Readings(c) :
        IF reading = "unusable" THEN Bridge!To(c, "failed", "none") ELSE Bridge!To(c, "ended", reading)
  BY DEF Bridge!ReceiveRevoke
<1>6. RevokerOK(bridgeCall[c], w, cache) /\ LateOK(bridgeCall[c], w, cache)
  BY <1>3, <1>4, NoWireOK DEF RevokerOK, LateOK
<1>7. CASE reading = "unusable"
  <2>1. Bridge!To(c, "failed", "none")
    BY <1>5, <1>7
  <2>2. Fits(c, "failed", "none", w)
    BY <1>1, <1>6 DEF Fits, RequestOK, RevokerOK, LateOK
  <2>. QED BY <1>1, <1>2, <1>4, <2>1, <2>2, ContainerStep DEF BridgePcs, Tolds
<1>8. CASE reading # "unusable"
  <2>1. Bridge!To(c, "ended", reading)
    BY <1>5, <1>8
  <2>2. reading = wire[c].answer /\ reading \in Tolds
    BY <1>1, <1>8, ReadingOK
  <2>3. Fits(c, "ended", reading, w)
    BY <1>1, <1>3, <1>6, <2>2 DEF Fits, RequestOK, RevokerOK, LateOK
  <2>. QED BY <1>1, <1>2, <1>4, <2>1, <2>2, <2>3, ContainerStep DEF BridgePcs
<1>. QED BY <1>7, <1>8

\* A wire with that answer, and that decision, is sound.
AnswerOK(c, at, answer, d, kept) ==
  \A w \in Wires : w.op = wire[c].op /\ w.at = at /\ w.answer = answer /\ w.decision = wire[c].decision
                   => RequestOK(c, bridgeCall[c], w, d, kept, clock)

\* A step of the Worker.
LEMMA WorkerStep ==
  ASSUME BridgeNumbers, BridgeInv, NEW c \in Bridge!Requests, NEW at \in {"done", "back"}, NEW answer \in Answers,
         Bridge!Answer(c, at, answer), bridgeCall' = bridgeCall, clock' = clock, skew' = skew, env' = env,
         NEW d \in Bridge!Misses \cup {"none", "hit"}, decided' = [decided EXCEPT ![c] = d],
         cache' \in {"empty", "stored", "revoked"}, cache = "revoked" => cache' = "revoked",
         AnswerOK(c, at, answer, d, cache')
  PROVE  BridgeInv'
PROOF
<1>1. PICK w \in Wires :
        /\ wire' = [wire EXCEPT ![c] = w] /\ w.op = wire[c].op /\ w.at = at /\ w.answer = answer
        /\ w.decision = wire[c].decision
  BY AnswerStep
<1>2. bridgeCall' = [bridgeCall EXCEPT ![c] = bridgeCall[c]] /\ bridgeCall[c] \in BridgeCalls
  BY BridgeCall
<1>3. RequestOK(c, bridgeCall[c], w, d, cache', clock)
  BY <1>1 DEF AnswerOK
<1>. QED BY <1>1, <1>2, <1>3, BridgeStep

\* The Worker answers without a look at the cache.
LEMMA ReplyKeeps ==
  ASSUME BridgeNumbers, BridgeInv, NEW c \in Bridge!Requests, NEW answer \in {wire[c].answer, "refused"},
         answer = "refused" \/ wire[c].at = "done",
         Bridge!Answer(c, "back", answer), bridgeCall' = bridgeCall, decided' = decided, Bridge!Others
  PROVE  BridgeInv'
PROOF
<1>1. /\ RequestOK(c, bridgeCall[c], wire[c], decided[c], cache, clock) /\ answer \in Answers
      /\ decided[c] \in Bridge!Misses \cup {"none", "hit"}
  BY BridgeCall DEF Answers
<1>2. AnswerOK(c, "back", answer, decided[c], cache)
  BY <1>1 DEF AnswerOK, RequestOK, ParseOK, RevokerOK, LateOK
<1>3. decided' = [decided EXCEPT ![c] = decided[c]]
  BY BridgeCall
<1>4. /\ clock' = clock /\ skew' = skew /\ env' = env
      /\ cache' \in {"empty", "stored", "revoked"} /\ (cache = "revoked" => cache' = "revoked")
      /\ AnswerOK(c, "back", answer, decided[c], cache')
  BY <1>2, BridgeParts DEF Bridge!Others
<1>. QED BY <1>1, <1>3, <1>4, WorkerStep

\* Refuse and Respond.
LEMMA RefuseKeeps ==
  ASSUME BridgeNumbers, BridgeInv, NEW c \in Bridge!Requests, Bridge!Refuse(c) \/ Bridge!Respond(c)
  PROVE  BridgeInv'
PROOF
<1>1. bridgeCall' = bridgeCall /\ decided' = decided /\ Bridge!Others
  BY DEF Bridge!Refuse, Bridge!Respond
<1>2. CASE Bridge!Refuse(c)
  BY <1>1, <1>2, ReplyKeeps DEF Bridge!Refuse
<1>3. CASE Bridge!Respond(c)
  <2>1. PICK answer \in {wire[c].answer, "refused"} : Bridge!Answer(c, "back", answer)
    BY <1>3 DEF Bridge!Respond
  <2>. QED BY <1>1, <1>3, <2>1, ReplyKeeps DEF Bridge!Respond
<1>. QED BY <1>2, <1>3

\* ExecuteLookup: what is answered is what is decided, and never a hit on a
\* revoked source.
LEMMA ExecuteLookupKeeps ==
  ASSUME BridgeNumbers, BridgeInv, NEW c \in Parses, Bridge!ExecuteLookup(c)
  PROVE  BridgeInv'
PROOF
<1>1. c \in Bridge!Requests /\ c \notin Revokers
  BY DEF Bridge!Requests, BridgeNumbers
<1>2. PICK result : /\ result \in {Bridge!LookupResult(bridgeCall[c].mode), "fault"}
                    /\ Bridge!Execute(c, result, cache) /\ decided' = [decided EXCEPT ![c] = result]
  BY DEF Bridge!ExecuteLookup
<1>3. bridgeCall[c].mode \in {"use", "refresh", "bypass"} /\ env \in {"ok", "disabled", "broken"}
  BY <1>1, BridgeCall, BridgeParts DEF BridgeCalls
<1>4. result \in Bridge!Misses \cup {"hit"} /\ (cache = "revoked" => result # "hit")
  BY <1>2, <1>3 DEF Bridge!LookupResult, Bridge!Misses
<1>5. ParseOK(bridgeCall[c], wire[c], decided[c], clock) /\ LateOK(bridgeCall[c], wire[c], cache) /\ wire[c].op = "lookup"
  BY <1>1, BridgeCall DEF RequestOK, Bridge!ExecuteLookup
<1>6. AnswerOK(c, "done", result, result, cache)
  BY <1>1, <1>4, <1>5 DEF AnswerOK, RequestOK, ParseOK, LateOK, Bridge!Misses
<1>7. /\ Bridge!Answer(c, "done", result) /\ cache' = cache /\ bridgeCall' = bridgeCall /\ clock' = clock /\ skew' = skew /\ env' = env
  BY <1>2 DEF Bridge!Execute
<1>8. /\ cache' \in {"empty", "stored", "revoked"} /\ (cache = "revoked" => cache' = "revoked")
      /\ AnswerOK(c, "done", result, result, cache')
  BY <1>6, <1>7, BridgeParts
<1>9. result \in Answers /\ result \in Bridge!Misses \cup {"none", "hit"}
  BY <1>4 DEF Answers
<1>. QED BY <1>1, <1>2, <1>7, <1>8, <1>9, WorkerStep

\* The Worker's commit or revocation.
LEMMA ExecuteStep ==
  ASSUME BridgeNumbers, BridgeInv, NEW c \in Bridge!Requests, NEW answer \in Answers, NEW kept,
         Bridge!Execute(c, answer, kept), decided' = decided,
         kept \in {"empty", "stored", "revoked"}, cache = "revoked" => kept = "revoked",
         AnswerOK(c, "done", answer, decided[c], kept)
  PROVE  BridgeInv'
PROOF
<1>1. /\ Bridge!Answer(c, "done", answer) /\ cache' = kept /\ bridgeCall' = bridgeCall /\ clock' = clock /\ skew' = skew /\ env' = env
  BY DEF Bridge!Execute
<1>2. decided[c] \in Bridge!Misses \cup {"none", "hit"} /\ decided' = [decided EXCEPT ![c] = decided[c]]
  BY BridgeCall
<1>. QED BY <1>1, <1>2, WorkerStep

\* ExecuteCommit: nothing is stored over a revocation.
LEMMA ExecuteCommitKeeps ==
  ASSUME BridgeNumbers, BridgeInv, NEW c \in Parses, Bridge!ExecuteCommit(c)
  PROVE  BridgeInv'
PROOF
<1>1. c \in Bridge!Requests /\ c \notin Revokers
  BY DEF Bridge!Requests, BridgeNumbers
<1>2. ParseOK(bridgeCall[c], wire[c], decided[c], clock) /\ LateOK(bridgeCall[c], wire[c], cache) /\ cache \in {"empty", "stored", "revoked"}
  BY <1>1, BridgeCall, BridgeParts DEF RequestOK
<1>3. wire[c].op = "commit" /\ decided' = decided
  BY DEF Bridge!ExecuteCommit
<1>4. CASE \E answer \in {"refused", "unstored"} : Bridge!Execute(c, answer, cache)
  <2>1. PICK answer \in {"refused", "unstored"} : Bridge!Execute(c, answer, cache)
    BY <1>4
  <2>2. AnswerOK(c, "done", answer, decided[c], cache)
    BY <1>1, <1>2, <1>3 DEF AnswerOK, RequestOK, ParseOK, LateOK
  <2>. QED BY <1>1, <1>2, <1>3, <2>1, <2>2, ExecuteStep DEF Answers
<1>5. CASE cache # "revoked" /\ Bridge!Execute(c, "stored", "stored")
  <2>1. AnswerOK(c, "done", "stored", decided[c], "stored")
    BY <1>1, <1>2, <1>3, <1>5 DEF AnswerOK, RequestOK, ParseOK, LateOK
  <2>. QED BY <1>1, <1>3, <1>5, <2>1, ExecuteStep DEF Answers
<1>. QED BY <1>4, <1>5 DEF Bridge!ExecuteCommit

\* ExecuteRevoke: "revoked" is answered of a revoked source.
LEMMA ExecuteRevokeKeeps ==
  ASSUME BridgeNumbers, BridgeInv, NEW c \in Revokers, Bridge!ExecuteRevoke(c)
  PROVE  BridgeInv'
PROOF
<1>1. c \in Bridge!Requests /\ c \notin Parses
  BY DEF Bridge!Requests, BridgeNumbers
<1>2. RevokerOK(bridgeCall[c], wire[c], cache) /\ LateOK(bridgeCall[c], wire[c], cache) /\ cache \in {"empty", "stored", "revoked"}
  BY <1>1, BridgeCall, BridgeParts DEF RequestOK
<1>3. decided' = decided
  BY DEF Bridge!ExecuteRevoke
<1>4. PICK answer \in {"missing", "revoked", "refused"}, kept \in {cache, "revoked"} :
        Bridge!Execute(c, answer, kept) /\ (answer = "revoked" => kept = "revoked")
  BY DEF Bridge!ExecuteRevoke
<1>5. answer \in Answers
  BY DEF Answers, Bridge!Misses
<1>6. AnswerOK(c, "done", answer, decided[c], kept)
  BY <1>1, <1>2, <1>4 DEF AnswerOK, RequestOK, RevokerOK, LateOK
<1>. QED BY <1>1, <1>2, <1>3, <1>4, <1>5, <1>6, ExecuteStep

\* A redeployment, another Container and the clock.
LEMMA OutsideKeeps ==
  ASSUME BridgeNumbers, BridgeInv, Bridge!Redeploy \/ Bridge!Elsewhere \/ Bridge!Tick
  PROVE  BridgeInv'
PROOF
<1>1. bridgeCall' = bridgeCall /\ wire' = wire /\ decided' = decided
  BY DEF Bridge!Redeploy, Bridge!Elsewhere, Bridge!Tick
<1>2. /\ clock \in 0..MaxNow /\ clock \in Nat /\ MaxNow \in Nat /\ skew \in Skews /\ env \in {"ok", "disabled", "broken"}
      /\ cache \in {"empty", "stored", "revoked"}
  BY BridgeParts DEF BridgeNumbers
<1>3. /\ clock' \in 0..MaxNow /\ clock' >= clock /\ skew' \in Skews /\ env' \in {"ok", "disabled", "broken"}
      /\ cache' \in {"empty", "stored", "revoked"} /\ (cache = "revoked" => cache' = "revoked")
  BY <1>2 DEF Bridge!Redeploy, Bridge!Elsewhere, Bridge!Tick
<1>4. Bridge!TypeOK'
  BY <1>1, <1>3 DEF BridgeInv, Bridge!TypeOK
<1>5. ASSUME NEW c \in Bridge!Requests
      PROVE  RequestOK(c, bridgeCall[c], wire[c], decided[c], cache', clock')
  <2>1. RequestOK(c, bridgeCall[c], wire[c], decided[c], cache, clock) /\ bridgeCall[c].deadline \in Nat
    BY BridgeCall
  <2>. QED BY <1>2, <1>3, <2>1 DEF RequestOK, ParseOK, RevokerOK, LateOK
<1>. QED BY <1>1, <1>4, <1>5 DEF BridgeInv

\* Nothing was looked up at first.
LEMMA BridgeInit == BridgeNumbers /\ Bridge!Init => BridgeInv
PROOF
<1>. SUFFICES ASSUME BridgeNumbers, Bridge!Init PROVE BridgeInv
  OBVIOUS
<1>1. Bridge!Idle \in BridgeCalls /\ Bridge!Idle.pc = "idle" /\ Bridge!Idle.told = "none" /\ ~Bridge!Idle.late
  BY DEF Bridge!Idle, BridgeCalls
<1>2. /\ clock = 0 /\ skew \in Skews /\ env \in {"ok", "disabled", "broken"} /\ cache = "empty"
      /\ bridgeCall = [c \in Bridge!Requests |-> Bridge!Idle] /\ wire = [c \in Bridge!Requests |-> Bridge!NoWire]
      /\ decided = [c \in Bridge!Requests |-> "none"]
  BY DEF Bridge!Init
<1>. HIDE DEF Bridge!Idle, Bridge!NoWire
<1>3. bridgeCall \in [Bridge!Requests -> BridgeCalls] /\ wire \in [Bridge!Requests -> Wires] /\ 0 \in 0..MaxNow
  BY <1>1, <1>2, NoWireOK DEF BridgeNumbers
<1>4. Bridge!TypeOK
  BY <1>2, <1>3 DEF Bridge!TypeOK, BridgeCalls, Wires
<1>5. \A c \in Bridge!Requests : RequestOK(c, bridgeCall[c], wire[c], decided[c], cache, clock)
  BY <1>1, <1>2, NoWireOK DEF RequestOK, ParseOK, RevokerOK, LateOK
<1>. QED BY <1>4, <1>5 DEF BridgeInv

\* Every step keeps the bridge's invariant.
LEMMA BridgeNext == BridgeNumbers /\ BridgeInv /\ [Bridge!Next]_(Bridge!vars) => BridgeInv'
PROOF
<1>. SUFFICES ASSUME BridgeNumbers, BridgeInv, [Bridge!Next]_(Bridge!vars) PROVE BridgeInv'
  OBVIOUS
<1>1. ASSUME NEW c \in Parses, Bridge!StartLookup(c) PROVE BridgeInv'
  BY <1>1, StartKeeps DEF Bridge!StartLookup, Bridge!Requests, BridgeNumbers
<1>2. ASSUME NEW c \in Revokers, Bridge!StartRevoke(c) PROVE BridgeInv'
  BY <1>2, StartKeeps DEF Bridge!StartRevoke, Bridge!Requests, BridgeNumbers
<1>3. CASE UNCHANGED Bridge!vars
  BY <1>3 DEF Bridge!vars, BridgeInv, Bridge!TypeOK
<1>. QED BY <1>1, <1>2, <1>3, ReceiveLookupKeeps, CommitKeeps, ReceiveCommitKeeps, ExecuteLookupKeeps,
            ExecuteCommitKeeps, ReceiveRevokeKeeps, ExecuteRevokeKeeps, AbortKeeps, RefuseKeeps, OutsideKeeps
         DEF Bridge!Next

\* What the bridge keeps, in every state.
THEOREM BridgeInvariance == ASSUME BridgeNumbers PROVE Bridge!Spec => []BridgeInv
PROOF
<1>1. Bridge!Init => BridgeInv
  BY BridgeInit
<1>2. BridgeInv /\ [Bridge!Next]_(Bridge!vars) => BridgeInv'
  BY BridgeNext
<1>. QED BY <1>1, <1>2, PTL DEF Bridge!Spec

\* Every message between the container and the Worker keeps its shape, whatever is
\* delayed or deployed anew (RemoteDocumentCacheRuntime, executeDocumentCacheOutbound).
THEOREM BridgeTyped == ASSUME BridgeNumbers PROVE Bridge!Spec => []Bridge!TypeOK
PROOF
<1>1. BridgeInv => Bridge!TypeOK
  BY DEF BridgeInv
<1>. QED BY <1>1, BridgeInvariance, PTL

\* A parse that fails was cancelled or came to its deadline: lookup() and commit()
\* answer every fault of the bridge with a miss or an unstored result.
THEOREM CacheNeverFails == ASSUME BridgeNumbers PROVE Bridge!Spec => []Bridge!CacheNeverFailsAParse
PROOF
<1>1. BridgeInv => Bridge!CacheNeverFailsAParse
  BY DEF BridgeInv, RequestOK, ParseOK, Bridge!CacheNeverFailsAParse, Bridge!Over, Bridge!Requests
<1>. QED BY <1>1, BridgeInvariance, PTL

\* A commit carries the decision the Worker made for this parse, and none that
\* was lost on the way (validateCommitDisposition).
THEOREM DecidedBefore == ASSUME BridgeNumbers PROVE Bridge!Spec => []Bridge!CommitsAreDecided
PROOF
<1>1. BridgeInv => Bridge!CommitsAreDecided
  BY DEF BridgeInv, RequestOK, ParseOK, Bridge!CommitsAreDecided, Bridge!Requests
<1>. QED BY <1>1, BridgeInvariance, PTL

\* After an acknowledged revocation the source stays revoked, and no parse that
\* begins then is given a hit or stores its own.
THEOREM RevocationHolds == ASSUME BridgeNumbers PROVE Bridge!Spec => []Bridge!AcknowledgedRevocation
PROOF
<1>1. BridgeInv => Bridge!AcknowledgedRevocation
  BY DEF BridgeInv, RequestOK, RevokerOK, LateOK, Bridge!AcknowledgedRevocation, Bridge!Requests
<1>. QED BY <1>1, BridgeInvariance, PTL

-----------------------------------------------------------------------------
\* The in-memory cache of one owner, for any keys, sources and nesting of calls
\* (MemoryDocumentCache).
\* Cardinality is the same function in the instance.
LEMMA MemoryCardinality == \A S : Entries!Cardinality(S) = Cardinality(S)
BY Zenon DEF Entries!Cardinality, Cardinality

\* A source that is bound, and whose binding is revoked.
BarredIn(e, s) == Entries!HasBinding(e, s) /\ \A i \in DOMAIN e.bindings : Entries!FirstBinding(e, s, i) => e.bindings[i].revoked

\* What a call that nothing interrupted read is still so.
ReadHolds(c) ==
  /\ c.branch = "append" => /\ c.key \in Entries!Stored /\ ~Entries!Expired(entries[c.key], c.now) /\ ~Entries!HasBinding(entries[c.key], c.s)
  /\ c.branch = "create" => c.key \notin Entries!Stored \/ Entries!Expired(entries[c.key], c.now)

\* Only the innermost call may be alone.
StackSound ==
  \A i \in 1..Len(stack) : /\ stack[i].now <= stack[i].ends
                           /\ stack[i].alone => i = Len(stack) /\ ReadHolds(stack[i])

MemoryInv ==
  /\ clock \in Nat /\ entries \in [Keys -> Entries!Entry] /\ stack \in Seq(Entries!Call) /\ stored \in Seq(Entries!Call)
  /\ barred \in [Keys -> SUBSET Identities]
  /\ \A k \in Keys : \A s \in barred[k] : BarredIn(entries[k], s)
  /\ StackSound
  /\ Entries!StoredIsThere

\* Numbers have a least one.
LEMMA LeastOf == ASSUME NEW C \in SUBSET Nat, C # {} PROVE \E c \in C : \A d \in C : c <= d
PROOF
<1>1. IsWellFoundedOn(OpToRel(<, Nat), Nat)
  BY NatLessThanWellFounded
<1>2. PICK c \in C : \A d \in C : ~(<<d, c>> \in OpToRel(<, Nat))
  BY <1>1, WFMin
<1>3. \A d \in C : d \in Nat /\ c \in Nat /\ ~(d < c)
  BY <1>2 DEF OpToRel
<1>4. \A d \in C : c <= d
  BY <1>3
<1>. QED BY <1>4

\* A source that is bound has a first binding.
LEMMA FirstExists ==
  ASSUME NEW e, e.bindings \in Seq(Entries!Binding), NEW s, Entries!HasBinding(e, s)
  PROVE  \E i \in DOMAIN e.bindings : Entries!FirstBinding(e, s, i)
PROOF
<1>. DEFINE I == {i \in Nat : i \in DOMAIN e.bindings /\ e.bindings[i].s = s}
<1>1. DOMAIN e.bindings = 1..Len(e.bindings) /\ Len(e.bindings) \in Nat
  OBVIOUS
<1>2. I # {}
  BY <1>1 DEF Entries!HasBinding
<1>3. IsWellFoundedOn(OpToRel(<, Nat), Nat)
  BY NatLessThanWellFounded
<1>4. PICK i \in I : \A j \in I : ~(<<j, i>> \in OpToRel(<, Nat))
  BY <1>2, <1>3, WFMin
<1>5. \A j \in I : ~(j < i)
  BY <1>4 DEF OpToRel
<1>6. \A j \in 1..(i - 1) : j \in Nat /\ j \in DOMAIN e.bindings /\ j < i
  BY <1>1
<1>. QED BY <1>5, <1>6 DEF Entries!FirstBinding

\* The entry a set() makes room with is one of the store's.
LEMMA OldestThere ==
  ASSUME entries \in [Keys -> Entries!Entry], Entries!Stored # {}
  PROVE  Entries!Oldest \in Entries!Stored
PROOF
<1>. DEFINE C == {entries[k].created : k \in Entries!Stored}
<1>1. C \subseteq Nat /\ C # {} /\ \A k \in Entries!Stored : entries[k].created \in Nat /\ entries[k].place \in Nat
  BY DEF Entries!Stored, Entries!Entry
<1>2. PICK c \in C : \A d \in C : c <= d
  BY <1>1, LeastOf
<1>. DEFINE P == {entries[k].place : k \in {x \in Entries!Stored : entries[x].created = c}}
<1>3. P \subseteq Nat /\ P # {}
  BY <1>1
<1>4. PICK p \in P : \A q \in P : p <= q
  BY <1>3, LeastOf
<1>5. PICK k \in Entries!Stored : entries[k].created = c /\ entries[k].place = p
  BY <1>4
<1>. DEFINE before(o) == entries[k].created < entries[o].created \/ (entries[k].created = entries[o].created /\ entries[k].place <= entries[o].place)
<1>6. \A o \in Entries!Stored : before(o)
  <2>1. ASSUME NEW o \in Entries!Stored PROVE before(o)
    <3>1. c <= entries[o].created /\ c \in Nat /\ entries[o].created \in Nat
      BY <1>1, <1>2
    <3>2. CASE entries[o].created = c
      BY <1>4, <1>5, <3>2
    <3>3. CASE entries[o].created # c
      BY <1>5, <3>1, <3>3
    <3>. QED BY <3>2, <3>3
  <2>. QED BY <2>1
<1>. QED BY <1>6 DEF Entries!Oldest

\* The Map without some of its entries.
LEMMA OnlyFacts ==
  ASSUME MemoryNumbers, entries \in [Keys -> Entries!Entry], NEW kept \in SUBSET Entries!Stored
  PROVE  /\ Entries!Only(kept) \in [Keys -> Entries!Entry]
         /\ \A k \in kept : Entries!Only(kept)[k].bindings = entries[k].bindings /\ Entries!Only(kept)[k].ends = entries[k].ends
         /\ \A k \in Keys \ kept : Entries!Only(kept)[k] = Entries!NoEntry
PROOF
<1>. DEFINE rank(k) == Entries!Cardinality({o \in kept : entries[o].place < entries[k].place})
            one(k) == IF k \notin kept THEN Entries!NoEntry ELSE [entries[k] EXCEPT !.place = rank(k)]
<1>1. \A k \in Keys : rank(k) \in Nat
  <2>1. ASSUME NEW k \in Keys PROVE rank(k) \in Nat
    <3>1. {o \in kept : entries[o].place < entries[k].place} \subseteq Keys
      BY DEF Entries!Stored
    <3>. QED BY <3>1, FS_Subset, FS_CardinalityType, MemoryCardinality DEF MemoryNumbers
  <2>. QED BY <2>1
<1>2. Entries!NoEntry \in Entries!Entry
  <2>1. <<>> \in Seq(Entries!Binding)
    OBVIOUS
  <2>. QED BY <2>1 DEF Entries!NoEntry, Entries!Entry
<1>3. Entries!Only(kept) = [k \in Keys |-> one(k)]
  BY DEF Entries!Only
<1>4. kept \subseteq Keys
  BY DEF Entries!Stored
<1>. HIDE DEF rank
<1>5. \A k \in kept : one(k) \in Entries!Entry /\ one(k).bindings = entries[k].bindings /\ one(k).ends = entries[k].ends
  BY <1>1, <1>4 DEF Entries!Entry
<1>6. \A k \in Keys \ kept : one(k) = Entries!NoEntry
  OBVIOUS
<1>. HIDE DEF one
<1>. QED BY <1>2, <1>3, <1>4, <1>5, <1>6

\* The Map with one entry put in it.
LEMMA PutFacts ==
  ASSUME MemoryNumbers, entries \in [Keys -> Entries!Entry], NEW map \in [Keys -> Entries!Entry], NEW k \in Keys, NEW e \in Entries!Entry
  PROVE  /\ Entries!Put(map, k, e) \in [Keys -> Entries!Entry]
         /\ Entries!Put(map, k, e)[k].bindings = e.bindings /\ Entries!Put(map, k, e)[k].ends = e.ends
         /\ \A x \in Keys \ {k} : Entries!Put(map, k, e)[x] = map[x]
PROOF
<1>. DEFINE place == IF k \in Entries!Stored THEN entries[k].place ELSE Entries!Cardinality({o \in Keys : map[o] # Entries!NoEntry})
            one == [e EXCEPT !.place = place]
<1>1. Entries!Cardinality({o \in Keys : map[o] # Entries!NoEntry}) \in Nat
  BY FS_Subset, FS_CardinalityType, MemoryCardinality DEF MemoryNumbers
<1>2. place \in Nat
  BY <1>1 DEF Entries!Entry
<1>3. Entries!Put(map, k, e) = [map EXCEPT ![k] = one]
  BY DEF Entries!Put
<1>. HIDE DEF place
<1>4. one \in Entries!Entry /\ one.bindings = e.bindings /\ one.ends = e.ends
  BY <1>2 DEF Entries!Entry
<1>. HIDE DEF one
<1>. QED BY <1>3, <1>4

\* A set with one more element.
LEMMA OneMore ==
  ASSUME NEW S, IsFiniteSet(S), NEW x
  PROVE  IsFiniteSet(S \cup {x}) /\ Entries!Cardinality(S \cup {x}) <= Entries!Cardinality(S) + 1
PROOF
<1>1. IsFiniteSet(S \cup {x}) /\ Entries!Cardinality(S \cup {x}) = IF x \in S THEN Entries!Cardinality(S) ELSE Entries!Cardinality(S) + 1
  BY FS_AddElement, MemoryCardinality
<1>2. Entries!Cardinality(S) \in Nat
  BY FS_CardinalityType, MemoryCardinality
<1>3. Entries!Cardinality(S \cup {x}) <= Entries!Cardinality(S) + 1
  BY <1>1, <1>2
<1>. QED BY <1>1, <1>3

\* What set() leaves of the other entries: their bindings, or nothing.
Others(m, k) ==
  \A x \in Keys \ {k} : m[x] = Entries!NoEntry \/ (x \in Entries!Stored /\ m[x].bindings = entries[x].bindings)

\* set() of an entry with a binding: there is always room.
LEMMA SetFacts ==
  ASSUME MemoryNumbers, entries \in [Keys -> Entries!Entry], Entries!Cardinality(Entries!Stored) <= MaxEntries, NEW k \in Keys, NEW e \in Entries!Entry
  PROVE  /\ Entries!SetEntry(k, e) \in [Keys -> Entries!Entry]
         /\ Entries!SetEntry(k, e)[k].bindings = e.bindings /\ Entries!SetEntry(k, e)[k].ends = e.ends
         /\ Others(Entries!SetEntry(k, e), k)
         /\ Entries!Cardinality({x \in Keys : Entries!SetEntry(k, e)[x] # Entries!NoEntry}) <= MaxEntries
PROOF
<1>. DEFINE m == Entries!SetEntry(k, e)
            left == {x \in Keys : m[x] # Entries!NoEntry}
<1>1. Entries!Stored \subseteq Keys /\ IsFiniteSet(Entries!Stored) /\ Entries!Cardinality(Entries!Stored) \in Nat /\ MaxEntries \in Nat \ {0}
  BY FS_Subset, FS_CardinalityType, MemoryCardinality DEF Entries!Stored, MemoryNumbers
<1>2. CASE k \notin Entries!Stored /\ Entries!Cardinality(Entries!Stored) >= MaxEntries
  <2>. DEFINE kept == Entries!Stored \ {Entries!Oldest}
  <2>1. Entries!Stored # {}
    BY <1>1, <1>2, FS_EmptySet, MemoryCardinality
  <2>2. Entries!Oldest \in Entries!Stored
    BY <2>1, OldestThere
  <2>3. IsFiniteSet(kept) /\ Entries!Cardinality(kept) = Entries!Cardinality(Entries!Stored) - 1
    BY <1>1, <2>2, FS_RemoveElement, MemoryCardinality
  <2>4. kept \in SUBSET Entries!Stored
    OBVIOUS
  <2>. HIDE DEF kept
  <2>5. /\ Entries!Only(kept) \in [Keys -> Entries!Entry]
        /\ \A x \in kept : Entries!Only(kept)[x].bindings = entries[x].bindings
        /\ \A x \in Keys \ kept : Entries!Only(kept)[x] = Entries!NoEntry
    BY <2>4, OnlyFacts
  <2>6. m = Entries!Put(Entries!Only(kept), k, e)
    BY <1>2 DEF Entries!SetEntry, kept
  <2>. HIDE DEF m
  <2>7. /\ m \in [Keys -> Entries!Entry] /\ m[k].bindings = e.bindings /\ m[k].ends = e.ends
        /\ \A x \in Keys \ {k} : m[x] = Entries!Only(kept)[x]
    <3>. DEFINE map == Entries!Only(kept)
    <3>1. map \in [Keys -> Entries!Entry] /\ m = Entries!Put(map, k, e)
      BY <2>5, <2>6
    <3>. HIDE DEF map
    <3>2. /\ Entries!Put(map, k, e) \in [Keys -> Entries!Entry]
          /\ Entries!Put(map, k, e)[k].bindings = e.bindings /\ Entries!Put(map, k, e)[k].ends = e.ends
          /\ \A x \in Keys \ {k} : Entries!Put(map, k, e)[x] = map[x]
      BY <3>1, PutFacts
    <3>3. /\ m \in [Keys -> Entries!Entry] /\ m[k].bindings = e.bindings /\ m[k].ends = e.ends
          /\ \A x \in Keys \ {k} : m[x] = map[x]
      BY <3>1, <3>2
    <3>. QED BY <3>3 DEF map
  <2>8. Others(m, k)
    BY <2>4, <2>5, <2>7 DEF Others
  <2>9. left \subseteq kept \cup {k}
    BY <2>5, <2>7
  <2>10. Entries!Cardinality(left) <= MaxEntries
    <3>1. IsFiniteSet(kept \cup {k}) /\ Entries!Cardinality(kept \cup {k}) <= Entries!Cardinality(kept) + 1
      BY <2>3, OneMore
    <3>2. Entries!Cardinality(left) <= Entries!Cardinality(kept \cup {k}) /\ Entries!Cardinality(left) \in Nat /\ Entries!Cardinality(kept \cup {k}) \in Nat
      BY <2>9, <3>1, FS_Subset, FS_CardinalityType, MemoryCardinality
    <3>. QED BY <1>1, <2>3, <3>1, <3>2
  <2>. QED BY <2>7, <2>8, <2>10 DEF m
<1>3. CASE ~(k \notin Entries!Stored /\ Entries!Cardinality(Entries!Stored) >= MaxEntries)
  <2>1. m = Entries!Put(entries, k, e)
    BY <1>3 DEF Entries!SetEntry
  <2>2. /\ m \in [Keys -> Entries!Entry] /\ m[k].bindings = e.bindings /\ m[k].ends = e.ends
        /\ \A x \in Keys \ {k} : m[x] = entries[x]
    BY <2>1, PutFacts
  <2>. HIDE DEF m
  <2>3. Others(m, k)
    BY <2>2 DEF Others, Entries!Stored
  <2>4. left \subseteq Entries!Stored \cup {k}
    BY <2>2 DEF Entries!Stored
  <2>5. IsFiniteSet(Entries!Stored \cup {k}) /\ Entries!Cardinality(Entries!Stored \cup {k}) <= MaxEntries
    <3>1. CASE k \in Entries!Stored
      <4>1. Entries!Stored \cup {k} = Entries!Stored
        BY <3>1
      <4>. QED BY <1>1, <4>1
    <3>2. CASE k \notin Entries!Stored
      <4>1. Entries!Cardinality(Entries!Stored) + 1 <= MaxEntries
        BY <1>1, <1>3, <3>2
      <4>2. IsFiniteSet(Entries!Stored \cup {k}) /\ Entries!Cardinality(Entries!Stored \cup {k}) <= Entries!Cardinality(Entries!Stored) + 1
        BY <1>1, OneMore
      <4>3. Entries!Cardinality(Entries!Stored \cup {k}) \in Nat
        BY <4>2, FS_CardinalityType, MemoryCardinality
      <4>. QED BY <1>1, <4>1, <4>2, <4>3
    <3>. QED BY <3>1, <3>2
  <2>6. Entries!Cardinality(left) <= Entries!Cardinality(Entries!Stored \cup {k}) /\ Entries!Cardinality(left) \in Nat /\ Entries!Cardinality(Entries!Stored \cup {k}) \in Nat
    BY <2>4, <2>5, FS_Subset, FS_CardinalityType, MemoryCardinality
  <2>7. Entries!Cardinality(left) <= MaxEntries
    BY <1>1, <2>5, <2>6
  <2>. QED BY <2>2, <2>3, <2>7 DEF m
<1>. QED BY <1>2, <1>3

\* The bindings of an entry are all that binds or bars a source.
LEMMA SameBindings ==
  ASSUME NEW e, NEW f, NEW s, f.bindings = e.bindings
  PROVE  /\ Entries!HasBinding(f, s) <=> Entries!HasBinding(e, s)
         /\ BarredIn(f, s) <=> BarredIn(e, s)
         /\ Entries!CanSourceHitCache(f, s) <=> Entries!CanSourceHitCache(e, s)
BY Zenon DEF BarredIn, Entries!HasBinding, Entries!FirstBinding, Entries!CanSourceHitCache

\* A barred source does not hit.
LEMMA BarredMisses == \A e, s : BarredIn(e, s) => ~Entries!CanSourceHitCache(e, s)
BY DEF BarredIn, Entries!CanSourceHitCache

\* An appended binding is behind the others.
LEMMA AppendFacts ==
  ASSUME NEW e, e.bindings \in Seq(Entries!Binding), NEW f, NEW c \in Identities,
         f.bindings = Append(e.bindings, [s |-> c, revoked |-> FALSE])
  PROVE  /\ f.bindings \in Seq(Entries!Binding)
         /\ \A s : BarredIn(e, s) => BarredIn(f, s)
         /\ ~Entries!HasBinding(e, c) => Entries!CanSourceHitCache(f, c)
PROOF
<1>. DEFINE b == [s |-> c, revoked |-> FALSE]
            n == Len(e.bindings)
<1>1. b \in Entries!Binding /\ b.s = c /\ b.revoked = FALSE
  BY DEF Entries!Binding
<1>2. n \in Nat /\ DOMAIN e.bindings = 1..n
  OBVIOUS
<1>. HIDE DEF b
<1>3. /\ f.bindings \in Seq(Entries!Binding) /\ DOMAIN f.bindings = 1..(n + 1)
      /\ \A i \in 1..n : f.bindings[i] = e.bindings[i]
      /\ f.bindings[n + 1] = b
  BY <1>1 DEF b
<1>. HIDE DEF n
<1>4. ASSUME NEW s, BarredIn(e, s) PROVE BarredIn(f, s)
  <2>1. PICK i \in 1..n : e.bindings[i].s = s
    BY <1>2, <1>4 DEF BarredIn, Entries!HasBinding
  <2>2. Entries!HasBinding(f, s)
    BY <1>2, <1>3, <2>1 DEF Entries!HasBinding
  <2>3. ASSUME NEW j \in DOMAIN f.bindings, Entries!FirstBinding(f, s, j) PROVE f.bindings[j].revoked
    <3>1. j # n + 1
      <4>1. i \in 1..((n + 1) - 1)
        BY <1>2
      <4>2. f.bindings[i].s = s
        BY <1>3, <2>1
      <4>3. ASSUME j = n + 1 PROVE f.bindings[i].s # s
        BY <2>3, <4>1, <4>3 DEF Entries!FirstBinding
      <4>. QED BY <4>2, <4>3
    <3>2. j \in 1..n /\ \A x \in 1..(j - 1) : x \in 1..n
      BY <1>2, <1>3, <3>1
    <3>3. Entries!FirstBinding(e, s, j)
      BY <1>3, <2>3, <3>2 DEF Entries!FirstBinding
    <3>. QED BY <1>2, <1>3, <1>4, <3>2, <3>3 DEF BarredIn
  <2>. QED BY <2>2, <2>3 DEF BarredIn
<1>5. ASSUME ~Entries!HasBinding(e, c) PROVE Entries!CanSourceHitCache(f, c)
  <2>1. \A i \in 1..n : e.bindings[i].s # c
    BY <1>2, <1>5 DEF Entries!HasBinding
  <2>2. n + 1 \in DOMAIN f.bindings /\ \A i \in 1..((n + 1) - 1) : i \in 1..n
    BY <1>2, <1>3
  <2>3. f.bindings[n + 1].s = c /\ \A i \in 1..((n + 1) - 1) : f.bindings[i].s # c
    BY <1>1, <1>3, <2>1, <2>2
  <2>4. Entries!FirstBinding(f, c, n + 1)
    BY <2>3 DEF Entries!FirstBinding
  <2>. QED BY <1>1, <1>3, <2>2, <2>4 DEF Entries!CanSourceHitCache
<1>. QED BY <1>3, <1>4, <1>5

\* A function over the first numbers is a sequence.
LEMMA ListOf ==
  ASSUME NEW n \in Nat, NEW g \in [1..n -> Entries!Binding]
  PROVE  g \in Seq(Entries!Binding) /\ DOMAIN g = 1..n
OBVIOUS

\* A refresh replaces the bindings of its source, or appends one.
LEMMA RefreshFacts ==
  ASSUME NEW e, e.bindings \in Seq(Entries!Binding), NEW f, NEW c \in Identities,
         f.bindings = IF Entries!HasBinding(e, c)
                      THEN [i \in DOMAIN e.bindings |-> IF e.bindings[i].s = c THEN [s |-> c, revoked |-> FALSE] ELSE e.bindings[i]]
                      ELSE Append(e.bindings, [s |-> c, revoked |-> FALSE])
  PROVE  /\ f.bindings \in Seq(Entries!Binding)
         /\ \A s : s # c /\ BarredIn(e, s) => BarredIn(f, s)
         /\ Entries!CanSourceHitCache(f, c)
PROOF
<1>1. CASE ~Entries!HasBinding(e, c)
  BY <1>1, AppendFacts
<1>2. CASE Entries!HasBinding(e, c)
  <2>. DEFINE b == [s |-> c, revoked |-> FALSE]
              n == Len(e.bindings)
  <2>1. b \in Entries!Binding /\ b.s = c /\ b.revoked = FALSE
    BY DEF Entries!Binding
  <2>2. n \in Nat /\ DOMAIN e.bindings = 1..n /\ \A i \in 1..n : e.bindings[i] \in Entries!Binding
    OBVIOUS
  <2>3. f.bindings = [i \in 1..n |-> IF e.bindings[i].s = c THEN b ELSE e.bindings[i]]
    BY <1>2, <2>2
  <2>. HIDE DEF b, n
  <2>4. /\ f.bindings \in Seq(Entries!Binding) /\ DOMAIN f.bindings = 1..n
        /\ \A i \in 1..n : IF e.bindings[i].s = c THEN f.bindings[i] = b ELSE f.bindings[i] = e.bindings[i]
    <3>. DEFINE g(i) == IF e.bindings[i].s = c THEN b ELSE e.bindings[i]
    <3>1. \A i \in 1..n : g(i) \in Entries!Binding
      BY <2>1, <2>2
    <3>2. f.bindings = [i \in 1..n |-> g(i)]
      BY <2>3
    <3>. HIDE DEF g
    <3>3. f.bindings \in [1..n -> Entries!Binding] /\ \A i \in 1..n : f.bindings[i] = g(i)
      BY <3>1, <3>2
    <3>4. f.bindings \in Seq(Entries!Binding) /\ DOMAIN f.bindings = 1..n
      BY <2>2, <3>3, ListOf
    <3>. QED BY <3>3, <3>4 DEF g
  <2>5. \A i \in 1..n : f.bindings[i].s = e.bindings[i].s
    BY <2>1, <2>4
  <2>6. ASSUME NEW s PROVE /\ Entries!HasBinding(f, s) <=> Entries!HasBinding(e, s)
                           /\ \A i \in 1..n : Entries!FirstBinding(f, s, i) <=> Entries!FirstBinding(e, s, i)
    <3>1. Entries!HasBinding(f, s) <=> Entries!HasBinding(e, s)
      BY <2>2, <2>4, <2>5 DEF Entries!HasBinding
    <3>2. ASSUME NEW i \in 1..n PROVE Entries!FirstBinding(f, s, i) <=> Entries!FirstBinding(e, s, i)
      <4>1. \A j \in 1..(i - 1) : j \in 1..n
        BY <2>2
      <4>. QED BY <2>5, <4>1 DEF Entries!FirstBinding
    <3>. QED BY <3>1, <3>2
  <2>7. ASSUME NEW s, s # c, BarredIn(e, s) PROVE BarredIn(f, s)
    <3>1. ASSUME NEW i \in 1..n, Entries!FirstBinding(f, s, i) PROVE f.bindings[i].revoked
      <4>1. Entries!FirstBinding(e, s, i)
        BY <2>6, <3>1
      <4>2. e.bindings[i].s = s /\ e.bindings[i].revoked
        BY <2>2, <2>7, <4>1 DEF BarredIn, Entries!FirstBinding
      <4>3. f.bindings[i] = e.bindings[i]
        BY <2>4, <2>7, <4>2
      <4>. QED BY <4>2, <4>3
    <3>2. Entries!HasBinding(f, s)
      BY <2>6, <2>7 DEF BarredIn
    <3>. QED BY <2>4, <3>1, <3>2 DEF BarredIn
  <2>8. Entries!CanSourceHitCache(f, c)
    <3>1. PICK i \in DOMAIN f.bindings : Entries!FirstBinding(f, c, i)
      BY <1>2, <2>4, <2>6, FirstExists
    <3>2. f.bindings[i].s = c /\ i \in 1..n
      BY <2>4, <3>1 DEF Entries!FirstBinding
    <3>3. f.bindings[i] = b
      BY <2>4, <2>5, <3>2
    <3>. QED BY <2>1, <3>1, <3>3 DEF Entries!CanSourceHitCache
  <2>. QED BY <2>4, <2>7, <2>8
<1>. QED BY <1>1, <1>2

\* A new entry binds its source.
LEMMA BuildFacts ==
  ASSUME NEW f, NEW c \in Identities, f.bindings = <<[s |-> c, revoked |-> FALSE]>>
  PROVE  f.bindings \in Seq(Entries!Binding) /\ Entries!CanSourceHitCache(f, c)
PROOF
<1>. DEFINE b == [s |-> c, revoked |-> FALSE]
<1>1. b \in Entries!Binding /\ b.s = c /\ b.revoked = FALSE
  BY DEF Entries!Binding
<1>. HIDE DEF b
<1>2. f.bindings = <<b>>
  BY DEF b
<1>3. f.bindings \in Seq(Entries!Binding) /\ DOMAIN f.bindings = 1..1 /\ f.bindings[1] = b
  BY <1>1, <1>2
<1>4. \A j \in 1..(1 - 1) : FALSE
  OBVIOUS
<1>5. Entries!FirstBinding(f, c, 1)
  BY <1>1, <1>3, <1>4 DEF Entries!FirstBinding
<1>. QED BY <1>1, <1>3, <1>5 DEF Entries!CanSourceHitCache

\* A revocation bars its source, and every source it barred before.
LEMMA RevokeFacts ==
  ASSUME NEW e, e.bindings \in Seq(Entries!Binding), NEW f, NEW c,
         f.bindings = [i \in DOMAIN e.bindings |-> [e.bindings[i] EXCEPT !.revoked = e.bindings[i].revoked \/ e.bindings[i].s = c]]
  PROVE  /\ f.bindings \in Seq(Entries!Binding)
         /\ \A s : BarredIn(e, s) => BarredIn(f, s)
         /\ Entries!HasBinding(e, c) => BarredIn(f, c)
PROOF
<1>. DEFINE n == Len(e.bindings)
            r(i) == e.bindings[i].revoked \/ e.bindings[i].s = c
<1>1. n \in Nat /\ DOMAIN e.bindings = 1..n /\ \A i \in 1..n : e.bindings[i] \in Entries!Binding
  OBVIOUS
<1>2. f.bindings = [i \in 1..n |-> [e.bindings[i] EXCEPT !.revoked = r(i)]]
  BY <1>1
<1>3. \A i \in 1..n : r(i) \in BOOLEAN
  OBVIOUS
<1>. HIDE DEF n, r
<1>4. \A i \in 1..n : f.bindings[i] \in Entries!Binding /\ f.bindings[i].s = e.bindings[i].s /\ f.bindings[i].revoked = r(i)
  BY <1>1, <1>2, <1>3 DEF Entries!Binding
<1>5. f.bindings \in Seq(Entries!Binding) /\ DOMAIN f.bindings = 1..n
  <2>1. f.bindings \in [1..n -> Entries!Binding]
    <3>. DEFINE g(i) == [e.bindings[i] EXCEPT !.revoked = r(i)]
    <3>1. f.bindings = [i \in 1..n |-> g(i)]
      BY <1>2
    <3>. HIDE DEF g
    <3>. QED BY <1>4, <3>1
  <2>. QED BY <1>1, <2>1, ListOf
<1>6. ASSUME NEW s PROVE /\ Entries!HasBinding(f, s) <=> Entries!HasBinding(e, s)
                         /\ \A i \in 1..n : Entries!FirstBinding(f, s, i) <=> Entries!FirstBinding(e, s, i)
  <2>1. Entries!HasBinding(f, s) <=> Entries!HasBinding(e, s)
    BY <1>1, <1>4, <1>5 DEF Entries!HasBinding
  <2>2. ASSUME NEW i \in 1..n PROVE Entries!FirstBinding(f, s, i) <=> Entries!FirstBinding(e, s, i)
    <3>1. \A j \in 1..(i - 1) : j \in 1..n
      BY <1>1
    <3>. QED BY <1>4, <3>1 DEF Entries!FirstBinding
  <2>. QED BY <2>1, <2>2
<1>7. ASSUME NEW s, BarredIn(e, s) PROVE BarredIn(f, s)
  <2>1. ASSUME NEW i \in 1..n, Entries!FirstBinding(f, s, i) PROVE f.bindings[i].revoked
    <3>1. e.bindings[i].revoked
      BY <1>1, <1>6, <1>7, <2>1 DEF BarredIn
    <3>2. r(i)
      BY <3>1 DEF r
    <3>. QED BY <1>4, <3>2
  <2>2. Entries!HasBinding(f, s)
    BY <1>6, <1>7 DEF BarredIn
  <2>. QED BY <1>5, <2>1, <2>2 DEF BarredIn
<1>8. ASSUME Entries!HasBinding(e, c) PROVE BarredIn(f, c)
  <2>1. ASSUME NEW i \in 1..n, Entries!FirstBinding(f, c, i) PROVE f.bindings[i].revoked
    <3>1. e.bindings[i].s = c
      BY <1>4, <2>1 DEF Entries!FirstBinding
    <3>2. r(i)
      BY <3>1 DEF r
    <3>. QED BY <1>4, <3>2
  <2>2. Entries!HasBinding(f, c)
    BY <1>6, <1>8
  <2>. QED BY <1>5, <2>1, <2>2 DEF BarredIn
<1>. QED BY <1>5, <1>7, <1>8

\* The calls under way when something interrupted them.
LEMMA DisturbedFacts ==
  ASSUME stack \in Seq(Entries!Call)
  PROVE  /\ Entries!Disturbed \in Seq(Entries!Call) /\ Len(Entries!Disturbed) = Len(stack)
         /\ \A i \in 1..Len(stack) : /\ Entries!Disturbed[i].alone = FALSE
                                     /\ Entries!Disturbed[i].now = stack[i].now /\ Entries!Disturbed[i].ends = stack[i].ends
PROOF
<1>. DEFINE n == Len(stack)
            g(i) == [stack[i] EXCEPT !.alone = FALSE]
<1>1. n \in Nat /\ DOMAIN stack = 1..n /\ \A i \in 1..n : stack[i] \in Entries!Call
  OBVIOUS
<1>2. Entries!Disturbed = [i \in 1..n |-> g(i)]
  BY <1>1 DEF Entries!Disturbed
<1>3. \A i \in 1..n : g(i) \in Entries!Call /\ g(i).alone = FALSE /\ g(i).now = stack[i].now /\ g(i).ends = stack[i].ends
  BY <1>1 DEF Entries!Call
<1>. HIDE DEF g, n
<1>4. Entries!Disturbed \in [1..n -> Entries!Call] /\ \A i \in 1..n : Entries!Disturbed[i] = g(i)
  BY <1>2, <1>3
<1>5. Entries!Disturbed \in Seq(Entries!Call) /\ Len(Entries!Disturbed) = n
  BY <1>1, <1>4
<1>. QED BY <1>3, <1>4, <1>5 DEF n

\* No call of a stack of disturbed ones is alone.
LEMMA QuietStack ==
  ASSUME MemoryInv, Len(stack') <= Len(stack), stack' \in Seq(Entries!Call),
         \A i \in 1..Len(stack') : stack'[i] = Entries!Disturbed[i]
  PROVE  StackSound'
PROOF
<1>1. stack \in Seq(Entries!Call) /\ Len(stack) \in Nat /\ Len(stack') \in Nat
  BY DEF MemoryInv
<1>2. \A i \in 1..Len(stack') : i \in 1..Len(stack)
  BY <1>1
<1>3. \A i \in 1..Len(stack') : stack'[i].now <= stack'[i].ends /\ stack'[i].alone = FALSE
  BY <1>1, <1>2, DisturbedFacts DEF MemoryInv, StackSound
<1>. QED BY <1>3 DEF StackSound

\* The call that ends.
LEMMA PopFacts ==
  ASSUME MemoryInv, stack # <<>>, Entries!Pop
  PROVE  StackSound' /\ stack' \in Seq(Entries!Call) /\ Entries!Last(stack) \in Entries!Call
PROOF
<1>. DEFINE n == Len(stack)
            d == Entries!Disturbed
<1>1. stack \in Seq(Entries!Call) /\ n \in Nat /\ n # 0
  BY DEF MemoryInv
<1>2. d \in Seq(Entries!Call) /\ Len(d) = n
  BY <1>1, DisturbedFacts
<1>3. stack' = SubSeq(d, 1, n - 1)
  BY <1>2 DEF Entries!Pop, Entries!Front
<1>. HIDE DEF d, n
<1>4. n - 1 \in Nat /\ n - 1 <= n /\ \A i \in 1..(n - 1) : d[i] \in Entries!Call
  BY <1>1, <1>2
<1>5. stack' \in Seq(Entries!Call) /\ Len(stack') = n - 1 /\ \A i \in 1..(n - 1) : stack'[i] = d[i]
  <2>1. Len(stack') = IF 1 <= n - 1 THEN (n - 1) - 1 + 1 ELSE 0
    BY <1>3, <1>4, SubSeqProperties
  <2>2. stack' \in Seq(Entries!Call) /\ \A i \in 1..((n - 1) - 1 + 1) : stack'[i] = d[1 + i - 1]
    BY <1>3, <1>4, SubSeqProperties
  <2>3. \A i \in 1..(n - 1) : i \in 1..((n - 1) - 1 + 1) /\ 1 + i - 1 = i
    BY <1>4
  <2>. QED BY <1>4, <2>1, <2>2, <2>3
<1>6. StackSound'
  BY <1>4, <1>5, QuietStack DEF d, n
<1>7. Entries!Last(stack) \in Entries!Call
  BY <1>1 DEF Entries!Last, n
<1>. QED BY <1>5, <1>6, <1>7

\* A call that ends with something written.
LEMMA KeepKeeps ==
  ASSUME MemoryNumbers, MemoryInv, stack # <<>>, NEW m \in [Keys -> Entries!Entry], NEW freed, Entries!Keep(m, freed),
         Entries!Cardinality({x \in Keys : m[x] # Entries!NoEntry}) <= MaxEntries,
         \A x \in Keys : m[x] # Entries!NoEntry => \A s \in barred[x] \ freed[x] : BarredIn(m[x], s),
         Entries!Last(stack).alone => /\ ~Entries!Expired(m[Entries!Last(stack).key], Entries!Last(stack).now)
                               /\ Entries!CanSourceHitCache(m[Entries!Last(stack).key], Entries!Last(stack).s)
  PROVE  MemoryInv'
PROOF
<1>. DEFINE c == Entries!Last(stack)
            b(x) == IF m[x] # Entries!NoEntry THEN barred[x] \ freed[x] ELSE {}
<1>1. entries' = m /\ clock' = clock /\ Entries!Pop /\ stored' = (IF c.alone THEN <<c>> ELSE <<>>) /\ barred' = [x \in Keys |-> b(x)]
  BY DEF Entries!Keep
<1>2. StackSound' /\ stack' \in Seq(Entries!Call) /\ c \in Entries!Call
  BY <1>1, PopFacts
<1>3. \A x \in Keys : b(x) \in SUBSET Identities /\ \A s \in b(x) : BarredIn(m[x], s)
  BY DEF MemoryInv
<1>. HIDE DEF b
<1>4. barred' \in [Keys -> SUBSET Identities] /\ \A x \in Keys : \A s \in barred'[x] : BarredIn(entries'[x], s)
  BY <1>1, <1>3
<1>5. stored' \in Seq(Entries!Call)
  <2>1. <<>> \in Seq(Entries!Call) /\ <<c>> \in Seq(Entries!Call)
    BY <1>2
  <2>. QED BY <1>1, <2>1
<1>6. Entries!StoredIsThere'
  <2>1. Entries!Stored' = {x \in Keys : m[x] # Entries!NoEntry}
    BY <1>1 DEF Entries!Stored
  <2>2. Entries!Cardinality(Entries!Stored') <= MaxEntries
    BY <2>1
  <2>3. ASSUME stored' # <<>>
        PROVE  LET e == entries'[stored'[1].key] IN ~Entries!Expired(e, stored'[1].now) /\ Entries!CanSourceHitCache(e, stored'[1].s)
    <3>1. c.alone /\ stored'[1] = c
      BY <1>1, <2>3
    <3>. QED BY <1>1, <3>1
  <2>. QED BY <2>2, <2>3 DEF Entries!StoredIsThere
<1>7. clock' \in Nat /\ entries' \in [Keys -> Entries!Entry]
  BY <1>1 DEF MemoryInv
<1>. QED BY <1>2, <1>4, <1>5, <1>6, <1>7 DEF MemoryInv

\* A call that ends with its entry put in the store.
LEMMA SetKeeps ==
  ASSUME MemoryNumbers, MemoryInv, stack # <<>>, NEW e \in Entries!Entry, NEW freed, Entries!Keep(Entries!SetEntry(Entries!Last(stack).key, e), freed),
         \A s \in barred[Entries!Last(stack).key] \ freed[Entries!Last(stack).key] : BarredIn(e, s),
         Entries!Last(stack).alone => ~Entries!Expired(e, Entries!Last(stack).now) /\ Entries!CanSourceHitCache(e, Entries!Last(stack).s)
  PROVE  MemoryInv'
PROOF
<1>. DEFINE k == Entries!Last(stack).key
            m == Entries!SetEntry(k, e)
<1>1. k \in Keys
  <2>1. Entries!Last(stack) \in Entries!Call
    BY PopFacts DEF Entries!Keep
  <2>. QED BY <2>1 DEF Entries!Call
<1>2. entries \in [Keys -> Entries!Entry] /\ Entries!Cardinality(Entries!Stored) <= MaxEntries
  BY DEF MemoryInv, Entries!StoredIsThere
<1>3. /\ m \in [Keys -> Entries!Entry] /\ m[k].bindings = e.bindings /\ m[k].ends = e.ends /\ Others(m, k)
      /\ Entries!Cardinality({x \in Keys : m[x] # Entries!NoEntry}) <= MaxEntries
  <2>. HIDE DEF k
  <2>. QED BY <1>1, <1>2, SetFacts
<1>4. Entries!Keep(m, freed)
  OBVIOUS
<1>5. \A s \in barred[k] \ freed[k] : BarredIn(m[k], s)
  <2>. HIDE DEF m
  <2>. QED BY <1>3, SameBindings
<1>6. Entries!Last(stack).alone => ~Entries!Expired(m[k], Entries!Last(stack).now) /\ Entries!CanSourceHitCache(m[k], Entries!Last(stack).s)
  <2>. HIDE DEF m
  <2>1. Entries!Expired(m[k], Entries!Last(stack).now) <=> Entries!Expired(e, Entries!Last(stack).now)
    BY <1>3 DEF Entries!Expired
  <2>2. Entries!CanSourceHitCache(m[k], Entries!Last(stack).s) <=> Entries!CanSourceHitCache(e, Entries!Last(stack).s)
    BY <1>3, SameBindings
  <2>. QED BY <2>1, <2>2
<1>. HIDE DEF m
<1>7. ASSUME NEW x \in Keys, m[x] # Entries!NoEntry, NEW s \in barred[x] \ freed[x] PROVE BarredIn(m[x], s)
  <2>1. CASE x = k
    BY <1>5, <1>7, <2>1
  <2>2. CASE x # k
    <3>1. m[x].bindings = entries[x].bindings
      BY <1>3, <1>7, <2>2 DEF Others
    <3>2. BarredIn(entries[x], s)
      BY <1>7 DEF MemoryInv
    <3>. QED BY <3>1, <3>2, SameBindings
  <2>. QED BY <2>1, <2>2
<1>. QED BY <1>3, <1>4, <1>6, <1>7, KeepKeeps

\* The call that ends, and what it read when it was alone.
LEMMA EndingFacts ==
  ASSUME MemoryInv, stack # <<>>, Entries!Pop
  PROVE  /\ Entries!Last(stack) \in Entries!Call /\ Entries!Last(stack).now <= Entries!Last(stack).ends
         /\ Entries!Last(stack).alone => ReadHolds(Entries!Last(stack))
PROOF
<1>1. stack \in Seq(Entries!Call) /\ Len(stack) \in Nat /\ Len(stack) # 0
  BY DEF MemoryInv
<1>2. Len(stack) \in 1..Len(stack)
  BY <1>1
<1>. QED BY <1>2, PopFacts DEF MemoryInv, StackSound, Entries!Last

\* An entry made anew.
LEMMA AnewKeeps ==
  ASSUME MemoryNumbers, MemoryInv, stack # <<>>, Entries!Anew(Entries!Last(stack))
  PROVE  MemoryInv'
PROOF
<1>. DEFINE c == Entries!Last(stack)
            e == Entries!BuildEntry(c)
            freed == [Entries!Nobody EXCEPT ![c.key] = Identities]
<1>1. Entries!Keep(Entries!SetEntry(c.key, e), freed) /\ Entries!Pop
  BY DEF Entries!Anew, Entries!Keep
<1>2. c \in Entries!Call /\ c.now <= c.ends /\ c.key \in Keys /\ c.s \in Identities /\ c.now \in Nat /\ c.ends \in Nat
  BY <1>1, EndingFacts DEF Entries!Call
<1>. HIDE DEF c
<1>3. e.bindings = <<[s |-> c.s, revoked |-> FALSE]>> /\ e.ends = c.ends
  BY DEF Entries!BuildEntry, Entries!Bound
<1>4. e.bindings \in Seq(Entries!Binding) /\ Entries!CanSourceHitCache(e, c.s)
  <2>. HIDE DEF e
  <2>. QED BY <1>2, <1>3, BuildFacts
<1>5. e \in Entries!Entry
  BY <1>2, <1>4 DEF Entries!BuildEntry, Entries!Entry
<1>. HIDE DEF e
<1>6. ~Entries!Expired(e, c.now)
  BY <1>2, <1>3 DEF Entries!Expired
<1>7. freed[c.key] = Identities /\ barred[c.key] \subseteq Identities
  BY <1>2 DEF Entries!Nobody, MemoryInv
<1>8. \A s \in barred[c.key] \ freed[c.key] : BarredIn(e, s)
  BY <1>7
<1>. HIDE DEF freed
<1>. QED BY <1>1, <1>4, <1>5, <1>6, <1>8, SetKeeps DEF c

\* A binding added to the entry that is there.
LEMMA AppendKeeps ==
  ASSUME MemoryNumbers, MemoryInv, stack # <<>>, Entries!Last(stack).key \in Entries!Stored,
         ~Entries!Expired(entries[Entries!Last(stack).key], Entries!Last(stack).now),
         Entries!Last(stack).alone => ~Entries!HasBinding(entries[Entries!Last(stack).key], Entries!Last(stack).s),
         Entries!Keep(Entries!SetEntry(Entries!Last(stack).key, Entries!Append_(entries[Entries!Last(stack).key], Entries!Last(stack))), Entries!Nobody)
  PROVE  MemoryInv'
PROOF
<1>. DEFINE c == Entries!Last(stack)
            o == entries[c.key]
            e == Entries!Append_(o, c)
<1>1. Entries!Pop
  BY DEF Entries!Keep
<1>2. c \in Entries!Call /\ c.key \in Keys /\ c.s \in Identities
  BY <1>1, EndingFacts DEF Entries!Call
<1>3. o \in Entries!Entry /\ o.bindings \in Seq(Entries!Binding) /\ \A s \in barred[c.key] : BarredIn(o, s)
  BY <1>2 DEF MemoryInv, Entries!Entry
<1>. HIDE DEF c, o
<1>4. e.bindings = Append(o.bindings, [s |-> c.s, revoked |-> FALSE]) /\ e.ends = o.ends
  BY <1>3 DEF Entries!Append_, Entries!Bound, Entries!Entry
<1>5. /\ e.bindings \in Seq(Entries!Binding) /\ (\A s : BarredIn(o, s) => BarredIn(e, s))
      /\ ~Entries!HasBinding(o, c.s) => Entries!CanSourceHitCache(e, c.s)
  <2>. HIDE DEF e
  <2>. QED BY <1>2, <1>3, <1>4, AppendFacts
<1>6. e \in Entries!Entry
  <2>1. [s |-> c.s, revoked |-> FALSE] \in Entries!Binding
    BY <1>2 DEF Entries!Binding
  <2>2. Append(o.bindings, [s |-> c.s, revoked |-> FALSE]) \in Seq(Entries!Binding)
    BY <1>3, <2>1
  <2>. QED BY <1>3, <2>2 DEF Entries!Append_, Entries!Bound, Entries!Entry
<1>. HIDE DEF e
<1>7. ~Entries!Expired(e, c.now)
  BY <1>4 DEF Entries!Expired, o, c
<1>8. c.alone => Entries!CanSourceHitCache(e, c.s)
  BY <1>5 DEF o, c
<1>9. Entries!Keep(Entries!SetEntry(c.key, e), Entries!Nobody)
  BY DEF c, o, e
<1>10. \A s \in barred[c.key] \ Entries!Nobody[c.key] : BarredIn(e, s)
  BY <1>3, <1>5
<1>. QED BY <1>6, <1>7, <1>8, <1>9, <1>10, SetKeeps DEF c

\* The end of a refresh.
LEMMA RefreshKeeps == ASSUME MemoryNumbers, MemoryInv, Entries!FinishRefresh PROVE MemoryInv'
PROOF
<1>1. CASE Entries!Last(stack).key \notin Entries!Stored
  BY <1>1, AnewKeeps DEF Entries!FinishRefresh
<1>2. CASE Entries!Last(stack).key \in Entries!Stored
  <2>. DEFINE c == Entries!Last(stack)
              o == entries[c.key]
              e == Entries!Refreshed(o, c)
              freed == [Entries!Nobody EXCEPT ![c.key] = {c.s}]
  <2>1. stack # <<>> /\ Entries!Keep(Entries!SetEntry(c.key, e), freed) /\ Entries!Pop
    BY <1>2 DEF Entries!FinishRefresh, Entries!Keep
  <2>2. c \in Entries!Call /\ c.now <= c.ends /\ c.key \in Keys /\ c.s \in Identities /\ c.now \in Nat /\ c.ends \in Nat
    BY <2>1, EndingFacts DEF Entries!Call
  <2>3. o \in Entries!Entry /\ o.bindings \in Seq(Entries!Binding) /\ \A s \in barred[c.key] : BarredIn(o, s)
    BY <2>2 DEF MemoryInv, Entries!Entry
  <2>. HIDE DEF c, o
  <2>. DEFINE list == IF Entries!HasBinding(o, c.s)
                      THEN [i \in DOMAIN o.bindings |-> IF o.bindings[i].s = c.s THEN [s |-> c.s, revoked |-> FALSE] ELSE o.bindings[i]]
                      ELSE Append(o.bindings, [s |-> c.s, revoked |-> FALSE])
  <2>4. e = [Entries!BuildEntry(c) EXCEPT !.bindings = list]
    BY DEF Entries!Refreshed, Entries!Bound
  <2>. HIDE DEF list, e
  <2>5. /\ e.bindings = list /\ e.ends = c.ends /\ e.created = c.now /\ e.place = 0
        /\ e = [created |-> c.now, ends |-> c.ends, bindings |-> list, place |-> 0]
    BY <2>4 DEF Entries!BuildEntry
  <2>6. /\ e.bindings \in Seq(Entries!Binding) /\ (\A s : s # c.s /\ BarredIn(o, s) => BarredIn(e, s)) /\ Entries!CanSourceHitCache(e, c.s)
    <3>1. e.bindings = IF Entries!HasBinding(o, c.s)
                       THEN [i \in DOMAIN o.bindings |-> IF o.bindings[i].s = c.s THEN [s |-> c.s, revoked |-> FALSE] ELSE o.bindings[i]]
                       ELSE Append(o.bindings, [s |-> c.s, revoked |-> FALSE])
      BY <2>5 DEF list
    <3>. QED BY <2>2, <2>3, <3>1, RefreshFacts
  <2>7. e \in Entries!Entry /\ ~Entries!Expired(e, c.now)
    BY <2>2, <2>5, <2>6 DEF Entries!Entry, Entries!Expired
  <2>8. freed[c.key] = {c.s}
    BY <2>2 DEF Entries!Nobody
  <2>9. \A s \in barred[c.key] \ freed[c.key] : BarredIn(e, s)
    BY <2>3, <2>6, <2>8
  <2>10. Entries!Keep(Entries!SetEntry(c.key, e), freed)
    BY <2>1
  <2>. HIDE DEF freed
  <2>. QED BY <2>1, <2>6, <2>7, <2>9, <2>10, SetKeeps DEF c
<1>. QED BY <1>1, <1>2

\* The end of an execution for an entry that was there.
LEMMA FinishAppendKeeps == ASSUME MemoryNumbers, MemoryInv, Entries!FinishAppend PROVE MemoryInv'
PROOF
<1>. DEFINE c == Entries!Last(stack)
<1>1. stack # <<>> /\ c.branch = "append"
  BY DEF Entries!FinishAppend
<1>2. CASE c.key \in Entries!Stored /\ ~Entries!Expired(entries[c.key], c.now)
  <2>1. Entries!Keep(Entries!SetEntry(c.key, Entries!Append_(entries[c.key], c)), Entries!Nobody) /\ Entries!Pop
    BY <1>2 DEF Entries!FinishAppend, Entries!Keep
  <2>2. c.alone => ~Entries!HasBinding(entries[c.key], c.s)
    BY <1>1, <2>1, EndingFacts DEF ReadHolds
  <2>. QED BY <1>1, <1>2, <2>1, <2>2, AppendKeeps
<1>3. CASE ~(c.key \in Entries!Stored /\ ~Entries!Expired(entries[c.key], c.now))
  BY <1>1, <1>3, AnewKeeps DEF Entries!FinishAppend
<1>. QED BY <1>2, <1>3

\* The end of an execution for an entry that was not there.
LEMMA FinishCreateKeeps == ASSUME MemoryNumbers, MemoryInv, Entries!FinishCreate PROVE MemoryInv'
PROOF
<1>. DEFINE c == Entries!Last(stack)
<1>1. stack # <<>> /\ c.branch = "create"
  BY DEF Entries!FinishCreate
<1>2. CASE c.key \notin Entries!Stored \/ Entries!Expired(entries[c.key], c.now)
  BY <1>1, <1>2, AnewKeeps DEF Entries!FinishCreate
<1>3. CASE ~(c.key \notin Entries!Stored \/ Entries!Expired(entries[c.key], c.now))
  <2>1. Entries!Pop
    BY <1>3 DEF Entries!FinishCreate, Entries!Keep
  <2>2. ~c.alone
    BY <1>1, <1>3, <2>1, EndingFacts DEF ReadHolds
  <2>3. CASE Entries!HasBinding(entries[c.key], c.s)
    <3>1. Entries!Keep(entries, Entries!Nobody)
      BY <1>3, <2>3 DEF Entries!FinishCreate
    <3>2. Entries!Stored = {x \in Keys : entries[x] # Entries!NoEntry} /\ Entries!Cardinality(Entries!Stored) <= MaxEntries /\ entries \in [Keys -> Entries!Entry]
      BY DEF Entries!Stored, MemoryInv, Entries!StoredIsThere
    <3>3. \A x \in Keys : entries[x] # Entries!NoEntry => \A s \in barred[x] \ Entries!Nobody[x] : BarredIn(entries[x], s)
      BY DEF MemoryInv
    <3>. QED BY <1>1, <2>2, <3>1, <3>2, <3>3, KeepKeeps
  <2>4. CASE ~Entries!HasBinding(entries[c.key], c.s)
    <3>1. Entries!Keep(Entries!SetEntry(c.key, Entries!Append_(entries[c.key], c)), Entries!Nobody)
      BY <1>3, <2>4 DEF Entries!FinishCreate
    <3>. QED BY <1>1, <1>3, <2>2, <3>1, AppendKeeps
  <2>. QED BY <2>3, <2>4
<1>. QED BY <1>2, <1>3

\* What leaves the store as it is, and answers nothing "stored".
LEMMA StoreKeeps ==
  ASSUME MemoryInv, entries' = entries, barred' = barred, clock' \in Nat, stored' = <<>>,
         stack' \in Seq(Entries!Call), StackSound'
  PROVE  MemoryInv'
PROOF
<1>1. Entries!Stored' = Entries!Stored
  BY DEF Entries!Stored
<1>2. Entries!StoredIsThere'
  BY <1>1 DEF MemoryInv, Entries!StoredIsThere
<1>3. stored' \in Seq(Entries!Call)
  OBVIOUS
<1>. QED BY <1>2, <1>3 DEF MemoryInv

\* What holds of the calls under way depends on the stack and the entries only.
LEMMA SameStack == ASSUME MemoryInv, stack' = stack, entries' = entries PROVE StackSound'
PROOF
<1>1. Entries!Stored' = Entries!Stored
  BY DEF Entries!Stored
<1>2. \A c : ReadHolds(c)' <=> ReadHolds(c)
  BY <1>1 DEF ReadHolds
<1>. QED BY <1>1 DEF MemoryInv, StackSound, ReadHolds

\* All the calls under way are disturbed.
LEMMA DisturbedKeeps == ASSUME MemoryInv, stack' = Entries!Disturbed PROVE StackSound' /\ stack' \in Seq(Entries!Call)
PROOF
<1>1. stack \in Seq(Entries!Call) /\ Len(stack) \in Nat
  BY DEF MemoryInv
<1>2. Entries!Disturbed \in Seq(Entries!Call) /\ Len(Entries!Disturbed) = Len(stack)
  BY <1>1, DisturbedFacts
<1>3. \A i \in 1..Len(stack') : stack'[i] = Entries!Disturbed[i]
  OBVIOUS
<1>. QED BY <1>1, <1>2, <1>3, QuietStack

\* A call that begins its execution: what it read is so.
LEMMA PushKeeps ==
  ASSUME MemoryInv, entries' = entries, NEW c \in Entries!Call, c.now <= c.ends, ReadHolds(c), Entries!Push(c)
  PROVE  StackSound' /\ stack' \in Seq(Entries!Call)
PROOF
<1>. DEFINE n == Len(stack)
            d == Entries!Disturbed
<1>1. stack \in Seq(Entries!Call) /\ n \in Nat
  BY DEF MemoryInv
<1>2. /\ d \in Seq(Entries!Call) /\ Len(d) = n
      /\ \A i \in 1..n : d[i].alone = FALSE /\ d[i].now <= d[i].ends
  BY <1>1, DisturbedFacts DEF MemoryInv, StackSound
<1>3. stack' = Append(d, c)
  BY DEF Entries!Push
<1>. HIDE DEF d, n
<1>4. /\ stack' \in Seq(Entries!Call) /\ Len(stack') = n + 1 /\ stack'[n + 1] = c
      /\ \A i \in 1..n : stack'[i] = d[i]
  BY <1>1, <1>2, <1>3, AppendProperties
<1>5. Entries!Stored' = Entries!Stored
  BY DEF Entries!Stored
<1>6. ASSUME NEW i \in 1..(n + 1)
      PROVE  /\ stack'[i].now <= stack'[i].ends
             /\ stack'[i].alone => i = n + 1
  <2>1. CASE i \in 1..n
    BY <1>2, <1>4, <2>1
  <2>2. CASE i = n + 1
    BY <1>4, <2>2
  <2>. QED BY <1>1, <2>1, <2>2
<1>7. StackSound'
  BY <1>1, <1>4, <1>5, <1>6 DEF StackSound, ReadHolds
<1>. QED BY <1>4, <1>7

\* processDocumentCache() up to its execution.
LEMMA MemoryBeginKeeps ==
  ASSUME MemoryNumbers, MemoryInv, NEW k \in Keys, NEW s \in Identities, NEW mode \in {"use", "refresh", "bypass"},
         NEW ttl \in 0..MaxTTL, NEW readable \in BOOLEAN, Entries!Begin(k, s, mode, ttl, readable)
  PROVE  MemoryInv'
PROOF
<1>. DEFINE branch == IF mode # "use" THEN mode ELSE IF readable THEN Entries!UseBranch(k, s) ELSE "unread"
            c == [key |-> k, s |-> s, now |-> clock, ends |-> clock + ttl, alone |-> TRUE, branch |-> branch]
<1>1. UNCHANGED <<clock, entries, barred>> /\ clock \in Nat /\ ttl \in Nat
  BY DEF Entries!Begin, MemoryInv, MemoryNumbers
<1>2. CASE branch \in {"hit", "bypass", "unread", "revoked"}
  <2>1. stack' = Entries!Disturbed /\ stored' = <<>>
    BY <1>2 DEF Entries!Begin
  <2>. QED BY <1>1, <2>1, DisturbedKeeps, StoreKeeps
<1>3. CASE branch \notin {"hit", "bypass", "unread", "revoked"}
  <2>1. Entries!Push(c) /\ stored' = <<>>
    BY <1>3 DEF Entries!Begin, Entries!Push
  <2>2. branch \in {"refresh", "append", "create"}
    BY <1>3 DEF Entries!UseBranch
  <2>3. /\ branch = "append" => k \in Entries!Stored /\ ~Entries!Expired(entries[k], clock) /\ ~Entries!HasBinding(entries[k], s)
        /\ branch = "create" => k \notin Entries!Stored \/ Entries!Expired(entries[k], clock)
    <3>1. CASE mode # "use"
      BY <3>1
    <3>2. CASE mode = "use"
      <4>1. readable /\ branch = Entries!UseBranch(k, s)
        BY <1>3, <3>2
      <4>2. Entries!UseBranch(k, s) = "append" => k \in Entries!Stored /\ ~Entries!Expired(entries[k], clock) /\ ~Entries!HasBinding(entries[k], s)
        BY DEF Entries!UseBranch
      <4>3. Entries!UseBranch(k, s) = "create" => k \notin Entries!Stored \/ Entries!Expired(entries[k], clock)
        BY DEF Entries!UseBranch
      <4>. QED BY <4>1, <4>2, <4>3
    <3>. QED BY <3>1, <3>2
  <2>. HIDE DEF branch
  <2>4. c \in Entries!Call /\ c.now <= c.ends
    BY <1>1, <2>2 DEF Entries!Call
  <2>5. ReadHolds(c)
    BY <2>3 DEF ReadHolds
  <2>. HIDE DEF c
  <2>6. StackSound' /\ stack' \in Seq(Entries!Call)
    BY <1>1, <2>1, <2>4, <2>5, PushKeeps
  <2>. QED BY <1>1, <2>1, <2>6, StoreKeeps
<1>. QED BY <1>2, <1>3

\* A revocation, in every entry.
LEMMA RevokeKeeps == ASSUME MemoryNumbers, MemoryInv, NEW s \in Identities, Entries!RevokeSourceBinding(s) PROVE MemoryInv'
PROOF
<1>. DEFINE f(k) == Entries!RevokeBinding(entries[k], s)
            list(k) == [i \in DOMAIN entries[k].bindings |->
                           [entries[k].bindings[i] EXCEPT !.revoked = entries[k].bindings[i].revoked \/ entries[k].bindings[i].s = s]]
            b(k) == IF Entries!HasBinding(entries[k], s) THEN barred[k] \cup {s} ELSE barred[k]
<1>1. /\ entries' = [k \in Keys |-> f(k)] /\ barred' = [k \in Keys |-> b(k)]
      /\ stack' = Entries!Disturbed /\ stored' = <<>> /\ clock' = clock
  BY DEF Entries!RevokeSourceBinding
<1>2. entries \in [Keys -> Entries!Entry] /\ barred \in [Keys -> SUBSET Identities] /\ clock \in Nat
  BY DEF MemoryInv
<1>3. ASSUME NEW k \in Keys
      PROVE  /\ f(k) \in Entries!Entry /\ \A x : BarredIn(entries[k], x) => BarredIn(f(k), x)
             /\ Entries!HasBinding(entries[k], s) => BarredIn(f(k), s)
             /\ entries[k] = Entries!NoEntry => f(k) = Entries!NoEntry
  <2>. DEFINE e == entries[k]
  <2>1. e \in Entries!Entry /\ e.bindings \in Seq(Entries!Binding)
    BY <1>2 DEF Entries!Entry
  <2>2. f(k) = [e EXCEPT !.bindings = list(k)]
    BY DEF Entries!RevokeBinding
  <2>. HIDE DEF f, list
  <2>3. f(k).bindings = list(k) /\ f(k).ends = e.ends
    BY <2>1, <2>2 DEF Entries!Entry
  <2>4. f(k).bindings = [i \in DOMAIN e.bindings |-> [e.bindings[i] EXCEPT !.revoked = e.bindings[i].revoked \/ e.bindings[i].s = s]]
    BY <2>3 DEF list
  <2>5. /\ f(k).bindings \in Seq(Entries!Binding)
        /\ \A x : BarredIn(e, x) => BarredIn(f(k), x)
        /\ Entries!HasBinding(e, s) => BarredIn(f(k), s)
    <3>. DEFINE g == f(k)
    <3>1. g.bindings = [i \in DOMAIN e.bindings |-> [e.bindings[i] EXCEPT !.revoked = e.bindings[i].revoked \/ e.bindings[i].s = s]]
      BY <2>4
    <3>. HIDE DEF g, e
    <3>2. /\ g.bindings \in Seq(Entries!Binding)
          /\ \A x : BarredIn(e, x) => BarredIn(g, x)
          /\ Entries!HasBinding(e, s) => BarredIn(g, s)
      BY <2>1, <3>1, RevokeFacts
    <3>. QED BY <3>2 DEF g
  <2>6. f(k) \in Entries!Entry
    BY <2>1, <2>2, <2>3, <2>5 DEF Entries!Entry
  <2>7. e = Entries!NoEntry => f(k) = Entries!NoEntry
    <3>1. ASSUME e = Entries!NoEntry PROVE f(k) = Entries!NoEntry
      <4>1. e.bindings = <<>>
        BY <3>1 DEF Entries!NoEntry
      <4>2. f(k).bindings = <<>>
        BY <2>4, <4>1
      <4>3. list(k) = <<>>
        BY <2>3, <4>2
      <4>. QED BY <2>2, <3>1, <4>3 DEF Entries!NoEntry
    <3>. QED BY <3>1
  <2>. QED BY <2>5, <2>6, <2>7
<1>4. ASSUME NEW k \in Keys
      PROVE  b(k) \in SUBSET Identities /\ \A x \in b(k) : BarredIn(f(k), x)
  <2>1. \A x \in barred[k] : BarredIn(entries[k], x)
    BY DEF MemoryInv
  <2>. HIDE DEF f
  <2>. QED BY <1>2, <1>3, <2>1
<1>. HIDE DEF f, b
<1>5. entries' \in [Keys -> Entries!Entry] /\ \A k \in Keys : entries'[k] = f(k)
  BY <1>1, <1>3
<1>6. barred' \in [Keys -> SUBSET Identities] /\ \A k \in Keys : \A x \in barred'[k] : BarredIn(entries'[k], x)
  BY <1>1, <1>4, <1>5
<1>7. Entries!Cardinality(Entries!Stored') <= MaxEntries
  <2>1. Entries!Stored' \subseteq Entries!Stored
    BY <1>3, <1>5 DEF Entries!Stored
  <2>2. IsFiniteSet(Entries!Stored)
    BY FS_Subset, MemoryCardinality DEF Entries!Stored, MemoryNumbers
  <2>3. Entries!Cardinality(Entries!Stored') <= Entries!Cardinality(Entries!Stored) /\ Entries!Cardinality(Entries!Stored') \in Nat /\ Entries!Cardinality(Entries!Stored) \in Nat
    BY <2>1, <2>2, FS_Subset, FS_CardinalityType, MemoryCardinality
  <2>. QED BY <2>3 DEF MemoryInv, Entries!StoredIsThere, MemoryNumbers
<1>8. StackSound' /\ stack' \in Seq(Entries!Call)
  BY <1>1, DisturbedKeeps
<1>9. stored' \in Seq(Entries!Call) /\ Entries!StoredIsThere'
  BY <1>1, <1>7 DEF Entries!StoredIsThere
<1>. QED BY <1>1, <1>2, <1>5, <1>6, <1>8, <1>9 DEF MemoryInv

\* The sweep of what is over.
LEMMA SweepKeeps == ASSUME MemoryNumbers, MemoryInv, Entries!SweepExpired PROVE MemoryInv'
PROOF
<1>1. /\ entries' = Entries!Only(Entries!Live) /\ barred' = [k \in Keys |-> IF k \in Entries!Live THEN barred[k] ELSE {}]
      /\ stack' = Entries!Disturbed /\ stored' = <<>> /\ clock' = clock
  BY DEF Entries!SweepExpired
<1>2. entries \in [Keys -> Entries!Entry] /\ barred \in [Keys -> SUBSET Identities] /\ clock \in Nat /\ Entries!Live \in SUBSET Entries!Stored
  BY DEF MemoryInv, Entries!Live
<1>3. /\ entries' \in [Keys -> Entries!Entry] /\ \A k \in Entries!Live : entries'[k].bindings = entries[k].bindings
      /\ \A k \in Keys \ Entries!Live : entries'[k] = Entries!NoEntry
  BY <1>1, <1>2, OnlyFacts
<1>4. barred' \in [Keys -> SUBSET Identities] /\ \A k \in Keys : \A x \in barred'[k] : k \in Entries!Live /\ x \in barred[k]
  BY <1>1, <1>2
<1>5. \A k \in Keys : \A x \in barred'[k] : BarredIn(entries'[k], x)
  <2>1. ASSUME NEW k \in Keys, NEW x \in barred'[k] PROVE BarredIn(entries'[k], x)
    <3>1. BarredIn(entries[k], x) /\ entries'[k].bindings = entries[k].bindings
      BY <1>3, <1>4, <2>1 DEF MemoryInv
    <3>. QED BY <3>1, SameBindings
  <2>. QED BY <2>1
<1>6. Entries!Cardinality(Entries!Stored') <= MaxEntries
  <2>1. Entries!Stored' \subseteq Entries!Stored
    BY <1>2, <1>3 DEF Entries!Stored
  <2>2. IsFiniteSet(Entries!Stored)
    BY FS_Subset, MemoryCardinality DEF Entries!Stored, MemoryNumbers
  <2>3. Entries!Cardinality(Entries!Stored') <= Entries!Cardinality(Entries!Stored) /\ Entries!Cardinality(Entries!Stored') \in Nat /\ Entries!Cardinality(Entries!Stored) \in Nat
    BY <2>1, <2>2, FS_Subset, FS_CardinalityType, MemoryCardinality
  <2>. QED BY <2>3 DEF MemoryInv, Entries!StoredIsThere, MemoryNumbers
<1>7. StackSound' /\ stack' \in Seq(Entries!Call)
  BY <1>1, DisturbedKeeps
<1>8. stored' \in Seq(Entries!Call) /\ Entries!StoredIsThere'
  BY <1>1, <1>6 DEF Entries!StoredIsThere
<1>. QED BY <1>1, <1>2, <1>3, <1>4, <1>5, <1>7, <1>8 DEF MemoryInv

\* The store is empty at first.
LEMMA MemoryInit == MemoryNumbers /\ Entries!Init => MemoryInv
PROOF
<1>. SUFFICES ASSUME MemoryNumbers, Entries!Init PROVE MemoryInv
  OBVIOUS
<1>1. /\ clock = 1 /\ entries = [k \in Keys |-> Entries!NoEntry] /\ stack = <<>> /\ stored = <<>>
      /\ barred = [k \in Keys |-> {}]
  BY DEF Entries!Init
<1>2. <<>> \in Seq(Entries!Binding) /\ <<>> \in Seq(Entries!Call)
  OBVIOUS
<1>3. Entries!NoEntry \in Entries!Entry
  BY <1>2 DEF Entries!NoEntry, Entries!Entry
<1>. HIDE DEF Entries!NoEntry
<1>4. Entries!Stored = {}
  BY <1>1 DEF Entries!Stored
<1>5. Entries!StoredIsThere
  BY <1>1, <1>4, FS_EmptySet, MemoryCardinality DEF Entries!StoredIsThere, MemoryNumbers
<1>6. StackSound
  BY <1>1 DEF StackSound
<1>. QED BY <1>1, <1>2, <1>3, <1>5, <1>6 DEF MemoryInv

\* Every step keeps the in-memory cache's invariant.
LEMMA MemoryNext == MemoryNumbers /\ MemoryInv /\ [Entries!Next]_(Entries!vars) => MemoryInv'
PROOF
<1>. SUFFICES ASSUME MemoryNumbers, MemoryInv, [Entries!Next]_(Entries!vars) PROVE MemoryInv'
  OBVIOUS
<1>1. CASE UNCHANGED Entries!vars
  <2>1. Entries!Stored' = Entries!Stored
    BY <1>1 DEF Entries!Stored, Entries!vars
  <2>2. Entries!StoredIsThere'
    BY <1>1, <2>1 DEF MemoryInv, Entries!StoredIsThere, Entries!vars
  <2>3. StackSound'
    BY <1>1, SameStack DEF Entries!vars
  <2>. QED BY <1>1, <2>2, <2>3 DEF MemoryInv, Entries!vars
<1>2. CASE Entries!Reject
  <2>1. StackSound'
    BY <1>2, SameStack DEF Entries!Reject
  <2>. QED BY <1>2, <2>1, StoreKeeps DEF Entries!Reject, MemoryInv
<1>3. CASE Entries!Tick
  <2>1. StackSound'
    BY <1>3, SameStack DEF Entries!Tick
  <2>. QED BY <1>3, <2>1, StoreKeeps DEF Entries!Tick, MemoryInv
<1>4. CASE Entries!Process
  <2>1. PICK k \in Keys, s \in Identities, ttl \in 0..MaxTTL, readable \in BOOLEAN :
          \E mode \in {Entries!EffectiveMode(m, enabled, excluded) :
                         m \in {"use", "refresh", "bypass"}, enabled \in BOOLEAN, excluded \in BOOLEAN} :
            Entries!Begin(k, s, mode, ttl, readable)
    BY <1>4 DEF Entries!Process
  <2>2. PICK m \in {"use", "refresh", "bypass"}, enabled \in BOOLEAN, excluded \in BOOLEAN :
          Entries!Begin(k, s, Entries!EffectiveMode(m, enabled, excluded), ttl, readable)
    BY <2>1
  <2>3. Entries!EffectiveMode(m, enabled, excluded) \in {"use", "refresh", "bypass"}
    BY DEF Entries!EffectiveMode
  <2>. QED BY <2>2, <2>3, MemoryBeginKeeps
<1>5. CASE Entries!FinishUnstored
  <2>1. StackSound' /\ stack' \in Seq(Entries!Call)
    BY <1>5, PopFacts DEF Entries!FinishUnstored
  <2>. QED BY <1>5, <2>1, StoreKeeps DEF Entries!FinishUnstored, MemoryInv
<1>. QED BY <1>1, <1>2, <1>3, <1>4, <1>5, RefreshKeeps, FinishAppendKeeps, FinishCreateKeeps, RevokeKeeps, SweepKeeps DEF Entries!Next

\* What the in-memory cache keeps, in every state.
THEOREM MemoryInvariance == ASSUME MemoryNumbers PROVE Entries!Spec => []MemoryInv
PROOF
<1>1. Entries!Init => MemoryInv
  BY MemoryInit
<1>2. MemoryInv /\ [Entries!Next]_(Entries!vars) => MemoryInv'
  BY MemoryNext
<1>. QED BY <1>1, <1>2, PTL DEF Entries!Spec

\* Every entry, and every call that waits for an execution, keeps its shape
\* (InMemoryDocumentCacheStore).
THEOREM MemoryTyped == ASSUME MemoryNumbers PROVE Entries!Spec => []Entries!TypeOK
PROOF
<1>1. MemoryInv => Entries!TypeOK
  BY DEF MemoryInv, Entries!TypeOK
<1>. QED BY <1>1, MemoryInvariance, PTL

\* While an entry of the in-memory cache lasts, a source revoked in it hits it only after
\* a refresh of its own (revokeBinding, and the writes of processDocumentCache).
THEOREM MemoryRevocationHolds == ASSUME MemoryNumbers PROVE Entries!Spec => []Entries!RevokedStaysRevoked
PROOF
<1>1. MemoryInv => Entries!RevokedStaysRevoked
  BY BarredMisses DEF MemoryInv, Entries!RevokedStaysRevoked
<1>. QED BY <1>1, MemoryInvariance, PTL

\* "stored" is true of a call nothing interrupted, and the store never outgrows its limit
\* (InMemoryDocumentCacheStore.set).
THEOREM MemoryHoldsStored == ASSUME MemoryNumbers PROVE Entries!Spec => []Entries!StoredIsThere
PROOF
<1>1. MemoryInv => Entries!StoredIsThere
  BY DEF MemoryInv
<1>. QED BY <1>1, MemoryInvariance, PTL

-----------------------------------------------------------------------------
\* What is derived from documents, side by side (DerivedParts). A behaviour is one of one
\* part, and the others do nothing in it, so what was proved of each holds of them together.
LEMMA CorporaRun == DerivedSpec => Spec
PROOF
<1>1. DerivedInit => Init
  BY DEF DerivedInit
<1>2. [DerivedNext]_derivedVars => [Next]_vars
  BY DEF DerivedNext, derivedVars
<1>. QED BY <1>1, <1>2, PTL DEF DerivedSpec, Spec

LEMMA CacheRun == DerivedSpec => (Cache!Spec /\ [](part = "cache")) \/ []~(part = "cache")
PROOF
<1>1. DerivedInit /\ part = "cache" => Cache!Init
  BY DEF DerivedInit
<1>2. [DerivedNext]_derivedVars /\ part = "cache" => [Cache!Next]_(Cache!vars) /\ (part = "cache")'
  BY DEF DerivedNext, derivedVars, cacheVars, Cache!vars
<1>3. [DerivedNext]_derivedVars /\ ~(part = "cache") => ~(part = "cache")'
  BY DEF DerivedNext, derivedVars
<1>. QED BY <1>1, <1>2, <1>3, PTL DEF DerivedSpec, Cache!Spec

LEMMA StoreRun == DerivedSpec => (Store!Spec /\ [](part = "memory")) \/ []~(part = "memory")
PROOF
<1>1. DerivedInit /\ part = "memory" => Store!Init
  BY DEF DerivedInit
<1>2. [DerivedNext]_derivedVars /\ part = "memory" => [Store!Next]_(Store!vars) /\ (part = "memory")'
  BY DEF DerivedNext, derivedVars, storeVars, Store!vars
<1>3. [DerivedNext]_derivedVars /\ ~(part = "memory") => ~(part = "memory")'
  BY DEF DerivedNext, derivedVars
<1>. QED BY <1>1, <1>2, <1>3, PTL DEF DerivedSpec, Store!Spec

LEMMA BridgeRun == DerivedSpec => (Bridge!Spec /\ [](part = "bridge")) \/ []~(part = "bridge")
PROOF
<1>1. DerivedInit /\ part = "bridge" => Bridge!Init
  BY DEF DerivedInit
<1>2. [DerivedNext]_derivedVars /\ part = "bridge" => [Bridge!Next]_(Bridge!vars) /\ (part = "bridge")'
  BY DEF DerivedNext, derivedVars, bridgeVars, Bridge!vars
<1>3. [DerivedNext]_derivedVars /\ ~(part = "bridge") => ~(part = "bridge")'
  BY DEF DerivedNext, derivedVars
<1>. QED BY <1>1, <1>2, <1>3, PTL DEF DerivedSpec, Bridge!Spec

LEMMA EntriesRun == DerivedSpec => (Entries!Spec /\ [](part = "entries")) \/ []~(part = "entries")
PROOF
<1>1. DerivedInit /\ part = "entries" => Entries!Init
  BY DEF DerivedInit
<1>2. [DerivedNext]_derivedVars /\ part = "entries" => [Entries!Next]_(Entries!vars) /\ (part = "entries")'
  BY DEF DerivedNext, derivedVars, entryVars, Entries!vars
<1>3. [DerivedNext]_derivedVars /\ ~(part = "entries") => ~(part = "entries")'
  BY DEF DerivedNext, derivedVars
<1>. QED BY <1>1, <1>2, <1>3, PTL DEF DerivedSpec, Entries!Spec

LEMMA GuardRun == DerivedSpec => (Guard!Spec /\ [](part = "guard")) \/ []~(part = "guard")
PROOF
<1>1. DerivedInit /\ part = "guard" => Guard!Init
  BY DEF DerivedInit
<1>2. [DerivedNext]_derivedVars /\ part = "guard" => [Guard!Next]_(Guard!vars) /\ (part = "guard")'
  BY DEF DerivedNext, derivedVars, guardVars, Guard!vars
<1>3. [DerivedNext]_derivedVars /\ ~(part = "guard") => ~(part = "guard")'
  BY DEF DerivedNext, derivedVars
<1>. QED BY <1>1, <1>2, <1>3, PTL DEF DerivedSpec, Guard!Spec

\* While the corpus store in memory runs, nothing changes that is not of it.
LEMMA StoreRest == part = "memory" /\ [DerivedNext]_derivedVars /\ UNCHANGED Store!vars => UNCHANGED derivedVars
BY DEF DerivedNext, derivedVars, Store!vars, storeVars

\* The state of everything derived has its shape.
THEOREM StateHolds == DerivedSpec => []StateOK
PROOF
<1>1. DerivedSpec => []TypeOK
  BY CorporaRun, TypeCorrect, PTL
<1>2. DerivedSpec => [](part = "cache" => Cache!TypeOK)
  BY CacheRun, Cache!TypeCorrect, PartsAssumption, PTL
<1>3. DerivedSpec => [](part = "memory" => Store!TypeOK)
  BY StoreRun, CorporaTyped, PartsAssumption, PTL
<1>4. DerivedSpec => [](part = "guard" => Guard!TypeOK)
  BY GuardRun, GuardTyped, PartsAssumption, PTL
<1>5. DerivedSpec => [](part = "bridge" => Bridge!TypeOK)
  BY BridgeRun, BridgeTyped, PartsAssumption, PTL
<1>6. DerivedSpec => [](part = "entries" => Entries!TypeOK)
  BY EntriesRun, MemoryTyped, PartsAssumption, PTL
<1>. QED BY <1>1, <1>2, <1>3, <1>4, <1>5, <1>6, PTL DEF StateOK

\* Nothing is searched, read or hit that was revoked, replaced or hidden when the call
\* began, in any of the stores and caches.
THEOREM ServedCurrent == DerivedSpec => []ServedIsCurrent
PROOF
<1>1. DerivedSpec => []NothingServedLate
  BY CorporaRun, ServedInTime, PTL
<1>2. DerivedSpec => [](part = "cache" => Cache!RevokedNeverHits)
  BY CacheRun, Cache!RevokedMisses, PartsAssumption, PTL
<1>3. DerivedSpec => [](part = "memory" => Store!SearchIsCurrent)
  BY StoreRun, SearchesAreCurrent, PartsAssumption, PTL
<1>4. DerivedSpec => [](part = "bridge" => Bridge!AcknowledgedRevocation)
  BY BridgeRun, RevocationHolds, PartsAssumption, PTL
<1>5. DerivedSpec => [](part = "entries" => Entries!RevokedStaysRevoked)
  BY EntriesRun, MemoryRevocationHolds, PartsAssumption, PTL
<1>. QED BY <1>1, <1>2, <1>3, <1>4, <1>5, PTL DEF ServedIsCurrent

\* Nothing comes back or is prolonged: a deleted corpus, a binding past the index that holds
\* its revocation, the expiry of a source.
THEOREM EndsKept == DerivedSpec => EndsAreKept
PROOF
<1>1. [DeletedStep]_vars => [DeletedStep]_derivedVars
  BY DEF DeletedStep, vars
<1>2. Cache!IndexOutlivesBindings' => [part = "cache" => Cache!IndexOutlivesBindings']_derivedVars
  OBVIOUS
<1>3. part = "memory" /\ [DerivedNext]_derivedVars /\ [Store!ExpiryStep]_(Store!vars) => [part = "memory" => Store!ExpiryStep]_derivedVars
  BY StoreRest
<1>4. /\ ~(part = "cache") => [part = "cache" => Cache!IndexOutlivesBindings']_derivedVars
      /\ ~(part = "memory") => [part = "memory" => Store!ExpiryStep]_derivedVars
  OBVIOUS
<1>. QED BY <1>1, <1>2, <1>3, <1>4, CorporaRun, DeletedForGood, CacheRun, Cache!IndexOutlives, StoreRun, ExpiriesShrink,
            PartsAssumption, PTL DEF EndsAreKept, DerivedSpec

\* What is reported is so: a complete deletion, one result for a key, a parse that fails for
\* no fault of the cache, a stored entry.
THEOREM OutcomesTrue == DerivedSpec => []OutcomesAreTrue
PROOF
<1>1. DerivedSpec => [](part = "memory" => Store!CompleteIsComplete)
  BY StoreRun, DeletedLeavesNothing, PartsAssumption, PTL
<1>2. DerivedSpec => [](part = "guard" => Guard!OneResult)
  BY GuardRun, OneResultPerKey, PartsAssumption, PTL
<1>3. DerivedSpec => [](part = "bridge" => Bridge!CacheNeverFailsAParse /\ Bridge!CommitsAreDecided)
  BY BridgeRun, CacheNeverFails, DecidedBefore, PartsAssumption, PTL
<1>4. DerivedSpec => [](part = "entries" => Entries!StoredIsThere)
  BY EntriesRun, MemoryHoldsStored, PartsAssumption, PTL
<1>. QED BY <1>1, <1>2, <1>3, <1>4, PTL DEF OutcomesAreTrue
=============================================================================
